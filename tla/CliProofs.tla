------------------------------ MODULE CliProofs ------------------------------
(***************************************************************************)
(* Proofs about Cli.  The invariant adds to the list being intact where    *)
(* main's walk over it can be, and what the reader's walks have behind     *)
(* them: a lookup the commands that differ from the word, a listing the    *)
(* commands printed.  That the list implements CommandTable follows.       *)
(***************************************************************************)
EXTENDS Cli, TLAPS

\* The nodes are the registrations of the program, of which there is one.
LEMMA Registrations ==
    /\ Len(Word) \in Nat /\ Len(Word) >= 1
    /\ Nodes = 1 .. Len(Word)
    /\ \A n \in Nodes : Word[n] \in Names
BY WordAssumption DEF Nodes

\* What main has written of the node it links, and where its walk is.
Making ==
    /\ main = "init" => reg = 1 /\ reader = "unborn"
    /\ main = "done" => reg = Len(Word)
    /\ main \in {"link", "walk"} => cmd[reg] = Word[reg] /\ next[reg] \in {NULL, WILD}
    /\ main = "walk" => tmp \in (1 .. linked) \cup {WILD}

\* A lookup has the commands before its cursor behind it; one that reads a wild
\* pointer has them all behind it, and main cannot link another behind that.
Searching ==
    reader = "search" =>
        /\ cursor \in (1 .. linked) \cup {WILD}
        /\ \A n \in 1 .. cursor - 1 : Word[n] # line
        /\ cursor = WILD => \A n \in 1 .. linked : Word[n] # line
        /\ cursor = WILD => linked >= 1 /\ next[linked] = WILD

\* A listing has printed the commands before the one it is at.
Listing ==
    reader = "list" =>
        /\ printed = [i \in 1 .. Len(printed) |-> i]
        /\ item \in (1 .. linked) \cup {NULL, WILD}
        /\ item \in 1 .. linked => item = Len(printed) + 1
        /\ item = NULL => Len(printed) \in atStart .. linked
        /\ atStart <= linked
        /\ line = "help"

Inv == TypeOK /\ ListIntact /\ Making /\ Searching /\ Listing

-----------------------------------------------------------------------------
\* How many commands are registered, at each place of main.
LEMMA LinkedRange ==
    ASSUME TypeOK
    PROVE  /\ linked \in 0 .. Len(Word) /\ reg \in 1 .. Len(Word)
           /\ main # "done" => linked = reg - 1
BY Registrations DEF TypeOK, linked

\* Every step keeps the types.
LEMMA TypeStep == Inv /\ [Next]_vars => TypeOK'
<1> SUFFICES ASSUME Inv, TypeOK, [Next]_vars PROVE TypeOK'
    BY DEF Inv
<1> USE Registrations DEF TypeOK, Pointer, Words, NULL, WILD
<1>1. CASE UNCHANGED vars
    BY <1>1 DEF vars, listVars, mainVars, readerVars
<1>2. CASE uni_cli_init
    BY <1>2 DEF uni_cli_init, listVars
<1>3. CASE Fill
    <2>1. reg \in Nodes /\ cmd' = [cmd EXCEPT ![reg] = Word[reg]]
        BY <1>3 DEF Fill
    <2>2. \E g \in Pointer : next' = [next EXCEPT ![reg] = g]
        BY <1>3, FreshAssumption DEF Fill
    <2>3. \E g \in Pointer : descript' = [descript EXCEPT ![reg] = g]
        <3>1. PICK g \in Fresh :
                descript' = [descript EXCEPT ![reg] = IF reg \in Described THEN reg ELSE g]
            BY <1>3 DEF Fill
        <3>2. (IF reg \in Described THEN reg ELSE g) \in Pointer
            BY <2>1, FreshAssumption
        <3> QED  BY <3>1, <3>2
    <2>4. main' = "link" /\ UNCHANGED <<head, reg, tmp, readerVars>>
        BY <1>3 DEF Fill
    <2>5. /\ cmd' \in [Nodes -> Names \cup {NoWord}]
          /\ next' \in [Nodes -> Pointer] /\ descript' \in [Nodes -> Pointer]
        BY <2>1, <2>2, <2>3
    <2> QED  BY <2>4, <2>5 DEF readerVars
<1>4. CASE LinkFirst \/ LinkLast
    <2>1. main' \in {"fill", "done"} /\ reg' \in Nodes
        BY <1>4 DEF LinkFirst, LinkLast, Registered
    <2>2. head' \in Pointer /\ next' \in [Nodes -> Pointer]
        BY <1>4 DEF LinkFirst, LinkLast
    <2>3. UNCHANGED <<cmd, descript, tmp, readerVars>>
        BY <1>4 DEF LinkFirst, LinkLast
    <2> QED  BY <2>1, <2>2, <2>3 DEF readerVars
<1>5. CASE StartWalk \/ Walk
    <2>1. tmp' \in Pointer
        <3>1. CASE StartWalk
            BY <3>1 DEF StartWalk
        <3>2. CASE Walk
            <4>1. tmp \in 1 .. linked /\ tmp' = next[tmp]
                BY <3>2 DEF Walk, Inv, Making
            <4>2. tmp \in Nodes
                BY <4>1, LinkedRange
            <4> QED  BY <4>1, <4>2
        <3> QED  BY <1>5, <3>1, <3>2
    <2>2. main' \in {"link", "walk"} /\ UNCHANGED <<listVars, reg, readerVars>>
        BY <1>5 DEF StartWalk, Walk
    <2> QED  BY <2>1, <2>2 DEF listVars, readerVars
<1>6. CASE FillCrash \/ WalkCrash \/ ReaderCrash
    BY <1>6 DEF FillCrash, WalkCrash, ReaderCrash, Die, listVars, mainVars
<1>7. CASE Input
    BY <1>7 DEF Input, GetEof, GetLine, After, listVars, mainVars
<1>8. CASE Lookup \/ SearchOn \/ SearchHit \/ SearchEnd \/ Return
    BY <1>8 DEF Lookup, SearchOn, SearchHit, SearchEnd, Return, Differs, listVars, mainVars
<1>9. CASE HelpStart \/ HelpItem \/ HelpEnd
    <2>1. linked \in 0 .. Len(Word)
        BY DEF linked
    <2>2. /\ printed' \in Seq(Nodes) /\ item' \in Pointer
          /\ atStart' \in 0 .. Len(Word) /\ reader' \in {"list", "getline"}
          /\ UNCHANGED <<listVars, mainVars, line, cursor, eof>>
        <3>1. CASE HelpStart
            BY <2>1, <3>1 DEF HelpStart
        <3>2. CASE HelpItem
            <4>1. item \in Nodes /\ printed' = Append(printed, item) /\ item' = next[item]
                BY <3>2 DEF HelpItem, Printable
            <4>2. printed' \in Seq(Nodes)
                BY <4>1
            <4>3. item' \in Pointer
                BY <4>1
            <4> QED  BY <3>2, <4>2, <4>3 DEF HelpItem
        <3>3. CASE HelpEnd
            BY <3>3 DEF HelpEnd
        <3> QED  BY <1>9, <3>1, <3>2, <3>3
    <2> QED  BY <2>2 DEF listVars, mainVars
<1> QED  BY <1>1, <1>2, <1>3, <1>4, <1>5, <1>6, <1>7, <1>8, <1>9
         DEF Next, MainStep, ReaderStep

-----------------------------------------------------------------------------
\* uni_cli.c:232-246: linking appends the node main has made, and nothing else.
LEMMA Links ==
    ASSUME Inv, LinkFirst \/ LinkLast
    PROVE  /\ linked' = linked + 1 /\ reg = linked + 1
           /\ main' \in {"fill", "done"} /\ (main' = "done" => reg' = Len(Word))
           /\ head' = 1 /\ cmd' = cmd
           /\ \A n \in 1 .. linked' :
                next'[n] \in IF n < linked' THEN {n + 1} ELSE {NULL, WILD}
           /\ UNCHANGED readerVars
<1> USE DEF NULL, WILD
<1>1. linked = reg - 1 /\ reg \in 1 .. Len(Word)
    BY LinkedRange DEF Inv, LinkFirst, LinkLast
<1>2. linked' = reg
    BY <1>1, Registrations DEF LinkFirst, LinkLast, Registered, linked
<1>3. /\ main' \in {"fill", "done"} /\ (main' = "done" => reg' = Len(Word))
      /\ cmd' = cmd /\ UNCHANGED readerVars
    BY DEF LinkFirst, LinkLast, Registered
<1>4. next[reg] \in {NULL, WILD}
    BY DEF Inv, Making, LinkFirst, LinkLast
<1>5. CASE LinkFirst
    <2>1. linked = 0 /\ reg = 1
        BY <1>1, <1>5 DEF LinkFirst, Inv, ListIntact
    <2> QED  BY <1>2, <1>3, <1>4, <1>5, <2>1 DEF LinkFirst
<1>6. CASE LinkLast
    <2>1. /\ tmp \in 1 .. linked /\ next[tmp] = NULL
          /\ next' = [next EXCEPT ![tmp] = reg] /\ head' = head
        BY <1>6 DEF LinkLast, Inv, Making
    <2>2. tmp = linked
        <3>1. next[tmp] \in IF tmp < linked THEN {tmp + 1} ELSE {NULL, WILD}
            BY <2>1 DEF Inv, ListIntact
        <3> QED  BY <1>1, <2>1, <3>1
    <2>3. head' = 1
        BY <1>1, <2>1 DEF Inv, ListIntact
    <2>4. \A n \in 1 .. reg : next'[n] = IF n = linked THEN reg ELSE next[n]
        BY <1>1, <2>1, <2>2, Registrations DEF Inv, TypeOK
    <2>5. \A n \in 1 .. linked : n < linked => next[n] = n + 1
        BY <1>1 DEF Inv, ListIntact
    <2> QED  BY <1>1, <1>2, <1>3, <1>4, <2>3, <2>4, <2>5
<1> QED  BY <1>5, <1>6

\* Every other step leaves the registered commands as they are.
LEMMA Stays ==
    ASSUME Inv, [Next]_vars, ~(LinkFirst \/ LinkLast)
    PROVE  /\ linked' = linked /\ reg' = reg /\ head' = head
           /\ \A n \in 1 .. linked : cmd'[n] = cmd[n] /\ next'[n] = next[n]
<1>1. CASE Fill
    <2>1. linked = reg - 1 /\ reg \in 1 .. Len(Word)
        BY <1>1, LinkedRange DEF Inv, Fill
    <2>2. linked' = linked /\ reg' = reg /\ head' = head
        BY <1>1 DEF Fill, linked
    <2>3. \A n \in 1 .. linked : n # reg
        BY <2>1
    <2> QED  BY <1>1, <2>2, <2>3, Registrations DEF Fill, Inv, TypeOK
<1>2. CASE ~Fill
    <2>1. UNCHANGED <<listVars, reg>> /\ (main' = "done" <=> main = "done")
        BY <1>2 DEF Next, MainStep, ReaderStep, Input, uni_cli_init, StartWalk, Walk,
            FillCrash, WalkCrash, Lookup, SearchOn, SearchHit, SearchEnd, Return, HelpStart,
            HelpItem, HelpEnd, ReaderCrash, GetEof, GetLine, mainVars, vars
    <2> QED  BY <2>1 DEF listVars, linked
<1> QED  BY <1>1, <1>2

\* The list stays intact.
LEMMA IntactStep == Inv /\ [Next]_vars => ListIntact'
<1> SUFFICES ASSUME Inv, [Next]_vars PROVE ListIntact'
    OBVIOUS
<1>1. linked \in Nat
    BY LinkedRange DEF Inv
<1>2. CASE LinkFirst \/ LinkLast
    <2>1. /\ linked' = linked + 1 /\ reg = linked + 1 /\ head' = 1 /\ cmd' = cmd
          /\ \A n \in 1 .. linked' :
                next'[n] \in IF n < linked' THEN {n + 1} ELSE {NULL, WILD}
        BY <1>2, Links
    <2>2. cmd[reg] = Word[reg]
        BY <1>2 DEF Inv, Making, LinkFirst, LinkLast
    <2>3. \A n \in 1 .. linked : cmd[n] = Word[n]
        BY DEF Inv, ListIntact
    <2>4. \A n \in 1 .. linked' : cmd'[n] = Word[n]
        BY <1>1, <2>1, <2>2, <2>3
    <2> QED  BY <1>1, <2>1, <2>4 DEF ListIntact
<1>3. CASE ~(LinkFirst \/ LinkLast)
    BY <1>3, Stays DEF Inv, ListIntact
<1> QED  BY <1>2, <1>3

\* main's walk stays in the list.
LEMMA MakingStep == Inv /\ [Next]_vars => Making'
<1> SUFFICES ASSUME Inv, [Next]_vars PROVE Making'
    OBVIOUS
<1> USE DEF NULL, WILD
<1>1. CASE LinkFirst \/ LinkLast
    BY <1>1, Links DEF Making
<1>2. CASE Fill
    <2>1. /\ main' = "link" /\ reg' = reg
          /\ cmd'[reg] = Word[reg] /\ next'[reg] \in {NULL, WILD}
        BY <1>2, Registrations, FreshAssumption DEF Fill, Inv, TypeOK
    <2> QED  BY <2>1 DEF Making
<1>3. CASE StartWalk
    <2>1. /\ main = "link" /\ main' = "walk" /\ head # NULL /\ tmp' = head
          /\ linked' = linked /\ UNCHANGED <<listVars, reg>>
        BY <1>3 DEF StartWalk, linked
    <2>2. linked \in Nat /\ linked # 0 /\ head = 1
        BY <2>1, LinkedRange DEF Inv, ListIntact
    <2> QED  BY <2>1, <2>2 DEF Making, Inv, listVars
<1>4. CASE Walk
    <2>1. /\ main = "walk" /\ main' = "walk" /\ tmp # WILD /\ next[tmp] # NULL
          /\ tmp' = next[tmp]
          /\ linked' = linked /\ UNCHANGED <<listVars, reg>>
        BY <1>4 DEF Walk, linked
    <2>2. tmp \in 1 .. linked /\ linked \in Nat
        BY <2>1, LinkedRange DEF Inv, Making
    <2>3. next[tmp] \in (1 .. linked) \cup {WILD}
        <3>1. next[tmp] \in IF tmp < linked THEN {tmp + 1} ELSE {NULL, WILD}
            BY <2>2 DEF Inv, ListIntact
        <3> QED  BY <2>1, <2>2, <3>1
    <2> QED  BY <2>1, <2>3 DEF Making, Inv, listVars
<1>5. CASE uni_cli_init
    BY <1>5 DEF uni_cli_init, Making
<1>6. CASE FillCrash \/ ~(MainStep /\ ~WalkCrash)
    <2>1. UNCHANGED <<listVars, mainVars>>
          /\ (reader = "unborn" /\ main = "init" => reader' = "unborn")
        BY <1>6 DEF Next, ReaderStep, Input, MainStep, FillCrash, WalkCrash, Lookup, SearchOn, SearchHit,
            SearchEnd, Return, HelpStart, HelpItem, HelpEnd, ReaderCrash, GetEof,
            GetLine, vars, readerVars
    <2> QED  BY <2>1 DEF Making, Inv, listVars, mainVars, linked
<1> QED  BY <1>1, <1>2, <1>3, <1>4, <1>5, <1>6 DEF MainStep

-----------------------------------------------------------------------------
\* The list only grows.
LEMMA Grows ==
    ASSUME Inv, [Next]_vars
    PROVE  linked \in Nat /\ linked' \in Nat /\ linked <= linked'
BY LinkedRange, Links, Stays DEF Inv

\* A lookup goes from each command to the next and skips none.
LEMMA SearchingStep == Inv /\ [Next]_vars => Searching'
<1> SUFFICES ASSUME Inv, [Next]_vars, reader' = "search"
             PROVE  /\ cursor' \in (1 .. linked') \cup {WILD}
                    /\ \A n \in 1 .. cursor' - 1 : Word[n] # line'
                    /\ cursor' = WILD => \A n \in 1 .. linked' : Word[n] # line'
                    /\ cursor' = WILD => linked' >= 1 /\ next'[linked'] = WILD
    BY DEF Searching
<1> USE DEF NULL, WILD
<1>1. linked \in Nat /\ linked' \in Nat /\ linked <= linked'
    BY Grows
<1>2. CASE UNCHANGED <<reader, cursor, line>>
    <2>1. ASSUME cursor = WILD
          PROVE  linked' = linked /\ next'[linked] = next[linked]
        <3>1. linked >= 1 /\ next[linked] = WILD
            BY <1>2, <2>1 DEF Inv, Searching
        <3>2. ~LinkFirst
            BY <1>1, <3>1 DEF LinkFirst, Inv, ListIntact
        <3>3. ~LinkLast
            <4>1. SUFFICES ASSUME LinkLast PROVE FALSE
                OBVIOUS
            <4>2. tmp \in 1 .. linked /\ next[tmp] = NULL
                BY <4>1 DEF LinkLast, Inv, Making
            <4>3. next[tmp] \in IF tmp < linked THEN {tmp + 1} ELSE {NULL, WILD}
                BY <4>2 DEF Inv, ListIntact
            <4> QED  BY <1>1, <3>1, <4>2, <4>3
        <3> QED  BY <1>1, <3>1, <3>2, <3>3, Stays
    <2> QED  BY <1>1, <1>2, <2>1 DEF Inv, Searching
<1>3. CASE Lookup
    <2>1. head # NULL /\ cursor' = head
        BY <1>3 DEF Lookup
    <2>2. head = 1 /\ linked # 0
        BY <2>1 DEF Inv, ListIntact
    <2> QED  BY <1>1, <2>1, <2>2
<1>4. CASE SearchOn
    <2>1. /\ reader = "search" /\ cursor \in Nodes /\ cmd[cursor] # line
          /\ next[cursor] # NULL /\ cursor' = next[cursor] /\ line' = line
        BY <1>4 DEF SearchOn, Differs
    <2>2. cursor \in 1 .. linked /\ \A n \in 1 .. cursor - 1 : Word[n] # line
        BY <2>1, Registrations DEF Inv, Searching
    <2>3. /\ cmd[cursor] = Word[cursor]
          /\ next[cursor] \in IF cursor < linked THEN {cursor + 1} ELSE {NULL, WILD}
        BY <2>2 DEF Inv, ListIntact
    <2>4. \/ cursor < linked /\ cursor' = cursor + 1
          \/ cursor = linked /\ cursor' = WILD
        BY <1>1, <2>1, <2>2, <2>3
    <2>5. \A n \in 1 .. cursor : Word[n] # line
        BY <1>1, <2>1, <2>2, <2>3
    <2>6. linked' = linked /\ next' = next
        BY <1>4 DEF SearchOn, linked, listVars, mainVars
    <2> QED  BY <1>1, <2>1, <2>2, <2>4, <2>5, <2>6
<1>5. Lookup \/ SearchOn \/ UNCHANGED <<reader, cursor, line>>
    BY DEF Next, MainStep, ReaderStep, Input, uni_cli_init, Fill, LinkFirst, LinkLast,
        StartWalk, Walk, FillCrash, WalkCrash, Die, Lookup, SearchOn, SearchHit, SearchEnd, Return,
        HelpStart, HelpItem, HelpEnd, ReaderCrash, GetEof, GetLine, After,
        vars, listVars, mainVars, readerVars
<1> QED  BY <1>2, <1>3, <1>4, <1>5

\* So does a listing, which prints each.
LEMMA ListingStep == Inv /\ [Next]_vars => Listing'
<1> SUFFICES ASSUME Inv, [Next]_vars, reader' = "list"
             PROVE  Listing'
    BY DEF Listing
<1> USE DEF NULL, WILD
<1>1. linked \in Nat /\ linked' \in Nat /\ linked <= linked'
    BY Grows
<1>2. printed \in Seq(Nodes) /\ atStart \in Nat /\ Len(printed) \in Nat
    BY Registrations DEF Inv, TypeOK
<1>3. CASE UNCHANGED <<reader, printed, item, atStart, line>>
    <2>1. /\ printed = [i \in 1 .. Len(printed) |-> i]
          /\ item \in (1 .. linked) \cup {NULL, WILD}
          /\ item \in 1 .. linked => item = Len(printed) + 1
          /\ item = NULL => Len(printed) \in atStart .. linked
          /\ atStart <= linked /\ line = "help"
        BY <1>3 DEF Inv, Listing
    <2>2. /\ item \in (1 .. linked') \cup {NULL, WILD}
          /\ item \in 1 .. linked' => item \in 1 .. linked
          /\ item = NULL => Len(printed) \in atStart .. linked'
          /\ atStart <= linked'
        BY <1>1, <1>2, <2>1
    <2> QED  BY <1>3, <2>1, <2>2 DEF Listing
<1>4. CASE HelpStart
    <2>1. /\ item' = head /\ printed' = <<>> /\ atStart' = linked /\ linked' = linked
          /\ line' = "help"
        BY <1>4 DEF HelpStart, linked, mainVars
    <2>2. head = IF linked = 0 THEN NULL ELSE 1
        BY DEF Inv, ListIntact
    <2>3. printed' = [i \in 1 .. Len(printed') |-> i] /\ Len(printed') = 0
        BY <2>1
    <2> QED  BY <1>1, <2>1, <2>2, <2>3 DEF Listing
<1>5. CASE HelpItem
    <2>1. /\ reader = "list" /\ item \in Nodes
          /\ printed' = Append(printed, item) /\ item' = next[item]
          /\ atStart' = atStart /\ linked' = linked /\ line' = line
        BY <1>5 DEF HelpItem, Printable, linked, mainVars
    <2>2. /\ printed = [i \in 1 .. Len(printed) |-> i]
          /\ item \in 1 .. linked /\ item = Len(printed) + 1
          /\ atStart <= linked /\ line = "help"
        BY <2>1, Registrations DEF Inv, Listing
    <2>3. /\ Len(printed') = item
          /\ \A i \in 1 .. item : printed'[i] = i
        BY <1>2, <2>1, <2>2
    <2>4. printed' = [i \in 1 .. Len(printed') |-> i]
        <3>1. printed' \in Seq(Nodes)
            BY <1>2, <2>1
        <3>2. printed' = [i \in 1 .. Len(printed') |-> printed'[i]]
            BY <3>1
        <3> QED  BY <2>3, <3>2
    <2>5. next[item] \in IF item < linked THEN {item + 1} ELSE {NULL, WILD}
        BY <2>2 DEF Inv, ListIntact
    <2> QED  BY <1>1, <1>2, <2>1, <2>2, <2>3, <2>4, <2>5 DEF Listing
<1>6. HelpStart \/ HelpItem \/ UNCHANGED <<reader, printed, item, atStart, line>>
    BY DEF Next, MainStep, ReaderStep, Input, uni_cli_init, Fill, LinkFirst, LinkLast,
        StartWalk, Walk, FillCrash, WalkCrash, Die, Lookup, SearchOn, SearchHit, SearchEnd, Return,
        HelpStart, HelpItem, HelpEnd, ReaderCrash, GetEof, GetLine, After,
        vars, listVars, mainVars, readerVars
<1> QED  BY <1>3, <1>4, <1>5, <1>6

-----------------------------------------------------------------------------
LEMMA InitInv == Init => Inv
<1> SUFFICES ASSUME Init PROVE Inv
    OBVIOUS
<1> USE DEF NULL, WILD
<1>1. linked = 0
    BY DEF Init, linked
<1>2. TypeOK
    <2>1. next \in [Nodes -> Pointer] /\ descript \in [Nodes -> Pointer]
        BY DEF Init, Pointer
    <2>2. cmd \in [Nodes -> Names \cup {NoWord}] /\ printed \in Seq(Nodes)
        BY DEF Init
    <2>3. /\ {head, tmp, cursor, item} \subseteq Pointer
          /\ reg \in Nodes /\ atStart \in 0 .. Len(Word)
        BY Registrations DEF Init, Pointer
    <2> QED  BY <2>1, <2>2, <2>3 DEF Init, TypeOK
<1> QED  BY <1>1, <1>2 DEF Init, Inv, ListIntact, Making, Searching, Listing

LEMMA NextInv == Inv /\ [Next]_vars => Inv'
BY TypeStep, IntactStep, MakingStep, SearchingStep, ListingStep DEF Inv

LEMMA InvAlways == Spec => []Inv
BY InitInv, NextInv, PTL DEF Spec

\* The variables of the command line keep their types.
THEOREM TypeCorrect == Spec => []TypeOK
<1>1. Inv => TypeOK
    BY DEF Inv
<1> QED  BY <1>1, InvAlways, PTL

\* Whatever the reader does and whatever uninitialised pointers hold, main's
\* registrations leave the list complete and in order at every instant.
THEOREM ListStaysIntact == Spec => []ListIntact
<1>1. Inv => ListIntact
    BY DEF Inv
<1> QED  BY <1>1, InvAlways, PTL

\* help prints every command that was there when it started, each once and in
\* order, for any number of registrations made meanwhile.
THEOREM HelpListsAll == Spec => []HelpComplete
<1>1. Inv => HelpComplete
    BY DEF Inv, Listing, HelpComplete
<1> QED  BY <1>1, InvAlways, PTL
-----------------------------------------------------------------------------
\* What CommandTable sees of the command line.
Shown == SubSeq(Word, 1, linked)

Phase == CASE reader \in {"unborn", "getline"}  -> "idle"
           [] reader \in {"lookup", "search"}   -> "pending"
           [] reader \in {"run", "list"}        -> "running"
           [] reader = "dead"                   -> "dead"

Entry == IF reader \in {"run", "list"} THEN cursor ELSE 0

LEMMA TableVars == Table!vars = <<Shown, Phase, line, Entry, eof>>
BY DEF Table!vars, Shown, Phase, Entry

\* The table is the first commands of the program.
LEMMA ShownCommands ==
    ASSUME TypeOK
    PROVE  DOMAIN Shown = 1 .. linked /\ \A i \in 1 .. linked : Shown[i] = Word[i]
<1>1. linked \in 0 .. Len(Word) /\ Len(Word) \in Nat /\ Word \in Seq(Names)
    BY LinkedRange, Registrations, WordAssumption
<1> QED  BY <1>1 DEF Shown

\* Linking registers one command more.
LEMMA LinkTable ==
    ASSUME Inv, LinkFirst \/ LinkLast
    PROVE  Table!Next
<1>1. linked' = linked + 1 /\ reg = linked + 1 /\ UNCHANGED readerVars
    BY Links
<1>2. linked \in Nat /\ reg \in 1 .. Len(Word) /\ Word[reg] \in Names
    BY LinkedRange, Registrations DEF Inv
<1>3. SubSeq(Word, 1, linked + 1) = Append(SubSeq(Word, 1, linked), Word[linked + 1])
    BY <1>1, <1>2, Registrations, WordAssumption
<1>4. Shown' = Append(Shown, Word[reg])
    BY <1>1, <1>3 DEF Shown
<1>5. Phase' = Phase /\ Entry' = Entry /\ line' = line /\ eof' = eof
    BY <1>1 DEF Phase, Entry, readerVars
<1>6. Table!Register(Word[reg])
    BY <1>4, <1>5 DEF Table!Register, Shown, Phase, Entry
<1> QED  BY <1>2, <1>6 DEF Table!Next

\* A new line, or the last one again.
LEMMA InputTable ==
    ASSUME Inv, Input
    PROVE  Table!Next
<1>1. Shown' = Shown
    BY DEF Input, GetLine, GetEof, Shown, linked, mainVars
<1>2. reader = "getline" /\ Phase = "idle" /\ Entry = 0
    BY DEF Input, GetLine, GetEof, Phase, Entry
<1>3. ASSUME NEW w, reader' = After(w)
      PROVE  Phase' = Table!After(w) /\ Entry' = 0
    BY <1>3 DEF After, Table!After, Phase, Entry
<1>4. CASE GetEof
    <2>1. Table!EndOfInput
        BY <1>1, <1>2, <1>3, <1>4 DEF GetEof, Table!EndOfInput, Shown, Phase, Entry
    <2> QED  BY <2>1 DEF Table!Next
<1>5. ASSUME NEW w \in Words \cup {NoWord}, GetLine(w)
      PROVE  Table!Next
    <2>1. Table!Type(w)
        BY <1>1, <1>2, <1>3, <1>5 DEF GetLine, Table!Type, Shown, Phase, Entry
    <2> QED  BY <1>5, <2>1 DEF Table!Next
<1> QED  BY <1>4, <1>5 DEF Input

\* uni_cli.c:147-163: a lookup that finds the word runs the first command of
\* that name.
LEMMA HitTable ==
    ASSUME Inv, SearchHit
    PROVE  Table!Next
<1> USE DEF NULL, WILD
<1>1. /\ reader = "search" /\ cursor \in Nodes /\ cmd[cursor] = line
      /\ reader' = "run" /\ UNCHANGED <<mainVars, line, cursor, eof>>
    BY DEF SearchHit
<1>2. cursor \in 1 .. linked /\ \A n \in 1 .. cursor - 1 : Word[n] # line
    BY <1>1, Registrations DEF Inv, Searching
<1>3. Word[cursor] = line
    BY <1>1, <1>2 DEF Inv, ListIntact
<1>4. DOMAIN Shown = 1 .. linked /\ \A i \in 1 .. linked : Shown[i] = Word[i]
    BY ShownCommands DEF Inv
<1>5. cursor \in Table!Matches(line)
    BY <1>2, <1>3, <1>4 DEF Table!Matches, Shown
<1>6. ASSUME NEW j \in Table!Matches(line)
      PROVE  cursor <= j
    <2>1. j \in 1 .. linked /\ Word[j] = line
        BY <1>4, <1>6 DEF Table!Matches, Shown
    <2> QED  BY <1>2, <2>1, LinkedRange DEF Inv
<1>7. Shown' = Shown /\ Entry' = cursor /\ Phase = "pending" /\ Phase' = "running"
    BY <1>1 DEF Shown, linked, mainVars, Entry, Phase
<1>8. Table!Run
    BY <1>1, <1>5, <1>6, <1>7 DEF Table!Run, Shown, Entry, Phase
<1> QED  BY <1>8 DEF Table!Next

\* A lookup that ends with nothing found compared with every command there is.
LEMMA MissTable ==
    ASSUME Inv, SearchEnd \/ (Lookup /\ head = NULL)
    PROVE  Table!Next
<1> USE DEF NULL, WILD
<1>1. /\ reader \in {"lookup", "search"} /\ reader' = "getline"
      /\ UNCHANGED <<mainVars, line, eof>>
    BY DEF SearchEnd, Lookup
<1>2. \A n \in 1 .. linked : Word[n] # line
    <2>1. CASE SearchEnd
        <3>1. /\ reader = "search" /\ cursor \in Nodes /\ cmd[cursor] # line
              /\ next[cursor] = NULL
            BY <2>1 DEF SearchEnd, Differs
        <3>2. cursor \in 1 .. linked /\ \A n \in 1 .. cursor - 1 : Word[n] # line
            BY <3>1, Registrations DEF Inv, Searching
        <3>3. /\ cmd[cursor] = Word[cursor]
              /\ next[cursor] \in IF cursor < linked THEN {cursor + 1} ELSE {NULL, WILD}
            BY <3>2 DEF Inv, ListIntact
        <3>4. cursor = linked
            <4>1. linked \in Nat
                BY LinkedRange DEF Inv
            <4> QED  BY <3>1, <3>2, <3>3, <4>1
        <3> QED  BY <3>1, <3>2, <3>3, <3>4
    <2>2. CASE head = NULL
        <3>1. linked = 0
            BY <2>2 DEF Inv, ListIntact
        <3> QED  BY <3>1
    <2> QED  BY <2>1, <2>2
<1>3. Table!Matches(line) = {}
    BY <1>2, ShownCommands DEF Table!Matches, Shown, Inv
<1>4. /\ Shown' = Shown /\ Entry = 0 /\ Entry' = 0
      /\ Phase = "pending" /\ Phase' = "idle"
    BY <1>1 DEF Shown, linked, mainVars, Entry, Phase
<1>5. Table!Reject
    BY <1>1, <1>3, <1>4 DEF Table!Reject, Shown, Entry, Phase
<1> QED  BY <1>5 DEF Table!Next

\* A handler returns, or the process dies: main while it registers, the reader
\* behind the last command, or in the handler of help.
LEMMA LeaveTable ==
    ASSUME Inv, Return \/ HelpEnd \/ FillCrash \/ WalkCrash \/ ReaderCrash
    PROVE  Table!Next
<1>1. Shown' = Shown /\ line' = line /\ eof' = eof /\ Entry' = 0
    BY DEF Return, HelpEnd, FillCrash, WalkCrash, ReaderCrash, Die, Shown, linked, mainVars,
        Entry
<1>2. CASE Return \/ HelpEnd
    <2>1. Phase = "running" /\ Phase' = "idle"
        BY <1>2 DEF Return, HelpEnd, Phase
    <2>2. Table!Return
        BY <1>1, <2>1 DEF Table!Return, Shown, Entry, Phase
    <2> QED  BY <2>2 DEF Table!Next
<1>3. CASE FillCrash \/ WalkCrash \/ ReaderCrash
    <2>1. Phase' = "dead"
        BY <1>3 DEF FillCrash, WalkCrash, ReaderCrash, Die, Phase
    <2>2. DOMAIN Shown = 1 .. linked /\ \A i \in 1 .. linked : Shown[i] = Word[i]
        BY ShownCommands DEF Inv
    <2>3. linked \in 0 .. Len(Word) /\ Len(Shown) = linked
        BY LinkedRange, Registrations, WordAssumption DEF Inv, Shown
    <2>4. \/ Len(Shown) < Len(Word)
          \/ Phase = "pending" /\ Table!Matches(line) = {}
          \/ Phase = "running" /\ line = "help"
        <3>1. CASE FillCrash \/ WalkCrash
            BY <2>3, <3>1, LinkedRange DEF FillCrash, WalkCrash, Inv
        <3>2. CASE reader = "search" /\ cursor = WILD
            BY <2>2, <3>2 DEF Inv, Searching, Phase, Table!Matches, Shown
        <3>3. CASE reader = "list"
            BY <3>3 DEF Inv, Listing, Phase
        <3> QED  BY <1>3, <3>1, <3>2, <3>3 DEF ReaderCrash
    <2>5. Table!Die
        BY <1>1, <2>1, <2>4 DEF Table!Die, Shown, Entry, Phase
    <2> QED  BY <2>5 DEF Table!Next
<1> QED  BY <1>2, <1>3

\* The other steps are within a registration, a lookup or a listing.
LEMMA WithinTable ==
    ASSUME \/ uni_cli_init \/ Fill \/ StartWalk \/ Walk \/ SearchOn
           \/ HelpStart \/ HelpItem \/ (Lookup /\ head # NULL) \/ UNCHANGED vars,
           Inv
    PROVE  UNCHANGED Table!vars
<1>1. Shown' = Shown /\ line' = line /\ eof' = eof
    BY DEF uni_cli_init, Fill, StartWalk, Walk, SearchOn, HelpStart, HelpItem, Lookup,
        vars, listVars, mainVars, readerVars, Shown, linked
<1>2. Phase' = Phase /\ Entry' = Entry
    <2>1. CASE Fill \/ StartWalk \/ Walk \/ UNCHANGED vars
        BY <2>1 DEF Fill, StartWalk, Walk, vars, readerVars, Phase, Entry
    <2>2. CASE uni_cli_init
        BY <2>2 DEF uni_cli_init, Inv, Making, Phase, Entry
    <2>3. CASE SearchOn \/ (Lookup /\ head # NULL)
        BY <2>3 DEF SearchOn, Lookup, Phase, Entry
    <2>4. CASE HelpStart \/ HelpItem
        BY <2>4 DEF HelpStart, HelpItem, Phase, Entry
    <2> QED  BY <2>1, <2>2, <2>3, <2>4
<1> QED  BY <1>1, <1>2, TableVars, TableVars' DEF Table!vars, Shown, Phase, Entry

LEMMA InitTable == Init => Table!Init
<1> SUFFICES ASSUME Init PROVE Table!Init
    OBVIOUS
<1>1. linked = 0
    BY DEF Init, linked
<1>2. SubSeq(Word, 1, linked) = <<>>
    BY <1>1, WordAssumption
<1> QED  BY <1>2 DEF Init, Table!Init

LEMMA NextTable == Inv /\ [Next]_vars => [Table!Next]_(Table!vars)
BY LinkTable, InputTable, HitTable, MissTable, LeaveTable, WithinTable
DEF Next, MainStep, ReaderStep

\* A lookup has the result the table gives at one instant of it, though main
\* registers commands during it: the list implements the append-only table.
\* The process dies only in a registration, of a word that names no command,
\* or in help.
THEOREM ListIsTable == Spec => TableSpec
<1>1. Init => Table!Init
    BY InitTable
<1>2. Inv /\ [Next]_vars => [Table!Next]_(Table!vars)
    BY NextTable
<1> QED  BY <1>1, <1>2, InvAlways, PTL DEF Spec, TableSpec, Table!Spec

-----------------------------------------------------------------------------
\* How many nodes the reader's walk can still meet, those counted that main
\* has not linked yet; a wild pointer ends it.
Ahead ==
    CASE reader = "lookup" -> Len(Word) + 1
      [] reader = "search" -> IF cursor = WILD THEN 0 ELSE Len(Word) + 1 - cursor
      [] reader = "list"   -> IF item \in {NULL, WILD} THEN 0 ELSE Len(Word) + 1 - item

Walking == reader \in {"lookup", "search", "list"}

\* A step of the reader ends its walk or leaves fewer nodes ahead of it; a step
\* of main, the list growing, adds none.
Nearer ==
    Walking /\ Walking' =>
        /\ Ahead \in Nat /\ Ahead' \in Nat
        /\ Ahead' <= Ahead
        /\ ReaderStep => Ahead' < Ahead

Bounded == Walking => Ahead \in 0 .. Len(Word) + 1

LEMMA AheadBounded == Inv => Bounded
<1> SUFFICES ASSUME Inv, Walking PROVE Ahead \in 0 .. Len(Word) + 1
    BY DEF Bounded
<1> USE Registrations DEF NULL, WILD
<1>1. linked \in 0 .. Len(Word)
    BY LinkedRange DEF Inv
<1>2. CASE reader = "lookup"
    BY <1>2 DEF Ahead
<1>3. CASE reader = "search"
    <2>1. cursor \in (1 .. linked) \cup {WILD}
        BY <1>3 DEF Inv, Searching
    <2> QED  BY <1>1, <1>3, <2>1 DEF Ahead
<1>4. CASE reader = "list"
    <2>1. item \in (1 .. linked) \cup {NULL, WILD}
        BY <1>4 DEF Inv, Listing
    <2> QED  BY <1>1, <1>4, <2>1 DEF Ahead
<1> QED  BY <1>2, <1>3, <1>4 DEF Walking

\* The walks of cli_cmd_run and cli_help_handle (uni_cli.c:147-162, 244-257) come
\* nearer to their end with every step they take, however many commands main
\* appends meanwhile and whatever uninitialised pointers hold: neither can be
\* led round or kept going.
THEOREM WalkComesNearer == Spec => [][Nearer]_vars
<1> USE DEF NULL, WILD
<1>1. ASSUME Inv, Bounded, Bounded', [Next]_vars
      PROVE  Nearer
    <2> SUFFICES ASSUME Walking, Walking'
                 PROVE  Ahead' <= Ahead /\ (ReaderStep => Ahead' < Ahead)
        <3>1. Walking => Ahead \in Nat
            BY <1>1, Registrations DEF Bounded
        <3>2. Walking' => Ahead' \in Nat
            BY <1>1, Registrations DEF Bounded
        <3> QED  BY <3>1, <3>2 DEF Nearer
    <2>1. linked \in 0 .. Len(Word) /\ Len(Word) \in Nat
        BY <1>1, LinkedRange, Registrations DEF Inv
    <2>2. Ahead \in Nat
        BY <1>1, Registrations DEF Bounded
    <2>3. CASE Lookup
        <3>1. reader = "lookup" /\ reader' = "search" /\ head # NULL /\ cursor' = head
            BY <2>3 DEF Lookup, Walking
        <3>2. head = 1
            BY <1>1, <3>1 DEF Inv, ListIntact
        <3> QED  BY <2>1, <3>1, <3>2 DEF Ahead
    <2>4. CASE SearchOn
        <3>1. /\ reader = "search" /\ reader' = "search" /\ cursor \in Nodes
              /\ next[cursor] # NULL /\ cursor' = next[cursor]
            BY <2>4 DEF SearchOn, Differs
        <3>2. cursor \in 1 .. linked
            BY <1>1, <3>1, Registrations DEF Inv, Searching
        <3>3. next[cursor] \in IF cursor < linked THEN {cursor + 1} ELSE {NULL, WILD}
            BY <1>1, <3>2 DEF Inv, ListIntact
        <3>4. cursor' = WILD \/ (cursor' = cursor + 1 /\ cursor < linked)
            BY <2>1, <3>1, <3>2, <3>3
        <3> QED  BY <2>1, <3>1, <3>2, <3>4 DEF Ahead
    <2>5. CASE HelpItem
        <3>1. /\ reader = "list" /\ reader' = "list" /\ item \in Nodes
              /\ item' = next[item]
            BY <2>5 DEF HelpItem, Printable
        <3>2. item \in 1 .. linked
            BY <1>1, <3>1, Registrations DEF Inv, Listing
        <3>3. next[item] \in IF item < linked THEN {item + 1} ELSE {NULL, WILD}
            BY <1>1, <3>2 DEF Inv, ListIntact
        <3>4. item' \in {NULL, WILD} \/ (item' = item + 1 /\ item < linked)
            BY <2>1, <3>1, <3>2, <3>3
        <3> QED  BY <2>1, <3>1, <3>2, <3>4 DEF Ahead
    <2>6. CASE ~(Lookup \/ SearchOn \/ HelpItem)
        <3>1. UNCHANGED <<reader, cursor, item>> /\ ~ReaderStep
            BY <1>1, <2>6 DEF Walking, Next, MainStep, ReaderStep, Input, uni_cli_init,
                Fill, LinkFirst, LinkLast, StartWalk, Walk, FillCrash, WalkCrash, Die, Lookup,
                SearchOn, SearchHit, SearchEnd, Return, HelpStart, HelpItem, HelpEnd,
                ReaderCrash, GetEof, GetLine, vars, readerVars
        <3>2. Ahead' = Ahead
            BY <3>1 DEF Ahead
        <3> QED  BY <2>2, <3>1, <3>2
    <2> QED  BY <2>3, <2>4, <2>5, <2>6
<1> QED  BY <1>1, AheadBounded, InvAlways, PTL DEF Spec
=============================================================================
