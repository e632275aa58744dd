--------------------------------- MODULE Cli ---------------------------------
(***************************************************************************)
(* The command line of the demo (src/common/uni_cli.c) with the main       *)
(* thread that fills it (src/main.c).  main creates the command line       *)
(* thread first and registers the commands afterwards, one by one, so the  *)
(* thread reads the list of commands while main appends to it; there is no *)
(* lock.  The build does not optimise (the Makefile passes $(CFLAG), which *)
(* is never set), so stores are made in program order.                     *)
(*                                                                         *)
(* uni_cli_cmd_register leaves two members of a malloc'ed uni_cli_cmd_t    *)
(* uninitialised: next always, descript when it is given none.  WILD       *)
(* stands for a value there that is not NULL: whoever follows it dies, and *)
(* the process with him.                                                   *)
(*                                                                         *)
(* The n-th registration of the program allocates node n of the list.      *)
(***************************************************************************)
EXTENDS Integers, Sequences, FiniteSets

CONSTANTS
    Names,      \* command names
    Word,       \* Word[n]: the name the n-th registration gives
    Described,  \* registrations that pass a description
    Others,     \* first words of a line that name no command
    NoWord,     \* the empty line
    Fresh       \* what an uninitialised pointer may hold: a subset of {NULL, WILD}

NULL == 0
WILD == -1

ASSUME WordAssumption      == Word \in Seq(Names) /\ Word # <<>>
ASSUME DescribedAssumption == Described \subseteq DOMAIN Word
ASSUME FreshAssumption     == Fresh \subseteq {NULL, WILD} /\ Fresh # {}

Nodes   == DOMAIN Word
Pointer == Nodes \cup {NULL, WILD}
Words   == Names \cup Others

VARIABLES
    head,       \* cli_ctrl.head
    next,       \* member next of each node
    cmd,        \* member cmd of each node: its name, or NoWord before it is set
    descript,   \* member descript of each node: WILD stands for garbage,
                \* the node itself for a description
    main,       \* main thread: "init", "fill", "link", "walk" or "done"
    reg,        \* the registration main is making
    tmp,        \* uni_cli_cmd_register: the node main's walk is at
    reader,     \* command line thread: "unborn", "getline", "lookup", "search",
                \* "run" (a handler), "list" (the handler of help) or "dead"
    line,       \* first word of the buffer getline fills
    cursor,     \* cli_cmd_run: the node it compares with, or runs
    item,       \* cli_help_handle: the node to list next
    printed,    \* cli_help_handle: the nodes listed so far
    eof,        \* stdin has ended
    atStart     \* history: how many commands there were when help started

listVars   == <<head, next, cmd, descript>>
mainVars   == <<main, reg, tmp>>
readerVars == <<reader, line, cursor, item, printed, eof, atStart>>
vars       == <<listVars, mainVars, readerVars>>

Init ==
    /\ head = NULL
    /\ next = [n \in Nodes |-> NULL]
    /\ cmd = [n \in Nodes |-> NoWord]
    /\ descript = [n \in Nodes |-> NULL]
    /\ main = "init" /\ reg = 1 /\ tmp = NULL
    /\ reader = "unborn" /\ line = NoWord /\ cursor = NULL
    /\ item = NULL /\ printed = <<>> /\ eof = FALSE /\ atStart = 0

\* The number of commands registered so far.
linked == IF main = "done" THEN Len(Word) ELSE reg - 1

Alive == reader # "dead"
Die   == reader' = "dead"

-----------------------------------------------------------------------------
(* main: uni_cli_init, then the registrations. *)

\* uni_cli_init creates the thread before it registers anything, and does not
\* look at the result: without a thread the program registers all the same.
uni_cli_init ==
    /\ main = "init"
    /\ main' = "fill"
    /\ reader' \in {"unborn", "getline"}
    /\ UNCHANGED <<listVars, reg, tmp, line, cursor, item, printed, eof, atStart>>

\* Everything uni_cli_cmd_register writes to the node before it links it: the
\* name and the description it was given.  next keeps what malloc left there.
Fill ==
    /\ Alive /\ main = "fill"
    /\ cmd' = [cmd EXCEPT ![reg] = Word[reg]]
    /\ \E garbage \in Fresh : next' = [next EXCEPT ![reg] = garbage]
    /\ \E garbage \in Fresh :
         descript' = [descript EXCEPT
                        ![reg] = IF reg \in Described THEN reg ELSE garbage]
    /\ main' = "link"
    /\ UNCHANGED <<head, reg, tmp, readerVars>>

\* Mutant: main makes one registration too many.
RegisteredPast ==
    /\ main' = IF reg > Len(Word) THEN "done" ELSE "fill"
    /\ reg' = reg + 1

\* The registration returns and main makes the next one.
Registered ==
    /\ main' = IF reg = Len(Word) THEN "done" ELSE "fill"
    /\ reg' = IF reg = Len(Word) THEN reg ELSE reg + 1

\* malloc gave NULL for the node or for one of its members, and nobody looks.
FillCrash ==
    /\ Alive /\ main = "fill"
    /\ Die
    /\ UNCHANGED <<listVars, mainVars, line, cursor, item, printed, eof, atStart>>

LinkFirst ==
    /\ Alive /\ main = "link"
    /\ head = NULL
    /\ head' = reg
    /\ Registered
    /\ UNCHANGED <<next, cmd, descript, tmp, readerVars>>

StartWalk ==
    /\ Alive /\ main = "link"
    /\ head # NULL
    /\ tmp' = head
    /\ main' = "walk"
    /\ UNCHANGED <<listVars, reg, readerVars>>

Walk ==
    /\ Alive /\ main = "walk"
    /\ tmp # WILD
    /\ next[tmp] # NULL
    /\ tmp' = next[tmp]
    /\ UNCHANGED <<listVars, main, reg, readerVars>>

\* Mutant: the node is linked where the walk is, not where it ends.
LinkEarly ==
    /\ Alive /\ main = "walk"
    /\ tmp # WILD
    /\ next' = [next EXCEPT ![tmp] = reg]
    /\ Registered
    /\ UNCHANGED <<head, cmd, descript, tmp, readerVars>>

LinkLast ==
    /\ Alive /\ main = "walk"
    /\ tmp # WILD
    /\ next[tmp] = NULL
    /\ next' = [next EXCEPT ![tmp] = reg]
    /\ Registered
    /\ UNCHANGED <<head, cmd, descript, tmp, readerVars>>

WalkCrash ==
    /\ Alive /\ main = "walk"
    /\ tmp = WILD
    /\ Die
    /\ UNCHANGED <<listVars, mainVars, line, cursor, item, printed, eof, atStart>>

-----------------------------------------------------------------------------
(* The command line thread: cli_uart_recv_thread. *)

\* cli_param_decode makes nothing of an empty line, and nothing is run.
After(w) == IF w = NoWord THEN "getline" ELSE "lookup"

GetLine(w) ==
    /\ reader = "getline" /\ ~eof
    /\ line' = w
    /\ reader' = After(w)
    /\ UNCHANGED <<listVars, mainVars, cursor, item, printed, eof, atStart>>

\* At the end of the input getline fails and leaves the buffer alone; the
\* thread does not look at the result and takes the buffer for a new line.
GetEof ==
    /\ reader = "getline"
    /\ eof' = TRUE
    /\ reader' = After(line)
    /\ UNCHANGED <<listVars, mainVars, line, cursor, item, printed, atStart>>

\* cli_cmd_run: the head of the list, then one comparison per step.  A step
\* ends where the thread reads the next pointer main may be writing.
Lookup ==
    /\ reader = "lookup"
    /\ cursor' = head
    /\ reader' = IF head = NULL THEN "getline" ELSE "search"
    /\ UNCHANGED <<listVars, mainVars, line, item, printed, eof, atStart>>

Differs == cursor \in Nodes /\ cmd[cursor] # line

\* Mutant: the cursor does not move on.
SearchStays ==
    /\ reader = "search" /\ Differs
    /\ next[cursor] # NULL
    /\ UNCHANGED vars

SearchOn ==
    /\ reader = "search" /\ Differs
    /\ next[cursor] # NULL
    /\ cursor' = next[cursor]
    /\ UNCHANGED <<listVars, mainVars, reader, line, item, printed, eof, atStart>>

\* Every registration passes a handler, so the test of cmd->handle holds.
SearchHit ==
    /\ reader = "search"
    /\ cursor \in Nodes /\ cmd[cursor] = line
    /\ reader' = "run"
    /\ UNCHANGED <<listVars, mainVars, line, cursor, item, printed, eof, atStart>>

\* Mutant: the last node of the list is not compared.
SearchEndEarly ==
    /\ reader = "search"
    /\ cursor \in Nodes
    /\ next[cursor] = NULL
    /\ reader' = "getline"
    /\ UNCHANGED <<listVars, mainVars, line, cursor, item, printed, eof, atStart>>

\* "Can't find command": back to the prompt.
SearchEnd ==
    /\ reader = "search" /\ Differs
    /\ next[cursor] = NULL
    /\ reader' = "getline"
    /\ UNCHANGED <<listVars, mainVars, line, cursor, item, printed, eof, atStart>>

\* A handler other than that of help returns.  After a result of -1 the
\* description is printed; only help has none, and it never returns -1.
Return ==
    /\ reader = "run" /\ line # "help"
    /\ reader' = "getline"
    /\ UNCHANGED <<listVars, mainVars, line, cursor, item, printed, eof, atStart>>

\* cli_help_handle walks the same list and prints every node.
HelpStart ==
    /\ reader = "run" /\ line = "help"
    /\ reader' = "list"
    /\ item' = head
    /\ printed' = <<>>
    /\ atStart' = linked
    /\ UNCHANGED <<listVars, mainVars, line, cursor, eof>>

Printable == item \in Nodes /\ descript[item] # WILD

\* Mutant: the loop stops at the last node.
HelpItemShort ==
    /\ reader = "list" /\ Printable
    /\ printed' = IF next[item] = NULL THEN printed ELSE Append(printed, item)
    /\ item' = next[item]
    /\ UNCHANGED <<listVars, mainVars, reader, line, cursor, eof, atStart>>

HelpItem ==
    /\ reader = "list" /\ Printable
    /\ printed' = Append(printed, item)
    /\ item' = next[item]
    /\ UNCHANGED <<listVars, mainVars, reader, line, cursor, eof, atStart>>

HelpEnd ==
    /\ reader = "list"
    /\ item = NULL
    /\ reader' = "getline"
    /\ UNCHANGED <<listVars, mainVars, line, cursor, item, printed, eof, atStart>>

\* An uninitialised pointer is followed: next by either walk, descript by help.
ReaderCrash ==
    /\ \/ reader = "search" /\ cursor = WILD
       \/ reader = "list" /\ item = WILD
       \/ reader = "list" /\ item \in Nodes /\ descript[item] = WILD
    /\ Die
    /\ UNCHANGED <<listVars, mainVars, line, cursor, item, printed, eof, atStart>>

-----------------------------------------------------------------------------
MainStep == uni_cli_init \/ Fill \/ LinkFirst \/ StartWalk \/ Walk \/ LinkLast
                \/ FillCrash \/ WalkCrash

ReaderStep == Lookup \/ SearchOn \/ SearchHit \/ SearchEnd \/ Return
                \/ HelpStart \/ HelpItem \/ HelpEnd \/ ReaderCrash

Input == GetEof \/ \E w \in Words \cup {NoWord} : GetLine(w)

Next == MainStep \/ ReaderStep \/ Input

Spec == Init /\ [][Next]_vars

\* Both threads are scheduled; nobody has to type, and a handler other than
\* that of help may block.
Fairness ==
    /\ WF_vars(MainStep)
    /\ WF_vars(ReaderStep /\ ~Return)

FairSpec == Spec /\ Fairness

-----------------------------------------------------------------------------
\* The types of all variables.
TypeOK ==
    /\ head \in Pointer
    /\ next \in [Nodes -> Pointer]
    /\ cmd \in [Nodes -> Names \cup {NoWord}]
    /\ descript \in [Nodes -> Pointer]
    /\ main \in {"init", "fill", "link", "walk", "done"}
    /\ reg \in Nodes
    /\ tmp \in Pointer
    /\ reader \in {"unborn", "getline", "lookup", "search", "run", "list", "dead"}
    /\ line \in Words \cup {NoWord}
    /\ cursor \in Pointer
    /\ item \in Pointer
    /\ printed \in Seq(Nodes)
    /\ eof \in BOOLEAN
    /\ atStart \in 0 .. Len(Word)

\* The list main shares with the reader without a lock is at every instant the
\* commands registered so far, in order and with their names set: the reader
\* never meets a half-built node, and no registration drops an earlier one.
ListIntact ==
    /\ head = IF linked = 0 THEN NULL ELSE 1
    /\ \A n \in 1 .. linked :
         /\ cmd[n] = Word[n]
         /\ next[n] \in IF n < linked THEN {n + 1} ELSE {NULL, WILD}

\* help lists the commands in order, each once, and none that was registered
\* before it started is missing, however many main appends meanwhile.
HelpComplete ==
    reader = "list" =>
      /\ printed = [i \in 1 .. Len(printed) |-> i]
      /\ item = NULL => Len(printed) \in atStart .. linked

\* A lookup or a listing ends although the list grows under it: a command is
\* run, or the prompt comes back, or an uninitialised pointer ends the process.
WalkEnds ==
    reader \in {"lookup", "search", "list"} ~> reader \in {"run", "getline", "dead"}

\* The list implements the table: every lookup has the result the table gives
\* at one instant of it, and the end of the input repeats the last line.  The
\* unset pointers end the process only where the table says: a lookup started
\* after the registrations that finds its command never meets one.
Table == INSTANCE CommandTable WITH
    table <- SubSeq(Word, 1, linked),
    phase <- CASE reader \in {"unborn", "getline"}  -> "idle"
               [] reader \in {"lookup", "search"}   -> "pending"
               [] reader \in {"run", "list"}        -> "running"
               [] reader = "dead"                   -> "dead",
    last  <- line,
    entry <- IF reader \in {"run", "list"} THEN cursor ELSE 0,
    eof   <- eof,
    Total <- Len(Word),
    Lister <- "help"

TableSpec == Table!Spec
=============================================================================
