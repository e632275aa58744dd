---------------------------- MODULE CommandTable ----------------------------
(***************************************************************************)
(* What the command line promises: an append-only table of commands, and   *)
(* one thread that reads a line, looks its first word up in the table as   *)
(* the table is at one instant, and runs the first command of that name.   *)
(* After the end of the input the last line is looked up again and again.  *)
(* The process may die, of memory that is short or of a pointer never set, *)
(* but only while commands are still being registered, of a word that      *)
(* names none, or in the command that lists the table: once all commands   *)
(* are there, a word that names one of the others is sure to reach it.     *)
(***************************************************************************)
EXTENDS Integers, Sequences

CONSTANTS
    Names,      \* command names
    Words,      \* first words of a line: names and others
    NoWord,     \* the empty line
    Total,      \* how many commands the program registers
    Lister      \* the command that goes through the table

VARIABLES
    table,      \* the commands in the order of registration
    phase,      \* "idle", "pending" (a word to look up), "running" or "dead"
    last,       \* first word of the last line read
    entry,      \* the command that runs: its position in the table, or 0
    eof         \* the input has ended

vars == <<table, phase, last, entry, eof>>

Matches(w) == {i \in DOMAIN table : table[i] = w}

Init ==
    /\ table = <<>>
    /\ phase = "idle"
    /\ last = NoWord
    /\ entry = 0
    /\ eof = FALSE

Register(c) ==
    /\ table' = Append(table, c)
    /\ UNCHANGED <<phase, last, entry, eof>>

\* The phase a word leads to: an empty line leaves the thread idle.
After(w) == IF w = NoWord THEN "idle" ELSE "pending"

Type(w) ==
    /\ phase = "idle" /\ ~eof
    /\ last' = w
    /\ phase' = After(w)
    /\ UNCHANGED <<table, entry, eof>>

EndOfInput ==
    /\ phase = "idle"
    /\ eof' = TRUE
    /\ phase' = After(last)
    /\ UNCHANGED <<table, last, entry>>

Run ==
    /\ phase = "pending"
    /\ \E i \in Matches(last) :
         /\ \A j \in Matches(last) : i <= j
         /\ entry' = i
    /\ phase' = "running"
    /\ UNCHANGED <<table, last, eof>>

Reject ==
    /\ phase = "pending"
    /\ Matches(last) = {}
    /\ phase' = "idle"
    /\ UNCHANGED <<table, last, entry, eof>>

Return ==
    /\ phase = "running"
    /\ phase' = "idle"
    /\ entry' = 0
    /\ UNCHANGED <<table, last, eof>>

\* The process dies.
Die ==
    /\ \/ Len(table) < Total
       \/ phase = "pending" /\ Matches(last) = {}
       \/ phase = "running" /\ last = Lister
    /\ phase' = "dead"
    /\ entry' = 0
    /\ UNCHANGED <<table, last, eof>>

Next ==
    \/ \E c \in Names : Register(c)
    \/ \E w \in Words \cup {NoWord} : Type(w)
    \/ EndOfInput \/ Run \/ Reject \/ Return \/ Die

Spec == Init /\ [][Next]_vars
=============================================================================
