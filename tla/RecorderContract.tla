-------------------------- MODULE RecorderContract --------------------------
(***************************************************************************)
(* A recording source, the functions in struct uni_record_opt              *)
(* (src/lib/include/uni_platform.h), that plays a file: starting fails or  *)
(* settles on one file, whatever the name is afterwards; each block is the *)
(* next piece of it, and silence follows its end; stopping ends the        *)
(* recording.  The silence is what record.c does with a file in place of   *)
(* the microphone, not what the header says: there (442-452) a call        *)
(* without data waits for timeout_ms and then returns NULL, of which       *)
(* record_data_get, which ignores timeout_ms, does nothing.                *)
(***************************************************************************)
EXTENDS Integers, Sequences

CONSTANTS
    Pieces,     \* Pieces[f]: pieces in file f
    NoName      \* no file

Silence == [file |-> NoName, piece |-> 0]

VARIABLES
    thread,     \* "off", "start", "get" or "stop": the call that comes next
    source,     \* the file that is recorded, or NoName
    recorded    \* the blocks of the recording

vars == <<thread, source, recorded>>

Init == thread = "off" /\ source = NoName /\ recorded = <<>>

Begin ==
    /\ thread = "off" /\ thread' = "start"
    /\ recorded' = <<>>
    /\ UNCHANGED source

record_start ==
    /\ thread = "start"
    /\ \/ thread' = "off" /\ UNCHANGED source
       \/ thread' = "get" /\ source' \in DOMAIN Pieces
    /\ UNCHANGED recorded

\* Block i of the recording.
Block(i) == IF i <= Pieces[source] THEN [file |-> source, piece |-> i] ELSE Silence

record_data_get ==
    /\ thread = "get"
    /\ recorded' = Append(recorded, Block(Len(recorded) + 1))
    /\ UNCHANGED <<thread, source>>

End == thread = "get" /\ thread' = "stop" /\ UNCHANGED <<source, recorded>>

record_stop ==
    /\ thread = "stop" /\ thread' = "off"
    /\ source' = NoName
    /\ UNCHANGED recorded

Next == Begin \/ record_start \/ record_data_get \/ End \/ record_stop

Spec == Init /\ [][Next]_vars
=============================================================================
