------------------------------- MODULE Record -------------------------------
(***************************************************************************)
(* The recording source of the demo (src/module/record.c): a file played   *)
(* as if it were a microphone.  The recording thread of libkeros calls     *)
(* record_start once, record_data_get over and over and record_stop at the *)
(* end, in that order (struct uni_record_opt in lib/include/uni_platform.h *)
(* and uni_record_thread of lib/libkeros.a); the command line calls        *)
(* record_set_filename meanwhile, without a lock.                          *)
(*                                                                         *)
(* A block of samples is a piece of the file, named by the file and its    *)
(* number, or silence.  There is memory for every block (the results of    *)
(* calloc and malloc, record.c:48-53, are not looked at) and read fails    *)
(* only at the end of the file.                                            *)
(***************************************************************************)
EXTENDS Integers, Sequences

CONSTANTS
    Names,          \* names the command line sets
    Pieces,         \* Pieces[f]: pieces in file f; a name not in DOMAIN Pieces
                    \* cannot be opened
    NoName,         \* the empty name, and a name half written
    FirstFd,        \* the least descriptor open() can return: 0 is stdin
    MaxNames,       \* bound: names set
    MaxSessions,    \* bound: recordings
    MaxBlocks       \* bound: blocks of a recording

ASSUME PiecesAssumption == DOMAIN Pieces \subseteq Names
ASSUME PieceAssumption  == \A f \in DOMAIN Pieces : Pieces[f] \in Nat
ASSUME NameAssumption   == NoName \notin Names
ASSUME FdAssumption     == FirstFd \in Nat \ {0}
ASSUME BoundsAssumption == MaxNames \in Nat /\ MaxSessions \in Nat /\ MaxBlocks \in Nat

Descriptors == FirstFd .. FirstFd + MaxSessions
Silence     == [file |-> NoName, piece |-> 0]
Block       == [file : Names, piece : Nat] \cup {Silence}

VARIABLES
    filename,   \* g_record.filename
    setting,    \* record_set_filename: the name it is writing, or NoName
    names,      \* names set so far
    file_fd,    \* g_record.file_fd
    open,       \* the process's open files: per descriptor, what was opened
                \* and how many pieces were read of it; Silence: not open
    thread,     \* recording thread: "off", "start", "get" or "stop"
    sessions,   \* recordings so far
    recorded    \* the blocks of the recording

vars == <<filename, setting, names, file_fd, open, thread, sessions, recorded>>

Init ==
    /\ filename = NoName /\ setting = NoName /\ names = 0
    /\ file_fd = 0
    /\ open = [d \in Descriptors |-> Silence]
    /\ thread = "off" /\ sessions = 0
    /\ recorded = <<>>

-----------------------------------------------------------------------------
\* record_set_filename clears the name, then copies the new one.  A name half
\* copied is taken for one that cannot be opened, like the empty one.
Clear(name) ==
    /\ setting = NoName /\ names < MaxNames
    /\ filename' = NoName
    /\ setting' = name
    /\ names' = names + 1
    /\ UNCHANGED <<file_fd, open, thread, sessions, recorded>>

Copy ==
    /\ setting # NoName
    /\ filename' = setting
    /\ setting' = NoName
    /\ UNCHANGED <<names, file_fd, open, thread, sessions, recorded>>

-----------------------------------------------------------------------------
\* The library starts a recording thread.
Begin ==
    /\ thread = "off" /\ sessions < MaxSessions
    /\ thread' = "start" /\ sessions' = sessions + 1
    /\ recorded' = <<>>
    /\ UNCHANGED <<filename, setting, names, file_fd, open>>

FreeFd == CHOOSE d \in Descriptors :
            open[d] = Silence /\ \A e \in Descriptors : open[e] = Silence => d <= e

record_start ==
    /\ thread = "start"
    /\ filename \in DOMAIN Pieces
    /\ open' = [open EXCEPT ![FreeFd] = [file |-> filename, piece |-> 0]]
    /\ file_fd' = FreeFd
    /\ thread' = "get"
    /\ UNCHANGED <<filename, setting, names, sessions, recorded>>

\* Mutant: the failure of open is not returned.
StartUnchecked ==
    /\ thread = "start"
    /\ filename \notin DOMAIN Pieces
    /\ thread' = "get"
    /\ UNCHANGED <<filename, setting, names, file_fd, open, sessions, recorded>>

\* Mutant: the result of open is stored before it is looked at.
StartStoresError ==
    /\ thread = "start"
    /\ filename \notin DOMAIN Pieces
    /\ file_fd' = -1
    /\ thread' = "off"
    /\ UNCHANGED <<filename, setting, names, open, sessions, recorded>>

\* record_start returns NULL, and the library ends the recording without a
\* call of record_stop.
StartFails ==
    /\ thread = "start"
    /\ filename \notin DOMAIN Pieces
    /\ thread' = "off"
    /\ UNCHANGED <<filename, setting, names, file_fd, open, sessions, recorded>>

\* Mutant: the file the name says now is read.
GetByName ==
    /\ thread = "get" /\ Len(recorded) < MaxBlocks
    /\ filename \in DOMAIN Pieces
    /\ LET here == [file |-> filename, piece |-> open[file_fd].piece]
           more == here.piece < Pieces[filename]
           next == [here EXCEPT !.piece = @ + 1]
       IN  /\ open' = IF more THEN [open EXCEPT ![file_fd] = next] ELSE open
           /\ recorded' = Append(recorded, IF more THEN next ELSE Silence)
    /\ UNCHANGED <<filename, setting, names, file_fd, thread, sessions>>

\* Descriptor d after a read.
Read(d) == [open[d] EXCEPT !.piece = @ + 1]

\* Only the descriptor tells which file is read, not its name.  At the end of
\* the file read returns nothing and the block stays silent.
record_data_get ==
    /\ thread = "get" /\ Len(recorded) < MaxBlocks
    /\ LET more == open[file_fd].piece < Pieces[open[file_fd].file]
       IN  /\ open' = IF more THEN [open EXCEPT ![file_fd] = Read(file_fd)] ELSE open
           /\ recorded' = Append(recorded, IF more THEN Read(file_fd) ELSE Silence)
    /\ UNCHANGED <<filename, setting, names, file_fd, thread, sessions>>

\* The library has enough.
End ==
    /\ thread = "get"
    /\ thread' = "stop"
    /\ UNCHANGED <<filename, setting, names, file_fd, open, sessions, recorded>>

\* Mutant: the descriptor is forgotten, not closed.
StopForgets ==
    /\ thread = "stop"
    /\ file_fd' = 0
    /\ thread' = "off"
    /\ UNCHANGED <<filename, setting, names, open, sessions, recorded>>

record_stop ==
    /\ thread = "stop"
    /\ open' = IF file_fd # 0 THEN [open EXCEPT ![file_fd] = Silence] ELSE open
    /\ file_fd' = 0
    /\ thread' = "off"
    /\ UNCHANGED <<filename, setting, names, sessions, recorded>>

Next ==
    \/ \E name \in Names : Clear(name)
    \/ Copy \/ Begin \/ record_start \/ StartFails \/ record_data_get \/ End
    \/ record_stop

Spec == Init /\ [][Next]_vars

-----------------------------------------------------------------------------
\* The types of all variables.
TypeOK ==
    /\ filename \in Names \cup {NoName}
    /\ setting \in Names \cup {NoName}
    /\ names \in 0 .. MaxNames
    /\ file_fd \in Descriptors \cup {0}
    /\ open \in [Descriptors -> Block]
    /\ thread \in {"off", "start", "get", "stop"}
    /\ sessions \in 0 .. MaxSessions
    /\ recorded \in Seq(Block)

\* record.c:36, 84-88: a recording leaves no file open, whether it could start
\* or not; the one record_start opened is the one record_stop closes.
FdClosed ==
    \A d \in Descriptors : open[d] # Silence => thread \in {"get", "stop"} /\ file_fd = d

\* record.c:59: record_data_get never reads descriptor 0, which is what the
\* field holds between recordings and which is the command line's input.
ReadsOpenFile ==
    thread = "get" => file_fd # 0 /\ open[file_fd] # Silence

\* The recording is file f from its beginning.
Plays(f) ==
    \A i \in 1 .. Len(recorded) :
        recorded[i] = IF i <= Pieces[f] THEN [file |-> f, piece |-> i] ELSE Silence

\* What was recorded is one file from its beginning, each piece once and in
\* order, then silence; a new name set meanwhile shows in the next recording.
Playback == recorded # <<>> => \E f \in DOMAIN Pieces : Plays(f)

Recorder == INSTANCE RecorderContract WITH
    source <- IF thread \in {"get", "stop"} THEN open[file_fd].file ELSE NoName

\* record.c:28-101: on a descriptor that is shared state, and with the name set
\* at any moment, the functions are a recording source: what a start settled on
\* is played from its beginning, each piece once, then silence.
RecorderSpec == Recorder!Spec
=============================================================================
