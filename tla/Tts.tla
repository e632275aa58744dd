-------------------------------- MODULE Tts --------------------------------
(***************************************************************************)
(* Text to speech (src/module/txt2tts.c): txt2tts asks libkeros for a      *)
(* conversion and starts a thread, handle_tts_data, that takes blocks of   *)
(* audio from the conversion's queue, writes them to the one file tts.opus *)
(* and puts an end mark after the last.  A thread of libkeros fills the    *)
(* queue as the blocks arrive.                                             *)
(*                                                                         *)
(* The blocks of conversion c are 1 .. Data[c], then the block of type     *)
(* UNI_AUDIO_DATA_FINISH, which is taken to carry no data: what the code   *)
(* writes of it is nothing.  A queue is first in first out, so it is known *)
(* by how many blocks went in and out of it.  Every write of an open file  *)
(* is whole.  uni_txt2tts_start gives every handle a queue, so the branch  *)
(* for one without (txt2tts.c:56-57) is not taken; uni_destroy_asr_result  *)
(* (70) touches nothing of these variables.                                *)
(***************************************************************************)
EXTENDS Integers, Sequences

CONSTANTS
    MaxConversions, \* bound: calls of txt2tts
    Data,           \* Data[c]: blocks with data in conversion c
    Room            \* places of a queue

Conversions == 1 .. MaxConversions

ASSUME MaxAssumption  == MaxConversions \in Nat
ASSUME DataAssumption == Data \in [Conversions -> Nat]
ASSUME RoomAssumption == Room \in Nat \ {0}

EndMark == <<0, 0>>     \* TTS_END_STR in the file
Hole    == <<0, 1>>     \* what lies in a file before a write past its end
Cell    == (Conversions \X Nat) \cup {EndMark, Hole}

Finish(c) == Data[c] + 1
Closed    == -1         \* no offset: the conversion has no descriptor

VARIABLES
    caller,     \* txt2tts: "idle", "spawn" or "dead"
    info,       \* uni_get_iot_info() is not NULL
    calls,      \* conversions started
    stream,     \* libkeros, per conversion: "none", "open", "cut" or "over"
    put,        \* per conversion: blocks put into its queue
    got,        \* per conversion: blocks taken from it
    pc,         \* handle_tts_data: "none", "open", "get", "write", "free",
                \* "mark", "close" or "done"
    get_data,   \* per conversion: the block in hand; 0: NULL
    freed,      \* per conversion and block: how often it was destroyed
    pos,        \* per conversion: offset of its descriptor, or Closed
    file,       \* tts.opus
    \* history, read by the properties only
    last,       \* the conversion that opened the file last
    overlap     \* a conversion opened the file while another had it open

libVars    == <<stream, put>>
threadVars == <<pc, got, get_data, freed, pos, file, last, overlap>>
vars       == <<caller, info, calls, libVars, threadVars>>

Init ==
    /\ caller = "idle" /\ info = FALSE /\ calls = 0
    /\ stream = [c \in Conversions |-> "none"]
    /\ put = [c \in Conversions |-> 0]
    /\ got = [c \in Conversions |-> 0]
    /\ pc = [c \in Conversions |-> "none"]
    /\ get_data = [c \in Conversions |-> 0]
    /\ freed = [c \in Conversions |-> [b \in 1 .. Finish(c) |-> 0]]
    /\ pos = [c \in Conversions |-> Closed]
    /\ file = <<>>
    /\ last = 0 /\ overlap = FALSE

-----------------------------------------------------------------------------
\* iot_init gives the program its information block.
InfoGiven ==
    /\ caller = "idle" /\ ~info
    /\ info' = TRUE
    /\ UNCHANGED <<caller, calls, libVars, threadVars>>

\* txt2tts copies from the block without a look at the pointer.
InfoCrash ==
    /\ caller = "idle" /\ calls < MaxConversions
    /\ ~info
    /\ caller' = "dead"
    /\ UNCHANGED <<info, calls, libVars, threadVars>>

\* uni_txt2tts_start gives a handle with a queue.
Start ==
    /\ caller = "idle" /\ calls < MaxConversions
    /\ info
    /\ calls' = calls + 1
    /\ stream' = [stream EXCEPT ![calls'] = "open"]
    /\ caller' = "spawn"
    /\ UNCHANGED <<info, put, threadVars>>

\* It gives NULL, and txt2tts reads the queue of it.
StartCrash ==
    /\ caller = "idle" /\ calls < MaxConversions
    /\ info
    /\ caller' = "dead"
    /\ UNCHANGED <<info, calls, libVars, threadVars>>

txt2tts ==
    /\ caller = "spawn"
    /\ pc' = [pc EXCEPT ![calls] = "open"]
    /\ caller' = "idle"
    /\ UNCHANGED <<info, calls, libVars, got, get_data, freed, pos, file, last, overlap>>

\* pthread_create fails: nobody will take from the queue, and 0 is returned.
SpawnFails ==
    /\ caller = "spawn"
    /\ caller' = "idle"
    /\ UNCHANGED <<info, calls, libVars, threadVars>>

-----------------------------------------------------------------------------
\* Mutant: a queue without a bound.
PutUnbounded(c) ==
    /\ caller # "dead"
    /\ stream[c] = "open" /\ put[c] < Finish(c)
    /\ put' = [put EXCEPT ![c] = @ + 1]
    /\ stream' = [stream EXCEPT ![c] = IF put'[c] = Finish(c) THEN "over" ELSE @]
    /\ UNCHANGED <<caller, info, calls, threadVars>>

\* The library's thread puts the next block; it waits while there is no place.
Put(c) ==
    /\ caller # "dead"
    /\ stream[c] = "open" /\ put[c] < Finish(c)
    /\ put[c] - got[c] < Room
    /\ put' = [put EXCEPT ![c] = @ + 1]
    /\ stream' = [stream EXCEPT ![c] = IF put'[c] = Finish(c) THEN "over" ELSE @]
    /\ UNCHANGED <<caller, info, calls, threadVars>>

\* The connection breaks: there will be no block of type FINISH.
Cut(c) ==
    /\ caller # "dead"
    /\ stream[c] = "open"
    /\ stream' = [stream EXCEPT ![c] = "cut"]
    /\ UNCHANGED <<caller, info, calls, put, threadVars>>

-----------------------------------------------------------------------------
Go(c, from, to) ==
    /\ caller # "dead"
    /\ pc[c] = from
    /\ pc' = [pc EXCEPT ![c] = to]
    /\ UNCHANGED <<caller, info, calls, libVars>>

\* Mutant: without O_TRUNC what an earlier conversion wrote stays.
OpenKeeps(c) ==
    /\ Go(c, "open", "get")
    /\ pos' = [pos EXCEPT ![c] = 0]
    /\ last' = c
    /\ overlap' = (overlap \/ \E d \in Conversions : pos[d] # Closed)
    /\ UNCHANGED <<got, get_data, freed, file>>

\* O_TRUNC empties the file also for a conversion that is still writing to it.
Open(c) ==
    /\ Go(c, "open", "get")
    /\ pos' = [pos EXCEPT ![c] = 0]
    /\ file' = <<>>
    /\ last' = c
    /\ overlap' = (overlap \/ \E d \in Conversions : pos[d] # Closed)
    /\ UNCHANGED <<got, get_data, freed>>

OpenFails(c) ==
    /\ Go(c, "open", "mark")
    /\ UNCHANGED <<got, get_data, freed, pos, file, last, overlap>>

\* The queue has a block within the 2000 ms.  If not, get returns NULL and the
\* thread asks again, with nothing changed: the end flag it looks at first is
\* never set.
Get(c) ==
    /\ Go(c, "get", "write")
    /\ got[c] < put[c]
    /\ got' = [got EXCEPT ![c] = @ + 1]
    /\ get_data' = [get_data EXCEPT ![c] = got'[c]]
    /\ UNCHANGED <<freed, pos, file, last, overlap>>

\* The file after x is written at offset p.
Store(f, p, x) ==
    [i \in 1 .. (IF p < Len(f) THEN Len(f) ELSE p + 1) |->
        IF i = p + 1 THEN x ELSE IF i <= Len(f) THEN f[i] ELSE Hole]

Emit(c, x) ==
    /\ file' = Store(file, pos[c], x)
    /\ pos' = [pos EXCEPT ![c] = @ + 1]

Write(c) ==
    /\ Go(c, "write", "free")
    /\ get_data[c] # Finish(c)
    /\ Emit(c, <<c, get_data[c]>>)
    /\ UNCHANGED <<got, get_data, freed, last, overlap>>

\* Mutant: the block of type FINISH does not end the loop.
FinishMissed(c) ==
    /\ Go(c, "write", "free")
    /\ get_data[c] = Finish(c)
    /\ UNCHANGED <<got, get_data, freed, pos, file, last, overlap>>

\* The block of type FINISH: the loop ends with the block in hand.
WriteFinish(c) ==
    /\ Go(c, "write", "mark")
    /\ get_data[c] = Finish(c)
    /\ UNCHANGED <<got, get_data, freed, pos, file, last, overlap>>

Freed(c) == [freed EXCEPT ![c][get_data[c]] = @ + 1]

Free(c) ==
    /\ Go(c, "free", "get")
    /\ freed' = Freed(c)
    /\ get_data' = [get_data EXCEPT ![c] = 0]
    /\ UNCHANGED <<got, pos, file, last, overlap>>

\* Mutant: what is in hand after the loop is not destroyed.
MarkKeeps(c) ==
    /\ Go(c, "mark", "close")
    /\ IF pos[c] = Closed THEN UNCHANGED <<file, pos>> ELSE Emit(c, EndMark)
    /\ get_data' = [get_data EXCEPT ![c] = 0]
    /\ UNCHANGED <<got, freed, last, overlap>>

\* After the loop: the block in hand is destroyed, then the mark is written;
\* if the file did not open, the write to descriptor -1 fails.
Mark(c) ==
    /\ Go(c, "mark", "close")
    /\ freed' = IF get_data[c] = 0 THEN freed ELSE Freed(c)
    /\ get_data' = [get_data EXCEPT ![c] = 0]
    /\ IF pos[c] = Closed THEN UNCHANGED <<file, pos>> ELSE Emit(c, EndMark)
    /\ UNCHANGED <<got, last, overlap>>

Close(c) ==
    /\ Go(c, "close", "done")
    /\ pos' = [pos EXCEPT ![c] = Closed]
    /\ UNCHANGED <<got, get_data, freed, file, last, overlap>>

handle_tts_data(c) ==
    \/ Open(c) \/ OpenFails(c) \/ Get(c) \/ Write(c) \/ WriteFinish(c)
    \/ Free(c) \/ Mark(c) \/ Close(c)

Next ==
    \/ InfoGiven \/ InfoCrash \/ Start \/ StartCrash \/ txt2tts \/ SpawnFails
    \/ \E c \in Conversions : Put(c) \/ Cut(c) \/ handle_tts_data(c)

Spec == Init /\ [][Next]_vars

\* The threads of a conversion run; a stream goes on unless it is cut.
Fairness ==
    \A c \in Conversions : WF_vars(Put(c)) /\ WF_vars(handle_tts_data(c))

FairSpec == Spec /\ Fairness

-----------------------------------------------------------------------------
\* The types of all variables; a queue never holds more than it has places for.
TypeOK ==
    /\ caller \in {"idle", "spawn", "dead"}
    /\ info \in BOOLEAN
    /\ calls \in 0 .. MaxConversions
    /\ stream \in [Conversions -> {"none", "open", "cut", "over"}]
    /\ put \in [Conversions -> Nat]
    /\ got \in [Conversions -> Nat]
    /\ \A c \in Conversions : put[c] - got[c] \in 0 .. Room
    /\ pc \in [Conversions -> {"none", "open", "get", "write", "free", "mark",
                               "close", "done"}]
    /\ get_data \in [Conversions -> Nat]
    /\ DOMAIN freed = Conversions
    /\ \A c \in Conversions : freed[c] \in [1 .. Finish(c) -> Nat]
    /\ pos \in [Conversions -> Nat \cup {Closed}]
    /\ file \in Seq(Cell)
    /\ last \in 0 .. MaxConversions
    /\ overlap \in BOOLEAN

\* txt2tts.c:40-63: every block taken from a queue is destroyed exactly once,
\* the one that ends the loop and is left in hand too.
BlocksReleased ==
    \A c \in Conversions : \A b \in 1 .. Finish(c) :
        freed[c][b] = IF b <= got[c] /\ b # get_data[c] THEN 1 ELSE 0

\* The first n cells of a complete conversion c.
Written(c, n) == [i \in 1 .. n |-> IF i <= Data[c] THEN <<c, i>> ELSE EndMark]

\* As long as conversions do not overlap, the file is the data of the last one.
LastIsStream ==
    (~overlap /\ last # 0) =>
        IF pc[last] \in {"close", "done"}
        THEN file = Written(last, Finish(last))
        ELSE file = Written(last, pos[last])

\* Every cell is a hole or what some conversion has in that place.
InPlace ==
    \A i \in DOMAIN file :
        \/ file[i] = Hole
        \/ \E c \in Conversions : i <= Finish(c) /\ file[i] = Written(c, Finish(c))[i]

\* txt2tts.c:29, 46, 64: the file is the data of the last conversion in order,
\* and nothing of the one before; once that conversion is over the file is
\* complete, with the mark at its end.  When conversions overlap, O_TRUNC takes
\* what the earlier has written and both write at offsets of their own: the
\* file is then a mixture of the two with holes, but a block that is in it is
\* in the place it has in its own stream.
FileIsStream == LastIsStream /\ InPlace

\* txt2tts.c:35-55: a conversion whose thread has the file ends, its library
\* thread not kept waiting for a place, unless the stream is cut.
ConversionEnds ==
    \A c \in Conversions :
        pc[c] = "get" ~> (pc[c] = "done" \/ stream[c] = "cut" \/ caller = "dead")
=============================================================================
