----------------------------- MODULE TtsProofs -----------------------------
(***************************************************************************)
(* Proofs about Tts.  The invariant ties the blocks a conversion has taken,*)
(* the block in its hand and the offset of its descriptor together at each *)
(* step of handle_tts_data; what was destroyed and what the file holds     *)
(* follow from them.                                                       *)
(***************************************************************************)
EXTENDS Tts, TLAPS

USE DEF Conversions, Finish, Closed

\* Where conversion c stands: blocks taken, block in hand, offset.
At(c) ==
    /\ got[c] <= put[c] /\ put[c] <= Finish(c)
    /\ pc[c] \in {"none", "open"} => got[c] = 0 /\ get_data[c] = 0 /\ pos[c] = Closed
    /\ pc[c] = "get"   => get_data[c] = 0 /\ pos[c] = got[c] /\ got[c] <= Data[c]
    /\ pc[c] = "write" => get_data[c] = got[c] /\ got[c] >= 1 /\ pos[c] = got[c] - 1
    /\ pc[c] = "free"  => get_data[c] = got[c] /\ got[c] >= 1 /\ pos[c] = got[c]
                          /\ got[c] <= Data[c]
    /\ pc[c] = "mark"  => \/ pos[c] = Closed /\ get_data[c] = 0 /\ got[c] = 0
                          \/ pos[c] = Data[c] /\ get_data[c] = Finish(c) /\ got[c] = Finish(c)
    /\ pc[c] = "close" => get_data[c] = 0 /\ pos[c] \in {Closed, Finish(c)}
    /\ pc[c] = "done"  => get_data[c] = 0 /\ pos[c] = Closed

Standing == \A c \in Conversions : At(c)

\* A conversion gets its thread once.
Fresh ==
    /\ \A c \in Conversions : c > calls => pc[c] = "none"
    /\ caller = "spawn" => calls >= 1 /\ pc[calls] = "none"

\* Without an overlap only the last conversion to open the file has it open,
\* and it has it open until it is done.
OneWriter ==
    /\ ~overlap => \A c \in Conversions : c # last => pos[c] = Closed
    /\ last # 0 =>
          /\ pc[last] \notin {"none", "open"}
          /\ pc[last] # "done" => pos[last] # Closed

Blocks == TypeOK /\ Standing /\ Fresh /\ BlocksReleased

-----------------------------------------------------------------------------
\* txt2tts.c:46 and 64: a write at the end makes the file longer by one cell.
LEMMA StoreAtEnd ==
    ASSUME NEW c \in Conversions, NEW p \in 0 .. Data[c], NEW x,
           x = IF p + 1 <= Data[c] THEN <<c, p + 1>> ELSE EndMark
    PROVE  Store(Written(c, p), p, x) = Written(c, p + 1)
<1>1. p \in Nat /\ Data[c] \in Nat
    BY DataAssumption
<1>2. Len(Written(c, p)) = p
    BY <1>1 DEF Written
<1>3. Store(Written(c, p), p, x)
        = [i \in 1 .. p + 1 |-> IF i = p + 1 THEN x
                                ELSE IF i <= p THEN Written(c, p)[i] ELSE Hole]
    BY <1>1, <1>2 DEF Store
<1>4. \A i \in 1 .. p : Written(c, p)[i] = IF i <= Data[c] THEN <<c, i>> ELSE EndMark
    BY <1>1 DEF Written
<1>5. \A i \in 1 .. p + 1 :
        (IF i = p + 1 THEN x ELSE IF i <= p THEN Written(c, p)[i] ELSE Hole)
            = IF i <= Data[c] THEN <<c, i>> ELSE EndMark
    BY <1>1, <1>4
<1> QED  BY <1>3, <1>5 DEF Written

\* A file stays a sequence of cells whatever is written to it and where.
LEMMA StoreType ==
    ASSUME NEW f \in Seq(Cell), NEW p \in Nat, NEW x \in Cell
    PROVE  Store(f, p, x) \in Seq(Cell)
<1> DEFINE n == IF p < Len(f) THEN Len(f) ELSE p + 1
<1>1. n \in Nat
    OBVIOUS
<1>2. \A i \in 1 .. n :
        (IF i = p + 1 THEN x ELSE IF i <= Len(f) THEN f[i] ELSE Hole) \in Cell
    <2>1. Hole \in Cell
        BY DEF Cell
    <2>2. \A i \in 1 .. Len(f) : f[i] \in Cell
        OBVIOUS
    <2> QED  BY <1>1, <2>1, <2>2
<1>3. Store(f, p, x) = [i \in 1 .. n |-> IF i = p + 1 THEN x
                                         ELSE IF i <= Len(f) THEN f[i] ELSE Hole]
    BY DEF Store
<1> HIDE DEF n
<1>4. [i \in 1 .. n |-> IF i = p + 1 THEN x
                        ELSE IF i <= Len(f) THEN f[i] ELSE Hole] \in Seq(Cell)
    BY <1>1, <1>2
<1> QED  BY <1>3, <1>4

-----------------------------------------------------------------------------
\* TypeOK in three parts: the words, the counters, the data.
Words ==
    /\ caller \in {"idle", "spawn", "dead"} /\ info \in BOOLEAN /\ overlap \in BOOLEAN
    /\ stream \in [Conversions -> {"none", "open", "cut", "over"}]
    /\ pc \in [Conversions -> {"none", "open", "get", "write", "free", "mark",
                               "close", "done"}]

Counters ==
    /\ calls \in 0 .. MaxConversions /\ last \in 0 .. MaxConversions
    /\ put \in [Conversions -> Nat]
    /\ got \in [Conversions -> Nat]
    /\ \A c \in Conversions : put[c] - got[c] \in 0 .. Room
    /\ get_data \in [Conversions -> Nat]

Stored ==
    /\ DOMAIN freed = Conversions
    /\ \A c \in Conversions : freed[c] \in [1 .. Finish(c) -> Nat]
    /\ pos \in [Conversions -> Nat \cup {Closed}]
    /\ file \in Seq(Cell)

LEMMA Parts == TypeOK <=> Words /\ Counters /\ Stored
BY DEF TypeOK, Words, Counters, Stored

\* Every step keeps the words.
LEMMA WordsStep ==
    ASSUME Words, [Next]_vars
    PROVE  Words'
<1>1. CASE UNCHANGED vars
    BY <1>1 DEF Words, vars, libVars, threadVars
<1>2. CASE InfoGiven \/ InfoCrash \/ StartCrash \/ SpawnFails
    BY <1>2 DEF Words, InfoGiven, InfoCrash, StartCrash, SpawnFails, libVars, threadVars
<1>3. CASE Start \/ txt2tts
    BY <1>3 DEF Words, Start, txt2tts, libVars, threadVars
<1>4. ASSUME NEW c \in Conversions, Put(c) \/ Cut(c)
      PROVE  Words'
    BY <1>4 DEF Words, Put, Cut, threadVars
<1>5. ASSUME NEW c \in Conversions, handle_tts_data(c)
      PROVE  Words'
    <2>1. /\ UNCHANGED <<caller, info, stream>>
          /\ overlap' \in BOOLEAN
        BY <1>5 DEF Words, handle_tts_data, Open, OpenFails, Get, Write, WriteFinish,
                    Free, Mark, Close, Go, libVars
    <2>2. \E to \in {"get", "write", "free", "mark", "close", "done"} :
            pc' = [pc EXCEPT ![c] = to]
        BY <1>5 DEF handle_tts_data, Open, OpenFails, Get, Write, WriteFinish,
                    Free, Mark, Close, Go
    <2> QED  BY <2>1, <2>2 DEF Words
<1> QED  BY <1>1, <1>2, <1>3, <1>4, <1>5 DEF Next

\* Every step keeps the counters: a queue is not filled past its places.
LEMMA CountersStep ==
    ASSUME Counters, [Next]_vars
    PROVE  Counters'
<1> USE MaxAssumption, RoomAssumption
<1>1. CASE UNCHANGED <<calls, last, put, got, get_data>>
    BY <1>1 DEF Counters
<1>2. CASE Start
    BY <1>2 DEF Counters, Start, threadVars
<1>3. ASSUME NEW c \in Conversions, Put(c)
      PROVE  Counters'
    <2>1. put' = [put EXCEPT ![c] = put[c] + 1] /\ put[c] - got[c] < Room
        BY <1>3 DEF Put
    <2>2. UNCHANGED <<calls, last, got, get_data>>
        BY <1>3 DEF Put, threadVars
    <2>3. put \in [Conversions -> Nat] /\ got \in [Conversions -> Nat]
        BY DEF Counters
    <2>4. put' \in [Conversions -> Nat]
        BY <2>1, <2>3
    <2>5. ASSUME NEW d \in Conversions
          PROVE  put'[d] - got'[d] \in 0 .. Room
        <3>1. put[d] - got[d] \in 0 .. Room /\ put[d] \in Nat /\ got[d] \in Nat
            BY <2>3 DEF Counters
        <3>2. put'[d] = IF d = c THEN put[d] + 1 ELSE put[d]
            BY <2>1, <2>3
        <3> QED  BY <2>1, <2>2, <3>1, <3>2
    <2> QED  BY <2>2, <2>4, <2>5 DEF Counters
<1>4. ASSUME NEW c \in Conversions, Get(c)
      PROVE  Counters'
    <2>1. got' = [got EXCEPT ![c] = got[c] + 1] /\ got[c] < put[c]
        BY <1>4 DEF Get
    <2>2. put \in [Conversions -> Nat] /\ got \in [Conversions -> Nat]
          /\ get_data \in [Conversions -> Nat]
        BY DEF Counters
    <2>3. got' \in [Conversions -> Nat] /\ got'[c] \in Nat
        BY <2>1, <2>2
    <2>4. get_data' \in [Conversions -> Nat]
        BY <1>4, <2>2, <2>3 DEF Get
    <2>5. UNCHANGED <<calls, last, put>>
        BY <1>4 DEF Get, Go, libVars
    <2>6. ASSUME NEW d \in Conversions
          PROVE  put'[d] - got'[d] \in 0 .. Room
        <3>1. put[d] - got[d] \in 0 .. Room /\ put[d] \in Nat /\ got[d] \in Nat
            BY <2>2 DEF Counters
        <3>2. got'[d] = IF d = c THEN got[d] + 1 ELSE got[d]
            BY <2>1, <2>2
        <3> QED  BY <2>1, <2>5, <3>1, <3>2
    <2> QED  BY <2>3, <2>4, <2>5, <2>6 DEF Counters
<1>5. ASSUME NEW c \in Conversions, Open(c) \/ Free(c) \/ Mark(c)
      PROVE  Counters'
    <2>1. UNCHANGED <<calls, put, got>> /\ last' \in {last, c}
        BY <1>5 DEF Open, Free, Mark, Go, libVars
    <2>2. get_data' \in {get_data, [get_data EXCEPT ![c] = 0]}
        BY <1>5 DEF Open, Free, Mark
    <2>3. get_data \in [Conversions -> Nat] /\ c \in 0 .. MaxConversions
        BY DEF Counters
    <2>4. get_data' \in [Conversions -> Nat]
        BY <2>2, <2>3
    <2>5. last' \in 0 .. MaxConversions
        BY <2>1, <2>3 DEF Counters
    <2> QED  BY <2>1, <2>4, <2>5 DEF Counters
<1> QED  BY <1>1, <1>2, <1>3, <1>4, <1>5
         DEF Next, vars, InfoGiven, InfoCrash, StartCrash, txt2tts, SpawnFails, Cut,
             handle_tts_data, OpenFails, Write, WriteFinish, Close, Go, libVars, threadVars

\* Every step keeps the types of what is stored: the file is written at an
\* offset, and only blocks that are there are destroyed.
LEMMA StoredStep ==
    ASSUME TypeOK, Standing, [Next]_vars
    PROVE  Stored'
<1> USE DataAssumption
<1>1. CASE UNCHANGED <<freed, pos, file>>
    BY <1>1 DEF TypeOK, Stored
<1>2. ASSUME NEW c \in Conversions, NEW x \in Cell, Emit(c, x), pos[c] \in Nat
      PROVE  file' \in Seq(Cell) /\ pos' \in [Conversions -> Nat \cup {Closed}]
    <2>1. file \in Seq(Cell) /\ pos \in [Conversions -> Nat \cup {Closed}]
        BY DEF TypeOK
    <2>2. file' \in Seq(Cell)
        BY <1>2, <2>1, StoreType DEF Emit
    <2>3. pos' = [pos EXCEPT ![c] = pos[c] + 1] /\ pos[c] + 1 \in Nat
        BY <1>2 DEF Emit
    <2> QED  BY <2>1, <2>2, <2>3
<1>3. ASSUME NEW c \in Conversions, freed' = Freed(c)
      PROVE  /\ DOMAIN freed' = Conversions
             /\ \A d \in Conversions : freed'[d] \in [1 .. Finish(d) -> Nat]
    <2> DEFINE f == [freed[c] EXCEPT ![get_data[c]] = freed[c][get_data[c]] + 1]
    <2>1. freed' = [freed EXCEPT ![c] = f]
        BY <1>3 DEF Freed
    <2>2. freed[c] \in [1 .. Finish(c) -> Nat]
        BY DEF TypeOK
    <2>3. f \in [1 .. Finish(c) -> Nat]
        <3>1. CASE get_data[c] \in 1 .. Finish(c)
            <4>1. freed[c][get_data[c]] + 1 \in Nat
                BY <2>2, <3>1
            <4> QED  BY <2>2, <4>1
        <3>2. CASE get_data[c] \notin 1 .. Finish(c)
            <4>1. f = freed[c]
                BY <2>2, <3>2
            <4> QED  BY <2>2, <4>1
        <3> QED  BY <3>1, <3>2
    <2> HIDE DEF f
    <2> QED  BY <2>1, <2>3 DEF TypeOK
<1>4. ASSUME NEW c \in Conversions, Open(c)
      PROVE  Stored'
    <2>1. pos' = [pos EXCEPT ![c] = 0] /\ file' = <<>> /\ freed' = freed
        BY <1>4 DEF Open
    <2>2. <<>> \in Seq(Cell)
        OBVIOUS
    <2> QED  BY <2>1, <2>2 DEF TypeOK, Stored
<1>5. ASSUME NEW c \in Conversions, Write(c)
      PROVE  Stored'
    <2>1. pos[c] \in Nat
        BY <1>5 DEF TypeOK, Standing, At, Write, Go
    <2>2. <<c, get_data[c]>> \in Cell
        BY DEF TypeOK, Cell
    <2>3. Emit(c, <<c, get_data[c]>>) /\ freed' = freed
        BY <1>5 DEF Write
    <2> QED  BY <1>2, <2>1, <2>2, <2>3 DEF TypeOK, Stored
<1>6. ASSUME NEW c \in Conversions, Free(c)
      PROVE  Stored'
    <2>1. UNCHANGED <<pos, file>> /\ freed' = Freed(c)
        BY <1>6 DEF Free
    <2> QED  BY <1>3, <2>1 DEF TypeOK, Stored
<1>7. ASSUME NEW c \in Conversions, Mark(c)
      PROVE  Stored'
    <2>1. /\ DOMAIN freed' = Conversions
          /\ \A d \in Conversions : freed'[d] \in [1 .. Finish(d) -> Nat]
        BY <1>7, <1>3 DEF TypeOK, Mark
    <2>2. file' \in Seq(Cell) /\ pos' \in [Conversions -> Nat \cup {Closed}]
        <3>1. EndMark \in Cell
            BY DEF Cell
        <3>2. CASE pos[c] = Closed
            BY <1>7, <3>2 DEF TypeOK, Mark
        <3>3. CASE pos[c] # Closed
            <4>1. pos[c] \in Nat
                BY <3>3 DEF TypeOK
            <4> QED  BY <1>7, <1>2, <3>1, <3>3, <4>1 DEF Mark
        <3> QED  BY <3>2, <3>3
    <2> QED  BY <2>1, <2>2 DEF Stored
<1>8. ASSUME NEW c \in Conversions, Close(c)
      PROVE  Stored'
    <2>1. pos' = [pos EXCEPT ![c] = Closed] /\ UNCHANGED <<file, freed>>
        BY <1>8 DEF Close
    <2> QED  BY <2>1 DEF TypeOK, Stored
<1> QED  BY <1>1, <1>4, <1>5, <1>6, <1>7, <1>8
         DEF Next, vars, InfoGiven, InfoCrash, Start, StartCrash, txt2tts, SpawnFails,
             Put, Cut, handle_tts_data, OpenFails, Get, WriteFinish, Go, libVars,
             threadVars

LEMMA TypeStep ==
    ASSUME TypeOK, Standing, [Next]_vars
    PROVE  TypeOK'
<1>1. Words /\ Counters
    BY Parts
<1>2. Words' /\ Counters' /\ Stored'
    BY <1>1, WordsStep, CountersStep, StoredStep
<1> QED  BY <1>2 DEF TypeOK, Words, Counters, Stored

-----------------------------------------------------------------------------
\* Nothing of conversion d changes but what its library thread may have put.
Still(d) ==
    /\ pc'[d] = pc[d] /\ got'[d] = got[d] /\ put'[d] = put[d]
    /\ get_data'[d] = get_data[d] /\ pos'[d] = pos[d]

LEMMA StillStands ==
    ASSUME NEW d, At(d), Still(d)
    PROVE  At(d)'
BY DEF At, Still

\* A thread changes its own conversion only.
LEMMA Others ==
    ASSUME TypeOK, NEW c \in Conversions, handle_tts_data(c),
           NEW d \in Conversions, d # c
    PROVE  Still(d)
<1>1. pc'[d] = pc[d] /\ put'[d] = put[d]
    BY DEF TypeOK, handle_tts_data, Open, OpenFails, Get, Write, WriteFinish,
           Free, Mark, Close, Go, libVars
<1>2. got'[d] = got[d] /\ get_data'[d] = get_data[d]
    BY DEF TypeOK, handle_tts_data, Open, OpenFails, Get, Write, WriteFinish,
           Free, Mark, Close
<1>3. pos'[d] = pos[d]
    BY DEF TypeOK, handle_tts_data, Open, OpenFails, Get, Write, WriteFinish,
           Free, Mark, Close, Emit
<1> QED  BY <1>1, <1>2, <1>3 DEF Still

\* Every step of a thread takes its conversion to where it must stand.
LEMMA OwnStep ==
    ASSUME TypeOK, NEW c \in Conversions, At(c), handle_tts_data(c)
    PROVE  At(c)'
<1>0. /\ put[c] \in Nat /\ got[c] \in Nat /\ get_data[c] \in Nat /\ Data[c] \in Nat
      /\ pos[c] \in Nat \cup {-1} /\ put'[c] = put[c]
    BY DataAssumption DEF TypeOK, handle_tts_data, Open, OpenFails, Get, Write,
       WriteFinish, Free, Mark, Close, Go, libVars
<1>1. CASE Open(c)
    <2>1. /\ pc[c] = "open" /\ pc'[c] = "get" /\ got'[c] = got[c]
          /\ get_data'[c] = get_data[c] /\ pos'[c] = 0
        BY <1>1 DEF TypeOK, Open, Go
    <2> QED  BY <1>0, <2>1 DEF At
<1>2. CASE OpenFails(c)
    <2>1. /\ pc[c] = "open" /\ pc'[c] = "mark" /\ got'[c] = got[c]
          /\ get_data'[c] = get_data[c] /\ pos'[c] = pos[c]
        BY <1>2 DEF TypeOK, OpenFails, Go
    <2> QED  BY <1>0, <2>1 DEF At
<1>3. CASE Get(c)
    <2>1. /\ pc[c] = "get" /\ pc'[c] = "write" /\ got[c] < put[c]
          /\ got'[c] = got[c] + 1 /\ pos'[c] = pos[c]
        BY <1>3 DEF TypeOK, Get, Go
    <2>2. get_data'[c] = got'[c]
        BY <1>3 DEF TypeOK, Get
    <2> QED  BY <1>0, <2>1, <2>2 DEF At
<1>4. CASE Write(c)
    <2>1. /\ pc[c] = "write" /\ pc'[c] = "free" /\ got'[c] = got[c]
          /\ get_data'[c] = get_data[c] /\ get_data[c] # Data[c] + 1
        BY <1>4 DEF TypeOK, Write, Go
    <2>2. pos'[c] = pos[c] + 1
        BY <1>4 DEF TypeOK, Write, Emit
    <2> QED  BY <1>0, <2>1, <2>2 DEF At
<1>5. CASE WriteFinish(c)
    <2>1. /\ pc[c] = "write" /\ pc'[c] = "mark" /\ got'[c] = got[c]
          /\ get_data'[c] = get_data[c] /\ get_data[c] = Data[c] + 1
          /\ pos'[c] = pos[c]
        BY <1>5 DEF TypeOK, WriteFinish, Go
    <2> QED  BY <1>0, <2>1 DEF At
<1>6. CASE Free(c)
    <2>1. /\ pc[c] = "free" /\ pc'[c] = "get" /\ got'[c] = got[c]
          /\ get_data'[c] = 0 /\ pos'[c] = pos[c]
        BY <1>6 DEF TypeOK, Free, Go
    <2> QED  BY <1>0, <2>1 DEF At
<1>7. CASE Mark(c)
    <2>1. /\ pc[c] = "mark" /\ pc'[c] = "close" /\ got'[c] = got[c] /\ get_data'[c] = 0
        BY <1>7 DEF TypeOK, Mark, Go
    <2>2. pos'[c] = IF pos[c] = -1 THEN -1 ELSE pos[c] + 1
        BY <1>7 DEF TypeOK, Mark, Emit
    <2> QED  BY <1>0, <2>1, <2>2 DEF At
<1>8. CASE Close(c)
    <2>1. /\ pc[c] = "close" /\ pc'[c] = "done" /\ got'[c] = got[c]
          /\ get_data'[c] = get_data[c] /\ pos'[c] = -1
        BY <1>8 DEF TypeOK, Close, Go
    <2> QED  BY <1>0, <2>1 DEF At
<1> QED  BY <1>1, <1>2, <1>3, <1>4, <1>5, <1>6, <1>7, <1>8 DEF handle_tts_data

\* Every step takes every conversion to where it must stand.
LEMMA StandingStep ==
    ASSUME TypeOK, Standing, Fresh, [Next]_vars
    PROVE  Standing'
<1>1. CASE UNCHANGED <<put, pc, got, get_data, pos>>
    BY <1>1 DEF Standing, At
<1>2. CASE txt2tts
    <2>1. pc[calls] = "none" /\ calls \in Conversions
        BY <1>2, MaxAssumption DEF TypeOK, Fresh, txt2tts
    <2>2. /\ pc' = [pc EXCEPT ![calls] = "open"]
          /\ UNCHANGED <<put, got, get_data, pos>>
        BY <1>2 DEF txt2tts, libVars
    <2> QED  BY <2>1, <2>2 DEF TypeOK, Standing, At
<1>3. ASSUME NEW c \in Conversions, Put(c)
      PROVE  Standing'
    <2>1. UNCHANGED <<pc, got, get_data, pos>>
        BY <1>3 DEF Put, threadVars
    <2>2. put' = [put EXCEPT ![c] = put[c] + 1] /\ put[c] < Data[c] + 1
        BY <1>3 DEF Put
    <2>3. ASSUME NEW d \in Conversions
          PROVE  got[d] <= put'[d] /\ put'[d] <= Data[d] + 1
        <3>1. put'[d] = IF d = c THEN put[d] + 1 ELSE put[d]
            BY <2>2 DEF TypeOK
        <3>2. put[d] \in Nat /\ got[d] \in Nat /\ Data[d] \in Nat
            BY DataAssumption DEF TypeOK
        <3>3. got[d] <= put[d] /\ put[d] <= Data[d] + 1
            BY DEF Standing, At
        <3> QED  BY <2>2, <3>1, <3>2, <3>3
    <2> QED  BY <2>1, <2>3 DEF Standing, At
<1>4. ASSUME NEW c \in Conversions, handle_tts_data(c)
      PROVE  Standing'
    BY <1>4, OwnStep, Others, StillStands DEF Standing
<1> QED  BY <1>1, <1>2, <1>3, <1>4
         DEF Next, vars, InfoGiven, InfoCrash, Start, StartCrash, SpawnFails, Cut,
             libVars, threadVars

\* Every step leaves the conversions that are not started without a thread.
LEMMA FreshStep ==
    ASSUME TypeOK, Fresh, [Next]_vars
    PROVE  Fresh'
<1> USE MaxAssumption
<1>1. CASE UNCHANGED <<caller, calls, pc>>
    BY <1>1 DEF Fresh
<1>2. CASE InfoCrash \/ StartCrash \/ SpawnFails
    BY <1>2 DEF TypeOK, Fresh, InfoCrash, StartCrash, SpawnFails, threadVars
<1>3. CASE Start
    BY <1>3 DEF TypeOK, Fresh, Start, threadVars
<1>4. CASE txt2tts
    BY <1>4 DEF TypeOK, Fresh, txt2tts
<1>5. ASSUME NEW c \in Conversions, handle_tts_data(c)
      PROVE  Fresh'
    <2>1. /\ pc[c] # "none" /\ UNCHANGED <<caller, calls>>
          /\ \E to \in {"get", "write", "free", "mark", "close", "done"} :
                pc' = [pc EXCEPT ![c] = to]
        BY <1>5 DEF handle_tts_data, Open, OpenFails, Get, Write, WriteFinish,
                    Free, Mark, Close, Go
    <2>2. \A d \in Conversions : d # c => pc'[d] = pc[d]
        BY <2>1 DEF TypeOK
    <2>3. caller = "spawn" => calls \in Conversions
        BY DEF TypeOK, Fresh
    <2> QED  BY <2>1, <2>2, <2>3 DEF Fresh
<1> QED  BY <1>1, <1>2, <1>3, <1>4, <1>5
         DEF Next, vars, InfoGiven, Put, Cut, threadVars

-----------------------------------------------------------------------------
\* Every step destroys the block in hand, and nothing else, once.
LEMMA ReleasedStep ==
    ASSUME TypeOK, Standing, BlocksReleased, [Next]_vars
    PROVE  BlocksReleased'
<1> USE DataAssumption
<1>1. CASE UNCHANGED <<got, get_data, freed>>
    BY <1>1 DEF BlocksReleased
<1>2. ASSUME NEW c \in Conversions,
             \A d \in Conversions \ {c} : got'[d] = got[d] /\ get_data'[d] = get_data[d]
                                          /\ freed'[d] = freed[d],
             \A b \in 1 .. Finish(c) :
                freed'[c][b] = IF b <= got'[c] /\ b # get_data'[c] THEN 1 ELSE 0
      PROVE  BlocksReleased'
    BY <1>2 DEF BlocksReleased
<1>3. ASSUME NEW c \in Conversions, handle_tts_data(c), NEW d \in Conversions \ {c}
      PROVE  got'[d] = got[d] /\ get_data'[d] = get_data[d] /\ freed'[d] = freed[d]
    <2>1. freed' \in {freed, Freed(c)}
        BY <1>3 DEF handle_tts_data, Open, OpenFails, Get, Write, WriteFinish, Free,
                    Mark, Close
    <2>2. freed'[d] = freed[d]
        BY <2>1 DEF TypeOK, Freed
    <2> QED  BY <1>3, <2>2, Others DEF Still
<1>4. ASSUME NEW c \in Conversions, Get(c)
      PROVE  BlocksReleased'
    <2>1. /\ pc[c] = "get" /\ got'[c] = got[c] + 1 /\ freed' = freed
          /\ get_data'[c] = got[c] + 1
        BY <1>4 DEF TypeOK, Get, Go
    <2>2. get_data[c] = 0 /\ got[c] \in Nat /\ Data[c] \in Nat
        BY <2>1 DEF TypeOK, Standing, At
    <2>3. ASSUME NEW b \in 1 .. Finish(c)
          PROVE  freed'[c][b] = IF b <= got'[c] /\ b # get_data'[c] THEN 1 ELSE 0
        <3>1. freed[c][b] = IF b <= got[c] /\ b # get_data[c] THEN 1 ELSE 0
            BY DEF BlocksReleased
        <3> QED  BY <2>1, <2>2, <3>1
    <2> QED  BY <1>2, <1>3, <1>4, <2>3 DEF handle_tts_data
<1>5. ASSUME NEW c \in Conversions, got'[c] = got[c], get_data'[c] = 0, freed' = Freed(c),
             get_data[c] = got[c], got[c] \in 1 .. Finish(c)
      PROVE  \A b \in 1 .. Finish(c) :
                freed'[c][b] = IF b <= got'[c] /\ b # get_data'[c] THEN 1 ELSE 0
    <2> TAKE b \in 1 .. Finish(c)
    <2>1. freed[c][b] = IF b <= got[c] /\ b # get_data[c] THEN 1 ELSE 0
        BY DEF BlocksReleased
    <2>2. freed[c] \in [1 .. Finish(c) -> Nat] /\ DOMAIN freed = Conversions
        BY DEF TypeOK
    <2>3. freed'[c] = [freed[c] EXCEPT ![get_data[c]] = freed[c][get_data[c]] + 1]
        BY <1>5, <2>2 DEF Freed
    <2>4. freed'[c][b] = IF b = get_data[c] THEN freed[c][b] + 1 ELSE freed[c][b]
        BY <2>2, <2>3
    <2>5. got[c] \in Nat /\ Data[c] \in Nat
        BY DEF TypeOK
    <2> QED  BY <1>5, <2>1, <2>4, <2>5
<1>6. ASSUME NEW c \in Conversions, Free(c)
      PROVE  BlocksReleased'
    <2>1. /\ pc[c] = "free" /\ got'[c] = got[c] /\ freed' = Freed(c)
          /\ get_data'[c] = 0
        BY <1>6 DEF TypeOK, Free, Go
    <2>2. get_data[c] = got[c] /\ got[c] \in 1 .. Finish(c)
        BY <2>1 DEF TypeOK, Standing, At
    <2> QED  BY <1>2, <1>3, <1>5, <1>6, <2>1, <2>2 DEF handle_tts_data
<1>7. ASSUME NEW c \in Conversions, Mark(c)
      PROVE  BlocksReleased'
    <2>1. /\ pc[c] = "mark" /\ got'[c] = got[c] /\ get_data'[c] = 0
          /\ freed' = IF get_data[c] = 0 THEN freed ELSE Freed(c)
        BY <1>7 DEF TypeOK, Mark, Go
    <2>2. got[c] = get_data[c] /\ got[c] \in {0, Finish(c)} /\ Data[c] \in Nat
        BY <2>1 DEF TypeOK, Standing, At
    <2>3. CASE get_data[c] = 0
        <3>1. got'[c] = got[c] /\ get_data'[c] = get_data[c] /\ freed' = freed
            BY <2>1, <2>3
        <3>2. ASSUME NEW b \in 1 .. Finish(c)
              PROVE  freed'[c][b] = IF b <= got'[c] /\ b # get_data'[c] THEN 1 ELSE 0
            BY <3>1 DEF BlocksReleased
        <3> QED  BY <1>2, <1>3, <1>7, <3>2 DEF handle_tts_data
    <2>4. CASE get_data[c] # 0
        <3>1. freed' = Freed(c) /\ got[c] \in 1 .. Finish(c)
            BY <2>1, <2>2, <2>4
        <3> QED  BY <1>2, <1>3, <1>5, <1>7, <2>1, <2>2, <3>1 DEF handle_tts_data
    <2> QED  BY <2>3, <2>4
<1> QED  BY <1>1, <1>4, <1>6, <1>7
         DEF Next, vars, InfoGiven, InfoCrash, Start, StartCrash, txt2tts, SpawnFails,
             Put, Cut, handle_tts_data, Open, OpenFails, Write, WriteFinish, Close,
             libVars, threadVars

-----------------------------------------------------------------------------
\* Every step leaves the file, while conversions do not overlap, to the last
\* one that opened it, and in the state its offset says.
LEMMA FileStep ==
    ASSUME TypeOK, Standing, Fresh, OneWriter, LastIsStream, [Next]_vars
    PROVE  OneWriter' /\ LastIsStream'
<1> USE DataAssumption
<1>0. last # 0 => last \in Conversions
    BY MaxAssumption DEF TypeOK
<1>1. CASE UNCHANGED <<pc, pos, file, last, overlap>>
    BY <1>1 DEF OneWriter, LastIsStream, Written
<1>2. CASE txt2tts
    <2>1. pc[calls] = "none" /\ calls \in Conversions
        BY <1>2, MaxAssumption DEF TypeOK, Fresh, txt2tts
    <2>2. /\ pc' = [pc EXCEPT ![calls] = "open"]
          /\ UNCHANGED <<pos, file, last, overlap>>
        BY <1>2 DEF txt2tts
    <2>3. last # 0 => pc'[last] = pc[last]
        BY <1>0, <2>1, <2>2 DEF TypeOK, OneWriter
    <2> QED  BY <2>2, <2>3 DEF OneWriter, LastIsStream, Written
<1>3. ASSUME NEW c \in Conversions, Open(c)
      PROVE  OneWriter' /\ LastIsStream'
    <2>1. /\ pc'[c] = "get" /\ pos' = [pos EXCEPT ![c] = 0] /\ file' = <<>> /\ last' = c
          /\ overlap' = (overlap \/ \E d \in Conversions : pos[d] # Closed)
        BY <1>3 DEF TypeOK, Open, Go
    <2>2. pos'[c] = 0 /\ \A d \in Conversions : d # c => pos'[d] = pos[d]
        BY <2>1 DEF TypeOK
    <2>3. Written(c, 0) = <<>>
        BY DEF Written
    <2>4. OneWriter'
        <3>1. ~overlap' => \A d \in Conversions : d # c => pos'[d] = Closed
            BY <2>1, <2>2
        <3>2. pos'[c] # Closed
            BY <2>2
        <3> QED  BY <2>1, <3>1, <3>2 DEF OneWriter
    <2>5. LastIsStream'
        <3>1. Written(c, pos'[c]) = file'
            BY <2>1, <2>2, <2>3
        <3> QED  BY <2>1, <3>1 DEF LastIsStream, Written
    <2> QED  BY <2>4, <2>5
\* A thread that has not the file as the last one leaves it alone.
<1>4. ASSUME NEW c \in Conversions, handle_tts_data(c), ~Open(c), c # last
      PROVE  OneWriter' /\ LastIsStream'
    <2>1. last' = last /\ overlap' = overlap
        BY <1>4 DEF handle_tts_data, Open, OpenFails, Get, Write, WriteFinish, Free,
                    Mark, Close
    <2>2. \A d \in Conversions : d # c => pc'[d] = pc[d] /\ pos'[d] = pos[d]
        BY <1>4, Others DEF Still
    <2>3. ~overlap => pos[c] = Closed
        BY <1>4 DEF OneWriter
    <2>4. ~overlap => file' = file /\ pos'[c] = Closed
        <3>1. ~overlap => ~Write(c)
            <4>1. Write(c) => pc[c] = "write"
                BY DEF Write, Go
            <4>2. pc[c] = "write" => got[c] >= 1 /\ pos[c] = got[c] - 1 /\ got[c] \in Nat
                BY DEF TypeOK, Standing, At
            <4> QED  BY <2>3, <4>1, <4>2
        <3> QED  BY <1>4, <2>3, <3>1
                 DEF TypeOK, handle_tts_data, OpenFails, Get, WriteFinish, Free, Mark, Close
    <2>5. OneWriter'
        BY <1>0, <1>4, <2>1, <2>2, <2>4 DEF OneWriter
    <2>6. LastIsStream'
        BY <1>0, <1>4, <2>1, <2>2, <2>4 DEF LastIsStream, Written
    <2> QED  BY <2>5, <2>6
<1>5. ASSUME NEW c \in Conversions, handle_tts_data(c), ~Open(c), c = last
      PROVE  OneWriter' /\ LastIsStream'
    <2>0. last' = last /\ overlap' = overlap /\ last # 0
        BY <1>5 DEF handle_tts_data, Open, OpenFails, Get, Write, WriteFinish, Free,
                    Mark, Close
    <2>1. \A d \in Conversions : d # c => pos'[d] = pos[d]
        BY <1>5, Others DEF Still
    <2>2. pc[c] \notin {"none", "open"} /\ (pc[c] # "done" => pos[c] # Closed)
        BY <1>5, <2>0 DEF OneWriter
    <2>3. /\ got[c] \in Nat /\ Data[c] \in Nat /\ pos[c] \in Nat \cup {-1}
          /\ get_data[c] \in Nat
        BY DEF TypeOK
    <2>4. SUFFICES /\ pc'[c] \notin {"none", "open"} /\ (pc'[c] # "done" => pos'[c] # Closed)
                   /\ ~overlap => file' = IF pc'[c] \in {"close", "done"}
                                          THEN Written(c, Finish(c))
                                          ELSE Written(c, pos'[c])
        BY <1>5, <2>0, <2>1 DEF OneWriter, LastIsStream, Written
    <2>5. ~overlap => file = IF pc[c] \in {"close", "done"} THEN Written(c, Finish(c))
                                                          ELSE Written(c, pos[c])
        BY <1>5, <2>0 DEF LastIsStream
    <2>6. CASE Get(c) \/ WriteFinish(c) \/ Free(c)
        <3>1. /\ pos'[c] = pos[c] /\ file' = file
              /\ pc[c] \in {"get", "write", "free"} /\ pc'[c] \in {"get", "write", "mark"}
            BY <2>6 DEF TypeOK, Get, WriteFinish, Free, Go
        <3> QED  BY <2>2, <2>5, <3>1
    <2>7. CASE Write(c)
        <3>1. /\ pc[c] = "write" /\ pc'[c] = "free" /\ get_data[c] # Finish(c)
              /\ file' = Store(file, pos[c], <<c, get_data[c]>>) /\ pos'[c] = pos[c] + 1
            BY <2>7 DEF TypeOK, Write, Emit, Go
        <3>2. /\ get_data[c] = pos[c] + 1 /\ pos[c] \in 0 .. Data[c] /\ pos[c] + 1 <= Data[c]
            <4>1. get_data[c] = got[c] /\ got[c] >= 1 /\ pos[c] = got[c] - 1
                BY <3>1 DEF Standing, At
            <4>2. got[c] <= Data[c] + 1
                BY DEF TypeOK, Standing, At
            <4> QED  BY <2>3, <3>1, <4>1, <4>2
        <3>3. Store(Written(c, pos[c]), pos[c], <<c, get_data[c]>>) = Written(c, pos[c] + 1)
            BY <3>2, StoreAtEnd
        <3> QED  BY <2>3, <2>5, <3>1, <3>2, <3>3
    <2>8. CASE Mark(c)
        <3>1. pc[c] = "mark" /\ pc'[c] = "close"
            BY <2>8 DEF TypeOK, Mark, Go
        <3>2. pos[c] = Data[c]
            BY <2>2, <3>1 DEF Standing, At
        <3>3. file' = Store(file, pos[c], EndMark) /\ pos'[c] = pos[c] + 1
            <4>1. pos[c] # Closed
                BY <2>3, <3>2
            <4>2. Emit(c, EndMark)
                BY <2>8, <4>1 DEF Mark
            <4> QED  BY <4>2 DEF TypeOK, Emit
        <3>4. Store(Written(c, Data[c]), Data[c], EndMark) = Written(c, Data[c] + 1)
            <4>1. Data[c] \in 0 .. Data[c] /\ ~(Data[c] + 1 <= Data[c])
                BY <2>3
            <4> QED  BY <4>1, StoreAtEnd
        <3> QED  BY <2>3, <2>5, <3>1, <3>2, <3>3, <3>4
    <2>9. CASE Close(c)
        <3>1. file' = file /\ pc[c] = "close" /\ pc'[c] = "done"
            BY <2>9 DEF TypeOK, Close, Go
        <3> QED  BY <2>5, <3>1
    <2>10. ~OpenFails(c)
        BY <2>2 DEF OpenFails, Go
    <2> QED  BY <1>5, <2>6, <2>7, <2>8, <2>9, <2>10 DEF handle_tts_data
<1> QED  BY <1>1, <1>2, <1>3, <1>4, <1>5
         DEF Next, vars, InfoGiven, InfoCrash, Start, StartCrash, SpawnFails, Put, Cut,
             threadVars

\* txt2tts.c:46, 64: whoever writes, writes at the place the block has.
LEMMA InPlaceStep ==
    ASSUME TypeOK, Standing, InPlace, [Next]_vars
    PROVE  InPlace'
<1> USE DataAssumption
<1>1. ASSUME NEW c \in Conversions, NEW x, NEW p \in 0 .. Data[c],
             x = Written(c, Finish(c))[p + 1], file' = Store(file, p, x)
      PROVE  InPlace'
    <2>1. /\ file \in Seq(Cell) /\ Data[c] \in Nat /\ p \in Nat
          /\ p + 1 <= Finish(c)
        BY <1>1 DEF TypeOK
    <2>2. ASSUME NEW i \in DOMAIN file'
          PROVE  \/ file'[i] = Hole
                 \/ \E d \in Conversions :
                      i <= Finish(d) /\ file'[i] = Written(d, Finish(d))[i]
        <3>1. /\ i \in Nat /\ i >= 1
              /\ file'[i] = IF i = p + 1 THEN x ELSE IF i <= Len(file) THEN file[i] ELSE Hole
            BY <1>1, <2>1, <2>2 DEF Store
        <3>2. CASE i = p + 1
            BY <1>1, <2>1, <3>1, <3>2
        <3>3. CASE i # p + 1 /\ i <= Len(file)
            <4>1. i \in DOMAIN file /\ file'[i] = file[i]
                BY <2>1, <3>1, <3>3
            <4> QED  BY <4>1 DEF InPlace
        <3>4. CASE i # p + 1 /\ ~(i <= Len(file))
            BY <3>1, <3>4
        <3> QED  BY <3>2, <3>3, <3>4
    <2> QED  BY <2>2 DEF InPlace, Written
<1>2. ASSUME NEW c \in Conversions, Write(c)
      PROVE  InPlace'
    <2>1. /\ pc[c] = "write" /\ get_data[c] # Finish(c)
          /\ file' = Store(file, pos[c], <<c, get_data[c]>>)
        BY <1>2 DEF Write, Go, Emit
    <2>2. /\ get_data[c] = got[c] /\ got[c] >= 1 /\ pos[c] = got[c] - 1
          /\ got[c] <= Finish(c) /\ got[c] \in Nat /\ Data[c] \in Nat
        BY <2>1 DEF TypeOK, Standing, At
    <2>3. pos[c] \in 0 .. Data[c] /\ get_data[c] = pos[c] + 1 /\ pos[c] + 1 <= Data[c]
        BY <2>1, <2>2
    <2>4. <<c, get_data[c]>> = Written(c, Finish(c))[pos[c] + 1]
        BY <2>2, <2>3 DEF Written
    <2> QED  BY <1>1, <2>1, <2>3, <2>4
<1>3. ASSUME NEW c \in Conversions, Mark(c)
      PROVE  InPlace'
    <2>1. CASE pos[c] = Closed
        BY <1>3, <2>1 DEF Mark, InPlace, Written
    <2>2. CASE pos[c] # Closed
        <3>1. pc[c] = "mark" /\ file' = Store(file, pos[c], EndMark)
            BY <1>3, <2>2 DEF Mark, Go, Emit
        <3>2. pos[c] = Data[c] /\ Data[c] \in Nat
            BY <2>2, <3>1 DEF Standing, At
        <3>3. EndMark = Written(c, Finish(c))[pos[c] + 1] /\ pos[c] \in 0 .. Data[c]
            BY <3>2 DEF Written
        <3> QED  BY <1>1, <3>1, <3>3
    <2> QED  BY <2>1, <2>2
<1>4. CASE file' = <<>>
    BY <1>4 DEF InPlace
<1>5. CASE UNCHANGED file
    BY <1>5 DEF InPlace, Written
<1> QED  BY <1>2, <1>3, <1>4, <1>5
         DEF Next, vars, InfoGiven, InfoCrash, Start, StartCrash, txt2tts, SpawnFails,
             Put, Cut, handle_tts_data, Open, OpenFails, Get, WriteFinish, Free, Close,
             threadVars

-----------------------------------------------------------------------------
Consistent == Blocks /\ OneWriter /\ LastIsStream /\ InPlace

\* Holds at the start.
LEMMA InitConsistent == Init => Consistent
<1> SUFFICES ASSUME Init PROVE Consistent
    OBVIOUS
<1> USE MaxAssumption, DataAssumption, RoomAssumption
<1>1. Words /\ Counters
    <2>1. Words
        BY DEF Init, Words
    <2>2. /\ calls \in 0 .. MaxConversions /\ last \in 0 .. MaxConversions
          /\ put \in [Conversions -> Nat] /\ got \in [Conversions -> Nat]
          /\ get_data \in [Conversions -> Nat]
        BY DEF Init
    <2>3. \A c \in Conversions : put[c] - got[c] \in 0 .. Room
        BY DEF Init
    <2> QED  BY <2>1, <2>2, <2>3 DEF Counters
<1>2. Stored
    <2>1. file \in Seq(Cell) /\ pos \in [Conversions -> Nat \cup {Closed}]
        BY DEF Init
    <2>2. \A c \in Conversions : freed[c] = [b \in 1 .. Finish(c) |-> 0]
        BY DEF Init
    <2>3. \A c \in Conversions : freed[c] \in [1 .. Finish(c) -> Nat]
        <3> TAKE c \in Conversions
        <3>1. [b \in 1 .. Finish(c) |-> 0] \in [1 .. Finish(c) -> Nat]
            OBVIOUS
        <3> QED  BY <2>2, <3>1
    <2> QED  BY <2>1, <2>3 DEF Init, Stored
<1>3. Standing /\ Fresh
    BY DEF Init, Standing, At, Fresh
<1>4. BlocksReleased
    BY DEF Init, BlocksReleased
<1>5. OneWriter /\ LastIsStream /\ InPlace
    BY DEF Init, OneWriter, LastIsStream, InPlace
<1> QED  BY <1>1, <1>2, <1>3, <1>4, <1>5, Parts DEF Consistent, Blocks

\* Kept by every step.
LEMMA NextConsistent == Consistent /\ [Next]_vars => Consistent'
BY TypeStep, StandingStep, FreshStep, ReleasedStep, FileStep, InPlaceStep
DEF Consistent, Blocks

LEMMA AlwaysConsistent == Spec => []Consistent
BY InitConsistent, NextConsistent, PTL DEF Spec

\* All variables keep their types, for any number of conversions of any length
\* and any size of the queue, which is never filled past its places
\* (txt2tts.c:21-95).
THEOREM TypeCorrect == Spec => []TypeOK
<1>1. Consistent => TypeOK
    BY DEF Consistent, Blocks
<1> QED  BY <1>1, AlwaysConsistent, PTL

\* Every block taken from a queue is destroyed exactly once, the one that ends
\* the loop too, wherever the thread is (txt2tts.c:40-63).
THEOREM EveryBlockReleased == Spec => []BlocksReleased
<1>1. Consistent => BlocksReleased
    BY DEF Consistent, Blocks
<1> QED  BY <1>1, AlwaysConsistent, PTL

\* As long as conversions do not overlap the file holds the last one's data in
\* order and nothing of an earlier one, with the mark at its end when that
\* conversion is over (txt2tts.c:29-70); and whatever overlaps, no block is in
\* the file but in its own place.
THEOREM FileHoldsStream == Spec => []FileIsStream
<1>1. Consistent => FileIsStream
    BY DEF Consistent, FileIsStream
<1> QED  BY <1>1, AlwaysConsistent, PTL
-----------------------------------------------------------------------------
\* Steps conversion c has left once its thread runs: a block still to be put
\* is one of the library's and a block still to be taken is three of the
\* thread's, and the thread has its place within the loop or after it.
Place == [none |-> 6, open |-> 5, get |-> 4, write |-> 6, free |-> 5, mark |-> 2,
          close |-> 1, done |-> 0]

Left(c) == (Finish(c) - put[c]) + 3 * (Finish(c) - got[c]) + Place[pc[c]]

\* What the thread of c and the library's thread for c do.
Moves(c) == Put(c) \/ handle_tts_data(c)

\* Either of them leaves fewer, and no other step adds any.
Shorter ==
    \A c \in Conversions :
        /\ Left(c) \in Nat /\ Left(c)' \in Nat
        /\ Left(c)' <= Left(c)
        /\ Moves(c) => Left(c)' < Left(c)

LEMMA LeftType ==
    ASSUME TypeOK, Standing, NEW c \in Conversions
    PROVE  /\ Left(c) \in Nat
           /\ put[c] \in 0 .. Finish(c) /\ got[c] \in 0 .. Finish(c)
           /\ Place[pc[c]] \in 0 .. 6 /\ Data[c] \in Nat
<1>1. put[c] \in Nat /\ got[c] \in Nat /\ Data[c] \in Nat
    BY DataAssumption DEF TypeOK
<1>2. got[c] <= put[c] /\ put[c] <= Finish(c)
    BY DEF Standing, At
<1>3. Place[pc[c]] \in 0 .. 6
    BY DEF TypeOK, Place
<1> QED  BY <1>1, <1>2, <1>3 DEF Left

\* txt2tts.c:35-70: every step of a thread leaves its conversion fewer.
LEMMA ThreadLeft ==
    ASSUME TypeOK, Standing, NEW c \in Conversions, handle_tts_data(c)
    PROVE  Left(c)' < Left(c)
<1>0. /\ put[c] \in 0 .. Data[c] + 1 /\ got[c] \in 0 .. Data[c] + 1 /\ Data[c] \in Nat
      /\ put' = put
    BY LeftType DEF handle_tts_data, Open, OpenFails, Get, Write, WriteFinish, Free,
       Mark, Close, Go, libVars
<1>1. CASE Get(c)
    <2>1. /\ pc[c] = "get" /\ pc'[c] = "write" /\ got'[c] = got[c] + 1
        BY <1>1 DEF TypeOK, Get, Go
    <2> QED  BY <1>0, <2>1 DEF Left, Place
<1>2. CASE ~Get(c)
    <2>1. got'[c] = got[c]
        BY <1>2 DEF handle_tts_data, Open, OpenFails, Write, WriteFinish, Free, Mark,
           Close
    <2>2. Place[pc'[c]] < Place[pc[c]] /\ Place[pc[c]] \in Nat /\ Place[pc'[c]] \in Nat
        <3>1. CASE Open(c)
            BY <3>1 DEF TypeOK, Open, Go, Place
        <3>2. CASE OpenFails(c)
            BY <3>2 DEF TypeOK, OpenFails, Go, Place
        <3>3. CASE Write(c)
            BY <3>3 DEF TypeOK, Write, Go, Place
        <3>4. CASE WriteFinish(c)
            BY <3>4 DEF TypeOK, WriteFinish, Go, Place
        <3>5. CASE Free(c)
            BY <3>5 DEF TypeOK, Free, Go, Place
        <3>6. CASE Mark(c)
            BY <3>6 DEF TypeOK, Mark, Go, Place
        <3>7. CASE Close(c)
            BY <3>7 DEF TypeOK, Close, Go, Place
        <3> QED  BY <1>2, <3>1, <3>2, <3>3, <3>4, <3>5, <3>6, <3>7
                 DEF handle_tts_data
    <2> QED  BY <1>0, <2>1, <2>2 DEF Left
<1> QED  BY <1>1, <1>2

\* A conversion takes a bounded number of steps, a put for each block and at
\* most three of the thread for each block and six more, whatever other
\* conversions do: nothing sends the thread of txt2tts.c:35-70 back without
\* having taken a block.
THEOREM ConversionShortens == Spec => [][Shorter]_vars
<1>1. ASSUME Consistent, Consistent', [Next]_vars
      PROVE  Shorter
    <2> SUFFICES ASSUME NEW c \in Conversions
                 PROVE  /\ Left(c) \in Nat /\ Left(c)' \in Nat
                        /\ Left(c)' <= Left(c)
                        /\ Moves(c) => Left(c)' < Left(c)
        BY DEF Shorter
    <2>1. /\ TypeOK /\ Standing /\ Fresh
          /\ put'[c] \in Nat /\ got'[c] \in Nat
          /\ got'[c] <= put'[c] /\ put'[c] <= Data[c] + 1
          /\ pc'[c] \in {"none", "open", "get", "write", "free", "mark", "close", "done"}
        BY <1>1 DEF Consistent, Blocks, TypeOK, Standing, At
    <2>2. /\ Left(c) \in Nat /\ put[c] \in 0 .. Data[c] + 1
          /\ got[c] \in 0 .. Data[c] + 1 /\ Data[c] \in Nat /\ Place[pc[c]] \in 0 .. 6
        BY <2>1, LeftType
    <2>3. Left(c)' \in Nat
        <3>1. Place[pc'[c]] \in 0 .. 6
            BY <2>1 DEF Place
        <3> QED  BY <2>1, <2>2, <3>1 DEF Left
    <2>4. CASE handle_tts_data(c)
        <3>1. Left(c)' < Left(c)
            BY <2>1, <2>4, ThreadLeft
        <3> QED  BY <2>2, <2>3, <3>1
    <2>5. CASE Put(c)
        <3>1. put'[c] = put[c] + 1 /\ got'[c] = got[c] /\ pc'[c] = pc[c]
            BY <2>1, <2>5 DEF TypeOK, Put, threadVars
        <3> QED  BY <2>2, <2>3, <3>1 DEF Left
    <2>6. CASE ~Moves(c)
        <3>1. CASE txt2tts
            <4>1. put' = put /\ got' = got /\ pc' = [pc EXCEPT ![calls] = "open"]
                BY <3>1 DEF txt2tts, libVars
            <4>2. pc[calls] = "none"
                BY <2>1, <3>1 DEF Fresh, txt2tts
            <4>3. pc'[c] = pc[c] \/ (pc[c] = "none" /\ pc'[c] = "open")
                BY <2>1, <4>1, <4>2 DEF TypeOK
            <4>4. Place[pc'[c]] <= Place[pc[c]] /\ Place[pc'[c]] \in Nat
                BY <2>2, <4>3 DEF Place
            <4> QED  BY <2>2, <2>3, <2>6, <4>1, <4>4 DEF Left
        <3>2. CASE ~txt2tts
            <4>1. put'[c] = put[c] /\ got'[c] = got[c] /\ pc'[c] = pc[c]
                <5>1. CASE \E d \in Conversions : handle_tts_data(d)
                    <6>1. PICK d \in Conversions : handle_tts_data(d)
                        BY <5>1
                    <6>2. d # c
                        BY <2>6, <6>1 DEF Moves
                    <6> QED  BY <2>1, <6>1, <6>2, Others DEF Still
                <5>2. CASE \E d \in Conversions : Put(d)
                    <6>1. PICK d \in Conversions : Put(d)
                        BY <5>2
                    <6>2. d # c
                        BY <2>6, <6>1 DEF Moves
                    <6> QED  BY <2>1, <6>1, <6>2 DEF TypeOK, Put, threadVars
                <5>3. CASE ~\E d \in Conversions : handle_tts_data(d) \/ Put(d)
                    BY <1>1, <3>2, <5>3 DEF Next, vars, InfoGiven, InfoCrash, Start,
                       StartCrash, SpawnFails, Cut, libVars, threadVars
                <5> QED  BY <5>1, <5>2, <5>3
            <4>2. Left(c)' = Left(c)
                BY <4>1 DEF Left
            <4> QED  BY <2>2, <2>6, <4>2
        <3> QED  BY <3>1, <3>2
    <2> QED  BY <2>4, <2>5, <2>6 DEF Moves
<1> QED  BY <1>1, AlwaysConsistent, PTL DEF Spec

\* What libkeros has put into a queue at each state of its stream; a thread is
\* created only for a conversion that has one.
Streams ==
    \A c \in Conversions :
        /\ stream[c] = "open" => put[c] < Finish(c)
        /\ stream[c] = "over" => put[c] = Finish(c)
        /\ stream[c] = "none" => put[c] = 0 /\ pc[c] = "none"
        /\ caller = "spawn" /\ c = calls => stream[c] # "none"
        /\ c > calls => stream[c] = "none"

LEMMA StreamsStep ==
    ASSUME TypeOK, Standing, Streams, [Next]_vars
    PROVE  Streams'
<1> USE DataAssumption, MaxAssumption
<1>1. CASE Start
    <2>1. /\ calls \in Nat /\ calls < MaxConversions /\ calls' = calls + 1
          /\ caller' = "spawn" /\ put' = put /\ pc' = pc
          /\ stream' = [stream EXCEPT ![calls + 1] = "open"]
        BY <1>1 DEF TypeOK, Start, threadVars
    <2>2. \A c \in Conversions :
            stream'[c] = IF c = calls + 1 THEN "open" ELSE stream[c]
        BY <2>1 DEF TypeOK
    <2>3. put[calls + 1] = 0 /\ Data[calls + 1] \in Nat
        BY <2>1 DEF Streams
    <2> QED  BY <2>1, <2>2, <2>3 DEF Streams
<1>2. CASE txt2tts
    <2>1. /\ caller = "spawn" /\ caller' = "idle" /\ calls' = calls /\ put' = put
          /\ stream' = stream /\ pc' = [pc EXCEPT ![calls] = "open"]
        BY <1>2 DEF txt2tts, libVars
    <2>2. \A c \in Conversions : pc'[c] = IF c = calls THEN "open" ELSE pc[c]
        BY <2>1 DEF TypeOK
    <2> QED  BY <2>1, <2>2 DEF Streams
<1>3. ASSUME NEW d \in Conversions, Put(d)
      PROVE  Streams'
    <2>1. /\ UNCHANGED <<caller, calls, pc>> /\ stream[d] = "open" /\ put[d] < Data[d] + 1
          /\ put' = [put EXCEPT ![d] = put[d] + 1]
          /\ stream' = [stream EXCEPT
                          ![d] = IF put'[d] = Data[d] + 1 THEN "over" ELSE stream[d]]
        BY <1>3 DEF Put, threadVars
    <2>2. put[d] \in Nat /\ Data[d] \in Nat /\ put'[d] = put[d] + 1
        BY <2>1 DEF TypeOK
    <2>3. \A c \in Conversions :
            /\ c # d => put'[c] = put[c] /\ stream'[c] = stream[c]
            /\ c = d => stream'[c] = IF put[d] + 1 = Data[d] + 1 THEN "over" ELSE "open"
        BY <2>1, <2>2 DEF TypeOK
    <2> QED  BY <2>1, <2>2, <2>3 DEF Streams
<1>4. ASSUME NEW d \in Conversions, Cut(d)
      PROVE  Streams'
    BY <1>4 DEF Cut, TypeOK, Streams, threadVars
<1>5. ASSUME NEW d \in Conversions, handle_tts_data(d)
      PROVE  Streams'
    <2>1. UNCHANGED <<caller, calls, stream, put>> /\ pc[d] # "none"
        BY <1>5 DEF handle_tts_data, Open, OpenFails, Get, Write, WriteFinish, Free,
           Mark, Close, Go, libVars
    <2>2. \A c \in Conversions : c # d => pc'[c] = pc[c]
        BY <1>5, Others DEF Still
    <2> QED  BY <2>1, <2>2 DEF Streams
<1>6. CASE InfoGiven \/ InfoCrash \/ StartCrash \/ SpawnFails \/ UNCHANGED vars
    BY <1>6 DEF InfoGiven, InfoCrash, StartCrash, SpawnFails, vars, libVars, threadVars,
       Streams
<1> QED  BY <1>1, <1>2, <1>3, <1>4, <1>5, <1>6 DEF Next

\* As long as the stream of a conversion is not cut its thread and the
\* library's never wait for each other (txt2tts.c:35-40): either there is a
\* block to take, or there is one to put and a place for it.
THEOREM QueueMoves ==
    Spec => [](\A c \in Conversions :
                 pc[c] = "get" /\ stream[c] # "cut" =>
                     \/ got[c] < put[c]
                     \/ /\ stream[c] = "open" /\ put[c] < Finish(c)
                        /\ put[c] - got[c] < Room)
<1>1. Init => Streams
    BY MaxAssumption, DataAssumption DEF Init, Streams
<1>2. Consistent /\ Streams /\ [Next]_vars => Streams'
    BY StreamsStep DEF Consistent, Blocks
<1>3. ASSUME Consistent, Streams, NEW c \in Conversions,
             pc[c] = "get", stream[c] # "cut"
      PROVE  \/ got[c] < put[c]
             \/ /\ stream[c] = "open" /\ put[c] < Finish(c)
                /\ put[c] - got[c] < Room
    <2>1. /\ put[c] \in Nat /\ got[c] \in Nat /\ Data[c] \in Nat
          /\ stream[c] \in {"none", "open", "cut", "over"}
        BY <1>3, DataAssumption DEF Consistent, Blocks, TypeOK
    <2>2. got[c] <= put[c] /\ got[c] <= Data[c]
        BY <1>3 DEF Consistent, Blocks, Standing, At
    <2>3. CASE stream[c] = "over"
        BY <1>3, <2>1, <2>2, <2>3 DEF Streams
    <2>4. CASE stream[c] = "open"
        BY <1>3, <2>1, <2>2, <2>4, RoomAssumption DEF Streams
    <2> QED  BY <1>3, <2>1, <2>3, <2>4 DEF Streams
<1>4. Consistent /\ Streams =>
        \A c \in Conversions :
            pc[c] = "get" /\ stream[c] # "cut" =>
                \/ got[c] < put[c]
                \/ /\ stream[c] = "open" /\ put[c] < Finish(c)
                   /\ put[c] - got[c] < Room
    BY <1>3
<1> QED  BY <1>1, <1>2, <1>4, AlwaysConsistent, PTL DEF Spec
=============================================================================
