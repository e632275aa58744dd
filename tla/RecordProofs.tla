---------------------------- MODULE RecordProofs ----------------------------
(***************************************************************************)
(* Proofs about Record for any files, names and number of recordings.      *)
(*                                                                         *)
(* Position ties the three things that move together: the blocks recorded, *)
(* the file the descriptor was opened on and how far it was read.  Idle    *)
(* says that between recordings no descriptor is left.                     *)
(***************************************************************************)
EXTENDS Record, TLAPS

Idle == thread \in {"off", "start"} => file_fd = 0

Fresh == thread = "start" => recorded = <<>>

Position ==
    thread \in {"get", "stop"} =>
        LET at == open[file_fd] IN
            /\ file_fd # 0 /\ at # Silence
            /\ at.file \in DOMAIN Pieces
            /\ at.piece <= Pieces[at.file]
            /\ at.piece <= Len(recorded)
            /\ at.piece = Len(recorded) \/ at.piece = Pieces[at.file]
            /\ Plays(at.file)

IInv == TypeOK /\ FdClosed /\ Idle /\ Fresh /\ Position /\ Playback

-----------------------------------------------------------------------------
LEMMA DescriptorsAre == Descriptors \subseteq Nat \ {0} /\ FirstFd \in Descriptors
BY FdAssumption, BoundsAssumption DEF Descriptors

\* A piece of a file is not silence.
LEMMA NotSilent == \A f \in Names, p \in Nat : [file |-> f, piece |-> p] # Silence
BY NameAssumption DEF Silence

\* When no file is open, there is a least descriptor.
LEMMA FreeFdIs ==
    ASSUME \A d \in Descriptors : open[d] = Silence
    PROVE  FreeFd \in Descriptors
<1>1. \A e \in Descriptors : FirstFd <= e
  BY FdAssumption, BoundsAssumption DEF Descriptors
<1>2. \E d \in Descriptors : open[d] = Silence /\ \A e \in Descriptors : open[e] = Silence => d <= e
  BY <1>1, DescriptorsAre
<1> QED
  BY <1>2 DEF FreeFd

LEMMA InitIInv == Init => IInv
<1> SUFFICES ASSUME Init PROVE IInv
  OBVIOUS
<1>1. TypeOK
  <2>1. open \in [Descriptors -> Block]
    BY DEF Init, Block
  <2>2. recorded \in Seq(Block)
    BY DEF Init
  <2> QED
    BY <2>1, <2>2, BoundsAssumption DEF Init, TypeOK
<1>2. FdClosed
  BY DEF Init, FdClosed
<1> QED
  BY <1>1, <1>2 DEF Init, IInv, Idle, Fresh, Position, Playback

\* record_data_get: the block read is the next one of the file, or silence.
LEMMA GetStep == ASSUME IInv, record_data_get PROVE IInv'
<1> DEFINE at == open[file_fd]
           f == at.file
           more == at.piece < Pieces[f]
           next == [at EXCEPT !.piece = @ + 1]
           block == IF more THEN next ELSE Silence
<1>1. /\ thread = "get" /\ file_fd \in Descriptors /\ at \in Block /\ at # Silence
      /\ f \in DOMAIN Pieces /\ Pieces[f] \in Nat /\ at.piece <= Pieces[f]
      /\ at.piece <= Len(recorded)
      /\ at.piece = Len(recorded) \/ at.piece = Pieces[f]
      /\ Plays(f)
  BY PieceAssumption DEF record_data_get, IInv, TypeOK, Position
<1>2. at \in [file : Names, piece : Nat]
  BY <1>1 DEF Block
<1>3. next = [file |-> f, piece |-> at.piece + 1] /\ f \in Names /\ at.piece + 1 \in Nat
  BY <1>2
<1>4. next # Silence /\ next \in Block
  BY <1>3, NotSilent DEF Block
<1>5. /\ open' = IF more THEN [open EXCEPT ![file_fd] = next] ELSE open
      /\ recorded' = Append(recorded, block)
      /\ UNCHANGED <<filename, setting, names, file_fd, thread, sessions>>
  BY DEF record_data_get, Read
<1>6. open' \in [Descriptors -> Block] /\ open'[file_fd] = IF more THEN next ELSE at
  BY <1>1, <1>4, <1>5 DEF IInv, TypeOK
<1>7. \A d \in Descriptors \ {file_fd} : open'[d] = open[d]
  BY <1>5 DEF IInv, TypeOK
<1>8. block \in Block
  BY <1>4 DEF Block
<1>9. /\ recorded \in Seq(Block) /\ recorded' \in Seq(Block)
      /\ Len(recorded') = Len(recorded) + 1 /\ Len(recorded) \in Nat
      /\ recorded'[Len(recorded) + 1] = block
      /\ \A i \in 1 .. Len(recorded) : recorded'[i] = recorded[i]
  <2>1. recorded \in Seq(Block)
    BY DEF IInv, TypeOK
  <2> QED
    BY <1>5, <1>8, <2>1
<1> HIDE DEF at, f, more, next, block
<1>10. TypeOK'
  BY <1>5, <1>6, <1>9 DEF IInv, TypeOK
<1>11. FdClosed'
  BY <1>1, <1>5, <1>7 DEF IInv, FdClosed
<1>12. block = IF Len(recorded) + 1 <= Pieces[f]
               THEN [file |-> f, piece |-> Len(recorded) + 1] ELSE Silence
  <2>1. at.piece \in Nat
    BY <1>2
  <2>2. more <=> Len(recorded) + 1 <= Pieces[f]
    BY <1>1, <1>9, <2>1 DEF more
  <2>3. more => at.piece = Len(recorded)
    BY <1>1, <2>1 DEF more
  <2> QED
    BY <1>3, <2>2, <2>3 DEF block
<1>13. f' = f /\ Plays(f)'
  <2>1. f' = f
    BY <1>3, <1>5, <1>6 DEF f, at, next
  <2>2. ASSUME NEW i \in 1 .. Len(recorded')
        PROVE  recorded'[i] = IF i <= Pieces[f] THEN [file |-> f, piece |-> i] ELSE Silence
    <3>1. CASE i = Len(recorded) + 1
      BY <1>9, <1>12, <3>1
    <3>2. CASE i # Len(recorded) + 1
      <4>1. i \in 1 .. Len(recorded)
        BY <1>9, <3>2
      <4> QED
        BY <1>1, <1>9, <4>1 DEF Plays
    <3> QED
      BY <3>1, <3>2
  <2> QED
    BY <2>1, <2>2 DEF Plays
<1>14. Position'
  <2>1. at' = IF more THEN next ELSE at
    BY <1>5, <1>6 DEF at
  <2>2. at'.file = f /\ at'.piece = IF more THEN at.piece + 1 ELSE at.piece
    BY <1>3, <2>1 DEF f
  <2>3. at' # Silence /\ at.piece \in Nat
    BY <1>1, <1>2, <1>4, <2>1
  <2>4. /\ at'.piece <= Pieces[f] /\ at'.piece <= Len(recorded')
        /\ at'.piece = Len(recorded') \/ at'.piece = Pieces[f]
    BY <1>1, <1>9, <2>2, <2>3 DEF more
  <2>5. file_fd' # 0
    BY <1>1, <1>5, DescriptorsAre
  <2> QED
    BY <1>1, <1>13, <2>2, <2>3, <2>4, <2>5 DEF Position, at, f
<1>15. Playback'
  <2>1. f' \in DOMAIN Pieces
    BY <1>1, <1>13
  <2> QED
    BY <1>13, <2>1 DEF Playback
<1> QED
  BY <1>1, <1>5, <1>10, <1>11, <1>14, <1>15 DEF IInv, Idle, Fresh

LEMMA StartStep == ASSUME IInv, record_start PROVE IInv'
<1>1. \A d \in Descriptors : open[d] = Silence
  BY DEF IInv, FdClosed, record_start
<1>2. FreeFd \in Descriptors
  BY <1>1, FreeFdIs
<1> DEFINE fd == FreeFd
           at == [file |-> filename, piece |-> 0]
<1> HIDE DEF fd
<1>3. /\ fd \in Descriptors /\ fd # 0 /\ file_fd' = fd /\ thread' = "get"
      /\ open' = [open EXCEPT ![fd] = at]
      /\ UNCHANGED <<filename, setting, names, sessions, recorded>>
  BY <1>2, DescriptorsAre DEF record_start, fd
<1>4. filename \in DOMAIN Pieces /\ filename \in Names /\ at # Silence /\ at \in Block
  BY PiecesAssumption, NotSilent DEF record_start, Block
<1>5. open' \in [Descriptors -> Block] /\ open'[fd] = at
  BY <1>3, <1>4 DEF IInv, TypeOK
<1>6. \A d \in Descriptors \ {fd} : open'[d] = Silence
  BY <1>1, <1>3
<1>7. recorded' = <<>>
  BY <1>3 DEF IInv, Fresh, record_start
<1>8. TypeOK'
  BY <1>3, <1>5 DEF IInv, TypeOK
<1>9. FdClosed'
  BY <1>3, <1>6 DEF FdClosed
<1>10. Position'
  BY <1>3, <1>4, <1>5, <1>7, PieceAssumption DEF Position, Plays
<1> QED
  BY <1>3, <1>7, <1>8, <1>9, <1>10 DEF IInv, Idle, Fresh, Playback

LEMMA StopStep == ASSUME IInv, record_stop PROVE IInv'
<1>1. file_fd \in Descriptors /\ file_fd # 0
  BY DEF IInv, TypeOK, Position, record_stop
<1>2. /\ open' = [open EXCEPT ![file_fd] = Silence] /\ file_fd' = 0 /\ thread' = "off"
      /\ UNCHANGED <<filename, setting, names, sessions, recorded>>
  BY <1>1 DEF record_stop
<1>3. \A d \in Descriptors : open'[d] = Silence
  BY <1>1, <1>2 DEF IInv, FdClosed, TypeOK
<1>4. open' \in [Descriptors -> Block]
  BY <1>2 DEF IInv, TypeOK, Block
<1>5. TypeOK'
  BY <1>2, <1>4 DEF IInv, TypeOK
<1> QED
  BY <1>2, <1>3, <1>5 DEF IInv, FdClosed, Idle, Fresh, Position, Playback, Plays

LEMMA NextIInv == IInv /\ [Next]_vars => IInv'
<1> SUFFICES ASSUME IInv, [Next]_vars PROVE IInv'
  OBVIOUS
<1> USE DEF IInv, FdClosed, Idle, Fresh, Position, Playback, Plays
<1>1. ASSUME NEW name \in Names, Clear(name) PROVE IInv'
  BY <1>1, BoundsAssumption DEF Clear, TypeOK
<1>2. CASE Copy
  BY <1>2 DEF Copy, TypeOK
<1>3. CASE Begin
  BY <1>3, BoundsAssumption DEF Begin, TypeOK
<1>4. CASE record_start
  BY <1>4, StartStep
<1>5. CASE StartFails
  BY <1>5 DEF StartFails, TypeOK
<1>6. CASE record_data_get
  BY <1>6, GetStep
<1>7. CASE End
  BY <1>7 DEF End, TypeOK
<1>8. CASE record_stop
  BY <1>8, StopStep
<1>9. CASE UNCHANGED vars
  BY <1>9 DEF vars, TypeOK
<1> QED
  BY <1>1, <1>2, <1>3, <1>4, <1>5, <1>6, <1>7, <1>8, <1>9 DEF Next

THEOREM Invariance == Spec => []IInv
BY InitIInv, NextIInv, PTL DEF Spec

\* The types of all variables.
THEOREM TypeCorrect == Spec => []TypeOK
BY Invariance, PTL DEF IInv

\* record_stop closes the file record_start opened; nothing is left open.
THEOREM Closes == Spec => []FdClosed
BY Invariance, PTL DEF IInv

\* record_data_get never reads the descriptor 0 of the command line.
THEOREM ReadsItsFile == Spec => []ReadsOpenFile
<1>1. IInv => ReadsOpenFile
  BY DEF IInv, Position, ReadsOpenFile
<1> QED
  BY <1>1, Invariance, PTL

\* A recording is one file in order, then silence, whatever names are set.
THEOREM PlaysOneFile == Spec => []Playback
BY Invariance, PTL DEF IInv

-----------------------------------------------------------------------------
source       == IF thread \in {"get", "stop"} THEN open[file_fd].file ELSE NoName
recorderVars == <<thread, source, recorded>>

LEMMA InitMaps == Init => Recorder!Init
BY DEF Init, Recorder!Init, source

\* Every step is one of the recording source or leaves it alone.
LEMMA StepMaps ==
  ASSUME IInv, IInv', [Next]_vars
  PROVE  [Recorder!Next]_recorderVars
<1> USE DEF Recorder!Next
<1>1. CASE (\E name \in Names : Clear(name)) \/ Copy
  BY <1>1 DEF Clear, Copy, recorderVars, source
<1>2. CASE Begin
  <2>1. Recorder!Begin
    BY <1>2 DEF Begin, Recorder!Begin, source
  <2> QED
    BY <2>1
<1>3. CASE record_start
  <2>1. \A d \in Descriptors : open[d] = Silence
    BY <1>3 DEF IInv, FdClosed, record_start
  <2>2. FreeFd \in Descriptors
    BY <2>1, FreeFdIs
  <2>3. open'[file_fd'] = [file |-> filename, piece |-> 0]
    BY <1>3, <2>2 DEF record_start, IInv, TypeOK
  <2>4. open'[file_fd'].file \in DOMAIN Pieces
    BY <1>3, <2>3 DEF record_start
  <2>5. Recorder!record_start
    BY <1>3, <2>4 DEF record_start, Recorder!record_start, source
  <2> QED
    BY <2>5
<1>4. CASE StartFails
  <2>1. Recorder!record_start
    BY <1>4 DEF StartFails, Recorder!record_start, source
  <2> QED
    BY <2>1
<1>5. CASE record_data_get
  <2> DEFINE f == open[file_fd].file
             i == Len(recorded) + 1
             block == IF open[file_fd].piece < Pieces[f] THEN Read(file_fd) ELSE Silence
  <2>1. recorded' = Append(recorded, block) /\ recorded \in Seq(Block)
    BY <1>5 DEF record_data_get, IInv, TypeOK
  <2>2. thread = "get" /\ thread' = "get" /\ file_fd' = file_fd
    BY <1>5 DEF record_data_get
  <2>3. recorded'[i] = block /\ i \in 1 .. Len(recorded')
    BY <2>1
  <2>4. f' = f
    BY <1>5, <2>2 DEF record_data_get, Read, IInv, TypeOK, Position
  <2>5. Plays(f)'
    BY <2>2 DEF IInv, Position
  <2>6. block = IF i <= Pieces[f] THEN [file |-> f, piece |-> i] ELSE Silence
    BY <2>3, <2>4, <2>5 DEF Plays
  <2>7. source = f /\ source' = f
    BY <2>2, <2>4 DEF source
  <2>8. Recorder!record_data_get
    BY <2>1, <2>2, <2>6, <2>7 DEF Recorder!record_data_get, Recorder!Block, Recorder!Silence, Silence, source
  <2> QED
    BY <2>8
<1>6. CASE End
  <2>1. Recorder!End
    BY <1>6 DEF End, Recorder!End, source
  <2> QED
    BY <2>1
<1>7. CASE record_stop
  <2>1. Recorder!record_stop
    BY <1>7 DEF record_stop, Recorder!record_stop, source
  <2> QED
    BY <2>1
<1>8. CASE UNCHANGED vars
  BY <1>8 DEF vars, recorderVars, source
<1> QED
  BY <1>1, <1>2, <1>3, <1>4, <1>5, <1>6, <1>7, <1>8 DEF Next

\* record_start, record_data_get and record_stop (record.c:28-89) are a source
\* of the blocks of one file, for any files, names and number of recordings.
THEOREM RecorderImplements == Spec => RecorderSpec
<1>1. IInv /\ IInv' /\ [Next]_vars => [Recorder!Next]_recorderVars
  BY StepMaps
<1> QED
  BY <1>1, InitMaps, Invariance, PTL DEF Spec, RecorderSpec, Recorder!Spec, Recorder!vars, recorderVars, source

=============================================================================
