--------------------------- MODULE TimedSemProofs ---------------------------
(***************************************************************************)
(* Proofs about TimedSem for any set of threads, any timeouts, any number  *)
(* of units in a second and any settings of the wall clock.                *)
(***************************************************************************)
EXTENDS TimedSem, TLAPS

LEMMA Division ==
  ASSUME NEW a \in Nat, NEW d \in Nat, d > 0
  PROVE  /\ a \div d \in Nat
         /\ a % d \in 0 .. d - 1
         /\ a % d = a - d * (a \div d)
<1>1. a \div d \in Nat
  OBVIOUS
<1>2. a % d \in 0 .. d - 1
  OBVIOUS
<1>3. a % d = a - d * (a \div d)
  OBVIOUS
<1> QED
  BY <1>1, <1>2, <1>3

LEMMA DivMod ==
  ASSUME NEW a \in Nat
  PROVE  \E s \in Nat, r \in 0 .. Second - 1 :
           s = a \div Second /\ r = a % Second /\ a = Second * s + r
<1>1. Second \in Nat /\ Second > 0
  BY SecondAssumption
<1> DEFINE s == a \div Second
           r == a % Second
<1>2. s \in Nat /\ r \in 0 .. Second - 1 /\ r = a - Second * s
  BY <1>1, Division
<1> SUFFICES a = Second * s + r
  BY <1>2
<1> HIDE DEF s, r
<1> QED
  BY <1>1, <1>2

LEMMA Remainder == \A a \in Int : a \div Second \in Int /\ a % Second \in 0 .. Second - 1
  BY SecondAssumption

LEMMA UnitsType ==
  /\ \A m \in Int : Units(m) \in Int
  /\ \A m \in Nat : Units(m) \in Nat
  BY MillisecondAssumption DEF Units

\* The carry in uni_sem_wait_timeout (platform.c:253-256) is exact: the pair it
\* computes is the present time plus the timeout, with a proper fraction.
THEOREM DeadlineExact ==
  ASSUME NEW now \in Nat, NEW m \in Nat
  PROVE  /\ Deadline(now, m) \in Time
         /\ Second * Deadline(now, m).sec + Deadline(now, m).frac = now + Units(m)
<1> DEFINE s == now \div Second
           r == now % Second
           u == Units(m)
           q == (u + r) \div Second
           f == (u + r) % Second
<1>8. u \in Nat
  BY UnitsType
<1> HIDE DEF u
<1>1. s \in Nat /\ r \in 0 .. Second - 1 /\ now = Second * s + r
  BY DivMod
<1>2. u + r \in Nat
  BY <1>1, <1>8, SecondAssumption
<1>3. q \in Nat /\ f \in 0 .. Second - 1 /\ u + r = Second * q + f
  BY <1>2, DivMod
<1>4. Second * (s + q) = Second * s + Second * q
  <2> HIDE DEF s, r, q, f
  <2> QED BY <1>1, <1>3, SecondAssumption
<1>5. Second * (s + q) + f = now + u
  <2> HIDE DEF s, r, q, f
  <2> QED BY <1>1, <1>3, <1>4, <1>8, SecondAssumption
<1>6. Deadline(now, m) = [sec |-> s + q, frac |-> f]
  BY DEF Deadline, u
<1>7. s + q \in Int
  BY <1>1, <1>3
<1> HIDE DEF s, q, f
<1> QED
  BY <1>3, <1>5, <1>6, <1>7 DEF Time, u

\* A deadline that has passed lies in the past.
LEMMA PassedIsPast ==
  ASSUME Wall \in Nat, NEW d \in Time, Passed(d)
  PROVE  Wall >= Second * d.sec + d.frac
<1> DEFINE s == Wall \div Second
           r == Wall % Second
<1>1. s \in Nat /\ r \in 0 .. Second - 1 /\ Wall = Second * s + r
  BY DivMod
<1>2. d.sec \in Int /\ d.frac \in 0 .. Second - 1
  BY DEF Time
<1>3. s > d.sec \/ (s = d.sec /\ r >= d.frac)
  BY DEF Passed
<1> HIDE DEF s, r
<1>4. CASE s > d.sec
  <2>1. Second * s >= Second * d.sec + Second
    BY <1>1, <1>2, <1>4, SecondAssumption
  <2> QED
    BY <2>1, <1>1, <1>2, SecondAssumption
<1>5. CASE s = d.sec /\ r >= d.frac
  BY <1>1, <1>2, <1>5, SecondAssumption
<1> QED
  BY <1>3, <1>4, <1>5

-----------------------------------------------------------------------------
\* A sleeping thread's deadline is the time of day of its call plus its timeout,
\* whatever the clock was set to since.
Deadlines ==
  /\ Wall >= 0
  /\ \A t \in Threads :
       st[t] = "asleep" /\ ms[t] >= 0 =>
         Second * deadline[t].sec + deadline[t].frac = began[t] + dial[t] + Units(ms[t])

IInv == TypeOK /\ TokensConserved /\ Deadlines

LEMMA DeadlineType == \A now, m \in Int : Deadline(now, m) \in Time
<1> SUFFICES ASSUME NEW now \in Int, NEW m \in Int PROVE Deadline(now, m) \in Time
  OBVIOUS
<1>1. now % Second \in Int
  BY Remainder, SecondAssumption
<1>2. Units(m) + (now % Second) \in Int
  BY <1>1, UnitsType
<1> QED
  BY <1>2, Remainder DEF Deadline, Time

LEMMA InitIInv == Init => IInv
<1> SUFFICES ASSUME Init PROVE IInv
  OBVIOUS
<1>1. Deadline(0, 0) \in Time
  BY DeadlineType
<1>2. TypeOK
  <2>1. deadline \in [Threads -> Time]
    BY <1>1 DEF Init
  <2>2. st \in [Threads -> {"idle", "asleep", "got", "timeout"}]
    BY DEF Init
  <2>3. /\ ms \in [Threads -> Int] /\ began \in [Threads -> Nat]
        /\ dial \in [Threads -> Int]
    BY DEF Init
  <2>4. jumped \in BOOLEAN
    BY DEF Init
  <2>5. /\ value \in Nat /\ mono \in Nat /\ offset \in Int
        /\ posts \in Nat /\ taken \in Nat
    BY ValueAssumption DEF Init
  <2> QED
    BY <2>1, <2>2, <2>3, <2>4, <2>5 DEF TypeOK
<1>3. TokensConserved
  BY ValueAssumption DEF Init, TokensConserved
<1>4. Deadlines
  BY DEF Init, Deadlines, Wall
<1> QED
  BY <1>2, <1>3, <1>4 DEF IInv

LEMMA NextIInv == IInv /\ [Next]_vars => IInv'
<1> SUFFICES ASSUME IInv, [Next]_vars PROVE IInv'
  OBVIOUS
<1> USE ValueAssumption DEF IInv, TypeOK, callVars
<1>1. ASSUME NEW t \in Threads, NEW m \in Timeouts, Call(t, m)
      PROVE  /\ m \in Int
             /\ deadline' \in [Threads -> Time]
             /\ m >= 0 => Second * deadline'[t].sec + deadline'[t].frac
                              = mono + offset + Units(m)
             /\ \A u \in Threads \ {t} : deadline'[u] = deadline[u]
  <2>1. m \in Int /\ Wall \in Int
    BY TimeoutsAssumption DEF Wall
  <2>2. Deadline(Wall, m) \in Time
    BY <2>1, DeadlineType
  <2>3. deadline'[t] = Deadline(Wall, m)
    BY <1>1 DEF Call
  <2>4. CASE m >= 0
    <3>1. Wall \in Nat /\ m \in Nat
      BY <2>1, <2>4 DEF Deadlines
    <3>2. Second * deadline'[t].sec + deadline'[t].frac = Wall + Units(m)
      BY <3>1, <2>3, DeadlineExact
    <3> QED
      BY <3>2, <2>1, <2>2, <2>3, <1>1 DEF Call, Wall
  <2> QED
    BY <2>1, <2>2, <2>4, <1>1 DEF Call
<1>2. CASE \E t \in Threads, m \in Timeouts : TakeAtOnce(t, m)
  <2>1. PICK t \in Threads, m \in Timeouts : TakeAtOnce(t, m)
    BY <1>2
  <2>2. TypeOK'
    <3>1. deadline' \in [Threads -> Time] /\ m \in Int
      BY <1>1, <2>1 DEF TakeAtOnce
    <3>2. st' \in [Threads -> {"idle", "asleep", "got", "timeout"}]
      BY <2>1 DEF TakeAtOnce
    <3>3. /\ ms' \in [Threads -> Int] /\ began' \in [Threads -> Nat]
          /\ dial' \in [Threads -> Int]
      BY <2>1, <3>1 DEF TakeAtOnce, Call
    <3>4. value' \in Nat /\ taken' \in Nat
      BY <2>1 DEF TakeAtOnce
    <3>5. UNCHANGED <<mono, offset, posts, jumped>>
      BY <2>1 DEF TakeAtOnce, Call
    <3> QED
      BY <3>1, <3>2, <3>3, <3>4, <3>5
  <2>3. TokensConserved'
    BY <2>1 DEF TakeAtOnce, Call, TokensConserved
  <2>4. Deadlines'
    BY <1>1, <2>1 DEF TakeAtOnce, Call, Deadlines, Wall
  <2> QED
    BY <2>2, <2>3, <2>4
<1>3. CASE \E t \in Threads, m \in Timeouts : Sleep(t, m)
  <2>1. PICK t \in Threads, m \in Timeouts : Sleep(t, m)
    BY <1>3
  <2>2. TypeOK'
    BY <1>1, <2>1 DEF Sleep, Call
  <2>3. TokensConserved'
    BY <2>1 DEF Sleep, Call, TokensConserved
  <2>4. Deadlines'
    <3>1. Wall' = Wall
      BY <2>1 DEF Sleep, Call, Wall
    <3>2. ASSUME NEW u \in Threads, st'[u] = "asleep", ms'[u] >= 0
          PROVE  Second * deadline'[u].sec + deadline'[u].frac
                   = began'[u] + dial'[u] + Units(ms'[u])
      <4>1. CASE u = t
        BY <1>1, <2>1, <3>2, <4>1 DEF Sleep, Call
      <4>2. CASE u # t
        BY <1>1, <2>1, <3>2, <4>2 DEF Sleep, Call, Deadlines
      <4> QED
        BY <4>1, <4>2
    <3> QED
      BY <3>1, <3>2 DEF Deadlines
  <2> QED
    BY <2>2, <2>3, <2>4
<1>4. CASE \E t \in Threads : Wake(t)
  BY <1>4 DEF Wake, TokensConserved, Deadlines, Wall
<1>5. CASE \E t \in Threads : Expire(t)
  BY <1>5 DEF Expire, TokensConserved, Deadlines, Wall
<1>6. CASE \E t \in Threads : Return(t)
  BY <1>6 DEF Return, TokensConserved, Deadlines, Wall
<1>7. CASE uni_sem_post
  BY <1>7 DEF uni_sem_post, TokensConserved, Deadlines, Wall
<1>8. CASE Tick
  BY <1>8 DEF Tick, TokensConserved, Deadlines, Wall
<1>9. CASE \E j \in Jumps : SetClock(j)
  BY <1>9, JumpsAssumption DEF SetClock, TokensConserved, Deadlines, Wall
<1>10. CASE UNCHANGED vars
  BY <1>10 DEF vars, TokensConserved, Deadlines, Wall
<1> QED
  BY <1>2, <1>3, <1>4, <1>5, <1>6, <1>7, <1>8, <1>9, <1>10 DEF Next

THEOREM Invariance == Spec => []IInv
  BY InitIInv, NextIInv, PTL DEF Spec

\* Types; in particular every absolute time handed to sem_timedwait has a
\* fraction below one second.
THEOREM TypeCorrect == Spec => []TypeOK
  BY Invariance, PTL DEF IInv

\* Tokens are neither lost to waiters that time out nor handed out twice.
THEOREM Conservation == Spec => []TokensConserved
  BY Invariance, PTL DEF IInv

\* No wait of uni_sem_wait_timeout (platform.c:252-257) times out earlier than
\* the wall clock was set forward under it: one nobody sets the clock under
\* lasts its time, for every timeout and every phase of the second.
THEOREM NotEarly == Spec => TimeoutNotEarly
<1>1. ASSUME IInv, [Next]_vars PROVE ExpiresInTime
  <2> SUFFICES ASSUME NEW t \in Threads, st[t] = "asleep", st'[t] = "timeout"
               PROVE  mono - began[t] >= Units(ms[t]) - (offset - dial[t])
    BY DEF ExpiresInTime
  <2> USE <1>1 DEF IInv, TypeOK
  <2>1. Expire(t)
    BY DEF Next, TakeAtOnce, Sleep, Call, Wake, Expire, Return, uni_sem_post, Tick,
        SetClock, vars, callVars
  <2>2. deadline[t] \in Time /\ Wall \in Nat /\ Passed(deadline[t]) /\ ms[t] >= 0
    BY <2>1 DEF Expire, Timed, Deadlines, Wall
  <2>3. Wall >= Second * deadline[t].sec + deadline[t].frac
    BY <2>2, PassedIsPast
  <2>4. Second * deadline[t].sec + deadline[t].frac = began[t] + dial[t] + Units(ms[t])
    BY <2>2 DEF Deadlines
  <2>5. Units(ms[t]) \in Int
    BY UnitsType
  <2> QED
    BY <2>3, <2>4, <2>5 DEF Wall
<1> QED
  BY <1>1, Invariance, PTL DEF Spec, TimeoutNotEarly

-----------------------------------------------------------------------------
contractVars == <<value, st, ms>>

\* The initial state is the counter's; every step is a step of the counter or
\* leaves it alone.
LEMMA InitMaps == Init => Contract!Init
BY DEF Init, Contract!Init

LEMMA StepMaps ==
  ASSUME [Next]_vars
  PROVE  [Contract!Next]_contractVars
<1> USE DEF Contract!Next, Contract!Goes, Contract!Take
<1>1. ASSUME NEW t \in Threads, NEW m \in Timeouts, TakeAtOnce(t, m) \/ Sleep(t, m)
      PROVE  Contract!Next
  <2>1. Contract!Begin(t, m)
    BY <1>1 DEF TakeAtOnce, Sleep, Call, Contract!Begin
  <2> QED
    BY <2>1
<1>2. ASSUME NEW t \in Threads, Wake(t) PROVE Contract!Next
  <2>1. Contract!uni_sem_wait(t)
    BY <1>2 DEF Wake, Contract!uni_sem_wait
  <2> QED
    BY <2>1
<1>3. ASSUME NEW t \in Threads, Expire(t) PROVE Contract!Next
  <2>1. Contract!GivesUp(t)
    BY <1>3 DEF Expire, Timed, Contract!GivesUp
  <2> QED
    BY <2>1
<1>4. ASSUME NEW t \in Threads, Return(t) PROVE Contract!Next
  <2>1. Contract!Returns(t)
    BY <1>4 DEF Return, Contract!Returns
  <2> QED
    BY <2>1
<1>5. CASE uni_sem_post
  <2>1. Contract!uni_sem_post
    BY <1>5 DEF uni_sem_post, callVars, Contract!uni_sem_post
  <2> QED
    BY <2>1
<1>6. ASSUME Tick \/ (\E j \in Jumps : SetClock(j)) \/ UNCHANGED vars
      PROVE  UNCHANGED contractVars
  BY <1>6 DEF Tick, SetClock, vars, callVars, contractVars
<1> QED
  BY <1>1, <1>2, <1>3, <1>4, <1>5, <1>6 DEF Next

\* uni_sem_wait, uni_sem_wait_timeout and uni_sem_post (platform.c:193-258) are
\* the counter the header promises, for any threads, timeouts and clocks.
THEOREM SemImplements == Spec => SemSpec
<1>1. [Next]_vars => [Contract!Next]_contractVars
  BY StepMaps
<1> QED
  BY <1>1, InitMaps, PTL DEF Spec, SemSpec, Contract!Spec, contractVars

=============================================================================
