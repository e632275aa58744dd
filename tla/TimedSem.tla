------------------------------ MODULE TimedSem ------------------------------
(***************************************************************************)
(* The semaphore of the platform layer (src/common/platform.c) as the      *)
(* threads of the library use it: uni_sem_post, uni_sem_wait and           *)
(* uni_sem_wait_timeout, which turns a timeout in ms into an absolute time *)
(* of CLOCK_REALTIME, a pair of seconds and a fraction, for sem_timedwait. *)
(*                                                                         *)
(* One unit of time is what the code counts in (a nanosecond there); a     *)
(* second has Second of them, a millisecond Millisecond.  The wall clock   *)
(* is the monotonic clock plus an offset that changes when somebody sets   *)
(* the time.                                                               *)
(***************************************************************************)
EXTENDS Integers

CONSTANTS
    Threads,        \* threads that wait
    Timeouts,       \* values passed as ms; negative: wait for ever
    Second,         \* units of time in a second
    Millisecond,    \* units of time in a millisecond
    InitialValue,   \* the value given to uni_sem_init
    Jumps,          \* by how much the wall clock may be set forward or back
    MaxPosts,       \* bound: posts
    MaxClock,       \* bound: the monotonic clock when a call begins, plus its
                    \* timeout
    Room            \* bound: how much later the clock stops, so that a call
                    \* whose deadline a jump put off can still time out

ASSUME TimeoutsAssumption == Timeouts \subseteq Int
ASSUME SecondAssumption   == Second \in Nat \ {0}
ASSUME MillisecondAssumption == Millisecond \in Nat \ {0}
ASSUME ValueAssumption    == InitialValue \in Nat
ASSUME JumpsAssumption    == Jumps \subseteq Int

VARIABLES
    value,      \* the count of the sem_t
    mono,       \* CLOCK_MONOTONIC
    offset,     \* CLOCK_REALTIME minus CLOCK_MONOTONIC
    st,         \* per thread: "idle", "asleep", "got" or "timeout"
    ms,         \* per thread: the timeout of the call it is in
    deadline,   \* per thread: the absolute time given to sem_timedwait
    jumped,     \* the wall clock has been set
    \* history, read by the properties only
    began,      \* per thread: the monotonic time of the call
    dial,       \* per thread: the offset of the wall clock then
    posts,      \* posts made
    taken       \* tokens handed to waiters

callVars == <<st, ms, deadline, began, dial>>
vars     == <<value, mono, offset, callVars, posts, taken, jumped>>

Wall == mono + offset
Time == [sec : Int, frac : 0 .. Second - 1]

\* A timeout in what the code counts in.  It does so in 64 bits, which the
\* largest int of milliseconds does not overflow.
Units(m) == m * Millisecond

\* Mutant: the fraction's overflow is not carried into the seconds.
DeadlineNoCarry(now, m) ==
    [sec |-> now \div Second, frac |-> (Units(m) + (now % Second)) % Second]

\* The deadline of a timeout of m milliseconds at wall clock time now.
Deadline(now, m) ==
    LET nsec == Units(m) + (now % Second)
    IN  [sec |-> now \div Second + nsec \div Second, frac |-> nsec % Second]

\* The comparison sem_timedwait makes.
Passed(d) ==
    \/ Wall \div Second > d.sec
    \/ Wall \div Second = d.sec /\ Wall % Second >= d.frac

Init ==
    /\ value = InitialValue
    /\ mono = 0 /\ offset = 0
    /\ st = [t \in Threads |-> "idle"]
    /\ ms = [t \in Threads |-> 0]
    /\ deadline = [t \in Threads |-> Deadline(0, 0)]
    /\ began = [t \in Threads |-> 0]
    /\ dial = [t \in Threads |-> 0]
    /\ posts = 0 /\ taken = 0 /\ jumped = FALSE

-----------------------------------------------------------------------------
\* A call of uni_sem_wait_timeout, or of uni_sem_wait with m negative.
\* sem_wait and sem_timedwait take a token that is there without looking at
\* the time; otherwise the thread sleeps.
Call(t, m) ==
    /\ st[t] = "idle"
    /\ mono + Units(m) <= MaxClock
    /\ ms' = [ms EXCEPT ![t] = m]
    /\ began' = [began EXCEPT ![t] = mono] /\ dial' = [dial EXCEPT ![t] = offset]
    /\ deadline' = [deadline EXCEPT ![t] = Deadline(Wall, m)]
    /\ UNCHANGED <<mono, offset, posts, jumped>>

TakeAtOnce(t, m) ==
    /\ Call(t, m)
    /\ value > 0
    /\ value' = value - 1 /\ taken' = taken + 1
    /\ st' = [st EXCEPT ![t] = "got"]

Sleep(t, m) ==
    /\ Call(t, m)
    /\ value = 0
    /\ st' = [st EXCEPT ![t] = "asleep"]
    /\ UNCHANGED <<value, taken>>

\* Mutant: a wake-up that does not look at the count.
WakeUnguarded(t) ==
    /\ st[t] = "asleep"
    /\ value' = value - 1 /\ taken' = taken + 1
    /\ st' = [st EXCEPT ![t] = "got"]
    /\ UNCHANGED <<mono, offset, ms, deadline, began, dial, posts, jumped>>

Wake(t) ==
    /\ st[t] = "asleep"
    /\ value > 0
    /\ value' = value - 1 /\ taken' = taken + 1
    /\ st' = [st EXCEPT ![t] = "got"]
    /\ UNCHANGED <<mono, offset, ms, deadline, began, dial, posts, jumped>>

\* Mutant: a timeout of 0 waits for ever.
TimedPositive(m) == m > 0

\* The test for sem_timedwait against sem_wait.
Timed(m) == m >= 0

\* Mutant: a wait that times out takes a token that came too late.
ExpireAndTake(t) ==
    /\ st[t] = "asleep"
    /\ Timed(ms[t]) /\ Passed(deadline[t])
    /\ value' = IF value > 0 THEN value - 1 ELSE value
    /\ st' = [st EXCEPT ![t] = "timeout"]
    /\ UNCHANGED <<mono, offset, ms, deadline, began, dial, posts, taken, jumped>>

\* The deadline passed.  A post may have come in the meantime: the thread that
\* times out leaves it to the others.
Expire(t) ==
    /\ st[t] = "asleep"
    /\ Timed(ms[t]) /\ Passed(deadline[t])
    /\ st' = [st EXCEPT ![t] = "timeout"]
    /\ UNCHANGED <<value, mono, offset, ms, deadline, began, dial, posts, taken, jumped>>

Return(t) ==
    /\ st[t] \in {"got", "timeout"}
    /\ st' = [st EXCEPT ![t] = "idle"]
    /\ UNCHANGED <<value, mono, offset, ms, deadline, began, dial, posts, taken, jumped>>

uni_sem_post ==
    /\ posts < MaxPosts
    /\ value' = value + 1 /\ posts' = posts + 1
    /\ UNCHANGED <<mono, offset, callVars, taken, jumped>>

Tick ==
    /\ mono < MaxClock + Room
    /\ mono' = mono + 1
    /\ UNCHANGED <<value, offset, callVars, posts, taken, jumped>>

\* The administrator, or a time server, sets the wall clock; once, and to no
\* time before its first.
SetClock(j) ==
    /\ ~jumped
    /\ Wall + j >= 0
    /\ offset' = offset + j
    /\ jumped' = TRUE
    /\ UNCHANGED <<value, mono, callVars, posts, taken>>

Next ==
    \/ \E t \in Threads :
         \/ \E m \in Timeouts : TakeAtOnce(t, m) \/ Sleep(t, m)
         \/ Wake(t) \/ Expire(t) \/ Return(t)
    \/ uni_sem_post \/ Tick
    \/ \E j \in Jumps : SetClock(j)

Spec == Init /\ [][Next]_vars

\* Time passes, and a thread that may wake up does.
Fairness ==
    /\ WF_vars(Tick)
    /\ \A t \in Threads : WF_vars(Expire(t)) /\ WF_vars(Wake(t))

FairSpec == Spec /\ Fairness

-----------------------------------------------------------------------------
\* The types of all variables: the count is never negative and the fraction of
\* a deadline is less than a second, as sem_timedwait demands (it fails with
\* EINVAL otherwise).
TypeOK ==
    /\ value \in Nat
    /\ mono \in Nat
    /\ offset \in Int
    /\ st \in [Threads -> {"idle", "asleep", "got", "timeout"}]
    /\ ms \in [Threads -> Int]
    /\ deadline \in [Threads -> Time]
    /\ began \in [Threads -> Nat]
    /\ dial \in [Threads -> Int]
    /\ posts \in Nat
    /\ taken \in Nat
    /\ jumped \in BOOLEAN

\* Every token goes to exactly one waiter: none is lost to a waiter that timed
\* out, none is handed out twice.
TokensConserved == value + taken = InitialValue + posts

\* The deadline is a time of day (platform.c:253), so a wait ends early if the
\* clock is set forward under it: by no more than that, whatever the phase of
\* the second it began in.  Left alone, it lasts its time; set back, longer.
ExpiresInTime ==
    \A t \in Threads :
      st[t] = "asleep" /\ st'[t] = "timeout" =>
        mono - began[t] >= Units(ms[t]) - (offset - dial[t])

TimeoutNotEarly == [][ExpiresInTime]_vars

\* A wait with a timeout ends, posted or not, also when the clock is set back.
TimedWaitEnds ==
    \A t \in Threads : (st[t] = "asleep" /\ ms[t] >= 0) ~> (st[t] # "asleep")

Contract == INSTANCE SemContract

\* uni_platform.h:225-262: with the deadlines and whatever the clocks do, the
\* semaphore is the counter of the header.  A wait that times out takes nothing
\* and leaves a late post to the others, and one without a timeout never does.
SemSpec == Contract!Spec
=============================================================================
