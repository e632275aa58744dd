---------------------------- MODULE SemContract ----------------------------
(***************************************************************************)
(* What the header asks of the semaphore functions in struct               *)
(* uni_platform_opt (src/lib/include/uni_platform.h): a count.  Waiting    *)
(* takes one, blocks while there is none, and gives up only with a timeout *)
(* of 0 or more, and then takes nothing; posting adds one.  No clock is    *)
(* part of the promise: how long a wait lasts is not said here.            *)
(***************************************************************************)
EXTENDS Integers

CONSTANTS
    Threads,        \* threads that wait
    Timeouts,       \* values passed as timeout_ms; negative: wait for ever
    InitialValue    \* the value given to uni_sem_init

VARIABLES
    value,      \* the count
    st,         \* per thread: "idle", "asleep", "got" or "timeout"
    ms          \* per thread: the timeout of the call it is in

Init ==
    /\ value = InitialValue
    /\ st = [t \in Threads |-> "idle"]
    /\ ms = [t \in Threads |-> 0]

Goes(t, from, to) == st[t] = from /\ st' = [st EXCEPT ![t] = to]

Take == value > 0 /\ value' = value - 1

\* A wait with timeout m begins: it takes one at once, or it blocks.
Begin(t, m) ==
    /\ \/ Take /\ Goes(t, "idle", "got")
       \/ value = 0 /\ Goes(t, "idle", "asleep") /\ UNCHANGED value
    /\ ms' = [ms EXCEPT ![t] = m]

uni_sem_wait(t) == Take /\ Goes(t, "asleep", "got") /\ UNCHANGED ms

GivesUp(t) == ms[t] >= 0 /\ Goes(t, "asleep", "timeout") /\ UNCHANGED <<value, ms>>

Returns(t) ==
    /\ Goes(t, "got", "idle") \/ Goes(t, "timeout", "idle")
    /\ UNCHANGED <<value, ms>>

uni_sem_post == value' = value + 1 /\ UNCHANGED <<st, ms>>

Next ==
    \/ \E t \in Threads :
         \/ \E m \in Timeouts : Begin(t, m)
         \/ uni_sem_wait(t) \/ GivesUp(t) \/ Returns(t)
    \/ uni_sem_post

Spec == Init /\ [][Next]_<<value, st, ms>>
=============================================================================
