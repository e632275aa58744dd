------------------------------ MODULE Session ------------------------------
(***************************************************************************)
(* The services of the platform layer together, as a conversion of         *)
(* libkeros uses them (uni_txt2tts_start and its thread uni_tts_recv_thread*)
(* in lib/libkeros.a): the caller makes a semaphore and a thread           *)
(* (src/common/platform.c) and waits for the thread to say whether it has  *)
(* a connection (src/common/uni_socket.c).  If it has none, the caller     *)
(* destroys the semaphore.  The thread detaches itself and destroys its    *)
(* own handle at its end.                                                  *)
(***************************************************************************)
EXTENDS Sockets

CONSTANT Tries      \* how often a thread tries to connect

ASSUME TriesAssumption == Tries \in Nat \ {0}

VARIABLES
    start,      \* caller: "init", "create", "store", "wait", "clean", then
                \* "up" or "failed"
    run,        \* thread: "none", "detach", "connect", "send", "drop", "post",
                \* "signal", "recv", "free" or "gone"
    tries,      \* thread: attempts to connect
    sem,        \* memory of the semaphore: "none", "live" or "freed"
    value,      \* its count
    block,      \* memory of the thread handle: "none", "live" or "freed"
    handle,     \* the variable given to uni_thread_create points to it
    detached    \* the thread gives its resources back when it ends

sessionVars == <<start, run, tries, sem, value, block, handle, detached>>
vars == <<socketVars, sessionVars>>

Init ==
    /\ SocketInit
    /\ start = [s \in Users |-> "init"]
    /\ run = [s \in Users |-> "none"]
    /\ tries = [s \in Users |-> 0]
    /\ sem = [s \in Users |-> "none"]
    /\ value = [s \in Users |-> 0]
    /\ block = [s \in Users |-> "none"]
    /\ handle = [s \in Users |-> FALSE]
    /\ detached = [s \in Users |-> FALSE]

\* A step of the caller, or of the thread, of session s.
Caller(s, from, to) ==
    /\ alive /\ start[s] = from
    /\ start' = [start EXCEPT ![s] = to]

Thread(s, from, to) ==
    /\ alive /\ run[s] = from
    /\ run' = [run EXCEPT ![s] = to]

-----------------------------------------------------------------------------
uni_sem_init(s) ==
    /\ Caller(s, "init", "create")
    /\ sem' = [sem EXCEPT ![s] = "live"]
    /\ UNCHANGED <<socketVars, run, tries, value, block, handle, detached>>

\* No memory, or one of the three parts cannot be made: what was allocated is
\* given back and the variable of the caller is not written.  If it is the
\* condition that cannot be made, platform.c:166-176 destroys the sem_t and then
\* calls uni_sem_destroy, which destroys it again; glibc does nothing there.
SemInitFails(s) ==
    /\ Caller(s, "init", "failed")
    /\ UNCHANGED <<socketVars, run, tries, sem, value, block, handle, detached>>

\* The thread runs before its creator goes on.
uni_thread_create(s) ==
    /\ Caller(s, "create", "store")
    /\ block' = [block EXCEPT ![s] = "live"]
    /\ run' = [run EXCEPT ![s] = "detach"]
    /\ UNCHANGED <<socketVars, tries, sem, value, handle, detached>>

\* malloc gives NULL, and pthread_create writes the thread's name through it.
NoHandle(s) ==
    /\ start[s] = "create"
    /\ Killed
    /\ UNCHANGED sessionVars

\* pthread_create fails; the memory of the handle is not given back.
ThreadCreateFails(s) ==
    /\ Caller(s, "create", "clean")
    /\ block' = [block EXCEPT ![s] = "live"]
    /\ UNCHANGED <<socketVars, run, tries, sem, value, handle, detached>>

\* *thread = _p, after pthread_create has returned.
StoreHandle(s) ==
    /\ Caller(s, "store", "wait")
    /\ handle' = [handle EXCEPT ![s] = TRUE]
    /\ UNCHANGED <<socketVars, run, tries, sem, value, block, detached>>

HasLink(s) == sock[s] # NoSocket

\* Mutant: a wait that does not look at the count.
WaitUnguarded(s) ==
    /\ Caller(s, "wait", IF HasLink(s) THEN "up" ELSE "clean")
    /\ value' = [value EXCEPT ![s] = @ - 1]
    /\ UNCHANGED <<socketVars, run, tries, sem, block, handle, detached>>

uni_sem_wait(s) ==
    /\ Caller(s, "wait", IF HasLink(s) THEN "up" ELSE "clean")
    /\ value[s] > 0
    /\ value' = [value EXCEPT ![s] = @ - 1]
    /\ UNCHANGED <<socketVars, run, tries, sem, block, handle, detached>>

uni_sem_destroy(s) ==
    /\ Caller(s, "clean", "failed")
    /\ sem' = [sem EXCEPT ![s] = "freed"]
    /\ UNCHANGED <<socketVars, run, tries, value, block, handle, detached>>

-----------------------------------------------------------------------------
\* Mutant: the thread named by the handle is detached, if there is one yet.
DetachByHandle(s) ==
    /\ Thread(s, "detach", "connect")
    /\ detached' = [detached EXCEPT ![s] = handle[s]]
    /\ UNCHANGED <<socketVars, start, tries, sem, value, block, handle>>

\* The argument, which may not be stored yet, is not used.
uni_thread_detach(s) ==
    /\ Thread(s, "detach", "connect")
    /\ detached' = [detached EXCEPT ![s] = TRUE]
    /\ UNCHANGED <<socketVars, start, tries, sem, value, block, handle>>

\* One attempt after the other; without a connection the thread goes on to
\* tell its caller.
Try(s) ==
    /\ run[s] = "connect" /\ tries[s] < Tries
    /\ tries' = [tries EXCEPT ![s] = @ + 1]
    /\ \/ Socket(s) /\ UNCHANGED run
       \/ SocketFails(s) /\ Thread(s, "connect", IF tries'[s] = Tries THEN "post" ELSE "connect")
    /\ UNCHANGED <<start, sem, value, block, handle, detached>>

Tried(s) ==
    /\ \/ Connect(s) /\ Thread(s, "connect", "send")
       \/ ConnectFails(s) /\ Thread(s, "connect", IF tries[s] = Tries THEN "post" ELSE "connect")
    /\ UNCHANGED <<start, tries, sem, value, block, handle, detached>>

Request(s) ==
    /\ \/ \E t \in Timeouts :
             \/ Send(s, t) /\ Thread(s, "send", "post")
             \/ SendFails(s, t) /\ Thread(s, "send", "drop")
       \/ SendKilled(s) /\ run[s] = "send" /\ UNCHANGED run
       \/ uni_tcp_destroy(s) /\ Thread(s, "drop", "post")
    /\ UNCHANGED <<start, tries, sem, value, block, handle, detached>>

\* Mutant: only the condition is signalled, for which nobody waits.
PostSignalsOnly(s) ==
    /\ Thread(s, "post", "signal")
    /\ UNCHANGED <<socketVars, start, tries, sem, value, block, handle, detached>>

\* uni_sem_post, first half: sem_post.
SemPost(s) ==
    /\ Thread(s, "post", "signal")
    /\ value' = [value EXCEPT ![s] = @ + 1]
    /\ UNCHANGED <<socketVars, start, tries, sem, block, handle, detached>>

\* uni_sem_post, second half: pthread_cond_signal on the same memory.
CondSignal(s) ==
    /\ Thread(s, "signal", IF HasLink(s) THEN "recv" ELSE "free")
    /\ UNCHANGED <<socketVars, start, tries, sem, value, block, handle, detached>>

Receive(s) ==
    /\ run[s] = "recv"
    /\ uni_tcp_recv(s)
    /\ UNCHANGED sessionVars

\* The last block came, or somebody stopped the conversion.
Stop(s) ==
    /\ Thread(s, "recv", "free")
    /\ uni_tcp_destroy(s)
    /\ UNCHANGED <<start, tries, sem, value, block, handle, detached>>

\* The library sets the variable to NULL after the call; destroying NULL does
\* nothing.
uni_thread_destroy(s) ==
    /\ Thread(s, "free", "gone")
    /\ block' = IF handle[s] THEN [block EXCEPT ![s] = "freed"] ELSE block
    /\ handle' = [handle EXCEPT ![s] = FALSE]
    /\ UNCHANGED <<socketVars, start, tries, sem, value, detached>>

-----------------------------------------------------------------------------
CallerStep(s) ==
    \/ uni_sem_init(s) \/ SemInitFails(s)
    \/ uni_thread_create(s) \/ NoHandle(s) \/ ThreadCreateFails(s)
    \/ StoreHandle(s) \/ uni_sem_wait(s) \/ uni_sem_destroy(s)

ThreadStep(s) ==
    \/ uni_thread_detach(s) \/ Try(s) \/ Tried(s) \/ Request(s)
    \/ SemPost(s) \/ CondSignal(s) \/ Receive(s) \/ Stop(s)
    \/ uni_thread_destroy(s)

Next ==
    \/ \E s \in Users : CallerStep(s) \/ ThreadStep(s)
    \/ Server /\ UNCHANGED sessionVars

Spec == Init /\ [][Next]_vars

-----------------------------------------------------------------------------
\* The types of all variables.
TypeOK ==
    /\ SocketTypeOK
    /\ start \in [Users -> {"init", "create", "store", "wait", "clean", "up", "failed"}]
    /\ run \in [Users -> {"none", "detach", "connect", "send", "drop", "post",
                          "signal", "recv", "free", "gone"}]
    /\ tries \in [Users -> 0 .. Tries]
    /\ sem \in [Users -> {"none", "live", "freed"}]
    /\ value \in [Users -> {0, 1}]
    /\ block \in [Users -> {"none", "live", "freed"}]
    /\ handle \in [Users -> BOOLEAN]
    /\ detached \in [Users -> BOOLEAN]

\* platform.c:47-114: in whatever order creator and thread come to storing the
\* handle and to destroying it, a handle that can be used leads to memory that was
\* not given back, and a thread that has ended leaves nothing of itself to be joined.
ThreadReleased ==
    \A s \in Users :
        /\ handle[s] => block[s] = "live"
        /\ run[s] = "gone" => detached[s]

\* platform.c:193-214: in whatever way the attempts fail, the caller is told
\* once: it waits in vain only as long as the thread has not come to the post.
ToldOnce ==
    \A s \in Users :
        value[s] = IF run[s] \in {"signal", "recv", "free", "gone"}
                      /\ start[s] \in {"store", "wait"} THEN 1 ELSE 0

-----------------------------------------------------------------------------
\* platform.c:26 and 210-211: uni_sem_post wakes the waiter by sem_post and
\* signals the condition after that.  The condition is in memory that the
\* waiter, once woken, may give back by uni_sem_destroy.
PostTouchesLive ==
    \A s \in Users : run[s] = "signal" => sem[s] = "live"
=============================================================================
