---------------------------- MODULE AsrTestProofs ----------------------------
(***************************************************************************)
(* Proofs about AsrTest for any number of commands and of callbacks per    *)
(* session, and whether or not the library refuses sessions.               *)
(*                                                                         *)
(* Sessions says which session each library thread serves and what it has  *)
(* posted; Pending is the reason no wake-up is lost; Fresh is the exact    *)
(* state of the semaphore as long as no session has posted twice.          *)
(***************************************************************************)
EXTENDS AsrTest, TLAPS

Sessions ==
    /\ started \subseteq 1 .. cur
    /\ asr # NULL => asr \in started /\ asr # analysis
    /\ analysis # NULL => analysis \in started
    /\ analysis = NULL <=> phase = "idle"
    /\ phase \in {"analysing", "stored"} => posts[analysis] = 0
    /\ phase = "posted" => posts[analysis] > 0
    /\ phase = "stored" => wave = analysis
    /\ \A c \in Commands \ started : posts[c] = 0
    /\ \A c \in started : posts[c] = 0 => c \in {asr, analysis}

Thread ==
    /\ pc # "prompt" => cur \in Commands
    /\ pc \in {"asr_start", "wave_start"} => cur \notin started
    /\ pc = "wave_wait" => asr # cur
    /\ filename = cur

Pending ==
    (pc \in Waiting /\ cur \in started) => event_sem > 0 \/ posts[cur] = 0

Fresh ==
    extra = 0 =>
      /\ event_sem = IF pc \in Waiting THEN posts[cur] ELSE 0
      /\ \A c \in started : posts[c] = 0 => pc \in Waiting /\ c = cur
      /\ pc \in AfterWait => posts[cur] = 1
      /\ \A c \in Commands : posts[c] <= 1
      /\ (pc \in {"wave_wait", "wave_read"} /\ posts[cur] = 1) => wave = cur

IInv == TypeOK /\ Sessions /\ Thread /\ Pending /\ Fresh

-----------------------------------------------------------------------------
LEMMA TypeStep == ASSUME TypeOK, Sessions, Thread, [Next]_vars PROVE TypeOK'
<1>a. {"prompt", "asr_start", "asr_wait", "asr_check", "wave_start", "wave_wait",
       "wave_read", "crashed"} \subseteq Places
  BY DEF Places, Waiting, AfterWait
<1>b. cur < MaxCommands => cur + 1 \in Commands /\ cur + 1 \in 0 .. MaxCommands
  BY CommandsAssumption DEF TypeOK, Commands
<1>c. /\ pc # "prompt" => cur \in Commands
      /\ phase # "idle" => analysis \in Commands
  BY DEF TypeOK, Thread, Sessions, NULL
<1>d. \A c \in Commands :
         CountPost(c) => extra' \in Nat /\ posts' \in [Commands -> Nat]
  BY DEF TypeOK, CountPost
<1>e. field <= 3 => field + 1 \in 1 .. 4 /\ Field[field] \in FieldNames
  BY DEF TypeOK, Field, FieldNames
<1> USE <1>a, <1>b, <1>c, <1>d, <1>e DEF TypeOK, cliVars, libVars, histVars
<1>1. CASE asr_test_cli
  BY <1>1 DEF asr_test_cli, Issue
<1>2. CASE wave_test_cli
  BY <1>2 DEF wave_test_cli, Issue
<1>3. CASE AsrStart
  BY <1>3 DEF AsrStart
<1>4. CASE AsrStartRefused
  BY <1>4 DEF AsrStartRefused
<1>5. CASE AsrWake
  BY <1>5 DEF AsrWake, uni_sem_wait
<1>6. CASE AsrCheck
  BY <1>6 DEF AsrCheck, result
<1>7. CASE WaveStart
  BY <1>7 DEF WaveStart
<1>8. CASE WaveStartRefused
  BY <1>8 DEF WaveStartRefused
<1>9. CASE WaveWake
  BY <1>9 DEF WaveWake, uni_sem_wait
<1>10. CASE WaveRead
  BY <1>10 DEF WaveRead
<1>11. CASE WaveCrash
  BY <1>11 DEF WaveCrash
<1>12. CASE WaveReport
  BY <1>12 DEF WaveReport
<1>13. CASE AsrEvent
  BY <1>13 DEF AsrEvent, online_event_handle, uni_sem_post
<1>14. CASE AsrEnd
  BY <1>14 DEF AsrEnd
<1>15. CASE WaveStore
  BY <1>15 DEF WaveStore
<1>16. CASE WavePost
  BY <1>16 DEF WavePost, uni_sem_post
<1>17. CASE WaveEnd
  BY <1>17 DEF WaveEnd
<1>18. CASE UNCHANGED vars
  BY <1>18 DEF vars
<1> QED
  BY <1>1, <1>2, <1>3, <1>4, <1>5, <1>6, <1>7, <1>8, <1>9,
     <1>10, <1>11, <1>12, <1>13, <1>14, <1>15, <1>16, <1>17, <1>18
  DEF Next, Command, CliStep, WaveStep

LEMMA SessionsStep == ASSUME IInv, [Next]_vars PROVE Sessions'
<1> USE CommandsAssumption DEF IInv, TypeOK, NULL, Commands, CountPost, Sessions, Thread,
            cliVars, libVars, histVars
<1>1. CASE asr_test_cli
  BY <1>1 DEF asr_test_cli, Issue
<1>2. CASE wave_test_cli
  BY <1>2 DEF wave_test_cli, Issue
<1>3. CASE AsrStart
  BY <1>3 DEF AsrStart
<1>4. CASE AsrStartRefused
  BY <1>4 DEF AsrStartRefused
<1>5. CASE AsrWake
  BY <1>5 DEF AsrWake, uni_sem_wait
<1>6. CASE AsrCheck
  BY <1>6 DEF AsrCheck, result
<1>7. CASE WaveStart
  BY <1>7 DEF WaveStart
<1>8. CASE WaveStartRefused
  BY <1>8 DEF WaveStartRefused
<1>9. CASE WaveWake
  BY <1>9 DEF WaveWake, uni_sem_wait
<1>10. CASE WaveRead
  BY <1>10 DEF WaveRead
<1>11. CASE WaveCrash
  BY <1>11 DEF WaveCrash
<1>12. CASE WaveReport
  BY <1>12 DEF WaveReport
<1>13. CASE AsrEvent
  BY <1>13 DEF AsrEvent, online_event_handle, uni_sem_post
<1>14. CASE AsrEnd
  BY <1>14 DEF AsrEnd
<1>15. CASE WaveStore
  BY <1>15 DEF WaveStore
<1>16. CASE WavePost
  BY <1>16 DEF WavePost, uni_sem_post
<1>17. CASE WaveEnd
  BY <1>17 DEF WaveEnd
<1>18. CASE UNCHANGED vars
  BY <1>18 DEF vars
<1> QED
  BY <1>1, <1>2, <1>3, <1>4, <1>5, <1>6, <1>7, <1>8, <1>9,
     <1>10, <1>11, <1>12, <1>13, <1>14, <1>15, <1>16, <1>17, <1>18
  DEF Next, Command, CliStep, WaveStep

LEMMA ThreadStep == ASSUME IInv, [Next]_vars PROVE Thread'
<1> USE CommandsAssumption DEF IInv, TypeOK, NULL, Commands, CountPost, Thread, Sessions,
            cliVars, libVars, histVars
<1>1. CASE asr_test_cli
  BY <1>1 DEF asr_test_cli, Issue
<1>2. CASE wave_test_cli
  BY <1>2 DEF wave_test_cli, Issue
<1>3. CASE AsrStart
  BY <1>3 DEF AsrStart
<1>4. CASE AsrStartRefused
  BY <1>4 DEF AsrStartRefused
<1>5. CASE AsrWake
  BY <1>5 DEF AsrWake, uni_sem_wait
<1>6. CASE AsrCheck
  BY <1>6 DEF AsrCheck, result
<1>7. CASE WaveStart
  BY <1>7 DEF WaveStart
<1>8. CASE WaveStartRefused
  BY <1>8 DEF WaveStartRefused
<1>9. CASE WaveWake
  BY <1>9 DEF WaveWake, uni_sem_wait
<1>10. CASE WaveRead
  BY <1>10 DEF WaveRead
<1>11. CASE WaveCrash
  BY <1>11 DEF WaveCrash
<1>12. CASE WaveReport
  BY <1>12 DEF WaveReport
<1>13. CASE AsrEvent
  BY <1>13 DEF AsrEvent, online_event_handle, uni_sem_post
<1>14. CASE AsrEnd
  BY <1>14 DEF AsrEnd
<1>15. CASE WaveStore
  BY <1>15 DEF WaveStore
<1>16. CASE WavePost
  BY <1>16 DEF WavePost, uni_sem_post
<1>17. CASE WaveEnd
  BY <1>17 DEF WaveEnd
<1>18. CASE UNCHANGED vars
  BY <1>18 DEF vars
<1> QED
  BY <1>1, <1>2, <1>3, <1>4, <1>5, <1>6, <1>7, <1>8, <1>9,
     <1>10, <1>11, <1>12, <1>13, <1>14, <1>15, <1>16, <1>17, <1>18
  DEF Next, Command, CliStep, WaveStep

LEMMA PendingStep == ASSUME IInv, [Next]_vars PROVE Pending'
<1> USE CommandsAssumption DEF IInv, TypeOK, NULL, Commands, CountPost, Pending, Sessions, Thread, Waiting,
            cliVars, libVars, histVars
<1>1. CASE asr_test_cli
  BY <1>1 DEF asr_test_cli, Issue
<1>2. CASE wave_test_cli
  BY <1>2 DEF wave_test_cli, Issue
<1>3. CASE AsrStart
  BY <1>3 DEF AsrStart
<1>4. CASE AsrStartRefused
  BY <1>4 DEF AsrStartRefused
<1>5. CASE AsrWake
  BY <1>5 DEF AsrWake, uni_sem_wait
<1>6. CASE AsrCheck
  BY <1>6 DEF AsrCheck, result
<1>7. CASE WaveStart
  BY <1>7 DEF WaveStart
<1>8. CASE WaveStartRefused
  BY <1>8 DEF WaveStartRefused
<1>9. CASE WaveWake
  BY <1>9 DEF WaveWake, uni_sem_wait
<1>10. CASE WaveRead
  BY <1>10 DEF WaveRead
<1>11. CASE WaveCrash
  BY <1>11 DEF WaveCrash
<1>12. CASE WaveReport
  BY <1>12 DEF WaveReport
<1>13. CASE AsrEvent
  BY <1>13 DEF AsrEvent, online_event_handle, uni_sem_post
<1>14. CASE AsrEnd
  BY <1>14 DEF AsrEnd
<1>15. CASE WaveStore
  BY <1>15 DEF WaveStore
<1>16. CASE WavePost
  BY <1>16 DEF WavePost, uni_sem_post
<1>17. CASE WaveEnd
  BY <1>17 DEF WaveEnd
<1>18. CASE UNCHANGED vars
  BY <1>18 DEF vars
<1> QED
  BY <1>1, <1>2, <1>3, <1>4, <1>5, <1>6, <1>7, <1>8, <1>9,
     <1>10, <1>11, <1>12, <1>13, <1>14, <1>15, <1>16, <1>17, <1>18
  DEF Next, Command, CliStep, WaveStep

LEMMA FreshStep == ASSUME IInv, [Next]_vars PROVE Fresh'
<1> USE CommandsAssumption DEF IInv, TypeOK, NULL, Commands, CountPost, Fresh, Sessions, Thread, Waiting, AfterWait,
            cliVars, libVars, histVars
<1>1. CASE asr_test_cli
  BY <1>1 DEF asr_test_cli, Issue
<1>2. CASE wave_test_cli
  BY <1>2 DEF wave_test_cli, Issue
<1>3. CASE AsrStart
  BY <1>3 DEF AsrStart
<1>4. CASE AsrStartRefused
  BY <1>4 DEF AsrStartRefused
<1>5. CASE AsrWake
  BY <1>5 DEF AsrWake, uni_sem_wait
<1>6. CASE AsrCheck
  BY <1>6 DEF AsrCheck, result
<1>7. CASE WaveStart
  BY <1>7 DEF WaveStart
<1>8. CASE WaveStartRefused
  BY <1>8 DEF WaveStartRefused
<1>9. CASE WaveWake
  BY <1>9 DEF WaveWake, uni_sem_wait
<1>10. CASE WaveRead
  BY <1>10 DEF WaveRead
<1>11. CASE WaveCrash
  BY <1>11 DEF WaveCrash
<1>12. CASE WaveReport
  BY <1>12 DEF WaveReport
<1>13. CASE AsrEvent
  BY <1>13 DEF AsrEvent, online_event_handle, uni_sem_post
<1>14. CASE AsrEnd
  BY <1>14 DEF AsrEnd
<1>15. CASE WaveStore
  BY <1>15 DEF WaveStore
<1>16. CASE WavePost
  BY <1>16 DEF WavePost, uni_sem_post
<1>17. CASE WaveEnd
  BY <1>17 DEF WaveEnd
<1>18. CASE UNCHANGED vars
  BY <1>18 DEF vars
<1> QED
  BY <1>1, <1>2, <1>3, <1>4, <1>5, <1>6, <1>7, <1>8, <1>9,
     <1>10, <1>11, <1>12, <1>13, <1>14, <1>15, <1>16, <1>17, <1>18
  DEF Next, Command, CliStep, WaveStep

LEMMA InitIInv == Init => IInv
  BY CommandsAssumption
  DEF Init, SemInit, IInv, TypeOK, Sessions, Thread, Pending, Fresh, Commands,
      NULL, Places, Waiting, AfterWait, FieldNames

\* The inductive invariant holds in every reachable state.
THEOREM Invariance == Spec => []IInv
<1>1. IInv /\ [Next]_vars => IInv'
  BY TypeStep, SessionsStep, ThreadStep, PendingStep, FreshStep DEF IInv
<1> QED
  BY <1>1, InitIInv, PTL DEF Spec

\* Every variable keeps its type: the semaphore's count is never negative and
\* g_asr_test.wave only ever points to the block of some session.
THEOREM TypeCorrect == Spec => []TypeOK
  BY Invariance, PTL DEF IInv

\* The wait of asr_test.c:66 and :94 never misses the post of the session the
\* command started: with no post outstanding and no session left running, a
\* command still blocked is one whose session the library refused to start.
THEOREM WakeupNotLost == Spec => []NoLostWakeup
<1>1. IInv => NoLostWakeup
  BY DEF IInv, TypeOK, Sessions, Thread, Pending, NoLostWakeup, Quiet, Waiting,
         NULL, Commands
<1> QED
  BY <1>1, Invariance, PTL

\* One semaphore is enough for both commands exactly as long as every session
\* posts once: then the post that wakes a command is its own session's.
THEOREM WakeupNotStale == Spec => []NoStaleWakeup
<1>1. IInv => NoStaleWakeup
  BY DEF IInv, Fresh, NoStaleWakeup
<1> QED
  BY <1>1, Invariance, PTL

\* Under the same condition the pointer wave_test_cli reads through after its
\* wait is the one its own session's callback stored.
THEOREM WaveIsOwn == Spec => []WaveOfThisCommand
<1>1. IInv => WaveOfThisCommand
  BY DEF IInv, Fresh, WaveOfThisCommand, AfterWait
<1> QED
  BY <1>1, Invariance, PTL

\* Under the same condition record_set_filename does not replace the file name
\* under a session that has reported nothing yet.
THEOREM NameKept == Spec => []NameStable
<1>1. IInv => NameStable
  BY DEF IInv, Fresh, Thread, NameStable
<1> QED
  BY <1>1, Invariance, PTL
=============================================================================
