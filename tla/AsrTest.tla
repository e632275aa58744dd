------------------------------- MODULE AsrTest -------------------------------
(***************************************************************************)
(* The two audio commands of the demo, asr_test and wave_test              *)
(* (src/module/asr_test.c).  The command line thread runs one command at a *)
(* time: it names the audio file, starts a session of the keros library    *)
(* and blocks on g_asr_test.event_sem until a callback of the library, run *)
(* by a thread of the library, posts it.  Both commands share that one     *)
(* semaphore and nothing says which session a post belongs to.             *)
(*                                                                         *)
(* The n-th command that gets past its argument check has the identity n,  *)
(* which also names the session it starts, the file it plays and the       *)
(* wave_info_t block the session delivers.  A command with too few         *)
(* arguments returns -1 before it touches any state: a stuttering step.    *)
(*                                                                         *)
(* Definitions marked "Mutant" are faulty variants of the definition they  *)
(* precede; Next does not use them.                                        *)
(***************************************************************************)
EXTENDS Integers

CONSTANTS
    MaxCommands,    \* bound: commands issued at the prompt
    MaxEvents,      \* bound: callbacks of one recognition session
    StartMayFail    \* whether the library may refuse a session it has room for

ASSUME CommandsAssumption == MaxCommands \in Nat
ASSUME EventsAssumption   == MaxEvents \in Nat \ {0}
ASSUME FailAssumption     == StartMayFail \in BOOLEAN

Commands == 1 .. MaxCommands
NULL     == 0       \* no session, no block, no file name

ResultEvents == {"RESULT", "RESULT_URL", "RESULT_TTS"}
ErrorEvents  == {"ERRMSG", "NETWORK_ERR", "SYSTEM_ERR"}
Events       == ResultEvents \cup ErrorEvents

\* The members of wave_info_t in the order wave_test_cli compares them.
FieldNames == {"ssid", "passwd", "account"}
Field      == <<"ssid", "passwd", "account">>

VARIABLES
    event_sem,      \* g_asr_test.event_sem: its count
    wave,           \* g_asr_test.wave: the block it points to, or NULL
    filename,       \* g_record.filename: the command that wrote it last
    pc,             \* where the command line thread is
    cur,            \* the command it runs, or ran last
    field,          \* wave_test_cli: index of the next member to compare
    ret,            \* wave_test_cli: members found to differ
    report,         \* what the last command printed about its outcome
    asr,            \* library: the running recognition session, or NULL
    analysis,       \* library: the running wave analysis, or NULL
    phase,          \* library: how far the wave analysis is
    wrong,          \* members of each block that differ from its command's argv
    freed,          \* blocks the library has freed
    \* history, read by the properties only
    started,        \* commands whose session the library started
    posts,          \* number of posts each session made
    extra           \* posts a session made after its first one

cliVars  == <<pc, cur, field, ret, report>>
libVars  == <<asr, analysis, phase, wrong, freed>>
histVars == <<started, posts, extra>>
vars     == <<event_sem, wave, filename, cliVars, libVars, histVars>>

Waiting   == {"asr_wait", "wave_wait"}
AfterWait == {"asr_check", "wave_read"}
Places    == {"prompt", "asr_start", "wave_start", "crashed"}
                \cup Waiting \cup AfterWait

-----------------------------------------------------------------------------
\* uni_sem_post and uni_sem_wait of platform.c, the count of the sem_t.  The
\* condition variable uni_sem_post also signals has no waiter anywhere.
uni_sem_post == event_sem' = event_sem + 1

\* Mutant: a wait that does not block.
WaitUnguarded == event_sem' = event_sem - 1

uni_sem_wait ==
    /\ event_sem > 0
    /\ event_sem' = event_sem - 1

\* g_asr_test.result: cleared by asr_test_init and assigned nowhere else.
result == 0

\* Mutant: uni_sem_init with a count of 1.
InitCountOne == event_sem = 1

\* uni_sem_init succeeds.  Its result is not looked at: without a semaphore the
\* first command would end in uni_sem_wait, on a null pointer.
SemInit == event_sem = 0

Init ==
    /\ SemInit
    /\ wave = NULL
    /\ filename = NULL
    /\ pc = "prompt" /\ cur = 0 /\ field = 1 /\ ret = {} /\ report = "none"
    /\ asr = NULL /\ analysis = NULL /\ phase = "idle"
    /\ wrong = [c \in Commands |-> {}]
    /\ freed = {}
    /\ started = {}
    /\ posts = [c \in Commands |-> 0]
    /\ extra = 0

-----------------------------------------------------------------------------
(* The command line thread. *)

\* Reading a command that passes its argument check: record_set_filename is
\* the first thing both commands do.
Issue(start) ==
    /\ pc = "prompt"
    /\ cur < MaxCommands
    /\ cur' = cur + 1
    /\ filename' = cur + 1
    /\ pc' = start
    /\ report' = "none"
    /\ UNCHANGED <<event_sem, wave, field, ret, libVars, histVars>>

asr_test_cli  == Issue("asr_start")
wave_test_cli == Issue("wave_start")

\* Mutant: asr_test_cli without its uni_sem_wait.
SkipWait ==
    /\ pc = "asr_start"
    /\ asr = NULL
    /\ asr' = cur
    /\ started' = started \cup {cur}
    /\ pc' = "asr_check"
    /\ UNCHANGED <<event_sem, wave, filename, cur, field, ret, report,
                   analysis, phase, wrong, freed, posts, extra>>

\* uni_online_asr_start.  A session is refused while another one runs, and
\* possibly for a reason of the library's own.  The return value is dropped.
AsrStart ==
    /\ pc = "asr_start"
    /\ asr = NULL
    /\ asr' = cur
    /\ started' = started \cup {cur}
    /\ pc' = "asr_wait"
    /\ UNCHANGED <<event_sem, wave, filename, cur, field, ret, report,
                   analysis, phase, wrong, freed, posts, extra>>

AsrStartRefused ==
    /\ pc = "asr_start"
    /\ asr # NULL \/ StartMayFail
    /\ pc' = "asr_wait"
    /\ UNCHANGED <<event_sem, wave, filename, cur, field, ret, report,
                   libVars, histVars>>

AsrWake ==
    /\ pc = "asr_wait"
    /\ uni_sem_wait
    /\ pc' = "asr_check"
    /\ UNCHANGED <<wave, filename, cur, field, ret, report, libVars, histVars>>

\* The test of g_asr_test.result and the return to the prompt.
AsrCheck ==
    /\ pc = "asr_check"
    /\ report' = IF result # 0 THEN "asr_fail" ELSE "asr_success"
    /\ pc' = "prompt"
    /\ UNCHANGED <<event_sem, wave, filename, cur, field, ret, libVars, histVars>>

\* uni_multi_wave_analysis_start returns 1 while an analysis is running.
WaveStart ==
    /\ pc = "wave_start"
    /\ analysis = NULL
    /\ analysis' = cur
    /\ phase' = "analysing"
    /\ started' = started \cup {cur}
    /\ pc' = "wave_wait"
    /\ UNCHANGED <<event_sem, wave, filename, cur, field, ret, report,
                   asr, wrong, freed, posts, extra>>

WaveStartRefused ==
    /\ pc = "wave_start"
    /\ analysis # NULL \/ StartMayFail
    /\ pc' = "wave_wait"
    /\ UNCHANGED <<event_sem, wave, filename, cur, field, ret, report,
                   libVars, histVars>>

WaveWake ==
    /\ pc = "wave_wait"
    /\ uni_sem_wait
    /\ pc' = "wave_read"
    /\ field' = 1 /\ ret' = {}
    /\ UNCHANGED <<wave, filename, cur, report, libVars, histVars>>

\* One strcmp through g_asr_test.wave.  A NULL pointer kills the process.  The
\* outcome is the block's own only when the block is this command's and has
\* not been freed: freed memory, and the block of another command, compare in
\* any way.
Differs(f) ==
    IF wave = cur /\ wave \notin freed THEN {f \in wrong[wave]} ELSE BOOLEAN

WaveRead ==
    /\ pc = "wave_read"
    /\ wave # NULL
    /\ field <= 3
    /\ \E differs \in Differs(Field[field]) :
         ret' = IF differs THEN ret \cup {Field[field]} ELSE ret
    /\ field' = field + 1
    /\ UNCHANGED <<event_sem, wave, filename, pc, cur, report, libVars, histVars>>

WaveCrash ==
    /\ pc = "wave_read"
    /\ wave = NULL
    /\ pc' = "crashed"
    /\ UNCHANGED <<event_sem, wave, filename, cur, field, ret, report,
                   libVars, histVars>>

WaveReport ==
    /\ pc = "wave_read"
    /\ wave # NULL
    /\ field = 4
    /\ report' = IF ret = {} THEN "wave_success" ELSE "wave_fail"
    /\ pc' = "prompt"
    /\ field' = 1 /\ ret' = {}
    /\ UNCHANGED <<event_sem, wave, filename, cur, libVars, histVars>>

-----------------------------------------------------------------------------
(* The threads of the library.  They stop with the process. *)

Alive == pc # "crashed"

\* Session c posts the semaphore.
CountPost(c) ==
    /\ posts' = [posts EXCEPT ![c] = @ + 1]
    /\ extra' = IF posts[c] = 0 THEN extra ELSE extra + 1

\* Mutant: no post for a system error.
SilentSystemErr(e) ==
    /\ Alive /\ asr # NULL
    /\ posts[asr] < MaxEvents
    /\ IF e = "SYSTEM_ERR" THEN UNCHANGED event_sem ELSE uni_sem_post
    /\ CountPost(asr)
    /\ UNCHANGED <<wave, filename, cliVars, libVars, started>>

\* _online_event_handle: every event, result or error, ends in one post.
online_event_handle(e) ==
    /\ Alive /\ asr # NULL
    /\ posts[asr] < MaxEvents
    /\ uni_sem_post
    /\ CountPost(asr)
    /\ UNCHANGED <<wave, filename, cliVars, libVars, started>>

\* A session ends by itself, at the latest by its timeout of 10000 ms, and not
\* before it reported something.
AsrEnd ==
    /\ Alive /\ asr # NULL
    /\ posts[asr] > 0
    /\ asr' = NULL
    /\ UNCHANGED <<event_sem, wave, filename, cliVars, analysis, phase, wrong,
                   freed, histVars>>

\* Mutant: the pointer is only stored while it is NULL.
WaveStoreFirstOnly ==
    /\ Alive /\ phase = "analysing"
    /\ wave' = IF wave = NULL THEN analysis ELSE wave
    /\ phase' = "stored"
    /\ \E members \in SUBSET FieldNames :
         wrong' = [wrong EXCEPT ![analysis] = members]
    /\ UNCHANGED <<event_sem, filename, cliVars, asr, analysis, freed, histVars>>

\* wave_handle_cb, two steps of the library's thread: the pointer, then the
\* post.  What was recognised (nothing, after a timeout) may differ from the
\* command's arguments in any of the members.
WaveStore ==
    /\ Alive /\ phase = "analysing"
    /\ wave' = analysis
    /\ phase' = "stored"
    /\ \E members \in SUBSET FieldNames :
         wrong' = [wrong EXCEPT ![analysis] = members]
    /\ UNCHANGED <<event_sem, filename, cliVars, asr, analysis, freed, histVars>>

\* Mutant: no post when nothing was recognised.
WavePostOnMatch ==
    /\ Alive /\ phase = "stored"
    /\ phase' = "posted"
    /\ IF wrong[analysis] = {} THEN uni_sem_post /\ CountPost(analysis)
                               ELSE UNCHANGED <<event_sem, posts, extra>>
    /\ UNCHANGED <<wave, filename, cliVars, asr, analysis, wrong, freed,
                   started>>

WavePost ==
    /\ Alive /\ phase = "stored"
    /\ phase' = "posted"
    /\ uni_sem_post
    /\ CountPost(analysis)
    /\ UNCHANGED <<wave, filename, cliVars, asr, analysis, wrong, freed,
                   started>>

\* After the callback returned the library frees the block and is idle again.
WaveEnd ==
    /\ Alive /\ phase = "posted"
    /\ freed' = freed \cup {analysis}
    /\ analysis' = NULL
    /\ phase' = "idle"
    /\ UNCHANGED <<event_sem, wave, filename, cliVars, asr, wrong, histVars>>

-----------------------------------------------------------------------------
Command == asr_test_cli \/ wave_test_cli

CliStep == \/ AsrStart \/ AsrStartRefused \/ AsrWake \/ AsrCheck
           \/ WaveStart \/ WaveStartRefused \/ WaveWake
           \/ WaveRead \/ WaveCrash \/ WaveReport

AsrEvent == \E e \in Events : online_event_handle(e)
WaveStep == WaveStore \/ WavePost \/ WaveEnd

Next == Command \/ CliStep \/ AsrEvent \/ AsrEnd \/ WaveStep

Spec == Init /\ [][Next]_vars

\* The scheduler runs every thread that can run, a started session reports
\* within its timeout, and nobody has to type another command.
FirstEvent == AsrEvent /\ posts[asr] = 0
Fairness ==
    /\ WF_vars(CliStep)
    /\ WF_vars(FirstEvent)
    /\ WF_vars(AsrEnd)
    /\ WF_vars(WaveStep)

FairSpec == Spec /\ Fairness

-----------------------------------------------------------------------------
\* The types of all variables; in particular the count never gets negative.
TypeOK ==
    /\ event_sem \in Nat
    /\ wave \in {NULL} \cup Commands
    /\ filename \in {NULL} \cup Commands
    /\ pc \in Places
    /\ cur \in 0 .. MaxCommands
    /\ field \in 1 .. 4
    /\ ret \subseteq FieldNames
    /\ report \in {"none", "asr_success", "asr_fail",
                   "wave_success", "wave_fail"}
    /\ asr \in {NULL} \cup Commands
    /\ analysis \in {NULL} \cup Commands
    /\ phase \in {"idle", "analysing", "stored", "posted"}
    /\ wrong \in [Commands -> SUBSET FieldNames]
    /\ freed \subseteq Commands
    /\ started \subseteq Commands
    /\ posts \in [Commands -> Nat]
    /\ extra \in Nat

\* No wake-up is lost: a command whose session was started never waits on a
\* semaphore nobody is going to post, however many posts of earlier sessions
\* came early, late or twice.
Quiet == event_sem = 0 /\ asr = NULL /\ analysis = NULL
NoLostWakeup == (pc \in Waiting /\ Quiet) => cur \notin started

\* As long as no session has posted twice, a command is woken by the session
\* it started itself and not by a leftover of an earlier one.
NoStaleWakeup == (extra = 0 /\ pc \in AfterWait) => posts[cur] = 1

\* As long as no session has posted twice, wave_test_cli reads through the
\* pointer its own session stored, never through NULL or an older pointer.
WaveOfThisCommand ==
    (extra = 0 /\ pc = "wave_read") => wave = cur

\* As long as no session has posted twice, record_set_filename does not
\* replace the name of the file under a session that has reported nothing.
NameStable ==
    extra = 0 => \A c \in started : posts[c] = 0 => filename = c

\* A command whose session was started comes back to the prompt, or the
\* process dies on the NULL pointer; it does not hang.
CommandReturns ==
    (pc \in Waiting /\ cur \in started) ~> (pc \in {"prompt", "crashed"})

-----------------------------------------------------------------------------
(* Statements of the repository that the code does not live up to. *)

\* asr_test.c:68 has a report for a recognition that fails: a command whose
\* session the library refused to start gets to it.
AsrFailureReported ==
    (pc = "asr_wait" /\ cur \notin started) ~> (report = "asr_fail")

\* asr_test.c:111 prints "wave test success": the analysis this command
\* started recognised all three members.
WaveSuccessMeansMatch ==
    report = "wave_success" => cur \in started /\ wrong[cur] = {}
=============================================================================
