# Verification of the keros demo

The repository is a small C program around a binary library, `lib/libkeros.a`
(speech recognition, wave analysis and an IoT agent). The program supplies the
library with a platform layer and a recording source, initialises it from an ini
file, and drives it from a command line. This directory holds TLA+ models of
the program's own logic, the TLC runs that check them and TLAPS proofs.

All paths below are relative to the repository; `platform.c` and the like are
the only files of that name.

## 1. Inventory

| Component | State | Operations | Talks to |
|---|---|---|---|
| Audio test commands, `src/module/asr_test.c` | `g_asr_test`: semaphore, result, pointer to the last wave information | `asr_test`, `wave_test`, the callbacks `_online_event_handle`, `wave_handle_cb` | run by the command line; callbacks run by threads of libkeros; names the file of the recording source |
| Command line, `src/common/uni_cli.c` | list of commands, line buffer | init, register, read, decode, run, help | reads stdin in a thread of its own while `main` registers |
| Platform layer, `src/common/platform.c` | semaphores, mutexes, threads, `g_net_status` | one wrapper per service, registered with libkeros | called by every thread |
| IoT initialisation, `src/module/keros_init.c` | the information block `info` | the command `iot_init`, `uni_get_iot_info` | iniparser, platform registration, the agent of libkeros, the network flag |
| Recording source, `src/module/record.c` | file name, descriptor | start, data, stop, set name | its callers are the recording thread of libkeros and the command line |
| iniparser, `extern/ini/iniparser.c` | line, section, key and value buffers | load, typed getters | dictionary |
| Dictionary, `extern/ini/dictionary.c` | size, count, arrays of keys, values, hashes | new, del, set, unset, get | iniparser |
| Text to speech, `src/module/txt2tts.c` | end flag, thread, block in hand, descriptor | `txt2tts`, `handle_tts_data` | asks libkeros for a conversion and takes blocks from its queue |
| Sockets, `src/common/uni_socket.c` | the descriptors of the process | resolve, connect, send, recv, close | called by the threads of libkeros |
| Test report, `src/module/test_report.c` | none | append a line | nothing calls it |
| `main.c` | none | starts the command line, registers four commands, sleeps | |

The four hard parts are these.

* *Threads without locks.* The command line thread, `main`, and the threads of
  libkeros share the semaphore, the pointer to the wave information, the list of
  commands, the file name and the network flag. Only the semaphore synchronises.
* *Failures in the middle.* `iot_init` may fail at every step and be repeated;
  the allocations of iniparser may fail, and some failures are not looked at.
* *Time.* A wait with a timeout races with posts and depends on a clock that can
  be set.
* *Lifetimes across threads.* Semaphores, thread handles, descriptors, blocks of
  audio and the connection behind a descriptor are made by one thread and given
  back by another, or by the same one on a path that a failure takes.

What makes each component correct, in words:

* commands: no wake-up is lost, a command returns, and what it reports is about
  the session it started;
* command line: lookups and listings see the table of commands as it is at one
  instant;
* semaphore: posts are conserved; a timeout comes, and it comes early by no more than
  the clock was set forward under it;
* initialisation: the agent runs only with complete information and after
  `register_platform` was called, and gets past its wait for the network;
* recording: one file, in order, from a descriptor that is open;
* text to speech: each block is destroyed once, the file is one conversion's
  data, a conversion ends;
* sockets and threads: every thread reads its own connection, in order and up to
  its end; a call fails only where the header lets it; what the system gave is given back once; whoever waits for a thread to
  start is told once;
* iniparser and dictionary: the map the file describes, or an error.

`PROJECT.json` lists the hazards line by line with the properties that cover them. A
hazard whose harm the code does and no property forbids has none, or a note that says
how far the property goes.

## 2. Modules

| Module | Models | Lines of the code |
|---|---|---|
| `AsrTest` | both commands, both callbacks, the semaphore they share, the library's sessions | `asr_test.c`, `platform.c` 193-214, `record.c` 91-99 |
| `CommandTable` | abstract: an append-only table, a lookup as one step, and when the process may die | |
| `Cli` | `main`'s registrations against the reader's walks over the list | `uni_cli.c`, `main.c` 40-42 |
| `SemContract` | abstract: the counter the header asks of a semaphore, without clocks | `uni_platform.h` |
| `TimedSem` | waiting, timed waiting, posting, and the clocks | `platform.c` 139-287 |
| `KerosInit` | `iot_init` step by step, repeated, and the agent's thread that polls the network flag | `keros_init.c`, `platform.c` 409-439, 495-525 |
| `RecorderContract` | abstract: a recording source, as the header has it, that plays a file | `uni_platform.h` |
| `Record` | the recording thread against `record_set_filename`, shown to implement it | `record.c` |
| `KeyValue` | abstract: a map in which memory may not suffice | |
| `Dictionary` | the arrays behind it, shown to implement `KeyValue` | `dictionary.c` |
| `IniLoad` | reading a file line by line into a `KeyValue` map | `iniparser.c` 633-820 |
| `Tts` | `txt2tts`, the thread of each conversion, the queue, the one file | `txt2tts.c`, `keros_queue.h` |
| `TcpContract` | abstract: a connection as a stream, and when a call on it may fail, as the header has it | `uni_platform.h` |
| `Sockets` | connect, send, recv and destroy on the descriptors of the process, with the peer and the kernel | `uni_socket.c` |
| `Session` | `Sockets` with semaphore and thread creation, detachment and destruction, composed as one conversion of libkeros uses them | `platform.c` 22-232 |
| `AsrTestProofs`, `CliProofs`, `TimedSemProofs`, `DictionaryProofs`, `ConfigProofs`, `RecordProofs`, `TtsProofs`, `SessionProofs` | theorems | |

`MC<Module>` gives the constants for TLC. Definitions under a comment that says
*Mutant* are faulty variants; no specification uses them. They say which
mistake in the code each property would catch.

`IniLoad` instantiates `KeyValue`, the specification `Dictionary` implements, so
the two together cover loading down to the arrays. `KerosInit` takes from
loading only what it returns: nothing, a whole dictionary, or the part that was
built when memory ran out.

### Correspondence of state and actions

**AsrTest.** `event_sem`, `wave`, `filename` are the variables of the code;
`pc`, `cur`, `field`, `ret`, `report` are the command line thread between two
accesses to shared state. Each comparison of `wave_test_cli` is a step, since
the block it reads may be freed between two of them. `wave_handle_cb` is two
steps, the store and the post. `asr`, `analysis`, `phase`, `wrong`, `freed` are
the library. `uni_sem_init` succeeds: without a semaphore, which nobody looks at, the
first command would end in `uni_sem_wait`.

**Cli.** The n-th registration allocates node n. Registration is split where it
writes what the reader can see: the members of the node (`Fill`), each pointer
of the walk to the end (`Walk`), the link (`LinkFirst`, `LinkLast`). The reader
is split at each pointer it reads. `next` is never initialised by
`uni_cli_cmd_register`, nor is `descript` if no description is given: both are
NULL or `WILD`, and following `WILD` ends the process, and so does a `malloc` that
gives nothing (`FillCrash`). Every registration passes a handler, so the test of
`cmd->handle` always holds; the description printed after a result of -1 is there,
since the one command without, `help`, returns 0. `CommandTable` lets the process die
only while commands are being registered, of a word that names none, or in `help`: a
word that names another command is sure to reach it once all are registered, whatever
the pointers nobody set may hold. It repeats the last line after the end of the input as
the code does: nothing in the repository says what should happen there.

**TimedSem.** Times are integers in what the code counts in, its nanoseconds; a second
has `Second` of them and a millisecond `Millisecond`, with which `Units` multiplies the
timeout. `Deadline` is the arithmetic of `uni_sem_wait_timeout`, in 64 bits, which no
timeout of an `int` overflows. A negative timeout is `uni_sem_wait`. `offset` is the
difference of the two clocks, changed by setting the time of day, though not to before
the first time there is. `dial` remembers the offset when a call began, so that
`TimeoutNotEarly` can bound how early a wait ends by how far the clock was set.
The condition variable that `uni_sem_post` also signals is left out here, since no
function of this build waits for it; `Session` has it for the memory it is in.

**KerosInit.** `pc` is where `keros_init` is; `info` is the static pointer,
`content` what each block was filled from. A file is abstracted to what it has:
unreadable, no appkey, another member missing (the NULL that
`iniparser_getstring` returns is then copied from, and the process dies), a
member empty, complete. Every member fits its field: the `strcpy` looks at no length.
`registered` says that `register_platform` was called. It never sets `uni_usleep` and
`uni_mac_get` of the structure it registers, which lies uninitialised on its stack
(`platform.c` 498-525).

**Record.** A descriptor of `open` carries which file it was opened on and how
many pieces were read: this is the kernel's open file. `record_set_filename` is
two steps, clearing and copying; a name seen between them, or half copied, opens
nothing. The memory for a block is there, which the code does not look at, and `read`
fails at the end of the file only. The header's source waits for `timeout_ms` and gives
NULL when nothing came; `record_data_get` ignores `timeout_ms`, and the silence it gives
after the end of the file is its own. `RecorderContract` has that silence, so that it
shows that nothing else follows, not that silence should.

**Dictionary.** One action for each outcome of an operation. `Hash` is any
function, so keys may collide. A position is empty if its key is NULL; after a
failed copy of a key the value and hash lie at an empty position, and the model
keeps them. Growing and copies may fail. The three arrays that `dictionary_new`
allocates without a look at the result are always given: a NULL there would end the
process at the next operation.

**IniLoad.** A physical line is a part (section, `[]`, assignment, text, comment,
blank) and whether a backslash ends it. `iniparser_line` works on the sequence of
parts that were joined: a comment swallows what is joined to it, text before an
assignment becomes part of the key, what follows it part of the value. `[]`
matches nothing in the `sscanf` of line 655 and leaves the section before, which
`strlwc` then cuts to one character less than the line has: `Cut(s, n)` is the name
`s` after that, in a line of `n` parts, which stand for its characters. What the file
means (`Meant`) has that cut name, which is what the code makes of such a line, and has
no continued line that the end of the file leaves unfinished: the code drops both it and
a last line of one character without a newline (`Finish`). What is checked is that
nothing else gets lost or mixed up by them. A line that `xstrdup` cannot copy is taken for an
empty one. The specification's names begin with `Load`, since `ConfigProofs` extends
this module and `KerosInit` together.

**Tts.** `pc` is where `handle_tts_data` is, one value for each thread, since
nothing keeps a second `txt2tts` from starting while the first is at work.
A queue is the number of blocks put in and taken out; block `Data[c] + 1` is the
one of type FINISH. A get that finds nothing within its 2000 ms and asks again
changes nothing and is no action. `Store` is a write at an offset, with a hole if
another conversion has truncated the file meanwhile; writes are whole, and the block
FINISH, which the code writes too, has no data. `FileIsStream` has two parts: the file is
the last conversion's as long as no two had it open at once, and in any case what is in
it lies where its own conversion has it (`InPlace`). `uni_txt2tts_start` gives every
handle a queue, and `uni_destroy_asr_result` touches none of this state. The end flag is never set
by the code, so it is no variable.

**Sockets.** `uni_tcp_connect` is two steps, `socket` and `connect`, with `fd`
its local variable; `uni_tcp_recv` is `select` and `recv`. `fds` is the table of
descriptors, from which the kernel gives out the least that is free. A connection
is the number of pieces that arrived and were read, and its `peer`: ended,
reset, or reset and past reporting, where a send raises SIGPIPE. The options
SO_RCVTIMEO and SO_SNDTIMEO only bound how long a call blocks. `result` is what the last
call on a connection gave and with which timeout, for `TcpContract`, which has the
header's clauses: a call given a time may fail; one given -1 waits, and fails only on a
connection that has ended. The code breaks the second: `uni_tcp_recv` hands `select` a
negative time, which it refuses, and returns -1 at once; `uni_tcp_send` ignores its
timeout and gives up after the SO_SNDTIMEO of the connection. With a negative timeout in
`Timeouts` TLC finds `ContractSpec` violated in a few steps, by either call, so the
contract is checked, and proved, for timeouts that are times. A destroyed connection is forgotten, its number not reused,
so that the descriptor alone could confuse two connections.

**Session.** `start` is the caller and `run` the thread, each at one call of the
platform layer. `uni_thread_create` is split where the new thread may run before
the handle is stored, `uni_sem_post` between `sem_post` and
`pthread_cond_signal`. Memory is `"live"` or `"freed"`; a handle that was never
stored, or whose thread was never made, stays live, which no property forbids:
`ThreadReleased` says that a stored handle leads to memory not given back and that every
thread that ended is detached. Where the condition cannot be made,
`uni_sem_init` destroys its `sem_t` twice (`platform.c` 166-176), which does nothing the
second time and is one action here. Every step of a session is a step of `Sockets` or leaves its
variables alone, so what holds of `Sockets` holds of it.

### What is assumed of libkeros

libkeros has no source here. Its headers, its symbols and the code of its
objects give the following, and no more is used:

* a recognition session reports at least once and ends within its timeout, may
  report several times, and only one runs at a time; starting may fail;
* the wave analysis thread calls `wave_handle_cb` once and frees the block as
  soon as the callback has returned; a second start while one runs is refused;
* `uni_iot_agent_init` refuses a block with an empty member, copies it, starts a
  thread, and returns 0 without effect once the agent has a server; as long as it
  has none, every call starts another thread. The thread asks
  `uni_wifi_connect_get`, waits in `uni_wait_wifi_connect` if that gives 0, then
  looks for a server, and comes back to the question when it finds none;
* the recording thread calls `record_start` once, `record_data_get` in a loop,
  and `record_stop` only if the start gave a handle; recordings do not overlap;
* `uni_txt2tts_start` makes a semaphore, starts `uni_tts_recv_thread` and waits for
  it; it destroys the semaphore if it comes back without a connection. The thread
  detaches itself, tries to connect a fixed number of times, sends its request,
  posts, receives until the last block or a stop, destroys its connection and
  then its own handle. It puts blocks into the queue in order and waits while
  the queue is full; only the last block is of type FINISH;
* no part of it sets the handling of SIGPIPE: it refers to no function for signals.

Of the kernel (Linux): data that arrived before a reset is given first; a reset is
reported by one call, after which sends raise SIGPIPE; a reset after the end of the
stream is not reported, and the next send raises it at once. `SendKilled` is that
step: nothing returns where the header says that a failed send returns -1. `TcpContract`
speaks of what calls return, so it does not see this; the hazard is listed without a
property.

In this version nothing calls `uni_record_opt_register`, so that of
`record.c` only `record_set_filename` runs, and nothing calls `txt2tts`. `Record` and
`Tts` model what that code does once it is called.

## 3. Runs

| Run | Constants | Shows |
|---|---|---|
| `asr_test` | 3 commands, 2 callbacks per session, starts may fail | `NoLostWakeup`, `NoStaleWakeup`, `WaveOfThisCommand`, `NameStable`, and that a command whose session started returns |
| `cli` | the program's four registrations, uninitialised pointers NULL or wild, `malloc` may fail | `ListIntact`, `HelpComplete`, `WalkEnds`, and the refinement of `CommandTable` |
| `timed_sem` | 2 threads, timeouts of -1, 0, 1, 2 milliseconds, 2 to a second, of 2 units each, 2 posts, the clock set once, by -1 or +3 units | the counter of `SemContract`, `TimeoutNotEarly`: no timeout is earlier than the clock was set forward, every timed wait ends |
| `dict` | 3 keys, two with one hash, arrays of 2 growing to 4, growth and copies may fail | `InsertEnds` and the refinement of `KeyValue` |
| `ini_load` | every file of up to 4 lines over 8 kinds of line, continued or not, a buffer of 2 parts, `dictionary_new`, the copy of a line, growth and copies of entries may fail | the map is what the file says, errors refuse it, nothing stays open |
| `keros_init` | 3 calls, 6 files of 5 kinds | `AgentConfigured`: the agent's information is complete and `register_platform` was called, whatever failed before; its wait for the network ends |
| `record` | 2 files and a name that does not open, 3 names set, 3 recordings of 3 blocks | `ReadsOpenFile`, `FdClosed` and the refinement of `RecorderContract` |
| `tts` | 2 conversions of 3 blocks and 1, queues of 2 places, streams cut, a file that does not open | `BlocksReleased`, `FileIsStream`, and that a conversion ends |
| `session` | 2 sessions of 2 attempts on 2 connections of 2 pieces, every call may fail, a timeout of 1000; the sessions are symmetric | `DescriptorsOwned`, `OwnStream`, `ThreadReleased`, `ToldOnce`, and the refinement of `TcpContract` for calls given a time |
| `wave_success` | as `asr_test` | a *success* report for an analysis that recognised something else |
| `asr_failure` | as `asr_test` | a refused session leaves the command line blocked |
| `post_after_free` | as `session`, 1 session | a post that signals a condition in memory the woken caller has freed |

The last three are expected to find a violation: each states what a header, a
comment or a message of the program says, and the trace shows the code doing
otherwise. `PROJECT.json` quotes both.

**Why the bounds are enough.** Three commands are the least in which a leftover
post passes through a refused command into a third one. Four registrations are
all there are. Timeouts reach within the second, to its end and past it, from
every phase of it or, the longest, from most; the clock is set forward by less than the
longest timeout and by more than the shorter one, and back; two waiters are what it takes to race for one post. Three
keys in two positions make growth, collisions, holes and a wrapped search meet.
Four lines hold a section, a header without a name and an assignment under each,
or an assignment spread over three and a line after it. Two conversions, of different
lengths, are what it takes for one to truncate the other's file and for a short
file to show what is left of a long one; three blocks in two places fill a queue.
Two connections, with a second attempt after a failed one, let a descriptor that one
session gives back become the other's between two of the other's steps. Three calls of `iot_init` let one that fails,
one that is ignored and one that starts a second thread follow each other.
Every property of a passing run is violated by at least one mutant under the
same bounds.

**Fairness.** `AsrTest`: every thread that can run does, a session reports at
least once (its timeout) and ends; nobody has to type. `Cli`: both threads run; a
command may block, so its return is not fair. `TimedSem`: time passes, and
a thread whose wait is over wakes up. `KerosInit`: `keros_init` does not block, and
the poll of the flag, once a second, sees it. The flag is a plain `int`, polled
across a call of `sleep`, which no compiler can hoist the read over. `Tts`: the thread of a
conversion runs and the library puts the next block when there is a place, but a
stream may be cut. `Session` needs none: that the caller is told is stated as the
count its thread has left at each place, and holds without fairness. The other
modules state no liveness. The build does not optimise (the Makefile uses
`$(CFLAG)`, which is never set), so the order of stores in the code is
taken as it stands.

**Deadlock** is not checked in `asr_test`, `cli`, `timed_sem`, `keros_init`,
`record`, `ini_load`, `tts`, `session` and the three runs that find violations,
because each stops at its bounds, `Cli`, `KerosInit`, `Tts` and `Session` also when
the process has died.
It is checked in `dict`.

## 4. Theorems

`AsrTestProofs` proves, for any number of commands and callbacks and whether or
not the library refuses sessions, `TypeOK`, `NoLostWakeup`, `NoStaleWakeup`,
`WaveOfThisCommand` and `NameStable`. None of the last four is inductive. The
inductive invariant `IInv` adds to the types

* `Sessions`: which session each library thread serves, that a session that
  has not posted is still served, and that the wave pointer is set before the post;
* `Thread`: that the command at work is the last one issued and not started yet
  before its start;
* `Pending`: a waiting command whose session started has a post outstanding or
  has been posted nothing yet; this is why no wake-up is lost;
* `Fresh`: as long as no session has posted twice, the count is what the
  present session posted while its command waits, and 0 otherwise; the other
  three follow from it.

`CliProofs` proves, for any number of registrations and whatever uninitialised
pointers hold, `TypeOK`, `ListIntact`, `HelpComplete`, and that `Cli` implements
`CommandTable` (`TableSpec`). The invariant adds `Making` (main's walk stays among
the commands registered; the node it links is filled and ends the list or goes
wild), `Searching` (no command before the cursor has the name looked up) and
`Listing` (the commands before the one help is at are printed). With `Searching`
the command found is the first of its name, and a search that ends has compared
all there are at that instant; these are the steps of `CommandTable`. That the process
dies only where `CommandTable` lets it is in the same parts: by `Searching` a search that
went wild has compared every command registered, and none had the name; by `Listing`
only `help` lists.
`WalkComesNearer` gives the measure behind `WalkEnds`, the nodes that can still be ahead,
those not yet linked counted: each step of a walk lowers it, and an append does not
raise it.

`TimedSemProofs` proves, for any threads, timeouts, clock jumps and units per
second, `TypeOK`, `TokensConserved` (posts are the count and what waits took),
`TimeoutNotEarly`, and that `TimedSem` implements `SemContract` (`SemSpec`). `DeadlineExact` says
that the pair of seconds and fraction is the present time plus the timeout;
`PassedIsPast` turns the comparison of pairs back into one of times;
the inductive `Deadlines` says that a sleeper's deadline is the time of day at the start
of its call plus its timeout, whatever was done to the clock since. `%` and `\div` are eliminated
by the lemmas `Division` and `DivMod`, since the arithmetic is not linear.

`DictionaryProofs` proves, for any keys, values, hash function and sizes and
whichever allocations fail, `TypeOK`, `InsertEnds`, `KeysUnique`, and that
`Dictionary` implements `KeyValue` (`MapSpec`). The invariant adds to the types
and to `KeysUnique`

* `Hashed`: the hash stored with a key is its hash, so a search finds every key
  stored, and a key that is not found is not there;
* `Counted`: the number of keys stored is at most `n`, and `n` at most the size.
  It is not equal to `n`, since a key whose copy failed is counted.

`Least` and `FirstIn` give the first position of a set, `ReadOff` reads the map
off arrays without double keys, `AddIs` is what an insertion leaves in the
arrays. `SetsMap` then turns replacing and adding into the `SetTo` of `KeyValue`, and
one lemma for each action maps its steps.

`ConfigProofs` proves `IniLoad` and `KerosInit` correct. Of `IniLoad`, for any parts of a
line, any width of the buffer and number of lines, and whichever allocations fail:
`LoadTypeOK`, `LoadedIsMeant`, `ErrorsRefuse`, `PrefixReturned`, `NothingLeft`, and
`LoadCorrect`, that with memory enough a dictionary which is returned is exactly what the
file says, and the file has no wrong or overlong line. What a file says (`Meant`) is
defined without recursion, by the last line that sets each entry, so that no
induction over data is needed; the argument has two halves:

* about the definitions alone, what one more line does to what a file says:
  `WholeNext` (the physical lines joined to it), `SectionNext` (the section in force)
  and `MeantNext` (one entry replaced or added), which rest on `MaxIs` and `MinAdd` for
  the last line of a kind and on `NthAdd` for the parts in order;
* about the code, `LineRead`, `EntrySet` and `NothingSet`, what each kind of line makes of
  that, and one lemma for each action.

The invariant `LoadInv` adds to the properties `InStep` (while lines are read the
buffer holds the unfinished line, and section and dictionary are what the lines so
far say), without which no step could be compared with the file; `Counted` (the
error count is 0 exactly if no line was wrong), which decides what is returned;
`Refused` (the line that finds no memory sets nothing), which makes the part
returned a prefix; `Fitting` (nothing was read past an overlong line); `Unread`.
After `xstrdup` has failed on a line, `lost`, only what is refused and what is left
open is claimed.

Of `KerosInit`, for any files and number of calls: `TypeOK`,
`AgentConfigured`, `NetAfterAgent` and `InfoIsAgents`. The invariant adds `Progress`, what
`keros_init` has done by the time it is at each place (the block is allocated,
then filled, then `register_platform` called, then an agent started), and `Agent`,
what holds of the agent's threads for good. `WaitIsServed` is what safety can say of
`WaitEnds`: while a thread polls the flag in vain, `keros_init` is at the call that
raises it, since from the start of the first thread there is no other step.

`RecordProofs` proves, for any files, names and number of recordings, `TypeOK`,
`FdClosed`, `ReadsOpenFile`, `Playback` (what was recorded is one file in order, then
silence), and that `Record` implements `RecorderContract` (`RecorderSpec`). The invariant adds `Idle` (no
descriptor between recordings), `Fresh`, and `Position`: the blocks recorded are
the file's first pieces up to where the descriptor stands, then silence.

`TtsProofs` proves, for any conversions, lengths and size of the queue, `TypeOK`,
`BlocksReleased` and `FileIsStream`. The invariant adds `Standing`, which ties the
blocks taken, the block in hand and the offset together at each step of
`handle_tts_data`, `Fresh` (a conversion gets one thread), and `OneWriter` (without
an overlap only the last conversion has the file open). `InPlace` needs only that a
descriptor's offset is what its conversion has written. `StoreAtEnd` says that a
write at the end appends. Two theorems are behind `ConversionEnds`:
`ConversionShortens`, each step of a conversion's two threads leaves it fewer steps
and no other conversion adds any; and `QueueMoves`, as long as the stream is not cut
one of the two can go on, since the thread asks only while a block is still to come,
and an empty queue has a place for it.

`SessionProofs` proves, for any threads, timeouts, numbers of connections, pieces and
attempts, `TypeOK`, `DescriptorsOwned`, `OwnStream`, `ThreadReleased` and `ToldOnce`,
and, under the hypothesis `Timed` that no timeout is negative, that both `Sockets`,
whoever calls it, and `Session` implement `TcpContract` (`ContractSpec`). Without the
hypothesis it is false, as section 2 says. The invariant of the sockets adds `Stages` (what a thread has
within each call), `Distinct` (no two descriptors lead to one connection, none to a
future one) and `Peers` (a connection nobody has is as new); together they give
`OwnConnection`, that whoever has a socket is alone on its connection. `SessionSockets`
maps each step of a session to one of the sockets. The session's own invariant adds
`Pairs`, how far caller and thread can be from each other.

The constants' assumptions are those of the modules: bounds are naturals,
`Second` and `Millisecond` are positive, timeouts and jumps are integers, `Hash` gives naturals, the
least size of a dictionary is positive, `NULL` is no key, a descriptor of a file
is not 0, a line's buffer is not empty, and cutting a name twice is cutting it to the
smaller length (`CutAssumption`).

Proved and not run, since a refinement that is run says them already or the run
would say no more: `TokensConserved`, `Playback`, `KeysUnique`, `NetAfterAgent`,
`InfoIsAgents`, `LoadCorrect`, and the four that are behind a liveness property.

Every invariant and every refinement that a run checks is a theorem. Only
model-checked is liveness, which the prover does not do under fairness:
`CommandReturns`, `WalkEnds`, `TimedWaitEnds`, `WaitEnds` and `ConversionEnds`. Of
`WalkEnds`, `WaitEnds` and `ConversionEnds` the measure or the invariant is proved, and what is
left to TLC is that a fair thread takes its next step. Of `CommandReturns`
`NoLostWakeup` is that part. `TimedWaitEnds` rests on time passing alone.

## 5. Not modelled

* libkeros itself, and what the sound or the network carry;
* wording, echo and formatting of the command line, the colours and columns of
  `help`; the conversion of an ini value to a number;
* `dictionary_dump`, `iniparser_dump*` and the getters `keros_init` does not use;
* mutexes, sleeping, the clock functions, memory: each is one call of pthread or libc,
  and what is locked or timed is in libkeros. That `uni_msleep` wraps after 71 minutes
  (`platform.c` 365) is listed as a hazard without a property;
* failures that end the process or need more than this state: of `uni_sem_init` in
  `asr_test_init`, of the arrays of `dictionary_new`, of the reader's own allocations
  (`uni_cli.c` 68-133, and `getline`), of the memory of a recorded block; a `read` that
  fails before the end of the file; a write that is short or fails; a member of the ini
  file longer than its field;
* the two functions `register_platform` leaves unset, which only libkeros could call;
* the resolver, whose result is in a static buffer of `gethostbyname`, and the byte
  orders;
* the stereo layout of a recorded block and what a conversion converts;
* `test_report.c`, which appends a line and which nothing calls.

## 6. Plan

Done, in this order: `AsrTest` with its proofs (the program's purpose and its
worst concurrency), `Cli`, `TimedSem` with its proofs, `Dictionary` with its
proofs and refinement, `KerosInit`, `Record` with its proofs, `IniLoad`, `Tts` with its proofs, `Sockets` and `Session` with their proofs, the
contracts of the header with their refinements, `CliProofs`, `ConfigProofs` with
`IniLoad`, the measures behind liveness.

Next, models:

1. the typed getters of iniparser, from the string to the number or the truth value;
2. the resolver, with two threads that share its static buffer;
3. the thread that sends while another receives on the same connection.

Next, proofs: of the models above, as they come. What is proved of the present ones
leaves liveness only.
