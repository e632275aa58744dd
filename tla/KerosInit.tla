----------------------------- MODULE KerosInit -----------------------------
(***************************************************************************)
(* The command iot_init (src/module/keros_init.c): it reads a file, fills  *)
(* a fresh information block, registers the platform functions, gives the  *)
(* block to the IoT agent of libkeros and tells the platform layer that    *)
(* there is a network.  The agent's thread meanwhile polls that flag       *)
(* through uni_wifi_connect_get and uni_wait_wifi_connect                  *)
(* (src/common/platform.c).  The command may be given again and again,     *)
(* with other files, whatever became of the earlier ones.                  *)
(*                                                                         *)
(* Of the agent, which is external, the model has what lib/libkeros.a      *)
(* does: it refuses a block with an empty member, copies the block, starts *)
(* a thread, and ignores a second initialisation once it has a server.     *)
(***************************************************************************)
EXTENDS Naturals

CONSTANTS
    Files,      \* arguments of the command
    Kind,       \* Kind[f]: what is in the file
    NoFile,
    MaxInits    \* bound: how often the command is given

\* Cannot be opened or parsed; no appkey; another member missing; a member
\* empty; everything there.
Kinds == {"unreadable", "nokey", "nomember", "emptymember", "complete"}

ASSUME KindAssumption  == Kind \in [Files -> Kinds]
ASSUME FileAssumption  == NoFile \notin Files
ASSUME InitsAssumption == MaxInits \in Nat

Blocks == 1 .. MaxInits

VARIABLES
    pc,             \* keros_init: "prompt", "load", "register",
                    \* "agent", "wifi", or "dead"
    file,           \* its argument
    inits,          \* times it was called
    info,           \* the static info: a block, or 0 for NULL
    content,        \* per block: the file it was filled from; NoFile: blank
    ret,            \* what keros_init returned last: "none", "ok" or "failed"
    registered,     \* register_platform was called
    g_net_status,
    up,             \* agent: it has a server
    agentInfo,      \* agent: its copy of the block
    thread,         \* agent: per thread "none", "check", "wait", "ask", "run"
    ignored         \* history: the agent was up when it was last initialised

cliVars   == <<pc, file, inits, info, content, ret, registered, ignored>>
agentVars == <<up, agentInfo, thread>>
vars      == <<cliVars, g_net_status, agentVars>>

Init ==
    /\ pc = "prompt" /\ file = NoFile /\ inits = 0
    /\ info = 0 /\ content = [b \in Blocks |-> NoFile]
    /\ ret = "none" /\ registered = FALSE
    /\ g_net_status = 0
    /\ up = FALSE /\ agentInfo = NoFile
    /\ thread = [b \in Blocks |-> "none"]
    /\ ignored = FALSE

-----------------------------------------------------------------------------
\* The command line calls keros_init.  The block of the last call is dropped
\* before anything is known of the new file.
iot_init_cli(f) ==
    /\ pc = "prompt" /\ inits < MaxInits
    /\ file' = f /\ inits' = inits + 1
    /\ info' = inits'
    /\ pc' = "load"
    /\ UNCHANGED <<content, ret, registered, ignored, g_net_status, agentVars>>

Returns(r) == pc' = "prompt" /\ ret' = r

\* There is no memory for the block.
NoBlock(f) ==
    /\ pc = "prompt" /\ inits < MaxInits
    /\ file' = f /\ inits' = inits + 1
    /\ info' = 0
    /\ Returns("failed")
    /\ UNCHANGED <<content, registered, ignored, g_net_status, agentVars>>

\* iniparser_load fails, or there is no appkey.
LoadFails ==
    /\ pc = "load"
    /\ Kind[file] \in {"unreadable", "nokey"}
    /\ Returns("failed")
    /\ UNCHANGED <<file, inits, info, content, registered, ignored, g_net_status,
                   agentVars>>

\* Out of memory iniparser_load returns the part of the dictionary it has
\* built: what is missing there is missing in the file as far as keros_init
\* can tell.
LoadCutShort ==
    /\ pc = "load"
    /\ Kind[file] \in {"nomember", "emptymember", "complete"}
    /\ \/ Returns("failed")
       \/ pc' = "dead" /\ UNCHANGED ret
    /\ UNCHANGED <<file, inits, info, content, registered, ignored, g_net_status,
                   agentVars>>

\* strcpy of the NULL that iniparser_getstring returns for a missing member.
FillCrash ==
    /\ pc = "load"
    /\ Kind[file] = "nomember"
    /\ pc' = "dead"
    /\ UNCHANGED <<file, inits, info, content, ret, registered, ignored,
                   g_net_status, agentVars>>

\* Every member fits its field: the strcpy of keros_init look at no length.
Fill ==
    /\ pc = "load"
    /\ Kind[file] \in {"emptymember", "complete"}
    /\ content' = [content EXCEPT ![info] = file]
    /\ pc' = "register"
    /\ UNCHANGED <<file, inits, info, ret, registered, ignored, g_net_status,
                   agentVars>>

\* Mutant: the agent is initialised without the platform functions.
RegisterLater ==
    /\ pc = "register"
    /\ pc' = "agent"
    /\ UNCHANGED <<file, inits, info, content, ret, registered, ignored,
                   g_net_status, agentVars>>

\* uni_socket_register, register_platform.  The latter passes a structure of
\* the stack of which it does not set uni_usleep and uni_mac_get.
Register ==
    /\ pc = "register"
    /\ registered' = TRUE
    /\ pc' = "agent"
    /\ UNCHANGED <<file, inits, info, content, ret, ignored, g_net_status, agentVars>>

\* uni_iot_agent_init of an agent that has a server: it returns 0 and keeps
\* the information it has.
AgentIgnores ==
    /\ pc = "agent"
    /\ up
    /\ ignored' = TRUE
    /\ pc' = "wifi"
    /\ UNCHANGED <<file, inits, info, content, ret, registered, g_net_status,
                   agentVars>>

\* uni_iot_agent_init fails: a member is empty or there is no queue; or it has
\* copied the block and there is no thread.
AgentRefuses ==
    /\ pc = "agent"
    /\ ~up
    /\ ignored' = FALSE
    /\ \/ UNCHANGED agentInfo
       \/ /\ Kind[content[info]] = "complete"
          /\ agentInfo' = content[info]
    /\ Returns("failed")
    /\ UNCHANGED <<file, inits, info, content, registered, g_net_status, up, thread>>

AgentStarts ==
    /\ pc = "agent"
    /\ ~up
    /\ Kind[content[info]] = "complete"
    /\ ignored' = FALSE
    /\ agentInfo' = content[info]
    /\ thread' = [thread EXCEPT ![info] = "check"]
    /\ pc' = "wifi"
    /\ UNCHANGED <<file, inits, info, content, ret, registered, g_net_status, up>>

\* Mutant: what the message of set_wifi_connect says, 0 for connected.
set_wifi_zero ==
    /\ pc = "wifi"
    /\ g_net_status' = 0
    /\ Returns("ok")
    /\ UNCHANGED <<file, inits, info, content, registered, ignored, agentVars>>

\* Mutant: connections are counted.
set_wifi_count ==
    /\ pc = "wifi"
    /\ g_net_status' = g_net_status + 1
    /\ Returns("ok")
    /\ UNCHANGED <<file, inits, info, content, registered, ignored, agentVars>>

set_wifi_connect ==
    /\ pc = "wifi"
    /\ g_net_status' = 1
    /\ Returns("ok")
    /\ UNCHANGED <<file, inits, info, content, registered, ignored, agentVars>>

keros_init ==
    LoadFails \/ LoadCutShort \/ FillCrash \/ Fill \/ Register \/ AgentIgnores
        \/ AgentRefuses \/ AgentStarts \/ set_wifi_connect

-----------------------------------------------------------------------------
(* The agent's thread; a crash of the command line ends it, too. *)

Goto(b, place) == thread' = [thread EXCEPT ![b] = place]

uni_wifi_connect_get(b) ==
    /\ pc # "dead" /\ thread[b] = "check"
    /\ Goto(b, IF g_net_status = 0 THEN "wait" ELSE "ask")
    /\ UNCHANGED <<cliVars, g_net_status, up, agentInfo>>

\* The loop sleeps a second between two looks at the flag.
uni_wait_wifi_connect(b) ==
    /\ pc # "dead" /\ thread[b] = "wait"
    /\ g_net_status = 1
    /\ Goto(b, "ask")
    /\ UNCHANGED <<cliVars, g_net_status, up, agentInfo>>

\* The server is asked for, and found or not.
Ask(b) ==
    /\ pc # "dead" /\ thread[b] = "ask"
    /\ \/ up' = TRUE /\ Goto(b, "run")
       \/ UNCHANGED up /\ Goto(b, "check")
    /\ UNCHANGED <<cliVars, g_net_status, agentInfo>>

\* The connection is lost for good and the agent starts over.
Lose(b) ==
    /\ pc # "dead" /\ thread[b] = "run"
    /\ up' = FALSE /\ Goto(b, "check")
    /\ UNCHANGED <<cliVars, g_net_status, agentInfo>>

AgentStep(b) ==
    uni_wifi_connect_get(b) \/ uni_wait_wifi_connect(b) \/ Ask(b) \/ Lose(b)

Next ==
    \/ \E f \in Files : iot_init_cli(f) \/ NoBlock(f)
    \/ keros_init
    \/ \E b \in Blocks : AgentStep(b)

Spec == Init /\ [][Next]_vars

\* keros_init does not block, and neither does a look at the flag.
Fairness ==
    /\ WF_vars(keros_init)
    /\ \A b \in Blocks : WF_vars(uni_wait_wifi_connect(b))

FairSpec == Spec /\ Fairness

-----------------------------------------------------------------------------
\* The types of all variables.
TypeOK ==
    /\ pc \in {"prompt", "load", "register", "agent", "wifi", "dead"}
    /\ file \in Files \cup {NoFile}
    /\ inits \in 0 .. MaxInits
    /\ info \in 0 .. MaxInits
    /\ content \in [Blocks -> Files \cup {NoFile}]
    /\ ret \in {"none", "ok", "failed"}
    /\ registered \in BOOLEAN
    /\ g_net_status \in {0, 1}
    /\ up \in BOOLEAN
    /\ agentInfo \in Files \cup {NoFile}
    /\ thread \in [Blocks -> {"none", "check", "wait", "ask", "run"}]
    /\ ignored \in BOOLEAN

\* A thread of the agent runs only after register_platform was called and with
\* the information of a complete file, whatever files were tried before
\* and since.
AgentConfigured ==
    \A b \in Blocks : thread[b] # "none" =>
        registered /\ agentInfo \in Files /\ Kind[agentInfo] = "complete"

\* The flag says connected only once an agent was started: no failed call of
\* keros_init raises it.
NetAfterAgent == g_net_status = 1 => \E b \in Blocks : thread[b] # "none"

\* When keros_init has returned 0, uni_get_iot_info gives the information the
\* agent works with, unless the agent was up already and ignored the call.
InfoIsAgents ==
    pc = "prompt" /\ ret = "ok" /\ ~ignored =>
        info # 0 /\ content[info] = agentInfo

\* A thread of the agent that waits for the network gets on: the call that
\* started it raises the flag.
WaitEnds ==
    \A b \in Blocks : thread[b] = "wait" ~> (thread[b] # "wait" \/ pc = "dead")
=============================================================================
