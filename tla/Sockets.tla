------------------------------ MODULE Sockets ------------------------------
(***************************************************************************)
(* The connections of the program (src/common/uni_socket.c) on the         *)
(* descriptors of its process, as the threads of libkeros use them: each   *)
(* thread connects, sends and receives on its own connection, and destroys *)
(* it.  A descriptor that is closed may be the next one to be given out.   *)
(*                                                                         *)
(* uni_tcp_connect and uni_tcp_recv are two steps each, with another       *)
(* thread's calls in between: socket and connect, select and recv.  What   *)
(* one recv can give at once is a piece.                                   *)
(***************************************************************************)
EXTENDS Integers, Sequences

CONSTANTS
    Users,      \* threads, each with at most one connection
    Timeouts,   \* timeout_ms of uni_tcp_recv and uni_tcp_send
    FirstFd,    \* the least descriptor that is free at the start
    MaxLinks,   \* bound: calls of socket()
    MaxPieces   \* bound: pieces the server sends on a connection

ASSUME TimeoutAssumption == Timeouts \subseteq Int
ASSUME FdAssumption      == FirstFd \in Nat \ {0}
ASSUME LimitsAssumption  == MaxLinks \in Nat /\ MaxPieces \in Nat

Links       == 1 .. MaxLinks
Piece       == Links \X (1 .. MaxPieces)
Descriptors == FirstFd .. FirstFd + MaxLinks
NoSocket    == -1
Outcomes    == {"none", "sent", "data", "end", "failed"}

VARIABLES
    alive,      \* the process has not been killed
    fds,        \* kernel, per descriptor: the connection; 0: closed
    made,       \* kernel: connections so far
    peer,       \* kernel, per connection: "none", "open", "shut", "reset", or
                \* "lost": reset after its end, or a call has failed of the reset
    sent,       \* kernel, per connection: pieces that arrived
    taken,      \* kernel, per connection: pieces read
    call,       \* per user: "idle", "connect" (in uni_tcp_connect, with a
                \* socket) or "recv" (in uni_tcp_recv, select succeeded)
    asked,      \* per user: timeout_ms of its last uni_tcp_recv that got to recv
    sock,       \* per user: what uni_tcp_connect returned, or NoSocket
    fd,         \* per user: uni_tcp_connect's sock; NoSocket outside of it
    received,   \* per user: what it received on its connection
    \* history, read by the properties only
    result,     \* per user: timeout_ms and outcome of the last call on its
                \* connection: "none", "sent", "data", "end" (0) or "failed"
    link        \* per user: the connection it made; 0: none

kernelVars == <<made, peer, sent, taken>>
userVars   == <<call, asked, sock, fd, received, result, link>>
socketVars == <<alive, fds, kernelVars, userVars>>

SocketInit ==
    /\ alive = TRUE
    /\ fds = [d \in Descriptors |-> 0]
    /\ made = 0
    /\ peer = [l \in Links |-> "none"]
    /\ sent = [l \in Links |-> 0]
    /\ taken = [l \in Links |-> 0]
    /\ call = [u \in Users |-> "idle"]
    /\ asked = [u \in Users |-> 0]
    /\ sock = [u \in Users |-> NoSocket]
    /\ fd = [u \in Users |-> NoSocket]
    /\ received = [u \in Users |-> <<>>]
    /\ result = [u \in Users |-> <<0, "none">>]
    /\ link = [u \in Users |-> 0]

Returns(u) == call' = [call EXCEPT ![u] = "idle"]

Answers(u, t, outcome) ==
    /\ Returns(u)
    /\ result' = [result EXCEPT ![u] = <<t, outcome>>]

\* A fault or a signal nobody handles ends the process.
Killed ==
    /\ alive /\ alive' = FALSE
    /\ UNCHANGED <<fds, kernelVars, userVars>>

-----------------------------------------------------------------------------
\* The kernel gives out the least descriptor that is free.
LeastFree(d) == fds[d] = 0 /\ \A e \in Descriptors : e < d => fds[e] # 0

Connecting(u) == alive /\ call[u] = "idle" /\ sock[u] = NoSocket

Socket(u) ==
    /\ Connecting(u)
    /\ made < MaxLinks
    /\ made' = made + 1
    /\ \E d \in Descriptors :
          /\ LeastFree(d)
          /\ fd' = [fd EXCEPT ![u] = d]
          /\ fds' = [fds EXCEPT ![d] = made']
    /\ call' = [call EXCEPT ![u] = "connect"]
    /\ UNCHANGED <<alive, peer, sent, taken, asked, sock, received, result, link>>

SocketFails(u) ==
    /\ Connecting(u)
    /\ Returns(u)
    /\ UNCHANGED <<alive, fds, kernelVars, asked, sock, fd, received, result, link>>

Connect(u) ==
    /\ alive /\ call[u] = "connect"
    /\ peer' = [peer EXCEPT ![fds[fd[u]]] = "open"]
    /\ sock' = [sock EXCEPT ![u] = fd[u]]
    /\ link' = [link EXCEPT ![u] = fds[fd[u]]]
    /\ fd' = [fd EXCEPT ![u] = NoSocket]
    /\ Returns(u)
    /\ UNCHANGED <<alive, fds, made, sent, taken, asked, received, result>>

\* Mutant: the socket stays open when connect fails.
ConnectLeaks(u) ==
    /\ alive /\ call[u] = "connect"
    /\ fd' = [fd EXCEPT ![u] = NoSocket]
    /\ Returns(u)
    /\ UNCHANGED <<alive, fds, kernelVars, asked, sock, received, result, link>>

ConnectFails(u) ==
    /\ alive /\ call[u] = "connect"
    /\ fds' = [fds EXCEPT ![fd[u]] = 0]
    /\ fd' = [fd EXCEPT ![u] = NoSocket]
    /\ Returns(u)
    /\ UNCHANGED <<alive, kernelVars, asked, sock, received, result, link>>

-----------------------------------------------------------------------------
Using(u) == alive /\ call[u] = "idle" /\ sock[u] # NoSocket
Here(u)  == fds[sock[u]]

\* Data, the end of the stream and an error all make a socket readable.
Readable(l) == l # 0 /\ (sent[l] > taken[l] \/ peer[l] # "open")

\* A negative timeout makes a negative timeval, which select refuses.
Select(u, t) ==
    /\ Using(u)
    /\ t >= 0 /\ Readable(Here(u))
    /\ call' = [call EXCEPT ![u] = "recv"]
    /\ asked' = [asked EXCEPT ![u] = t]
    /\ UNCHANGED <<alive, fds, kernelVars, sock, fd, received, result, link>>

\* select ran out of time or refused it.
SelectFails(u, t) ==
    /\ Using(u)
    /\ t < 0 \/ ~Readable(Here(u))
    /\ Answers(u, t, "failed")
    /\ UNCHANGED <<alive, fds, kernelVars, asked, sock, fd, received, link>>

\* Mutant: what is read last is dropped with the result 0.
RecvDropsLast(u) ==
    /\ alive /\ call[u] = "recv"
    /\ peer[Here(u)] \in {"shut", "lost"}
    /\ Answers(u, asked[u], "end")
    /\ UNCHANGED <<alive, fds, kernelVars, asked, sock, fd, received, link>>

\* Mutant: a byte is read to see whether there is data, and not kept.
RecvLoses(u) ==
    /\ alive /\ call[u] = "recv"
    /\ sent[Here(u)] > taken[Here(u)]
    /\ taken' = [taken EXCEPT ![Here(u)] = @ + 1]
    /\ Answers(u, asked[u], "data")
    /\ UNCHANGED <<alive, fds, made, peer, sent, asked, sock, fd, received, link>>

Recv(u) ==
    /\ alive /\ call[u] = "recv"
    /\ sent[Here(u)] > taken[Here(u)]
    /\ taken' = [taken EXCEPT ![Here(u)] = @ + 1]
    /\ received' = [received EXCEPT ![u] = Append(@, <<Here(u), taken'[Here(u)]>>)]
    /\ Answers(u, asked[u], "data")
    /\ UNCHANGED <<alive, fds, made, peer, sent, asked, sock, fd, link>>

RecvEnd(u) ==
    /\ alive /\ call[u] = "recv"
    /\ peer[Here(u)] \in {"shut", "lost"} /\ sent[Here(u)] = taken[Here(u)]
    /\ Answers(u, asked[u], "end")
    /\ UNCHANGED <<alive, fds, kernelVars, asked, sock, fd, received, link>>

\* The first call on a connection that was reset fails.
Reset(u, t) ==
    /\ peer[Here(u)] = "reset"
    /\ peer' = [peer EXCEPT ![Here(u)] = "lost"]
    /\ Answers(u, t, "failed")
    /\ UNCHANGED <<alive, fds, made, sent, taken, asked, sock, fd, received, link>>

\* What arrived before the reset is given first.
RecvFails(u) ==
    /\ alive /\ call[u] = "recv"
    /\ sent[Here(u)] = taken[Here(u)]
    /\ Reset(u, asked[u])

Sending(u, t, outcome) ==
    /\ Using(u)
    /\ peer[Here(u)] \in {"open", "shut"}
    /\ Answers(u, t, outcome)
    /\ UNCHANGED <<alive, fds, kernelVars, asked, sock, fd, received, link>>

\* timeout_ms is not used: a full window blocks for the SO_SNDTIMEO given to
\* uni_tcp_connect, then the call fails.
Send(u, t)      == Sending(u, t, "sent")
SendFails(u, t) == Sending(u, t, "failed") \/ (Using(u) /\ Reset(u, t))

\* Otherwise sending raises SIGPIPE, which nobody handles.
SendKilled(u) ==
    /\ Using(u)
    /\ peer[Here(u)] = "lost"
    /\ Killed

\* The kernel forgets the connection; its number is not used again.
uni_tcp_destroy(u) ==
    /\ Using(u)
    /\ fds' = [fds EXCEPT ![sock[u]] = 0]
    /\ peer' = [peer EXCEPT ![Here(u)] = "none"]
    /\ sent' = [sent EXCEPT ![Here(u)] = 0]
    /\ taken' = [taken EXCEPT ![Here(u)] = 0]
    /\ sock' = [sock EXCEPT ![u] = NoSocket]
    /\ received' = [received EXCEPT ![u] = <<>>]
    /\ link' = [link EXCEPT ![u] = 0]
    /\ Answers(u, 0, "none")
    /\ UNCHANGED <<alive, made, asked, fd>>

-----------------------------------------------------------------------------
Arrive(l) ==
    /\ peer[l] = "open" /\ sent[l] < MaxPieces
    /\ sent' = [sent EXCEPT ![l] = @ + 1]
    /\ UNCHANGED <<alive, fds, made, peer, taken, userVars>>

\* Whoever resets a stream that has ended leaves no error to be reported.
End(l) ==
    /\ \/ /\ peer[l] = "open"
          /\ \E p \in {"shut", "reset"} : peer' = [peer EXCEPT ![l] = p]
       \/ peer[l] = "shut" /\ peer' = [peer EXCEPT ![l] = "lost"]
    /\ UNCHANGED <<alive, fds, made, sent, taken, userVars>>

uni_tcp_connect(u) == Socket(u) \/ SocketFails(u) \/ Connect(u) \/ ConnectFails(u)
uni_tcp_recv(u) ==
    \/ \E t \in Timeouts : Select(u, t) \/ SelectFails(u, t)
    \/ Recv(u) \/ RecvEnd(u) \/ RecvFails(u)
uni_tcp_send(u) ==
    \/ \E t \in Timeouts : Send(u, t) \/ SendFails(u, t)
    \/ SendKilled(u)
Server == \E l \in Links : Arrive(l) \/ End(l)

SocketNext ==
    \/ \E u \in Users : \/ uni_tcp_connect(u) \/ uni_tcp_recv(u)
                        \/ uni_tcp_send(u) \/ uni_tcp_destroy(u)
    \/ Server \/ Killed

SocketSpec == SocketInit /\ [][SocketNext]_socketVars

-----------------------------------------------------------------------------
\* The types of the sockets' variables.
SocketTypeOK ==
    /\ alive \in BOOLEAN
    /\ fds \in [Descriptors -> 0 .. MaxLinks]
    /\ made \in 0 .. MaxLinks
    /\ peer \in [Links -> {"none", "open", "shut", "reset", "lost"}]
    /\ sent \in [Links -> 0 .. MaxPieces]
    /\ taken \in [Links -> 0 .. MaxPieces]
    /\ call \in [Users -> {"idle", "connect", "recv"}]
    /\ asked \in [Users -> Timeouts \cup {0}]
    /\ sock \in [Users -> Descriptors \cup {NoSocket}]
    /\ fd \in [Users -> Descriptors \cup {NoSocket}]
    /\ received \in [Users -> Seq(Piece)]
    /\ result \in [Users -> (Timeouts \cup {0}) \X Outcomes]
    /\ link \in [Users -> 0 .. MaxLinks]

\* The descriptor user u has at the moment, inside uni_tcp_connect or as the
\* socket it was given.
Holds(u, d) == fd[u] = d \/ sock[u] = d

\* uni_socket.c:54-102: whatever fails, a descriptor is open exactly if a
\* thread has it, and no two threads have the same.
DescriptorsOwned ==
    \A d \in Descriptors :
        /\ fds[d] # 0 => \E u \in Users : Holds(u, d)
        /\ \A u \in Users : Holds(u, d) =>
              fds[d] # 0 /\ \A v \in Users : Holds(v, d) => v = u

\* uni_socket.c:109-128: what a thread received is the beginning of what was
\* sent on the connection it made, in order and without a gap, though the
\* descriptor's number was another connection's before.
OwnStream ==
    \A u \in Users :
        /\ \A i \in 1 .. Len(received[u]) : received[u][i] = <<link[u], i>>
        /\ link[u] # 0 => Len(received[u]) = taken[link[u]]

Contract == INSTANCE TcpContract WITH
                ended <- {l \in Links : peer[l] \in {"shut", "reset", "lost"}}

\* uni_platform.h:81-126: what a call on a connection returns is what the header
\* promises, whatever other threads do meanwhile: data is the next of this stream,
\* 0 comes only at its end, and -1 only if there is nothing to give and the call
\* was given a time or the stream has ended.
ContractSpec == Contract!Spec
=============================================================================
