--------------------------- MODULE SessionProofs ---------------------------
(***************************************************************************)
(* Proofs about Sockets and Session.  First the sockets, whoever calls     *)
(* them: the invariant says which descriptor a thread has, that no two     *)
(* descriptors lead to the same connection, and how far a connection that  *)
(* nobody has yet, or any more, can have gone.  Then a session: each of    *)
(* its steps is one of the sockets or leaves them alone, so that what was  *)
(* proved of them holds in it.                                             *)
(***************************************************************************)
EXTENDS Session, TLAPS

USE DEF Links, Descriptors, NoSocket

\* What user u has at each stage of a call.
Stage(u) ==
    /\ fd[u] # NoSocket <=> call[u] = "connect"
    /\ call[u] = "connect" => sock[u] = NoSocket
    /\ call[u] = "recv" => sock[u] # NoSocket
    /\ sock[u] = NoSocket => link[u] = 0 /\ received[u] = <<>>
    /\ sock[u] # NoSocket => link[u] = fds[sock[u]]

Stages == \A u \in Users : Stage(u)

\* No two descriptors lead to the same connection, none to a future one.
Distinct ==
    /\ \A d \in Descriptors : fds[d] <= made
    /\ \A d, e \in Descriptors : fds[d] # 0 /\ fds[d] = fds[e] => d = e

\* A connection that nobody has made, or that was destroyed, is as new.
Peers ==
    /\ \A l \in Links : /\ peer[l] = "none" => sent[l] = 0 /\ taken[l] = 0
                        /\ taken[l] <= sent[l]
                        /\ l > made => peer[l] = "none"
    /\ \A u \in Users : /\ fd[u] # NoSocket => peer[fds[fd[u]]] = "none"
                        /\ link[u] # 0 => peer[link[u]] # "none"

\* The types of all but what calls were asked and answered.
SocketTypes ==
    /\ alive \in BOOLEAN
    /\ fds \in [Descriptors -> 0 .. MaxLinks]
    /\ made \in 0 .. MaxLinks
    /\ peer \in [Links -> {"none", "open", "shut", "reset", "lost"}]
    /\ sent \in [Links -> 0 .. MaxPieces]
    /\ taken \in [Links -> 0 .. MaxPieces]
    /\ call \in [Users -> {"idle", "connect", "recv"}]
    /\ sock \in [Users -> Descriptors \cup {NoSocket}]
    /\ fd \in [Users -> Descriptors \cup {NoSocket}]
    /\ received \in [Users -> Seq(Piece)]
    /\ link \in [Users -> 0 .. MaxLinks]

SocketInv ==
    /\ SocketTypes /\ Stages /\ Distinct /\ Peers /\ DescriptorsOwned /\ OwnStream

-----------------------------------------------------------------------------
\* Whoever has a socket is on a connection of its own.
LEMMA OwnConnection ==
    ASSUME SocketInv, NEW u \in Users, sock[u] # NoSocket
    PROVE  /\ sock[u] \in Descriptors
           /\ Here(u) \in Links /\ link[u] = Here(u) /\ Here(u) <= made
           /\ peer[Here(u)] # "none"
           /\ \A v \in Users : v # u => link[v] # Here(u)
<1>1. sock[u] \in Descriptors /\ Holds(u, sock[u])
    BY DEF SocketInv, SocketTypes, Holds
<1>2. fds[sock[u]] # 0 /\ fds[sock[u]] \in 0 .. MaxLinks /\ made \in Nat
    BY <1>1, LimitsAssumption DEF SocketInv, SocketTypes, DescriptorsOwned
<1>3. link[u] = fds[sock[u]] /\ fds[sock[u]] <= made
    BY <1>1 DEF SocketInv, Stages, Stage, Distinct
<1>4. peer[fds[sock[u]]] # "none"
    BY <1>2, <1>3 DEF SocketInv, Peers
<1>5. ASSUME NEW v \in Users, v # u, link[v] = fds[sock[u]]
      PROVE  FALSE
    <2>1. sock[v] # NoSocket /\ link[v] = fds[sock[v]]
        BY <1>2, <1>5 DEF SocketInv, Stages, Stage
    <2>2. sock[v] \in Descriptors
        BY <2>1 DEF SocketInv, SocketTypes
    <2>3. sock[v] = sock[u]
        BY <1>1, <1>2, <1>5, <2>1, <2>2 DEF SocketInv, Distinct
    <2>4. Holds(v, sock[u])
        BY <2>3 DEF Holds
    <2> QED  BY <1>1, <1>5, <2>4 DEF SocketInv, DescriptorsOwned
<1> QED  BY <1>1, <1>2, <1>3, <1>4, <1>5 DEF Here

\* Inside uni_tcp_connect the descriptor is the caller's own, its connection
\* new and nobody's.
LEMMA OwnDescriptor ==
    ASSUME SocketInv, NEW u \in Users, call[u] = "connect"
    PROVE  /\ fd[u] \in Descriptors /\ sock[u] = NoSocket /\ link[u] = 0
           /\ received[u] = <<>>
           /\ fds[fd[u]] \in Links /\ fds[fd[u]] <= made
           /\ peer[fds[fd[u]]] = "none"
           /\ sent[fds[fd[u]]] = 0 /\ taken[fds[fd[u]]] = 0
           /\ \A v \in Users : v # u => sock[v] # fd[u] /\ fd[v] # fd[u]
           /\ \A v \in Users : link[v] # fds[fd[u]]
<1>1. fd[u] # NoSocket /\ sock[u] = NoSocket /\ link[u] = 0 /\ received[u] = <<>>
    BY DEF SocketInv, Stages, Stage
<1>2. fd[u] \in Descriptors /\ Holds(u, fd[u])
    BY <1>1 DEF SocketInv, SocketTypes, Holds
<1>3. fds[fd[u]] # 0 /\ fds[fd[u]] \in 0 .. MaxLinks
    BY <1>2 DEF SocketInv, SocketTypes, DescriptorsOwned
<1>4. fds[fd[u]] \in Links /\ fds[fd[u]] <= made
    BY <1>2, <1>3, LimitsAssumption DEF SocketInv, Distinct
<1>5. peer[fds[fd[u]]] = "none"
    BY <1>1 DEF SocketInv, Peers
<1>6. sent[fds[fd[u]]] = 0 /\ taken[fds[fd[u]]] = 0
    BY <1>4, <1>5 DEF SocketInv, Peers
<1>7. \A v \in Users : v # u => sock[v] # fd[u] /\ fd[v] # fd[u]
    BY <1>2 DEF SocketInv, DescriptorsOwned, Holds
<1>8. \A v \in Users : link[v] # fds[fd[u]]
    BY <1>3, <1>5 DEF SocketInv, Peers
<1> QED  BY <1>1, <1>2, <1>4, <1>5, <1>6, <1>7, <1>8

\* Where only the stage of a call and its answer change.
LEMMA CallOnly ==
    ASSUME SocketInv, NEW u \in Users,
           \/ call'[u] = "idle" /\ call[u] # "connect"
           \/ call'[u] = "recv" /\ sock[u] # NoSocket /\ call[u] = "idle",
           \E w \in {"idle", "recv"} : call' = [call EXCEPT ![u] = w],
           alive' \in BOOLEAN,
           UNCHANGED <<fds, kernelVars, sock, fd, received, link>>
    PROVE  SocketInv'
<1>1. SocketTypes'
    BY DEF SocketInv, SocketTypes, kernelVars
<1>2. \A v \in Users : v # u => call'[v] = call[v]
    BY DEF SocketInv, SocketTypes
<1>3. Stages'
    BY <1>2 DEF SocketInv, Stages, Stage
<1>4. Distinct' /\ Peers'
    BY DEF SocketInv, Distinct, Peers, kernelVars
<1>5. DescriptorsOwned' /\ OwnStream'
    BY DEF SocketInv, DescriptorsOwned, Holds, OwnStream, kernelVars
<1> QED  BY <1>1, <1>3, <1>4, <1>5 DEF SocketInv

\* A new descriptor is the caller's only.
LEMMA SocketStep ==
    ASSUME SocketInv, NEW u \in Users, Socket(u)
    PROVE  SocketInv'
<1> USE LimitsAssumption, FdAssumption
<1>1. PICK d \in Descriptors : /\ fds[d] = 0
                               /\ fd' = [fd EXCEPT ![u] = d]
                               /\ fds' = [fds EXCEPT ![d] = made']
    BY DEF Socket, LeastFree
<1>2. /\ made < MaxLinks /\ made' = made + 1 /\ made \in Nat
      /\ call' = [call EXCEPT ![u] = "connect"] /\ sock[u] = NoSocket
      /\ UNCHANGED <<alive, peer, sent, taken, sock, received, link>>
    BY DEF SocketInv, SocketTypes, Socket, Connecting
<1>3. /\ \A v \in Users : fd'[v] = IF v = u THEN d ELSE fd[v]
      /\ \A v \in Users : call'[v] = IF v = u THEN "connect" ELSE call[v]
      /\ \A e \in Descriptors : fds'[e] = IF e = d THEN made + 1 ELSE fds[e]
    BY <1>1, <1>2 DEF SocketInv, SocketTypes
<1>4. d # NoSocket /\ made + 1 # 0 /\ made + 1 \in Links
    BY <1>2
<1>5. \A v \in Users : sock[v] # d /\ fd[v] # d
    BY <1>1 DEF SocketInv, DescriptorsOwned, Holds
<1>6. SocketTypes'
    <2>1. /\ fds \in [Descriptors -> 0 .. MaxLinks]
          /\ fd \in [Users -> Descriptors \cup {NoSocket}]
          /\ call \in [Users -> {"idle", "connect", "recv"}]
        BY DEF SocketInv, SocketTypes
    <2>2. fds' \in [Descriptors -> 0 .. MaxLinks] /\ made' \in 0 .. MaxLinks
        BY <1>1, <1>2, <1>4, <2>1
    <2>3. fd' \in [Users -> Descriptors \cup {NoSocket}]
        BY <1>1, <2>1
    <2>4. call' \in [Users -> {"idle", "connect", "recv"}]
        BY <1>2, <2>1
    <2> QED  BY <1>2, <2>2, <2>3, <2>4 DEF SocketInv, SocketTypes
<1>7. Stages'
    <2>1. \A v \in Users : sock[v] # NoSocket => fds'[sock[v]] = fds[sock[v]]
        BY <1>3, <1>5 DEF SocketInv, SocketTypes
    <2> QED  BY <1>2, <1>3, <1>4, <2>1 DEF SocketInv, Stages, Stage
<1>8. Distinct'
    <2>1. \A e \in Descriptors : fds[e] <= made /\ fds[e] \in Nat
        BY DEF SocketInv, SocketTypes, Distinct
    <2> QED  BY <1>2, <1>3, <2>1 DEF SocketInv, Distinct
<1>9. Peers'
    <2>1. peer[made + 1] = "none"
        BY <1>2, <1>4 DEF SocketInv, Peers
    <2>2. \A v \in Users : fd'[v] # NoSocket => peer'[fds'[fd'[v]]] = "none"
        <3> TAKE v \in Users
        <3>1. CASE v = u
            BY <1>2, <1>3, <2>1, <3>1
        <3>2. CASE v # u
            <4>1. fd'[v] = fd[v] /\ fd[v] # d
                BY <1>3, <1>5, <3>2
            <4>2. fd[v] # NoSocket => fds'[fd[v]] = fds[fd[v]]
                BY <1>3, <4>1 DEF SocketInv, SocketTypes
            <4> QED  BY <1>2, <4>1, <4>2 DEF SocketInv, Peers
        <3> QED  BY <3>1, <3>2
    <2>3. \A l \in Links : l > made' => peer'[l] = "none"
        BY <1>2 DEF SocketInv, Peers
    <2> QED  BY <1>2, <2>2, <2>3 DEF SocketInv, Peers
<1>10. DescriptorsOwned'
    <2>1. \A v \in Users, e \in Descriptors :
            Holds(v, e)' <=> (v = u /\ e = d) \/ (Holds(v, e) /\ e # d /\ ~(v = u /\ fd[u] = e))
        BY <1>2, <1>3, <1>5 DEF Holds
    <2>2. fd[u] = NoSocket
        BY DEF SocketInv, Stages, Stage, Socket, Connecting
    <2>3. \A v \in Users, e \in Descriptors :
            Holds(v, e)' <=> (v = u /\ e = d) \/ (Holds(v, e) /\ e # d)
        BY <2>1, <2>2
    <2> HIDE DEF NoSocket
    <2> SUFFICES ASSUME NEW e \in Descriptors
                 PROVE  /\ fds'[e] # 0 => \E v \in Users : Holds(v, e)'
                        /\ \A v \in Users : Holds(v, e)' =>
                              fds'[e] # 0 /\ \A w \in Users : Holds(w, e)' => w = v
        BY DEF DescriptorsOwned, Holds
    <2>4. /\ fds[e] # 0 => \E v \in Users : Holds(v, e)
          /\ \A v \in Users : Holds(v, e) =>
                fds[e] # 0 /\ \A w \in Users : Holds(w, e) => w = v
        BY DEF SocketInv, DescriptorsOwned
    <2>5. fds'[e] = IF e = d THEN made + 1 ELSE fds[e]
        BY <1>3
    <2>6. CASE e = d
        <3>1. \A v \in Users : Holds(v, e)' <=> v = u
            BY <2>3, <2>6, <1>5 DEF Holds
        <3> QED  BY <1>4, <2>5, <2>6, <3>1
    <2>7. CASE e # d
        <3>1. \A v \in Users : Holds(v, e)' <=> Holds(v, e)
            BY <2>3, <2>7
        <3> QED  BY <2>4, <2>5, <2>7, <3>1
    <2> QED  BY <2>6, <2>7
<1>11. OwnStream'
    BY <1>2 DEF SocketInv, OwnStream
<1> QED  BY <1>6, <1>7, <1>8, <1>9, <1>10, <1>11 DEF SocketInv

\* A step that leaves the descriptors and who has them to what they are.
LEMMA OwnersKept ==
    ASSUME SocketInv, fds' = fds,
           \A v \in Users, e \in Descriptors : Holds(v, e)' <=> Holds(v, e)
    PROVE  DescriptorsOwned'
BY DEF SocketInv, DescriptorsOwned

\* A descriptor that is closed is no longer anybody's.
LEMMA OwnersLose ==
    ASSUME SocketInv, NEW u \in Users, NEW d \in Descriptors, Holds(u, d),
           fds' = [fds EXCEPT ![d] = 0],
           \A v \in Users, e \in Descriptors : Holds(v, e)' <=> (Holds(v, e) /\ e # d)
    PROVE  DescriptorsOwned'
<1>1. \A e \in Descriptors : fds'[e] = IF e = d THEN 0 ELSE fds[e]
    BY DEF SocketInv, SocketTypes
<1> SUFFICES ASSUME NEW e \in Descriptors
             PROVE  /\ fds'[e] # 0 => \E v \in Users : Holds(v, e)'
                    /\ \A v \in Users : Holds(v, e)' =>
                          fds'[e] # 0 /\ \A w \in Users : Holds(w, e)' => w = v
    BY DEF DescriptorsOwned
<1>2. /\ fds[e] # 0 => \E v \in Users : Holds(v, e)
      /\ \A v \in Users : Holds(v, e) =>
            fds[e] # 0 /\ \A w \in Users : Holds(w, e) => w = v
    BY DEF SocketInv, DescriptorsOwned
<1> HIDE DEF Descriptors
<1> QED  BY <1>1, <1>2

\* connect succeeds: the caller's descriptor becomes its socket.
LEMMA ConnectStep ==
    ASSUME SocketInv, NEW u \in Users, Connect(u)
    PROVE  SocketInv'
<1> DEFINE d == fd[u]
           l == fds[fd[u]]
<1>1. /\ d \in Descriptors /\ sock[u] = NoSocket /\ link[u] = 0 /\ received[u] = <<>>
      /\ l \in Links /\ l <= made /\ peer[l] = "none" /\ sent[l] = 0 /\ taken[l] = 0
      /\ \A v \in Users : v # u => sock[v] # d /\ fd[v] # d
      /\ \A v \in Users : link[v] # l
    BY OwnDescriptor DEF Connect
<1>2. /\ peer' = [peer EXCEPT ![l] = "open"]
      /\ sock' = [sock EXCEPT ![u] = d]
      /\ link' = [link EXCEPT ![u] = l]
      /\ fd' = [fd EXCEPT ![u] = NoSocket]
      /\ call' = [call EXCEPT ![u] = "idle"]
      /\ UNCHANGED <<alive, fds, made, sent, taken, received>>
    BY DEF Connect, Returns
<1>3. d # NoSocket
    BY <1>1, FdAssumption
<1> HIDE DEF d, l
<1>4. /\ \A v \in Users : sock'[v] = IF v = u THEN d ELSE sock[v]
      /\ \A v \in Users : link'[v] = IF v = u THEN l ELSE link[v]
      /\ \A v \in Users : fd'[v] = IF v = u THEN NoSocket ELSE fd[v]
      /\ \A v \in Users : call'[v] = IF v = u THEN "idle" ELSE call[v]
      /\ \A m \in Links : peer'[m] = IF m = l THEN "open" ELSE peer[m]
    BY <1>2 DEF SocketInv, SocketTypes
<1>5. SocketTypes'
    <2>1. /\ sock' \in [Users -> Descriptors \cup {NoSocket}]
          /\ fd' \in [Users -> Descriptors \cup {NoSocket}]
        BY <1>1, <1>2 DEF SocketInv, SocketTypes
    <2>2. link' \in [Users -> 0 .. MaxLinks]
        BY <1>1, <1>2, LimitsAssumption DEF SocketInv, SocketTypes
    <2>3. /\ peer' \in [Links -> {"none", "open", "shut", "reset", "lost"}]
          /\ call' \in [Users -> {"idle", "connect", "recv"}]
        BY <1>2 DEF SocketInv, SocketTypes
    <2> QED  BY <1>2, <2>1, <2>2, <2>3 DEF SocketInv, SocketTypes
<1>6. Stages'
    <2>1. l = fds[d]
        BY DEF d, l
    <2> QED  BY <1>1, <1>2, <1>3, <1>4, <2>1 DEF SocketInv, Stages, Stage
<1>7. Distinct'
    BY <1>2 DEF SocketInv, Distinct
<1>8. Peers'
    <2>1. ASSUME NEW v \in Users, v # u, fd[v] # NoSocket
          PROVE  fds[fd[v]] # l
        <3>1. fd[v] \in Descriptors /\ fd[v] # d
            BY <1>1, <2>1 DEF SocketInv, SocketTypes
        <3>2. l = fds[d] /\ l # 0
            BY <1>1 DEF d, l
        <3> QED  BY <1>1, <3>1, <3>2 DEF SocketInv, Distinct
    <2>2. \A v \in Users : fd'[v] # NoSocket => peer'[fds'[fd'[v]]] = "none"
        <3> TAKE v \in Users
        <3>1. CASE v = u
            BY <1>4, <3>1
        <3>2. CASE v # u
            <4>1. fd'[v] = fd[v] /\ fds' = fds
                BY <1>2, <1>4, <3>2
            <4>2. ASSUME fd[v] # NoSocket
                  PROVE  peer'[fds[fd[v]]] = "none"
                <5>1. peer[fds[fd[v]]] = "none" /\ fds[fd[v]] # l
                    BY <2>1, <3>2, <4>2 DEF SocketInv, Peers
                <5> QED  BY <1>2, <5>1 DEF SocketInv, SocketTypes
            <4> QED  BY <4>1, <4>2
        <3> QED  BY <3>1, <3>2
    <2>3. \A v \in Users : link'[v] # 0 => peer'[link'[v]] # "none"
        <3> TAKE v \in Users
        <3>1. CASE v = u
            BY <1>1, <1>4, <3>1
        <3>2. CASE v # u
            BY <1>1, <1>2, <1>4, <3>2 DEF SocketInv, SocketTypes, Peers
        <3> QED  BY <3>1, <3>2
    <2>4. \A m \in Links : m > made => m # l
        BY <1>1 DEF SocketInv, SocketTypes
    <2> QED  BY <1>1, <1>2, <1>4, <2>2, <2>3, <2>4 DEF SocketInv, Peers
<1>9. DescriptorsOwned'
    <2>1. fd[u] = d
        BY DEF d
    <2>2. \A v \in Users, e \in Descriptors : Holds(v, e)' <=> Holds(v, e)
        <3>1. NoSocket \notin Descriptors
            BY FdAssumption
        <3> HIDE DEF NoSocket, Descriptors
        <3> QED  BY <1>1, <1>4, <2>1, <3>1 DEF Holds
    <2> QED  BY <1>2, <2>2, OwnersKept
<1>10. OwnStream'
    <2>1. \A v \in Users : link'[v] # 0 => Len(received'[v]) = taken'[link'[v]]
        BY <1>1, <1>2, <1>4 DEF SocketInv, OwnStream
    <2>2. \A v \in Users : \A i \in 1 .. Len(received'[v]) : received'[v][i] = <<link'[v], i>>
        BY <1>1, <1>2, <1>4 DEF SocketInv, OwnStream
    <2> QED  BY <2>1, <2>2 DEF OwnStream
<1> QED  BY <1>5, <1>6, <1>7, <1>8, <1>9, <1>10 DEF SocketInv

\* connect fails: the descriptor is closed and forgotten.
LEMMA ConnectFailsStep ==
    ASSUME SocketInv, NEW u \in Users, ConnectFails(u)
    PROVE  SocketInv'
<1> DEFINE d == fd[u]
<1>1. /\ d \in Descriptors /\ sock[u] = NoSocket
      /\ \A v \in Users : v # u => sock[v] # d /\ fd[v] # d
    BY OwnDescriptor DEF ConnectFails
<1>2. /\ fds' = [fds EXCEPT ![d] = 0]
      /\ fd' = [fd EXCEPT ![u] = NoSocket]
      /\ call' = [call EXCEPT ![u] = "idle"]
      /\ UNCHANGED <<alive, made, peer, sent, taken, sock, received, link>>
    BY DEF ConnectFails, Returns, kernelVars
<1>3. fd[u] = d
    OBVIOUS
<1> HIDE DEF d
<1>4. /\ \A v \in Users : fd'[v] = IF v = u THEN NoSocket ELSE fd[v]
      /\ \A v \in Users : call'[v] = IF v = u THEN "idle" ELSE call[v]
      /\ \A e \in Descriptors : fds'[e] = IF e = d THEN 0 ELSE fds[e]
    BY <1>2 DEF SocketInv, SocketTypes
<1>5. SocketTypes'
    <2>1. fds' \in [Descriptors -> 0 .. MaxLinks]
        <3>1. fds \in [Descriptors -> 0 .. MaxLinks] /\ 0 \in 0 .. MaxLinks
            BY LimitsAssumption DEF SocketInv, SocketTypes
        <3> HIDE DEF Descriptors
        <3> QED  BY <1>2, <3>1
    <2>2. fd' \in [Users -> Descriptors \cup {NoSocket}]
        BY <1>2 DEF SocketInv, SocketTypes
    <2>3. call' \in [Users -> {"idle", "connect", "recv"}]
        BY <1>2 DEF SocketInv, SocketTypes
    <2> QED  BY <1>2, <2>1, <2>2, <2>3 DEF SocketInv, SocketTypes
<1>6. Stages'
    <2>1. \A v \in Users : sock[v] # NoSocket => fds'[sock[v]] = fds[sock[v]]
        BY <1>1, <1>4 DEF SocketInv, SocketTypes
    <2> QED  BY <1>1, <1>2, <1>4, <2>1 DEF SocketInv, Stages, Stage
<1>7. Distinct'
    <2>1. made \in Nat
        BY LimitsAssumption DEF SocketInv, SocketTypes
    <2> QED  BY <1>2, <1>4, <2>1 DEF SocketInv, Distinct
<1>8. Peers'
    <2>1. \A v \in Users : fd'[v] # NoSocket => fd'[v] = fd[v] /\ fds'[fd[v]] = fds[fd[v]]
        BY <1>1, <1>4 DEF SocketInv, SocketTypes
    <2> QED  BY <1>2, <2>1 DEF SocketInv, Peers
<1>9. DescriptorsOwned'
    <2>1. \A v \in Users, e \in Descriptors : Holds(v, e)' <=> (Holds(v, e) /\ e # d)
        <3>1. NoSocket \notin Descriptors
            BY FdAssumption
        <3> HIDE DEF NoSocket, Descriptors
        <3> QED  BY <1>1, <1>2, <1>3, <1>4, <3>1 DEF Holds
    <2>2. Holds(u, d)
        BY <1>3 DEF Holds
    <2> QED  BY <1>1, <1>2, <2>1, <2>2, OwnersLose
<1>10. OwnStream'
    BY <1>2 DEF SocketInv, OwnStream
<1> QED  BY <1>5, <1>6, <1>7, <1>8, <1>9, <1>10 DEF SocketInv

\* recv gives the next piece of the caller's own connection.
LEMMA RecvStep ==
    ASSUME SocketInv, NEW u \in Users, Recv(u)
    PROVE  SocketInv'
<1> DEFINE l == Here(u)
           p == <<l, taken[l] + 1>>
<1>1. sock[u] # NoSocket /\ call[u] = "recv"
    BY DEF SocketInv, Stages, Stage, Recv
<1>2. /\ l \in Links /\ link[u] = l /\ peer[l] # "none"
      /\ \A v \in Users : v # u => link[v] # l
    BY <1>1, OwnConnection
<1>3. /\ sent[l] > taken[l]
      /\ taken' = [taken EXCEPT ![l] = taken[l] + 1]
      /\ received' = [received EXCEPT ![u] = Append(received[u], <<l, taken'[l]>>)]
      /\ call' = [call EXCEPT ![u] = "idle"]
      /\ UNCHANGED <<alive, fds, made, peer, sent, sock, fd, link>>
    BY DEF Recv, Answers, Returns
<1> HIDE DEF l
<1>4. taken[l] \in Nat /\ sent[l] \in 0 .. MaxPieces /\ taken[l] + 1 \in 1 .. MaxPieces
    BY <1>2, <1>3, LimitsAssumption DEF SocketInv, SocketTypes
<1>5. taken'[l] = taken[l] + 1
    BY <1>2, <1>3 DEF SocketInv, SocketTypes
<1>6. /\ \A v \in Users : received'[v] = IF v = u THEN Append(received[v], p) ELSE received[v]
      /\ \A v \in Users : call'[v] = IF v = u THEN "idle" ELSE call[v]
      /\ \A m \in Links : taken'[m] = IF m = l THEN taken[m] + 1 ELSE taken[m]
    <2>1. received' = [received EXCEPT ![u] = Append(received[u], p)]
        BY <1>3, <1>5
    <2>2. \A v \in Users : received'[v] = IF v = u THEN Append(received[v], p) ELSE received[v]
        <3> HIDE DEF p
        <3> QED  BY <2>1 DEF SocketInv, SocketTypes
    <2> QED  BY <1>3, <2>2 DEF SocketInv, SocketTypes
<1>7. p \in Piece /\ received[u] \in Seq(Piece)
    BY <1>2, <1>4 DEF SocketInv, SocketTypes, Piece
<1>8. SocketTypes'
    <2>1. taken' \in [Links -> 0 .. MaxPieces]
        <3>1. taken \in [Links -> 0 .. MaxPieces] /\ taken[l] + 1 \in 0 .. MaxPieces
            BY <1>4 DEF SocketInv, SocketTypes
        <3> QED  BY <1>3, <3>1
    <2>2. received' \in [Users -> Seq(Piece)]
        <3>1. Append(received[u], p) \in Seq(Piece)
            BY <1>7
        <3>2. received' = [received EXCEPT ![u] = Append(received[u], p)]
            BY <1>3, <1>5
        <3> HIDE DEF p
        <3> QED  BY <3>1, <3>2 DEF SocketInv, SocketTypes
    <2>3. call' \in [Users -> {"idle", "connect", "recv"}]
        BY <1>3 DEF SocketInv, SocketTypes
    <2> QED  BY <1>3, <2>1, <2>2, <2>3 DEF SocketInv, SocketTypes
<1>9. Stages'
    <2>1. \A v \in Users : sock[v] = NoSocket => received'[v] = received[v]
        BY <1>1, <1>6
    <2> QED  BY <1>1, <1>3, <1>6, <2>1 DEF SocketInv, Stages, Stage
<1>10. Distinct'
    BY <1>3 DEF SocketInv, Distinct
<1>11. Peers'
    <2>1. ASSUME NEW m \in Links
          PROVE  /\ peer'[m] = "none" => sent'[m] = 0 /\ taken'[m] = 0
                 /\ taken'[m] <= sent'[m]
                 /\ m > made' => peer'[m] = "none"
        <3>1. /\ peer[m] = "none" => sent[m] = 0 /\ taken[m] = 0
              /\ taken[m] <= sent[m] /\ (m > made => peer[m] = "none")
            BY DEF SocketInv, Peers
        <3>2. CASE m = l
            BY <1>2, <1>3, <1>4, <1>5, <3>1, <3>2
        <3>3. CASE m # l
            BY <1>3, <1>6, <3>1, <3>3
        <3> QED  BY <3>2, <3>3
    <2> QED  BY <1>3, <2>1 DEF SocketInv, Peers
<1>12. DescriptorsOwned'
    <2>1. \A v \in Users, e \in Descriptors : Holds(v, e)' <=> Holds(v, e)
        BY <1>3 DEF Holds
    <2> QED  BY <1>3, <2>1, OwnersKept
<1>13. OwnStream'
    <2> SUFFICES ASSUME NEW v \in Users
                 PROVE  /\ \A i \in 1 .. Len(received'[v]) : received'[v][i] = <<link'[v], i>>
                        /\ link'[v] # 0 => Len(received'[v]) = taken'[link'[v]]
        BY DEF OwnStream
    <2>1. /\ \A i \in 1 .. Len(received[v]) : received[v][i] = <<link[v], i>>
          /\ link[v] # 0 => Len(received[v]) = taken[link[v]]
        BY DEF SocketInv, OwnStream
    <2>2. CASE v = u
        <3>1. received'[v] = Append(received[u], p) /\ link'[v] = l /\ l # 0
            <4>1. l # 0
                BY <1>2
            <4> HIDE DEF p, Links
            <4> QED  BY <1>2, <1>3, <1>6, <2>2, <4>1
        <3>2. Len(received[u]) = taken[l]
            BY <1>2, <2>1, <2>2, <3>1
        <3>3. Len(Append(received[u], p)) = taken[l] + 1
            BY <1>7, <3>2
        <3>4. ASSUME NEW i \in 1 .. taken[l] + 1
              PROVE  Append(received[u], p)[i] = <<l, i>>
            <4>1. CASE i = taken[l] + 1
                BY <1>4, <1>7, <3>2, <4>1
            <4>2. CASE i # taken[l] + 1
                <5>1. i \in 1 .. Len(received[u])
                    BY <1>4, <3>2, <4>2
                <5>2. received[u][i] = <<l, i>>
                    BY <1>2, <2>1, <2>2, <5>1
                <5> HIDE DEF p
                <5> QED  BY <1>7, <5>1, <5>2
            <4> QED  BY <4>1, <4>2
        <3> QED  BY <1>5, <3>1, <3>3, <3>4
    <2>3. CASE v # u
        <3>1. received'[v] = received[v] /\ link'[v] = link[v] /\ link[v] # l
            BY <1>2, <1>3, <1>6, <2>3
        <3>2. link[v] # 0 => taken'[link[v]] = taken[link[v]]
            BY <1>6, <3>1 DEF SocketInv, SocketTypes
        <3> QED  BY <2>1, <3>1, <3>2
    <2> QED  BY <2>2, <2>3
<1> QED  BY <1>8, <1>9, <1>10, <1>11, <1>12, <1>13 DEF SocketInv

\* Where only what is known of an existing connection changes: data arrives on
\* it, it ends, or a call finds it reset.
LEMMA PeerStep ==
    ASSUME SocketInv, NEW l \in Links, peer[l] # "none",
           NEW p \in {"open", "shut", "reset", "lost"},
           peer' = [peer EXCEPT ![l] = p],
           NEW n \in 0 .. MaxPieces, n >= sent[l],
           sent' = [sent EXCEPT ![l] = n],
           \/ call' = call
           \/ \E u \in Users : call[u] # "connect" /\ call' = [call EXCEPT ![u] = "idle"],
           UNCHANGED <<alive, fds, made, taken, sock, fd, received, link>>
    PROVE  SocketInv'
<1>1. /\ \A m \in Links : peer'[m] = IF m = l THEN p ELSE peer[m]
      /\ \A m \in Links : sent'[m] = IF m = l THEN n ELSE sent[m]
    BY DEF SocketInv, SocketTypes
<1>2. SocketTypes'
    BY DEF SocketInv, SocketTypes
<1>3. Stages'
    <2>1. \A v \in Users : call'[v] = call[v] \/ (call[v] # "connect" /\ call'[v] = "idle")
        BY DEF SocketInv, SocketTypes
    <2> QED  BY <2>1 DEF SocketInv, Stages, Stage
<1>4. Distinct'
    BY DEF SocketInv, Distinct
<1>5. Peers'
    <2>1. ASSUME NEW m \in Links
          PROVE  /\ peer'[m] = "none" <=> peer[m] = "none"
                 /\ peer'[m] = "none" => sent'[m] = 0 /\ taken'[m] = 0
                 /\ taken'[m] <= sent'[m]
        <3>1. /\ peer[m] = "none" => sent[m] = 0 /\ taken[m] = 0
              /\ taken[m] <= sent[m]
            BY DEF SocketInv, Peers
        <3>2. taken[m] \in Nat /\ sent[m] \in Nat /\ n \in Nat /\ taken' = taken
            BY LimitsAssumption DEF SocketInv, SocketTypes
        <3>3. p # "none" /\ sent[l] \in Nat
            BY LimitsAssumption DEF SocketInv, SocketTypes
        <3>4. sent[m] <= sent'[m]
            BY <1>1, <3>2, <3>3
        <3>5. sent'[m] \in Nat
            BY <1>1, <3>2
        <3>6. taken'[m] <= sent'[m]
            BY <3>1, <3>2, <3>4, <3>5
        <3> QED  BY <1>1, <3>1, <3>2, <3>3, <3>6
    <2>2. \A m \in Links : m > made' => peer'[m] = "none"
        BY <2>1 DEF SocketInv, Peers
    <2>3. ASSUME NEW v \in Users, fd[v] # NoSocket
          PROVE  peer'[fds[fd[v]]] = "none"
        <3>1. fds[fd[v]] \in Links
            BY <2>3, OwnDescriptor DEF SocketInv, Stages, Stage
        <3> QED  BY <2>1, <2>3, <3>1 DEF SocketInv, Peers
    <2>4. ASSUME NEW v \in Users, link[v] # 0
          PROVE  peer'[link[v]] # "none"
        <3>1. link[v] \in Links
            BY <2>4, LimitsAssumption DEF SocketInv, SocketTypes
        <3> QED  BY <2>1, <2>4, <3>1 DEF SocketInv, Peers
    <2> QED  BY <2>1, <2>2, <2>3, <2>4 DEF Peers
<1>6. DescriptorsOwned'
    <2>1. \A v \in Users, e \in Descriptors : Holds(v, e)' <=> Holds(v, e)
        BY DEF Holds
    <2> QED  BY <2>1, OwnersKept
<1>7. OwnStream'
    BY DEF SocketInv, OwnStream
<1> QED  BY <1>2, <1>3, <1>4, <1>5, <1>6, <1>7 DEF SocketInv

\* A call that finds its connection reset.
LEMMA ResetStep ==
    ASSUME SocketInv, NEW u \in Users, NEW t, call[u] # "connect", sock[u] # NoSocket,
           Reset(u, t)
    PROVE  SocketInv'
<1>1. Here(u) \in Links /\ peer[Here(u)] # "none"
    BY OwnConnection
<1>2. sent[Here(u)] \in 0 .. MaxPieces /\ sent' = [sent EXCEPT ![Here(u)] = sent[Here(u)]]
    BY <1>1 DEF SocketInv, SocketTypes, Reset
<1>3. /\ peer' = [peer EXCEPT ![Here(u)] = "lost"]
      /\ call' = [call EXCEPT ![u] = "idle"]
      /\ UNCHANGED <<alive, fds, made, taken, sock, fd, received, link>>
    BY DEF Reset, Answers, Returns
<1>4. sent[Here(u)] >= sent[Here(u)]
    BY <1>2
<1> HIDE DEF Here
<1> QED  BY <1>1, <1>2, <1>3, <1>4, PeerStep

\* What the server does reaches connections that exist only.
LEMMA ServerStep ==
    ASSUME SocketInv, Server
    PROVE  SocketInv'
<1> PICK l \in Links : Arrive(l) \/ End(l)
    BY DEF Server
<1>1. CASE Arrive(l)
    <2>1. /\ peer[l] = "open" /\ sent[l] < MaxPieces
          /\ sent' = [sent EXCEPT ![l] = sent[l] + 1]
          /\ UNCHANGED <<alive, fds, made, taken, call, sock, fd, received, link>>
        BY <1>1 DEF Arrive, userVars
    <2>2. peer' = [peer EXCEPT ![l] = "open"]
        BY <1>1, <2>1 DEF SocketInv, SocketTypes, Arrive
    <2>3. sent[l] + 1 \in 0 .. MaxPieces /\ sent[l] + 1 >= sent[l]
        BY <2>1, LimitsAssumption DEF SocketInv, SocketTypes
    <2> QED  BY <2>1, <2>2, <2>3, PeerStep
<1>2. CASE End(l)
    <2>1. /\ peer[l] # "none"
          /\ \E p \in {"shut", "reset", "lost"} : peer' = [peer EXCEPT ![l] = p]
          /\ UNCHANGED <<alive, fds, made, sent, taken, call, sock, fd, received, link>>
        BY <1>2 DEF End, userVars
    <2>2. /\ sent[l] \in 0 .. MaxPieces /\ sent[l] >= sent[l]
          /\ sent' = [sent EXCEPT ![l] = sent[l]]
        BY <2>1, LimitsAssumption DEF SocketInv, SocketTypes
    <2> QED  BY <2>1, <2>2, PeerStep
<1> QED  BY <1>1, <1>2

\* uni_tcp_destroy: the connection is forgotten by the caller and the kernel.
LEMMA DestroyStep ==
    ASSUME SocketInv, NEW u \in Users, uni_tcp_destroy(u)
    PROVE  SocketInv'
<1> DEFINE d == sock[u]
           l == Here(u)
<1>1. sock[u] # NoSocket /\ call[u] = "idle"
    BY DEF uni_tcp_destroy, Using
<1>2. /\ d \in Descriptors /\ l \in Links /\ link[u] = l
      /\ \A v \in Users : v # u => link[v] # l
    BY <1>1, OwnConnection
<1>3. /\ fds' = [fds EXCEPT ![d] = 0]
      /\ peer' = [peer EXCEPT ![l] = "none"]
      /\ sent' = [sent EXCEPT ![l] = 0]
      /\ taken' = [taken EXCEPT ![l] = 0]
      /\ sock' = [sock EXCEPT ![u] = NoSocket]
      /\ received' = [received EXCEPT ![u] = <<>>]
      /\ link' = [link EXCEPT ![u] = 0]
      /\ call' = [call EXCEPT ![u] = "idle"]
      /\ UNCHANGED <<alive, made, fd>>
    BY DEF uni_tcp_destroy, Answers, Returns
<1>4. sock[u] = d /\ fds[d] = l /\ d # NoSocket
    BY <1>1 DEF Here
<1>5. Holds(u, d)
    BY <1>4 DEF Holds
<1>6. \A v \in Users : v # u => sock[v] # d /\ fd[v] # d
    BY <1>2, <1>5 DEF SocketInv, DescriptorsOwned, Holds
<1>7. fd[u] # d
    BY <1>1, <1>4 DEF SocketInv, Stages, Stage
<1> HIDE DEF d, l
<1>8. /\ \A v \in Users : sock'[v] = IF v = u THEN NoSocket ELSE sock[v]
      /\ \A v \in Users : link'[v] = IF v = u THEN 0 ELSE link[v]
      /\ \A v \in Users : received'[v] = IF v = u THEN <<>> ELSE received[v]
      /\ \A v \in Users : call'[v] = call[v]
      /\ \A e \in Descriptors : fds'[e] = IF e = d THEN 0 ELSE fds[e]
      /\ \A m \in Links : peer'[m] = IF m = l THEN "none" ELSE peer[m]
    BY <1>1, <1>3 DEF SocketInv, SocketTypes
<1>9. /\ \A m \in Links : sent'[m] = IF m = l THEN 0 ELSE sent[m]
      /\ \A m \in Links : taken'[m] = IF m = l THEN 0 ELSE taken[m]
    BY <1>3 DEF SocketInv, SocketTypes
<1>10. SocketTypes'
    <2>1. 0 \in 0 .. MaxLinks /\ 0 \in 0 .. MaxPieces /\ <<>> \in Seq(Piece)
        BY LimitsAssumption
    <2>2. fds' \in [Descriptors -> 0 .. MaxLinks]
        <3> HIDE DEF Descriptors
        <3> QED  BY <1>3, <2>1 DEF SocketInv, SocketTypes
    <2>3. /\ sent' \in [Links -> 0 .. MaxPieces]
          /\ taken' \in [Links -> 0 .. MaxPieces]
        BY <1>3, <2>1 DEF SocketInv, SocketTypes
    <2>4. peer' \in [Links -> {"none", "open", "shut", "reset", "lost"}]
        BY <1>3 DEF SocketInv, SocketTypes
    <2>5. /\ sock' \in [Users -> Descriptors \cup {NoSocket}]
          /\ link' \in [Users -> 0 .. MaxLinks]
        BY <1>3, <2>1 DEF SocketInv, SocketTypes
    <2>6. received' \in [Users -> Seq(Piece)]
        BY <1>3, <2>1 DEF SocketInv, SocketTypes
    <2>7. call' \in [Users -> {"idle", "connect", "recv"}]
        BY <1>3 DEF SocketInv, SocketTypes
    <2> QED  BY <1>3, <2>2, <2>3, <2>4, <2>5, <2>6, <2>7 DEF SocketInv, SocketTypes
<1>11. Stages'
    <2>1. \A v \in Users : v # u /\ sock[v] # NoSocket => fds'[sock[v]] = fds[sock[v]]
        BY <1>6, <1>8 DEF SocketInv, SocketTypes
    <2> QED  BY <1>1, <1>3, <1>8, <2>1 DEF SocketInv, Stages, Stage
<1>12. Distinct'
    <2>1. made \in Nat
        BY LimitsAssumption DEF SocketInv, SocketTypes
    <2> QED  BY <1>3, <1>8, <2>1 DEF SocketInv, Distinct
<1>13. Peers'
    <2>1. ASSUME NEW m \in Links
          PROVE  /\ peer'[m] = "none" => sent'[m] = 0 /\ taken'[m] = 0
                 /\ taken'[m] <= sent'[m]
                 /\ m > made' => peer'[m] = "none"
        BY <1>3, <1>8, <1>9, <2>1 DEF SocketInv, Peers
    <2>2. ASSUME NEW v \in Users, fd'[v] # NoSocket
          PROVE  peer'[fds'[fd'[v]]] = "none"
        <3>1. fd'[v] = fd[v] /\ fd[v] \in Descriptors /\ fd[v] # d
            BY <1>3, <1>6, <1>7, <2>2 DEF SocketInv, SocketTypes
        <3>2. fds'[fd[v]] = fds[fd[v]]
            BY <1>8, <3>1
        <3>3. fds[fd[v]] \in Links /\ peer[fds[fd[v]]] = "none"
            BY <2>2, <3>1, OwnDescriptor DEF SocketInv, Stages, Stage
        <3> QED  BY <1>8, <3>1, <3>2, <3>3
    <2>3. ASSUME NEW v \in Users, link'[v] # 0
          PROVE  peer'[link'[v]] # "none"
        <3>1. v # u /\ link'[v] = link[v] /\ link[v] # l
            BY <1>2, <1>8, <2>3
        <3>2. link[v] \in Links /\ peer[link[v]] # "none"
            BY <2>3, <3>1, LimitsAssumption DEF SocketInv, SocketTypes, Peers
        <3> QED  BY <1>8, <3>1, <3>2
    <2> QED  BY <2>1, <2>2, <2>3 DEF Peers
<1>14. DescriptorsOwned'
    <2>1. \A v \in Users, e \in Descriptors : Holds(v, e)' <=> (Holds(v, e) /\ e # d)
        <3>1. NoSocket \notin Descriptors
            BY FdAssumption
        <3> HIDE DEF NoSocket, Descriptors
        <3> QED  BY <1>3, <1>4, <1>6, <1>7, <1>8, <3>1 DEF Holds
    <2> QED  BY <1>2, <1>3, <1>5, <2>1, OwnersLose
<1>15. OwnStream'
    <2> SUFFICES ASSUME NEW v \in Users
                 PROVE  /\ \A i \in 1 .. Len(received'[v]) : received'[v][i] = <<link'[v], i>>
                        /\ link'[v] # 0 => Len(received'[v]) = taken'[link'[v]]
        BY DEF OwnStream
    <2>1. CASE v = u
        <3>1. received'[v] = <<>> /\ link'[v] = 0
            BY <1>8, <2>1
        <3> QED  BY <3>1
    <2>2. CASE v # u
        <3>1. received'[v] = received[v] /\ link'[v] = link[v] /\ link[v] # l
            BY <1>2, <1>8, <2>2
        <3>2. link[v] # 0 => taken'[link[v]] = taken[link[v]]
            BY <1>9, <3>1, LimitsAssumption DEF SocketInv, SocketTypes
        <3> QED  BY <3>1, <3>2 DEF SocketInv, OwnStream
    <2> QED  BY <2>1, <2>2
<1> QED  BY <1>10, <1>11, <1>12, <1>13, <1>14, <1>15 DEF SocketInv

\* Holds before any call, and is kept by every step.
LEMMA InitSockets == SocketInit => SocketInv
<1> SUFFICES ASSUME SocketInit PROVE SocketInv
    OBVIOUS
<1> USE LimitsAssumption, FdAssumption
<1>1. SocketTypes
    <2>1. <<>> \in Seq(Piece)
        OBVIOUS
    <2>2. received \in [Users -> Seq(Piece)]
        BY <2>1 DEF SocketInit
    <2> QED  BY <2>2 DEF SocketInit, SocketTypes
<1>2. Stages
    BY DEF SocketInit, Stages, Stage
<1>3. Distinct /\ Peers
    BY DEF SocketInit, Distinct, Peers
<1>4. DescriptorsOwned
    BY DEF SocketInit, DescriptorsOwned, Holds
<1>5. OwnStream
    <2>1. \A v \in Users : received[v] = <<>> /\ link[v] = 0
        BY DEF SocketInit
    <2> QED  BY <2>1 DEF OwnStream
<1> QED  BY <1>1, <1>2, <1>3, <1>4, <1>5 DEF SocketInv

LEMMA NextSockets == SocketInv /\ [SocketNext]_socketVars => SocketInv'
<1> SUFFICES ASSUME SocketInv, [SocketNext]_socketVars PROVE SocketInv'
    OBVIOUS
<1>0. /\ call \in [Users -> {"idle", "connect", "recv"}]
      /\ alive \in BOOLEAN
    BY DEF SocketInv, SocketTypes
<1>1. CASE UNCHANGED socketVars
    BY <1>1 DEF socketVars, kernelVars, userVars, SocketInv, SocketTypes, Stages, Stage,
                Distinct, Peers, DescriptorsOwned, Holds, OwnStream
<1>2. CASE Killed
    <2>1. alive' \in BOOLEAN /\ UNCHANGED <<fds, made, peer, sent, taken, call, sock, fd>>
          /\ UNCHANGED <<received, link>>
        BY <1>2 DEF Killed, kernelVars, userVars
    <2>2. SocketTypes'
        BY <2>1 DEF SocketInv, SocketTypes
    <2>3. Stages' /\ Distinct' /\ Peers'
        BY <2>1 DEF SocketInv, Stages, Stage, Distinct, Peers
    <2>4. DescriptorsOwned' /\ OwnStream'
        BY <2>1 DEF SocketInv, DescriptorsOwned, Holds, OwnStream
    <2> QED  BY <2>2, <2>3, <2>4 DEF SocketInv
<1>3. ASSUME NEW u \in Users, SocketFails(u)
      PROVE  SocketInv'
    <2>1. /\ call[u] = "idle" /\ call' = [call EXCEPT ![u] = "idle"]
          /\ UNCHANGED <<alive, fds, kernelVars, sock, fd, received, link>>
        BY <1>3 DEF SocketFails, Connecting, Returns
    <2> QED  BY <1>0, <2>1, CallOnly
<1>4. ASSUME NEW u \in Users, NEW t, NEW outcome,
             Select(u, t) \/ SelectFails(u, t) \/ Sending(u, t, outcome)
      PROVE  SocketInv'
    <2>1. /\ call[u] = "idle" /\ sock[u] # NoSocket
          /\ \E w \in {"idle", "recv"} : call' = [call EXCEPT ![u] = w]
          /\ UNCHANGED <<alive, fds, kernelVars, sock, fd, received, link>>
        BY <1>4 DEF Select, SelectFails, Sending, Using, Answers, Returns
    <2>2. call'[u] \in {"idle", "recv"}
        BY <1>0, <2>1
    <2> QED  BY <1>0, <2>1, <2>2, CallOnly
<1>5. ASSUME NEW u \in Users, RecvEnd(u)
      PROVE  SocketInv'
    <2>1. /\ call[u] = "recv" /\ call' = [call EXCEPT ![u] = "idle"]
          /\ UNCHANGED <<alive, fds, kernelVars, sock, fd, received, link>>
        BY <1>5 DEF RecvEnd, Answers, Returns
    <2>2. call'[u] = "idle"
        BY <1>0, <2>1
    <2> QED  BY <1>0, <2>1, <2>2, CallOnly
<1>6. ASSUME NEW u \in Users, NEW t, RecvFails(u) \/ (Using(u) /\ Reset(u, t))
      PROVE  SocketInv'
    <2>1. call[u] \in {"recv", "idle"} /\ sock[u] # NoSocket /\ \E w : Reset(u, w)
        BY <1>6 DEF RecvFails, Using, SocketInv, Stages, Stage
    <2> QED  BY <2>1, ResetStep
<1> QED  BY <1>1, <1>2, <1>3, <1>4, <1>5, <1>6, SocketStep, ConnectStep, ConnectFailsStep,
            RecvStep, DestroyStep, ServerStep
         DEF SocketNext, uni_tcp_connect, uni_tcp_recv, uni_tcp_send, Send, SendFails, SendKilled

LEMMA SocketsAlways == SocketSpec => []SocketInv
BY InitSockets, NextSockets, PTL DEF SocketSpec

-----------------------------------------------------------------------------
\* What a call was asked and what it answered.
AnswerTypes ==
    /\ asked \in [Users -> Timeouts \cup {0}]
    /\ result \in [Users -> (Timeouts \cup {0}) \X Outcomes]

AnswerInv ==
    /\ AnswerTypes
    /\ call \in [Users -> {"idle", "connect", "recv"}]
    /\ \A u \in Users : call[u] = "recv" => asked[u] \in Timeouts

LEMMA InitAnswers == SocketInit => AnswerInv
BY DEF SocketInit, AnswerInv, AnswerTypes, Outcomes

\* Only select lets a call go on to recv.
LEMMA NextAnswers == AnswerInv /\ [SocketNext]_socketVars => AnswerInv'
<1> SUFFICES ASSUME AnswerInv, [SocketNext]_socketVars PROVE AnswerInv'
    OBVIOUS
<1> USE DEF AnswerInv, AnswerTypes
<1>1. CASE UNCHANGED <<call, asked, result>>
    BY <1>1
<1>2. ASSUME NEW u \in Users, NEW t \in Timeouts \cup {0}, NEW outcome \in Outcomes,
             Answers(u, t, outcome), asked' = asked
      PROVE  AnswerInv'
    <2>1. result' = [result EXCEPT ![u] = <<t, outcome>>] /\ call' = [call EXCEPT ![u] = "idle"]
        BY <1>2 DEF Answers, Returns
    <2>2. <<t, outcome>> \in (Timeouts \cup {0}) \X Outcomes
        OBVIOUS
    <2>3. result' \in [Users -> (Timeouts \cup {0}) \X Outcomes]
        BY <2>1, <2>2
    <2> QED  BY <1>2, <2>1, <2>3
<1>3. ASSUME NEW u \in Users, NEW t \in Timeouts, Select(u, t)
      PROVE  AnswerInv'
    <2>1. /\ call' = [call EXCEPT ![u] = "recv"] /\ asked' = [asked EXCEPT ![u] = t]
          /\ result' = result
        BY <1>3 DEF Select
    <2> QED  BY <2>1
<1>4. ASSUME NEW u \in Users,
             Socket(u) \/ SocketFails(u) \/ Connect(u) \/ ConnectFails(u)
      PROVE  AnswerInv'
    <2>1. /\ \E w \in {"idle", "connect"} : call' = [call EXCEPT ![u] = w]
          /\ UNCHANGED <<asked, result>>
        BY <1>4 DEF Socket, SocketFails, Connect, ConnectFails, Returns
    <2> QED  BY <2>1
<1>5. ASSUME NEW u \in Users, Recv(u) \/ RecvEnd(u) \/ RecvFails(u)
      PROVE  AnswerInv'
    <2>1. /\ \E outcome \in Outcomes : Answers(u, asked[u], outcome)
          /\ asked' = asked
        BY <1>5 DEF Recv, RecvEnd, RecvFails, Reset, Outcomes
    <2> QED  BY <1>2, <2>1
<1>6. ASSUME NEW u \in Users, NEW t \in Timeouts,
             SelectFails(u, t) \/ Send(u, t) \/ SendFails(u, t)
      PROVE  AnswerInv'
    <2>1. (\E outcome \in Outcomes : Answers(u, t, outcome)) /\ asked' = asked
        BY <1>6 DEF SelectFails, Send, SendFails, Sending, Reset, Outcomes
    <2> QED  BY <1>2, <2>1
<1>7. ASSUME NEW u \in Users, uni_tcp_destroy(u)
      PROVE  AnswerInv'
    <2>1. Answers(u, 0, "none") /\ asked' = asked
        BY <1>7 DEF uni_tcp_destroy
    <2> QED  BY <1>2, <2>1 DEF Outcomes
<1> QED  BY <1>1, <1>3, <1>4, <1>5, <1>6, <1>7
         DEF SocketNext, uni_tcp_connect, uni_tcp_recv, uni_tcp_send, SendKilled, Killed,
             Server, Arrive, End, socketVars, userVars

LEMMA AnswersAlways == SocketSpec => []AnswerInv
BY InitAnswers, NextAnswers, PTL DEF SocketSpec

-----------------------------------------------------------------------------
\* The connections the server has ended, as the contract sees them.
Ended == {l \in Links : peer[l] \in {"shut", "reset", "lost"}}

\* Every call is given a time to wait, none the -1 that waits without one.
Timed == \A t \in Timeouts : t >= 0

LEMMA ContractVars ==
    Contract!vars = <<link, sent, Ended, received, result>>
BY DEF Contract!vars, Ended

\* Nothing the contract looks at changes.
LEMMA Stutters ==
    ASSUME UNCHANGED <<link, sent, received, result>>, Ended' = Ended
    PROVE  Contract!vars' = Contract!vars
BY ContractVars, ContractVars' DEF Contract!vars, Ended

LEMMA InitContract == SocketInit => Contract!Init
BY DEF SocketInit, Contract!Init, Contract!Links

LEMMA ConnectContract ==
    ASSUME SocketInv, NEW u \in Users, Connect(u)
    PROVE  Contract!Next
<1> DEFINE l == fds[fd[u]]
<1>1. /\ link[u] = 0 /\ l \in Links /\ peer[l] = "none" /\ sent[l] = 0
      /\ \A v \in Users : link[v] # l
    BY OwnDescriptor DEF Connect
<1>2. /\ peer' = [peer EXCEPT ![l] = "open"]
      /\ link' = [link EXCEPT ![u] = l]
      /\ UNCHANGED <<sent, received, result>>
    BY DEF Connect
<1> HIDE DEF l
<1>3. l \notin Ended /\ Ended' = Ended
    <2>1. \A m \in Links : peer'[m] = IF m = l THEN "open" ELSE peer[m]
        BY <1>2 DEF SocketInv, SocketTypes
    <2> QED  BY <1>1, <2>1 DEF Ended
<1>4. Contract!uni_tcp_connect(u)
    BY <1>1, <1>2, <1>3 DEF Contract!uni_tcp_connect, Contract!Links, Ended
<1> QED  BY <1>4 DEF Contract!Next

\* What the contract sees of whoever has a socket.
LEMMA Seen ==
    ASSUME SocketInv, NEW u \in Users, sock[u] # NoSocket
    PROVE  /\ Here(u) \in Links /\ link[u] = Here(u) /\ link[u] # 0
           /\ Len(received[u]) = taken[link[u]]
           /\ taken[link[u]] \in Nat /\ sent[link[u]] \in Nat
           /\ taken[link[u]] <= sent[link[u]]
           /\ peer[link[u]] \in {"open", "shut", "reset", "lost"}
           /\ link[u] \in Ended <=> peer[link[u]] # "open"
<1>1. Here(u) \in Links /\ link[u] = Here(u) /\ link[u] # 0 /\ peer[link[u]] # "none"
    BY OwnConnection
<1>2. /\ taken[link[u]] \in Nat /\ sent[link[u]] \in Nat
      /\ peer[link[u]] \in {"none", "open", "shut", "reset", "lost"}
    BY <1>1, LimitsAssumption DEF SocketInv, SocketTypes
<1>3. taken[link[u]] <= sent[link[u]] /\ Len(received[u]) = taken[link[u]]
    BY <1>1 DEF SocketInv, Peers, OwnStream
<1> QED  BY <1>1, <1>2, <1>3 DEF Ended

LEMMA RecvContract ==
    ASSUME SocketInv, AnswerInv, NEW u \in Users, Recv(u)
    PROVE  Contract!Next
<1> DEFINE l == Here(u)
<1>1. /\ sock[u] # NoSocket
      /\ sent[l] > taken[l]
      /\ taken' = [taken EXCEPT ![l] = taken[l] + 1]
      /\ received' = [received EXCEPT ![u] = Append(received[u], <<l, taken'[l]>>)]
      /\ result' = [result EXCEPT ![u] = <<asked[u], "data">>]
      /\ UNCHANGED <<peer, sent, link>>
    BY DEF Recv, Answers, SocketInv, Stages, Stage
<1>2. /\ l \in Links /\ link[u] = l /\ link[u] # 0
      /\ Len(received[u]) = taken[l] /\ taken[l] \in Nat /\ sent[l] \in Nat
    BY <1>1, Seen
<1>3. asked[u] \in Timeouts
    BY DEF AnswerInv, Recv
<1> HIDE DEF l
<1>4. taken'[l] = taken[l] + 1
    BY <1>1, <1>2 DEF SocketInv, SocketTypes
<1>5. Len(received[u]) < sent[link[u]]
    BY <1>1, <1>2
<1>6. received' = [received EXCEPT ![u] = Append(received[u], Contract!NextPiece(u))]
    BY <1>1, <1>2, <1>4 DEF Contract!NextPiece
<1>7. Ended' = Ended
    BY <1>1 DEF Ended
<1>8. Contract!Gives(u, asked[u])
    BY <1>1, <1>5, <1>6, <1>7 DEF Contract!Gives, Contract!Returns, Ended
<1> QED  BY <1>2, <1>3, <1>8 DEF Contract!uni_tcp_recv, Contract!Next

LEMMA RecvEndContract ==
    ASSUME SocketInv, AnswerInv, NEW u \in Users, RecvEnd(u)
    PROVE  Contract!Next
<1> DEFINE l == Here(u)
<1>1. /\ sock[u] # NoSocket
      /\ peer[l] \in {"shut", "lost"} /\ sent[l] = taken[l]
      /\ result' = [result EXCEPT ![u] = <<asked[u], "end">>]
      /\ UNCHANGED <<peer, sent, received, link>>
    BY DEF RecvEnd, Answers, SocketInv, Stages, Stage, kernelVars
<1>2. /\ link[u] = l /\ link[u] # 0 /\ Len(received[u]) = taken[l]
      /\ link[u] \in Ended <=> peer[link[u]] # "open"
    BY <1>1, Seen
<1>3. asked[u] \in Timeouts
    BY DEF AnswerInv, RecvEnd
<1> HIDE DEF l
<1>4. link[u] \in Ended /\ Contract!NothingLeft(u)
    BY <1>1, <1>2 DEF Contract!NothingLeft
<1>5. Ended' = Ended
    BY <1>1 DEF Ended
<1>6. Contract!GivesNothing(u, asked[u])
    BY <1>1, <1>4, <1>5 DEF Contract!GivesNothing, Contract!Returns, Contract!Ended, Ended
<1> QED  BY <1>2, <1>3, <1>6 DEF Contract!uni_tcp_recv, Contract!Next

\* A select that ends without a readable socket has waited its time, if it was
\* given one, and there was nothing to give.
LEMMA SelectFailsContract ==
    ASSUME Timed, SocketInv, NEW u \in Users, NEW t \in Timeouts, SelectFails(u, t)
    PROVE  Contract!Next
<1>1. /\ sock[u] # NoSocket /\ t >= 0 /\ ~Readable(Here(u))
      /\ result' = [result EXCEPT ![u] = <<t, "failed">>]
      /\ UNCHANGED <<peer, sent, received, link>>
    BY TimeoutAssumption DEF Timed, SelectFails, Using, Answers, kernelVars
<1>2. /\ Here(u) \in Links /\ link[u] = Here(u) /\ link[u] # 0
      /\ Len(received[u]) = taken[link[u]]
      /\ taken[link[u]] \in Nat /\ sent[link[u]] \in Nat
      /\ taken[link[u]] <= sent[link[u]]
    BY <1>1, Seen
<1>3. Contract!NothingLeft(u)
    BY <1>1, <1>2 DEF Contract!NothingLeft, Readable
<1>4. Ended' = Ended
    BY <1>1 DEF Ended
<1>5. Contract!GivesNothing(u, t)
    BY <1>1, <1>3, <1>4
       DEF Contract!GivesNothing, Contract!MayFail, Contract!Returns, Ended
<1> QED  BY <1>2, <1>5 DEF Contract!uni_tcp_recv, Contract!Next

\* A call that finds its connection reset fails, as the server had ended it.
LEMMA ResetContract ==
    ASSUME SocketInv, NEW u \in Users, sock[u] # NoSocket, NEW t, Reset(u, t)
    PROVE  /\ link[u] # 0 /\ Contract!Ended(u)
           /\ result' = [result EXCEPT ![u] = <<t, "failed">>]
           /\ UNCHANGED <<link, sent, received, Ended>>
<1> DEFINE l == Here(u)
<1>1. /\ peer[l] = "reset" /\ peer' = [peer EXCEPT ![l] = "lost"]
      /\ result' = [result EXCEPT ![u] = <<t, "failed">>]
      /\ UNCHANGED <<link, sent, received>>
    BY DEF Reset, Answers
<1>2. l \in Links /\ link[u] = l /\ link[u] # 0
    BY Seen
<1> HIDE DEF l
<1>3. \A m \in Links : peer'[m] = IF m = l THEN "lost" ELSE peer[m]
    BY <1>1 DEF SocketInv, SocketTypes
<1>4. Ended' = Ended
    BY <1>1, <1>3 DEF Ended
<1>5. Contract!Ended(u)
    BY <1>1, <1>2 DEF Contract!Ended
<1> QED  BY <1>1, <1>2, <1>4, <1>5

LEMMA RecvFailsContract ==
    ASSUME SocketInv, AnswerInv, NEW u \in Users, RecvFails(u)
    PROVE  Contract!Next
<1>1. /\ sock[u] # NoSocket /\ Reset(u, asked[u]) /\ sent[Here(u)] = taken[Here(u)]
      /\ asked[u] \in Timeouts
    BY DEF RecvFails, SocketInv, Stages, Stage, AnswerInv
<1>2. /\ link[u] # 0 /\ Contract!Ended(u)
      /\ result' = [result EXCEPT ![u] = <<asked[u], "failed">>]
      /\ UNCHANGED <<link, sent, received, Ended>>
    BY <1>1, ResetContract
<1>3. Contract!NothingLeft(u)
    BY <1>1, Seen DEF Contract!NothingLeft
<1>4. Contract!GivesNothing(u, asked[u])
    BY <1>2, <1>3 DEF Contract!GivesNothing, Contract!MayFail, Contract!Returns, Ended
<1> QED  BY <1>1, <1>2, <1>4 DEF Contract!uni_tcp_recv, Contract!Next

\* Sending succeeds, fails after a time, or finds the connection reset.
LEMMA SendContract ==
    ASSUME Timed, SocketInv, NEW u \in Users, NEW t \in Timeouts,
           Send(u, t) \/ SendFails(u, t)
    PROVE  Contract!Next
<1>0. sock[u] # NoSocket
    BY DEF Send, SendFails, Sending, Using
<1>1. link[u] # 0
    BY <1>0, Seen
<1>2. CASE Sending(u, t, "sent") \/ Sending(u, t, "failed")
    <2>1. /\ \/ result' = [result EXCEPT ![u] = <<t, "sent">>]
             \/ result' = [result EXCEPT ![u] = <<t, "failed">>]
          /\ UNCHANGED <<peer, sent, received, link>>
        BY <1>2 DEF Sending, Answers, kernelVars
    <2>2. Ended' = Ended
        BY <2>1 DEF Ended
    <2>3. Contract!uni_tcp_send(u, t)
        BY <1>1, <2>1, <2>2
           DEF Contract!uni_tcp_send, Contract!MayFail, Contract!Returns, Timed, Ended
    <2> QED  BY <2>3 DEF Contract!Next
<1>3. CASE Using(u) /\ Reset(u, t)
    <2>1. /\ Contract!Ended(u)
          /\ result' = [result EXCEPT ![u] = <<t, "failed">>]
          /\ UNCHANGED <<link, sent, received, Ended>>
        BY <1>0, <1>3, ResetContract
    <2>2. Contract!uni_tcp_send(u, t)
        BY <1>1, <2>1
           DEF Contract!uni_tcp_send, Contract!MayFail, Contract!Returns, Ended
    <2> QED  BY <2>2 DEF Contract!Next
<1> QED  BY <1>2, <1>3 DEF Send, SendFails

LEMMA DestroyContract ==
    ASSUME SocketInv, NEW u \in Users, uni_tcp_destroy(u)
    PROVE  Contract!Next
<1> DEFINE l == Here(u)
<1>1. /\ sock[u] # NoSocket
      /\ peer' = [peer EXCEPT ![l] = "none"]
      /\ sent' = [sent EXCEPT ![l] = 0]
      /\ received' = [received EXCEPT ![u] = <<>>]
      /\ result' = [result EXCEPT ![u] = <<0, "none">>]
      /\ link' = [link EXCEPT ![u] = 0]
    BY DEF uni_tcp_destroy, Using, Answers
<1>2. l \in Links /\ link[u] = l
    BY <1>1, OwnConnection
<1> HIDE DEF l
<1>3. Ended' = Ended \ {l}
    <2>1. \A m \in Links : peer'[m] = IF m = l THEN "none" ELSE peer[m]
        BY <1>1 DEF SocketInv, SocketTypes
    <2> QED  BY <2>1 DEF Ended
<1>4. Contract!uni_tcp_destroy(u)
    BY <1>1, <1>2, <1>3 DEF Contract!uni_tcp_destroy, Contract!Returns, Ended
<1> QED  BY <1>4 DEF Contract!Next

LEMMA ServerContract ==
    ASSUME SocketInv, Server
    PROVE  [Contract!Next]_(Contract!vars)
<1> PICK l \in Links : Arrive(l) \/ End(l)
    BY DEF Server
<1>1. CASE Arrive(l)
    <2>1. /\ peer[l] = "open" /\ sent[l] < MaxPieces
          /\ sent' = [sent EXCEPT ![l] = sent[l] + 1]
          /\ UNCHANGED <<peer, received, result, link>>
        BY <1>1 DEF Arrive, userVars
    <2>2. l \notin Ended /\ Ended' = Ended
        BY <2>1 DEF Ended
    <2>3. Contract!Server(l)
        BY <2>1, <2>2 DEF Contract!Server, Ended
    <2> QED  BY <2>3 DEF Contract!Next, Contract!Links
<1>2. CASE End(l)
    <2>1. /\ peer[l] \in {"open", "shut"}
          /\ \E p \in {"shut", "reset", "lost"} : peer' = [peer EXCEPT ![l] = p]
          /\ UNCHANGED <<sent, received, result, link>>
        BY <1>2 DEF End, userVars
    <2>2. Ended' = Ended \cup {l}
        <3>1. \A m \in Links : m # l => peer'[m] = peer[m]
            BY <2>1 DEF SocketInv, SocketTypes
        <3>2. peer'[l] \in {"shut", "reset", "lost"}
            BY <2>1 DEF SocketInv, SocketTypes
        <3> QED  BY <3>1, <3>2 DEF Ended
    <2>3. CASE l \in Ended
        <3>1. Ended' = Ended
            BY <2>2, <2>3
        <3> QED  BY <2>1, <3>1, Stutters
    <2>4. CASE l \notin Ended
        <3>1. Contract!Server(l)
            BY <2>1, <2>2, <2>4 DEF Contract!Server, Ended
        <3> QED  BY <3>1 DEF Contract!Next, Contract!Links
    <2> QED  BY <2>3, <2>4
<1> QED  BY <1>1, <1>2

\* The stages of a call are nothing to the contract; each return is one of its
\* steps.
LEMMA NextContract ==
    ASSUME Timed
    PROVE  SocketInv /\ AnswerInv /\ [SocketNext]_socketVars
              => [Contract!Next]_(Contract!vars)
<1> SUFFICES ASSUME SocketInv, AnswerInv, [SocketNext]_socketVars
             PROVE  [Contract!Next]_(Contract!vars)
    OBVIOUS
<1>1. CASE UNCHANGED <<link, sent, received, result, peer>>
    <2>1. Ended' = Ended
        BY <1>1 DEF Ended
    <2> QED  BY <1>1, <2>1, Stutters
<1>2. ASSUME NEW u \in Users, \/ Socket(u) \/ SocketFails(u) \/ ConnectFails(u)
                              \/ \E t \in Timeouts : Select(u, t)
      PROVE  UNCHANGED <<link, sent, received, result, peer>>
    BY <1>2 DEF Socket, SocketFails, ConnectFails, Select, kernelVars
<1>3. CASE Killed \/ UNCHANGED socketVars
    <2>1. UNCHANGED <<link, sent, received, result, peer>>
        BY <1>3 DEF Killed, socketVars, kernelVars, userVars
    <2> QED  BY <1>1, <2>1
<1>4. ASSUME NEW u \in Users, uni_tcp_connect(u) \/ uni_tcp_recv(u)
      PROVE  [Contract!Next]_(Contract!vars)
    BY <1>1, <1>2, <1>4, ConnectContract, RecvContract, RecvEndContract, RecvFailsContract,
       SelectFailsContract DEF uni_tcp_connect, uni_tcp_recv
<1>5. ASSUME NEW u \in Users, uni_tcp_send(u) \/ uni_tcp_destroy(u)
      PROVE  [Contract!Next]_(Contract!vars)
    BY <1>3, <1>5, SendContract, DestroyContract DEF uni_tcp_send, SendKilled
<1> QED  BY <1>3, <1>4, <1>5, ServerContract DEF SocketNext

-----------------------------------------------------------------------------
\* Each step of a session is a step of its sockets or leaves them alone.
LEMMA SessionSockets == [Next]_vars => [SocketNext]_socketVars
<1> SUFFICES ASSUME [Next]_vars PROVE [SocketNext]_socketVars
    OBVIOUS
<1>1. ASSUME NEW s \in Users, CallerStep(s)
      PROVE  SocketNext \/ UNCHANGED socketVars
    BY <1>1 DEF CallerStep, uni_sem_init, SemInitFails, uni_thread_create, NoHandle,
                ThreadCreateFails, StoreHandle, uni_sem_wait, uni_sem_destroy, SocketNext
<1>2. ASSUME NEW s \in Users, ThreadStep(s)
      PROVE  SocketNext \/ UNCHANGED socketVars
    BY <1>2 DEF ThreadStep, uni_thread_detach, Try, Tried, Request, SemPost, CondSignal,
                Receive, Stop, uni_thread_destroy, SocketNext, uni_tcp_connect, uni_tcp_send
<1> QED  BY <1>1, <1>2 DEF Next, SocketNext, vars

LEMMA SessionSocketsAlways == Spec => SocketSpec
BY SessionSockets, PTL DEF Spec, SocketSpec, Init

Past == {"signal", "recv", "free", "gone"}

\* How far the caller and its thread can be from each other, and what each has
\* left behind.
Pair(s) ==
    /\ start[s] \in {"init", "create"} => run[s] = "none"
    /\ start[s] \in {"store", "wait"} => run[s] # "none"
    /\ start[s] \in {"up", "clean", "failed"} => run[s] \in {"none"} \cup Past
    /\ run[s] \notin {"none", "detach"} => detached[s]
    /\ start[s] \in {"init", "create", "store"} => ~handle[s]
    /\ start[s] = "store" \/ handle[s] => block[s] = "live"

Pairs == \A s \in Users : Pair(s)

\* The types of what a session has besides its sockets.
SessionTypes ==
    /\ start \in [Users -> {"init", "create", "store", "wait", "clean", "up", "failed"}]
    /\ run \in [Users -> {"none", "detach", "connect", "send", "drop", "post",
                          "signal", "recv", "free", "gone"}]
    /\ tries \in [Users -> 0 .. Tries]
    /\ sem \in [Users -> {"none", "live", "freed"}]
    /\ value \in [Users -> {0, 1}]
    /\ block \in [Users -> {"none", "live", "freed"}]
    /\ handle \in [Users -> BOOLEAN]
    /\ detached \in [Users -> BOOLEAN]

SessionInv == SessionTypes /\ Pairs /\ ToldOnce

LEMMA InitSession == Init => SessionInv
<1> SUFFICES ASSUME Init PROVE SessionInv
    OBVIOUS
<1>1. SessionTypes
    BY TriesAssumption DEF Init, SessionTypes
<1>2. Pairs /\ ToldOnce
    BY DEF Init, Pairs, Pair, ToldOnce
<1> QED  BY <1>1, <1>2 DEF SessionInv

\* The other sessions are left alone.
LEMMA OtherSessions ==
    ASSUME SessionTypes, NEW s \in Users, CallerStep(s) \/ ThreadStep(s),
           NEW r \in Users, r # s
    PROVE  /\ start'[r] = start[r] /\ run'[r] = run[r] /\ value'[r] = value[r]
           /\ block'[r] = block[r] /\ detached'[r] = detached[r] /\ handle'[r] = handle[r]
<1>1. CASE CallerStep(s)
    BY <1>1 DEF SessionTypes, CallerStep, uni_sem_init, SemInitFails, uni_thread_create,
                NoHandle, ThreadCreateFails, StoreHandle, uni_sem_wait, uni_sem_destroy,
                Caller, sessionVars
<1>2. CASE ThreadStep(s)
    <2>1. start' = start
        BY <1>2 DEF ThreadStep, uni_thread_detach, Try, Tried, Request, SemPost, CondSignal,
                    Receive, Stop, uni_thread_destroy, sessionVars
    <2>2. run' = run \/ \E w : run' = [run EXCEPT ![s] = w]
        BY <1>2 DEF ThreadStep, uni_thread_detach, Try, Tried, Request, SemPost, CondSignal,
                    Receive, Stop, uni_thread_destroy, Thread, sessionVars
    <2>3. /\ value' = value \/ value' = [value EXCEPT ![s] = value[s] + 1]
          /\ block' = block \/ block' = [block EXCEPT ![s] = "freed"]
          /\ detached' = detached \/ detached' = [detached EXCEPT ![s] = TRUE]
          /\ handle' = handle \/ handle' = [handle EXCEPT ![s] = FALSE]
        BY <1>2 DEF ThreadStep, uni_thread_detach, Try, Tried, Request, SemPost, CondSignal,
                    Receive, Stop, uni_thread_destroy, sessionVars
    <2>4. run'[r] = run[r]
        BY <2>2 DEF SessionTypes
    <2> QED  BY <2>1, <2>3, <2>4 DEF SessionTypes
<1> QED  BY <1>1, <1>2

\* What a step of the caller does to its own session.
LEMMA CallerOwn ==
    ASSUME SessionInv, NEW s \in Users, CallerStep(s)
    PROVE  /\ SessionTypes' /\ Pair(s)'
           /\ value'[s] = IF run'[s] \in Past /\ start'[s] \in {"store", "wait"}
                          THEN 1 ELSE 0
<1> USE DEF SessionInv
<1>0. /\ Pair(s)
      /\ value[s] = IF run[s] \in Past /\ start[s] \in {"store", "wait"} THEN 1 ELSE 0
      /\ value[s] \in {0, 1}
    BY DEF Pairs, ToldOnce, SessionTypes, Past
<1>1. CASE uni_sem_init(s) \/ SemInitFails(s) \/ NoHandle(s) \/ StoreHandle(s)
           \/ uni_sem_destroy(s)
    <2>1. SessionTypes'
        BY <1>1 DEF SessionTypes, uni_sem_init, SemInitFails, NoHandle, StoreHandle,
                    uni_sem_destroy, Caller, sessionVars
    <2>2. UNCHANGED <<run, value, block, detached>>
        BY <1>1 DEF uni_sem_init, SemInitFails, NoHandle, StoreHandle, uni_sem_destroy,
                    sessionVars
    <2>3. \/ start'[s] = start[s] /\ handle'[s] = handle[s]
          \/ start[s] = "init" /\ start'[s] \in {"create", "failed"} /\ handle'[s] = handle[s]
          \/ start[s] = "store" /\ start'[s] = "wait"
          \/ start[s] = "clean" /\ start'[s] = "failed" /\ handle'[s] = handle[s]
        BY <1>1 DEF SessionTypes, uni_sem_init, SemInitFails, NoHandle, StoreHandle,
                    uni_sem_destroy, Caller, sessionVars
    <2> QED  BY <1>0, <2>1, <2>2, <2>3 DEF Pair
<1>2. CASE uni_thread_create(s)
    <2>1. SessionTypes'
        BY <1>2 DEF SessionTypes, uni_thread_create, Caller
    <2>2. /\ start[s] = "create" /\ start'[s] = "store" /\ run'[s] = "detach"
          /\ block'[s] = "live" /\ UNCHANGED <<value, handle, detached>>
        BY <1>2 DEF SessionTypes, uni_thread_create, Caller
    <2> QED  BY <1>0, <2>1, <2>2 DEF Pair, Past
<1>3. CASE ThreadCreateFails(s)
    <2>1. SessionTypes'
        BY <1>3 DEF SessionTypes, ThreadCreateFails, Caller
    <2>2. /\ start[s] = "create" /\ start'[s] = "clean" /\ UNCHANGED <<run, value, handle, detached>>
        BY <1>3 DEF SessionTypes, ThreadCreateFails, Caller
    <2> QED  BY <1>0, <2>1, <2>2 DEF Pair, Past
<1>4. CASE uni_sem_wait(s)
    <2>1. /\ start[s] = "wait" /\ start'[s] \in {"up", "clean"} /\ value[s] = 1
          /\ value' = [value EXCEPT ![s] = value[s] - 1]
          /\ UNCHANGED <<run, tries, sem, block, handle, detached>>
        BY <1>0, <1>4 DEF SessionTypes, uni_sem_wait, Caller
    <2>2. value'[s] = 0 /\ value' \in [Users -> {0, 1}]
        BY <2>1 DEF SessionTypes
    <2>3. SessionTypes'
        BY <1>4, <2>1, <2>2 DEF SessionTypes, uni_sem_wait, Caller
    <2> QED  BY <1>0, <2>1, <2>2, <2>3 DEF Pair
<1> QED  BY <1>1, <1>2, <1>3, <1>4 DEF CallerStep

\* What a step of the thread does to its own session.
LEMMA ThreadOwn ==
    ASSUME SessionInv, NEW s \in Users, ThreadStep(s)
    PROVE  /\ SessionTypes' /\ Pair(s)'
           /\ value'[s] = IF run'[s] \in Past /\ start'[s] \in {"store", "wait"}
                          THEN 1 ELSE 0
<1> USE DEF SessionInv
<1>0. /\ Pair(s)
      /\ value[s] = IF run[s] \in Past /\ start[s] \in {"store", "wait"} THEN 1 ELSE 0
      /\ value[s] \in {0, 1} /\ start[s] \in {"init", "create", "store", "wait", "clean",
                                              "up", "failed"}
    BY DEF Pairs, ToldOnce, SessionTypes, Past
<1>1. CASE uni_thread_detach(s)
    <2>1. SessionTypes'
        BY <1>1 DEF SessionTypes, uni_thread_detach, Thread
    <2>2. /\ run[s] = "detach" /\ run'[s] = "connect" /\ detached'[s] = TRUE
          /\ UNCHANGED <<start, value, block, handle>>
        BY <1>1 DEF SessionTypes, uni_thread_detach, Thread
    <2> QED  BY <1>0, <2>1, <2>2 DEF Pair, Past
<1>2. CASE Try(s) \/ Tried(s) \/ Request(s)
    <2>1. UNCHANGED <<start, sem, value, block, handle, detached>>
        BY <1>2 DEF Try, Tried, Request
    <2>2. /\ run[s] \in {"connect", "send", "drop"}
          /\ \/ run' = run
             \/ \E w \in {"connect", "send", "drop", "post"} : run' = [run EXCEPT ![s] = w]
        <3>1. CASE Try(s)
            BY <3>1 DEF Try, Thread
        <3>2. CASE Tried(s)
            BY <3>2 DEF Tried, Thread
        <3>3. CASE Request(s)
            BY <3>3 DEF Request, Thread
        <3> QED  BY <1>2, <3>1, <3>2, <3>3
    <2>3. tries' = tries \/ (tries[s] < Tries /\ tries' = [tries EXCEPT ![s] = tries[s] + 1])
        BY <1>2 DEF Try, Tried, Request
    <2>4. tries' \in [Users -> 0 .. Tries]
        BY <2>3, TriesAssumption DEF SessionTypes
    <2>5. run' \in [Users -> {"none", "detach", "connect", "send", "drop", "post",
                              "signal", "recv", "free", "gone"}]
        BY <2>2 DEF SessionTypes
    <2>6. SessionTypes'
        BY <2>1, <2>4, <2>5 DEF SessionTypes
    <2>7. run'[s] \in {"connect", "send", "drop", "post"}
        BY <2>2 DEF SessionTypes
    <2> QED  BY <1>0, <2>1, <2>2, <2>6, <2>7 DEF Pair, Past
<1>3. CASE SemPost(s)
    <2>1. /\ run[s] = "post" /\ run' = [run EXCEPT ![s] = "signal"]
          /\ value' = [value EXCEPT ![s] = value[s] + 1]
          /\ UNCHANGED <<start, tries, sem, block, handle, detached>>
        BY <1>3 DEF SemPost, Thread
    <2>2. start[s] \in {"store", "wait"} /\ value[s] = 0
        BY <1>0, <2>1 DEF Pair, Past
    <2>3. value'[s] = 1 /\ value' \in [Users -> {0, 1}]
        BY <2>1, <2>2 DEF SessionTypes
    <2>4. run'[s] = "signal"
        BY <2>1 DEF SessionTypes
    <2>5. SessionTypes'
        BY <2>1, <2>3 DEF SessionTypes
    <2> QED  BY <1>0, <2>1, <2>2, <2>3, <2>4, <2>5 DEF Pair, Past
<1>4. CASE CondSignal(s) \/ Receive(s) \/ Stop(s)
    <2>1. UNCHANGED <<start, tries, sem, value, block, handle, detached>>
        BY <1>4 DEF CondSignal, Receive, Stop, sessionVars
    <2>2. /\ run[s] \in {"signal", "recv"}
          /\ run' = run \/ \E w \in {"recv", "free"} : run' = [run EXCEPT ![s] = w]
        BY <1>4 DEF CondSignal, Receive, Stop, Thread, sessionVars
    <2>3. SessionTypes'
        BY <2>1, <2>2 DEF SessionTypes
    <2>4. run'[s] \in {"signal", "recv", "free"}
        BY <2>2 DEF SessionTypes
    <2> QED  BY <1>0, <2>1, <2>2, <2>3, <2>4 DEF Pair, Past
<1>5. CASE uni_thread_destroy(s)
    <2>1. /\ run[s] = "free" /\ run' = [run EXCEPT ![s] = "gone"]
          /\ block' = IF handle[s] THEN [block EXCEPT ![s] = "freed"] ELSE block
          /\ handle' = [handle EXCEPT ![s] = FALSE]
          /\ UNCHANGED <<start, tries, sem, value, detached>>
        BY <1>5 DEF uni_thread_destroy, Thread
    <2>2. SessionTypes'
        BY <2>1 DEF SessionTypes
    <2>3. run'[s] = "gone" /\ handle'[s] = FALSE
        BY <2>1 DEF SessionTypes
    <2>4. block'[s] = IF handle[s] THEN "freed" ELSE block[s]
        BY <2>1 DEF SessionTypes
    <2>5. start[s] = "store" => ~handle[s]
        BY <1>0, <2>1 DEF Pair
    <2> QED  BY <1>0, <2>1, <2>2, <2>3, <2>4, <2>5 DEF Pair, Past
<1> QED  BY <1>1, <1>2, <1>3, <1>4, <1>5 DEF ThreadStep

LEMMA NextSession == SessionInv /\ [Next]_vars => SessionInv'
<1> SUFFICES ASSUME SessionInv, [Next]_vars PROVE SessionInv'
    OBVIOUS
<1>1. CASE UNCHANGED sessionVars
    BY <1>1 DEF sessionVars, SessionInv, SessionTypes, Pairs, Pair, ToldOnce
<1>2. ASSUME NEW s \in Users, CallerStep(s) \/ ThreadStep(s)
      PROVE  SessionInv'
    <2>1. /\ SessionTypes' /\ Pair(s)'
          /\ value'[s] = IF run'[s] \in Past /\ start'[s] \in {"store", "wait"} THEN 1 ELSE 0
        BY <1>2, CallerOwn, ThreadOwn
    <2>2. ASSUME NEW r \in Users, r # s
          PROVE  /\ start'[r] = start[r] /\ run'[r] = run[r] /\ value'[r] = value[r]
                 /\ block'[r] = block[r] /\ detached'[r] = detached[r]
                 /\ handle'[r] = handle[r]
        BY <1>2, <2>2, OtherSessions DEF SessionInv
    <2>3. Pairs'
        BY <2>1, <2>2 DEF SessionInv, Pairs, Pair
    <2>4. ToldOnce'
        BY <2>1, <2>2 DEF SessionInv, ToldOnce, Past
    <2> QED  BY <2>1, <2>3, <2>4 DEF SessionInv
<1> QED  BY <1>1, <1>2 DEF Next, vars

LEMMA SessionAlways == Spec => []SessionInv
BY InitSession, NextSession, PTL DEF Spec

-----------------------------------------------------------------------------
\* All variables keep their types, for any number of sessions, attempts and
\* pieces (uni_socket.c:54-128, platform.c:56-232).
THEOREM TypeCorrect == Spec => []TypeOK
<1>1. SocketInv /\ AnswerInv /\ SessionInv => TypeOK
    BY DEF SocketInv, SocketTypes, AnswerInv, AnswerTypes, SessionInv, SessionTypes, TypeOK,
           SocketTypeOK
<1> QED  BY <1>1, SocketsAlways, AnswersAlways, SessionSocketsAlways, SessionAlways, PTL

\* Whatever fails inside uni_tcp_connect, a descriptor is open exactly if a
\* thread has it, and two threads never have the same (uni_socket.c:54-102).
THEOREM NoDescriptorLost == Spec => []DescriptorsOwned
<1>1. SocketInv => DescriptorsOwned
    BY DEF SocketInv
<1> QED  BY <1>1, SocketsAlways, SessionSocketsAlways, PTL

\* A thread receives what was sent on its own connection, in order and without
\* a gap, though descriptors are used again (uni_socket.c:109-128).
THEOREM StreamIsOwn == Spec => []OwnStream
<1>1. SocketInv => OwnStream
    BY DEF SocketInv
<1> QED  BY <1>1, SocketsAlways, SessionSocketsAlways, PTL

\* However the creator's store and the thread's end are ordered, a handle that can
\* be used leads to memory not given back, and a thread that has ended is detached
\* (platform.c:47-114).
THEOREM ThreadGivesBack == Spec => []ThreadReleased
<1>1. SessionInv => ThreadReleased
    BY DEF SessionInv, Pairs, Pair, ThreadReleased
<1> QED  BY <1>1, SessionAlways, PTL

\* The caller of a session is told once, however the attempts to connect fail
\* (platform.c:193-214).
THEOREM CallerTold == Spec => []ToldOnce
<1>1. SessionInv => ToldOnce
    BY DEF SessionInv
<1> QED  BY <1>1, SessionAlways, PTL

\* Whoever calls the functions and in whatever order, what they return is what the
\* header promises, if they are given times to wait: with -1 among the timeouts it
\* is not so, since select refuses it (uni_socket.c:54-128, uni_platform.h:57-126).
THEOREM SocketsImplement ==
    ASSUME Timed
    PROVE  SocketSpec => ContractSpec
<1>1. SocketInit => Contract!Init
    BY InitContract
<1>2. SocketInv /\ AnswerInv /\ [SocketNext]_socketVars => [Contract!Next]_(Contract!vars)
    BY NextContract
<1> QED  BY <1>1, <1>2, SocketsAlways, AnswersAlways, PTL
         DEF SocketSpec, ContractSpec, Contract!Spec

\* So it is in sessions (uni_socket.c:54-128, uni_platform.h:57-126).
THEOREM SessionImplements ==
    ASSUME Timed
    PROVE  Spec => ContractSpec
BY SessionSocketsAlways, SocketsImplement, PTL
=============================================================================
