---------------------------- MODULE TcpContract ----------------------------
(***************************************************************************)
(* What the header asks of the functions in struct uni_socket_opt          *)
(* (src/lib/include/uni_platform.h:57-126), wherever they return: a        *)
(* connection is a stream.  Receiving gives what the server sent on this   *)
(* connection, in order and without a gap; 0, the length of nothing, comes *)
(* only at its end.  A call that fails returns -1 and leaves the stream    *)
(* alone.  A timeout of -1 waits without one: such a call fails only on a  *)
(* connection that has ended.                                              *)
(*                                                                         *)
(* There are no clocks here, so that how long a call with a timeout waits  *)
(* is not said, nor that a call returns.                                   *)
(***************************************************************************)
EXTENDS Integers, Sequences

CONSTANTS
    Users,      \* callers, each with at most one connection
    Timeouts,   \* timeout_ms of uni_tcp_recv and uni_tcp_send
    MaxLinks,   \* bound: connections
    MaxPieces   \* bound: pieces the server sends on a connection

Links == 1 .. MaxLinks
Piece == Links \X (1 .. MaxPieces)

VARIABLES
    link,       \* per user: its connection; 0: none
    sent,       \* per connection: pieces the server sent
    ended,      \* connections the server has ended
    received,   \* per user: the pieces received on its connection
    result      \* per user: timeout_ms and outcome of the last call on its
                \* connection: "none", "sent", "data", "end" (0) or "failed" (-1)

vars == <<link, sent, ended, received, result>>

Init ==
    /\ link = [u \in Users |-> 0]
    /\ sent = [l \in Links |-> 0]
    /\ ended = {}
    /\ received = [u \in Users |-> <<>>]
    /\ result = [u \in Users |-> <<0, "none">>]

Returns(u, t, outcome) == result' = [result EXCEPT ![u] = <<t, outcome>>]

uni_tcp_connect(u) ==
    /\ link[u] = 0
    /\ \E l \in Links \ {link[v] : v \in Users} :
          /\ sent[l] = 0 /\ l \notin ended
          /\ link' = [link EXCEPT ![u] = l]
    /\ UNCHANGED <<sent, ended, received, result>>

NextPiece(u)   == <<link[u], Len(received[u]) + 1>>
NothingLeft(u) == Len(received[u]) = sent[link[u]]
Ended(u)       == link[u] \in ended

\* A call that was not given a time goes on as long as the connection does.
MayFail(u, t) == t >= 0 \/ Ended(u)

Gives(u, t) ==
    /\ Len(received[u]) < sent[link[u]]
    /\ received' = [received EXCEPT ![u] = Append(@, NextPiece(u))]
    /\ Returns(u, t, "data")
    /\ UNCHANGED <<link, sent, ended>>

GivesNothing(u, t) ==
    /\ NothingLeft(u)
    /\ \/ Ended(u) /\ Returns(u, t, "end")
       \/ MayFail(u, t) /\ Returns(u, t, "failed")
    /\ UNCHANGED <<link, sent, ended, received>>

uni_tcp_recv(u, t) == link[u] # 0 /\ (Gives(u, t) \/ GivesNothing(u, t))

uni_tcp_send(u, t) ==
    /\ link[u] # 0
    /\ \/ Returns(u, t, "sent")
       \/ MayFail(u, t) /\ Returns(u, t, "failed")
    /\ UNCHANGED <<link, sent, ended, received>>

uni_tcp_destroy(u) ==
    /\ link[u] # 0
    /\ link' = [link EXCEPT ![u] = 0]
    /\ received' = [received EXCEPT ![u] = <<>>]
    /\ Returns(u, 0, "none")
    /\ sent' = [sent EXCEPT ![link[u]] = 0]
    /\ ended' = ended \ {link[u]}

Server(l) ==
    /\ l \notin ended
    /\ \/ /\ sent[l] < MaxPieces
          /\ sent' = [sent EXCEPT ![l] = @ + 1]
          /\ UNCHANGED ended
       \/ ended' = ended \cup {l} /\ UNCHANGED sent
    /\ UNCHANGED <<link, received, result>>

Next ==
    \/ \E u \in Users : uni_tcp_connect(u) \/ uni_tcp_destroy(u)
    \/ \E u \in Users, t \in Timeouts : uni_tcp_recv(u, t) \/ uni_tcp_send(u, t)
    \/ \E l \in Links : Server(l)

Spec == Init /\ [][Next]_vars
=============================================================================
