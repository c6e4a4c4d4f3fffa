----------------------------- MODULE TcpServer -----------------------------
(***************************************************************************)
(* One listener of a TcpServer and the connections it accepts: the limit   *)
(* on connections, the count it is checked against, the connection ids,    *)
(* and what the listener does with a peer it does not take.  A connection  *)
(* is no more than its phase here (module ConnLifecycle); what Send does   *)
(* to it is module TcpConnection's business.                               *)
(*                                                                         *)
(* libuv's listener is modelled by what the code relies on: it takes a     *)
(* peer from the kernel, keeps its descriptor in accepted_fd and calls the *)
(* connection callback.  A callback that returns without uv_accept leaves  *)
(* the descriptor there, and the listener stops polling until uv_accept is *)
(* called; nothing but the callback ever calls it.                         *)
(***************************************************************************)
EXTENDS Naturals, Sequences, FiniteSets

CONSTANTS
  Conns,            \* peers that may connect; each connects once
  MaxConnections,   \* ServerConfig::max_connections_
  IdSpace,          \* number of connection ids: 2^32 for the uint32_t
  NoConn            \* no descriptor in accepted_fd

ASSUME ServerAssumption ==
  /\ IsFiniteSet(Conns)
  /\ MaxConnections \in Nat
  /\ IdSpace \in Nat \ {0}
  /\ NoConn \notin Conns

VARIABLES
  phase,                 \* what has become of each peer
  accepted_fd,           \* the peer libuv has taken and nobody accepted
  current_connections_,
  conn_id_counter_,
  conn_id_,              \* the id of each accepted connection
  order                  \* history: the connections, as they were accepted

vars == <<phase, accepted_fd, current_connections_, conn_id_counter_,
          conn_id_, order>>

(* A peer before it has a connection object, and when it gets none.        *)
Outside == {"absent", "backlog", "held", "rejected"}

LiveHandle == {"open", "draining", "closing", "dropping"}

Inside == LiveHandle \cup {"dropped", "aborted"}

Gone == {"deleted"}

In(S) == {c \in Conns : phase[c] \in S}

TypeOK ==
  /\ phase \in [Conns -> Outside \cup Inside \cup Gone]
  /\ accepted_fd \in Conns \cup {NoConn}
  /\ current_connections_ \in Nat
  /\ conn_id_counter_ \in 0 .. IdSpace - 1
  /\ conn_id_ \in [Conns -> 0 .. IdSpace - 1]
  /\ order \in Seq(Conns)

Init ==
  /\ phase = [c \in Conns |-> "absent"]
  /\ accepted_fd = NoConn
  /\ current_connections_ = 0
  /\ conn_id_counter_ = 0
  /\ conn_id_ = [c \in Conns |-> 0]
  /\ order = <<>>

Running == In({"aborted"}) = {}

Becomes(c, p) == phase' = [phase EXCEPT ![c] = p]

------------------------------------------------------------------------------
(* A peer connects: the kernel queues it for the listener.                 *)
Connect(c) ==
  /\ Running
  /\ phase[c] = "absent"
  /\ Becomes(c, "backlog")
  /\ UNCHANGED <<accepted_fd, current_connections_, conn_id_counter_,
                 conn_id_, order>>

(* The listener polls, and peer c is the next it takes from the kernel.    *)
Polls(c) == Running /\ accepted_fd = NoConn /\ phase[c] = "backlog"

(* Faulty variant of LimitReached: one connection too many.                *)
LimitExceeded == current_connections_ > MaxConnections

LimitReached == current_connections_ >= MaxConnections

(* The connection callback at the limit: it returns, and that is all.      *)
RefuseAtLimit(c) ==
  /\ Polls(c)
  /\ LimitReached
  /\ accepted_fd' = c
  /\ Becomes(c, "held")
  /\ UNCHANGED <<current_connections_, conn_id_counter_, conn_id_, order>>

(* Faulty variants of NextId: the counter that grows without end, and the  *)
(* counter that stays.                                                     *)
NextIdUnbounded(n) == n + 1

SameId(n) == n

(* What ++ makes of the 32-bit counter.                                    *)
NextId(n) == (n + 1) % IdSpace

(* Faulty variant of CountedOn: OnNewConnection is called twice.           *)
CountedTwice(n) == n + 2

(* OnNewConnection, which then calls the application.                      *)
CountedOn(n) == n + 1

(* The connection callback: uv_accept, the id, OnNewConnection.            *)
Accept(c) ==
  /\ Polls(c)
  /\ ~LimitReached
  /\ Becomes(c, "open")
  /\ conn_id_' = [conn_id_ EXCEPT ![c] = conn_id_counter_]
  /\ conn_id_counter_' = NextId(conn_id_counter_)
  /\ current_connections_' = CountedOn(current_connections_)
  /\ order' = Append(order, c)
  /\ UNCHANGED accepted_fd

(* The connection callback when uv_accept fails: libuv closes the peer's   *)
(* descriptor and polls on, the new object is deleted.                     *)
AcceptFails(c) ==
  /\ Polls(c)
  /\ ~LimitReached
  /\ Becomes(c, "rejected")
  /\ UNCHANGED <<accepted_fd, current_connections_, conn_id_counter_,
                 conn_id_, order>>

------------------------------------------------------------------------------
HandleOpen == {"open", "draining"}

(* Steps of one connection that its server does not see: those of          *)
(* ConnLifecycle, taken by one peer of many.                               *)
Unseen(c, from, to) ==
  /\ Running
  /\ phase[c] \in from
  /\ Becomes(c, to)
  /\ UNCHANGED <<accepted_fd, current_connections_, conn_id_counter_,
                 conn_id_, order>>

CloseAtOnce(c)  == Unseen(c, {"open"}, "closing")
DeferClose(c)   == Unseen(c, {"open"}, "draining")
QueueDrained(c) == Unseen(c, {"draining"}, "closing")
ReadEnds(c)     == Unseen(c, HandleOpen, "dropping")
HandleDropped(c) == Unseen(c, {"dropping"}, "dropped")
CloseAgain(c)   == Unseen(c, {"dropping", "dropped"}, "aborted")

(* Faulty variant of CountedOff: nothing is counted off.                   *)
NotCountedOff(n) == n

(* OnClose's decrement, and the test before it.                            *)
CountedOff(n) == IF n > 0 THEN n - 1 ELSE n

(* The close callback that Close passes to uv_close: OnClose and delete.   *)
OnClose(c) ==
  /\ Running
  /\ phase[c] = "closing"
  /\ Becomes(c, "deleted")
  /\ current_connections_' = CountedOff(current_connections_)
  /\ UNCHANGED <<accepted_fd, conn_id_counter_, conn_id_, order>>

------------------------------------------------------------------------------
ConnectionCallback(c) == RefuseAtLimit(c) \/ Accept(c) \/ AcceptFails(c)

Next ==
  \E c \in Conns :
    \/ Connect(c)
    \/ RefuseAtLimit(c) \/ Accept(c) \/ AcceptFails(c)
    \/ CloseAtOnce(c) \/ DeferClose(c) \/ QueueDrained(c)
    \/ ReadEnds(c) \/ HandleDropped(c) \/ CloseAgain(c)
    \/ OnClose(c)

Spec == Init /\ [][Next]_vars

(***************************************************************************)
(* The loop runs: a listener that polls takes the peers that wait, and a   *)
(* closing handle gets its close callback.                                 *)
(***************************************************************************)
Fairness ==
  \A c \in Conns :
    /\ WF_vars(ConnectionCallback(c))
    /\ WF_vars(OnClose(c) \/ HandleDropped(c))

FairSpec == Spec /\ Fairness

------------------------------------------------------------------------------
(***************************************************************************)
(* The count is exactly the number of connections accepted and not yet     *)
(* reported to OnClose, whatever the order in which they come and go: the  *)
(* guard in OnClose never hides a missing increment, and no connection is  *)
(* counted off twice.                                                      *)
(***************************************************************************)
CountMatchesObjects == current_connections_ = Cardinality(In(Inside))

(* There are never more open handles of connections than the limit allows. *)
LimitRespected == Cardinality(In(LiveHandle)) <= MaxConnections

(***************************************************************************)
(* And the limit turns nobody away too early: a peer is refused only while *)
(* MaxConnections connections have been accepted and not reported closed,  *)
(* however many came and went before.  A refusal stops the listener, so    *)
(* one that a count adrift causes would end the service for good.          *)
(***************************************************************************)
RefusedOnlyAtLimit ==
  [][\A c \in Conns : phase[c] = "backlog" /\ phase'[c] = "held"
                       => Cardinality(In(Inside)) >= MaxConnections]_vars

(***************************************************************************)
(* Connection ids are drawn from a counter that wraps: any IdSpace         *)
(* connections accepted in a row have different ids.                       *)
(***************************************************************************)
IdsDistinctInWindow ==
  \A i, j \in 1 .. Len(order) :
    i < j /\ j - i < IdSpace => conn_id_[order[i]] # conn_id_[order[j]]

------------------------------------------------------------------------------
(***************************************************************************)
(* What comments of the source say, and the code does not do.              *)
(***************************************************************************)

(***************************************************************************)
(* The read callback at a read error: "Close is triggered by the read      *)
(* error, the logic is handled inside Close()", which ends with the close  *)
(* callback, OnClose and delete.  But the callback closes the handle with  *)
(* no close callback and does not tell the object: the connection is never *)
(* counted off nor deleted, and its next Close closes the handle again.    *)
(***************************************************************************)
ReadErrorCloses ==
  \A c \in Conns : phase[c] = "dropping" ~> phase[c] = "deleted"

(***************************************************************************)
(* At the limit the callback "may choose to close or to refuse" the peer,  *)
(* so the limit turns away one peer at a time: if there is room again and  *)
(* again, every peer that waits is taken.  But the callback leaves the     *)
(* peer in accepted_fd, and the listener never polls again.                *)
(***************************************************************************)
ServedWhenThereIsRoom ==
  \A c \in Conns :
    []<>(~LimitReached)
      => (phase[c] = "backlog" ~> phase[c] # "backlog" \/ ~Running)
=============================================================================
