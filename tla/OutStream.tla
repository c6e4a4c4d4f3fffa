----------------------------- MODULE OutStream -----------------------------
(***************************************************************************)
(* What the outgoing side of one TCP connection promises to the code that  *)
(* calls Send: the messages it accepts are put on the wire one after the   *)
(* other, in the order they were accepted, none twice and none skipped;    *)
(* a deliberate close lets everything accepted before it go out first; a   *)
(* failure may cut the stream short but never reorders it.                 *)
(*                                                                         *)
(* Nothing here knows of queues, write requests, handles or timers: module *)
(* TcpConnection is shown to implement this specification.                 *)
(***************************************************************************)
EXTENDS Naturals, Sequences

CONSTANT Messages        \* payloads an application may send

VARIABLES accepted,      \* messages taken over from the application, in order
          written,       \* messages the transport has finished writing, in order
          mode           \* "open", "draining", "finished" or "failed"

vars == <<accepted, written, mode>>

Init ==
  /\ accepted = <<>>
  /\ written = <<>>
  /\ mode = "open"

(***************************************************************************)
(* Take over a message.  A stream that failed may go on taking messages    *)
(* (the application has not been told yet); one that is draining may not.  *)
(***************************************************************************)
Accept ==
  /\ mode \in {"open", "failed"}
  /\ \E m \in Messages : accepted' = Append(accepted, m)
  /\ UNCHANGED <<written, mode>>

Deliverable == Len(written) < Len(accepted)

DeliverNext == written' = Append(written, accepted[Len(written) + 1])

Deliver ==
  /\ mode # "finished"
  /\ Deliverable
  /\ DeliverNext
  /\ UNCHANGED <<accepted, mode>>

(* A deliberate close while messages are still under way.                  *)
Drain ==
  /\ mode = "open"
  /\ mode' = "draining"
  /\ UNCHANGED <<accepted, written>>

(***************************************************************************)
(* The stream ends as the application asked, with the delivery of the last *)
(* message or because there was none left: everything accepted is written. *)
(***************************************************************************)
Finish ==
  /\ mode \in {"open", "draining"}
  /\ \/ Deliverable /\ DeliverNext
     \/ UNCHANGED written
  /\ written' = accepted
  /\ mode' = "finished"
  /\ UNCHANGED accepted

(* The peer went away or a write failed.                                   *)
Fail ==
  /\ mode \in {"open", "draining"}
  /\ mode' = "failed"
  /\ UNCHANGED <<accepted, written>>

Next == Accept \/ Deliver \/ Drain \/ Finish \/ Fail

Spec == Init /\ [][Next]_vars
=============================================================================
