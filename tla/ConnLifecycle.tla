--------------------------- MODULE ConnLifecycle ---------------------------
(***************************************************************************)
(* The life of one accepted connection as its server sees it.  There are   *)
(* two ways out.  Close, at once or after the queue has drained, ends with *)
(* OnClose and the deletion of the object.  A read error or the peer's end *)
(* of file closes the handle and tells nobody: the object stays, and a     *)
(* later Close on it, by the application or by the heartbeat that is still *)
(* running, closes the handle a second time and aborts the process.        *)
(*                                                                         *)
(* Module TcpConnection is shown to implement this specification; the      *)
(* connections of module TcpServer take its steps.                         *)
(***************************************************************************)
VARIABLE phase

Phases == {"open", "draining", "closing", "deleted",
           "dropping", "dropped", "aborted"}

Init == phase = "open"

CloseAtOnce == phase = "open" /\ phase' = "closing"

DeferClose == phase = "open" /\ phase' = "draining"

QueueDrained == phase = "draining" /\ phase' = "closing"

ReadEnds == phase \in {"open", "draining"} /\ phase' = "dropping"

(* The close callback of either way.                                       *)
HandleClosed ==
  \/ phase = "closing" /\ phase' = "deleted"
  \/ phase = "dropping" /\ phase' = "dropped"

CloseAgain == phase \in {"dropping", "dropped"} /\ phase' = "aborted"

Next ==
  \/ CloseAtOnce \/ DeferClose \/ QueueDrained
  \/ ReadEnds \/ HandleClosed \/ CloseAgain

Spec == Init /\ [][Next]_phase
=============================================================================
