-------------------------- MODULE MCTcpConnection --------------------------
(***************************************************************************)
(* Model checking of TcpConnection.  Two payloads and four sends through a *)
(* queue of two: enough for a full queue behind a write under way, for a   *)
(* message refused and a later one accepted, and for a reordering to show. *)
(***************************************************************************)
EXTENDS TcpConnection
=============================================================================
