---------------------------- MODULE MCTcpServer ----------------------------
(***************************************************************************)
(* Model checking of TcpServer.  Four peers, room for two, three ids: the  *)
(* limit is met while others come and go, and the counter wraps.           *)
(***************************************************************************)
EXTENDS TcpServer
=============================================================================
