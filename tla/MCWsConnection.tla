--------------------------- MODULE MCWsConnection ---------------------------
(***************************************************************************)
(* Model checking of WsConnection.  Two payloads and three sends through a *)
(* queue of two, two control frames among them, and two handshakes: enough *)
(* for a second response under way when the first one opens the connection *)
(* and for a close frame behind a deferred close.                          *)
(***************************************************************************)
EXTENDS WsConnection
=============================================================================
