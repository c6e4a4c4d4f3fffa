---------------------------- MODULE MCUdpServer ----------------------------
(***************************************************************************)
(* Model checking of UdpServer: two sockets that share the pool.  As in    *)
(* the default configuration the buffer, of 6 bytes here, is shorter than  *)
(* the largest package, of 8.  The datagrams are one that is cut behind    *)
(* its package, one whose package is longer than the buffer, one that      *)
(* fills the buffer, a size that is too small, and an empty one.           *)
(***************************************************************************)
EXTENDS UdpServer

MCDatagrams == { <<0, 0, 0, 4, 1, 2, 3>>, <<0, 0, 0, 7, 1, 2, 3>>,
                 <<0, 0, 0, 6, 1, 2>>, <<0, 0, 0, 3, 1>>, <<>> }
=============================================================================
