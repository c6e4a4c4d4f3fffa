----------------------------- MODULE MCWsFrame -----------------------------
(***************************************************************************)
(* Model checking of WsFrame: every stream of one or two of the frames     *)
(* below, cut in every way.  There are masked frames and plain ones,       *)
(* without payload, with one byte and with more, a payload longer than     *)
(* the key, a length in 2 bytes and one in 8, and an opcode that nobody    *)
(* processes.                                                              *)
(***************************************************************************)
EXTENDS WsFrame

Key == <<55, 250, 33, 61>>

Of(opcode, key, lengthBytes, payload) ==
  [opcode |-> opcode, key |-> key, lengthBytes |-> lengthBytes,
   payload |-> payload]

Samples ==
  { Of(1, Key, 0, <<72, 101, 108, 108, 111>>),
    Of(1, Key, 2, <<129>>),
    Of(9, Key, 0, <<>>),
    Of(2, <<>>, 0, <<7, 130>>),
    Of(8, <<>>, 2, <<3, 232, 1>>),
    Of(0, <<>>, 0, <<9>>),
    Of(1, Key, 8, <<65>>),
    Of(2, <<>>, 8, <<66, 67>>) }

MCStreams == UNION { [1 .. n -> Samples] : n \in 1 .. 2 }

(* One line typed into wscat.                                              *)
OneLine == { <<Of(1, Key, 0, <<72, 105>>)>> }
=============================================================================
