------------------------------ MODULE WsFrame ------------------------------
(***************************************************************************)
(* Cutting a WebSocket peer's bytes into frames: ParseFrame, which the     *)
(* read callback calls with each chunk once the handshake is complete.     *)
(* The network chooses the chunks.  The loop of ParseFrame is taken one    *)
(* pass at a time, because it need not end.                                *)
(*                                                                         *)
(* A pass over one of the first three fields of a frame takes the whole    *)
(* rest of the chunk into buffer_, whatever the field needs; what it does  *)
(* not need stays there for the field that follows.                        *)
(*                                                                         *)
(* What the application makes of a frame, and the state of the connection, *)
(* is module WsConnection's business.                                      *)
(***************************************************************************)
EXTENDS Naturals, Sequences, FiniteSets, SequencesExt

CONSTANT Streams     \* what a peer may send: sequences of frames

Byte == 0 .. 255

(* The lengths that fit in two bytes.                                      *)
Length16 == { n \in Nat : n < 65536 }

(* A frame of the peer: masked by a key or not, the key then empty.  Its   *)
(* length is in the header, or in the 2 or 8 bytes that follow it.         *)
Frame == [opcode : 0 .. 15, key : Seq(Byte), lengthBytes : {0, 2, 8},
          payload : Seq(Byte)]

ASSUME StreamsAssumption ==
  \A fs \in Streams :
    /\ fs \in Seq(Frame)
    /\ \A i \in DOMAIN fs :
         /\ Len(fs[i].key) \in {0, 4}
         /\ Len(fs[i].payload) \in IF fs[i].lengthBytes = 0 THEN 0 .. 125
                                                           ELSE Length16

VARIABLES
  frames,          \* what the peer sends
  unread,          \* the bytes of it the server has not read
  chunk,           \* ParseFrame's ptr .. end
  parsing,         \* ParseFrame is in its loop
  parse_state_,
  current_frame_,
  bytes_read_,
  buffer_,
  handled,         \* the frames given to a Process function
  wellCut          \* history: no chunk held bytes of two fields so far

parserVars == <<parse_state_, current_frame_, bytes_read_, buffer_>>
vars == <<frames, unread, chunk, parsing, parserVars, handled, wellCut>>

States == {"READ_HEADER", "READ_PAYLOAD_LENGTH", "READ_MASKING_KEY",
           "READ_PAYLOAD"}

TypeOK ==
  /\ frames \in Streams
  /\ unread \in Seq(Byte)
  /\ chunk \in Seq(Byte)
  /\ parsing \in BOOLEAN
  /\ parse_state_ \in States
  /\ current_frame_ \in [opcode : 0 .. 15, masked : BOOLEAN,
                         payload_length : Length16, masking_key : Seq(Byte)]
  /\ bytes_read_ \in Nat
  /\ buffer_ \in Seq(Byte)
  /\ handled \in Seq([opcode : 0 .. 15, payload : Seq(Byte)])
  /\ wellCut \in BOOLEAN

------------------------------------------------------------------------------
(* Bytes.                                                                  *)

(* The bit of weight w.                                                    *)
Bit(a, w) == (a \div w) % 2

Xor(a, b) ==
  LET bit(w) == IF Bit(a, w) = Bit(b, w) THEN 0 ELSE w
  IN  bit(1) + bit(2) + bit(4) + bit(8) + bit(16) + bit(32) + bit(64) + bit(128)

Drop(s, n) == SubSeq(s, n + 1, Len(s))

(* Faulty variant of Unmask: the key is taken from its second byte on.     *)
UnmaskShifted(s, key) == [i \in 1 .. Len(s) |-> Xor(s[i], key[(i % 4) + 1])]

Unmask(s, key) == [i \in 1 .. Len(s) |-> Xor(s[i], key[((i - 1) % 4) + 1])]

(* A frame on the wire, field by field (RFC 6455, 5.2 and 5.3).            *)
Fields(f) ==
  LET n    == Len(f.payload)
      mask == IF f.key = <<>> THEN 0 ELSE 128
  IN  << <<128 + f.opcode,
           mask + (CASE f.lengthBytes = 0 -> n
                     [] f.lengthBytes = 2 -> 126
                     [] f.lengthBytes = 8 -> 127)>>,
         CASE f.lengthBytes = 0 -> <<>>
           [] f.lengthBytes = 2 -> <<(n \div 256), (n % 256)>>
           [] f.lengthBytes = 8 -> <<0, 0, 0, 0, 0, 0, (n \div 256), (n % 256)>>,
         f.key,
         IF f.key = <<>> THEN f.payload
         ELSE [i \in DOMAIN f.payload |->
                 Xor(f.payload[i], f.key[1 + ((i + 3) % 4)])] >>

Wire(fs) == FlattenSeq([i \in 1 .. Len(fs) |-> FlattenSeq(Fields(fs[i]))])

NoFrame ==
  [opcode |-> 0, masked |-> FALSE, payload_length |-> 0,
   masking_key |-> <<0, 0, 0, 0>>]

Init ==
  /\ frames \in Streams
  /\ unread = Wire(frames)
  /\ chunk = <<>>
  /\ parsing = FALSE
  /\ parse_state_ = "READ_HEADER"
  /\ current_frame_ = NoFrame
  /\ bytes_read_ = 0
  /\ buffer_ = <<>>
  /\ handled = <<>>
  /\ wellCut = \A i \in 1 .. Len(frames) : frames[i].lengthBytes # 8

------------------------------------------------------------------------------
(* The number of bytes of the stream before each end of a field.           *)
FieldEnds ==
  LET all == FlattenSeq([i \in 1 .. Len(frames) |-> Fields(frames[i])])
  IN  { Len(FlattenSeq(SubSeq(all, 1, k))) : k \in 1 .. Len(all) }

BytesRead == Len(Wire(frames)) - Len(unread)

(* The read callback with n bytes.                                         *)
OnDataReceived(n) ==
  /\ ~parsing
  /\ chunk' = SubSeq(unread, 1, n)
  /\ unread' = Drop(unread, n)
  /\ parsing' = TRUE
  /\ wellCut' = /\ wellCut
                /\ FieldEnds \cap (BytesRead + 1 .. BytesRead + n - 1) = {}
  /\ UNCHANGED <<frames, parserVars, handled>>

(* The loop goes round in the given state.                                 *)
Pass(state) == parsing /\ chunk # <<>> /\ parse_state_ = state

(* The bytes of the field once the rest of the chunk is taken, and whether *)
(* they are the needed number.  When buffer_ holds that many already, the  *)
(* code does nothing, not even take the chunk.                             *)
Gathered == buffer_ \o chunk

Complete(needed) == bytes_read_ + Len(chunk) >= needed

Gather(needed) ==
  /\ bytes_read_ < needed
  /\ chunk' = <<>>
  /\ \/ /\ Complete(needed)
        /\ buffer_' = Drop(Gathered, needed)
        /\ bytes_read_' = bytes_read_ + Len(chunk) - needed
     \/ /\ ~Complete(needed)
        /\ buffer_' = Gathered
        /\ bytes_read_' = bytes_read_ + Len(chunk)
        /\ UNCHANGED <<parse_state_, current_frame_>>
  /\ UNCHANGED <<frames, unread, parsing, handled, wellCut>>

(* Faulty variant of Opcode: FIN and the reserved bits stay in.            *)
FirstByte(b) == b

Opcode(b) == b % 16

ReadHeader ==
  /\ Pass("READ_HEADER")
  /\ Gather(2)
  /\ Complete(2) =>
       LET length == Gathered[2] % 128
       IN  /\ current_frame_' =
                [current_frame_ EXCEPT
                   !.opcode = Opcode(Gathered[1]),
                   !.masked = Gathered[2] >= 128,
                   !.payload_length = IF length < 126 THEN length ELSE 0]
           /\ parse_state_' = IF length < 126 THEN "READ_MASKING_KEY"
                                              ELSE "READ_PAYLOAD_LENGTH"

(* The size of the length field.  ReadHeader leaves 0 for both sizes, so   *)
(* it is always 2, and the value fits 16 bits.                             *)
LengthSize == IF current_frame_.payload_length = 0 THEN 2 ELSE 8

ReadPayloadLength ==
  /\ Pass("READ_PAYLOAD_LENGTH")
  /\ Gather(LengthSize)
  /\ Complete(LengthSize) =>
       /\ current_frame_' =
            [current_frame_ EXCEPT
               !.payload_length = Gathered[1] * 256 + Gathered[2]]
       /\ parse_state_' = "READ_MASKING_KEY"

ReadMaskingKey ==
  /\ Pass("READ_MASKING_KEY")
  /\ current_frame_.masked
  /\ Gather(4)
  /\ Complete(4) =>
       /\ current_frame_' =
            [current_frame_ EXCEPT !.masking_key = SubSeq(Gathered, 1, 4)]
       /\ parse_state_' = "READ_PAYLOAD"

(* Faulty variant of SkipMaskingKey: the state stays.                      *)
StayAtMaskingKey ==
  /\ Pass("READ_MASKING_KEY")
  /\ ~current_frame_.masked
  /\ UNCHANGED vars

SkipMaskingKey ==
  /\ Pass("READ_MASKING_KEY")
  /\ ~current_frame_.masked
  /\ parse_state_' = "READ_PAYLOAD"
  /\ UNCHANGED <<frames, unread, chunk, parsing, current_frame_, bytes_read_,
                 buffer_, handled, wellCut>>

(* to_read: a needed that would be negative is a huge size_t.              *)
PayloadTaken ==
  IF Len(buffer_) > current_frame_.payload_length THEN Len(chunk)
  ELSE LET needed == current_frame_.payload_length - Len(buffer_)
       IN  IF needed < Len(chunk) THEN needed ELSE Len(chunk)

(* The opcodes with a Process function: text, binary, close, ping, pong.   *)
Processed == {1, 2, 8, 9, 10}

(* Faulty variant of FrameDone: bytes_read_ is not reset.                  *)
FrameDoneButCount(payload) ==
  /\ handled' =
       IF current_frame_.opcode \in Processed
       THEN Append(handled, [opcode |-> current_frame_.opcode,
                             payload |-> payload])
       ELSE handled
  /\ buffer_' = <<>>
  /\ parse_state_' = "READ_HEADER"
  /\ current_frame_' = NoFrame
  /\ UNCHANGED bytes_read_

(* The frame is handled, and the parser is reset.                          *)
FrameDone(payload) ==
  /\ handled' =
       IF current_frame_.opcode \in Processed
       THEN Append(handled, [opcode |-> current_frame_.opcode,
                             payload |-> payload])
       ELSE handled
  /\ buffer_' = <<>>
  /\ bytes_read_' = 0
  /\ parse_state_' = "READ_HEADER"
  /\ current_frame_' = NoFrame

ReadPayload ==
  /\ Pass("READ_PAYLOAD")
  /\ chunk' = Drop(chunk, PayloadTaken)
  /\ LET data == buffer_ \o SubSeq(chunk, 1, PayloadTaken)
     IN  \/ /\ Len(data) < current_frame_.payload_length
            /\ buffer_' = data
            /\ UNCHANGED <<parse_state_, current_frame_, bytes_read_, handled>>
         \/ /\ Len(data) >= current_frame_.payload_length
            /\ FrameDone(IF current_frame_.masked
                         THEN Unmask(data, current_frame_.masking_key)
                         ELSE data)
  /\ UNCHANGED <<frames, unread, parsing, wellCut>>

ParseFrameReturns ==
  /\ parsing /\ chunk = <<>>
  /\ parsing' = FALSE
  /\ UNCHANGED <<frames, unread, chunk, parserVars, handled, wellCut>>

Loop ==
  \/ ReadHeader \/ ReadPayloadLength \/ ReadMaskingKey \/ SkipMaskingKey
  \/ ReadPayload \/ ParseFrameReturns

Next ==
  \/ \E n \in 1 .. Len(unread) : OnDataReceived(n)
  \/ ReadHeader \/ ReadPayloadLength \/ ReadMaskingKey \/ SkipMaskingKey
  \/ ReadPayload \/ ParseFrameReturns

(* The loop is a loop: it runs until it ends.                              *)
Spec == Init /\ [][Next]_vars /\ WF_vars(Loop)

------------------------------------------------------------------------------
(***************************************************************************)
(* bytes_read_ and buffer_ are kept by separate statements, and the first  *)
(* three fields look at the one and erase from the other: they agree,      *)
(* whatever a chunk left behind for the field or the frame after it.       *)
(***************************************************************************)
CountIsBuffer ==
  parse_state_ # "READ_PAYLOAD" => bytes_read_ = Len(buffer_)

(* What a Process function should get of a frame.                          *)
Decoded(f) == [opcode |-> f.opcode, payload |-> f.payload]

Expected(fs) ==
  FlattenSeq([i \in 1 .. Len(fs) |->
                IF fs[i].opcode \in Processed THEN <<Decoded(fs[i])>> ELSE <<>>])

(* The number of frames whose last byte the server has read.               *)
Arrived ==
  Cardinality({ k \in 1 .. Len(frames) :
                  Len(Wire(SubSeq(frames, 1, k))) <= BytesRead })

(***************************************************************************)
(* As long as no chunk holds bytes of two fields, and no frame has a       *)
(* 64-bit length, the frames handled are exactly the frames that have      *)
(* arrived, unmasked, in order; only a frame without payload waits for the *)
(* next byte.                                                              *)
(***************************************************************************)
DecodesWellCut ==
  wellCut /\ ~parsing =>
    \/ handled = Expected(SubSeq(frames, 1, Arrived))
    \/ /\ Arrived > 0
       /\ frames[Arrived].payload = <<>>
       /\ handled = Expected(SubSeq(frames, 1, Arrived - 1))

(* A field, or more, was left in buffer_ by the field before it.           *)
Overfull ==
  \/ parse_state_ = "READ_PAYLOAD_LENGTH" /\ bytes_read_ >= LengthSize
  \/ /\ parse_state_ = "READ_MASKING_KEY"
     /\ current_frame_.masked /\ bytes_read_ >= 4

(***************************************************************************)
(* ParseFrame returns, for every division into chunks and whatever the     *)
(* bytes, but for the one case in which its loop does nothing for ever:    *)
(* the key or the length was in buffer_ before its turn came.              *)
(***************************************************************************)
LoopReturns == parsing ~> ~parsing \/ Overfull

------------------------------------------------------------------------------
(***************************************************************************)
(* The example session with wscat shows every line echoed: a frame that    *)
(* has arrived is handled.  But a masked frame that arrives in one chunk   *)
(* stays in buffer_, with its key, and the next chunk finds it there.      *)
(***************************************************************************)
ArrivedIsHandled ==
  ~parsing /\ unread = <<>> => handled = Expected(frames)
=============================================================================
