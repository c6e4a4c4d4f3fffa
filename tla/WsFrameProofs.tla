--------------------------- MODULE WsFrameProofs ---------------------------
(***************************************************************************)
(* Proofs about cutting a WebSocket peer's bytes into frames: the theorems *)
(* hold for any streams of frames and any chunks.                          *)
(***************************************************************************)
EXTENDS WsFrame, SequenceLemmas, FiniteSetTheorems

(* What the fields of the parser have to do with one another: the two      *)
(* counts agree, a length field is read with no length known, so it is 2   *)
(* bytes long, and there are always four bytes of key.                     *)
ParserInv ==
  /\ CountIsBuffer
  /\ parse_state_ = "READ_PAYLOAD_LENGTH" => current_frame_.payload_length = 0
  /\ Len(current_frame_.masking_key) = 4

------------------------------------------------------------------------------
(* What a peer sends is bytes.                                             *)

LEMMA XorIsByte ==
  ASSUME NEW a, NEW b
  PROVE  Xor(a, b) \in Byte
BY SMT DEF Xor, Byte

LEMMA TwoBytes ==
  ASSUME NEW n \in Length16
  PROVE  n \div 256 \in Byte /\ n % 256 \in Byte
<1>1. n \in Nat /\ n < 65536
  BY SMT DEF Length16
<1>2. n \div 256 \in Int
  BY <1>1, SMT
<1>3. n \div 256 >= 0
  BY <1>1, SMT
<1>4. n \div 256 < 256
  BY <1>1, SMT
<1>5. n % 256 \in 0 .. 255
  BY <1>1, SMT
<1>. HIDE <1>1
<1>. QED
  BY <1>2, <1>3, <1>4, <1>5, SMT DEF Byte

(* And the other way.                                                      *)
LEMMA TwoBytesFit ==
  ASSUME NEW high \in Byte, NEW low \in Byte
  PROVE  /\ high * 256 + low \in Length16
         /\ (high * 256 + low) \div 256 = high
         /\ (high * 256 + low) % 256 = low
<1>1. /\ high \in Int /\ 0 <= high /\ high <= 255
      /\ low \in Int /\ 0 <= low /\ low <= 255
  BY SMT DEF Byte
<1>2. high * 256 + low \in Length16
  BY <1>1, SMT DEF Length16
<1>3. (high * 256 + low) \div 256 = high /\ (high * 256 + low) % 256 = low
  BY <1>1, SMT
<1>. QED
  BY <1>2, <1>3, Zenon

(* A byte is the sum of its bits.                                          *)
LEMMA BitsOfSum ==
  ASSUME NEW x1 \in {0, 1}, NEW x2 \in {0, 1}, NEW x3 \in {0, 1},
         NEW x4 \in {0, 1}, NEW x5 \in {0, 1}, NEW x6 \in {0, 1},
         NEW x7 \in {0, 1}, NEW x8 \in {0, 1}, NEW s,
         s = x1 + 2 * x2 + 4 * x3 + 8 * x4 + 16 * x5 + 32 * x6 + 64 * x7 + 128 * x8
  PROVE  /\ Bit(s, 1) = x1 /\ Bit(s, 2) = x2 /\ Bit(s, 4) = x3 /\ Bit(s, 8) = x4
         /\ Bit(s, 16) = x5 /\ Bit(s, 32) = x6 /\ Bit(s, 64) = x7
         /\ Bit(s, 128) = x8
<1>1. Bit(s, 1) = x1
  BY SMT DEF Bit
<1>2. Bit(s, 2) = x2
  BY SMT DEF Bit
<1>3. Bit(s, 4) = x3
  BY SMT DEF Bit
<1>4. Bit(s, 8) = x4
  BY SMT DEF Bit
<1>5. Bit(s, 16) = x5
  BY SMT DEF Bit
<1>6. Bit(s, 32) = x6
  BY SMT DEF Bit
<1>7. Bit(s, 64) = x7
  BY SMT DEF Bit
<1>8. Bit(s, 128) = x8
  BY SMT DEF Bit
<1>. QED
  BY <1>1, <1>2, <1>3, <1>4, <1>5, <1>6, <1>7, <1>8

LEMMA SumOfBits ==
  ASSUME NEW a \in Byte
  PROVE  /\ Bit(a, 1) \in {0, 1} /\ Bit(a, 2) \in {0, 1} /\ Bit(a, 4) \in {0, 1}
         /\ Bit(a, 8) \in {0, 1} /\ Bit(a, 16) \in {0, 1}
         /\ Bit(a, 32) \in {0, 1} /\ Bit(a, 64) \in {0, 1}
         /\ Bit(a, 128) \in {0, 1}
         /\ a = Bit(a, 1) + 2 * Bit(a, 2) + 4 * Bit(a, 4) + 8 * Bit(a, 8)
                + 16 * Bit(a, 16) + 32 * Bit(a, 32) + 64 * Bit(a, 64)
                + 128 * Bit(a, 128)
<1>1. /\ Bit(a, 1) \in {0, 1} /\ Bit(a, 2) \in {0, 1} /\ Bit(a, 4) \in {0, 1}
      /\ Bit(a, 8) \in {0, 1} /\ Bit(a, 16) \in {0, 1}
      /\ Bit(a, 32) \in {0, 1} /\ Bit(a, 64) \in {0, 1}
      /\ Bit(a, 128) \in {0, 1}
  BY SMT DEF Byte, Bit
<1>2. a = Bit(a, 1) + 2 * Bit(a, 2) + 4 * Bit(a, 4) + 8 * Bit(a, 8)
                + 16 * Bit(a, 16) + 32 * Bit(a, 32) + 64 * Bit(a, 64)
                + 128 * Bit(a, 128)
  BY SMT DEF Byte, Bit
<1>. QED
  BY <1>1, <1>2

LEMMA XorTwice ==
  ASSUME NEW a \in Byte, NEW b \in Byte
  PROVE  Xor(Xor(a, b), b) = a
<1>1. PICK x1 \in {0, 1}, x2 \in {0, 1}, x3 \in {0, 1}, x4 \in {0, 1},
           x5 \in {0, 1}, x6 \in {0, 1}, x7 \in {0, 1}, x8 \in {0, 1} :
        /\ x1 = Bit(a, 1) /\ x2 = Bit(a, 2) /\ x3 = Bit(a, 4) /\ x4 = Bit(a, 8)
        /\ x5 = Bit(a, 16) /\ x6 = Bit(a, 32) /\ x7 = Bit(a, 64)
        /\ x8 = Bit(a, 128)
  <2>1. /\ Bit(a, 1) \in {0, 1} /\ Bit(a, 2) \in {0, 1} /\ Bit(a, 4) \in {0, 1}
        /\ Bit(a, 8) \in {0, 1} /\ Bit(a, 16) \in {0, 1}
        /\ Bit(a, 32) \in {0, 1} /\ Bit(a, 64) \in {0, 1}
        /\ Bit(a, 128) \in {0, 1}
    BY SumOfBits
  <2>. QED
    BY <2>1
<1>2. PICK z1 \in {0, 1}, z2 \in {0, 1}, z3 \in {0, 1}, z4 \in {0, 1},
           z5 \in {0, 1}, z6 \in {0, 1}, z7 \in {0, 1}, z8 \in {0, 1} :
        /\ z1 = Bit(b, 1) /\ z2 = Bit(b, 2) /\ z3 = Bit(b, 4) /\ z4 = Bit(b, 8)
        /\ z5 = Bit(b, 16) /\ z6 = Bit(b, 32) /\ z7 = Bit(b, 64)
        /\ z8 = Bit(b, 128)
  <2>1. /\ Bit(b, 1) \in {0, 1} /\ Bit(b, 2) \in {0, 1} /\ Bit(b, 4) \in {0, 1}
        /\ Bit(b, 8) \in {0, 1} /\ Bit(b, 16) \in {0, 1}
        /\ Bit(b, 32) \in {0, 1} /\ Bit(b, 64) \in {0, 1}
        /\ Bit(b, 128) \in {0, 1}
    BY SumOfBits
  <2>. QED
    BY <2>1
<1>3. a = x1 + 2 * x2 + 4 * x3 + 8 * x4 + 16 * x5 + 32 * x6 + 64 * x7 + 128 * x8
  BY <1>1, SumOfBits
<1> DEFINE d(x, z) == IF x = z THEN 0 ELSE 1
<1>4. PICK y1 \in {0, 1}, y2 \in {0, 1}, y3 \in {0, 1}, y4 \in {0, 1},
           y5 \in {0, 1}, y6 \in {0, 1}, y7 \in {0, 1}, y8 \in {0, 1} :
        /\ y1 = d(x1, z1) /\ y2 = d(x2, z2) /\ y3 = d(x3, z3) /\ y4 = d(x4, z4)
        /\ y5 = d(x5, z5) /\ y6 = d(x6, z6) /\ y7 = d(x7, z7) /\ y8 = d(x8, z8)
  OBVIOUS
<1>5. PICK c : c = Xor(a, b)
  OBVIOUS
<1>6. c = y1 + 2 * y2 + 4 * y3 + 8 * y4 + 16 * y5 + 32 * y6 + 64 * y7 + 128 * y8
  BY <1>1, <1>2, <1>4, <1>5 DEF Xor
<1>7. /\ y1 = Bit(c, 1) /\ y2 = Bit(c, 2) /\ y3 = Bit(c, 4) /\ y4 = Bit(c, 8)
      /\ y5 = Bit(c, 16) /\ y6 = Bit(c, 32) /\ y7 = Bit(c, 64)
      /\ y8 = Bit(c, 128)
  BY <1>6, BitsOfSum
<1>8. Xor(c, b) = x1 + 2 * x2 + 4 * x3 + 8 * x4 + 16 * x5 + 32 * x6 + 64 * x7
                  + 128 * x8
  BY <1>2, <1>4, <1>7 DEF Xor
<1>. QED
  BY <1>3, <1>5, <1>8, Zenon

(* The mask of a payload comes off.                                        *)
LEMMA UnmaskMasked ==
  ASSUME NEW p \in Seq(Byte), NEW key \in Seq(Byte), Len(key) = 4,
         NEW s, s = [i \in DOMAIN p |-> Xor(p[i], key[1 + ((i + 3) % 4)])]
  PROVE  Len(s) = Len(p) /\ Unmask(s, key) = p
<1>1. PICK n \in Nat : n = Len(p) /\ DOMAIN p = 1 .. n
  BY LenProperties
<1>2. s = [i \in 1 .. n |-> Xor(p[i], key[1 + ((i + 3) % 4)])]
  BY <1>1, Zenon
<1>3. Len(s) = n
  BY <1>2
<1>4. Unmask(s, key) = [i \in 1 .. n |-> Xor(s[i], key[((i - 1) % 4) + 1])]
  BY <1>3, Zenon DEF Unmask
<1>5. ASSUME NEW i \in 1 .. n
      PROVE  Xor(s[i], key[((i - 1) % 4) + 1]) = p[i]
  <2>1. PICK j \in 1 .. 4 : j = ((i - 1) % 4) + 1 /\ j = 1 + ((i + 3) % 4)
    OBVIOUS
  <2>2. key[j] \in Byte
    <3>1. j \in 1 .. Len(key)
      BY <2>1, Zenon
    <3>. QED
      BY <3>1, ElementOfSeq
  <2>3. p[i] \in Byte
    BY <1>1
  <2>4. Xor(Xor(p[i], key[j]), key[j]) = p[i]
    BY <2>2, <2>3, XorTwice
  <2>5. s[i] = Xor(p[i], key[1 + ((i + 3) % 4)])
    BY <1>2, Zenon
  <2>. QED
    BY <2>1, <2>4, <2>5, Zenon
<1>6. [i \in 1 .. n |-> Xor(s[i], key[((i - 1) % 4) + 1])] = [i \in 1 .. n |-> p[i]]
  BY <1>5, Zenon
<1>7. [i \in 1 .. n |-> p[i]] = p
  BY <1>1
<1>. QED
  BY <1>1, <1>3, <1>4, <1>6, <1>7, Zenon

LEMMA LengthIsNat == Length16 \subseteq Nat
BY SMT DEF Length16

(* What the assumption says of a frame.                                    *)
Sent(f) ==
  /\ f \in Frame
  /\ Len(f.key) \in {0, 4}
  /\ Len(f.payload) \in IF f.lengthBytes = 0 THEN 0 .. 125 ELSE Length16

LEMMA FieldsAreBytes ==
  ASSUME NEW f, Sent(f)
  PROVE  /\ Fields(f) \in Seq(Seq(Byte))
         /\ Len(Fields(f)) = 4
         /\ FlattenSeq(Fields(f)) \in Seq(Byte)
<1>1. /\ f.opcode \in 0 .. 15 /\ f.key \in Seq(Byte)
      /\ f.lengthBytes \in {0, 2, 8} /\ f.payload \in Seq(Byte)
  BY Zenon DEF Sent, Frame
<1>2. PICK n \in Length16 :
        n = Len(f.payload) /\ (f.lengthBytes = 0 => n \in 0 .. 125)
  <2>1. CASE f.lengthBytes = 0
    <3>1. Len(f.payload) \in 0 .. 125
      BY <2>1, Zenon DEF Sent
    <3>2. \A l \in 0 .. 125 : l \in Length16
      BY SMT DEF Length16
    <3>. QED
      BY <3>1, <3>2, Zenon
  <2>2. CASE f.lengthBytes # 0
    <3>1. Len(f.payload) \in Length16
      BY <2>2, Zenon DEF Sent
    <3>. QED
      BY <2>2, <3>1, Zenon
  <2>. QED
    BY <2>1, <2>2
<1> DEFINE mask == IF f.key = <<>> THEN 0 ELSE 128
           second == mask + (CASE f.lengthBytes = 0 -> n
                               [] f.lengthBytes = 2 -> 126
                               [] f.lengthBytes = 8 -> 127)
           header == <<128 + f.opcode, second>>
           size == CASE f.lengthBytes = 0 -> <<>>
                     [] f.lengthBytes = 2 -> <<(n \div 256), (n % 256)>>
                     [] f.lengthBytes = 8 ->
                          <<0, 0, 0, 0, 0, 0, (n \div 256), (n % 256)>>
           data == IF f.key = <<>> THEN f.payload
                   ELSE [i \in DOMAIN f.payload |->
                           Xor(f.payload[i], f.key[1 + ((i + 3) % 4)])]
<1>3. Fields(f) = <<header, size, f.key, data>>
  BY <1>2, Zenon DEF Fields
<1>4. header \in Seq(Byte)
  <2>1. 128 + f.opcode \in Byte
    <3>1. PICK o \in 0 .. 15 : o = f.opcode
      BY <1>1, Zenon
    <3>2. 128 + o \in Byte
      BY SMT DEF Byte
    <3>. QED
      BY <3>1, <3>2, Zenon
  <2>2. second \in Byte
    <3>1. PICK len \in 0 .. 127 :
            len = CASE f.lengthBytes = 0 -> n
                    [] f.lengthBytes = 2 -> 126
                    [] f.lengthBytes = 8 -> 127
      <4>1. CASE f.lengthBytes = 0
        BY <1>2, <4>1, SMT
      <4>2. CASE f.lengthBytes = 2
        BY <4>2, SMT
      <4>3. CASE f.lengthBytes = 8
        BY <4>3, SMT
      <4>. QED
        BY <1>1, <4>1, <4>2, <4>3, Zenon
    <3>2. mask \in {0, 128}
      OBVIOUS
    <3>3. mask + len \in Byte
      BY <3>2, SMT DEF Byte
    <3>. QED
      BY <3>1, <3>3, Zenon
  <2>. HIDE DEF second
  <2>. QED
    BY <2>1, <2>2
<1>5. size \in Seq(Byte)
  <2>1. CASE f.lengthBytes = 0
    <3>1. size = <<>>
      BY <2>1
    <3>. QED
      BY <3>1, Nothing
  <2>2. PICK high \in Byte, low \in Byte : high = n \div 256 /\ low = n % 256
    BY TwoBytes, Zenon
  <2>3. CASE f.lengthBytes = 2
    <3>1. size = <<high, low>>
      <4>1. size = <<(n \div 256), (n % 256)>>
        BY <2>3
      <4>. QED
        BY <2>2, <4>1, Zenon
    <3>2. <<high, low>> \in Seq(Byte)
      OBVIOUS
    <3>. QED
      BY <3>1, <3>2, Zenon
  <2>4. CASE f.lengthBytes = 8
    <3>1. size = <<0, 0, 0, 0, 0, 0, high, low>>
      <4>1. size = <<0, 0, 0, 0, 0, 0, (n \div 256), (n % 256)>>
        BY <2>4
      <4>. QED
        BY <2>2, <4>1, Zenon
    <3>2. 0 \in Byte
      BY DEF Byte
    <3>3. <<0, 0, 0, 0, 0, 0, high, low>> \in Seq(Byte)
      BY <3>2
    <3>. QED
      BY <3>1, <3>3, Zenon
  <2>. QED
    BY <1>1, <2>1, <2>3, <2>4
<1>6. data \in Seq(Byte)
  <2>1. CASE f.key = <<>>
    BY <1>1, <2>1
  <2>2. CASE f.key # <<>>
    <3>1. data = [i \in 1 .. n |-> Xor(f.payload[i], f.key[1 + ((i + 3) % 4)])]
      BY <1>1, <1>2, <2>2
    <3>2. n \in Nat
      BY DEF Length16
    <3>3. \A a, b : Xor(a, b) \in Byte
      BY XorIsByte
    <3>4. \A i \in 1 .. n :
            Xor(f.payload[i], f.key[1 + ((i + 3) % 4)]) \in Byte
      BY <3>3, Zenon
    <3>. QED
      BY <3>1, <3>2, <3>4
  <2>. QED
    BY <2>1, <2>2
<1>. HIDE DEF header, size, data
<1>7. Fields(f) \in Seq(Seq(Byte)) /\ Len(Fields(f)) = 4
  BY <1>1, <1>3, <1>4, <1>5, <1>6
<1>. QED
  BY <1>7, FlattenType

LEMMA HeaderHasTwo ==
  ASSUME NEW f
  PROVE  Len(Fields(f)[1]) = 2
BY DEF Fields

(* What the fields of a frame say, but for a frame with a 64-bit length.   *)
LEMMA TheFields ==
  ASSUME NEW f, Sent(f), f.lengthBytes # 8
  PROVE  /\ f.opcode \in 0 .. 15 /\ f.lengthBytes \in {0, 2}
         /\ Len(f.payload) \in Length16
         /\ f.lengthBytes = 0 => Len(f.payload) < 126
         /\ Len(Fields(f)[1]) = 2
         /\ Opcode(Fields(f)[1][1]) = f.opcode
         /\ (Fields(f)[1][2] >= 128) = (f.key # <<>>)
         /\ (Fields(f)[1][2]) % 128
              = IF f.lengthBytes = 0 THEN Len(f.payload) ELSE 126
         /\ f.lengthBytes = 0 => Fields(f)[2] = <<>>
         /\ f.lengthBytes = 2 =>
              /\ Len(Fields(f)[2]) = 2
              /\ (Fields(f)[2][1]) * 256 + Fields(f)[2][2] = Len(f.payload)
         /\ Fields(f)[3] = f.key
         /\ f.key # <<>> => Len(f.key) = 4
         /\ Len(Fields(f)[4]) = Len(f.payload)
         /\ f.key = <<>> => Fields(f)[4] = f.payload
         /\ f.key # <<>> => Unmask(Fields(f)[4], f.key) = f.payload
<1>1. /\ f.opcode \in 0 .. 15 /\ f.key \in Seq(Byte)
      /\ f.lengthBytes \in {0, 2, 8} /\ f.payload \in Seq(Byte)
      /\ Len(f.key) \in {0, 4}
  BY Zenon DEF Sent, Frame
<1>2. PICK n \in Length16 :
        n = Len(f.payload) /\ (f.lengthBytes = 0 => n \in 0 .. 125)
  <2>1. CASE f.lengthBytes = 0
    <3>1. Len(f.payload) \in 0 .. 125
      BY <2>1, Zenon DEF Sent
    <3>2. \A l \in 0 .. 125 : l \in Length16
      BY SMT DEF Length16
    <3>. QED
      BY <3>1, <3>2, Zenon
  <2>2. CASE f.lengthBytes # 0
    <3>1. Len(f.payload) \in Length16
      BY <2>2, Zenon DEF Sent
    <3>. QED
      BY <2>2, <3>1, Zenon
  <2>. QED
    BY <2>1, <2>2
<1> DEFINE mask == IF f.key = <<>> THEN 0 ELSE 128
           second == mask + (CASE f.lengthBytes = 0 -> n
                               [] f.lengthBytes = 2 -> 126
                               [] f.lengthBytes = 8 -> 127)
           header == <<128 + f.opcode, second>>
           size == CASE f.lengthBytes = 0 -> <<>>
                     [] f.lengthBytes = 2 -> <<(n \div 256), (n % 256)>>
                     [] f.lengthBytes = 8 ->
                          <<0, 0, 0, 0, 0, 0, (n \div 256), (n % 256)>>
           data == IF f.key = <<>> THEN f.payload
                   ELSE [i \in DOMAIN f.payload |->
                           Xor(f.payload[i], f.key[1 + ((i + 3) % 4)])]
<1>3. Fields(f) = <<header, size, f.key, data>>
  BY <1>2, Zenon DEF Fields
<1>4. /\ Len(header) = 2 /\ header[1] = 128 + f.opcode /\ header[2] = second
  OBVIOUS
<1>5. Opcode(128 + f.opcode) = f.opcode
  <2>1. PICK o \in 0 .. 15 : o = f.opcode
    BY <1>1, Zenon
  <2>2. Opcode(128 + o) = o
    BY SMT DEF Opcode
  <2>. QED
    BY <2>1, <2>2, Zenon
<1>6. /\ (second >= 128) = (f.key # <<>>)
      /\ second % 128 = IF f.lengthBytes = 0 THEN n ELSE 126
  <2>1. PICK len \in 0 .. 126 : len = IF f.lengthBytes = 0 THEN n ELSE 126
    <3>1. CASE f.lengthBytes = 0
      BY <1>2, <3>1, SMT
    <3>2. CASE f.lengthBytes # 0
      BY <3>2, SMT
    <3>. QED
      BY <3>1, <3>2, Zenon
  <2>2. second = mask + len
    BY <1>1, <2>1
  <2>3. (mask = 0 /\ f.key = <<>>) \/ (mask = 128 /\ f.key # <<>>)
    OBVIOUS
  <2>. HIDE DEF mask, second
  <2>4. (second >= 128) = (f.key # <<>>)
    BY <2>2, <2>3, SMT
  <2>5. second % 128 = len
    BY <2>2, <2>3, SMT
  <2>. QED
    BY <2>1, <2>4, <2>5, Zenon
<1>7. f.lengthBytes = 0 => size = <<>>
  OBVIOUS
<1>8. f.lengthBytes = 2 => Len(size) = 2 /\ (size[1]) * 256 + size[2] = n
  <2>1. SUFFICES ASSUME f.lengthBytes = 2
                 PROVE  Len(size) = 2 /\ (size[1]) * 256 + size[2] = n
    OBVIOUS
  <2>2. PICK high \in Byte, low \in Byte : high = n \div 256 /\ low = n % 256
    BY TwoBytes, Zenon
  <2>3. size = <<high, low>>
    <3>1. size = <<(n \div 256), (n % 256)>>
      BY <2>1
    <3>. QED
      BY <2>2, <3>1, Zenon
  <2>4. Len(<<high, low>>) = 2 /\ <<high, low>>[1] = high /\ <<high, low>>[2] = low
    OBVIOUS
  <2>5. high * 256 + low = n
    <3>1. n \in Nat
      BY LengthIsNat
    <3>. QED
      BY <2>2, <3>1, SMT
  <2>. QED
    BY <2>3, <2>4, <2>5, Zenon
<1>9. f.key = <<>> => data = f.payload
  OBVIOUS
<1>10. f.key # <<>> => Len(f.key) = 4
  BY <1>1, EmptySeq
<1>11. f.key # <<>> => Len(data) = n /\ Unmask(data, f.key) = f.payload
  <2>1. SUFFICES ASSUME f.key # <<>>
                 PROVE  Len(data) = n /\ Unmask(data, f.key) = f.payload
    OBVIOUS
  <2>2. data = [i \in DOMAIN f.payload |->
                  Xor(f.payload[i], f.key[1 + ((i + 3) % 4)])]
    BY <2>1, Zenon
  <2>. HIDE DEF data
  <2>. QED
    BY <1>1, <1>2, <1>10, <2>1, <2>2, UnmaskMasked
<1>12. f.lengthBytes = 0 => n < 126
  <2>1. \A l \in 0 .. 125 : l < 126
    OBVIOUS
  <2>. QED
    BY <1>2, <2>1, Zenon
<1>. HIDE DEF header, size, data, second
<1>13. /\ Fields(f)[1] = header /\ Fields(f)[2] = size
       /\ Fields(f)[3] = f.key /\ Fields(f)[4] = data
  BY <1>3
<1>14. f.lengthBytes \in {0, 2}
  BY <1>1
<1>15. Len(data) = n
  BY <1>2, <1>9, <1>11, Zenon
<1>16. Opcode(Fields(f)[1][1]) = f.opcode
  BY <1>4, <1>5, <1>13, Zenon
<1>17. /\ (Fields(f)[1][2] >= 128) = (f.key # <<>>)
       /\ (Fields(f)[1][2]) % 128
            = IF f.lengthBytes = 0 THEN Len(f.payload) ELSE 126
  <2>1. Fields(f)[1][2] = second
    BY <1>4, <1>13, Zenon
  <2>. QED
    BY <1>2, <1>6, <2>1
<1>18. f.lengthBytes = 2 =>
         /\ Len(Fields(f)[2]) = 2
         /\ (Fields(f)[2][1]) * 256 + Fields(f)[2][2] = Len(f.payload)
  <2>1. Fields(f)[2] = size
    BY <1>13, Zenon
  <2>. QED
    BY <1>2, <1>8, <2>1
<1>. QED
  BY <1>1, <1>2, <1>4, <1>7, <1>9, <1>10, <1>11, <1>12, <1>13, <1>14, <1>15,
     <1>16, <1>17, <1>18, ZenonT(60)

Sendable(fs) == fs \in Seq(Frame) /\ \A i \in 1 .. Len(fs) : Sent(fs[i])

LEMMA StreamIsSendable ==
  ASSUME NEW fs \in Streams
  PROVE  Sendable(fs)
<1>1. fs \in Seq(Frame) /\ \A i \in DOMAIN fs :
        /\ Len(fs[i].key) \in {0, 4}
        /\ Len(fs[i].payload) \in IF fs[i].lengthBytes = 0 THEN 0 .. 125
                                                          ELSE Length16
  BY StreamsAssumption, Zenon
<1>2. DOMAIN fs = 1 .. Len(fs)
  BY <1>1
<1>3. \A i \in 1 .. Len(fs) : fs[i] \in Frame
  BY <1>1
<1>. QED
  BY <1>1, <1>2, <1>3, Zenon DEF Sent, Sendable

LEMMA WireIsBytes ==
  ASSUME NEW fs, Sendable(fs)
  PROVE  Wire(fs) \in Seq(Byte)
<1> DEFINE all == [i \in 1 .. Len(fs) |-> FlattenSeq(Fields(fs[i]))]
<1>1. Len(fs) \in Nat
  BY LenProperties DEF Sendable
<1>2. \A i \in 1 .. Len(fs) : FlattenSeq(Fields(fs[i])) \in Seq(Byte)
  BY FieldsAreBytes, Zenon DEF Sendable
<1>3. all \in Seq(Seq(Byte))
  BY <1>1, <1>2
<1>. HIDE DEF all
<1>4. FlattenSeq(all) \in Seq(Byte)
  BY <1>3, FlattenType
<1>. QED
  BY <1>4, Zenon DEF Wire, all

------------------------------------------------------------------------------
(* Types, and the parser's fields.                                         *)

FrameType ==
  [opcode : 0 .. 15, masked : BOOLEAN, payload_length : Length16,
   masking_key : Seq(Byte)]

LEMMA NoFrameIsTyped ==
  /\ NoFrame \in FrameType
  /\ NoFrame.payload_length = 0 /\ Len(NoFrame.masking_key) = 4
<1>1. 0 \in Length16
  BY SMT DEF Length16
<1>2. <<0, 0, 0, 0>> \in Seq(Byte) /\ Len(<<0, 0, 0, 0>>) = 4
  BY DEF Byte
<1>3. 0 \in 0 .. 15
  OBVIOUS
<1>. QED
  BY <1>1, <1>2, <1>3, Zenon DEF NoFrame, FrameType

(* The bytes a field finds.                                                *)
LEMMA GatheredIs ==
  ASSUME TypeOK, CountIsBuffer, parse_state_ # "READ_PAYLOAD"
  PROVE  /\ Gathered \in Seq(Byte)
         /\ Len(Gathered) = bytes_read_ + Len(chunk)
         /\ bytes_read_ = Len(buffer_)
<1>1. bytes_read_ = Len(buffer_)
  BY DEF CountIsBuffer
<1>2. chunk \in Seq(Byte) /\ buffer_ \in Seq(Byte)
  BY DEF TypeOK
<1>3. buffer_ \o chunk \in Seq(Byte)
      /\ Len(buffer_ \o chunk) = Len(buffer_) + Len(chunk)
  BY <1>2, ConcatProperties
<1>. QED
  BY <1>1, <1>3, Zenon DEF Gathered

(* What the first three fields do to the buffer and its count.             *)
LEMMA GatherKeeps ==
  ASSUME TypeOK, CountIsBuffer, parse_state_ # "READ_PAYLOAD",
         NEW needed \in Nat, Gather(needed)
  PROVE  /\ chunk' = <<>> /\ chunk' \in Seq(Byte)
         /\ buffer_' \in Seq(Byte) /\ bytes_read_' \in Nat
         /\ bytes_read_' = Len(buffer_')
         /\ UNCHANGED <<frames, unread, parsing, handled, wellCut>>
         /\ Complete(needed) => needed <= Len(Gathered)
         /\ ~Complete(needed) => UNCHANGED <<parse_state_, current_frame_>>
<1>0. /\ Gathered \in Seq(Byte)
      /\ Len(Gathered) = bytes_read_ + Len(chunk)
      /\ bytes_read_ = Len(buffer_)
  BY GatheredIs
<1>1. PICK l \in Nat : l = Len(chunk)
  BY LenProperties DEF TypeOK
<1>2. PICK b \in Nat : b = bytes_read_
  BY DEF TypeOK
<1>3. PICK g \in Seq(Byte) : g = Gathered /\ Len(g) = b + l
  BY <1>0, <1>1, <1>2
<1>4. chunk' = <<>> /\ chunk' \in Seq(Byte)
  BY Nothing DEF Gather
<1>5. UNCHANGED <<frames, unread, parsing, handled, wellCut>>
  BY DEF Gather
<1>6. CASE Complete(needed)
  <2>1. needed <= b + l
    BY <1>1, <1>2, <1>6 DEF Complete
  <2>2. needed \in 0 .. Len(g)
    BY <1>3, <2>1
  <2>3. /\ SubSeq(g, needed + 1, Len(g)) \in Seq(Byte)
        /\ Len(SubSeq(g, needed + 1, Len(g))) = Len(g) - needed
    BY <2>2, CutInTwo
  <2>4. buffer_' = SubSeq(g, needed + 1, Len(g)) /\ bytes_read_' = b + l - needed
    BY <1>1, <1>2, <1>3, <1>6 DEF Gather, Drop
  <2>5. bytes_read_' \in Nat /\ bytes_read_' = Len(g) - needed
    BY <1>3, <2>1, <2>4
  <2>6. needed <= Len(Gathered)
    BY <1>3, <2>1
  <2>. QED
    BY <1>4, <1>5, <1>6, <2>3, <2>4, <2>5, <2>6, Zenon
<1>7. CASE ~Complete(needed)
  <2>1. /\ buffer_' = g /\ bytes_read_' = b + l
        /\ UNCHANGED <<parse_state_, current_frame_>>
    BY <1>1, <1>2, <1>3, <1>7 DEF Gather
  <2>2. bytes_read_' \in Nat /\ bytes_read_' = Len(buffer_')
    BY <1>3, <2>1
  <2>. QED
    BY <1>4, <1>5, <1>7, <2>1, <2>2
<1>. QED
  BY <1>6, <1>7

(* The payload's pass takes part of the chunk.                             *)
LEMMA PayloadTakes ==
  ASSUME TypeOK
  PROVE  /\ PayloadTaken \in 0 .. Len(chunk)
         /\ SubSeq(chunk, 1, PayloadTaken) \in Seq(Byte)
         /\ Drop(chunk, PayloadTaken) \in Seq(Byte)
         /\ buffer_ \o SubSeq(chunk, 1, PayloadTaken) \in Seq(Byte)
<1>1. PICK l \in Nat : l = Len(chunk)
  BY LenProperties DEF TypeOK
<1>2. PICK b \in Nat : b = Len(buffer_)
  BY LenProperties DEF TypeOK
<1>3. PICK n \in Nat : n = current_frame_.payload_length
  <2>1. current_frame_ \in FrameType
    BY Zenon DEF TypeOK, FrameType
  <2>2. current_frame_.payload_length \in Length16
    BY <2>1, Zenon DEF FrameType
  <2>. QED
    BY <2>2, LengthIsNat
<1>4. PayloadTaken \in 0 .. l
  <2>1. PayloadTaken = IF b > n THEN l ELSE IF n - b < l THEN n - b ELSE l
    BY <1>1, <1>2, <1>3 DEF PayloadTaken
  <2>. QED
    BY <2>1
<1>5. chunk \in Seq(Byte) /\ buffer_ \in Seq(Byte)
  BY DEF TypeOK
<1>6. /\ SubSeq(chunk, 1, PayloadTaken) \in Seq(Byte)
      /\ SubSeq(chunk, PayloadTaken + 1, Len(chunk)) \in Seq(Byte)
  BY <1>1, <1>4, <1>5, CutInTwo
<1>. QED
  BY <1>1, <1>4, <1>5, <1>6, ConcatProperties DEF Drop

LEMMA UnmaskIsBytes ==
  ASSUME NEW data \in Seq(Byte), NEW key
  PROVE  Unmask(data, key) \in Seq(Byte)
<1>1. Len(data) \in Nat
  BY LenProperties
<1>2. \A a, b : Xor(a, b) \in Byte
  BY XorIsByte
<1>3. \A i \in 1 .. Len(data) :
        Xor(data[i], key[((i - 1) % 4) + 1]) \in Byte
  BY <1>2, Zenon
<1>. QED
  BY <1>1, <1>3 DEF Unmask

LEMMA FrameStep == TypeOK /\ ParserInv /\ [Next]_vars => TypeOK' /\ ParserInv'
<1>. SUFFICES ASSUME TypeOK, ParserInv, [Next]_vars
              PROVE  TypeOK' /\ ParserInv'
  OBVIOUS
<1>0. /\ CountIsBuffer
      /\ Len(current_frame_.masking_key) = 4
      /\ current_frame_ \in FrameType
  BY Zenon DEF ParserInv, TypeOK, FrameType
<1>1. ASSUME NEW n \in 1 .. Len(unread), OnDataReceived(n)
      PROVE  TypeOK' /\ ParserInv'
  <2>1. unread \in Seq(Byte) /\ Len(unread) \in Nat
    BY LenProperties DEF TypeOK
  <2>2. n \in 0 .. Len(unread)
    BY <2>1
  <2>3. /\ SubSeq(unread, 1, n) \in Seq(Byte)
        /\ SubSeq(unread, n + 1, Len(unread)) \in Seq(Byte)
    BY <2>1, <2>2, CutInTwo
  <2>4. /\ chunk' \in Seq(Byte) /\ unread' \in Seq(Byte)
        /\ parsing' \in BOOLEAN /\ wellCut' \in BOOLEAN
        /\ UNCHANGED <<frames, parserVars, handled>>
    <3>1. wellCut \in BOOLEAN
      BY DEF TypeOK
    <3>2. wellCut' = (wellCut /\ FieldEnds \cap (BytesRead + 1 .. BytesRead + n - 1) = {})
      BY <1>1, Zenon DEF OnDataReceived
    <3>3. wellCut' \in BOOLEAN
      BY <3>1, <3>2, Zenon
    <3>. QED
      BY <1>1, <2>3, <3>3, Zenon DEF OnDataReceived, Drop
  <2>. QED
    BY <2>4, Zenon DEF TypeOK, ParserInv, CountIsBuffer, parserVars
<1>2. ASSUME NEW needed \in Nat, Gather(needed),
             parse_state_ # "READ_PAYLOAD",
             parse_state_' \in States,
             current_frame_' \in FrameType,
             Len(current_frame_'.masking_key) = 4,
             parse_state_' = "READ_PAYLOAD_LENGTH"
               => current_frame_'.payload_length = 0
      PROVE  TypeOK' /\ ParserInv'
  <2>1. /\ chunk' \in Seq(Byte)
        /\ buffer_' \in Seq(Byte) /\ bytes_read_' \in Nat
        /\ bytes_read_' = Len(buffer_')
        /\ UNCHANGED <<frames, unread, parsing, handled, wellCut>>
    BY <1>0, <1>2, GatherKeeps, Zenon
  <2>2. TypeOK'
    BY <1>2, <2>1, Zenon DEF TypeOK, FrameType
  <2>. QED
    BY <1>2, <2>1, <2>2, Zenon DEF ParserInv, CountIsBuffer
<1>3. CASE ReadHeader
  <2>1. /\ Gather(2) /\ parse_state_ = "READ_HEADER"
    BY <1>3 DEF ReadHeader, Pass
  <2>2. CASE ~Complete(2)
    <3>1. UNCHANGED <<parse_state_, current_frame_>>
      BY <2>1, <2>2, Zenon DEF Gather
    <3>. QED
      BY <1>0, <1>2, <2>1, <3>1 DEF States
  <2>3. CASE Complete(2)
    <3>1. /\ Gathered \in Seq(Byte) /\ 2 <= Len(Gathered)
      BY <1>0, <2>1, <2>3, GatheredIs, GatherKeeps
    <3>2. PICK first \in Byte, second \in Byte :
            first = Gathered[1] /\ second = Gathered[2]
      BY <3>1
    <3>3. Opcode(first) \in 0 .. 15
      BY DEF Opcode, Byte
    <3>4. PICK length \in Nat : length = second % 128
      BY DEF Byte
    <3>5. PICK known \in Length16 : known = IF length < 126 THEN length ELSE 0
      BY SMT DEF Length16
    <3>6. PICK masked \in BOOLEAN : masked = (second >= 128)
      <4>1. (second >= 128) \in BOOLEAN
        BY DEF Byte
      <4>. QED
        BY <4>1, Zenon
    <3>7. current_frame_' =
            [current_frame_ EXCEPT !.opcode = Opcode(first),
                                   !.masked = masked,
                                   !.payload_length = known]
      BY <1>3, <2>3, <3>2, <3>4, <3>5, <3>6, Zenon DEF ReadHeader
    <3>8. parse_state_' = IF length < 126 THEN "READ_MASKING_KEY"
                                          ELSE "READ_PAYLOAD_LENGTH"
      BY <1>3, <2>3, <3>2, <3>4, Zenon DEF ReadHeader
    <3>9. /\ current_frame_' \in FrameType
          /\ current_frame_'.masking_key = current_frame_.masking_key
          /\ current_frame_'.payload_length = known
      BY <1>0, <3>3, <3>7 DEF FrameType
    <3>10. /\ parse_state_' \in States
           /\ parse_state_' = "READ_PAYLOAD_LENGTH" => known = 0
      BY <3>5, <3>8 DEF States
    <3>. QED
      BY <1>0, <1>2, <2>1, <3>9, <3>10
  <2>. QED
    BY <2>2, <2>3
<1>4. CASE ReadPayloadLength
  <2>1. LengthSize = 2 /\ parse_state_ = "READ_PAYLOAD_LENGTH"
    BY <1>4 DEF ReadPayloadLength, Pass, ParserInv, LengthSize
  <2>2. Gather(2)
    BY <1>4, <2>1 DEF ReadPayloadLength
  <2>3. CASE ~Complete(2)
    <3>1. UNCHANGED <<parse_state_, current_frame_>>
      BY <2>2, <2>3, Zenon DEF Gather
    <3>2. current_frame_.payload_length = 0
      BY <2>1 DEF ParserInv
    <3>. QED
      BY <1>0, <1>2, <2>1, <2>2, <3>1, <3>2 DEF States
  <2>4. CASE Complete(2)
    <3>1. /\ Gathered \in Seq(Byte) /\ 2 <= Len(Gathered)
      BY <1>0, <2>1, <2>2, <2>4, GatheredIs, GatherKeeps
    <3>2. PICK first \in Byte, second \in Byte :
            first = Gathered[1] /\ second = Gathered[2]
      BY <3>1
    <3>3. PICK length \in Length16 : length = first * 256 + second
      <4>1. first * 256 + second \in Length16
        BY TwoBytesFit
      <4>. QED
        BY <4>1, Zenon
    <3>4. /\ current_frame_' = [current_frame_ EXCEPT !.payload_length = length]
          /\ parse_state_' = "READ_MASKING_KEY"
      BY <1>4, <2>1, <2>4, <3>2, <3>3, Zenon DEF ReadPayloadLength
    <3>5. /\ current_frame_' \in FrameType
          /\ current_frame_'.masking_key = current_frame_.masking_key
      BY <1>0, <3>4 DEF FrameType
    <3>. QED
      BY <1>0, <1>2, <2>1, <2>2, <3>4, <3>5 DEF States
  <2>. QED
    BY <2>3, <2>4
<1>5. CASE ReadMaskingKey
  <2>1. Gather(4) /\ parse_state_ = "READ_MASKING_KEY"
    BY <1>5 DEF ReadMaskingKey, Pass
  <2>2. CASE ~Complete(4)
    <3>1. UNCHANGED <<parse_state_, current_frame_>>
      BY <2>1, <2>2, Zenon DEF Gather
    <3>. QED
      BY <1>0, <1>2, <2>1, <3>1 DEF States
  <2>3. CASE Complete(4)
    <3>1. /\ Gathered \in Seq(Byte) /\ 4 <= Len(Gathered)
      BY <1>0, <2>1, <2>3, GatheredIs, GatherKeeps
    <3>2. 4 \in 0 .. Len(Gathered)
      BY <3>1, LenProperties
    <3>3. PICK key \in Seq(Byte) : key = SubSeq(Gathered, 1, 4) /\ Len(key) = 4
      <4>1. /\ SubSeq(Gathered, 1, 4) \in Seq(Byte)
            /\ Len(SubSeq(Gathered, 1, 4)) = 4
        BY <3>1, <3>2, CutInTwo
      <4>. QED
        BY <4>1, Zenon
    <3>4. /\ current_frame_' = [current_frame_ EXCEPT !.masking_key = key]
          /\ parse_state_' = "READ_PAYLOAD"
      BY <1>5, <2>3, <3>3, Zenon DEF ReadMaskingKey
    <3>5. /\ current_frame_' \in FrameType
          /\ current_frame_'.masking_key = key
      BY <1>0, <3>4 DEF FrameType
    <3>. QED
      BY <1>2, <2>1, <3>3, <3>4, <3>5 DEF States
  <2>. QED
    BY <2>2, <2>3
<1>6. CASE SkipMaskingKey
  <2>1. /\ parse_state_' = "READ_PAYLOAD"
        /\ UNCHANGED <<frames, unread, chunk, parsing, current_frame_,
                       bytes_read_, buffer_, handled, wellCut>>
    BY <1>6 DEF SkipMaskingKey
  <2>. QED
    BY <1>0, <2>1 DEF TypeOK, ParserInv, CountIsBuffer, States
<1>7. CASE ReadPayload
  <2>1. parse_state_ = "READ_PAYLOAD"
    BY <1>7 DEF ReadPayload, Pass
  <2>2. /\ chunk' \in Seq(Byte)
        /\ UNCHANGED <<frames, unread, parsing, wellCut>>
    BY <1>7, PayloadTakes DEF ReadPayload
  <2>3. PICK data \in Seq(Byte) :
          data = buffer_ \o SubSeq(chunk, 1, PayloadTaken)
    BY PayloadTakes
  <2>4. CASE /\ buffer_' = data
             /\ UNCHANGED <<parse_state_, current_frame_, bytes_read_, handled>>
    BY <1>0, <2>1, <2>2, <2>4 DEF TypeOK, ParserInv, CountIsBuffer
  <2>5. ASSUME NEW payload \in Seq(Byte), FrameDone(payload)
        PROVE  TypeOK' /\ ParserInv'
    <3>1. handled' \in Seq([opcode : 0 .. 15, payload : Seq(Byte)])
      <4>1. handled \in Seq([opcode : 0 .. 15, payload : Seq(Byte)])
        BY DEF TypeOK
      <4>2. [opcode |-> current_frame_.opcode, payload |-> payload]
              \in [opcode : 0 .. 15, payload : Seq(Byte)]
        BY <1>0 DEF FrameType
      <4>3. CASE handled' = handled
        BY <4>1, <4>3
      <4>4. CASE handled' = Append(handled,
                              [opcode |-> current_frame_.opcode,
                               payload |-> payload])
        BY <4>1, <4>2, <4>4, AppendProperties
      <4>. QED
        BY <2>5, <4>3, <4>4, Zenon DEF FrameDone
    <3>2. /\ buffer_' \in Seq(Byte) /\ buffer_' = <<>> /\ bytes_read_' = 0
          /\ parse_state_' = "READ_HEADER" /\ current_frame_' = NoFrame
      BY <2>5, Nothing DEF FrameDone
    <3>3. bytes_read_' = Len(buffer_') /\ bytes_read_' \in Nat
      BY <3>2, Nothing
    <3>4. TypeOK'
      <4>1. current_frame_' \in FrameType
        BY <3>2, NoFrameIsTyped
      <4>2. parse_state_' \in States
        BY <3>2 DEF States
      <4>. QED
        BY <2>2, <3>1, <3>2, <3>3, <4>1, <4>2, Zenon DEF TypeOK, FrameType
    <3>. QED
      BY <3>2, <3>3, <3>4, NoFrameIsTyped DEF ParserInv, CountIsBuffer
  <2>6. Unmask(data, current_frame_.masking_key) \in Seq(Byte)
    BY UnmaskIsBytes
  <2>. QED
    BY <1>7, <2>3, <2>4, <2>5, <2>6 DEF ReadPayload
<1>8. CASE ParseFrameReturns
  BY <1>0, <1>8 DEF ParseFrameReturns, TypeOK, ParserInv, CountIsBuffer,
                    parserVars
<1>9. CASE UNCHANGED vars
  BY <1>0, <1>9 DEF vars, TypeOK, ParserInv, CountIsBuffer, parserVars
<1>. QED
  BY <1>1, <1>3, <1>4, <1>5, <1>6, <1>7, <1>8, <1>9 DEF Next

LEMMA FrameInit == Init => TypeOK /\ ParserInv
<1>. SUFFICES ASSUME Init PROVE TypeOK /\ ParserInv
  OBVIOUS
<1>1. frames \in Streams /\ unread \in Seq(Byte)
  BY StreamIsSendable, WireIsBytes, Zenon DEF Init
<1>2. wellCut \in BOOLEAN
  BY Zenon DEF Init
<1>3. /\ chunk \in Seq(Byte) /\ buffer_ \in Seq(Byte)
      /\ handled \in Seq([opcode : 0 .. 15, payload : Seq(Byte)])
      /\ Len(buffer_) = 0
  BY Nothing DEF Init
<1>4. current_frame_ \in FrameType /\ Len(current_frame_.masking_key) = 4
  BY NoFrameIsTyped DEF Init
<1>5. /\ parsing \in BOOLEAN /\ parse_state_ \in States
      /\ parse_state_ = "READ_HEADER" /\ bytes_read_ = 0 /\ bytes_read_ \in Nat
  BY DEF Init, States
<1>6. TypeOK
  BY <1>1, <1>2, <1>3, <1>4, <1>5, Zenon DEF TypeOK, FrameType
<1>. QED
  BY <1>3, <1>4, <1>5, <1>6 DEF ParserInv, CountIsBuffer

(***************************************************************************)
(* The parser's fields keep their ranges for any bytes in any chunks: a    *)
(* length never leaves 16 bits, because ReadHeader forgets which of its    *)
(* two sizes the length field has.                                         *)
(***************************************************************************)
THEOREM FrameTypeCorrect == Spec => []TypeOK
BY FrameInit, FrameStep, PTL DEF Spec

(***************************************************************************)
(* bytes_read_ is the number of bytes in buffer_ whenever one of the first *)
(* three fields is read.                                                   *)
(***************************************************************************)
THEOREM FrameCountIsBuffer == Spec => []CountIsBuffer
<1>1. ParserInv => CountIsBuffer
  BY DEF ParserInv
<1>. QED
  BY <1>1, FrameInit, FrameStep, PTL DEF Spec
------------------------------------------------------------------------------
(* Where the parser is in a stream that is well cut.                       *)

(* The fields of the frames fs, and the bytes of the first m of them.      *)
FrameFields(fs) == [i \in 1 .. Len(fs) |-> Fields(fs[i])]

AllFields(fs) == FlattenSeq(FrameFields(fs))

Begin(fs, m) == FlattenSeq(SubSeq(AllFields(fs), 1, m))

LEMMA FrameFieldsAre ==
  ASSUME NEW fs, Sendable(fs)
  PROVE  /\ Len(fs) \in Nat
         /\ FrameFields(fs) \in Seq(Seq(Seq(Byte)))
         /\ Len(FrameFields(fs)) = Len(fs)
         /\ \A i \in 1 .. Len(fs) : /\ FrameFields(fs)[i] = Fields(fs[i])
                                    /\ Fields(fs[i]) \in Seq(Seq(Byte))
                                    /\ Len(Fields(fs[i])) = 4
         /\ AllFields(fs) \in Seq(Seq(Byte))
<1>1. Len(fs) \in Nat
  BY LenProperties DEF Sendable
<1>2. \A i \in 1 .. Len(fs) : /\ Fields(fs[i]) \in Seq(Seq(Byte))
                              /\ Len(Fields(fs[i])) = 4
  BY FieldsAreBytes, Zenon DEF Sendable
<1>3. /\ FrameFields(fs) \in Seq(Seq(Seq(Byte)))
      /\ Len(FrameFields(fs)) = Len(fs)
      /\ \A i \in 1 .. Len(fs) : FrameFields(fs)[i] = Fields(fs[i])
  BY <1>1, <1>2 DEF FrameFields
<1>4. AllFields(fs) \in Seq(Seq(Byte))
  BY <1>3, FlattenType DEF AllFields
<1>. QED
  BY <1>1, <1>2, <1>3, <1>4, Zenon

(* Each frame has four fields, so that those of the first k frames are the *)
(* first 4 * k, and Wire lays them out one behind the other.               *)
LEMMA FrameBegin ==
  ASSUME NEW fs, Sendable(fs), NEW k \in 0 .. Len(fs)
  PROVE  /\ Len(FlattenSeq(SubSeq(FrameFields(fs), 1, k))) = 4 * k
         /\ Wire(SubSeq(fs, 1, k))
              = FlattenSeq(FlattenSeq(SubSeq(FrameFields(fs), 1, k)))
<1> DEFINE ff == FrameFields(fs)
           ww == [i \in 1 .. Len(fs) |-> FlattenSeq(Fields(fs[i]))]
           B(n) == FlattenSeq(SubSeq(ff, 1, n))
           W(n) == FlattenSeq(SubSeq(ww, 1, n))
           T == { n \in Nat : n <= Len(fs) =>
                    Len(B(n)) = 4 * n /\ W(n) = FlattenSeq(B(n)) }
<1>1. PICK l \in Nat : l = Len(fs)
  BY FrameFieldsAre
<1>2. /\ ff \in Seq(Seq(Seq(Byte))) /\ Len(ff) = l
      /\ \A i \in 1 .. l : /\ ff[i] = Fields(fs[i])
                           /\ ff[i] \in Seq(Seq(Byte))
                           /\ Len(ff[i]) = 4
  <2>1. /\ FrameFields(fs) \in Seq(Seq(Seq(Byte)))
        /\ Len(FrameFields(fs)) = Len(fs)
        /\ \A i \in 1 .. Len(fs) : /\ FrameFields(fs)[i] = Fields(fs[i])
                                   /\ Fields(fs[i]) \in Seq(Seq(Byte))
                                   /\ Len(Fields(fs[i])) = 4
    BY FrameFieldsAre
  <2>. QED
    BY <1>1, <2>1, Zenon
<1>3. \A i \in 1 .. l : FlattenSeq(Fields(fs[i])) \in Seq(Byte)
  BY <1>1, FieldsAreBytes, Zenon DEF Sendable
<1>4. /\ ww \in Seq(Seq(Byte)) /\ Len(ww) = l
      /\ \A i \in 1 .. l : ww[i] = FlattenSeq(Fields(fs[i]))
  BY <1>1, <1>3
<1>. HIDE DEF ff, ww
<1>5. 0 \in T
  <2>1. B(0) = <<>> /\ W(0) = <<>>
    BY <1>2, <1>4, BeginFacts
  <2>2. Len(B(0)) = 0 /\ W(0) = FlattenSeq(B(0))
    BY <2>1, Nothing, FlattenNone
  <2>. HIDE DEF B, W
  <2>. QED
    BY <2>2
<1>6. ASSUME NEW n \in Nat, n \in T PROVE n + 1 \in T
  <2>1. SUFFICES ASSUME n + 1 <= l
                 PROVE  /\ Len(B(n + 1)) = 4 * (n + 1)
                        /\ W(n + 1) = FlattenSeq(B(n + 1))
    BY <1>1
  <2>2. n \in 0 .. l /\ n < l /\ n <= l /\ n + 1 \in 1 .. l
    BY <2>1
  <2>3. Len(B(n)) = 4 * n /\ W(n) = FlattenSeq(B(n))
    BY <1>1, <1>6, <2>2, Zenon
  <2>4. /\ B(n + 1) = B(n) \o ff[n + 1]
        /\ W(n + 1) = W(n) \o ww[n + 1]
    BY <1>2, <1>4, <2>2, BeginFlattenNext
  <2>5. B(n) \in Seq(Seq(Byte))
    BY <1>2, <2>2, BeginFacts
  <2>. HIDE DEF B, W
  <2>6. PICK b \in Seq(Seq(Byte)), f \in Seq(Seq(Byte)) :
          b = B(n) /\ f = ff[n + 1] /\ Len(f) = 4
    BY <1>2, <2>2, <2>5, Zenon
  <2>7. Len(b \o f) = 4 * n + 4
    <3>1. Len(b) = 4 * n /\ Len(f) = 4
      BY <2>3, <2>6, Zenon
    <3>2. Len(b \o f) = Len(b) + Len(f)
      BY ConcatProperties
    <3>. QED
      BY <3>1, <3>2, Zenon
  <2>8. FlattenSeq(b \o f) = FlattenSeq(b) \o FlattenSeq(f)
    BY FlattenConcat
  <2>9. FlattenSeq(f) = ww[n + 1]
    BY <1>2, <1>4, <2>2, <2>6, Zenon
  <2>10. Len(B(n + 1)) = 4 * (n + 1)
    <3>1. Len(B(n + 1)) = 4 * n + 4
      BY <2>4, <2>6, <2>7, Zenon
    <3>. QED
      BY <3>1
  <2>. QED
    BY <2>3, <2>4, <2>6, <2>8, <2>9, <2>10, Zenon
<1>7. Nat \subseteq T
  <2>. HIDE DEF T
  <2>. QED
    BY <1>5, <1>6, SetInduction
<1>8. k \in Nat /\ k <= l /\ k \in 0 .. l
  BY <1>1
<1>9. Len(B(k)) = 4 * k /\ W(k) = FlattenSeq(B(k))
  BY <1>1, <1>7, <1>8, Zenon
<1>10. Wire(SubSeq(fs, 1, k)) = W(k)
  <2>1. fs \in Seq(Frame)
    BY DEF Sendable
  <2>2. SubSeq(fs, 1, k) \in Seq(Frame) /\ Len(SubSeq(fs, 1, k)) = k
    BY <2>1, CutInTwo
  <2>3. \A i \in 1 .. k : SubSeq(fs, 1, k)[i] = fs[i]
    BY <1>1, <2>1
  <2>4. \A i \in 1 .. k : FlattenSeq(Fields(SubSeq(fs, 1, k)[i])) = ww[i]
    <3>1. ASSUME NEW i \in 1 .. k
          PROVE  FlattenSeq(Fields(SubSeq(fs, 1, k)[i])) = ww[i]
      <4>1. i \in 1 .. l
        BY <1>8
      <4>. QED
        BY <1>4, <2>3, <4>1, Zenon
    <3>. QED
      BY <3>1
  <2>5. [i \in 1 .. k |-> FlattenSeq(Fields(SubSeq(fs, 1, k)[i]))]
          = [i \in 1 .. k |-> ww[i]]
    BY <2>4, Zenon
  <2>6. [i \in 1 .. k |-> ww[i]] = SubSeq(ww, 1, k)
    BY <1>4, <1>8, BeginIs
  <2>. QED
    BY <2>2, <2>5, <2>6, Zenon DEF Wire
<1>. QED
  BY <1>9, <1>10, Zenon DEF ff

(* The stream is a sequence of fields, four to a frame.                    *)
LEMMA StreamOfFields ==
  ASSUME NEW fs, Sendable(fs)
  PROVE  /\ Len(fs) \in Nat
         /\ Len(AllFields(fs)) = 4 * Len(fs)
         /\ AllFields(fs) \in Seq(Seq(Byte))
         /\ Begin(fs, 0) = <<>>
         /\ Begin(fs, 4 * Len(fs)) = Wire(fs)
         /\ \A m \in 0 .. 4 * Len(fs) : /\ Begin(fs, m) \in Seq(Byte)
                                        /\ IsPrefix(Begin(fs, m), Wire(fs))
<1>1. PICK l \in Nat : l = Len(fs)
  BY FrameFieldsAre
<1>2. /\ FrameFields(fs) \in Seq(Seq(Seq(Byte)))
      /\ Len(FrameFields(fs)) = l
      /\ AllFields(fs) \in Seq(Seq(Byte))
  BY <1>1, FrameFieldsAre, Zenon
<1>3. SubSeq(FrameFields(fs), 1, l) = FrameFields(fs)
  BY <1>2, SubSeqFull
<1>4. l \in 0 .. l
  OBVIOUS
<1>5. /\ Len(FlattenSeq(SubSeq(FrameFields(fs), 1, l))) = 4 * l
      /\ Wire(SubSeq(fs, 1, l))
           = FlattenSeq(FlattenSeq(SubSeq(FrameFields(fs), 1, l)))
  BY <1>1, <1>4, FrameBegin
<1>6. SubSeq(fs, 1, l) = fs
  BY <1>1, SubSeqFull DEF Sendable
<1>7. Len(AllFields(fs)) = 4 * l /\ Wire(fs) = FlattenSeq(AllFields(fs))
  BY <1>3, <1>5, <1>6, Zenon DEF AllFields
<1>8. /\ FlattenSeq(SubSeq(AllFields(fs), 1, 0)) = <<>>
      /\ FlattenSeq(SubSeq(AllFields(fs), 1, Len(AllFields(fs))))
           = FlattenSeq(AllFields(fs))
      /\ \A n \in 0 .. Len(AllFields(fs)) :
           /\ FlattenSeq(SubSeq(AllFields(fs), 1, n)) \in Seq(Byte)
           /\ IsPrefix(FlattenSeq(SubSeq(AllFields(fs), 1, n)),
                       FlattenSeq(AllFields(fs)))
  BY <1>2, BeginFacts
<1>. QED
  BY <1>1, <1>2, <1>7, <1>8, Zenon DEF Begin

LEMMA BeginOfFrame ==
  ASSUME NEW fs, Sendable(fs), NEW k \in 0 .. Len(fs)
  PROVE  /\ Wire(SubSeq(fs, 1, k)) = Begin(fs, 4 * k)
         /\ SubSeq(AllFields(fs), 1, 4 * k)
              = FlattenSeq(SubSeq(FrameFields(fs), 1, k))
         /\ 4 * k \in 0 .. 4 * Len(fs)
<1>1. PICK l \in Nat : l = Len(fs)
  BY FrameFieldsAre
<1>2. 4 * k \in 0 .. 4 * l /\ k \in 0 .. l
  BY <1>1
<1>3. /\ FrameFields(fs) \in Seq(Seq(Seq(Byte)))
      /\ Len(FrameFields(fs)) = l
  BY <1>1, FrameFieldsAre, Zenon
<1>4. /\ FlattenSeq(SubSeq(FrameFields(fs), 1, k)) \in Seq(Seq(Byte))
      /\ IsPrefix(FlattenSeq(SubSeq(FrameFields(fs), 1, k)),
                  FlattenSeq(FrameFields(fs)))
  BY <1>2, <1>3, BeginFacts
<1>5. /\ Len(FlattenSeq(SubSeq(FrameFields(fs), 1, k))) = 4 * k
      /\ Wire(SubSeq(fs, 1, k))
           = FlattenSeq(FlattenSeq(SubSeq(FrameFields(fs), 1, k)))
  BY FrameBegin
<1>6. PICK p \in Seq(Seq(Byte)) :
        p = FlattenSeq(SubSeq(FrameFields(fs), 1, k)) /\ Len(p) = 4 * k
  BY <1>4, <1>5, Zenon
<1>7. SubSeq(p, 1, 4 * k) = p
  BY <1>6, SubSeqFull
<1>8. SubSeq(p, 1, 4 * k) = SubSeq(AllFields(fs), 1, 4 * k)
  BY <1>4, <1>6, Zenon DEF IsPrefix, AllFields
<1>. QED
  BY <1>1, <1>2, <1>5, <1>6, <1>7, <1>8, Zenon DEF Begin

LEMMA NextField ==
  ASSUME NEW fs, Sendable(fs), NEW k \in Nat, k < Len(fs), NEW j \in 0 .. 3
  PROVE  /\ Begin(fs, 4 * k + j + 1)
              = Begin(fs, 4 * k + j) \o Fields(fs[k + 1])[j + 1]
         /\ 4 * k + j \in 0 .. 4 * Len(fs)
         /\ 4 * k + j + 1 \in 1 .. 4 * Len(fs)
         /\ 4 * k + j + 1 \in 0 .. 4 * Len(fs)
<1>1. PICK l \in Nat : l = Len(fs)
  BY FrameFieldsAre
<1>2. /\ k < l /\ k \in 0 .. l /\ k + 1 \in 0 .. l /\ k + 1 \in 1 .. l
      /\ j \in Nat /\ j + 1 \in 1 .. 4
      /\ 4 * k + j \in Nat /\ 4 * k + j < 4 * l
      /\ 4 * k + j \in 0 .. 4 * l /\ 4 * k + j + 1 \in 1 .. 4 * l
      /\ 4 * k + j + 1 \in 0 .. 4 * l
  BY <1>1
<1>3. /\ FrameFields(fs) \in Seq(Seq(Seq(Byte)))
      /\ Len(FrameFields(fs)) = l
      /\ FrameFields(fs)[k + 1] = Fields(fs[k + 1])
      /\ FrameFields(fs)[k + 1] \in Seq(Seq(Byte))
      /\ Len(FrameFields(fs)[k + 1]) = 4
  <2>1. /\ FrameFields(fs) \in Seq(Seq(Seq(Byte)))
        /\ Len(FrameFields(fs)) = Len(fs)
        /\ \A i \in 1 .. Len(fs) : /\ FrameFields(fs)[i] = Fields(fs[i])
                                   /\ Fields(fs[i]) \in Seq(Seq(Byte))
                                   /\ Len(Fields(fs[i])) = 4
    BY FrameFieldsAre
  <2>. QED
    BY <1>1, <1>2, <2>1, Zenon
<1>4. Len(AllFields(fs)) = 4 * l /\ AllFields(fs) \in Seq(Seq(Byte))
  BY <1>1, StreamOfFields, Zenon
<1>5. FlattenSeq(SubSeq(FrameFields(fs), 1, k + 1))
        = FlattenSeq(SubSeq(FrameFields(fs), 1, k)) \o FrameFields(fs)[k + 1]
  BY <1>2, <1>3, BeginFlattenNext
<1>6. /\ FlattenSeq(SubSeq(FrameFields(fs), 1, k)) \in Seq(Seq(Byte))
      /\ IsPrefix(FlattenSeq(SubSeq(FrameFields(fs), 1, k + 1)),
                  FlattenSeq(FrameFields(fs)))
  BY <1>2, <1>3, BeginFacts
<1>7. Len(FlattenSeq(SubSeq(FrameFields(fs), 1, k))) = 4 * k
  BY <1>1, <1>2, FrameBegin
<1>8. PICK p \in Seq(Seq(Byte)), f \in Seq(Seq(Byte)), a \in Seq(Seq(Byte)) :
        /\ p = FlattenSeq(SubSeq(FrameFields(fs), 1, k)) /\ Len(p) = 4 * k
        /\ f = Fields(fs[k + 1]) /\ Len(f) = 4
        /\ a = AllFields(fs) /\ Len(a) = 4 * l
  BY <1>3, <1>4, <1>6, <1>7, Zenon
<1>9. IsPrefix(p \o f, a)
  BY <1>3, <1>5, <1>6, <1>8, Zenon DEF AllFields
<1>10. a[4 * k + j + 1] = f[j + 1]
  <2>1. p \o f \in Seq(Seq(Byte)) /\ Len(p \o f) = Len(p) + Len(f)
    BY ConcatProperties
  <2>2. Len(p \o f) = 4 * k + 4
    BY <1>8, <2>1, Zenon
  <2>3. \A i \in 1 .. Len(p \o f) : (p \o f)[i] = a[i]
    <3>1. PICK c \in Seq(Seq(Byte)) : c = p \o f
      BY <2>1, Zenon
    <3>2. IsPrefix(c, a)
      BY <1>9, <3>1, Zenon
    <3>3. \A i \in 1 .. Len(c) : c[i] = a[i]
      BY <3>2, PrefixIs
    <3>. QED
      BY <3>1, <3>3, Zenon
  <2>4. 4 * k + j + 1 \in 1 .. 4 * k + 4
    BY <1>2
  <2>5. (p \o f)[4 * k + j + 1] = a[4 * k + j + 1]
    BY <2>2, <2>3, <2>4, Zenon
  <2>6. (p \o f)[4 * k + j + 1] = f[j + 1]
    <3>1. PICK n \in Nat : n = 4 * k
      BY <1>2
    <3>2. Len(p) = n /\ Len(f) = 4
      BY <1>8, <3>1, Zenon
    <3>3. (p \o f)[n + j + 1] = f[j + 1]
      <4>1. \A i \in 1 .. n + 4 : (p \o f)[i] = IF i <= n THEN p[i] ELSE f[i - n]
        <5>1. \A i \in 1 .. Len(p) + Len(f) :
                (p \o f)[i] = IF i <= Len(p) THEN p[i] ELSE f[i - Len(p)]
          BY ConcatProperties
        <5>. QED
          BY <3>2, <5>1, Zenon
      <4>2. /\ n + j + 1 \in 1 .. n + 4 /\ ~(n + j + 1 <= n)
            /\ (n + j + 1) - n = j + 1
        BY <1>2
      <4>. QED
        <5>1. (p \o f)[n + j + 1] = f[(n + j + 1) - n]
          BY <4>1, <4>2
        <5>. QED
          BY <4>2, <5>1, Zenon
    <3>. QED
      BY <3>1, <3>3, Zenon
  <2>. QED
    BY <2>5, <2>6, Zenon
<1>11. FlattenSeq(SubSeq(a, 1, 4 * k + j + 1))
         = FlattenSeq(SubSeq(a, 1, 4 * k + j)) \o a[4 * k + j + 1]
  BY <1>2, <1>8, BeginFlattenNext
<1>. QED
  BY <1>1, <1>2, <1>8, <1>10, <1>11, Zenon DEF Begin

(* One frame more is expected to be handled, or not.                       *)
LEMMA ExpectedNext ==
  ASSUME NEW fs, Sendable(fs)
  PROVE  /\ Expected(SubSeq(fs, 1, 0)) = <<>>
         /\ \A k \in Nat : k < Len(fs) =>
              Expected(SubSeq(fs, 1, k + 1))
                = IF fs[k + 1].opcode \in Processed
                  THEN Append(Expected(SubSeq(fs, 1, k)), Decoded(fs[k + 1]))
                  ELSE Expected(SubSeq(fs, 1, k))
<1>1. PICK l \in Nat : l = Len(fs)
  BY FrameFieldsAre
<1>2. fs \in Seq(Frame)
  BY DEF Sendable
<1> DEFINE R == [opcode : 0 .. 15, payload : Seq(Byte)]
           e(f) == IF f.opcode \in Processed THEN <<Decoded(f)>> ELSE <<>>
           ee == [i \in 1 .. Len(fs) |-> e(fs[i])]
<1>3. \A f \in Frame : Decoded(f) \in R
  BY Zenon DEF Frame, Decoded
<1>4. \A f \in Frame : e(f) \in Seq(R)
  <2>. SUFFICES ASSUME NEW f \in Frame PROVE e(f) \in Seq(R)
    OBVIOUS
  <2>1. PICK d \in R : d = Decoded(f)
    BY <1>3, Zenon
  <2>. HIDE DEF R
  <2>2. <<d>> \in Seq(R) /\ <<>> \in Seq(R)
    OBVIOUS
  <2>. QED
    BY <2>1, <2>2, Zenon
<1>. HIDE DEF e, R
<1>5. /\ ee \in Seq(Seq(R)) /\ Len(ee) = l
      /\ \A i \in 1 .. l : ee[i] = e(fs[i])
  BY <1>1, <1>2, <1>4
<1>. HIDE DEF ee
<1>6. ASSUME NEW k \in 0 .. l
      PROVE  Expected(SubSeq(fs, 1, k)) = FlattenSeq(SubSeq(ee, 1, k))
  <2>1. SubSeq(fs, 1, k) \in Seq(Frame) /\ Len(SubSeq(fs, 1, k)) = k
    BY <1>1, <1>2, CutInTwo
  <2>2. \A i \in 1 .. k : SubSeq(fs, 1, k)[i] = fs[i] /\ i \in 1 .. l
    BY <1>1, <1>2
  <2>3. \A i \in 1 .. k : e(SubSeq(fs, 1, k)[i]) = ee[i]
    BY <1>5, <2>2, Zenon
  <2>4. [i \in 1 .. k |-> e(SubSeq(fs, 1, k)[i])] = [i \in 1 .. k |-> ee[i]]
    BY <2>3, Zenon
  <2>5. [i \in 1 .. k |-> ee[i]] = SubSeq(ee, 1, k)
    BY <1>5, BeginIs
  <2>. QED
    BY <2>1, <2>4, <2>5, Zenon DEF Expected, e
<1>7. Expected(SubSeq(fs, 1, 0)) = <<>>
  <2>1. 0 \in 0 .. l
    OBVIOUS
  <2>2. FlattenSeq(SubSeq(ee, 1, 0)) = <<>>
    BY <1>5, BeginFacts
  <2>. QED
    BY <1>6, <2>1, <2>2, Zenon
<1>8. ASSUME NEW k \in Nat, k < l
      PROVE  Expected(SubSeq(fs, 1, k + 1))
                = IF fs[k + 1].opcode \in Processed
                  THEN Append(Expected(SubSeq(fs, 1, k)), Decoded(fs[k + 1]))
                  ELSE Expected(SubSeq(fs, 1, k))
  <2>1. k \in 0 .. l /\ k + 1 \in 0 .. l /\ k + 1 \in 1 .. l
    BY <1>8
  <2>2. FlattenSeq(SubSeq(ee, 1, k + 1)) = FlattenSeq(SubSeq(ee, 1, k)) \o ee[k + 1]
    BY <1>5, <1>8, BeginFlattenNext
  <2>3. FlattenSeq(SubSeq(ee, 1, k)) \in Seq(R)
    BY <1>5, <2>1, BeginFacts
  <2>4. PICK x \in Seq(R) : x = Expected(SubSeq(fs, 1, k))
    BY <1>6, <2>1, <2>3, Zenon
  <2>5. Expected(SubSeq(fs, 1, k + 1)) = x \o e(fs[k + 1])
    BY <1>5, <1>6, <2>1, <2>2, <2>4, Zenon
  <2>6. fs[k + 1] \in Frame
    BY <1>1, <1>2, <2>1
  <2>7. PICK d \in R : d = Decoded(fs[k + 1])
    BY <1>3, <2>6, Zenon
  <2>8. x \o <<d>> = Append(x, d) /\ x \o <<>> = x
    BY ConcatEmptySeq, AppendIsConcat
  <2>9. CASE fs[k + 1].opcode \in Processed
    <3>1. e(fs[k + 1]) = <<d>>
      BY <2>7, <2>9, Zenon DEF e
    <3>. QED
      BY <2>4, <2>5, <2>7, <2>8, <2>9, <3>1, Zenon
  <2>10. CASE fs[k + 1].opcode \notin Processed
    <3>1. e(fs[k + 1]) = <<>>
      BY <2>10, Zenon DEF e
    <3>. QED
      BY <2>4, <2>5, <2>8, <2>10, <3>1, Zenon
  <2>. QED
    BY <2>9, <2>10, Zenon
<1>. QED
  BY <1>1, <1>7, <1>8, Zenon

(* The bytes c behind the first fields, and the rest u of the stream.      *)
LEMMA Position ==
  ASSUME NEW fs, Sendable(fs), NEW m \in 0 .. 4 * Len(fs),
         NEW c \in Seq(Byte), NEW u \in Seq(Byte),
         (Begin(fs, m) \o c) \o u = Wire(fs)
  PROVE  /\ Len(Wire(fs)) - Len(u) = Len(Begin(fs, m)) + Len(c)
         /\ Begin(fs, m) \o c \in Seq(Byte)
         /\ IsPrefix(Begin(fs, m) \o c, Wire(fs))
<1>1. PICK b \in Seq(Byte), w \in Seq(Byte) : b = Begin(fs, m) /\ w = Wire(fs)
  BY StreamOfFields, WireIsBytes, Zenon
<1>2. b \o c \in Seq(Byte) /\ Len(b \o c) = Len(b) + Len(c)
  BY ConcatProperties
<1>3. PICK d \in Seq(Byte) : d = b \o c /\ Len(d) = Len(b) + Len(c)
  BY <1>2, Zenon
<1>4. d \o u = w
  BY <1>1, <1>3, Zenon
<1>5. IsPrefix(d, d \o u)
  BY PrefixOfConcat
<1>6. Len(d \o u) = Len(d) + Len(u)
  BY ConcatProperties
<1>7. PICK n1 \in Nat, n2 \in Nat, n3 \in Nat :
        n1 = Len(b) /\ n2 = Len(c) /\ n3 = Len(u)
  BY LenProperties
<1>8. Len(w) = (n1 + n2) + n3
  BY <1>3, <1>4, <1>6, <1>7, Zenon
<1>9. Len(w) - n3 = n1 + n2
  BY <1>8
<1>. QED
  BY <1>1, <1>3, <1>4, <1>5, <1>7, <1>9, Zenon

LEMMA FieldIsBytes ==
  ASSUME NEW fs, Sendable(fs), NEW k \in Nat, k < Len(fs), NEW j \in 0 .. 3
  PROVE  Fields(fs[k + 1])[j + 1] \in Seq(Byte)
<1>1. k + 1 \in 1 .. Len(fs)
  BY FrameFieldsAre
<1>2. Fields(fs[k + 1]) \in Seq(Seq(Byte)) /\ Len(Fields(fs[k + 1])) = 4
  BY <1>1, FrameFieldsAre, Zenon
<1>3. j + 1 \in 1 .. 4
  OBVIOUS
<1>4. j + 1 \in 1 .. Len(Fields(fs[k + 1]))
  BY <1>2, <1>3, Zenon
<1>. QED
  BY <1>2, <1>4, ElementOfSeq

(* As many bytes as the next field has are the field.                      *)
LEMMA FieldArrived ==
  ASSUME NEW fs, Sendable(fs), NEW k \in Nat, k < Len(fs), NEW j \in 0 .. 3,
         NEW c \in Seq(Byte), NEW u \in Seq(Byte),
         (Begin(fs, 4 * k + j) \o c) \o u = Wire(fs),
         Len(c) = Len(Fields(fs[k + 1])[j + 1])
  PROVE  /\ c = Fields(fs[k + 1])[j + 1]
         /\ Begin(fs, 4 * k + j + 1) \o u = Wire(fs)
<1>1. /\ Begin(fs, 4 * k + j + 1)
          = Begin(fs, 4 * k + j) \o Fields(fs[k + 1])[j + 1]
      /\ 4 * k + j \in 0 .. 4 * Len(fs)
      /\ 4 * k + j + 1 \in 0 .. 4 * Len(fs)
  BY NextField
<1>2. /\ Begin(fs, 4 * k + j) \o c \in Seq(Byte)
      /\ IsPrefix(Begin(fs, 4 * k + j) \o c, Wire(fs))
  BY <1>1, Position
<1>3. /\ Begin(fs, 4 * k + j) \in Seq(Byte)
      /\ Begin(fs, 4 * k + j + 1) \in Seq(Byte)
      /\ IsPrefix(Begin(fs, 4 * k + j + 1), Wire(fs))
      /\ Wire(fs) \in Seq(Byte)
  BY <1>1, StreamOfFields, WireIsBytes, Zenon
<1>4. PICK f \in Seq(Byte) : f = Fields(fs[k + 1])[j + 1]
  BY FieldIsBytes, Zenon
<1>5. PICK b \in Seq(Byte), w \in Seq(Byte) :
        b = Begin(fs, 4 * k + j) /\ w = Wire(fs)
  BY <1>3, Zenon
<1>6. /\ b \o c \in Seq(Byte) /\ b \o f \in Seq(Byte)
      /\ IsPrefix(b \o c, w) /\ IsPrefix(b \o f, w)
  BY <1>1, <1>2, <1>3, <1>4, <1>5, Zenon
<1>7. Len(b \o c) = Len(b \o f)
  <2>1. Len(b \o c) = Len(b) + Len(c) /\ Len(b \o f) = Len(b) + Len(f)
    BY ConcatProperties
  <2>. QED
    BY <1>4, <2>1, Zenon
<1>8. b \o c = b \o f
  BY <1>6, <1>7, SameBeginning
<1>9. c = f
  BY <1>8, SameEnd
<1>. QED
  BY <1>1, <1>4, <1>5, <1>9, Zenon

------------------------------------------------------------------------------
(***************************************************************************)
(* The invariant: as long as the stream was well cut, the frames before    *)
(* the one being read are handled, what is known of it is what it says,    *)
(* and the bytes at hand are the stream's from a field of it on.           *)
(***************************************************************************)

(* The number of fields of its frame that are complete in a state.         *)
FieldsDone(state) ==
  CASE state = "READ_HEADER"         -> 0
    [] state = "READ_PAYLOAD_LENGTH" -> 1
    [] state = "READ_MASKING_KEY"    -> 2
    [] state = "READ_PAYLOAD"        -> 3

(* The field being read, when k frames are handled.                        *)
CurrentField(k) == Fields(frames[k + 1])[FieldsDone(parse_state_) + 1]

(* What the parser knows of the frame f it is in.                          *)
FrameKnown(f) ==
  /\ parse_state_ # "READ_HEADER" =>
       /\ current_frame_.opcode = f.opcode
       /\ current_frame_.masked = (f.key # <<>>)
  /\ parse_state_ = "READ_PAYLOAD_LENGTH" => f.lengthBytes = 2
  /\ parse_state_ \in {"READ_MASKING_KEY", "READ_PAYLOAD"} =>
       current_frame_.payload_length = Len(f.payload)
  /\ parse_state_ = "READ_PAYLOAD" /\ current_frame_.masked =>
       current_frame_.masking_key = f.key

(* The bytes c come behind m fields of the stream, and the unread behind.  *)
Behind(m, c) == (Begin(frames, m) \o c) \o unread = Wire(frames)

(* k frames are handled, and buffer_ holds the beginning of a field of the *)
(* next: less than the field, or nothing when the field is empty.          *)
At(k) ==
  /\ handled = Expected(SubSeq(frames, 1, k))
  /\ Behind(4 * k + FieldsDone(parse_state_), Gathered)
  /\ parse_state_ # "READ_HEADER" => k < Len(frames)
  /\ k < Len(frames) => /\ FrameKnown(frames[k + 1])
                        /\ buffer_ = <<>> \/ Len(buffer_) < Len(CurrentField(k))

(* No field ends within what is left of the chunk.                         *)
NoEndInside == FieldEnds \cap (BytesRead - Len(chunk) + 1 .. BytesRead - 1) = {}

Decoding ==
  /\ ~parsing => chunk = <<>>
  /\ wellCut =>
       /\ \A i \in 1 .. Len(frames) : frames[i].lengthBytes # 8
       /\ NoEndInside
       /\ \E k \in 0 .. Len(frames) : At(k)

LEMMA FieldsDoneIs ==
  /\ FieldsDone("READ_HEADER") = 0 /\ FieldsDone("READ_PAYLOAD_LENGTH") = 1
  /\ FieldsDone("READ_MASKING_KEY") = 2 /\ FieldsDone("READ_PAYLOAD") = 3
  /\ \A state \in States : FieldsDone(state) \in 0 .. 3
BY DEF FieldsDone, States

LEMMA FieldEndsAre ==
  ASSUME Sendable(frames), NEW k \in Nat, k < Len(frames), NEW j \in 0 .. 3
  PROVE  Len(Begin(frames, 4 * k + j + 1)) \in FieldEnds
<1>1. 4 * k + j + 1 \in 1 .. 4 * Len(frames)
  BY NextField
<1>2. 4 * k + j + 1 \in 1 .. Len(AllFields(frames))
  BY <1>1, StreamOfFields, Zenon
<1>3. FieldEnds = { Len(Begin(frames, m)) : m \in 1 .. Len(AllFields(frames)) }
  BY Zenon DEF FieldEnds, Begin, AllFields, FrameFields
<1>. QED
  BY <1>2, <1>3, Zenon

(* With a byte in the chunk, the parser is before the end of a frame.      *)
LEMMA InAFrame ==
  ASSUME TypeOK, Decoding, wellCut, chunk # <<>>
  PROVE  \E k \in Nat : k < Len(frames) /\ At(k)
<1>1. PICK k \in 0 .. Len(frames) : At(k)
  BY DEF Decoding
<1>2. Sendable(frames)
  BY StreamIsSendable DEF TypeOK
<1>3. k \in Nat /\ Len(frames) \in Nat /\ k <= Len(frames)
  BY <1>2, FrameFieldsAre
<1>4. SUFFICES ASSUME k = Len(frames) PROVE FALSE
  BY <1>1, <1>3
<1>5. parse_state_ = "READ_HEADER"
  BY <1>1, <1>3, <1>4 DEF At
<1>6. (Begin(frames, 4 * k) \o Gathered) \o unread = Wire(frames)
  <2>1. Behind(4 * k + 0, Gathered)
    BY <1>1, <1>5, FieldsDoneIs, Zenon DEF At
  <2>2. 4 * k + 0 = 4 * k
    BY <1>3
  <2>. QED
    BY <2>1, <2>2, Zenon DEF Behind
<1>7. PICK b \in Seq(Byte), c \in Seq(Byte), u \in Seq(Byte), w \in Seq(Byte) :
        b = buffer_ /\ c = chunk /\ u = unread /\ w = Wire(frames)
  BY <1>2, WireIsBytes, Zenon DEF TypeOK
<1>8. PICK g \in Seq(Byte) : g = b \o c /\ Len(g) = Len(b) + Len(c)
  <2>1. b \o c \in Seq(Byte) /\ Len(b \o c) = Len(b) + Len(c)
    BY ConcatProperties
  <2>. QED
    BY <2>1, Zenon
<1>9. w = Begin(frames, 4 * k)
  BY <1>2, <1>4, <1>7, StreamOfFields, Zenon
<1>10. (w \o g) \o u = w
  BY <1>6, <1>7, <1>8, <1>9, Zenon DEF Gathered
<1>11. w \o g \in Seq(Byte) /\ Len(w \o g) = Len(w) + Len(g)
  BY ConcatProperties
<1>12. PICK d \in Seq(Byte) : d = w \o g /\ Len(d) = Len(w) + Len(g)
  BY <1>11, Zenon
<1>13. Len(d \o u) = Len(d) + Len(u)
  BY ConcatProperties
<1>14. Len(w) = (Len(w) + (Len(b) + Len(c))) + Len(u)
  BY <1>8, <1>10, <1>12, <1>13, Zenon
<1>15. /\ Len(w) \in Nat /\ Len(b) \in Nat /\ Len(c) \in Nat
       /\ Len(u) \in Nat
  BY LenProperties
<1>16. Len(c) # 0
  BY <1>7, EmptySeq
<1>. QED
  BY <1>14, <1>15, <1>16

(* What is left of the chunk does not reach beyond the field being read.   *)
LEMMA WithinField ==
  ASSUME TypeOK, NoEndInside, NEW k \in Nat, k < Len(frames), At(k),
         Len(buffer_) < Len(CurrentField(k))
  PROVE  Len(buffer_) + Len(chunk) <= Len(CurrentField(k))
<1>1. Sendable(frames)
  BY StreamIsSendable DEF TypeOK
<1>2. PICK j \in 0 .. 3 : j = FieldsDone(parse_state_)
  BY FieldsDoneIs DEF TypeOK
<1>3. PICK l \in Nat, c \in Nat, f \in Nat, m \in Nat :
        /\ l = Len(buffer_) /\ c = Len(chunk) /\ f = Len(CurrentField(k))
        /\ m = Len(Begin(frames, 4 * k + j))
  <2>1. Len(buffer_) \in Nat /\ Len(chunk) \in Nat
    BY LenProperties DEF TypeOK
  <2>2. CurrentField(k) \in Seq(Byte)
    BY <1>1, <1>2, FieldIsBytes, Zenon DEF CurrentField
  <2>3. Begin(frames, 4 * k + j) \in Seq(Byte)
    <3>1. 4 * k + j \in 0 .. 4 * Len(frames)
      BY <1>1, NextField
    <3>. QED
      BY <1>1, <3>1, StreamOfFields, Zenon
  <2>4. Len(CurrentField(k)) \in Nat /\ Len(Begin(frames, 4 * k + j)) \in Nat
    BY <2>2, <2>3, LenProperties
  <2>. QED
    BY <2>1, <2>4, Zenon
<1>4. BytesRead = m + (l + c)
  <2>1. buffer_ \in Seq(Byte) /\ chunk \in Seq(Byte) /\ unread \in Seq(Byte)
    BY DEF TypeOK
  <2>2. Gathered \in Seq(Byte) /\ Len(Gathered) = l + c
    BY <1>3, <2>1, ConcatProperties DEF Gathered
  <2>3. (Begin(frames, 4 * k + j) \o Gathered) \o unread = Wire(frames)
    BY <1>2, Zenon DEF At, Behind
  <2>4. 4 * k + j \in 0 .. 4 * Len(frames)
    BY <1>1, NextField
  <2>5. Len(Wire(frames)) - Len(unread)
          = Len(Begin(frames, 4 * k + j)) + Len(Gathered)
    BY <1>1, <2>1, <2>2, <2>3, <2>4, Position
  <2>. QED
    BY <1>3, <2>2, <2>5, Zenon DEF BytesRead
<1>5. Len(Begin(frames, 4 * k + j + 1)) = m + f
  <2>1. Begin(frames, 4 * k + j + 1) = Begin(frames, 4 * k + j) \o CurrentField(k)
    BY <1>1, <1>2, NextField, Zenon DEF CurrentField
  <2>2. CurrentField(k) \in Seq(Byte)
    BY <1>1, <1>2, FieldIsBytes, Zenon DEF CurrentField
  <2>3. Begin(frames, 4 * k + j) \in Seq(Byte)
    <3>1. 4 * k + j \in 0 .. 4 * Len(frames)
      BY <1>1, NextField
    <3>. QED
      BY <1>1, <3>1, StreamOfFields, Zenon
  <2>4. Len(Begin(frames, 4 * k + j) \o CurrentField(k))
          = Len(Begin(frames, 4 * k + j)) + Len(CurrentField(k))
    BY <2>2, <2>3, ConcatProperties
  <2>. QED
    BY <1>3, <2>1, <2>4, Zenon
<1>6. m + f \in FieldEnds
  BY <1>1, <1>5, FieldEndsAre
<1>7. m + f \notin (m + (l + c)) - c + 1 .. (m + (l + c)) - 1
  BY <1>3, <1>4, <1>6, Zenon DEF NoEndInside
<1>8. l < f
  BY <1>3, Zenon
<1>9. l + c <= f
  BY <1>7, <1>8
<1>. QED
  BY <1>3, <1>9, Zenon

LEMMA StillDecoding ==
  ASSUME TypeOK, Decoding, wellCut, UNCHANGED <<frames, unread, wellCut>>,
         ~parsing' => chunk' = <<>>,
         chunk' \in Seq(Byte), Len(chunk') <= Len(chunk),
         NEW k \in 0 .. Len(frames), At(k)'
  PROVE  Decoding'
<1>1. NoEndInside'
  <2>1. PICK b \in Int, c \in Nat, d \in Nat :
          b = BytesRead /\ c = Len(chunk) /\ d = Len(chunk') /\ d <= c
    <3>1. Len(unread) \in Nat /\ Len(chunk) \in Nat /\ Len(chunk') \in Nat
      BY LenProperties DEF TypeOK
    <3>2. Wire(frames) \in Seq(Byte)
      BY StreamIsSendable, WireIsBytes DEF TypeOK
    <3>3. Len(Wire(frames)) \in Nat
      BY <3>2, LenProperties
    <3>4. BytesRead \in Int
      BY <3>1, <3>3 DEF BytesRead
    <3>. QED
      BY <3>1, <3>4, Zenon
  <2>2. FieldEnds' = FieldEnds
    BY Zenon DEF FieldEnds
  <2>3. BytesRead' = BytesRead
    BY Zenon DEF BytesRead
  <2>4. FieldEnds \cap (b - c + 1 .. b - 1) = {}
    BY <2>1, Zenon DEF Decoding, NoEndInside
  <2>5. \A x \in b - d + 1 .. b - 1 : x \in b - c + 1 .. b - 1
    BY <2>1
  <2>6. FieldEnds \cap (b - d + 1 .. b - 1) = {}
    BY <2>4, <2>5, Zenon
  <2>. QED
    BY <2>1, <2>2, <2>3, <2>6, Zenon DEF NoEndInside
<1>. QED
  BY <1>1, Zenon DEF Decoding

(* One of the first three fields takes what is left of the chunk.          *)
LEMMA FieldTaken ==
  ASSUME TypeOK, ParserInv, NoEndInside, NEW k \in Nat, k < Len(frames), At(k),
         parse_state_ # "READ_PAYLOAD",
         NEW needed \in Nat, needed = Len(CurrentField(k)), Gather(needed)
  PROVE  /\ Complete(needed) =>
              /\ Gathered = CurrentField(k)
              /\ buffer_' = <<>> /\ Gathered' = <<>>
              /\ Begin(frames, 4 * k + FieldsDone(parse_state_) + 1) \o unread
                   = Wire(frames)
         /\ ~Complete(needed) => At(k)'
<1>1. Sendable(frames)
  BY StreamIsSendable DEF TypeOK
<1>2. PICK j \in 0 .. 3 : j = FieldsDone(parse_state_)
  BY FieldsDoneIs DEF TypeOK
<1>3. PICK b \in Seq(Byte), c \in Seq(Byte), g \in Seq(Byte) :
        /\ b = buffer_ /\ c = chunk /\ g = Gathered /\ g = b \o c
        /\ Len(g) = bytes_read_ + Len(c) /\ bytes_read_ = Len(b)
  BY GatheredIs, Zenon DEF TypeOK, ParserInv, Gathered
<1>4. PICK l \in Nat, n \in Nat :
        l = bytes_read_ /\ n = Len(c) /\ l = Len(b) /\ Len(g) = l + n
  <2>1. bytes_read_ \in Nat /\ Len(c) \in Nat
    BY LenProperties DEF TypeOK
  <2>. QED
    BY <1>3, <2>1, Zenon
<1>5. l < needed
  BY <1>4, Zenon DEF Gather
<1>6. l + n <= needed
  <2>1. Len(buffer_) < Len(CurrentField(k))
    BY <1>3, <1>4, <1>5, Zenon
  <2>2. Len(buffer_) + Len(chunk) <= Len(CurrentField(k))
    BY <2>1, WithinField
  <2>. QED
    BY <1>3, <1>4, <2>2, Zenon
<1>7. chunk' = <<>> /\ UNCHANGED <<frames, unread, parsing, handled, wellCut>>
  BY Zenon DEF Gather
<1>8. (Begin(frames, 4 * k + j) \o g) \o unread = Wire(frames)
  BY <1>2, <1>3, Zenon DEF At, Behind
<1>9. CASE Complete(needed)
  <2>1. l + n >= needed
    BY <1>3, <1>4, <1>9, Zenon DEF Complete
  <2>2. l + n = needed
    BY <1>6, <2>1
  <2>3. Len(g) = Len(Fields(frames[k + 1])[j + 1])
    BY <1>2, <1>4, <2>2, Zenon DEF CurrentField
  <2>4. unread \in Seq(Byte)
    BY DEF TypeOK
  <2>5. /\ g = Fields(frames[k + 1])[j + 1]
        /\ Begin(frames, 4 * k + j + 1) \o unread = Wire(frames)
    BY <1>1, <1>8, <2>3, <2>4, FieldArrived, ZenonT(60)
  <2>6. buffer_' = SubSeq(g, needed + 1, Len(g))
    BY <1>3, <1>9, Zenon DEF Gather, Drop
  <2>7. Len(g) = needed /\ SubSeq(g, needed + 1, Len(g)) = <<>>
    <3>1. Len(g) = needed
      BY <1>4, <2>2, Zenon
    <3>. QED
      BY <3>1, SubSeqEmpty
  <2>8. buffer_' = <<>>
    BY <2>6, <2>7, Zenon
  <2>9. Gathered' = <<>>
    <3>1. <<>> \o <<>> = <<>>
      OBVIOUS
    <3>. QED
      BY <1>7, <2>8, <3>1, Zenon DEF Gathered
  <2>. QED
    BY <1>2, <1>3, <1>9, <2>5, <2>8, <2>9, Zenon DEF CurrentField
<1>10. CASE ~Complete(needed)
  <2>1. /\ buffer_' = g /\ UNCHANGED <<parse_state_, current_frame_>>
    BY <1>3, <1>10, Zenon DEF Gather
  <2>2. Gathered' = g
    <3>1. g \o <<>> = g
      BY ConcatEmptySeq
    <3>. QED
      BY <1>7, <2>1, <3>1, Zenon DEF Gathered
  <2>3. Len(buffer_') < Len(CurrentField(k)')
    <3>1. ~(l + n >= needed)
      BY <1>3, <1>4, <1>10, Zenon DEF Complete
    <3>2. l + n < needed
      BY <3>1
    <3>3. CurrentField(k)' = CurrentField(k)
      BY <1>7, <2>1, Zenon DEF CurrentField
    <3>. QED
      BY <1>4, <2>1, <3>2, <3>3, Zenon
  <2>4. Behind(4 * k + FieldsDone(parse_state_), Gathered)'
    BY <1>2, <1>7, <1>8, <2>1, <2>2, Zenon DEF Behind
  <2>5. FrameKnown(frames[k + 1])'
    BY <1>7, <2>1, Zenon DEF FrameKnown, At
  <2>6. handled' = Expected(SubSeq(frames', 1, k))
    BY <1>7, Zenon DEF At
  <2>. QED
    BY <1>7, <1>10, <2>3, <2>4, <2>5, <2>6, Zenon DEF At
<1>. QED
  BY <1>9, <1>10, Zenon

(* The parser goes on to the next field of its frame with nothing at hand. *)
LEMMA NextFieldBegins ==
  ASSUME TypeOK, Decoding, wellCut, UNCHANGED <<frames, unread, wellCut>>,
         parsing', chunk' = <<>>, NEW k \in Nat, k < Len(frames),
         handled' = Expected(SubSeq(frames, 1, k)),
         buffer_' = <<>>, Gathered' = <<>>,
         Begin(frames, 4 * k + FieldsDone(parse_state_')) \o unread = Wire(frames),
         4 * k + FieldsDone(parse_state_') \in 0 .. 4 * Len(frames),
         FrameKnown(frames[k + 1])'
  PROVE  Decoding'
<1>1. Sendable(frames)
  BY StreamIsSendable DEF TypeOK
<1>2. Begin(frames, 4 * k + FieldsDone(parse_state_')) \in Seq(Byte)
  BY <1>1, StreamOfFields, Zenon
<1>3. Begin(frames, 4 * k + FieldsDone(parse_state_')) \o <<>>
        = Begin(frames, 4 * k + FieldsDone(parse_state_'))
  BY <1>2, ConcatEmptySeq
<1>4. Behind(4 * k + FieldsDone(parse_state_), Gathered)'
  BY <1>3, Zenon DEF Behind
<1>5. At(k)'
  BY <1>4, Zenon DEF At
<1>6. k \in 0 .. Len(frames)
  BY <1>1, FrameFieldsAre
<1>7. chunk' \in Seq(Byte) /\ Len(chunk') <= Len(chunk)
  <2>1. Len(chunk) \in Nat
    BY LenProperties DEF TypeOK
  <2>2. 0 <= Len(chunk)
    BY <2>1
  <2>. QED
    BY <2>2, Nothing, Zenon
<1>. QED
  BY <1>5, <1>6, <1>7, StillDecoding, Zenon

LEMMA FrameBeingRead ==
  ASSUME TypeOK, Decoding, wellCut, chunk # <<>>
  PROVE  \E k, f :
           /\ k \in Nat /\ k < Len(frames) /\ At(k)
           /\ f = frames[k + 1] /\ Sent(f) /\ f.lengthBytes # 8
<1>1. Sendable(frames)
  BY StreamIsSendable DEF TypeOK
<1>2. PICK k \in Nat : k < Len(frames) /\ At(k)
  BY InAFrame, Zenon
<1>3. k + 1 \in 1 .. Len(frames)
  BY <1>1, <1>2, FrameFieldsAre
<1>4. Sent(frames[k + 1]) /\ frames[k + 1].lengthBytes # 8
  BY <1>1, <1>3, Zenon DEF Sendable, Decoding
<1>5. k \in Nat
  OBVIOUS
<1>. QED
  BY <1>2, <1>4, <1>5, Zenon

LEMMA FieldUnfinished ==
  ASSUME TypeOK, ParserInv, Decoding, wellCut, parsing,
         NEW k \in Nat, k < Len(frames), At(k),
         parse_state_ # "READ_PAYLOAD",
         NEW needed \in Nat, needed = Len(CurrentField(k)), Gather(needed),
         ~Complete(needed)
  PROVE  Decoding'
<1>1. k \in 0 .. Len(frames)
  BY StreamIsSendable, FrameFieldsAre DEF TypeOK
<1>2. NoEndInside
  BY Zenon DEF Decoding
<1>3. At(k)'
  BY <1>2, FieldTaken
<1>4. chunk' = <<>> /\ UNCHANGED <<frames, unread, parsing, wellCut>>
  BY Zenon DEF Gather
<1>5. chunk' \in Seq(Byte) /\ Len(chunk') <= Len(chunk)
  <2>1. Len(chunk) \in Nat
    BY LenProperties DEF TypeOK
  <2>2. 0 <= Len(chunk)
    BY <2>1
  <2>. QED
    BY <1>4, <2>2, Nothing, Zenon
<1>. QED
  BY <1>1, <1>3, <1>4, <1>5, StillDecoding, Zenon

LEMMA HeaderDecodes ==
  ASSUME TypeOK, ParserInv, Decoding, wellCut, ReadHeader
  PROVE  Decoding'
<1>1. Sendable(frames)
  BY StreamIsSendable DEF TypeOK
<1>2. parsing /\ chunk # <<>> /\ parse_state_ = "READ_HEADER" /\ Gather(2)
  BY Zenon DEF ReadHeader, Pass
<1>3. PICK k, f :
        /\ k \in Nat /\ k < Len(frames) /\ At(k)
        /\ f = frames[k + 1] /\ Sent(f) /\ f.lengthBytes # 8
  BY <1>2, FrameBeingRead, Zenon
<1>4. FieldsDone(parse_state_) = 0 /\ CurrentField(k) = Fields(f)[1]
  <2>1. FieldsDone(parse_state_) = 0
    BY <1>2, FieldsDoneIs, Zenon
  <2>2. 0 + 1 = 1
    OBVIOUS
  <2>. QED
    BY <1>3, <2>1, <2>2, Zenon DEF CurrentField
<1>5. 2 = Len(CurrentField(k))
  <2>1. Len(Fields(f)[1]) = 2
    BY <1>3, TheFields
  <2>. QED
    BY <1>4, <2>1, Zenon
<1>6. NoEndInside
  BY Zenon DEF Decoding
<1>7. chunk' = <<>> /\ UNCHANGED <<frames, unread, parsing, handled, wellCut>>
  BY <1>2, Zenon DEF Gather
<1>8. parse_state_ # "READ_PAYLOAD"
  BY <1>2
<1>9. CASE ~Complete(2)
  BY <1>2, <1>3, <1>5, <1>8, <1>9, FieldUnfinished, Zenon
<1>10. CASE Complete(2)
  <2>1. /\ Gathered = CurrentField(k)
        /\ buffer_' = <<>> /\ Gathered' = <<>>
        /\ Begin(frames, 4 * k + FieldsDone(parse_state_) + 1) \o unread
             = Wire(frames)
    BY <1>2, <1>3, <1>5, <1>6, <1>8, <1>10, FieldTaken
  <2>2. 4 * k + 0 + 1 = 4 * k + 1 /\ 4 * k + 1 + 1 = 4 * k + 2
    BY <1>3
  <2>3. Begin(frames, 4 * k + 1) \o unread = Wire(frames)
    BY <1>4, <2>1, <2>2, Zenon
  <2>4. /\ Begin(frames, 4 * k + 1 + 1) = Begin(frames, 4 * k + 1) \o Fields(f)[2]
        /\ 4 * k + 1 \in 0 .. 4 * Len(frames)
        /\ 4 * k + 1 + 1 \in 0 .. 4 * Len(frames)
    <3>1. 1 \in 0 .. 3 /\ 1 + 1 = 2
      OBVIOUS
    <3>2. /\ Begin(frames, 4 * k + 1 + 1)
               = Begin(frames, 4 * k + 1) \o Fields(frames[k + 1])[1 + 1]
          /\ 4 * k + 1 \in 0 .. 4 * Len(frames)
          /\ 4 * k + 1 + 1 \in 0 .. 4 * Len(frames)
      BY <1>1, <1>3, <3>1, NextField
    <3>. QED
      BY <1>3, <3>1, <3>2, Zenon
  <2>5. PICK first, second, length :
          /\ first = Gathered[1] /\ second = Gathered[2]
          /\ length = second % 128
    OBVIOUS
  <2>6. PICK known, masked :
          /\ known = IF length < 126 THEN length ELSE 0
          /\ masked = (second >= 128)
    OBVIOUS
  <2>7. /\ current_frame_' =
             [current_frame_ EXCEPT !.opcode = Opcode(first),
                                    !.masked = masked,
                                    !.payload_length = known]
        /\ parse_state_' = IF length < 126 THEN "READ_MASKING_KEY"
                                           ELSE "READ_PAYLOAD_LENGTH"
    BY <1>10, <2>5, <2>6, Zenon DEF ReadHeader
  <2>8. current_frame_ \in FrameType
    BY Zenon DEF TypeOK, FrameType
  <2>9. /\ current_frame_'.opcode = Opcode(first)
        /\ current_frame_'.masked = masked
        /\ current_frame_'.payload_length = known
    BY <2>7, <2>8 DEF FrameType
  <2>10. /\ Opcode(first) = f.opcode
         /\ masked = (f.key # <<>>)
         /\ length = IF f.lengthBytes = 0 THEN Len(f.payload) ELSE 126
    <3>1. /\ Opcode(Fields(f)[1][1]) = f.opcode
          /\ (Fields(f)[1][2] >= 128) = (f.key # <<>>)
          /\ (Fields(f)[1][2]) % 128
               = IF f.lengthBytes = 0 THEN Len(f.payload) ELSE 126
      BY <1>3, TheFields
    <3>2. first = Fields(f)[1][1] /\ second = Fields(f)[1][2]
      BY <1>4, <2>1, <2>5, Zenon
    <3>. QED
      BY <2>5, <2>6, <3>1, <3>2, Zenon
  <2>11. handled' = Expected(SubSeq(frames, 1, k))
    BY <1>3, <1>7, Zenon DEF At
  <2>12. CASE f.lengthBytes = 0
    <3>1. length < 126 /\ length = Len(f.payload)
      BY <1>3, <2>10, <2>12, TheFields, Zenon
    <3>2. parse_state_' = "READ_MASKING_KEY" /\ known = Len(f.payload)
      BY <2>6, <2>7, <3>1, Zenon
    <3>3. FrameKnown(f)'
      BY <2>9, <2>10, <3>2, Zenon DEF FrameKnown
    <3>4. FrameKnown(frames[k + 1])'
      BY <1>3, <1>7, <3>3, Zenon DEF FrameKnown
    <3>5. FieldsDone(parse_state_') = 2
      BY <3>2, FieldsDoneIs, Zenon
    <3>6. Begin(frames, 4 * k + 2) \o unread = Wire(frames)
      <4>1. Fields(f)[2] = <<>>
        BY <1>3, <2>12, TheFields, Zenon
      <4>2. Begin(frames, 4 * k + 1) \in Seq(Byte)
        BY <1>1, <2>4, StreamOfFields, Zenon
      <4>3. Begin(frames, 4 * k + 1) \o <<>> = Begin(frames, 4 * k + 1)
        BY <4>2, ConcatEmptySeq
      <4>. QED
        BY <2>2, <2>3, <2>4, <4>1, <4>3, Zenon
    <3>. QED
      BY <1>2, <1>3, <1>7, <2>1, <2>2, <2>4, <2>11, <3>4, <3>5, <3>6,
         NextFieldBegins, Zenon
  <2>13. CASE f.lengthBytes # 0
    <3>1. length = 126 /\ ~(length < 126) /\ f.lengthBytes = 2
      <4>1. length = 126 /\ f.lengthBytes = 2
        BY <1>3, <2>10, <2>13, TheFields
      <4>. QED
        BY <4>1
    <3>2. parse_state_' = "READ_PAYLOAD_LENGTH"
      BY <2>7, <3>1, Zenon
    <3>3. FrameKnown(f)'
      BY <2>9, <2>10, <3>1, <3>2, Zenon DEF FrameKnown
    <3>4. FrameKnown(frames[k + 1])'
      BY <1>3, <1>7, <3>3, Zenon DEF FrameKnown
    <3>5. FieldsDone(parse_state_') = 1
      BY <3>2, FieldsDoneIs, Zenon
    <3>. QED
      BY <1>2, <1>3, <1>7, <2>1, <2>3, <2>4, <2>11, <3>4, <3>5,
         NextFieldBegins, Zenon
  <2>. QED
    BY <2>12, <2>13, Zenon
<1>. QED
  BY <1>9, <1>10, Zenon

LEMMA LengthDecodes ==
  ASSUME TypeOK, ParserInv, Decoding, wellCut, ReadPayloadLength
  PROVE  Decoding'
<1>1. Sendable(frames)
  BY StreamIsSendable DEF TypeOK
<1>2. /\ parsing /\ chunk # <<>> /\ parse_state_ = "READ_PAYLOAD_LENGTH"
      /\ LengthSize = 2 /\ Gather(2)
  <2>1. parsing /\ chunk # <<>> /\ parse_state_ = "READ_PAYLOAD_LENGTH"
    BY Zenon DEF ReadPayloadLength, Pass
  <2>2. LengthSize = 2
    BY <2>1, Zenon DEF ParserInv, LengthSize
  <2>. QED
    BY <2>1, <2>2, Zenon DEF ReadPayloadLength
<1>3. PICK k, f :
        /\ k \in Nat /\ k < Len(frames) /\ At(k)
        /\ f = frames[k + 1] /\ Sent(f) /\ f.lengthBytes # 8
  BY <1>2, FrameBeingRead, Zenon
<1>4. FieldsDone(parse_state_) = 1 /\ CurrentField(k) = Fields(f)[2]
  <2>1. FieldsDone(parse_state_) = 1
    BY <1>2, FieldsDoneIs, Zenon
  <2>2. 1 + 1 = 2
    OBVIOUS
  <2>. QED
    BY <1>3, <2>1, <2>2, Zenon DEF CurrentField
<1>5. FrameKnown(f)
  BY <1>3, Zenon DEF At
<1>6. f.lengthBytes = 2
  BY <1>2, <1>5, Zenon DEF FrameKnown
<1>7. 2 = Len(CurrentField(k))
  <2>1. Len(Fields(f)[2]) = 2
    BY <1>3, <1>6, TheFields
  <2>. QED
    BY <1>4, <2>1, Zenon
<1>8. NoEndInside
  BY Zenon DEF Decoding
<1>9. chunk' = <<>> /\ UNCHANGED <<frames, unread, parsing, handled, wellCut>>
  BY <1>2, Zenon DEF Gather
<1>10. parse_state_ # "READ_PAYLOAD"
  BY <1>2
<1>11. CASE ~Complete(2)
  BY <1>2, <1>3, <1>7, <1>10, <1>11, FieldUnfinished, Zenon
<1>12. CASE Complete(2)
  <2>1. /\ Gathered = CurrentField(k)
        /\ buffer_' = <<>> /\ Gathered' = <<>>
        /\ Begin(frames, 4 * k + FieldsDone(parse_state_) + 1) \o unread
             = Wire(frames)
    BY <1>2, <1>3, <1>7, <1>8, <1>10, <1>12, FieldTaken
  <2>2. /\ 4 * k + 1 + 1 = 4 * k + 2
        /\ 4 * k + 2 \in 0 .. 4 * Len(frames)
    <3>1. 1 \in 0 .. 3
      OBVIOUS
    <3>2. 4 * k + 1 + 1 \in 0 .. 4 * Len(frames)
      BY <1>1, <1>3, <3>1, NextField
    <3>3. 4 * k + 1 + 1 = 4 * k + 2
      BY <1>3
    <3>. QED
      BY <3>2, <3>3, Zenon
  <2>3. Begin(frames, 4 * k + 2) \o unread = Wire(frames)
    BY <1>4, <2>1, <2>2, Zenon
  <2>4. (Gathered[1]) * 256 + Gathered[2] = Len(f.payload)
    <3>1. (Fields(f)[2][1]) * 256 + Fields(f)[2][2] = Len(f.payload)
      BY <1>3, <1>6, TheFields
    <3>2. Gathered = Fields(f)[2]
      BY <1>4, <2>1, Zenon
    <3>. QED
      BY <3>1, <3>2
  <2>5. PICK length : length = Len(f.payload)
    OBVIOUS
  <2>6. /\ current_frame_' = [current_frame_ EXCEPT !.payload_length = length]
        /\ parse_state_' = "READ_MASKING_KEY"
    <3>1. /\ current_frame_' =
               [current_frame_ EXCEPT
                  !.payload_length = (Gathered[1]) * 256 + Gathered[2]]
          /\ parse_state_' = "READ_MASKING_KEY"
      BY <1>2, <1>12, SMT DEF ReadPayloadLength
    <3>. QED
      BY <2>4, <2>5, <3>1
  <2>7. current_frame_ \in FrameType
    BY Zenon DEF TypeOK, FrameType
  <2>8. /\ current_frame_'.opcode = current_frame_.opcode
        /\ current_frame_'.masked = current_frame_.masked
        /\ current_frame_'.payload_length = length
    BY <2>6, <2>7 DEF FrameType
  <2>9. FrameKnown(f)'
    <3>1. /\ current_frame_.opcode = f.opcode
          /\ current_frame_.masked = (f.key # <<>>)
      BY <1>2, <1>5, Zenon DEF FrameKnown
    <3>. QED
      BY <2>5, <2>6, <2>8, <3>1, Zenon DEF FrameKnown
  <2>10. FrameKnown(frames[k + 1])'
    BY <1>3, <1>9, <2>9, Zenon DEF FrameKnown
  <2>11. FieldsDone(parse_state_') = 2
    BY <2>6, FieldsDoneIs, Zenon
  <2>12. handled' = Expected(SubSeq(frames, 1, k))
    BY <1>3, <1>9, Zenon DEF At
  <2>. QED
    BY <1>2, <1>3, <1>9, <2>1, <2>2, <2>3, <2>10, <2>11, <2>12,
       NextFieldBegins, Zenon
<1>. QED
  BY <1>11, <1>12, Zenon

LEMMA KeyDecodes ==
  ASSUME TypeOK, ParserInv, Decoding, wellCut, ReadMaskingKey
  PROVE  Decoding'
<1>1. Sendable(frames)
  BY StreamIsSendable DEF TypeOK
<1>2. /\ parsing /\ chunk # <<>> /\ parse_state_ = "READ_MASKING_KEY"
      /\ current_frame_.masked /\ Gather(4)
  BY Zenon DEF ReadMaskingKey, Pass
<1>3. PICK k, f :
        /\ k \in Nat /\ k < Len(frames) /\ At(k)
        /\ f = frames[k + 1] /\ Sent(f) /\ f.lengthBytes # 8
  BY <1>2, FrameBeingRead, Zenon
<1>4. FieldsDone(parse_state_) = 2 /\ CurrentField(k) = f.key
  <2>1. FieldsDone(parse_state_) = 2
    BY <1>2, FieldsDoneIs, Zenon
  <2>2. 2 + 1 = 3
    OBVIOUS
  <2>3. Fields(f)[3] = f.key
    BY <1>3, TheFields
  <2>. QED
    BY <1>3, <2>1, <2>2, <2>3, Zenon DEF CurrentField
<1>5. FrameKnown(f)
  BY <1>3, Zenon DEF At
<1>6. f.key # <<>>
  BY <1>2, <1>5, Zenon DEF FrameKnown
<1>7. 4 = Len(CurrentField(k))
  <2>1. Len(f.key) = 4
    BY <1>3, <1>6, TheFields
  <2>. QED
    BY <1>4, <2>1, Zenon
<1>8. NoEndInside
  BY Zenon DEF Decoding
<1>9. chunk' = <<>> /\ UNCHANGED <<frames, unread, parsing, handled, wellCut>>
  BY <1>2, Zenon DEF Gather
<1>10. parse_state_ # "READ_PAYLOAD"
  BY <1>2
<1>11. CASE ~Complete(4)
  BY <1>2, <1>3, <1>7, <1>10, <1>11, FieldUnfinished, Zenon
<1>12. CASE Complete(4)
  <2>1. /\ Gathered = CurrentField(k)
        /\ buffer_' = <<>> /\ Gathered' = <<>>
        /\ Begin(frames, 4 * k + FieldsDone(parse_state_) + 1) \o unread
             = Wire(frames)
    BY <1>2, <1>3, <1>7, <1>8, <1>10, <1>12, FieldTaken
  <2>2. /\ 4 * k + 2 + 1 = 4 * k + 3
        /\ 4 * k + 3 \in 0 .. 4 * Len(frames)
    <3>1. 2 \in 0 .. 3
      OBVIOUS
    <3>2. 4 * k + 2 + 1 \in 0 .. 4 * Len(frames)
      BY <1>1, <1>3, <3>1, NextField
    <3>3. 4 * k + 2 + 1 = 4 * k + 3
      BY <1>3
    <3>. QED
      BY <3>2, <3>3, Zenon
  <2>3. Begin(frames, 4 * k + 3) \o unread = Wire(frames)
    BY <1>4, <2>1, <2>2, Zenon
  <2>4. SubSeq(Gathered, 1, 4) = f.key
    <3>1. f.key \in Seq(Byte) /\ Len(f.key) = 4
      <4>1. f.key \in Seq(Byte)
        BY <1>3, Zenon DEF Sent, Frame
      <4>. QED
        BY <1>4, <1>7, <4>1, Zenon
    <3>2. SubSeq(f.key, 1, 4) = f.key
      BY <3>1, SubSeqFull
    <3>. QED
      BY <1>4, <2>1, <3>2, Zenon
  <2>5. PICK key : key = f.key
    OBVIOUS
  <2>6. /\ current_frame_' = [current_frame_ EXCEPT !.masking_key = key]
        /\ parse_state_' = "READ_PAYLOAD"
    BY <1>12, <2>4, <2>5, Zenon DEF ReadMaskingKey
  <2>7. current_frame_ \in FrameType
    BY Zenon DEF TypeOK, FrameType
  <2>8. /\ current_frame_'.opcode = current_frame_.opcode
        /\ current_frame_'.masked = current_frame_.masked
        /\ current_frame_'.payload_length = current_frame_.payload_length
        /\ current_frame_'.masking_key = key
    BY <2>6, <2>7 DEF FrameType
  <2>9. FrameKnown(f)'
    <3>1. /\ current_frame_.opcode = f.opcode
          /\ current_frame_.masked = (f.key # <<>>)
          /\ current_frame_.payload_length = Len(f.payload)
      BY <1>2, <1>5, Zenon DEF FrameKnown
    <3>. QED
      BY <2>5, <2>6, <2>8, <3>1, Zenon DEF FrameKnown
  <2>10. FrameKnown(frames[k + 1])'
    BY <1>3, <1>9, <2>9, Zenon DEF FrameKnown
  <2>11. FieldsDone(parse_state_') = 3
    BY <2>6, FieldsDoneIs, Zenon
  <2>12. handled' = Expected(SubSeq(frames, 1, k))
    BY <1>3, <1>9, Zenon DEF At
  <2>. QED
    BY <1>2, <1>3, <1>9, <2>1, <2>2, <2>3, <2>10, <2>11, <2>12,
       NextFieldBegins, Zenon
<1>. QED
  BY <1>11, <1>12, Zenon

(* Without a key there is a field of no bytes to go past.                  *)
LEMMA NoKeyDecodes ==
  ASSUME TypeOK, Decoding, wellCut, SkipMaskingKey
  PROVE  Decoding'
<1>1. Sendable(frames)
  BY StreamIsSendable DEF TypeOK
<1>2. /\ parsing /\ chunk # <<>> /\ parse_state_ = "READ_MASKING_KEY"
      /\ ~current_frame_.masked /\ parse_state_' = "READ_PAYLOAD"
      /\ UNCHANGED <<frames, unread, chunk, parsing, current_frame_,
                     bytes_read_, buffer_, handled, wellCut>>
  BY Zenon DEF SkipMaskingKey, Pass
<1>3. PICK k, f :
        /\ k \in Nat /\ k < Len(frames) /\ At(k)
        /\ f = frames[k + 1] /\ Sent(f) /\ f.lengthBytes # 8
  BY <1>2, FrameBeingRead, Zenon
<1>4. FrameKnown(f)
  BY <1>3, Zenon DEF At
<1>5. f.key = <<>>
  BY <1>2, <1>4, Zenon DEF FrameKnown
<1>6. FieldsDone(parse_state_) = 2 /\ FieldsDone(parse_state_') = 3
  BY <1>2, FieldsDoneIs, Zenon
<1>7. CurrentField(k) = <<>>
  <2>1. 2 + 1 = 3
    OBVIOUS
  <2>2. Fields(f)[3] = f.key
    BY <1>3, TheFields
  <2>. QED
    BY <1>3, <1>5, <1>6, <2>1, <2>2, Zenon DEF CurrentField
<1>8. buffer_ = <<>>
  <2>1. CASE Len(buffer_) < Len(CurrentField(k))
    <3>1. Len(buffer_) < 0
      BY <1>7, <2>1, Nothing, Zenon
    <3>2. Len(buffer_) \in Nat
      BY LenProperties DEF TypeOK
    <3>. QED
      BY <3>1, <3>2
  <2>. QED
    BY <1>3, <2>1, Zenon DEF At
<1>9. Begin(frames, 4 * k + 3) = Begin(frames, 4 * k + 2)
  <2>1. /\ Begin(frames, 4 * k + 2 + 1)
             = Begin(frames, 4 * k + 2) \o Fields(frames[k + 1])[2 + 1]
        /\ 4 * k + 2 \in 0 .. 4 * Len(frames)
    <3>1. 2 \in 0 .. 3
      OBVIOUS
    <3>. QED
      BY <1>1, <1>3, <3>1, NextField
  <2>2. Fields(frames[k + 1])[2 + 1] = <<>>
    BY <1>6, <1>7, Zenon DEF CurrentField
  <2>3. Begin(frames, 4 * k + 2) \in Seq(Byte)
    BY <1>1, <2>1, StreamOfFields, Zenon
  <2>4. Begin(frames, 4 * k + 2) \o <<>> = Begin(frames, 4 * k + 2)
    BY <2>3, ConcatEmptySeq
  <2>5. 4 * k + 2 + 1 = 4 * k + 3
    BY <1>3
  <2>. QED
    BY <2>1, <2>2, <2>4, <2>5, Zenon
<1>10. Behind(4 * k + FieldsDone(parse_state_), Gathered)'
  <2>1. (Begin(frames, 4 * k + 2) \o Gathered) \o unread = Wire(frames)
    BY <1>3, <1>6, Zenon DEF At, Behind
  <2>2. Gathered' = Gathered
    BY <1>2, Zenon DEF Gathered
  <2>. QED
    BY <1>2, <1>6, <1>9, <2>1, <2>2, Zenon DEF Behind
<1>11. FrameKnown(frames[k + 1])'
  <2>1. FrameKnown(f)'
    BY <1>2, <1>4, Zenon DEF FrameKnown
  <2>. QED
    BY <1>2, <1>3, <2>1, Zenon DEF FrameKnown
<1>12. At(k)'
  BY <1>2, <1>3, <1>8, <1>10, <1>11, Zenon DEF At
<1>13. k \in 0 .. Len(frames)
  BY <1>1, <1>3, FrameFieldsAre
<1>14. chunk' \in Seq(Byte) /\ Len(chunk') <= Len(chunk)
  <2>1. chunk \in Seq(Byte) /\ Len(chunk) \in Nat
    BY LenProperties DEF TypeOK
  <2>2. Len(chunk) <= Len(chunk)
    BY <2>1
  <2>. QED
    BY <1>2, <2>1, <2>2, Zenon
<1>. QED
  BY <1>2, <1>12, <1>13, <1>14, StillDecoding, Zenon

LEMMA BytesAssociative ==
  \A p, q, s \in Seq(Byte) : (p \o q) \o s = p \o (q \o s)
BY Associative, SMTT(30)

(* The payload e of a frame is complete, and r is left of the chunk.       *)
PayloadComplete(fs, k, e, r, u) ==
  /\ Sendable(fs) /\ k \in Nat /\ k < Len(fs)
  /\ e \in Seq(Byte) /\ r \in Seq(Byte) /\ u \in Seq(Byte)
  /\ (Begin(fs, 4 * k + 3) \o (e \o r)) \o u = Wire(fs)
  /\ Len(e) = Len(Fields(fs[k + 1])[4])

LEMMA PayloadArrived ==
  ASSUME NEW fs, NEW k, NEW e, NEW r, NEW u, PayloadComplete(fs, k, e, r, u)
  PROVE  /\ e = Fields(fs[k + 1])[4]
         /\ (Begin(fs, 4 * (k + 1)) \o r) \o u = Wire(fs)
<1>0. /\ Sendable(fs) /\ k \in Nat /\ k < Len(fs)
      /\ e \in Seq(Byte) /\ r \in Seq(Byte) /\ u \in Seq(Byte)
      /\ (Begin(fs, 4 * k + 3) \o (e \o r)) \o u = Wire(fs)
      /\ Len(e) = Len(Fields(fs[k + 1])[4])
  BY Zenon DEF PayloadComplete
<1>1. PICK x \in Seq(Byte), z \in Seq(Byte) :
        x = Begin(fs, 4 * k + 3) /\ z = Begin(fs, 4 * k + 4)
  <2>1. 3 \in 0 .. 3 /\ 4 * k + 3 + 1 = 4 * k + 4
    BY <1>0
  <2>2. 4 * k + 3 \in 0 .. 4 * Len(fs) /\ 4 * k + 3 + 1 \in 0 .. 4 * Len(fs)
    BY <1>0, <2>1, NextField
  <2>. QED
    BY <1>0, <2>1, <2>2, StreamOfFields, Zenon
<1>2. PICK j \in 0 .. 3 : j = 3
  OBVIOUS
<1>3. j + 1 = 4 /\ 4 * k + j + 1 = 4 * k + 4 /\ 4 * k + 4 = 4 * (k + 1)
  BY <1>0, <1>2
<1>4. PICK v \in Seq(Byte) : v = r \o u
  BY <1>0, ConcatProperties
<1>5. (x \o e) \o v = (x \o (e \o r)) \o u
  <2>1. x \o (e \o r) = (x \o e) \o r
    BY <1>0, BytesAssociative, ZenonT(60)
  <2>2. PICK y \in Seq(Byte) : y = x \o e
    BY <1>0, ConcatProperties
  <2>3. (y \o r) \o u = y \o (r \o u)
    BY <1>0, BytesAssociative, ZenonT(60)
  <2>. QED
    BY <1>4, <2>1, <2>2, <2>3, Zenon
<1>6. /\ (Begin(fs, 4 * k + j) \o e) \o v = Wire(fs)
      /\ Len(e) = Len(Fields(fs[k + 1])[j + 1])
  BY <1>0, <1>1, <1>2, <1>3, <1>5, Zenon
<1>7. /\ e = Fields(fs[k + 1])[j + 1]
      /\ Begin(fs, 4 * k + j + 1) \o v = Wire(fs)
  BY <1>0, <1>6, FieldArrived
<1>8. (z \o r) \o u = z \o (r \o u)
  BY <1>0, BytesAssociative
<1>. QED
  BY <1>1, <1>3, <1>4, <1>7, <1>8, Zenon

LEMMA PartTaken ==
  ASSUME NEW b \in Seq(Byte), NEW c \in Seq(Byte), NEW n \in 0 .. Len(c)
  PROVE  \E d, r \in Seq(Byte) :
           /\ d = SubSeq(c, 1, n) /\ r = SubSeq(c, n + 1, Len(c))
           /\ Len(r) = Len(c) - n /\ d \o r = c
           /\ b \o d \in Seq(Byte) /\ Len(b \o d) = Len(b) + n
           /\ (b \o d) \o r = b \o c
<1>1. /\ SubSeq(c, 1, n) \in Seq(Byte) /\ Len(SubSeq(c, 1, n)) = n
      /\ SubSeq(c, n + 1, Len(c)) \in Seq(Byte)
      /\ Len(SubSeq(c, n + 1, Len(c))) = Len(c) - n
      /\ SubSeq(c, 1, n) \o SubSeq(c, n + 1, Len(c)) = c
  BY CutInTwo
<1>2. PICK d \in Seq(Byte), r \in Seq(Byte) :
        /\ d = SubSeq(c, 1, n) /\ r = SubSeq(c, n + 1, Len(c))
        /\ Len(d) = n /\ Len(r) = Len(c) - n /\ d \o r = c
  BY <1>1, Zenon
<1>3. b \o d \in Seq(Byte) /\ Len(b \o d) = Len(b) + Len(d)
  BY ConcatProperties
<1>4. (b \o d) \o r = b \o (d \o r)
  BY BytesAssociative, ZenonT(60)
<1>5. d \in Seq(Byte) /\ r \in Seq(Byte)
  OBVIOUS
<1>. QED
  BY <1>2, <1>3, <1>4, <1>5, Zenon

LEMMA PayloadDecodes ==
  ASSUME TypeOK, Decoding, wellCut, ReadPayload
  PROVE  Decoding'
<1>1. Sendable(frames)
  BY StreamIsSendable DEF TypeOK
<1>2. parsing /\ chunk # <<>> /\ parse_state_ = "READ_PAYLOAD"
  BY Zenon DEF ReadPayload, Pass
<1>3. PICK k, f :
        /\ k \in Nat /\ k < Len(frames) /\ At(k)
        /\ f = frames[k + 1] /\ Sent(f) /\ f.lengthBytes # 8
  BY <1>2, FrameBeingRead, Zenon
<1>4. FieldsDone(parse_state_) = 3 /\ CurrentField(k) = Fields(f)[4]
  <2>1. FieldsDone(parse_state_) = 3
    BY <1>2, FieldsDoneIs, Zenon
  <2>2. 3 + 1 = 4
    OBVIOUS
  <2>. QED
    BY <1>3, <2>1, <2>2, Zenon DEF CurrentField
<1>5. /\ current_frame_.opcode = f.opcode
      /\ current_frame_.masked = (f.key # <<>>)
      /\ current_frame_.payload_length = Len(f.payload)
      /\ current_frame_.masked => current_frame_.masking_key = f.key
  BY <1>2, <1>3, Zenon DEF At, FrameKnown
<1>6. PICK b \in Seq(Byte), c \in Seq(Byte), u \in Seq(Byte), w \in Seq(Byte) :
        b = buffer_ /\ c = chunk /\ u = unread /\ w = Wire(frames)
  BY <1>1, WireIsBytes, Zenon DEF TypeOK
<1>7. PICK length \in Nat : length = Len(f.payload)
  <2>1. f.payload \in Seq(Byte)
    BY <1>3, Zenon DEF Sent, Frame
  <2>. QED
    BY <2>1, LenProperties
<1>8. Len(CurrentField(k)) = length
  <2>1. Len(Fields(f)[4]) = Len(f.payload)
    BY <1>3, TheFields
  <2>. QED
    BY <1>4, <1>7, <2>1, Zenon
<1>9. PICK l \in Nat, n \in Nat : l = Len(b) /\ n = Len(c) /\ l <= length
  <2>1. Len(b) \in Nat /\ Len(c) \in Nat
    BY LenProperties
  <2>2. CASE b = <<>>
    <3>1. Len(b) = 0 /\ 0 <= length
      BY <2>2, Nothing
    <3>. QED
      BY <2>1, <3>1, Zenon
  <2>3. CASE Len(b) < length
    <3>1. Len(b) <= length
      BY <2>1, <2>3
    <3>. QED
      BY <2>1, <3>1, Zenon
  <2>. QED
    BY <1>3, <1>6, <1>8, <2>2, <2>3, Zenon DEF At
<1>10. PICK taken \in 0 .. n : taken = PayloadTaken /\ l + taken <= length
  <2>1. PayloadTaken = IF l > length THEN n
                       ELSE IF length - l < n THEN length - l ELSE n
    BY <1>5, <1>6, <1>7, <1>9, Zenon DEF PayloadTaken
  <2>2. /\ PayloadTaken \in 0 .. n /\ l + PayloadTaken <= length
    BY <1>9, <2>1
  <2>. QED
    BY <2>2, Zenon
<1>11. PICK d \in Seq(Byte), r \in Seq(Byte) :
         /\ d = SubSeq(c, 1, taken) /\ r = SubSeq(c, taken + 1, Len(c))
         /\ Len(r) = Len(c) - taken /\ d \o r = c
         /\ b \o d \in Seq(Byte) /\ Len(b \o d) = Len(b) + taken
         /\ (b \o d) \o r = b \o c
  <2>1. taken \in 0 .. Len(c)
    BY <1>9, <1>10, Zenon
  <2>. QED
    BY <2>1, PartTaken, ZenonT(60)
<1>12. PICK data \in Seq(Byte) : data = b \o d /\ Len(data) = l + taken
  BY <1>9, <1>11, Zenon
<1>13. (Begin(frames, 4 * k + 3) \o (data \o r)) \o u = w
  BY <1>3, <1>4, <1>6, <1>11, <1>12, Zenon DEF At, Behind, Gathered
<1>19. chunk' = r /\ UNCHANGED <<frames, unread, parsing, wellCut>>
  BY <1>6, <1>10, <1>11, Zenon DEF ReadPayload, Drop
<1>20. chunk' \in Seq(Byte) /\ Len(chunk') <= Len(chunk)
  <2>1. n - taken <= n
    BY <1>10
  <2>. QED
    BY <1>6, <1>9, <1>11, <1>19, <2>1, Zenon
<1>21. buffer_ \o SubSeq(chunk, 1, PayloadTaken) = data
  BY <1>6, <1>10, <1>11, <1>12, Zenon
<1>22. k \in 0 .. Len(frames) /\ k + 1 \in 0 .. Len(frames)
  <2>1. PICK count \in Nat : count = Len(frames)
    BY <1>1, FrameFieldsAre, Zenon
  <2>2. k < count
    BY <1>3, <2>1, Zenon
  <2>3. k \in 0 .. count /\ k + 1 \in 0 .. count
    BY <1>3, <2>2
  <2>. QED
    BY <2>1, <2>3, Zenon
<1>23. CASE /\ Len(data) < current_frame_.payload_length
            /\ buffer_' = data
            /\ UNCHANGED <<parse_state_, current_frame_, bytes_read_, handled>>
  <2>1. Gathered' = Gathered
    BY <1>6, <1>11, <1>12, <1>19, <1>23, Zenon DEF Gathered
  <2>2. Behind(4 * k + FieldsDone(parse_state_), Gathered)'
    BY <1>3, <1>19, <1>23, <2>1, Zenon DEF At, Behind
  <2>3. Len(buffer_') < Len(CurrentField(k)')
    <3>1. CurrentField(k)' = CurrentField(k)
      BY <1>19, <1>23, Zenon DEF CurrentField
    <3>. QED
      BY <1>5, <1>7, <1>8, <1>23, <3>1, Zenon
  <2>4. FrameKnown(frames[k + 1])'
    BY <1>3, <1>19, <1>23, Zenon DEF At, FrameKnown
  <2>5. At(k)'
    BY <1>3, <1>19, <1>23, <2>2, <2>3, <2>4, Zenon DEF At
  <2>. QED
    BY <1>2, <1>19, <1>20, <1>22, <2>5, StillDecoding, Zenon
<1>24. CASE /\ Len(data) >= current_frame_.payload_length
            /\ FrameDone(IF current_frame_.masked
                         THEN Unmask(data, current_frame_.masking_key)
                         ELSE data)
  <2>1. l + taken >= length
    BY <1>5, <1>7, <1>12, <1>24, Zenon
  <2>2. l + taken = length
    BY <1>10, <2>1
  <2>3. /\ data = Fields(f)[4]
        /\ (Begin(frames, 4 * (k + 1)) \o r) \o u = w
    <3>1. Len(data) = Len(Fields(frames[k + 1])[4])
      BY <1>3, <1>4, <1>8, <1>12, <2>2, Zenon
    <3>2. (Begin(frames, 4 * k + 3) \o (data \o r)) \o u = Wire(frames)
      BY <1>6, <1>13, Zenon
    <3>3. k \in Nat /\ k < Len(frames)
      BY <1>3
    <3>4. /\ data = Fields(frames[k + 1])[4]
          /\ (Begin(frames, 4 * (k + 1)) \o r) \o u = Wire(frames)
      <4>1. /\ data \in Seq(Byte) /\ r \in Seq(Byte) /\ u \in Seq(Byte)
        BY <1>6, <1>11, <1>12, Zenon
      <4>2. PayloadComplete(frames, k, data, r, u)
        BY <1>1, <3>1, <3>2, <3>3, <4>1, Zenon DEF PayloadComplete
      <4>. QED
        BY <4>2, PayloadArrived
    <3>. QED
      BY <1>3, <1>6, <3>4, Zenon
  <2>4. (IF current_frame_.masked THEN Unmask(data, current_frame_.masking_key)
                                  ELSE data) = f.payload
    <3>1. /\ f.key = <<>> => Fields(f)[4] = f.payload
          /\ f.key # <<>> => Unmask(Fields(f)[4], f.key) = f.payload
      BY <1>3, TheFields
    <3>. QED
      BY <1>5, <2>3, <3>1, Zenon
  <2>5. FrameDone(f.payload)
    BY <1>24, <2>4, Zenon
  <2>6. handled' = Expected(SubSeq(frames, 1, k + 1))
    <3>1. Expected(SubSeq(frames, 1, k + 1))
            = IF f.opcode \in Processed
              THEN Append(Expected(SubSeq(frames, 1, k)), Decoded(f))
              ELSE Expected(SubSeq(frames, 1, k))
      BY <1>1, <1>3, ExpectedNext, Zenon
    <3>2. handled = Expected(SubSeq(frames, 1, k))
      BY <1>3, Zenon DEF At
    <3>3. handled' = IF f.opcode \in Processed THEN Append(handled, Decoded(f))
                                               ELSE handled
      BY <1>5, <2>5, Zenon DEF FrameDone, Decoded
    <3>. QED
      BY <3>1, <3>2, <3>3, Zenon
  <2>7. buffer_' = <<>> /\ parse_state_' = "READ_HEADER"
    BY <2>5, Zenon DEF FrameDone
  <2>8. Gathered' = r
    <3>1. <<>> \o r = r
      BY ConcatEmptySeq
    <3>. QED
      BY <1>19, <2>7, <3>1, Zenon DEF Gathered
  <2>9. Behind(4 * (k + 1) + FieldsDone(parse_state_), Gathered)'
    <3>1. FieldsDone(parse_state_') = 0
      BY <2>7, FieldsDoneIs, Zenon
    <3>2. 4 * (k + 1) + 0 = 4 * (k + 1)
      BY <1>3
    <3>. QED
      BY <1>6, <1>19, <2>3, <2>8, <3>1, <3>2, Zenon DEF Behind
  <2>10. \A g : FrameKnown(g)'
    BY <2>7, Zenon DEF FrameKnown
  <2>11. At(k + 1)'
    BY <1>19, <2>6, <2>7, <2>9, <2>10, Zenon DEF At
  <2>. QED
    BY <1>2, <1>19, <1>20, <1>22, <2>11, StillDecoding, Zenon
<1>. QED
  BY <1>21, <1>23, <1>24, Zenon DEF ReadPayload

(* A chunk that is well cut is the next part of the stream.                *)
LEMMA ChunkDecodes ==
  ASSUME TypeOK, Decoding, wellCut', NEW n \in 1 .. Len(unread),
         OnDataReceived(n)
  PROVE  Decoding'
<1>0. \A p, q, s \in Seq(Byte) : (p \o q) \o s = p \o (q \o s)
  BY BytesAssociative, Zenon
<1>1. /\ ~parsing /\ parsing' /\ wellCut
      /\ chunk' = SubSeq(unread, 1, n) /\ unread' = SubSeq(unread, n + 1, Len(unread))
      /\ FieldEnds \cap (BytesRead + 1 .. BytesRead + n - 1) = {}
      /\ UNCHANGED <<frames, parse_state_, current_frame_, buffer_, handled>>
  BY Zenon DEF OnDataReceived, Drop, parserVars
<1>2. PICK k \in 0 .. Len(frames) : At(k)
  BY <1>1, Zenon DEF Decoding
<1>3. chunk = <<>> /\ \A i \in 1 .. Len(frames) : frames[i].lengthBytes # 8
  BY <1>1, Zenon DEF Decoding
<1>4. Sendable(frames)
  BY StreamIsSendable DEF TypeOK
<1>5. PICK b \in Seq(Byte), u \in Seq(Byte), w \in Seq(Byte) :
        b = buffer_ /\ u = unread /\ w = Wire(frames)
  BY <1>4, WireIsBytes, Zenon DEF TypeOK
<1>6. PICK c \in Seq(Byte), v \in Seq(Byte) :
        /\ c = chunk' /\ v = unread' /\ c \o v = u
        /\ Len(c) = n /\ Len(v) = Len(u) - n
  <2>1. n \in 0 .. Len(u)
    <3>1. Len(u) \in Nat
      BY LenProperties
    <3>. QED
      BY <1>5, <3>1
  <2>2. /\ SubSeq(u, 1, n) \in Seq(Byte) /\ Len(SubSeq(u, 1, n)) = n
        /\ SubSeq(u, n + 1, Len(u)) \in Seq(Byte)
        /\ Len(SubSeq(u, n + 1, Len(u))) = Len(u) - n
        /\ SubSeq(u, 1, n) \o SubSeq(u, n + 1, Len(u)) = u
    BY <2>1, CutInTwo
  <2>. QED
    BY <1>1, <1>5, <2>2, Zenon
<1>7. PICK j \in 0 .. 3 : j = FieldsDone(parse_state_)
  BY FieldsDoneIs DEF TypeOK
<1>8. PICK x \in Seq(Byte) : x = Begin(frames, 4 * k + j)
  <2>1. 4 * k + j \in 0 .. 4 * Len(frames)
    <3>1. CASE k < Len(frames)
      BY <1>4, <3>1, NextField, FrameFieldsAre
    <3>2. CASE k = Len(frames)
      <4>1. ~(k < Len(frames)) /\ Len(frames) \in Nat
        BY <1>4, <3>2, FrameFieldsAre
      <4>2. parse_state_ = "READ_HEADER"
        BY <1>2, <4>1, Zenon DEF At
      <4>3. j = 0
        BY <1>7, <4>2, FieldsDoneIs, Zenon
      <4>. QED
        BY <3>2, <4>1, <4>3
    <3>3. k < Len(frames) \/ k = Len(frames)
      BY <1>4, FrameFieldsAre
    <3>. QED
      BY <3>1, <3>2, <3>3, Zenon
  <2>. QED
    BY <1>4, <2>1, StreamOfFields, Zenon
<1>9. (x \o b) \o u = w
  <2>1. b \o <<>> = b
    BY ConcatEmptySeq
  <2>. QED
    BY <1>2, <1>3, <1>5, <1>7, <1>8, <2>1, Zenon DEF At, Behind, Gathered
<1>10. (x \o (b \o c)) \o v = w
  <2>2. PICK y \in Seq(Byte) : y = x \o b
    BY ConcatProperties
  <2>3. y \o (c \o v) = (y \o c) \o v
    BY <1>0, ZenonT(60)
  <2>4. y \o c = x \o (b \o c)
    <3>1. (x \o b) \o c = x \o (b \o c)
      BY <1>0, ZenonT(60)
    <3>. QED
      BY <2>2, <3>1, Zenon
  <2>. QED
    BY <1>6, <1>9, <2>2, <2>3, <2>4, Zenon
<1>11. Behind(4 * k + FieldsDone(parse_state_), Gathered)'
  BY <1>1, <1>5, <1>6, <1>7, <1>8, <1>10, Zenon DEF Behind, Gathered
<1>12. k < Len(frames) => FrameKnown(frames[k + 1])'
  BY <1>1, <1>2, Zenon DEF At, FrameKnown
<1>13. CurrentField(k)' = CurrentField(k)
  BY <1>1, Zenon DEF CurrentField
<1>14. At(k)'
  BY <1>1, <1>2, <1>11, <1>12, <1>13, Zenon DEF At
<1>15. NoEndInside'
  <2>1. PICK m \in Int, i \in Nat : m = BytesRead /\ i = Len(u)
    <3>1. Len(u) \in Nat /\ Len(w) \in Nat
      BY LenProperties
    <3>2. Len(w) - Len(u) \in Int
      BY <3>1
    <3>. QED
      BY <1>5, <3>1, <3>2, Zenon DEF BytesRead
  <2>2. BytesRead' = m + n /\ n \in Int
    <3>1. PICK h \in Nat : h = Len(w)
      BY LenProperties
    <3>2. m = h - i /\ BytesRead' = h - (i - n)
      BY <1>1, <1>5, <1>6, <2>1, <3>1, Zenon DEF BytesRead
    <3>3. n \in Int /\ m \in Int /\ i \in Int
      OBVIOUS
    <3>4. h - (i - n) = (h - i) + n
      BY <3>3
    <3>. QED
      BY <3>2, <3>3, <3>4, Zenon
  <2>3. FieldEnds' = FieldEnds
    BY <1>1, Zenon DEF FieldEnds
  <2>5. FieldEnds \cap (m + 1 .. m + n - 1) = {}
    BY <1>1, <2>1, Zenon
  <2>6. Len(chunk') = n
    BY <1>6, Zenon
  <2>7. NoEndInside' <=> FieldEnds \cap (BytesRead' - n + 1 .. BytesRead' - 1) = {}
    BY <2>3, <2>6, Zenon DEF NoEndInside
  <2>8. BytesRead' - n + 1 = m + 1 /\ BytesRead' - 1 = m + n - 1
    BY <2>2
  <2>. QED
    BY <2>5, <2>7, <2>8, Zenon
<1>. QED
  BY <1>1, <1>3, <1>14, <1>15, Zenon DEF Decoding

LEMMA ReturnDecodes ==
  ASSUME TypeOK, Decoding, wellCut, ParseFrameReturns
  PROVE  Decoding'
<1>1. /\ chunk = <<>> /\ ~parsing'
      /\ UNCHANGED <<frames, unread, chunk, parse_state_, current_frame_,
                     bytes_read_, buffer_, handled, wellCut>>
  BY Zenon DEF ParseFrameReturns, parserVars
<1>2. PICK k \in 0 .. Len(frames) : At(k)
  BY DEF Decoding
<1>3. At(k)'
  BY <1>1, <1>2, Zenon DEF At, Behind, Gathered, CurrentField, FrameKnown
<1>4. chunk' \in Seq(Byte) /\ Len(chunk') <= Len(chunk)
  <2>1. chunk \in Seq(Byte) /\ Len(chunk) \in Nat
    BY LenProperties DEF TypeOK
  <2>2. Len(chunk) <= Len(chunk)
    BY <2>1
  <2>. QED
    BY <1>1, <2>1, <2>2, Zenon
<1>. QED
  BY <1>1, <1>3, <1>4, StillDecoding, Zenon

LEMMA DecodingStep ==
  TypeOK /\ ParserInv /\ Decoding /\ [Next]_vars => Decoding'
<1>. SUFFICES ASSUME TypeOK, ParserInv, Decoding, [Next]_vars
              PROVE  Decoding'
  OBVIOUS
<1>1. ASSUME NEW n \in 1 .. Len(unread), OnDataReceived(n)
      PROVE  Decoding'
  <2>1. CASE wellCut'
    BY <1>1, <2>1, ChunkDecodes
  <2>2. CASE ~wellCut'
    BY <1>1, <2>2, Zenon DEF OnDataReceived, Decoding
  <2>. QED
    BY <2>1, <2>2, Zenon
<1>2. ASSUME parsing, UNCHANGED <<parsing, wellCut>>, wellCut => Decoding'
      PROVE  Decoding'
  BY <1>2, Zenon DEF Decoding
<1>3. CASE ReadHeader
  <2>1. parsing /\ UNCHANGED <<parsing, wellCut>>
    BY <1>3, Zenon DEF ReadHeader, Pass, Gather
  <2>. QED
    BY <1>2, <1>3, <2>1, HeaderDecodes
<1>4. CASE ReadPayloadLength
  <2>1. parsing /\ UNCHANGED <<parsing, wellCut>>
    BY <1>4, Zenon DEF ReadPayloadLength, Pass, Gather
  <2>. QED
    BY <1>2, <1>4, <2>1, LengthDecodes
<1>5. CASE ReadMaskingKey
  <2>1. parsing /\ UNCHANGED <<parsing, wellCut>>
    BY <1>5, Zenon DEF ReadMaskingKey, Pass, Gather
  <2>. QED
    BY <1>2, <1>5, <2>1, KeyDecodes
<1>6. CASE SkipMaskingKey
  <2>1. parsing /\ UNCHANGED <<parsing, wellCut>>
    BY <1>6, Zenon DEF SkipMaskingKey, Pass
  <2>. QED
    BY <1>2, <1>6, <2>1, NoKeyDecodes
<1>7. CASE ReadPayload
  <2>1. parsing /\ UNCHANGED <<parsing, wellCut>>
    BY <1>7, Zenon DEF ReadPayload, Pass
  <2>. QED
    BY <1>2, <1>7, <2>1, PayloadDecodes
<1>8. CASE ParseFrameReturns
  <2>1. CASE wellCut
    BY <1>8, <2>1, ReturnDecodes
  <2>2. CASE ~wellCut
    BY <1>8, <2>2, Zenon DEF ParseFrameReturns, Decoding
  <2>. QED
    BY <2>1, <2>2, Zenon
<1>9. CASE UNCHANGED vars
  <2>1. UNCHANGED <<frames, unread, chunk, parsing, parse_state_,
                    current_frame_, bytes_read_, buffer_, handled, wellCut>>
    BY <1>9, Zenon DEF vars, parserVars
  <2>2. NoEndInside' = NoEndInside
    <3>1. FieldEnds' = FieldEnds
      BY <2>1, Zenon DEF FieldEnds
    <3>2. BytesRead' = BytesRead /\ chunk' = chunk
      BY <2>1, Zenon DEF BytesRead
    <3>. QED
      BY <3>1, <3>2, Zenon DEF NoEndInside
  <2>3. \A k : At(k)' = At(k)
    BY <2>1, Zenon DEF At, Behind, Gathered, CurrentField, FrameKnown
  <2>. QED
    BY <2>1, <2>2, <2>3, Zenon DEF Decoding
<1>. QED
  BY <1>1, <1>3, <1>4, <1>5, <1>6, <1>7, <1>8, <1>9, Zenon DEF Next

LEMMA DecodingInit == Init => Decoding
<1>. SUFFICES ASSUME Init PROVE Decoding
  OBVIOUS
<1>1. /\ unread = Wire(frames) /\ chunk = <<>> /\ buffer_ = <<>>
      /\ parse_state_ = "READ_HEADER" /\ handled = <<>>
      /\ wellCut = \A i \in 1 .. Len(frames) : frames[i].lengthBytes # 8
  BY Zenon DEF Init
<1>2. Sendable(frames) /\ Wire(frames) \in Seq(Byte)
  BY StreamIsSendable, WireIsBytes, Zenon DEF Init
<1>3. Gathered = <<>>
  <2>1. <<>> \o <<>> = <<>>
    OBVIOUS
  <2>. QED
    BY <1>1, <2>1, Zenon DEF Gathered
<1>4. NoEndInside
  <2>1. BytesRead = 0
    <3>1. Len(Wire(frames)) \in Nat
      BY <1>2, LenProperties
    <3>2. BytesRead = Len(Wire(frames)) - Len(Wire(frames))
      BY <1>1, Zenon DEF BytesRead
    <3>. QED
      BY <3>1, <3>2
  <2>2. Len(chunk) = 0
    BY <1>1, Nothing, Zenon
  <2>3. BytesRead - Len(chunk) + 1 .. BytesRead - 1 = {}
    BY <2>1, <2>2
  <2>. QED
    BY <2>3, Zenon DEF NoEndInside
<1>5. At(0)
  <2>1. 4 * 0 + FieldsDone(parse_state_) = 0
    <3>1. FieldsDone(parse_state_) = 0
      BY <1>1, FieldsDoneIs, Zenon
    <3>. QED
      BY <3>1
  <2>2. Begin(frames, 0) = <<>>
    BY <1>2, StreamOfFields, Zenon
  <2>3. (<<>> \o <<>>) \o unread = unread
    <3>1. unread \in Seq(Byte) /\ <<>> \o <<>> = <<>>
      BY <1>1, <1>2
    <3>2. <<>> \o unread = unread
      BY <3>1, ConcatEmptySeq
    <3>. QED
      BY <3>1, <3>2, Zenon
  <2>4. Behind(4 * 0 + FieldsDone(parse_state_), Gathered)
    BY <1>1, <1>3, <2>1, <2>2, <2>3, Zenon DEF Behind
  <2>5. handled = Expected(SubSeq(frames, 1, 0))
    BY <1>1, <1>2, ExpectedNext, Zenon
  <2>. QED
    BY <1>1, <2>4, <2>5, Zenon DEF At, FrameKnown
<1>6. 0 \in 0 .. Len(frames)
  BY <1>2, FrameFieldsAre
<1>. QED
  BY <1>1, <1>4, <1>5, <1>6, Zenon DEF Decoding

LEMMA BeginGrows ==
  ASSUME NEW fs, Sendable(fs),
         NEW m \in 0 .. 4 * Len(fs), NEW n \in 0 .. 4 * Len(fs), m <= n
  PROVE  /\ Len(Begin(fs, m)) \in Nat /\ Len(Begin(fs, n)) \in Nat
         /\ Len(Begin(fs, m)) <= Len(Begin(fs, n))
<1>1. Begin(fs, m) \in Seq(Byte) /\ Begin(fs, n) \in Seq(Byte)
  BY StreamOfFields, Zenon
<1>2. AllFields(fs) \in Seq(Seq(Byte)) /\ Len(AllFields(fs)) = 4 * Len(fs)
  BY StreamOfFields, Zenon
<1>3. m \in 0 .. Len(AllFields(fs)) /\ n \in 0 .. Len(AllFields(fs))
  BY <1>2, Zenon
<1>4. Len(FlattenSeq(SubSeq(AllFields(fs), 1, m)))
        <= Len(FlattenSeq(SubSeq(AllFields(fs), 1, n)))
  BY <1>2, <1>3, BeginsGrow
<1>. QED
  BY <1>1, <1>4, LenProperties DEF Begin

(* A field more is as many bytes more as it has.                           *)
LEMMA FieldLonger ==
  ASSUME NEW fs, Sendable(fs), NEW k \in Nat, k < Len(fs), NEW j \in 0 .. 3
  PROVE  /\ Len(Begin(fs, 4 * k + j)) \in Nat
         /\ Len(Fields(fs[k + 1])[j + 1]) \in Nat
         /\ Len(Begin(fs, 4 * k + j + 1))
              = Len(Begin(fs, 4 * k + j)) + Len(Fields(fs[k + 1])[j + 1])
<1>1. /\ Begin(fs, 4 * k + j + 1)
          = Begin(fs, 4 * k + j) \o Fields(fs[k + 1])[j + 1]
      /\ 4 * k + j \in 0 .. 4 * Len(fs)
  BY NextField
<1>2. Begin(fs, 4 * k + j) \in Seq(Byte)
  BY <1>1, StreamOfFields, Zenon
<1>3. Fields(fs[k + 1])[j + 1] \in Seq(Byte)
  BY FieldIsBytes, Zenon
<1>4. PICK b \in Seq(Byte), f \in Seq(Byte) :
        b = Begin(fs, 4 * k + j) /\ f = Fields(fs[k + 1])[j + 1]
  BY <1>2, <1>3, Zenon
<1>5. Len(b \o f) = Len(b) + Len(f) /\ Len(b) \in Nat /\ Len(f) \in Nat
  BY ConcatProperties, LenProperties
<1>. QED
  BY <1>1, <1>4, <1>5, Zenon

(* Every frame has bytes.                                                  *)
LEMMA FrameLonger ==
  ASSUME NEW fs, Sendable(fs), NEW k \in Nat, NEW i \in Nat, k <= i, i < Len(fs)
  PROVE  Len(Begin(fs, 4 * k)) < Len(Begin(fs, 4 * (i + 1)))
<1>1. PICK n \in Nat : n = Len(fs)
  BY FrameFieldsAre
<1>2. /\ 4 * k \in 0 .. 4 * n /\ 4 * i \in 0 .. 4 * n /\ 4 * k <= 4 * i
      /\ 4 * i + 1 \in 0 .. 4 * n /\ 4 * (i + 1) \in 0 .. 4 * n
      /\ 4 * i + 1 <= 4 * (i + 1) /\ i + 1 \in 1 .. n
  BY <1>1
<1>3. /\ Len(Begin(fs, 4 * k)) \in Nat /\ Len(Begin(fs, 4 * i)) \in Nat
      /\ Len(Begin(fs, 4 * k)) <= Len(Begin(fs, 4 * i))
  BY <1>1, <1>2, BeginGrows, Zenon
<1>4. /\ Len(Begin(fs, 4 * i + 1)) \in Nat
      /\ Len(Begin(fs, 4 * (i + 1))) \in Nat
      /\ Len(Begin(fs, 4 * i + 1)) <= Len(Begin(fs, 4 * (i + 1)))
  BY <1>1, <1>2, BeginGrows, Zenon
<1>5. Len(Fields(fs[i + 1])[1]) = 2
  BY HeaderHasTwo, Zenon
<1>6. Len(Begin(fs, 4 * i + 1)) = Len(Begin(fs, 4 * i)) + 2
  <2>1. 0 \in 0 .. 3 /\ 0 + 1 = 1 /\ 4 * i + 0 = 4 * i /\ 4 * i + 0 + 1 = 4 * i + 1
    OBVIOUS
  <2>2. Len(Begin(fs, 4 * i + 0 + 1))
          = Len(Begin(fs, 4 * i + 0)) + Len(Fields(fs[i + 1])[0 + 1])
    BY <2>1, FieldLonger
  <2>. QED
    BY <1>5, <2>1, <2>2, Zenon
<1>. QED
  BY <1>3, <1>4, <1>6

(* The end of a frame that the parser is in or before, against the bytes   *)
(* read: it lies behind them, but for a frame whose payload is empty.      *)
LEMMA NotYetArrived ==
  ASSUME TypeOK, Decoding, wellCut, ~parsing,
         NEW k \in Nat, k < Len(frames), At(k)
  PROVE  /\ BytesRead \in Int
         /\ Len(Begin(frames, 4 * k)) <= BytesRead
         /\ BytesRead <= Len(Begin(frames, 4 * (k + 1)))
         /\ BytesRead = Len(Begin(frames, 4 * (k + 1)))
              => frames[k + 1].payload = <<>>
<1>1. Sendable(frames) /\ chunk = <<>>
  BY StreamIsSendable, Zenon DEF TypeOK, Decoding
<1>2. PICK j \in 0 .. 3 : j = FieldsDone(parse_state_)
  BY FieldsDoneIs DEF TypeOK
<1>3. PICK n \in Nat : n = Len(frames)
  BY <1>1, FrameFieldsAre
<1>4. /\ 4 * k \in 0 .. 4 * n /\ 4 * k + j \in 0 .. 4 * n
      /\ 4 * k + j + 1 \in 0 .. 4 * n /\ 4 * k + 3 \in 0 .. 4 * n
      /\ 4 * (k + 1) \in 0 .. 4 * n
      /\ 4 * k <= 4 * k + j /\ 4 * k + j <= 4 * k + 3
      /\ 4 * k + 3 <= 4 * (k + 1) /\ 4 * k + j + 1 <= 4 * (k + 1)
      /\ k + 1 \in 1 .. n
  BY <1>3
<1> DEFINE L(m) == Len(Begin(frames, m))
<1>5. /\ L(4 * k) \in Nat /\ L(4 * k + j) \in Nat /\ L(4 * k + 3) \in Nat
      /\ L(4 * (k + 1)) \in Nat /\ L(4 * k + j + 1) \in Nat
      /\ L(4 * k) <= L(4 * k + j) /\ L(4 * k + j) <= L(4 * k + 3)
      /\ L(4 * k + 3) <= L(4 * (k + 1)) /\ L(4 * k + j + 1) <= L(4 * (k + 1))
  BY <1>1, <1>3, <1>4, BeginGrows, Zenon
<1>6. PICK b \in Nat : b = Len(buffer_)
  BY LenProperties DEF TypeOK
<1>7. BytesRead = L(4 * k + j) + b
  <2>1. buffer_ \in Seq(Byte) /\ unread \in Seq(Byte)
    BY DEF TypeOK
  <2>2. Gathered = buffer_
    <3>1. buffer_ \o <<>> = buffer_
      BY <2>1, ConcatEmptySeq
    <3>. QED
      BY <1>1, <3>1, Zenon DEF Gathered
  <2>3. (Begin(frames, 4 * k + j) \o buffer_) \o unread = Wire(frames)
    BY <1>2, <2>2, Zenon DEF At, Behind
  <2>4. 4 * k + j \in 0 .. 4 * Len(frames)
    BY <1>3, <1>4, Zenon
  <2>5. Len(Wire(frames)) - Len(unread) = Len(Begin(frames, 4 * k + j)) + Len(buffer_)
    BY <1>1, <2>1, <2>3, <2>4, Position
  <2>. QED
    BY <1>6, <2>5, Zenon DEF BytesRead
<1>8. L(4 * (k + 1)) = L(4 * k + 3) + Len(frames[k + 1].payload)
  <2>1. Sent(frames[k + 1]) /\ frames[k + 1].lengthBytes # 8
    BY <1>1, <1>3, <1>4, Zenon DEF Sendable, Decoding
  <2>2. Len(Fields(frames[k + 1])[4]) = Len(frames[k + 1].payload)
    BY <2>1, TheFields
  <2>3. 3 \in 0 .. 3 /\ 3 + 1 = 4 /\ 4 * k + 3 + 1 = 4 * (k + 1)
    OBVIOUS
  <2>4. Len(Begin(frames, 4 * k + 3 + 1))
          = Len(Begin(frames, 4 * k + 3)) + Len(Fields(frames[k + 1])[3 + 1])
    BY <1>1, <2>3, FieldLonger
  <2>. QED
    BY <2>2, <2>3, <2>4, Zenon
<1>9. PICK p \in Seq(Byte) : p = frames[k + 1].payload
  BY <1>1, <1>3, <1>4, Zenon DEF Sendable, Sent, Frame
<1>10. PICK f \in Nat : f = Len(CurrentField(k)) /\ L(4 * k + j + 1) = L(4 * k + j) + f
  <2>1. /\ Len(Fields(frames[k + 1])[j + 1]) \in Nat
        /\ Len(Begin(frames, 4 * k + j + 1))
             = Len(Begin(frames, 4 * k + j)) + Len(Fields(frames[k + 1])[j + 1])
    BY <1>1, FieldLonger
  <2>. QED
    BY <1>2, <2>1, Zenon DEF CurrentField
<1>11. b = 0 \/ b < f
  <2>1. buffer_ = <<>> \/ Len(buffer_) < Len(CurrentField(k))
    BY Zenon DEF At
  <2>. QED
    BY <1>6, <1>10, <2>1, Nothing, Zenon
<1>12. Len(p) \in Nat /\ (Len(p) = 0 => p = <<>>)
  BY LenProperties, EmptySeq
<1>. HIDE DEF L
<1>13. PICK l0 \in Nat : l0 = L(4 * k)
  BY <1>5, Zenon
<1>14. PICK lj \in Nat : lj = L(4 * k + j)
  BY <1>5, Zenon
<1>15. PICK l3 \in Nat : l3 = L(4 * k + 3)
  BY <1>5, Zenon
<1>16. PICK le \in Nat : le = L(4 * (k + 1))
  BY <1>5, Zenon
<1>17. PICK ln \in Nat : ln = L(4 * k + j + 1)
  BY <1>5, Zenon
<1>18. l0 <= lj /\ lj <= l3 /\ l3 <= le /\ ln <= le
  BY <1>5, <1>13, <1>14, <1>15, <1>16, <1>17, Zenon
<1>19. BytesRead = lj + b /\ ln = lj + f
  BY <1>7, <1>10, <1>14, <1>17, Zenon
<1>20. PICK size \in Nat : size = Len(p)
  BY <1>12, Zenon
<1>21. le = l3 + size
  <2>1. L(4 * (k + 1)) = L(4 * k + 3) + Len(p)
    BY <1>8, <1>9, Zenon DEF L
  <2>. QED
    BY <1>15, <1>16, <1>20, <2>1, Zenon
<1>22. lj + b \in Int /\ l0 <= lj + b /\ lj + b <= le
  BY <1>11, <1>18, <1>19
<1>23. lj + b = le => size = 0
  BY <1>11, <1>18, <1>19, <1>21
<1>24. /\ BytesRead \in Int
       /\ L(4 * k) <= BytesRead /\ BytesRead <= L(4 * (k + 1))
  BY <1>13, <1>16, <1>19, <1>22, Zenon
<1>25. BytesRead = L(4 * (k + 1)) => p = <<>>
  BY <1>12, <1>16, <1>19, <1>20, <1>23, Zenon
<1>. QED
  BY <1>9, <1>24, <1>25, Zenon DEF L

LEMMA DecodingDecodes ==
  ASSUME TypeOK, Decoding
  PROVE  DecodesWellCut
<1>1. SUFFICES ASSUME wellCut, ~parsing
               PROVE  \/ handled = Expected(SubSeq(frames, 1, Arrived))
                      \/ /\ Arrived > 0
                         /\ frames[Arrived].payload = <<>>
                         /\ handled = Expected(SubSeq(frames, 1, Arrived - 1))
  BY Zenon DEF DecodesWellCut
<1>2. Sendable(frames)
  BY StreamIsSendable DEF TypeOK
<1>3. PICK n \in Nat : n = Len(frames)
  BY <1>2, FrameFieldsAre
<1>4. PICK k \in 0 .. n : At(k)
  BY <1>1, <1>3, Zenon DEF Decoding
<1> DEFINE L(i) == Len(Begin(frames, 4 * i))
<1>5. Arrived = Cardinality({ i \in 1 .. n : L(i) <= BytesRead })
  <2>1. ASSUME NEW i \in 1 .. n
        PROVE  Wire(SubSeq(frames, 1, i)) = Begin(frames, 4 * i)
    <3>1. i \in 0 .. Len(frames)
      BY <1>3
    <3>. QED
      BY <1>2, <3>1, BeginOfFrame
  <2>2. { i \in 1 .. n : Len(Wire(SubSeq(frames, 1, i))) <= BytesRead }
          = { i \in 1 .. n : L(i) <= BytesRead }
    BY <2>1, Zenon
  <2>. QED
    BY <1>3, <2>2, Zenon DEF Arrived
<1>6. ASSUME NEW i \in 0 .. n, NEW m \in 0 .. n, i <= m
      PROVE  L(i) \in Nat /\ L(m) \in Nat /\ L(i) <= L(m)
  <2>1. 4 * i \in 0 .. 4 * n /\ 4 * m \in 0 .. 4 * n /\ 4 * i <= 4 * m
    BY <1>6
  <2>. QED
    BY <1>2, <1>3, <2>1, BeginGrows, Zenon
<1>7. handled = Expected(SubSeq(frames, 1, k))
  BY <1>4, Zenon DEF At
<1>8. ASSUME NEW m \in 0 .. n, { i \in 1 .. n : L(i) <= BytesRead } = 1 .. m
      PROVE  Arrived = m
  <2>1. Cardinality(1 .. m) = m
    BY FS_Interval
  <2>. QED
    BY <1>5, <1>8, <2>1, Zenon
<1>9. CASE k = n
  <2>1. BytesRead = L(n) + Len(Gathered) /\ Gathered \in Seq(Byte)
    <3>1. ~(k < Len(frames))
      BY <1>3, <1>9
    <3>2. parse_state_ = "READ_HEADER"
      BY <1>4, <3>1, Zenon DEF At
    <3>3. 4 * k + 0 = 4 * n /\ 4 * n \in 0 .. 4 * Len(frames)
      BY <1>3, <1>9
    <3>4. (Begin(frames, 4 * n) \o Gathered) \o unread = Wire(frames)
      BY <1>4, <3>2, <3>3, FieldsDoneIs, Zenon DEF At, Behind
    <3>5. Gathered \in Seq(Byte) /\ unread \in Seq(Byte)
      BY ConcatProperties DEF TypeOK, Gathered
    <3>6. Len(Wire(frames)) - Len(unread) = Len(Begin(frames, 4 * n)) + Len(Gathered)
      BY <1>2, <3>3, <3>4, <3>5, Position
    <3>. QED
      BY <3>5, <3>6, Zenon DEF BytesRead
  <2>2. ASSUME NEW i \in 1 .. n PROVE L(i) <= BytesRead
    <3>1. i \in 0 .. n /\ n \in 0 .. n /\ i <= n
      OBVIOUS
    <3>2. L(i) \in Nat /\ L(n) \in Nat /\ L(i) <= L(n)
      BY <1>6, <3>1, Zenon
    <3>3. Len(Gathered) \in Nat
      BY <2>1, LenProperties
    <3>. HIDE DEF L
    <3>. QED
      BY <2>1, <3>2, <3>3
  <2>3. { i \in 1 .. n : L(i) <= BytesRead } = 1 .. n
    BY <2>2, Zenon
  <2>4. n \in 0 .. n
    OBVIOUS
  <2>5. Arrived = n
    BY <1>8, <2>3, <2>4, Zenon
  <2>. QED
    BY <1>7, <1>9, <2>5, Zenon
<1>10. CASE k < n
  <2>1. k \in Nat /\ k < Len(frames) /\ k + 1 \in 0 .. n
    BY <1>3, <1>10
  <2>2. /\ BytesRead \in Int
        /\ L(k) <= BytesRead /\ BytesRead <= L(k + 1)
        /\ BytesRead = L(k + 1) => frames[k + 1].payload = <<>>
    BY <1>1, <1>4, <2>1, NotYetArrived, Zenon
  <2>3. ASSUME NEW i \in 1 .. n, i <= k PROVE L(i) <= BytesRead
    <3>1. i \in 0 .. n
      OBVIOUS
    <3>2. L(i) \in Nat /\ L(k) \in Nat /\ L(i) <= L(k)
      BY <1>6, <2>3, <3>1, Zenon
    <3>. HIDE DEF L
    <3>. QED
      BY <2>2, <3>2
  <2>4. ASSUME NEW i \in 1 .. n, k + 1 < i PROVE ~(L(i) <= BytesRead)
    <3>1. /\ k + 1 \in Nat /\ i - 1 \in Nat /\ k + 1 <= i - 1
          /\ k < i - 1 /\ i - 1 < Len(frames) /\ (i - 1) + 1 = i
          /\ i \in 0 .. n /\ k + 1 <= i
      BY <1>3, <2>1, <2>4
    <3>2. L(k + 1) < L(i)
      BY <1>2, <3>1, FrameLonger
    <3>3. L(i) \in Nat /\ L(k + 1) \in Nat
      BY <1>6, <2>1, <3>1, Zenon
    <3>. HIDE DEF L
    <3>. QED
      BY <2>2, <3>2, <3>3
  <2>5. L(k + 1) \in Nat
    <3>1. k + 1 <= k + 1
      BY <2>1
    <3>. QED
      BY <1>6, <2>1, <3>1, Zenon
  <2>. HIDE DEF L
  <2>6. CASE BytesRead = L(k + 1)
    <3>1. { i \in 1 .. n : L(i) <= BytesRead } = 1 .. k + 1
      <4>1. ASSUME NEW i \in 1 .. n PROVE L(i) <= BytesRead <=> i \in 1 .. k + 1
        <5>1. CASE i <= k
          BY <2>3, <5>1
        <5>2. CASE i = k + 1
          BY <2>2, <2>5, <2>6, <5>2
        <5>3. CASE k + 1 < i
          BY <2>4, <5>3
        <5>. QED
          BY <5>1, <5>2, <5>3
      <4>2. 1 .. k + 1 \subseteq 1 .. n
        BY <1>10
      <4>. QED
        BY <4>1, <4>2, Zenon
    <3>2. Arrived = k + 1
      BY <1>8, <2>1, <3>1, Zenon
    <3>3. Arrived > 0 /\ Arrived - 1 = k
      BY <2>1, <3>2
    <3>. QED
      BY <1>7, <2>2, <2>6, <3>2, <3>3, Zenon
  <2>7. CASE BytesRead # L(k + 1)
    <3>1. { i \in 1 .. n : L(i) <= BytesRead } = 1 .. k
      <4>1. ASSUME NEW i \in 1 .. n PROVE L(i) <= BytesRead <=> i \in 1 .. k
        <5>1. CASE i <= k
          BY <2>3, <5>1
        <5>2. CASE i = k + 1
          BY <2>2, <2>5, <2>7, <5>2
        <5>3. CASE k + 1 < i
          BY <2>4, <5>3
        <5>. QED
          BY <5>1, <5>2, <5>3
      <4>2. 1 .. k \subseteq 1 .. n
        BY <1>10
      <4>. QED
        BY <4>1, <4>2, Zenon
    <3>2. Arrived = k
      BY <1>4, <1>8, <3>1, Zenon
    <3>. QED
      BY <1>7, <3>2, Zenon
  <2>. QED
    BY <2>6, <2>7, Zenon
<1>. QED
  BY <1>9, <1>10

(***************************************************************************)
(* ParseFrame decodes: for any frames whose length is in the header or 16  *)
(* bits, and any chunks of which none holds bytes of two fields, the frames *)
(* given to the Process functions are those that have arrived, unmasked and *)
(* in order, and only one without payload waits for the next byte.         *)
(***************************************************************************)
THEOREM FrameDecodesWellCut == Spec => []DecodesWellCut
<1>1. TypeOK /\ Decoding => DecodesWellCut
  BY DecodingDecodes
<1>. QED
  BY <1>1, FrameInit, FrameStep, DecodingInit, DecodingStep, PTL DEF Spec
=============================================================================
