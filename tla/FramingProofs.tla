--------------------------- MODULE FramingProofs ---------------------------
(***************************************************************************)
(* Proofs about receiving on a TCP connection: the theorems hold for any   *)
(* streams, any chunks, any size of the read buffer and any limit on the   *)
(* packages that leaves room for the size field.                           *)
(***************************************************************************)
EXTENDS Framing, FixSizeProofs

------------------------------------------------------------------------------
(* What one read takes.                                                    *)
LEMMA ReadTakes ==
  ASSUME TypeOK, NEW n \in Readable
  PROVE  /\ n \in 0 .. Len(unread)
         /\ SubSeq(unread, 1, n) \in Seq(Byte)
         /\ SubSeq(unread, n + 1, Len(unread)) \in Seq(Byte)
         /\ recv_buffer_ \o SubSeq(unread, 1, n) \in Seq(Byte)
<1>1. n \in 0 .. Len(unread) /\ unread \in Seq(Byte) /\ recv_buffer_ \in Seq(Byte)
  BY FramingAssumption, LenProperties DEF TypeOK, Readable
<1>2. /\ SubSeq(unread, 1, n) \in Seq(Byte)
      /\ SubSeq(unread, n + 1, Len(unread)) \in Seq(Byte)
  BY <1>1, CutInTwo
<1>. QED
  BY <1>1, <1>2, ConcatProperties

(* What one pass over a complete package takes.                            *)
LEMMA PackageTakes ==
  ASSUME TypeOK, PackageFull(recv_buffer_)
  PROVE  LET n == SizeField(recv_buffer_)
             m == SubSeq(recv_buffer_, 1, n)
         IN  /\ n \in HeaderSize .. MaxPackage
             /\ m \in Seq(Byte) /\ Len(m) = n
             /\ SizeField(m) = n
             /\ Consumed(recv_buffer_) \in Seq(Byte)
             /\ m \o Consumed(recv_buffer_) = recv_buffer_
<1>1. recv_buffer_ \in Seq(Byte)
  BY DEF TypeOK
<1>2. PICK n \in Int : n = SizeField(recv_buffer_)
  BY <1>1, FullHasSize, SizeIsInt
<1>3. /\ n \in HeaderSize .. Len(recv_buffer_) /\ n <= MaxPackage
  BY <1>1, <1>2, FullHasSize, Zenon
<1>4. n \in 0 .. Len(recv_buffer_) /\ n \in HeaderSize .. MaxPackage
  BY <1>3, MaxPackageAssumption DEF HeaderSize
<1>5. SizeField(SubSeq(recv_buffer_, 1, n)) = n
  BY <1>1, <1>2, <1>3, SizeOfBeginning, Zenon
<1>6. /\ SubSeq(recv_buffer_, 1, n) \in Seq(Byte)
      /\ Len(SubSeq(recv_buffer_, 1, n)) = n
      /\ SubSeq(recv_buffer_, n + 1, Len(recv_buffer_)) \in Seq(Byte)
      /\ SubSeq(recv_buffer_, 1, n)
           \o SubSeq(recv_buffer_, n + 1, Len(recv_buffer_)) = recv_buffer_
  BY <1>1, <1>4, CutInTwo
<1>. QED
  BY <1>2, <1>4, <1>5, <1>6, Zenon DEF Consumed

------------------------------------------------------------------------------
(* Types.                                                                  *)

(* What Close does to the flags and the handle.                            *)
LEMMA CloseKeeps ==
  ASSUME TypeOK, Close \/ UNCHANGED <<closing, handle>>
  PROVE  /\ closing' \in BOOLEAN
         /\ handle' \in {"open", "closing", "dropped"}
         /\ handle' = "closing" => closing'
         /\ handle # "dropped" => handle' # "dropped"
BY DEF TypeOK, Close

LEMMA TypeStep == TypeOK /\ [Next]_vars => TypeOK'
<1>. SUFFICES ASSUME TypeOK, [Next]_vars PROVE TypeOK'
  OBVIOUS
<1>1. ASSUME NEW n \in Readable, Receive(n) PROVE TypeOK'
  <2>1. PICK chunk \in Seq(Byte) : chunk = SubSeq(unread, 1, n)
    BY ReadTakes
  <2>2. PICK data \in Seq(Byte) : data = recv_buffer_ \o chunk
    BY <2>1, ReadTakes
  <2>3. unread' \in Seq(Byte)
    BY <1>1, ReadTakes DEF Receive
  <2>4. received' \in Seq(Byte)
    BY <1>1, <2>1, ConcatProperties DEF TypeOK, Receive
  <2>5. /\ handle # "dropped"
        /\ hasProtocol' = hasProtocol /\ ended' = ended
        /\ filled' \in BOOLEAN
    BY <1>1 DEF Receive
  <2>6. CASE /\ hasProtocol
             /\ recv_buffer_' = data
             /\ parsing' = TRUE
             /\ UNCHANGED <<delivered, closing, handle>>
    BY <2>2, <2>3, <2>4, <2>5, <2>6 DEF TypeOK
  <2>7. CASE /\ ~hasProtocol
             /\ OnMessage(data)
             /\ recv_buffer_' = <<>>
             /\ UNCHANGED parsing
    <3>1. delivered' \in Seq(Seq(Byte))
      BY <2>2, <2>7, AppendProperties DEF OnMessage, TypeOK
    <3>2. /\ closing' \in BOOLEAN
          /\ handle' \in {"open", "closing", "dropped"}
          /\ handle' = "closing" => closing'
      BY <2>7, CloseKeeps DEF OnMessage
    <3>3. recv_buffer_' \in Seq(Byte)
      BY <2>7, Nothing
    <3>4. parsing' = FALSE
      BY <1>1, <2>7 DEF Receive, TypeOK
    <3>. QED
      BY <2>3, <2>4, <2>5, <3>1, <3>2, <3>3, <3>4 DEF TypeOK
  <2>. QED
    BY <1>1, <2>1, <2>2, <2>6, <2>7 DEF Receive
<1>2. CASE DeliverPackage
  <2>1. PICK m \in Seq(Byte) :
          m = SubSeq(recv_buffer_, 1, SizeField(recv_buffer_))
    BY <1>2, PackageTakes DEF DeliverPackage
  <2>2. delivered' \in Seq(Seq(Byte))
    <3>1. delivered' = Append(delivered, m)
      BY <1>2, <2>1 DEF DeliverPackage, OnMessage
    <3>. QED
      BY <3>1, AppendProperties DEF TypeOK
  <2>3. recv_buffer_' \in Seq(Byte)
    BY <1>2, PackageTakes DEF DeliverPackage
  <2>4. /\ closing' \in BOOLEAN
        /\ handle' \in {"open", "closing", "dropped"}
        /\ handle' = "closing" => closing'
        /\ handle # "dropped" => handle' # "dropped"
    BY <1>2, CloseKeeps DEF DeliverPackage, OnMessage
  <2>. QED
    BY <1>2, <2>2, <2>3, <2>4 DEF TypeOK, DeliverPackage
<1>3. CASE AwaitMore
  BY <1>3 DEF TypeOK, AwaitMore
<1>4. CASE RejectPackage
  BY <1>4, CloseKeeps DEF TypeOK, RejectPackage
<1>5. CASE OtherClose
  <2>1. /\ closing' \in BOOLEAN
        /\ handle' \in {"open", "closing", "dropped"}
        /\ handle' = "closing" => closing'
    BY <1>5, CloseKeeps DEF TypeOK, OtherClose
  <2>. QED
    BY <1>5, <2>1 DEF TypeOK, OtherClose
<1>6. CASE ReadEnds
  BY <1>6 DEF TypeOK, ReadEnds, Drop
<1>7. CASE ReadNothing
  BY <1>7 DEF TypeOK, ReadNothing, Drop
<1>8. CASE UNCHANGED vars
  BY <1>8 DEF TypeOK, vars
<1>. QED
  BY <1>1, <1>2, <1>3, <1>4, <1>5, <1>6, <1>7, <1>8 DEF Next

(***************************************************************************)
(* The buffers hold bytes, and the loop of OnDataReceived runs only with a *)
(* protocol and never on a connection that the read callback has dropped.  *)
(***************************************************************************)
THEOREM FramingTypeCorrect == Spec => []TypeOK
<1>1. Init => TypeOK
  BY FramingAssumption, Nothing DEF Init, TypeOK
<1>. QED
  BY <1>1, TypeStep, PTL DEF Spec

------------------------------------------------------------------------------
(* No byte is lost.                                                        *)

(* A message of data, and nothing kept: what was kept and read is in it.   *)
LEMMA BytesStep == TypeOK /\ BytesAccountedFor /\ [Next]_vars
                     => BytesAccountedFor'
<1>. SUFFICES ASSUME TypeOK, BytesAccountedFor, [Next]_vars
              PROVE  BytesAccountedFor'
  OBVIOUS
<1>0. /\ delivered \in Seq(Seq(Byte)) /\ recv_buffer_ \in Seq(Byte)
      /\ FlattenSeq(delivered) \in Seq(Byte)
      /\ FlattenSeq(delivered) \o recv_buffer_ = received
  BY FlattenType DEF TypeOK, BytesAccountedFor
<1>1. PICK flat \in Seq(Byte) : flat = FlattenSeq(delivered)
  BY <1>0
<1>2. \A a, b, c \in Seq(Byte) : (a \o b) \o c = a \o (b \o c)
  BY Associative
<1>3. ASSUME NEW n \in Readable, Receive(n) PROVE BytesAccountedFor'
  <2>1. PICK chunk \in Seq(Byte) : chunk = SubSeq(unread, 1, n)
    BY ReadTakes
  <2>2. PICK data \in Seq(Byte) : data = recv_buffer_ \o chunk
    BY <2>1, ReadTakes
  <2>3. received' = flat \o data
    <3>1. received' = (flat \o recv_buffer_) \o chunk
      BY <1>0, <1>1, <1>3, <2>1 DEF Receive
    <3>2. (flat \o recv_buffer_) \o chunk = flat \o (recv_buffer_ \o chunk)
      BY <1>0, <1>2, ZenonT(60)
    <3>. QED
      BY <2>2, <3>1, <3>2, Zenon
  <2>4. CASE recv_buffer_' = data /\ UNCHANGED delivered
    BY <1>1, <2>3, <2>4, Zenon DEF BytesAccountedFor
  <2>5. CASE OnMessage(data) /\ recv_buffer_' = <<>>
    <3>1. FlattenSeq(delivered') = flat \o data
      <4>1. FlattenSeq(Append(delivered, data)) = FlattenSeq(delivered) \o data
        BY <1>0, FlattenAppend, Zenon
      <4>. QED
        BY <1>1, <2>5, <4>1, Zenon DEF OnMessage
    <3>2. (flat \o data) \o <<>> = flat \o data
      <4>1. flat \o data \in Seq(Byte)
        BY ConcatProperties
      <4>. QED
        BY <4>1, ConcatEmptySeq
    <3>. QED
      BY <2>3, <2>5, <3>1, <3>2, Zenon DEF BytesAccountedFor
  <2>. QED
    BY <1>3, <2>1, <2>2, <2>4, <2>5, Zenon DEF Receive
<1>4. CASE DeliverPackage
  <2>1. PICK m \in Seq(Byte) :
          m = SubSeq(recv_buffer_, 1, SizeField(recv_buffer_))
    BY <1>4, PackageTakes DEF DeliverPackage
  <2>2. PICK rest \in Seq(Byte) :
          rest = Consumed(recv_buffer_) /\ m \o rest = recv_buffer_
    BY <1>4, <2>1, PackageTakes DEF DeliverPackage
  <2>3. FlattenSeq(delivered') = flat \o m
    <3>1. FlattenSeq(Append(delivered, m)) = FlattenSeq(delivered) \o m
      BY <1>0, FlattenAppend, Zenon
    <3>. QED
      BY <1>1, <1>4, <2>1, <3>1, Zenon DEF DeliverPackage, OnMessage
  <2>4. (flat \o m) \o rest = flat \o (m \o rest)
    BY <1>2, Zenon
  <2>5. recv_buffer_' = rest /\ received' = received
    BY <1>4, <2>2 DEF DeliverPackage
  <2>. QED
    BY <1>0, <1>1, <2>2, <2>3, <2>4, <2>5, Zenon DEF BytesAccountedFor
<1>5. CASE UNCHANGED <<delivered, recv_buffer_, received>>
  BY <1>5 DEF BytesAccountedFor
<1>6. [Next]_vars => \/ \E n \in Readable : Receive(n)
                     \/ DeliverPackage
                     \/ UNCHANGED <<delivered, recv_buffer_, received>>
  BY DEF Next, AwaitMore, RejectPackage, OtherClose, ReadEnds, ReadNothing,
         Drop, vars
<1>. QED
  BY <1>3, <1>4, <1>5, <1>6, Zenon

(***************************************************************************)
(* Whatever the network's chunks, wherever OnMessage calls Close: the      *)
(* messages delivered and the bytes kept are the bytes received.           *)
(***************************************************************************)
THEOREM FramingBytesAccountedFor == Spec => []BytesAccountedFor
<1>1. Init => BytesAccountedFor
  <2>1. <<>> \o <<>> = <<>>
    BY Nothing, ConcatEmptySeq
  <2>. QED
    BY <2>1, FlattenNone, Zenon DEF Init, BytesAccountedFor
<1>. QED
  BY <1>1, BytesStep, FramingTypeCorrect, PTL DEF Spec

------------------------------------------------------------------------------
(* What is delivered is a package, and what is kept is none.               *)

IsPackage(m) ==
  /\ Len(m) >= HeaderSize
  /\ SizeField(m) = Len(m)
  /\ Len(m) <= MaxPackage

LEMMA PackagesStep == TypeOK /\ MessagesArePackages /\ [Next]_vars
                        => MessagesArePackages'
<1>. SUFFICES ASSUME TypeOK, MessagesArePackages, [Next]_vars, hasProtocol'
              PROVE  \A i \in 1 .. Len(delivered') : IsPackage(delivered'[i])
  BY DEF MessagesArePackages, IsPackage
<1>1. hasProtocol
  BY DEF Next, Receive, DeliverPackage, AwaitMore, RejectPackage, OtherClose,
         ReadEnds, ReadNothing, Drop, vars
<1>2. \A i \in 1 .. Len(delivered) : IsPackage(delivered[i])
  BY <1>1 DEF MessagesArePackages, IsPackage
<1>3. CASE DeliverPackage
  <2>1. PICK m \in Seq(Byte) :
          m = SubSeq(recv_buffer_, 1, SizeField(recv_buffer_)) /\ IsPackage(m)
    <3>1. PICK n \in Int : n = SizeField(recv_buffer_)
      BY <1>3, PackageTakes DEF DeliverPackage
    <3>2. /\ n \in HeaderSize .. MaxPackage
          /\ SubSeq(recv_buffer_, 1, n) \in Seq(Byte)
          /\ Len(SubSeq(recv_buffer_, 1, n)) = n
          /\ SizeField(SubSeq(recv_buffer_, 1, n)) = n
      BY <1>3, <3>1, PackageTakes, Zenon DEF DeliverPackage
    <3>3. PICK m \in Seq(Byte) :
            /\ m = SubSeq(recv_buffer_, 1, n)
            /\ Len(m) = n /\ SizeField(m) = n
      BY <3>2
    <3>4. n >= HeaderSize /\ n <= MaxPackage
      BY <3>2, MaxPackageAssumption DEF HeaderSize
    <3>5. IsPackage(m)
      BY <3>3, <3>4, Zenon DEF IsPackage
    <3>. QED
      BY <3>1, <3>3, <3>5, Zenon
  <2>2. delivered' = Append(delivered, m)
    BY <1>3, <2>1 DEF DeliverPackage, OnMessage
  <2>3. PICK k \in Nat : k = Len(delivered)
    BY LenProperties DEF TypeOK
  <2>4. /\ Len(delivered') = k + 1 /\ delivered'[k + 1] = m
        /\ \A i \in 1 .. k : delivered'[i] = delivered[i]
    BY <2>2, <2>3, AppendProperties DEF TypeOK
  <2>. SUFFICES ASSUME NEW i \in 1 .. k + 1 PROVE IsPackage(delivered'[i])
    BY <2>4
  <2>5. CASE i = k + 1
    BY <2>1, <2>4, <2>5, Zenon
  <2>6. CASE i \in 1 .. k
    BY <1>2, <2>3, <2>4, <2>6, Zenon
  <2>. QED
    BY <2>3, <2>5, <2>6
<1>4. CASE UNCHANGED delivered
  BY <1>2, <1>4
<1>5. [Next]_vars => DeliverPackage \/ UNCHANGED delivered
  BY <1>1 DEF Next, Receive, AwaitMore, RejectPackage, OtherClose, ReadEnds,
              ReadNothing, Drop, vars
<1>. QED
  BY <1>3, <1>4, <1>5

(***************************************************************************)
(* OnMessage is never given anything but one whole package of an allowed   *)
(* length.                                                                 *)
(***************************************************************************)
THEOREM FramingMessagesArePackages == Spec => []MessagesArePackages
<1>1. Init => MessagesArePackages
  BY DEF Init, MessagesArePackages
<1>. QED
  BY <1>1, PackagesStep, FramingTypeCorrect, PTL DEF Spec

LEMMA NothingHeldBackStep == TypeOK /\ NothingHeldBack /\ [Next]_vars
                               => NothingHeldBack'
<1>. SUFFICES ASSUME TypeOK, NothingHeldBack, [Next]_vars,
                     hasProtocol', ~parsing', Len(recv_buffer_') >= HeaderSize,
                     SizeField(recv_buffer_') \in HeaderSize .. MaxPackage
              PROVE  Len(recv_buffer_') < SizeField(recv_buffer_')
  BY DEF NothingHeldBack
<1>1. CASE AwaitMore
  <2>1. PICK b \in Seq(Byte) : b = recv_buffer_
    BY DEF TypeOK
  <2>2. recv_buffer_' = b
    BY <1>1, <2>1 DEF AwaitMore
  <2>3. PICK n \in Int : n = SizeField(b)
    BY <2>2, SizeIsInt, Zenon
  <2>4. Len(b) >= HeaderSize /\ n \in HeaderSize .. MaxPackage
    BY <2>2, <2>3, Zenon
  <2>5. b # <<>>
    BY <2>4, Nothing DEF HeaderSize
  <2>6. PackageLess(b)
    BY <1>1, <2>1, <2>5 DEF AwaitMore
  <2>7. Len(b) < SizeField(b)
    <3>1. ~(Len(b) < HeaderSize)
      BY <2>4 DEF HeaderSize
    <3>. QED
      BY <2>6, <3>1, Zenon DEF PackageLess
  <2>. QED
    BY <2>2, <2>7, Zenon
<1>2. CASE RejectPackage
  <2>1. PICK b \in Seq(Byte) : b = recv_buffer_
    BY DEF TypeOK
  <2>2. recv_buffer_' = b /\ PackageError(b)
    BY <1>2, <2>1 DEF RejectPackage
  <2>3. PICK n \in Int : n = SizeField(b)
    BY <2>2, SizeIsInt, Zenon
  <2>4. n \in HeaderSize .. MaxPackage /\ ~SizeAllowed(n)
    BY <2>2, <2>3, Zenon DEF PackageError
  <2>. QED
    BY <2>4, MaxPackageAssumption DEF SizeAllowed, HeaderSize
<1>3. CASE UNCHANGED <<hasProtocol, parsing, recv_buffer_>>
  BY <1>3 DEF NothingHeldBack
<1>4. [Next]_vars => \/ AwaitMore \/ RejectPackage
                     \/ UNCHANGED <<hasProtocol, parsing, recv_buffer_>>
  BY DEF Next, Receive, DeliverPackage, OtherClose, ReadEnds, ReadNothing,
         Drop, vars, TypeOK
<1>. QED
  BY <1>1, <1>2, <1>3, <1>4

(***************************************************************************)
(* OnDataReceived returns only when the buffer holds no complete package:  *)
(* a message that has arrived never waits for the next read.               *)
(***************************************************************************)
THEOREM FramingNothingHeldBack == Spec => []NothingHeldBack
<1>1. Init => NothingHeldBack
  <2>1. ~(Len(<<>>) >= HeaderSize)
    BY Nothing DEF HeaderSize
  <2>. QED
    BY <2>1, Zenon DEF Init, NothingHeldBack
<1>. QED
  BY <1>1, NothingHeldBackStep, FramingTypeCorrect, PTL DEF Spec

LEMMA BoundedStep == TypeOK /\ BufferBounded /\ [Next]_vars => BufferBounded'
<1>. SUFFICES ASSUME TypeOK, BufferBounded, [Next]_vars, ~parsing', ~closing'
              PROVE  Len(recv_buffer_') < MaxPackage
  BY DEF BufferBounded
<1>1. Len(<<>>) < MaxPackage
  BY Nothing, MaxPackageAssumption DEF HeaderSize
<1>2. CASE recv_buffer_' = <<>>
  BY <1>1, <1>2
<1>3. CASE AwaitMore
  <2>1. recv_buffer_ \in Seq(Byte) /\ recv_buffer_' = recv_buffer_
    BY <1>3 DEF TypeOK, AwaitMore
  <2>2. CASE recv_buffer_ = <<>>
    BY <1>1, <2>1, <2>2
  <2>3. CASE PackageLess(recv_buffer_)
    BY <2>1, <2>3, LessIsBounded, Zenon
  <2>. QED
    BY <1>3, <2>2, <2>3 DEF AwaitMore
<1>4. CASE UNCHANGED <<parsing, closing, recv_buffer_>>
  BY <1>4 DEF BufferBounded
<1>5. \/ recv_buffer_' = <<>> \/ AwaitMore
      \/ UNCHANGED <<parsing, closing, recv_buffer_>>
  <2>1. ~RejectPackage /\ ~OtherClose
    BY DEF RejectPackage, OtherClose, Close, TypeOK
  <2>2. ~DeliverPackage
    BY DEF DeliverPackage
  <2>3. ASSUME NEW n \in Readable, Receive(n)
        PROVE  recv_buffer_' = <<>>
    BY <2>3 DEF Receive
  <2>4. CASE ReadEnds \/ ReadNothing \/ UNCHANGED vars
    BY <2>4 DEF ReadEnds, ReadNothing, Drop, vars
  <2>. QED
    BY <2>1, <2>2, <2>3, <2>4 DEF Next
<1>. QED
  BY <1>2, <1>3, <1>4, <1>5

(***************************************************************************)
(* Between two reads a connection nobody is closing keeps less than the    *)
(* largest package, whatever its peer sends.                               *)
(***************************************************************************)
THEOREM FramingBufferBounded == Spec => []BufferBounded
<1>1. Init => BufferBounded
  BY Nothing, MaxPackageAssumption DEF Init, BufferBounded, HeaderSize
<1>. QED
  BY <1>1, BoundedStep, FramingTypeCorrect, PTL DEF Spec

------------------------------------------------------------------------------
(* How the bytes were cut into reads does not matter.                      *)

(* Messages p and a rest r are what bytes s fall into: every message is a  *)
(* package and the rest does not begin with one.                           *)
Cut(p, r, s) ==
  /\ p \in Seq(Seq(Byte)) /\ r \in Seq(Byte)
  /\ \A i \in 1 .. Len(p) : IsPackage(p[i])
  /\ ~(Len(r) >= HeaderSize /\ SizeField(r) \in HeaderSize .. MaxPackage
                            /\ SizeField(r) <= Len(r))
  /\ FlattenSeq(p) \o r = s

(* Bytes that fall into at least one message begin with the first of them, *)
(* and what follows falls into the other messages and the same rest.       *)
LEMMA CutFirst ==
  ASSUME NEW p, NEW r, NEW s, Cut(p, r, s), p # <<>>
  PROVE  \E n \in HeaderSize .. Len(s) :
           /\ n = SizeField(s) /\ n <= MaxPackage /\ s \in Seq(Byte)
           /\ Head(p) = SubSeq(s, 1, n)
           /\ Cut(Tail(p), r, SubSeq(s, n + 1, Len(s)))
           /\ p = <<Head(p)>> \o Tail(p)
           /\ Len(p) = Len(Tail(p)) + 1
<1>0. \A a, b, c \in Seq(Byte) : (a \o b) \o c = a \o (b \o c)
  BY Associative
<1>1. /\ p \in Seq(Seq(Byte)) /\ r \in Seq(Byte)
      /\ \A i \in 1 .. Len(p) : IsPackage(p[i])
      /\ FlattenSeq(p) \o r = s
  BY Zenon DEF Cut
<1>2. PICK k \in Nat \ {0} : k = Len(p)
  BY <1>1, EmptySeq, LenProperties
<1>3. /\ Tail(p) \in Seq(Seq(Byte)) /\ Len(Tail(p)) = k - 1
      /\ \A i \in 1 .. k - 1 : Tail(p)[i] = p[i + 1]
      /\ Head(p) = p[1]
  BY <1>1, <1>2, HeadTailProperties
<1>4. PICK m \in Seq(Byte) : m = Head(p) /\ IsPackage(m)
  <2>1. 1 \in 1 .. Len(p)
    BY <1>2
  <2>2. p[1] \in Seq(Byte) /\ IsPackage(p[1])
    BY <1>1, <2>1
  <2>. QED
    BY <1>3, <2>2
<1>5. PICK f \in Seq(Byte) : f = FlattenSeq(Tail(p))
  BY <1>3, FlattenType
<1>6. PICK rest \in Seq(Byte) : rest = f \o r
  BY <1>1, ConcatProperties
<1>7. s = m \o rest
  <2>1. FlattenSeq(p) = m \o f
    BY <1>1, <1>4, <1>5, FlattenHead, Zenon
  <2>2. (m \o f) \o r = m \o (f \o r)
    BY <1>0, <1>1, Zenon
  <2>. QED
    BY <1>1, <1>6, <2>1, <2>2, Zenon
<1>8. PICK n \in Nat : n = Len(m) /\ n >= HeaderSize /\ n <= MaxPackage
  BY <1>4, LenProperties DEF IsPackage
<1>9. SizeField(s) = n
  <2>1. SizeField(m) = n
    BY <1>4, <1>8, Zenon DEF IsPackage
  <2>2. SizeField(m \o rest) = SizeField(m)
    BY <1>8, SizeOfConcat, Zenon
  <2>. QED
    BY <1>7, <2>1, <2>2, Zenon
<1>10. /\ s \in Seq(Byte) /\ n \in HeaderSize .. Len(s)
       /\ SubSeq(s, 1, n) = m
       /\ SubSeq(s, n + 1, Len(s)) = rest
  <2>1. PICK l \in Nat : l = Len(rest)
    BY LenProperties
  <2>2. s \in Seq(Byte) /\ Len(s) = n + l
    BY <1>7, <1>8, <2>1, ConcatProperties
  <2>3. \A i \in 1 .. n + l : s[i] = IF i <= n THEN m[i] ELSE rest[i - n]
    BY <1>7, <1>8, <2>1, ConcatProperties
  <2>4. n \in 0 .. Len(s) /\ n \in HeaderSize .. Len(s)
    BY <1>8, <2>1, <2>2 DEF HeaderSize
  <2>5. /\ SubSeq(s, 1, n) \in Seq(Byte) /\ Len(SubSeq(s, 1, n)) = n
        /\ SubSeq(s, n + 1, Len(s)) \in Seq(Byte)
        /\ Len(SubSeq(s, n + 1, Len(s))) = Len(s) - n
        /\ SubSeq(s, 1, n) \o SubSeq(s, n + 1, Len(s)) = s
    BY <2>2, <2>4, CutInTwo, Zenon
  <2>6. PICK a \in Seq(Byte), z \in Seq(Byte) :
          /\ a = SubSeq(s, 1, n) /\ Len(a) = n
          /\ z = SubSeq(s, n + 1, Len(s)) /\ Len(z) = Len(s) - n
          /\ a \o z = s
    BY <2>5, Zenon
  <2>7. Len(z) = l
    BY <2>1, <2>2, <2>6
  <2>8. \A i \in 1 .. n + l : s[i] = IF i <= n THEN a[i] ELSE z[i - n]
    <3>1. \A i \in 1 .. n + l :
            (a \o z)[i] = IF i <= n THEN a[i] ELSE z[i - n]
      <4>1. \A i \in 1 .. Len(a) + Len(z) :
              (a \o z)[i] = IF i <= Len(a) THEN a[i] ELSE z[i - Len(a)]
        BY ConcatProperties
      <4>2. Len(a) = n /\ Len(z) = l
        BY <2>6, <2>7
      <4>. QED
        BY <4>1, <4>2, Zenon
    <3>. QED
      BY <2>6, <3>1, Zenon
  <2>9. a = m
    <3>1. \A i \in 1 .. n : a[i] = m[i]
      BY <2>1, <2>3, <2>8
    <3>. QED
      BY <1>8, <2>6, <3>1, SeqEqual
  <2>10. z = rest
    <3>1. ASSUME NEW i \in 1 .. l PROVE z[i] = rest[i]
      <4>1. n + i \in 1 .. n + l /\ ~(n + i <= n) /\ (n + i) - n = i
        BY <2>1
      <4>. QED
        BY <2>3, <2>8, <4>1
    <3>. QED
      BY <2>1, <2>7, <3>1, SeqEqual
  <2>. QED
    BY <2>2, <2>4, <2>6, <2>9, <2>10
<1>11. Cut(Tail(p), r, rest)
  <2>1. ASSUME NEW i \in 1 .. k - 1 PROVE IsPackage(Tail(p)[i])
    <3>1. i + 1 \in 1 .. Len(p)
      BY <1>2
    <3>2. IsPackage(p[i + 1])
      BY <1>1, <3>1, Zenon
    <3>. QED
      BY <1>3, <3>2, Zenon
  <2>. QED
    BY <1>1, <1>3, <1>5, <1>6, <2>1, Zenon DEF Cut
<1>12. p = <<Head(p)>> \o Tail(p)
  BY <1>1, SingletonConcat
<1>13. Len(p) = Len(Tail(p)) + 1
  BY <1>2, <1>3
<1>. QED
  BY <1>4, <1>8, <1>9, <1>10, <1>11, <1>12, <1>13, Zenon

(* Bytes that are all rest do not fall into messages in any other way.     *)
LEMMA CutNone ==
  ASSUME NEW r, NEW q, NEW t, NEW s, Cut(<<>>, r, s), Cut(q, t, s)
  PROVE  q = <<>> /\ r = t
<1>1. ASSUME NEW u, Cut(<<>>, u, s) PROVE u = s
  <2>1. u \in Seq(Byte) /\ FlattenSeq(<<>>) \o u = s
    BY <1>1, Zenon DEF Cut
  <2>2. <<>> \o u = u
    BY <2>1, ConcatEmptySeq
  <2>. QED
    BY <2>1, <2>2, FlattenNone, Zenon
<1>2. r = s
  BY <1>1
<1>3. ASSUME q # <<>> PROVE FALSE
  <2>1. PICK n \in HeaderSize .. Len(s) :
          n = SizeField(s) /\ n <= MaxPackage /\ s \in Seq(Byte)
    BY <1>3, CutFirst
  <2>2. Len(s) >= HeaderSize /\ n <= Len(s) /\ n \in HeaderSize .. MaxPackage
    BY <2>1, LenProperties, MaxPackageAssumption DEF HeaderSize
  <2>. QED
    BY <1>2, <2>1, <2>2, Zenon DEF Cut
<1>. QED
  BY <1>1, <1>2, <1>3

(* Bytes fall into messages and a rest in one way at most.                 *)
LEMMA OneCut ==
  ASSUME NEW p, NEW r, NEW q, NEW t, NEW s, Cut(p, r, s), Cut(q, t, s)
  PROVE  p = q /\ r = t
<1> DEFINE Only(k) == \A a, b, c, d, e :
                        Len(a) = k /\ Cut(a, b, e) /\ Cut(c, d, e)
                          => a = c /\ b = d
           T == { k \in Nat : Only(k) }
<1>1. 0 \in T
  <2>. SUFFICES ASSUME NEW a, NEW b, NEW c, NEW d, NEW e,
                       Len(a) = 0, Cut(a, b, e), Cut(c, d, e)
                PROVE  a = c /\ b = d
    OBVIOUS
  <2>1. a = <<>>
    <3>1. a \in Seq(Seq(Byte))
      BY Zenon DEF Cut
    <3>. QED
      BY <3>1, EmptySeq
  <2>. QED
    BY <2>1, CutNone, Zenon
<1>2. ASSUME NEW k \in Nat, k \in T PROVE k + 1 \in T
  <2>. SUFFICES ASSUME NEW a, NEW b, NEW c, NEW d, NEW e,
                       Len(a) = k + 1, Cut(a, b, e), Cut(c, d, e)
                PROVE  a = c /\ b = d
    OBVIOUS
  <2>1. a # <<>>
    BY Nothing
  <2>2. c # <<>>
    BY <2>1, CutNone, Zenon
  <2>3. PICK n \in HeaderSize .. Len(e) :
          /\ n = SizeField(e) /\ Head(a) = SubSeq(e, 1, n)
          /\ Cut(Tail(a), b, SubSeq(e, n + 1, Len(e)))
          /\ a = <<Head(a)>> \o Tail(a) /\ Len(a) = Len(Tail(a)) + 1
    BY <2>1, CutFirst
  <2>4. PICK o \in HeaderSize .. Len(e) :
          /\ o = SizeField(e) /\ Head(c) = SubSeq(e, 1, o)
          /\ Cut(Tail(c), d, SubSeq(e, o + 1, Len(e)))
          /\ c = <<Head(c)>> \o Tail(c)
    BY <2>2, CutFirst
  <2>5. o = n
    BY <2>3, <2>4, Zenon
  <2>6. Len(Tail(a)) = k
    <3>1. Tail(a) \in Seq(Seq(Byte))
      BY <2>3, Zenon DEF Cut
    <3>2. Len(Tail(a)) \in Nat
      BY <3>1, LenProperties
    <3>. QED
      BY <2>3, <3>2
  <2>7. Tail(a) = Tail(c) /\ b = d
    BY <1>2, <2>3, <2>4, <2>5, <2>6, Zenon
  <2>. QED
    BY <2>3, <2>4, <2>5, <2>7, Zenon
<1>. HIDE DEF T
<1>3. Nat \subseteq T
  BY <1>1, <1>2, SetInduction
<1>4. Len(p) \in Nat
  <2>1. p \in Seq(Seq(Byte))
    BY Zenon DEF Cut
  <2>. QED
    BY <2>1, LenProperties
<1>5. Only(Len(p))
  BY <1>3, <1>4, Zenon DEF T
<1>. QED
  BY <1>5, Zenon

(***************************************************************************)
(* Whenever OnDataReceived has returned, the messages delivered and the    *)
(* bytes kept are the only way to cut what was received: two connections   *)
(* that received the same bytes have delivered the same messages, however  *)
(* the network cut the stream into reads.                                  *)
(***************************************************************************)
THEOREM ChunksDoNotMatter ==
  Spec => [](hasProtocol /\ ~parsing =>
               /\ Cut(delivered, recv_buffer_, received)
               /\ \A p, r : Cut(p, r, received)
                              => p = delivered /\ r = recv_buffer_)
<1>1. TypeOK /\ BytesAccountedFor /\ MessagesArePackages /\ NothingHeldBack
        => (hasProtocol /\ ~parsing =>
              /\ Cut(delivered, recv_buffer_, received)
              /\ \A p, r : Cut(p, r, received)
                             => p = delivered /\ r = recv_buffer_)
  <2>. SUFFICES ASSUME TypeOK, BytesAccountedFor, MessagesArePackages,
                       NothingHeldBack, hasProtocol, ~parsing
                PROVE  /\ Cut(delivered, recv_buffer_, received)
                       /\ \A p, r : Cut(p, r, received)
                                      => p = delivered /\ r = recv_buffer_
    OBVIOUS
  <2>1. Cut(delivered, recv_buffer_, received)
    <3>1. \A i \in 1 .. Len(delivered) : IsPackage(delivered[i])
      BY Zenon DEF MessagesArePackages, IsPackage
    <3>2. delivered \in Seq(Seq(Byte)) /\ recv_buffer_ \in Seq(Byte)
      BY DEF TypeOK
    <3>3. ASSUME Len(recv_buffer_) >= HeaderSize,
                 SizeField(recv_buffer_) \in HeaderSize .. MaxPackage,
                 SizeField(recv_buffer_) <= Len(recv_buffer_)
          PROVE  FALSE
      <4>1. Len(recv_buffer_) < SizeField(recv_buffer_)
        BY <3>3, Zenon DEF NothingHeldBack
      <4>2. PICK n \in Int : n = SizeField(recv_buffer_)
        BY <3>2, <3>3, SizeIsInt, Zenon
      <4>3. Len(recv_buffer_) < n /\ n <= Len(recv_buffer_)
        BY <3>3, <4>1, <4>2, Zenon
      <4>. QED
        BY <3>2, <4>3, LenProperties
    <3>4. FlattenSeq(delivered) \o recv_buffer_ = received
      BY DEF BytesAccountedFor
    <3>. QED
      BY <3>1, <3>2, <3>3, <3>4, Zenon DEF Cut
  <2>2. ASSUME NEW p, NEW r, Cut(p, r, received)
        PROVE  p = delivered /\ r = recv_buffer_
    BY <2>1, <2>2, OneCut, Zenon
  <2>. QED
    BY <2>1, <2>2
<1>. QED
  BY <1>1, FramingTypeCorrect, FramingBytesAccountedFor,
     FramingMessagesArePackages, FramingNothingHeldBack, PTL
=============================================================================
