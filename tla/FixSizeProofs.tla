--------------------------- MODULE FixSizeProofs ---------------------------
(***************************************************************************)
(* What FixSizeProtocol's verdicts depend on, for any bytes and any limit. *)
(* The TCP and the UDP server's proofs use these facts.                    *)
(***************************************************************************)
EXTENDS FixSizeProtocol, SequenceLemmas

------------------------------------------------------------------------------
(* The size field.                                                         *)

LEMMA SizeIsInt ==
  ASSUME NEW data \in Seq(Byte), Len(data) >= HeaderSize
  PROVE  SizeField(data) \in Int
<1>0. Byte \subseteq Int
  BY DEF Byte
<1>1. /\ data[1] \in Byte /\ data[2] \in Byte /\ data[3] \in Byte
      /\ data[4] \in Byte
  BY DEF HeaderSize
<1>3. PICK a \in Int : a = data[1]
  BY <1>0, <1>1, Zenon
<1>4. PICK b \in Int : b = data[2]
  BY <1>0, <1>1, Zenon
<1>5. PICK c \in Int : c = data[3]
  BY <1>0, <1>1, Zenon
<1>6. PICK d \in Int : d = data[4]
  BY <1>0, <1>1, Zenon
<1> DEFINE top == IF a < 128 THEN a ELSE a - 256
<1>7. SizeField(data) = top * 16777216 + b * 65536 + c * 256 + d
  BY <1>3, <1>4, <1>5, <1>6, SMT DEF SizeField
<1>8. top \in Int
  OBVIOUS
<1>. HIDE DEF top
<1>9. top * 16777216 + b * 65536 + c * 256 + d \in Int
  BY <1>8, SMT
<1>. QED
  BY <1>7, <1>9, SMT

(* It is a function of the first four bytes.                               *)
LEMMA SizeOfHeader ==
  ASSUME NEW data, NEW other,
         \A i \in 1 .. HeaderSize : data[i] = other[i]
  PROVE  SizeField(data) = SizeField(other)
<1>1. /\ data[1] = other[1] /\ data[2] = other[2]
      /\ data[3] = other[3] /\ data[4] = other[4]
  BY DEF HeaderSize
<1>. QED
  BY <1>1, SMT DEF SizeField

(* Bytes that follow do not change it.                                     *)
LEMMA SizeOfConcat ==
  ASSUME NEW data \in Seq(Byte), NEW more \in Seq(Byte),
         Len(data) >= HeaderSize
  PROVE  SizeField(data \o more) = SizeField(data)
<1>1. \A i \in 1 .. HeaderSize : (data \o more)[i] = data[i]
  BY DEF HeaderSize
<1>. QED
  BY <1>1, SizeOfHeader, Zenon

(* Neither does leaving bytes behind the first four out.                   *)
LEMMA SizeOfBeginning ==
  ASSUME NEW data \in Seq(Byte), NEW n \in HeaderSize .. Len(data)
  PROVE  SizeField(SubSeq(data, 1, n)) = SizeField(data)
<1>1. n \in Nat /\ n <= Len(data) /\ HeaderSize <= n
  BY DEF HeaderSize
<1>2. \A i \in 1 .. HeaderSize : SubSeq(data, 1, n)[i] = data[i]
  BY <1>1 DEF HeaderSize
<1>. QED
  BY <1>2, SizeOfHeader, Zenon

------------------------------------------------------------------------------
(* The verdicts.                                                           *)

LEMMA FullHasSize ==
  ASSUME NEW data \in Seq(Byte)
  PROVE  PackageFull(data) <=>
           /\ Len(data) >= HeaderSize
           /\ SizeField(data) \in HeaderSize .. Len(data)
           /\ SizeField(data) <= MaxPackage
BY SizeIsInt, MaxPackageAssumption
   DEF PackageFull, PackageLess, PackageError, SizeAllowed, HeaderSize

(* A buffer that waits for more is shorter than the largest package.       *)
LEMMA LessIsBounded ==
  ASSUME NEW data \in Seq(Byte), PackageLess(data)
  PROVE  Len(data) < MaxPackage
BY SizeIsInt, MaxPackageAssumption DEF PackageLess, SizeAllowed, HeaderSize

(***************************************************************************)
(* A verdict other than "wait for more" is final: bytes that arrive later  *)
(* change neither the verdict nor the package.  This is why it does not    *)
(* matter how the network cuts a stream into reads.                        *)
(***************************************************************************)
THEOREM VerdictIsFinal ==
  ASSUME NEW data \in Seq(Byte), NEW more \in Seq(Byte)
  PROVE  /\ PackageError(data) => PackageError(data \o more)
         /\ PackageFull(data) =>
              /\ PackageFull(data \o more)
              /\ SizeField(data \o more) = SizeField(data)
              /\ SubSeq(data \o more, 1, SizeField(data))
                   = SubSeq(data, 1, SizeField(data))
<1>1. /\ data \o more \in Seq(Byte)
      /\ Len(data) \in Nat /\ Len(more) \in Nat
      /\ Len(data \o more) = Len(data) + Len(more)
  BY ConcatProperties, LenProperties
<1>2. ASSUME PackageError(data) PROVE PackageError(data \o more)
  <2>1. Len(data) >= HeaderSize /\ ~SizeAllowed(SizeField(data))
    BY <1>2 DEF PackageError
  <2>2. SizeField(data \o more) = SizeField(data)
    BY <2>1, SizeOfConcat
  <2>3. Len(data \o more) >= HeaderSize
    BY <1>1, <2>1 DEF HeaderSize
  <2>. QED
    BY <2>1, <2>2, <2>3, Zenon DEF PackageError
<1>3. ASSUME PackageFull(data)
      PROVE  /\ PackageFull(data \o more)
             /\ SizeField(data \o more) = SizeField(data)
             /\ SubSeq(data \o more, 1, SizeField(data))
                  = SubSeq(data, 1, SizeField(data))
  <2>1. /\ Len(data) >= HeaderSize
        /\ SizeField(data) \in HeaderSize .. Len(data)
        /\ SizeField(data) <= MaxPackage
    BY <1>3, FullHasSize
  <2>2. SizeField(data \o more) = SizeField(data)
    BY <2>1, SizeOfConcat
  <2>3. PICK n \in Int : n = SizeField(data) /\ n \in HeaderSize .. Len(data)
    BY <2>1
  <2>4. PackageFull(data \o more)
    <3>1. /\ Len(data \o more) >= HeaderSize
          /\ n \in HeaderSize .. Len(data \o more) /\ n <= MaxPackage
      BY <1>1, <2>1, <2>3 DEF HeaderSize
    <3>. QED
      BY <1>1, <2>2, <2>3, <3>1, FullHasSize, Zenon
  <2>5. SubSeq(data \o more, 1, n) = SubSeq(data, 1, n)
    <3>1. n \in 1 .. Len(data) /\ 1 \in 1 .. Len(data)
      BY <1>1, <2>3 DEF HeaderSize
    <3>. QED
      BY <3>1, SubSeqOfConcat1
  <2>. QED
    BY <2>2, <2>3, <2>4, <2>5, Zenon
<1>. QED
  BY <1>2, <1>3
=============================================================================
