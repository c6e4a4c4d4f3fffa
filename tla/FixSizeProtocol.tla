-------------------------- MODULE FixSizeProtocol --------------------------
(***************************************************************************)
(* FixSizeProtocol::ParsePackage, which TCP, UDP and WebSocket servers     *)
(* call with the bytes they hold.  A package begins with its length in     *)
(* four bytes, network order.  The result is one of three, and the length  *)
(* of a complete package is SizeField; msg_len is used by nobody.          *)
(***************************************************************************)
EXTENDS Integers, Sequences

CONSTANT MaxPackage     \* the largest package, 65535 in the code

Byte == 0 .. 255

HeaderSize == 4

ASSUME MaxPackageAssumption == MaxPackage \in Nat /\ HeaderSize <= MaxPackage

(* The first four bytes, as ntohl assigned to an int gives them.           *)
SizeField(b) ==
  LET top == IF b[1] < 128 THEN b[1] ELSE b[1] - 256
  IN  top * 16777216 + b[2] * 65536 + b[3] * 256 + b[4]

(* Faulty variants of SizeAllowed: a lower bound that forgets the size     *)
(* field, and no upper bound.                                              *)
NotNegative(n) == 0 <= n /\ n <= MaxPackage

NotTooShort(n) == HeaderSize <= n

SizeAllowed(n) == HeaderSize <= n /\ n <= MaxPackage

(* Faulty variant of PackageLess: it waits for one byte more.              *)
PackageNotLonger(b) ==
  \/ Len(b) < HeaderSize
  \/ /\ Len(b) >= HeaderSize
     /\ SizeAllowed(SizeField(b))
     /\ Len(b) <= SizeField(b)

PackageLess(b) ==
  \/ Len(b) < HeaderSize
  \/ /\ Len(b) >= HeaderSize
     /\ SizeAllowed(SizeField(b))
     /\ Len(b) < SizeField(b)

PackageError(b) == Len(b) >= HeaderSize /\ ~SizeAllowed(SizeField(b))

PackageFull(b) == ~PackageLess(b) /\ ~PackageError(b)
=============================================================================
