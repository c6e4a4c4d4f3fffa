--------------------------- MODULE SequenceLemmas ---------------------------
(***************************************************************************)
(* Facts about sequences that the proofs of several components need and    *)
(* the library does not state: prefixes, and what FlattenSeq computes.     *)
(* FlattenSeq is a recursive function; that it exists is proved by         *)
(* induction over a set of numbers.                                        *)
(***************************************************************************)
EXTENDS SequencesExt, SequenceTheorems, WellFoundedInduction, TLAPS

------------------------------------------------------------------------------
(***************************************************************************)
(* Induction.  A set with 0 and the successors of its members contains     *)
(* every natural number.                                                   *)
(***************************************************************************)
LEMMA SetInduction ==
  ASSUME NEW T, 0 \in T, \A n \in Nat : n \in T => n + 1 \in T
  PROVE  Nat \subseteq T
<1> DEFINE D == Nat \ T
<1>. SUFFICES ASSUME D # {} PROVE FALSE
  OBVIOUS
<1>1. PICK x \in D : \A y \in D : ~ (<<y, x>> \in OpToRel(<, Nat))
  <2>1. D \subseteq Nat
    OBVIOUS
  <2>. HIDE DEF D
  <2>. QED
    BY <2>1, WFMin, NatLessThanWellFounded, Zenon
<1>2. x - 1 \in D /\ x - 1 < x
  OBVIOUS
<1>3. <<x - 1, x>> \in OpToRel(<, Nat)
  BY <1>2 DEF OpToRel
<1>. QED
  BY <1>1, <1>2, <1>3

------------------------------------------------------------------------------
(* Sequences of no and of one element.                                     *)

LEMMA Nothing == ASSUME NEW S PROVE <<>> \in Seq(S) /\ Len(<<>>) = 0
BY EmptySeq

LEMMA Associative ==
  ASSUME NEW S
  PROVE  \A s, t, u \in Seq(S) : (s \o t) \o u = s \o (t \o u)
BY ConcatAssociative

LEMMA AppendOfConcat ==
  ASSUME NEW S, NEW s \in Seq(S), NEW t \in Seq(S), NEW m \in S
  PROVE  Append(s \o t, m) = s \o Append(t, m)
<1>1. <<m>> \in Seq(S)
  OBVIOUS
<1>2. Append(s \o t, m) = (s \o t) \o <<m>> /\ Append(t, m) = t \o <<m>>
  BY ConcatProperties, AppendIsConcat
<1>. QED
  BY <1>1, <1>2, ConcatAssociative

LEMMA SingletonConcat ==
  ASSUME NEW S, NEW q \in Seq(S), q # <<>>
  PROVE  /\ <<Head(q)>> \in Seq(S)
         /\ <<Head(q)>> \o Tail(q) = q
<1>1. Head(q) \in S /\ Tail(q) \in Seq(S) /\ Len(Tail(q)) = Len(q) - 1
  BY HeadTailProperties
<1>2. <<Head(q)>> \in Seq(S) /\ Len(<<Head(q)>>) = 1
  BY <1>1
<1>3. Len(q) \in Nat \ {0}
  BY EmptySeq
<1>4. <<Head(q)>> \o Tail(q) \in Seq(S) /\ Len(<<Head(q)>> \o Tail(q)) = Len(q)
  BY <1>1, <1>2, <1>3, ConcatProperties
<1>5. \A i \in 1 .. Len(q) : (<<Head(q)>> \o Tail(q))[i] = q[i]
  BY <1>1, <1>2, <1>3
<1>. QED
  BY <1>2, <1>4, <1>5, SeqEqual

(* A sequence of at most one element is empty once its head is taken.      *)
LEMMA TailOfAtMostOne ==
  ASSUME NEW S, NEW f \in Seq(S), f # <<>>, Len(f) <= 1
  PROVE  Tail(f) = <<>> /\ f = <<Head(f)>>
<1>1. Len(f) = 1
  <2>1. Len(f) \in Nat \ {0}
    BY EmptySeq
  <2>. QED
    BY <2>1
<1>2. Tail(f) \in Seq(S) /\ Len(Tail(f)) = 0
  BY <1>1, HeadTailProperties
<1>3. Tail(f) = <<>>
  BY <1>2, EmptySeq
<1>4. <<Head(f)>> \o Tail(f) = f /\ <<Head(f)>> \in Seq(S)
  BY SingletonConcat
<1>. QED
  BY <1>3, <1>4, ConcatEmptySeq

(* A sequence cut behind its n-th element.                                 *)
LEMMA CutInTwo ==
  ASSUME NEW S, NEW s \in Seq(S), NEW n \in 0 .. Len(s)
  PROVE  /\ SubSeq(s, 1, n) \in Seq(S) /\ Len(SubSeq(s, 1, n)) = n
         /\ SubSeq(s, n + 1, Len(s)) \in Seq(S)
         /\ Len(SubSeq(s, n + 1, Len(s))) = Len(s) - n
         /\ SubSeq(s, 1, n) \o SubSeq(s, n + 1, Len(s)) = s
<1>1. Len(s) \in Nat /\ n \in Nat /\ n <= Len(s)
  BY LenProperties
<1>2. PICK p : p = SubSeq(s, 1, n)
  OBVIOUS
<1>3. PICK r : r = SubSeq(s, n + 1, Len(s))
  OBVIOUS
<1>4. p \in Seq(S) /\ Len(p) = n /\ \A i \in 1 .. n : p[i] = s[i]
  <2>1. \A i \in 1 .. n : s[i] \in S
    BY <1>1
  <2>. QED
    BY <1>1, <1>2, <2>1, SubSeqProperties
<1>5. /\ r \in Seq(S) /\ Len(r) = Len(s) - n
      /\ \A i \in 1 .. Len(s) - n : r[i] = s[n + i]
  <2>1. \A i \in n + 1 .. Len(s) : s[i] \in S
    BY <1>1
  <2>. QED
    BY <1>1, <1>3, <2>1, SubSeqProperties
<1>6. /\ p \o r \in Seq(S) /\ Len(p \o r) = Len(s)
      /\ \A i \in 1 .. Len(s) :
           (p \o r)[i] = IF i <= n THEN p[i] ELSE r[i - n]
  <2>1. /\ p \o r \in Seq(S) /\ Len(p \o r) = Len(p) + Len(r)
        /\ \A i \in 1 .. Len(p) + Len(r) :
             (p \o r)[i] = IF i <= Len(p) THEN p[i] ELSE r[i - Len(p)]
    BY <1>4, <1>5, ConcatProperties
  <2>2. Len(p) + Len(r) = Len(s)
    BY <1>1, <1>4, <1>5
  <2>. QED
    BY <1>4, <2>1, <2>2, Zenon
<1>7. ASSUME NEW i \in 1 .. Len(s) PROVE (p \o r)[i] = s[i]
  <2>1. CASE i \in 1 .. n
    BY <1>1, <1>4, <1>6, <2>1
  <2>2. CASE i \in n + 1 .. Len(s)
    <3>1. i - n \in 1 .. Len(s) - n /\ n + (i - n) = i
      BY <1>1, <2>2
    <3>2. r[i - n] = s[n + (i - n)]
      BY <1>5, <3>1
    <3>3. (p \o r)[i] = r[i - n]
      BY <1>1, <1>6, <2>2
    <3>. QED
      BY <3>1, <3>2, <3>3
  <2>3. i \in 1 .. n \/ i \in n + 1 .. Len(s)
    BY <1>1
  <2>. QED
    BY <2>1, <2>2, <2>3
<1>8. p \o r = s
  BY <1>6, <1>7, SeqEqual
<1>. QED
  BY <1>2, <1>3, <1>4, <1>5, <1>8

------------------------------------------------------------------------------
(* Prefixes.                                                               *)

LEMMA PrefixOfConcat ==
  ASSUME NEW S, NEW s \in Seq(S), NEW t \in Seq(S)
  PROVE  IsPrefix(s, s \o t)
<1>1. Len(s) \in Nat /\ Len(t) \in Nat /\ Len(s \o t) = Len(s) + Len(t)
  BY ConcatProperties, LenProperties
<1>2. SubSeq(s \o t, 1, Len(s)) = s
  BY <1>1
<1>3. SubSeq(s, 1, Len(s)) = s
  BY <1>1
<1>. QED
  BY <1>1, <1>2, <1>3 DEF IsPrefix

LEMMA PrefixIs ==
  ASSUME NEW S, NEW s \in Seq(S), NEW t \in Seq(S)
  PROVE  IsPrefix(s, t) <=>
           Len(s) <= Len(t) /\ \A i \in 1 .. Len(s) : s[i] = t[i]
<1>1. Len(s) \in Nat /\ Len(t) \in Nat
  BY LenProperties
<1>2. SubSeq(s, 1, Len(s)) = s
  BY <1>1
<1>3. ASSUME Len(s) <= Len(t)
      PROVE  /\ Len(SubSeq(t, 1, Len(s))) = Len(s)
             /\ SubSeq(t, 1, Len(s)) \in Seq(S)
             /\ \A i \in 1 .. Len(s) : SubSeq(t, 1, Len(s))[i] = t[i]
  BY <1>1, <1>3
<1>4. ASSUME Len(s) <= Len(t), \A i \in 1 .. Len(s) : s[i] = t[i]
      PROVE  s = SubSeq(t, 1, Len(s))
  BY <1>3, <1>4, SeqEqual
<1>5. ASSUME Len(s) <= Len(t), s = SubSeq(t, 1, Len(s))
      PROVE  \A i \in 1 .. Len(s) : s[i] = t[i]
  BY <1>3, <1>5
<1>. QED
  BY <1>2, <1>4, <1>5 DEF IsPrefix

LEMMA PrefixTransitive ==
  ASSUME NEW S, NEW s \in Seq(S), NEW t \in Seq(S), NEW u \in Seq(S),
         IsPrefix(s, t), IsPrefix(t, u)
  PROVE  IsPrefix(s, u)
<1>1. /\ Len(s) <= Len(t) /\ \A i \in 1 .. Len(s) : s[i] = t[i]
      /\ Len(t) <= Len(u) /\ \A i \in 1 .. Len(t) : t[i] = u[i]
  BY PrefixIs
<1>2. Len(s) \in Nat /\ Len(t) \in Nat /\ Len(u) \in Nat
  BY LenProperties
<1>3. Len(s) <= Len(u) /\ \A i \in 1 .. Len(s) : s[i] = u[i]
  BY <1>1, <1>2
<1>. QED
  BY <1>3, PrefixIs

LEMMA PrefixOfAppend ==
  ASSUME NEW S, NEW s \in Seq(S), NEW t \in Seq(S), NEW m \in S,
         IsPrefix(s, t)
  PROVE  IsPrefix(s, Append(t, m))
<1>1. /\ Append(t, m) \in Seq(S) /\ Len(Append(t, m)) = Len(t) + 1
      /\ Len(s) \in Nat /\ Len(t) \in Nat /\ Len(s) <= Len(t)
      /\ \A i \in 1 .. Len(t) : Append(t, m)[i] = t[i]
  BY AppendProperties, LenProperties DEF IsPrefix
<1>2. SubSeq(Append(t, m), 1, Len(s)) = SubSeq(t, 1, Len(s))
  BY <1>1
<1>. QED
  BY <1>1, <1>2 DEF IsPrefix

------------------------------------------------------------------------------
(***************************************************************************)
(* FlattenSeq.  Flattens(g, s, n): g[i] is the concatenation of the first  *)
(* i members of s, for i up to n.                                          *)
(***************************************************************************)
Flattens(g, s, n) ==
  \A i \in 1 .. n : g[i] = IF i = 1 THEN s[i] ELSE g[i - 1] \o s[i]

LEMMA FlattensStep ==
  ASSUME NEW g, NEW s, NEW n \in Nat, NEW i \in 1 .. n, i + 1 \in 1 .. n,
         Flattens(g, s, n)
  PROVE  g[i + 1] = g[i] \o s[i + 1]
<1>1. i + 1 # 1 /\ (i + 1) - 1 = i
  OBVIOUS
<1>2. g[i + 1] = IF i + 1 = 1 THEN s[i + 1] ELSE g[(i + 1) - 1] \o s[i + 1]
  BY Zenon DEF Flattens
<1>. QED
  BY <1>1, <1>2, Zenon

LEMMA FlattenExists ==
  ASSUME NEW S, NEW s \in Seq(Seq(S))
  PROVE  \E g \in [1 .. Len(s) -> Seq(S)] : Flattens(g, s, Len(s))
<1> DEFINE T == { n \in Nat : n <= Len(s) =>
                    \E g \in [1 .. n -> Seq(S)] : Flattens(g, s, n) }
<1>0. Len(s) \in Nat /\ \A i \in 1 .. Len(s) : s[i] \in Seq(S)
  BY LenProperties
<1>1. 0 \in T
  <2>1. [i \in 1 .. 0 |-> <<>>] \in [1 .. 0 -> Seq(S)]
    OBVIOUS
  <2>2. Flattens([i \in 1 .. 0 |-> <<>>], s, 0)
    BY DEF Flattens
  <2>. QED
    BY <2>1, <2>2
<1>2. ASSUME NEW n \in Nat, n \in T PROVE n + 1 \in T
  <2>. SUFFICES ASSUME n + 1 <= Len(s)
                PROVE  \E g \in [1 .. n + 1 -> Seq(S)] : Flattens(g, s, n + 1)
    OBVIOUS
  <2>1. PICK g \in [1 .. n -> Seq(S)] : Flattens(g, s, n)
    BY <1>0, <1>2
  <2> DEFINE last == IF n = 0 THEN s[n + 1] ELSE g[n] \o s[n + 1]
             h    == [i \in 1 .. n + 1 |-> IF i = n + 1 THEN last ELSE g[i]]
  <2>2. last \in Seq(S)
    <3>1. s[n + 1] \in Seq(S)
      BY <1>0
    <3>2. n # 0 => g[n] \in Seq(S)
      OBVIOUS
    <3>. QED
      BY <3>1, <3>2, ConcatProperties
  <2>3. h \in [1 .. n + 1 -> Seq(S)]
    <3>. HIDE DEF last
    <3>. QED
      BY <2>2
  <2>4. ASSUME NEW i \in 1 .. n + 1
        PROVE  h[i] = IF i = 1 THEN s[i] ELSE h[i - 1] \o s[i]
    <3>1. CASE i = n + 1
      <4>1. h[i] = last /\ (n # 0 => h[i - 1] = g[n])
        BY <3>1
      <4>. QED
        BY <3>1, <4>1
    <3>2. CASE i \in 1 .. n
      <4>1. h[i] = g[i]
        <5>. HIDE DEF last
        <5>1. i # n + 1
          BY <3>2
        <5>. QED
          BY <5>1
      <4>2. i # 1 => h[i - 1] = g[i - 1]
        <5>. HIDE DEF last
        <5>. SUFFICES ASSUME i # 1 PROVE h[i - 1] = g[i - 1]
          OBVIOUS
        <5>1. i - 1 \in 1 .. n + 1 /\ i - 1 # n + 1
          BY <3>2
        <5>. QED
          BY <5>1
      <4>3. g[i] = IF i = 1 THEN s[i] ELSE g[i - 1] \o s[i]
        BY <2>1, <3>2 DEF Flattens
      <4>. HIDE DEF h
      <4>. QED
        BY <4>1, <4>2, <4>3
    <3>. QED
      BY <3>1, <3>2
  <2>. QED
    BY <2>3, <2>4 DEF Flattens
<1>3. Len(s) \in T
  <2>. HIDE DEF T
  <2>. QED
    BY <1>0, <1>1, <1>2, SetInduction
<1>. QED
  BY <1>0, <1>3

LEMMA FlattenUnique ==
  ASSUME NEW s, NEW g, NEW h, NEW m \in Nat,
         Flattens(g, s, m), Flattens(h, s, m)
  PROVE  \A i \in 1 .. m : g[i] = h[i]
<1> DEFINE T == { n \in Nat : n \in 1 .. m => g[n] = h[n] }
<1>1. 0 \in T
  OBVIOUS
<1>2. ASSUME NEW n \in Nat, n \in T PROVE n + 1 \in T
  BY <1>2 DEF Flattens
<1>3. Nat \subseteq T
  <2>. HIDE DEF T
  <2>. QED
    BY <1>1, <1>2, SetInduction
<1>. QED
  BY <1>3

(* Whatever satisfies the recursion is what FlattenSeq computes.           *)
LEMMA FlattenIs ==
  ASSUME NEW S, NEW s \in Seq(Seq(S)), s # <<>>,
         NEW g, Flattens(g, s, Len(s))
  PROVE  FlattenSeq(s) = g[Len(s)]
<1> DEFINE Rec(f) == [i \in 1 .. Len(s) |->
                        IF i = 1 THEN s[i] ELSE f[i - 1] \o s[i]]
           flatten == CHOOSE f : f = Rec(f)
<1>0. Len(s) \in Nat \ {0}
  BY EmptySeq
<1>1. \E f : f = Rec(f)
  <2>1. PICK f \in [1 .. Len(s) -> Seq(S)] : Flattens(f, s, Len(s))
    BY FlattenExists
  <2>2. f = Rec(f)
    BY <1>0, <2>1 DEF Flattens
  <2>. QED
    BY <2>2
<1>2. flatten = Rec(flatten)
  BY <1>1, Zenon
<1>3. Flattens(flatten, s, Len(s))
  <2>. HIDE DEF flatten
  <2>. QED
    BY <1>2 DEF Flattens
<1>4. flatten[Len(s)] = g[Len(s)]
  <2>. HIDE DEF flatten
  <2>. QED
    BY <1>0, <1>3, FlattenUnique
<1>5. FlattenSeq(s) = flatten[Len(s)]
  BY <1>0, Zenon DEF FlattenSeq
<1>. QED
  BY <1>4, <1>5

(* The flattened sequence holds elements of the members of the sequence.   *)
LEMMA FlattenType ==
  ASSUME NEW S, NEW s \in Seq(Seq(S))
  PROVE  FlattenSeq(s) \in Seq(S)
<1>1. CASE s = <<>>
  BY <1>1, Nothing DEF FlattenSeq
<1>2. CASE s # <<>>
  <2>1. PICK g \in [1 .. Len(s) -> Seq(S)] : Flattens(g, s, Len(s))
    BY FlattenExists
  <2>2. Len(s) \in 1 .. Len(s)
    BY <1>2, EmptySeq, LenProperties
  <2>. QED
    BY <1>2, <2>1, <2>2, FlattenIs, SMTT(30)
<1>. QED
  BY <1>1, <1>2

LEMMA FlattenNone == FlattenSeq(<<>>) = <<>>
BY DEF FlattenSeq

(* A member appended is flattened behind the others.                       *)
LEMMA FlattenAppend ==
  ASSUME NEW S, NEW s \in Seq(Seq(S)), NEW e \in Seq(S)
  PROVE  FlattenSeq(Append(s, e)) = FlattenSeq(s) \o e
<1>1. PICK t : t = Append(s, e)
  OBVIOUS
<1>2. PICK n \in Nat : n = Len(s)
  BY LenProperties
<1>3. /\ t \in Seq(Seq(S)) /\ t # <<>> /\ Len(t) = n + 1
      /\ t[n + 1] = e /\ \A i \in 1 .. n : t[i] = s[i]
  BY <1>1, <1>2, AppendProperties
<1>4. PICK g : Flattens(g, t, n + 1)
  BY <1>3, FlattenExists
<1>5. FlattenSeq(t) = g[n + 1]
  BY <1>3, <1>4, FlattenIs
<1>6. CASE n = 0
  <2>1. FlattenSeq(t) = e
    BY <1>3, <1>4, <1>5, <1>6 DEF Flattens
  <2>2. s = <<>>
    BY <1>2, <1>6, EmptySeq
  <2>. QED
    BY <1>1, <2>1, <2>2, FlattenNone, ConcatEmptySeq
<1>7. CASE n # 0
  <2>1. n \in 1 .. n + 1 /\ n + 1 \in 1 .. n + 1 /\ n + 1 \in Nat
    BY <1>7
  <2>2. g[n + 1] = g[n] \o e
    <3>1. g[n + 1] = g[n] \o t[n + 1]
      BY <1>4, <2>1, FlattensStep, ZenonT(60)
    <3>. QED
      BY <1>3, <3>1
  <2>3. Flattens(g, s, n)
    BY <1>3, <1>4 DEF Flattens
  <2>4. FlattenSeq(s) = g[n]
    BY <1>2, <1>7, <2>3, FlattenIs, EmptySeq
  <2>. QED
    BY <1>1, <1>5, <2>2, <2>4
<1>. QED
  BY <1>6, <1>7

(* The first member comes first.                                           *)
LEMMA FlattenHead ==
  ASSUME NEW S, NEW s \in Seq(Seq(S)), s # <<>>
  PROVE  FlattenSeq(s) = Head(s) \o FlattenSeq(Tail(s))
<1>0. \A a, b, c \in Seq(S) : (a \o b) \o c = a \o (b \o c)
  <2>. SUFFICES ASSUME NEW a \in Seq(S), NEW b \in Seq(S), NEW c \in Seq(S)
                PROVE  (a \o b) \o c = a \o (b \o c)
    OBVIOUS
  <2>. QED
    BY ConcatAssociative, SMTT(30)
<1>1. PICK t : t = Tail(s)
  OBVIOUS
<1>2. /\ t \in Seq(Seq(S)) /\ Head(s) \in Seq(S) /\ Head(s) = s[1]
      /\ Len(s) \in Nat \ {0} /\ Len(t) = Len(s) - 1
      /\ \A i \in 1 .. Len(t) : t[i] = s[i + 1]
  BY <1>1, HeadTailProperties, EmptySeq, LenProperties
<1>3. PICK m \in Nat : m = Len(t)
  BY <1>2
<1>4. Len(s) = m + 1
  BY <1>2, <1>3
<1>5. PICK g : Flattens(g, s, m + 1)
  BY <1>4, FlattenExists
<1>6. PICK h \in [1 .. m -> Seq(S)] : Flattens(h, t, m)
  BY <1>2, <1>3, FlattenExists
<1>7. FlattenSeq(s) = g[m + 1] /\ g[1] = s[1]
  <2>1. FlattenSeq(s) = g[m + 1]
    BY <1>4, <1>5, FlattenIs
  <2>. QED
    BY <1>5, <2>1 DEF Flattens
<1>8. CASE m = 0
  <2>1. t = <<>>
    BY <1>2, <1>3, <1>8, EmptySeq
  <2>2. FlattenSeq(s) = Head(s)
    BY <1>2, <1>7, <1>8
  <2>3. FlattenSeq(t) = <<>> /\ Head(s) \o <<>> = Head(s)
    BY <1>2, <2>1, FlattenNone, ConcatEmptySeq
  <2>. QED
    BY <1>1, <2>2, <2>3
<1>9. CASE m # 0
  <2>1. t # <<>>
    BY <1>3, <1>9, EmptySeq
  <2>2. FlattenSeq(t) = h[m]
    BY <1>2, <1>3, <1>6, <2>1, FlattenIs
  <2>3. \A i \in 1 .. m : t[i] \in Seq(S) /\ h[i] \in Seq(S)
    <3>1. \A i \in 1 .. m : t[i] \in Seq(S)
      BY <1>2, <1>3, ElementOfSeq
    <3>. QED
      BY <3>1
  <2>4. g[1 + 1] = s[1] \o t[1] /\ h[1] = t[1]
    <3>1. 1 \in 1 .. m /\ 1 \in 1 .. m + 1 /\ 1 + 1 \in 1 .. m + 1 /\ m + 1 \in Nat
      BY <1>9
    <3>2. g[1 + 1] = g[1] \o s[1 + 1]
      <4>1. PICK i : i = 1
        OBVIOUS
      <4>2. i \in 1 .. m + 1 /\ i + 1 \in 1 .. m + 1
        BY <3>1, <4>1
      <4>3. g[i + 1] = g[i] \o s[i + 1]
        BY <1>5, <3>1, <4>2, FlattensStep, ZenonT(60)
      <4>. QED
        BY <4>1, <4>3, Zenon
    <3>3. s[1 + 1] = t[1]
      BY <1>2, <1>3, <3>1
    <3>4. h[1] = t[1]
      BY <1>6, <3>1 DEF Flattens
    <3>. QED
      BY <1>7, <3>2, <3>3, <3>4, Zenon
  <2>5. ASSUME NEW i \in 1 .. m - 1
        PROVE  g[i + 2] = g[i + 1] \o t[i + 1] /\ h[i + 1] = h[i] \o t[i + 1]
    <3>1. /\ i + 1 \in 1 .. m + 1 /\ (i + 1) + 1 \in 1 .. m + 1
          /\ i \in 1 .. m /\ i + 1 \in 1 .. m /\ m + 1 \in Nat
          /\ (i + 1) + 1 = i + 2
      OBVIOUS
    <3>2. g[(i + 1) + 1] = g[i + 1] \o s[(i + 1) + 1]
      BY <1>5, <3>1, FlattensStep, ZenonT(60)
    <3>3. h[i + 1] = h[i] \o t[i + 1]
      BY <1>6, <3>1, FlattensStep, ZenonT(60)
    <3>. QED
      BY <1>2, <1>3, <3>1, <3>2, <3>3
  <2>6. \A n \in 1 .. m : g[n + 1] = s[1] \o h[n]
    <3>1. PICK x \in Seq(S) : x = s[1]
      BY <1>2
    <3> DEFINE T == { n \in Nat : n \in 1 .. m => g[n + 1] = x \o h[n] }
    <3>2. 0 \in T
      OBVIOUS
    <3>3. ASSUME NEW n \in Nat, n \in T PROVE n + 1 \in T
      <4>1. CASE n + 1 \notin 1 .. m
        BY <4>1
      <4>2. CASE n = 0 /\ n + 1 \in 1 .. m
        <5>1. n + 1 = 1
          BY <4>2
        <5>2. g[1 + 1] = x \o h[1]
          BY <2>4, <3>1, Zenon
        <5>3. g[(n + 1) + 1] = x \o h[n + 1]
          BY <5>1, <5>2, Zenon
        <5>. QED
          BY <5>3
      <4>3. CASE n # 0 /\ n + 1 \in 1 .. m
        <5>1. n \in 1 .. m - 1 /\ n \in 1 .. m
          BY <4>3
        <5>2. /\ g[n + 2] = g[n + 1] \o t[n + 1] /\ h[n + 1] = h[n] \o t[n + 1]
              /\ g[n + 1] = x \o h[n]
          BY <2>5, <3>3, <5>1
        <5>3. h[n] \in Seq(S) /\ t[n + 1] \in Seq(S)
          BY <2>3, <4>3, <5>1
        <5>4. (x \o h[n]) \o t[n + 1] = x \o (h[n] \o t[n + 1])
          BY <1>0, <5>3, Zenon
        <5>5. g[n + 2] = x \o h[n + 1]
          BY <5>2, <5>4
        <5>6. n + 2 = (n + 1) + 1
          OBVIOUS
        <5>. QED
          BY <5>5, <5>6
      <4>. QED
        BY <4>1, <4>2, <4>3
    <3>4. Nat \subseteq T
      <4>. HIDE DEF T
      <4>. QED
        BY <3>2, <3>3, SetInduction
    <3>5. \A n \in 1 .. m : g[n + 1] = x \o h[n]
      <4>. SUFFICES ASSUME NEW n \in 1 .. m PROVE g[n + 1] = x \o h[n]
        OBVIOUS
      <4>1. n \in Nat
        OBVIOUS
      <4>2. n \in T
        BY <3>4, <4>1, Zenon
      <4>. QED
        BY <4>2
    <3>. QED
      BY <3>1, <3>5, Zenon
  <2>7. m \in 1 .. m
    BY <1>9
  <2>. QED
    BY <1>1, <1>2, <1>7, <2>2, <2>6, <2>7
<1>. QED
  BY <1>8, <1>9

------------------------------------------------------------------------------
(* Flattening part of a sequence.                                          *)

(* What is not empty is something with a last element behind it.           *)
LEMMA LastApart ==
  ASSUME NEW S, NEW n \in Nat, NEW t \in Seq(S), Len(t) = n + 1
  PROVE  /\ SubSeq(t, 1, n) \in Seq(S) /\ Len(SubSeq(t, 1, n)) = n
         /\ t[n + 1] \in S
         /\ t = Append(SubSeq(t, 1, n), t[n + 1])
<1>1. /\ SubSeq(t, 1, n) \in Seq(S) /\ Len(SubSeq(t, 1, n)) = n
  BY CutInTwo
<1>2. t[n + 1] \in S
  OBVIOUS
<1>3. PICK p \in Seq(S) : p = SubSeq(t, 1, n) /\ Len(p) = n
  BY <1>1, Zenon
<1>4. PICK e \in S : e = t[n + 1]
  BY <1>2, Zenon
<1>5. \A i \in 1 .. n : p[i] = t[i]
  BY <1>3
<1>6. /\ Append(p, e) \in Seq(S) /\ Len(Append(p, e)) = n + 1
      /\ \A i \in 1 .. n : Append(p, e)[i] = p[i]
      /\ Append(p, e)[n + 1] = e
  BY <1>3, AppendProperties
<1>7. \A i \in 1 .. n + 1 : Append(p, e)[i] = t[i]
  <2>. SUFFICES ASSUME NEW i \in 1 .. n + 1 PROVE Append(p, e)[i] = t[i]
    OBVIOUS
  <2>1. CASE i = n + 1
    BY <1>4, <1>6, <2>1, Zenon
  <2>2. CASE i \in 1 .. n
    BY <1>5, <1>6, <2>2, Zenon
  <2>3. i = n + 1 \/ i \in 1 .. n
    OBVIOUS
  <2>. QED
    BY <2>1, <2>2, <2>3, Zenon
<1>8. Append(p, e) = t
  BY <1>6, <1>7, SeqEqual
<1>. QED
  BY <1>1, <1>2, <1>3, <1>4, <1>8, Zenon

(* Two sequences flattened one behind the other.                           *)
LEMMA FlattenConcat ==
  ASSUME NEW S, NEW s \in Seq(Seq(S)), NEW t \in Seq(Seq(S))
  PROVE  FlattenSeq(s \o t) = FlattenSeq(s) \o FlattenSeq(t)
<1> DEFINE Holds(u) == FlattenSeq(s \o u) = FlattenSeq(s) \o FlattenSeq(u)
           T == { n \in Nat : \A u \in Seq(Seq(S)) : Len(u) = n => Holds(u) }
<1>0. FlattenSeq(s) \in Seq(S)
  BY FlattenType
<1>5. \A a, b, c \in Seq(Seq(S)) : (a \o b) \o c = a \o (b \o c)
  <2>. SUFFICES ASSUME NEW a \in Seq(Seq(S)), NEW b \in Seq(Seq(S)), NEW c \in Seq(Seq(S))
                PROVE  (a \o b) \o c = a \o (b \o c)
    OBVIOUS
  <2>. QED
    BY ConcatAssociative, SMTT(30)
<1>6. \A a, b, c \in Seq(S) : (a \o b) \o c = a \o (b \o c)
  <2>. SUFFICES ASSUME NEW a \in Seq(S), NEW b \in Seq(S), NEW c \in Seq(S)
                PROVE  (a \o b) \o c = a \o (b \o c)
    OBVIOUS
  <2>. QED
    BY ConcatAssociative, SMTT(30)
<1>1. 0 \in T
  <2>. SUFFICES ASSUME NEW u \in Seq(Seq(S)), Len(u) = 0 PROVE Holds(u)
    OBVIOUS
  <2>1. u = <<>>
    BY EmptySeq
  <2>2. s \o <<>> = s
    BY ConcatEmptySeq
  <2>3. FlattenSeq(s) \o <<>> = FlattenSeq(s)
    BY <1>0, ConcatEmptySeq
  <2>. QED
    BY <2>1, <2>2, <2>3, FlattenNone, Zenon
<1>2. ASSUME NEW n \in Nat, n \in T PROVE n + 1 \in T
  <2>. SUFFICES ASSUME NEW u \in Seq(Seq(S)), Len(u) = n + 1 PROVE Holds(u)
    OBVIOUS
  <2>1. PICK v \in Seq(Seq(S)), e \in Seq(S) : Len(v) = n /\ u = Append(v, e)
    <3>1. /\ SubSeq(u, 1, n) \in Seq(Seq(S)) /\ Len(SubSeq(u, 1, n)) = n
          /\ u[n + 1] \in Seq(S)
          /\ u = Append(SubSeq(u, 1, n), u[n + 1])
      BY LastApart
    <3>. QED
      BY <3>1, Zenon
  <2>2. FlattenSeq(s \o v) = FlattenSeq(s) \o FlattenSeq(v)
    BY <1>2, <2>1
  <2>3. s \o u = Append(s \o v, e)
    <3>1. <<e>> \in Seq(Seq(S)) /\ s \o v \in Seq(Seq(S))
      BY ConcatProperties
    <3>2. Append(s \o v, e) = (s \o v) \o <<e>> /\ Append(v, e) = v \o <<e>>
      BY <3>1, AppendIsConcat
    <3>3. (s \o v) \o <<e>> = s \o (v \o <<e>>)
      BY <1>5, <3>1, ZenonT(60)
    <3>. QED
      BY <2>1, <3>2, <3>3, Zenon
  <2>4. s \o v \in Seq(Seq(S))
    BY ConcatProperties
  <2>5. FlattenSeq(Append(s \o v, e)) = FlattenSeq(s \o v) \o e
    BY <2>4, FlattenAppend
  <2>6. FlattenSeq(Append(v, e)) = FlattenSeq(v) \o e
    BY FlattenAppend
  <2>7. FlattenSeq(v) \in Seq(S)
    BY FlattenType
  <2>8. (FlattenSeq(s) \o FlattenSeq(v)) \o e
          = FlattenSeq(s) \o (FlattenSeq(v) \o e)
    BY <1>0, <1>6, <2>7, Zenon
  <2>. QED
    BY <2>1, <2>2, <2>3, <2>5, <2>6, <2>8, Zenon
<1>. HIDE DEF T
<1>3. Nat \subseteq T
  BY <1>1, <1>2, SetInduction
<1>4. Len(t) \in T
  BY <1>3, LenProperties
<1>. QED
  BY <1>4, Zenon DEF T

(* The first n elements flattened: nothing, one element more, the whole,   *)
(* and each a beginning of the later ones.                                 *)
LEMMA BeginFacts ==
  ASSUME NEW S, NEW s \in Seq(Seq(S))
  PROVE  /\ FlattenSeq(SubSeq(s, 1, 0)) = <<>>
         /\ FlattenSeq(SubSeq(s, 1, Len(s))) = FlattenSeq(s)
         /\ \A n \in 0 .. Len(s) :
              /\ SubSeq(s, 1, n) \in Seq(Seq(S)) /\ Len(SubSeq(s, 1, n)) = n
              /\ FlattenSeq(SubSeq(s, 1, n)) \in Seq(S)
              /\ IsPrefix(FlattenSeq(SubSeq(s, 1, n)), FlattenSeq(s))
<1>1. SubSeq(s, 1, 0) = <<>>
  BY SubSeqEmpty
<1>2. SubSeq(s, 1, Len(s)) = s
  BY SubSeqFull
<1>3. ASSUME NEW n \in 0 .. Len(s)
      PROVE  /\ SubSeq(s, 1, n) \in Seq(Seq(S)) /\ Len(SubSeq(s, 1, n)) = n
             /\ FlattenSeq(SubSeq(s, 1, n)) \in Seq(S)
             /\ IsPrefix(FlattenSeq(SubSeq(s, 1, n)), FlattenSeq(s))
  <2>1. /\ SubSeq(s, 1, n) \in Seq(Seq(S)) /\ Len(SubSeq(s, 1, n)) = n
        /\ SubSeq(s, n + 1, Len(s)) \in Seq(Seq(S))
        /\ SubSeq(s, 1, n) \o SubSeq(s, n + 1, Len(s)) = s
    BY CutInTwo
  <2>2. PICK a \in Seq(Seq(S)), b \in Seq(Seq(S)) :
          a = SubSeq(s, 1, n) /\ a \o b = s
    BY <2>1, Zenon
  <2>3. FlattenSeq(a) \in Seq(S) /\ FlattenSeq(b) \in Seq(S)
    BY FlattenType
  <2>4. FlattenSeq(a \o b) = FlattenSeq(a) \o FlattenSeq(b)
    BY FlattenConcat
  <2>5. IsPrefix(FlattenSeq(a), FlattenSeq(a) \o FlattenSeq(b))
    BY <2>3, PrefixOfConcat
  <2>. QED
    BY <2>1, <2>2, <2>3, <2>4, <2>5, Zenon
<1>. QED
  BY <1>1, <1>2, <1>3, FlattenNone, Zenon

LEMMA BeginNext ==
  ASSUME NEW S, NEW s \in Seq(S), NEW n \in Nat, n < Len(s)
  PROVE  SubSeq(s, 1, n + 1) = Append(SubSeq(s, 1, n), s[n + 1])
<1>1. n + 1 \in 0 .. Len(s) /\ n \in 0 .. Len(s)
  BY LenProperties
<1>2. SubSeq(s, 1, n + 1) \in Seq(S) /\ Len(SubSeq(s, 1, n + 1)) = n + 1
  BY <1>1, CutInTwo
<1>3. PICK t \in Seq(S) : t = SubSeq(s, 1, n + 1) /\ Len(t) = n + 1
  BY <1>2, Zenon
<1>4. t = Append(SubSeq(t, 1, n), t[n + 1])
  BY <1>3, LastApart
<1>5. t[n + 1] = s[n + 1]
  BY <1>1, <1>3
<1>6. SubSeq(t, 1, n) = SubSeq(s, 1, n)
  <2>1. SubSeq(t, 1, n) \in Seq(S) /\ Len(SubSeq(t, 1, n)) = n
    BY <1>3, LastApart
  <2>2. SubSeq(s, 1, n) \in Seq(S) /\ Len(SubSeq(s, 1, n)) = n
    BY <1>1, CutInTwo
  <2>3. \A i \in 1 .. n : SubSeq(t, 1, n)[i] = SubSeq(s, 1, n)[i]
    BY <1>1, <1>3
  <2>. QED
    BY <2>1, <2>2, <2>3, SeqEqual
<1>. QED
  BY <1>3, <1>4, <1>5, <1>6, Zenon

LEMMA BeginFlattenNext ==
  ASSUME NEW S, NEW s \in Seq(Seq(S)), NEW n \in Nat, n < Len(s)
  PROVE  FlattenSeq(SubSeq(s, 1, n + 1))
           = FlattenSeq(SubSeq(s, 1, n)) \o s[n + 1]
<1>1. SubSeq(s, 1, n + 1) = Append(SubSeq(s, 1, n), s[n + 1])
  BY BeginNext
<1>2. SubSeq(s, 1, n) \in Seq(Seq(S))
  <2>1. n \in 0 .. Len(s)
    BY LenProperties
  <2>. QED
    BY <2>1, CutInTwo
<1>3. s[n + 1] \in Seq(S)
  <2>1. n + 1 \in 1 .. Len(s)
    BY LenProperties
  <2>. QED
    BY <2>1
<1>4. FlattenSeq(Append(SubSeq(s, 1, n), s[n + 1]))
        = FlattenSeq(SubSeq(s, 1, n)) \o s[n + 1]
  BY <1>2, <1>3, FlattenAppend
<1>. QED
  BY <1>1, <1>4, Zenon

(* The same, element by element.                                           *)
LEMMA BeginIs ==
  ASSUME NEW S, NEW s \in Seq(S), NEW n \in 0 .. Len(s)
  PROVE  [i \in 1 .. n |-> s[i]] = SubSeq(s, 1, n)
<1>1. PICK l \in Nat : l = Len(s)
  BY LenProperties
<1>2. SubSeq(s, 1, n) \in Seq(S) /\ Len(SubSeq(s, 1, n)) = n
  BY CutInTwo
<1>3. \A i \in 1 .. n : SubSeq(s, 1, n)[i] = s[i]
  BY <1>1
<1>4. \A i \in 1 .. n : s[i] \in S
  BY <1>1
<1>. HIDE <1>1
<1>5. n \in Nat
  BY <1>1
<1>6. [i \in 1 .. n |-> s[i]] \in Seq(S) /\ Len([i \in 1 .. n |-> s[i]]) = n
  BY <1>4, <1>5
<1>7. \A i \in 1 .. n : [j \in 1 .. n |-> s[j]][i] = SubSeq(s, 1, n)[i]
  BY <1>3
<1>. QED
  BY <1>2, <1>6, <1>7, SeqEqual

(* More elements flatten to no less.                                       *)
LEMMA BeginsGrow ==
  ASSUME NEW S, NEW s \in Seq(Seq(S)),
         NEW m \in 0 .. Len(s), NEW n \in 0 .. Len(s), m <= n
  PROVE  Len(FlattenSeq(SubSeq(s, 1, m))) <= Len(FlattenSeq(SubSeq(s, 1, n)))
<1>1. PICK l \in Nat : l = Len(s)
  BY LenProperties
<1>2. SubSeq(s, 1, n) \in Seq(Seq(S)) /\ Len(SubSeq(s, 1, n)) = n
  BY CutInTwo
<1>3. PICK u \in Seq(Seq(S)) : u = SubSeq(s, 1, n) /\ Len(u) = n
  BY <1>2, Zenon
<1>4. m \in 0 .. Len(u)
  BY <1>1, <1>3
<1>5. SubSeq(u, 1, m) = SubSeq(s, 1, m)
  <2>1. SubSeq(u, 1, m) \in Seq(Seq(S)) /\ Len(SubSeq(u, 1, m)) = m
    BY <1>4, CutInTwo
  <2>2. SubSeq(s, 1, m) \in Seq(Seq(S)) /\ Len(SubSeq(s, 1, m)) = m
    BY CutInTwo
  <2>3. \A i \in 1 .. m : SubSeq(u, 1, m)[i] = SubSeq(s, 1, m)[i]
    BY <1>1, <1>3
  <2>. QED
    BY <2>1, <2>2, <2>3, SeqEqual
<1>6. /\ FlattenSeq(SubSeq(u, 1, m)) \in Seq(S)
      /\ IsPrefix(FlattenSeq(SubSeq(u, 1, m)), FlattenSeq(u))
      /\ FlattenSeq(u) \in Seq(S)
  BY <1>4, BeginFacts, FlattenType
<1>7. Len(FlattenSeq(SubSeq(u, 1, m))) <= Len(FlattenSeq(u))
  BY <1>6, PrefixIs
<1>. QED
  BY <1>3, <1>5, <1>7, Zenon

------------------------------------------------------------------------------
(* Cancelling.                                                             *)

LEMMA SameBeginning ==
  ASSUME NEW S, NEW a \in Seq(S), NEW b \in Seq(S), NEW w \in Seq(S),
         IsPrefix(a, w), IsPrefix(b, w), Len(a) = Len(b)
  PROVE  a = b
<1>1. /\ \A i \in 1 .. Len(a) : a[i] = w[i]
      /\ \A i \in 1 .. Len(b) : b[i] = w[i]
  BY PrefixIs
<1>. QED
  BY <1>1, SeqEqual

LEMMA SameEnd ==
  ASSUME NEW S, NEW a \in Seq(S), NEW b \in Seq(S), NEW c \in Seq(S),
         a \o b = a \o c
  PROVE  b = c
<1>1. PICK n \in Nat, k \in Nat, l \in Nat : n = Len(a) /\ k = Len(b) /\ l = Len(c)
  BY LenProperties
<1>2. /\ Len(a \o b) = n + k
      /\ \A i \in 1 .. n + k : (a \o b)[i] = IF i <= n THEN a[i] ELSE b[i - n]
  BY <1>1, ConcatProperties
<1>3. /\ Len(a \o c) = n + l
      /\ \A i \in 1 .. n + l : (a \o c)[i] = IF i <= n THEN a[i] ELSE c[i - n]
  BY <1>1, ConcatProperties
<1>4. k = l
  <2>1. n + k = n + l
    BY <1>2, <1>3, Zenon
  <2>. QED
    BY <2>1
<1>5. ASSUME NEW i \in 1 .. k PROVE b[i] = c[i]
  <2>1. n + i \in 1 .. n + k /\ ~(n + i <= n) /\ (n + i) - n = i
    OBVIOUS
  <2>2. (a \o b)[n + i] = b[i]
    BY <1>2, <2>1
  <2>3. (a \o c)[n + i] = c[i]
    BY <1>3, <1>4, <2>1
  <2>. QED
    BY <2>2, <2>3, Zenon
<1>. QED
  BY <1>1, <1>4, <1>5, SeqEqual
=============================================================================
