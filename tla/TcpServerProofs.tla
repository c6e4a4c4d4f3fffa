--------------------------- MODULE TcpServerProofs ---------------------------
(***************************************************************************)
(* Proofs about one listener and its connections: the theorems hold for    *)
(* any finite set of peers, any limit and any number of ids.               *)
(***************************************************************************)
EXTENDS TcpServer, FiniteSetTheorems, SequenceTheorems, TLAPS

------------------------------------------------------------------------------
(* Arithmetic of a counter that wraps.                                     *)

LEMMA DivMod ==
  ASSUME NEW n \in Nat \ {0}, NEW a \in Nat
  PROVE  /\ a \div n \in Nat
         /\ a % n \in 0 .. n - 1
         /\ a = n * (a \div n) + (a % n)
OBVIOUS

(* Less than n apart and not equal: different remainders.                  *)
LEMMA DistinctRemainders ==
  ASSUME NEW n \in Nat \ {0}, NEW a \in Nat, NEW b \in Nat,
         a < b, b - a < n
  PROVE  a % n # b % n
<1>. SUFFICES ASSUME a % n = b % n PROVE FALSE
  OBVIOUS
<1> DEFINE k == (b \div n) - (a \div n)
<1>1. k \in Int /\ b - a = n * k
  BY DivMod
<1> HIDE DEF k
<1>2. CASE k <= 0
  <2>1. n * k <= 0
    BY <1>1, <1>2
  <2>. QED
    BY <1>1, <2>1
<1>3. CASE k >= 1
  <2>1. n * k >= n
    BY <1>1, <1>3
  <2>. QED
    BY <1>1, <2>1
<1>. QED
  BY <1>1, <1>2, <1>3

(* A remainder is what its quotient leaves.                                *)
LEMMA RemainderUnique ==
  ASSUME NEW n \in Nat \ {0}, NEW q \in Nat, NEW r \in 0 .. n - 1
  PROVE  (n * q + r) % n = r
<1> DEFINE a == n * q + r
           k == (a \div n) - q
<1>1. a \in Nat
  OBVIOUS
<1>2. k \in Int /\ n * k = r - (a % n) /\ a % n \in 0 .. n - 1
  <2> DEFINE d == a \div n
             m == a % n
  <2>1. d \in Nat /\ m \in 0 .. n - 1 /\ n * q + r = n * d + m
    BY <1>1, DivMod
  <2> HIDE DEF d, m
  <2>2. n * (d - q) = n * d - n * q
    BY <2>1
  <2>3. n * q \in Int /\ n * d \in Int
    BY <2>1
  <2>4. d - q \in Int /\ n * (d - q) = r - m
    BY <2>1, <2>2, <2>3
  <2>. QED
    BY <2>1, <2>4 DEF d, m
<1> HIDE DEF a, k
<1>3. k = 0
  <2>1. k >= 1 => n * k >= n
    BY <1>2
  <2>2. k <= -1 => n * k <= -n
    BY <1>2
  <2>. QED
    BY <1>2, <2>1, <2>2
<1>. QED
  BY <1>2, <1>3 DEF a

(* Counting modulo n.                                                      *)
LEMMA NextRemainder ==
  ASSUME NEW n \in Nat \ {0}, NEW a \in Nat
  PROVE  ((a % n) + 1) % n = (a + 1) % n
<1> DEFINE q == a \div n
           r == a % n
<1>1. q \in Nat /\ r \in 0 .. n - 1 /\ a = n * q + r
  BY DivMod
<1> HIDE DEF q, r
<1>2. CASE r + 1 < n
  <2>1. (n * q + (r + 1)) % n = r + 1
    BY <1>1, <1>2, RemainderUnique
  <2>2. (n * 0 + (r + 1)) % n = r + 1
    BY <1>1, <1>2, RemainderUnique
  <2>3. a + 1 = n * q + (r + 1) /\ n * 0 + (r + 1) = r + 1
    BY <1>1
  <2>. QED
    BY <2>1, <2>2, <2>3 DEF r
<1>3. CASE r + 1 = n
  <2>1. (n * (q + 1) + 0) % n = 0
    BY <1>1, RemainderUnique
  <2>2. (n * 1 + 0) % n = 0
    BY RemainderUnique
  <2>3. a + 1 = n * (q + 1) + 0 /\ r + 1 = n * 1 + 0
    BY <1>1, <1>3
  <2>. QED
    BY <2>1, <2>2, <2>3 DEF r
<1>. QED
  BY <1>1, <1>2, <1>3

------------------------------------------------------------------------------
(* Type correctness.                                                       *)

Phases == Outside \cup Inside \cup Gone

LEMMA BecomesType ==
  ASSUME phase \in [Conns -> Phases], NEW c \in Conns, NEW p \in Phases,
         Becomes(c, p)
  PROVE  phase' \in [Conns -> Phases]
BY DEF Becomes

LEMMA TypeStep == TypeOK /\ [Next]_vars => TypeOK'
<1>. SUFFICES ASSUME TypeOK, [Next]_vars PROVE TypeOK'
  OBVIOUS
<1>. USE ServerAssumption DEF Phases, Outside, Inside, LiveHandle, Gone
<1>1. ASSUME NEW c \in Conns, Connect(c) PROVE TypeOK'
  BY <1>1, BecomesType DEF Connect, TypeOK
<1>2. ASSUME NEW c \in Conns, RefuseAtLimit(c) PROVE TypeOK'
  BY <1>2, BecomesType DEF RefuseAtLimit, TypeOK
<1>3. ASSUME NEW c \in Conns, Accept(c) PROVE TypeOK'
  <2>1. phase' \in [Conns -> Phases]
    BY <1>3, BecomesType DEF Accept, TypeOK
  <2>2. NextId(conn_id_counter_) \in 0 .. IdSpace - 1
    BY DivMod DEF NextId, TypeOK
  <2>3. order' \in Seq(Conns)
    BY <1>3, AppendProperties DEF Accept, TypeOK
  <2>4. conn_id_' \in [Conns -> 0 .. IdSpace - 1]
    BY <1>3 DEF Accept, TypeOK
  <2>. QED
    BY <1>3, <2>1, <2>2, <2>3, <2>4 DEF Accept, CountedOn, TypeOK
<1>4. ASSUME NEW c \in Conns, AcceptFails(c) PROVE TypeOK'
  BY <1>4, BecomesType DEF AcceptFails, TypeOK
<1>5. ASSUME NEW c \in Conns, NEW from, NEW to \in Phases, Unseen(c, from, to)
      PROVE  TypeOK'
  BY <1>5, BecomesType DEF Unseen, TypeOK
<1>6. ASSUME NEW c \in Conns,
             \/ CloseAtOnce(c) \/ DeferClose(c) \/ QueueDrained(c)
             \/ ReadEnds(c) \/ HandleDropped(c) \/ CloseAgain(c)
      PROVE  TypeOK'
  BY <1>5, <1>6 DEF CloseAtOnce, DeferClose, QueueDrained, ReadEnds,
                    HandleDropped, CloseAgain
<1>7. ASSUME NEW c \in Conns, OnClose(c) PROVE TypeOK'
  BY <1>7, BecomesType DEF OnClose, CountedOff, TypeOK
<1>8. CASE UNCHANGED vars
  BY <1>8 DEF vars, TypeOK
<1>. QED
  BY <1>1, <1>2, <1>3, <1>4, <1>6, <1>7, <1>8 DEF Next

(***************************************************************************)
(* The state keeps its type; in particular the id stays within its width.  *)
(***************************************************************************)
THEOREM TypeCorrect == Spec => []TypeOK
<1>1. Init => TypeOK
  BY ServerAssumption, EmptySeq DEF Init, TypeOK, Outside
<1>. QED
  BY <1>1, TypeStep, PTL DEF Spec

------------------------------------------------------------------------------
(* The count and the limit.                                                *)

(* What a step of one connection does to a set of phases.                  *)
LEMMA MoveWithin ==
  ASSUME TypeOK, NEW c \in Conns, NEW p, NEW S, Becomes(c, p),
         phase[c] \in S <=> p \in S
  PROVE  In(S)' = In(S)
BY DEF In, Becomes, TypeOK

LEMMA MoveIn ==
  ASSUME TypeOK, NEW c \in Conns, NEW p, NEW S, Becomes(c, p),
         phase[c] \notin S, p \in S
  PROVE  /\ In(S)' = In(S) \cup {c} /\ c \notin In(S)
         /\ IsFiniteSet(In(S)) /\ Cardinality(In(S)') = Cardinality(In(S)) + 1
<1>1. In(S)' = In(S) \cup {c} /\ c \notin In(S)
  BY DEF In, Becomes, TypeOK
<1>2. IsFiniteSet(In(S))
  BY ServerAssumption, FS_Subset DEF In
<1>. QED
  BY <1>1, <1>2, FS_AddElement

LEMMA MoveOut ==
  ASSUME TypeOK, NEW c \in Conns, NEW p, NEW S, Becomes(c, p),
         phase[c] \in S, p \notin S
  PROVE  /\ In(S)' = In(S) \ {c} /\ c \in In(S)
         /\ IsFiniteSet(In(S)) /\ Cardinality(In(S)') = Cardinality(In(S)) - 1
<1>1. In(S)' = In(S) \ {c} /\ c \in In(S)
  BY DEF In, Becomes, TypeOK
<1>2. IsFiniteSet(In(S))
  BY ServerAssumption, FS_Subset DEF In
<1>. QED
  BY <1>1, <1>2, FS_RemoveElement

(***************************************************************************)
(* The count is exact, and at most the limit: that is inductive, and there *)
(* are no more open handles than objects.                                  *)
(***************************************************************************)
CountInv == CountMatchesObjects /\ current_connections_ <= MaxConnections

LEMMA CountStep == TypeOK /\ CountInv /\ [Next]_vars => CountInv'
<1>. SUFFICES ASSUME TypeOK, CountInv, [Next]_vars PROVE CountInv'
  OBVIOUS
<1>. USE ServerAssumption
<1>1. ASSUME In(Inside)' = In(Inside), UNCHANGED current_connections_
      PROVE  CountInv'
  BY <1>1 DEF CountInv, CountMatchesObjects
<1>2. ASSUME NEW c \in Conns, Connect(c) \/ RefuseAtLimit(c) \/ AcceptFails(c)
      PROVE  CountInv'
  <2>1. /\ phase[c] \in Outside
        /\ \E p \in Outside : Becomes(c, p)
        /\ UNCHANGED current_connections_
    BY <1>2 DEF Connect, RefuseAtLimit, AcceptFails, Polls, Outside
  <2>2. In(Inside)' = In(Inside)
    BY <2>1, MoveWithin DEF Outside, Inside, LiveHandle
  <2>. QED
    BY <1>1, <2>1, <2>2
<1>3. ASSUME NEW c \in Conns, Accept(c) PROVE CountInv'
  <2>1. phase[c] = "backlog" /\ Becomes(c, "open")
    BY <1>3 DEF Accept, Polls
  <2>2. Cardinality(In(Inside)') = Cardinality(In(Inside)) + 1
    BY <2>1, MoveIn DEF Inside, LiveHandle
  <2>3. /\ current_connections_' = current_connections_ + 1
        /\ ~(current_connections_ >= MaxConnections)
        /\ current_connections_ \in Nat
    BY <1>3 DEF Accept, CountedOn, LimitReached, TypeOK
  <2>. QED
    BY <2>2, <2>3 DEF CountInv, CountMatchesObjects
<1>4. ASSUME NEW c \in Conns,
             \/ CloseAtOnce(c) \/ DeferClose(c) \/ QueueDrained(c)
             \/ ReadEnds(c) \/ HandleDropped(c) \/ CloseAgain(c)
      PROVE  CountInv'
  <2>1. /\ phase[c] \in Inside
        /\ \E p \in Inside : Becomes(c, p)
        /\ UNCHANGED current_connections_
    BY <1>4 DEF CloseAtOnce, DeferClose, QueueDrained, ReadEnds, HandleOpen,
                HandleDropped, CloseAgain, Unseen, Inside, LiveHandle
  <2>2. In(Inside)' = In(Inside)
    BY <2>1, MoveWithin
  <2>. QED
    BY <1>1, <2>1, <2>2
<1>5. ASSUME NEW c \in Conns, OnClose(c) PROVE CountInv'
  <2>1. phase[c] = "closing" /\ Becomes(c, "deleted")
    BY <1>5 DEF OnClose
  <2>2. /\ c \in In(Inside) /\ IsFiniteSet(In(Inside))
        /\ Cardinality(In(Inside)') = Cardinality(In(Inside)) - 1
    BY <2>1, MoveOut DEF Inside, LiveHandle
  <2>3. Cardinality(In(Inside)) > 0
    BY <2>2, FS_EmptySet, FS_CardinalityType
  <2>4. current_connections_' = current_connections_ - 1
    BY <1>5, <2>3 DEF OnClose, CountedOff, CountInv, CountMatchesObjects
  <2>. QED
    BY <2>2, <2>4 DEF CountInv, CountMatchesObjects, TypeOK
<1>6. CASE UNCHANGED vars
  BY <1>1, <1>6 DEF vars, In
<1>. QED
  BY <1>2, <1>3, <1>4, <1>5, <1>6 DEF Next

LEMMA InitCount == Init => CountInv
<1>. SUFFICES ASSUME Init PROVE CountInv
  OBVIOUS
<1>1. In(Inside) = {}
  BY DEF Init, In, Inside, LiveHandle
<1>. QED
  BY <1>1, FS_EmptySet, ServerAssumption DEF Init, CountInv, CountMatchesObjects

(***************************************************************************)
(* The count is the number of connections accepted and not yet reported.   *)
(***************************************************************************)
THEOREM CountIsExact == Spec => []CountMatchesObjects
<1>1. CountInv => CountMatchesObjects
  BY DEF CountInv
<1>. QED
  BY <1>1, InitCount, CountStep, TypeCorrect, PTL DEF Spec

(***************************************************************************)
(* The limit holds for the handles that are open.                          *)
(***************************************************************************)
THEOREM LimitHolds == Spec => []LimitRespected
<1>1. TypeOK /\ CountInv => LimitRespected
  <2>. SUFFICES ASSUME TypeOK, CountInv PROVE LimitRespected
    OBVIOUS
  <2>1. IsFiniteSet(In(Inside)) /\ In(LiveHandle) \in SUBSET In(Inside)
    BY ServerAssumption, FS_Subset DEF In, Inside
  <2>2. /\ Cardinality(In(LiveHandle)) <= Cardinality(In(Inside))
        /\ Cardinality(In(LiveHandle)) \in Nat
    BY <2>1, FS_Subset, FS_CardinalityType
  <2>. QED
    BY <2>2, ServerAssumption
       DEF CountInv, CountMatchesObjects, LimitRespected, TypeOK
<1>. QED
  BY <1>1, InitCount, CountStep, TypeCorrect, PTL DEF Spec

(***************************************************************************)
(* A peer is refused only while MaxConnections connections have been       *)
(* accepted and not reported closed, for any number of peers that come and *)
(* go before: the count the callback looks at is that of the objects.      *)
(***************************************************************************)
THEOREM RefusalsAreDue == Spec => RefusedOnlyAtLimit
<1>1. ASSUME TypeOK, CountInv, [Next]_vars,
             NEW c \in Conns, phase[c] = "backlog", phase'[c] = "held"
      PROVE  Cardinality(In(Inside)) >= MaxConnections
  <2>1. ASSUME NEW d \in Conns, NEW p, Becomes(d, p)
        PROVE  d = c /\ p = "held"
    <3>1. d # c => phase'[c] = phase[c]
      BY <1>1, <2>1 DEF Becomes, TypeOK
    <3>2. d = c => phase'[c] = p
      BY <1>1, <2>1 DEF Becomes, TypeOK
    <3>. QED
      BY <1>1, <3>1, <3>2
  <2>2. PICK d \in Conns : RefuseAtLimit(d)
    <3>1. phase' # phase
      BY <1>1
    <3>2. PICK d \in Conns :
            \/ Connect(d)
            \/ RefuseAtLimit(d) \/ Accept(d) \/ AcceptFails(d)
            \/ CloseAtOnce(d) \/ DeferClose(d) \/ QueueDrained(d)
            \/ ReadEnds(d) \/ HandleDropped(d) \/ CloseAgain(d)
            \/ OnClose(d)
      BY <1>1, <3>1 DEF Next, vars
    <3>3. RefuseAtLimit(d) \/ \E p \in {"backlog", "open", "rejected", "closing",
                                "draining", "dropping", "dropped", "aborted",
                                "deleted"} : Becomes(d, p)
      BY <3>2 DEF Connect, Accept, AcceptFails, CloseAtOnce, DeferClose,
                  QueueDrained, ReadEnds, HandleDropped, CloseAgain, OnClose,
                  Unseen
    <3>. QED
      BY <2>1, <3>3
  <2>. QED
    BY <1>1, <2>2 DEF RefuseAtLimit, LimitReached, CountInv, CountMatchesObjects
<1>2. TypeOK /\ CountInv /\ [Next]_vars
        => [\A c \in Conns : phase[c] = "backlog" /\ phase'[c] = "held"
                               => Cardinality(In(Inside)) >= MaxConnections]_vars
  BY <1>1
<1>. QED
  BY <1>2, InitCount, CountStep, TypeCorrect, PTL DEF Spec, RefusedOnlyAtLimit

------------------------------------------------------------------------------
(***************************************************************************)
(* Ids.  The n-th connection accepted has the id n - 1 modulo IdSpace; it  *)
(* stays so because no peer is accepted twice.                             *)
(***************************************************************************)
IdInv ==
  /\ conn_id_counter_ = Len(order) % IdSpace
  /\ \A i \in 1 .. Len(order) :
       /\ conn_id_[order[i]] = (i - 1) % IdSpace
       /\ phase[order[i]] \notin Outside

LEMMA IdStep == TypeOK /\ IdInv /\ [Next]_vars => IdInv'
<1>. SUFFICES ASSUME TypeOK, IdInv, [Next]_vars PROVE IdInv'
  OBVIOUS
<1>. USE ServerAssumption
<1>0. order \in Seq(Conns) /\ Len(order) \in Nat
  BY LenProperties DEF TypeOK
<1>1. ASSUME NEW c \in Conns, NEW p, Becomes(c, p),
             phase[c] \in Outside \/ p \notin Outside,
             UNCHANGED <<conn_id_counter_, conn_id_, order>>
      PROVE  IdInv'
  <2>1. ASSUME NEW i \in 1 .. Len(order)
        PROVE  phase'[order[i]] \notin Outside
    <3>1. order[i] \in Conns
      BY <1>0, ElementOfSeq
    <3>2. phase[order[i]] \notin Outside
      BY DEF IdInv
    <3>. QED
      BY <1>1, <3>1, <3>2 DEF Becomes, TypeOK
  <2>. QED
    BY <1>1, <2>1 DEF IdInv
<1>2. ASSUME NEW c \in Conns, Accept(c) PROVE IdInv'
  <2>1. /\ phase[c] = "backlog" /\ Becomes(c, "open")
        /\ conn_id_' = [conn_id_ EXCEPT ![c] = conn_id_counter_]
        /\ conn_id_counter_' = NextId(conn_id_counter_)
        /\ order' = Append(order, c)
    BY <1>2 DEF Accept, Polls
  <2>2. /\ Len(order') = Len(order) + 1
        /\ order'[Len(order) + 1] = c
        /\ \A i \in 1 .. Len(order) : order'[i] = order[i]
    BY <1>0, <2>1, AppendProperties
  <2>3. conn_id_counter_' = Len(order') % IdSpace
    <3>1. ((Len(order) % IdSpace) + 1) % IdSpace = (Len(order) + 1) % IdSpace
      BY <1>0, NextRemainder
    <3>. QED
      BY <2>1, <2>2, <3>1 DEF IdInv, NextId
  <2>4. ASSUME NEW i \in 1 .. Len(order)
        PROVE  /\ conn_id_'[order'[i]] = (i - 1) % IdSpace
               /\ phase'[order'[i]] \notin Outside
    <3>1. order'[i] = order[i] /\ order[i] \in Conns
      BY <1>0, <2>2, ElementOfSeq
    <3>2. order[i] # c
      BY <2>1 DEF IdInv, Outside
    <3>3. /\ conn_id_'[order[i]] = conn_id_[order[i]]
          /\ phase'[order[i]] = phase[order[i]]
      BY <2>1, <3>1, <3>2 DEF Becomes, TypeOK
    <3>. QED
      BY <3>1, <3>3 DEF IdInv
  <2>5. /\ conn_id_'[order'[Len(order) + 1]] = Len(order) % IdSpace
        /\ phase'[order'[Len(order) + 1]] \notin Outside
    BY <2>1, <2>2 DEF IdInv, Becomes, TypeOK, Outside
  <2>6. ASSUME NEW i \in 1 .. Len(order')
        PROVE  /\ conn_id_'[order'[i]] = (i - 1) % IdSpace
               /\ phase'[order'[i]] \notin Outside
    <3>1. CASE i \in 1 .. Len(order)
      BY <2>4, <3>1
    <3>2. CASE i = Len(order) + 1
      <4>1. i - 1 = Len(order)
        BY <1>0, <3>2
      <4>. QED
        BY <2>5, <3>2, <4>1
    <3>. QED
      BY <1>0, <2>2, <3>1, <3>2
  <2>. QED
    BY <2>3, <2>6 DEF IdInv
<1>3. ASSUME NEW c \in Conns, Connect(c) \/ RefuseAtLimit(c) \/ AcceptFails(c)
      PROVE  IdInv'
  <2>1. /\ phase[c] \in Outside
        /\ \E p : Becomes(c, p)
        /\ UNCHANGED <<conn_id_counter_, conn_id_, order>>
    BY <1>3 DEF Connect, RefuseAtLimit, AcceptFails, Polls, Outside
  <2>. QED
    BY <1>1, <2>1
<1>4. ASSUME NEW c \in Conns,
             \/ CloseAtOnce(c) \/ DeferClose(c) \/ QueueDrained(c)
             \/ ReadEnds(c) \/ HandleDropped(c) \/ CloseAgain(c) \/ OnClose(c)
      PROVE  IdInv'
  <2>1. /\ \E p : Becomes(c, p) /\ p \notin Outside
        /\ UNCHANGED <<conn_id_counter_, conn_id_, order>>
    BY <1>4 DEF CloseAtOnce, DeferClose, QueueDrained, ReadEnds, HandleDropped,
                CloseAgain, OnClose, Unseen, Outside
  <2>. QED
    BY <1>1, <2>1
<1>5. CASE UNCHANGED vars
  BY <1>5 DEF vars, IdInv
<1>. QED
  BY <1>2, <1>3, <1>4, <1>5 DEF Next

(***************************************************************************)
(* Any IdSpace connections accepted in a row have different ids.           *)
(***************************************************************************)
THEOREM IdsDistinct == Spec => []IdsDistinctInWindow
<1>1. Init => IdInv
  <2>. SUFFICES ASSUME Init PROVE IdInv
    OBVIOUS
  <2>1. (IdSpace * 0 + 0) % IdSpace = 0
    BY ServerAssumption, RemainderUnique
  <2>2. Len(order) = 0 /\ IdSpace * 0 + 0 = 0
    BY ServerAssumption DEF Init
  <2>. QED
    BY <2>1, <2>2 DEF Init, IdInv
<1>2. TypeOK /\ IdInv => IdsDistinctInWindow
  <2>. SUFFICES ASSUME TypeOK, IdInv,
                       NEW i \in 1 .. Len(order), NEW j \in 1 .. Len(order),
                       i < j, j - i < IdSpace
                PROVE  conn_id_[order[i]] # conn_id_[order[j]]
    BY DEF IdsDistinctInWindow
  <2>1. Len(order) \in Nat
    BY LenProperties DEF TypeOK
  <2>2. (i - 1) \in Nat /\ (j - 1) \in Nat /\ i - 1 < j - 1
        /\ (j - 1) - (i - 1) < IdSpace
    BY <2>1, ServerAssumption
  <2>3. (i - 1) % IdSpace # (j - 1) % IdSpace
    BY <2>2, ServerAssumption, DistinctRemainders
  <2>. QED
    BY <2>3 DEF IdInv
<1>. QED
  BY <1>1, <1>2, IdStep, TypeCorrect, PTL DEF Spec
=============================================================================
