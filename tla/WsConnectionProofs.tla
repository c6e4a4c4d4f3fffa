------------------------- MODULE WsConnectionProofs -------------------------
(***************************************************************************)
(* Proofs about the WebSocket connection: the theorems hold for any set of *)
(* messages, any length of the send queue and any number of sends, control *)
(* frames and handshakes.                                                  *)
(***************************************************************************)
EXTENDS WsConnection, SequenceLemmas

------------------------------------------------------------------------------
(* The members of a queue that are in a set.                               *)

Picks(q, S) == [i \in DOMAIN q |-> IF q[i] \in S THEN <<q[i]>> ELSE <<>>]

LEMMA PicksType ==
  ASSUME NEW U, NEW q \in Seq(U), NEW S
  PROVE  Picks(q, S) \in Seq(Seq(S)) /\ Len(Picks(q, S)) = Len(q)
<1>1. DOMAIN q = 1 .. Len(q) /\ Len(q) \in Nat
  BY LenProperties
<1>2. ASSUME NEW i \in DOMAIN q
      PROVE  (IF q[i] \in S THEN <<q[i]>> ELSE <<>>) \in Seq(S)
  <2>1. CASE q[i] \in S
    BY <2>1
  <2>2. CASE q[i] \notin S
    BY <2>2, Nothing
  <2>. QED
    BY <2>1, <2>2
<1>3. Picks(q, S) \in [1 .. Len(q) -> Seq(S)]
  BY <1>1, <1>2 DEF Picks
<1>. QED
  BY <1>1, <1>3

LEMMA OnlyType ==
  ASSUME NEW U, NEW q \in Seq(U), NEW S
  PROVE  Only(q, S) \in Seq(S)
<1>1. Only(q, S) = FlattenSeq(Picks(q, S))
  BY Zenon DEF Only, Picks
<1>. QED
  BY <1>1, PicksType, FlattenType

LEMMA OnlyNone == ASSUME NEW S PROVE Only(<<>>, S) = <<>>
<1>1. [i \in DOMAIN <<>> |-> IF <<>>[i] \in S THEN << <<>>[i] >> ELSE <<>>] = <<>>
  OBVIOUS
<1>. QED
  BY <1>1, FlattenNone DEF Only

LEMMA OnlyAppend ==
  ASSUME NEW U, NEW q \in Seq(U), NEW e \in U, NEW S
  PROVE  /\ e \in S => Only(Append(q, e), S) = Append(Only(q, S), e)
         /\ e \notin S => Only(Append(q, e), S) = Only(q, S)
<1>1. PICK n \in Nat : n = Len(q)
  BY LenProperties
<1>2. PICK p : p = Append(q, e)
  OBVIOUS
<1>3. /\ p \in Seq(U) /\ DOMAIN p = 1 .. n + 1 /\ p[n + 1] = e
      /\ DOMAIN q = 1 .. n /\ \A i \in 1 .. n : p[i] = q[i]
  BY <1>1, <1>2, AppendProperties, LenProperties
<1>4. PICK x : x = IF e \in S THEN <<e>> ELSE <<>>
  OBVIOUS
<1>5. x \in Seq(S)
  <2>1. CASE e \in S
    BY <1>4, <2>1
  <2>2. CASE e \notin S
    BY <1>4, <2>2, Nothing
  <2>. QED
    BY <2>1, <2>2
<1>6. Picks(p, S) = Append(Picks(q, S), x)
  <2>1. PICK a : a = Append(Picks(q, S), x)
    OBVIOUS
  <2>2. /\ a \in Seq(Seq(S)) /\ Len(a) = n + 1 /\ a[n + 1] = x
        /\ \A i \in 1 .. n : a[i] = Picks(q, S)[i]
    <3>1. Picks(q, S) \in Seq(Seq(S)) /\ Len(Picks(q, S)) = n
      BY <1>1, PicksType
    <3>. QED
      BY <1>5, <2>1, <3>1, AppendProperties
  <2>3. Picks(p, S) \in Seq(Seq(S)) /\ Len(Picks(p, S)) = n + 1
    <3>1. Len(p) = n + 1
      BY <1>1, <1>2, AppendProperties
    <3>. QED
      BY <1>3, <3>1, PicksType
  <2>4. ASSUME NEW i \in 1 .. n + 1
        PROVE  Picks(p, S)[i] = a[i]
    <3>1. CASE i = n + 1
      BY <1>3, <1>4, <2>2, <3>1, Zenon DEF Picks
    <3>2. CASE i # n + 1
      <4>1. i \in 1 .. n
        BY <3>2
      <4>2. /\ Picks(p, S)[i] = IF p[i] \in S THEN <<p[i]>> ELSE <<>>
            /\ Picks(q, S)[i] = IF q[i] \in S THEN <<q[i]>> ELSE <<>>
        BY <1>3, <4>1, Zenon DEF Picks
      <4>. QED
        BY <1>3, <2>2, <4>1, <4>2, Zenon
    <3>. QED
      BY <3>1, <3>2
  <2>. QED
    BY <2>1, <2>2, <2>3, <2>4, SeqEqual
<1>7. Only(q, S) = FlattenSeq(Picks(q, S)) /\ Only(p, S) = FlattenSeq(Picks(p, S))
  BY Zenon DEF Only, Picks
<1>8. Only(p, S) = Only(q, S) \o x
  BY <1>5, <1>6, <1>7, PicksType, FlattenAppend
<1>9. CASE e \in S
  BY <1>2, <1>4, <1>8, <1>9, OnlyType, AppendIsConcat
<1>10. CASE e \notin S
  BY <1>2, <1>4, <1>8, <1>10, OnlyType, ConcatEmptySeq
<1>. QED
  BY <1>9, <1>10

LEMMA OnlyHead ==
  ASSUME NEW U, NEW q \in Seq(U), q # <<>>, NEW S
  PROVE  /\ Head(q) \in S => Only(q, S) = <<Head(q)>> \o Only(Tail(q), S)
         /\ Head(q) \notin S => Only(q, S) = Only(Tail(q), S)
<1>1. PICK n \in Nat : n + 1 = Len(q)
  <2>1. Len(q) \in Nat \ {0}
    BY EmptySeq, LenProperties
  <2>2. Len(q) - 1 \in Nat /\ (Len(q) - 1) + 1 = Len(q)
    BY <2>1
  <2>. QED
    BY <2>2
<1>2. PICK p, h : p = Tail(q) /\ h = Head(q)
  OBVIOUS
<1>3. /\ p \in Seq(U) /\ Len(p) = n /\ DOMAIN p = 1 .. n
      /\ DOMAIN q = 1 .. n + 1 /\ q[1] = h /\ \A i \in 1 .. n : p[i] = q[i + 1]
  BY <1>1, <1>2, HeadTailProperties, LenProperties
<1>4. PICK x : x = IF h \in S THEN <<h>> ELSE <<>>
  OBVIOUS
<1>5. /\ Picks(q, S) \in Seq(Seq(S)) /\ Len(Picks(q, S)) = n + 1
      /\ Picks(p, S) \in Seq(Seq(S)) /\ Len(Picks(p, S)) = n
  BY <1>1, <1>3, PicksType
<1>6. Picks(q, S) # <<>> /\ Head(Picks(q, S)) = x
  <2>1. 1 \in 1 .. n + 1
    OBVIOUS
  <2>2. Picks(q, S)[1] = x
    BY <1>3, <1>4, <2>1, Zenon DEF Picks
  <2>3. Picks(q, S) # <<>>
    BY <1>5, EmptySeq
  <2>. QED
    BY <1>5, <2>2, <2>3, HeadTailProperties
<1>7. Tail(Picks(q, S)) = Picks(p, S)
  <2>1. PICK t : t = Tail(Picks(q, S))
    OBVIOUS
  <2>2. /\ t \in Seq(Seq(S)) /\ Len(t) = n
        /\ \A i \in 1 .. n : t[i] = Picks(q, S)[i + 1]
    BY <1>5, <1>6, <2>1, HeadTailProperties
  <2>3. ASSUME NEW i \in 1 .. n
        PROVE  t[i] = Picks(p, S)[i]
    <3>1. i + 1 \in 1 .. n + 1
      OBVIOUS
    <3>2. /\ Picks(q, S)[i + 1] = IF q[i + 1] \in S THEN <<q[i + 1]>> ELSE <<>>
          /\ Picks(p, S)[i] = IF p[i] \in S THEN <<p[i]>> ELSE <<>>
      BY <1>3, <3>1, Zenon DEF Picks
    <3>. QED
      BY <1>3, <2>2, <3>2, Zenon
  <2>. QED
    BY <1>5, <2>1, <2>2, <2>3, SeqEqual
<1>8. Only(q, S) = x \o Only(p, S)
  <2>1. Only(q, S) = FlattenSeq(Picks(q, S)) /\ Only(p, S) = FlattenSeq(Picks(p, S))
    BY Zenon DEF Only, Picks
  <2>2. FlattenSeq(Picks(q, S))
          = Head(Picks(q, S)) \o FlattenSeq(Tail(Picks(q, S)))
    BY <1>5, <1>6, FlattenHead
  <2>. QED
    BY <1>6, <1>7, <2>1, <2>2
<1>9. CASE h \in S
  BY <1>2, <1>4, <1>8, <1>9
<1>10. CASE h \notin S
  <2>1. Only(p, S) \in Seq(S)
    BY <1>3, OnlyType
  <2>2. <<>> \o Only(p, S) = Only(p, S)
    BY <2>1, ConcatEmptySeq
  <2>. QED
    BY <1>2, <1>4, <1>8, <1>10, <2>2
<1>. QED
  BY <1>2, <1>9, <1>10

LEMMA OnlyLength ==
  ASSUME NEW U, NEW q \in Seq(U), NEW S
  PROVE  Len(Only(q, S)) \in Nat /\ Len(Only(q, S)) <= Len(q)
<1> DEFINE T == { n \in Nat : \A p \in Seq(U) : Len(p) = n => Len(Only(p, S)) <= n }
<1>1. 0 \in T
  <2>1. ASSUME NEW p \in Seq(U), Len(p) = 0
        PROVE  Len(Only(p, S)) <= 0
    BY <2>1, EmptySeq, OnlyNone
  <2>. QED
    BY <2>1
<1>2. ASSUME NEW n \in Nat, n \in T PROVE n + 1 \in T
  <2>1. ASSUME NEW p \in Seq(U), Len(p) = n + 1
        PROVE  Len(Only(p, S)) <= n + 1
    <3>1. p # <<>>
      BY <2>1, EmptySeq
    <3>2. Tail(p) \in Seq(U) /\ Len(Tail(p)) = n
      BY <2>1, <3>1, HeadTailProperties
    <3>3. /\ Only(Tail(p), S) \in Seq(S) /\ Len(Only(Tail(p), S)) \in Nat
          /\ Len(Only(Tail(p), S)) <= n
      BY <1>2, <3>2, OnlyType, LenProperties
    <3>4. CASE Head(p) \in S
      <4>1. PICK h \in S : h = Head(p)
        BY <3>4
      <4>2. Only(p, S) = <<h>> \o Only(Tail(p), S)
        BY <3>1, <3>4, <4>1, OnlyHead
      <4>3. <<h>> \in Seq(S) /\ Len(<<h>>) = 1
        OBVIOUS
      <4>4. Len(Only(p, S)) = 1 + Len(Only(Tail(p), S))
        BY <3>3, <4>2, <4>3, ConcatProperties
      <4>. QED
        BY <3>3, <4>4
    <3>5. CASE Head(p) \notin S
      <4>1. Only(p, S) = Only(Tail(p), S)
        BY <3>1, <3>5, OnlyHead
      <4>. QED
        BY <3>3, <4>1
    <3>. QED
      BY <3>4, <3>5
  <2>. QED
    BY <2>1
<1>3. Nat \subseteq T
  <2>. HIDE DEF T
  <2>. QED
    BY <1>1, <1>2, SetInduction
<1>4. Len(q) \in Nat /\ Len(Only(q, S)) \in Nat
  BY LenProperties, OnlyType
<1>. QED
  BY <1>3, <1>4

(* A queue without members of S has none of a smaller set.                 *)
LEMMA OnlyOfFewer ==
  ASSUME NEW U, NEW q \in Seq(U), NEW S, NEW R \in SUBSET S, Only(q, S) = <<>>
  PROVE  Only(q, R) = <<>>
<1> DEFINE T == { n \in Nat : \A p \in Seq(U) :
                    Len(p) = n /\ Only(p, S) = <<>> => Only(p, R) = <<>> }
<1>1. 0 \in T
  <2>1. ASSUME NEW p \in Seq(U), Len(p) = 0
        PROVE  Only(p, R) = <<>>
    BY <2>1, EmptySeq, OnlyNone
  <2>. QED
    BY <2>1
<1>2. ASSUME NEW n \in Nat, n \in T PROVE n + 1 \in T
  <2>1. ASSUME NEW p \in Seq(U), Len(p) = n + 1, Only(p, S) = <<>>
        PROVE  Only(p, R) = <<>>
    <3>1. p # <<>>
      BY <2>1, EmptySeq
    <3>2. Tail(p) \in Seq(U) /\ Len(Tail(p)) = n
      BY <2>1, <3>1, HeadTailProperties
    <3>3. Head(p) \notin S
      <4>. SUFFICES ASSUME NEW h \in S, h = Head(p) PROVE FALSE
        OBVIOUS
      <4>1. Only(p, S) = <<h>> \o Only(Tail(p), S)
        BY <3>1, OnlyHead
      <4>2. Only(Tail(p), S) \in Seq(S) /\ <<h>> \in Seq(S) /\ Len(<<h>>) = 1
        <5>1. Only(Tail(p), S) \in Seq(S)
          BY <3>2, OnlyType
        <5>. QED
          BY <5>1
      <4>3. Len(Only(p, S)) = 1 + Len(Only(Tail(p), S))
        BY <4>1, <4>2, ConcatProperties
      <4>4. Len(Only(Tail(p), S)) \in Nat /\ Len(<<>>) = 0
        BY <4>2, LenProperties, EmptySeq
      <4>. QED
        BY <2>1, <4>3, <4>4
    <3>4. Only(p, S) = Only(Tail(p), S) /\ Only(p, R) = Only(Tail(p), R)
      BY <3>1, <3>3, OnlyHead
    <3>. QED
      BY <1>2, <2>1, <3>2, <3>4
  <2>. QED
    BY <2>1
<1>3. Nat \subseteq T
  <2>. HIDE DEF T
  <2>. QED
    BY <1>1, <1>2, SetInduction
<1>4. Len(q) \in Nat
  BY LenProperties
<1>. QED
  BY <1>3, <1>4

------------------------------------------------------------------------------
(* The requests that libuv holds.                                          *)

Requests == Frames \cup {Response}

FramesIn(f) == Only(f, Frames)

MessagesIn(f) == Only(f, Messages)

ResponsesIn(f) == Only(f, {Response})

LEMMA RequestTypes ==
  ASSUME NEW f \in Seq(Requests)
  PROVE  /\ FramesIn(f) \in Seq(Frames) /\ MessagesIn(f) \in Seq(Messages)
         /\ ResponsesIn(f) \in Seq({Response}) /\ Len(ResponsesIn(f)) \in Nat
         /\ FramesIn(f) = <<>> => MessagesIn(f) = <<>>
<1>1. /\ Only(f, Frames) \in Seq(Frames) /\ Only(f, Messages) \in Seq(Messages)
      /\ Only(f, {Response}) \in Seq({Response})
  BY OnlyType
<1>2. Messages \in SUBSET Frames
  BY DEF Frames
<1>3. Only(f, Frames) = <<>> => Only(f, Messages) = <<>>
  BY <1>2, OnlyOfFewer
<1>4. Len(Only(f, {Response})) \in Nat
  BY <1>1, LenProperties
<1>. QED
  BY <1>1, <1>3, <1>4 DEF FramesIn, MessagesIn, ResponsesIn

(* A frame more.                                                           *)
LEMMA FrameAppended ==
  ASSUME NEW f \in Seq(Requests), NEW e \in Frames
  PROVE  /\ Append(f, e) \in Seq(Requests)
         /\ FramesIn(Append(f, e)) = Append(FramesIn(f), e)
         /\ ResponsesIn(Append(f, e)) = ResponsesIn(f)
         /\ e \in Messages => MessagesIn(Append(f, e)) = Append(MessagesIn(f), e)
         /\ e \notin Messages => MessagesIn(Append(f, e)) = MessagesIn(f)
<1>1. e \in Requests /\ e \notin {Response}
  BY WsConfigAssumption DEF Requests, Frames
<1>2. Append(f, e) \in Seq(Requests)
  BY <1>1, AppendProperties
<1>3. Only(Append(f, e), Frames) = Append(Only(f, Frames), e)
  BY <1>1, OnlyAppend
<1>4. Only(Append(f, e), {Response}) = Only(f, {Response})
  BY <1>1, OnlyAppend
<1>5. /\ e \in Messages => Only(Append(f, e), Messages) = Append(Only(f, Messages), e)
      /\ e \notin Messages => Only(Append(f, e), Messages) = Only(f, Messages)
  BY <1>1, OnlyAppend
<1>. QED
  BY <1>2, <1>3, <1>4, <1>5, Zenon DEF FramesIn, MessagesIn, ResponsesIn

(* A response more.                                                        *)
LEMMA ResponseAppended ==
  ASSUME NEW f \in Seq(Requests)
  PROVE  /\ Append(f, Response) \in Seq(Requests)
         /\ FramesIn(Append(f, Response)) = FramesIn(f)
         /\ MessagesIn(Append(f, Response)) = MessagesIn(f)
         /\ Len(ResponsesIn(Append(f, Response))) = Len(ResponsesIn(f)) + 1
<1>1. /\ Response \in Requests /\ Response \in {Response}
      /\ Response \notin Frames /\ Response \notin Messages
  BY WsConfigAssumption DEF Requests, Frames
<1>2. Append(f, Response) \in Seq(Requests)
  BY <1>1, AppendProperties
<1>3. Only(Append(f, Response), Frames) = Only(f, Frames)
  BY <1>1, OnlyAppend
<1>4. Only(Append(f, Response), Messages) = Only(f, Messages)
  BY <1>1, OnlyAppend
<1>5. Only(Append(f, Response), {Response}) = Append(Only(f, {Response}), Response)
  BY <1>1, OnlyAppend
<1>6. Only(f, {Response}) \in Seq({Response})
  BY OnlyType
<1>7. Len(Append(Only(f, {Response}), Response)) = Len(Only(f, {Response})) + 1
  BY <1>1, <1>6, AppendProperties
<1>. QED
  BY <1>2, <1>3, <1>4, <1>5, <1>7, Zenon DEF FramesIn, MessagesIn, ResponsesIn

(* A frame less.                                                           *)
LEMMA FrameAnsweredIs ==
  ASSUME NEW f \in Seq(Requests), f # <<>>, NEW h, h = Head(f), h \in Frames
  PROVE  /\ Tail(f) \in Seq(Requests)
         /\ FramesIn(f) = <<h>> \o FramesIn(Tail(f))
         /\ ResponsesIn(Tail(f)) = ResponsesIn(f)
         /\ h \in Messages => MessagesIn(f) = <<h>> \o MessagesIn(Tail(f))
         /\ h \notin Messages => MessagesIn(f) = MessagesIn(Tail(f))
<1>1. h \notin {Response}
  BY WsConfigAssumption DEF Frames
<1>2. Tail(f) \in Seq(Requests)
  BY HeadTailProperties
<1>3. Only(f, Frames) = <<h>> \o Only(Tail(f), Frames)
  BY OnlyHead
<1>4. Only(f, {Response}) = Only(Tail(f), {Response})
  BY <1>1, OnlyHead
<1>5. /\ h \in Messages => Only(f, Messages) = <<h>> \o Only(Tail(f), Messages)
      /\ h \notin Messages => Only(f, Messages) = Only(Tail(f), Messages)
  BY OnlyHead
<1>. QED
  BY <1>2, <1>3, <1>4, <1>5, Zenon DEF FramesIn, MessagesIn, ResponsesIn

(* A response less.                                                        *)
LEMMA ResponseAnsweredIs ==
  ASSUME NEW f \in Seq(Requests), f # <<>>, Head(f) = Response
  PROVE  /\ Tail(f) \in Seq(Requests)
         /\ FramesIn(Tail(f)) = FramesIn(f)
         /\ MessagesIn(Tail(f)) = MessagesIn(f)
         /\ Len(ResponsesIn(f)) = Len(ResponsesIn(Tail(f))) + 1
<1>1. /\ Head(f) \in {Response} /\ Head(f) \notin Frames
      /\ Head(f) \notin Messages
  BY WsConfigAssumption DEF Frames
<1>2. Tail(f) \in Seq(Requests)
  BY HeadTailProperties
<1>3. /\ Only(f, Frames) = Only(Tail(f), Frames)
      /\ Only(f, Messages) = Only(Tail(f), Messages)
      /\ Only(f, {Response}) = <<Head(f)>> \o Only(Tail(f), {Response})
  BY <1>1, OnlyHead
<1>4. PICK rest \in Seq({Response}) : rest = Only(Tail(f), {Response})
  BY <1>2, OnlyType
<1>5. <<Response>> \in Seq({Response}) /\ Len(<<Response>>) = 1 /\ Len(rest) \in Nat
  BY LenProperties
<1>6. Len(<<Response>> \o rest) = Len(rest) + 1
  BY <1>5, ConcatProperties
<1>. QED
  BY <1>2, <1>3, <1>4, <1>6 DEF FramesIn, MessagesIn, ResponsesIn

------------------------------------------------------------------------------
(* What Close and TrySend do.                                              *)

LEMMA CloseCases ==
  ASSUME NEW q, NEW w, NEW s, Close(q, w, s)
  PROVE  /\ send_queue_' = q /\ is_writing_' = w
         /\ \/ /\ UNCHANGED handleVars
               /\ state_' = s \/ state_' = "CLOSING"
               /\ ~CloseIgnored(s) => is_closing_gracefully_' /\ ~NothingToSend(q, w)
            \/ /\ ~CloseIgnored(s) /\ NothingToSend(q, w)
               /\ state_' = "CLOSING" /\ UvClose(TRUE)
               /\ UNCHANGED is_closing_gracefully_
         /\ UNCHANGED is_closing_gracefully_ \/ is_closing_gracefully_' = TRUE
         /\ UNCHANGED is_heartbeat_running_ \/ is_heartbeat_running_' = FALSE
BY DEF Close

LEMMA TrySendCases ==
  ASSUME NEW q, NEW w, NEW f, NEW s, TrySend(q, w, f, s)
  PROVE  \/ /\ w \/ q = <<>>
            /\ send_queue_' = q /\ is_writing_' = w /\ inflight' = f
            /\ state_' = s
            /\ UNCHANGED <<is_closing_gracefully_, is_heartbeat_running_, handleVars>>
         \/ /\ ~w /\ q # <<>> /\ handle = "open"
            /\ send_queue_' = Tail(q) /\ is_writing_' = TRUE
            /\ inflight' = Append(f, Head(q)) /\ state_' = s
            /\ UNCHANGED <<is_closing_gracefully_, is_heartbeat_running_, handleVars>>
         \/ /\ ~w /\ q # <<>> /\ handle # "open"
            /\ inflight' = f /\ Close(Tail(q), FALSE, s)
BY DEF TrySend, MayWrite

------------------------------------------------------------------------------
(* Types.  The responses under way are those that may still announce.      *)

Announced == opened + Responding <= MaxResponses + 1

TypeInv == TypeOK /\ Announced

States == {"HANDSHAKE", "OPEN", "CLOSING", "CLOSED"}

QueueOK(q) == q \in Seq(Frames) /\ Len(Only(q, Messages)) <= MaxSendQueueSize

(* What Close, TrySend and libuv change.                                   *)
ConnTypeOK ==
  /\ state_ \in States
  /\ QueueOK(send_queue_)
  /\ is_writing_ \in BOOLEAN
  /\ is_closing_gracefully_ \in BOOLEAN
  /\ is_heartbeat_running_ \in BOOLEAN
  /\ inflight \in Seq(Requests)
  /\ handle \in {"open", "closing", "closed"}
  /\ closeCb \in BOOLEAN
  /\ aborted \in BOOLEAN

HistoryTypeOK ==
  /\ parsing \in BOOLEAN
  /\ opened \in 1 .. MaxResponses + 1
  /\ controls \in 0 .. MaxControls
  /\ accepted \in Seq(Messages)
  /\ written \in Seq(Messages)

LEMMA TypeParts == TypeOK <=> ConnTypeOK /\ HistoryTypeOK
BY DEF TypeOK, ConnTypeOK, HistoryTypeOK, QueueOK, States, Requests

LEMMA UvCloseType ==
  ASSUME ConnTypeOK, NEW cb \in BOOLEAN, UvClose(cb)
  PROVE  /\ handle' \in {"open", "closing", "closed"}
         /\ closeCb' \in BOOLEAN /\ aborted' \in BOOLEAN
BY DEF ConnTypeOK, UvClose

LEMMA CloseType ==
  ASSUME ConnTypeOK, NEW q, QueueOK(q), NEW w \in BOOLEAN, NEW s \in States,
         Close(q, w, s), inflight' \in Seq(Requests)
  PROVE  ConnTypeOK'
<1>1. /\ handle' \in {"open", "closing", "closed"}
      /\ closeCb' \in BOOLEAN /\ aborted' \in BOOLEAN
  BY CloseCases, UvCloseType DEF ConnTypeOK, handleVars
<1>2. /\ state_' \in States /\ send_queue_' = q /\ is_writing_' = w
      /\ is_closing_gracefully_' \in BOOLEAN /\ is_heartbeat_running_' \in BOOLEAN
  BY CloseCases DEF ConnTypeOK, States
<1>. QED
  BY <1>1, <1>2 DEF ConnTypeOK, QueueOK

LEMMA QueueTail ==
  ASSUME NEW q, QueueOK(q), q # <<>>
  PROVE  Head(q) \in Frames /\ QueueOK(Tail(q))
<1>1. q \in Seq(Frames) /\ Head(q) \in Frames /\ Tail(q) \in Seq(Frames)
  BY HeadTailProperties DEF QueueOK
<1>2. /\ Only(Tail(q), Messages) \in Seq(Messages)
      /\ Only(q, Messages) \in Seq(Messages)
  BY <1>1, OnlyType
<1>3. CASE Head(q) \in Messages
  <2>1. PICK h \in Messages : h = Head(q)
    BY <1>3
  <2>2. Only(q, Messages) = <<h>> \o Only(Tail(q), Messages)
    BY <1>1, <1>3, <2>1, OnlyHead
  <2>3. <<h>> \in Seq(Messages) /\ Len(<<h>>) = 1
    OBVIOUS
  <2>4. Len(Only(q, Messages)) = 1 + Len(Only(Tail(q), Messages))
    BY <1>2, <2>2, <2>3, ConcatProperties
  <2>5. Len(Only(Tail(q), Messages)) \in Nat /\ MaxSendQueueSize \in Nat
    BY <1>2, LenProperties, WsConfigAssumption
  <2>. QED
    BY <1>1, <2>4, <2>5 DEF QueueOK
<1>4. CASE Head(q) \notin Messages
  <2>1. Only(q, Messages) = Only(Tail(q), Messages)
    BY <1>1, <1>4, OnlyHead
  <2>. QED
    BY <1>1, <2>1 DEF QueueOK
<1>. QED
  BY <1>3, <1>4

LEMMA TrySendType ==
  ASSUME ConnTypeOK, NEW q, QueueOK(q), NEW w \in BOOLEAN, NEW s \in States,
         NEW f \in Seq(Requests), TrySend(q, w, f, s)
  PROVE  ConnTypeOK' /\ ResponsesIn(inflight') = ResponsesIn(f)
<1>1. CASE /\ send_queue_' = q /\ is_writing_' = w /\ inflight' = f
           /\ state_' = s
           /\ UNCHANGED <<is_closing_gracefully_, is_heartbeat_running_, handleVars>>
  BY <1>1 DEF ConnTypeOK, QueueOK, handleVars
<1>2. CASE /\ ~w /\ q # <<>> /\ handle = "open"
           /\ send_queue_' = Tail(q) /\ is_writing_' = TRUE
           /\ inflight' = Append(f, Head(q)) /\ state_' = s
           /\ UNCHANGED <<is_closing_gracefully_, is_heartbeat_running_, handleVars>>
  <2>1. PICK h \in Frames : h = Head(q)
    BY <1>2, QueueTail
  <2>2. QueueOK(Tail(q))
    BY <1>2, QueueTail
  <2>3. /\ inflight' \in Seq(Requests)
        /\ ResponsesIn(inflight') = ResponsesIn(f)
    BY <1>2, <2>1, FrameAppended
  <2>. QED
    BY <1>2, <2>2, <2>3 DEF ConnTypeOK, QueueOK, handleVars
<1>3. CASE /\ ~w /\ q # <<>> /\ handle # "open"
           /\ inflight' = f /\ Close(Tail(q), FALSE, s)
  <2>1. QueueOK(Tail(q))
    BY <1>3, QueueTail
  <2>. QED
    BY <1>3, <2>1, CloseType
<1>. QED
  BY <1>1, <1>2, <1>3, TrySendCases

LEMMA AnnouncedKept ==
  ASSUME Announced, opened' = opened,
         ResponsesIn(inflight') = ResponsesIn(inflight)
  PROVE  Announced'
BY DEF Announced, Responding, ResponsesIn

(* SendFrame, whose frame is a message only when there is room for it.     *)
LEMMA SendFrameType ==
  ASSUME ConnTypeOK, NEW f \in Frames, NEW s \in States, SendFrame(f, s),
         f \in Messages => Len(send_queue_) < MaxSendQueueSize
  PROVE  ConnTypeOK' /\ ResponsesIn(inflight') = ResponsesIn(inflight)
<1>1. PICK q : q = Append(send_queue_, f)
  OBVIOUS
<1>2. /\ send_queue_ \in Seq(Frames) /\ Len(send_queue_) \in Nat
      /\ MaxSendQueueSize \in Nat
  BY WsConfigAssumption, LenProperties DEF ConnTypeOK, QueueOK
<1>3. q \in Seq(Frames)
  BY <1>1, <1>2, AppendProperties
<1>4. Len(Only(q, Messages)) <= MaxSendQueueSize
  <2>1. PICK m \in Seq(Messages) : m = Only(send_queue_, Messages)
    BY <1>2, OnlyType
  <2>2. Len(m) \in Nat /\ Len(m) <= Len(send_queue_) /\ Len(m) <= MaxSendQueueSize
    BY <1>2, <2>1, OnlyLength DEF ConnTypeOK, QueueOK
  <2>3. CASE f \in Messages
    <3>1. Only(q, Messages) = Append(m, f)
      BY <1>1, <1>2, <2>1, <2>3, OnlyAppend
    <3>2. Len(Append(m, f)) = Len(m) + 1
      BY <2>3, AppendProperties
    <3>. QED
      BY <1>2, <2>2, <2>3, <3>1, <3>2
  <2>4. CASE f \notin Messages
    <3>1. Only(q, Messages) = m
      BY <1>1, <1>2, <2>1, <2>4, OnlyAppend
    <3>. QED
      BY <2>2, <3>1
  <2>. QED
    BY <2>3, <2>4
<1>5. TrySend(q, is_writing_, inflight, s)
  BY <1>1 DEF SendFrame
<1>. QED
  BY <1>3, <1>4, <1>5, TrySendType DEF ConnTypeOK, QueueOK

LEMMA TypeStep == TypeInv /\ [Next]_vars => TypeInv'
<1>. SUFFICES ASSUME TypeInv, [Next]_vars PROVE TypeInv'
  OBVIOUS
<1>1. ConnTypeOK /\ HistoryTypeOK /\ Announced
  BY TypeParts DEF TypeInv
<1>2. /\ QueueOK(send_queue_) /\ is_writing_ \in BOOLEAN /\ state_ \in States
      /\ inflight \in Seq(Requests)
      /\ "CLOSING" \in States /\ "OPEN" \in States
      /\ Pong \in Frames /\ CloseFrame \in Frames /\ Messages \subseteq Frames
      /\ Pong \notin Messages /\ CloseFrame \notin Messages
      /\ MaxSends \in Nat /\ MaxControls \in Nat /\ MaxResponses \in Nat
  BY <1>1, WsConfigAssumption, WsBoundAssumption DEF ConnTypeOK, States, Frames
<1>3. ASSUME ConnTypeOK', HistoryTypeOK', opened' = opened,
             ResponsesIn(inflight') = ResponsesIn(inflight)
      PROVE  TypeInv'
  <2>1. Announced'
    BY <1>1, <1>3, AnnouncedKept
  <2>2. TypeOK'
    BY <1>3, TypeParts, PTL
  <2>. QED
    BY <2>1, <2>2 DEF TypeInv
<1>4. ASSUME NEW m \in Messages, AppSend(m)
      PROVE  TypeInv'
  <2>1. accepted' \in Seq(Messages)
    BY <1>1, <1>4, AppendProperties DEF AppSend, HistoryTypeOK
  <2>2. HistoryTypeOK'
    BY <1>1, <1>4, <2>1 DEF AppSend, HistoryTypeOK
  <2>3. SendFrame(m, state_) /\ Len(send_queue_) < MaxSendQueueSize
    BY <1>4 DEF AppSend, SendAccepts
  <2>4. ConnTypeOK' /\ ResponsesIn(inflight') = ResponsesIn(inflight)
    BY <1>1, <1>2, <2>3, SendFrameType
  <2>. QED
    BY <1>3, <1>4, <2>2, <2>4 DEF AppSend
<1>5. CASE AppClose \/ ProcessBadMessage \/ OnHeartbeatTimeout
  <2>1. /\ Close(send_queue_, is_writing_, state_) /\ inflight' = inflight
        /\ UNCHANGED <<parsing, opened, controls, accepted, written>>
    BY <1>5 DEF AppClose, ProcessBadMessage, OnHeartbeatTimeout
  <2>2. ConnTypeOK' /\ HistoryTypeOK'
    BY <1>1, <1>2, <2>1, CloseType DEF HistoryTypeOK
  <2>. QED
    BY <1>3, <2>1, <2>2
<1>6. CASE ReadHandshake
  <2>1. /\ inflight' \in Seq(Requests)
        /\ Len(ResponsesIn(inflight')) = Len(ResponsesIn(inflight)) + 1
    BY <1>2, <1>6, ResponseAppended DEF ReadHandshake
  <2>2. ConnTypeOK' /\ HistoryTypeOK'
    BY <1>1, <1>6, <2>1
       DEF ReadHandshake, ConnTypeOK, HistoryTypeOK, flagVars, handleVars
  <2>3. Announced'
    <3>1. Len(ResponsesIn(inflight)) \in Nat
      BY <1>2, RequestTypes
    <3>2. opened \in Nat /\ opened + Len(ResponsesIn(inflight)) <= MaxResponses
      BY <1>1, <1>6 DEF ReadHandshake, HistoryTypeOK, Responding, ResponsesIn
    <3>3. opened' = opened /\ Responding' = Len(ResponsesIn(inflight'))
      BY <1>6 DEF ReadHandshake, Responding, ResponsesIn
    <3>. QED
      BY <1>2, <2>1, <3>1, <3>2, <3>3 DEF Announced
  <2>. QED
    BY <2>2, <2>3, TypeParts, PTL DEF TypeInv
<1>7. CASE ReadFrames \/ FramesDone
  <2>1. ConnTypeOK' /\ HistoryTypeOK'
    BY <1>1, <1>7
       DEF ReadFrames, FramesDone, ConnTypeOK, HistoryTypeOK, flagVars,
           handleVars, sendVars
  <2>. QED
    BY <1>3, <1>7, <2>1 DEF ReadFrames, FramesDone, sendVars
<1>8. CASE ProcessPingFrame \/ ProcessCloseFrame
  <2>1. HistoryTypeOK'
    BY <1>1, <1>2, <1>8 DEF ProcessPingFrame, ProcessCloseFrame, HistoryTypeOK
  <2>2. SendFrame(Pong, state_) \/ SendFrame(CloseFrame, "CLOSING")
    BY <1>8 DEF ProcessPingFrame, ProcessCloseFrame
  <2>3. ConnTypeOK' /\ ResponsesIn(inflight') = ResponsesIn(inflight)
    BY <1>1, <1>2, <2>2, SendFrameType
  <2>. QED
    BY <1>3, <1>8, <2>1, <2>3 DEF ProcessPingFrame, ProcessCloseFrame
<1>9. CASE ReadEnds
  <2>1. /\ handle' \in {"open", "closing", "closed"}
        /\ closeCb' \in BOOLEAN /\ aborted' \in BOOLEAN
    BY <1>1, <1>9, UvCloseType DEF ReadEnds
  <2>2. ConnTypeOK' /\ HistoryTypeOK'
    BY <1>1, <1>9, <2>1
       DEF ReadEnds, ConnTypeOK, HistoryTypeOK, flagVars, sendVars
  <2>. QED
    BY <1>3, <1>9, <2>2 DEF ReadEnds, sendVars
<1>10. CASE OnHandshakeComplete
  <2>1. /\ inflight' \in Seq(Requests)
        /\ Len(ResponsesIn(inflight)) = Len(ResponsesIn(inflight')) + 1
    BY <1>2, <1>10, ResponseAnsweredIs DEF OnHandshakeComplete
  <2>2. /\ Len(ResponsesIn(inflight)) \in Nat /\ Len(ResponsesIn(inflight')) \in Nat
        /\ opened \in 1 .. MaxResponses + 1
        /\ opened + Len(ResponsesIn(inflight)) <= MaxResponses + 1
    BY <1>1, <1>2, <2>1, RequestTypes
       DEF HistoryTypeOK, Announced, Responding, ResponsesIn
  <2>3. opened' = opened + 1 /\ Responding' = Len(ResponsesIn(inflight'))
    BY <1>10 DEF OnHandshakeComplete, Responding, ResponsesIn
  <2>4. Announced' /\ opened' \in 1 .. MaxResponses + 1
    BY <1>2, <2>1, <2>2, <2>3 DEF Announced
  <2>5. ConnTypeOK' /\ HistoryTypeOK'
    BY <1>1, <1>2, <1>10, <2>1, <2>4
       DEF OnHandshakeComplete, ConnTypeOK, HistoryTypeOK, handleVars
  <2>. QED
    BY <2>4, <2>5, TypeParts, PTL DEF TypeInv
<1>11. CASE WriteSucceeds \/ WriteFails \/ WriteCanceled
  <2>1. PICK h \in Frames : h = Head(inflight) /\ inflight # <<>>
    BY <1>11 DEF WriteSucceeds, WriteFails, WriteCanceled, FrameAnswered
  <2>2. /\ Tail(inflight) \in Seq(Requests)
        /\ ResponsesIn(Tail(inflight)) = ResponsesIn(inflight)
    BY <1>2, <2>1, FrameAnsweredIs
  <2>3. written' \in Seq(Messages)
    <3>1. h \in Messages => Append(written, h) \in Seq(Messages)
      BY <1>1, AppendProperties DEF HistoryTypeOK
    <3>. QED
      BY <1>1, <1>11, <2>1, <3>1
         DEF WriteSucceeds, WriteFails, WriteCanceled, Wrote, HistoryTypeOK
  <2>4. HistoryTypeOK' /\ opened' = opened
    BY <1>1, <1>11, <2>3 DEF WriteSucceeds, WriteFails, WriteCanceled, HistoryTypeOK
  <2>5. CASE TrySend(send_queue_, FALSE, Tail(inflight), state_)
    BY <1>1, <1>2, <1>3, <2>2, <2>4, <2>5, TrySendType
  <2>6. CASE /\ send_queue_' = <<>> /\ is_writing_' = FALSE
             /\ inflight' = Tail(inflight) /\ UvClose(TRUE) /\ UNCHANGED flagVars
    <3>1. /\ handle' \in {"open", "closing", "closed"}
          /\ closeCb' \in BOOLEAN /\ aborted' \in BOOLEAN
      BY <1>1, <2>6, UvCloseType
    <3>2. QueueOK(<<>>)
      BY <1>2, Nothing, OnlyNone, WsConfigAssumption DEF QueueOK
    <3>3. ConnTypeOK'
      BY <1>1, <2>2, <2>6, <3>1, <3>2 DEF ConnTypeOK, QueueOK, flagVars
    <3>. QED
      BY <1>3, <2>2, <2>4, <2>6, <3>3
  <2>7. CASE WriteFails
    <3>1. Close(send_queue_, is_writing_, state_) /\ inflight' = Tail(inflight)
      BY <2>7 DEF WriteFails
    <3>2. ConnTypeOK'
      BY <1>1, <1>2, <2>2, <3>1, CloseType
    <3>. QED
      BY <1>3, <2>2, <2>4, <3>1, <3>2
  <2>8. CASE WriteCanceled
    <3>1. ConnTypeOK' /\ inflight' = Tail(inflight)
      BY <1>1, <2>2, <2>8 DEF WriteCanceled, ConnTypeOK, flagVars, handleVars
    <3>. QED
      BY <1>3, <2>2, <2>4, <3>1
  <2>. QED
    BY <1>11, <2>5, <2>6, <2>7, <2>8 DEF WriteSucceeds
<1>12. CASE CloseCallback
  <2>1. ConnTypeOK' /\ HistoryTypeOK'
    BY <1>1, <1>12
       DEF CloseCallback, ConnTypeOK, HistoryTypeOK, States, sendVars
  <2>. QED
    BY <1>3, <1>12, <2>1 DEF CloseCallback, sendVars
<1>13. CASE UNCHANGED vars
  <2>1. ConnTypeOK' /\ HistoryTypeOK'
    BY <1>1, <1>13
       DEF vars, ConnTypeOK, HistoryTypeOK, flagVars, handleVars, sendVars
  <2>. QED
    BY <1>3, <1>13, <2>1 DEF vars, sendVars
<1>. QED
  BY <1>4, <1>5, <1>6, <1>7, <1>8, <1>9, <1>10, <1>11, <1>12, <1>13 DEF Next

LEMMA InitType == Init => TypeInv
<1>. SUFFICES ASSUME Init PROVE TypeInv
  OBVIOUS
<1>1. \A S : <<>> \in Seq(S) /\ Only(<<>>, S) = <<>>
  BY Nothing, OnlyNone
<1>2. Len(<<>>) = 0 /\ MaxSendQueueSize \in Nat /\ MaxResponses \in Nat /\ MaxControls \in Nat
  BY EmptySeq, WsConfigAssumption, WsBoundAssumption
<1>3. Announced
  BY <1>1, <1>2 DEF Init, Announced, Responding
<1>4. /\ QueueOK(<<>>) /\ <<>> \in Seq(Requests) /\ <<>> \in Seq(Messages)
      /\ 1 \in 1 .. MaxResponses + 1 /\ 0 \in 0 .. MaxControls
  BY <1>1, <1>2 DEF QueueOK
<1>5. ConnTypeOK /\ HistoryTypeOK
  BY <1>4 DEF Init, ConnTypeOK, HistoryTypeOK, States
<1>. QED
  BY <1>3, <1>5, TypeParts DEF TypeInv

(***************************************************************************)
(* The connection's state has its types: the queue never holds more of the *)
(* application's messages than max_send_queue_size_, with whatever control *)
(* frames among them, and every handshake answered announces the           *)
(* connection once.                                                        *)
(***************************************************************************)
THEOREM WsTypeCorrect == Spec => []TypeOK
<1>1. TypeInv => TypeOK
  BY DEF TypeInv
<1>. QED
  BY <1>1, InitType, TypeStep, PTL DEF Spec

------------------------------------------------------------------------------
(* One frame with libuv.                                                   *)

Single(f, w) == Len(FramesIn(f)) <= 1 /\ (FramesIn(f) # <<>> => w)

LEMMA SingleIs == AtMostOneWrite <=> Single(inflight, is_writing_)
BY DEF AtMostOneWrite, Single, FramesIn

(* An answered frame was the only one.                                     *)
LEMMA LastFrame ==
  ASSUME NEW f \in Seq(Requests), NEW w, Single(f, w), f # <<>>, Head(f) \in Frames
  PROVE  w /\ FramesIn(Tail(f)) = <<>> /\ MessagesIn(Tail(f)) = <<>>
<1>1. PICK h \in Frames : h = Head(f)
  OBVIOUS
<1>2. Tail(f) \in Seq(Requests) /\ FramesIn(f) = <<h>> \o FramesIn(Tail(f))
  BY <1>1, FrameAnsweredIs
<1>3. PICK rest \in Seq(Frames) : rest = FramesIn(Tail(f))
  BY <1>2, RequestTypes
<1>4. <<h>> \in Seq(Frames) /\ Len(<<h>>) = 1 /\ Len(rest) \in Nat
  BY LenProperties
<1>5. Len(FramesIn(f)) = 1 + Len(rest)
  BY <1>2, <1>3, <1>4, ConcatProperties
<1>6. rest = <<>> /\ FramesIn(f) # <<>>
  BY <1>4, <1>5, EmptySeq DEF Single
<1>. QED
  BY <1>2, <1>3, <1>6, RequestTypes DEF Single

LEMMA TrySendSingle ==
  ASSUME NEW q \in Seq(Frames), NEW w, NEW f \in Seq(Requests), NEW s,
         Single(f, w), TrySend(q, w, f, s)
  PROVE  Single(inflight', is_writing_')
<1>1. CASE ~w /\ q # <<>> /\ is_writing_' = TRUE /\ inflight' = Append(f, Head(q))
  <2>1. PICK h \in Frames : h = Head(q)
    BY <1>1, HeadTailProperties
  <2>2. FramesIn(f) = <<>>
    BY <1>1 DEF Single
  <2>3. FramesIn(inflight') = Append(<<>>, h)
    BY <1>1, <2>1, <2>2, FrameAppended
  <2>4. Append(<<>>, h) = <<h>> /\ Len(<<h>>) <= 1
    OBVIOUS
  <2>5. Len(FramesIn(inflight')) <= 1
    BY <2>3, <2>4, Zenon
  <2>. QED
    BY <1>1, <2>5 DEF Single
<1>2. CASE ~w /\ inflight' = f /\ Close(Tail(q), FALSE, s)
  BY <1>2 DEF Single
<1>3. CASE is_writing_' = w /\ inflight' = f
  BY <1>3
<1>. QED
  BY <1>1, <1>2, <1>3, TrySendCases

(* SendFrame is TrySend with a longer queue.                               *)
LEMMA SendFrameIs ==
  ASSUME ConnTypeOK, NEW f \in Frames, NEW s, SendFrame(f, s),
         NEW q, q = Append(send_queue_, f)
  PROVE  /\ q \in Seq(Frames) /\ q # <<>>
         /\ send_queue_ = <<>> => Tail(q) = <<>>
         /\ TrySend(q, is_writing_, inflight, s)
<1>1. send_queue_ \in Seq(Frames) /\ Len(send_queue_) \in Nat
  BY LenProperties DEF ConnTypeOK, QueueOK
<1>2. q \in Seq(Frames) /\ Len(q) = Len(send_queue_) + 1
  BY <1>1, AppendProperties
<1>3. q # <<>>
  BY <1>1, <1>2, EmptySeq
<1>4. ASSUME send_queue_ = <<>> PROVE Tail(q) = <<>>
  <2>1. q = <<f>>
    BY <1>4
  <2>. QED
    BY <2>1
<1>. QED
  BY <1>2, <1>3, <1>4 DEF SendFrame

(* What an answered frame's callback may assume.                           *)
LEMMA AnsweredFacts ==
  ASSUME ConnTypeOK, AtMostOneWrite, FrameAnswered
  PROVE  /\ is_writing_ /\ inflight # <<>> /\ Head(inflight) \in Frames
         /\ Tail(inflight) \in Seq(Requests)
         /\ FramesIn(Tail(inflight)) = <<>> /\ MessagesIn(Tail(inflight)) = <<>>
         /\ FramesIn(inflight) # <<>>
<1>1. /\ inflight \in Seq(Requests) /\ inflight # <<>>
      /\ Head(inflight) \in Frames /\ Single(inflight, is_writing_)
  BY SingleIs DEF ConnTypeOK, FrameAnswered
<1>2. /\ is_writing_ /\ FramesIn(Tail(inflight)) = <<>>
      /\ MessagesIn(Tail(inflight)) = <<>>
  BY <1>1, LastFrame
<1>3. PICK h \in Frames : h = Head(inflight)
  BY <1>1
<1>4. FramesIn(inflight) = <<h>> \o FramesIn(Tail(inflight))
  BY <1>1, <1>3, FrameAnsweredIs
<1>5. <<h>> \o <<>> = <<h>> /\ <<h>> # <<>>
  OBVIOUS
<1>6. Tail(inflight) \in Seq(Requests)
  BY <1>1, HeadTailProperties
<1>. QED
  BY <1>1, <1>2, <1>4, <1>5, <1>6

LEMMA OneWriteStep == TypeInv /\ AtMostOneWrite /\ [Next]_vars => AtMostOneWrite'
<1>. SUFFICES ASSUME TypeInv, AtMostOneWrite, [Next]_vars
              PROVE  Single(inflight', is_writing_')
  BY DEF AtMostOneWrite, Single, FramesIn
<1>1. /\ ConnTypeOK /\ Single(inflight, is_writing_)
      /\ inflight \in Seq(Requests) /\ send_queue_ \in Seq(Frames)
  BY SingleIs, TypeParts DEF TypeInv, ConnTypeOK, QueueOK
<1>2. ASSUME UNCHANGED <<inflight, is_writing_>>
      PROVE  Single(inflight', is_writing_')
  BY <1>1, <1>2
<1>3. ASSUME NEW f \in Frames, NEW s, SendFrame(f, s)
      PROVE  Single(inflight', is_writing_')
  BY <1>1, <1>3, SendFrameIs, TrySendSingle
<1>4. ASSUME NEW m \in Messages, AppSend(m)
      PROVE  Single(inflight', is_writing_')
  BY <1>3, <1>4 DEF AppSend, Frames
<1>5. CASE AppClose \/ ProcessBadMessage \/ OnHeartbeatTimeout
  BY <1>2, <1>5, CloseCases DEF AppClose, ProcessBadMessage, OnHeartbeatTimeout
<1>6. CASE ReadHandshake
  <2>1. FramesIn(inflight') = FramesIn(inflight) /\ is_writing_' = is_writing_
    BY <1>1, <1>6, ResponseAppended DEF ReadHandshake
  <2>. QED
    BY <1>1, <2>1 DEF Single
<1>7. CASE OnHandshakeComplete
  <2>1. FramesIn(inflight') = FramesIn(inflight) /\ is_writing_' = is_writing_
    BY <1>1, <1>7, ResponseAnsweredIs DEF OnHandshakeComplete
  <2>. QED
    BY <1>1, <2>1 DEF Single
<1>8. CASE ReadFrames \/ FramesDone \/ ReadEnds \/ CloseCallback
  BY <1>2, <1>8 DEF ReadFrames, FramesDone, ReadEnds, CloseCallback, sendVars
<1>9. CASE ProcessPingFrame \/ ProcessCloseFrame
  <2>1. Pong \in Frames /\ CloseFrame \in Frames
    BY DEF Frames
  <2>. QED
    BY <1>3, <1>9, <2>1 DEF ProcessPingFrame, ProcessCloseFrame
<1>10. CASE WriteSucceeds \/ WriteFails \/ WriteCanceled
  <2>1. Tail(inflight) \in Seq(Requests) /\ FramesIn(Tail(inflight)) = <<>>
    BY <1>1, <1>10, AnsweredFacts DEF WriteSucceeds, WriteFails, WriteCanceled
  <2>2. \A w : Single(Tail(inflight), w)
    BY <2>1, EmptySeq DEF Single
  <2>3. CASE TrySend(send_queue_, FALSE, Tail(inflight), state_)
    BY <1>1, <2>1, <2>2, <2>3, TrySendSingle
  <2>4. CASE inflight' = Tail(inflight)
    BY <2>2, <2>4
  <2>. QED
    BY <1>10, <2>3, <2>4 DEF WriteSucceeds, WriteFails, WriteCanceled
<1>11. CASE UNCHANGED vars
  BY <1>2, <1>11 DEF vars, sendVars
<1>. QED
  BY <1>4, <1>5, <1>6, <1>7, <1>8, <1>9, <1>10, <1>11 DEF Next

LEMMA InitOneWrite == Init => AtMostOneWrite
BY OnlyNone, EmptySeq DEF Init, AtMostOneWrite

LEMMA WsInv == Spec => [](TypeInv /\ AtMostOneWrite)
<1>1. TypeInv /\ AtMostOneWrite /\ [Next]_vars => (TypeInv /\ AtMostOneWrite)'
  BY TypeStep, OneWriteStep
<1>. QED
  BY <1>1, InitType, InitOneWrite, PTL DEF Spec

(***************************************************************************)
(* At most one frame is with libuv, and is_writing_ is set while there is  *)
(* one: no call of TrySend, from Send, from a pong in the read callback or *)
(* from a write callback, starts a second write beside the first.          *)
(***************************************************************************)
THEOREM WsAtMostOneWrite == Spec => []AtMostOneWrite
BY WsInv, PTL

------------------------------------------------------------------------------
(***************************************************************************)
(* The order of the messages.  What Send took is what was written, what is *)
(* with libuv and what is queued, until a write fails or the handle is no  *)
(* longer open: then what was written and is with libuv is the beginning,  *)
(* and nothing more is started, because the flag stays set or because      *)
(* uv_write refuses.                                                       *)
(***************************************************************************)
Order(acc, wr, f, q, w, h) ==
  \/ acc = (wr \o MessagesIn(f)) \o Only(q, Messages)
  \/ /\ IsPrefix(wr \o MessagesIn(f), acc)
     /\ h # "open" \/ (w /\ FramesIn(f) = <<>>)

InOrder == Order(accepted, written, inflight, send_queue_, is_writing_, handle)

(* A handle is opened once.                                                *)
LEMMA HandleStays ==
  ASSUME handle # "open", [Next]_vars
  PROVE  handle' # "open"
<1>1. ASSUME NEW q, NEW w, NEW s, Close(q, w, s) PROVE handle' # "open"
  BY <1>1, CloseCases DEF UvClose, handleVars
<1>2. ASSUME NEW q, NEW w, NEW f, NEW s, TrySend(q, w, f, s) PROVE handle' # "open"
  BY <1>1, <1>2, TrySendCases DEF handleVars
<1>3. ASSUME NEW cb, UvClose(cb) PROVE handle' # "open"
  BY <1>3 DEF UvClose
<1>. QED
  BY <1>1, <1>2, <1>3
     DEF Next, AppSend, SendFrame, AppClose, ReadHandshake, ReadFrames,
         ProcessBadMessage, ProcessPingFrame, ProcessCloseFrame, FramesDone,
         ReadEnds, OnHandshakeComplete, WriteSucceeds, WriteFails,
         WriteCanceled, OnHeartbeatTimeout, CloseCallback, vars, handleVars

(* The messages of a queue that begins with one, or with a control frame.  *)
LEMMA MessagesOfQueue ==
  ASSUME NEW q \in Seq(Frames), q # <<>>
  PROVE  /\ Head(q) \in Frames /\ Tail(q) \in Seq(Frames)
         /\ Only(q, Messages) \in Seq(Messages)
         /\ Only(Tail(q), Messages) \in Seq(Messages)
         /\ Head(q) \in Messages =>
              Only(q, Messages) = <<Head(q)>> \o Only(Tail(q), Messages)
         /\ Head(q) \notin Messages =>
              Only(q, Messages) = Only(Tail(q), Messages)
<1>1. Head(q) \in Frames /\ Tail(q) \in Seq(Frames)
  BY HeadTailProperties
<1>2. /\ Only(q, Messages) \in Seq(Messages)
      /\ Only(Tail(q), Messages) \in Seq(Messages)
  BY <1>1, OnlyType
<1>. QED
  BY <1>1, <1>2, OnlyHead

LEMMA Assoc ==
  ASSUME NEW a \in Seq(Messages), NEW b \in Seq(Messages), NEW c \in Seq(Messages)
  PROVE  (a \o b) \o c = a \o (b \o c)
BY ConcatAssociative

LEMMA TrySendOrder ==
  ASSUME NEW q \in Seq(Frames), NEW w, NEW f \in Seq(Requests), NEW s,
         NEW acc \in Seq(Messages), NEW wr \in Seq(Messages),
         Single(f, w), Order(acc, wr, f, q, w, handle), TrySend(q, w, f, s)
  PROVE  Order(acc, wr, inflight', send_queue_', is_writing_', handle')
<1>0. MessagesIn(f) \in Seq(Messages)
  BY RequestTypes
<1>1. CASE /\ send_queue_' = q /\ is_writing_' = w /\ inflight' = f
           /\ handle' = handle
  BY <1>1
<1>2. CASE /\ ~w /\ q # <<>> /\ handle = "open" /\ handle' = handle
           /\ send_queue_' = Tail(q) /\ inflight' = Append(f, Head(q))
  <2>1. FramesIn(f) = <<>> /\ MessagesIn(f) = <<>>
    BY <1>2, RequestTypes DEF Single
  <2>2. PICK h \in Frames, rest \in Seq(Messages) :
          h = Head(q) /\ rest = Only(Tail(q), Messages)
    BY <1>2, MessagesOfQueue
  <2>3. acc = (wr \o <<>>) \o Only(q, Messages)
    BY <1>2, <2>1 DEF Order
  <2>4. CASE h \in Messages
    <3>1. MessagesIn(inflight') = <<h>>
      <4>1. MessagesIn(inflight') = Append(<<>>, h)
        <5>1. MessagesIn(Append(f, h)) = Append(MessagesIn(f), h)
          BY <2>4, FrameAppended
        <5>. QED
          BY <1>2, <2>1, <2>2, <5>1, Zenon
      <4>2. Append(<<>>, h) = <<h>>
        OBVIOUS
      <4>. QED
        BY <4>1, <4>2, Zenon
    <3>2. Only(q, Messages) = <<h>> \o rest
      BY <1>2, <2>2, <2>4, MessagesOfQueue
    <3>3. wr \o <<>> = wr /\ <<h>> \in Seq(Messages)
      BY <2>4, ConcatEmptySeq
    <3>4. acc = wr \o (<<h>> \o rest)
      BY <2>3, <3>2, <3>3
    <3>5. wr \o (<<h>> \o rest) = (wr \o <<h>>) \o rest
      BY <3>3, Assoc
    <3>. QED
      BY <1>2, <2>2, <3>1, <3>4, <3>5, Zenon DEF Order
  <2>5. CASE h \notin Messages
    <3>1. MessagesIn(inflight') = <<>>
      BY <1>2, <2>1, <2>2, <2>5, FrameAppended
    <3>2. Only(q, Messages) = rest
      BY <1>2, <2>2, <2>5, MessagesOfQueue
    <3>. QED
      BY <1>2, <2>2, <2>3, <3>1, <3>2, Zenon DEF Order
  <2>. QED
    BY <2>4, <2>5
<1>3. CASE /\ ~w /\ q # <<>> /\ handle # "open"
           /\ inflight' = f /\ Close(Tail(q), FALSE, s)
  <2>1. handle' # "open"
    BY <1>3, CloseCases DEF UvClose, handleVars
  <2>2. IsPrefix(wr \o MessagesIn(f), acc)
    <3>1. wr \o MessagesIn(f) \in Seq(Messages) /\ Only(q, Messages) \in Seq(Messages)
      BY <1>0, <1>3, ConcatProperties, MessagesOfQueue
    <3>. QED
      BY <3>1, PrefixOfConcat DEF Order
  <2>. QED
    BY <1>3, <2>1, <2>2 DEF Order
<1>. QED
  BY <1>1, <1>2, <1>3, TrySendCases DEF handleVars

(* A frame was written or lost.                                            *)
LEMMA AnsweredOrder ==
  ASSUME ConnTypeOK, HistoryTypeOK, AtMostOneWrite, InOrder, FrameAnswered,
         NEW wr,
         wr = IF Head(inflight) \in Messages THEN Append(written, Head(inflight))
                                             ELSE written
  PROVE  /\ wr \in Seq(Messages)
         /\ \A w : Order(accepted, wr, Tail(inflight), send_queue_, w, handle)
         /\ \A q : Order(accepted, written, Tail(inflight), q, TRUE, handle)
<1>1. /\ inflight \in Seq(Requests) /\ accepted \in Seq(Messages)
      /\ written \in Seq(Messages) /\ send_queue_ \in Seq(Frames)
      /\ inflight # <<>> /\ FramesIn(inflight) # <<>>
      /\ Tail(inflight) \in Seq(Requests)
      /\ FramesIn(Tail(inflight)) = <<>> /\ MessagesIn(Tail(inflight)) = <<>>
  BY AnsweredFacts DEF ConnTypeOK, QueueOK, HistoryTypeOK
<1>2. PICK h \in Frames : h = Head(inflight)
  BY AnsweredFacts
<1>3. /\ MessagesIn(inflight) \in Seq(Messages)
      /\ Only(send_queue_, Messages) \in Seq(Messages)
  BY <1>1, RequestTypes, OnlyType
<1>4. wr \in Seq(Messages) /\ wr = written \o MessagesIn(inflight)
  <2>1. CASE h \in Messages
    <3>1. MessagesIn(inflight) = <<h>> \o <<>>
      <4>1. MessagesIn(inflight) = <<h>> \o MessagesIn(Tail(inflight))
        BY <1>1, <1>2, <2>1, FrameAnsweredIs
      <4>. QED
        BY <1>1, <4>1, Zenon
    <3>2. <<h>> \o <<>> = <<h>>
      OBVIOUS
    <3>3. wr = Append(written, h)
      BY <1>2, <2>1
    <3>4. Append(written, h) = written \o <<h>> /\ Append(written, h) \in Seq(Messages)
      BY <1>1, <2>1, AppendIsConcat, AppendProperties
    <3>. QED
      BY <3>1, <3>2, <3>3, <3>4, Zenon
  <2>2. CASE h \notin Messages
    <3>1. MessagesIn(inflight) = <<>>
      BY <1>1, <1>2, <2>2, FrameAnsweredIs
    <3>2. written \o <<>> = written
      BY <1>1, ConcatEmptySeq
    <3>. QED
      BY <1>1, <1>2, <2>2, <3>1, <3>2
  <2>. QED
    BY <2>1, <2>2
<1>5. wr \o <<>> = wr /\ written \o <<>> = written
  BY <1>1, <1>4, ConcatEmptySeq
<1>6. \/ accepted = wr \o Only(send_queue_, Messages)
      \/ IsPrefix(wr, accepted) /\ handle # "open"
  BY <1>1, <1>4 DEF InOrder, Order
<1>7. ASSUME NEW w
      PROVE  Order(accepted, wr, Tail(inflight), send_queue_, w, handle)
  BY <1>1, <1>5, <1>6 DEF Order
<1>8. IsPrefix(written, accepted)
  <2>1. IsPrefix(wr, accepted)
    BY <1>3, <1>4, <1>6, PrefixOfConcat
  <2>2. IsPrefix(written, wr)
    BY <1>1, <1>3, <1>4, PrefixOfConcat
  <2>. QED
    BY <1>1, <1>4, <2>1, <2>2, PrefixTransitive
<1>9. ASSUME NEW q
      PROVE  Order(accepted, written, Tail(inflight), q, TRUE, handle)
  BY <1>1, <1>5, <1>8 DEF Order
<1>. QED
  BY <1>4, <1>7, <1>9

(* A frame queued, which may be a message just accepted.                   *)
LEMMA QueuedOrder ==
  ASSUME NEW f \in Seq(Requests), NEW q \in Seq(Frames), NEW m \in Frames,
         NEW acc \in Seq(Messages), NEW wr \in Seq(Messages), NEW w, NEW h,
         Order(acc, wr, f, q, w, h)
  PROVE  /\ m \in Messages => Order(Append(acc, m), wr, f, Append(q, m), w, h)
         /\ m \notin Messages => Order(acc, wr, f, Append(q, m), w, h)
<1>1. PICK base, qm \in Seq(Messages) :
        base = wr \o MessagesIn(f) /\ qm = Only(q, Messages)
  BY RequestTypes, OnlyType, ConcatProperties
<1>2. ASSUME m \in Messages
      PROVE  Order(Append(acc, m), wr, f, Append(q, m), w, h)
  <2>1. Only(Append(q, m), Messages) = Append(qm, m)
    BY <1>1, <1>2, OnlyAppend
  <2>2. CASE acc = base \o qm
    <3>1. Append(base \o qm, m) = base \o Append(qm, m)
      <4>1. base \o qm \in Seq(Messages) /\ <<m>> \in Seq(Messages)
        BY <1>2, ConcatProperties
      <4>2. /\ Append(base \o qm, m) = (base \o qm) \o <<m>>
            /\ Append(qm, m) = qm \o <<m>>
        BY <1>2, <4>1, AppendIsConcat
      <4>3. (base \o qm) \o <<m>> = base \o (qm \o <<m>>)
        BY <4>1, Assoc, SMTT(30)
      <4>. QED
        BY <4>2, <4>3, Zenon
    <3>. QED
      BY <1>1, <2>1, <2>2, <3>1, Zenon DEF Order
  <2>3. CASE IsPrefix(base, acc) /\ (h # "open" \/ (w /\ FramesIn(f) = <<>>))
    <3>1. IsPrefix(base, Append(acc, m))
      BY <1>2, <2>3, PrefixOfAppend
    <3>. QED
      BY <1>1, <2>3, <3>1, Zenon DEF Order
  <2>. QED
    BY <1>1, <2>2, <2>3, Zenon DEF Order
<1>3. ASSUME m \notin Messages
      PROVE  Order(acc, wr, f, Append(q, m), w, h)
  <2>1. Only(Append(q, m), Messages) = Only(q, Messages)
    BY <1>3, OnlyAppend
  <2>. QED
    BY <2>1, Zenon DEF Order
<1>. QED
  BY <1>2, <1>3

(* Order only weakens when the handle is closed.                           *)
LEMMA ClosingOrder ==
  ASSUME NEW acc, NEW wr, NEW f, NEW q, NEW w, NEW h, NEW k,
         Order(acc, wr, f, q, w, h), h # "open" => k # "open"
  PROVE  Order(acc, wr, f, q, w, k)
BY DEF Order

WsSafe == TypeInv /\ AtMostOneWrite

LEMMA OrderStep == WsSafe /\ InOrder /\ [Next]_vars => InOrder'
<1>. SUFFICES ASSUME WsSafe, InOrder, [Next]_vars
              PROVE  Order(accepted', written', inflight', send_queue_',
                           is_writing_', handle')
  BY DEF InOrder, Order, MessagesIn, FramesIn
<1>1. /\ ConnTypeOK /\ HistoryTypeOK /\ AtMostOneWrite
      /\ Single(inflight, is_writing_)
      /\ inflight \in Seq(Requests) /\ send_queue_ \in Seq(Frames)
      /\ accepted \in Seq(Messages) /\ written \in Seq(Messages)
  BY SingleIs, TypeParts
     DEF WsSafe, TypeInv, ConnTypeOK, HistoryTypeOK, QueueOK
<1>2. handle # "open" => handle' # "open"
  BY HandleStays
<1>3. Order(accepted, written, inflight, send_queue_, is_writing_, handle')
  BY <1>2, ClosingOrder DEF InOrder
<1>4. CASE UNCHANGED <<accepted, written, inflight, send_queue_, is_writing_>>
  BY <1>3, <1>4
<1>5. ASSUME NEW m \in Messages, AppSend(m)
      PROVE  Order(accepted', written', inflight', send_queue_', is_writing_', handle')
  <2>1. PICK q : q = Append(send_queue_, m)
    OBVIOUS
  <2>2. m \in Frames /\ SendFrame(m, state_)
    BY <1>5 DEF AppSend, Frames
  <2>3. accepted' = Append(accepted, m) /\ written' = written
    BY <1>5 DEF AppSend
  <2>4. accepted' \in Seq(Messages)
    BY <1>1, <2>3, AppendProperties
  <2>5. Order(accepted', written, inflight, q, is_writing_, handle)
    <3>1. Order(Append(accepted, m), written, inflight, Append(send_queue_, m),
                is_writing_, handle)
      BY <1>1, <2>2, QueuedOrder DEF InOrder
    <3>. QED
      BY <2>1, <2>3, <3>1
  <2>6. q \in Seq(Frames) /\ TrySend(q, is_writing_, inflight, state_)
    BY <1>1, <2>1, <2>2, SendFrameIs
  <2>. QED
    BY <1>1, <2>3, <2>4, <2>5, <2>6, TrySendOrder
<1>6. CASE ProcessPingFrame \/ ProcessCloseFrame
  <2>1. PICK m, s : m \in Frames /\ m \notin Messages /\ SendFrame(m, s)
    BY <1>6, WsConfigAssumption DEF ProcessPingFrame, ProcessCloseFrame, Frames
  <2>2. PICK q : q = Append(send_queue_, m)
    OBVIOUS
  <2>3. accepted' = accepted /\ written' = written
    BY <1>6 DEF ProcessPingFrame, ProcessCloseFrame
  <2>4. Order(accepted, written, inflight, q, is_writing_, handle)
    BY <1>1, <2>1, <2>2, QueuedOrder DEF InOrder
  <2>5. q \in Seq(Frames) /\ TrySend(q, is_writing_, inflight, s)
    BY <1>1, <2>1, <2>2, SendFrameIs
  <2>. QED
    BY <1>1, <2>3, <2>4, <2>5, TrySendOrder
<1>7. CASE AppClose \/ ProcessBadMessage \/ OnHeartbeatTimeout
  BY <1>4, <1>7, CloseCases DEF AppClose, ProcessBadMessage, OnHeartbeatTimeout
<1>8. CASE ReadHandshake
  <2>1. /\ FramesIn(inflight') = FramesIn(inflight)
        /\ MessagesIn(inflight') = MessagesIn(inflight)
        /\ UNCHANGED <<accepted, written, send_queue_, is_writing_>>
    BY <1>1, <1>8, ResponseAppended DEF ReadHandshake
  <2>. QED
    BY <1>3, <2>1 DEF Order
<1>9. CASE OnHandshakeComplete
  <2>1. /\ FramesIn(inflight') = FramesIn(inflight)
        /\ MessagesIn(inflight') = MessagesIn(inflight)
        /\ UNCHANGED <<accepted, written, send_queue_, is_writing_>>
    BY <1>1, <1>9, ResponseAnsweredIs DEF OnHandshakeComplete
  <2>. QED
    BY <1>3, <2>1 DEF Order
<1>10. CASE ReadFrames \/ FramesDone \/ ReadEnds \/ CloseCallback
  BY <1>4, <1>10 DEF ReadFrames, FramesDone, ReadEnds, CloseCallback, sendVars
<1>11. CASE WriteSucceeds
  <2>1. PICK wr :
          wr = IF Head(inflight) \in Messages THEN Append(written, Head(inflight))
                                              ELSE written
    OBVIOUS
  <2>2. FrameAnswered /\ written' = wr /\ accepted' = accepted
    BY <1>11, <2>1 DEF WriteSucceeds, Wrote
  <2>3. wr \in Seq(Messages) /\ Tail(inflight) \in Seq(Requests)
    BY <1>1, <2>1, <2>2, AnsweredOrder, AnsweredFacts
  <2>4. \A w : Order(accepted, wr, Tail(inflight), send_queue_, w, handle)
    BY <1>1, <2>1, <2>2, AnsweredOrder
  <2>5. CASE TrySend(send_queue_, FALSE, Tail(inflight), state_)
    <3>1. Single(Tail(inflight), FALSE)
      BY <1>1, <2>2, AnsweredFacts, EmptySeq DEF Single
    <3>. QED
      BY <1>1, <2>2, <2>3, <2>4, <2>5, <3>1, TrySendOrder
  <2>6. CASE /\ DrainedAfterTrySend /\ send_queue_' = <<>>
             /\ is_writing_' = FALSE /\ inflight' = Tail(inflight)
    <3>1. CASE handle = "open"
      <4>1. Len(send_queue_) <= 0
        BY <2>6, <3>1 DEF DrainedAfterTrySend
      <4>2. send_queue_ = <<>>
        BY <1>1, <4>1, EmptySeq, LenProperties
      <4>3. Order(accepted, wr, Tail(inflight), <<>>, FALSE, handle)
        BY <2>4, <4>2
      <4>. QED
        BY <1>2, <2>2, <2>6, <4>3, ClosingOrder
    <3>2. CASE handle # "open"
      <4>1. PICK base, qm \in Seq(Messages) :
              /\ base = wr \o MessagesIn(Tail(inflight))
              /\ qm = Only(send_queue_, Messages)
        BY <1>1, <2>3, RequestTypes, OnlyType, ConcatProperties
      <4>2. IsPrefix(base, base \o qm)
        BY PrefixOfConcat
      <4>3. Order(accepted, wr, Tail(inflight), send_queue_, FALSE, handle)
        BY <2>4
      <4>4. IsPrefix(base, accepted)
        BY <4>1, <4>2, <4>3, Zenon DEF Order
      <4>. QED
        BY <1>2, <2>2, <2>6, <3>2, <4>1, <4>4 DEF Order
    <3>. QED
      BY <3>1, <3>2
  <2>. QED
    BY <1>11, <2>5, <2>6 DEF WriteSucceeds
<1>12. CASE WriteFails \/ WriteCanceled
  <2>1. /\ FrameAnswered /\ inflight' = Tail(inflight)
        /\ UNCHANGED <<accepted, written, send_queue_, is_writing_>>
    BY <1>12, CloseCases DEF WriteFails, WriteCanceled
  <2>2. is_writing_ /\ is_writing_ \in BOOLEAN
    BY <1>1, <2>1, AnsweredFacts DEF ConnTypeOK
  <2>3. Order(accepted, written, Tail(inflight), send_queue_, TRUE, handle)
    BY <1>1, <2>1, AnsweredOrder
  <2>4. Order(accepted, written, Tail(inflight), send_queue_, is_writing_, handle)
    BY <2>2, <2>3
  <2>. QED
    BY <1>2, <2>1, <2>4, ClosingOrder
<1>13. CASE UNCHANGED vars
  BY <1>4, <1>13 DEF vars, sendVars
<1>. QED
  BY <1>5, <1>6, <1>7, <1>8, <1>9, <1>10, <1>11, <1>12, <1>13 DEF Next

LEMMA OrderGivesPrefix == TypeInv /\ InOrder => MessagesInOrder
<1>. SUFFICES ASSUME TypeInv, InOrder PROVE IsPrefix(written, accepted)
  BY DEF MessagesInOrder
<1>1. /\ inflight \in Seq(Requests) /\ accepted \in Seq(Messages)
      /\ written \in Seq(Messages) /\ send_queue_ \in Seq(Frames)
  BY TypeParts DEF TypeInv, ConnTypeOK, HistoryTypeOK, QueueOK
<1>2. PICK base, qm, fm \in Seq(Messages) :
        /\ base = written \o fm /\ fm = MessagesIn(inflight)
        /\ qm = Only(send_queue_, Messages)
  BY <1>1, RequestTypes, OnlyType, ConcatProperties
<1>3. IsPrefix(written, base) /\ IsPrefix(base, base \o qm)
  BY <1>1, <1>2, PrefixOfConcat
<1>4. IsPrefix(base, accepted)
  BY <1>2, <1>3, Zenon DEF InOrder, Order
<1>. QED
  BY <1>1, <1>3, <1>4, PrefixTransitive

LEMMA InitOrder == Init => InOrder
<1>1. Only(<<>>, Messages) = <<>> /\ <<>> \o <<>> = <<>>
  BY OnlyNone
<1>. QED
  BY <1>1 DEF Init, InOrder, Order, MessagesIn

LEMMA WsOrderInv == Spec => [](WsSafe /\ InOrder)
<1>1. Init => WsSafe /\ InOrder
  BY InitType, InitOneWrite, InitOrder DEF WsSafe
<1>2. WsSafe /\ InOrder /\ [Next]_vars => (WsSafe /\ InOrder)'
  BY TypeStep, OneWriteStep, OrderStep DEF WsSafe
<1>. QED
  BY <1>1, <1>2, PTL DEF Spec

(***************************************************************************)
(* The application's messages are written in the order Send took them,     *)
(* none twice and none skipped, whatever control frames are among them and *)
(* wherever a write fails or the peer goes away.                           *)
(***************************************************************************)
THEOREM WsMessagesInOrder == Spec => []MessagesInOrder
<1>1. WsSafe /\ InOrder => MessagesInOrder
  BY OrderGivesPrefix DEF WsSafe
<1>. QED
  BY <1>1, WsOrderInv, PTL

------------------------------------------------------------------------------
(***************************************************************************)
(* A connection that has closed its own handle has nothing left to write.  *)
(* An answer to the handshake may set the state to OPEN again, and Send    *)
(* then takes another message: its write is refused and Close asks for the *)
(* handle to be closed a second time, which ends the process.              *)
(***************************************************************************)
ClosedInv ==
  /\ closeCb => handle # "open"
  /\ closeCb /\ ~aborted =>
       ~is_writing_ /\ send_queue_ = <<>> /\ written = accepted

LEMMA UvCloseClosed ==
  ASSUME NEW cb, UvClose(cb), closeCb => handle # "open"
  PROVE  /\ closeCb' => handle' # "open"
         /\ ~aborted' => /\ ~aborted /\ handle = "open" /\ closeCb' = cb
BY DEF UvClose

LEMMA CloseClosed ==
  ASSUME NEW q, NEW w, NEW s, Close(q, w, s), closeCb => handle # "open"
  PROVE  /\ closeCb' => handle' # "open"
         /\ closeCb' /\ ~aborted' =>
              \/ /\ closeCb /\ ~aborted
                 /\ CloseIgnored(s) \/ ~NothingToSend(q, w)
              \/ handle = "open" /\ NothingToSend(q, w)
BY CloseCases, UvCloseClosed DEF handleVars

LEMMA TrySendClosed ==
  ASSUME NEW q, NEW w, NEW f, NEW s, TrySend(q, w, f, s),
         closeCb => handle # "open"
  PROVE  /\ closeCb' => handle' # "open"
         /\ closeCb' /\ ~aborted' =>
              /\ closeCb /\ ~aborted
              /\ \/ /\ w \/ q = <<>>
                    /\ send_queue_' = q /\ is_writing_' = w
                 \/ /\ ~w /\ q # <<>>
                    /\ send_queue_' = Tail(q) /\ is_writing_' = FALSE
                    /\ CloseIgnored(s) \/ Tail(q) # <<>>
<1>1. CASE /\ w \/ q = <<>>
           /\ send_queue_' = q /\ is_writing_' = w
           /\ UNCHANGED handleVars
  BY <1>1 DEF handleVars
<1>2. CASE handle = "open" /\ UNCHANGED handleVars
  BY <1>2 DEF handleVars
<1>3. CASE ~w /\ q # <<>> /\ handle # "open" /\ Close(Tail(q), FALSE, s)
  BY <1>3, CloseCases, CloseClosed DEF NothingToSend
<1>. QED
  BY <1>1, <1>2, <1>3, TrySendCases

LEMMA ClosedStep == WsSafe /\ InOrder /\ ClosedInv /\ [Next]_vars => ClosedInv'
<1>. SUFFICES ASSUME WsSafe, InOrder, ClosedInv, [Next]_vars
              PROVE  ClosedInv'
  OBVIOUS
<1>1. /\ ConnTypeOK /\ HistoryTypeOK /\ AtMostOneWrite
      /\ inflight \in Seq(Requests) /\ send_queue_ \in Seq(Frames)
      /\ accepted \in Seq(Messages) /\ written \in Seq(Messages)
      /\ closeCb => handle # "open"
  BY TypeParts
     DEF WsSafe, TypeInv, ConnTypeOK, HistoryTypeOK, QueueOK, ClosedInv
<1>2. CASE UNCHANGED <<closeCb, aborted, handle, is_writing_, send_queue_,
                       written, accepted>>
  BY <1>2 DEF ClosedInv
<1>3. ASSUME NEW m \in Messages, AppSend(m)
      PROVE  ClosedInv'
  <2>1. PICK q : q = Append(send_queue_, m)
    OBVIOUS
  <2>2. m \in Frames /\ SendFrame(m, state_)
    BY <1>3 DEF AppSend, Frames
  <2>3. /\ TrySend(q, is_writing_, inflight, state_) /\ q # <<>>
        /\ send_queue_ = <<>> => Tail(q) = <<>>
    BY <1>1, <2>1, <2>2, SendFrameIs
  <2>4. ~CloseIgnored(state_)
    BY <1>3 DEF AppSend, SendAccepts, CloseIgnored
  <2>5. closeCb' => handle' # "open"
    BY <1>1, <2>3, TrySendClosed
  <2>6. ASSUME closeCb', ~aborted'
        PROVE  FALSE
    <3>1. /\ closeCb /\ ~aborted
          /\ is_writing_ \/ Tail(q) # <<>>
      <4>1. closeCb' /\ ~aborted' =>
              /\ closeCb /\ ~aborted
              /\ \/ /\ is_writing_ \/ q = <<>>
                    /\ send_queue_' = q /\ is_writing_' = is_writing_
                 \/ /\ ~is_writing_ /\ q # <<>>
                    /\ send_queue_' = Tail(q) /\ is_writing_' = FALSE
                    /\ CloseIgnored(state_) \/ Tail(q) # <<>>
        BY <1>1, <2>3, TrySendClosed
      <4>. QED
        BY <2>3, <2>4, <2>6, <4>1
    <3>. QED
      BY <2>3, <3>1 DEF ClosedInv
  <2>. QED
    BY <2>5, <2>6 DEF ClosedInv
<1>4. CASE ProcessPingFrame \/ ProcessCloseFrame
  <2>1. PICK m, s : m \in Frames /\ SendFrame(m, s)
    BY <1>4 DEF ProcessPingFrame, ProcessCloseFrame, Frames
  <2>2. PICK q : q = Append(send_queue_, m)
    OBVIOUS
  <2>3. /\ TrySend(q, is_writing_, inflight, s) /\ q # <<>>
        /\ send_queue_ = <<>> => Tail(q) = <<>>
    BY <1>1, <2>1, <2>2, SendFrameIs
  <2>4. written' = written /\ accepted' = accepted
    BY <1>4 DEF ProcessPingFrame, ProcessCloseFrame
  <2>5. closeCb' => handle' # "open"
    BY <1>1, <2>3, TrySendClosed
  <2>6. ASSUME closeCb', ~aborted'
        PROVE  ~is_writing_' /\ send_queue_' = <<>> /\ written' = accepted'
    <3>1. /\ closeCb /\ ~aborted
          /\ is_writing_ \/ (send_queue_' = Tail(q) /\ ~is_writing_')
      <4>1. closeCb' /\ ~aborted' =>
              /\ closeCb /\ ~aborted
              /\ \/ /\ is_writing_ \/ q = <<>>
                    /\ send_queue_' = q /\ is_writing_' = is_writing_
                 \/ /\ ~is_writing_ /\ q # <<>>
                    /\ send_queue_' = Tail(q) /\ is_writing_' = FALSE
                    /\ CloseIgnored(s) \/ Tail(q) # <<>>
        BY <1>1, <2>3, TrySendClosed
      <4>. QED
        BY <2>3, <2>6, <4>1
    <3>. QED
      BY <2>3, <2>4, <3>1 DEF ClosedInv
  <2>. QED
    BY <2>5, <2>6 DEF ClosedInv
<1>5. CASE AppClose \/ ProcessBadMessage \/ OnHeartbeatTimeout
  <2>1. /\ Close(send_queue_, is_writing_, state_)
        /\ UNCHANGED <<inflight, accepted, written>>
    BY <1>5 DEF AppClose, ProcessBadMessage, OnHeartbeatTimeout
  <2>2. closeCb' => handle' # "open"
    BY <1>1, <2>1, CloseClosed
  <2>3. send_queue_' = send_queue_ /\ is_writing_' = is_writing_
    BY <2>1, CloseCases
  <2>4. ASSUME closeCb', ~aborted', ~(closeCb /\ ~aborted)
        PROVE  ~is_writing_ /\ send_queue_ = <<>> /\ written = accepted
    <3>1. handle = "open" /\ ~is_writing_ /\ send_queue_ = <<>>
      BY <1>1, <2>1, <2>4, CloseClosed DEF NothingToSend
    <3>2. FramesIn(inflight) = <<>> /\ MessagesIn(inflight) = <<>>
      BY <1>1, <3>1, SingleIs, RequestTypes DEF Single
    <3>3. Only(<<>>, Messages) = <<>> /\ written \o <<>> = written
      BY <1>1, OnlyNone, ConcatEmptySeq
    <3>4. accepted = (written \o <<>>) \o <<>>
      BY <3>1, <3>2, <3>3 DEF InOrder, Order
    <3>. QED
      BY <3>1, <3>3, <3>4
  <2>. QED
    BY <2>1, <2>2, <2>3, <2>4 DEF ClosedInv
<1>6. CASE ReadHandshake \/ ReadFrames \/ FramesDone \/ OnHandshakeComplete
  BY <1>2, <1>6
     DEF ReadHandshake, ReadFrames, FramesDone, OnHandshakeComplete,
         handleVars, sendVars
<1>7. CASE ReadEnds
  BY <1>1, <1>7, UvCloseClosed DEF ReadEnds, ClosedInv, sendVars
<1>8. CASE WriteSucceeds
  <2>1. PICK wr :
          wr = IF Head(inflight) \in Messages THEN Append(written, Head(inflight))
                                              ELSE written
    OBVIOUS
  <2>2. FrameAnswered /\ written' = wr /\ accepted' = accepted
    BY <1>8, <2>1 DEF WriteSucceeds, Wrote
  <2>3. is_writing_ /\ ~(closeCb /\ ~aborted)
    BY <1>1, <2>2, AnsweredFacts DEF ClosedInv
  <2>4. CASE TrySend(send_queue_, FALSE, Tail(inflight), state_)
    <3>1. /\ closeCb' => handle' # "open"
          /\ ~(closeCb' /\ ~aborted')
      BY <1>1, <2>3, <2>4, TrySendClosed
    <3>. QED
      BY <3>1 DEF ClosedInv
  <2>5. CASE /\ DrainedAfterTrySend /\ send_queue_' = <<>>
             /\ is_writing_' = FALSE /\ UvClose(TRUE)
    <3>1. /\ closeCb' => handle' # "open"
          /\ ~aborted' => handle = "open"
      BY <1>1, <2>5, UvCloseClosed
    <3>2. ASSUME handle = "open"
          PROVE  wr = accepted
      <4>1. Len(send_queue_) <= 0
        BY <2>5, <3>2 DEF DrainedAfterTrySend
      <4>2. send_queue_ = <<>>
        BY <1>1, <4>1, EmptySeq, LenProperties
      <4>3. /\ wr \in Seq(Messages) /\ MessagesIn(Tail(inflight)) = <<>>
            /\ Order(accepted, wr, Tail(inflight), send_queue_, FALSE, handle)
        BY <1>1, <2>1, <2>2, AnsweredOrder, AnsweredFacts
      <4>4. Only(<<>>, Messages) = <<>> /\ wr \o <<>> = wr
        BY <4>3, OnlyNone, ConcatEmptySeq
      <4>5. accepted = (wr \o <<>>) \o <<>>
        BY <3>2, <4>2, <4>3, <4>4 DEF Order
      <4>. QED
        BY <4>4, <4>5
    <3>. QED
      BY <2>2, <2>5, <3>1, <3>2 DEF ClosedInv
  <2>. QED
    BY <1>8, <2>4, <2>5 DEF WriteSucceeds
<1>9. CASE WriteFails \/ WriteCanceled
  <2>1. FrameAnswered
    BY <1>9 DEF WriteFails, WriteCanceled
  <2>2. is_writing_ /\ ~(closeCb /\ ~aborted)
    BY <1>1, <2>1, AnsweredFacts DEF ClosedInv
  <2>3. CASE WriteFails
    <3>1. Close(send_queue_, is_writing_, state_)
      BY <2>3 DEF WriteFails
    <3>2. /\ closeCb' => handle' # "open"
          /\ ~(closeCb' /\ ~aborted')
      BY <1>1, <2>2, <3>1, CloseClosed DEF NothingToSend
    <3>. QED
      BY <3>2 DEF ClosedInv
  <2>4. CASE WriteCanceled
    BY <1>1, <2>2, <2>4 DEF WriteCanceled, ClosedInv, handleVars
  <2>. QED
    BY <1>9, <2>3, <2>4
<1>10. CASE CloseCallback
  BY <1>10 DEF CloseCallback, ClosedInv, sendVars
<1>11. CASE UNCHANGED vars
  BY <1>2, <1>11 DEF vars, handleVars, sendVars
<1>. QED
  BY <1>3, <1>4, <1>5, <1>6, <1>7, <1>8, <1>9, <1>10, <1>11 DEF Next

(***************************************************************************)
(* A connection that closes its own handle has written every message Send  *)
(* took, and takes none afterwards.                                        *)
(***************************************************************************)
THEOREM WsDeliberateCloseLosesNothing == Spec => []DeliberateCloseLosesNothing
<1>1. Init => ClosedInv
  BY DEF Init, ClosedInv
<1>2. ClosedInv => DeliberateCloseLosesNothing
  BY DEF ClosedInv, DeliberateCloseLosesNothing
<1>. QED
  BY <1>1, <1>2, ClosedStep, WsOrderInv, PTL DEF Spec

------------------------------------------------------------------------------
(***************************************************************************)
(* Before the first response is answered nothing of the connection but the *)
(* handshake happens.  A Close then leaves the state CLOSING, in which     *)
(* data received would be parsed, but the handle is no longer open.        *)
(***************************************************************************)
HandshakeInv ==
  opened = 1 =>
    /\ ~parsing /\ send_queue_ = <<>> /\ ~is_writing_ /\ accepted = <<>>
    /\ state_ # "OPEN"
    /\ state_ # "HANDSHAKE" => handle # "open"

LEMMA HandshakeStep == WsSafe /\ HandshakeInv /\ [Next]_vars => HandshakeInv'
<1>. SUFFICES ASSUME WsSafe, HandshakeInv, [Next]_vars
              PROVE  HandshakeInv'
  OBVIOUS
<1>1. ConnTypeOK /\ HistoryTypeOK /\ AtMostOneWrite
  BY TypeParts DEF WsSafe, TypeInv
<1>2. handle # "open" => handle' # "open"
  BY HandleStays
<1>3. CASE opened' = opened + 1
  <2>1. opened \in Nat /\ opened # 0
    BY <1>1 DEF HistoryTypeOK
  <2>. QED
    BY <1>3, <2>1 DEF HandshakeInv
<1>4. ASSUME opened = 1, opened' = opened
      PROVE  HandshakeInv'
  <2>1. /\ ~parsing /\ send_queue_ = <<>> /\ ~is_writing_ /\ accepted = <<>>
        /\ state_ # "OPEN" /\ (state_ # "HANDSHAKE" => handle # "open")
    BY <1>4 DEF HandshakeInv
  <2>2. ASSUME UNCHANGED <<parsing, send_queue_, is_writing_, accepted, state_>>
        PROVE  HandshakeInv'
    BY <1>2, <2>1, <2>2 DEF HandshakeInv
  <2>3. ASSUME NEW m \in Messages, AppSend(m)
        PROVE  FALSE
    BY <2>1, <2>3 DEF AppSend, SendAccepts
  <2>4. CASE AppClose \/ OnHeartbeatTimeout
    <3>1. /\ Close(send_queue_, is_writing_, state_)
          /\ UNCHANGED <<parsing, accepted>>
      BY <2>4 DEF AppClose, OnHeartbeatTimeout
    <3>2. CASE CloseIgnored(state_)
      BY <2>2, <3>1, <3>2 DEF Close
    <3>3. CASE ~CloseIgnored(state_)
      <4>1. /\ state_' = "CLOSING" /\ UvClose(TRUE)
            /\ send_queue_' = send_queue_ /\ is_writing_' = is_writing_
        BY <2>1, <3>1, <3>3 DEF Close, NothingToSend
      <4>2. handle' # "open"
        BY <4>1 DEF UvClose
      <4>. QED
        BY <2>1, <3>1, <4>1, <4>2 DEF HandshakeInv
    <3>. QED
      BY <3>2, <3>3
  <2>5. CASE ReadHandshake \/ ReadEnds
    BY <2>2, <2>5 DEF ReadHandshake, ReadEnds, flagVars, sendVars
  <2>6. CASE ReadFrames
    BY <2>1, <2>6 DEF ReadFrames
  <2>7. CASE ProcessBadMessage \/ ProcessPingFrame \/ ProcessCloseFrame \/ FramesDone
    BY <2>1, <2>7
       DEF ProcessBadMessage, ProcessPingFrame, ProcessCloseFrame, FramesDone
  <2>8. CASE WriteSucceeds \/ WriteFails \/ WriteCanceled
    <3>1. is_writing_
      BY <1>1, <2>8, AnsweredFacts DEF WriteSucceeds, WriteFails, WriteCanceled
    <3>. QED
      BY <2>1, <3>1
  <2>9. CASE CloseCallback
    BY <2>1, <2>9 DEF CloseCallback, HandshakeInv, sendVars
  <2>10. CASE UNCHANGED vars
    BY <2>2, <2>10 DEF vars, sendVars, flagVars
  <2>11. CASE OnHandshakeComplete
    BY <1>4, <2>11 DEF OnHandshakeComplete
  <2>. QED
    BY <2>3, <2>4, <2>5, <2>6, <2>7, <2>8, <2>9, <2>10, <2>11 DEF Next
<1>5. CASE opened # 1 /\ opened' = opened
  BY <1>5 DEF HandshakeInv
<1>6. opened' = opened \/ opened' = opened + 1
  BY DEF Next, AppSend, AppClose, ReadHandshake, ReadFrames,
         ProcessBadMessage, ProcessPingFrame, ProcessCloseFrame, FramesDone,
         ReadEnds, OnHandshakeComplete, WriteSucceeds, WriteFails,
         WriteCanceled, OnHeartbeatTimeout, CloseCallback, vars
<1>. QED
  BY <1>3, <1>4, <1>5, <1>6

LEMMA HandshakeInvGives == TypeInv /\ HandshakeInv => HandshakeFirst
<1>. SUFFICES ASSUME TypeInv, HandshakeInv, opened # 1 => opened > 1
              PROVE  HandshakeFirst
  BY TypeParts DEF TypeInv, HistoryTypeOK
<1>. QED
  BY DEF HandshakeInv, HandshakeFirst

(***************************************************************************)
(* No frame is queued, under way or written, and no message taken, before  *)
(* a response to the handshake has been answered, by whatever way the      *)
(* state became OPEN or CLOSING.                                           *)
(***************************************************************************)
THEOREM WsHandshakeFirst == Spec => []HandshakeFirst
<1>1. Init => HandshakeInv
  BY DEF Init, HandshakeInv
<1>2. WsSafe /\ HandshakeInv => HandshakeFirst
  BY HandshakeInvGives DEF WsSafe
<1>. QED
  BY <1>1, <1>2, HandshakeStep, WsOrderInv, PTL DEF Spec
=============================================================================
