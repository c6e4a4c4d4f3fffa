-------------------------- MODULE UdpServerProofs --------------------------
(***************************************************************************)
(* Proofs about the UDP server: the theorems hold for any set of sockets   *)
(* and of peers, any datagrams, any size of the buffer and of the heap.    *)
(***************************************************************************)
EXTENDS UdpServer, FixSizeProofs, FiniteSetTheorems

------------------------------------------------------------------------------
(* What the receive callback makes of a datagram.                          *)

LEMMA FittingFits ==
  ASSUME NEW data \in Seq(Byte)
  PROVE  Fitting(data) \in Seq(Byte) /\ Len(Fitting(data)) <= ReadBufferSize
<1>1. CASE Len(data) <= ReadBufferSize
  BY <1>1 DEF Fitting
<1>2. CASE ~(Len(data) <= ReadBufferSize)
  <2>1. ReadBufferSize \in Nat /\ Len(data) \in Nat
    BY UdpAssumption
  <2>2. \A i \in 1 .. ReadBufferSize : data[i] \in Byte
    BY <1>2, <2>1
  <2>3. /\ SubSeq(data, 1, ReadBufferSize) \in Seq(Byte)
        /\ Len(SubSeq(data, 1, ReadBufferSize)) <= ReadBufferSize
    BY <2>1, <2>2, SubSeqProperties
  <2>. QED
    BY <1>2, <2>3 DEF Fitting
<1>. QED
  BY <1>1, <1>2

LEMMA MessageIsBeginning ==
  ASSUME NEW data \in Seq(Byte), HasMessage(data)
  PROVE  /\ Message(data) \in Seq(Byte)
         /\ Len(Message(data)) <= Len(data)
         /\ SubSeq(data, 1, Len(Message(data))) = Message(data)
<1>1. CASE ~hasProtocol
  <2>1. SubSeq(data, 1, Len(data)) = data
    BY SubSeqFull
  <2>. QED
    BY <1>1, <2>1 DEF Message
<1>2. CASE hasProtocol
  <2>1. PICK n \in Nat : n = SizeField(data) /\ n <= Len(data)
    BY <1>2, FullHasSize DEF HasMessage, HeaderSize
  <2>2. \A i \in 1 .. n : data[i] \in Byte
    BY <2>1
  <2>3. SubSeq(data, 1, n) \in Seq(Byte) /\ Len(SubSeq(data, 1, n)) = n
    BY <2>1, <2>2, SubSeqProperties
  <2>. QED
    BY <1>2, <2>1, <2>3 DEF Message
<1>. QED
  BY <1>1, <1>2

(* Writing data to the beginning of a block with the contents old.         *)
LEMMA WrittenOver ==
  ASSUME NEW data \in Seq(Byte), NEW old \in Seq(Byte), NEW size \in Nat,
         Len(data) <= size, Len(old) <= size
  PROVE  /\ data \o SubSeq(old, Len(data) + 1, Len(old)) \in Seq(Byte)
         /\ Len(data \o SubSeq(old, Len(data) + 1, Len(old))) <= size
         /\ Len(data) <= Len(data \o SubSeq(old, Len(data) + 1, Len(old)))
         /\ \A n \in 0 .. Len(data) :
              SubSeq(data \o SubSeq(old, Len(data) + 1, Len(old)), 1, n)
                = SubSeq(data, 1, n)
<1>1. PICK rest : rest = SubSeq(old, Len(data) + 1, Len(old))
  OBVIOUS
<1>2. Len(data) \in Nat /\ Len(old) \in Nat
  BY LenProperties
<1>3. rest \in Seq(Byte) /\ Len(rest) = IF Len(data) < Len(old)
                                        THEN Len(old) - Len(data) ELSE 0
  <2>1. \A i \in Len(data) + 1 .. Len(old) : old[i] \in Byte
    BY <1>2
  <2>. QED
    BY <1>1, <1>2, <2>1, SubSeqProperties
<1>4. data \o rest \in Seq(Byte) /\ Len(data \o rest) = Len(data) + Len(rest)
  BY <1>3, ConcatProperties
<1>5. ASSUME NEW n \in 0 .. Len(data)
      PROVE  SubSeq(data \o rest, 1, n) = SubSeq(data, 1, n)
  <2>1. CASE n = 0
    BY <2>1, SubSeqEmpty
  <2>2. CASE n # 0
    <3>1. n \in 1 .. Len(data) /\ 1 \in 1 .. Len(data)
      BY <1>2, <2>2
    <3>. QED
      BY <1>3, <3>1, SubSeqOfConcat1
  <2>. QED
    BY <2>1, <2>2
<1>. QED
  BY <1>1, <1>2, <1>3, <1>4, <1>5

------------------------------------------------------------------------------
(***************************************************************************)
(* Types.  The copy of a message that Send makes is no longer than the     *)
(* buffer because the buffer holds the message.                            *)
(***************************************************************************)
MessageHeld ==
  callback.stage = "message" =>
    /\ Len(callback.message) <= Len(memory[callback.block])
    /\ SubSeq(memory[callback.block], 1, Len(callback.message))
         = callback.message

TypeInv == TypeOK /\ MessageHeld

LEMMA CallbackShape ==
  ASSUME TypeOK
  PROVE  /\ callback = NoCallback <=> callback.stage = "none"
         /\ callback # NoCallback =>
              callback.socket \in Socket /\ callback.block \in Block
         /\ callback.stage = "message" =>
              callback.from \in Peer /\ callback.message \in Seq(Byte)
         /\ NoCallback.stage = "none"
BY DEF TypeOK, Callback, NoCallback

LEMMA ReturningType ==
  ASSUME TypeOK, callback # NoCallback
  PROVE  Returning \in Callback /\ Returning.stage = "return"
BY CallbackShape DEF Returning, Callback

(* A buffer acquired or released.                                          *)
LEMMA PoolType ==
  ASSUME PoolTypeOK, NEW b \in Block, AcquireBuffer(b) \/ ReleaseBuffer(b)
  PROVE  PoolTypeOK'
<1>1. CASE free_buffers_ # <<>> /\ AcquireBuffer(b)
  <2>1. Tail(free_buffers_) \in Seq(Block)
    BY <1>1, HeadTailProperties DEF PoolTypeOK
  <2>. QED
    BY <1>1, <2>1 DEF PoolTypeOK, AcquireBuffer
<1>2. CASE free_buffers_ = <<>> /\ AcquireBuffer(b)
  BY <1>2 DEF PoolTypeOK, AcquireBuffer, New
<1>3. CASE ReleaseBuffer(b)
  <2>1. Append(free_buffers_, b) \in Seq(Block)
    BY AppendProperties DEF PoolTypeOK
  <2>. QED
    BY <1>3, <2>1 DEF PoolTypeOK, ReleaseBuffer
<1>. QED
  BY <1>1, <1>2, <1>3

(* A member of a sequence of sequences, replaced.                          *)
LEMMA QueuesAppend ==
  ASSUME NEW I, NEW S, NEW q \in [I -> Seq(S)], NEW i \in I, NEW e \in S
  PROVE  [q EXCEPT ![i] = Append(@, e)] \in [I -> Seq(S)]
<1>1. Append(q[i], e) \in Seq(S)
  BY AppendProperties
<1>. QED
  BY <1>1

LEMMA QueuesTail ==
  ASSUME NEW I, NEW S, NEW q \in [I -> Seq(S)], NEW i \in I, q[i] # <<>>
  PROVE  /\ [q EXCEPT ![i] = Tail(@)] \in [I -> Seq(S)]
         /\ Head(q[i]) \in S
<1>1. Tail(q[i]) \in Seq(S) /\ Head(q[i]) \in S
  BY HeadTailProperties
<1>. QED
  BY <1>1

LEMMA ReceiveType ==
  ASSUME TypeInv, Receive
  PROVE  TypeInv'
<1>1. PICK s, d, data, blk, mem, old :
        /\ s = callback.socket /\ d = Head(kernel[s]) /\ data = Fitting(d.data)
        /\ blk = callback.block /\ old = memory[blk]
        /\ mem = data \o SubSeq(old, Len(data) + 1, Len(old))
  OBVIOUS
<1>2. s \in Socket /\ blk \in Block
  BY <1>1, CallbackShape DEF TypeInv, Receive
<1>3. /\ kernel[s] # <<>> /\ kernel' = [kernel EXCEPT ![s] = Tail(@)]
      /\ taken' = Append(taken, d)
      /\ memory' = [memory EXCEPT ![blk] = mem]
      /\ \/ /\ data # <<>> /\ HasMessage(data)
            /\ callback' = [stage |-> "message", socket |-> s, block |-> blk,
                            from |-> d.from, message |-> Message(data)]
            /\ delivered' = Append(delivered,
                              [from |-> d.from, data |-> Message(data)])
         \/ callback' = Returning /\ delivered' = delivered
  BY <1>1, <1>2 DEF Receive, TypeInv, TypeOK
<1>4. UNCHANGED <<poolVars, hasProtocol, socket, arrivals, errors, sending,
                  completed, refused>>
  BY DEF Receive
<1>5. kernel' \in [Socket -> Seq(Datagram)] /\ d \in Datagram
  BY <1>1, <1>2, <1>3, QueuesTail DEF TypeInv, TypeOK
<1>6. taken' \in Seq(Datagram)
  BY <1>3, <1>5, AppendProperties DEF TypeInv, TypeOK
<1>7. /\ d.from \in Peer /\ d.data \in Seq(Byte)
      /\ data \in Seq(Byte) /\ Len(data) <= ReadBufferSize
  BY <1>1, <1>5, FittingFits, UdpAssumption DEF Datagram
<1>8. /\ mem \in Seq(Byte) /\ Len(mem) <= ReadBufferSize
      /\ Len(data) <= Len(mem)
      /\ \A n \in 0 .. Len(data) : SubSeq(mem, 1, n) = SubSeq(data, 1, n)
  <2>1. old \in Seq(Byte) /\ Len(old) <= ReadBufferSize
    BY <1>1, <1>2 DEF TypeInv, TypeOK
  <2>2. mem = data \o SubSeq(old, Len(data) + 1, Len(old))
    BY <1>1
  <2>. QED
    BY <1>7, <2>1, <2>2, WrittenOver, UdpAssumption
<1>9. /\ memory' \in [Block -> Seq(Byte)] /\ memory'[blk] = mem
      /\ \A b \in Block : Len(memory'[b]) <= ReadBufferSize
  BY <1>2, <1>3, <1>8 DEF TypeInv, TypeOK
<1>10. PoolTypeOK'
  BY <1>4 DEF TypeInv, TypeOK, PoolTypeOK, poolVars
<1>11. CASE callback' = Returning /\ delivered' = delivered
  <2>1. callback' \in Callback /\ callback'.stage = "return"
    BY <1>11, ReturningType, CallbackShape DEF TypeInv, Receive
  <2>. QED
    BY <1>4, <1>5, <1>6, <1>9, <1>10, <1>11, <2>1
       DEF TypeInv, TypeOK, MessageHeld
<1>12. CASE /\ data # <<>> /\ HasMessage(data)
            /\ callback' = [stage |-> "message", socket |-> s, block |-> blk,
                            from |-> d.from, message |-> Message(data)]
            /\ delivered' = Append(delivered,
                              [from |-> d.from, data |-> Message(data)])
  <2>1. PICK m : m = Message(data)
    OBVIOUS
  <2>2. m \in Seq(Byte) /\ Len(m) <= Len(data) /\ SubSeq(data, 1, Len(m)) = m
    BY <1>7, <1>12, <2>1, MessageIsBeginning
  <2>3. callback' \in Callback
    BY <1>2, <1>7, <1>12, <2>1, <2>2 DEF Callback
  <2>4. delivered' \in Seq([from : Peer, data : Seq(Byte)])
    <3>1. [from |-> d.from, data |-> m] \in [from : Peer, data : Seq(Byte)]
      BY <1>7, <2>2
    <3>. QED
      BY <1>12, <2>1, <3>1, AppendProperties DEF TypeInv, TypeOK
  <2>5. MessageHeld'
    <3>1. /\ callback'.message = m /\ callback'.block = blk
          /\ Len(m) \in 0 .. Len(data) /\ Len(data) \in Nat /\ Len(mem) \in Nat
      BY <1>7, <1>8, <1>12, <2>1, <2>2, LenProperties
    <3>2. SubSeq(mem, 1, Len(m)) = m /\ Len(m) <= Len(mem)
      BY <1>8, <2>2, <3>1
    <3>. QED
      BY <1>9, <3>1, <3>2 DEF MessageHeld
  <2>. QED
    BY <1>4, <1>5, <1>6, <1>9, <1>10, <2>3, <2>4, <2>5 DEF TypeInv, TypeOK
<1>. QED
  BY <1>3, <1>11, <1>12

LEMMA SendType ==
  ASSUME TypeInv, Send
  PROVE  TypeInv'
<1>1. /\ callback # NoCallback /\ callback.socket \in Socket
      /\ callback.block \in Block /\ callback.from \in Peer
      /\ callback.message \in Seq(Byte)
  BY CallbackShape DEF TypeInv, Send
<1>2. PICK b, req :
        /\ b \in Block
        /\ req = [to |-> callback.from, block |-> b,
                  answer |-> callback.message]
        /\ Copy(b)
        /\ \/ /\ completed' = [completed EXCEPT ![callback.socket] = Append(@, req)]
              /\ UNCHANGED <<sending, refused>>
           \/ /\ sending' = [sending EXCEPT ![callback.socket] = Append(@, req)]
              /\ UNCHANGED <<completed, refused>>
           \/ /\ refused' = refused \cup {b}
              /\ UNCHANGED <<sending, completed>>
  BY DEF Send
<1>3. UNCHANGED <<free_buffers_, hasProtocol, socket, kernel, arrivals, errors,
                  callback, taken, delivered>>
  BY DEF Send
<1>4. req \in Request
  BY <1>1, <1>2 DEF Request
<1>5. /\ sending' \in [Socket -> Seq(Request)]
      /\ completed' \in [Socket -> Seq(Request)]
      /\ refused' \subseteq Block
  <2>1. /\ [sending EXCEPT ![callback.socket] = Append(@, req)]
             \in [Socket -> Seq(Request)]
        /\ [completed EXCEPT ![callback.socket] = Append(@, req)]
             \in [Socket -> Seq(Request)]
    <3>1. sending \in [Socket -> Seq(Request)] /\ completed \in [Socket -> Seq(Request)]
      BY DEF TypeInv, TypeOK
    <3>2. callback.socket \in Socket
      BY <1>1
    <3>. QED
      BY <1>4, <3>1, <3>2, QueuesAppend
  <2>. QED
    BY <1>2, <2>1 DEF TypeInv, TypeOK
<1>6. PICK copy : copy = SubSeq(memory[callback.block], 1, Len(callback.message))
  OBVIOUS
<1>7. /\ allocated' = allocated \cup {b} /\ b \notin allocated
      /\ memory' = [memory EXCEPT ![b] = copy]
  BY <1>2, <1>6 DEF Copy, New
<1>8. /\ copy = callback.message /\ copy \in Seq(Byte)
      /\ Len(copy) <= Len(memory[callback.block])
  BY <1>1, <1>6 DEF TypeInv, MessageHeld, Send
<1>9. Len(copy) <= ReadBufferSize
  <2>1. /\ Len(copy) \in Nat /\ ReadBufferSize \in Nat
        /\ Len(memory[callback.block]) \in Nat
        /\ Len(memory[callback.block]) <= ReadBufferSize
    BY <1>1, <1>8, UdpAssumption DEF TypeInv, TypeOK
  <2>. QED
    BY <1>8, <2>1
<1>10. /\ memory' \in [Block -> Seq(Byte)]
       /\ \A c \in Block : Len(memory'[c]) <= ReadBufferSize
  BY <1>7, <1>8, <1>9 DEF TypeInv, TypeOK
<1>11. PoolTypeOK'
  BY <1>2, <1>3, <1>7 DEF TypeInv, TypeOK, PoolTypeOK
<1>12. MessageHeld'
  <2>1. CASE callback.block = b
    <3>1. memory'[b] = callback.message
      BY <1>2, <1>7, <1>8 DEF TypeInv, TypeOK
    <3>2. SubSeq(callback.message, 1, Len(callback.message)) = callback.message
      BY <1>1, SubSeqFull
    <3>3. Len(callback.message) \in Nat
      BY <1>1
    <3>. QED
      BY <1>3, <2>1, <3>1, <3>2, <3>3 DEF MessageHeld
  <2>2. CASE callback.block # b
    <3>1. memory'[callback.block] = memory[callback.block]
      BY <1>1, <1>7, <2>2 DEF TypeInv, TypeOK
    <3>. QED
      BY <1>3, <3>1 DEF TypeInv, MessageHeld
  <2>. QED
    BY <2>1, <2>2
<1>. QED
  BY <1>3, <1>5, <1>10, <1>11, <1>12 DEF TypeInv, TypeOK

LEMMA TypeStep == TypeInv /\ [Next]_vars => TypeInv'
<1>. SUFFICES ASSUME TypeInv, [Next]_vars PROVE TypeInv'
  OBVIOUS
<1>1. TypeOK /\ MessageHeld /\ PoolTypeOK
  BY DEF TypeInv, TypeOK
<1>2. ASSUME NEW s \in Socket, Start(s) PROVE TypeInv'
  BY <1>1, <1>2 DEF Start, TypeInv, TypeOK, PoolTypeOK, MessageHeld, poolVars
<1>3. ASSUME NEW s \in Socket, NEW d \in Datagram, Arrive(s, d) PROVE TypeInv'
  <2>1. kernel' \in [Socket -> Seq(Datagram)]
    BY <1>1, <1>3, QueuesAppend DEF Arrive, TypeOK
  <2>2. arrivals' \in 0 .. MaxArrivals
    BY <1>1, <1>3, UdpAssumption DEF Arrive, TypeOK
  <2>. QED
    BY <1>1, <1>3, <2>1, <2>2
       DEF Arrive, TypeInv, TypeOK, PoolTypeOK, MessageHeld, poolVars
<1>4. ASSUME NEW s \in Socket, Allocate(s) PROVE TypeInv'
  <2>1. PICK b \in Block :
          /\ AcquireBuffer(b)
          /\ callback' = [stage |-> "reading", socket |-> s, block |-> b]
    BY <1>4 DEF Allocate
  <2>2. PoolTypeOK'
    BY <1>1, <2>1, PoolType
  <2>3. callback' \in Callback /\ callback'.stage = "reading"
    BY <2>1 DEF Callback
  <2>. QED
    BY <1>1, <1>4, <2>2, <2>3 DEF Allocate, TypeInv, TypeOK, MessageHeld
<1>5. ASSUME NEW s \in Socket, Transmit(s) \/ SendDone(s) PROVE TypeInv'
  <2>1. sending' \in [Socket -> Seq(Request)]
    <3>1. sending \in [Socket -> Seq(Request)]
      BY <1>1 DEF TypeOK
    <3>2. CASE Transmit(s)
      BY <3>1, <3>2, QueuesTail DEF Transmit
    <3>3. CASE SendDone(s)
      BY <3>1, <3>3 DEF SendDone
    <3>. QED
      BY <1>5, <3>2, <3>3
  <2>2. completed' \in [Socket -> Seq(Request)]
    <3>1. CASE Transmit(s)
      <4>1. Head(sending[s]) \in Request
        BY <1>1, <3>1, QueuesTail DEF Transmit, TypeOK
      <4>. QED
        BY <1>1, <3>1, <4>1, QueuesAppend DEF Transmit, TypeOK
    <3>2. CASE SendDone(s)
      BY <1>1, <3>2, QueuesTail DEF SendDone, TypeOK
    <3>. QED
      BY <1>5, <3>1, <3>2
  <2>3. PoolTypeOK'
    BY <1>1, <1>5 DEF Transmit, SendDone, Delete, PoolTypeOK, poolVars
  <2>. QED
    BY <1>1, <1>5, <2>1, <2>2, <2>3
       DEF Transmit, SendDone, TypeInv, TypeOK, MessageHeld
<1>6. CASE ReceiveFails \/ ReceiveNothing \/ MessageDone
  <2>1. callback' = Returning
    BY <1>6 DEF ReceiveFails, ReceiveNothing, MessageDone
  <2>2. callback # NoCallback
    BY <1>1, <1>6, CallbackShape DEF ReceiveFails, ReceiveNothing, MessageDone
  <2>3. callback' \in Callback /\ callback'.stage = "return"
    BY <1>1, <2>1, <2>2, ReturningType
  <2>4. errors' \in 0 .. MaxErrors
    BY <1>1, <1>6, UdpAssumption
       DEF ReceiveFails, ReceiveNothing, MessageDone, TypeOK
  <2>. QED
    BY <1>1, <1>6, <2>3, <2>4
       DEF ReceiveFails, ReceiveNothing, MessageDone, TypeInv, TypeOK,
           PoolTypeOK, MessageHeld, poolVars
<1>7. CASE CallbackReturns
  <2>1. callback.block \in Block
    BY <1>1, <1>7, CallbackShape DEF CallbackReturns
  <2>2. PoolTypeOK'
    BY <1>1, <1>7, <2>1, PoolType DEF CallbackReturns
  <2>3. callback' \in Callback /\ callback'.stage = "none"
    BY <1>7 DEF CallbackReturns, Callback, NoCallback
  <2>. QED
    BY <1>1, <1>7, <2>2, <2>3
       DEF CallbackReturns, TypeInv, TypeOK, MessageHeld
<1>8. CASE UNCHANGED vars
  BY <1>1, <1>8
     DEF vars, udpVars, poolVars, TypeInv, TypeOK, PoolTypeOK, MessageHeld
<1>. QED
  BY <1>2, <1>3, <1>4, <1>5, <1>6, <1>7, <1>8, ReceiveType, SendType DEF Next

LEMMA InitType == Init => TypeInv
<1>. SUFFICES ASSUME Init PROVE TypeInv
  OBVIOUS
<1>1. /\ \A S : <<>> \in Seq(S)
      /\ Len(<<>>) = 0
  BY EmptySeq
<1>2. NoCallback \in Callback /\ NoCallback.stage = "none"
  BY DEF Callback, NoCallback
<1>3. PoolTypeOK /\ MessageHeld
  BY <1>1, <1>2 DEF Init, PoolInit, PoolTypeOK, MessageHeld
<1>4. /\ memory \in [Block -> Seq(Byte)]
      /\ \A b \in Block : Len(memory[b]) <= ReadBufferSize
  BY <1>1, UdpAssumption DEF Init
<1>. QED
  BY <1>1, <1>2, <1>3, <1>4, UdpAssumption DEF Init, TypeInv, TypeOK

(***************************************************************************)
(* The UDP server's state has its types: no block ever holds more than a   *)
(* buffer's size, neither by a datagram nor by the copy of an answer.      *)
(***************************************************************************)
THEOREM UdpTypeCorrect == Spec => []TypeOK
<1>1. TypeInv => TypeOK
  BY DEF TypeInv
<1>. QED
  BY <1>1, InitType, TypeStep, PTL DEF Spec

------------------------------------------------------------------------------
(***************************************************************************)
(* Who owns the blocks.  The pool's buffer is with the pool or in the hand *)
(* of the running callback, and there is at most one.  The blocks of the   *)
(* requests are apart from it and from each other.                         *)
(***************************************************************************)
Pool == InHand \cup ToSet(free_buffers_)

BlocksOf(q) == { q[i].block : i \in DOMAIN q }

Distinct(q) == \A i, j \in DOMAIN q : q[i].block = q[j].block => i = j

PoolInv ==
  /\ Len(free_buffers_) <= 1
  /\ callback # NoCallback => free_buffers_ = <<>>

Sent(s) == BlocksOf(sending[s])

Done(s) == BlocksOf(completed[s])

Apart ==
  /\ \A s \in Socket : Distinct(sending[s]) /\ Distinct(completed[s])
  /\ \A s, t \in Socket :
       /\ s # t => Sent(s) \cap Sent(t) = {} /\ Done(s) \cap Done(t) = {}
       /\ Sent(s) \cap Done(t) = {}
  /\ \A s \in Socket : (Sent(s) \cup Done(s)) \cap (Pool \cup refused) = {}
  /\ Pool \cap refused = {}
  /\ allocated = Pool \cup refused \cup UNION { Sent(s) \cup Done(s) : s \in Socket }

OwnInv == PoolInv /\ Apart

LEMMA BlocksOfAppend ==
  ASSUME NEW q \in Seq(Request), NEW r \in Request
  PROVE  /\ BlocksOf(Append(q, r)) = BlocksOf(q) \cup {r.block}
         /\ Distinct(q) /\ r.block \notin BlocksOf(q) => Distinct(Append(q, r))
<1>1. PICK p : p = Append(q, r)
  OBVIOUS
<1>2. /\ Len(q) \in Nat /\ DOMAIN q = 1 .. Len(q)
      /\ DOMAIN p = 1 .. Len(q) + 1
      /\ p[Len(q) + 1] = r /\ \A i \in 1 .. Len(q) : p[i] = q[i]
  BY <1>1, AppendProperties, LenProperties
<1>3. BlocksOf(p) = BlocksOf(q) \cup {r.block}
  BY <1>2 DEF BlocksOf
<1>4. ASSUME Distinct(q), r.block \notin BlocksOf(q)
      PROVE  Distinct(p)
  <2>. SUFFICES ASSUME NEW i \in DOMAIN p, NEW j \in DOMAIN p,
                       p[i].block = p[j].block
                PROVE  i = j
    BY DEF Distinct
  <2>1. CASE i \in 1 .. Len(q) /\ j \in 1 .. Len(q)
    BY <1>2, <1>4, <2>1 DEF Distinct
  <2>2. CASE i = Len(q) + 1 /\ j \in 1 .. Len(q)
    BY <1>2, <1>4, <2>2 DEF BlocksOf
  <2>3. CASE i \in 1 .. Len(q) /\ j = Len(q) + 1
    BY <1>2, <1>4, <2>3 DEF BlocksOf
  <2>. QED
    BY <1>2, <2>1, <2>2, <2>3
<1>. QED
  BY <1>1, <1>3, <1>4

LEMMA BlocksOfTail ==
  ASSUME NEW q \in Seq(Request), q # <<>>, Distinct(q)
  PROVE  /\ BlocksOf(Tail(q)) = BlocksOf(q) \ {Head(q).block}
         /\ Head(q).block \in BlocksOf(q)
         /\ Distinct(Tail(q))
<1>1. PICK p, h : p = Tail(q) /\ h = Head(q)
  OBVIOUS
<1>2. /\ Len(q) \in Nat \ {0} /\ DOMAIN q = 1 .. Len(q) /\ h = q[1]
      /\ DOMAIN p = 1 .. Len(q) - 1
      /\ \A i \in 1 .. Len(q) - 1 : p[i] = q[i + 1]
  BY <1>1, HeadTailProperties, LenProperties, EmptySeq
<1>3. h.block \in BlocksOf(q)
  BY <1>2 DEF BlocksOf
<1>4. ASSUME NEW b PROVE b \in BlocksOf(p) <=> b \in BlocksOf(q) /\ b # h.block
  <2>1. ASSUME b \in BlocksOf(p)
        PROVE  b \in BlocksOf(q) /\ b # h.block
    <3>1. PICK i \in 1 .. Len(q) - 1 : b = q[i + 1].block
      BY <1>2, <2>1 DEF BlocksOf
    <3>2. i + 1 \in DOMAIN q /\ 1 \in DOMAIN q /\ i + 1 # 1
      BY <1>2
    <3>. QED
      BY <1>2, <3>1, <3>2 DEF BlocksOf, Distinct
  <2>2. ASSUME b \in BlocksOf(q), b # h.block
        PROVE  b \in BlocksOf(p)
    <3>1. PICK j \in DOMAIN q : b = q[j].block
      BY <2>2 DEF BlocksOf
    <3>2. j - 1 \in 1 .. Len(q) - 1 /\ p[j - 1] = q[j]
      BY <1>2, <2>2, <3>1
    <3>. QED
      BY <1>2, <3>1, <3>2 DEF BlocksOf
  <2>. QED
    BY <2>1, <2>2
<1>5. Distinct(p)
  <2>. SUFFICES ASSUME NEW i \in 1 .. Len(q) - 1, NEW j \in 1 .. Len(q) - 1,
                       p[i].block = p[j].block
                PROVE  i = j
    BY <1>2 DEF Distinct
  <2>1. i + 1 \in DOMAIN q /\ j + 1 \in DOMAIN q /\ q[i + 1].block = q[j + 1].block
    BY <1>2
  <2>2. i + 1 = j + 1
    BY <2>1 DEF Distinct
  <2>. QED
    BY <2>2
<1>6. BlocksOf(p) = BlocksOf(q) \ {h.block}
  BY <1>4
<1>. QED
  BY <1>1, <1>3, <1>5, <1>6

(* The blocks of all sockets' requests, the first of one of them taken.    *)
LEMMA TailOfOne ==
  ASSUME NEW q \in [Socket -> Seq(Request)], NEW s \in Socket, q[s] # <<>>,
         Distinct(q[s]), NEW p, p = [q EXCEPT ![s] = Tail(q[s])]
  PROVE  /\ Head(q[s]).block \in BlocksOf(q[s])
         /\ Distinct(p[s])
         /\ BlocksOf(p[s]) = BlocksOf(q[s]) \ {Head(q[s]).block}
         /\ \A t \in Socket : t # s => p[t] = q[t]
<1>1. p[s] = Tail(q[s]) /\ q[s] \in Seq(Request)
  OBVIOUS
<1>2. \A t \in Socket : t # s => p[t] = q[t]
  OBVIOUS
<1>3. /\ Head(q[s]).block \in BlocksOf(q[s])
      /\ BlocksOf(Tail(q[s])) = BlocksOf(q[s]) \ {Head(q[s]).block}
      /\ Distinct(Tail(q[s]))
  BY <1>1, BlocksOfTail
<1>. QED
  BY <1>1, <1>2, <1>3, Zenon

(* The pool.                                                               *)
LEMMA PoolKept ==
  ASSUME PoolInv, UNCHANGED free_buffers_,
         \/ callback' = callback
         \/ /\ callback # NoCallback /\ callback' # NoCallback
            /\ callback'.block = callback.block
  PROVE  PoolInv' /\ Pool' = Pool
BY DEF PoolInv, Pool, InHand, ToSet

LEMMA PoolAllocate ==
  ASSUME TypeInv, PoolInv, NEW s \in Socket, Allocate(s)
  PROVE  /\ PoolInv'
         /\ \/ Pool' = Pool /\ allocated' = allocated
            \/ \E b \in Block : /\ b \notin allocated
                                /\ allocated' = allocated \cup {b}
                                /\ Pool' = Pool \cup {b}
<1>1. PICK b \in Block :
        /\ AcquireBuffer(b)
        /\ callback' = [stage |-> "reading", socket |-> s, block |-> b]
  BY DEF Allocate
<1>2. callback' # NoCallback /\ InHand' = {b} /\ InHand = {}
  BY <1>1 DEF InHand, Allocate, NoCallback
<1>3. free_buffers_ \in Seq(Block)
  BY DEF TypeInv, TypeOK, PoolTypeOK
<1>4. CASE free_buffers_ # <<>>
  <2>1. /\ b = Head(free_buffers_) /\ free_buffers_' = Tail(free_buffers_)
        /\ allocated' = allocated
    BY <1>1, <1>4 DEF AcquireBuffer
  <2>2. Tail(free_buffers_) = <<>> /\ free_buffers_ = <<b>>
    BY <1>3, <1>4, <2>1, TailOfAtMostOne DEF PoolInv
  <2>3. ToSet(<<b>>) = {b} /\ ToSet(<<>>) = {}
    BY DEF ToSet
  <2>. QED
    BY <1>2, <2>1, <2>2, <2>3 DEF PoolInv, Pool
<1>5. CASE free_buffers_ = <<>>
  <2>1. b \notin allocated /\ allocated' = allocated \cup {b} /\ free_buffers_' = <<>>
    BY <1>1, <1>5 DEF AcquireBuffer, New
  <2>2. ToSet(<<>>) = {}
    BY DEF ToSet
  <2>. QED
    BY <1>2, <1>5, <2>1, <2>2 DEF PoolInv, Pool
<1>. QED
  BY <1>4, <1>5

LEMMA PoolReturn ==
  ASSUME TypeInv, PoolInv, CallbackReturns
  PROVE  PoolInv' /\ Pool' = Pool /\ allocated' = allocated
<1>1. callback # NoCallback /\ callback.block \in Block
  BY CallbackShape DEF TypeInv, CallbackReturns
<1>2. /\ free_buffers_ = <<>>
      /\ free_buffers_' = Append(free_buffers_, callback.block)
      /\ callback' = NoCallback /\ allocated' = allocated
  BY <1>1 DEF PoolInv, CallbackReturns, ReleaseBuffer
<1>3. free_buffers_' = <<callback.block>>
  BY <1>1, <1>2
<1>4. ToSet(<<callback.block>>) = {callback.block} /\ ToSet(<<>>) = {}
  BY DEF ToSet
<1>5. Len(<<callback.block>>) = 1
  OBVIOUS
<1>. QED
  BY <1>1, <1>2, <1>3, <1>4, <1>5 DEF PoolInv, Pool, InHand

------------------------------------------------------------------------------
(* Each way in which the blocks change hands.                              *)

LEMMA ApartKept ==
  ASSUME Apart, UNCHANGED <<sending, completed, refused>>,
         \/ Pool' = Pool /\ allocated' = allocated
         \/ \E b \in Block : /\ b \notin allocated
                             /\ allocated' = allocated \cup {b}
                             /\ Pool' = Pool \cup {b}
  PROVE  Apart'
<1>1. \A s : Sent(s)' = Sent(s) /\ Done(s)' = Done(s)
  BY DEF Sent, Done, BlocksOf
<1>2. \A s \in Socket : (Distinct(sending[s]) /\ Distinct(completed[s]))'
  BY DEF Apart, Distinct
<1>3. \A s \in Socket : Sent(s) \subseteq allocated /\ Done(s) \subseteq allocated
  BY DEF Apart
<1>4. refused \subseteq allocated
  BY DEF Apart
<1>. QED
  BY <1>1, <1>2, <1>3, <1>4 DEF Apart

LEMMA ApartSend ==
  ASSUME TypeInv, Apart, Send, Pool' = Pool
  PROVE  Apart'
<1>1. PICK s \in Socket, b \in Block, req \in Request :
        /\ req.block = b /\ b \notin allocated
        /\ allocated' = allocated \cup {b}
        /\ \/ /\ completed' = [completed EXCEPT ![s] = Append(@, req)]
              /\ UNCHANGED <<sending, refused>>
           \/ /\ sending' = [sending EXCEPT ![s] = Append(@, req)]
              /\ UNCHANGED <<completed, refused>>
           \/ /\ refused' = refused \cup {b}
              /\ UNCHANGED <<sending, completed>>
  <2>1. /\ callback.socket \in Socket /\ callback.from \in Peer
        /\ callback.message \in Seq(Byte)
    BY CallbackShape DEF TypeInv, Send
  <2>2. \A b \in Block : [to |-> callback.from, block |-> b,
                          answer |-> callback.message] \in Request
    BY <2>1 DEF Request
  <2>. QED
    BY <2>1, <2>2, SMTT(30) DEF Send, Copy, New
<1>2. /\ sending \in [Socket -> Seq(Request)]
      /\ completed \in [Socket -> Seq(Request)]
  BY DEF TypeInv, TypeOK
<1>3. /\ \A t \in Socket : Sent(t) \subseteq allocated /\ Done(t) \subseteq allocated
      /\ refused \subseteq allocated /\ Pool \subseteq allocated
      /\ \A t \in Socket : b \notin Sent(t) /\ b \notin Done(t)
      /\ b \notin refused /\ b \notin Pool
  BY <1>1 DEF Apart
<1>4. CASE /\ completed' = [completed EXCEPT ![s] = Append(@, req)]
           /\ UNCHANGED <<sending, refused>>
  <2>1. \A t \in Socket :
          /\ Distinct(completed'[t])
          /\ Done(t)' = IF t = s THEN Done(t) \cup {b} ELSE Done(t)
    <3>1. req.block \notin BlocksOf(completed[s])
      BY <1>1, <1>3 DEF Done
    <3>2. \A t \in Socket : Distinct(completed[t])
      BY DEF Apart
    <3>3. /\ Distinct(completed'[s])
          /\ BlocksOf(completed'[s]) = BlocksOf(completed[s]) \cup {req.block}
          /\ \A t \in Socket : t # s => completed'[t] = completed[t]
      <4>1. /\ completed'[s] = Append(completed[s], req)
            /\ completed[s] \in Seq(Request)
            /\ \A t \in Socket : t # s => completed'[t] = completed[t]
        BY <1>2, <1>4
      <4>2. /\ BlocksOf(Append(completed[s], req)) = BlocksOf(completed[s]) \cup {req.block}
            /\ Distinct(Append(completed[s], req))
        BY <3>1, <3>2, <4>1, BlocksOfAppend
      <4>. QED
        BY <4>1, <4>2, Zenon
    <3>4. \A t \in Socket : Distinct(completed'[t])
      BY <3>2, <3>3
    <3>. QED
      BY <1>1, <3>3, <3>4 DEF Done
  <2>2. \A t \in Socket : Sent(t)' = Sent(t) /\ Distinct(sending'[t])
    BY <1>4 DEF Sent, Apart
  <2>. QED
    BY <1>1, <1>3, <1>4, <2>1, <2>2 DEF Apart
<1>5. CASE /\ sending' = [sending EXCEPT ![s] = Append(@, req)]
           /\ UNCHANGED <<completed, refused>>
  <2>1. \A t \in Socket :
          /\ Distinct(sending'[t])
          /\ Sent(t)' = IF t = s THEN Sent(t) \cup {b} ELSE Sent(t)
    <3>1. req.block \notin BlocksOf(sending[s])
      BY <1>1, <1>3 DEF Sent
    <3>2. \A t \in Socket : Distinct(sending[t])
      BY DEF Apart
    <3>3. /\ Distinct(sending'[s])
          /\ BlocksOf(sending'[s]) = BlocksOf(sending[s]) \cup {req.block}
          /\ \A t \in Socket : t # s => sending'[t] = sending[t]
      <4>1. /\ sending'[s] = Append(sending[s], req)
            /\ sending[s] \in Seq(Request)
            /\ \A t \in Socket : t # s => sending'[t] = sending[t]
        BY <1>2, <1>5
      <4>2. /\ BlocksOf(Append(sending[s], req)) = BlocksOf(sending[s]) \cup {req.block}
            /\ Distinct(Append(sending[s], req))
        BY <3>1, <3>2, <4>1, BlocksOfAppend
      <4>. QED
        BY <4>1, <4>2, Zenon
    <3>4. \A t \in Socket : Distinct(sending'[t])
      BY <3>2, <3>3
    <3>. QED
      BY <1>1, <3>3, <3>4 DEF Sent
  <2>2. \A t \in Socket : Done(t)' = Done(t) /\ Distinct(completed'[t])
    BY <1>5 DEF Done, Apart
  <2>. QED
    BY <1>1, <1>3, <1>5, <2>1, <2>2 DEF Apart
<1>6. CASE /\ refused' = refused \cup {b}
           /\ UNCHANGED <<sending, completed>>
  <2>1. /\ \A t \in Socket : Sent(t)' = Sent(t) /\ Done(t)' = Done(t)
        /\ \A t \in Socket : Distinct(sending'[t]) /\ Distinct(completed'[t])
    BY <1>6 DEF Sent, Done, Apart
  <2>. QED
    BY <1>1, <1>3, <1>6, <2>1 DEF Apart
<1>. QED
  BY <1>1, <1>4, <1>5, <1>6

LEMMA ApartTransmit ==
  ASSUME TypeInv, Apart, NEW s \in Socket, Transmit(s), Pool' = Pool
  PROVE  Apart'
<1>1. PICK req : req = Head(sending[s])
  OBVIOUS
<1>2. /\ sending \in [Socket -> Seq(Request)]
      /\ completed \in [Socket -> Seq(Request)]
      /\ sending[s] # <<>>
      /\ sending' = [sending EXCEPT ![s] = Tail(@)]
      /\ completed' = [completed EXCEPT ![s] = Append(@, req)]
      /\ refused' = refused /\ allocated' = allocated
      /\ \A t \in Socket : Distinct(sending[t]) /\ Distinct(completed[t])
  BY <1>1 DEF TypeInv, TypeOK, Transmit, Apart, poolVars
<1>3. req \in Request
  BY <1>1, <1>2, HeadTailProperties
<1>4. /\ req.block \in Sent(s)
      /\ \A t \in Socket :
           /\ Distinct(sending'[t])
           /\ Sent(t)' = IF t = s THEN Sent(t) \ {req.block} ELSE Sent(t)
  <2>1. /\ Head(sending[s]).block \in BlocksOf(sending[s])
        /\ Distinct(sending'[s])
        /\ BlocksOf(sending'[s]) = BlocksOf(sending[s]) \ {Head(sending[s]).block}
        /\ \A t \in Socket : t # s => sending'[t] = sending[t]
    BY <1>2, TailOfOne
  <2>2. \A t \in Socket : Distinct(sending'[t])
    BY <1>2, <2>1
  <2>. QED
    BY <1>1, <2>1, <2>2 DEF Sent
<1>5. /\ \A t \in Socket : req.block \notin Done(t)
      /\ \A t \in Socket : t # s => req.block \notin Sent(t)
      /\ req.block \notin Pool /\ req.block \notin refused
  BY <1>4 DEF Apart
<1>6. \A t \in Socket :
        /\ Distinct(completed'[t])
        /\ Done(t)' = IF t = s THEN Done(t) \cup {req.block} ELSE Done(t)
  <2>1. req.block \notin BlocksOf(completed[s])
    BY <1>5 DEF Done
  <2>2. /\ Distinct(completed'[s])
        /\ BlocksOf(completed'[s]) = BlocksOf(completed[s]) \cup {req.block}
        /\ \A t \in Socket : t # s => completed'[t] = completed[t]
    <3>1. /\ completed'[s] = Append(completed[s], req)
          /\ completed[s] \in Seq(Request)
          /\ \A t \in Socket : t # s => completed'[t] = completed[t]
      BY <1>2
    <3>2. /\ BlocksOf(Append(completed[s], req))
               = BlocksOf(completed[s]) \cup {req.block}
          /\ Distinct(Append(completed[s], req))
      BY <1>2, <1>3, <2>1, <3>1, BlocksOfAppend
    <3>. QED
      BY <3>1, <3>2, Zenon
  <2>3. \A t \in Socket : Distinct(completed'[t])
    BY <1>2, <2>2
  <2>. QED
    BY <2>2, <2>3 DEF Done
<1>7. \A t \in Socket : \A c :
        /\ c \in Sent(t)' => c \in Sent(t) /\ (t = s => c # req.block)
        /\ c \in Done(t)' => c \in Done(t) \/ (t = s /\ c = req.block)
        /\ c \in Sent(t) \cup Done(t) <=> c \in Sent(t)' \cup Done(t)'
  BY <1>4, <1>6
<1>8. UNION { Sent(t)' \cup Done(t)' : t \in Socket }
        = UNION { Sent(t) \cup Done(t) : t \in Socket }
  BY <1>7
<1>9. allocated' = Pool' \cup refused'
                    \cup UNION { Sent(t)' \cup Done(t)' : t \in Socket }
  BY <1>2, <1>8 DEF Apart
<1>10. ASSUME NEW t \in Socket, NEW u \in Socket
       PROVE  /\ t # u => Sent(t)' \cap Sent(u)' = {} /\ Done(t)' \cap Done(u)' = {}
              /\ Sent(t)' \cap Done(u)' = {}
  BY <1>5, <1>7 DEF Apart
<1>11. ASSUME NEW t \in Socket
       PROVE  (Sent(t)' \cup Done(t)') \cap (Pool' \cup refused') = {}
  BY <1>2, <1>5, <1>7 DEF Apart
<1>12. Pool' \cap refused' = {}
  BY <1>2 DEF Apart
<1>. QED
  BY <1>4, <1>6, <1>9, <1>10, <1>11, <1>12 DEF Apart

LEMMA ApartSendDone ==
  ASSUME TypeInv, Apart, NEW s \in Socket, SendDone(s), Pool' = Pool
  PROVE  Apart'
<1>1. PICK req : req = Head(completed[s])
  OBVIOUS
<1>2. /\ completed \in [Socket -> Seq(Request)]
      /\ completed[s] # <<>>
      /\ completed' = [completed EXCEPT ![s] = Tail(@)]
      /\ sending' = sending /\ refused' = refused
      /\ allocated' = allocated \ {req.block}
      /\ \A t \in Socket : Distinct(sending[t]) /\ Distinct(completed[t])
  BY <1>1 DEF TypeInv, TypeOK, SendDone, Delete, Apart
<1>3. /\ req.block \in Done(s)
      /\ \A t \in Socket :
           /\ Distinct(completed'[t])
           /\ Done(t)' = IF t = s THEN Done(t) \ {req.block} ELSE Done(t)
  <2>1. /\ Head(completed[s]).block \in BlocksOf(completed[s])
        /\ Distinct(completed'[s])
        /\ BlocksOf(completed'[s])
             = BlocksOf(completed[s]) \ {Head(completed[s]).block}
        /\ \A t \in Socket : t # s => completed'[t] = completed[t]
    BY <1>2, TailOfOne
  <2>2. \A t \in Socket : Distinct(completed'[t])
    BY <1>2, <2>1
  <2>. QED
    BY <1>1, <2>1, <2>2 DEF Done
<1>4. \A t \in Socket : Sent(t)' = Sent(t) /\ Distinct(sending'[t])
  BY <1>2 DEF Sent
<1>5. /\ \A t \in Socket : req.block \notin Sent(t)
      /\ \A t \in Socket : t # s => req.block \notin Done(t)
      /\ req.block \notin Pool /\ req.block \notin refused
  BY <1>3 DEF Apart
<1>6. \A t \in Socket : \A c :
        /\ c \in Sent(t)' <=> c \in Sent(t)
        /\ c \in Done(t)' <=> c \in Done(t) /\ c # req.block
  BY <1>3, <1>4, <1>5
<1>7. allocated = Pool \cup refused \cup UNION { Sent(t) \cup Done(t) : t \in Socket }
  BY DEF Apart
<1>8. allocated' = Pool' \cup refused'
                    \cup UNION { Sent(t)' \cup Done(t)' : t \in Socket }
  <2>1. ASSUME NEW c
        PROVE  (\E t \in Socket : c \in Sent(t)' \/ c \in Done(t)')
                 <=> (\E t \in Socket : c \in Sent(t) \/ c \in Done(t)) /\ c # req.block
    BY <1>5, <1>6
  <2>2. ASSUME NEW c
        PROVE  c \in allocated'
                 <=> c \in Pool \/ c \in refused
                       \/ \E t \in Socket : c \in Sent(t)' \/ c \in Done(t)'
    <3>1. c \in allocated
            <=> c \in Pool \/ c \in refused
                  \/ \E t \in Socket : c \in Sent(t) \/ c \in Done(t)
      BY <1>7
    <3>2. c \in allocated' <=> c \in allocated /\ c # req.block
      BY <1>2
    <3>. QED
      BY <1>5, <2>1, <3>1, <3>2
  <2>. QED
    BY <1>2, <2>2
<1>9. ASSUME NEW t \in Socket, NEW u \in Socket
      PROVE  /\ t # u => Sent(t)' \cap Sent(u)' = {} /\ Done(t)' \cap Done(u)' = {}
             /\ Sent(t)' \cap Done(u)' = {}
  BY <1>6 DEF Apart
<1>10. ASSUME NEW t \in Socket
       PROVE  (Sent(t)' \cup Done(t)') \cap (Pool' \cup refused') = {}
  BY <1>2, <1>6 DEF Apart
<1>11. Pool' \cap refused' = {}
  BY <1>2 DEF Apart
<1>. QED
  BY <1>3, <1>4, <1>8, <1>9, <1>10, <1>11 DEF Apart

LEMMA OwnStep ==
  ASSUME TypeInv, OwnInv, [Next]_vars
  PROVE  OwnInv'
<1>1. PoolInv /\ Apart /\ TypeOK
  BY DEF OwnInv, TypeInv
<1>2. ASSUME NEW s \in Socket, Allocate(s)
      PROVE  OwnInv'
  <2>1. UNCHANGED <<sending, completed, refused>>
    BY <1>2 DEF Allocate
  <2>. QED
    BY <1>1, <1>2, <2>1, PoolAllocate, ApartKept DEF OwnInv
<1>3. CASE CallbackReturns
  <2>1. UNCHANGED <<sending, completed, refused>>
    BY <1>3 DEF CallbackReturns
  <2>. QED
    BY <1>1, <1>3, <2>1, PoolReturn, ApartKept DEF OwnInv
<1>4. CASE Send
  <2>1. UNCHANGED <<free_buffers_, callback>>
    BY <1>4 DEF Send
  <2>. QED
    BY <1>1, <1>4, <2>1, PoolKept, ApartSend DEF OwnInv
<1>5. ASSUME NEW s \in Socket, Transmit(s)
      PROVE  OwnInv'
  <2>1. UNCHANGED <<free_buffers_, callback>>
    BY <1>5 DEF Transmit, poolVars
  <2>. QED
    BY <1>1, <1>5, <2>1, PoolKept, ApartTransmit DEF OwnInv
<1>6. ASSUME NEW s \in Socket, SendDone(s)
      PROVE  OwnInv'
  <2>1. UNCHANGED <<free_buffers_, callback>>
    BY <1>6 DEF SendDone
  <2>. QED
    BY <1>1, <1>6, <2>1, PoolKept, ApartSendDone DEF OwnInv
<1>7. ASSUME UNCHANGED <<free_buffers_, allocated, sending, completed, refused>>,
             \/ callback' = callback
             \/ /\ callback # NoCallback /\ callback' # NoCallback
                /\ callback'.block = callback.block
      PROVE  OwnInv'
  BY <1>1, <1>7, PoolKept, ApartKept DEF OwnInv
<1>8. ASSUME NEW s \in Socket, Start(s) \/ \E d \in Datagram : Arrive(s, d)
      PROVE  OwnInv'
  BY <1>7, <1>8 DEF Start, Arrive, poolVars
<1>9. CASE Receive \/ ReceiveFails \/ ReceiveNothing \/ MessageDone
  <2>1. callback # NoCallback
    BY <1>1, <1>9, CallbackShape
       DEF Receive, ReceiveFails, ReceiveNothing, MessageDone
  <2>2. Returning # NoCallback /\ Returning.block = callback.block
    BY DEF Returning, NoCallback
  <2>3. callback' # NoCallback /\ callback'.block = callback.block
    <3>1. CASE Receive
      <4>1. \/ callback' = Returning
            \/ \E s, from, msg :
                 callback' = [stage |-> "message", socket |-> s,
                              block |-> callback.block, from |-> from,
                              message |-> msg]
        BY <3>1, Zenon DEF Receive
      <4>. QED
        BY <2>2, <4>1 DEF NoCallback
    <3>2. CASE ReceiveFails \/ ReceiveNothing \/ MessageDone
      BY <2>2, <3>2 DEF ReceiveFails, ReceiveNothing, MessageDone
    <3>. QED
      BY <1>9, <3>1, <3>2
  <2>4. UNCHANGED <<free_buffers_, allocated, sending, completed, refused>>
    BY <1>9 DEF Receive, ReceiveFails, ReceiveNothing, MessageDone, poolVars
  <2>. QED
    BY <1>7, <2>1, <2>3, <2>4
<1>10. CASE UNCHANGED vars
  BY <1>7, <1>10 DEF vars, udpVars, poolVars
<1>. QED
  BY <1>2, <1>3, <1>4, <1>5, <1>6, <1>8, <1>9, <1>10 DEF Next

LEMMA InitOwn == Init => OwnInv
<1>. SUFFICES ASSUME Init PROVE OwnInv
  OBVIOUS
<1>1. Len(<<>>) = 0 /\ ToSet(<<>>) = {} /\ BlocksOf(<<>>) = {} /\ Distinct(<<>>)
  BY EmptySeq DEF ToSet, BlocksOf, Distinct
<1>2. \A s \in Socket : sending[s] = <<>> /\ completed[s] = <<>>
  BY DEF Init
<1>3. \A s \in Socket :
        Sent(s) = {} /\ Done(s) = {} /\ Distinct(sending[s]) /\ Distinct(completed[s])
  BY <1>1, <1>2 DEF Sent, Done
<1>4. Pool = {} /\ PoolInv /\ refused = {} /\ allocated = {}
  BY <1>1 DEF Init, PoolInit, Pool, InHand, PoolInv
<1>. QED
  BY <1>3, <1>4 DEF OwnInv, Apart

LEMMA UdpInv == Spec => [](TypeInv /\ OwnInv)
<1>1. Init => TypeInv /\ OwnInv
  BY InitType, InitOwn
<1>2. TypeInv /\ OwnInv /\ [Next]_vars => (TypeInv /\ OwnInv)'
  BY TypeStep, OwnStep
<1>. QED
  BY <1>1, <1>2, PTL DEF Spec

------------------------------------------------------------------------------
(* Counting owners.                                                        *)

LEMMA AtMostOne ==
  ASSUME NEW S, \A x, y \in S : x = y
  PROVE  /\ IsFiniteSet(S)
         /\ Cardinality(S) = IF S = {} THEN 0 ELSE 1
<1>1. CASE S = {}
  BY <1>1, FS_EmptySet
<1>2. CASE S # {}
  <2>1. PICK x : S = {x}
    BY <1>2
  <2>. QED
    BY <1>2, <2>1, FS_Singleton
<1>. QED
  BY <1>1, <1>2

LEMMA PlacesCount ==
  ASSUME NEW q \in [Socket -> Seq(Request)], NEW b,
         \A s \in Socket : Distinct(q[s]),
         \A s, t \in Socket : s # t => BlocksOf(q[s]) \cap BlocksOf(q[t]) = {}
  PROVE  Cardinality(Places(q, b))
           = IF \E s \in Socket : b \in BlocksOf(q[s]) THEN 1 ELSE 0
<1>1. ASSUME NEW p
      PROVE  p \in Places(q, b) <=>
               \E s \in Socket : \E i \in DOMAIN q[s] :
                 p = <<s, i>> /\ q[s][i].block = b
  BY DEF Places
<1>2. ASSUME NEW p \in Places(q, b), NEW r \in Places(q, b)
      PROVE  p = r
  <2>1. PICK s \in Socket : \E i \in DOMAIN q[s] : p = <<s, i>> /\ q[s][i].block = b
    BY <1>1
  <2>2. PICK i \in DOMAIN q[s] : p = <<s, i>> /\ q[s][i].block = b
    BY <2>1
  <2>3. PICK t \in Socket : \E j \in DOMAIN q[t] : r = <<t, j>> /\ q[t][j].block = b
    BY <1>1
  <2>4. PICK j \in DOMAIN q[t] : r = <<t, j>> /\ q[t][j].block = b
    BY <2>3
  <2>5. b \in BlocksOf(q[s]) /\ b \in BlocksOf(q[t])
    BY <2>2, <2>4 DEF BlocksOf
  <2>6. s = t
    BY <2>5
  <2>7. i = j
    BY <2>2, <2>4, <2>6 DEF Distinct
  <2>. QED
    BY <2>2, <2>4, <2>6, <2>7
<1>3. Places(q, b) # {} <=> \E s \in Socket : b \in BlocksOf(q[s])
  <2>1. ASSUME NEW s \in Socket, b \in BlocksOf(q[s])
        PROVE  Places(q, b) # {}
    <3>1. PICK i \in DOMAIN q[s] : q[s][i].block = b
      BY <2>1 DEF BlocksOf
    <3>2. <<s, i>> \in Places(q, b)
      BY <1>1, <3>1
    <3>. QED
      BY <3>2
  <2>2. ASSUME Places(q, b) # {}
        PROVE  \E s \in Socket : b \in BlocksOf(q[s])
    BY <1>1, <2>2 DEF BlocksOf
  <2>. QED
    BY <2>1, <2>2
<1>4. Cardinality(Places(q, b)) = IF Places(q, b) = {} THEN 0 ELSE 1
  BY <1>2, AtMostOne
<1>. QED
  BY <1>3, <1>4

LEMMA OwnersCounted ==
  ASSUME TypeInv, OwnInv
  PROVE  OneOwner
<1>. SUFFICES ASSUME NEW b \in Block
              PROVE  Owners(b) = IF b \in allocated THEN 1 ELSE 0
  BY DEF OneOwner
<1>1. Cardinality({i \in DOMAIN free_buffers_ : free_buffers_[i] = b})
        = IF b \in ToSet(free_buffers_) THEN 1 ELSE 0
  <2>. DEFINE F == {i \in DOMAIN free_buffers_ : free_buffers_[i] = b}
  <2>1. /\ DOMAIN free_buffers_ = 1 .. Len(free_buffers_)
        /\ Len(free_buffers_) \in Nat /\ Len(free_buffers_) <= 1
    BY LenProperties DEF TypeInv, TypeOK, PoolTypeOK, OwnInv, PoolInv
  <2>2. \A i, j \in F : i = j
    BY <2>1
  <2>3. F # {} <=> b \in ToSet(free_buffers_)
    BY DEF ToSet
  <2>. HIDE DEF F
  <2>4. Cardinality(F) = IF F = {} THEN 0 ELSE 1
    BY <2>2, AtMostOne
  <2>5. Cardinality(F) = IF b \in ToSet(free_buffers_) THEN 1 ELSE 0
    BY <2>3, <2>4
  <2>. QED
    BY <2>5 DEF F
<1>2. ASSUME NEW S PROVE Cardinality(S \cap {b}) = IF b \in S THEN 1 ELSE 0
  <2>1. Cardinality(S \cap {b}) = IF S \cap {b} = {} THEN 0 ELSE 1
    BY AtMostOne
  <2>. QED
    BY <2>1
<1>3. /\ Cardinality(InHand \cap {b}) = IF b \in InHand THEN 1 ELSE 0
      /\ Cardinality(refused \cap {b}) = IF b \in refused THEN 1 ELSE 0
  BY <1>2
<1>4. /\ Cardinality(Places(sending, b))
           = IF \E s \in Socket : b \in Sent(s) THEN 1 ELSE 0
      /\ Cardinality(Places(completed, b))
           = IF \E s \in Socket : b \in Done(s) THEN 1 ELSE 0
  <2>1. /\ sending \in [Socket -> Seq(Request)]
        /\ completed \in [Socket -> Seq(Request)]
    BY DEF TypeInv, TypeOK
  <2>2. /\ \A s \in Socket : Distinct(sending[s]) /\ Distinct(completed[s])
        /\ \A s, t \in Socket : s # t =>
             /\ BlocksOf(sending[s]) \cap BlocksOf(sending[t]) = {}
             /\ BlocksOf(completed[s]) \cap BlocksOf(completed[t]) = {}
    BY DEF OwnInv, Apart, Sent, Done
  <2>. QED
    BY <2>1, <2>2, PlacesCount DEF Sent, Done
<1>5. ~(b \in InHand /\ b \in ToSet(free_buffers_))
  BY DEF OwnInv, PoolInv, InHand, ToSet
<1>6. /\ ~(b \in Pool /\ b \in refused)
      /\ \A s \in Socket : b \in Sent(s) \/ b \in Done(s) => b \notin Pool \cup refused
      /\ \A s, t \in Socket : ~(b \in Sent(s) /\ b \in Done(t))
  BY DEF OwnInv, Apart
<1>7. b \in allocated <=>
        \/ b \in InHand \/ b \in ToSet(free_buffers_) \/ b \in refused
        \/ (\E s \in Socket : b \in Sent(s)) \/ (\E s \in Socket : b \in Done(s))
  BY DEF OwnInv, Apart, Pool
<1>8. PICK free, hand, left, sent, done \in {0, 1} :
        /\ free = Cardinality({i \in DOMAIN free_buffers_ : free_buffers_[i] = b})
        /\ hand = Cardinality(InHand \cap {b})
        /\ left = Cardinality(refused \cap {b})
        /\ sent = Cardinality(Places(sending, b))
        /\ done = Cardinality(Places(completed, b))
  BY <1>1, <1>3, <1>4
<1>9. free + hand + left + sent + done = IF b \in allocated THEN 1 ELSE 0
  <2>1. /\ free = 1 <=> b \in ToSet(free_buffers_)
        /\ hand = 1 <=> b \in InHand
        /\ left = 1 <=> b \in refused
        /\ sent = 1 <=> \E s \in Socket : b \in Sent(s)
        /\ done = 1 <=> \E s \in Socket : b \in Done(s)
    BY <1>1, <1>3, <1>4, <1>8
  <2>. QED
    BY <1>5, <1>6, <1>7, <2>1 DEF Pool
<1>. QED
  BY <1>8, <1>9 DEF Owners

(***************************************************************************)
(* A block in use has exactly one owner, and a free block none, on any     *)
(* number of sockets and however answers are sent: no path through the     *)
(* callbacks frees a buffer of the pool, gives one back twice, or loses a  *)
(* block.                                                                  *)
(***************************************************************************)
THEOREM UdpOneOwner == Spec => []OneOwner
<1>1. TypeInv /\ OwnInv => OneOwner
  BY OwnersCounted
<1>. QED
  BY <1>1, UdpInv, PTL

LEMMA PoolIsSmall ==
  ASSUME TypeInv, OwnInv
  PROVE  OneBufferIsEnough
<1>1. allocated \ Copies \subseteq Pool
  <2>1. ASSUME NEW b \in allocated, b \notin Pool
        PROVE  b \in Copies
    <3>1. CASE b \in refused
      BY <3>1 DEF Copies
    <3>2. CASE b \notin refused
      <4>1. PICK s \in Socket : b \in Sent(s) \/ b \in Done(s)
        BY <2>1, <3>2 DEF OwnInv, Apart
      <4>2. PICK q \in {sending, completed} :
              b \in { q[s][i].block : i \in DOMAIN q[s] }
        BY <4>1 DEF Sent, Done, BlocksOf
      <4>3. PICK W : W = { q[s][i].block : i \in DOMAIN q[s] }
        OBVIOUS
      <4>4. W \in { { r[t][i].block : i \in DOMAIN r[t] } :
                      r \in {sending, completed}, t \in Socket }
        BY <4>3
      <4>. QED
        BY <4>2, <4>3, <4>4 DEF Copies
    <3>. QED
      BY <3>1, <3>2
  <2>. QED
    BY <2>1
<1>2. \A x, y \in Pool : x = y
  <2>1. /\ DOMAIN free_buffers_ = 1 .. Len(free_buffers_)
        /\ Len(free_buffers_) \in Nat /\ Len(free_buffers_) <= 1
    BY LenProperties DEF TypeInv, TypeOK, PoolTypeOK, OwnInv, PoolInv
  <2>2. \A x, y \in ToSet(free_buffers_) : x = y
    BY <2>1 DEF ToSet
  <2>3. InHand = {} \/ ToSet(free_buffers_) = {}
    BY DEF InHand, OwnInv, PoolInv, ToSet
  <2>. QED
    BY <2>2, <2>3 DEF Pool, InHand
<1>3. \A x, y \in allocated \ Copies : x = y
  BY <1>1, <1>2
<1>4. Cardinality(allocated \ Copies)
        = IF allocated \ Copies = {} THEN 0 ELSE 1
  BY <1>3, AtMostOne
<1>. QED
  BY <1>4 DEF OneBufferIsEnough

(***************************************************************************)
(* Apart from the copies of answers, at most one block is ever in use: one *)
(* buffer of the pool serves every socket of the loop.                     *)
(***************************************************************************)
THEOREM UdpOneBufferIsEnough == Spec => []OneBufferIsEnough
<1>1. TypeInv /\ OwnInv => OneBufferIsEnough
  BY PoolIsSmall
<1>. QED
  BY <1>1, UdpInv, PTL

------------------------------------------------------------------------------
(* What the waiting answers hold.                                          *)

LEMMA AnswersStep ==
  ASSUME TypeInv, OwnInv, AnswersIntact, [Next]_vars
  PROVE  AnswersIntact'
<1>1. \A s \in Socket : \A i \in DOMAIN sending[s] :
        /\ sending[s][i] \in Request /\ sending[s][i].block \in Block
        /\ sending[s][i].block \in allocated /\ sending[s][i].block \notin Pool
  <2>1. \A s \in Socket : \A i \in DOMAIN sending[s] :
          sending[s][i] \in Request /\ sending[s][i].block \in Sent(s)
    BY DEF TypeInv, TypeOK, Sent, BlocksOf
  <2>. QED
    BY <2>1 DEF OwnInv, Apart, Request
<1>2. CASE Receive
  <2>1. /\ callback.block \in Block /\ callback.block \in Pool
        /\ sending' = sending
    BY <1>2, CallbackShape DEF Receive, TypeInv, Pool, InHand
  <2>2. PICK mem : memory' = [memory EXCEPT ![callback.block] = mem]
    BY <1>2, Zenon DEF Receive
  <2>3. \A b \in Block : b # callback.block => memory'[b] = memory[b]
    BY <2>2 DEF TypeInv, TypeOK
  <2>4. \A s \in Socket : \A i \in DOMAIN sending[s] :
          memory'[sending[s][i].block] = memory[sending[s][i].block]
    BY <1>1, <2>1, <2>3
  <2>. QED
    BY <2>1, <2>4 DEF AnswersIntact
<1>3. CASE Send
  <2>1. PICK s, b, req :
          /\ s \in Socket /\ b \in Block
          /\ s = callback.socket
          /\ req = [to |-> callback.from, block |-> b,
                    answer |-> callback.message]
          /\ Copy(b)
          /\ sending' = sending
               \/ sending' = [sending EXCEPT ![s] = Append(@, req)]
    <3>1. callback.socket \in Socket
      BY <1>3, CallbackShape DEF Send, TypeInv
    <3>. QED
      BY <1>3, <3>1 DEF Send
  <2>2. callback.message \in Seq(Byte) /\ callback.block \in Block
    BY <1>3, CallbackShape DEF Send, TypeInv
  <2>3. /\ b \notin allocated
        /\ memory' = [memory EXCEPT ![b] = SubSeq(memory[callback.block], 1,
                                                  Len(callback.message))]
    BY <2>1 DEF Copy, New
  <2>4. memory'[b] = callback.message
    BY <1>3, <2>1, <2>3 DEF TypeInv, TypeOK, MessageHeld, Send
  <2>5. SubSeq(memory'[b], 1, Len(callback.message)) = callback.message
    BY <2>2, <2>4, SubSeqFull
  <2>6. \A c \in Block : c # b => memory'[c] = memory[c]
    BY <2>3 DEF TypeInv, TypeOK
  <2>7. \A t \in Socket : \A i \in DOMAIN sending[t] :
          memory'[sending[t][i].block] = memory[sending[t][i].block]
    BY <1>1, <2>3, <2>6
  <2>8. CASE sending' = sending
    BY <2>7, <2>8 DEF AnswersIntact
  <2>9. CASE sending' = [sending EXCEPT ![s] = Append(@, req)]
    <3>. SUFFICES ASSUME NEW t \in Socket, NEW i \in DOMAIN sending'[t]
                  PROVE  SubSeq(memory'[sending'[t][i].block], 1,
                                Len(sending'[t][i].answer))
                           = sending'[t][i].answer
      BY DEF AnswersIntact
    <3>1. CASE i \in DOMAIN sending[t] /\ sending'[t][i] = sending[t][i]
      BY <2>7, <3>1 DEF AnswersIntact
    <3>2. CASE sending'[t][i] = req
      BY <2>1, <2>5, <3>2
    <3>3. CASE t # s
      <4>1. sending'[t] = sending[t]
        BY <2>9, <3>3 DEF TypeInv, TypeOK
      <4>. QED
        BY <3>1, <4>1
    <3>4. CASE t = s
      <4>1. sending[t] \in Seq(Request) /\ sending'[t] = Append(sending[t], req)
        BY <2>9, <3>4 DEF TypeInv, TypeOK
      <4>2. /\ DOMAIN sending'[t] = 1 .. Len(sending[t]) + 1
            /\ DOMAIN sending[t] = 1 .. Len(sending[t])
            /\ Len(sending[t]) \in Nat
            /\ sending'[t][Len(sending[t]) + 1] = req
            /\ \A j \in 1 .. Len(sending[t]) : sending'[t][j] = sending[t][j]
        BY <4>1, AppendProperties, LenProperties
      <4>. QED
        BY <3>1, <3>2, <4>2
    <3>. QED
      BY <3>3, <3>4
  <2>. QED
    BY <2>1, <2>8, <2>9
<1>4. ASSUME NEW s \in Socket, Transmit(s)
      PROVE  AnswersIntact'
  <2>1. /\ memory' = memory /\ sending[s] # <<>>
        /\ sending[s] \in Seq(Request)
        /\ sending' = [sending EXCEPT ![s] = Tail(@)]
    BY <1>4 DEF Transmit, TypeInv, TypeOK
  <2>2. ASSUME NEW t \in Socket, NEW i \in DOMAIN sending'[t]
        PROVE  \E j \in DOMAIN sending[t] : sending'[t][i] = sending[t][j]
    <3>1. CASE t # s
      <4>1. sending'[t] = sending[t]
        BY <2>1, <3>1 DEF TypeInv, TypeOK
      <4>. QED
        BY <4>1
    <3>2. CASE t = s
      <4>1. sending'[t] = Tail(sending[t])
        BY <2>1, <3>2 DEF TypeInv, TypeOK
      <4>2. /\ DOMAIN Tail(sending[t]) = 1 .. Len(sending[t]) - 1
            /\ DOMAIN sending[t] = 1 .. Len(sending[t])
            /\ Len(sending[t]) \in Nat
            /\ \A j \in 1 .. Len(sending[t]) - 1 :
                 Tail(sending[t])[j] = sending[t][j + 1]
        BY <2>1, <3>2, HeadTailProperties, LenProperties
      <4>3. i + 1 \in DOMAIN sending[t] /\ sending'[t][i] = sending[t][i + 1]
        BY <4>1, <4>2
      <4>. QED
        BY <4>3
    <3>. QED
      BY <3>1, <3>2
  <2>. QED
    BY <2>1, <2>2 DEF AnswersIntact
<1>5. ASSUME UNCHANGED <<memory, sending>>
      PROVE  AnswersIntact'
  BY <1>5 DEF AnswersIntact
<1>6. ASSUME NEW s \in Socket,
             \/ Start(s) \/ Allocate(s) \/ SendDone(s)
             \/ \E d \in Datagram : Arrive(s, d)
      PROVE  AnswersIntact'
  BY <1>5, <1>6 DEF Start, Allocate, SendDone, Arrive
<1>7. CASE ReceiveFails \/ ReceiveNothing \/ MessageDone \/ CallbackReturns
  BY <1>5, <1>7 DEF ReceiveFails, ReceiveNothing, MessageDone, CallbackReturns
<1>8. CASE UNCHANGED vars
  BY <1>5, <1>8 DEF vars, udpVars
<1>. QED
  BY <1>2, <1>3, <1>4, <1>6, <1>7, <1>8 DEF Next

(***************************************************************************)
(* A request that waits to be transmitted still holds the message that it  *)
(* answers, however many datagrams the buffer has been used for since and  *)
(* however much of the memory was freed and used again: no block of a      *)
(* waiting request is written to.                                          *)
(***************************************************************************)
THEOREM UdpAnswersIntact == Spec => []AnswersIntact
<1>1. Init => AnswersIntact
  BY DEF Init, AnswersIntact
<1>2. TypeInv /\ OwnInv /\ AnswersIntact /\ [Next]_vars => AnswersIntact'
  BY AnswersStep
<1>. QED
  BY <1>1, <1>2, UdpInv, PTL DEF Spec

------------------------------------------------------------------------------
(* What the application is given.                                          *)

LEMMA SetToSeqOfNone == SetToSeq({}) = <<>>
<1>1. Cardinality({}) = 0
  BY FS_EmptySet
<1>2. \A f \in [1 .. 0 -> {}] : f = <<>>
  OBVIOUS
<1>3. <<>> \in [1 .. 0 -> {}] /\ IsInjective(<<>>)
  BY DEF IsInjective
<1>. QED
  BY <1>1, <1>2, <1>3 DEF SetToSeq

LEMMA SetToSeqOfOne == ASSUME NEW x PROVE SetToSeq({x}) = <<x>>
<1>1. Cardinality({x}) = 1
  BY FS_Singleton
<1>2. \A f \in [1 .. 1 -> {x}] : f = <<x>>
  OBVIOUS
<1>3. <<x>> \in [1 .. 1 -> {x}] /\ IsInjective(<<x>>)
  BY DEF IsInjective
<1>. QED
  BY <1>1, <1>2, <1>3 DEF SetToSeq

Delivery == [from : Peer, data : Seq(Byte)]

(* What fits of a datagram is its beginning, and its size field is that of *)
(* the datagram.                                                           *)
LEMMA FittingIsBeginning ==
  ASSUME NEW sent \in Seq(Byte), NEW data, data = Fitting(sent)
  PROVE  /\ Len(data) = IF Len(sent) <= ReadBufferSize THEN Len(sent)
                                                       ELSE ReadBufferSize
         /\ \A n \in 0 .. Len(data) : SubSeq(data, 1, n) = SubSeq(sent, 1, n)
         /\ Len(data) >= HeaderSize => SizeField(data) = SizeField(sent)
<1>1. CASE Len(sent) <= ReadBufferSize
  BY <1>1 DEF Fitting
<1>2. CASE ~(Len(sent) <= ReadBufferSize)
  <2>1. /\ ReadBufferSize \in Nat /\ Len(sent) \in Nat
        /\ ReadBufferSize \in 0 .. Len(sent) /\ data = SubSeq(sent, 1, ReadBufferSize)
    BY <1>2, UdpAssumption DEF Fitting
  <2>2. PICK rest : rest = SubSeq(sent, ReadBufferSize + 1, Len(sent))
    OBVIOUS
  <2>3. /\ data \in Seq(Byte) /\ Len(data) = ReadBufferSize
        /\ rest \in Seq(Byte) /\ data \o rest = sent
    BY <2>1, <2>2, CutInTwo
  <2>4. ASSUME NEW n \in 0 .. Len(data)
        PROVE  SubSeq(data \o rest, 1, n) = SubSeq(data, 1, n)
    <3>1. CASE n = 0
      BY <3>1, SubSeqEmpty
    <3>2. CASE n # 0
      <4>1. n \in 1 .. Len(data) /\ 1 \in 1 .. Len(data)
        BY <2>1, <2>3, <3>2
      <4>. QED
        BY <2>3, <4>1, SubSeqOfConcat1
    <3>. QED
      BY <3>1, <3>2
  <2>5. Len(data) >= HeaderSize => SizeField(data \o rest) = SizeField(data)
    BY <2>3, SizeOfConcat
  <2>. QED
    BY <1>2, <2>3, <2>4, <2>5
<1>. QED
  BY <1>1, <1>2

(* What a datagram brings, as the receive callback decides it.             *)
LEMMA MessagesOfIs ==
  ASSUME NEW d \in Datagram, NEW data, data = Fitting(d.data)
  PROVE  /\ data # <<>> /\ HasMessage(data) =>
              MessagesOf(d) = <<[from |-> d.from, data |-> Message(data)]>>
         /\ ~(data # <<>> /\ HasMessage(data)) => MessagesOf(d) = <<>>
<1>1. data \in Seq(Byte) /\ Len(data) \in Nat /\ (data = <<>> <=> Len(data) = 0)
  BY FittingFits, UdpAssumption, EmptySeq DEF Datagram
<1>2. /\ d.data \in Seq(Byte) /\ Len(d.data) \in Nat /\ ReadBufferSize \in Nat
      /\ Len(data) = IF Len(d.data) <= ReadBufferSize THEN Len(d.data)
                                                      ELSE ReadBufferSize
      /\ \A n \in 0 .. Len(data) : SubSeq(data, 1, n) = SubSeq(d.data, 1, n)
      /\ Len(data) >= HeaderSize => SizeField(data) = SizeField(d.data)
  BY FittingIsBeginning, UdpAssumption DEF Datagram
<1>3. PICK packages, lengths :
        /\ packages = { n \in PackagesIn(d.data) : n <= ReadBufferSize }
        /\ lengths = IF hasProtocol THEN packages ELSE {Len(data)} \ {0}
  OBVIOUS
<1>4. packages = { n \in HeaderSize .. Len(data) :
                     n = SizeField(data) /\ n <= MaxPackage }
  <2>1. \A n : n \in packages <=>
          /\ n \in HeaderSize .. Len(d.data) /\ n <= ReadBufferSize
          /\ n = SizeField(d.data) /\ n <= MaxPackage
    BY <1>3 DEF PackagesIn
  <2>2. \A n : n \in HeaderSize .. Len(d.data) /\ n <= ReadBufferSize
                <=> n \in HeaderSize .. Len(data)
    BY <1>2 DEF HeaderSize
  <2>3. \A n \in HeaderSize .. Len(data) : SizeField(d.data) = SizeField(data)
    BY <1>1, <1>2 DEF HeaderSize
  <2>. QED
    BY <2>1, <2>2, <2>3
<1>5. \A n \in lengths : SubSeq(data, 1, n) = SubSeq(d.data, 1, n)
  BY <1>1, <1>2, <1>3, <1>4 DEF HeaderSize
<1>6. MessagesOf(d) =
        SetToSeq({ [from |-> d.from, data |-> SubSeq(data, 1, n)] : n \in lengths })
  <2>1. MessagesOf(d) =
          SetToSeq({ [from |-> d.from, data |-> SubSeq(d.data, 1, n)]
                       : n \in lengths })
    BY <1>2, <1>3, Zenon DEF MessagesOf
  <2>2. { [from |-> d.from, data |-> SubSeq(d.data, 1, n)] : n \in lengths }
          = { [from |-> d.from, data |-> SubSeq(data, 1, n)] : n \in lengths }
    BY <1>5
  <2>. QED
    BY <2>1, <2>2
<1>7. ASSUME data # <<>>, HasMessage(data)
      PROVE  \E n : lengths = {n} /\ SubSeq(data, 1, n) = Message(data)
  <2>1. CASE ~hasProtocol
    <3>1. SubSeq(data, 1, Len(data)) = data
      BY <1>1, SubSeqFull
    <3>. QED
      BY <1>1, <1>3, <1>7, <2>1, <3>1 DEF Message
  <2>2. CASE hasProtocol
    <3>1. PICK n : n = SizeField(data)
      OBVIOUS
    <3>2. n \in HeaderSize .. Len(data) /\ n <= MaxPackage
      BY <1>1, <1>7, <2>2, <3>1, FullHasSize DEF HasMessage
    <3>3. packages = {n}
      BY <1>4, <3>1, <3>2
    <3>. QED
      BY <1>3, <2>2, <3>1, <3>3 DEF Message
  <2>. QED
    BY <2>1, <2>2
<1>8. ASSUME ~(data # <<>> /\ HasMessage(data))
      PROVE  lengths = {}
  <2>1. CASE ~hasProtocol
    BY <1>1, <1>3, <1>8, <2>1 DEF HasMessage
  <2>2. CASE hasProtocol
    <3>1. ASSUME NEW n \in packages
          PROVE  FALSE
      <4>1. /\ n = SizeField(data) /\ n \in HeaderSize .. Len(data)
            /\ n <= MaxPackage
        BY <1>4, <3>1
      <4>2. Len(data) >= HeaderSize /\ data # <<>>
        BY <1>1, <4>1 DEF HeaderSize
      <4>3. PackageFull(data)
        BY <1>1, <4>1, <4>2, FullHasSize
      <4>. QED
        BY <1>8, <4>2, <4>3 DEF HasMessage
    <3>. QED
      BY <1>3, <2>2, <3>1
  <2>. QED
    BY <2>1, <2>2
<1>9. ASSUME NEW n, lengths = {n}
      PROVE  MessagesOf(d) = <<[from |-> d.from, data |-> SubSeq(data, 1, n)]>>
  <2>1. { [from |-> d.from, data |-> SubSeq(data, 1, m)] : m \in lengths }
          = { [from |-> d.from, data |-> SubSeq(data, 1, n)] }
    BY <1>9
  <2>. QED
    BY <1>6, <2>1, SetToSeqOfOne
<1>10. ASSUME lengths = {}
       PROVE  MessagesOf(d) = <<>>
  <2>1. { [from |-> d.from, data |-> SubSeq(data, 1, m)] : m \in lengths } = {}
    BY <1>10
  <2>. QED
    BY <1>6, <2>1, SetToSeqOfNone
<1>. QED
  BY <1>7, <1>8, <1>9, <1>10

Brought == [i \in 1 .. Len(taken) |-> MessagesOf(taken[i])]

LEMMA MessagesOfType ==
  ASSUME NEW d \in Datagram
  PROVE  MessagesOf(d) \in Seq(Delivery)
<1>1. PICK data : data = Fitting(d.data)
  OBVIOUS
<1>2. d.from \in Peer /\ data \in Seq(Byte)
  BY <1>1, FittingFits, UdpAssumption DEF Datagram
<1>3. CASE data # <<>> /\ HasMessage(data)
  <2>1. Message(data) \in Seq(Byte)
    BY <1>2, <1>3, MessageIsBeginning
  <2>2. PICK m \in Delivery : m = [from |-> d.from, data |-> Message(data)]
    BY <1>2, <2>1 DEF Delivery
  <2>3. MessagesOf(d) = <<m>>
    BY <1>1, <1>3, <2>2, MessagesOfIs
  <2>. QED
    BY <2>3
<1>4. CASE ~(data # <<>> /\ HasMessage(data))
  BY <1>1, <1>4, MessagesOfIs, Nothing
<1>. QED
  BY <1>3, <1>4

LEMMA BroughtType == TypeInv => Brought \in Seq(Seq(Delivery))
<1>. SUFFICES ASSUME TypeInv PROVE Brought \in Seq(Seq(Delivery))
  OBVIOUS
<1>1. taken \in Seq(Datagram) /\ Len(taken) \in Nat
  BY DEF TypeInv, TypeOK
<1>2. \A i \in 1 .. Len(taken) : MessagesOf(taken[i]) \in Seq(Delivery)
  BY <1>1, MessagesOfType
<1>3. Brought \in [1 .. Len(taken) -> Seq(Delivery)]
  BY <1>2 DEF Brought
<1>. QED
  BY <1>1, <1>3

LEMMA DeliveryStep ==
  ASSUME TypeInv, MessagesAreDatagrams, [Next]_vars
  PROVE  MessagesAreDatagrams'
<1>0. hasProtocol' = hasProtocol
  BY DEF Next, Start, Arrive, Allocate, Transmit, SendDone, Receive,
         ReceiveFails, ReceiveNothing, Send, MessageDone, CallbackReturns,
         vars, udpVars
<1>1. \A d : MessagesOf(d)' = MessagesOf(d)
  BY <1>0, Zenon DEF MessagesOf
<1>2. CASE UNCHANGED <<taken, delivered>>
  <2>1. Brought' = Brought
    BY <1>1, <1>2 DEF Brought
  <2>. QED
    BY <1>2, <2>1 DEF MessagesAreDatagrams, Brought
<1>3. CASE Receive
  <2>1. PICK s, d, data :
          /\ s = callback.socket /\ d = Head(kernel[s]) /\ data = Fitting(d.data)
    OBVIOUS
  <2>2. /\ kernel[s] # <<>> /\ taken' = Append(taken, d)
        /\ \/ /\ data # <<>> /\ HasMessage(data)
              /\ delivered' = Append(delivered,
                                [from |-> d.from, data |-> Message(data)])
           \/ /\ ~(data # <<>> /\ HasMessage(data))
              /\ delivered' = delivered
    BY <1>3, <2>1, Zenon DEF Receive
  <2>3. d \in Datagram
    <3>1. s \in Socket
      BY <1>3, <2>1, CallbackShape DEF TypeInv, Receive
    <3>. QED
      BY <2>1, <2>2, <3>1, HeadTailProperties DEF TypeInv, TypeOK
  <2>4. /\ taken \in Seq(Datagram) /\ delivered \in Seq(Delivery)
        /\ Brought \in Seq(Seq(Delivery)) /\ MessagesOf(d) \in Seq(Delivery)
        /\ delivered = FlattenSeq(Brought)
    BY <2>3, BroughtType, MessagesOfType
       DEF TypeInv, TypeOK, Delivery, MessagesAreDatagrams, Brought
  <2>5. Brought' = Append(Brought, MessagesOf(d))
    <3>1. PICK n \in Nat : n = Len(taken)
      BY <2>4
    <3>2. /\ Len(taken') = n + 1 /\ taken'[n + 1] = d
          /\ \A i \in 1 .. n : taken'[i] = taken[i]
      BY <2>2, <2>3, <2>4, <3>1, AppendProperties
    <3>3. Brought' = [i \in 1 .. n + 1 |-> MessagesOf(taken'[i])]
      BY <1>1, <3>2 DEF Brought
    <3>4. /\ Brought = [i \in 1 .. n |-> MessagesOf(taken[i])] /\ Len(Brought) = n
          /\ \A i \in 1 .. n : Brought[i] = MessagesOf(taken[i])
      BY <3>1 DEF Brought
    <3>5. PICK b : b = Append(Brought, MessagesOf(d))
      OBVIOUS
    <3>6. /\ b \in Seq(Seq(Delivery)) /\ Len(b) = n + 1
          /\ b[n + 1] = MessagesOf(d)
          /\ \A i \in 1 .. n : b[i] = Brought[i]
      BY <2>4, <3>4, <3>5, AppendProperties
    <3>7. ASSUME NEW i \in 1 .. n + 1
          PROVE  b[i] = MessagesOf(taken'[i])
      <4>1. CASE i = n + 1
        BY <3>2, <3>6, <4>1, Zenon
      <4>2. CASE i # n + 1
        <5>1. i \in 1 .. n
          BY <4>2
        <5>. QED
          BY <3>2, <3>4, <3>6, <5>1, Zenon
      <4>. QED
        BY <4>1, <4>2
    <3>8. b = [i \in 1 .. n + 1 |-> b[i]]
      BY <3>6
    <3>. QED
      BY <3>3, <3>5, <3>7, <3>8
  <2>6. FlattenSeq(Brought') = delivered \o MessagesOf(d)
    BY <2>4, <2>5, FlattenAppend
  <2>7. CASE data # <<>> /\ HasMessage(data)
    <3>1. PICK m : m = [from |-> d.from, data |-> Message(data)]
      OBVIOUS
    <3>2. MessagesOf(d) = <<m>>
      BY <2>1, <2>3, <2>7, <3>1, MessagesOfIs
    <3>3. m \in Delivery
      BY <2>4, <3>2
    <3>4. Append(delivered, m) = delivered \o <<m>>
      BY <2>4, <3>3, AppendIsConcat
    <3>. QED
      BY <2>2, <2>6, <2>7, <3>1, <3>2, <3>4 DEF MessagesAreDatagrams, Brought
  <2>8. CASE ~(data # <<>> /\ HasMessage(data))
    <3>1. MessagesOf(d) = <<>>
      BY <2>1, <2>3, <2>8, MessagesOfIs
    <3>2. delivered \o <<>> = delivered
      BY <2>4, ConcatEmptySeq
    <3>. QED
      BY <2>2, <2>6, <2>8, <3>1, <3>2 DEF MessagesAreDatagrams, Brought
  <2>. QED
    BY <2>7, <2>8
<1>. QED
  BY <1>2, <1>3
     DEF Next, Start, Arrive, Allocate, Transmit, SendDone,
         ReceiveFails, ReceiveNothing, Send, MessageDone, CallbackReturns,
         vars, udpVars

(***************************************************************************)
(* The messages passed to the application are, in the order received, the  *)
(* packages that the datagrams began with when they were sent: all those   *)
(* that fit the buffer, for any sizes of the buffer and of the largest     *)
(* package.  Without a protocol they are the beginnings of the datagrams   *)
(* that fit the buffer.                                                    *)
(***************************************************************************)
THEOREM UdpMessagesAreDatagrams == Spec => []MessagesAreDatagrams
<1>1. Init => MessagesAreDatagrams
  <2>. SUFFICES ASSUME Init PROVE MessagesAreDatagrams
    OBVIOUS
  <2>1. taken = <<>> /\ delivered = <<>> /\ Len(<<>>) = 0
    BY EmptySeq DEF Init
  <2>2. [i \in 1 .. 0 |-> MessagesOf(taken[i])] = <<>>
    OBVIOUS
  <2>. QED
    BY <2>1, <2>2, FlattenNone DEF MessagesAreDatagrams
<1>2. TypeInv /\ MessagesAreDatagrams /\ [Next]_vars => MessagesAreDatagrams'
  BY DeliveryStep
<1>. QED
  BY <1>1, <1>2, UdpInv, PTL DEF Spec
=============================================================================
