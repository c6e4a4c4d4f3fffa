----------------------------- MODULE UdpServer -----------------------------
(***************************************************************************)
(* A UdpServer on one event loop, with several sockets.  A datagram is     *)
(* read into a buffer of the pool, passed to the application through the   *)
(* protocol, if there is one, and the buffer goes back to the pool.  The   *)
(* application answers from within OnMessage through the UdpConnection it  *)
(* is given; the answer may still be with libuv when the buffer is used    *)
(* for the next datagram.                                                  *)
(*                                                                         *)
(* libuv pairs the allocation callback with a receive callback: with a     *)
(* datagram, with nothing (no address), or with an error.  The kernel      *)
(* keeps a queue of datagrams per socket; a datagram that the network or   *)
(* the kernel drops is one that never arrives, and duplicates and any      *)
(* order are among the arrivals.                                           *)
(***************************************************************************)
EXTENDS BufferPool, FixSizeProtocol, FiniteSets, SequencesExt

CONSTANTS
  Socket, Peer,
  Datagrams,           \* what a peer may send: sequences of bytes
  ReadBufferSize,      \* of the configuration and of the pool
  MaxArrivals,         \* bound of the model: datagrams that arrive
  MaxErrors            \* bound of the model: receive errors

ASSUME UdpAssumption ==
  /\ Datagrams \subseteq Seq(Byte)
  /\ ReadBufferSize \in Nat \ {0}
  /\ MaxArrivals \in Nat
  /\ MaxErrors \in Nat

Datagram == [from : Peer, data : Datagrams]

VARIABLES
  hasProtocol,         \* SetServerProtocol was called
  socket,              \* of each socket: "none", "receiving", or "failed"
  kernel,              \* of each socket: the datagrams to be received
  arrivals, errors,    \* how many there have been
  callback,            \* libuv's callback that is running, and what it holds
  memory,              \* the contents of the blocks of the heap
  sending,             \* of each socket: the requests to be transmitted
  completed,           \* of each socket: the requests to be called back
  refused,             \* the blocks of the requests uv_udp_send refused
  taken,               \* history: the datagrams received
  delivered            \* the messages passed to OnMessage, with their peer

udpVars == <<hasProtocol, socket, kernel, arrivals, errors, callback, memory,
             sending, completed, refused, taken, delivered>>
vars == <<poolVars, udpVars>>

NoCallback == [stage |-> "none"]

(* stage "reading": the buffer is with libuv.  "message": OnMessage has    *)
(* the message, of which message is the copy that the model keeps.         *)
(* "return": what is left is to give the buffer back.                      *)
Callback ==
  {NoCallback}
    \cup [stage : {"reading", "return"}, socket : Socket, block : Block]
    \cup [stage : {"message"}, socket : Socket, block : Block, from : Peer,
          message : Seq(Byte)]

(* answer: history, the message the request answers.                       *)
Request == [to : Peer, block : Block, answer : Seq(Byte)]

TypeOK ==
  /\ PoolTypeOK
  /\ hasProtocol \in BOOLEAN
  /\ socket \in [Socket -> {"none", "receiving", "failed"}]
  /\ kernel \in [Socket -> Seq(Datagram)]
  /\ arrivals \in 0 .. MaxArrivals
  /\ errors \in 0 .. MaxErrors
  /\ callback \in Callback
  /\ memory \in [Block -> Seq(Byte)]
  /\ \A b \in Block : Len(memory[b]) <= ReadBufferSize
  /\ sending \in [Socket -> Seq(Request)]
  /\ completed \in [Socket -> Seq(Request)]
  /\ refused \subseteq Block
  /\ taken \in Seq(Datagram)
  /\ delivered \in Seq([from : Peer, data : Seq(Byte)])

Init ==
  /\ PoolInit
  /\ hasProtocol \in BOOLEAN
  /\ socket = [s \in Socket |-> "none"]
  /\ kernel = [s \in Socket |-> <<>>]
  /\ arrivals = 0 /\ errors = 0
  /\ callback = NoCallback
  /\ memory = [b \in Block |-> <<>>]
  /\ sending = [s \in Socket |-> <<>>]
  /\ completed = [s \in Socket |-> <<>>]
  /\ refused = {}
  /\ taken = <<>>
  /\ delivered = <<>>

------------------------------------------------------------------------------
(* Start for another socket; the bind may fail.                            *)
Start(s) ==
  /\ callback = NoCallback
  /\ socket[s] = "none"
  /\ socket' = [socket EXCEPT ![s] = "receiving"]
       \/ socket' = [socket EXCEPT ![s] = "failed"]
  /\ UNCHANGED <<poolVars, hasProtocol, kernel, arrivals, errors, callback,
                 memory, sending, completed, refused, taken, delivered>>

(* The kernel gets a datagram for a bound socket, at any time.             *)
Arrive(s, d) ==
  /\ socket[s] = "receiving"
  /\ arrivals < MaxArrivals
  /\ arrivals' = arrivals + 1
  /\ kernel' = [kernel EXCEPT ![s] = Append(@, d)]
  /\ UNCHANGED <<poolVars, hasProtocol, socket, errors, callback, memory,
                 sending, completed, refused, taken, delivered>>

(* The allocation callback; libuv then reads, datagram or not.             *)
Allocate(s) ==
  /\ callback = NoCallback
  /\ socket[s] = "receiving"
  /\ \E b \in Block :
       /\ AcquireBuffer(b)
       /\ callback' = [stage |-> "reading", socket |-> s, block |-> b]
  /\ UNCHANGED <<hasProtocol, socket, kernel, arrivals, errors, memory,
                 sending, completed, refused, taken, delivered>>

Returning == [stage |-> "return", socket |-> callback.socket,
              block |-> callback.block]

(* Faulty variant of Fitting: buf->len is more than the buffer has.        *)
AnnouncedMore(data) == data

(* What the kernel copies of a datagram: buf->len bytes at most.           *)
Fitting(data) ==
  IF Len(data) <= ReadBufferSize THEN data ELSE SubSeq(data, 1, ReadBufferSize)

(* Faulty variant of Message: the datagram is taken for the package.       *)
WholeDatagram(data) == data

(* What OnMessage passes on of a datagram with a message in it.            *)
Message(data) ==
  IF hasProtocol THEN SubSeq(data, 1, SizeField(data)) ELSE data

HasMessage(data) == hasProtocol => PackageFull(data)

(***************************************************************************)
(* The receive callback with a datagram.  The kernel cuts it to the size   *)
(* of the buffer; the flag that says so is ignored.  One without a byte is *)
(* ignored, one without a message is logged or dropped.                    *)
(***************************************************************************)
Receive ==
  /\ callback.stage = "reading"
  /\ LET s    == callback.socket
         d    == Head(kernel[s])
         data == Fitting(d.data)
     IN  /\ kernel[s] # <<>>
         /\ kernel' = [kernel EXCEPT ![s] = Tail(@)]
         /\ taken' = Append(taken, d)
         /\ memory' = [memory EXCEPT ![callback.block] =
                         data \o SubSeq(@, Len(data) + 1, Len(@))]
         /\ \/ /\ data # <<>> /\ HasMessage(data)
               /\ callback' = [stage |-> "message", socket |-> s,
                               block |-> callback.block, from |-> d.from,
                               message |-> Message(data)]
               /\ delivered' = Append(delivered,
                                 [from |-> d.from, data |-> Message(data)])
            \/ /\ ~(data # <<>> /\ HasMessage(data))
               /\ callback' = Returning
               /\ UNCHANGED delivered
  /\ UNCHANGED <<poolVars, hasProtocol, socket, arrivals, errors, sending,
                 completed, refused>>

(* Faulty variant of ReceiveFails: it returns without the buffer.          *)
ReceiveFailsAndKeeps ==
  /\ callback.stage = "reading"
  /\ errors < MaxErrors
  /\ errors' = errors + 1
  /\ callback' = NoCallback
  /\ UNCHANGED <<poolVars, hasProtocol, socket, kernel, arrivals, memory,
                 sending, completed, refused, taken, delivered>>

(* The receive callback with an error, which is logged.                    *)
ReceiveFails ==
  /\ callback.stage = "reading"
  /\ errors < MaxErrors
  /\ errors' = errors + 1
  /\ callback' = Returning
  /\ UNCHANGED <<poolVars, hasProtocol, socket, kernel, arrivals, memory,
                 sending, completed, refused, taken, delivered>>

(* The receive callback with nothing: there was no datagram.               *)
ReceiveNothing ==
  /\ callback.stage = "reading"
  /\ kernel[callback.socket] = <<>>
  /\ callback' = Returning
  /\ UNCHANGED <<poolVars, hasProtocol, socket, kernel, arrivals, errors,
                 memory, sending, completed, refused, taken, delivered>>

------------------------------------------------------------------------------
(* Faulty variant of Copy: the request points to the caller's bytes.       *)
NoCopy(b) ==
  /\ b = callback.block
  /\ UNCHANGED <<allocated, memory>>

(* new char[len] and memcpy; memory' holds the message and nothing else.   *)
Copy(b) ==
  /\ New(b)
  /\ memory' = [memory EXCEPT ![b] = SubSeq(memory[callback.block], 1,
                                            Len(callback.message))]

(***************************************************************************)
(* The application answers with the message, through UdpConnection::Send.  *)
(* uv_udp_send transmits at once, keeps the request for later, or refuses  *)
(* it, which Send does not look at; the first two end in its callback.     *)
(***************************************************************************)
Send ==
  /\ callback.stage = "message"
  /\ \E b \in Block :
       LET s   == callback.socket
           req == [to |-> callback.from, block |-> b,
                   answer |-> callback.message]
       IN  /\ Copy(b)
           /\ \/ /\ sending[s] = <<>>
                 /\ completed' = [completed EXCEPT ![s] = Append(@, req)]
                 /\ UNCHANGED <<sending, refused>>
              \/ /\ sending' = [sending EXCEPT ![s] = Append(@, req)]
                 /\ UNCHANGED <<completed, refused>>
              \/ /\ refused' = refused \cup {b}
                 /\ UNCHANGED <<sending, completed>>
  /\ UNCHANGED <<free_buffers_, hasProtocol, socket, kernel, arrivals, errors,
                 callback, taken, delivered>>

(* OnMessage returns.                                                      *)
MessageDone ==
  /\ callback.stage = "message"
  /\ callback' = Returning
  /\ UNCHANGED <<poolVars, hasProtocol, socket, kernel, arrivals, errors,
                 memory, sending, completed, refused, taken, delivered>>

(* The end of the receive callback.                                        *)
CallbackReturns ==
  /\ callback.stage = "return"
  /\ ReleaseBuffer(callback.block)
  /\ callback' = NoCallback
  /\ UNCHANGED <<hasProtocol, socket, kernel, arrivals, errors, memory,
                 sending, completed, refused, taken, delivered>>

(* The socket is writable: libuv transmits, from the request's buffer.     *)
Transmit(s) ==
  /\ callback = NoCallback
  /\ sending[s] # <<>>
  /\ completed' = [completed EXCEPT ![s] = Append(@, Head(sending[s]))]
  /\ sending' = [sending EXCEPT ![s] = Tail(@)]
  /\ UNCHANGED <<poolVars, hasProtocol, socket, kernel, arrivals, errors,
                 callback, memory, refused, taken, delivered>>

(* Faulty variant of SendDone: the copy of the data is not freed.          *)
SendDoneKeepsCopy(s) ==
  /\ callback = NoCallback
  /\ completed[s] # <<>>
  /\ completed' = [completed EXCEPT ![s] = Tail(@)]
  /\ UNCHANGED <<poolVars, hasProtocol, socket, kernel, arrivals, errors,
                 callback, memory, sending, refused, taken, delivered>>

(* The callback of uv_udp_send, transmitted or failed.                     *)
SendDone(s) ==
  /\ callback = NoCallback
  /\ completed[s] # <<>>
  /\ Delete(Head(completed[s]).block)
  /\ completed' = [completed EXCEPT ![s] = Tail(@)]
  /\ UNCHANGED <<free_buffers_, hasProtocol, socket, kernel, arrivals, errors,
                 callback, memory, sending, refused, taken, delivered>>

Step == Receive \/ ReceiveNothing \/ MessageDone \/ CallbackReturns

Next ==
  \/ \E s \in Socket :
       \/ Start(s)
       \/ \E d \in Datagram : Arrive(s, d)
       \/ Allocate(s)
       \/ Transmit(s)
       \/ SendDone(s)
  \/ Receive \/ ReceiveFails \/ ReceiveNothing
  \/ Send \/ MessageDone \/ CallbackReturns

(***************************************************************************)
(* A callback runs to its end; the loop comes round to every socket, for   *)
(* reading, for writing and for the callbacks that are due.                *)
(***************************************************************************)
Fairness ==
  /\ WF_vars(Step)
  /\ \A s \in Socket :
       SF_vars(Allocate(s)) /\ SF_vars(Transmit(s)) /\ SF_vars(SendDone(s))

Spec == Init /\ [][Next]_vars

FairSpec == Spec /\ Fairness
------------------------------------------------------------------------------
InHand == IF callback = NoCallback THEN {} ELSE {callback.block}

Places(requests, b) ==
  { p \in UNION { {s} \X DOMAIN requests[s] : s \in Socket } :
      requests[p[1]][p[2]].block = b }

Owners(b) ==
  Cardinality({i \in DOMAIN free_buffers_ : free_buffers_[i] = b})
    + Cardinality(InHand \cap {b}) + Cardinality(refused \cap {b})
    + Cardinality(Places(sending, b)) + Cardinality(Places(completed, b))

(***************************************************************************)
(* A block in use has one owner, a free one has none: the pool, the        *)
(* running callback, or one request.  No path of the callbacks gives a     *)
(* buffer back twice, frees the pool's memory or loses a block.            *)
(***************************************************************************)
OneOwner ==
  \A b \in Block : Owners(b) = IF b \in allocated THEN 1 ELSE 0

(* The blocks of the requests that libuv has, and of those it refused.     *)
Copies ==
  refused \cup UNION { { q[s][i].block : i \in DOMAIN q[s] } :
                         q \in {sending, completed}, s \in Socket }

(***************************************************************************)
(* Every path through the receive callback gives the buffer back, so one   *)
(* buffer serves all the sockets of the loop for ever.                     *)
(***************************************************************************)
OneBufferIsEnough == Cardinality(allocated \ Copies) <= 1

(***************************************************************************)
(* A request that waits to be transmitted still holds the message it       *)
(* answers, however many datagrams its buffer has served since.            *)
(***************************************************************************)
AnswersIntact ==
  \A s \in Socket : \A i \in DOMAIN sending[s] :
    LET req == sending[s][i]
    IN  SubSeq(memory[req.block], 1, Len(req.answer)) = req.answer

(* The length of the package a datagram begins with, as it was sent.       *)
PackagesIn(data) ==
  { n \in HeaderSize .. Len(data) : n = SizeField(data) /\ n <= MaxPackage }

(***************************************************************************)
(* What a datagram should bring, told from the bytes its peer sent: its    *)
(* package, or all of it if there is no protocol.  The buffer makes two    *)
(* exceptions: a package longer than the buffer brings nothing, although   *)
(* it came whole and is of an allowed size, and without a protocol the     *)
(* bytes that do not fit are missing.                                      *)
(***************************************************************************)
MessagesOf(d) ==
  LET packages == { n \in PackagesIn(d.data) : n <= ReadBufferSize }
      kept     == IF Len(d.data) <= ReadBufferSize THEN Len(d.data)
                                                   ELSE ReadBufferSize
      lengths  == IF hasProtocol THEN packages ELSE {kept} \ {0}
  IN  SetToSeq({ [from |-> d.from, data |-> SubSeq(d.data, 1, n)] : n \in lengths })

(***************************************************************************)
(* The application gets what the peers sent: of each datagram received, in *)
(* that order, the package it begins with, never a part of one, whatever   *)
(* the kernel cut off behind it and whatever the buffer held before.  Not  *)
(* every datagram with a package of an allowed size brings it: the buffer  *)
(* may be the shorter of the two limits, as in the default configuration.  *)
(***************************************************************************)
MessagesAreDatagrams ==
  delivered = FlattenSeq([i \in 1 .. Len(taken) |-> MessagesOf(taken[i])])

(***************************************************************************)
(* The datagrams of every socket are received, whatever errors and refused *)
(* answers there are.                                                      *)
(***************************************************************************)
DatagramsReceived ==
  \A s \in Socket : kernel[s] # <<>> ~> kernel[s] = <<>>

(***************************************************************************)
(* The memory of the answers is given back: again and again nothing but    *)
(* the buffer of the pool is in use, and the requests that were refused,   *)
(* whose callback libuv never calls.                                       *)
(***************************************************************************)
MemoryReturns ==
  []<>(allocated \ refused = InHand \cup ToSet(free_buffers_))
=============================================================================
