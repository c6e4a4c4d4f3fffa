------------------------------ MODULE Framing ------------------------------
(***************************************************************************)
(* Receiving on one TCP connection: OnDataReceived collects what the read  *)
(* callback hands it, in chunks the network chooses, and cuts it into      *)
(* messages with FixSizeProtocol, whose packages begin with their length   *)
(* in four bytes, network order.  The loop of OnDataReceived is taken one  *)
(* pass at a time, because the application's OnMessage runs within it and  *)
(* may call Close.                                                         *)
(*                                                                         *)
(* libuv reads at most a buffer's length at a time.  After a read that     *)
(* filled the buffer it reads again at once, and when that finds nothing   *)
(* it says so: the read callback is called with nread = 0.                 *)
(*                                                                         *)
(* Close ends the reading when nothing waits to be sent; otherwise the     *)
(* handle stays open, and reading goes on, until the queue has drained.    *)
(* Which of the two happens, and what a Close after a read error does, is  *)
(* module TcpConnection's business.                                        *)
(***************************************************************************)
EXTENDS FixSizeProtocol, SequencesExt

CONSTANTS
  Streams,       \* what a peer may send: sequences of bytes
  ReadBufferSize,
  MaxMessages    \* bound of the model: as many as any stream holds bytes

ASSUME FramingAssumption ==
  /\ Streams \subseteq Seq(Byte)
  /\ ReadBufferSize \in Nat \ {0}
  /\ MaxMessages \in Nat

VARIABLES
  hasProtocol,   \* SetServerProtocol was called
  unread,        \* what the peer sends and the server has not read
  received,      \* history: what the server has read
  recv_buffer_,
  delivered,     \* the messages passed to OnMessage
  parsing,       \* OnDataReceived is in its loop
  filled,        \* the last read filled the buffer
  ended,         \* the peer has closed or broken the connection
  closing,       \* Close was called: one of its two flags is set
  handle         \* "open", "closing" by a Close, or "dropped" by the read
                 \* callback

vars == <<hasProtocol, unread, received, recv_buffer_, delivered, parsing,
          filled, ended, closing, handle>>

TypeOK ==
  /\ hasProtocol \in BOOLEAN
  /\ unread \in Seq(Byte)
  /\ received \in Seq(Byte)
  /\ recv_buffer_ \in Seq(Byte)
  /\ delivered \in Seq(Seq(Byte))
  /\ parsing \in BOOLEAN
  /\ filled \in BOOLEAN
  /\ ended \in BOOLEAN
  /\ closing \in BOOLEAN
  /\ handle \in {"open", "closing", "dropped"}
  /\ handle = "closing" => closing
  /\ parsing => hasProtocol /\ handle # "dropped"

Init ==
  /\ hasProtocol \in BOOLEAN
  /\ unread \in Streams
  /\ received = <<>>
  /\ recv_buffer_ = <<>>
  /\ delivered = <<>>
  /\ parsing = FALSE
  /\ filled = FALSE
  /\ ended = FALSE
  /\ closing = FALSE
  /\ handle = "open"

------------------------------------------------------------------------------
(* Faulty variant of Close: no flag is set.                                *)
CloseForgetting == handle' \in {"open", "closing"} /\ UNCHANGED closing

(***************************************************************************)
(* Close: a second call is ignored, the first one may or may not close the *)
(* handle at once.                                                         *)
(***************************************************************************)
Close ==
  \/ closing /\ UNCHANGED <<closing, handle>>
  \/ ~closing /\ closing' = TRUE /\ handle' \in {"open", "closing"}

(* The application's OnMessage with message m; it may call Close.          *)
OnMessage(m) ==
  /\ delivered' = Append(delivered, m)
  /\ Close \/ UNCHANGED <<closing, handle>>

(* The numbers of bytes one read may find.                                 *)
Readable == 1 .. IF Len(unread) < ReadBufferSize THEN Len(unread)
                                                 ELSE ReadBufferSize

(***************************************************************************)
(* The read callback with n bytes: OnDataReceived up to its loop.  Without *)
(* a protocol the buffer is one message.                                   *)
(***************************************************************************)
Receive(n) ==
  /\ handle = "open" /\ ~parsing
  /\ Len(delivered) < MaxMessages
  /\ unread' = SubSeq(unread, n + 1, Len(unread))
  /\ received' = received \o SubSeq(unread, 1, n)
  /\ filled' = (n = ReadBufferSize)
  /\ LET data == recv_buffer_ \o SubSeq(unread, 1, n)
     IN  \/ /\ hasProtocol
            /\ recv_buffer_' = data
            /\ parsing' = TRUE
            /\ UNCHANGED <<delivered, closing, handle>>
         \/ /\ ~hasProtocol
            /\ OnMessage(data)
            /\ recv_buffer_' = <<>>
            /\ UNCHANGED parsing
  /\ UNCHANGED <<hasProtocol, ended>>

(* Faulty variant of Consumed: it takes msg_len for package_len.           *)
MessageConsumed(b) == SubSeq(b, SizeField(b) - HeaderSize + 1, Len(b))

(* The buffer once the first package is erased.                            *)
Consumed(b) == SubSeq(b, SizeField(b) + 1, Len(b))

(* The loop's pass over a complete package.                                *)
DeliverPackage ==
  /\ parsing
  /\ recv_buffer_ # <<>>
  /\ PackageFull(recv_buffer_)
  /\ Len(delivered) < MaxMessages
  /\ OnMessage(SubSeq(recv_buffer_, 1, SizeField(recv_buffer_)))
  /\ recv_buffer_' = Consumed(recv_buffer_)
  /\ UNCHANGED <<hasProtocol, unread, received, parsing, filled, ended>>

(* The loop ends: the buffer is empty or holds part of a package.          *)
AwaitMore ==
  /\ parsing
  /\ recv_buffer_ = <<>> \/ PackageLess(recv_buffer_)
  /\ parsing' = FALSE
  /\ UNCHANGED <<hasProtocol, unread, received, recv_buffer_, delivered,
                 filled, ended, closing, handle>>

(* The loop ends: a bad package.  The buffer keeps it.                     *)
RejectPackage ==
  /\ parsing
  /\ recv_buffer_ # <<>>
  /\ PackageError(recv_buffer_)
  /\ parsing' = FALSE
  /\ Close
  /\ UNCHANGED <<hasProtocol, unread, received, recv_buffer_, delivered,
                 filled, ended>>

(* Close, called from anywhere else, and the end of the drained queue.     *)
OtherClose ==
  /\ handle = "open" /\ ~parsing
  /\ \/ ~closing /\ Close
     \/ closing /\ handle' = "closing" /\ UNCHANGED closing
  /\ UNCHANGED <<hasProtocol, unread, received, recv_buffer_, delivered,
                 parsing, filled, ended>>

(* The read callback without data: the handle is closed.                   *)
Drop ==
  /\ handle = "open" /\ ~parsing
  /\ handle' = "dropped"
  /\ UNCHANGED <<hasProtocol, unread, received, recv_buffer_, delivered,
                 parsing, filled, closing>>

(* End of file, or an error.                                               *)
ReadEnds == Drop /\ ended' = TRUE

(* Faulty variant of ReadNothing: any read that is short is the end.       *)
ShortReadEnds == ~filled /\ received # <<>> /\ Drop /\ UNCHANGED ended

(* nread = 0, which takes the same way.                                    *)
ReadNothing == filled /\ Drop /\ UNCHANGED ended

Loop == DeliverPackage \/ AwaitMore \/ RejectPackage

Next ==
  \/ \E n \in Readable : Receive(n)
  \/ DeliverPackage
  \/ AwaitMore
  \/ RejectPackage
  \/ OtherClose
  \/ ReadEnds
  \/ ReadNothing

(* The loop is a loop: it runs until it ends.  The bytes of a peer arrive. *)
Spec ==
  /\ Init /\ [][Next]_vars
  /\ WF_vars(Loop)
  /\ WF_vars(\E n \in Readable : Receive(n))

------------------------------------------------------------------------------
(***************************************************************************)
(* Not a byte is lost, doubled or moved: the messages delivered and the    *)
(* bytes kept make up exactly what was received.                           *)
(***************************************************************************)
BytesAccountedFor == FlattenSeq(delivered) \o recv_buffer_ = received

(***************************************************************************)
(* Every message delivered through the protocol is one package: its length *)
(* is what its first four bytes say, and that is a length allowed.         *)
(***************************************************************************)
MessagesArePackages ==
  hasProtocol =>
    \A i \in 1 .. Len(delivered) :
      /\ Len(delivered[i]) >= HeaderSize
      /\ SizeField(delivered[i]) = Len(delivered[i])
      /\ Len(delivered[i]) <= MaxPackage

(***************************************************************************)
(* How the bytes were cut into chunks does not matter: between two reads   *)
(* no complete package is left in the buffer.  With the two properties     *)
(* above, what was received alone determines what was delivered.           *)
(***************************************************************************)
NothingHeldBack ==
  hasProtocol /\ ~parsing /\ Len(recv_buffer_) >= HeaderSize
    => LET n == SizeField(recv_buffer_)
       IN  n \in HeaderSize .. MaxPackage => Len(recv_buffer_) < n

(***************************************************************************)
(* A connection that nobody is closing keeps less than one package, so a   *)
(* peer cannot make it keep more; a bad length never lets it wait.         *)
(***************************************************************************)
BufferBounded ==
  ~parsing /\ ~closing => Len(recv_buffer_) < MaxPackage

(***************************************************************************)
(* OnDataReceived returns: every pass of its loop ends it or consumes      *)
(* something.                                                              *)
(***************************************************************************)
HandlerReturns == parsing ~> ~parsing

(***************************************************************************)
(* A peer that stays connected, and that nobody closes, is read to its     *)
(* last byte, with one exception: a read filled the buffer, the next found *)
(* nothing, and the read callback took that for the end.                   *)
(***************************************************************************)
AllIsRead ==
  <>( \/ unread = <<>> /\ ~parsing
      \/ closing
      \/ handle = "dropped" /\ (ended \/ filled) )
=============================================================================
