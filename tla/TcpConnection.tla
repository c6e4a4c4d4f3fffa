--------------------------- MODULE TcpConnection ---------------------------
(***************************************************************************)
(* One TCP connection of the server (class TcpConnection), from the moment *)
(* the listener's callback has accepted it, started reading and started    *)
(* the heartbeat.  Every action is one callback of the event loop or one   *)
(* call of the application, run to its end: the loop has one thread, and   *)
(* the application calls Send and Close from callbacks on that thread.     *)
(*                                                                         *)
(* libuv is modelled by what the code relies on: one stream handle that is *)
(* open, closing or closed; write requests that complete in order with     *)
(* success, an error, or ECANCELED once the handle is closing; a close     *)
(* callback that runs after the last write callback; and uv_close, which   *)
(* asserts that the handle was not closed before.                          *)
(***************************************************************************)
EXTENDS Naturals, Sequences, SequencesExt

CONSTANTS
  Messages,            \* payloads the application may send
  MaxSendQueueSize,    \* ServerConfig::max_send_queue_size_
  HeartbeatInterval,   \* ServerConfig::heartbeat_interval_, in ticks
  TimerSlack,          \* how many ticks late a busy loop may run a timer
  MaxSends             \* bound of the model: messages accepted in a behaviour

ASSUME ConfigAssumption ==
  /\ MaxSendQueueSize \in Nat
  /\ HeartbeatInterval \in Nat \ {0}
  /\ TimerSlack \in Nat

ASSUME BoundAssumption == MaxSends \in Nat

VARIABLES
  send_queue_,             \* messages not yet handed to uv_write
  is_writing_,
  is_closing_,
  is_closing_gracefully_,
  is_heartbeat_running_,
  idle,                    \* uv_now() - last_active_time_
  since,                   \* time since the heartbeat timer was last armed
  inflight,                \* write requests libuv holds
  handle,                  \* the uv_tcp_t: "open", "closing" or "closed"
  closeCb,                 \* uv_close was given the callback that runs OnClose
                           \* and deletes the object
  aborted,                 \* uv_close found the handle closed already
  accepted,                \* history: messages Send put in the queue
  written                  \* history: messages whose write succeeded

flagVars   == <<is_closing_, is_closing_gracefully_, is_heartbeat_running_>>
handleVars == <<handle, closeCb, aborted>>
vars == <<send_queue_, is_writing_, flagVars, idle, since, inflight,
          handleVars, accepted, written>>

TypeOK ==
  /\ send_queue_ \in Seq(Messages)
  /\ Len(send_queue_) <= MaxSendQueueSize
  /\ is_writing_ \in BOOLEAN
  /\ is_closing_ \in BOOLEAN
  /\ is_closing_gracefully_ \in BOOLEAN
  /\ is_heartbeat_running_ \in BOOLEAN
  /\ idle \in Nat
  /\ since \in 0 .. HeartbeatInterval + TimerSlack
  /\ inflight \in Seq(Messages)
  /\ handle \in {"open", "closing", "closed"}
  /\ closeCb \in BOOLEAN
  /\ aborted \in BOOLEAN
  /\ accepted \in Seq(Messages)
  /\ Len(accepted) <= MaxSends
  /\ written \in Seq(Messages)

(* The constructor, the accept and StartHeartbeat have run.                *)
Init ==
  /\ send_queue_ = <<>>
  /\ is_writing_ = FALSE
  /\ is_closing_ = FALSE
  /\ is_closing_gracefully_ = FALSE
  /\ is_heartbeat_running_ = TRUE
  /\ idle = 0
  /\ since = 0
  /\ inflight = <<>>
  /\ handle = "open"
  /\ closeCb = FALSE
  /\ aborted = FALSE
  /\ accepted = <<>>
  /\ written = <<>>

(* The close callback has run OnClose and deleted the object.              *)
Deleted == handle = "closed" /\ closeCb

Running == ~aborted

(* Faulty variant of Closing: it forgets the close that did not wait.      *)
ClosingGracefully == is_closing_gracefully_

(* The test with which Send and Close begin.                               *)
Closing == is_closing_ \/ is_closing_gracefully_

(***************************************************************************)
(* uv_close.  cb: the caller passes the OnClose-and-delete callback rather *)
(* than nullptr.  A second call trips libuv's assertion.                   *)
(***************************************************************************)
UvClose(cb) ==
  \/ /\ handle = "open"
     /\ handle' = "closing"
     /\ closeCb' = cb
     /\ UNCHANGED aborted
  \/ /\ handle # "open"
     /\ aborted' = TRUE
     /\ UNCHANGED <<handle, closeCb>>

(* Faulty variant of StopHeartbeat: the timer stays.                       *)
LeaveHeartbeat == UNCHANGED is_heartbeat_running_

StopHeartbeat == is_heartbeat_running_' = FALSE

(* Faulty variant of NothingToSend: a write may be under way.              *)
QueueIsEmpty(q, w) == q = <<>>

NothingToSend(q, w) == q = <<>> /\ ~w

(***************************************************************************)
(* Close, called with the queue q and the flag w the caller has set.       *)
(***************************************************************************)
Close(q, w) ==
  /\ send_queue_' = q
  /\ is_writing_' = w
  /\ \/ /\ Closing
        /\ UNCHANGED <<flagVars, handleVars>>
     \/ /\ ~Closing
        /\ NothingToSend(q, w)
        /\ StopHeartbeat
        /\ is_closing_' = TRUE
        /\ UvClose(TRUE)
        /\ UNCHANGED is_closing_gracefully_
     \/ /\ ~Closing
        /\ ~NothingToSend(q, w)
        /\ StopHeartbeat
        /\ is_closing_gracefully_' = TRUE
        /\ UNCHANGED <<is_closing_, handleVars>>

(* Faulty variant of MayWrite: it does not look at is_writing_.            *)
QueueHasMore(q, w) == q # <<>>

MayWrite(q, w) == ~w /\ q # <<>>

(***************************************************************************)
(* TrySend, called with the queue q, the flag w and the requests f libuv   *)
(* still holds.  uv_write fails synchronously (EBADF) exactly when the     *)
(* handle is no longer open; the popped message is then lost.              *)
(***************************************************************************)
TrySend(q, w, f) ==
  \/ /\ ~MayWrite(q, w)
     /\ send_queue_' = q
     /\ is_writing_' = w
     /\ inflight' = f
     /\ UNCHANGED <<flagVars, handleVars>>
  \/ /\ MayWrite(q, w)
     /\ handle = "open"
     /\ send_queue_' = Tail(q)
     /\ is_writing_' = TRUE
     /\ inflight' = Append(f, Head(q))
     /\ UNCHANGED <<flagVars, handleVars>>
  \/ /\ MayWrite(q, w)
     /\ handle # "open"
     /\ inflight' = f
     /\ Close(Tail(q), FALSE)

------------------------------------------------------------------------------
(* Calls of the application.                                               *)

(* Faulty variants of SendAccepts: without the bound of the queue, and     *)
(* without the flag of the deferred close.                                 *)
AcceptsUnlessClosing == ~Closing

AcceptsUnlessClosed == ~is_closing_ /\ Len(send_queue_) < MaxSendQueueSize

SendAccepts == ~Closing /\ Len(send_queue_) < MaxSendQueueSize

(* Send; a call that is dropped changes nothing and is a stuttering step.  *)
AppSend(m) ==
  /\ Running
  /\ ~Deleted
  /\ Len(accepted) < MaxSends
  /\ SendAccepts
  /\ accepted' = Append(accepted, m)
  /\ idle' = 0
  /\ TrySend(Append(send_queue_, m), is_writing_, inflight)
  /\ UNCHANGED <<since, written>>

AppClose ==
  /\ Running
  /\ ~Deleted
  /\ Close(send_queue_, is_writing_)
  /\ UNCHANGED <<idle, since, inflight, accepted, written>>

------------------------------------------------------------------------------
(* Callbacks of libuv.                                                     *)

(* Faulty variant of DrainedAfterTrySend: the end of the queue is missed.  *)
NeverDrained == FALSE

(***************************************************************************)
(* OnWriteComplete's test for the end of a deferred close.  TrySend has    *)
(* run before it; it may have taken the last message off the queue of a    *)
(* handle that is closing, and the test sees what TrySend left.            *)
(***************************************************************************)
DrainedAfterTrySend ==
  /\ is_closing_gracefully_
  /\ Len(send_queue_) <= IF handle = "open" THEN 0 ELSE 1

(* Faulty variant of WriteSucceeds: it does not call TrySend.              *)
WriteSucceedsOnly ==
  /\ Running
  /\ handle # "closed"
  /\ inflight # <<>>
  /\ written' = Append(written, Head(inflight))
  /\ idle' = 0
  /\ is_writing_' = FALSE
  /\ inflight' = Tail(inflight)
  /\ UNCHANGED <<send_queue_, flagVars, handleVars, since, accepted>>

(* OnWriteComplete(0).                                                     *)
WriteSucceeds ==
  /\ Running
  /\ handle # "closed"
  /\ inflight # <<>>
  /\ written' = Append(written, Head(inflight))
  /\ idle' = 0
  /\ \/ /\ ~DrainedAfterTrySend
        /\ TrySend(send_queue_, FALSE, Tail(inflight))
     \/ /\ DrainedAfterTrySend
        /\ send_queue_' = <<>>
        /\ is_writing_' = FALSE
        /\ inflight' = Tail(inflight)
        /\ UvClose(TRUE)
        /\ UNCHANGED flagVars
  /\ UNCHANGED <<since, accepted>>

(* Faulty variant of WriteFails: it resets the flag and sends on.          *)
WriteFailsAndGoesOn ==
  /\ Running
  /\ handle # "closed"
  /\ inflight # <<>>
  /\ TrySend(send_queue_, FALSE, Tail(inflight))
  /\ UNCHANGED <<idle, since, accepted, written>>

(* OnWriteComplete with an error other than ECANCELED.                     *)
WriteFails ==
  /\ Running
  /\ handle # "closed"
  /\ inflight # <<>>
  /\ inflight' = Tail(inflight)
  /\ Close(send_queue_, is_writing_)
  /\ UNCHANGED <<idle, since, accepted, written>>

(* OnWriteComplete(UV_ECANCELED): the early return and nothing else.       *)
WriteCanceled ==
  /\ Running
  /\ handle = "closing"
  /\ inflight # <<>>
  /\ inflight' = Tail(inflight)
  /\ UNCHANGED <<send_queue_, is_writing_, flagVars, handleVars,
                 idle, since, accepted, written>>

(***************************************************************************)
(* OnDataReceived.  Messages it hands to the application only touch this   *)
(* state through the application's own calls.                              *)
(***************************************************************************)
ReadData ==
  /\ Running
  /\ handle = "open"
  /\ idle' = 0
  /\ UNCHANGED <<send_queue_, is_writing_, flagVars, handleVars,
                 since, inflight, accepted, written>>

(* OnDataReceived, when the protocol reports PackageError.                 *)
ReadBadPackage ==
  /\ Running
  /\ handle = "open"
  /\ idle' = 0
  /\ Close(send_queue_, is_writing_)
  /\ UNCHANGED <<since, inflight, accepted, written>>

(* The read callback at end of file, at an error, and when nread is 0.     *)
ReadEnds ==
  /\ Running
  /\ handle = "open"
  /\ UvClose(FALSE)
  /\ UNCHANGED <<send_queue_, is_writing_, flagVars,
                 idle, since, inflight, accepted, written>>

(* Faulty variant of HeartbeatExpired: three intervals for two.            *)
ExpiresAfterThree == idle > 3 * HeartbeatInterval

HeartbeatExpired == idle > 2 * HeartbeatInterval

OnHeartbeatTimeout ==
  /\ Running
  /\ is_heartbeat_running_
  /\ since >= HeartbeatInterval
  /\ since' = 0
  /\ \/ /\ HeartbeatExpired
        /\ Close(send_queue_, is_writing_)
     \/ /\ ~HeartbeatExpired
        /\ UNCHANGED <<send_queue_, is_writing_, flagVars, handleVars>>
  /\ UNCHANGED <<idle, inflight, accepted, written>>

(* The close callback: OnClose and delete if the caller of uv_close gave   *)
(* it, nothing otherwise.                                                  *)
CloseCallback ==
  /\ Running
  /\ handle = "closing"
  /\ inflight = <<>>
  /\ handle' = "closed"
  /\ UNCHANGED <<send_queue_, is_writing_, flagVars, closeCb, aborted,
                 idle, since, inflight, accepted, written>>

(* Time passes.  Once the timer is stopped nothing reads the clock.        *)
Tick ==
  /\ Running
  /\ is_heartbeat_running_
  /\ since < HeartbeatInterval + TimerSlack
  /\ idle' = idle + 1
  /\ since' = since + 1
  /\ UNCHANGED <<send_queue_, is_writing_, flagVars, handleVars,
                 inflight, accepted, written>>

------------------------------------------------------------------------------
Next ==
  \/ \E m \in Messages : AppSend(m)
  \/ AppClose
  \/ WriteSucceeds
  \/ WriteFails
  \/ WriteCanceled
  \/ ReadData
  \/ ReadBadPackage
  \/ ReadEnds
  \/ OnHeartbeatTimeout
  \/ CloseCallback
  \/ Tick

Spec == Init /\ [][Next]_vars

(***************************************************************************)
(* The loop runs: a write request is answered in one way or another and a  *)
(* closing handle gets its close callback.  The first is true of a peer    *)
(* that keeps reading or goes away; one that stays connected and never     *)
(* reads can hold a request for ever.  Nothing is assumed of the           *)
(* application, of incoming data, or of timers.                            *)
(***************************************************************************)
WriteCallback == WriteSucceeds \/ WriteFails \/ WriteCanceled

Fairness ==
  /\ WF_vars(WriteCallback)
  /\ WF_vars(CloseCallback)

FairSpec == Spec /\ Fairness

------------------------------------------------------------------------------
(***************************************************************************)
(* At most one write request is with libuv, and is_writing_ is set while   *)
(* there is one: TrySend, called from Send, from OnWriteComplete and, for  *)
(* a message sent by a callback, from within both, never hands a second    *)
(* buffer to uv_write before the first is answered.                        *)
(***************************************************************************)
AtMostOneWrite ==
  /\ Len(inflight) <= 1
  /\ inflight # <<>> => is_writing_

(***************************************************************************)
(* What has been written is a prefix of what Send accepted: no message is  *)
(* written twice, overtaken, or skipped in favour of a later one, whatever *)
(* fails or closes in between.                                             *)
(***************************************************************************)
WrittenInOrder == IsPrefix(written, accepted)

(***************************************************************************)
(* When the connection closes its handle of its own accord (Close, or the  *)
(* end of a deferred close), every message Send had accepted is written.   *)
(***************************************************************************)
DeliberateCloseLosesNothing ==
  handle # "open" /\ closeCb => written = accepted

(***************************************************************************)
(* Once the close callback has deleted the object, neither a write request *)
(* nor the heartbeat timer is left that would call into it.                *)
(***************************************************************************)
NoCallbackAfterDelete ==
  Deleted => inflight = <<>> /\ ~is_heartbeat_running_

(***************************************************************************)
(* While the heartbeat runs, a silent connection is noticed: the time      *)
(* without activity stays within two intervals plus the time since the     *)
(* last check, so within three intervals and the timer's lateness.         *)
(***************************************************************************)
IdleBounded ==
  is_heartbeat_running_ => idle <= 2 * HeartbeatInterval + since

------------------------------------------------------------------------------
(***************************************************************************)
(* The connection can no longer send: the read callback closed its handle, *)
(* or a write was answered with an error (is_writing_ stays set).          *)
(***************************************************************************)
Failed ==
  \/ handle # "open" /\ ~closeCb
  \/ is_writing_ /\ inflight = <<>>

Mode ==
  IF handle # "open" /\ closeCb THEN "finished"
  ELSE IF Failed THEN "failed"
  ELSE IF is_closing_gracefully_ THEN "draining"
  ELSE "open"

Stream == INSTANCE OutStream WITH mode <- Mode

(* The connection implements the outgoing stream of module OutStream.      *)
ImplementsOutStream == Stream!Spec

(***************************************************************************)
(* To its server the connection behaves as module ConnLifecycle says: the  *)
(* two ways out are the only ones, and a connection that lost its handle   *)
(* to a read error never reaches OnClose.                                  *)
(***************************************************************************)
Phase ==
  IF aborted THEN "aborted"
  ELSE IF handle = "closing" THEN IF closeCb THEN "closing" ELSE "dropping"
  ELSE IF handle = "closed" THEN IF closeCb THEN "deleted" ELSE "dropped"
  ELSE IF is_closing_gracefully_ THEN "draining" ELSE "open"

Life == INSTANCE ConnLifecycle WITH phase <- Phase

ImplementsConnLifecycle == Life!Spec

(***************************************************************************)
(* The queue never stalls: what Send accepted is written in the end,       *)
(* unless the connection fails.  It is OnWriteComplete's call of TrySend   *)
(* that keeps the queue moving.                                            *)
(***************************************************************************)
QueueDrains ==
  \A n \in 1 .. MaxSends :
     Len(accepted) >= n ~> Len(written) >= n \/ Failed

(* A close that waits for the queue ends in the object's deletion, unless  *)
(* the connection fails.                                                   *)
DeferredCloseCompletes == is_closing_gracefully_ ~> Deleted \/ Failed

------------------------------------------------------------------------------
(***************************************************************************)
(* What the comments of the source say, and the code does not do.          *)
(***************************************************************************)

(***************************************************************************)
(* Close, in the deferred branch: "do not close at once, wait until the    *)
(* send queue has been processed".  So a deferred close ends like any      *)
(* other, with OnClose and the deletion of the object.  It does not when   *)
(* the write under way fails: OnWriteComplete returns with is_writing_     *)
(* still set, and the test for a drained queue is never reached again.     *)
(* The read error that follows a broken connection is granted; it closes   *)
(* the handle without that callback.                                       *)
(***************************************************************************)
BrokenPeerSpec == FairSpec /\ WF_vars(Failed /\ ReadEnds)

DeferredCloseDeletes == is_closing_gracefully_ ~> Deleted \/ aborted
=============================================================================
