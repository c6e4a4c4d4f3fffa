---------------------------- MODULE WsConnection ----------------------------
(***************************************************************************)
(* One WebSocket connection of the server (class WebSocketConnection),     *)
(* from its accept on.  It is a TcpConnection with its own Send, TrySend,  *)
(* OnWriteComplete and Close, a handshake before the first frame, and      *)
(* frames of its own: pongs, and the answer to a close frame.  How frames  *)
(* are cut out of the bytes received is not part of this module: ParseFrame*)
(* is a loop that hands over one frame after the other.                    *)
(*                                                                         *)
(* libuv is modelled as in module TcpConnection.  The handshake response   *)
(* and the frames share its queue of write requests.                       *)
(*                                                                         *)
(* last_active_time_ is set by StartHeartbeat alone, so a heartbeat that   *)
(* keeps running always finds the connection idle in the end; when it does *)
(* makes no difference here, and no clock is kept.                         *)
(***************************************************************************)
EXTENDS Naturals, Sequences, SequencesExt

CONSTANTS
  Messages,            \* payloads the application may send
  Pong, CloseFrame,    \* the control frames the server sends
  Response,            \* the response to the handshake
  MaxSendQueueSize,    \* ServerConfig::max_send_queue_size_
  MaxSends,            \* bound of the model: messages accepted
  MaxControls,         \* bound of the model: control frames answered
  MaxResponses         \* bound of the model: handshakes answered

ASSUME WsConfigAssumption ==
  /\ MaxSendQueueSize \in Nat
  /\ Pong \notin Messages /\ CloseFrame \notin Messages
  /\ Response \notin Messages \cup {Pong, CloseFrame}

ASSUME WsBoundAssumption ==
  MaxSends \in Nat /\ MaxControls \in Nat /\ MaxResponses \in Nat

VARIABLES
  state_,                  \* State: HANDSHAKE, OPEN, CLOSING or CLOSED
  parsing,                 \* the read callback is in ParseFrame's loop
  send_queue_,
  is_writing_,
  is_closing_gracefully_,
  is_heartbeat_running_,
  inflight,                \* write requests libuv holds
  handle,                  \* the uv_tcp_t: "open", "closing" or "closed"
  closeCb,                 \* uv_close was given the callback that deletes
  aborted,                 \* uv_close found the handle closed already
  opened,                  \* history: calls of OnNewConnection
  controls,                \* history: control frames answered
  accepted,                \* history: messages Send turned into frames
  written                  \* history: messages whose write succeeded

flagVars   == <<state_, is_closing_gracefully_, is_heartbeat_running_>>
handleVars == <<handle, closeCb, aborted>>
sendVars   == <<send_queue_, is_writing_, inflight>>
vars == <<parsing, sendVars, flagVars, handleVars, opened, controls,
          accepted, written>>

Frames == Messages \cup {Pong, CloseFrame}

(* The members of the queue q that are in the set S, in their order.       *)
Only(q, S) ==
  FlattenSeq([i \in DOMAIN q |-> IF q[i] \in S THEN <<q[i]>> ELSE <<>>])

TypeOK ==
  /\ state_ \in {"HANDSHAKE", "OPEN", "CLOSING", "CLOSED"}
  /\ parsing \in BOOLEAN
  /\ send_queue_ \in Seq(Frames)
  /\ Len(Only(send_queue_, Messages)) <= MaxSendQueueSize
  /\ is_writing_ \in BOOLEAN
  /\ is_closing_gracefully_ \in BOOLEAN
  /\ is_heartbeat_running_ \in BOOLEAN
  /\ inflight \in Seq(Frames \cup {Response})
  /\ handle \in {"open", "closing", "closed"}
  /\ closeCb \in BOOLEAN
  /\ aborted \in BOOLEAN
  /\ opened \in 1 .. MaxResponses + 1
  /\ controls \in 0 .. MaxControls
  /\ accepted \in Seq(Messages)
  /\ written \in Seq(Messages)

(* The listener has accepted the peer, started the heartbeat and called    *)
(* OnNewConnection.                                                        *)
Init ==
  /\ state_ = "HANDSHAKE"
  /\ parsing = FALSE
  /\ send_queue_ = <<>>
  /\ is_writing_ = FALSE
  /\ is_closing_gracefully_ = FALSE
  /\ is_heartbeat_running_ = TRUE
  /\ inflight = <<>>
  /\ handle = "open"
  /\ closeCb = FALSE
  /\ aborted = FALSE
  /\ opened = 1
  /\ controls = 0
  /\ accepted = <<>>
  /\ written = <<>>

Deleted == handle = "closed" /\ closeCb

(* No callback is under way, and there is an object to call.               *)
Idle == ~aborted /\ ~parsing /\ ~Deleted

(* uv_close, as in module TcpConnection.                                   *)
UvClose(cb) ==
  \/ /\ handle = "open"
     /\ handle' = "closing"
     /\ closeCb' = cb
     /\ UNCHANGED aborted
  \/ /\ handle # "open"
     /\ aborted' = TRUE
     /\ UNCHANGED <<handle, closeCb>>

------------------------------------------------------------------------------
(* Faulty variant of NothingToSend: a write may be under way.              *)
QueueIsEmpty(q, w) == q = <<>>

NothingToSend(q, w) == q = <<>> /\ ~w

CloseIgnored(s) == s \in {"CLOSING", "CLOSED"} \/ is_closing_gracefully_

(***************************************************************************)
(* Close, called with the queue q, the flag w and the state s.             *)
(***************************************************************************)
Close(q, w, s) ==
  /\ send_queue_' = q
  /\ is_writing_' = w
  /\ \/ /\ CloseIgnored(s)
        /\ state_' = s
        /\ UNCHANGED <<is_closing_gracefully_, is_heartbeat_running_,
                       handleVars>>
     \/ /\ ~CloseIgnored(s)
        /\ state_' = "CLOSING"
        /\ is_heartbeat_running_' = FALSE
        /\ \/ /\ NothingToSend(q, w)
              /\ UvClose(TRUE)
              /\ UNCHANGED is_closing_gracefully_
           \/ /\ ~NothingToSend(q, w)
              /\ is_closing_gracefully_' = TRUE
              /\ UNCHANGED handleVars

(* Faulty variant of MayWrite: it does not look at is_writing_.            *)
QueueHasMore(q, w) == q # <<>>

MayWrite(q, w) == ~w /\ q # <<>>

(***************************************************************************)
(* TrySend, called with the queue q, the flag w, the requests f and the    *)
(* state s.  uv_write fails at once when the handle is no longer open.     *)
(***************************************************************************)
TrySend(q, w, f, s) ==
  \/ /\ ~MayWrite(q, w) \/ handle = "open"
     /\ \/ /\ ~MayWrite(q, w)
           /\ send_queue_' = q
           /\ is_writing_' = w
           /\ inflight' = f
        \/ /\ MayWrite(q, w)
           /\ send_queue_' = Tail(q)
           /\ is_writing_' = TRUE
           /\ inflight' = Append(f, Head(q))
     /\ state_' = s
     /\ UNCHANGED <<is_closing_gracefully_, is_heartbeat_running_, handleVars>>
  \/ /\ MayWrite(q, w)
     /\ handle # "open"
     /\ inflight' = f
     /\ Close(Tail(q), FALSE, s)

(* SendFrame: the frame is queued whatever the length of the queue.        *)
SendFrame(f, s) == TrySend(Append(send_queue_, f), is_writing_, inflight, s)

------------------------------------------------------------------------------
(* Calls of the application, from any callback.                            *)

(* Faulty variants of SendAccepts: without the bound of the queue, and     *)
(* before the handshake.                                                   *)
AcceptsWhenOpen == state_ = "OPEN" /\ ~is_closing_gracefully_

AcceptsUnlessClosing ==
  /\ state_ \in {"HANDSHAKE", "OPEN"} /\ ~is_closing_gracefully_
  /\ Len(send_queue_) < MaxSendQueueSize

SendAccepts ==
  /\ state_ = "OPEN" /\ ~is_closing_gracefully_
  /\ Len(send_queue_) < MaxSendQueueSize

AppSend(m) ==
  /\ ~aborted /\ ~Deleted
  /\ Len(accepted) < MaxSends
  /\ SendAccepts
  /\ accepted' = Append(accepted, m)
  /\ SendFrame(m, state_)
  /\ UNCHANGED <<parsing, opened, controls, written>>

AppClose ==
  /\ ~aborted /\ ~Deleted
  /\ Close(send_queue_, is_writing_, state_)
  /\ UNCHANGED <<parsing, inflight, opened, controls, accepted, written>>

------------------------------------------------------------------------------
(* The read callback.                                                      *)

Responding == Len(Only(inflight, {Response}))

(***************************************************************************)
(* OnDataReceived before the handshake is complete, with data that leaves  *)
(* a complete request in handshake_buffer_.  The buffer is never emptied:  *)
(* while the response is under way, any data brings another one.           *)
(***************************************************************************)
ReadHandshake ==
  /\ Idle /\ handle = "open"
  /\ state_ = "HANDSHAKE"
  /\ opened + Responding <= MaxResponses
  /\ inflight' = Append(inflight, Response)
  /\ UNCHANGED <<parsing, send_queue_, is_writing_, flagVars, handleVars,
                 opened, controls, accepted, written>>

(* OnDataReceived later: ParseFrame, which may find several frames.        *)
ReadFrames ==
  /\ Idle /\ handle = "open"
  /\ state_ # "HANDSHAKE"
  /\ parsing' = TRUE
  /\ UNCHANGED <<sendVars, flagVars, handleVars, opened, controls, accepted,
                 written>>

(***************************************************************************)
(* ProcessTextFrame and ProcessBinaryFrame when the protocol reports       *)
(* PackageError.  A message they hand to the application changes nothing   *)
(* here but by the application's own calls.                                *)
(***************************************************************************)
ProcessBadMessage ==
  /\ ~aborted /\ parsing
  /\ state_ = "OPEN"
  /\ Close(send_queue_, is_writing_, state_)
  /\ UNCHANGED <<parsing, inflight, opened, controls, accepted, written>>

ProcessPingFrame ==
  /\ ~aborted /\ parsing
  /\ controls < MaxControls
  /\ controls' = controls + 1
  /\ SendFrame(Pong, state_)
  /\ UNCHANGED <<parsing, opened, accepted, written>>

(* The state is CLOSING before Close is called, which is therefore ignored.*)
ProcessCloseFrame ==
  /\ ~aborted /\ parsing
  /\ controls < MaxControls
  /\ controls' = controls + 1
  /\ SendFrame(CloseFrame, "CLOSING")
  /\ UNCHANGED <<parsing, opened, accepted, written>>

FramesDone ==
  /\ ~aborted /\ parsing
  /\ parsing' = FALSE
  /\ UNCHANGED <<sendVars, flagVars, handleVars, opened, controls, accepted,
                 written>>

(* End of file or an error: the handle is closed and nobody is told.       *)
ReadEnds ==
  /\ Idle /\ handle = "open"
  /\ UvClose(FALSE)
  /\ UNCHANGED <<parsing, sendVars, flagVars, opened, controls, accepted,
                 written>>

------------------------------------------------------------------------------
(* The other callbacks.                                                    *)

(* The write callback of the response, which ignores its status.           *)
OnHandshakeComplete ==
  /\ Idle
  /\ inflight # <<>> /\ Head(inflight) = Response
  /\ inflight' = Tail(inflight)
  /\ state_' = "OPEN"
  /\ is_heartbeat_running_' = TRUE
  /\ opened' = opened + 1
  /\ UNCHANGED <<parsing, send_queue_, is_writing_, is_closing_gracefully_,
                 handleVars, controls, accepted, written>>

FrameAnswered == Idle /\ inflight # <<>> /\ Head(inflight) \in Frames

Wrote(f) == written' = IF f \in Messages THEN Append(written, f) ELSE written

(* OnWriteComplete's test for the end of a deferred close, after TrySend.  *)
DrainedAfterTrySend ==
  /\ is_closing_gracefully_
  /\ Len(send_queue_) <= IF handle = "open" THEN 0 ELSE 1

(* Faulty variant of WriteSucceeds: it does not call TrySend.              *)
WriteSucceedsOnly ==
  /\ FrameAnswered
  /\ Wrote(Head(inflight))
  /\ is_writing_' = FALSE
  /\ inflight' = Tail(inflight)
  /\ UNCHANGED <<parsing, send_queue_, flagVars, handleVars, opened, controls,
                 accepted>>

(* OnWriteComplete(0).                                                     *)
WriteSucceeds ==
  /\ FrameAnswered
  /\ Wrote(Head(inflight))
  /\ \/ /\ ~DrainedAfterTrySend
        /\ TrySend(send_queue_, FALSE, Tail(inflight), state_)
     \/ /\ DrainedAfterTrySend
        /\ send_queue_' = <<>>
        /\ is_writing_' = FALSE
        /\ inflight' = Tail(inflight)
        /\ UvClose(TRUE)
        /\ UNCHANGED flagVars
  /\ UNCHANGED <<parsing, opened, controls, accepted>>

(* Faulty variant of WriteFails: it resets the flag and sends on.          *)
WriteFailsAndGoesOn ==
  /\ FrameAnswered
  /\ TrySend(send_queue_, FALSE, Tail(inflight), state_)
  /\ UNCHANGED <<parsing, opened, controls, accepted, written>>

(* OnWriteComplete with an error other than ECANCELED.                     *)
WriteFails ==
  /\ FrameAnswered
  /\ inflight' = Tail(inflight)
  /\ Close(send_queue_, is_writing_, state_)
  /\ UNCHANGED <<parsing, opened, controls, accepted, written>>

(* OnWriteComplete(UV_ECANCELED).                                          *)
WriteCanceled ==
  /\ FrameAnswered
  /\ handle = "closing"
  /\ inflight' = Tail(inflight)
  /\ UNCHANGED <<parsing, send_queue_, is_writing_, flagVars, handleVars,
                 opened, controls, accepted, written>>

(* The heartbeat finds the connection idle.                                *)
OnHeartbeatTimeout ==
  /\ Idle
  /\ is_heartbeat_running_
  /\ Close(send_queue_, is_writing_, state_)
  /\ UNCHANGED <<parsing, inflight, opened, controls, accepted, written>>

(* The close callback: OnClose and delete if the caller of uv_close gave   *)
(* it, nothing otherwise.                                                  *)
CloseCallback ==
  /\ Idle
  /\ handle = "closing"
  /\ inflight = <<>>
  /\ handle' = "closed"
  /\ state_' = IF closeCb THEN "CLOSED" ELSE state_
  /\ UNCHANGED <<parsing, sendVars, is_closing_gracefully_,
                 is_heartbeat_running_, closeCb, aborted, opened, controls,
                 accepted, written>>

------------------------------------------------------------------------------
Next ==
  \/ \E m \in Messages : AppSend(m)
  \/ AppClose
  \/ ReadHandshake \/ ReadFrames
  \/ ProcessBadMessage \/ ProcessPingFrame \/ ProcessCloseFrame \/ FramesDone
  \/ ReadEnds
  \/ OnHandshakeComplete \/ WriteSucceeds \/ WriteFails \/ WriteCanceled
  \/ OnHeartbeatTimeout
  \/ CloseCallback

Spec == Init /\ [][Next]_vars

WriteCallback ==
  OnHandshakeComplete \/ WriteSucceeds \/ WriteFails \/ WriteCanceled

(***************************************************************************)
(* The loop runs: callbacks return, a write request is answered in one way *)
(* or another, a closing handle gets its close callback, and a timer that  *)
(* runs fires.  Strong fairness, since a read callback only delays the     *)
(* others: uv_run serves in each round whatever is due.                    *)
(***************************************************************************)
FairSpec ==
  /\ Spec
  /\ WF_vars(FramesDone)
  /\ SF_vars(WriteCallback)
  /\ SF_vars(CloseCallback)
  /\ SF_vars(OnHeartbeatTimeout)

------------------------------------------------------------------------------
(***************************************************************************)
(* At most one frame is with libuv, and is_writing_ is set while there is  *)
(* one, although pongs are sent from within the read callback and TrySend  *)
(* is called from everywhere.                                              *)
(***************************************************************************)
AtMostOneWrite ==
  LET frames == Only(inflight, Frames)
  IN  Len(frames) <= 1 /\ (frames # <<>> => is_writing_)

(***************************************************************************)
(* The application's messages are written in the order Send took them,     *)
(* none twice and none skipped, with whatever pongs among them.            *)
(***************************************************************************)
MessagesInOrder == IsPrefix(written, accepted)

(***************************************************************************)
(* A connection that closes its own handle has written every message Send  *)
(* had taken.  (A second uv_close ends the process.)                       *)
(***************************************************************************)
DeliberateCloseLosesNothing ==
  closeCb /\ ~aborted => written = accepted

(***************************************************************************)
(* No frame is queued, under way or written before a response to the       *)
(* handshake has been answered, by whatever way the state became OPEN.     *)
(***************************************************************************)
HandshakeFirst ==
  send_queue_ # <<>> \/ is_writing_ \/ accepted # <<>> => opened > 1

(* The connection can no longer send.                                      *)
Failed ==
  \/ aborted
  \/ handle # "open" /\ ~closeCb
  \/ is_writing_ /\ Only(inflight, Frames) = <<>>

(***************************************************************************)
(* What Send took is written in the end, unless the connection fails: the  *)
(* queue never stalls behind pongs, close frames or a deferred close.      *)
(***************************************************************************)
QueueDrains ==
  \A n \in 1 .. MaxSends :
    Len(accepted) >= n ~> Len(written) >= n \/ Failed

------------------------------------------------------------------------------
(* What the source says, and the code does not do.                         *)

(***************************************************************************)
(* "The destructor does no cleaning up, because the handle is cleaned up   *)
(* by Close": nothing of the object is in use once it is deleted.  But a   *)
(* Close while the response is under way has its heartbeat started again   *)
(* by OnHandshakeComplete, and the timer outlives the object.              *)
(***************************************************************************)
NoCallbackAfterDelete ==
  Deleted => inflight = <<>> /\ ~is_heartbeat_running_

(***************************************************************************)
(* "Heartbeat timeout, closing connection": a connection whose heartbeat   *)
(* finds it idle is closed, unless it fails.  After a close frame it is    *)
(* not: the state is CLOSING, and every Close is ignored.                  *)
(***************************************************************************)
IdleIsClosed ==
  is_heartbeat_running_ /\ handle = "open"
    ~> handle # "open" \/ is_closing_gracefully_ \/ Failed
=============================================================================
