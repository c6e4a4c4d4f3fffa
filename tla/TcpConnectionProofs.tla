------------------------ MODULE TcpConnectionProofs ------------------------
(***************************************************************************)
(* Proofs about one TCP connection: the theorems hold for every set of     *)
(* messages, every queue size, heartbeat interval and timer slack, and any *)
(* number of sends.                                                        *)
(***************************************************************************)
EXTENDS TcpConnection, SequenceTheorems, TLAPS

------------------------------------------------------------------------------
(* Type correctness.                                                       *)

LEMMA NoMessages == <<>> \in Seq(Messages) /\ Len(<<>>) = 0
BY EmptySeq

(* The variables that Close and TrySend may change.                        *)
ControlTypeOK ==
  /\ send_queue_ \in Seq(Messages)
  /\ Len(send_queue_) <= MaxSendQueueSize
  /\ is_writing_ \in BOOLEAN
  /\ is_closing_ \in BOOLEAN
  /\ is_closing_gracefully_ \in BOOLEAN
  /\ is_heartbeat_running_ \in BOOLEAN
  /\ handle \in {"open", "closing", "closed"}
  /\ closeCb \in BOOLEAN
  /\ aborted \in BOOLEAN

(* Close keeps their types, whatever queue and flag it is called with.     *)
LEMMA CloseType ==
  ASSUME TypeOK,
         NEW q \in Seq(Messages), Len(q) <= MaxSendQueueSize,
         NEW w \in BOOLEAN,
         Close(q, w)
  PROVE  ControlTypeOK'
BY DEF TypeOK, Close, NothingToSend, Closing, UvClose, StopHeartbeat, flagVars,
       handleVars,
       ControlTypeOK

(* So does TrySend, which also keeps the type of the write requests.       *)
LEMMA TrySendType ==
  ASSUME TypeOK,
         NEW q \in Seq(Messages), Len(q) <= MaxSendQueueSize,
         NEW w \in BOOLEAN,
         NEW f \in Seq(Messages),
         TrySend(q, w, f)
  PROVE  ControlTypeOK' /\ inflight' \in Seq(Messages)
<1>1. CASE w \/ q = <<>>
  BY <1>1 DEF TypeOK, TrySend, MayWrite, flagVars, handleVars, ControlTypeOK
<1>2. CASE ~w /\ q # <<>>
  <2>1. /\ Head(q) \in Messages
        /\ Tail(q) \in Seq(Messages)
        /\ Len(Tail(q)) = Len(q) - 1
        /\ Len(q) \in Nat
    BY <1>2, HeadTailProperties, LenProperties
  <2>2. Len(Tail(q)) <= MaxSendQueueSize
    BY <2>1, ConfigAssumption
  <2>3. Append(f, Head(q)) \in Seq(Messages)
    BY <2>1, AppendProperties
  <2>4. CASE handle = "open"
    BY <1>2, <2>1, <2>2, <2>3, <2>4
       DEF TypeOK, TrySend, MayWrite, flagVars, handleVars, ControlTypeOK
  <2>5. CASE handle # "open"
    <3>1. inflight' = f /\ Close(Tail(q), FALSE)
      BY <1>2, <2>5 DEF TrySend, MayWrite
    <3>2. ControlTypeOK'
      BY <2>1, <2>2, <3>1, CloseType
    <3>. QED
      BY <3>1, <3>2
  <2>. QED
    BY <2>4, <2>5
<1>. QED
  BY <1>1, <1>2

LEMMA TypeStep == TypeOK /\ [Next]_vars => TypeOK'
<1>. SUFFICES ASSUME TypeOK, [Next]_vars PROVE TypeOK'
  OBVIOUS
<1>. USE ConfigAssumption, BoundAssumption
<1>0. /\ send_queue_ \in Seq(Messages) /\ Len(send_queue_) <= MaxSendQueueSize
      /\ is_writing_ \in BOOLEAN
      /\ inflight \in Seq(Messages)
  BY DEF TypeOK
<1>1. ASSUME NEW m \in Messages, AppSend(m) PROVE TypeOK'
  <2>1. /\ accepted' = Append(accepted, m) /\ Len(accepted) < MaxSends
        /\ Len(send_queue_) < MaxSendQueueSize
        /\ TrySend(Append(send_queue_, m), is_writing_, inflight)
        /\ idle' = 0 /\ since' = since /\ written' = written
    BY <1>1 DEF AppSend, SendAccepts
  <2>2. accepted' \in Seq(Messages) /\ Len(accepted') <= MaxSends
    BY <2>1, AppendProperties, LenProperties DEF TypeOK
  <2>3. /\ Append(send_queue_, m) \in Seq(Messages)
        /\ Len(Append(send_queue_, m)) <= MaxSendQueueSize
    BY <1>0, <2>1, AppendProperties, LenProperties
  <2>4. ControlTypeOK' /\ inflight' \in Seq(Messages)
    BY <1>0, <2>1, <2>3, TrySendType
  <2>. QED
    BY <2>1, <2>2, <2>4 DEF TypeOK, ControlTypeOK
<1>2. CASE AppClose
  <2>1. ControlTypeOK'
    BY <1>0, <1>2, CloseType DEF AppClose
  <2>. QED
    BY <1>2, <2>1 DEF AppClose, TypeOK, ControlTypeOK
<1>3. CASE WriteSucceeds
  <2>1. Head(inflight) \in Messages /\ Tail(inflight) \in Seq(Messages)
    BY <1>0, <1>3, HeadTailProperties DEF WriteSucceeds
  <2>2. written' \in Seq(Messages)
    BY <1>3, <2>1, AppendProperties DEF WriteSucceeds, TypeOK
  <2>3. ControlTypeOK' /\ inflight' \in Seq(Messages)
    <3>1. CASE DrainedAfterTrySend
      <4>1. /\ send_queue_' = <<>> /\ is_writing_' = FALSE
            /\ inflight' = Tail(inflight)
            /\ UvClose(TRUE) /\ UNCHANGED flagVars
        BY <1>3, <3>1 DEF WriteSucceeds
      <4>2. send_queue_' \in Seq(Messages) /\ Len(send_queue_') <= MaxSendQueueSize
        BY <4>1, NoMessages
      <4>. QED
        BY <2>1, <4>1, <4>2 DEF UvClose, flagVars, ControlTypeOK, TypeOK
    <3>2. CASE ~DrainedAfterTrySend
      <4>1. TrySend(send_queue_, FALSE, Tail(inflight))
        BY <1>3, <3>2 DEF WriteSucceeds
      <4>. QED
        BY <1>0, <2>1, <4>1, TrySendType
    <3>. QED
      BY <3>1, <3>2
  <2>4. idle' = 0 /\ since' = since /\ accepted' = accepted
    BY <1>3 DEF WriteSucceeds
  <2>. QED
    BY <2>2, <2>3, <2>4 DEF TypeOK, ControlTypeOK
<1>4. CASE WriteFails
  <2>1. ControlTypeOK'
    BY <1>0, <1>4, CloseType DEF WriteFails
  <2>2. inflight' \in Seq(Messages)
    BY <1>0, <1>4, HeadTailProperties DEF WriteFails
  <2>. QED
    BY <1>4, <2>1, <2>2 DEF WriteFails, TypeOK, ControlTypeOK
<1>5. CASE WriteCanceled
  <2>1. inflight' \in Seq(Messages)
    BY <1>0, <1>5, HeadTailProperties DEF WriteCanceled
  <2>. QED
    BY <1>5, <2>1 DEF WriteCanceled, TypeOK, flagVars, handleVars
<1>6. CASE ReadData
  BY <1>6 DEF ReadData, TypeOK, flagVars, handleVars
<1>7. CASE ReadBadPackage
  <2>1. ControlTypeOK'
    BY <1>0, <1>7, CloseType DEF ReadBadPackage
  <2>. QED
    BY <1>7, <2>1 DEF ReadBadPackage, TypeOK, ControlTypeOK
<1>8. CASE ReadEnds
  BY <1>8 DEF ReadEnds, UvClose, TypeOK, flagVars
<1>9. CASE OnHeartbeatTimeout
  <2>1. ControlTypeOK'
    <3>1. CASE Close(send_queue_, is_writing_)
      BY <1>0, <3>1, CloseType
    <3>2. CASE UNCHANGED <<send_queue_, is_writing_, flagVars, handleVars>>
      BY <3>2 DEF ControlTypeOK, TypeOK, flagVars, handleVars
    <3>. QED
      BY <1>9, <3>1, <3>2 DEF OnHeartbeatTimeout, HeartbeatExpired
  <2>. QED
    BY <1>9, <2>1
       DEF OnHeartbeatTimeout, HeartbeatExpired, TypeOK, ControlTypeOK
<1>10. CASE CloseCallback
  BY <1>10 DEF CloseCallback, TypeOK, flagVars
<1>11. CASE Tick
  BY <1>11 DEF Tick, TypeOK, flagVars, handleVars
<1>12. CASE UNCHANGED vars
  BY <1>12 DEF vars, TypeOK, flagVars, handleVars
<1>. QED
  BY <1>1, <1>2, <1>3, <1>4, <1>5, <1>6, <1>7, <1>8, <1>9, <1>10, <1>11, <1>12
     DEF Next

(***************************************************************************)
(* The state keeps its type.  In particular the send queue never holds     *)
(* more than MaxSendQueueSize messages, although TrySend, called from      *)
(* OnWriteComplete and from Close's callers, moves messages around.        *)
(***************************************************************************)
THEOREM TypeCorrect == Spec => []TypeOK
<1>1. Init => TypeOK
  <2>. SUFFICES ASSUME Init PROVE TypeOK
    OBVIOUS
  <2>1. 0 <= MaxSendQueueSize /\ 0 <= MaxSends /\ 0 \in 0 .. HeartbeatInterval + TimerSlack
    BY ConfigAssumption, BoundAssumption
  <2>2. Len(send_queue_) <= MaxSendQueueSize /\ Len(accepted) <= MaxSends
    BY <2>1, NoMessages DEF Init
  <2>3. /\ send_queue_ \in Seq(Messages) /\ inflight \in Seq(Messages)
        /\ accepted \in Seq(Messages) /\ written \in Seq(Messages)
    BY NoMessages DEF Init
  <2>. QED
    BY <2>1, <2>2, <2>3 DEF Init, TypeOK
<1>. QED
  BY <1>1, TypeStep, PTL DEF Spec

------------------------------------------------------------------------------
(* One write at a time.                                                    *)

(* A sequence of at most one element is empty once its head is taken.      *)
LEMMA TailOfAtMostOne ==
  ASSUME NEW f \in Seq(Messages), f # <<>>, Len(f) <= 1
  PROVE  Tail(f) = <<>> /\ f = <<Head(f)>>
<1>1. Len(f) = 1
  <2>1. Len(f) \in Nat \ {0}
    BY EmptySeq
  <2>. QED
    BY <2>1
<1>2. Tail(f) \in Seq(Messages) /\ Len(Tail(f)) = 0
  BY <1>1, HeadTailProperties
<1>3. Tail(f) = <<>>
  BY <1>2, EmptySeq
<1>4. f = <<Head(f)>>
  <2>1. Head(f) \in Messages /\ Head(f) = f[1]
    BY HeadTailProperties
  <2>2. <<Head(f)>> \in Seq(Messages) /\ Len(<<Head(f)>>) = 1 /\ <<Head(f)>>[1] = Head(f)
    BY <2>1
  <2>3. \A i \in 1 .. Len(f) : f[i] = <<Head(f)>>[i]
    BY <1>1, <2>1, <2>2
  <2>. QED
    BY <1>1, <2>2, <2>3, SeqEqual
<1>. QED
  BY <1>3, <1>4

(* TrySend hands over a message only when libuv holds none and says so.    *)
LEMMA TrySendOneWrite ==
  ASSUME NEW q \in Seq(Messages),
         NEW w \in BOOLEAN,
         NEW f \in Seq(Messages), Len(f) <= 1, f # <<>> => w,
         TrySend(q, w, f)
  PROVE  AtMostOneWrite'
<1>1. CASE w \/ q = <<>>
  BY <1>1 DEF TrySend, MayWrite, AtMostOneWrite
<1>2. CASE ~w /\ q # <<>> /\ handle = "open"
  <2>1. f = <<>> /\ inflight' = Append(f, Head(q)) /\ is_writing_' = TRUE
    BY <1>2 DEF TrySend, MayWrite
  <2>2. Head(q) \in Messages
    BY <1>2, HeadTailProperties
  <2>3. Len(Append(f, Head(q))) = 1
    BY <2>1, <2>2, AppendProperties, NoMessages
  <2>. QED
    BY <2>1, <2>3 DEF AtMostOneWrite
<1>3. CASE ~w /\ q # <<>> /\ handle # "open"
  BY <1>3 DEF TrySend, MayWrite, AtMostOneWrite
<1>. QED
  BY <1>1, <1>2, <1>3

LEMMA WriteStep == TypeOK /\ AtMostOneWrite /\ [Next]_vars => AtMostOneWrite'
<1>. SUFFICES ASSUME TypeOK, AtMostOneWrite, [Next]_vars PROVE AtMostOneWrite'
  OBVIOUS
<1>0. /\ send_queue_ \in Seq(Messages)
      /\ is_writing_ \in BOOLEAN
      /\ inflight \in Seq(Messages)
  BY DEF TypeOK
<1>1. ASSUME NEW m \in Messages, AppSend(m) PROVE AtMostOneWrite'
  <2>1. Append(send_queue_, m) \in Seq(Messages)
    BY <1>0, AppendProperties
  <2>2. TrySend(Append(send_queue_, m), is_writing_, inflight)
    BY <1>1 DEF AppSend
  <2>. QED
    BY <1>0, <2>1, <2>2, TrySendOneWrite DEF AtMostOneWrite
<1>2. ASSUME WriteSucceeds \/ WriteFails \/ WriteCanceled PROVE AtMostOneWrite'
  <2>1. Tail(inflight) = <<>>
    BY <1>0, <1>2, TailOfAtMostOne
       DEF AtMostOneWrite, WriteSucceeds, WriteFails, WriteCanceled
  <2>2. CASE inflight' = Tail(inflight)
    <3>1. inflight' = <<>>
      BY <2>1, <2>2
    <3>2. Len(inflight') = 0
      BY <3>1, NoMessages
    <3>. QED
      BY <3>1, <3>2 DEF AtMostOneWrite
  <2>3. CASE TrySend(send_queue_, FALSE, Tail(inflight))
    <3>1. TrySend(send_queue_, FALSE, <<>>)
      BY <2>1, <2>3
    <3>2. <<>> \in Seq(Messages) /\ Len(<<>>) <= 1
      BY NoMessages
    <3>. QED
      BY <1>0, <3>1, <3>2, TrySendOneWrite
  <2>. QED
    BY <1>2, <2>2, <2>3 DEF WriteSucceeds, WriteFails, WriteCanceled
<1>3. CASE UNCHANGED inflight /\ is_writing_' = is_writing_
  BY <1>3 DEF AtMostOneWrite
<1>4. CASE AppClose \/ ReadData \/ ReadBadPackage \/ ReadEnds
        \/ OnHeartbeatTimeout \/ CloseCallback \/ Tick \/ UNCHANGED vars
  BY <1>3, <1>4 DEF AppClose, ReadData, ReadBadPackage, ReadEnds,
     OnHeartbeatTimeout, HeartbeatExpired, CloseCallback, Tick, vars, Close,
        NothingToSend
<1>. QED
  BY <1>1, <1>2, <1>4 DEF Next

(***************************************************************************)
(* At most one request is with libuv, and is_writing_ tells.               *)
(***************************************************************************)
THEOREM OneWriteAtATime == Spec => []AtMostOneWrite
<1>1. Init => AtMostOneWrite
  BY NoMessages DEF Init, AtMostOneWrite
<1>. QED
  BY <1>1, TypeCorrect, TypeStep, WriteStep, PTL DEF Spec

------------------------------------------------------------------------------
(***************************************************************************)
(* Closing.  Two facts make the rest inductive: a connection that is       *)
(* closing has stopped its heartbeat, and uv_close is given the callback   *)
(* only when nothing is left to send or under way, on a connection that    *)
(* says it is closing.                                                     *)
(***************************************************************************)
ClosingStopsHeartbeat == Closing => ~is_heartbeat_running_

ClosedIdle ==
  closeCb => /\ handle # "open"
             /\ Closing
             /\ inflight = <<>> /\ send_queue_ = <<>> /\ ~is_writing_

CloseInv == ClosingStopsHeartbeat /\ ClosedIdle

(* Close preserves them once inflight' is known to respect w.              *)
LEMMA CloseKeepsCloseInv ==
  ASSUME NEW q, NEW w \in BOOLEAN,
         Close(q, w),
         CloseInv,
         closeCb => q = <<>> /\ ~w /\ inflight' = <<>>,
         ~w => inflight' = <<>>
  PROVE  CloseInv'
BY DEF Close, NothingToSend, UvClose, StopHeartbeat, Closing, flagVars,
       handleVars,
       CloseInv, ClosingStopsHeartbeat, ClosedIdle

(* TrySend preserves them, called on a connection not closed for good.     *)
LEMMA TrySendKeepsCloseInv ==
  ASSUME NEW q, NEW w \in BOOLEAN, NEW f,
         TrySend(q, w, f),
         CloseInv,
         ~closeCb,
         ~w => f = <<>>
  PROVE  CloseInv'
<1>1. CASE w \/ q = <<>> \/ handle = "open"
  <2>1. UNCHANGED <<flagVars, handleVars>>
    BY <1>1 DEF TrySend, MayWrite
  <2>. QED
    BY <2>1 DEF Closing, flagVars, handleVars,
                CloseInv, ClosingStopsHeartbeat, ClosedIdle
<1>2. CASE ~w /\ q # <<>> /\ handle # "open"
  <2>1. inflight' = f /\ Close(Tail(q), FALSE)
    BY <1>2 DEF TrySend, MayWrite
  <2>. QED
    BY <1>2, <2>1, CloseKeepsCloseInv
<1>. QED
  BY <1>1, <1>2

LEMMA CloseStep ==
  TypeOK /\ AtMostOneWrite /\ CloseInv /\ [Next]_vars => CloseInv'
<1>. SUFFICES ASSUME TypeOK, AtMostOneWrite, CloseInv, [Next]_vars
              PROVE  CloseInv'
  OBVIOUS
<1>0. /\ inflight \in Seq(Messages)
      /\ is_writing_ \in BOOLEAN
      /\ closeCb \in BOOLEAN
      /\ ~is_writing_ => inflight = <<>>
      /\ closeCb => send_queue_ = <<>> /\ ~is_writing_ /\ inflight = <<>>
  BY DEF TypeOK, AtMostOneWrite, CloseInv, ClosedIdle
<1>1. ASSUME NEW m \in Messages, AppSend(m) PROVE CloseInv'
  <2>1. ~closeCb
    BY <1>1 DEF AppSend, SendAccepts, CloseInv, ClosedIdle
  <2>2. TrySend(Append(send_queue_, m), is_writing_, inflight)
    BY <1>1 DEF AppSend
  <2>. QED
    BY <1>0, <2>1, <2>2, TrySendKeepsCloseInv
<1>2. CASE AppClose
  BY <1>0, <1>2, CloseKeepsCloseInv DEF AppClose
<1>3. CASE WriteSucceeds
  <2>1. ~closeCb /\ Tail(inflight) = <<>>
    BY <1>0, <1>3, TailOfAtMostOne DEF WriteSucceeds, AtMostOneWrite
  <2>2. CASE DrainedAfterTrySend
    <3>1. /\ send_queue_' = <<>> /\ is_writing_' = FALSE /\ inflight' = <<>>
          /\ UvClose(TRUE) /\ UNCHANGED flagVars
      BY <1>3, <2>1, <2>2 DEF WriteSucceeds
    <3>2. is_closing_gracefully_
      BY <2>2 DEF DrainedAfterTrySend
    <3>. QED
      BY <3>1, <3>2, <2>1 DEF UvClose, flagVars, Closing,
         CloseInv, ClosingStopsHeartbeat, ClosedIdle
  <2>3. CASE ~DrainedAfterTrySend
    <3>1. TrySend(send_queue_, FALSE, <<>>)
      BY <1>3, <2>1, <2>3 DEF WriteSucceeds
    <3>. QED
      BY <2>1, <3>1, TrySendKeepsCloseInv
  <2>. QED
    BY <2>2, <2>3
<1>4. CASE WriteFails
  <2>1. is_writing_ /\ Tail(inflight) = <<>>
    BY <1>0, <1>4, TailOfAtMostOne DEF WriteFails, AtMostOneWrite
  <2>2. Close(send_queue_, is_writing_) /\ inflight' = Tail(inflight)
    BY <1>4 DEF WriteFails
  <2>. QED
    BY <1>0, <2>1, <2>2, CloseKeepsCloseInv
<1>5. CASE WriteCanceled
  <2>1. inflight # <<>> /\ UNCHANGED <<flagVars, handleVars>>
    BY <1>5 DEF WriteCanceled
  <2>2. ~closeCb
    BY <1>0, <2>1
  <2>. QED
    BY <2>1, <2>2 DEF flagVars, handleVars, Closing,
       CloseInv, ClosingStopsHeartbeat, ClosedIdle
<1>6. CASE ReadBadPackage
  BY <1>0, <1>6, CloseKeepsCloseInv DEF ReadBadPackage
<1>7. CASE ReadEnds
  BY <1>7 DEF ReadEnds, UvClose, flagVars, Closing,
     CloseInv, ClosingStopsHeartbeat, ClosedIdle
<1>8. CASE CloseCallback
  BY <1>8 DEF CloseCallback, flagVars, Closing,
     CloseInv, ClosingStopsHeartbeat, ClosedIdle
<1>9. CASE UNCHANGED <<send_queue_, is_writing_, flagVars, handleVars,
                       inflight>>
  BY <1>9 DEF flagVars, handleVars, Closing,
     CloseInv, ClosingStopsHeartbeat, ClosedIdle
<1>10. CASE OnHeartbeatTimeout
  <2>1. CASE Close(send_queue_, is_writing_)
    BY <1>0, <1>10, <2>1, CloseKeepsCloseInv
       DEF OnHeartbeatTimeout, HeartbeatExpired
  <2>. QED
    BY <1>9, <1>10, <2>1
       DEF OnHeartbeatTimeout, HeartbeatExpired, flagVars, handleVars
<1>11. CASE ReadData \/ Tick \/ UNCHANGED vars
  BY <1>9, <1>11 DEF ReadData, Tick, vars, flagVars, handleVars
<1>. QED
  BY <1>1, <1>2, <1>3, <1>4, <1>5, <1>6, <1>7, <1>8, <1>10, <1>11 DEF Next

LEMMA InitCloseInv == Init => CloseInv
BY DEF Init, Closing, CloseInv, ClosingStopsHeartbeat, ClosedIdle

(***************************************************************************)
(* A deleted connection is not called again: no write request is with      *)
(* libuv and the heartbeat timer is stopped.                               *)
(***************************************************************************)
THEOREM DeletedIsQuiet == Spec => []NoCallbackAfterDelete
<1>1. CloseInv => NoCallbackAfterDelete
  BY DEF CloseInv, ClosingStopsHeartbeat, ClosedIdle, Deleted,
         NoCallbackAfterDelete
<1>. QED
  BY <1>1, InitCloseInv, CloseStep, TypeCorrect, OneWriteAtATime, PTL DEF Spec

LEMMA IdleStep ==
  TypeOK /\ CloseInv /\ IdleBounded /\ [Next]_vars => IdleBounded'
<1>. SUFFICES ASSUME TypeOK, CloseInv, IdleBounded, [Next]_vars
              PROVE  IdleBounded'
  OBVIOUS
<1>0. /\ idle \in Nat /\ since \in Nat /\ HeartbeatInterval \in Nat
      /\ is_heartbeat_running_ \in BOOLEAN
  BY ConfigAssumption DEF TypeOK
<1>2. ASSUME NEW q, NEW w, Close(q, w)
      PROVE  ~is_heartbeat_running_'
  BY <1>2
     DEF Close, NothingToSend, StopHeartbeat, Closing, flagVars, CloseInv,
         ClosingStopsHeartbeat
<1>3. CASE idle' = 0 /\ since' = since
  BY <1>0, <1>3 DEF IdleBounded
<1>4. CASE UNCHANGED <<idle, since, is_heartbeat_running_>>
  BY <1>4 DEF IdleBounded
<1>5. CASE \E q, w : Close(q, w)
  BY <1>2, <1>5 DEF IdleBounded
<1>6. CASE OnHeartbeatTimeout
  <2>1. CASE idle <= 2 * HeartbeatInterval
    BY <1>0, <1>6, <2>1 DEF OnHeartbeatTimeout, HeartbeatExpired, IdleBounded
  <2>2. CASE idle > 2 * HeartbeatInterval
    BY <1>0, <1>5, <1>6, <2>2 DEF OnHeartbeatTimeout, HeartbeatExpired
  <2>. QED
    BY <1>0, <2>1, <2>2
<1>7. CASE Tick
  BY <1>0, <1>7 DEF Tick, flagVars, IdleBounded
<1>8. CASE (\E m \in Messages : AppSend(m)) \/ WriteSucceeds \/ ReadData
        \/ ReadBadPackage
  BY <1>3, <1>8 DEF AppSend, WriteSucceeds, ReadData, ReadBadPackage
<1>9. CASE AppClose \/ WriteFails
  BY <1>5, <1>9 DEF AppClose, WriteFails
<1>10. CASE WriteCanceled \/ ReadEnds \/ CloseCallback \/ UNCHANGED vars
  BY <1>4, <1>10 DEF WriteCanceled, ReadEnds, CloseCallback, vars, flagVars
<1>. QED
  BY <1>6, <1>7, <1>8, <1>9, <1>10 DEF Next

(***************************************************************************)
(* The heartbeat notices a silent connection in time, for every interval   *)
(* and every lateness of the timer.                                        *)
(***************************************************************************)
THEOREM SilenceIsNoticed == Spec => []IdleBounded
<1>1. Init => IdleBounded
  BY ConfigAssumption DEF Init, IdleBounded
<1>. QED
  BY <1>1, InitCloseInv, CloseStep, IdleStep, TypeCorrect, OneWriteAtATime, PTL
     DEF Spec

------------------------------------------------------------------------------
(***************************************************************************)
(* The stream of messages.  Nothing has been lost yet (Intact): what was   *)
(* accepted is what was written, is under way, and waits, in this order.   *)
(* Or a write failed or found the handle closed (Cut): then nothing is     *)
(* under way and nothing will ever be again, so what was written stays the *)
(* prefix it is.                                                           *)
(***************************************************************************)
Intact == accepted = written \o inflight \o send_queue_

Cut ==
  /\ inflight = <<>>
  /\ is_writing_ \/ handle # "open"
  /\ IsPrefix(written, accepted)

StreamInv == Intact \/ Cut

LEMMA PrefixOfConcat ==
  ASSUME NEW s \in Seq(Messages), NEW t \in Seq(Messages)
  PROVE  IsPrefix(s, s \o t)
<1>1. Len(s) \in Nat /\ Len(t) \in Nat /\ Len(s \o t) = Len(s) + Len(t)
  BY ConcatProperties, LenProperties
<1>2. SubSeq(s \o t, 1, Len(s)) = s
  BY <1>1
<1>3. SubSeq(s, 1, Len(s)) = s
  BY <1>1
<1>. QED
  BY <1>1, <1>2, <1>3 DEF IsPrefix

LEMMA PrefixOfAppend ==
  ASSUME NEW s \in Seq(Messages), NEW t \in Seq(Messages), NEW m \in Messages,
         IsPrefix(s, t)
  PROVE  IsPrefix(s, Append(t, m))
<1>1. /\ Append(t, m) \in Seq(Messages) /\ Len(Append(t, m)) = Len(t) + 1
      /\ Len(s) \in Nat /\ Len(t) \in Nat /\ Len(s) <= Len(t)
      /\ \A i \in 1 .. Len(t) : Append(t, m)[i] = t[i]
  BY AppendProperties, LenProperties DEF IsPrefix
<1>2. SubSeq(Append(t, m), 1, Len(s)) = SubSeq(t, 1, Len(s))
  BY <1>1
<1>. QED
  BY <1>1, <1>2 DEF IsPrefix

LEMMA Associative ==
  \A s, t, u \in Seq(Messages) : (s \o t) \o u = s \o (t \o u)
BY ConcatAssociative

LEMMA AppendOfConcat ==
  ASSUME NEW s \in Seq(Messages), NEW t \in Seq(Messages), NEW m \in Messages
  PROVE  Append(s \o t, m) = s \o Append(t, m)
<1>1. <<m>> \in Seq(Messages)
  OBVIOUS
<1>2. Append(s \o t, m) = (s \o t) \o <<m>> /\ Append(t, m) = t \o <<m>>
  BY ConcatProperties, AppendIsConcat
<1>. QED
  BY <1>1, <1>2, ConcatAssociative

LEMMA SingletonConcat ==
  ASSUME NEW q \in Seq(Messages), q # <<>>
  PROVE  /\ <<Head(q)>> \in Seq(Messages)
         /\ <<Head(q)>> \o Tail(q) = q
<1>1. Head(q) \in Messages /\ Tail(q) \in Seq(Messages) /\ Len(Tail(q)) = Len(q) - 1
  BY HeadTailProperties
<1>2. <<Head(q)>> \in Seq(Messages) /\ Len(<<Head(q)>>) = 1
  BY <1>1
<1>3. Len(q) \in Nat \ {0}
  BY EmptySeq
<1>4. <<Head(q)>> \o Tail(q) \in Seq(Messages) /\ Len(<<Head(q)>> \o Tail(q)) = Len(q)
  BY <1>1, <1>2, <1>3, ConcatProperties
<1>5. \A i \in 1 .. Len(q) : (<<Head(q)>> \o Tail(q))[i] = q[i]
  BY <1>1, <1>2, <1>3
<1>. QED
  BY <1>2, <1>4, <1>5, SeqEqual

(* Taking a message from the queue and handing it to libuv, all in order.  *)
LEMMA TrySendKeepsStream ==
  ASSUME NEW q \in Seq(Messages),
         NEW w \in BOOLEAN,
         NEW f \in Seq(Messages), f # <<>> => w,
         accepted' \in Seq(Messages), written' \in Seq(Messages),
         TrySend(q, w, f),
         \/ accepted' = written' \o f \o q
         \/ f = <<>> /\ (w \/ handle # "open") /\ IsPrefix(written', accepted')
  PROVE  StreamInv'
<1>1. CASE w \/ q = <<>>
  <2>1. /\ send_queue_' = q /\ is_writing_' = w /\ inflight' = f
        /\ handle' = handle
    BY <1>1 DEF TrySend, MayWrite, handleVars
  <2>. QED
    BY <2>1 DEF StreamInv, Intact, Cut
<1>2. CASE ~w /\ q # <<>> /\ handle = "open"
  <2>1. f = <<>> /\ inflight' = Append(f, Head(q)) /\ send_queue_' = Tail(q)
    BY <1>2 DEF TrySend, MayWrite
  <2>2. accepted' = written' \o <<>> \o q
    BY <1>2, <2>1
  <2>3. accepted' = written' \o q
    BY <2>2, ConcatEmptySeq
  <2>4. /\ Tail(q) \in Seq(Messages) /\ Head(q) \in Messages
        /\ <<Head(q)>> \in Seq(Messages) /\ <<Head(q)>> \o Tail(q) = q
    BY <1>2, HeadTailProperties, SingletonConcat
  <2>5. inflight' = <<Head(q)>>
    BY <2>1, <2>4
  <2>6. (written' \o <<Head(q)>>) \o Tail(q) = written' \o (<<Head(q)>> \o Tail(q))
    BY <2>4, Associative, Zenon
  <2>7. accepted' = written' \o inflight' \o send_queue_'
    BY <2>1, <2>3, <2>4, <2>5, <2>6
  <2>. QED
    BY <2>7 DEF StreamInv, Intact
<1>3. CASE ~w /\ q # <<>> /\ handle # "open"
  <2>1. f = <<>> /\ inflight' = f /\ Close(Tail(q), FALSE)
    BY <1>3 DEF TrySend, MayWrite
  <2>2. handle' # "open"
    BY <1>3, <2>1 DEF Close, NothingToSend, UvClose, handleVars
  <2>3. IsPrefix(written', accepted')
    <3>1. CASE accepted' = written' \o f \o q
      <4>1. accepted' = written' \o q
        BY <2>1, <3>1, ConcatEmptySeq
      <4>. QED
        BY <4>1, PrefixOfConcat
    <3>. QED
      BY <3>1
  <2>. QED
    BY <2>1, <2>2, <2>3 DEF StreamInv, Cut
<1>. QED
  BY <1>1, <1>2, <1>3

LEMMA StreamStep ==
  TypeOK /\ AtMostOneWrite /\ CloseInv /\ StreamInv /\ [Next]_vars => StreamInv'
<1>. SUFFICES ASSUME TypeOK, AtMostOneWrite, CloseInv, StreamInv, [Next]_vars
              PROVE  StreamInv'
  OBVIOUS
<1>0. /\ send_queue_ \in Seq(Messages) /\ inflight \in Seq(Messages)
      /\ accepted \in Seq(Messages) /\ written \in Seq(Messages)
      /\ is_writing_ \in BOOLEAN
      /\ inflight # <<>> => is_writing_
      /\ accepted' \in Seq(Messages) /\ written' \in Seq(Messages)
  BY TypeStep DEF TypeOK, AtMostOneWrite
<1>1. ASSUME NEW m \in Messages, AppSend(m) PROVE StreamInv'
  <2>1. /\ accepted' = Append(accepted, m) /\ written' = written
        /\ TrySend(Append(send_queue_, m), is_writing_, inflight)
    BY <1>1 DEF AppSend
  <2>2. Append(send_queue_, m) \in Seq(Messages)
    BY <1>0, AppendProperties
  <2>3. CASE Intact
    <3>1. accepted' = Append((written \o inflight) \o send_queue_, m)
      BY <2>1, <2>3 DEF Intact
    <3>2. written \o inflight \in Seq(Messages)
      BY <1>0, ConcatProperties
    <3>3. Append((written \o inflight) \o send_queue_, m)
            = (written \o inflight) \o Append(send_queue_, m)
      BY <1>0, <3>2, AppendOfConcat
    <3>4. accepted' = written' \o inflight \o Append(send_queue_, m)
      BY <2>1, <3>1, <3>3
    <3>. QED
      BY <1>0, <2>1, <2>2, <3>4, TrySendKeepsStream
  <2>4. CASE Cut
    <3>1. IsPrefix(written', accepted')
      BY <1>0, <2>1, <2>4, PrefixOfAppend DEF Cut
    <3>. QED
      BY <1>0, <2>1, <2>2, <2>4, <3>1, TrySendKeepsStream DEF Cut
  <2>. QED
    BY <2>3, <2>4 DEF StreamInv
<1>2. ASSUME inflight # <<>>
      PROVE  /\ Tail(inflight) = <<>>
             /\ Head(inflight) \in Messages
             /\ is_writing_
             /\ accepted = Append(written, Head(inflight)) \o send_queue_
             /\ IsPrefix(written, accepted)
  <2>1. /\ Tail(inflight) = <<>> /\ inflight = <<Head(inflight)>>
        /\ Head(inflight) \in Messages
    BY <1>0, <1>2, TailOfAtMostOne, HeadTailProperties DEF AtMostOneWrite
  <2>2. accepted = (written \o inflight) \o send_queue_
    BY <1>2 DEF StreamInv, Intact, Cut
  <2>3. Append(written, Head(inflight)) = written \o inflight
    BY <1>0, <2>1, AppendIsConcat
  <2>4. (written \o inflight) \o send_queue_ = written \o (inflight \o send_queue_)
    BY <1>0, Associative, Zenon
  <2>5. inflight \o send_queue_ \in Seq(Messages)
    BY <1>0, ConcatProperties
  <2>6. IsPrefix(written, accepted)
    BY <1>0, <2>2, <2>4, <2>5, PrefixOfConcat
  <2>. QED
    BY <1>0, <1>2, <2>1, <2>2, <2>3, <2>6
<1>3. CASE WriteSucceeds
  <2>1. /\ inflight # <<>> /\ written' = Append(written, Head(inflight))
        /\ accepted' = accepted
    BY <1>3 DEF WriteSucceeds
  <2>2. accepted' = written' \o send_queue_ /\ Tail(inflight) = <<>>
    BY <1>2, <2>1
  <2>3. CASE DrainedAfterTrySend
    <3>1. /\ send_queue_' = <<>> /\ is_writing_' = FALSE /\ inflight' = <<>>
          /\ UvClose(TRUE)
      BY <1>3, <2>2, <2>3 DEF WriteSucceeds
    <3>2. handle' # "open"
      BY <3>1 DEF UvClose
    <3>3. IsPrefix(written', accepted')
      BY <1>0, <2>2, PrefixOfConcat
    <3>. QED
      BY <3>1, <3>2, <3>3 DEF StreamInv, Cut
  <2>4. CASE ~DrainedAfterTrySend
    <3>1. TrySend(send_queue_, FALSE, <<>>)
      BY <1>3, <2>2, <2>4 DEF WriteSucceeds
    <3>2. accepted' = written' \o <<>> \o send_queue_
      BY <1>0, <2>2, ConcatEmptySeq
    <3>. QED
      BY <1>0, <3>1, <3>2, NoMessages, TrySendKeepsStream
  <2>. QED
    BY <2>3, <2>4
<1>4. CASE WriteFails
  <2>1. /\ inflight # <<>> /\ inflight' = Tail(inflight)
        /\ is_writing_' = is_writing_
        /\ UNCHANGED <<accepted, written>>
    BY <1>4 DEF WriteFails, Close, NothingToSend
  <2>. QED
    BY <1>2, <2>1 DEF StreamInv, Cut
<1>5. CASE WriteCanceled
  <2>1. /\ inflight # <<>> /\ inflight' = Tail(inflight)
        /\ is_writing_' = is_writing_
        /\ UNCHANGED <<accepted, written>>
    BY <1>5 DEF WriteCanceled
  <2>. QED
    BY <1>2, <2>1 DEF StreamInv, Cut
<1>6. CASE /\ UNCHANGED <<send_queue_, is_writing_, inflight, accepted,
                          written>>
           /\ handle # "open" => handle' # "open"
  BY <1>6 DEF StreamInv, Intact, Cut
<1>7. ASSUME Close(send_queue_, is_writing_)
      PROVE  /\ UNCHANGED <<send_queue_, is_writing_>>
             /\ handle # "open" => handle' # "open"
  BY <1>7 DEF Close, NothingToSend, UvClose, handleVars
<1>8. CASE AppClose \/ ReadBadPackage
  BY <1>6, <1>7, <1>8 DEF AppClose, ReadBadPackage
<1>9. CASE OnHeartbeatTimeout
  BY <1>6, <1>7, <1>9 DEF OnHeartbeatTimeout, HeartbeatExpired, handleVars
<1>10. CASE ReadData \/ ReadEnds \/ CloseCallback \/ Tick \/ UNCHANGED vars
  BY <1>6, <1>10 DEF ReadData, ReadEnds, UvClose, CloseCallback, Tick, vars,
                     handleVars
<1>. QED
  BY <1>1, <1>3, <1>4, <1>5, <1>8, <1>9, <1>10 DEF Next

LEMMA InitStreamInv == Init => StreamInv
<1>1. <<>> = <<>> \o <<>> \o <<>>
  BY NoMessages, ConcatEmptySeq
<1>. QED
  BY <1>1 DEF Init, StreamInv, Intact

(***************************************************************************)
(* Messages are written in the order Send accepted them, without a gap.    *)
(***************************************************************************)
THEOREM StreamInOrder == Spec => []WrittenInOrder
<1>1. TypeOK /\ StreamInv => WrittenInOrder
  <2>. SUFFICES ASSUME TypeOK, Intact PROVE IsPrefix(written, accepted)
    BY DEF StreamInv, Cut, WrittenInOrder
  <2>1. /\ inflight \o send_queue_ \in Seq(Messages)
        /\ accepted = written \o (inflight \o send_queue_)
    BY ConcatProperties, ConcatAssociative DEF TypeOK, Intact
  <2>. QED
    BY <2>1, PrefixOfConcat DEF TypeOK
<1>. QED
  BY <1>1, InitCloseInv, CloseStep, InitStreamInv, StreamStep, TypeCorrect,
     OneWriteAtATime, PTL DEF Spec

------------------------------------------------------------------------------
(* Deliberate closes.                                                      *)

(* An open connection with nothing to send or under way has lost nothing.  *)
LEMMA DrainedIsComplete ==
  ASSUME TypeOK, AtMostOneWrite, StreamInv,
         handle = "open", ~is_writing_, send_queue_ = <<>>
  PROVE  inflight = <<>> /\ written = accepted
<1>1. inflight = <<>> /\ accepted = written \o <<>> \o <<>>
  BY DEF AtMostOneWrite, StreamInv, Intact, Cut
<1>2. written \o <<>> = written
  BY ConcatEmptySeq DEF TypeOK
<1>. QED
  BY <1>1, <1>2

(* Likewise when the write under way, the last one, succeeds.              *)
LEMMA LastWriteIsComplete ==
  ASSUME TypeOK, AtMostOneWrite, StreamInv,
         inflight # <<>>, send_queue_ = <<>>
  PROVE  accepted = Append(written, Head(inflight))
<1>1. /\ send_queue_ \in Seq(Messages) /\ inflight \in Seq(Messages)
      /\ written \in Seq(Messages) /\ Len(inflight) <= 1
  BY DEF TypeOK, AtMostOneWrite
<1>2. inflight = <<Head(inflight)>> /\ Head(inflight) \in Messages
  BY <1>1, TailOfAtMostOne, HeadTailProperties
<1>3. accepted = (written \o inflight) \o <<>>
  BY DEF StreamInv, Intact, Cut
<1>4. written \o inflight \in Seq(Messages)
  BY <1>1, ConcatProperties
<1>5. accepted = written \o inflight
  BY <1>3, <1>4, ConcatEmptySeq
<1>. QED
  BY <1>1, <1>2, <1>5, AppendIsConcat

CompleteInv == closeCb => written = accepted

LEMMA CompleteStep ==
  /\ TypeOK /\ AtMostOneWrite /\ CloseInv /\ StreamInv /\ CompleteInv
  /\ [Next]_vars
  => CompleteInv'
<1>. SUFFICES ASSUME TypeOK, AtMostOneWrite, CloseInv, StreamInv, CompleteInv,
                     [Next]_vars
              PROVE  CompleteInv'
  OBVIOUS
<1>1. CASE UNCHANGED <<closeCb, written, accepted>>
  BY <1>1 DEF CompleteInv
<1>2. ASSUME Close(send_queue_, is_writing_), UNCHANGED <<written, accepted>>
      PROVE  CompleteInv'
  <2>1. CASE closeCb' = closeCb
    BY <1>1, <1>2, <2>1
  <2>2. CASE closeCb' # closeCb
    <3>1. handle = "open" /\ ~is_writing_ /\ send_queue_ = <<>>
      BY <1>2, <2>2 DEF Close, NothingToSend, UvClose, handleVars
    <3>. QED
      BY <1>2, <3>1, DrainedIsComplete DEF CompleteInv
  <2>. QED
    BY <2>1, <2>2
<1>3. ASSUME NEW q, NEW w, NEW f, TrySend(q, w, f) PROVE closeCb' = closeCb
  BY <1>3 DEF TrySend, MayWrite, Close, NothingToSend, UvClose, handleVars
<1>4. ASSUME NEW m \in Messages, AppSend(m) PROVE CompleteInv'
  <2>1. ~closeCb
    BY <1>4 DEF AppSend, SendAccepts, CloseInv, ClosedIdle
  <2>2. closeCb' = closeCb
    BY <1>3, <1>4 DEF AppSend
  <2>. QED
    BY <2>1, <2>2 DEF CompleteInv
<1>5. CASE WriteSucceeds
  <2>1. ~closeCb /\ inflight # <<>>
    BY <1>5 DEF WriteSucceeds, CloseInv, ClosedIdle
  <2>2. CASE closeCb' = closeCb
    BY <2>1, <2>2 DEF CompleteInv
  <2>3. CASE closeCb' # closeCb
    <3>1. DrainedAfterTrySend /\ UvClose(TRUE)
      BY <1>3, <1>5, <2>3 DEF WriteSucceeds
    <3>2. handle = "open" /\ Len(send_queue_) <= 0
      BY <2>3, <3>1 DEF DrainedAfterTrySend, UvClose
    <3>3. send_queue_ = <<>>
      <4>1. send_queue_ # <<>> => Len(send_queue_) \in Nat \ {0}
        BY EmptySeq DEF TypeOK
      <4>. QED
        BY <3>2, <4>1
    <3>. QED
      BY <1>5, <2>1, <3>3, LastWriteIsComplete DEF WriteSucceeds, CompleteInv
  <2>. QED
    BY <2>2, <2>3
<1>6. CASE AppClose \/ WriteFails \/ ReadBadPackage
  BY <1>2, <1>6 DEF AppClose, WriteFails, ReadBadPackage
<1>7. CASE ReadEnds
  BY <1>7 DEF ReadEnds, UvClose, CompleteInv
<1>8. CASE OnHeartbeatTimeout
  BY <1>1, <1>2, <1>8 DEF OnHeartbeatTimeout, HeartbeatExpired, handleVars
<1>9. CASE WriteCanceled \/ ReadData \/ CloseCallback \/ Tick \/ UNCHANGED vars
  BY <1>1, <1>9
     DEF WriteCanceled, ReadData, CloseCallback, Tick, vars, handleVars
<1>. QED
  BY <1>4, <1>5, <1>6, <1>7, <1>8, <1>9 DEF Next

(***************************************************************************)
(* A connection that closes its own handle has written all it accepted.    *)
(***************************************************************************)
THEOREM CloseIsComplete == Spec => []DeliberateCloseLosesNothing
<1>1. Init => CompleteInv
  BY DEF Init, CompleteInv
<1>2. CompleteInv => DeliberateCloseLosesNothing
  BY DEF CompleteInv, DeliberateCloseLosesNothing
<1>. QED
  BY <1>1, <1>2, InitCloseInv, CloseStep, InitStreamInv, StreamStep,
     CompleteStep,
     TypeCorrect, OneWriteAtATime, PTL DEF Spec

------------------------------------------------------------------------------
(* Refinement: the connection implements the outgoing stream.              *)

IInv == TypeOK /\ AtMostOneWrite /\ CloseInv /\ StreamInv /\ CompleteInv

LEMMA FrontOfConcat ==
  ASSUME NEW s \in Seq(Messages), NEW t \in Seq(Messages), Len(s) > 0
  PROVE  /\ Len(s) <= Len(s \o t)
         /\ (s \o t)[Len(s)] = s[Len(s)]
<1>1. Len(s) \in Nat /\ Len(t) \in Nat
  BY LenProperties
<1>. QED
  BY <1>1

(* While a write is under way, the next message to deliver is its message. *)
LEMMA UnderWayIsNext ==
  ASSUME TypeOK, AtMostOneWrite, StreamInv, inflight # <<>>
  PROVE  /\ Len(written) < Len(accepted)
         /\ accepted[Len(written) + 1] = Head(inflight)
<1>1. /\ send_queue_ \in Seq(Messages) /\ inflight \in Seq(Messages)
      /\ written \in Seq(Messages) /\ Len(inflight) <= 1
  BY DEF TypeOK, AtMostOneWrite
<1>2. inflight = <<Head(inflight)>> /\ Head(inflight) \in Messages
  BY <1>1, TailOfAtMostOne, HeadTailProperties
<1>3. accepted = (written \o inflight) \o send_queue_
  BY DEF StreamInv, Intact, Cut
<1>4. written \o inflight = Append(written, Head(inflight))
  BY <1>1, <1>2, AppendIsConcat
<1> DEFINE w == Append(written, Head(inflight))
<1>5. /\ w \in Seq(Messages) /\ Len(w) = Len(written) + 1
      /\ w[Len(written) + 1] = Head(inflight)
      /\ Len(written) \in Nat /\ Len(send_queue_) \in Nat
  BY <1>1, <1>2, AppendProperties, LenProperties
<1>6. accepted = w \o send_queue_
  BY <1>3, <1>4
<1> HIDE DEF w
<1>7. Len(w) > 0
  BY <1>5
<1>8. /\ Len(w) <= Len(w \o send_queue_)
      /\ (w \o send_queue_)[Len(w)] = w[Len(w)]
  BY <1>1, <1>5, <1>7, FrontOfConcat
<1>9. Len(accepted) \in Nat
  BY LenProperties DEF TypeOK
<1>. QED
  BY <1>5, <1>6, <1>8, <1>9

(* Close, called with the connection's own queue and flag.                 *)
LEMMA CloseRefines ==
  ASSUME IInv,
         Close(send_queue_, is_writing_),
         UNCHANGED <<inflight, accepted, written>>
  PROVE  [Stream!Next]_Stream!vars
<1>1. is_writing_' = is_writing_
  BY DEF Close, NothingToSend
<1>2. CASE UNCHANGED <<is_closing_gracefully_, handle, closeCb>>
  BY <1>1, <1>2 DEF Stream!vars, Mode, Failed
<1>3. CASE ~Closing /\ send_queue_ = <<>> /\ ~is_writing_
  <2>1. CASE handle = "open"
    <3>1. /\ inflight = <<>> /\ written = accepted
          /\ handle' = "closing" /\ closeCb' = TRUE
      BY <1>3, <2>1, DrainedIsComplete DEF IInv, Close, NothingToSend, UvClose
    <3>2. Mode = "open" /\ Mode' = "finished"
      BY <1>3, <2>1, <3>1 DEF Mode, Failed, Closing
    <3>. QED
      BY <3>1, <3>2 DEF Stream!Next, Stream!Finish
  <2>2. CASE handle # "open"
    BY <1>2, <1>3, <2>2 DEF Close, NothingToSend, UvClose
  <2>. QED
    BY <2>1, <2>2
<1>4. CASE ~Closing /\ (send_queue_ # <<>> \/ is_writing_)
  <2>1. ~closeCb /\ is_closing_gracefully_' = TRUE /\ UNCHANGED handleVars
    BY <1>4 DEF IInv, CloseInv, ClosedIdle, Close, NothingToSend
  <2>2. CASE Failed
    BY <1>1, <2>1, <2>2 DEF Mode, Failed, handleVars, Stream!vars
  <2>3. CASE ~Failed
    <3>1. Mode = "open" /\ Mode' = "draining"
      BY <1>1, <1>4, <2>1, <2>3 DEF Mode, Failed, handleVars, Closing
    <3>. QED
      BY <3>1 DEF Stream!Next, Stream!Drain
  <2>. QED
    BY <2>2, <2>3
<1>. QED
  BY <1>2, <1>3, <1>4 DEF Close, NothingToSend, flagVars, handleVars, Closing

(***************************************************************************)
(* TrySend, called on a connection that is not closed for good, keeps the  *)
(* mode it finds once the flag w has been set.                             *)
(***************************************************************************)
LEMMA TrySendKeepsMode ==
  ASSUME NEW q, NEW w \in BOOLEAN, NEW f,
         TrySend(q, w, f),
         ~closeCb,
         handle = "open" => (w => f # <<>>)
  PROVE  Mode' = IF handle # "open" THEN "failed"
                 ELSE IF is_closing_gracefully_ THEN "draining" ELSE "open"
<1>1. CASE w \/ q = <<>>
  <2>1. is_writing_' = w /\ inflight' = f /\ UNCHANGED <<flagVars, handleVars>>
    BY <1>1 DEF TrySend, MayWrite
  <2>. QED
    BY <2>1 DEF Mode, Failed, flagVars, handleVars
<1>2. CASE ~w /\ q # <<>> /\ handle = "open"
  <2>1. /\ inflight' = Append(f, Head(q)) /\ UNCHANGED <<flagVars, handleVars>>
    BY <1>2 DEF TrySend, MayWrite
  <2>2. inflight' # <<>>
    BY <2>1
  <2>. QED
    BY <1>2, <2>1, <2>2 DEF Mode, Failed, flagVars, handleVars
<1>3. CASE ~w /\ q # <<>> /\ handle # "open"
  <2>1. handle' # "open" /\ closeCb' = closeCb
    BY <1>3 DEF TrySend, MayWrite, Close, NothingToSend, UvClose, handleVars
  <2>. QED
    BY <1>3, <2>1 DEF Mode, Failed
<1>. QED
  BY <1>1, <1>2, <1>3

LEMMA StepRefines == IInv /\ [Next]_vars => [Stream!Next]_Stream!vars
<1>. SUFFICES ASSUME IInv, [Next]_vars PROVE [Stream!Next]_Stream!vars
  OBVIOUS
<1>1. ASSUME NEW m \in Messages, AppSend(m) PROVE Stream!Accept
  <2>1. /\ ~Closing /\ ~closeCb
        /\ accepted' = Append(accepted, m) /\ written' = written
        /\ TrySend(Append(send_queue_, m), is_writing_, inflight)
    BY <1>1 DEF AppSend, SendAccepts, IInv, CloseInv, ClosedIdle
  <2>2. Mode \in {"open", "failed"}
    BY <2>1 DEF Mode, Closing
  <2>3. Mode' = Mode
    <3>1. is_writing_ \in BOOLEAN
      BY DEF IInv, TypeOK
    <3>2. CASE handle = "open" /\ is_writing_
      BY <2>1, <3>2 DEF TrySend, MayWrite, Mode, Failed, flagVars, handleVars
    <3>3. CASE ~(handle = "open" /\ is_writing_)
      <4>1. Mode' = IF handle # "open" THEN "failed"
                    ELSE IF is_closing_gracefully_ THEN "draining" ELSE "open"
        BY <2>1, <3>1, <3>3, TrySendKeepsMode
      <4>. QED
        BY <2>1, <3>3, <4>1 DEF Mode, Failed
    <3>. QED
      BY <3>2, <3>3
  <2>. QED
    BY <2>1, <2>2, <2>3 DEF Stream!Accept
<1>2. ASSUME inflight # <<>>
      PROVE  /\ ~closeCb /\ is_writing_ /\ Tail(inflight) = <<>>
             /\ Mode = IF handle # "open" THEN "failed"
                       ELSE IF is_closing_gracefully_ THEN "draining" ELSE "open"
  <2>1. ~closeCb /\ is_writing_ /\ inflight \in Seq(Messages) /\ Len(inflight) <= 1
    BY <1>2 DEF IInv, CloseInv, ClosedIdle, AtMostOneWrite, TypeOK
  <2>. QED
    BY <1>2, <2>1, TailOfAtMostOne DEF Mode, Failed
<1>3. CASE WriteSucceeds
  <2>1. /\ inflight # <<>> /\ accepted' = accepted
        /\ written' = Append(written, Head(inflight))
    BY <1>3 DEF WriteSucceeds
  <2>2. Stream!Deliverable /\ Stream!DeliverNext
    BY <2>1, UnderWayIsNext DEF IInv, Stream!Deliverable, Stream!DeliverNext
  <2>3. CASE DrainedAfterTrySend /\ handle = "open"
    <3>1. UvClose(TRUE) /\ send_queue_' = <<>>
      BY <1>3, <2>3 DEF WriteSucceeds
    <3>2. Mode = "draining"
      BY <1>2, <2>1, <2>3 DEF DrainedAfterTrySend
    <3>3. Mode' = "finished"
      BY <2>3, <3>1 DEF UvClose, Mode
    <3>4. Len(send_queue_) <= 0
      BY <2>3 DEF DrainedAfterTrySend
    <3>5. send_queue_ # <<>> => Len(send_queue_) \in Nat \ {0}
      BY EmptySeq DEF IInv, TypeOK
    <3>6. written' = accepted
      BY <2>1, <3>4, <3>5, LastWriteIsComplete DEF IInv
    <3>. QED
      BY <2>1, <2>2, <3>2, <3>3, <3>6 DEF Stream!Next, Stream!Finish
  <2>4. CASE DrainedAfterTrySend /\ handle # "open"
    <3>1. Mode = "failed"
      BY <1>2, <2>1, <2>4
    <3>2. handle' = handle /\ closeCb' = closeCb
      BY <1>3, <2>4 DEF WriteSucceeds, UvClose
    <3>3. Mode' = "failed"
      BY <1>2, <2>1, <2>4, <3>2 DEF Mode, Failed
    <3>. QED
      BY <2>1, <2>2, <3>1, <3>3 DEF Stream!Next, Stream!Deliver
  <2>5. CASE ~DrainedAfterTrySend
    <3>1. TrySend(send_queue_, FALSE, <<>>)
      BY <1>2, <1>3, <2>1, <2>5 DEF WriteSucceeds
    <3>2. Mode' = IF handle # "open" THEN "failed"
                  ELSE IF is_closing_gracefully_ THEN "draining" ELSE "open"
      <4>1. ~closeCb
        BY <1>2, <2>1
      <4>. QED
        BY <3>1, <4>1, TrySendKeepsMode
    <3>3. Mode # "finished"
      BY <1>2, <2>1
    <3>. QED
      BY <1>2, <2>1, <2>2, <3>2, <3>3 DEF Stream!Next, Stream!Deliver
  <2>. QED
    BY <2>3, <2>4, <2>5
<1>4. CASE WriteFails
  <2>1. /\ inflight # <<>> /\ inflight' = Tail(inflight)
        /\ UNCHANGED <<accepted, written>>
        /\ Close(send_queue_, is_writing_)
    BY <1>4 DEF WriteFails
  <2>2. inflight' = <<>> /\ is_writing_' /\ closeCb' = closeCb /\ ~closeCb
    BY <1>2, <2>1 DEF Close, NothingToSend, handleVars
  <2>3. Mode' = "failed"
    BY <2>2 DEF Mode, Failed
  <2>4. Mode \in {"open", "draining", "failed"}
    BY <1>2, <2>1
  <2>. QED
    BY <2>1, <2>3, <2>4 DEF Stream!Next, Stream!Fail, Stream!vars
<1>5. CASE WriteCanceled
  <2>1. /\ inflight # <<>> /\ handle # "open"
        /\ UNCHANGED <<accepted, written, handleVars>>
    BY <1>5 DEF WriteCanceled
  <2>2. Mode = "failed" /\ Mode' = "failed"
    BY <1>2, <2>1 DEF Mode, Failed, handleVars
  <2>. QED
    BY <2>1, <2>2 DEF Stream!vars
<1>6. CASE ReadEnds
  <2>1. /\ handle = "open" /\ handle' = "closing" /\ closeCb' = FALSE
        /\ UNCHANGED <<accepted, written>>
    BY <1>6 DEF ReadEnds, UvClose
  <2>2. Mode # "finished" /\ Mode' = "failed"
    BY <2>1 DEF Mode, Failed
  <2>. QED
    BY <2>1, <2>2 DEF Mode, Stream!Next, Stream!Fail, Stream!vars
<1>7. CASE CloseCallback
  BY <1>7 DEF CloseCallback, Mode, Failed, Stream!vars
<1>8. CASE AppClose \/ ReadBadPackage
  BY <1>8, CloseRefines DEF AppClose, ReadBadPackage
<1>9. CASE UNCHANGED <<is_writing_, flagVars, handleVars, inflight, accepted,
                       written>>
  BY <1>9 DEF flagVars, handleVars, Mode, Failed, Stream!vars
<1>10. CASE OnHeartbeatTimeout
  <2>1. CASE Close(send_queue_, is_writing_)
    BY <1>10, <2>1, CloseRefines DEF OnHeartbeatTimeout, HeartbeatExpired
  <2>. QED
    BY <1>9, <1>10, <2>1
       DEF OnHeartbeatTimeout, HeartbeatExpired, flagVars, handleVars
<1>11. CASE ReadData \/ Tick \/ UNCHANGED vars
  BY <1>9, <1>11 DEF ReadData, Tick, vars, flagVars, handleVars
<1>. QED
  BY <1>1, <1>3, <1>4, <1>5, <1>6, <1>7, <1>8, <1>10, <1>11
     DEF Next, Stream!Next

(***************************************************************************)
(* The connection, with its queue, its flags and its two ways of closing,  *)
(* implements the outgoing stream of module OutStream.                     *)
(***************************************************************************)
THEOREM RefinesOutStream == Spec => ImplementsOutStream
<1>1. Init => Stream!Init
  BY DEF Init, Stream!Init, Mode, Failed
<1>2. Init => CompleteInv
  BY DEF Init, CompleteInv
<1>3. Spec => []IInv
  BY <1>2, InitCloseInv, CloseStep, InitStreamInv, StreamStep, CompleteStep,
     TypeCorrect, OneWriteAtATime, PTL DEF Spec, IInv
<1>. QED
  BY <1>1, <1>3, StepRefines, PTL DEF Spec, ImplementsOutStream, Stream!Spec

------------------------------------------------------------------------------
(* Refinement: to its server the connection is one of module ConnLifecycle. *)

(* The phase is a function of the handle, its callback and two flags.      *)
LEMMA SamePhase ==
  ASSUME TypeOK,
         UNCHANGED handleVars,
         handle # "open" \/ is_closing_gracefully_' = is_closing_gracefully_
  PROVE  UNCHANGED Phase
<1>1. handle' = handle /\ closeCb' = closeCb /\ aborted' = aborted
  BY DEF handleVars
<1>2. CASE is_closing_gracefully_' = is_closing_gracefully_
  BY <1>1, <1>2, Zenon DEF Phase
<1>3. CASE handle # "open"
  <2>1. handle \in {"closing", "closed"}
    BY <1>3 DEF TypeOK
  <2>. QED
    BY <1>1, <2>1 DEF Phase
<1>. QED
  BY <1>2, <1>3

(* Close, whoever calls it: one step of the lifecycle or none.             *)
LEMMA CloseFollowsLife ==
  ASSUME TypeOK, CloseInv, Running,
         NEW q, NEW w,
         Close(q, w)
  PROVE  [Life!Next]_Phase
<1>1. CASE UNCHANGED <<flagVars, handleVars>>
  <2>1. UNCHANGED handleVars /\ is_closing_gracefully_' = is_closing_gracefully_
    BY <1>1 DEF flagVars
  <2>. QED
    BY <2>1, SamePhase
<1>2. CASE ~Closing /\ UvClose(TRUE)
  <2>1. ~closeCb /\ ~is_closing_gracefully_ /\ ~aborted
    BY <1>2 DEF CloseInv, ClosedIdle, Closing, Running
  <2>2. CASE handle = "open"
    <3>1. Phase = "open" /\ Phase' = "closing"
      BY <1>2, <2>1, <2>2 DEF UvClose, Phase
    <3>. QED
      BY <3>1 DEF Life!Next, Life!CloseAtOnce
  <2>3. CASE handle # "open"
    <3>1. Phase \in {"dropping", "dropped"} /\ Phase' = "aborted"
      BY <1>2, <2>1, <2>3 DEF UvClose, Phase, TypeOK
    <3>. QED
      BY <3>1 DEF Life!Next, Life!CloseAgain
  <2>. QED
    BY <2>2, <2>3
<1>3. CASE ~Closing /\ is_closing_gracefully_' = TRUE /\ UNCHANGED handleVars
  <2>1. CASE handle = "open"
    <3>1. Phase = "open" /\ Phase' = "draining"
      BY <1>3, <2>1 DEF Running, Closing, handleVars, Phase
    <3>. QED
      BY <3>1 DEF Life!Next, Life!DeferClose
  <2>2. CASE handle # "open"
    BY <1>3, <2>2, SamePhase
  <2>. QED
    BY <2>1, <2>2
<1>. QED
  BY <1>1, <1>2, <1>3 DEF Close

LEMMA TrySendFollowsLife ==
  ASSUME TypeOK, CloseInv, Running,
         NEW q, NEW w, NEW f,
         TrySend(q, w, f)
  PROVE  [Life!Next]_Phase
<1>1. CASE UNCHANGED <<flagVars, handleVars>>
  <2>1. UNCHANGED handleVars /\ is_closing_gracefully_' = is_closing_gracefully_
    BY <1>1 DEF flagVars
  <2>. QED
    BY <2>1, SamePhase
<1>2. CASE Close(Tail(q), FALSE)
  BY <1>2, CloseFollowsLife
<1>. QED
  BY <1>1, <1>2 DEF TrySend

LEMMA StepFollowsLife == TypeOK /\ CloseInv /\ [Next]_vars => [Life!Next]_Phase
<1>. SUFFICES ASSUME TypeOK, CloseInv, [Next]_vars PROVE [Life!Next]_Phase
  OBVIOUS
<1>1. ASSUME NEW m \in Messages, AppSend(m) PROVE [Life!Next]_Phase
  BY <1>1, TrySendFollowsLife DEF AppSend
<1>2. CASE WriteSucceeds
  <2>1. CASE ~DrainedAfterTrySend
    BY <1>2, <2>1, TrySendFollowsLife DEF WriteSucceeds
  <2>2. CASE DrainedAfterTrySend
    <3>1. /\ UvClose(TRUE) /\ UNCHANGED flagVars
          /\ is_closing_gracefully_ /\ ~aborted /\ ~closeCb /\ handle # "closed"
      BY <1>2, <2>2
         DEF WriteSucceeds, DrainedAfterTrySend, Running, CloseInv, ClosedIdle
    <3>2. CASE handle = "open"
      <4>1. Phase = "draining" /\ Phase' = "closing"
        BY <3>1, <3>2 DEF UvClose, Phase
      <4>. QED
        BY <4>1 DEF Life!Next, Life!QueueDrained
    <3>3. CASE handle # "open"
      <4>1. Phase = "dropping" /\ Phase' = "aborted"
        BY <3>1, <3>3 DEF UvClose, Phase, TypeOK
      <4>. QED
        BY <4>1 DEF Life!Next, Life!CloseAgain
    <3>. QED
      BY <3>2, <3>3
  <2>. QED
    BY <2>1, <2>2
<1>3. CASE AppClose \/ WriteFails \/ ReadBadPackage
  BY <1>3, CloseFollowsLife DEF AppClose, WriteFails, ReadBadPackage
<1>4. CASE UNCHANGED <<flagVars, handleVars>>
  <2>1. UNCHANGED handleVars /\ is_closing_gracefully_' = is_closing_gracefully_
    BY <1>4 DEF flagVars
  <2>. QED
    BY <2>1, SamePhase
<1>5. CASE OnHeartbeatTimeout
  <2>1. CASE Close(send_queue_, is_writing_)
    BY <1>5, <2>1, CloseFollowsLife DEF OnHeartbeatTimeout
  <2>. QED
    BY <1>4, <1>5, <2>1 DEF OnHeartbeatTimeout
<1>6. CASE ReadEnds
  <2>1. /\ Phase \in {"open", "draining"}
        /\ Phase' = "dropping"
    BY <1>6 DEF ReadEnds, UvClose, Running, Phase
  <2>. QED
    BY <2>1 DEF Life!Next, Life!ReadEnds
<1>7. CASE CloseCallback
  <2>1. \/ Phase = "closing" /\ Phase' = "deleted"
        \/ Phase = "dropping" /\ Phase' = "dropped"
    BY <1>7 DEF CloseCallback, Running, Phase
  <2>. QED
    BY <2>1 DEF Life!Next, Life!HandleClosed
<1>8. CASE WriteCanceled \/ ReadData \/ Tick \/ UNCHANGED vars
  BY <1>4, <1>8 DEF WriteCanceled, ReadData, Tick, vars
<1>. QED
  BY <1>1, <1>2, <1>3, <1>5, <1>6, <1>7, <1>8 DEF Next

(***************************************************************************)
(* To its server the connection behaves as module ConnLifecycle says: it   *)
(* leaves by OnClose once, or by a dropped handle and never by OnClose.    *)
(***************************************************************************)
THEOREM RefinesConnLifecycle == Spec => ImplementsConnLifecycle
<1>1. Init => Life!Init
  BY DEF Init, Life!Init, Phase
<1>2. Spec => [](TypeOK /\ CloseInv)
  BY InitCloseInv, CloseStep, TypeCorrect, OneWriteAtATime, PTL DEF Spec
<1>. QED
  BY <1>1, <1>2, StepFollowsLife, PTL
     DEF Spec, ImplementsConnLifecycle, Life!Spec
=============================================================================
