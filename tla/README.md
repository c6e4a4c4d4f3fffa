# A TLA+ verification of libuv_server

libuv_server is a small library for TCP, WebSocket and UDP servers on top of
libuv.  An application makes a server on an event loop, registers `OnOpen`,
`OnMessage` and `OnClose`, and calls `Send` and `Close` on the connections it is
handed.  This directory holds TLA+ modules of the library, the TLC
configurations that check them on small instances, and proofs checked by TLAPS.
Paths below are relative to the root of the repository's sources.

## 1. The system

| component | state | operations | interacts with |
|---|---|---|---|
| `TcpConnection` (`src/uv_net/tcp_connection.cpp`) | `send_queue_`, `is_writing_`, `is_closing_`, `is_closing_gracefully_`, `is_heartbeat_running_`, `last_active_time_`, `recv_buffer_`, its libuv handle and timer | `Send`, `TrySend`, `OnWriteComplete`, `Close`, `StartHeartbeat`, `StopHeartbeat`, `OnHeartbeatTimeout`, `OnDataReceived`, the two close callbacks | libuv (`uv_write`, `uv_close`, timers), its server (`OnMessage`, `OnClose`) |
| `TcpServer` (`src/uv_net/tcp_server.cpp`) | `listeners_`, `current_connections_`, `conn_id_counter_`, `config_`, `server_protocol_`, `buffer_pool_` | `Start` with the connection callback and the read callback, `OnNewConnection`, `OnMessage`, `OnClose`, destructor | libuv's listener, connections, the application |
| `FixSizeProtocol` (`include/fix_size_protocol.h`) | none | `ParsePackage` | `OnDataReceived`, WebSocket frames, UDP |
| `ServerConfig` (`include/uv_net/server_config.h`) | limits and sizes | getters and setters | read by servers and connections |
| `BufferPool` (`include/uv_net/buffer_pool.h`) | `free_buffers_` | `AcquireBuffer`, `ReleaseBuffer` | the read callbacks of TCP and UDP |
| `WebSocketConnection` (`src/uv_net/websocket_connection.cpp`) | as `TcpConnection`, plus `state_`, the parser's state, `handshake_buffer_` | handshake, frame parser, frame handlers, its own `Send`, `TrySend`, `OnWriteComplete`, `Close`, heartbeat | as `TcpConnection` |
| `WebSocketServer` | none of its own | `CreateConnection`, forwards the rest | `TcpServer` |
| `UdpServer`, `UdpConnection` | sockets, pool | `Start`, receive callback, `OnMessage`, `Send` | libuv, the application |
| `Logger`, plog, `utils.cpp`, examples | - | logging, unused helpers, applications | - |

How they interact.  Everything runs on one thread, the loop's: libuv calls the
connection callback of a listener, the read, write, timer and close callbacks of
a connection, and these call the application, which calls `Send` and `Close`
back, often from within the callback.  There is no lock on the TCP side
(`send_mutex_` is declared and never locked there).  A connection object holds a
plain pointer to its server, the callbacks a plain pointer to the connection;
the connection is deleted by the close callback that `Close` or the end of a
deferred close passes to `uv_close`.

What is hard:

* *order of callbacks*: the result of a write, a read error, the heartbeat and
  the application's calls come in any order, and each may close;
* *two ways to close*: at once, or deferred until the queue is empty, and a third
  that tells nobody, when the read callback closes the handle;
* *failure in the middle*: a write that fails with more messages queued behind it;
* *lifetime*: `delete` in a close callback while other callbacks hold the pointer;
* *limits*: the queue's, the connections', the wrap of the 32-bit id, the size
  field that is assigned to an `int`;
* *chunking*: a package or a frame may be cut anywhere, or come together with others, and a
  read may find nothing at all;
* *memory that is used again*: a pool buffer serves the next datagram while an answer to the
  last one waits;
* *liveness*: the queue moves only because each completed write starts the next;
  the listener polls only as long as every peer it took was accepted.

What makes each component correct:

* `TcpConnection`: one write at a time; what is written is a prefix of what was
  accepted; a deliberate close loses nothing; nothing calls into a deleted
  object; a silent peer is noticed; the queue drains; a deferred close completes.
* `TcpServer`: the count equals the objects alive, the limit holds, ids in a
  window are distinct, waiting peers are served.
* receiving: no byte lost or doubled, each message one package, no complete
  package held back, bounded memory, a loop that ends, a peer read to its end.
* `WebSocketConnection`: one `OnOpen` and one `OnClose` each, a close frame that
  closes, frames cut out correctly for every division into chunks.
* `BufferPool`: a buffer has one owner, and what is announced fits what was
  allocated.
* `UdpServer`: each datagram one message or none, never a part of a package, answers that hold what they answer, every
  block given back.

## 2. The modules

| module | models |
|---|---|
| `OutStream` | abstract: what the sending side of a connection promises to the application |
| `ConnLifecycle` | abstract: the life of one connection as its server sees it |
| `TcpConnection` | one TCP connection after its accept, all but its receive buffer |
| `TcpServer` | one listener, its limit, count and ids, and the phase of each connection |
| `FixSizeProtocol` | `ParsePackage`; extended by `Framing` and `UdpServer` |
| `Framing` | libuv's reads of one connection, and `OnDataReceived` |
| `WsConnection` | one WebSocket connection after its accept, all but the cutting of frames |
| `WsFrame` | `ParseFrame`: the cutting of frames |
| `BufferPool` | the pool of read buffers on a heap; extended by `UdpServer` |
| `UdpServer` | the sockets of a `UdpServer`, its receive callback, `OnMessage`, and `UdpConnection::Send` |
| `TcpConnectionProofs`, `TcpServerProofs`, `FixSizeProofs`, `FramingProofs`, `WsConnectionProofs`, `WsFrameProofs`, `UdpServerProofs` | theorems about the module each is named after |
| `SequenceLemmas` | what cutting, joining, filtering and flattening do to sequences; used by the proofs |
| `MC...` | the instances TLC checks |

`TcpConnection` implements `OutStream` and `ConnLifecycle` (checked and proved);
the connections of `TcpServer` are written as `ConnLifecycle`'s steps, one connection of many, with
what each step does to the count and the listener.  So the
two detailed modules meet in `ConnLifecycle`: `TcpServer` needs to know no more
of a connection than its phase.  That its connections move so is by construction and not a result; the
result is `TcpConnection`'s.

### TcpConnection

Variables have the names of the members; `idle` is `uv_now() -
last_active_time_`, `since` the time since the timer was armed, `inflight` the
requests libuv holds, `handle`, `closeCb` and `aborted` the state of the
`uv_tcp_t`, whether `uv_close` was given the callback that deletes, and whether
it was called twice.  `accepted` and `written` are histories.  Every action is one
callback or one call, run to its end.  `Close(q, w)` and `TrySend(q, w, f)` are
operators and not actions: the callers pass the queue, the flag and the requests
as they have left them, so that `OnWriteComplete`, which resets `is_writing_`,
calls `TrySend`, which may call `Close`, and then tests for the drained queue,
is one action.  What the code does with a message is independent of its bytes, so
a message is a model value.

libuv is not in this repository and is modelled by what the code relies on:
a write completes with 0, with an error, or with `UV_ECANCELED` once its
handle is closing; `uv_write` on a handle that is no longer open fails at once with `EBADF`; read
callbacks end with `uv_close`; the close callback follows the last write
callback; a second `uv_close` is a failed assertion (`aborted`), after which
nothing more happens.  `Running` stands for that.  A zero-length read (`nread ==
0`) takes the branch of the errors, as in the code.

### TcpServer

`phase` is what became of each peer: not connected, in the kernel's backlog,
held in `accepted_fd` by a callback that returned without accepting, rejected
because `uv_accept` failed, or a phase of `ConnLifecycle`.  `Accept`, `RefuseAtLimit`
and `AcceptFails` are the three ways through the connection callback.

### Framing

A peer's stream is a sequence of bytes; `Receive(n)` hands over its next n bytes,
for every n, which is every division into chunks.  The loop of `OnDataReceived`
takes a step per pass, because `OnMessage` runs inside it and may call `Close`.
`SizeField` computes the `int` that `ntohl`'s result becomes, negative from 2^31.
A read takes at most `ReadBufferSize` bytes.  When one filled the buffer libuv reads again
before it goes on, and if that finds nothing it calls back with `nread == 0`: the callback's
test is `nread > 0`, so it closes the handle (`ReadNothing`), as at an end of file
(`ReadEnds`).  `filled` and `ended` tell the two apart.

### WsConnection

`WebSocketConnection` derives from `TcpConnection` and overrides nearly all of
it: `state_` takes the place of `is_closing_`, `Send` builds a frame, and the queue also
takes pongs and the answer to a close frame, without regard to its bound.  So the
module repeats the structure of `TcpConnection` with the class's own code, and adds the
handshake.  `ReadHandshake` sends the response with a `uv_write` of its own, which does not
touch the queue or `is_writing_`; its callback, `OnHandshakeComplete`, ignores its status.
`handshake_buffer_` is not emptied, so every read until then sends another response.
After the handshake a read callback is three kinds of action: `ReadFrames` enters
`ParseFrame`, the `Process...` actions are the frames it finds, in any number and order, and
`FramesDone` leaves it; while `parsing` holds no other callback runs, but the application
may act, because frames call it.  Which bytes make a frame is module `WsFrame`'s
business; here any frame may come at any time, so that what `WsFrame` finds about the parser does not
limit what is checked about the connection.  `last_active_time_` is set by `StartHeartbeat` alone, so every
heartbeat that keeps running finds the connection idle; no clock is kept.

### WsFrame

A peer's stream is a sequence of frames, masked or not, with its length in the header or in 2 or
8 bytes; `Fields` lays it out as RFC 6455 does.  `OnDataReceived(n)` starts `ParseFrame` with the next n
bytes, for every n, and each pass of its loop is an action: one per `parse_state_`, with the two
branches of `READ_MASKING_KEY` apart.  `Gather` is what the first three states have in
common: take the rest of the chunk, *whatever the field needs*, and if that is enough, cut the field off
the front.  When `buffer_` held enough before, the code takes nothing and changes nothing:
`Gather` is then not enabled, and the loop of the code spins.  `payload_length` is at most
65535, because the 8-byte branch is never taken (part of `TypeOK`, and proved).

### BufferPool and UdpServer

`memory` is the contents of the heap's blocks, `allocated` those in use.  A new block is the lowest
free one, so that a freed block is soon used again and a stale pointer would be noticed.  libuv
calls the allocation callback and then, on the same thread and with nothing of the server's in between,
the receive callback: `callback` is the pair that is running, and what it holds.  `Receive`, `ReceiveFails` and
`ReceiveNothing` are the ways through it, `Send` is the application's answer from within `OnMessage`, and
`CallbackReturns` gives the buffer back.  `uv_udp_send` transmits at once, or keeps the request until the
socket is writable (`sending`), or refuses it; `completed` are the requests whose callback is
due.  Of a `UdpConnection` only the address matters, which is copied into it.  `on_message_` is
taken to be set.

## 3. The runs

| run | expects | instance | what it shows |
|---|---|---|---|
| `tcp_connection` | pass | 2 payloads, queue of 2, interval 2, slack 1, 4 sends; 27,336 states | type, six safety properties, both refinements, `QueueDrains`, `DeferredCloseCompletes` |
| `deferred_close` | violation | queue of 1, 2 sends | a deferred close is lost when a write fails |
| `tcp_server` | pass | 4 peers, limit 2, 3 ids; 21,141 states | count, limit, ids, and that a peer is refused only at the limit |
| `read_error` | violation | 3 peers, limit 1 | a connection whose read ends is never counted off nor deleted, and its next `Close` ends the process |
| `room_again` | violation | 3 peers, limit 1 | one refusal stops the listener |
| `framing` | pass | 88 streams of one or two pieces, largest package 6, buffer of 5; 441,731 states | bytes, packages, chunking, bounded buffer, end of the loop, reading to the end |
| `ws_connection` | pass | 2 payloads, queue of 2, 3 sends, 2 control frames, 2 responses; 28,455 states | type, four safety properties, `QueueDrains` |
| `ws_delete` | violation | 1 payload, 1 send | a heartbeat that outlives its connection |
| `ws_close_frame` | violation | 1 payload, 1 send | a close frame after which nothing closes |
| `ws_frame` | pass | 72 streams of one or two frames of 8 kinds; 166,826 states | the parser's counts agree, well-cut frames are decoded, where the loop ends and where not |
| `ws_echo` | violation | one masked text frame | a frame that has arrived and is never handled |
| `udp_server` | pass | 2 sockets, 5 kinds of datagram, buffer of 6, largest package 8, 2 arrivals, 1 error, 3 blocks; 117,780 states | ownership of memory, answers, which packages arrive and which do not, progress |

Bounds.  `MaxSends` caps the messages accepted in a behaviour: four, with two
payloads and a queue of two, give a full queue behind a write, a dropped message
and a later one, and any reordering is visible.  `TimerSlack` is how late a timer
may run; ticks are counted only while the heartbeat runs, since nobody else reads the
clock, and `idle` is bounded by `IdleBounded` itself.  `IdSpace` stands for 2^32:
three ids and four peers make the counter wrap.  In `Framing` the
largest package is 6 bytes for 65535: only the comparisons with it matter, and
the streams have packages of the least and the greatest size, bad sizes on both
sides of either bound, a negative one, and cut ones.  `MaxMessages` is the length of the
longest stream and only keeps a faulty variant finite; a buffer of 5 is shorter than a
package and than most streams, so reads fill it.  In `WsFrame` a stream of two frames is enough for what
one leaves behind for the next: `ParseFrame` keeps no memory of a frame beyond its end.  The payloads are at
most 5 bytes, one more than the key.  In `UdpServer` `MaxArrivals`, `MaxErrors` and `Blocks` bound the
datagrams, the errors and the heap: two datagrams are one that is answered and one that
takes its buffer, three blocks are the pool's and two answers.  The buffer is shorter than the largest
package, as in the default configuration (8192 and 65535 bytes); a datagram of the instance is cut
behind its package or within it, fills the buffer, has a bad size, or is empty.
In `WsConnection` two control frames are a pong
and a close frame, or two pongs that fill the queue past the application's bound, and two
responses are one under way while the first opens the connection.
Deadlock is not checked: a connection that is deleted, a listener nobody connects
to, a stream read to its end do stop.

Fairness.  The loop runs and libuv answers: weak fairness of the write callback
(whichever answer it brings) and of the close callback.  The first holds for a
peer that keeps reading or goes away; a peer that stays connected and never reads
can withhold it, and then a deferred close waits for ever, since `Close` has
stopped the heartbeat (a listed hazard).  Nothing is assumed of the
application, of incoming data or of the timer.  `BrokenPeerSpec` grants, besides, the
read error that follows a broken connection: `DeferredCloseDeletes` is violated even so.
In `WsConnection` the fairness of the write, close and heartbeat callbacks is strong:
a read callback is more than one step there and disables the others while it runs, but `uv_run` serves
in each round whatever is due, so reading for ever cannot starve them.
In `TcpServer`, a listener that polls takes a peer that waits (the callback of
each peer is weakly fair); only the two runs that expect a violation assume it.  In `Framing`, a loop
that can take a step does, and the bytes of a peer arrive; in `WsFrame`, only the former.  In `UdpServer` a callback runs to its
end, and the loop comes round to each socket, for reading, for transmitting and for the
callbacks that are due: strong fairness, because a callback disables the others while it runs.
That transmitting is fair says that a UDP socket becomes writable again, which needs no peer.

The operators called a *faulty variant* in the modules are not part of the
specifications.  Each is a plausible mistake in one mapped definition, and replacing
the definition by it makes TLC refute the property it is listed with in
`PROJECT.json`.

### What the violations show

1. `DeferredCloseDeletes` (`tcp_connection.cpp:98`, comment at 169).  A failed write leaves
   `is_writing_` set and returns early; a close that waits for the queue is never
   carried out, and neither the count nor the object is ever released.
2. `ReadErrorCloses` (`tcp_server.cpp:150`, `tcp_server.h:73`).  The read callback closes the
   handle, its comment says that `Close()` takes care of it, but `Close()` is not called and not told: the
   connection is never counted off nor deleted, and the next `Close` closes the handle again, which ends
   the process.  The heartbeat alone suffices, within three intervals; with a long
   one, an application that only echoes ends at the limit.
3. `ServedWhenThereIsRoom` (`tcp_server.cpp:92`).  The refusal at the limit leaves the peer in
   `accepted_fd`; the listener does not poll again.
4. `NoCallbackAfterDelete` of `WsConnection` (`websocket_connection.cpp:126`, comment at 74).  A
   `Close` while the response is under way is undone by the response's callback: the state is OPEN
   again and the heartbeat runs, on an object that the close callback deletes.  `TcpConnection`
   has this property, and it is proved there.
5. `IdleIsClosed` (`websocket_connection.cpp:431`, log at 584).  `ProcessCloseFrame` sets CLOSING and then
   calls `Close`, which returns in that state, as every later one does.
6. `ArrivedIsHandled` (`websocket_connection.cpp:300`, `README.md:316`).  A masked frame that arrives in one chunk is
   left in `buffer_` with its key, and the next chunk makes the loop spin for ever, and with it the
   thread of all servers on the loop.

`CountMatchesObjects`, `RefusedOnlyAtLimit`, `DecodesWellCut` and `LoopReturns` state what
does hold beside them.  More of the code's weaknesses are exceptions, named in properties that pass, which therefore
do not catch them:

* `MessagesAreDatagrams` excepts a package longer than the read buffer.  `udp_server.cpp:39` does nothing about
  `PackageLess` because "数据包是完整的" (a datagram is complete); but the kernel cuts a datagram at the buffer's
  length, and with the default configuration a package of 8193 to 65535 bytes, which `ParsePackage`
  allows, is dropped with no error logged.  Without a protocol the beginning of such a datagram is
  handed over as a message.  `PROJECT.json` lists it as a finding of the run `udp_server`.
* `AllIsRead` excepts a peer that is dropped because a read filled the buffer and the next found nothing.
* `MemoryReturns` excepts the copies of answers that `uv_udp_send` refused; `OneOwner` counts them as
  owned.
* `BufferBounded` excepts a connection that somebody closes: behind a bad package, while a deferred close
  drains, `recv_buffer_` grows without bound.
* `LoopReturns` excepts the two states that `ParseFrame` cannot leave (`ArrivedIsHandled` shows what they do), and
  `DecodesWellCut` 64-bit lengths.

## 4. The proofs

A proof holds for every value of the constants that satisfies the named assumptions; what the
assumptions demand is what the code's types and configuration give.

### TcpConnectionProofs

`TcpConnectionProofs` proves, for every set of messages, queue size, interval, slack and
number of sends (`ConfigAssumption`, `BoundAssumption`: naturals, an interval of
at least 1):

| theorem | property |
|---|---|
| `TypeCorrect` | `TypeOK` |
| `OneWriteAtATime` | `AtMostOneWrite` |
| `DeletedIsQuiet` | `NoCallbackAfterDelete` |
| `SilenceIsNoticed` | `IdleBounded` |
| `StreamInOrder` | `WrittenInOrder` |
| `CloseIsComplete` | `DeliberateCloseLosesNothing` |
| `RefinesOutStream` | `ImplementsOutStream` |
| `RefinesConnLifecycle` | `ImplementsConnLifecycle` |

The argument.  `TypeOK` and `AtMostOneWrite` are inductive together.  The rest needs three
facts the properties do not state:

* `CloseInv`: a connection that is closing has stopped its heartbeat, and
  `uv_close` was given the deleting callback only with an empty queue and no write under
  way.  Without it, a reachable-looking state with a request on a deleted object would
  have a successor that violates everything.
* `StreamInv`: either what was accepted is exactly what was written, is under way and is
  queued, in this order, or the stream has been cut and nothing more will be written than
  a request libuv still holds.
* `CompleteInv`: with the deleting callback, everything is written.

`IInv` is their conjunction.  Each action has a step in each proof; `Close` and
`TrySend` have lemmas of their own, applied where an action calls them.  The two
refinements follow from `IInv` step by step: `Mode` and `Phase` map the flags
and the handle to the abstract states.

### TcpServerProofs

`TcpServerProofs` proves, for any finite set of peers, any limit and any number of ids
(`ServerAssumption`):

| theorem | property |
|---|---|
| `TypeCorrect` | `TypeOK` |
| `CountIsExact` | `CountMatchesObjects` |
| `LimitHolds` | `LimitRespected` |
| `IdsDistinct` | `IdsDistinctInWindow` |
| `RefusalsAreDue` | `RefusedOnlyAtLimit` |

`CountInv` adds to the exact count that it is at most the limit; the handles that are
open are among the objects counted.  A step moves one connection, and `MoveIn`,
`MoveOut` and `MoveWithin` say what that does to the cardinality of a set of phases.
`IdInv` says that the n-th connection accepted has the id n - 1 modulo `IdSpace`, which
needs that no peer is accepted twice; the rest is arithmetic (`DivMod` to `NextRemainder`).
`RefusalsAreDue` is an action property: the connection callback looks at the counter, the property at the
objects, and `CountInv` makes them agree in the state in which the callback runs.

### Receiving: FixSizeProofs and FramingProofs

For any set of byte sequences as streams, any size of the read buffer and any largest package
that is not shorter than the header (`FramingAssumption`, `MaxPackageAssumption`):

| theorem | property |
|---|---|
| `VerdictIsFinal` | of `ParsePackage`: bytes that come later change neither a verdict nor the package |
| `FramingTypeCorrect` | `TypeOK` |
| `FramingBytesAccountedFor` | `BytesAccountedFor` |
| `FramingMessagesArePackages` | `MessagesArePackages` |
| `FramingNothingHeldBack` | `NothingHeldBack` |
| `FramingBufferBounded` | `BufferBounded` |
| `ChunksDoNotMatter` | two connections that received the same bytes delivered the same messages |

Each invariant is inductive together with `TypeOK`; the step that counts is `DeliverPackage`,
where a package moves from the front of the buffer to the end of the messages and the sum of both stays.
`ChunksDoNotMatter` is what they mean together.  `Cut(p, r, s)` says that the bytes s
fall into the packages p and a rest r that does not begin with one; `BytesAccountedFor`,
`MessagesArePackages` and `NothingHeldBack` make the messages and the buffer such a cut, and a
cut is unique because a package is determined by the bytes it begins with (`VerdictIsFinal`).
It speaks of a connection that has a protocol, between two reads: closed or not, since a close
throws no bytes away.

### WsConnectionProofs

For any set of messages, any bound on the queue, the sends, the control frames and the
responses (`WsConfigAssumption`: a control frame is not a message, a response is neither):

| theorem | property |
|---|---|
| `WsTypeCorrect` | `TypeOK` |
| `WsAtMostOneWrite` | `AtMostOneWrite` |
| `WsMessagesInOrder` | `MessagesInOrder` |
| `WsDeliberateCloseLosesNothing` | `DeliberateCloseLosesNothing` |
| `WsHandshakeFirst` | `HandshakeFirst` |

The argument differs from `TcpConnection`'s, because what is queued and what libuv
holds are mixed: messages, control frames and responses, of which a property looks at one kind.
`Only` is the module's filter, and the lemmas on it say what appending to a queue and taking its head do to
each kind.

* `Announced`: the responses under way are among those that may still announce the connection.
* `InOrder`: either the messages written, under way and queued are those accepted, or the stream
  was cut and nothing more is started, because `is_writing_` stays set or the handle is no longer open.
* `ClosedInv`: with the deleting callback given and the process alive, nothing is queued and everything
  accepted is written.  "And the process alive" is needed: a response may set the state to OPEN on a closed
  handle; `Send` then takes a message, `uv_write` refuses it, and the `Close` that follows
  is the second `uv_close`.
* `HandshakeInv`: before the first response is answered nothing is queued, and the state is
  not OPEN.  It may be CLOSING, in which received data would be parsed as frames; then the handle is
  no longer open, so that nothing is received.

### WsFrameProofs

For any streams of frames with keys of 0 or 4 bytes and payloads that their length field can say
(`StreamsAssumption`):

| theorem | property |
|---|---|
| `FrameTypeCorrect` | `TypeOK` |
| `FrameCountIsBuffer` | `CountIsBuffer` |
| `FrameDecodesWellCut` | `DecodesWellCut` |

The first two hold for any chunks.  `ParserInv` adds to the agreement of the two counts that a length field
is only ever read with no length known, so that it is two bytes long, and that the key always has four.
`FrameDecodesWellCut` is the proof that `ParseFrame` decodes what it decodes.  `Begin(frames, m)` is the
first m fields of the stream.  The invariant `Decoding` says that, as long as the stream
was well cut, there is a k such that the first k frames are handled, what
`current_frame_` holds agrees with frame k + 1, the bytes in `buffer_` and in the rest of the chunk
come in the stream right behind the fields that are done, `buffer_` holds less than the field being read, and no
field ends inside the rest of the chunk.  The last conjunct makes the proof go through: it is what
stops the code from taking more than a field into `buffer_`, and what the runs `ws_echo` and `ws_frame` show to be
needed.  Each action is then one lemma (`HeaderDecodes`, `LengthDecodes`, `KeyDecodes`, `NoKeyDecodes`,
`PayloadDecodes`, `ChunkDecodes`, `ReturnDecodes`); they rest on what the two header bytes and the length
bytes give back (`TheFields`) and on XOR with the same byte twice being the identity (`UnmaskMasked`).
`DecodingDecodes` gets the property from the invariant, by comparing the bytes read with where frames end.

### UdpServerProofs

For any set of peers and datagrams, any number of sockets, blocks, arrivals and errors, any size of the buffer
(`UdpAssumption`, `BlocksAssumption`, `MaxPackageAssumption`):

| theorem | property |
|---|---|
| `UdpTypeCorrect` | `TypeOK` |
| `UdpOneOwner` | `OneOwner` |
| `UdpOneBufferIsEnough` | `OneBufferIsEnough` |
| `UdpAnswersIntact` | `AnswersIntact` |
| `UdpMessagesAreDatagrams` | `MessagesAreDatagrams` |

* `MessageHeld`: while `OnMessage` runs, the callback's block holds the message.
* `PoolInv`: the pool has at most one buffer, and none while a callback has it.
* `Apart`: the blocks of the pool, of the requests that wait, of those whose callback is due and the
  lost ones are apart from each other, and together they are what is allocated.
* `MessagesOfIs` compares what the callback makes of the bytes in the buffer with what the datagram's sender
  put into it: the buffer holds a beginning of the datagram (`FittingIsBeginning`), so it has the same size field, and
  its package, if it is complete, is the datagram's.

`OneOwner` follows by counting.  `AnswersIntact` needs both: the kernel writes only to the block in
the callback's hand, which by `Apart` no request has, and the heap hands out only blocks nobody has.

### Induction, and what stays with TLC

The provers cannot use the library's induction theorems.  Where a proof needs induction
on the length of a sequence (the filter, the flattening, the unique cut), `SetInduction` of
`SequenceLemmas` does it with a set of numbers in place of a predicate; it is proved from the well-foundedness of `<`.

Only model-checked: the liveness properties (`QueueDrains`, `DeferredCloseCompletes`,
`HandlerReturns`, `AllIsRead`, `LoopReturns`, `DatagramsReceived`, `MemoryReturns`), which TLAPS
cannot do under fairness.  Every invariant, every refinement and the action property that
the passing runs check are also proved.  The properties of the runs that expect a violation are false, and nothing of them can be proved.

## 5. The plan

In order of importance; 1 to 7 are done.

1. `TcpConnection`, with `OutStream` and `ConnLifecycle`, and its proofs.
2. `TcpServer`: accept, limit, count, ids.
3. `Framing`: `OnDataReceived` and `ParsePackage`.
4. `WsConnection`: handshake, close frame, its `Send`, `Close`, `OnWriteComplete` and
   heartbeat.
5. `WsFrame`: `ParseFrame` over chunked input against frames laid out on the wire.
6. `BufferPool` and `UdpServer`.
7. Proofs of `FixSizeProtocol`, `Framing`, `UdpServer`, `WsConnection` and `WsFrame`.
8. The second call of `OnNewConnection` for each WebSocket connection, composed with the
   server's count and limit.

## 6. What is not modelled

* The destructors, a failed `uv_accept` beyond its effect on the count, and a failed bind beyond its effect
  on the server: each deletes a handle that libuv still lists.  What follows is undefined
  behaviour, so a model could only stop there; the hazards name the lines.
* Calls from other threads: `uv_write` may be called on the loop's thread only, so such a call is
  outside what libuv allows, with the lock or without it.
* `SetConfig` on a running server; the configuration's limits are constants.
* `UdpConnection::Send` on a connection that the application kept for later.
* The logger and plog (no state of the server), `utils.cpp` (unused), the
  contents of messages where no code looks at them, addresses and socket options, SHA-1, Base64 and the
  text of the handshake.
* A heartbeat interval of 0 or less, which the configuration accepts, is outside
  `ConfigAssumption`: libuv takes the interval as unsigned, and the timer then fires once, or
  practically never.
