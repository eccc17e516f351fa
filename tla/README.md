# A verification project for the streamer and its neighbours

TLA+ modules for the live-streaming server `src/projects/streamer` and for two smaller
network programs of the same repository, the TLC configurations that model-check them,
and TLAPS proofs about them. Sources are abbreviated:

| | file |
|---|---|
| S | `src/projects/streamer/src/streamer.cpp` |
| N | `src/projects/streamer/src/netutility.cpp` |
| T | `src/projects/speech-transfer/src/transfer.cpp` |
| R | `src/projects/rudp/rudp.c`, with `rtt.c` and `rtt.h` |

## 1. The repository and what was chosen

The repository is a collection: `src/projects` holds about twenty programs of one
author, `src/study` exercises and vendored open-source code (pulseaudio, nginx
modules), `src/tools` shell helpers. The largest program of its own with real
concurrency, and the one that the others serve (a load generator, an HLS converter,
FLV tools), is the streamer: a multi-threaded server on libev that takes FLV streams
from cameras over HTTP POST and relays them to viewers over HTTP GET. All its parts that
change shared state are modelled. Beside it the project has `rudp`, a reliable
request-reply over UDP with a signal-driven timer, and `speech-transfer`, a voice
conference server over UDP: a different kind of difficulty, lost and reordered datagrams
instead of unlocked threads. Every other program is listed as a component in
`PROJECT.json` with the reason why it is left out or left for later.

### 1.1 The streamer: threads, state and interaction

    camera --POST--> main thread --ev_async + data field--> worker --tags--> viewers
    viewer --GET---> main thread --viewer_info_pool--------> worker
    worker, main ----ev_async + data field----> notify thread --HTTP--> web server
    state query ---> state server thread (reads the pools)

- The *main thread* accepts connections and handles requests
  (`accept_cb`, `receive_request_cb`). For a camera it picks a worker round-robin.
- Each of `WORKTHREADS_SIZE` *workers* has an event loop, its own
  `camera_info_pool` and `viewer_info_pool` (one entry per channel, and per viewer
  in a channel), and one `ev_async` watcher with one `data` field.
- Cameras and viewers have `ev_io` watchers in the loop of the worker that owns
  the channel. Callbacks of one loop never overlap; main thread and workers run in
  parallel and share the pools and the data fields **without any lock**.

| component | state | operations | hard behaviour | what makes it correct |
|---|---|---|---|---|
| viewer queue (S 61-77, 580-677, 842-905) | ring of tags, `front`, `rear`, `empty` | push, pop, top, delete from the middle, drop a frame, clear | wrap-around, full ring, deletion while the head is partly sent | slots and indices agree; order kept; only the head is partly sent; it is a bounded list |
| tag delivery (S 1193-1375, 1427-1667) | headers of the channel with shared offsets, per-viewer flags, queues, started watchers | receive header / frame, `send_tags_cb`, join, leave, `delete_camera` | order of callbacks, partial writes, watchers started and stopped on emptiness | no lost wake-up, frames in order, key frame first, headers first and whole, every tag leaves |
| reception (S 1022-1191, N 205-254) | three stages with byte counters and buffers | `receive_stream_cb`, `read_specify_size` | bytes arrive in any portions; hang-up or reset at any byte; spinning | tags are cut at their boundaries; whole tags arrive; where a worker can be held up |
| camera hand-off (S 419-430, 747-812, 932-1015, 1677-1822, 2197-2226, 2309-2562) | pools, data field and flag per worker | start of a worker, request checks, insert, post, send; take, reply, clear; `delete_camera` | main thread and workers interleave without lock; one-place mailbox | a channel on one worker; callbacks find their channel; what is lost and when; the limit |
| viewer requests and sockets (S 1380-1425, 2309-2460, 2572-2690) | descriptors, limit on viewers | `accept_cb`, `do_viewer_request`, `delete_viewer`, error replies | descriptor reused before the old entry is erased; double close; channel erased between look-up and use | an entry belongs to the open connection of its number; who closes whose connection; which connections nobody closes |
| status notification (S 909-930, 2026-2080, 2699-2740) | one data field for all producers | `do_channel_notify`, `read_channel_status_cb`, `do_notify_cb` | several producers, one mailbox, used before it is set up | a status is told once; what is lost and when; the rest is told |
| backing relay (S 1828-2025, 2852-3000) | relay sockets, static counters, a pool of descriptors per channel | pull and push of another streamer's channel | statics shared by all relays; a chunk replaced before it is sent | each viewer gets the bytes in order; a resource lives as long as a relay |
| state server (S 2745-2850) | connections of its own thread | accept, report, close | reads the pools of the workers | covered with the sockets |
| start-up, HTTP, logging | — | — | none that changes shared state | — |

### 1.2 rudp and speech-transfer

- `rudp`: `dg_send_recv` sends a request, sets an alarm, and waits for the reply with its
  sequence number; `SIGALRM`'s handler jumps back (`siglongjmp`) to retransmit or give up.
  State: sequence numbers, the timeout estimate, the jump buffer, two message buffers. Hard:
  the signal between any two statements, late replies of earlier calls, errors of `recvmsg`.
  Correct: a call returns the answer to its own request, and returns.
  As it stands the source does not compile (`rtt_init` is both a variable and a function, two
  typing slips): it is modelled as its text says.
- `speech-transfer`: one thread, one UDP socket, a loop on `select` or on edge-triggered
  `epoll`. State: `CHAT_ROOM` (channel to members), `SORP_POOL` (speaker to packets). Operations:
  CREATE, CANCEL, JOIN, LEAVE, speech, and the mix of all pools every 300 ms. Hard: lost and
  repeated requests, one datagram read per event, pools of different lengths. Correct: a request
  that is repeated takes effect, members are in one room, no pooled packet is lost in the mix.

## 2. Modules

| module | models | role |
|---|---|---|
| `ViewerQueue` | the ring and its functions | pure operators on a queue record |
| `TagFifo` | — | abstract specification: a bounded list with the drop rule |
| `ViewerQueueImpl` | the ring as `receive_stream_cb`, `send_tags_cb` and the deleters drive it | state machine, refines `TagFifo` |
| `TagDelivery` | one channel on its worker | extends `ViewerQueue`; viewers, headers, frames, watchers |
| `CameraReceive` | the byte stream of one camera | produces the packets that `TagDelivery` starts from |
| `CameraHandOff` | main thread and workers around the mailbox | produces the channels that `TagDelivery` serves |
| `SocketTable` | main thread, workers and state server around the descriptor table | what becomes of the connections of `CameraHandOff` and `TagDelivery` |
| `StatusNotify` | `do_channel_notify` and the notify thread | second user of a one-place mailbox |
| `BackingRelay` | the relays of one worker | callbacks of the loop that `TagDelivery` shares |
| `Rudp` | `dg_send_recv` and its timer over an unreliable network | stand-alone |
| `SpeechSignal` | signalling of `speech-transfer`, its loops, one camera and one PC | requests on the way to `SpeechRooms` |
| `SpeechRooms` | rooms, packet pools and the mixer | what the server does with each datagram |
| `MCCameraHandOff`, `MCSocketTable`, `MCBackingRelay`, `MCSpeechRooms` | — | instances for TLC: symmetry, the relays' channel |
| `ViewerQueueProofs`, `TagDeliveryProofs`, `CameraReceiveProofs`, `CameraHandOffProofs`, `SocketTableProofs`, `StatusNotifyProofs`, `BackingRelayProofs`, `DatagramProofs` | — | theorems; `DatagramProofs` holds those about the two UDP programs |

### 2.1 ViewerQueue, ViewerQueueImpl, TagFifo

A queue is a record with the C struct's fields. `flv_tags` is a function from slots
to tags or `NULL`; the do-while loops over the ring become the set `Span(from, to)`,
which is the whole ring when `from = to` as in the loops. `front` and `rear` start at
`CACHED_TAGS_LIMIT`, an index outside the array, as in `new_viewer_info`.
`drop_frame` picks the first non-key frame (the one at the least `Distance` from the
front) and otherwise pops. `viewer_queue_push` does not look at fullness, and
`viewer_queue_delete` does not update `empty`, because the C functions do not: that
this is harmless with the callers the code has is part of what is proved. A slot that
`new_viewer_info` leaves uninitialised is `NULL`; `SlotsMatchIndices` says that no such
slot is ever read.

`ViewerQueueImpl` has one action per use: `PushTag` (with the drop that precedes it in
a full queue), `SendPart`, `PopTag`, `DeleteQueue`. `TagFifo` is what a reader would
say a viewer queue is; the refinement maps the ring to `Contents(viewer_queue)`.

### 2.2 TagDelivery

All actions are callbacks of one event loop and therefore atomic; the model
interleaves them in every order and lets a socket take any number of units in each.

- `StartCamera`, `JoinViewer(v)`: the entries are created (`new_cameras`,
  `new_viewer_info`).
- `ReceiveHeader(h)`, `ReceiveTag(key)`: the end of `receive_stream_cb`, for a script or
  sequence header (stored, its offset reset) and for a frame (into every viewer's
  queue, watchers started on the way).
- `send_tags_cb(v, b)`: HTTP response, the four headers with the offsets that
  belong to the *channel*, then the head of the queue, with `b` units of space in
  the socket; stops the watcher when the queue is empty. The headers share the room in
  the order of the code: `Before(hs, h)` is what the pending headers ahead of `h` need, so
  `Done(hs, b)` are those that go out to their end, and the first that does not fit gets
  the rest of the room as its `Share`.
- `delete_viewer(v)`, `delete_camera`.
- `Stall`: the camera paused after a tag's header and `read_specify_size` spins, so no
  other callback of this worker runs until it goes on (see CameraReceive).

`wire[v]` is a history variable: the units that viewer `v` received. The `EV_ERROR`
branch of `send_tags_cb` is absent: libev reports `EV_ERROR` on a watcher it has
stopped, and the callback returns at once for one that is not active. The HTTP
response is one step, because `write_specify_size2` returns only when all is written.

### 2.3 CameraReceive

A byte is its position in the camera's stream, so that buffers show which bytes they
hold. Each call of `read_specify_size` is one step with its three outcomes: it takes
all it wants, some (at least one byte, then the socket would block), or nothing because
of a hang-up or an error. With an open connection and no byte it spins: no step of the
worker is enabled. The stages (`ReadFlvHeader`, `ReadTagHeader`, `ReadTagData`) keep the
counters and flags of `CAMERAS` and free and allocate the buffers where the code does.

### 2.4 CameraHandOff

The main thread's handling of a camera request is six steps, one per access to what it
shares with the workers: `receive_request_cb` (limit), `CheckChannel`
(`camera_already_in`, next worker), `CheckPending` (`ev_async_pending`),
`InsertCamera`, `PostData`, `SendAsync`. A worker has `workthread_entry`, `QueueCallback` (libev clears the
flag and queues the callback), `TakeData`, `ReplyOk` / `ReplyFails`, `ClearData`
(`delete data; data = NULL`, whatever the field holds by then) and `delete_camera`.
`freed` marks a message behind a dangling pointer; reading one sets `undefined`, after
which nothing is claimed.

The worker's thread initialises and starts its own async watcher (S 2223-2224,
`workthread_entry`), and the main thread does not wait for it. In `Init` no worker has done so
(`started`), and `sent`, a field of a watcher that was only allocated, is anything. Until
then `CheckPending` reads that flag and `SendAsync` sets it, but no callback comes of it, and
`workthread_entry` clears it: the message stays in `data` until a later one replaces it.

`overlapped[w]` and `early[w]` are history variables: a message was posted while the
callback of an earlier one was queued or running; the channels whose wake-up was sent
before the worker had started its watcher. Accesses to one `std::map` are atomic in the
model. Resource (backing) channels are left out, and with them the relays that the main
thread hands over through the same data field (S 2971-2984); so is the call of
`do_channel_notify`, whose state nothing here reads. `Refuse` closes the connection; the second close by the caller (S 2426, 2474) is in `SocketTable`.

### 2.5 SocketTable

The kernel's table `sock` gives out the lowest free number, as POSIX demands. Every table of
the program (`watchers`, `camera`, `pool`, `served`) names connections by number, and the
model remembers beside each entry the connection it was made for: the properties compare
the two. The main thread: `accept_cb`; then for a request one of `RefuseRequest`,
`MalformedRequest` (400 without a close), `CameraRequest` with `CloseAgain` (the caller's
second close, a step of its own because another thread may get the number in between),
`FindChannel`, `CheckLimit`, `InsertViewer` (three steps, as the worker runs in between).
The worker: `StartCamera` / `ReplyFails`, `CloseViewer` then `EraseViewer`
(`delete_viewer` closes first), and `delete_camera` as `DeleteCamera`, `CloseNext` for each
viewer in the order of the map, `ClearPool`, `CloseCamera`, `FreeCamera`, `EraseChannel`. The
state server: `accept_request_cb`, `send_system_info_cb`. A use of a deleted `CAMERAS` sets
`undefined`, after which nothing is claimed. `cause`, `wrong` and `doubled` are history
variables.

### 2.6 StatusNotify

`do_channel_notify` is three steps of the posting thread (`CheckPending`, `WriteData`,
`SendAsync`); the main thread posts ONLINE, the worker of a channel OFFLINE (`CameraOffline`), or
nothing when the reply to the camera fails and `async_read_cb` erases the channel (`ReplyFails`,
S 1721-1727). The notify thread
has `notify_server_entry` in two steps (the watcher exists before it is initialised),
`QueueCallback`, `ReadData`, `ConnectServer` for each server, `EndOfServers`, `ClearData`
(deletes what the field holds *by then*) and `do_notify_cb`. `received[s]` is what server `s`
was told, in order. `posted`, `taken`, `early`, `overlapped`, `complete` are history variables.

### 2.7 BackingRelay

Callbacks of one loop, atomic, in every order: `StartRelay`, `RefuseRelay`, `SendRequest` /
`RequestBeyond` / `RequestFails` (`send_backing_resource_cb`), `PullChunk` / `PullEnd` / `PullAfterViewer`
(`pull_stream_cb`), `PushPart` / `PushBeyond` / `PushFails` (`push_stream_cb`). The two
`static` counters are variables without an index: one for all relays. Each relay's request has a
length of its own (`RequestSize[r]`, the `strlen` of S 1996-2003), so a counter that another relay
left may be inside this request, at its end (it then passes for sent) or beyond it, where the
`size_t` difference wraps around (`RequestBeyond`). `mixed` and `requestMixed` are history
variables: a counter was used for another relay than the one that moved it. Bytes of a stream are
their positions. The hand-over to the worker is one step; its mailbox is that of
`CameraHandOff`.

### 2.8 Rudp

One client, any server, a network that keeps every datagram for ever and delivers it any
number of times or never. `dg_send_recv`, `SendAndArm`, `SetJump`, `Receive`, `ReceiveFails`
(`recvmsg` returned -1, and the comparison with the size of a header is unsigned, so -1 passes
it) and `Return` are the statements that the handler `sig_alrm` can come between. `jmpbuf` says
whether this call's `sigsetjmp` filled the buffer. The smoothed estimate is any member of
`Estimates`, then clamped by `rtt_minmax` as in the code; `rtt_timeout` doubles without it.
The server is not part of the repository and marked external.

### 2.9 SpeechSignal, SpeechRooms

`SpeechSignal` has the server's receive buffer, the readiness that `epoll` reports once per
arrival (`edge`), and the client code of the repository's test programs
(`try_create_in_minutes`: `CameraSend`, `CameraReceives`, `CameraTimesOut`, `CameraGivesUp`).
The event loop is chosen in `Init` as the configuration does. `handle_udp_msg` reads one
datagram for each event and answers it.

`SpeechRooms` has the whole of `handle_udp_msg` as one step per datagram: `Join`, `Leave`,
`Create`, `Cancel`, and speech with or without the mix (`OnlyPool`, `PoolAndMix`).
`do_mix_and_broadcast_S` is an operator on the pools: in round k it takes the k-th packet of
every speaker that has one. A packet is its speaker and its time stamp; `heard` is what a step
sent to whom. A failing codec sends less, and the properties then say nothing. `EveryPacketOut`
speaks of the pools with the packet that triggers the mix already in them (T 469, 475), and of the
room of the client that sent it.

## 3. Runs

| run | instance | checks |
|---|---|---|
| `viewer_queue` | ring of 4, tags of 2 units, 2 payloads | `TypeOK`, `SlotsMatchIndices`, `OnlyHeadPartlySent`, refinement `FifoSpec` |
| `headers` | 2 viewers, headers and frames of 2 units, 2 repeated headers, 1 frame | `TypeOK`, `HeadersBeforeFrames`, `FlvHeaderWhole` |
| `frames` | 1 viewer, ring of 3, 6 frames of 2 units, fairness | `NoLostWakeup`, `FirstFrameIsKey`, `FramesInOrder`, `KeyFrameGivenUpLast`, `TagsLeaveQueue` |
| `camera_bytes` | headers of 2 bytes, 3 tags with 1 to 3 bytes of data each, fairness | `TypeOK`, `TagsCutRight`, `BlockedOnlyAfterHeader`, `WholeTagsReceived` |
| `hand_off` | 2 workers, 3 cameras, 3 channels, limit 1, symmetry | `TypeOK`, `ChannelOnOneWorker`, `ChannelsBounded`, `HandlerFindsChannel`, `WatcherOwnsChannel`, `LostByOverlapOrEarly`, `FreedReadOnlyByOverlap` |
| `headers_shared_offset` | 2 viewers | `HeadersWhole` is violated |
| `sockets` | 4 clients, 1 query of the state server, 4 descriptors, 1 channel, limit 1, symmetry | `ViewersBounded`, `EntryNamesItsViewer`, `WrongCloseOnlyAfterDouble`, `OrphansExplained` |
| `status_notify` | 2 channels that come and go once, 1 server, fairness | `ToldOnce`, `StatusLostOnlyByOverlap`, `AllTold` |
| `relay` | 2 relays on one channel, streams of 4 bytes in chunks of up to 3, requests of 4 and of 2 bytes | `StreamIntact`, `UndefinedExplained`, `ResourceHasRelay` |
| `rudp` | 3 calls, 3 retransmissions, fairness | `CallReturnsItsAnswer`, `UndefinedOnlyFirst`, `CallEnds` |
| `speech_signal` | both loops, receive buffer of 3, 3 tries, fairness | `EveryDatagramRead`, `JoinTakesEffect` |
| `speech_rooms` | 2 cameras, 2 PCs, 2 rooms, 3 time stamps, symmetry | `PcInOneRoom`, `EveryPacketOut` |

### 3.1 What they show

**The ring is right.** `viewer_queue_push` does not check for room, `viewer_queue_delete`
leaves `empty` alone, and the indices start outside the array; with the callers the code
has, no slot without a tag is read, none leaks, and the ring is the list of `TagFifo` with
its rule for what to give up.

**Delivery.** `receive_stream_cb` starts a watcher only when it pushes onto an empty queue
and `send_tags_cb` stops it only on an empty one: no order of the two strands a tag
(`NoLostWakeup`, and as liveness `TagsLeaveQueue`). Frames leave in order and from their
start, a key frame first, even when the key frame that was waited for is dropped.
A key frame that is partly on the wire is given up only when the queue is full of key
frames (`KeyFrameGivenUpLast`). A *non-key* frame that is partly sent may be dropped
(S 889): the viewer then finds a torn tag in its stream; no document promises otherwise,
so this is a hazard in the list and no finding.

**Reception.** Whatever the portions, tags are cut at their boundaries, and a tag sent
just before a hang-up is still received. The price is in `BlockedOnlyAfterHeader`: a
camera that pauses right after the FLV header or a tag header holds up its worker with
all its channels, and only there.

**Hand-off.** Without a lock the code still keeps a channel on one worker, finds the
channel of every message, and exceeds the limit by one at most. What it does not keep is
stated exactly: a hand-off is lost only on a worker to which the main thread posted between
libev's clearing of the flag and the end of `async_read_cb`, or when its own wake-up was sent
before the worker's thread had started the watcher (`LostByOverlapOrEarly`). A freed message is
read only after the first of these.

**Sockets.** `delete_viewer` closes a descriptor before it erases the entry under that number,
and another thread may be given the number at once. Still every entry that nobody is about to
erase means the connection it was made for (`EntryNamesItsViewer`): a viewer that gets the number
too early is refused ("already in use") and not confused. The one thing that breaks it is the
second close for a camera whose channel exists: the number may belong to a client of another
thread by then, and only then is a stranger's connection closed (`WrongCloseOnlyAfterDouble`).
`OrphansExplained` lists the three ways in which a connection stays open with nobody to close it.

**Status notification.** With one mailbox for all threads a server still hears a status at most
once and hears only what was posted. What is logged as done and lost anyway was posted while
a callback was queued or running, while another thread was posting, or before the watcher
was ready; without these, and without refusals or failing connections, every server is told.

**Relay.** As long as a relay's chunk is sent before the next one arrives and no other relay is
in the middle of a chunk, the static counter is harmless and the viewer gets the stream
byte by byte; likewise every source gets the whole request, as long as no relay begins its own
in the middle of another's and none fails. `UndefinedExplained` names what the unchecked `end()`
iterator and the negative sizes need: a resource erased under another relay, or a counter that was
not this chunk's or this request's.

**rudp.** Late and repeated replies never pass for an answer, and an error of `recvmsg` alone never
ends a call although its test lets -1 pass. An answer is lost, or a length that is none returned,
only when the alarm strikes between `recvmsg` and `alarm(0)`. The race between `alarm()` and
`sigsetjmp` is fatal for the first transmission of a call only. Every call ends, whatever
the network does.

**speech-transfer.** A PC that keeps asking gets into a room that exists, under either loop, though
under `epoll` (edge-triggered, one read per event) requests are left lying in the buffer until the
next one arrives; the `select` loop reads everything. A client that only joins is in one room at
a time. When pools of different lengths are mixed, no packet is lost: everybody else in the room
of whoever spoke last is sent each of them in some round, the packet that triggered the mix too.

### 3.2 Disagreements

One has a run and is a finding:

1. `HeadersWhole` (`headers_shared_offset`): S 1468 says the headers are sent "for once"; the
   offsets at S 1510, 1540, 1567, 1595 belong to the channel and are never set back after a
   partial write, so the next viewer gets the rest of the header only. `FlvHeaderWhole` says what
   holds instead: all is well until some viewer takes the header in part.

For the others the passing runs state exactly what holds instead, and that is the more useful
statement. A reader of the code should know them:

| what the code does | where | what a comment says | what holds |
|---|---|---|---|
| a camera's hand-off is freed unread when it was posted during the callback of an earlier one | S 1816 | S 2463: `true` means done | `LostByOverlapOrEarly` |
| a camera's hand-off is lost when its wake-up is sent before the worker has started its watcher | S 2223-2224 | S 2463 | `LostByOverlapOrEarly` |
| the limit on channels, and that on viewers, is compared with `>` | S 2412, 2598 | S 2411 speaks of a limit | `ChannelsBounded`, `ViewersBounded` |
| for an existing channel two replies are sent and the socket closed twice | S 2474, 2426 | S 2471 | `WrongCloseOnlyAfterDouble` |
| a viewer can find its fresh descriptor "already in use" | S 2641, because of S 1398 | — | `EntryNamesItsViewer` |
| a status is lost after its post; an OFFLINE may overtake its ONLINE | S 917, 2026-2080 | S 919 logs DONE; S 2172: notifies the camera's status | `StatusLostOnlyByOverlap` |
| a chunk is replaced before it was sent; the progress of all relays is one static | S 1948, 1995 | S 1939, 1984 | `StreamIntact` |
| the timeout doubles past `RTT_RXTMAX` | rtt.c:70 | rtt.h:15 | — |
| edge-triggered `epoll` with one read per event | T 319, 405 | — | `JoinTakesEffect` |
| a repeated JOIN is not answered, so a PC that lost all three answers is never told | T 540 | T 558 | `JoinTakesEffect` |
| all pools are mixed into the room of the speaker whose packet came last | T 34, 493 | T 165 | `EveryPacketOut` |
| in a round of several, the speakers hear themselves | T 1170 | — | — |
| a packet with a repeated time stamp is never freed | T 475 | — | — |
| what was said last waits for the next packet of anybody | T 481-496 | — | — |
| after one time-out the test camera no longer waits between its tries | unit/test_camera.cpp:127, 146 | 110-112 | — |

### 3.3 Bounds and why they are enough

- `CACHED_TAGS_LIMIT` (79 in the program) is 4, 3 or 2. The ring's cases are: fresh
  indices, front before / at / after rear, deletion at the head, in the middle and just
  before rear, across the wrap. Four slots have all of them, in `viewer_queue` with no
  bound on the number of steps. The theorems about the ring hold for every length.
- In `frames`, 6 frames against a ring of 3 fill it, wrap it and drop from it; one viewer
  is enough because viewers share nothing but the headers, which the run `headers` has two
  viewers for.
- `Size = 2` distinguishes nothing, a part and all of an item. `MaxHeaders = 2` lets one
  header be repeated, or two different ones arrive, between any two callbacks.
- In `camera_bytes` a stage has one to three bytes, so a portion may end before, inside
  and at the end of it; three tags give two boundaries of the same kind in sequence.
- In `hand_off` three cameras are one under way, one queued and one competing for the same
  channel; limit 1 is reached. One worker may serve while the other has not started. Cameras and channels are interchangeable: the symmetry is
  sound as only invariants are checked.
- In `sockets` four clients are a camera, a second camera for the same channel, and two viewers,
  which fill the pool to one over the limit of 1; the state server's query is the stranger that
  is given a number. Four descriptors for five connections make accept fail and numbers be
  reused. One channel, with its worker, is enough: workers meet only through the descriptors, and
  main thread and state server are two more threads that open and close them. Symmetry in clients.
- In `status_notify` two channels and the main thread are three posters, so two may be posting while
  a third is served; one server, as messages to different servers never meet.
- In `relay` a chunk of 3 is the least for which a counter left by one relay lies *beyond* the chunk
  of another (`PushBeyond`); streams of 4 bytes have a second chunk. Requests of 4 and 2 bytes let the counter of the
  longer one stop inside, at the end of and beyond the shorter one. Both relays are on one
  channel, so that they share the resource as well as the statics.
- In `rudp` three calls have replies of two earlier calls in the network; estimates lie below,
  within and above the clamp. The safety properties are proved for all values.
- In `speech_signal` a buffer of three holds a CREATE, a JOIN and a repeated one; it is full at
  times. In `speech_rooms` three time stamps give pools of lengths 0 to 3, hence rounds of
  one, of two and of three or more speakers; rooms are not symmetric, as `std::map` sorts them.
- `CHECK_DEADLOCK FALSE` is used where the system may really stop: `camera_bytes` (a stream ends),
  `status_notify` (all channels have come and gone), `rudp` (all calls made), `speech_signal`
  (nobody asks any more), `sockets`, `relay` and `hand_off`, where clients run out and nothing is
  said after a deleted object was used.

### 3.4 Fairness

- `TagDelivery`: strong fairness of `send_tags_cb(v, b)` with at least one unit of room,
  for each viewer. libev invokes every pending watcher in each iteration of the loop, and a
  viewer that keeps reading makes its socket writable again. It is strong because a stall of
  the camera takes the loop away now and then. Weak fairness of `GoOn`: a camera that began a
  tag goes on with it or its connection ends (TCP keeps neither half for ever); nothing else
  is assumed of cameras, which may stop sending between tags.
- `CameraReceive`: weak fairness of the worker's steps, that is, the thread is scheduled.
  Nothing is assumed of the camera.
- `StatusNotify`: weak fairness of each posting thread inside `do_channel_notify` and of the notify
  thread: they are scheduled, and neither blocks for ever. Cameras come and go as they like.
- `Rudp`: weak fairness of the client's own statements and of the alarm once it is set. Nothing is
  assumed of the network or the server; `Receive` is not fair.
- `SpeechSignal`: weak fairness of the server's two steps, and strong fairness of a JOIN's arrival: the
  network may lose any datagram, but not all of infinitely many. Nothing is assumed of the camera.
- `CameraHandOff` has no liveness property: the lost hand-off refutes the one of interest.
  `SocketTable`, `BackingRelay` and `SpeechRooms` have safety properties only.

### 3.5 Mutants

Every property of a passing run has a mutant in the module: an operator defined just
before the definition it changes, in the way a plausible slip would (a dropped reset, a
guard left out, the shift in the wrong direction, the flag not looked at). `PROJECT.json`
says which property finds it.

## 4. Proofs

### 4.1 The ring (`ViewerQueueProofs`)

Assumptions: the ring has at least two slots, a tag at least one unit, `NULL` is no tag.

`Good(q)` is the inductive invariant: the types, `IndicesCoherent`, `SlotsMatch` and
`OnlyHeadSent`. None of them is inductive alone: a pop keeps `SlotsMatch` only because an
empty queue has `front = rear`, a drop keeps `OnlyHeadSent` only because the deleted slot is
occupied, and the types need that `front` and `rear` leave their initial value together. One
lemma per C function says that it keeps `Good`; `viewer_queue_delete` is covered for a full
ring, the only state in which the code calls it. That `drop_frame`'s choice exists is the
least-number principle (`LeastNat`).

`RingImplementsFifo` proves `Spec => FifoSpec`: `From(f, k)` gives the k-th slot from `f`
without the remainder, and one lemma per operation says what it does to `Contents`
(`ContentsPop`: the tail; `ContentsPush`: an append; `ContentsDrop`: `Without` at a `Victim`;
`ContentsSend`: the head's counter; `ContentsClear`: the empty list).

### 4.2 The hand-off (`CameraHandOffProofs`)

Assumptions: at least one worker, finitely many channels, a natural limit, `NULL` is neither
a camera nor a message. The sets of cameras and channels are arbitrary otherwise.

The argument is *who owns a camera*: the main thread until it posts, then the message, then
the callback, last the started watcher. `Inv` has one part for each owner (`MainOwns`,
`MainPosts`, `PoolOwns`, `DataOwns`, `WorkerOwns`, `WatcherOwns`). `ChannelOnOneWorker` is
inductive only with `MainOwns`, which says that the answer of `camera_already_in` is still
valid at the insertion, since workers erase but never insert. `HandlerFindsChannel` needs
`DataOwns`: the channel of a waiting message cannot be erased, as its watcher is not started
and only the callback of that message erases otherwise.

`OrderInv` adds, for a worker without an overlap, that flag, callback and data field follow one
message at a time once the worker has started (`Orderly`), and that no channel is stranded but those
in `early`; `LossHasACause` and `FreedReadNeedsOverlap` follow. Of a worker that
has not started, `Orderly` says that it has no callback, and that a message behind a set flag is of an
early channel: that flag is what `workthread_entry` clears. `CountInv` says that the answer of the check of the limit stays
valid until the insertion; with the cardinality of finite sets `LimitPlusOne` follows.

### 4.3 The programs on UDP (`DatagramProofs`)

The module extends `Rudp` (whose `RudpInit`, `RudpNext` and `RudpSpec` are named apart for this) and
`SpeechRooms`, and instantiates `SpeechSignal` as `Signal`; the three share no variable.

*rudp.* `CallReturnsItsAnswer` is not inductive: that an error of `recvmsg` never ends a call
needs that the last datagram received is of an earlier call until the answer comes
(`AnswerKnown`), which needs that sequence numbers only grow and that the network holds none that
was not given out (`SequencesGrow`). `JumpReady` ties the jump buffer to the place in the call:
the receive loop runs only after this call's `sigsetjmp`, and without one the call is at its
first transmission. `OwnAnswer` and `JumpSafe` follow, with no assumption on the constants.
`NoCallHangs` is what a call's end rests on: from `alarm()` to the return an alarm is set
(`AlarmSet`; `alarm(0)` would be none, hence the assumption `RTT_RXTMIN > 0`, which is 2 in
rtt.h:14), and each alarm counts one transmission, of which there are at most
`RTT_MAXNREXMT + 1` (`RetriesCounted`).

*Rooms.* Assumptions: finitely many cameras and PCs, which are apart; channels and time stamps
are numbers. `PcInOneRoom` is proved as `OneRoomEach` together with the types; what it rests on
is that `client_already_in` looks through all rooms (`FirstRoomExists`), and that a room is created
with its camera alone. `EveryPacketOut` is the one about the mix, for the pools with the new packet. The rank of a packet is the
number of packets of its speaker up to its time stamp. Ranks are an injection of a pool into
`1 .. Cardinality(pool)` (`Ranks`), hence onto it (`RankTaken`), so round k finds a packet for
everybody who has k of them (`RoundTakesPacket`), each packet has its round (`PacketOfRank`), and the
rounds go up to the fullest pool. This replaces an induction over the rounds, which the provers
cannot do.

*Signalling.* `SignallingIsTrue`: with either event loop `handle_udp_msg` is called only for a
datagram that is there (its `recvfrom` would block the only thread), and whoever believes to be in
the channel is in it: a reply that is still in the camera's socket is the case that a
check of the camera's state alone would miss.

### 4.4 Tag delivery (`TagDeliveryProofs`)

Assumptions: those on the ring, natural bounds on tags and headers; any set of viewers. All
seven safety properties of `TagDelivery` that hold are proved, `KeyFrameGivenUpLast` as an
action property. The module instantiates `ViewerQueueProofs` for its queues: what a push, a pop,
a drop and a partial write do to the *list* of a queue is known from there, and the ring does
not appear again.

`IInv` says for each viewer (`ViewerInv`) how its flags, its queue and what it got hang together:

- `WatcherState`: a non-empty queue has a started watcher, and before `ev_io_init` the queue is
  empty. Without the second half `NoLostWakeup` is not inductive: the first tag would
  initialise, and so stop, the watcher of a queue with tags in it.
- `HeaderState`, `FlvState`: while `send_first` is set no frame was sent; without it the FLV header
  is done. With the offset 0 the FLV header was sent whole or not at all. A camera's headers
  never reset the offset of the FLV header, and other viewers' writes only make it grow.
- `KeyState`: until `send_key_frame_first` is reset, everything sent of frames is of key frames. This
  is the case that is easy to miss: a key frame is begun, the flag still set, then `drop_frame`
  takes that key frame away.
- `QueueState`: the list is in the camera's order, only its head is partly sent, and what was sent is
  behind the head or is its first part, up to exactly `sent_bytes` (`WireBehindList`). That the
  last unit sent of the head is there is what makes the next one follow without a gap.

One lemma for each thing that happens to a viewer (`NewViewer`, `QueueTagStep`, `HeadersStep`,
`SendHeadStep`) keeps `ViewerInv`, one per action keeps `IInv`. `Shares` and `RoomLeft` are the
arithmetic of the room; `FramesAdded` is the order of frames. For `KeyFrameIsGivenUpLast`,
`TagTakesHead` goes through the position that `drop_frame` deletes and `AttemptTakesHead` shows that
`send_tags_cb` takes the head away only together with a unit sent.

### 4.5 Reception (`CameraReceiveProofs`)

Assumptions: the headers have at least a byte, tags at least a byte of data. One part of `IInv` per
stage relates the byte counter of the stage to the position in the stream and says what is in its
buffer (`InFlvHeader`, `InTagHeader`, `InTagData`), and that the other counters are reset: a counter
that kept its value would shift every later tag. `TagsCutRight`, `BlockedOnlyAfterHeader` and the
types, which have the allocation of the buffers in them, follow.

`NoTagLeftBehind` is the safety half of `WholeTagsReceived`: when the worker rests (`AtRest`: it
waits, spins, or has deleted the camera), every tag that was sent to its last byte is a packet,
unless the connection was reset. What was read never reaches the end of the tag being read
(`ReadIsLess`), a failed read wants no byte beyond it (`FailedRead`, `GoneIsRead`), and boundaries
ascend (`Ascending`, by a least counterexample). TLC confirms that `AtRest` is exactly
`~ENABLED WorkerStep` on the instance of `camera_bytes`.

### 4.6 Sockets (`SocketTableProofs`)

Assumptions: finitely many descriptors, which are numbers; the ports of clients and of the state
server are apart. The argument is who owns a *number*. `Owned` says, until the first double close,
that each table entry through which a thread may still use or close a number means the
connection it was made for (`Valid`), and that no number is in two of them (`Apart`). `Homes`
holds even afterwards: a connection is accepted once and has one number, so an entry that is
stale cannot name it under another. `Phases` ties the worker's place in `delete_camera` to the
state of the channel. `Explained` gives each open connection an owner or a recorded cause, through
the loops that close before they erase (`ErasedClosed`, `LoopSettled`, `CameraSettled`). `Counted`:
the check of the limit is still valid at the insertion, since only the main thread inserts.

### 4.7 Status notification (`StatusNotifyProofs`)

Assumptions: `NULL` is no message, no channel is called "main". `ToldOnce` needs the life of a
message: it is made in its session and once (`Made`), written once (`WrittenOnce`), read once since
the callback clears the field before the next can run (`ReadOnce`), and sent once to each server
(`SentOnce`). `NotLost`: whoever writes without an overlap is alone with the field until it has
sent (`Alone`), so the callback that follows reads that message. `RestMeansTold` is the safety half
of `AllTold`: what the callback has read is, for each server, told, on an open connection, or
still to be connected (`Due`), so when the notify thread is at rest and no connection failed, every
server has every status that was posted without an overlap.

### 4.8 Relay (`BackingRelayProofs`)

Assumptions: chunks and requests are not empty, each relay has a channel and a length of its
request. `Counter` is the heart: the
static counter is the progress of the last sender, and what a viewer got and the rest of its chunk
are what was read, for every relay whose chunk was not replaced and as long as no relay began while
another was in the middle. `Chunks`, `Asked` and `Entries` say which relays have a chunk, a state
and an entry at all; `Found`, that an open socket is in the pool unless the resource was erased
under it. `Requests` is the same as `Counter` for `send_backing_resource_cb`: unless it was mixed up, the
counter is the progress of the relay that moved it, less than the length of *its* request, and
every relay that is not done has sent that much of its request. `UndefinedExplained` follows from
`Counter`, `Found` and `Requests`.

### 4.9 What is only model-checked

All invariants and action properties of the runs are proved, except those of the run that
expects a violation. Liveness is not: fairness and `ENABLED` are out of the prover's reach. For
each liveness property, what remains after its safety half is only that enabled steps happen:

| liveness, checked by TLC | safety half, proved |
|---|---|
| `TagsLeaveQueue` | `NoWakeupIsLost`: tags never wait behind a stopped watcher |
| `WholeTagsReceived` | `NoTagLeftBehind` |
| `AllTold` | `RestMeansTold` |
| `CallEnds` | `NoCallHangs` |
| `EveryDatagramRead` | `SignallingIsTrue`: an event has its datagram |
| `JoinTakesEffect` | `SignallingIsTrue`: a PC that stops asking is a member |

Each inductive invariant was checked with TLC on the configurations of its component before it
was proved.

## 5. Abstractions that a reader should know

- One access to a `std::map` is atomic. The code has data races inside the maps (main thread
  inserts, workers erase and iterate); their outcomes are not describable in this state.
- A stall of a camera is modelled for the channel it belongs to. On the real worker the other
  channels wait too, which the fairness of `TagDelivery` covers: it is strong.
- `JoinViewer` of `TagDelivery` is one step. The main thread's look-up of the channel and its
  insertion are apart in the code; `SocketTable` has them apart.
- `SocketTable` gives each channel a worker of its own. Two channels on one worker have fewer
  interleavings, not others.
- A use of a deleted object ends a behaviour (`undefined`): nothing is claimed about what follows.
- Speech is not decoded, encrypted or mixed sample by sample; 300 ms have passed or not.
- Channel names, HTTP texts, log lines, time stamps and the content of tags are left out,
  except that a tag is a key frame or not.
- Memory exhaustion (`new` throwing) is not modelled.

## 6. Not modelled, and the plan

Next, in this order:

1. A composition of `CameraReceive` with `TagDelivery`, so that `Stall` is derived and not an
   action of its own.
2. Candidates outside: the handshake of `xtrartmp` (progress in statics, as in the relay); `tulip2p`
   (QUIT leaves the resources of the one that quits, tulip2pserver.cpp:363; the 404 of TRANSFER is
   never sent, :343-345; a repeated PING is answered without Nat-Address, :238; the default event
   loop does not call the handler yet, :118); the playlists of `fileLiveServer`.

Not planned: the figures that the state server reports, start-up and configuration, HTTP
parsing, logging and JSON, media parsers and muxers, Lua pages, load generator, skeletons, the
mixing routines of `speech-transfer` that nothing calls, and `src/study` and `src/tools`: the
former is by far the largest part of the repository and consists of exercises and of copies of
other projects (pulseaudio alone is most of it), whose logic is not this repository's own.
`PROJECT.json` gives the reason for each.

## 7. Running it

    tlc -workers 2 -config ViewerQueueImpl.cfg ViewerQueueImpl
    tlapm ViewerQueueProofs.tla

and likewise for the other pairs in `PROJECT.json`.
