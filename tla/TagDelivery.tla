----------------------------- MODULE TagDelivery -----------------------------
(***************************************************************************)
(* One channel of the streamer on its worker thread: the camera's tags go  *)
(* into the queue of every viewer (the end of receive_stream_cb), and each *)
(* viewer's watcher sends it the HTTP response, the stream's header tags   *)
(* and then its queue (send_tags_cb).  Both are callbacks of one event     *)
(* loop and run to their end, so each is one step; what interleaves is the *)
(* order of the callbacks and how many units a socket takes in each.  The  *)
(* exception is a camera that pauses after a tag's header: its callback    *)
(* spins (stalled; see CameraReceive), and no other callback of the worker *)
(* runs until the camera goes on or goes away.                             *)
(*                                                                         *)
(* A header or a tag is Size units long; a unit is what a socket may take  *)
(* on its own.  wire is a history variable: the units that each connected  *)
(* viewer got.                                                             *)
(* Not here: the EV_ERROR branch of send_tags_cb.  libev reports EV_ERROR  *)
(* on a watcher that it has stopped, and the callback returns at once for  *)
(* one that is not active.                                                 *)
(***************************************************************************)
EXTENDS ViewerQueue, Sequences

CONSTANTS Viewer,      \* the connections that may ask for the channel
          Size,        \* units in a header or a tag
          MaxTags,     \* bound: frames a camera sends before it goes away
          MaxHeaders   \* bound: script and sequence headers it sends

ASSUME SizeAssumption == Size \in Nat /\ Size > 0
ASSUME NullAssumption ==
  NULL \notin [payload : 1 .. MaxTags, is_key_frame : BOOLEAN, sent_bytes : 0 .. Size - 1]
ASSUME BoundsAssumption == MaxTags \in Nat /\ MaxHeaders \in Nat

VARIABLES camera_online,      \* the channel is in camera_info_pool
          tags,               \* number of frames received so far
          generation,         \* how often each header was received
          header_sent_bytes,  \* the channel's *_sent_bytes, one per header
          viewer_info_pool,   \* the channel's map from viewer to VIEWER_INFO
          stalled,            \* read_specify_size spins in the middle of a tag
          wire                \* history: the units every viewer received

vars == <<camera_online, tags, generation, header_sent_bytes,
          viewer_info_pool, stalled, wire>>

Header == {"flv", "script", "avc", "aac"}

Frame(n, key) == [payload |-> n, is_key_frame |-> key, sent_bytes |-> 0]

Kind(flv_tag) == IF flv_tag.is_key_frame THEN "key" ELSE "inter"

(* Units from + 1 .. to of the item `kind' number n, as they leave.        *)
Units(kind, n, from, to) == [i \in 1 .. to - from |-> <<kind, n, from + i>>]

-----------------------------------------------------------------------------
new_cameras ==
  /\ camera_online' = TRUE
  /\ tags' = 0
  /\ generation' = [h \in Header |-> IF h = "flv" THEN 1 ELSE 0]
  /\ header_sent_bytes' = [h \in Header |-> 0]
  /\ viewer_info_pool' = << >>
  /\ stalled' = FALSE

new_viewer_info ==
  [send_first                     |-> TRUE,
   register_viewer_callback_first |-> TRUE,
   send_key_frame_first           |-> TRUE,
   not_sent_http_response_done    |-> TRUE,
   not_sent_done                  |-> [h \in Header |-> TRUE],
   active                         |-> FALSE,
   viewer_queue                   |-> new_viewer_queue]

Init ==
  /\ camera_online = FALSE
  /\ tags = 0
  /\ generation = [h \in Header |-> 0]
  /\ header_sent_bytes = [h \in Header |-> 0]
  /\ viewer_info_pool = << >>
  /\ stalled = FALSE
  /\ wire = [v \in Viewer |-> << >>]

StartCamera ==
  /\ ~camera_online
  /\ new_cameras
  /\ UNCHANGED wire

JoinViewer(v) ==
  /\ camera_online
  /\ v \notin DOMAIN viewer_info_pool
  /\ viewer_info_pool' =
       [u \in DOMAIN viewer_info_pool \cup {v} |->
          IF u = v THEN new_viewer_info ELSE viewer_info_pool[u]]
  /\ UNCHANGED <<camera_online, tags, generation, header_sent_bytes, stalled, wire>>

(* delete_camera closes every viewer and forgets the channel.              *)
delete_camera ==
  /\ camera_online
  /\ camera_online' = FALSE
  /\ tags' = 0
  /\ generation' = [h \in Header |-> 0]
  /\ header_sent_bytes' = [h \in Header |-> 0]
  /\ viewer_info_pool' = << >>
  /\ stalled' = FALSE
  /\ wire' = [v \in Viewer |-> << >>]

-----------------------------------------------------------------------------
MoreTags == tags < MaxTags
MoreHeaders == generation["script"] + generation["avc"] + generation["aac"] < MaxHeaders

(* The header of a tag has arrived, and none of its data.                  *)
Stall ==
  /\ camera_online /\ ~stalled /\ (MoreTags \/ MoreHeaders)
  /\ stalled' = TRUE
  /\ UNCHANGED <<camera_online, tags, generation, header_sent_bytes,
                 viewer_info_pool, wire>>

(* A script tag or a sequence header replaces the saved one.               *)
ReceiveHeader(h) ==
  /\ camera_online /\ h # "flv" /\ MoreHeaders
  /\ generation' = [generation EXCEPT ![h] = @ + 1]
  /\ header_sent_bytes' = [header_sent_bytes EXCEPT ![h] = 0]
  /\ stalled' = FALSE
  /\ UNCHANGED <<camera_online, tags, viewer_info_pool, wire>>

(* Mutant of QueueTag: only the first tag starts the watcher.              *)
QueueTag_start_once(info, flv_tag) ==
  LET q == info.viewer_queue
  IN  [info EXCEPT
        !.register_viewer_callback_first = FALSE,
        !.active = @ \/ info.register_viewer_callback_first,
        !.viewer_queue =
          viewer_queue_push(IF viewer_queue_full(q) THEN drop_frame(q) ELSE q,
                            flv_tag)]

(* What the loop over the viewers does to one of them: ev_io_init for the  *)
(* first tag it gets, room in a full queue, the push, and ev_io_start if   *)
(* the queue was empty.                                                    *)
QueueTag(info, flv_tag) ==
  LET q == info.viewer_queue
  IN  [info EXCEPT
        !.register_viewer_callback_first = FALSE,
        !.active = viewer_queue_empty(q)
                   \/ (@ /\ ~info.register_viewer_callback_first),
        !.viewer_queue =
          viewer_queue_push(IF viewer_queue_full(q) THEN drop_frame(q) ELSE q,
                            flv_tag)]

ReceiveTag(key) ==
  /\ camera_online /\ MoreTags
  /\ tags' = tags + 1
  /\ stalled' = FALSE
  /\ viewer_info_pool' =
       [v \in DOMAIN viewer_info_pool |->
          QueueTag(viewer_info_pool[v], Frame(tags + 1, key))]
  /\ UNCHANGED <<camera_online, generation, header_sent_bytes, wire>>

-----------------------------------------------------------------------------
(* Mutant of PendingHeaders: send_first is not looked at.                  *)
PendingHeaders_always(info) ==
  {h \in Header : generation[h] > 0 /\ info.not_sent_done[h]}

(* The headers that send_tags_cb still has to send.                        *)
PendingHeaders(info) ==
  {h \in Header : info.send_first /\ generation[h] > 0 /\ info.not_sent_done[h]}

(* Mutant of RemainingBytes: what was sent before is not subtracted.       *)
RemainingBytes_all(h) == Size

RemainingBytes(h) == Size - header_sent_bytes[h]

(* Units of h that wait to be sent, hs being the pending headers ...       *)
Need(hs, h) == IF h \in hs THEN RemainingBytes(h) ELSE 0

(* ... and of those that send_tags_cb looks at before h.                   *)
Before(hs, h) ==
  CASE h = "flv"    -> 0
    [] h = "script" -> Need(hs, "flv")
    [] h = "avc"    -> Need(hs, "flv") + Need(hs, "script")
    [] h = "aac"    -> Need(hs, "flv") + Need(hs, "script") + Need(hs, "avc")

AllOf(hs) == Before(hs, "aac") + Need(hs, "aac")

(* The headers that a socket with room for b units takes to their end.     *)
Done(hs, b) == {h \in hs : Before(hs, h) + Need(hs, h) <= b}

(* The units of h that it takes: the first header that does not fit goes   *)
(* out in part, and none after it.                                         *)
Share(hs, b, h) ==
  IF h \in Done(hs, b) THEN Need(hs, h)
  ELSE IF h \in hs /\ Before(hs, h) < b THEN b - Before(hs, h)
  ELSE 0

(* Each goes out from the channel's offset on.                             *)
HeaderPart(hs, b, h) ==
  Units(h, generation[h], header_sent_bytes[h], header_sent_bytes[h] + Share(hs, b, h))

HeaderUnits(hs, b) ==
  HeaderPart(hs, b, "flv") \o HeaderPart(hs, b, "script")
    \o HeaderPart(hs, b, "avc") \o HeaderPart(hs, b, "aac")

HttpUnits(info) ==
  IF info.send_first /\ info.not_sent_http_response_done
  THEN << <<"http", 0, Size>> >> ELSE << >>

(* The response and the headers hs are sent.                               *)
HeadersSent(info, hs) ==
  [info EXCEPT !.not_sent_http_response_done = FALSE,
               !.not_sent_done = [h \in Header |-> @[h] /\ h \notin hs]]

(* ... and no header is left.                                              *)
AllSent(info, hs) == [HeadersSent(info, hs) EXCEPT !.send_first = FALSE]

(* Mutant of SendHeadersPart: the channel's offset is not moved.           *)
SendHeadersPart_no_offset(v, b) ==
  LET info == viewer_info_pool[v]
      hs   == PendingHeaders(info)
  IN  /\ Done(hs, b) # hs
      /\ viewer_info_pool' =
           [viewer_info_pool EXCEPT ![v] = HeadersSent(info, Done(hs, b))]
      /\ wire' = [wire EXCEPT ![v] = @ \o HttpUnits(info) \o HeaderUnits(hs, b)]
      /\ UNCHANGED header_sent_bytes

(* A header that goes out in part moves the offset of the channel; one     *)
(* that goes out to its end leaves that offset where it was.               *)
SendHeadersPart(v, b) ==
  LET info == viewer_info_pool[v]
      hs   == PendingHeaders(info)
  IN  /\ Done(hs, b) # hs
      /\ header_sent_bytes' =
           [h \in Header |-> IF h \in Done(hs, b) THEN header_sent_bytes[h]
                             ELSE header_sent_bytes[h] + Share(hs, b, h)]
      /\ viewer_info_pool' =
           [viewer_info_pool EXCEPT ![v] = HeadersSent(info, Done(hs, b))]
      /\ wire' = [wire EXCEPT ![v] = @ \o HttpUnits(info) \o HeaderUnits(hs, b)]

(* Mutants of SendHead: skipping a frame counts as the first frame sent;   *)
(* the units that went out are not recorded.                               *)
SendHead_skip_counts(info, r) ==
  LET q    == info.viewer_queue
      head == viewer_queue_top(q)
  IN  IF viewer_queue_empty(q) THEN [info EXCEPT !.active = FALSE]
      ELSE IF ~(info.send_key_frame_first /\ ~head.is_key_frame)
              /\ head.sent_bytes + r < Size
           THEN [info EXCEPT !.viewer_queue.flv_tags[q.front].sent_bytes = @ + r]
      ELSE [info EXCEPT !.viewer_queue = viewer_queue_pop(q),
                        !.send_key_frame_first = FALSE]

SendHead_forgets_part(info, r) ==
  LET q    == info.viewer_queue
      head == viewer_queue_top(q)
  IN  IF viewer_queue_empty(q) THEN [info EXCEPT !.active = FALSE]
      ELSE IF info.send_key_frame_first /\ ~head.is_key_frame
           THEN [info EXCEPT !.viewer_queue = viewer_queue_pop(q)]
      ELSE IF r < Size THEN info
      ELSE [info EXCEPT !.viewer_queue = viewer_queue_pop(q),
                        !.send_key_frame_first = FALSE]

(* The one attempt at the head of the queue, with r units of room.         *)
SendHead(info, r) ==
  LET q    == info.viewer_queue
      head == viewer_queue_top(q)
  IN  IF viewer_queue_empty(q) THEN [info EXCEPT !.active = FALSE]
      ELSE IF info.send_key_frame_first /\ ~head.is_key_frame
           THEN [info EXCEPT !.viewer_queue = viewer_queue_pop(q)]
      ELSE IF head.sent_bytes + r < Size
           THEN [info EXCEPT !.viewer_queue.flv_tags[q.front].sent_bytes = @ + r]
      ELSE [info EXCEPT !.viewer_queue = viewer_queue_pop(q),
                        !.send_key_frame_first = FALSE]

SendHeadUnits(info, r) ==
  LET q    == info.viewer_queue
      head == viewer_queue_top(q)
      skip == viewer_queue_empty(q)
              \/ (info.send_key_frame_first /\ ~head.is_key_frame)
  IN  IF skip THEN << >>
      ELSE Units(Kind(head), head.payload, head.sent_bytes,
                 IF head.sent_bytes + r < Size THEN head.sent_bytes + r ELSE Size)

(* All pending headers fit; what is left of the room goes to the queue.    *)
SendHeadersAndTag(v, b) ==
  LET info == viewer_info_pool[v]
      hs   == PendingHeaders(info)
      sent == AllSent(info, hs)
      r    == b - AllOf(hs)
  IN  /\ Done(hs, b) = hs
      /\ viewer_info_pool' = [viewer_info_pool EXCEPT ![v] = SendHead(sent, r)]
      /\ wire' = [wire EXCEPT ![v] = @ \o HttpUnits(info) \o HeaderUnits(hs, b)
                                       \o SendHeadUnits(sent, r)]
      /\ UNCHANGED header_sent_bytes

(* send_tags_cb for v, whose socket takes b units during the call.         *)
send_tags_cb(v, b) ==
  /\ ~stalled /\ v \in DOMAIN viewer_info_pool /\ viewer_info_pool[v].active
  /\ SendHeadersPart(v, b) \/ SendHeadersAndTag(v, b)
  /\ UNCHANGED <<camera_online, tags, generation, stalled>>

(* send_tags_cb writes something and the write fails: delete_viewer.       *)
delete_viewer(v) ==
  /\ ~stalled /\ v \in DOMAIN viewer_info_pool /\ viewer_info_pool[v].active
  /\ LET info == viewer_info_pool[v]
     IN  \/ info.send_first
         \/ /\ ~viewer_queue_empty(info.viewer_queue)
            /\ \/ ~info.send_key_frame_first
               \/ viewer_queue_top(info.viewer_queue).is_key_frame
  /\ viewer_info_pool' =
       [u \in DOMAIN viewer_info_pool \ {v} |-> viewer_info_pool[u]]
  /\ wire' = [wire EXCEPT ![v] = << >>]
  /\ UNCHANGED <<camera_online, tags, generation, header_sent_bytes, stalled>>

(* Room for every header and a tag: a larger room changes nothing.         *)
MaxRoom == 5 * Size

Next ==
  \/ StartCamera
  \/ delete_camera
  \/ Stall
  \/ \E h \in Header : ReceiveHeader(h)
  \/ \E key \in BOOLEAN : ReceiveTag(key)
  \/ \E v \in Viewer :
       \/ JoinViewer(v)
       \/ delete_viewer(v)
       \/ \E b \in 0 .. MaxRoom : send_tags_cb(v, b)

Spec == Init /\ [][Next]_vars

(* What the camera does after it stalled: it goes on, or its connection    *)
(* ends.                                                                   *)
GoOn ==
  /\ stalled
  /\ \/ \E h \in Header : ReceiveHeader(h)
     \/ \E key \in BOOLEAN : ReceiveTag(key)
     \/ delete_camera

(* The loop calls send_tags_cb of an active watcher again and again while  *)
(* its socket is writable, and a viewer that keeps reading makes room for  *)
(* a unit, however often the camera's callbacks come between (SF: a stall  *)
(* takes the loop away).  Of the camera only this is assumed: a tag that   *)
(* it began goes on, or the connection ends.                               *)
Fairness ==
  /\ \A v \in Viewer : SF_vars(\E b \in 1 .. MaxRoom : send_tags_cb(v, b))
  /\ WF_vars(GoOn)

FairSpec == Spec /\ Fairness

-----------------------------------------------------------------------------
FrameType == [payload : 1 .. MaxTags, is_key_frame : BOOLEAN, sent_bytes : 0 .. Size - 1]

InfoType ==
  [send_first                     : BOOLEAN,
   register_viewer_callback_first : BOOLEAN,
   send_key_frame_first           : BOOLEAN,
   not_sent_http_response_done    : BOOLEAN,
   not_sent_done                  : [Header -> BOOLEAN],
   active                         : BOOLEAN,
   viewer_queue                   : [flv_tags : [Slot -> FrameType \cup {NULL}],
                                     front    : 0 .. CACHED_TAGS_LIMIT,
                                     rear     : 0 .. CACHED_TAGS_LIMIT,
                                     empty    : BOOLEAN]]

Unit == (Header \cup {"http", "key", "inter"}) \X Nat \X (1 .. Size)

(* The fields hold what the structs of the streamer declare; in particular *)
(* an offset into a header stays below its length, so that the size_t      *)
(* total_bytes of send_tags_cb neither wraps around nor is zero.           *)
TypeOK ==
  /\ camera_online \in BOOLEAN /\ stalled \in BOOLEAN
  /\ tags \in 0 .. MaxTags
  /\ generation \in [Header -> 0 .. MaxHeaders + 1]
  /\ header_sent_bytes \in [Header -> 0 .. Size - 1]
  /\ DOMAIN viewer_info_pool \subseteq Viewer
  /\ \A v \in DOMAIN viewer_info_pool : viewer_info_pool[v] \in InfoType
  /\ wire \in [Viewer -> Seq(Unit)]

IsFrame(u) == u[1] \in {"key", "inter"}

(* receive_stream_cb starts a viewer's watcher only when it pushes onto an *)
(* empty queue, and send_tags_cb stops it only when it finds the queue     *)
(* empty.  No order of the two leaves tags in the queue of a viewer whose  *)
(* watcher is stopped: nothing would ever start it again.                  *)
NoLostWakeup ==
  \A v \in DOMAIN viewer_info_pool :
    ~viewer_queue_empty(viewer_info_pool[v].viewer_queue)
      => viewer_info_pool[v].active

(* "You must send the key frame to viewer the first time": the first frame *)
(* of which a viewer gets any unit is a key frame, also when drop_frame    *)
(* took away the key frame it was waiting for, or one it had begun.        *)
FirstFrameIsKey ==
  \A v \in Viewer : \A i \in 1 .. Len(wire[v]) :
    IsFrame(wire[v][i]) /\ (\A j \in 1 .. i - 1 : ~IsFrame(wire[v][j]))
      => wire[v][i][1] = "key"

(* Frames reach a viewer in the order in which the camera sent them, none  *)
(* twice, and the units of a frame in order with none left out from its    *)
(* start on: through drops from the middle of the ring, partial writes and *)
(* the wrap of the ring.  (A frame may stop short: see                     *)
(* KeyFrameGivenUpLast.)                                                   *)
FramesInOrder ==
  \A v \in Viewer : \A i \in 1 .. Len(wire[v]) :
    LET u == wire[v][i]
    IN  IsFrame(u) =>
          /\ \A j \in 1 .. i - 1 : IsFrame(wire[v][j]) =>
               \/ wire[v][j][2] < u[2]
               \/ wire[v][j][2] = u[2] /\ wire[v][j][3] < u[3]
          /\ u[3] > 1 => \E j \in 1 .. i - 1 : wire[v][j] = <<u[1], u[2], u[3] - 1>>

(* A viewer that gets frames has got the end of the FLV header before the  *)
(* first of them, and no header tag after it: a header sent in part, or    *)
(* one that the camera repeats, never ends up between two frames.          *)
HeadersBeforeFrames ==
  \A v \in Viewer : \A i \in 1 .. Len(wire[v]) :
    IsFrame(wire[v][i]) =>
      /\ \E j \in 1 .. i - 1 : wire[v][j][1] = "flv" /\ wire[v][j][3] = Size
      /\ \A j \in i + 1 .. Len(wire[v]) : IsFrame(wire[v][j])

(* The units of h in w are the whole of it, in one piece and once.         *)
Whole(w, h) ==
  \E k \in 0 .. Len(w) - Size : \A i \in 1 .. Len(w) :
    IF i \in k + 1 .. k + Size THEN w[i] = <<h, 1, i - k>> ELSE w[i][1] # h

(* As long as no viewer of the channel has taken the FLV header in part,   *)
(* every viewer past that header got all of it, once.                      *)
FlvHeaderWhole ==
  header_sent_bytes["flv"] = 0 =>
    \A v \in DOMAIN viewer_info_pool :
      ~viewer_info_pool[v].not_sent_done["flv"] => Whole(wire[v], "flv")

(* "Drop the none-key frame first": a key frame of which a viewer already  *)
(* has some units is given up only by the camera's next frame, and only    *)
(* when the queue is full of key frames.                                   *)
KeyFrameGivenUpLast ==
  [][\A v \in DOMAIN viewer_info_pool \cap DOMAIN viewer_info_pool' :
       LET q    == viewer_info_pool[v].viewer_queue
           head == viewer_queue_top(q)
           next == viewer_info_pool'[v].viewer_queue
       IN  /\ ~viewer_queue_empty(q) /\ head.is_key_frame /\ head.sent_bytes > 0
           /\ \A i \in Occupied(next) : next.flv_tags[i].payload # head.payload
           /\ wire'[v] = wire[v]
           => viewer_queue_full(q) /\ NonKeySlots(q) = {}]_vars

(* Every tag in the queue of a viewer leaves it: it is sent, dropped, or   *)
(* the viewer goes.  No callback order starves a viewer that keeps reading.*)
Queued(v, n) ==
  /\ v \in DOMAIN viewer_info_pool
  /\ \E i \in Occupied(viewer_info_pool[v].viewer_queue) :
       viewer_info_pool[v].viewer_queue.flv_tags[i].payload = n
TagsLeaveQueue ==
  \A v \in Viewer, n \in 1 .. MaxTags : Queued(v, n) ~> ~Queued(v, n)

UnitsOf(v, h) == SelectSeq(wire[v], LAMBDA u : u[1] = h)

(* "send_first indicates send the flv header,avc tag,aac tag,script tag    *)
(* for once": a viewer that is past them got each of them whole and once.  *)
HeadersWhole ==
  \A v \in DOMAIN viewer_info_pool : \A h \in Header :
    ~viewer_info_pool[v].not_sent_done[h] =>
      \E g \in 1 .. MaxHeaders + 1 : UnitsOf(v, h) = Units(h, g, 0, Size)
=============================================================================
