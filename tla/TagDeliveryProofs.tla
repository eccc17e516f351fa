-------------------------- MODULE TagDeliveryProofs --------------------------
(***************************************************************************)
(* What a viewer of a channel gets, for every number of viewers, length of *)
(* the ring, size of a tag and number of tags: the HTTP response and the   *)
(* headers first, then frames in order from a key frame on, and no tag is  *)
(* left in a queue whose watcher is stopped.                               *)
(***************************************************************************)
EXTENDS TagDelivery, SequenceTheorems, TLAPS

(* The lemmas about the ring's operators.  They are about any queue; the   *)
(* one of ViewerQueueImpl plays no part here.                              *)
Ring == INSTANCE ViewerQueueProofs
          WITH Payload <- 1 .. MaxTags, DataSize <- Size, viewer_queue <- new_viewer_queue

NoFrame(w) == \A i \in 1 .. Len(w) : ~IsFrame(w[i])

(* The last unit of the FLV header is in w.                                *)
FlvEnd(w) == \E j \in 1 .. Len(w) : w[j][1] = "flv" /\ w[j][3] = Size

(* The properties of TagDelivery, for what one viewer got.                 *)
HeadersThenFrames(w) ==
  \A i \in 1 .. Len(w) : IsFrame(w[i]) =>
    /\ \E j \in 1 .. i - 1 : w[j][1] = "flv" /\ w[j][3] = Size
    /\ \A j \in i + 1 .. Len(w) : IsFrame(w[j])

KeyFirst(w) ==
  \A i \in 1 .. Len(w) :
    IsFrame(w[i]) /\ (\A j \in 1 .. i - 1 : ~IsFrame(w[j])) => w[i][1] = "key"

InOrder(w) ==
  \A i \in 1 .. Len(w) : IsFrame(w[i]) =>
    /\ \A j \in 1 .. i - 1 : IsFrame(w[j]) =>
         w[j][2] < w[i][2] \/ (w[j][2] = w[i][2] /\ w[j][3] < w[i][3])
    /\ w[i][3] > 1 => \E j \in 1 .. i - 1 : w[j] = <<w[i][1], w[i][2], w[i][3] - 1>>

-----------------------------------------------------------------------------
(* Frames are sent only when no header is pending any more.                *)
HeaderState(info, w) ==
  /\ info.send_first => NoFrame(w)
  /\ ~info.send_first => ~info.not_sent_done["flv"]
  /\ ~info.not_sent_done["flv"] => FlvEnd(w)
  /\ HeadersThenFrames(w)

(* While the offset is 0 the FLV header went out in one piece or not yet.  *)
FlvState(info, w, offset) ==
  offset = 0 => IF info.not_sent_done["flv"]
                THEN \A i \in 1 .. Len(w) : w[i][1] # "flv"
                ELSE Whole(w, "flv")

(* send_key_frame_first is reset by a frame that went out to its end.      *)
KeyState(info, w) ==
  /\ info.send_key_frame_first => \A i \in 1 .. Len(w) : IsFrame(w[i]) => w[i][1] = "key"
  /\ ~info.send_key_frame_first => ~NoFrame(w)
  /\ KeyFirst(w)

(* The queued tags c are in the camera's order, only the head has bytes    *)
(* that left ...                                                           *)
ListInOrder(c, n) ==
  /\ \A i \in 1 .. Len(c) : c[i].payload <= n
  /\ \A i, j \in 1 .. Len(c) : i < j => c[i].payload < c[j].payload
  /\ \A i \in 2 .. Len(c) : c[i].sent_bytes = 0

(* ... and what left is behind the head, or is its first part.             *)
Behind(u, head) == \/ u[2] < head.payload
                   \/ u[2] = head.payload /\ u[3] <= head.sent_bytes

WireBehindList(w, c, n) ==
  /\ \A i \in 1 .. Len(w) : IsFrame(w[i]) => w[i][2] <= n
  /\ Len(c) > 0 =>
       /\ \A i \in 1 .. Len(w) : IsFrame(w[i]) => Behind(w[i], c[1])
       /\ c[1].sent_bytes > 0 =>
            \E i \in 1 .. Len(w) : w[i] = <<Kind(c[1]), c[1].payload, c[1].sent_bytes>>

QueueState(info, w, n) ==
  /\ ListInOrder(Contents(info.viewer_queue), n)
  /\ WireBehindList(w, Contents(info.viewer_queue), n)
  /\ InOrder(w)

(* ev_io_init comes with the first tag, and before it the queue is empty.  *)
WatcherState(info) ==
  /\ info.register_viewer_callback_first => info.viewer_queue.empty
  /\ ~info.viewer_queue.empty => info.active

ViewerInv(info, w, n, offset) ==
  /\ Ring!Good(info.viewer_queue)
  /\ WatcherState(info) /\ HeaderState(info, w) /\ FlvState(info, w, offset)
  /\ KeyState(info, w) /\ QueueState(info, w, n)

IInv ==
  /\ TypeOK
  /\ camera_online => generation["flv"] = 1
  /\ ~camera_online => DOMAIN viewer_info_pool = {}
  /\ \A v \in DOMAIN viewer_info_pool :
       ViewerInv(viewer_info_pool[v], wire[v], tags, header_sent_bytes["flv"])
  /\ \A v \in Viewer \ DOMAIN viewer_info_pool : wire[v] = << >>

-----------------------------------------------------------------------------
(* What the lemmas about the ring assume holds here.                       *)
LEMMA RingAssumptions ==
  /\ CACHED_TAGS_LIMIT \in Nat /\ CACHED_TAGS_LIMIT > 1
  /\ Size \in Nat /\ Size > 0
  /\ NULL \notin [payload : 1 .. MaxTags, is_key_frame : BOOLEAN, sent_bytes : 0 .. Size - 1]
BY CachedTagsLimitAssumption, SizeAssumption, NullAssumption

(* The functions on the queue are those of the lemmas.                     *)
LEMMA SameQueue ==
  /\ new_viewer_queue = Ring!new_viewer_queue
  /\ \A q : /\ viewer_queue_full(q) = Ring!viewer_queue_full(q)
            /\ viewer_queue_pop(q) = Ring!viewer_queue_pop(q)
            /\ \A t : viewer_queue_push(q, t) = Ring!viewer_queue_push(q, t)
  /\ FrameType = Ring!Tag
BY DEF new_viewer_queue, Ring!new_viewer_queue, Slot, Ring!Slot,
       viewer_queue_full, Ring!viewer_queue_full, viewer_queue_empty, Ring!viewer_queue_empty,
       viewer_queue_pop, Ring!viewer_queue_pop, Succ, Ring!Succ,
       viewer_queue_push, Ring!viewer_queue_push, FrameType, Ring!Tag

(* So is drop_frame, ...                                                   *)
LEMMA SameDrop == \A q : drop_frame(q) = Ring!drop_frame(q)
BY Zenon
DEF drop_frame, Ring!drop_frame, viewer_queue_empty, Ring!viewer_queue_empty,
    viewer_queue_pop, Ring!viewer_queue_pop, viewer_queue_delete, Ring!viewer_queue_delete,
    NonKeySlots, Ring!NonKeySlots, Span, Ring!Span, Within, Ring!Within,
    Distance, Ring!Distance, Slot, Ring!Slot, Succ, Ring!Succ

(* ... and what is seen of a queue.                                        *)
LEMMA SameContents ==
  \A q : /\ Contents(q) = Ring!Contents(q)
         /\ Occupied(q) = Ring!Occupied(q)
         /\ NonKeySlots(q) = Ring!NonKeySlots(q)
BY Zenon
DEF Contents, Ring!Contents, QueueLen, Ring!QueueLen, Occupied, Ring!Occupied,
    NonKeySlots, Ring!NonKeySlots, Span, Ring!Span, Within, Ring!Within, Slot, Ring!Slot

(* What a good queue is, and what its list is.                             *)
LEMMA GoodQueue ==
  ASSUME NEW q, Ring!Good(q)
  PROVE  /\ q \in [flv_tags : [Slot -> FrameType \cup {NULL}],
                   front    : 0 .. CACHED_TAGS_LIMIT,
                   rear     : 0 .. CACHED_TAGS_LIMIT,
                   empty    : BOOLEAN]
         /\ Contents(q) \in Seq(FrameType)
         /\ Len(Contents(q)) = 0 <=> q.empty
         /\ ~q.empty => q.front \in Slot
<1>1. q \in Ring!QueueType
  BY DEF Ring!Good
<1>2. /\ q \in [flv_tags : [Slot -> FrameType \cup {NULL}],
                front : 0 .. CACHED_TAGS_LIMIT, rear : 0 .. CACHED_TAGS_LIMIT,
                empty : BOOLEAN]
  BY <1>1 DEF Ring!QueueType, Ring!Tag, FrameType, Ring!Slot, Slot
<1>3. /\ Ring!Contents(q) \in Seq(Ring!Tag)
      /\ Len(Ring!Contents(q)) = 0 <=> q.empty
  BY Ring!ContentsSeq, RingAssumptions
<1>4. ~q.empty => q.front \in Slot
  BY DEF Ring!Good, Ring!IndicesCoherent, Ring!Slot, Slot
<1> QED
  BY <1>2, <1>3, <1>4, SameQueue, SameContents

(* A new queue.                                                            *)
LEMMA NewQueue ==
  /\ Ring!Good(new_viewer_queue)
  /\ Contents(new_viewer_queue) = << >>
  /\ new_viewer_queue.empty
<1>1. Ring!Good(Ring!new_viewer_queue) /\ Ring!Contents(Ring!new_viewer_queue) = << >>
  BY Ring!GoodNew, Ring!ContentsNew, RingAssumptions
<1> QED
  BY <1>1, SameQueue, SameContents DEF new_viewer_queue

(* The head of the queue is the first of the list, and pop takes it away.  *)
LEMMA TopQueue ==
  ASSUME NEW q, Ring!Good(q), ~q.empty
  PROVE  /\ viewer_queue_top(q) = Contents(q)[1]
         /\ viewer_queue_top(q) \in FrameType
         /\ Len(Contents(q)) > 0
<1>1. /\ q.front \in Slot /\ Contents(q) \in Seq(FrameType) /\ Len(Contents(q)) # 0
  BY GoodQueue
<1>2. Len(Contents(q)) > 0
  BY <1>1
<1>3. Contents(q)[1] \in FrameType
  BY <1>1, <1>2
<1>4. QueueLen(q) \in Nat /\ QueueLen(q) > 0
  <2>1. q.front \in 0 .. CACHED_TAGS_LIMIT /\ q.rear \in 0 .. CACHED_TAGS_LIMIT
    BY GoodQueue
  <2> QED
    BY <1>1, <2>1, CachedTagsLimitAssumption DEF QueueLen, Slot
<1>5. (q.front + 1 - 1) % CACHED_TAGS_LIMIT = q.front
  BY <1>1, CachedTagsLimitAssumption DEF Slot
<1>6. Contents(q)[1] = q.flv_tags[q.front]
  BY <1>4, <1>5 DEF Contents
<1> QED
  BY <1>2, <1>3, <1>6 DEF viewer_queue_top

(* viewer_queue_pop is Tail on the list.                                   *)
LEMMA PopQueue ==
  ASSUME NEW q, Ring!Good(q), ~q.empty
  PROVE  /\ Ring!Good(viewer_queue_pop(q))
         /\ Contents(viewer_queue_pop(q)) = Tail(Contents(q))
<1>1. /\ Ring!Good(Ring!viewer_queue_pop(q))
      /\ Ring!Contents(Ring!viewer_queue_pop(q)) = Tail(Ring!Contents(q))
  BY Ring!GoodPop, Ring!ContentsPop, RingAssumptions
<1> QED
  BY <1>1, SameQueue, SameContents

(* drop_frame, on a full queue: one tag less, a key frame only if all are. *)
LEMMA DropQueue ==
  ASSUME NEW q, Ring!Good(q), viewer_queue_full(q)
  PROVE  /\ Ring!Good(drop_frame(q)) /\ ~viewer_queue_full(drop_frame(q))
         /\ \E k \in 1 .. Len(Contents(q)) :
              /\ Contents(drop_frame(q)) = Ring!Fifo!Without(Contents(q), k)
              /\ \/ ~Contents(q)[k].is_key_frame
                 \/ k = 1 /\ \A j \in 1 .. Len(Contents(q)) : Contents(q)[j].is_key_frame
<1>1. Ring!viewer_queue_full(q)
  BY SameQueue
<1>2. Ring!Good(Ring!drop_frame(q)) /\ ~Ring!viewer_queue_full(Ring!drop_frame(q))
  BY <1>1, Ring!GoodDrop, RingAssumptions
<1>3. \E k \in 1 .. Len(Ring!Contents(q)) :
        /\ Ring!Fifo!Victim(Ring!Contents(q), k)
        /\ Ring!Contents(Ring!drop_frame(q)) = Ring!Fifo!Without(Ring!Contents(q), k)
  BY <1>1, Ring!ContentsDrop, RingAssumptions
<1>4. \E k \in 1 .. Len(Contents(q)) :
        /\ Ring!Fifo!Victim(Contents(q), k)
        /\ Contents(drop_frame(q)) = Ring!Fifo!Without(Contents(q), k)
  BY <1>3, SameDrop, SameContents
<1>5. PICK k \in 1 .. Len(Contents(q)) :
        /\ Ring!Fifo!Victim(Contents(q), k)
        /\ Contents(drop_frame(q)) = Ring!Fifo!Without(Contents(q), k)
  BY <1>4
<1>6. \/ ~Contents(q)[k].is_key_frame
      \/ k = 1 /\ \A j \in 1 .. Len(Contents(q)) : Contents(q)[j].is_key_frame
  BY <1>5 DEF Ring!Fifo!Victim
<1> QED
  BY <1>2, <1>5, <1>6, SameQueue, SameDrop

(* The head's counter moves: also by nothing, when the socket is full.     *)
LEMMA PartQueue ==
  ASSUME NEW q, Ring!Good(q), ~q.empty, NEW r \in Nat,
         viewer_queue_top(q).sent_bytes + r < Size
  PROVE  /\ Ring!Good([q EXCEPT !.flv_tags[q.front].sent_bytes = @ + r])
         /\ Contents([q EXCEPT !.flv_tags[q.front].sent_bytes = @ + r])
              = [Contents(q) EXCEPT ![1].sent_bytes = @ + r]
<1> DEFINE p == [q EXCEPT !.flv_tags[q.front].sent_bytes = @ + r]
           t == viewer_queue_top(q)
<1>1. /\ q \in [flv_tags : [Slot -> FrameType \cup {NULL}],
                front : 0 .. CACHED_TAGS_LIMIT, rear : 0 .. CACHED_TAGS_LIMIT,
                empty : BOOLEAN]
      /\ q.front \in Slot /\ t \in FrameType /\ t = q.flv_tags[q.front]
      /\ Contents(q) \in Seq(FrameType) /\ Len(Contents(q)) > 0 /\ Contents(q)[1] = t
  BY GoodQueue, TopQueue DEF viewer_queue_top
<1>2. t.sent_bytes \in 0 .. Size - 1
  BY <1>1 DEF FrameType
<1>3. CASE r = 0
  <2>1. [t EXCEPT !.sent_bytes = @ + r] = t
    BY <1>1, <1>2, <1>3 DEF FrameType
  <2>2. [q.flv_tags EXCEPT ![q.front].sent_bytes = @ + r] = q.flv_tags
    BY <1>1, <2>1
  <2>3. p = q
    BY <1>1, <2>2
  <2>4. [Contents(q) EXCEPT ![1].sent_bytes = @ + r] = Contents(q)
    BY <1>1, <2>1
  <2> QED
    BY <2>3, <2>4
<1>4. CASE r > 0
  <2>1. r \in 1 .. Size - 1 /\ q.flv_tags[q.front].sent_bytes + r < Size
    BY <1>1, <1>2, <1>4, SizeAssumption
  <2>2. Ring!Good(p)
    BY <2>1, Ring!GoodSend, RingAssumptions
  <2>3. Ring!Contents(p) = [Ring!Contents(q) EXCEPT ![1].sent_bytes = @ + r]
    BY <2>1, Ring!ContentsSend, RingAssumptions
  <2> HIDE DEF p
  <2>4. Contents(p) = [Contents(q) EXCEPT ![1].sent_bytes = @ + r]
    BY <2>3, SameContents
  <2> QED
    BY <2>2, <2>4 DEF p
<1> QED
  BY <1>3, <1>4

(* The push, with room made first in a full queue.                         *)
Room(q) == IF viewer_queue_full(q) THEN drop_frame(q) ELSE q

(* After it the queue is good, ends in the new tag, and is not empty.      *)
LEMMA PushQueue ==
  ASSUME NEW q, Ring!Good(q), NEW t \in FrameType, t.sent_bytes = 0
  PROVE  /\ Ring!Good(Room(q))
         /\ Ring!Good(viewer_queue_push(Room(q), t))
         /\ Contents(viewer_queue_push(Room(q), t)) = Append(Contents(Room(q)), t)
         /\ ~viewer_queue_push(Room(q), t).empty
<1>1. Ring!Good(Room(q)) /\ ~viewer_queue_full(Room(q))
  BY DropQueue DEF Room
<1> DEFINE p == Room(q)
<1> HIDE DEF p
<1>2. Ring!Good(p) /\ ~Ring!viewer_queue_full(p) /\ t \in Ring!Tag
  BY <1>1, SameQueue DEF p
<1>3. /\ Ring!Good(Ring!viewer_queue_push(p, t))
      /\ Ring!Contents(Ring!viewer_queue_push(p, t)) = Append(Ring!Contents(p), t)
  BY <1>2, Ring!GoodPush, Ring!ContentsPush, RingAssumptions
<1>4. /\ Ring!Good(viewer_queue_push(p, t))
      /\ Contents(viewer_queue_push(p, t)) = Append(Contents(p), t)
  BY <1>3, SameQueue, SameContents
<1>5. ~viewer_queue_push(p, t).empty
  BY DEF viewer_queue_push
<1> QED
  BY <1>1, <1>4, <1>5 DEF p

-----------------------------------------------------------------------------
(* The fields of a frame.                                                  *)
LEMMA FrameFields ==
  \A t \in FrameType : /\ t.payload \in 1 .. MaxTags /\ t.is_key_frame \in BOOLEAN
                       /\ t.sent_bytes \in 0 .. Size - 1
                       /\ t.payload \in Nat /\ t.sent_bytes \in Nat
BY SizeAssumption, BoundsAssumption DEF FrameType

(* ... and of a unit.                                                      *)
LEMMA UnitFields ==
  ASSUME NEW w \in Seq(Unit), NEW i \in 1 .. Len(w)
  PROVE  w[i] \in Unit /\ w[i][2] \in Nat /\ w[i][3] \in 1 .. Size /\ w[i][3] \in Nat
<1>1. w[i] \in Unit
  OBVIOUS
<1> QED
  BY <1>1, SizeAssumption DEF Unit

(* A pop leaves the list in order, and the wire behind it.                 *)
LEMMA PopList ==
  ASSUME NEW w \in Seq(Unit), NEW c \in Seq(FrameType), Len(c) > 0, NEW n \in Nat,
         ListInOrder(c, n), WireBehindList(w, c, n)
  PROVE  ListInOrder(Tail(c), n) /\ WireBehindList(w, Tail(c), n)
<1> DEFINE d == Tail(c)
<1>1. /\ d \in Seq(FrameType) /\ Len(d) = Len(c) - 1 /\ Len(c) \in Nat
      /\ \A i \in 1 .. Len(d) : d[i] = c[i + 1]
  OBVIOUS
<1>2. \A i \in 1 .. Len(c) : c[i].payload \in Nat /\ c[i].sent_bytes \in Nat
  BY FrameFields
<1> HIDE DEF d
<1>3. ListInOrder(d, n)
  <2>1. ASSUME NEW i \in 1 .. Len(d)
        PROVE  d[i].payload <= n /\ d[i].sent_bytes = 0
    <3>1. i + 1 \in 2 .. Len(c) /\ i + 1 \in 1 .. Len(c) /\ d[i] = c[i + 1]
      BY <1>1
    <3> QED
      BY <3>1 DEF ListInOrder
  <2>2. ASSUME NEW i \in 1 .. Len(d), NEW j \in 1 .. Len(d), i < j
        PROVE  d[i].payload < d[j].payload
    <3>1. /\ i + 1 \in 1 .. Len(c) /\ j + 1 \in 1 .. Len(c) /\ i + 1 < j + 1
          /\ d[i] = c[i + 1] /\ d[j] = c[j + 1]
      BY <1>1, <2>2
    <3> QED
      BY <3>1 DEF ListInOrder
  <2>3. \A i \in 2 .. Len(d) : i \in 1 .. Len(d)
    BY <1>1
  <2> QED
    BY <2>1, <2>2, <2>3 DEF ListInOrder
<1>4. ASSUME Len(d) > 0 PROVE d[1].sent_bytes = 0 /\ d[1].payload > c[1].payload
                              /\ d[1].payload \in Nat /\ c[1].payload \in Nat
  BY <1>1, <1>2, <1>4 DEF ListInOrder
<1>5. ASSUME Len(d) > 0, NEW i \in 1 .. Len(w), IsFrame(w[i])
      PROVE  Behind(w[i], d[1])
  <2>1. Behind(w[i], c[1])
    BY <1>5 DEF WireBehindList
  <2> QED
    BY <1>4, <1>5, <2>1, UnitFields DEF Behind
<1>6. WireBehindList(w, d, n)
  BY <1>4, <1>5 DEF WireBehindList
<1> QED
  BY <1>3, <1>6 DEF d

(* So does the removal of any tag,                                         *)
LEMMA DropList ==
  ASSUME NEW w \in Seq(Unit), NEW c \in Seq(FrameType), NEW n \in Nat,
         NEW k \in 1 .. Len(c), ListInOrder(c, n), WireBehindList(w, c, n)
  PROVE  /\ Ring!Fifo!Without(c, k) \in Seq(FrameType)
         /\ ListInOrder(Ring!Fifo!Without(c, k), n)
         /\ WireBehindList(w, Ring!Fifo!Without(c, k), n)
<1> DEFINE d == Ring!Fifo!Without(c, k)
<1>1. /\ d \in Seq(FrameType) /\ Len(d) = Len(c) - 1 /\ Len(c) \in Nat /\ Len(d) \in Nat
      /\ \A i \in 1 .. Len(d) : d[i] = IF i < k THEN c[i] ELSE c[i + 1]
  <2>1. d = [i \in 1 .. Len(c) - 1 |-> IF i < k THEN c[i] ELSE c[i + 1]]
    BY DEF Ring!Fifo!Without
  <2>2. Len(c) - 1 \in Nat
    OBVIOUS
  <2>3. \A i \in 1 .. Len(c) - 1 : (IF i < k THEN c[i] ELSE c[i + 1]) \in FrameType
    OBVIOUS
  <2> QED
    BY <2>1, <2>2, <2>3
<1>2. \A i \in 1 .. Len(c) : c[i].payload \in Nat /\ c[i].sent_bytes \in Nat
  BY FrameFields
<1> HIDE DEF d
<1>3. ListInOrder(d, n)
  <2> DEFINE p(i) == IF i < k THEN i ELSE i + 1
  <2>1. \A i \in 1 .. Len(d) : /\ p(i) \in 1 .. Len(c) /\ d[i] = c[p(i)]
                               /\ i \in 2 .. Len(d) => p(i) \in 2 .. Len(c)
    BY <1>1
  <2>2. \A i, j \in 1 .. Len(d) : i < j => p(i) < p(j)
    BY <1>1
  <2>3. \A i \in 2 .. Len(d) : i \in 1 .. Len(d)
    BY <1>1
  <2> HIDE DEF p
  <2>4. ASSUME NEW i \in 1 .. Len(d)
        PROVE  d[i].payload <= n /\ (i \in 2 .. Len(d) => d[i].sent_bytes = 0)
    BY <2>1 DEF ListInOrder
  <2>5. ASSUME NEW i \in 1 .. Len(d), NEW j \in 1 .. Len(d), i < j
        PROVE  d[i].payload < d[j].payload
    <3>1. /\ p(i) \in 1 .. Len(c) /\ p(j) \in 1 .. Len(c) /\ p(i) < p(j)
          /\ d[i] = c[p(i)] /\ d[j] = c[p(j)]
      BY <2>1, <2>2, <2>5
    <3> QED
      BY <3>1 DEF ListInOrder
  <2> QED
    BY <2>3, <2>4, <2>5 DEF ListInOrder
<1>4. CASE k > 1
  <2>1. Len(d) > 0 => d[1] = c[1]
    BY <1>1, <1>4
  <2> QED
    BY <1>1, <1>3, <2>1 DEF WireBehindList, d
<1>5. CASE k = 1
  <2>1. d = Tail(c)
    BY <1>1, <1>5
  <2>2. Len(c) > 0
    OBVIOUS
  <2>3. WireBehindList(w, Tail(c), n)
    BY <2>2, PopList
  <2> QED
    BY <1>1, <1>3, <2>1, <2>3 DEF d
<1> QED
  BY <1>4, <1>5

(* and the next tag of the camera at its end.                              *)
LEMMA PushList ==
  ASSUME NEW w \in Seq(Unit), NEW c \in Seq(FrameType), NEW n \in Nat,
         NEW t \in FrameType, t.payload = n + 1, t.sent_bytes = 0,
         ListInOrder(c, n), WireBehindList(w, c, n)
  PROVE  ListInOrder(Append(c, t), n + 1) /\ WireBehindList(w, Append(c, t), n + 1)
<1> DEFINE d == Append(c, t)
<1>1. /\ d \in Seq(FrameType) /\ Len(d) = Len(c) + 1 /\ Len(c) \in Nat
      /\ \A i \in 1 .. Len(c) : d[i] = c[i]
      /\ d[Len(c) + 1] = t
  OBVIOUS
<1>2. \A i \in 1 .. Len(c) : c[i].payload \in Nat /\ c[i].sent_bytes \in Nat
  BY FrameFields
<1> HIDE DEF d
<1>3. ListInOrder(d, n + 1)
  <2>1. \A i \in 1 .. Len(d) : d[i].payload \in Nat /\ d[i].payload <= n + 1
    BY <1>1, <1>2 DEF ListInOrder
  <2>2. ASSUME NEW i \in 1 .. Len(d), NEW j \in 1 .. Len(d), i < j
        PROVE  d[i].payload < d[j].payload
    <3>1. i \in 1 .. Len(c) /\ d[i] = c[i]
      BY <1>1, <2>2
    <3>2. c[i].payload <= n /\ c[i].payload \in Nat
      BY <1>2, <3>1 DEF ListInOrder
    <3>3. CASE j = Len(c) + 1
      BY <1>1, <3>1, <3>2, <3>3
    <3>4. CASE j \in 1 .. Len(c)
      BY <1>1, <2>2, <3>1, <3>4 DEF ListInOrder
    <3> QED
      BY <1>1, <3>3, <3>4
  <2>3. \A i \in 2 .. Len(d) : d[i].sent_bytes = 0
    BY <1>1, SMTT(30) DEF ListInOrder
  <2> QED
    BY <2>1, <2>2, <2>3 DEF ListInOrder
<1>4. \A i \in 1 .. Len(w) : IsFrame(w[i]) => w[i][2] <= n + 1 /\ w[i][2] < n + 1
  BY UnitFields DEF WireBehindList
<1>5. CASE Len(c) > 0
  <2>1. d[1] = c[1]
    BY <1>1, <1>5
  <2> QED
    BY <1>3, <1>4, <1>5, <2>1 DEF WireBehindList, d
<1>6. CASE Len(c) = 0
  <2>1. d[1] = t
    BY <1>1, <1>6
  <2>2. \A i \in 1 .. Len(w) : IsFrame(w[i]) => Behind(w[i], t)
    BY <1>4 DEF Behind
  <2>3. ~(t.sent_bytes > 0)
    OBVIOUS
  <2> QED
    BY <1>3, <1>4, <2>1, <2>2, <2>3 DEF WireBehindList, d
<1> QED
  BY <1>1, <1>5, <1>6

-----------------------------------------------------------------------------
(* What is added to the wire comes after what is there.                    *)
LEMMA Appended ==
  ASSUME NEW w \in Seq(Unit), NEW s \in Seq(Unit)
  PROVE  /\ w \o s \in Seq(Unit)
         /\ Len(w) \in Nat /\ Len(s) \in Nat /\ Len(w \o s) = Len(w) + Len(s)
         /\ \A i \in 1 .. Len(w) : i \in 1 .. Len(w \o s) /\ (w \o s)[i] = w[i]
         /\ \A i \in 1 .. Len(s) : /\ Len(w) + i \in 1 .. Len(w \o s)
                                   /\ (w \o s)[Len(w) + i] = s[i]
         /\ \A i \in 1 .. Len(w \o s) :
              \/ i \in 1 .. Len(w)
              \/ i - Len(w) \in 1 .. Len(s) /\ (w \o s)[i] = s[i - Len(w)]
OBVIOUS

(* Units that leave.                                                       *)
LEMMA UnitsSeq ==
  ASSUME NEW kind \in Header \cup {"http", "key", "inter"}, NEW n \in Nat,
         NEW from \in 0 .. Size, NEW to \in 0 .. Size, from <= to
  PROVE  /\ Units(kind, n, from, to) \in Seq(Unit)
         /\ Len(Units(kind, n, from, to)) = to - from
         /\ to - from \in Nat
         /\ \A i \in 1 .. to - from : Units(kind, n, from, to)[i] = <<kind, n, from + i>>
<1>1. to - from \in Nat
  BY SizeAssumption
<1>2. \A i \in 1 .. to - from : <<kind, n, from + i>> \in Unit
  <2> TAKE i \in 1 .. to - from
  <2>1. from + i \in 1 .. Size
    BY SizeAssumption
  <2> QED
    BY <2>1 DEF Unit
<1> QED
  BY <1>1, <1>2 DEF Units

(* Without a frame every order of frames holds.                            *)
LEMMA NoFrameOrder ==
  ASSUME NEW w, NoFrame(w)
  PROVE  InOrder(w) /\ KeyFirst(w) /\ HeadersThenFrames(w)
BY DEF NoFrame, InOrder, KeyFirst, HeadersThenFrames

(* The head of c goes out up to its unit e: s is added to w.               *)
HeadOut(w, c, n, e, s) ==
  /\ s \in Seq(Unit) /\ w \o s \in Seq(Unit)
  /\ Len(s) = e - c[1].sent_bytes
  /\ \A i \in 1 .. Len(s) : IsFrame(s[i]) /\ s[i][1] = Kind(c[1])
  /\ InOrder(w \o s)
  /\ \A i \in 1 .. Len(w \o s) : IsFrame((w \o s)[i]) =>
       /\ (w \o s)[i][2] <= n
       /\ \/ (w \o s)[i][2] < c[1].payload
          \/ (w \o s)[i][2] = c[1].payload /\ (w \o s)[i][3] <= e
  /\ e > 0 => \E i \in 1 .. Len(w \o s) :
                (w \o s)[i] = <<Kind(c[1]), c[1].payload, e>>

(* The units of the head that leave keep the frames in order: they follow  *)
(* what left of it before, and are behind everything that is queued.       *)
LEMMA FramesAdded ==
  ASSUME NEW w \in Seq(Unit), NEW c \in Seq(FrameType), Len(c) > 0, NEW n \in Nat,
         ListInOrder(c, n), WireBehindList(w, c, n), InOrder(w),
         NEW e \in 0 .. Size, c[1].sent_bytes <= e,
         NEW s, s = Units(Kind(c[1]), c[1].payload, c[1].sent_bytes, e)
  PROVE  HeadOut(w, c, n, e, s)
<1> DEFINE t == c[1]
           b == c[1].sent_bytes
           p == c[1].payload
           k == Kind(c[1])
           x == w \o s
<1>1. /\ t \in FrameType /\ p \in Nat /\ b \in 0 .. Size /\ b \in Nat /\ e \in Nat
      /\ b <= e
  BY FrameFields, SizeAssumption
<1>2. k \in {"key", "inter"} /\ k \in Header \cup {"http", "key", "inter"}
  BY DEF Kind
<1>3. p <= n
  BY DEF ListInOrder
<1>40. s = Units(k, p, b, e)
  OBVIOUS
<1>5. /\ \A i \in 1 .. Len(w) : IsFrame(w[i]) =>
           w[i][2] <= n /\ (w[i][2] < p \/ (w[i][2] = p /\ w[i][3] <= b))
      /\ b > 0 => \E i \in 1 .. Len(w) : w[i] = <<k, p, b>>
  BY DEF WireBehindList, Behind
<1> HIDE DEF k, p, b, t
<1>4. /\ s \in Seq(Unit) /\ Len(s) = e - b /\ e - b \in Nat
      /\ \A i \in 1 .. e - b : s[i] = <<k, p, b + i>>
  <2>1. k \in Header \cup {"http", "key", "inter"} /\ e \in 0 .. Size
    BY <1>2
  <2>2. /\ Units(k, p, b, e) \in Seq(Unit)
        /\ Len(Units(k, p, b, e)) = e - b
        /\ e - b \in Nat
        /\ \A i \in 1 .. e - b : Units(k, p, b, e)[i] = <<k, p, b + i>>
    BY <1>1, <2>1, UnitsSeq, Zenon
  <2> QED
    BY <1>40, <2>2
<1>6. /\ x \in Seq(Unit)
      /\ Len(w) \in Nat /\ Len(s) \in Nat /\ Len(x) = Len(w) + Len(s)
      /\ \A i \in 1 .. Len(w) : i \in 1 .. Len(x) /\ x[i] = w[i]
      /\ \A i \in 1 .. Len(s) : Len(w) + i \in 1 .. Len(x) /\ x[Len(w) + i] = s[i]
      /\ \A i \in 1 .. Len(x) : \/ i \in 1 .. Len(w)
                                \/ i - Len(w) \in 1 .. Len(s) /\ x[i] = s[i - Len(w)]
  <2>1. s \in Seq(Unit)
    BY <1>4
  <2> QED
    BY <2>1, Appended
<1>60. Len(w) \in Nat /\ Len(x) = Len(w) + (e - b)
  BY <1>4, <1>6
<1> HIDE DEF x
<1>7. \A i \in 1 .. Len(s) : IsFrame(s[i]) /\ s[i][1] = k
  BY <1>2, <1>4 DEF IsFrame
<1>8. ASSUME NEW i \in 1 .. Len(x)
      PROVE  \/ i \in 1 .. Len(w) /\ x[i] = w[i]
             \/ /\ i - Len(w) \in 1 .. e - b /\ x[i] = <<k, p, b + (i - Len(w))>>
                /\ i \notin 1 .. Len(w)
  <2>1. CASE i \in 1 .. Len(w)
    BY <1>6, <2>1
  <2>2. CASE i \notin 1 .. Len(w)
    <3>1. i - Len(w) \in 1 .. e - b /\ x[i] = s[i - Len(w)]
      BY <1>4, <1>6, <2>2
    <3> QED
      BY <1>4, <2>2, <3>1
  <2> QED
    BY <2>1, <2>2
<1>9. ASSUME NEW i \in 1 .. Len(x), IsFrame(x[i])
      PROVE  x[i][2] <= n /\ (x[i][2] < p \/ (x[i][2] = p /\ x[i][3] <= e))
  <2>1. CASE i \in 1 .. Len(w) /\ x[i] = w[i]
    <3>1. w[i][2] <= n /\ (w[i][2] < p \/ (w[i][2] = p /\ w[i][3] <= b))
      BY <1>5, <1>9, <2>1
    <3>2. w[i][3] \in Nat
      BY <2>1, UnitFields
    <3> QED
      BY <1>1, <2>1, <3>1, <3>2
  <2>2. CASE i - Len(w) \in 1 .. e - b /\ x[i] = <<k, p, b + (i - Len(w))>>
    <3>1. b + (i - Len(w)) <= e
      BY <1>1, <1>6, <2>2
    <3> QED
      BY <1>3, <2>2, <3>1
  <2> QED
    BY <1>8, <2>1, <2>2
<1>10. e > 0 => \E i \in 1 .. Len(x) : x[i] = <<k, p, e>>
  <2>1. CASE e > b
    <3>1. e - b \in 1 .. e - b /\ b + (e - b) = e
      BY <1>1, <2>1
    <3>2. s[e - b] = <<k, p, e>>
      BY <1>4, <3>1
    <3>3. Len(w) + (e - b) \in 1 .. Len(x) /\ x[Len(w) + (e - b)] = s[e - b]
      BY <1>4, <1>6, <3>1
    <3> QED
      BY <3>2, <3>3
  <2>2. CASE e = b
    BY <1>5, <1>6, <2>2
  <2> QED
    BY <1>1, <2>1, <2>2
<1>11. InOrder(x)
  <2> SUFFICES ASSUME NEW i \in 1 .. Len(x), IsFrame(x[i])
               PROVE  /\ \A j \in 1 .. i - 1 : IsFrame(x[j]) =>
                           x[j][2] < x[i][2] \/ (x[j][2] = x[i][2] /\ x[j][3] < x[i][3])
                      /\ x[i][3] > 1 =>
                           \E j \in 1 .. i - 1 : x[j] = <<x[i][1], x[i][2], x[i][3] - 1>>
    BY DEF InOrder
  <2>1. CASE i \in 1 .. Len(w) /\ x[i] = w[i]
    <3>1. \A j \in 1 .. i - 1 : x[j] = w[j] /\ j \in 1 .. Len(w)
      BY <1>6, <2>1
    <3> QED
      BY <2>1, <3>1, ZenonT(30) DEF InOrder
  <2>2. CASE /\ i - Len(w) \in 1 .. e - b /\ x[i] = <<k, p, b + (i - Len(w))>>
             /\ i \notin 1 .. Len(w)
    <3>1. x[i][1] = k /\ x[i][2] = p /\ x[i][3] = b + (i - Len(w))
      BY <2>2
    <3>2. ASSUME NEW j \in 1 .. i - 1, IsFrame(x[j])
          PROVE  x[j][2] < x[i][2] \/ (x[j][2] = x[i][2] /\ x[j][3] < x[i][3])
      <4>1. j \in 1 .. Len(x) /\ j < i
        BY <1>6
      <4>2. CASE j \in 1 .. Len(w) /\ x[j] = w[j]
        <5>1. w[j][2] < p \/ (w[j][2] = p /\ w[j][3] <= b)
          BY <1>5, <3>2, <4>2
        <5>2. w[j][3] \in Nat
          BY <4>2, UnitFields
        <5>3. b < b + (i - Len(w))
          BY <1>1, <1>60, <2>2
        <5> QED
          BY <1>1, <1>60, <2>2, <3>1, <4>2, <5>1, <5>2, <5>3, SMTT(30)
      <4>3. CASE j - Len(w) \in 1 .. e - b /\ x[j] = <<k, p, b + (j - Len(w))>>
        <5>1. b + (j - Len(w)) < b + (i - Len(w))
          BY <1>1, <1>6, <4>1
        <5> QED
          BY <3>1, <4>3, <5>1
      <4> QED
        BY <1>8, <4>1, <4>2, <4>3
    <3>3. ASSUME x[i][3] > 1
          PROVE  \E j \in 1 .. i - 1 : x[j] = <<x[i][1], x[i][2], x[i][3] - 1>>
      <4>1. CASE i - Len(w) = 1
        <5>1. b > 0 /\ x[i][3] - 1 = b
          BY <1>1, <3>1, <3>3, <4>1
        <5>2. PICK j \in 1 .. Len(w) : w[j] = <<k, p, b>>
          BY <1>5, <5>1
        <5>3. j \in 1 .. i - 1 /\ x[j] = w[j]
          BY <1>6, <4>1, <5>2, SMTT(30)
        <5> QED
          BY <3>1, <5>1, <5>2, <5>3
      <4>2. CASE i - Len(w) # 1
        <5>1. /\ i - 1 \in 1 .. i - 1 /\ i - 1 \in 1 .. Len(x)
              /\ (i - 1) - Len(w) \in 1 .. e - b
              /\ b + ((i - 1) - Len(w)) = (b + (i - Len(w))) - 1
          BY <1>1, <1>60, <2>2, <4>2, SMTT(30)
        <5>2. i - 1 \notin 1 .. Len(w)
          BY <1>60, <5>1
        <5>3. x[i - 1] = <<k, p, b + ((i - 1) - Len(w))>>
          BY <1>8, <5>1, <5>2
        <5> QED
          BY <3>1, <5>1, <5>3
      <4> QED
        BY <4>1, <4>2
    <3> QED
      BY <3>2, <3>3
  <2> QED
    BY <1>8, <2>1, <2>2
<1> QED
  BY <1>4, <1>6, <1>7, <1>9, <1>10, <1>11 DEF HeadOut, x, p, b, k

-----------------------------------------------------------------------------
(* How the room of a socket is shared among the pending headers.           *)
OffsetsInRange == header_sent_bytes \in [Header -> 0 .. Size - 1]

(* What a header still needs is what the offset leaves of it.              *)
LEMMA Needs ==
  ASSUME OffsetsInRange, NEW hs \in SUBSET Header, NEW h \in Header
  PROVE  /\ header_sent_bytes[h] \in Nat /\ header_sent_bytes[h] < Size
         /\ Need(hs, h) \in Nat /\ Before(hs, h) \in Nat
         /\ h \in hs => Need(hs, h) = Size - header_sent_bytes[h]
         /\ h \notin hs => Need(hs, h) = 0
<1>1. \A g \in Header : header_sent_bytes[g] \in Nat /\ header_sent_bytes[g] < Size
  BY SizeAssumption DEF OffsetsInRange
<1>2. \A g \in Header : Need(hs, g) \in Nat
  BY <1>1, SizeAssumption DEF Need, RemainingBytes
<1>3. {"flv", "script", "avc", "aac"} = Header
  BY DEF Header
<1>4. Before(hs, h) \in Nat
  BY <1>2, <1>3 DEF Before
<1> QED
  BY <1>1, <1>2, <1>4 DEF Need, RemainingBytes

(* A header never gets more than that, and all of it exactly when it is    *)
(* among the headers done: the offset stays below Size or the header ends. *)
LEMMA Shares ==
  ASSUME OffsetsInRange, NEW hs \in SUBSET Header, NEW h \in Header, NEW b \in Nat
  PROVE  /\ Share(hs, b, h) \in Nat
         /\ header_sent_bytes[h] + Share(hs, b, h) \in 0 .. Size
         /\ h \in Done(hs, b) => header_sent_bytes[h] + Share(hs, b, h) = Size
         /\ h \notin Done(hs, b) => header_sent_bytes[h] + Share(hs, b, h) < Size
         /\ h \notin hs => Share(hs, b, h) = 0
         /\ Done(hs, b) \subseteq hs
<1> DEFINE o == header_sent_bytes[h]
           d == Need(hs, h)
           f == Before(hs, h)
<1>1. /\ o \in Nat /\ o < Size /\ d \in Nat /\ f \in Nat /\ Size \in Nat
      /\ h \in hs => d = Size - o
      /\ h \notin hs => d = 0
  BY Needs, SizeAssumption
<1>2. h \in Done(hs, b) <=> h \in hs /\ f + d <= b
  BY DEF Done
<1>3. Share(hs, b, h) = IF h \in Done(hs, b) THEN d ELSE IF h \in hs /\ f < b THEN b - f ELSE 0
  BY DEF Share
<1>4. Done(hs, b) \subseteq hs
  BY DEF Done
<1> HIDE DEF o, d, f
<1>5. CASE h \in Done(hs, b)
  BY <1>1, <1>2, <1>3, <1>4, <1>5 DEF o
<1>6. CASE h \notin Done(hs, b)
  BY <1>1, <1>2, <1>3, <1>4, <1>6 DEF o
<1> QED
  BY <1>5, <1>6

(* When all of them fit there may be room left.                            *)
LEMMA RoomLeft ==
  ASSUME OffsetsInRange, NEW hs \in SUBSET Header, NEW b \in Nat, Done(hs, b) = hs
  PROVE  b - AllOf(hs) \in Nat
<1> DEFINE f == Need(hs, "flv")
           s == Need(hs, "script")
           a == Need(hs, "avc")
           c == Need(hs, "aac")
<1>1. "flv" \in Header /\ "script" \in Header /\ "avc" \in Header /\ "aac" \in Header
  BY DEF Header
<1>2. f \in Nat /\ s \in Nat /\ a \in Nat /\ c \in Nat
  BY <1>1, Needs
<1>3. /\ f = 0 \/ f <= b
      /\ s = 0 \/ f + s <= b
      /\ a = 0 \/ f + s + a <= b
      /\ c = 0 \/ f + s + a + c <= b
  <2>1. \A h \in Header : Need(hs, h) = 0 \/ Before(hs, h) + Need(hs, h) <= b
    BY Needs DEF Done
  <2>2. /\ Before(hs, "flv") = 0 /\ Before(hs, "script") = f
        /\ Before(hs, "avc") = f + s /\ Before(hs, "aac") = f + s + a
    BY DEF Before
  <2> HIDE DEF f, s, a, c
  <2>3. /\ f = 0 \/ 0 + f <= b
        /\ s = 0 \/ f + s <= b
        /\ a = 0 \/ f + s + a <= b
        /\ c = 0 \/ f + s + a + c <= b
    BY <1>1, <2>1, <2>2 DEF f, s, a, c
  <2> QED
    BY <1>2, <2>3
<1>4. AllOf(hs) = f + s + a + c
  BY DEF AllOf, Before
<1> HIDE DEF f, s, a, c
<1> QED
  BY <1>2, <1>3, <1>4

(* x begins with f, and is of other headers after it.                      *)
FlvThenOthers(x, f) ==
  /\ x \in Seq(Unit) /\ Len(f) <= Len(x)
  /\ \A i \in 1 .. Len(x) : IF i <= Len(f) THEN x[i] = f[i]
                            ELSE x[i][1] \in {"script", "avc", "aac"}

(* Other headers may be added to it.                                       *)
LEMMA OthersAdded ==
  ASSUME NEW f \in Seq(Unit), NEW x, FlvThenOthers(x, f), NEW s \in Seq(Unit),
         \A i \in 1 .. Len(s) : s[i][1] \in {"script", "avc", "aac"}
  PROVE  FlvThenOthers(x \o s, f)
<1>1. x \in Seq(Unit) /\ Len(f) \in Nat /\ Len(f) <= Len(x)
  BY DEF FlvThenOthers
<1> DEFINE y == x \o s
<1>2. /\ y \in Seq(Unit)
      /\ Len(x) \in Nat /\ Len(s) \in Nat /\ Len(y) = Len(x) + Len(s)
      /\ \A i \in 1 .. Len(x) : i \in 1 .. Len(y) /\ y[i] = x[i]
      /\ \A i \in 1 .. Len(y) :
           \/ i \in 1 .. Len(x)
           \/ i - Len(x) \in 1 .. Len(s) /\ y[i] = s[i - Len(x)]
  BY <1>1, Appended
<1> HIDE DEF y
<1>3. ASSUME NEW i \in 1 .. Len(y)
      PROVE  IF i <= Len(f) THEN y[i] = f[i] ELSE y[i][1] \in {"script", "avc", "aac"}
  <2>1. CASE i \in 1 .. Len(x)
    BY <1>2, <2>1 DEF FlvThenOthers
  <2>2. CASE i \notin 1 .. Len(x)
    <3>1. i - Len(x) \in 1 .. Len(s) /\ y[i] = s[i - Len(x)] /\ ~(i <= Len(f))
      BY <1>1, <1>2, <2>2
    <3> QED
      BY <3>1
  <2> QED
    BY <2>1, <2>2
<1> QED
  BY <1>1, <1>2, <1>3 DEF FlvThenOthers, y

(* The units of one header.                                                *)
LEMMA HeaderPartSeq ==
  ASSUME OffsetsInRange, generation \in [Header -> Nat],
         NEW hs \in SUBSET Header, NEW b \in Nat, NEW h \in Header
  PROVE  /\ HeaderPart(hs, b, h) \in Seq(Unit)
         /\ Len(HeaderPart(hs, b, h)) = Share(hs, b, h)
         /\ \A i \in 1 .. Share(hs, b, h) :
              HeaderPart(hs, b, h)[i] = <<h, generation[h], header_sent_bytes[h] + i>>
<1> DEFINE o == header_sent_bytes[h]
           s == Share(hs, b, h)
<1>1. o \in 0 .. Size /\ o \in Nat /\ s \in Nat /\ o + s \in 0 .. Size /\ o <= o + s
  <2>1. o \in Nat /\ o < Size
    BY Needs
  <2>2. s \in Nat /\ o + s \in 0 .. Size
    BY Shares
  <2> HIDE DEF o, s
  <2> QED
    BY <2>1, <2>2, SizeAssumption
<1>2. (o + s) - o = s
  BY <1>1
<1>3. h \in Header \cup {"http", "key", "inter"} /\ generation[h] \in Nat
  OBVIOUS
<1>4. HeaderPart(hs, b, h) = Units(h, generation[h], o, o + s)
  BY DEF HeaderPart
<1> HIDE DEF o, s
<1>5. /\ Units(h, generation[h], o, o + s) \in Seq(Unit)
      /\ Len(Units(h, generation[h], o, o + s)) = (o + s) - o
      /\ \A i \in 1 .. (o + s) - o :
           Units(h, generation[h], o, o + s)[i] = <<h, generation[h], o + i>>
  BY <1>1, <1>3, UnitsSeq, ZenonT(30)
<1>6. /\ Units(h, generation[h], o, o + s) \in Seq(Unit)
      /\ Len(Units(h, generation[h], o, o + s)) = s
      /\ \A i \in 1 .. s :
           Units(h, generation[h], o, o + s)[i] = <<h, generation[h], o + i>>
  BY <1>2, <1>5
<1> QED
  BY <1>4, <1>6 DEF o, s

(* The units of all of them: those of the FLV header come first.           *)
LEMMA HeaderUnitsSeq ==
  ASSUME OffsetsInRange, generation \in [Header -> Nat],
         NEW hs \in SUBSET Header, NEW b \in Nat
  PROVE  FlvThenOthers(HeaderUnits(hs, b), HeaderPart(hs, b, "flv"))
<1> DEFINE f == HeaderPart(hs, b, "flv")
           s == HeaderPart(hs, b, "script")
           a == HeaderPart(hs, b, "avc")
           c == HeaderPart(hs, b, "aac")
<1>1. "flv" \in Header /\ "script" \in Header /\ "avc" \in Header /\ "aac" \in Header
  BY DEF Header
<1>2. \A h \in Header : /\ HeaderPart(hs, b, h) \in Seq(Unit)
                        /\ \A i \in 1 .. Len(HeaderPart(hs, b, h)) :
                             HeaderPart(hs, b, h)[i][1] = h
  <2> TAKE h \in Header
  <2>1. /\ HeaderPart(hs, b, h) \in Seq(Unit)
        /\ Len(HeaderPart(hs, b, h)) = Share(hs, b, h)
        /\ \A i \in 1 .. Share(hs, b, h) :
             HeaderPart(hs, b, h)[i] = <<h, generation[h], header_sent_bytes[h] + i>>
    BY HeaderPartSeq
  <2> QED
    BY <2>1
<1>3. /\ f \in Seq(Unit)
      /\ s \in Seq(Unit) /\ \A i \in 1 .. Len(s) : s[i][1] \in {"script", "avc", "aac"}
      /\ a \in Seq(Unit) /\ \A i \in 1 .. Len(a) : a[i][1] \in {"script", "avc", "aac"}
      /\ c \in Seq(Unit) /\ \A i \in 1 .. Len(c) : c[i][1] \in {"script", "avc", "aac"}
  BY <1>1, <1>2
<1>4. HeaderUnits(hs, b) = ((f \o s) \o a) \o c
  BY DEF HeaderUnits
<1> HIDE DEF f, s, a, c
<1>5. FlvThenOthers(f, f)
  BY <1>3 DEF FlvThenOthers
<1>6. FlvThenOthers(f \o s, f)
  BY <1>3, <1>5, OthersAdded
<1>7. FlvThenOthers((f \o s) \o a, f)
  BY <1>3, <1>6, OthersAdded
<1>8. FlvThenOthers(((f \o s) \o a) \o c, f)
  BY <1>3, <1>7, OthersAdded
<1> QED
  BY <1>4, <1>8 DEF f

-----------------------------------------------------------------------------
(* What the response and the headers do to the state of a viewer.          *)
LEMMA InfoFields ==
  ASSUME NEW info \in InfoType
  PROVE  /\ info.send_first \in BOOLEAN /\ info.register_viewer_callback_first \in BOOLEAN
         /\ info.send_key_frame_first \in BOOLEAN /\ info.active \in BOOLEAN
         /\ info.not_sent_http_response_done \in BOOLEAN
         /\ info.not_sent_done \in [Header -> BOOLEAN]
BY DEF InfoType

(* Only the two flags that say what is not sent yet change, ...            *)
LEMMA HeadersSentFields ==
  ASSUME NEW info \in InfoType, NEW hs \in SUBSET Header
  PROVE  /\ HeadersSent(info, hs) \in InfoType
         /\ HeadersSent(info, hs).viewer_queue = info.viewer_queue
         /\ HeadersSent(info, hs).active = info.active
         /\ HeadersSent(info, hs).register_viewer_callback_first
              = info.register_viewer_callback_first
         /\ HeadersSent(info, hs).send_key_frame_first = info.send_key_frame_first
         /\ HeadersSent(info, hs).not_sent_done
              = [h \in Header |-> info.not_sent_done[h] /\ h \notin hs]
         /\ HeadersSent(info, hs).send_first = info.send_first
<1> DEFINE d == [h \in Header |-> info.not_sent_done[h] /\ h \notin hs]
           k == [info EXCEPT !.not_sent_http_response_done = FALSE, !.not_sent_done = d]
<1>1. d \in [Header -> BOOLEAN]
  OBVIOUS
<1>2. HeadersSent(info, hs) = k
  BY DEF HeadersSent, InfoType
<1> HIDE DEF d
<1>3. /\ k \in InfoType
      /\ k.viewer_queue = info.viewer_queue /\ k.active = info.active
      /\ k.register_viewer_callback_first = info.register_viewer_callback_first
      /\ k.send_key_frame_first = info.send_key_frame_first
      /\ k.not_sent_done = d /\ k.send_first = info.send_first
  BY <1>1 DEF InfoType
<1> QED
  BY <1>2, <1>3 DEF d

(* ... and send_first, when nothing is left.                               *)
LEMMA AllSentFields ==
  ASSUME NEW info \in InfoType, NEW hs \in SUBSET Header
  PROVE  /\ AllSent(info, hs) \in InfoType
         /\ AllSent(info, hs).viewer_queue = info.viewer_queue
         /\ AllSent(info, hs).active = info.active
         /\ AllSent(info, hs).register_viewer_callback_first
              = info.register_viewer_callback_first
         /\ AllSent(info, hs).send_key_frame_first = info.send_key_frame_first
         /\ AllSent(info, hs).not_sent_done
              = [h \in Header |-> info.not_sent_done[h] /\ h \notin hs]
         /\ AllSent(info, hs).send_first = FALSE
<1> DEFINE k == HeadersSent(info, hs)
<1>1. k \in InfoType
  BY HeadersSentFields
<1> HIDE DEF k
<1>2. /\ [k EXCEPT !.send_first = FALSE] \in InfoType
      /\ [k EXCEPT !.send_first = FALSE].viewer_queue = k.viewer_queue
      /\ [k EXCEPT !.send_first = FALSE].active = k.active
      /\ [k EXCEPT !.send_first = FALSE].register_viewer_callback_first
           = k.register_viewer_callback_first
      /\ [k EXCEPT !.send_first = FALSE].send_key_frame_first = k.send_key_frame_first
      /\ [k EXCEPT !.send_first = FALSE].not_sent_done = k.not_sent_done
      /\ [k EXCEPT !.send_first = FALSE].send_first = FALSE
  BY <1>1 DEF InfoType
<1>3. AllSent(info, hs) = [k EXCEPT !.send_first = FALSE]
  BY DEF AllSent, k
<1> QED
  BY <1>2, <1>3, HeadersSentFields DEF k

(* The FLV header stays whole when nothing of it is added, ...             *)
LEMMA WholeKept ==
  ASSUME NEW w \in Seq(Unit), NEW s \in Seq(Unit), Whole(w, "flv"),
         \A i \in 1 .. Len(s) : s[i][1] # "flv"
  PROVE  Whole(w \o s, "flv")
<1> DEFINE x == w \o s
<1>1. /\ Len(w) \in Nat /\ Len(s) \in Nat /\ Len(x) = Len(w) + Len(s)
      /\ \A i \in 1 .. Len(w) : i \in 1 .. Len(x) /\ x[i] = w[i]
      /\ \A i \in 1 .. Len(x) :
           \/ i \in 1 .. Len(w)
           \/ i - Len(w) \in 1 .. Len(s) /\ x[i] = s[i - Len(w)]
  BY Appended
<1>2. PICK k \in 0 .. Len(w) - Size : \A i \in 1 .. Len(w) :
        IF i \in k + 1 .. k + Size THEN w[i] = <<"flv", 1, i - k>> ELSE w[i][1] # "flv"
  BY DEF Whole
<1> HIDE DEF x
<1>3. k \in 0 .. Len(x) - Size
  BY <1>1, <1>2, SizeAssumption
<1>4. ASSUME NEW i \in 1 .. Len(x)
      PROVE  IF i \in k + 1 .. k + Size THEN x[i] = <<"flv", 1, i - k>> ELSE x[i][1] # "flv"
  <2>1. CASE i \in 1 .. Len(w)
    BY <1>1, <1>2, <2>1
  <2>2. CASE i \notin 1 .. Len(w)
    <3>1. i - Len(w) \in 1 .. Len(s) /\ x[i] = s[i - Len(w)] /\ i \notin k + 1 .. k + Size
      BY <1>1, <1>2, <2>2, SizeAssumption
    <3> QED
      BY <3>1
  <2> QED
    BY <2>1, <2>2
<1>5. Whole(x, "flv")
  BY <1>3, <1>4 DEF Whole
<1> QED
  BY <1>5 DEF x

(* ... its end stays, ...                                                  *)
LEMMA FlvEndKept ==
  ASSUME NEW w \in Seq(Unit), NEW s \in Seq(Unit), FlvEnd(w) \/ FlvEnd(s)
  PROVE  FlvEnd(w \o s)
<1> DEFINE x == w \o s
<1>1. /\ \A i \in 1 .. Len(w) : i \in 1 .. Len(x) /\ x[i] = w[i]
      /\ \A i \in 1 .. Len(s) : Len(w) + i \in 1 .. Len(x) /\ x[Len(w) + i] = s[i]
  BY Appended
<1> HIDE DEF x
<1>2. CASE FlvEnd(w)
  BY <1>1, <1>2 DEF FlvEnd, x
<1>3. CASE FlvEnd(s)
  <2>1. PICK j \in 1 .. Len(s) : s[j][1] = "flv" /\ s[j][3] = Size
    BY <1>3 DEF FlvEnd
  <2>2. Len(w) + j \in 1 .. Len(x) /\ x[Len(w) + j] = s[j]
    BY <1>1
  <2> QED
    BY <2>1, <2>2 DEF FlvEnd, x
<1> QED
  BY <1>2, <1>3

(* ... it does not come from elsewhere, ...                                *)
LEMMA NoFlvKept ==
  ASSUME NEW w \in Seq(Unit), NEW s \in Seq(Unit),
         \A i \in 1 .. Len(w) : w[i][1] # "flv", \A i \in 1 .. Len(s) : s[i][1] # "flv"
  PROVE  \A i \in 1 .. Len(w \o s) : (w \o s)[i][1] # "flv"
BY Appended

(* ... and neither does a frame.                                           *)
LEMMA NoFrameKept ==
  ASSUME NEW w \in Seq(Unit), NEW s \in Seq(Unit), NoFrame(w), NoFrame(s)
  PROVE  NoFrame(w \o s)
BY Appended DEF NoFrame

(* The FLV header in one piece, at the end so far.                         *)
LEMMA WholeAdded ==
  ASSUME NEW w \in Seq(Unit), \A i \in 1 .. Len(w) : w[i][1] # "flv",
         NEW f \in Seq(Unit), Len(f) = Size, \A i \in 1 .. Size : f[i] = <<"flv", 1, 0 + i>>,
         NEW x, FlvThenOthers(x, f)
  PROVE  Whole(w \o x, "flv")
<1>1. /\ x \in Seq(Unit) /\ Len(x) \in Nat /\ Size <= Len(x) /\ Len(w) \in Nat /\ Size \in Nat
      /\ \A i \in 1 .. Len(x) : i <= Size => x[i] = <<"flv", 1, 0 + i>>
      /\ \A i \in 1 .. Len(x) : ~(i <= Size) => x[i][1] \in {"script", "avc", "aac"}
  BY SizeAssumption DEF FlvThenOthers
<1> DEFINE y == w \o x
<1>2. /\ Len(y) = Len(w) + Len(x)
      /\ \A i \in 1 .. Len(w) : i \in 1 .. Len(y) /\ y[i] = w[i]
      /\ \A i \in 1 .. Len(y) :
           \/ i \in 1 .. Len(w)
           \/ i - Len(w) \in 1 .. Len(x) /\ y[i] = x[i - Len(w)]
  BY <1>1, Appended
<1> HIDE DEF y
<1>3. Len(w) \in 0 .. Len(y) - Size
  BY <1>1, <1>2
<1>4. ASSUME NEW i \in 1 .. Len(y)
      PROVE  IF i \in Len(w) + 1 .. Len(w) + Size
             THEN y[i] = <<"flv", 1, i - Len(w)>> ELSE y[i][1] # "flv"
  <2>1. CASE i \in 1 .. Len(w)
    <3>1. i \notin Len(w) + 1 .. Len(w) + Size
      BY <1>1, <2>1
    <3> QED
      BY <1>2, <2>1, <3>1
  <2>2. CASE i \notin 1 .. Len(w) /\ i - Len(w) <= Size
    <3>1. /\ i - Len(w) \in 1 .. Len(x) /\ y[i] = x[i - Len(w)]
          /\ i \in Len(w) + 1 .. Len(w) + Size
          /\ 0 + (i - Len(w)) = i - Len(w)
      BY <1>1, <1>2, <2>2
    <3>2. x[i - Len(w)] = <<"flv", 1, 0 + (i - Len(w))>>
      BY <1>1, <2>2, <3>1
    <3> QED
      BY <3>1, <3>2
  <2>3. CASE i \notin 1 .. Len(w) /\ ~(i - Len(w) <= Size)
    <3>1. /\ i - Len(w) \in 1 .. Len(x) /\ y[i] = x[i - Len(w)]
          /\ i \notin Len(w) + 1 .. Len(w) + Size
      BY <1>1, <1>2, <2>3
    <3>2. x[i - Len(w)][1] # "flv"
      BY <1>1, <2>3, <3>1
    <3> QED
      BY <3>1, <3>2
  <2> QED
    BY <2>1, <2>2, <2>3
<1>5. Whole(y, "flv")
  BY <1>3, <1>4 DEF Whole
<1> QED
  BY <1>5 DEF y

(* What the wire is after the response and the headers.                    *)
HeadersWire(info, w, b) == (w \o HttpUnits(info)) \o HeaderUnits(PendingHeaders(info), b)

(* No frame leaves with the headers; the FLV header is whole if it starts  *)
(* at offset 0 and fits.                                                   *)
LEMMA HeadersOut ==
  ASSUME OffsetsInRange, generation \in [Header -> Nat], generation["flv"] = 1,
         NEW info \in InfoType, NEW w \in Seq(Unit), NEW b \in Nat,
         HeaderState(info, w), FlvState(info, w, header_sent_bytes["flv"]),
         NEW hs, hs = PendingHeaders(info),
         NEW x, x = HeadersWire(info, w, b)
  PROVE  /\ x \in Seq(Unit) /\ hs \in SUBSET Header /\ Done(hs, b) \subseteq hs
         /\ ~info.send_first => x = w /\ hs = {}
         /\ info.send_first => NoFrame(x)
         /\ ~info.not_sent_done["flv"] \/ "flv" \in Done(hs, b) => FlvEnd(x)
         /\ header_sent_bytes["flv"] = 0 =>
              IF info.not_sent_done["flv"] /\ "flv" \notin Done(hs, b)
              THEN Share(hs, b, "flv") = 0 => \A i \in 1 .. Len(x) : x[i][1] # "flv"
              ELSE Whole(x, "flv")
<1> DEFINE f == HeaderPart(hs, b, "flv")
           u == HeaderUnits(hs, b)
           m == Share(hs, b, "flv")
           o == header_sent_bytes["flv"]
           t == HttpUnits(info)
           y == w \o t
<1>1. hs \in SUBSET Header /\ "flv" \in Header
  BY DEF PendingHeaders, Header
<1>2. /\ f \in Seq(Unit) /\ Len(f) = m
      /\ \A i \in 1 .. m : f[i] = <<"flv", 1, o + i>>
  BY <1>1, HeaderPartSeq
<1>3. FlvThenOthers(u, f)
  BY <1>1, HeaderUnitsSeq
<1>4. /\ m \in Nat /\ o \in Nat /\ o < Size
      /\ "flv" \in Done(hs, b) => o + m = Size
      /\ "flv" \notin hs => m = 0
      /\ Done(hs, b) \subseteq hs
  BY <1>1, Shares, Needs
<1>5. /\ t \in Seq(Unit) /\ NoFrame(t)
      /\ \A i \in 1 .. Len(t) : t[i][1] # "flv"
      /\ ~info.send_first => t = << >>
  <2>1. <<"http", 0, Size>> \in Unit
    BY SizeAssumption DEF Unit
  <2> QED
    BY <2>1 DEF HttpUnits, NoFrame, IsFrame
<1>6. "flv" \in hs <=> info.send_first /\ info.not_sent_done["flv"]
  BY <1>1 DEF PendingHeaders
<1>7. x = y \o u
  BY DEF HeadersWire
<1> HIDE DEF f, u, m, t, y
<1>8. u \in Seq(Unit) /\ NoFrame(u)
  <2>1. u \in Seq(Unit)
    BY <1>3 DEF FlvThenOthers
  <2>2. ASSUME NEW i \in 1 .. Len(u) PROVE u[i][1] \in Header
    <3>1. CASE i <= Len(f)
      <4>1. i \in 1 .. m /\ u[i] = f[i]
        BY <1>2, <1>3, <1>4, <2>1, <3>1 DEF FlvThenOthers
      <4>2. u[i] = <<"flv", 1, o + i>>
        BY <1>2, <4>1
      <4> QED
        BY <4>2 DEF Header
    <3>2. CASE ~(i <= Len(f))
      BY <1>3, <3>2 DEF FlvThenOthers, Header
    <3> QED
      BY <3>1, <3>2
  <2>3. \A i \in 1 .. Len(u) : u[i][1] \notin {"key", "inter"}
    BY <2>2 DEF Header
  <2> QED
    BY <2>1, <2>3 DEF NoFrame, IsFrame
<1>9. m = 0 => \A i \in 1 .. Len(u) : u[i][1] # "flv"
  BY <1>2, <1>3 DEF FlvThenOthers
<1>10. y \in Seq(Unit) /\ x \in Seq(Unit)
  BY <1>5, <1>7, <1>8, Appended DEF y
<1>11. ~info.send_first => hs = {}
  BY DEF PendingHeaders
<1>12. ASSUME ~info.send_first PROVE x = w
  <2>1. \A h \in Header : Share(hs, b, h) = 0
    BY <1>1, <1>11, <1>12, Shares
  <2>2. \A h \in Header : HeaderPart(hs, b, h) = << >>
    <3> TAKE h \in Header
    <3>1. HeaderPart(hs, b, h) \in Seq(Unit) /\ Len(HeaderPart(hs, b, h)) = 0
      BY <1>1, <2>1, HeaderPartSeq
    <3> QED
      BY <3>1
  <2>3. u = ((<< >> \o << >>) \o << >>) \o << >>
    BY <2>2 DEF u, HeaderUnits, Header
  <2>4. u = << >>
    BY <2>3
  <2>5. t = << >>
    BY <1>5, <1>12
  <2> QED
    BY <1>7, <2>4, <2>5 DEF y
<1>13. ASSUME info.send_first PROVE NoFrame(x)
  <2>1. NoFrame(w)
    BY <1>13 DEF HeaderState
  <2>2. NoFrame(y)
    BY <1>5, <2>1, NoFrameKept DEF y
  <2> QED
    BY <1>7, <1>8, <1>10, <2>2, NoFrameKept
<1>14. ASSUME ~info.not_sent_done["flv"] \/ "flv" \in Done(hs, b) PROVE FlvEnd(x)
  <2>1. CASE ~info.not_sent_done["flv"]
    <3>1. FlvEnd(y)
      BY <1>5, <2>1, FlvEndKept DEF HeaderState, y
    <3> QED
      BY <1>7, <1>8, <1>10, <3>1, FlvEndKept
  <2>2. CASE "flv" \in Done(hs, b)
    <3>1. m \in 1 .. m /\ o + m = Size
      BY <1>4, <2>2
    <3>2. f[m] = <<"flv", 1, Size>>
      BY <1>2, <3>1
    <3>3. m \in 1 .. Len(u) /\ u[m] = f[m]
      <4>1. Len(u) \in Nat /\ m <= Len(u)
        BY <1>2, <1>3, <1>8 DEF FlvThenOthers
      <4>2. m \in 1 .. Len(u) /\ m <= Len(f)
        BY <1>2, <1>4, <3>1, <4>1
      <4> QED
        BY <1>3, <4>2 DEF FlvThenOthers
    <3>4. FlvEnd(u)
      BY <3>2, <3>3 DEF FlvEnd
    <3> QED
      BY <1>7, <1>8, <1>10, <3>4, FlvEndKept
  <2> QED
    BY <1>14, <2>1, <2>2
<1>15. ASSUME o = 0, info.not_sent_done["flv"], "flv" \notin Done(hs, b), m = 0
       PROVE  \A i \in 1 .. Len(x) : x[i][1] # "flv"
  <2>1. \A i \in 1 .. Len(w) : w[i][1] # "flv"
    BY <1>15 DEF FlvState
  <2>2. \A i \in 1 .. Len(y) : y[i][1] # "flv"
    BY <1>5, <2>1, NoFlvKept DEF y
  <2> QED
    BY <1>7, <1>8, <1>9, <1>10, <1>15, <2>2, NoFlvKept
<1>16. ASSUME o = 0, ~info.not_sent_done["flv"]
       PROVE  Whole(x, "flv")
  <2>1. Whole(w, "flv")
    BY <1>16 DEF FlvState
  <2>2. Whole(y, "flv")
    BY <1>5, <2>1, WholeKept DEF y
  <2>3. m = 0
    BY <1>4, <1>6, <1>16
  <2> QED
    BY <1>7, <1>8, <1>9, <1>10, <2>2, <2>3, WholeKept
<1>17. ASSUME o = 0, info.not_sent_done["flv"], "flv" \in Done(hs, b)
       PROVE  Whole(x, "flv")
  <2>1. \A i \in 1 .. Len(w) : w[i][1] # "flv"
    BY <1>17 DEF FlvState
  <2>2. \A i \in 1 .. Len(y) : y[i][1] # "flv"
    BY <1>5, <2>1, NoFlvKept DEF y
  <2>3. m = Size
    BY <1>4, <1>17
  <2>4. Len(f) = Size /\ \A i \in 1 .. Size : f[i] = <<"flv", 1, 0 + i>>
    BY <1>2, <1>17, <2>3
  <2> QED
    BY <1>2, <1>3, <1>7, <1>10, <2>2, <2>4, WholeAdded
<1> QED
  BY <1>1, <1>4, <1>10, <1>11, <1>12, <1>13, <1>14, <1>15, <1>16, <1>17 DEF m

(* The state of the viewer after the response and the headers.             *)
LEMMA HeadersStep ==
  ASSUME OffsetsInRange, generation \in [Header -> Nat], generation["flv"] = 1,
         NEW info \in InfoType, NEW w \in Seq(Unit), NEW b \in Nat, NEW n \in Nat,
         ViewerInv(info, w, n, header_sent_bytes["flv"]),
         NEW hs, hs = PendingHeaders(info),
         NEW x, x = HeadersWire(info, w, b),
         NEW j, \/ j = HeadersSent(info, Done(hs, b))
                \/ /\ j = AllSent(info, Done(hs, b))
                   /\ Done(hs, b) = hs,
         NEW offset, \/ offset = header_sent_bytes["flv"] /\ Done(hs, b) = hs
                     \/ offset = header_sent_bytes["flv"] /\ "flv" \in Done(hs, b)
                     \/ offset = header_sent_bytes["flv"] + Share(hs, b, "flv")
  PROVE  x \in Seq(Unit) /\ j \in InfoType /\ ViewerInv(j, x, n, offset)
<1>1. /\ Ring!Good(info.viewer_queue)
      /\ WatcherState(info) /\ HeaderState(info, w)
      /\ FlvState(info, w, header_sent_bytes["flv"])
      /\ KeyState(info, w) /\ QueueState(info, w, n)
  BY DEF ViewerInv
<1>2. /\ x \in Seq(Unit) /\ hs \in SUBSET Header /\ Done(hs, b) \subseteq hs
      /\ ~info.send_first => x = w /\ hs = {}
      /\ info.send_first => NoFrame(x)
      /\ ~info.not_sent_done["flv"] \/ "flv" \in Done(hs, b) => FlvEnd(x)
      /\ header_sent_bytes["flv"] = 0 =>
           IF info.not_sent_done["flv"] /\ "flv" \notin Done(hs, b)
           THEN Share(hs, b, "flv") = 0 => \A i \in 1 .. Len(x) : x[i][1] # "flv"
           ELSE Whole(x, "flv")
  BY <1>1, HeadersOut
<1>3. /\ j \in InfoType
      /\ j.viewer_queue = info.viewer_queue /\ j.active = info.active
      /\ j.register_viewer_callback_first = info.register_viewer_callback_first
      /\ j.send_key_frame_first = info.send_key_frame_first
      /\ j.not_sent_done["flv"] <=> info.not_sent_done["flv"] /\ "flv" \notin Done(hs, b)
      /\ j.send_first = info.send_first \/ (j.send_first = FALSE /\ Done(hs, b) = hs)
  <2>1. Done(hs, b) \in SUBSET Header
    BY <1>2
  <2>2. [h \in Header |-> info.not_sent_done[h] /\ h \notin Done(hs, b)]["flv"]
          <=> info.not_sent_done["flv"] /\ "flv" \notin Done(hs, b)
    BY DEF Header
  <2>3. CASE j = HeadersSent(info, Done(hs, b))
    BY <2>1, <2>2, <2>3, HeadersSentFields
  <2>4. CASE j = AllSent(info, Done(hs, b)) /\ Done(hs, b) = hs
    BY <2>1, <2>2, <2>4, AllSentFields
  <2> QED
    BY <2>3, <2>4
<1>4. "flv" \in hs <=> info.send_first /\ info.not_sent_done["flv"]
  BY DEF PendingHeaders, Header
<1>5. WatcherState(j)
  BY <1>1, <1>3 DEF WatcherState
<1>6. HeaderState(j, x)
  <2>1. HeadersThenFrames(x)
    BY <1>1, <1>2, NoFrameOrder DEF HeaderState
  <2>2. j.send_first => NoFrame(x)
    BY <1>2, <1>3
  <2>3. ~j.send_first => ~j.not_sent_done["flv"]
    BY <1>1, <1>3, <1>4 DEF HeaderState
  <2>4. ~j.not_sent_done["flv"] => FlvEnd(x)
    BY <1>2, <1>3
  <2> QED
    BY <2>1, <2>2, <2>3, <2>4 DEF HeaderState
<1>7. FlvState(j, x, offset)
  <2> SUFFICES ASSUME offset = 0
               PROVE  IF j.not_sent_done["flv"]
                      THEN \A i \in 1 .. Len(x) : x[i][1] # "flv"
                      ELSE Whole(x, "flv")
    BY DEF FlvState
  <2>1. header_sent_bytes["flv"] \in Nat /\ Share(hs, b, "flv") \in Nat
        /\ ("flv" \notin hs => Share(hs, b, "flv") = 0)
    BY <1>2, Needs, Shares DEF Header
  <2>2. header_sent_bytes["flv"] = 0
    BY <2>1
  <2>3. "flv" \notin Done(hs, b) => Share(hs, b, "flv") = 0
    BY <2>1, <2>2
  <2> QED
    BY <1>2, <1>3, <2>2, <2>3
<1>8. KeyState(j, x)
  <2>1. CASE info.send_first
    <3>1. NoFrame(w) /\ NoFrame(x)
      BY <1>1, <1>2, <2>1 DEF HeaderState
    <3>2. info.send_key_frame_first
      BY <1>1, <3>1 DEF KeyState
    <3> QED
      BY <1>3, <3>1, <3>2, NoFrameOrder DEF KeyState, NoFrame
  <2>2. CASE ~info.send_first
    BY <1>1, <1>2, <1>3, <2>2 DEF KeyState
  <2> QED
    BY <2>1, <2>2
<1>9. QueueState(j, x, n)
  <2>1. CASE info.send_first
    <3>1. NoFrame(w) /\ NoFrame(x)
      BY <1>1, <1>2, <2>1 DEF HeaderState
    <3>2. InOrder(x)
      BY <3>1, NoFrameOrder
    <3> DEFINE c == Contents(info.viewer_queue)
    <3>3. ListInOrder(c, n) /\ WireBehindList(w, c, n)
      BY <1>1 DEF QueueState
    <3> HIDE DEF c
    <3>4. Len(c) > 0 => ~(c[1].sent_bytes > 0)
      <4> SUFFICES ASSUME Len(c) > 0, c[1].sent_bytes > 0 PROVE FALSE
        OBVIOUS
      <4>1. PICK i \in 1 .. Len(w) : w[i] = <<Kind(c[1]), c[1].payload, c[1].sent_bytes>>
        BY <3>3 DEF WireBehindList
      <4>2. IsFrame(w[i])
        BY <4>1 DEF IsFrame, Kind
      <4> QED
        BY <3>1, <4>2 DEF NoFrame
    <3>5. WireBehindList(x, c, n)
      BY <3>1, <3>4 DEF WireBehindList, NoFrame
    <3> QED
      BY <1>3, <3>2, <3>3, <3>5 DEF QueueState, c
  <2>2. CASE ~info.send_first
    BY <1>1, <1>2, <1>3, <2>2 DEF QueueState
  <2> QED
    BY <2>1, <2>2
<1> QED
  BY <1>1, <1>2, <1>3, <1>5, <1>6, <1>7, <1>8, <1>9 DEF ViewerInv

-----------------------------------------------------------------------------
(* What the attempt at the head of the queue does to it.                   *)
LEMMA FramesAfterHeaders ==
  ASSUME NEW info, NEW j, NEW w \in Seq(Unit), NEW s \in Seq(Unit), NEW offset,
         \A i \in 1 .. Len(s) : IsFrame(s[i]),
         HeaderState(info, w), FlvState(info, w, offset), ~info.send_first,
         j.send_first = info.send_first, j.not_sent_done = info.not_sent_done
  PROVE  HeaderState(j, w \o s) /\ FlvState(j, w \o s, offset)
<1> DEFINE x == w \o s
<1>1. /\ x \in Seq(Unit) /\ Len(w) \in Nat /\ Len(s) \in Nat /\ Len(x) = Len(w) + Len(s)
      /\ \A i \in 1 .. Len(w) : i \in 1 .. Len(x) /\ x[i] = w[i]
      /\ \A i \in 1 .. Len(x) :
           \/ i \in 1 .. Len(w)
           \/ i - Len(w) \in 1 .. Len(s) /\ x[i] = s[i - Len(w)]
  BY Appended
<1>2. /\ ~j.send_first /\ ~j.not_sent_done["flv"] /\ ~info.not_sent_done["flv"]
      /\ FlvEnd(w) /\ HeadersThenFrames(w)
  BY DEF HeaderState
<1>3. FlvEnd(x)
  BY <1>2, FlvEndKept
<1>4. \A i \in 1 .. Len(s) : s[i][1] # "flv"
  BY DEF IsFrame
<1>5. offset = 0 => Whole(x, "flv")
  BY <1>2, <1>4, WholeKept DEF FlvState
<1> HIDE DEF x
<1>6. HeadersThenFrames(x)
  <2> SUFFICES ASSUME NEW i \in 1 .. Len(x), IsFrame(x[i])
               PROVE  /\ \E k \in 1 .. i - 1 : x[k][1] = "flv" /\ x[k][3] = Size
                      /\ \A k \in i + 1 .. Len(x) : IsFrame(x[k])
    BY DEF HeadersThenFrames
  <2>1. ASSUME NEW k \in 1 .. Len(x), k \notin 1 .. Len(w)
        PROVE  IsFrame(x[k])
    BY <1>1, <2>1
  <2>2. CASE i \in 1 .. Len(w)
    <3>1. IsFrame(w[i]) /\ x[i] = w[i]
      BY <1>1, <2>2
    <3>2. PICK k \in 1 .. i - 1 : w[k][1] = "flv" /\ w[k][3] = Size
      BY <1>2, <2>2, <3>1 DEF HeadersThenFrames
    <3>3. k \in 1 .. Len(w) /\ x[k] = w[k]
      BY <1>1, <2>2
    <3>4. ASSUME NEW l \in i + 1 .. Len(x)
          PROVE  IsFrame(x[l])
      <4>1. l \in 1 .. Len(x)
        BY <1>1
      <4>2. CASE l \in 1 .. Len(w)
        <5>1. l \in i + 1 .. Len(w) /\ x[l] = w[l]
          BY <1>1, <4>2
        <5> QED
          BY <1>2, <2>2, <3>1, <5>1 DEF HeadersThenFrames
      <4> QED
        BY <2>1, <4>1, <4>2
    <3> QED
      BY <3>2, <3>3, <3>4
  <2>3. CASE i \notin 1 .. Len(w)
    <3>1. PICK k \in 1 .. Len(w) : w[k][1] = "flv" /\ w[k][3] = Size
      BY <1>2 DEF FlvEnd
    <3>2. k \in 1 .. i - 1 /\ x[k] = w[k]
      BY <1>1, <2>3
    <3>3. ASSUME NEW l \in i + 1 .. Len(x)
          PROVE  IsFrame(x[l])
      <4>1. l \in 1 .. Len(x) /\ l \notin 1 .. Len(w)
        BY <1>1, <2>3
      <4> QED
        BY <2>1, <4>1
    <3> QED
      BY <3>1, <3>2, <3>3
  <2> QED
    BY <2>2, <2>3
<1> QED
  BY <1>2, <1>3, <1>5, <1>6 DEF HeaderState, FlvState, x

(* Frames of kind k are added, of a key frame if none was sent yet.        *)
LEMMA KeyKept ==
  ASSUME NEW info \in InfoType, NEW w \in Seq(Unit), NEW s \in Seq(Unit), NEW k,
         \A i \in 1 .. Len(s) : IsFrame(s[i]) /\ s[i][1] = k,
         KeyState(info, w), info.send_key_frame_first => k = "key",
         NEW j \in InfoType,
         \/ j.send_key_frame_first = info.send_key_frame_first
         \/ j.send_key_frame_first = FALSE /\ Len(s) > 0
  PROVE  KeyState(j, w \o s)
<1> DEFINE x == w \o s
<1>1. /\ x \in Seq(Unit) /\ Len(w) \in Nat /\ Len(s) \in Nat /\ Len(x) = Len(w) + Len(s)
      /\ \A i \in 1 .. Len(w) : i \in 1 .. Len(x) /\ x[i] = w[i]
      /\ \A i \in 1 .. Len(s) : Len(w) + i \in 1 .. Len(x) /\ x[Len(w) + i] = s[i]
      /\ \A i \in 1 .. Len(x) :
           \/ i \in 1 .. Len(w)
           \/ i - Len(w) \in 1 .. Len(s) /\ x[i] = s[i - Len(w)]
  BY Appended
<1> HIDE DEF x
<1>2. j.send_key_frame_first \in BOOLEAN /\ info.send_key_frame_first \in BOOLEAN
  BY InfoFields
<1>3. ASSUME info.send_key_frame_first, NEW i \in 1 .. Len(x), IsFrame(x[i])
      PROVE  x[i][1] = "key"
  <2>1. CASE i \in 1 .. Len(w)
    BY <1>1, <1>3, <2>1 DEF KeyState
  <2>2. CASE i - Len(w) \in 1 .. Len(s) /\ x[i] = s[i - Len(w)]
    BY <1>3, <2>2
  <2> QED
    BY <1>1, <2>1, <2>2
<1>4. ~info.send_key_frame_first => ~NoFrame(x)
  BY <1>1 DEF KeyState, NoFrame
<1>5. Len(s) > 0 => ~NoFrame(x)
  <2> SUFFICES ASSUME Len(s) > 0 PROVE ~NoFrame(x)
    OBVIOUS
  <2>1. 1 \in 1 .. Len(s)
    BY <1>1
  <2>2. Len(w) + 1 \in 1 .. Len(x) /\ x[Len(w) + 1] = s[1] /\ IsFrame(s[1])
    BY <1>1, <2>1
  <2> QED
    BY <2>2 DEF NoFrame
<1>6. KeyFirst(x)
  <2>1. CASE info.send_key_frame_first
    BY <1>3, <2>1 DEF KeyFirst
  <2>2. CASE ~info.send_key_frame_first
    <3> SUFFICES ASSUME NEW i \in 1 .. Len(x), IsFrame(x[i]),
                        \A l \in 1 .. i - 1 : ~IsFrame(x[l])
                 PROVE  x[i][1] = "key"
      BY DEF KeyFirst
    <3>1. PICK l \in 1 .. Len(w) : IsFrame(w[l])
      BY <2>2 DEF KeyState, NoFrame
    <3>2. l \notin 1 .. i - 1
      BY <1>1, <3>1
    <3>3. i \in 1 .. Len(w)
      BY <1>1, <3>2
    <3>4. IsFrame(w[i]) /\ x[i] = w[i]
      BY <1>1, <3>3
    <3>5. \A m \in 1 .. i - 1 : ~IsFrame(w[m])
      BY <1>1, <3>3, SMTT(30)
    <3> QED
      BY <3>3, <3>4, <3>5 DEF KeyState, KeyFirst
  <2> QED
    BY <2>1, <2>2
<1> QED
  BY <1>2, <1>3, <1>4, <1>5, <1>6 DEF KeyState, x

(* An operation on the queue changes no other field.                       *)
LEMMA QueuePut ==
  ASSUME NEW info \in InfoType, NEW p, Ring!Good(p)
  PROVE  /\ [info EXCEPT !.viewer_queue = p] \in InfoType
         /\ [info EXCEPT !.viewer_queue = p].viewer_queue = p
         /\ [info EXCEPT !.viewer_queue = p].active = info.active
         /\ [info EXCEPT !.viewer_queue = p].register_viewer_callback_first
              = info.register_viewer_callback_first
         /\ [info EXCEPT !.viewer_queue = p].send_key_frame_first = info.send_key_frame_first
         /\ [info EXCEPT !.viewer_queue = p].not_sent_done = info.not_sent_done
         /\ [info EXCEPT !.viewer_queue = p].send_first = info.send_first
<1>1. p \in [flv_tags : [Slot -> FrameType \cup {NULL}],
             front : 0 .. CACHED_TAGS_LIMIT, rear : 0 .. CACHED_TAGS_LIMIT,
             empty : BOOLEAN]
  BY GoodQueue
<1> QED
  BY <1>1 DEF InfoType

(* ... the last one that a frame goes out to its end.                      *)
LEMMA QueuePutFirst ==
  ASSUME NEW info \in InfoType, NEW p, Ring!Good(p)
  PROVE  LET j == [info EXCEPT !.viewer_queue = p, !.send_key_frame_first = FALSE]
         IN  /\ j \in InfoType /\ j.viewer_queue = p /\ j.active = info.active
             /\ j.register_viewer_callback_first = info.register_viewer_callback_first
             /\ j.send_key_frame_first = FALSE
             /\ j.not_sent_done = info.not_sent_done /\ j.send_first = info.send_first
<1>1. p \in [flv_tags : [Slot -> FrameType \cup {NULL}],
             front : 0 .. CACHED_TAGS_LIMIT, rear : 0 .. CACHED_TAGS_LIMIT,
             empty : BOOLEAN]
  BY GoodQueue
<1> QED
  BY <1>1 DEF InfoType

(* A viewer past its headers gets s, of frames of kind k, and its queue    *)
(* becomes that of j.                                                      *)
LEMMA HeadSent ==
  ASSUME NEW info \in InfoType, NEW j \in InfoType, NEW w \in Seq(Unit), NEW s \in Seq(Unit),
         NEW n \in Nat, NEW offset, NEW k,
         ViewerInv(info, w, n, offset), ~info.send_first, info.active,
         ~info.viewer_queue.empty,
         j.active = info.active,
         j.register_viewer_callback_first = info.register_viewer_callback_first,
         j.not_sent_done = info.not_sent_done, j.send_first = info.send_first,
         \A i \in 1 .. Len(s) : IsFrame(s[i]) /\ s[i][1] = k,
         info.send_key_frame_first => k = "key",
         \/ j.send_key_frame_first = info.send_key_frame_first
         \/ j.send_key_frame_first = FALSE /\ Len(s) > 0,
         Ring!Good(j.viewer_queue), QueueState(j, w \o s, n)
  PROVE  ViewerInv(j, w \o s, n, offset)
<1>1. WatcherState(info) /\ HeaderState(info, w) /\ FlvState(info, w, offset)
      /\ KeyState(info, w)
  BY DEF ViewerInv
<1>2. HeaderState(j, w \o s) /\ FlvState(j, w \o s, offset)
  BY <1>1, FramesAfterHeaders
<1>3. KeyState(j, w \o s)
  BY <1>1, KeyKept
<1>4. WatcherState(j)
  BY <1>1 DEF WatcherState
<1> QED
  BY <1>2, <1>3, <1>4 DEF ViewerInv

(* The four things that may happen to the head.                            *)
LEMMA SendHeadStep ==
  ASSUME NEW info \in InfoType, NEW w \in Seq(Unit), NEW n \in Nat, NEW r \in Nat, NEW offset,
         ViewerInv(info, w, n, offset), ~info.send_first, info.active
  PROVE  /\ SendHead(info, r) \in InfoType
         /\ w \o SendHeadUnits(info, r) \in Seq(Unit)
         /\ ViewerInv(SendHead(info, r), w \o SendHeadUnits(info, r), n, offset)
<1> DEFINE q == info.viewer_queue
           t == viewer_queue_top(q)
           c == Contents(q)
           p == viewer_queue_pop(q)
<1>1. Ring!Good(q) /\ QueueState(info, w, n)
  BY DEF ViewerInv
<1>2. CASE q.empty
  <2> DEFINE j == [info EXCEPT !.active = FALSE]
  <2>1. SendHead(info, r) = j /\ SendHeadUnits(info, r) = << >>
    BY <1>2 DEF SendHead, SendHeadUnits, viewer_queue_empty
  <2>2. /\ j \in InfoType /\ j.viewer_queue = q
        /\ j.register_viewer_callback_first = info.register_viewer_callback_first
        /\ j.send_key_frame_first = info.send_key_frame_first
        /\ j.not_sent_done = info.not_sent_done /\ j.send_first = info.send_first
    BY DEF InfoType
  <2>3. w \o << >> = w
    OBVIOUS
  <2> HIDE DEF j
  <2>4. WatcherState(j)
    BY <1>2, <2>2 DEF WatcherState
  <2>5. HeaderState(j, w) /\ FlvState(j, w, offset) /\ KeyState(j, w) /\ QueueState(j, w, n)
    BY <2>2 DEF ViewerInv, HeaderState, FlvState, KeyState, QueueState
  <2>6. ViewerInv(j, w, n, offset)
    BY <1>1, <2>2, <2>4, <2>5 DEF ViewerInv
  <2> QED
    BY <2>1, <2>2, <2>3, <2>6
<1>3. CASE ~q.empty
  <2>1. t = c[1] /\ t \in FrameType /\ Len(c) > 0 /\ c \in Seq(FrameType)
    BY <1>1, <1>3, TopQueue, GoodQueue
  <2>2. Ring!Good(p) /\ Contents(p) = Tail(c)
    BY <1>1, <1>3, PopQueue
  <2>3. ListInOrder(c, n) /\ WireBehindList(w, c, n) /\ InOrder(w)
    BY <1>1 DEF QueueState
  <2>4. ListInOrder(Tail(c), n) /\ WireBehindList(w, Tail(c), n)
    BY <2>1, <2>3, PopList
  <2>5. /\ t.sent_bytes \in Nat /\ t.sent_bytes < Size /\ Size \in Nat
        /\ t.is_key_frame \in BOOLEAN
    BY <2>1, FrameFields, SizeAssumption
  <2>6. /\ Kind(t) = "key" <=> t.is_key_frame
        /\ Kind(c[1]) = Kind(t) /\ c[1].payload = t.payload /\ c[1].sent_bytes = t.sent_bytes
    BY <2>1 DEF Kind
  <2>7. CASE info.send_key_frame_first /\ ~t.is_key_frame
    <3> DEFINE j == [info EXCEPT !.viewer_queue = p]
    <3>1. SendHead(info, r) = j /\ SendHeadUnits(info, r) = << >>
      BY <1>3, <2>7 DEF SendHead, SendHeadUnits, viewer_queue_empty
    <3>2. /\ j \in InfoType /\ j.viewer_queue = p /\ j.active = info.active
          /\ j.register_viewer_callback_first = info.register_viewer_callback_first
          /\ j.send_key_frame_first = info.send_key_frame_first
          /\ j.not_sent_done = info.not_sent_done /\ j.send_first = info.send_first
      BY <2>2, QueuePut
    <3> HIDE DEF j
    <3>3. w \o << >> = w /\ << >> \in Seq(Unit) /\ Len(<< >>) = 0
      OBVIOUS
    <3>4. QueueState(j, w, n)
      BY <2>2, <2>3, <2>4, <3>2 DEF QueueState
    <3>5. HeaderState(j, w) /\ FlvState(j, w, offset) /\ KeyState(j, w)
      BY <3>2 DEF ViewerInv, HeaderState, FlvState, KeyState
    <3>6. WatcherState(j)
      BY <1>3, <3>2 DEF WatcherState, ViewerInv
    <3>7. ViewerInv(j, w, n, offset)
      BY <2>2, <3>2, <3>4, <3>5, <3>6 DEF ViewerInv
    <3> QED
      BY <3>1, <3>2, <3>3, <3>7
  <2>8. CASE ~(info.send_key_frame_first /\ ~t.is_key_frame) /\ t.sent_bytes + r < Size
    <3> DEFINE m == [q EXCEPT !.flv_tags[q.front].sent_bytes = @ + r]
               j == [info EXCEPT !.viewer_queue = m]
               e == t.sent_bytes + r
               s == Units(Kind(c[1]), c[1].payload, c[1].sent_bytes, e)
               x == w \o s
               d == [c EXCEPT ![1].sent_bytes = @ + r]
    <3>1. SendHead(info, r) = j
      <4>1. info.viewer_queue = q
        OBVIOUS
      <4>2. [info EXCEPT !.viewer_queue.flv_tags[q.front].sent_bytes = @ + r]
              = [info EXCEPT !.viewer_queue = m]
        BY DEF InfoType
      <4> QED
        BY <1>3, <2>8, <4>2 DEF SendHead, viewer_queue_empty
    <3>2. SendHeadUnits(info, r) = s
      BY <1>3, <2>6, <2>8 DEF SendHeadUnits, viewer_queue_empty
    <3>3. Ring!Good(m) /\ Contents(m) = d
      BY <1>1, <1>3, <2>8, PartQueue
    <3>4. e \in 0 .. Size /\ c[1].sent_bytes <= e /\ e \in Nat /\ c[1].sent_bytes \in Nat
          /\ e = c[1].sent_bytes + r
      BY <2>5, <2>6, <2>8
    <3> HIDE DEF m
    <3>5. /\ j \in InfoType /\ j.viewer_queue = m /\ j.active = info.active
          /\ j.register_viewer_callback_first = info.register_viewer_callback_first
          /\ j.send_key_frame_first = info.send_key_frame_first
          /\ j.not_sent_done = info.not_sent_done /\ j.send_first = info.send_first
      BY <3>3, QueuePut
    <3>6. /\ d \in Seq(FrameType) /\ Len(d) = Len(c)
          /\ d[1].payload = c[1].payload /\ d[1].sent_bytes = e /\ Kind(d[1]) = Kind(c[1])
          /\ \A i \in 2 .. Len(c) : d[i] = c[i]
      <4>1. d[1] = [c[1] EXCEPT !.sent_bytes = e] /\ Len(d) = Len(c)
            /\ \A i \in 2 .. Len(c) : d[i] = c[i]
        BY <2>1, <3>4
      <4>2. e \in 0 .. Size - 1
        BY <2>5, <2>8, <3>4
      <4> HIDE DEF e
      <4>3. /\ [c[1] EXCEPT !.sent_bytes = e] \in FrameType
            /\ [c[1] EXCEPT !.sent_bytes = e].sent_bytes = e
            /\ [c[1] EXCEPT !.sent_bytes = e].payload = c[1].payload
            /\ [c[1] EXCEPT !.sent_bytes = e].is_key_frame = c[1].is_key_frame
        BY <2>1, <4>2 DEF FrameType
      <4>4. d \in Seq(FrameType)
        <5>1. [c[1] EXCEPT !.sent_bytes = @ + r] = [c[1] EXCEPT !.sent_bytes = e]
          BY <2>1, <3>4
        <5>2. d = [c EXCEPT ![1] = [c[1] EXCEPT !.sent_bytes = e]]
          BY <2>1, <5>1
        <5>3. 1 \in 1 .. Len(c)
          BY <2>1
        <5> HIDE DEF c, d
        <5>4. \A z \in FrameType : [c EXCEPT ![1] = z] \in Seq(FrameType)
          BY <2>1, <5>3, ExceptSeq
        <5> QED
          BY <4>3, <5>2, <5>4
      <4> QED
        BY <4>1, <4>3, <4>4 DEF Kind
    <3> HIDE DEF j, e, d
    <3>7. /\ s \in Seq(Unit) /\ x \in Seq(Unit)
          /\ \A i \in 1 .. Len(s) : IsFrame(s[i]) /\ s[i][1] = Kind(c[1])
          /\ InOrder(x)
          /\ \A i \in 1 .. Len(x) : IsFrame(x[i]) =>
               /\ x[i][2] <= n
               /\ x[i][2] < c[1].payload \/ (x[i][2] = c[1].payload /\ x[i][3] <= e)
          /\ e > 0 => \E i \in 1 .. Len(x) : x[i] = <<Kind(c[1]), c[1].payload, e>>
      <4>1. s = Units(Kind(c[1]), c[1].payload, c[1].sent_bytes, e)
        OBVIOUS
      <4>3. /\ w \in Seq(Unit) /\ c \in Seq(FrameType) /\ Len(c) > 0 /\ n \in Nat
            /\ ListInOrder(c, n) /\ WireBehindList(w, c, n) /\ InOrder(w)
            /\ e \in 0 .. Size /\ c[1].sent_bytes <= e
        BY <2>1, <2>3, <3>4
      <4> HIDE DEF q, t, p, s, x, c
      <4>2. HeadOut(w, c, n, e, s)
        BY <4>1, <4>3, FramesAdded
      <4> QED
        BY <4>2 DEF HeadOut, x
    <3> HIDE DEF s, x
    <3>8. ListInOrder(d, n)
      <4>1. \A i \in 1 .. Len(c) : i = 1 \/ i \in 2 .. Len(c)
        BY <2>1
      <4>2. \A i \in 1 .. Len(c) : d[i].payload = c[i].payload
        BY <3>6, <4>1
      <4>3. \A i \in 2 .. Len(c) : d[i].sent_bytes = c[i].sent_bytes
        BY <3>6
      <4> HIDE DEF c
      <4> QED
        BY <2>3, <3>6, <4>2, <4>3 DEF ListInOrder
    <3>9. WireBehindList(x, d, n)
      <4> HIDE DEF c
      <4> QED
        BY <3>6, <3>7 DEF WireBehindList, Behind
    <3>10. QueueState(j, x, n)
      BY <3>3, <3>5, <3>7, <3>8, <3>9 DEF QueueState
    <3>11. info.send_key_frame_first => Kind(c[1]) = "key"
      BY <2>6, <2>8
    <3>12. ViewerInv(j, w \o s, n, offset)
      BY <1>3, <3>3, <3>5, <3>7, <3>10, <3>11, HeadSent DEF x
    <3> QED
      BY <3>1, <3>2, <3>5, <3>7, <3>12 DEF x
  <2>9. CASE ~(info.send_key_frame_first /\ ~t.is_key_frame) /\ ~(t.sent_bytes + r < Size)
    <3> DEFINE j == [info EXCEPT !.viewer_queue = p, !.send_key_frame_first = FALSE]
               s == Units(Kind(c[1]), c[1].payload, c[1].sent_bytes, Size)
               x == w \o s
               d == Tail(c)
    <3>1. SendHead(info, r) = j
      BY <1>3, <2>9 DEF SendHead, viewer_queue_empty
    <3>2. SendHeadUnits(info, r) = s
      BY <1>3, <2>6, <2>9 DEF SendHeadUnits, viewer_queue_empty
    <3>4. Size \in 0 .. Size /\ c[1].sent_bytes <= Size /\ Size > 0
      BY <2>5, <2>6, SizeAssumption
    <3>5. /\ j \in InfoType /\ j.viewer_queue = p /\ j.active = info.active
          /\ j.register_viewer_callback_first = info.register_viewer_callback_first
          /\ j.send_key_frame_first = FALSE
          /\ j.not_sent_done = info.not_sent_done /\ j.send_first = info.send_first
      BY <2>2, QueuePutFirst
    <3> HIDE DEF j
    <3>7. /\ s \in Seq(Unit) /\ x \in Seq(Unit) /\ Len(s) = Size - c[1].sent_bytes
          /\ \A i \in 1 .. Len(s) : IsFrame(s[i]) /\ s[i][1] = Kind(c[1])
          /\ InOrder(x)
          /\ \A i \in 1 .. Len(x) : IsFrame(x[i]) =>
               /\ x[i][2] <= n
               /\ x[i][2] < c[1].payload \/ (x[i][2] = c[1].payload /\ x[i][3] <= Size)
      <4>1. s = Units(Kind(c[1]), c[1].payload, c[1].sent_bytes, Size)
        OBVIOUS
      <4>3. /\ w \in Seq(Unit) /\ c \in Seq(FrameType) /\ Len(c) > 0 /\ n \in Nat
            /\ ListInOrder(c, n) /\ WireBehindList(w, c, n) /\ InOrder(w)
            /\ Size \in 0 .. Size /\ c[1].sent_bytes <= Size
        BY <2>1, <2>3, <3>4
      <4> HIDE DEF q, t, p, s, x, c
      <4>2. HeadOut(w, c, n, Size, s)
        BY <4>1, <4>3, FramesAdded
      <4> QED
        BY <4>2 DEF HeadOut, x
    <3>70. Len(s) > 0
      BY <2>5, <2>6, <3>7
    <3> HIDE DEF s, x
    <3>8. WireBehindList(x, d, n)
      <4>1. ASSUME Len(d) > 0
            PROVE  d[1].sent_bytes = 0 /\ d[1].payload > c[1].payload
                   /\ d[1].payload \in Nat /\ c[1].payload \in Nat
        <5>1. d[1] = c[2] /\ 2 \in 2 .. Len(c) /\ 2 \in 1 .. Len(c) /\ 1 \in 1 .. Len(c)
          BY <2>1, <4>1
        <5>2. c[2] \in FrameType /\ c[1] \in FrameType
          BY <2>1, <5>1
        <5>3. c[2].sent_bytes = 0 /\ c[1].payload < c[2].payload
          BY <2>3, <5>1 DEF ListInOrder
        <5> HIDE DEF c, d
        <5> QED
          BY <5>1, <5>2, <5>3, FrameFields
      <4> HIDE DEF c, d
      <4>2. ASSUME Len(d) > 0, NEW i \in 1 .. Len(x), IsFrame(x[i])
            PROVE  Behind(x[i], d[1])
        <5>1. x[i][2] \in Nat
          BY <3>7, UnitFields
        <5>2. x[i][2] <= c[1].payload
          BY <3>7, <4>1, <4>2, <5>1, SMTT(30)
        <5>3. x[i][2] < d[1].payload
          BY <4>1, <4>2, <5>1, <5>2
        <5> QED
          BY <5>3 DEF Behind
      <4>3. Len(d) > 0 => ~(d[1].sent_bytes > 0)
        BY <4>1
      <4>4. \A i \in 1 .. Len(x) : IsFrame(x[i]) => x[i][2] <= n
        BY <3>7
      <4> QED
        BY <4>2, <4>3, <4>4 DEF WireBehindList
    <3>10. QueueState(j, x, n)
      BY <2>2, <2>4, <3>5, <3>7, <3>8 DEF QueueState
    <3>11. info.send_key_frame_first => Kind(c[1]) = "key"
      BY <2>6, <2>9
    <3>12. ViewerInv(j, w \o s, n, offset)
      BY <1>3, <2>2, <3>5, <3>7, <3>70, <3>10, <3>11, HeadSent DEF x
    <3> QED
      BY <3>1, <3>2, <3>5, <3>7, <3>12 DEF x
  <2> QED
    BY <2>7, <2>8, <2>9
<1> QED
  BY <1>2, <1>3

-----------------------------------------------------------------------------
(* A new viewer.                                                           *)
LEMMA NewViewer ==
  ASSUME NEW n \in Nat, NEW offset
  PROVE  new_viewer_info \in InfoType /\ ViewerInv(new_viewer_info, << >>, n, offset)
<1> DEFINE q == new_viewer_queue
           j == new_viewer_info
<1>1. Ring!Good(q) /\ Contents(q) = << >> /\ q.empty
  BY NewQueue
<1>2. q \in [flv_tags : [Slot -> FrameType \cup {NULL}],
             front : 0 .. CACHED_TAGS_LIMIT, rear : 0 .. CACHED_TAGS_LIMIT,
             empty : BOOLEAN]
  BY <1>1, GoodQueue
<1> HIDE DEF q
<1>3. /\ j \in InfoType /\ j.viewer_queue = q /\ j.send_first
      /\ j.send_key_frame_first /\ j.not_sent_done["flv"]
  BY <1>2 DEF new_viewer_info, InfoType, Header, q
<1> HIDE DEF j
<1>4. NoFrame(<< >>) /\ Len(<< >>) = 0
  BY DEF NoFrame
<1>5. InOrder(<< >>) /\ KeyFirst(<< >>) /\ HeadersThenFrames(<< >>)
  BY <1>4, NoFrameOrder
<1>6. WatcherState(j)
  BY <1>1, <1>3 DEF WatcherState
<1>7. HeaderState(j, << >>) /\ FlvState(j, << >>, offset) /\ KeyState(j, << >>)
  BY <1>3, <1>4, <1>5 DEF HeaderState, FlvState, KeyState
<1>8. QueueState(j, << >>, n)
  BY <1>1, <1>3, <1>4, <1>5 DEF QueueState, ListInOrder, WireBehindList
<1> QED
  BY <1>1, <1>3, <1>6, <1>7, <1>8 DEF ViewerInv, j

(* The next tag of the camera goes into the queue of a viewer.             *)
LEMMA QueueTagStep ==
  ASSUME NEW info \in InfoType, NEW w \in Seq(Unit), NEW n \in Nat, NEW offset,
         NEW t \in FrameType, t.payload = n + 1, t.sent_bytes = 0,
         ViewerInv(info, w, n, offset)
  PROVE  QueueTag(info, t) \in InfoType /\ ViewerInv(QueueTag(info, t), w, n + 1, offset)
<1> DEFINE q == info.viewer_queue
           m == Room(q)
           p == viewer_queue_push(m, t)
           a == viewer_queue_empty(q) \/ (info.active /\ ~info.register_viewer_callback_first)
           j == [info EXCEPT !.register_viewer_callback_first = FALSE, !.active = a,
                             !.viewer_queue = p]
<1>1. /\ Ring!Good(q) /\ WatcherState(info) /\ HeaderState(info, w)
      /\ FlvState(info, w, offset) /\ KeyState(info, w) /\ QueueState(info, w, n)
  BY DEF ViewerInv
<1>2. /\ Ring!Good(m) /\ Ring!Good(p) /\ Contents(p) = Append(Contents(m), t) /\ ~p.empty
  BY <1>1, PushQueue
<1>3. QueueTag(info, t) = j
  BY DEF QueueTag, Room, InfoType
<1>4. a = TRUE
  BY <1>1 DEF WatcherState, viewer_queue_empty
<1>5. p \in [flv_tags : [Slot -> FrameType \cup {NULL}],
             front : 0 .. CACHED_TAGS_LIMIT, rear : 0 .. CACHED_TAGS_LIMIT,
             empty : BOOLEAN]
  BY <1>2, GoodQueue
<1>6. /\ Contents(q) \in Seq(FrameType) /\ ListInOrder(Contents(q), n)
      /\ WireBehindList(w, Contents(q), n) /\ InOrder(w)
  BY <1>1, GoodQueue DEF QueueState
<1>7. /\ Contents(m) \in Seq(FrameType) /\ ListInOrder(Contents(m), n)
      /\ WireBehindList(w, Contents(m), n)
  <2>1. CASE viewer_queue_full(q)
    <3>1. m = drop_frame(q)
      BY <2>1 DEF Room
    <3>2. PICK k \in 1 .. Len(Contents(q)) :
            Contents(drop_frame(q)) = Ring!Fifo!Without(Contents(q), k)
      BY <1>1, <2>1, DropQueue
    <3> QED
      BY <1>6, <3>1, <3>2, DropList
  <2>2. CASE ~viewer_queue_full(q)
    BY <1>6, <2>2 DEF Room
  <2> QED
    BY <2>1, <2>2
<1> HIDE DEF p, a, m
<1>8. /\ j \in InfoType /\ j.viewer_queue = p /\ j.active = a
      /\ j.register_viewer_callback_first = FALSE
      /\ j.send_key_frame_first = info.send_key_frame_first
      /\ j.not_sent_done = info.not_sent_done /\ j.send_first = info.send_first
  BY <1>4, <1>5 DEF InfoType
<1> HIDE DEF j
<1>9. WatcherState(j)
  BY <1>4, <1>8 DEF WatcherState
<1>10. HeaderState(j, w) /\ FlvState(j, w, offset) /\ KeyState(j, w)
  BY <1>1, <1>8 DEF HeaderState, FlvState, KeyState
<1>11. QueueState(j, w, n + 1)
  <2>1. /\ ListInOrder(Append(Contents(m), t), n + 1)
        /\ WireBehindList(w, Append(Contents(m), t), n + 1)
    BY <1>7, PushList
  <2> QED
    BY <1>2, <1>6, <1>8, <2>1 DEF QueueState
<1>12. ViewerInv(j, w, n + 1, offset)
  BY <1>2, <1>8, <1>9, <1>10, <1>11 DEF ViewerInv
<1> QED
  BY <1>3, <1>8, <1>12

-----------------------------------------------------------------------------
(* An offset that grows takes nothing away.                                *)
LEMMA OffsetGrows ==
  ASSUME NEW info, NEW w, NEW n, NEW o \in Nat, NEW m \in Nat, ViewerInv(info, w, n, o)
  PROVE  ViewerInv(info, w, n, o + m)
<1>1. o + m = 0 => o = 0
  OBVIOUS
<1> QED
  BY <1>1 DEF ViewerInv, FlvState

(* What the invariant says of the numbers and of one viewer.               *)
LEMMA StateFacts ==
  ASSUME IInv
  PROVE  /\ OffsetsInRange /\ generation \in [Header -> Nat]
         /\ tags \in Nat /\ "flv" \in Header
         /\ header_sent_bytes["flv"] \in Nat
         /\ \A v \in DOMAIN viewer_info_pool :
              /\ v \in Viewer /\ camera_online
              /\ viewer_info_pool[v] \in InfoType /\ wire[v] \in Seq(Unit)
              /\ ViewerInv(viewer_info_pool[v], wire[v], tags, header_sent_bytes["flv"])
         /\ camera_online => generation["flv"] = 1
<1>1. OffsetsInRange /\ generation \in [Header -> Nat] /\ tags \in Nat
  BY BoundsAssumption DEF IInv, TypeOK, OffsetsInRange
<1>2. "flv" \in Header
  BY DEF Header
<1>3. header_sent_bytes["flv"] \in Nat
  BY <1>1, <1>2, SizeAssumption DEF OffsetsInRange
<1>4. ASSUME NEW v \in DOMAIN viewer_info_pool
      PROVE  /\ v \in Viewer /\ camera_online
             /\ viewer_info_pool[v] \in InfoType /\ wire[v] \in Seq(Unit)
             /\ ViewerInv(viewer_info_pool[v], wire[v], tags, header_sent_bytes["flv"])
  BY DEF IInv, TypeOK
<1> QED
  BY <1>1, <1>2, <1>3, <1>4 DEF IInv

(* At the start there is no viewer and no channel.                         *)
LEMMA InitIInv == Init => IInv
<1> SUFFICES ASSUME Init PROVE IInv
  OBVIOUS
<1>1. DOMAIN viewer_info_pool = {}
  BY DEF Init
<1>2. wire \in [Viewer -> Seq(Unit)] /\ \A v \in Viewer : wire[v] = << >>
  BY DEF Init
<1>3. /\ generation \in [Header -> 0 .. MaxHeaders + 1]
      /\ header_sent_bytes \in [Header -> 0 .. Size - 1]
      /\ tags \in 0 .. MaxTags
  <2>1. 0 \in 0 .. MaxHeaders + 1 /\ 0 \in 0 .. Size - 1 /\ 0 \in 0 .. MaxTags
    BY BoundsAssumption, SizeAssumption
  <2> QED
    BY <2>1 DEF Init
<1>4. TypeOK
  BY <1>1, <1>2, <1>3 DEF TypeOK, Init
<1> QED
  BY <1>1, <1>2, <1>4 DEF IInv, Init

(* A channel starts without viewers and with the FLV header only.          *)
LEMMA StartCameraStep == IInv /\ StartCamera => IInv'
<1> SUFFICES ASSUME IInv, StartCamera PROVE IInv'
  OBVIOUS
<1>1. DOMAIN viewer_info_pool' = {}
  BY DEF StartCamera, new_cameras
<1>2. DOMAIN viewer_info_pool = {} /\ wire' = wire
  BY DEF StartCamera, IInv
<1>3. /\ generation' \in [Header -> 0 .. MaxHeaders + 1]
      /\ header_sent_bytes' \in [Header -> 0 .. Size - 1]
      /\ tags' \in 0 .. MaxTags /\ generation'["flv"] = 1
  <2>1. /\ 0 \in 0 .. MaxHeaders + 1 /\ 1 \in 0 .. MaxHeaders + 1
        /\ 0 \in 0 .. Size - 1 /\ 0 \in 0 .. MaxTags
    BY BoundsAssumption, SizeAssumption
  <2> QED
    BY <2>1 DEF StartCamera, new_cameras, Header
<1>4. camera_online' = TRUE /\ stalled' = FALSE
  BY DEF StartCamera, new_cameras
<1>5. TypeOK'
  BY <1>1, <1>2, <1>3, <1>4 DEF TypeOK, IInv
<1> QED
  BY <1>1, <1>2, <1>3, <1>4, <1>5 DEF IInv

(* Its end closes every viewer.                                            *)
LEMMA DeleteCameraStep == IInv /\ delete_camera => IInv'
<1> SUFFICES ASSUME IInv, delete_camera PROVE IInv'
  OBVIOUS
<1>1. DOMAIN viewer_info_pool' = {}
  BY DEF delete_camera
<1>2. wire' \in [Viewer -> Seq(Unit)] /\ \A v \in Viewer : wire'[v] = << >>
  BY DEF delete_camera
<1>3. /\ generation' \in [Header -> 0 .. MaxHeaders + 1]
      /\ header_sent_bytes' \in [Header -> 0 .. Size - 1]
      /\ tags' \in 0 .. MaxTags
  <2>1. 0 \in 0 .. MaxHeaders + 1 /\ 0 \in 0 .. Size - 1 /\ 0 \in 0 .. MaxTags
    BY BoundsAssumption, SizeAssumption
  <2> QED
    BY <2>1 DEF delete_camera
<1>4. camera_online' = FALSE /\ stalled' = FALSE
  BY DEF delete_camera
<1>5. TypeOK'
  BY <1>1, <1>2, <1>3, <1>4 DEF TypeOK
<1> QED
  BY <1>1, <1>2, <1>4, <1>5 DEF IInv

(* The spin in the middle of a tag changes nothing else.                   *)
LEMMA StallStep == IInv /\ Stall => IInv'
BY DEF IInv, TypeOK, Stall

(* A new viewer has an empty queue and got nothing.                        *)
LEMMA JoinViewerStep == ASSUME NEW v \in Viewer PROVE IInv /\ JoinViewer(v) => IInv'
<1> SUFFICES ASSUME IInv, JoinViewer(v) PROVE IInv'
  OBVIOUS
<1> DEFINE o == header_sent_bytes["flv"]
<1>1. /\ camera_online /\ wire[v] = << >> /\ tags \in Nat
      /\ UNCHANGED <<camera_online, tags, generation, header_sent_bytes, stalled, wire>>
  BY StateFacts DEF JoinViewer, IInv
<1>2. new_viewer_info \in InfoType /\ ViewerInv(new_viewer_info, << >>, tags, o)
  BY <1>1, NewViewer
<1>3. /\ DOMAIN viewer_info_pool' = DOMAIN viewer_info_pool \cup {v}
      /\ viewer_info_pool'[v] = new_viewer_info
      /\ \A u \in DOMAIN viewer_info_pool : viewer_info_pool'[u] = viewer_info_pool[u]
  BY DEF JoinViewer
<1>4. ASSUME NEW u \in DOMAIN viewer_info_pool'
      PROVE  viewer_info_pool'[u] \in InfoType
             /\ ViewerInv(viewer_info_pool'[u], wire[u], tags, o)
  <2>1. CASE u = v
    BY <1>1, <1>2, <1>3, <2>1
  <2>2. CASE u \in DOMAIN viewer_info_pool
    BY <1>3, <2>2, StateFacts
  <2> QED
    BY <1>3, <2>1, <2>2
<1>5. TypeOK'
  BY <1>1, <1>3, <1>4 DEF TypeOK, IInv
<1> QED
  BY <1>1, <1>3, <1>4, <1>5 DEF IInv

(* A header tag resets its own offset, never that of the FLV header.       *)
LEMMA ReceiveHeaderStep == ASSUME NEW h \in Header PROVE IInv /\ ReceiveHeader(h) => IInv'
<1> SUFFICES ASSUME IInv, ReceiveHeader(h) PROVE IInv'
  OBVIOUS
<1>1. /\ h # "flv" /\ MoreHeaders
      /\ UNCHANGED <<camera_online, tags, viewer_info_pool, wire>> /\ stalled' = FALSE
      /\ generation' = [generation EXCEPT ![h] = @ + 1]
      /\ header_sent_bytes' = [header_sent_bytes EXCEPT ![h] = 0]
  BY DEF ReceiveHeader
<1>2. generation \in [Header -> 0 .. MaxHeaders + 1] /\ generation \in [Header -> Nat]
      /\ header_sent_bytes \in [Header -> 0 .. Size - 1] /\ "flv" \in Header
  BY StateFacts DEF IInv, TypeOK
<1>3. generation[h] + 1 \in 0 .. MaxHeaders + 1
  <2>1. generation["script"] \in Nat /\ generation["avc"] \in Nat /\ generation["aac"] \in Nat
    BY <1>2 DEF Header
  <2>2. h \in {"script", "avc", "aac"}
    BY <1>1 DEF Header
  <2>3. generation["script"] + generation["avc"] + generation["aac"] < MaxHeaders
    BY <1>1 DEF MoreHeaders
  <2> QED
    BY <2>1, <2>2, <2>3, BoundsAssumption
<1>4. 0 \in 0 .. Size - 1
  BY SizeAssumption
<1>5. /\ generation' \in [Header -> 0 .. MaxHeaders + 1]
      /\ header_sent_bytes' \in [Header -> 0 .. Size - 1]
      /\ generation'["flv"] = generation["flv"]
      /\ header_sent_bytes'["flv"] = header_sent_bytes["flv"]
  BY <1>1, <1>2, <1>3, <1>4
<1>6. TypeOK'
  BY <1>1, <1>5 DEF TypeOK, IInv
<1> QED
  BY <1>1, <1>5, <1>6 DEF IInv

(* A frame goes into every queue.                                          *)
LEMMA ReceiveTagStep == ASSUME NEW key \in BOOLEAN PROVE IInv /\ ReceiveTag(key) => IInv'
<1> SUFFICES ASSUME IInv, ReceiveTag(key) PROVE IInv'
  OBVIOUS
<1> DEFINE o == header_sent_bytes["flv"]
           t == Frame(tags + 1, key)
<1>1. /\ tags < MaxTags /\ tags' = tags + 1 /\ stalled' = FALSE
      /\ UNCHANGED <<camera_online, generation, header_sent_bytes, wire>>
      /\ DOMAIN viewer_info_pool' = DOMAIN viewer_info_pool
      /\ \A v \in DOMAIN viewer_info_pool :
           viewer_info_pool'[v] = QueueTag(viewer_info_pool[v], t)
  BY DEF ReceiveTag, MoreTags
<1>2. tags \in Nat /\ tags + 1 \in 1 .. MaxTags /\ tags + 1 \in 0 .. MaxTags
  BY <1>1, StateFacts, BoundsAssumption
<1>3. 0 \in 0 .. Size - 1
  BY SizeAssumption
<1>4. t \in FrameType /\ t.payload = tags + 1 /\ t.sent_bytes = 0
  BY <1>2, <1>3 DEF Frame, FrameType
<1> HIDE DEF t
<1>5. ASSUME NEW v \in DOMAIN viewer_info_pool
      PROVE  /\ viewer_info_pool'[v] \in InfoType
             /\ ViewerInv(viewer_info_pool'[v], wire[v], tags + 1, o)
  <2>1. /\ viewer_info_pool[v] \in InfoType /\ wire[v] \in Seq(Unit)
        /\ ViewerInv(viewer_info_pool[v], wire[v], tags, o)
    BY StateFacts
  <2>2. /\ QueueTag(viewer_info_pool[v], t) \in InfoType
        /\ ViewerInv(QueueTag(viewer_info_pool[v], t), wire[v], tags + 1, o)
    BY <1>2, <1>4, <2>1, QueueTagStep
  <2> QED
    BY <1>1, <2>2
<1>6. TypeOK'
  BY <1>1, <1>2, <1>5 DEF TypeOK, IInv
<1> QED
  BY <1>1, <1>5, <1>6 DEF IInv

(* A viewer whose write fails is forgotten.                                *)
LEMMA DeleteViewerStep == ASSUME NEW v \in Viewer PROVE IInv /\ delete_viewer(v) => IInv'
<1> SUFFICES ASSUME IInv, delete_viewer(v) PROVE IInv'
  OBVIOUS
<1>1. /\ UNCHANGED <<camera_online, tags, generation, header_sent_bytes, stalled>>
      /\ DOMAIN viewer_info_pool' = DOMAIN viewer_info_pool \ {v}
      /\ \A u \in DOMAIN viewer_info_pool' : viewer_info_pool'[u] = viewer_info_pool[u]
      /\ wire' = [wire EXCEPT ![v] = << >>]
  BY DEF delete_viewer
<1>2. /\ wire' \in [Viewer -> Seq(Unit)] /\ wire'[v] = << >>
      /\ \A u \in Viewer : u # v => wire'[u] = wire[u]
  BY <1>1 DEF IInv, TypeOK
<1>3. ASSUME NEW u \in DOMAIN viewer_info_pool'
      PROVE  /\ viewer_info_pool'[u] \in InfoType
             /\ ViewerInv(viewer_info_pool'[u], wire'[u], tags, header_sent_bytes["flv"])
  BY <1>1, <1>2, StateFacts
<1>4. TypeOK'
  BY <1>1, <1>2, <1>3 DEF TypeOK, IInv
<1>5. \A u \in Viewer \ DOMAIN viewer_info_pool' : wire'[u] = << >>
  BY <1>1, <1>2 DEF IInv
<1> QED
  BY <1>1, <1>3, <1>4, <1>5 DEF IInv

(* What both branches of send_tags_cb leave to show: the new state of v.   *)
LEMMA ViewerChanged ==
  ASSUME NEW v \in DOMAIN viewer_info_pool, IInv, NEW j \in InfoType, NEW x \in Seq(Unit),
         viewer_info_pool' = [viewer_info_pool EXCEPT ![v] = j],
         wire' = [wire EXCEPT ![v] = x],
         UNCHANGED <<camera_online, tags, generation, stalled>>,
         header_sent_bytes' \in [Header -> 0 .. Size - 1],
         NEW m \in Nat, header_sent_bytes'["flv"] = header_sent_bytes["flv"] + m,
         ViewerInv(j, x, tags, header_sent_bytes'["flv"])
  PROVE  IInv'
<1>1. /\ DOMAIN viewer_info_pool' = DOMAIN viewer_info_pool /\ viewer_info_pool'[v] = j
      /\ \A u \in DOMAIN viewer_info_pool : u # v => viewer_info_pool'[u] = viewer_info_pool[u]
  OBVIOUS
<1>2. v \in Viewer
  BY StateFacts
<1>3. /\ wire' \in [Viewer -> Seq(Unit)] /\ wire'[v] = x
      /\ \A u \in Viewer : u # v => wire'[u] = wire[u]
  BY <1>2 DEF IInv, TypeOK
<1>4. ASSUME NEW u \in DOMAIN viewer_info_pool
      PROVE  /\ viewer_info_pool'[u] \in InfoType
             /\ ViewerInv(viewer_info_pool'[u], wire'[u], tags, header_sent_bytes'["flv"])
  <2>1. CASE u = v
    BY <1>1, <1>3, <2>1
  <2>2. CASE u # v
    <3>1. /\ viewer_info_pool[u] \in InfoType /\ u \in Viewer
          /\ header_sent_bytes["flv"] \in Nat
          /\ ViewerInv(viewer_info_pool[u], wire[u], tags, header_sent_bytes["flv"])
      BY StateFacts
    <3>2. ViewerInv(viewer_info_pool[u], wire[u], tags, header_sent_bytes["flv"] + m)
      BY <3>1, OffsetGrows
    <3> QED
      BY <1>1, <1>3, <2>2, <3>1, <3>2
  <2> QED
    BY <2>1, <2>2
<1>5. TypeOK'
  BY <1>1, <1>3, <1>4 DEF TypeOK, IInv
<1>6. \A u \in Viewer \ DOMAIN viewer_info_pool' : wire'[u] = << >>
  BY <1>1, <1>3 DEF IInv
<1> QED
  BY <1>1, <1>4, <1>5, <1>6 DEF IInv

(* send_tags_cb: headers in part, or all of them and then the head.        *)
LEMMA SendTagsStep ==
  ASSUME NEW v \in Viewer, NEW b \in 0 .. MaxRoom PROVE IInv /\ send_tags_cb(v, b) => IInv'
<1> SUFFICES ASSUME IInv, send_tags_cb(v, b) PROVE IInv'
  OBVIOUS
<1> DEFINE info == viewer_info_pool[v]
           w == wire[v]
           hs == PendingHeaders(info)
           D == Done(hs, b)
           o == header_sent_bytes["flv"]
           x == HeadersWire(info, w, b)
<1>1. /\ v \in DOMAIN viewer_info_pool /\ info.active
      /\ UNCHANGED <<camera_online, tags, generation, stalled>>
      /\ SendHeadersPart(v, b) \/ SendHeadersAndTag(v, b)
  BY DEF send_tags_cb
<1>2. b \in Nat
  BY SizeAssumption DEF MaxRoom
<1>3. /\ OffsetsInRange /\ generation \in [Header -> Nat] /\ generation["flv"] = 1
      /\ info \in InfoType /\ w \in Seq(Unit) /\ tags \in Nat /\ o \in Nat
      /\ ViewerInv(info, w, tags, o) /\ "flv" \in Header
  BY <1>1, StateFacts
<1>4. hs \in SUBSET Header
  BY DEF PendingHeaders
<1>5. \A h \in Header : /\ Share(hs, b, h) \in Nat
                        /\ header_sent_bytes[h] + Share(hs, b, h) \in 0 .. Size
                        /\ h \notin D => header_sent_bytes[h] + Share(hs, b, h) < Size
  BY <1>2, <1>3, <1>4, Shares
<1>6. header_sent_bytes \in [Header -> 0 .. Size - 1]
  BY <1>3 DEF OffsetsInRange
<1>7. CASE SendHeadersPart(v, b)
  <2> DEFINE j == HeadersSent(info, D)
             f == header_sent_bytes'["flv"]
             m == IF "flv" \in D THEN 0 ELSE Share(hs, b, "flv")
  <2>1. /\ header_sent_bytes' = [h \in Header |-> IF h \in D THEN header_sent_bytes[h]
                                                  ELSE header_sent_bytes[h] + Share(hs, b, h)]
        /\ viewer_info_pool' = [viewer_info_pool EXCEPT ![v] = j]
        /\ wire' = [wire EXCEPT ![v] = x]
    BY <1>7 DEF SendHeadersPart, HeadersWire
  <2>2. header_sent_bytes' \in [Header -> 0 .. Size - 1]
    <3>1. \A h \in Header : (IF h \in D THEN header_sent_bytes[h]
                             ELSE header_sent_bytes[h] + Share(hs, b, h)) \in 0 .. Size - 1
      BY <1>5, <1>6, SizeAssumption
    <3> QED
      BY <2>1, <3>1
  <2>3. /\ f = IF "flv" \in D THEN o ELSE o + Share(hs, b, "flv")
        /\ m \in Nat /\ f = o + m
    BY <1>3, <1>5, <2>1
  <2> HIDE DEF f, m, j, x
  <2>4. x \in Seq(Unit) /\ j \in InfoType /\ ViewerInv(j, x, tags, f)
    <3> HIDE DEF hs, info, w
    <3>1. /\ j = HeadersSent(info, Done(hs, b)) /\ hs = PendingHeaders(info)
          /\ x = HeadersWire(info, w, b)
      BY DEF j, x, hs
    <3>2. \/ f = header_sent_bytes["flv"] /\ "flv" \in Done(hs, b)
          \/ f = header_sent_bytes["flv"] + Share(hs, b, "flv")
      BY <2>3
    <3> QED
      BY <1>2, <1>3, <3>1, <3>2, HeadersStep
  <2> QED
    BY <1>1, <2>1, <2>2, <2>3, <2>4, ViewerChanged DEF f
<1>8. CASE SendHeadersAndTag(v, b)
  <2> DEFINE j == AllSent(info, hs)
             r == b - AllOf(hs)
  <2>1. /\ D = hs /\ header_sent_bytes' = header_sent_bytes
        /\ viewer_info_pool' = [viewer_info_pool EXCEPT ![v] = SendHead(j, r)]
        /\ wire' = [wire EXCEPT ![v] = x \o SendHeadUnits(j, r)]
    BY <1>8 DEF SendHeadersAndTag, HeadersWire
  <2>2. r \in Nat
    BY <1>2, <1>3, <1>4, <2>1, RoomLeft
  <2>3. ~j.send_first /\ j.active
    BY <1>1, <1>3, <1>4, AllSentFields
  <2> HIDE DEF j, x, r
  <2>4. x \in Seq(Unit) /\ j \in InfoType /\ ViewerInv(j, x, tags, o)
    <3>1. /\ j = AllSent(info, Done(hs, b)) /\ Done(hs, b) = hs /\ hs = PendingHeaders(info)
          /\ x = HeadersWire(info, w, b)
      BY <2>1 DEF j, x
    <3> HIDE DEF hs, info, w
    <3> QED
      BY <1>2, <1>3, <3>1, HeadersStep
  <2>5. /\ SendHead(j, r) \in InfoType /\ x \o SendHeadUnits(j, r) \in Seq(Unit)
        /\ ViewerInv(SendHead(j, r), x \o SendHeadUnits(j, r), tags, o)
    BY <1>3, <2>2, <2>3, <2>4, SendHeadStep
  <2>6. 0 \in Nat /\ header_sent_bytes'["flv"] = header_sent_bytes["flv"] + 0
    BY <1>3, <2>1
  <2> DEFINE k == SendHead(j, r)
             y == x \o SendHeadUnits(j, r)
  <2>7. /\ k \in InfoType /\ y \in Seq(Unit)
        /\ viewer_info_pool' = [viewer_info_pool EXCEPT ![v] = k]
        /\ wire' = [wire EXCEPT ![v] = y]
        /\ header_sent_bytes' \in [Header -> 0 .. Size - 1]
        /\ ViewerInv(k, y, tags, header_sent_bytes'["flv"])
    BY <1>6, <2>1, <2>5
  <2> HIDE DEF k, y
  <2> QED
    BY <1>1, <2>6, <2>7, ViewerChanged
<1> QED
  BY <1>1, <1>7, <1>8

-----------------------------------------------------------------------------
(* Every step keeps the invariant.                                         *)
LEMMA StepIInv == IInv /\ [Next]_vars => IInv'
<1> SUFFICES ASSUME IInv, [Next]_vars PROVE IInv'
  OBVIOUS
<1>1. CASE StartCamera
  BY <1>1, StartCameraStep
<1>2. CASE delete_camera
  BY <1>2, DeleteCameraStep
<1>3. CASE Stall
  BY <1>3, StallStep
<1>4. CASE \E h \in Header : ReceiveHeader(h)
  BY <1>4, ReceiveHeaderStep
<1>5. CASE \E key \in BOOLEAN : ReceiveTag(key)
  BY <1>5, ReceiveTagStep
<1>6. ASSUME NEW v \in Viewer, JoinViewer(v) PROVE IInv'
  BY <1>6, JoinViewerStep
<1>7. ASSUME NEW v \in Viewer, delete_viewer(v) PROVE IInv'
  BY <1>7, DeleteViewerStep
<1>8. ASSUME NEW v \in Viewer, NEW b \in 0 .. MaxRoom, send_tags_cb(v, b) PROVE IInv'
  BY <1>8, SendTagsStep
<1>9. CASE UNCHANGED vars
  BY <1>9 DEF vars, IInv, TypeOK
<1> QED
  BY <1>1, <1>2, <1>3, <1>4, <1>5, <1>6, <1>7, <1>8, <1>9 DEF Next

(* The invariant holds in every reachable state.                           *)
LEMMA Invariance == Spec => []IInv
BY InitIInv, StepIInv, PTL DEF Spec

-----------------------------------------------------------------------------
(* The offsets into the headers stay below their length, whatever viewers  *)
(* share a channel: total_bytes of send_tags_cb never wraps around.        *)
THEOREM TypeCorrect == Spec => []TypeOK
<1>1. IInv => TypeOK
  BY DEF IInv
<1> QED
  BY <1>1, Invariance, PTL

(* No order of receive_stream_cb and send_tags_cb leaves tags in the queue *)
(* of a viewer whose watcher is stopped.                                   *)
THEOREM NoWakeupIsLost == Spec => []NoLostWakeup
<1>1. IInv => NoLostWakeup
  BY DEF IInv, ViewerInv, WatcherState, NoLostWakeup, viewer_queue_empty
<1> QED
  BY <1>1, Invariance, PTL

(* What the wire of a viewer looks like, in the pool or not.               *)
LEMMA WireOfViewer ==
  ASSUME IInv, NEW v \in Viewer
  PROVE  HeadersThenFrames(wire[v]) /\ KeyFirst(wire[v]) /\ InOrder(wire[v])
<1>1. CASE v \in DOMAIN viewer_info_pool
  BY <1>1 DEF IInv, ViewerInv, HeaderState, KeyState, QueueState
<1>2. CASE v \notin DOMAIN viewer_info_pool
  <2>1. wire[v] = << >>
    BY <1>2 DEF IInv
  <2>2. NoFrame(wire[v])
    BY <2>1 DEF NoFrame
  <2> QED
    BY <2>2, NoFrameOrder
<1> QED
  BY <1>1, <1>2

(* A viewer gets frames only after the end of the FLV header, and no       *)
(* header tag after its first frame.                                       *)
THEOREM HeadersComeFirst == Spec => []HeadersBeforeFrames
<1>1. IInv => HeadersBeforeFrames
  BY WireOfViewer DEF HeadersBeforeFrames, HeadersThenFrames
<1> QED
  BY <1>1, Invariance, PTL

(* The first frame of which a viewer gets anything is a key frame, whatever*)
(* drop_frame takes out of its queue.                                      *)
THEOREM KeyFrameComesFirst == Spec => []FirstFrameIsKey
<1>1. IInv => FirstFrameIsKey
  BY WireOfViewer DEF FirstFrameIsKey, KeyFirst
<1> QED
  BY <1>1, Invariance, PTL

(* Frames reach a viewer in the camera's order, none twice, and the units  *)
(* of each from its start on without a gap.                                *)
THEOREM FramesStayInOrder == Spec => []FramesInOrder
<1>1. IInv => FramesInOrder
  BY WireOfViewer DEF FramesInOrder, InOrder
<1> QED
  BY <1>1, Invariance, PTL

(* Until a viewer takes the FLV header in part, whoever is past it got all *)
(* of it once.                                                             *)
THEOREM FlvHeaderArrivesWhole == Spec => []FlvHeaderWhole
<1>1. IInv => FlvHeaderWhole
  BY DEF IInv, ViewerInv, FlvState, FlvHeaderWhole
<1> QED
  BY <1>1, Invariance, PTL

-----------------------------------------------------------------------------
(* A key frame that is partly sent.  First, the head of a queue is in one  *)
(* of its slots, ...                                                       *)
LEMMA HeadHasSlot ==
  ASSUME NEW q, Ring!Good(q), Len(Contents(q)) > 0
  PROVE  \E i \in Occupied(q) : q.flv_tags[i] = Contents(q)[1]
<1>1. /\ Ring!QueueLen(q) \in 0 .. CACHED_TAGS_LIMIT
      /\ Ring!Contents(q) \in Seq(Ring!Tag)
      /\ Len(Ring!Contents(q)) = Ring!QueueLen(q)
      /\ \A k \in 1 .. Ring!QueueLen(q) :
           /\ Ring!At(q, k) \in Ring!Occupied(q)
           /\ Ring!Contents(q)[k] = q.flv_tags[Ring!At(q, k)]
  BY Ring!ContentsSeq, RingAssumptions
<1>2. Len(Ring!Contents(q)) > 0 /\ Contents(q) = Ring!Contents(q)
      /\ Occupied(q) = Ring!Occupied(q)
  BY SameContents
<1>3. 1 \in 1 .. Ring!QueueLen(q)
  BY <1>1, <1>2, CachedTagsLimitAssumption
<1> QED
  BY <1>1, <1>2, <1>3

(* ... and a full queue whose list is of key frames has no other frame.    *)
LEMMA AllKeyFrames ==
  ASSUME NEW q, Ring!Good(q), viewer_queue_full(q),
         \A k \in 1 .. Len(Contents(q)) : Contents(q)[k].is_key_frame
  PROVE  NonKeySlots(q) = {}
<1>1. Ring!viewer_queue_full(q)
  BY SameQueue
<1>2. /\ q.front \in Ring!Slot
      /\ Len(Ring!Contents(q)) = CACHED_TAGS_LIMIT
      /\ \A k \in 1 .. CACHED_TAGS_LIMIT :
           Ring!Contents(q)[k] = q.flv_tags[Ring!From(q.front, k)]
  BY <1>1, Ring!FullRing, RingAssumptions
<1>3. ASSUME NEW i \in NonKeySlots(q) PROVE FALSE
  <2>1. i \in Ring!Slot /\ ~q.flv_tags[i].is_key_frame
    BY DEF NonKeySlots, Span, Slot, Ring!Slot
  <2> DEFINE d == Ring!Distance(q.front, i)
  <2>2. d \in 0 .. CACHED_TAGS_LIMIT - 1 /\ Ring!From(q.front, d + 1) = i
    BY <1>2, <2>1, Ring!FromDistance, RingAssumptions
  <2> HIDE DEF d
  <2>3. d + 1 \in 1 .. CACHED_TAGS_LIMIT
    BY <2>2, CachedTagsLimitAssumption
  <2>4. Ring!Contents(q)[d + 1] = q.flv_tags[i]
    BY <1>2, <2>2, <2>3
  <2>5. Contents(q)[d + 1].is_key_frame
    BY <1>2, <2>3, SameContents
  <2> QED
    BY <2>1, <2>4, <2>5, SameContents
<1> QED
  BY <1>3

(* The tag n is in no slot of the queue.                                   *)
GoneFrom(q, n) == \A i \in Occupied(q) : q.flv_tags[i].payload # n

(* The head cannot be gone where the list still starts with its number.    *)
LEMMA HeadNotGone ==
  ASSUME NEW q, Ring!Good(q), Len(Contents(q)) > 0, NEW n, Contents(q)[1].payload = n
  PROVE  ~GoneFrom(q, n)
BY HeadHasSlot DEF GoneFrom

(* A tag of the camera takes a key frame at the head only from a queue     *)
(* that is full of key frames.                                             *)
LEMMA TagTakesHead ==
  ASSUME NEW q, Ring!Good(q), ~q.empty, viewer_queue_top(q).is_key_frame,
         NEW t \in FrameType, t.sent_bytes = 0,
         GoneFrom(viewer_queue_push(Room(q), t), viewer_queue_top(q).payload)
  PROVE  viewer_queue_full(q) /\ NonKeySlots(q) = {}
<1> DEFINE c == Contents(q)
           m == Room(q)
           p == viewer_queue_push(m, t)
<1>1. viewer_queue_top(q) = c[1] /\ Len(c) > 0 /\ c \in Seq(FrameType)
  BY TopQueue, GoodQueue
<1>2. /\ Ring!Good(m) /\ Ring!Good(p) /\ Contents(p) = Append(Contents(m), t)
  BY PushQueue
<1>3. Contents(m) \in Seq(FrameType)
  BY <1>2, GoodQueue
<1>4. ~(Len(Contents(m)) > 0 /\ Contents(m)[1] = c[1])
  <2> SUFFICES ASSUME Len(Contents(m)) > 0, Contents(m)[1] = c[1] PROVE FALSE
    OBVIOUS
  <2>1. Len(Contents(p)) > 0 /\ Contents(p)[1] = c[1]
    BY <1>2, <1>3
  <2> HIDE DEF p
  <2>2. ~GoneFrom(p, c[1].payload)
    BY <1>2, <2>1, HeadNotGone
  <2> QED
    BY <1>1, <2>2 DEF p
<1>5. viewer_queue_full(q)
  BY <1>1, <1>4 DEF Room
<1>6. PICK k \in 1 .. Len(c) :
        /\ Contents(drop_frame(q)) = Ring!Fifo!Without(c, k)
        /\ \/ ~c[k].is_key_frame
           \/ k = 1 /\ \A j \in 1 .. Len(c) : c[j].is_key_frame
  BY <1>5, DropQueue
<1>7. ~(k > 1)
  <2> SUFFICES ASSUME k > 1 PROVE FALSE
    OBVIOUS
  <2>1. Contents(m) = [i \in 1 .. Len(c) - 1 |-> IF i < k THEN c[i] ELSE c[i + 1]]
    BY <1>5, <1>6 DEF Room, Ring!Fifo!Without
  <2> HIDE DEF m, c
  <2>2. Len(c) - 1 \in Nat /\ 1 \in 1 .. Len(c) - 1
    BY <1>1
  <2>3. Len(Contents(m)) = Len(c) - 1 /\ Contents(m)[1] = c[1]
    BY <2>1, <2>2
  <2> QED
    BY <1>4, <2>2, <2>3
<1>8. \A j \in 1 .. Len(c) : c[j].is_key_frame
  BY <1>1, <1>6, <1>7
<1> QED
  BY <1>5, <1>8, AllKeyFrames

(* The attempt at the head takes it away only with a unit of it sent.      *)
LEMMA AttemptTakesHead ==
  ASSUME NEW info \in InfoType, NEW w \in Seq(Unit), NEW n \in Nat, NEW r \in Nat, NEW offset,
         ViewerInv(info, w, n, offset), ~info.viewer_queue.empty,
         viewer_queue_top(info.viewer_queue).is_key_frame,
         GoneFrom(SendHead(info, r).viewer_queue, viewer_queue_top(info.viewer_queue).payload)
  PROVE  SendHeadUnits(info, r) \in Seq(Unit) /\ Len(SendHeadUnits(info, r)) > 0
<1> DEFINE q == info.viewer_queue
           t == viewer_queue_top(q)
           c == Contents(q)
<1>1. Ring!Good(q)
  BY DEF ViewerInv
<1>2. t = c[1] /\ t \in FrameType /\ Len(c) > 0 /\ c \in Seq(FrameType)
  BY <1>1, TopQueue, GoodQueue
<1>3. /\ t.sent_bytes \in Nat /\ t.sent_bytes < Size /\ Size \in Nat /\ Size \in 0 .. Size
      /\ t.sent_bytes \in 0 .. Size /\ t.sent_bytes <= Size
      /\ t.payload \in Nat /\ Kind(t) \in Header \cup {"http", "key", "inter"}
  BY <1>2, FrameFields, SizeAssumption DEF Kind
<1>4. ~(t.sent_bytes + r < Size)
  <2> SUFFICES ASSUME t.sent_bytes + r < Size PROVE FALSE
    OBVIOUS
  <2> DEFINE m == [q EXCEPT !.flv_tags[q.front].sent_bytes = @ + r]
  <2>1. Ring!Good(m) /\ Contents(m) = [c EXCEPT ![1].sent_bytes = @ + r]
    BY <1>1, PartQueue
  <2>2. SendHead(info, r) = [info EXCEPT !.viewer_queue = m]
    <3>1. [info EXCEPT !.viewer_queue.flv_tags[q.front].sent_bytes = @ + r]
            = [info EXCEPT !.viewer_queue = m]
      BY DEF InfoType
    <3> QED
      BY <3>1 DEF SendHead, viewer_queue_empty
  <2> HIDE DEF m
  <2>3. SendHead(info, r).viewer_queue = m
    BY <2>1, <2>2, QueuePut
  <2>4. Len(Contents(m)) > 0 /\ Contents(m)[1].payload = c[1].payload
    BY <1>2, <2>1 DEF FrameType
  <2>5. ~GoneFrom(m, c[1].payload)
    BY <2>1, <2>4, HeadNotGone
  <2> QED
    BY <1>2, <2>3, <2>5
<1>5. SendHeadUnits(info, r) = Units(Kind(t), t.payload, t.sent_bytes, Size)
  BY <1>4 DEF SendHeadUnits, viewer_queue_empty
<1> DEFINE k == Kind(t)
           p == t.payload
           f == t.sent_bytes
<1> HIDE DEF k, p, f, t
<1>6. /\ k \in Header \cup {"http", "key", "inter"} /\ p \in Nat /\ f \in 0 .. Size
      /\ Size \in 0 .. Size /\ f <= Size
  BY <1>3 DEF k, p, f
<1>7. Units(k, p, f, Size) \in Seq(Unit) /\ Len(Units(k, p, f, Size)) = Size - f
  BY <1>6, UnitsSeq, Zenon
<1>8. Size - f > 0
  BY <1>3 DEF f
<1> QED
  BY <1>5, <1>7, <1>8 DEF k, p, f

(* What is shown of every step, for one viewer.                            *)
GivenUp(v) ==
  LET q    == viewer_info_pool[v].viewer_queue
      head == viewer_queue_top(q)
  IN  /\ v \in DOMAIN viewer_info_pool /\ v \in DOMAIN viewer_info_pool'
      /\ ~viewer_queue_empty(q) /\ head.is_key_frame
      /\ GoneFrom(viewer_info_pool'[v].viewer_queue, head.payload)
      /\ wire'[v] = wire[v]

(* A queue that stays as it is gives nothing up.                           *)
LEMMA SameQueueKeeps ==
  ASSUME IInv, NEW v, GivenUp(v)
  PROVE  viewer_info_pool'[v].viewer_queue # viewer_info_pool[v].viewer_queue
<1> SUFFICES ASSUME viewer_info_pool'[v].viewer_queue = viewer_info_pool[v].viewer_queue
             PROVE  FALSE
  OBVIOUS
<1> DEFINE q == viewer_info_pool[v].viewer_queue
<1>1. Ring!Good(q) /\ ~q.empty /\ GoneFrom(q, viewer_queue_top(q).payload)
  BY DEF GivenUp, IInv, ViewerInv, viewer_queue_empty
<1> HIDE DEF q
<1>2. viewer_queue_top(q) = Contents(q)[1] /\ Len(Contents(q)) > 0
  BY <1>1, TopQueue
<1> QED
  BY <1>1, <1>2, HeadNotGone

(* The camera's next frame gives up a key frame at the head only then.     *)
LEMMA TagGivesUp ==
  ASSUME IInv, NEW key \in BOOLEAN, ReceiveTag(key), NEW v, GivenUp(v)
  PROVE  /\ viewer_queue_full(viewer_info_pool[v].viewer_queue)
         /\ NonKeySlots(viewer_info_pool[v].viewer_queue) = {}
<1> DEFINE info == viewer_info_pool[v]
           q == info.viewer_queue
           t == Frame(tags + 1, key)
<1>1. /\ v \in DOMAIN viewer_info_pool /\ ~q.empty /\ viewer_queue_top(q).is_key_frame
      /\ GoneFrom(viewer_info_pool'[v].viewer_queue, viewer_queue_top(q).payload)
  BY DEF GivenUp, viewer_queue_empty
<1>2. info \in InfoType /\ Ring!Good(q) /\ tags \in Nat
  BY <1>1, StateFacts DEF ViewerInv
<1>3. tags < MaxTags /\ viewer_info_pool'[v] = QueueTag(info, t)
  BY <1>1 DEF ReceiveTag, MoreTags
<1>4. t \in FrameType /\ t.sent_bytes = 0
  <2>1. tags + 1 \in 1 .. MaxTags /\ 0 \in 0 .. Size - 1
    BY <1>2, <1>3, BoundsAssumption, SizeAssumption
  <2> QED
    BY <2>1 DEF Frame, FrameType
<1> HIDE DEF t
<1>5. QueueTag(info, t).viewer_queue = viewer_queue_push(Room(q), t)
  BY <1>2 DEF QueueTag, Room, InfoType
<1>6. GoneFrom(viewer_queue_push(Room(q), t), viewer_queue_top(q).payload)
  BY <1>1, <1>3, <1>5
<1> HIDE DEF q
<1> QED
  BY <1>1, <1>2, <1>4, <1>6, TagTakesHead DEF q

(* send_tags_cb never does without sending some of it.                     *)
LEMMA SendGivesUp ==
  ASSUME IInv, NEW v \in Viewer, NEW b \in 0 .. MaxRoom, send_tags_cb(v, b), GivenUp(v)
  PROVE  FALSE
<1> DEFINE info == viewer_info_pool[v]
           w == wire[v]
           hs == PendingHeaders(info)
           q == info.viewer_queue
<1>1. /\ v \in DOMAIN viewer_info_pool /\ ~q.empty /\ viewer_queue_top(q).is_key_frame
      /\ GoneFrom(viewer_info_pool'[v].viewer_queue, viewer_queue_top(q).payload)
      /\ wire'[v] = w
  BY DEF GivenUp, viewer_queue_empty
<1>2. b \in Nat
  BY SizeAssumption DEF MaxRoom
<1>3. /\ OffsetsInRange /\ generation \in [Header -> Nat] /\ generation["flv"] = 1
      /\ info \in InfoType /\ w \in Seq(Unit) /\ tags \in Nat
      /\ ViewerInv(info, w, tags, header_sent_bytes["flv"]) /\ wire \in [Viewer -> Seq(Unit)]
  BY <1>1, StateFacts DEF IInv, TypeOK
<1>4. hs \in SUBSET Header /\ Done(hs, b) \in SUBSET Header
  BY DEF PendingHeaders, Done
<1>5. CASE SendHeadersPart(v, b)
  <2>1. viewer_info_pool'[v] = HeadersSent(info, Done(hs, b))
    BY <1>1, <1>5 DEF SendHeadersPart
  <2>2. HeadersSent(info, Done(hs, b)).viewer_queue = info.viewer_queue
    BY <1>3, <1>4, HeadersSentFields, Zenon
  <2>3. viewer_info_pool'[v].viewer_queue = viewer_info_pool[v].viewer_queue
    BY <2>1, <2>2
  <2> QED
    BY <2>3, SameQueueKeeps
<1>6. CASE SendHeadersAndTag(v, b)
  <2> DEFINE j == AllSent(info, hs)
             r == b - AllOf(hs)
             x == HeadersWire(info, w, b)
             s == SendHeadUnits(j, r)
  <2>1. /\ Done(hs, b) = hs
        /\ viewer_info_pool'[v] = SendHead(j, r)
        /\ wire'[v] = x \o s
    BY <1>1, <1>3, <1>6 DEF SendHeadersAndTag, HeadersWire
  <2>2. r \in Nat
    BY <1>2, <1>3, <1>4, <2>1, RoomLeft
  <2>3. j.viewer_queue = q
    BY <1>3, <1>4, AllSentFields
  <2> HIDE DEF j, r
  <2>4. x \in Seq(Unit) /\ j \in InfoType /\ ViewerInv(j, x, tags, header_sent_bytes["flv"])
    <3>1. /\ j = AllSent(info, Done(hs, b)) /\ Done(hs, b) = hs /\ hs = PendingHeaders(info)
          /\ x = HeadersWire(info, w, b)
      BY <2>1 DEF j
    <3> HIDE DEF hs, info, w, x
    <3> QED
      BY <1>2, <1>3, <3>1, HeadersStep
  <2>5. /\ ~j.viewer_queue.empty /\ viewer_queue_top(j.viewer_queue).is_key_frame
        /\ GoneFrom(SendHead(j, r).viewer_queue, viewer_queue_top(j.viewer_queue).payload)
    BY <1>1, <2>1, <2>3
  <2>6. s \in Seq(Unit) /\ Len(s) > 0
    BY <1>3, <2>2, <2>4, <2>5, AttemptTakesHead
  <2>7. Len(x) \in Nat /\ Len(w) \in Nat /\ Len(x) >= Len(w)
    <3>1. HttpUnits(info) \in Seq(Unit)
      <4>1. <<"http", 0, Size>> \in Unit
        BY SizeAssumption DEF Unit
      <4> QED
        BY <4>1 DEF HttpUnits
    <3>2. HeaderUnits(hs, b) \in Seq(Unit)
      BY <1>2, <1>3, <1>4, HeaderUnitsSeq DEF FlvThenOthers
    <3> DEFINE y == w \o HttpUnits(info)
    <3>3. y \in Seq(Unit) /\ Len(y) = Len(w) + Len(HttpUnits(info))
          /\ Len(HttpUnits(info)) \in Nat /\ Len(w) \in Nat
      BY <1>3, <3>1, Appended
    <3>4. x = y \o HeaderUnits(hs, b)
      BY DEF HeadersWire
    <3> HIDE DEF x, y
    <3>5. Len(x) = Len(y) + Len(HeaderUnits(hs, b)) /\ Len(HeaderUnits(hs, b)) \in Nat
      BY <3>2, <3>3, <3>4, Appended
    <3> HIDE DEF w, info, hs
    <3>6. Len(y) \in Nat /\ Len(y) >= Len(w)
      BY <3>3
    <3>7. Len(x) \in Nat /\ Len(x) >= Len(y)
      BY <3>5, <3>6
    <3> QED
      BY <3>3, <3>6, <3>7
  <2> HIDE DEF x, s
  <2>8. Len(x \o s) = Len(x) + Len(s) /\ Len(s) \in Nat
    BY <2>4, <2>6, Appended
  <2>9. Len(x \o s) > Len(w)
    BY <2>6, <2>7, <2>8
  <2> QED
    BY <1>1, <2>1, <2>9
<1> QED
  BY <1>5, <1>6 DEF send_tags_cb

(* A key frame that is partly sent is given up only by the camera's next   *)
(* frame, and only when the queue is full of key frames.                   *)
THEOREM KeyFrameIsGivenUpLast == Spec => KeyFrameGivenUpLast
<1> DEFINE A == \A v \in DOMAIN viewer_info_pool \cap DOMAIN viewer_info_pool' :
                  LET q    == viewer_info_pool[v].viewer_queue
                      head == viewer_queue_top(q)
                      next == viewer_info_pool'[v].viewer_queue
                  IN  /\ ~viewer_queue_empty(q) /\ head.is_key_frame /\ head.sent_bytes > 0
                      /\ \A i \in Occupied(next) : next.flv_tags[i].payload # head.payload
                      /\ wire'[v] = wire[v]
                      => viewer_queue_full(q) /\ NonKeySlots(q) = {}
<1>1. IInv /\ [Next]_vars => [A]_vars
  <2> SUFFICES ASSUME IInv, Next, NEW v, GivenUp(v)
               PROVE  /\ viewer_queue_full(viewer_info_pool[v].viewer_queue)
                      /\ NonKeySlots(viewer_info_pool[v].viewer_queue) = {}
    BY DEF GivenUp, GoneFrom
  <2>1. v \in DOMAIN viewer_info_pool /\ v \in DOMAIN viewer_info_pool'
        /\ viewer_info_pool'[v].viewer_queue # viewer_info_pool[v].viewer_queue
    BY SameQueueKeeps DEF GivenUp
  <2>2. ~StartCamera /\ ~delete_camera
    BY <2>1 DEF StartCamera, new_cameras, delete_camera
  <2>3. ~Stall /\ \A h \in Header : ~ReceiveHeader(h)
    BY <2>1 DEF Stall, ReceiveHeader
  <2>4. CASE \E key \in BOOLEAN : ReceiveTag(key)
    BY <2>4, TagGivesUp
  <2>5. ASSUME NEW u \in Viewer, JoinViewer(u) PROVE FALSE
    BY <2>1, <2>5 DEF JoinViewer
  <2>6. ASSUME NEW u \in Viewer, delete_viewer(u) PROVE FALSE
    BY <2>1, <2>6 DEF delete_viewer
  <2>7. ASSUME NEW u \in Viewer, NEW b \in 0 .. MaxRoom, send_tags_cb(u, b) PROVE FALSE
    <3>1. CASE u = v
      BY <2>7, <3>1, SendGivesUp
    <3>2. CASE u # v
      BY <2>1, <2>7, <3>2 DEF send_tags_cb, SendHeadersPart, SendHeadersAndTag
    <3> QED
      BY <3>1, <3>2
  <2> QED
    BY <2>2, <2>3, <2>4, <2>5, <2>6, <2>7 DEF Next
<1>2. KeyFrameGivenUpLast <=> [][A]_vars
  BY DEF KeyFrameGivenUpLast
<1> QED
  BY <1>1, <1>2, Invariance, PTL DEF Spec
=============================================================================
