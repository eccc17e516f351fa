--------------------------- MODULE ViewerQueueImpl ---------------------------
(***************************************************************************)
(* One viewer's queue as the worker thread drives it: receive_stream_cb    *)
(* pushes the tags of the camera, send_tags_cb sends and pops them, and    *)
(* delete_viewer or delete_camera empties it.  All four run in the event   *)
(* loop of one worker thread, so each is one step.                         *)
(***************************************************************************)
EXTENDS ViewerQueue, Sequences

CONSTANTS Payload,    \* what a tag carries
          DataSize    \* its length, in units a socket may take one by one

ASSUME DataSizeAssumption == DataSize \in Nat /\ DataSize > 0
ASSUME NullAssumption ==
  NULL \notin [payload : Payload, is_key_frame : BOOLEAN,
               sent_bytes : 0 .. DataSize - 1]

VARIABLE viewer_queue

Tag == [payload : Payload, is_key_frame : BOOLEAN, sent_bytes : 0 .. DataSize - 1]

Init == viewer_queue = new_viewer_queue

(* receive_stream_cb: makes room in a full queue, then pushes.             *)
PushTag(t) ==
  viewer_queue' =
    viewer_queue_push(IF viewer_queue_full(viewer_queue)
                      THEN drop_frame(viewer_queue) ELSE viewer_queue, t)

(* Mutant of SendPart: a tag sent to its end stays in the queue.           *)
SendPart_to_end(n) ==
  /\ ~viewer_queue_empty(viewer_queue)
  /\ viewer_queue_top(viewer_queue).sent_bytes + n <= DataSize
  /\ viewer_queue' =
       [viewer_queue EXCEPT !.flv_tags[viewer_queue.front].sent_bytes = @ + n]

(* send_tags_cb: the socket took n more units of the head, not all of it.  *)
SendPart(n) ==
  /\ ~viewer_queue_empty(viewer_queue)
  /\ viewer_queue_top(viewer_queue).sent_bytes + n < DataSize
  /\ viewer_queue' =
       [viewer_queue EXCEPT !.flv_tags[viewer_queue.front].sent_bytes = @ + n]

(* send_tags_cb: the head is sent to its end, or is a non-key frame that a *)
(* viewer still waiting for its first key frame does not get.              *)
PopTag ==
  /\ ~viewer_queue_empty(viewer_queue)
  /\ viewer_queue' = viewer_queue_pop(viewer_queue)

DeleteQueue == viewer_queue' = delete_viewer_queue(viewer_queue)

Next ==
  \/ \E t \in Tag : t.sent_bytes = 0 /\ PushTag(t)
  \/ \E n \in 1 .. DataSize - 1 : SendPart(n)
  \/ PopTag
  \/ DeleteQueue

Spec == Init /\ [][Next]_viewer_queue

-----------------------------------------------------------------------------
(* Indices and slots hold what struct VIEWER_QUEUE declares.               *)
QueueType == [flv_tags : [Slot -> Tag \cup {NULL}],
              front    : 0 .. CACHED_TAGS_LIMIT,
              rear     : 0 .. CACHED_TAGS_LIMIT,
              empty    : BOOLEAN]

TypeOK == viewer_queue \in QueueType

(* front and rear leave their initial value CACHED_TAGS_LIMIT together,    *)
(* at the first push, and an empty queue has front = rear.                 *)
IndicesCoherent(q) ==
  \/ q.front = CACHED_TAGS_LIMIT /\ q.rear = CACHED_TAGS_LIMIT /\ q.empty
  \/ /\ q.front \in Slot /\ q.rear \in Slot
     /\ q.empty => q.front = q.rear

SlotsMatch(q) == \A i \in Slot : q.flv_tags[i] # NULL <=> i \in Occupied(q)

OnlyHeadSent(q) ==
  \A i \in Occupied(q) : q.flv_tags[i].sent_bytes > 0 => i = q.front

(* viewer_queue_top, viewer_queue_pop and drop_frame dereference the slots *)
(* between front and rear and no other: those slots hold a tag (no null    *)
(* pointer is followed) and every other slot is NULL (no tag is leaked by  *)
(* the shift of viewer_queue_delete or overwritten by viewer_queue_push).  *)
SlotsMatchIndices == IndicesCoherent(viewer_queue) /\ SlotsMatch(viewer_queue)

(* Only the head of the queue is ever partly sent: a partly sent tag that  *)
(* drop_frame moved behind another one would be continued in the middle of *)
(* that other tag.                                                         *)
OnlyHeadPartlySent == OnlyHeadSent(viewer_queue)

(* The ring is a first-in first-out list of tags with the drop rule of     *)
(* TagFifo: every operation of the C code on the ring is the list          *)
(* operation it is meant to be, wrap-around and full ring included.        *)
Fifo == INSTANCE TagFifo WITH fifo <- Contents(viewer_queue),
                              Capacity <- CACHED_TAGS_LIMIT
FifoSpec == Fifo!Spec
=============================================================================
