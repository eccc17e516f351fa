----------------------------- MODULE ViewerQueue -----------------------------
(***************************************************************************)
(* The circular queue of FLV tags that the streamer keeps for every viewer *)
(* (struct VIEWER_QUEUE in streamer.cpp) and the functions on it, as pure  *)
(* operators on a queue record.  flv_tags is the C array of pointers: a    *)
(* slot holds the tag it points at, or NULL.  (new_viewer_info leaves the  *)
(* pointers of a new queue uninitialized: NULL stands for them too, and    *)
(* that no slot without a tag is ever read is a property of the modules    *)
(* that use the queue.)  CACHED_TAGS_LIMIT is 79 in the program; front and *)
(* rear of a queue that was never pushed to are CACHED_TAGS_LIMIT.  A tag  *)
(* is any record with the field is_key_frame; the byte counters of a tag   *)
(* are the business of the modules that send it.                           *)
(***************************************************************************)
EXTENDS Integers

CONSTANTS CACHED_TAGS_LIMIT, NULL

ASSUME CachedTagsLimitAssumption ==
  CACHED_TAGS_LIMIT \in Nat /\ CACHED_TAGS_LIMIT > 1

Slot == 0 .. (CACHED_TAGS_LIMIT - 1)

Succ(i) == (i + 1) % CACHED_TAGS_LIMIT

(* Slot i lies in from..to-1 of the ring; every slot does when from = to,  *)
(* since a do-while loop from `from' until it meets `to' goes all around.  *)
Within(i, from, to) == IF from < to THEN from <= i /\ i < to
                                    ELSE from <= i \/ i < to

Span(from, to) == {i \in Slot : Within(i, from, to)}

(* How many steps of the ring lead from slot `from' to slot i.             *)
Distance(from, i) == IF from <= i THEN i - from
                                  ELSE i - from + CACHED_TAGS_LIMIT

-----------------------------------------------------------------------------
new_viewer_queue ==
  [flv_tags |-> [i \in Slot |-> NULL],
   front    |-> CACHED_TAGS_LIMIT,
   rear     |-> CACHED_TAGS_LIMIT,
   empty    |-> TRUE]

viewer_queue_full(q) == ~q.empty /\ q.front = q.rear

viewer_queue_empty(q) == q.empty

viewer_queue_top(q) == q.flv_tags[q.front]

viewer_queue_pop(q) ==
  IF viewer_queue_empty(q) THEN q
  ELSE [flv_tags |-> [q.flv_tags EXCEPT ![q.front] = NULL],
        front    |-> Succ(q.front),
        rear     |-> q.rear,
        empty    |-> Succ(q.front) = q.rear]

(* Mutant of viewer_queue_push: rear is not set to 0 by the first push.    *)
viewer_queue_push_no_reset(q, flv_tag) ==
  [flv_tags |-> [q.flv_tags EXCEPT ![q.rear] = flv_tag],
   front    |-> IF q.front = CACHED_TAGS_LIMIT THEN 0 ELSE q.front,
   rear     |-> Succ(q.rear),
   empty    |-> FALSE]

(* Does not look at viewer_queue_full: its caller drops a frame first.     *)
viewer_queue_push(q, flv_tag) ==
  LET rear == IF q.rear = CACHED_TAGS_LIMIT THEN 0 ELSE q.rear
  IN  [flv_tags |-> [q.flv_tags EXCEPT ![rear] = flv_tag],
       front    |-> IF q.front = CACHED_TAGS_LIMIT THEN 0 ELSE q.front,
       rear     |-> Succ(rear),
       empty    |-> FALSE]

(* Mutant of viewer_queue_delete: the slots are moved the wrong way.       *)
viewer_queue_delete_wrong_way(q, pos) ==
  LET last == (q.rear + CACHED_TAGS_LIMIT - 1) % CACHED_TAGS_LIMIT
  IN  IF q.empty THEN q
      ELSE [q EXCEPT !.flv_tags =
                       [i \in Slot |->
                          IF i = last THEN NULL
                          ELSE IF i \in Span(pos, q.rear) /\ i # q.front
                          THEN q.flv_tags[(i + CACHED_TAGS_LIMIT - 1)
                                            % CACHED_TAGS_LIMIT]
                          ELSE q.flv_tags[i]],
                     !.rear = last]

(* Frees slot pos, moves every slot after it up to rear one back, and      *)
(* takes rear back by one.  `empty' is left as it was.                     *)
viewer_queue_delete(q, pos) ==
  LET last == IF q.rear = 0 THEN CACHED_TAGS_LIMIT - 1 ELSE q.rear - 1
  IN  IF viewer_queue_empty(q) THEN q
      ELSE [q EXCEPT
             !.flv_tags = [i \in Slot |->
                             IF i = last THEN NULL
                             ELSE IF i \in Span(pos, q.rear)
                                  THEN q.flv_tags[Succ(i)]
                                  ELSE q.flv_tags[i]],
             !.rear = last]

(* The slots of the queued tags that are no key frames.                    *)
NonKeySlots(q) ==
  {i \in Span(q.front, q.rear) : ~q.flv_tags[i].is_key_frame}

(* Mutant of drop_frame: the head goes, whatever it is.                    *)
drop_frame_head(q) == viewer_queue_pop(q)

(* Drops the first non-key frame from the front; the head if every queued  *)
(* tag is a key frame.                                                     *)
drop_frame(q) ==
  IF viewer_queue_empty(q) THEN q
  ELSE IF NonKeySlots(q) = {} THEN viewer_queue_pop(q)
  ELSE viewer_queue_delete(q,
         CHOOSE i \in NonKeySlots(q) :
           \A j \in NonKeySlots(q) :
             Distance(q.front, i) <= Distance(q.front, j))

(* Pops until the queue is empty.                                          *)
delete_viewer_queue(q) ==
  IF viewer_queue_empty(q) THEN q
  ELSE [flv_tags |-> [i \in Slot |-> IF i \in Span(q.front, q.rear)
                                     THEN NULL ELSE q.flv_tags[i]],
        front    |-> q.rear,
        rear     |-> q.rear,
        empty    |-> TRUE]

-----------------------------------------------------------------------------
(* Observers, for the modules that use the queue and for properties.       *)
Occupied(q) == IF q.empty THEN {} ELSE Span(q.front, q.rear)

QueueLen(q) ==
  IF q.empty THEN 0
  ELSE IF q.front < q.rear THEN q.rear - q.front
                           ELSE q.rear - q.front + CACHED_TAGS_LIMIT

(* The queued tags in the order in which they will be sent.                *)
Contents(q) ==
  [k \in 1 .. QueueLen(q) |->
     q.flv_tags[(q.front + k - 1) % CACHED_TAGS_LIMIT]]
=============================================================================
