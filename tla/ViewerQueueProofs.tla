-------------------------- MODULE ViewerQueueProofs --------------------------
(***************************************************************************)
(* The ring of a viewer's queue, for every CACHED_TAGS_LIMIT above 1: the  *)
(* invariants of ViewerQueueImpl and that it implements TagFifo.           *)
(***************************************************************************)
EXTENDS ViewerQueueImpl, WellFoundedInduction, SequenceTheorems, TLAPS

(* What every operation on the ring preserves.                             *)
Good(q) ==
  /\ q \in QueueType
  /\ IndicesCoherent(q)
  /\ SlotsMatch(q)
  /\ OnlyHeadSent(q)

(* The step of the ring without the remainder operator.                    *)
LEMMA SuccValue ==
  \A i \in Slot : Succ(i) = IF i = CACHED_TAGS_LIMIT - 1 THEN 0 ELSE i + 1
  BY CachedTagsLimitAssumption DEF Slot, Succ

(* A slot is occupied when the queue is not empty and it lies within.      *)
LEMMA OccupiedMember ==
  ASSUME NEW q, NEW i \in Slot
  PROVE  i \in Occupied(q) <=> ~q.empty /\ Within(i, q.front, q.rear)
  BY DEF Occupied, Span

(* Only slots of the array are occupied.                                   *)
LEMMA OccupiedSlots == \A q : Occupied(q) \subseteq Slot
  BY DEF Occupied, Span

(* new_viewer_info makes a good queue.                                     *)
LEMMA GoodNew == Good(new_viewer_queue)
  BY CachedTagsLimitAssumption
  DEF Good, new_viewer_queue, QueueType, IndicesCoherent, SlotsMatch,
      OnlyHeadSent, Occupied, Slot

(* viewer_queue_pop keeps Good, on an empty queue too.                     *)
LEMMA GoodPop ==
  ASSUME NEW q, Good(q), ~q.empty
  PROVE  Good(viewer_queue_pop(q))
<1> DEFINE p == viewer_queue_pop(q)
<1>1. /\ q.front \in Slot /\ q.rear \in Slot /\ Succ(q.front) \in Slot
      /\ q.flv_tags \in [Slot -> Tag \cup {NULL}]
  BY CachedTagsLimitAssumption, SuccValue DEF Good, IndicesCoherent, Slot, QueueType
<1>2. p = [flv_tags |-> [q.flv_tags EXCEPT ![q.front] = NULL],
           front |-> Succ(q.front), rear |-> q.rear,
           empty |-> Succ(q.front) = q.rear]
  BY DEF viewer_queue_pop, viewer_queue_empty
<1> HIDE DEF p
<1>3. p \in QueueType
  BY <1>1, <1>2, CachedTagsLimitAssumption DEF QueueType, Slot
<1>4. IndicesCoherent(p)
  BY <1>1, <1>2 DEF IndicesCoherent
<1>5. ASSUME NEW i \in Slot
      PROVE  i \in Occupied(p) <=> i \in Occupied(q) /\ i # q.front
  <2>1. /\ p.front = Succ(q.front) /\ p.rear = q.rear
        /\ p.empty <=> Succ(q.front) = q.rear
    BY <1>2
  <2>2. i \in Occupied(p) <=>
          Succ(q.front) # q.rear /\ Within(i, Succ(q.front), q.rear)
    BY <2>1, OccupiedMember
  <2>3. i \in Occupied(q) <=> Within(i, q.front, q.rear)
    BY OccupiedMember
  <2> QED BY <1>1, <2>2, <2>3, SuccValue, CachedTagsLimitAssumption, SMTT(30) DEF Slot, Within
<1>6. SlotsMatch(p)
  BY <1>1, <1>2, <1>5 DEF SlotsMatch, Good
<1>7. OnlyHeadSent(p)
  <2> SUFFICES ASSUME NEW i \in Occupied(p), p.flv_tags[i].sent_bytes > 0
               PROVE  FALSE
    BY DEF OnlyHeadSent
  <2>1. i \in Slot /\ i # q.front /\ i \in Occupied(q)
    BY <1>5, OccupiedSlots
  <2>2. p.flv_tags[i] = q.flv_tags[i]
    BY <1>1, <1>2, <2>1
  <2> QED BY <2>1, <2>2 DEF Good, OnlyHeadSent
<1> QED BY <1>3, <1>4, <1>6, <1>7 DEF Good, p

(* viewer_queue_push keeps Good when there is room: its caller sees to     *)
(* that.                                                                   *)
LEMMA GoodPush ==
  ASSUME NEW q, Good(q), ~viewer_queue_full(q),
         NEW t \in Tag, t.sent_bytes = 0
  PROVE  Good(viewer_queue_push(q, t))
<1> DEFINE p == viewer_queue_push(q, t)
           f == IF q.front = CACHED_TAGS_LIMIT THEN 0 ELSE q.front
           r == IF q.rear = CACHED_TAGS_LIMIT THEN 0 ELSE q.rear
<1>1. /\ f \in Slot /\ r \in Slot /\ Succ(r) \in Slot
      /\ q.flv_tags \in [Slot -> Tag \cup {NULL}]
      /\ f = r <=> q.empty
  <2>1. q.front \in 0 .. CACHED_TAGS_LIMIT /\ q.rear \in 0 .. CACHED_TAGS_LIMIT
    BY DEF Good, QueueType
  <2>2. f \in Slot /\ r \in Slot
    BY <2>1, CachedTagsLimitAssumption DEF Slot
  <2>3. f = r <=> q.empty
    BY <2>1, CachedTagsLimitAssumption
    DEF Good, IndicesCoherent, Slot, viewer_queue_full
  <2> QED BY <2>2, <2>3, SuccValue, CachedTagsLimitAssumption DEF Good, QueueType, Slot
<1>2. /\ p = [flv_tags |-> [q.flv_tags EXCEPT ![r] = t], front |-> f,
              rear |-> Succ(r), empty |-> FALSE]
      /\ p.front = f /\ p.rear = Succ(r) /\ p.empty = FALSE
      /\ p.flv_tags = [q.flv_tags EXCEPT ![r] = t]
  BY DEF viewer_queue_push
<1> HIDE DEF p
<1>3. p \in QueueType
  BY <1>1, <1>2, CachedTagsLimitAssumption DEF QueueType, Slot
<1>4. IndicesCoherent(p)
  BY <1>1, <1>2 DEF IndicesCoherent
<1>5. ASSUME NEW i \in Slot
      PROVE  i \in Occupied(p) <=> i \in Occupied(q) \/ i = r
  <2>1. i \in Occupied(p) <=> Within(i, f, Succ(r))
    BY <1>2, OccupiedMember
  <2>2. i \in Occupied(q) <=> f # r /\ Within(i, f, r)
    <3>1. i \in Occupied(q) <=> ~q.empty /\ Within(i, q.front, q.rear)
      BY OccupiedMember
    <3>2. CASE q.empty
      BY <1>1, <3>1, <3>2
    <3>3. CASE ~q.empty
      BY <1>1, <3>1, <3>3, CachedTagsLimitAssumption DEF Good, IndicesCoherent, Slot
    <3> QED BY <3>2, <3>3
  <2> HIDE DEF f, r
  <2> QED BY <1>1, <2>1, <2>2, SuccValue, CachedTagsLimitAssumption DEF Slot, Within
<1> HIDE DEF f, r
<1>6. SlotsMatch(p)
  BY <1>1, <1>2, <1>5, NullAssumption DEF SlotsMatch, Good, Tag
<1>7. OnlyHeadSent(p)
  <2> SUFFICES ASSUME NEW i \in Occupied(p), p.flv_tags[i].sent_bytes > 0
               PROVE  i = f
    BY <1>2 DEF OnlyHeadSent
  <2>1. i \in Slot /\ i # r
    BY OccupiedSlots, <1>1, <1>2
  <2>2. i \in Occupied(q) /\ p.flv_tags[i] = q.flv_tags[i]
    BY <1>1, <1>2, <1>5, <2>1
  <2>3. ~q.empty /\ q.front = i
    BY <2>2 DEF Good, OnlyHeadSent, Occupied
  <2> QED BY <2>1, <2>3, CachedTagsLimitAssumption DEF f, Slot
<1> QED BY <1>3, <1>4, <1>6, <1>7 DEF Good, p

(* viewer_queue_delete is called on a full ring only.                      *)
LEMMA GoodDelete ==
  ASSUME NEW q, Good(q), viewer_queue_full(q), NEW pos \in Slot
  PROVE  /\ Good(viewer_queue_delete(q, pos))
         /\ ~viewer_queue_full(viewer_queue_delete(q, pos))
<1> DEFINE p == viewer_queue_delete(q, pos)
           last == IF q.rear = 0 THEN CACHED_TAGS_LIMIT - 1 ELSE q.rear - 1
<1>1. /\ q.front \in Slot /\ q.rear = q.front /\ ~q.empty
      /\ last \in Slot /\ last # q.front /\ Succ(last) = q.front
      /\ q.flv_tags \in [Slot -> Tag \cup {NULL}]
  BY SuccValue, CachedTagsLimitAssumption
  DEF Good, IndicesCoherent, viewer_queue_full, Slot, QueueType
<1>2. /\ p.flv_tags = [i \in Slot |->
                        IF i = last THEN NULL
                        ELSE IF i \in Span(pos, q.rear) THEN q.flv_tags[Succ(i)]
                        ELSE q.flv_tags[i]]
      /\ p.front = q.front /\ p.rear = last /\ p.empty = q.empty
      /\ p = [q EXCEPT !.flv_tags = p.flv_tags, !.rear = last]
  BY <1>1 DEF viewer_queue_delete, viewer_queue_empty, Good, QueueType
<1> HIDE DEF p, last
<1>3. p \in QueueType
  <2>1. \A i \in Slot : Succ(i) \in Slot
    BY SuccValue, CachedTagsLimitAssumption DEF Slot
  <2>2. p.flv_tags \in [Slot -> Tag \cup {NULL}]
    BY <1>1, <1>2, <2>1
  <2>3. last \in 0 .. CACHED_TAGS_LIMIT
    BY <1>1, CachedTagsLimitAssumption DEF Slot
  <2> QED BY <1>2, <2>2, <2>3 DEF QueueType, Good
<1>4. IndicesCoherent(p)
  BY <1>1, <1>2 DEF IndicesCoherent
<1>5. ASSUME NEW i \in Slot
      PROVE  i \in Occupied(p) <=> i # last
  <2>1. i \in Occupied(p) <=> Within(i, q.front, last)
    BY <1>1, <1>2, OccupiedMember
  <2> QED BY <1>1, <2>1, SuccValue, CachedTagsLimitAssumption DEF Slot, Within
<1>6. \A i \in Slot : i \in Occupied(q) /\ q.flv_tags[i] # NULL
  <2> TAKE i \in Slot
  <2>1. Within(i, q.front, q.rear)
    BY <1>1, CachedTagsLimitAssumption DEF Within, Slot
  <2> QED BY <1>1, <2>1, OccupiedMember DEF Good, SlotsMatch
<1>7. SlotsMatch(p)
  <2>1. \A i \in Slot : Succ(i) \in Slot
    BY SuccValue, CachedTagsLimitAssumption DEF Slot
  <2> QED BY <1>2, <1>5, <1>6, <2>1 DEF SlotsMatch
<1>8. OnlyHeadSent(p)
  <2> SUFFICES ASSUME NEW i \in Occupied(p), p.flv_tags[i].sent_bytes > 0
               PROVE  i = q.front
    BY <1>2 DEF OnlyHeadSent
  <2>1. i \in Slot /\ i # last
    BY <1>5, OccupiedSlots
  <2>2. CASE i \in Span(pos, q.rear)
    <3>1. p.flv_tags[i] = q.flv_tags[Succ(i)] /\ Succ(i) \in Slot /\ Succ(i) # q.front
      BY <1>1, <1>2, <2>1, <2>2, SuccValue, CachedTagsLimitAssumption DEF Slot
    <3> QED BY <1>6, <3>1 DEF Good, OnlyHeadSent
  <2>3. CASE i \notin Span(pos, q.rear)
    <3>1. p.flv_tags[i] = q.flv_tags[i]
      BY <1>2, <2>1, <2>3
    <3> QED BY <1>6, <2>1, <3>1 DEF Good, OnlyHeadSent
  <2> QED BY <2>2, <2>3
<1>9. ~viewer_queue_full(p)
  BY <1>1, <1>2 DEF viewer_queue_full
<1> QED BY <1>3, <1>4, <1>7, <1>8, <1>9 DEF Good, p

-----------------------------------------------------------------------------
(* A non-empty set of naturals has a least element.                        *)
LEMMA LeastNat ==
  ASSUME NEW T \in SUBSET Nat, T # {}
  PROVE  \E x \in T : \A y \in T : x <= y
<1> DEFINE R == OpToRel(<, Nat)
<1>1. PICK x \in T : \A y \in T : ~ (<<y, x>> \in R)
  <2> HIDE DEF R
  <2>1. IsWellFoundedOn(R, Nat)
    BY NatLessThanWellFounded DEF R
  <2> QED BY <2>1, WFMin
<1>2. \A y \in T : ~ (y < x)
  BY <1>1 DEF OpToRel
<1> QED BY <1>2

(* The slot that drop_frame's search stops at.                             *)
FirstNonKey(q) ==
  CHOOSE i \in NonKeySlots(q) :
    \A j \in NonKeySlots(q) : Distance(q.front, i) <= Distance(q.front, j)

(* The slot that drop_frame's loop stops at exists and is the first one.   *)
LEMMA FirstNonKeyProperties ==
  ASSUME NEW q, q.front \in Slot, NonKeySlots(q) # {}
  PROVE  /\ FirstNonKey(q) \in NonKeySlots(q)
         /\ \A j \in NonKeySlots(q) :
              Distance(q.front, FirstNonKey(q)) <= Distance(q.front, j)
<1> DEFINE T == {Distance(q.front, i) : i \in NonKeySlots(q)}
<1>1. \A i \in NonKeySlots(q) : i \in Slot /\ Distance(q.front, i) \in Nat
  BY CachedTagsLimitAssumption DEF NonKeySlots, Span, Slot, Distance
<1>2. T \in SUBSET Nat /\ T # {}
  BY <1>1
<1>3. PICK d \in T : \A e \in T : d <= e
  <2> HIDE DEF T
  <2> QED BY <1>2, LeastNat
<1>4. PICK i \in NonKeySlots(q) : d = Distance(q.front, i)
  OBVIOUS
<1>5. \A j \in NonKeySlots(q) : Distance(q.front, i) <= Distance(q.front, j)
  BY <1>3, <1>4
<1> QED BY <1>5 DEF FirstNonKey

(* drop_frame keeps Good and makes room in a full queue.                   *)
LEMMA GoodDrop ==
  ASSUME NEW q, Good(q), viewer_queue_full(q)
  PROVE  Good(drop_frame(q)) /\ ~viewer_queue_full(drop_frame(q))
<1>1. ~q.empty /\ q.front \in Slot /\ q.rear = q.front
  BY CachedTagsLimitAssumption DEF Good, IndicesCoherent, viewer_queue_full
<1>2. CASE NonKeySlots(q) = {}
  <2>1. drop_frame(q) = viewer_queue_pop(q)
    BY <1>1, <1>2 DEF drop_frame, viewer_queue_empty
  <2>2. ~viewer_queue_full(viewer_queue_pop(q))
    BY <1>1 DEF viewer_queue_full, viewer_queue_pop, viewer_queue_empty
  <2> QED BY <1>1, <2>1, <2>2, GoodPop
<1>3. CASE NonKeySlots(q) # {}
  <2>1. drop_frame(q) = viewer_queue_delete(q, FirstNonKey(q))
    BY <1>1, <1>3 DEF drop_frame, viewer_queue_empty, FirstNonKey
  <2>2. FirstNonKey(q) \in Slot
    BY <1>1, <1>3, FirstNonKeyProperties DEF NonKeySlots, Span
  <2> QED BY <2>1, <2>2, GoodDelete
<1> QED BY <1>2, <1>3

(* Sending a part of the head keeps Good.                                  *)
LEMMA GoodSend ==
  ASSUME NEW q, Good(q), ~q.empty, NEW n \in 1 .. DataSize - 1,
         q.flv_tags[q.front].sent_bytes + n < DataSize
  PROVE  Good([q EXCEPT !.flv_tags[q.front].sent_bytes = @ + n])
<1> DEFINE p == [q EXCEPT !.flv_tags[q.front].sent_bytes = @ + n]
           t == [q.flv_tags[q.front] EXCEPT !.sent_bytes = @ + n]
<1>1. /\ q.front \in Slot /\ q.flv_tags \in [Slot -> Tag \cup {NULL}]
      /\ q.front \in Occupied(q)
  <2>1. q.front \in Slot /\ q.rear \in Slot
    BY DEF Good, IndicesCoherent
  <2>2. Within(q.front, q.front, q.rear)
    BY <2>1, CachedTagsLimitAssumption DEF Within, Slot
  <2> QED BY <2>1, <2>2, OccupiedMember DEF Good, QueueType
<1>2. q.flv_tags[q.front] \in Tag
  BY <1>1 DEF Good, SlotsMatch
<1>3. t \in Tag
  BY <1>2, DataSizeAssumption DEF Tag
<1>4. /\ p.flv_tags = [q.flv_tags EXCEPT ![q.front] = t]
      /\ p.front = q.front /\ p.rear = q.rear /\ p.empty = q.empty
      /\ p = [q EXCEPT !.flv_tags = [q.flv_tags EXCEPT ![q.front] = t]]
  BY <1>1 DEF Good, QueueType
<1> HIDE DEF p, t
<1>5. p \in QueueType
  BY <1>1, <1>3, <1>4 DEF Good, QueueType
<1>6. Occupied(p) = Occupied(q)
  BY <1>4 DEF Occupied
<1>7. SlotsMatch(p)
  BY <1>1, <1>3, <1>4, <1>6, NullAssumption DEF Good, SlotsMatch, Tag
<1>8. IndicesCoherent(p) /\ OnlyHeadSent(p)
  <2>1. IndicesCoherent(p)
    BY <1>4 DEF Good, IndicesCoherent
  <2>2. \A i \in Slot : i # q.front => p.flv_tags[i] = q.flv_tags[i]
    BY <1>1, <1>4
  <2> QED BY <1>4, <1>6, <2>1, <2>2, OccupiedSlots DEF Good, OnlyHeadSent
<1> QED BY <1>5, <1>7, <1>8 DEF Good, p

(* delete_viewer_queue keeps Good.                                         *)
LEMMA GoodClear ==
  ASSUME NEW q, Good(q)
  PROVE  Good(delete_viewer_queue(q))
<1>1. CASE q.empty
  BY <1>1 DEF delete_viewer_queue, viewer_queue_empty
<1>2. CASE ~q.empty
  <2> DEFINE p == delete_viewer_queue(q)
  <2>1. q.rear \in Slot /\ q.flv_tags \in [Slot -> Tag \cup {NULL}]
    BY <1>2 DEF Good, IndicesCoherent, QueueType
  <2>2. [i \in Slot |-> IF i \in Span(q.front, q.rear) THEN NULL ELSE q.flv_tags[i]]
          = [i \in Slot |-> NULL]
    BY <1>2 DEF Good, SlotsMatch, Occupied
  <2>3. p = [flv_tags |-> [i \in Slot |-> NULL],
             front |-> q.rear, rear |-> q.rear, empty |-> TRUE]
    BY <1>2, <2>2 DEF delete_viewer_queue, viewer_queue_empty
  <2> HIDE DEF p
  <2>4. p \in QueueType
    <3>1. q.rear \in 0 .. CACHED_TAGS_LIMIT
      BY DEF Good, QueueType
    <3> QED BY <2>3, <3>1 DEF QueueType
  <2>5. IndicesCoherent(p) /\ SlotsMatch(p) /\ OnlyHeadSent(p)
    BY <2>1, <2>3 DEF IndicesCoherent, SlotsMatch, OnlyHeadSent, Occupied
  <2> QED BY <2>4, <2>5 DEF Good, p
<1> QED BY <1>1, <1>2

-----------------------------------------------------------------------------
(* Every step of the worker keeps Good: one case per action.               *)
LEMMA GoodNext ==
  ASSUME Good(viewer_queue), [Next]_viewer_queue
  PROVE  Good(viewer_queue)'
<1>1. ASSUME NEW t \in Tag, t.sent_bytes = 0, PushTag(t)
      PROVE  Good(viewer_queue)'
  <2> DEFINE r == IF viewer_queue_full(viewer_queue)
                  THEN drop_frame(viewer_queue) ELSE viewer_queue
  <2>1. Good(r) /\ ~viewer_queue_full(r)
    BY GoodDrop
  <2>2. viewer_queue' = viewer_queue_push(r, t)
    BY <1>1 DEF PushTag
  <2> HIDE DEF r
  <2>3. Good(viewer_queue_push(r, t))
    BY <1>1, <2>1, GoodPush
  <2> QED BY <2>2, <2>3
<1>2. ASSUME NEW n \in 1 .. DataSize - 1, SendPart(n)
      PROVE  Good(viewer_queue)'
  BY <1>2, GoodSend DEF SendPart, viewer_queue_empty, viewer_queue_top
<1>3. CASE PopTag
  BY <1>3, GoodPop DEF PopTag, viewer_queue_empty
<1>4. CASE DeleteQueue
  BY <1>4, GoodClear DEF DeleteQueue
<1>5. CASE UNCHANGED viewer_queue
  BY <1>5
<1> QED BY <1>1, <1>2, <1>3, <1>4, <1>5 DEF Next

(* Every reachable ring satisfies the four parts of Good.                  *)
THEOREM RingIsGood == Spec => []Good(viewer_queue)
<1>1. Init => Good(viewer_queue)
  BY GoodNew DEF Init
<1>2. Good(viewer_queue) /\ [Next]_viewer_queue => Good(viewer_queue)'
  BY GoodNext
<1> QED BY <1>1, <1>2, PTL DEF Spec

(* Type correctness of the ring.                                           *)
THEOREM TypeCorrect == Spec => []TypeOK
<1>1. Good(viewer_queue) => TypeOK
  BY DEF Good, TypeOK
<1> QED BY <1>1, RingIsGood, PTL

(* The slots from front to rear hold the queued tags and all others are    *)
(* NULL: the streamer neither follows a null tag nor leaks one.            *)
THEOREM SlotsSafe == Spec => []SlotsMatchIndices
<1>1. Good(viewer_queue) => SlotsMatchIndices
  BY DEF Good, SlotsMatchIndices
<1> QED BY <1>1, RingIsGood, PTL

(* No tag but the head is partly sent.                                     *)
THEOREM HeadOnly == Spec => []OnlyHeadPartlySent
<1>1. Good(viewer_queue) => OnlyHeadPartlySent
  BY DEF Good, OnlyHeadPartlySent
<1> QED BY <1>1, RingIsGood, PTL

-----------------------------------------------------------------------------
(* Each operation on the ring is the list operation on Contents, and each  *)
(* step of ViewerQueueImpl a step of TagFifo or a stutter.                 *)

(* The slot k - 1 steps after slot f, without the remainder.               *)
From(f, k) == IF f + k - 1 < CACHED_TAGS_LIMIT
              THEN f + k - 1 ELSE f + k - 1 - CACHED_TAGS_LIMIT

(* The slot that holds the k-th tag of the list.                           *)
At(q, k) == From(q.front, k)

(* From is the remainder expression of Contents, and a slot.               *)
LEMMA FromValue ==
  ASSUME NEW f \in Slot, NEW k \in 1 .. CACHED_TAGS_LIMIT
  PROVE  /\ (f + k - 1) % CACHED_TAGS_LIMIT = From(f, k)
         /\ From(f, k) \in Slot
         /\ From(f, k) = f => k = 1
<1>1. f + k - 1 \in 0 .. 2 * CACHED_TAGS_LIMIT - 1
  BY CachedTagsLimitAssumption DEF Slot
<1>2. (f + k - 1) % CACHED_TAGS_LIMIT = From(f, k)
  <2> DEFINE x == f + k - 1
  <2>1. x \in 0 .. 2 * CACHED_TAGS_LIMIT - 1
    BY <1>1
  <2>2. From(f, k) = IF x < CACHED_TAGS_LIMIT THEN x ELSE x - CACHED_TAGS_LIMIT
    BY CachedTagsLimitAssumption DEF From, Slot
  <2> HIDE DEF x
  <2>3. x % CACHED_TAGS_LIMIT = IF x < CACHED_TAGS_LIMIT THEN x
                                ELSE x - CACHED_TAGS_LIMIT
    BY <2>1, CachedTagsLimitAssumption
  <2> QED BY <2>2, <2>3 DEF x
<1>3. From(f, k) \in Slot /\ (From(f, k) = f => k = 1)
  BY CachedTagsLimitAssumption DEF From, Slot
<1> QED BY <1>2, <1>3

(* Moving the front by one shifts the positions by one.                    *)
LEMMA FromSucc ==
  ASSUME NEW f \in Slot, NEW k \in 1 .. CACHED_TAGS_LIMIT - 1
  PROVE  From(Succ(f), k) = From(f, k + 1)
  BY SuccValue, CachedTagsLimitAssumption DEF From, Slot

(* The contents of a good queue are a sequence of tags, at their slots.    *)
LEMMA ContentsSeq ==
  ASSUME NEW q, Good(q)
  PROVE  /\ QueueLen(q) \in 0 .. CACHED_TAGS_LIMIT
         /\ Contents(q) \in Seq(Tag)
         /\ Len(Contents(q)) = QueueLen(q)
         /\ \A k \in 1 .. QueueLen(q) :
              /\ At(q, k) \in Occupied(q)
              /\ Contents(q)[k] = q.flv_tags[At(q, k)]
         /\ QueueLen(q) = 0 <=> q.empty
         /\ QueueLen(q) = CACHED_TAGS_LIMIT <=> viewer_queue_full(q)
<1>1. CASE q.empty
  <2>1. QueueLen(q) = 0 /\ ~viewer_queue_full(q)
    BY <1>1 DEF QueueLen, viewer_queue_full
  <2>2. Contents(q) = << >>
    BY <2>1 DEF Contents
  <2> QED BY <1>1, <2>1, <2>2, CachedTagsLimitAssumption
<1>2. CASE ~q.empty
  <2>1. q.front \in Slot /\ q.rear \in Slot /\ q.flv_tags \in [Slot -> Tag \cup {NULL}]
    BY <1>2 DEF Good, IndicesCoherent, QueueType
  <2>2. /\ QueueLen(q) \in 1 .. CACHED_TAGS_LIMIT
        /\ QueueLen(q) = CACHED_TAGS_LIMIT <=> viewer_queue_full(q)
    BY <1>2, <2>1, CachedTagsLimitAssumption DEF QueueLen, Slot, viewer_queue_full
  <2>3. ASSUME NEW k \in 1 .. QueueLen(q)
        PROVE  /\ At(q, k) \in Occupied(q)
               /\ (q.front + k - 1) % CACHED_TAGS_LIMIT = At(q, k)
               /\ q.flv_tags[At(q, k)] \in Tag
    <3>1. At(q, k) \in Slot /\ (q.front + k - 1) % CACHED_TAGS_LIMIT = At(q, k)
      <4>1. k \in 1 .. CACHED_TAGS_LIMIT
        BY <2>2, CachedTagsLimitAssumption
      <4> QED BY <2>1, <4>1, FromValue DEF At
    <3>2. Within(At(q, k), q.front, q.rear)
      BY <1>2, <2>1, <2>2, CachedTagsLimitAssumption DEF At, From, Slot, Within, QueueLen
    <3>3. At(q, k) \in Occupied(q)
      BY <1>2, <3>1, <3>2, OccupiedMember
    <3> QED BY <2>1, <3>1, <3>3 DEF Good, SlotsMatch
  <2>4. Contents(q) = [k \in 1 .. QueueLen(q) |-> q.flv_tags[At(q, k)]]
    BY <2>3 DEF Contents
  <2>5. Contents(q) \in Seq(Tag) /\ Len(Contents(q)) = QueueLen(q)
    <3>1. QueueLen(q) \in Nat
      BY <2>2, CachedTagsLimitAssumption
    <3> QED BY <2>3, <2>4, <3>1, IsASeq
  <2> QED BY <1>2, <2>2, <2>3, <2>4, <2>5, CachedTagsLimitAssumption
<1> QED BY <1>1, <1>2

(* viewer_queue_pop takes the tail of the list.                            *)
LEMMA ContentsPop ==
  ASSUME NEW q, Good(q), ~q.empty
  PROVE  Contents(viewer_queue_pop(q)) = Tail(Contents(q))
<1> DEFINE p == viewer_queue_pop(q)
<1>1. Good(p)
  BY GoodPop
<1>2. /\ q.front \in Slot /\ q.rear \in Slot
      /\ p.front = Succ(q.front) /\ p.rear = q.rear
      /\ p.empty <=> Succ(q.front) = q.rear
      /\ q.flv_tags \in [Slot -> Tag \cup {NULL}]
      /\ p.flv_tags = [q.flv_tags EXCEPT ![q.front] = NULL]
  BY DEF viewer_queue_pop, viewer_queue_empty, Good, IndicesCoherent, QueueType
<1> HIDE DEF p
<1>3. QueueLen(p) = QueueLen(q) - 1
  <2>1. QueueLen(q) = IF q.front < q.rear THEN q.rear - q.front
                      ELSE q.rear - q.front + CACHED_TAGS_LIMIT
    BY DEF QueueLen
  <2>2. QueueLen(p) = IF Succ(q.front) = q.rear THEN 0
                      ELSE IF Succ(q.front) < q.rear THEN q.rear - Succ(q.front)
                      ELSE q.rear - Succ(q.front) + CACHED_TAGS_LIMIT
    BY <1>2 DEF QueueLen
  <2> QED BY <1>2, <2>1, <2>2, SuccValue, CachedTagsLimitAssumption, SMTT(30) DEF Slot
<1>4. ASSUME NEW k \in 1 .. QueueLen(p)
      PROVE  Contents(p)[k] = Contents(q)[k + 1]
  <2>1. k + 1 \in 1 .. QueueLen(q) /\ k \in Nat
    BY <1>3, ContentsSeq, CachedTagsLimitAssumption
  <2>2. At(p, k) = At(q, k + 1) /\ At(p, k) # q.front /\ At(p, k) \in Slot
    <3>1. QueueLen(q) \in 0 .. CACHED_TAGS_LIMIT
      BY ContentsSeq
    <3>2. k \in 1 .. CACHED_TAGS_LIMIT - 1 /\ k + 1 \in 1 .. CACHED_TAGS_LIMIT
      BY <2>1, <3>1, CachedTagsLimitAssumption
    <3>3. At(p, k) = From(Succ(q.front), k)
      BY <1>2 DEF At
    <3>4. At(p, k) = From(q.front, k + 1)
      BY <1>2, <3>2, <3>3, FromSucc
    <3>5. From(q.front, k + 1) \in Slot /\ From(q.front, k + 1) # q.front
      BY <1>2, <2>1, <3>2, FromValue
    <3> QED BY <3>4, <3>5 DEF At
  <2>3. p.flv_tags[At(p, k)] = q.flv_tags[At(p, k)]
    BY <1>2, <2>2
  <2> QED BY <1>1, <2>1, <2>2, <2>3, ContentsSeq
<1>5. /\ Contents(q) \in Seq(Tag) /\ Contents(q) # << >>
      /\ Len(Contents(q)) = QueueLen(q)
      /\ Contents(p) \in Seq(Tag) /\ Len(Contents(p)) = QueueLen(p)
  BY <1>1, ContentsSeq, EmptySeq
<1>6. /\ Tail(Contents(q)) \in Seq(Tag)
      /\ Len(Tail(Contents(q))) = QueueLen(q) - 1
      /\ \A k \in 1 .. QueueLen(q) - 1 : Tail(Contents(q))[k] = Contents(q)[k + 1]
  BY <1>5, HeadTailProperties
<1> QED BY <1>3, <1>4, <1>5, <1>6, SeqEqual DEF p

(* viewer_queue_push appends to the list.                                  *)
LEMMA ContentsPush ==
  ASSUME NEW q, Good(q), ~viewer_queue_full(q),
         NEW t \in Tag, t.sent_bytes = 0
  PROVE  Contents(viewer_queue_push(q, t)) = Append(Contents(q), t)
<1> DEFINE p == viewer_queue_push(q, t)
           f == IF q.front = CACHED_TAGS_LIMIT THEN 0 ELSE q.front
           r == IF q.rear = CACHED_TAGS_LIMIT THEN 0 ELSE q.rear
<1>1. Good(p)
  BY GoodPush
<1>2. /\ p.front = f /\ p.rear = Succ(r) /\ p.empty = FALSE
      /\ p.flv_tags = [q.flv_tags EXCEPT ![r] = t]
      /\ q.flv_tags \in [Slot -> Tag \cup {NULL}]
  BY DEF viewer_queue_push, Good, QueueType
<1>3. /\ f \in Slot /\ r \in Slot
      /\ q.empty => f = r
      /\ ~q.empty => f = q.front /\ r = q.rear /\ f # r
  BY CachedTagsLimitAssumption
  DEF Good, IndicesCoherent, QueueType, Slot, viewer_queue_full
<1> HIDE DEF p, f, r
<1>4. QueueLen(p) = QueueLen(q) + 1
  BY <1>2, <1>3, SuccValue, CachedTagsLimitAssumption, SMTT(30) DEF QueueLen, Slot
<1>5. ASSUME NEW k \in 1 .. QueueLen(q)
      PROVE  Contents(p)[k] = Contents(q)[k]
  <2>1. ~q.empty /\ QueueLen(q) \in Nat
    BY ContentsSeq, CachedTagsLimitAssumption
  <2>2. At(p, k) = At(q, k)
    BY <1>2, <1>3, <2>1 DEF At
  <2>3. At(q, k) # r /\ At(q, k) \in Slot
    <3>1. At(q, k) \in Occupied(q) /\ At(q, k) \in Slot
      BY ContentsSeq, OccupiedSlots
    <3>2. Within(At(q, k), q.front, q.rear)
      BY <3>1, OccupiedMember
    <3> QED BY <1>3, <2>1, <3>1, <3>2, CachedTagsLimitAssumption DEF Within, Slot
  <2>4. p.flv_tags[At(q, k)] = q.flv_tags[At(q, k)]
    BY <1>2, <2>3
  <2>5. k \in 1 .. QueueLen(p)
    BY <1>4, <2>1
  <2> QED BY <1>1, <2>2, <2>4, <2>5, ContentsSeq
<1>6. Contents(p)[QueueLen(q) + 1] = t
  <2>1. QueueLen(p) \in 1 .. QueueLen(p) /\ QueueLen(q) \in 0 .. CACHED_TAGS_LIMIT
    BY <1>1, <1>2, <1>4, ContentsSeq, CachedTagsLimitAssumption
  <2>2. At(p, QueueLen(p)) = r
    <3>1. CASE q.empty
      BY <1>2, <1>3, <1>4, <3>1, CachedTagsLimitAssumption DEF At, From, QueueLen, Slot
    <3>2. CASE ~q.empty
      BY <1>2, <1>3, <1>4, <3>2, CachedTagsLimitAssumption DEF At, From, QueueLen, Slot
    <3> QED BY <3>1, <3>2
  <2>3. p.flv_tags[r] = t
    BY <1>2, <1>3
  <2> QED BY <1>1, <1>4, <2>1, <2>2, <2>3, ContentsSeq
<1>7. /\ Contents(q) \in Seq(Tag) /\ Len(Contents(q)) = QueueLen(q)
      /\ Contents(p) \in Seq(Tag) /\ Len(Contents(p)) = QueueLen(p)
      /\ QueueLen(q) \in Nat
  BY <1>1, ContentsSeq, CachedTagsLimitAssumption
<1>8. /\ Append(Contents(q), t) \in Seq(Tag)
      /\ Len(Append(Contents(q), t)) = QueueLen(q) + 1
      /\ \A k \in 1 .. QueueLen(q) : Append(Contents(q), t)[k] = Contents(q)[k]
      /\ Append(Contents(q), t)[QueueLen(q) + 1] = t
  BY <1>7, AppendProperties
<1>9. \A k \in 1 .. QueueLen(p) : Contents(p)[k] = Append(Contents(q), t)[k]
  BY <1>4, <1>5, <1>6, <1>7, <1>8
<1> QED BY <1>4, <1>7, <1>8, <1>9, SeqEqual DEF p

-----------------------------------------------------------------------------
(* Steps along the ring of a full queue.                                   *)
LEMMA FromSteps ==
  ASSUME NEW f \in Slot, NEW pos \in Slot, NEW k \in 1 .. CACHED_TAGS_LIMIT - 1
  PROVE  /\ Succ(From(f, k)) = From(f, k + 1)
         /\ From(f, k) # (IF f = 0 THEN CACHED_TAGS_LIMIT - 1 ELSE f - 1)
         /\ Within(From(f, k), pos, f) <=> k > Distance(f, pos)
<1>1. From(f, k) \in Slot
  BY FromValue, CachedTagsLimitAssumption
<1>2. Succ(From(f, k)) = From(f, k + 1)
  BY <1>1, SuccValue, CachedTagsLimitAssumption DEF From, Slot
<1>3. From(f, k) # (IF f = 0 THEN CACHED_TAGS_LIMIT - 1 ELSE f - 1)
  BY CachedTagsLimitAssumption DEF From, Slot
<1>4. Within(From(f, k), pos, f) <=> k > Distance(f, pos)
  BY CachedTagsLimitAssumption DEF From, Slot, Within, Distance
<1> QED BY <1>2, <1>3, <1>4

(* Position k of the list is k - 1 steps from the front, and conversely.   *)
LEMMA FromDistance ==
  ASSUME NEW f \in Slot, NEW i \in Slot
  PROVE  /\ Distance(f, i) \in 0 .. CACHED_TAGS_LIMIT - 1
         /\ From(f, Distance(f, i) + 1) = i
         /\ \A k \in 1 .. CACHED_TAGS_LIMIT : Distance(f, From(f, k)) = k - 1
  BY CachedTagsLimitAssumption DEF From, Slot, Distance

(* The list of a full ring has a tag for every slot.                       *)
LEMMA FullRing ==
  ASSUME NEW q, Good(q), viewer_queue_full(q)
  PROVE  /\ q.front \in Slot /\ q.rear = q.front /\ ~q.empty
         /\ q.flv_tags \in [Slot -> Tag \cup {NULL}]
         /\ Contents(q) \in Seq(Tag)
         /\ Len(Contents(q)) = CACHED_TAGS_LIMIT
         /\ QueueLen(q) = CACHED_TAGS_LIMIT
         /\ \A k \in 1 .. CACHED_TAGS_LIMIT :
              Contents(q)[k] = q.flv_tags[From(q.front, k)]
<1>1. q.front \in Slot /\ q.rear = q.front /\ ~q.empty
  BY CachedTagsLimitAssumption DEF Good, IndicesCoherent, viewer_queue_full
<1>2. q.flv_tags \in [Slot -> Tag \cup {NULL}]
  BY DEF Good, QueueType
<1> QED BY <1>1, <1>2, ContentsSeq DEF At

(* viewer_queue_delete takes one position out of the list of a full ring.  *)
LEMMA ContentsDelete ==
  ASSUME NEW q, Good(q), viewer_queue_full(q), NEW pos \in Slot
  PROVE  Contents(viewer_queue_delete(q, pos))
           = Fifo!Without(Contents(q), Distance(q.front, pos) + 1)
<1> DEFINE p == viewer_queue_delete(q, pos)
           last == IF q.front = 0 THEN CACHED_TAGS_LIMIT - 1 ELSE q.front - 1
           d == Distance(q.front, pos)
<1>1. Good(p)
  BY GoodDelete
<1>2. /\ q.front \in Slot /\ q.rear = q.front /\ ~q.empty
      /\ last \in Slot /\ last # q.front
      /\ d \in 0 .. CACHED_TAGS_LIMIT - 1
  <2>1. q.front \in Slot /\ q.rear = q.front /\ ~q.empty
    BY FullRing
  <2>2. last \in Slot /\ last # q.front
    BY <2>1, CachedTagsLimitAssumption DEF Slot
  <2>3. d \in 0 .. CACHED_TAGS_LIMIT - 1
    BY <2>1, FromDistance
  <2> QED BY <2>1, <2>2, <2>3
<1>3. /\ p.flv_tags = [i \in Slot |->
                        IF i = last THEN NULL
                        ELSE IF i \in Span(pos, q.front) THEN q.flv_tags[Succ(i)]
                        ELSE q.flv_tags[i]]
      /\ p.front = q.front /\ p.rear = last /\ ~p.empty
  BY <1>2 DEF viewer_queue_delete, viewer_queue_empty, Good, QueueType
<1> HIDE DEF p
<1>4. QueueLen(p) = CACHED_TAGS_LIMIT - 1
  BY <1>2, <1>3, CachedTagsLimitAssumption DEF QueueLen, Slot
<1>5. ASSUME NEW k \in 1 .. CACHED_TAGS_LIMIT - 1
      PROVE  Contents(p)[k] = IF k < d + 1 THEN Contents(q)[k] ELSE Contents(q)[k + 1]
  <2> DEFINE i == From(q.front, k)
  <2>1. k \in 1 .. CACHED_TAGS_LIMIT /\ k + 1 \in 1 .. CACHED_TAGS_LIMIT
    BY CachedTagsLimitAssumption
  <2>2. i \in Slot /\ i # last /\ Succ(i) = From(q.front, k + 1)
    BY <1>2, <2>1, FromValue, FromSteps
  <2>3. i \in Span(pos, q.front) <=> k > d
    BY <1>2, <2>2, FromSteps DEF Span
  <2>4. Contents(p)[k] = p.flv_tags[i]
    BY <1>1, <1>3, <1>4, ContentsSeq DEF At
  <2>5. Contents(q)[k] = q.flv_tags[i] /\ Contents(q)[k + 1] = q.flv_tags[Succ(i)]
    BY <2>1, <2>2, FullRing
  <2> HIDE DEF i, d, last
  <2>6. k < d + 1 <=> ~ (k > d)
    BY <1>2, CachedTagsLimitAssumption
  <2> QED BY <1>3, <2>2, <2>3, <2>4, <2>5, <2>6
<1> HIDE DEF d, last
<1>6. /\ Contents(p) \in Seq(Tag) /\ Len(Contents(p)) = CACHED_TAGS_LIMIT - 1
      /\ Len(Contents(q)) = CACHED_TAGS_LIMIT
  BY <1>1, <1>4, ContentsSeq, FullRing
<1>7. Contents(p) = [k \in 1 .. CACHED_TAGS_LIMIT - 1 |-> Contents(p)[k]]
  BY <1>6
<1> QED BY <1>5, <1>6, <1>7 DEF p, d, Fifo!Without

(* When a position is the one that TagFifo gives up.                       *)
LEMMA VictimIntro ==
  ASSUME NEW s, NEW k, ~s[k].is_key_frame,
         \A j \in 1 .. k - 1 : s[j].is_key_frame
  PROVE  Fifo!Victim(s, k)
  BY DEF Fifo!Victim

(* drop_frame gives up the tag that TagFifo gives up.                      *)
LEMMA ContentsDrop ==
  ASSUME NEW q, Good(q), viewer_queue_full(q)
  PROVE  \E k \in 1 .. Len(Contents(q)) :
           /\ Fifo!Victim(Contents(q), k)
           /\ Contents(drop_frame(q)) = Fifo!Without(Contents(q), k)
<1>1. /\ q.front \in Slot /\ q.rear = q.front /\ ~q.empty
      /\ Contents(q) \in Seq(Tag) /\ Len(Contents(q)) = CACHED_TAGS_LIMIT
      /\ \A k \in 1 .. CACHED_TAGS_LIMIT :
           Contents(q)[k] = q.flv_tags[From(q.front, k)]
  BY FullRing
<1>2. \A i \in Slot : i \in NonKeySlots(q) <=> ~q.flv_tags[i].is_key_frame
  <2> TAKE i \in Slot
  <2>1. Within(i, q.front, q.rear)
    BY <1>1, CachedTagsLimitAssumption DEF Within, Slot
  <2> QED BY <2>1 DEF NonKeySlots, Span
<1>3. CASE NonKeySlots(q) = {}
  <2>1. drop_frame(q) = viewer_queue_pop(q)
    BY <1>1, <1>3 DEF drop_frame, viewer_queue_empty
  <2>2. Contents(drop_frame(q)) = Tail(Contents(q))
    BY <1>1, <2>1, ContentsPop
  <2>3. Contents(q) # << >>
    BY <1>1, EmptySeq, CachedTagsLimitAssumption
  <2>4. /\ Tail(Contents(q)) \in Seq(Tag)
        /\ Len(Tail(Contents(q))) = CACHED_TAGS_LIMIT - 1
        /\ \A k \in 1 .. CACHED_TAGS_LIMIT - 1 :
             Tail(Contents(q))[k] = Contents(q)[k + 1]
    BY <1>1, <2>3, HeadTailProperties
  <2>5. Fifo!Without(Contents(q), 1)
          = [k \in 1 .. CACHED_TAGS_LIMIT - 1 |-> Contents(q)[k + 1]]
    BY <1>1, CachedTagsLimitAssumption DEF Fifo!Without
  <2>6. Tail(Contents(q)) = Fifo!Without(Contents(q), 1)
    <3> DEFINE s == Tail(Contents(q))
    <3>1. /\ s \in Seq(Tag) /\ Len(s) = CACHED_TAGS_LIMIT - 1
          /\ \A k \in 1 .. CACHED_TAGS_LIMIT - 1 : s[k] = Contents(q)[k + 1]
      BY <2>4
    <3> HIDE DEF s
    <3>2. s = [k \in 1 .. CACHED_TAGS_LIMIT - 1 |-> s[k]]
      BY <3>1
    <3>3. s = Fifo!Without(Contents(q), 1)
      BY <2>5, <3>1, <3>2
    <3> QED BY <3>3 DEF s
  <2>7. Fifo!Victim(Contents(q), 1)
    <3>1. \A k \in 1 .. CACHED_TAGS_LIMIT : From(q.front, k) \in Slot
      BY <1>1, FromValue
    <3>2. \A k \in 1 .. CACHED_TAGS_LIMIT : Contents(q)[k].is_key_frame
      BY <1>1, <1>2, <1>3, <3>1
    <3> QED BY <1>1, <3>2 DEF Fifo!Victim
  <2>8. 1 \in 1 .. Len(Contents(q))
    BY <1>1, CachedTagsLimitAssumption
  <2> QED BY <2>2, <2>6, <2>7, <2>8
<1>4. CASE NonKeySlots(q) # {}
  <2> DEFINE pos == FirstNonKey(q)
             d == Distance(q.front, pos)
  <2>1. drop_frame(q) = viewer_queue_delete(q, pos)
    BY <1>1, <1>4 DEF drop_frame, viewer_queue_empty, FirstNonKey
  <2>2. /\ pos \in Slot /\ pos \in NonKeySlots(q)
        /\ \A j \in NonKeySlots(q) : d <= Distance(q.front, j)
    BY <1>1, <1>4, FirstNonKeyProperties DEF NonKeySlots, Span
  <2> HIDE DEF pos
  <2>3. /\ d \in 0 .. CACHED_TAGS_LIMIT - 1
        /\ From(q.front, d + 1) = pos
    BY <1>1, <2>2, FromDistance
  <2>4. Contents(drop_frame(q)) = Fifo!Without(Contents(q), d + 1)
    BY <2>1, <2>2, ContentsDelete
  <2> HIDE DEF d
  <2>5. d + 1 \in 1 .. CACHED_TAGS_LIMIT
    BY <2>3, CachedTagsLimitAssumption
  <2>6. ~Contents(q)[d + 1].is_key_frame
    BY <1>1, <1>2, <2>2, <2>3, <2>5
  <2>7. ASSUME NEW j \in 1 .. d
        PROVE  Contents(q)[j].is_key_frame
    <3>1. j \in 1 .. CACHED_TAGS_LIMIT /\ j - 1 < d
      BY <2>3, CachedTagsLimitAssumption
    <3>2. From(q.front, j) \in Slot /\ Distance(q.front, From(q.front, j)) = j - 1
      BY <1>1, <3>1, FromValue, FromDistance
    <3>3. From(q.front, j) \notin NonKeySlots(q)
      BY <2>2, <2>3, <3>1, <3>2
    <3> QED BY <1>1, <1>2, <3>1, <3>2, <3>3
  <2>8. Fifo!Victim(Contents(q), d + 1)
    <3> DEFINE k == d + 1
    <3>1. /\ ~Contents(q)[k].is_key_frame
          /\ \A j \in 1 .. k - 1 : Contents(q)[j].is_key_frame
      <4>1. k - 1 = d
        BY <2>3
      <4>2. ~Contents(q)[k].is_key_frame
        BY <2>6
      <4> HIDE DEF k
      <4> QED BY <2>7, <4>1, <4>2
    <3> HIDE DEF k
    <3>2. Fifo!Victim(Contents(q), k)
      BY <3>1, VictimIntro
    <3> QED BY <3>2 DEF k
  <2> QED BY <1>1, <2>4, <2>5, <2>8
<1> QED BY <1>3, <1>4

(* Sending a part changes the counter of the head of the list only.        *)
LEMMA ContentsSend ==
  ASSUME NEW q, Good(q), ~q.empty, NEW n \in 1 .. DataSize - 1,
         q.flv_tags[q.front].sent_bytes + n < DataSize
  PROVE  /\ Contents(q) # << >>
         /\ Contents(q)[1] = q.flv_tags[q.front]
         /\ Contents([q EXCEPT !.flv_tags[q.front].sent_bytes = @ + n])
              = [Contents(q) EXCEPT ![1].sent_bytes = @ + n]
<1> DEFINE p == [q EXCEPT !.flv_tags[q.front].sent_bytes = @ + n]
           t == [q.flv_tags[q.front] EXCEPT !.sent_bytes = @ + n]
<1>1. Good(p)
  BY GoodSend
<1>2. /\ q.front \in Slot /\ q.rear \in Slot
      /\ q.flv_tags \in [Slot -> Tag \cup {NULL}]
      /\ p.flv_tags = [q.flv_tags EXCEPT ![q.front] = t]
      /\ p.front = q.front /\ p.rear = q.rear /\ p.empty = q.empty
  BY DEF Good, QueueType, IndicesCoherent
<1> HIDE DEF p, t
<1>3. QueueLen(p) = QueueLen(q) /\ QueueLen(q) \in 1 .. CACHED_TAGS_LIMIT
  <2>1. QueueLen(p) = QueueLen(q)
    BY <1>2 DEF QueueLen
  <2> QED BY <2>1, ContentsSeq, CachedTagsLimitAssumption
<1>4. /\ Contents(q) \in Seq(Tag) /\ Len(Contents(q)) = QueueLen(q)
      /\ Contents(p) \in Seq(Tag) /\ Len(Contents(p)) = QueueLen(q)
  BY <1>1, <1>3, ContentsSeq
<1>5. From(q.front, 1) = q.front
  BY <1>2, CachedTagsLimitAssumption DEF From, Slot
<1>6. Contents(q)[1] = q.flv_tags[q.front] /\ Contents(p)[1] = t
  <2>1. 1 \in 1 .. QueueLen(q)
    BY <1>3, CachedTagsLimitAssumption
  <2>2. Contents(q)[1] = q.flv_tags[From(q.front, 1)]
    BY <2>1, ContentsSeq DEF At
  <2>3. Contents(p)[1] = p.flv_tags[From(p.front, 1)]
    BY <1>1, <1>3, <2>1, ContentsSeq DEF At
  <2> QED BY <1>2, <1>5, <2>2, <2>3
<1>7. ASSUME NEW k \in 1 .. QueueLen(q), k # 1
      PROVE  Contents(p)[k] = Contents(q)[k]
  <2>1. k \in 1 .. CACHED_TAGS_LIMIT
    BY <1>3, CachedTagsLimitAssumption
  <2>2. From(q.front, k) \in Slot /\ From(q.front, k) # q.front
    BY <1>2, <1>7, <2>1, FromValue
  <2>3. Contents(q)[k] = q.flv_tags[From(q.front, k)]
    BY ContentsSeq DEF At
  <2>4. Contents(p)[k] = p.flv_tags[From(q.front, k)]
    <3>1. k \in 1 .. QueueLen(p)
      BY <1>3
    <3>2. Contents(p)[k] = p.flv_tags[From(p.front, k)]
      BY <1>1, <3>1, ContentsSeq DEF At
    <3> QED BY <1>2, <3>2
  <2> QED BY <1>2, <2>2, <2>3, <2>4
<1>8. Contents(q) = [k \in 1 .. QueueLen(q) |-> Contents(q)[k]]
  BY <1>4
<1>9. Contents(p) = [k \in 1 .. QueueLen(q) |-> Contents(p)[k]]
  BY <1>4
<1>10. [Contents(q) EXCEPT ![1].sent_bytes = @ + n] = [Contents(q) EXCEPT ![1] = t]
  BY <1>6 DEF t
<1>11. Contents(p) = [Contents(q) EXCEPT ![1] = t]
  BY <1>6, <1>7, <1>8, <1>9
<1>12. Contents(q) # << >>
  BY <1>3, <1>4, EmptySeq, CachedTagsLimitAssumption
<1> QED BY <1>6, <1>10, <1>11, <1>12 DEF p

(* A new queue is the empty list.                                          *)
LEMMA ContentsNew == Contents(new_viewer_queue) = << >>
<1>1. QueueLen(new_viewer_queue) = 0
  BY DEF QueueLen, new_viewer_queue
<1> QED BY <1>1 DEF Contents

(* delete_viewer_queue leaves the empty list.                              *)
LEMMA ContentsClear ==
  ASSUME NEW q, Good(q)
  PROVE  Contents(delete_viewer_queue(q)) = << >>
<1>1. delete_viewer_queue(q).empty
  BY DEF delete_viewer_queue, viewer_queue_empty
<1>2. QueueLen(delete_viewer_queue(q)) = 0
  BY <1>1 DEF QueueLen
<1> QED BY <1>2 DEF Contents

-----------------------------------------------------------------------------
(* A step of the ring is a step of the list.                               *)
LEMMA StepImplements ==
  ASSUME Good(viewer_queue), [Next]_viewer_queue
  PROVE  [Fifo!Next]_(Contents(viewer_queue))
<1> DEFINE q == viewer_queue
           c == Contents(viewer_queue)
<1>1. ASSUME NEW t \in Tag, t.sent_bytes = 0, PushTag(t)
      PROVE  Fifo!Next
  <2>1. CASE viewer_queue_full(q)
    <3>1. PICK k \in 1 .. Len(c) :
            Fifo!Victim(c, k) /\ Contents(drop_frame(q)) = Fifo!Without(c, k)
      BY <2>1, ContentsDrop
    <3>2. Good(drop_frame(q)) /\ ~viewer_queue_full(drop_frame(q))
      BY <2>1, GoodDrop
    <3>3. c' = Contents(viewer_queue_push(drop_frame(q), t))
      BY <1>1, <2>1 DEF PushTag
    <3>4. c' = Append(Fifo!Without(c, k), t)
      BY <1>1, <3>1, <3>2, <3>3, ContentsPush
    <3>5. Len(c) = CACHED_TAGS_LIMIT
      BY <2>1, FullRing
    <3>6. Fifo!Push(t)
      BY <3>1, <3>4, <3>5 DEF Fifo!Push
    <3> QED BY <1>1, <3>6 DEF Fifo!Next, Fifo!Tag, Fifo!Fresh, Tag
  <2>2. CASE ~viewer_queue_full(q)
    <3>1. c' = Append(c, t)
      BY <1>1, <2>2, ContentsPush DEF PushTag
    <3>2. Len(c) < CACHED_TAGS_LIMIT
      BY <2>2, ContentsSeq, CachedTagsLimitAssumption
    <3>3. Fifo!Push(t)
      BY <3>1, <3>2 DEF Fifo!Push
    <3> QED BY <1>1, <3>3 DEF Fifo!Next, Fifo!Tag, Fifo!Fresh, Tag
  <2> QED BY <2>1, <2>2
<1>2. ASSUME NEW n \in 1 .. DataSize - 1, SendPart(n)
      PROVE  Fifo!Next
  <2>1. /\ c # << >> /\ c[1] = q.flv_tags[q.front]
        /\ c' = [c EXCEPT ![1].sent_bytes = @ + n]
    BY <1>2, ContentsSend DEF SendPart, viewer_queue_empty, viewer_queue_top
  <2>2. Fifo!SendPart(n)
    BY <1>2, <2>1 DEF SendPart, Fifo!SendPart, viewer_queue_top
  <2> QED BY <2>2 DEF Fifo!Next
<1>3. ASSUME PopTag PROVE Fifo!Next
  <2>1. c' = Tail(c)
    BY <1>3, ContentsPop DEF PopTag, viewer_queue_empty
  <2>2. c # << >>
    BY <1>3, ContentsSeq, EmptySeq DEF PopTag, viewer_queue_empty
  <2> QED BY <2>1, <2>2 DEF Fifo!Next, Fifo!Pop
<1>4. ASSUME DeleteQueue PROVE Fifo!Next
  BY <1>4, ContentsClear DEF DeleteQueue, Fifo!Next, Fifo!Clear
<1>5. ASSUME UNCHANGED viewer_queue PROVE UNCHANGED c
  BY <1>5 DEF Contents
<1> QED BY <1>1, <1>2, <1>3, <1>4, <1>5 DEF Next

(* The ring implements the bounded list with its drop rule: the streamer's *)
(* index arithmetic loses, duplicates and reorders no tag other than the   *)
(* one drop_frame is meant to give up.                                     *)
THEOREM RingImplementsFifo == Spec => FifoSpec
<1>1. Init => Fifo!Init
  BY ContentsNew DEF Init, Fifo!Init
<1>2. Good(viewer_queue) /\ [Next]_viewer_queue
        => [Fifo!Next]_(Contents(viewer_queue))
  BY StepImplements
<1> QED BY <1>1, <1>2, RingIsGood, PTL DEF Spec, FifoSpec, Fifo!Spec
=============================================================================
