------------------------------- MODULE TagFifo -------------------------------
(***************************************************************************)
(* What a viewer's queue promises: a bounded first-in first-out list of    *)
(* tags.  A tag pushed onto a full list displaces the oldest tag that is   *)
(* no key frame, or the oldest tag if all are key frames; the byte counter *)
(* of the head is the only part of a queued tag that changes.              *)
(***************************************************************************)
EXTENDS Integers, Sequences

CONSTANTS Capacity, Payload, DataSize

VARIABLE fifo

Tag == [payload : Payload, is_key_frame : BOOLEAN, sent_bytes : 0 .. DataSize - 1]

Fresh(t) == t.sent_bytes = 0

Without(s, k) ==
  [i \in 1 .. Len(s) - 1 |-> IF i < k THEN s[i] ELSE s[i + 1]]

(* Position k of s is the one to give up: the first non-key frame, or the  *)
(* head when there is none.                                                *)
Victim(s, k) ==
  \/ /\ ~s[k].is_key_frame
     /\ \A j \in 1 .. k - 1 : s[j].is_key_frame
  \/ /\ k = 1
     /\ \A j \in 1 .. Len(s) : s[j].is_key_frame

Init == fifo = << >>

Push(t) ==
  \/ /\ Len(fifo) < Capacity
     /\ fifo' = Append(fifo, t)
  \/ /\ Len(fifo) = Capacity
     /\ \E k \in 1 .. Len(fifo) :
          Victim(fifo, k) /\ fifo' = Append(Without(fifo, k), t)

SendPart(n) ==
  /\ fifo # << >>
  /\ fifo[1].sent_bytes + n < DataSize
  /\ fifo' = [fifo EXCEPT ![1].sent_bytes = @ + n]

Pop == fifo # << >> /\ fifo' = Tail(fifo)

Clear == fifo' = << >>

Next ==
  \/ \E t \in Tag : Fresh(t) /\ Push(t)
  \/ \E n \in 1 .. DataSize - 1 : SendPart(n)
  \/ Pop
  \/ Clear

Spec == Init /\ [][Next]_fifo
=============================================================================
