--------------------------- MODULE MCBackingRelay ----------------------------
(* BackingRelay for TLC: all relays are for the same channel, so that they *)
(* share its resource as well as the static counters.  The request of r1   *)
(* is the longer one: a counter it leaves may be within the request of the *)
(* other relay, at its end, or beyond it.                                  *)
EXTENDS BackingRelay

CONSTANTS ch1, r1

MCChannelOf == [r \in Relay |-> ch1]
MCRequestSize == [r \in Relay |-> IF r = r1 THEN 4 ELSE 2]
=============================================================================
