---------------------------- MODULE MCSpeechRooms ----------------------------
(* SpeechRooms for TLC: PCs are interchangeable and so are cameras; the    *)
(* names of the rooms are not, as CHAT_ROOM is searched in their order.    *)
EXTENDS SpeechRooms, TLC

Symmetry == Permutations(PC) \cup Permutations(Camera)
=============================================================================
