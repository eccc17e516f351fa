----------------------------- MODULE SpeechRooms -----------------------------
(***************************************************************************)
(* The rooms of the speech transfer server and the packets that wait to be *)
(* mixed (src/projects/speech-transfer/src/transfer.cpp): handle_udp_msg   *)
(* for every request and for speech, do_mix_and_broadcast_S, and           *)
(* broadcast_speech_message.  One thread; a step is one datagram.          *)
(*                                                                         *)
(* A speech packet is its speaker and its RTP timestamp, the key under     *)
(* which the speaker's pool keeps it.  Datagrams are lost, duplicated and  *)
(* reordered: any client may repeat any request and any timestamp.         *)
(***************************************************************************)
EXTENDS Naturals, FiniteSets, FiniteSetsExt

CONSTANTS Camera, PC,     \* the clients, by the kind of request they make
          Channel,        \* names of rooms: numbers, as std::map sorts them
          MaxTime         \* timestamps are 1 .. MaxTime (bound)

ASSUME SpeechRoomsAssumption ==
    /\ IsFiniteSet(Camera)
    /\ IsFiniteSet(PC)
    /\ Camera \cap PC = {}
    /\ Channel \subseteq Nat
    /\ IsFiniteSet(Channel)
    /\ MaxTime \in Nat

Client == Camera \cup PC
Time == 1 .. MaxTime

VARIABLES
    exists,               \* the keys of CHAT_ROOM
    CHAT_ROOM,            \* the clients of a room
    SORP_POOL,            \* timestamps of the packets of each speaker
    the_first_calculate,  \* no packet has been pooled yet
    heard,                \* history: what this step has sent to whom
    coded                 \* history: the codec has not failed in this step

roomVars == <<exists, CHAT_ROOM>>
poolVars == <<SORP_POOL, the_first_calculate>>
vars == <<exists, CHAT_ROOM, SORP_POOL, the_first_calculate, heard, coded>>

Heard == [from : Client, time : Time, to : Client]

TypeOK ==
    /\ exists \subseteq Channel
    /\ CHAT_ROOM \in [Channel -> SUBSET Client]
    /\ SORP_POOL \in [Client -> SUBSET Time]
    /\ the_first_calculate \in BOOLEAN
    /\ heard \subseteq Heard
    /\ coded \in BOOLEAN
    /\ \A ch \in Channel \ exists : CHAT_ROOM[ch] = {}

Init ==
    /\ exists = {}
    /\ CHAT_ROOM = [ch \in Channel |-> {}]
    /\ SORP_POOL = [c \in Client |-> {}]
    /\ the_first_calculate = TRUE
    /\ heard = {}
    /\ coded = TRUE

-----------------------------------------------------------------------------
(* client_already_in: some room has the client; the iterator is left at    *)
(* the first one in the order of the names.                                *)
RoomsOf(c) == {ch \in exists : c \in CHAT_ROOM[ch]}

client_already_in(c) == RoomsOf(c) # {}

FirstRoom(c) == Min(RoomsOf(c))

(* As Join, when only the room asked for is searched for the client.       *)
Join_checks_room(c, ch) ==
    /\ ch \in exists
    /\ CHAT_ROOM' = IF c \in CHAT_ROOM[ch] THEN CHAT_ROOM
                    ELSE [CHAT_ROOM EXCEPT ![ch] = @ \cup {c}]
    /\ UNCHANGED exists

(* A PC's JOIN: into a room that exists, if it is in none.                 *)
Join(c, ch) ==
    /\ ch \in exists
    /\ CHAT_ROOM' = IF client_already_in(c) THEN CHAT_ROOM
                    ELSE [CHAT_ROOM EXCEPT ![ch] = @ \cup {c}]
    /\ UNCHANGED exists

(* A PC's LEAVE: out of the room it names, when it is in some room.        *)
Leave(c, ch) ==
    /\ ch \in exists
    /\ client_already_in(c)
    /\ CHAT_ROOM' = [CHAT_ROOM EXCEPT ![ch] = @ \ {c}]
    /\ UNCHANGED exists

(* A camera's CREATE: a new room with the camera in it, whatever rooms it  *)
(* is in; for a room that exists it changes nothing.                       *)
Create(c, ch) ==
    /\ ch \notin exists
    /\ exists' = exists \cup {ch}
    /\ CHAT_ROOM' = [CHAT_ROOM EXCEPT ![ch] = {c}]

(* A camera's CANCEL: the room of that name, whoever created it.  Packets  *)
(* of its members stay in SORP_POOL.                                       *)
Cancel(c, ch) ==
    /\ ch \in exists
    /\ exists' = exists \ {ch}
    /\ CHAT_ROOM' = [CHAT_ROOM EXCEPT ![ch] = {}]

(* handle_udp_msg for the personal signalling.                             *)
Request ==
    /\ \E ch \in Channel :
          \/ \E c \in PC : Join(c, ch) \/ Leave(c, ch)
          \/ \E c \in Camera : Create(c, ch) \/ Cancel(c, ch)
    /\ heard' = {}
    /\ coded' = TRUE
    /\ UNCHANGED poolVars

-----------------------------------------------------------------------------
(* do_mix_and_broadcast_S.  In round k the k-th packet of every speaker    *)
(* that has one is taken.                                                  *)
Speakers(pool) == {c \in Client : pool[c] # {}}

MAX_BUFFER_SIZE(pool) == Max({Cardinality(pool[c]) : c \in Client})

InRound(pool, k) == {c \in Client : Cardinality(pool[c]) >= k}

Packet(pool, c, k) ==
    CHOOSE t \in pool[c] : Cardinality({u \in pool[c] : u <= t}) = k

(* broadcast_speech_message: to everybody in the room except one.          *)
Broadcast(c, t, ch, except) ==
    {[from |-> c, time |-> t, to |-> m] : m \in CHAT_ROOM[ch] \ except}

(* A single speaker: all of the packets, to everybody else.                *)
SingleSpeaker(pool, ch) ==
    UNION {UNION {Broadcast(c, t, ch, {c}) : t \in pool[c]} :
              c \in Speakers(pool)}

(* Who is left out of a round with one packet: the variable speaker is set *)
(* to the owner of a pool with ONE packet left, otherwise it names nobody. *)
LeftOut(pool, c, k) == IF Cardinality(pool[c]) = k THEN {c} ELSE {}

(* A round of one: its packet as it is.  A round of several: one mixed     *)
(* packet to everybody, the speakers included.                             *)
Round(pool, k, ch) ==
    LET round == InRound(pool, k)
    IN  UNION {Broadcast(c, Packet(pool, c, k), ch,
                         IF round = {c} THEN LeftOut(pool, c, k) ELSE {}) :
                  c \in round}

(* As Rounds, when the loop ends one round early.                          *)
Rounds_one_less(pool) == 1 .. (MAX_BUFFER_SIZE(pool) - 1)

(* The loop ends when COUNT reaches MAX_BUFFER_SIZE.                       *)
Rounds(pool) == 1 .. MAX_BUFFER_SIZE(pool)

(* The rounds whose packets are decoded, mixed and encoded again.          *)
MixedRounds(pool) == {k \in Rounds(pool) : Cardinality(InRound(pool, k)) > 1}

(* The codec may fail: a round is not sent then, or is sent without the    *)
(* packet that could not be decoded.  Nothing is said of such a mix, and   *)
(* heard is left empty for it.                                             *)
do_mix_and_broadcast_S(pool, ch) ==
    \/ /\ heard' = IF Cardinality(Speakers(pool)) = 1
                   THEN SingleSpeaker(pool, ch)
                   ELSE UNION {Round(pool, k, ch) : k \in Rounds(pool)}
       /\ coded' = TRUE
    \/ /\ coded' = FALSE
       /\ MixedRounds(pool) # {}
       /\ heard' = {}

(* The speaker's packet joins the others of its pool; a second one with    *)
(* the same timestamp is not inserted.                                     *)
Pooled(c, t) == [SORP_POOL EXCEPT ![c] = @ \cup {t}]

(* handle_udp_msg for speech of a client that is in a room; when 300 ms    *)
(* have passed since the last time, ALL pools are mixed, sent to the room  *)
(* of THIS speaker, and cleared.                                           *)
OnlyPool(c, t) ==
    /\ client_already_in(c)
    /\ the_first_calculate' = FALSE
    /\ SORP_POOL' = Pooled(c, t)
    /\ heard' = {}
    /\ coded' = TRUE
    /\ UNCHANGED roomVars

PoolAndMix(c, t) ==
    /\ client_already_in(c)
    /\ ~the_first_calculate
    /\ SORP_POOL' = [d \in Client |-> {}]
    /\ do_mix_and_broadcast_S(Pooled(c, t), FirstRoom(c))
    /\ UNCHANGED <<roomVars, the_first_calculate>>

(* Speech of a client in no room is ignored.                               *)
Speech ==
    \E c \in Client, t \in Time : OnlyPool(c, t) \/ PoolAndMix(c, t)

Next ==
    \/ Request
    \/ Speech

Spec == Init /\ [][Next]_vars

-----------------------------------------------------------------------------
(* A client that only joins is in one room at a time, however its requests *)
(* are repeated and however rooms are created and cancelled meanwhile.     *)
PcInOneRoom == \A c \in PC : Cardinality(RoomsOf(c)) <= 1

(* No packet is lost in the mix: when a client's packet makes the server   *)
(* mix, every packet of every pool, that one included, has gone out in     *)
(* some round to everybody in the client's room but its own speaker -      *)
(* unless the codec failed.                                                *)
EveryPacketOut ==
    [][\A c \in Client, t \in Time :
          coded' /\ PoolAndMix(c, t) =>
             \A d \in Client : \A u \in Pooled(c, t)[d] :
                \A m \in CHAT_ROOM[FirstRoom(c)] \ {d} :
                   [from |-> d, time |-> u, to |-> m] \in heard']_vars
=============================================================================
