--------------------------- MODULE DatagramProofs ---------------------------
(***************************************************************************)
(* The two services of the repository that speak UDP: dg_send_recv of      *)
(* rudp, and the speech transfer server with its rooms and its signalling. *)
(*                                                                         *)
(* RudpSpec is the client of rudp, Spec the server with its rooms, and     *)
(* Signal the signalling of one channel; they have no variable in common.  *)
(***************************************************************************)
EXTENDS Rudp, SpeechRooms, Sequences, FiniteSetTheorems, WellFoundedInduction, TLAPS

CONSTANTS RcvBuf, times, Inbox
VARIABLES ev_loop, rcvbuf, edge, loop, members, cam, count, tv_timeout, inbox,
          knows

Signal == INSTANCE SpeechSignal

-----------------------------------------------------------------------------
(* rudp: what a call of dg_send_recv returns, for every number of calls,   *)
(* every bound on retransmissions and every network.                       *)

(* Sequence numbers only grow, and the network holds none that was not     *)
(* given out; recvhdr and inbuff are filled together.                      *)
SequencesGrow ==
    /\ sendseq \in Nat
    /\ recvseq \in 0 .. sendseq
    /\ requests \subseteq 0 .. sendseq
    /\ replies \subseteq requests
    /\ inbuff = recvseq

(* Before the answer the last datagram is of an earlier call, unless an    *)
(* alarm has cut off the answer; a loop that ended had its answer.         *)
AnswerKnown ==
    /\ pc \in {"idle", "sendagain", "armed", "waiting", "received"}
    /\ (pc \in {"sendagain", "armed", "waiting"} /\ recvseq = sendseq) => late
    /\ pc = "received" => recvseq = sendseq
    /\ (pc = "received" /\ n # "data") => late
    /\ late \in BOOLEAN

(* A result is there between two calls only.                               *)
ResultAtRest == result # "none" => pc = "idle"

(* The receive loop runs under a sigsetjmp of its own call, and without    *)
(* one the call is at its first transmission.                              *)
JumpReady ==
    /\ pc \in {"waiting", "received"} => jmpbuf = "this"
    /\ (pc = "sendagain" /\ jmpbuf # "this") => sends = 0
    /\ (pc = "armed" /\ jmpbuf # "this") => sends = 1
    /\ undefined # "no" => pc = "idle"

RudpInv ==
    /\ SequencesGrow
    /\ AnswerKnown
    /\ ResultAtRest
    /\ JumpReady
    /\ CallReturnsItsAnswer
    /\ UndefinedOnlyFirst

(* Init establishes the invariant: no request, no answer, no call.         *)
LEMMA RudpInitInv == RudpInit => RudpInv
<1> SUFFICES ASSUME RudpInit PROVE RudpInv
  OBVIOUS
<1>1. SequencesGrow
  BY DEF RudpInit, SequencesGrow
<1>2. pc = "idle" /\ late \in BOOLEAN /\ result = "none"
  BY Zenon DEF RudpInit
<1>3. AnswerKnown /\ ResultAtRest /\ CallReturnsItsAnswer
  BY <1>2 DEF AnswerKnown, ResultAtRest, CallReturnsItsAnswer
<1>4. JumpReady /\ UndefinedOnlyFirst
  BY DEF RudpInit, JumpReady, UndefinedOnlyFirst
<1> QED
  BY <1>1, <1>3, <1>4 DEF RudpInv

(* The start of dg_send_recv takes a number that no datagram carries.      *)
LEMMA CallInv == RudpInv /\ dg_send_recv => RudpInv'
<1> SUFFICES ASSUME RudpInv, dg_send_recv PROVE RudpInv'
  OBVIOUS
<1> USE DEF RudpInv, dg_send_recv, NextSequence
<1>1. SequencesGrow'
  BY DEF SequencesGrow
<1>2. recvseq' # sendseq'
  BY DEF SequencesGrow
<1>3. AnswerKnown' /\ ResultAtRest' /\ CallReturnsItsAnswer'
  BY <1>2 DEF AnswerKnown, ResultAtRest, CallReturnsItsAnswer
<1>4. JumpReady' /\ UndefinedOnlyFirst'
  BY DEF JumpReady, UndefinedOnlyFirst
<1> QED
  BY <1>1, <1>3, <1>4

(* sendmsg, alarm and sigsetjmp.                                           *)
LEMMA SendInv == RudpInv /\ (SendAndArm \/ SetJump) => RudpInv'
<1> USE DEF RudpInv, AnswerKnown, ResultAtRest, JumpReady, CallReturnsItsAnswer,
            UndefinedOnlyFirst, SequencesGrow
<1>1. ASSUME RudpInv, SendAndArm PROVE RudpInv'
  BY <1>1 DEF SendAndArm
<1>2. ASSUME RudpInv, SetJump PROVE RudpInv'
  BY <1>2 DEF SetJump
<1> QED
  BY <1>1, <1>2

(* The receive loop: a reply in the network, or an error of recvmsg.       *)
LEMMA ReceiveInv == RudpInv /\ (Receive \/ ReceiveFails) => RudpInv'
<1> USE DEF RudpInv, AnswerKnown, ResultAtRest, JumpReady, CallReturnsItsAnswer,
            UndefinedOnlyFirst, SequencesGrow, Matches
<1>1. ASSUME RudpInv, Receive PROVE RudpInv'
  <2>1. PICK seq \in replies :
           /\ recvseq' = seq /\ inbuff' = seq /\ n' = "data"
           /\ pc' = IF seq = sendseq THEN "received" ELSE "waiting"
    BY <1>1 DEF Receive
  <2>2. seq \in 0 .. sendseq
    BY <1>1, <2>1
  <2> QED
    BY <1>1, <2>1, <2>2 DEF Receive
<1>2. ASSUME RudpInv, ReceiveFails PROVE RudpInv'
  BY <1>2 DEF ReceiveFails
<1> QED
  BY <1>1, <1>2

(* alarm(0), rtt_stop and the return.                                      *)
LEMMA ReturnInv == RudpInv /\ Return => RudpInv'
BY DEF RudpInv, Return, AnswerKnown, ResultAtRest, JumpReady, CallReturnsItsAnswer,
       UndefinedOnlyFirst, SequencesGrow

(* The handler, into this call or out of every call.                       *)
LEMMA AlarmInv == RudpInv /\ sig_alrm => RudpInv'
<1> SUFFICES ASSUME RudpInv, sig_alrm PROVE RudpInv'
  OBVIOUS
<1> USE DEF RudpInv, sig_alrm, AnswerKnown, ResultAtRest, JumpReady,
            CallReturnsItsAnswer, UndefinedOnlyFirst, SequencesGrow
<1>1. CASE jmpbuf = "this" /\ GivesUp
  BY <1>1 DEF rtt_timeout
<1>2. CASE jmpbuf = "this" /\ ~GivesUp
  BY <1>2 DEF rtt_timeout
<1>3. CASE jmpbuf # "this"
  BY <1>3
<1> QED
  BY <1>1, <1>2, <1>3

(* The server's answer adds a number that a request carries.               *)
LEMMA AnswerInv == RudpInv /\ Answer => RudpInv'
BY DEF RudpInv, Answer, clientVars, AnswerKnown, ResultAtRest, JumpReady,
       CallReturnsItsAnswer, UndefinedOnlyFirst, SequencesGrow

(* Every step of the client, of the handler, of the network and of the     *)
(* server keeps the invariant.                                             *)
LEMMA RudpNextInv == RudpInv /\ [RudpNext]_rudpVars => RudpInv'
<1>1. ASSUME RudpInv, UNCHANGED rudpVars PROVE RudpInv'
  BY <1>1 DEF rudpVars, clientVars, RudpInv, AnswerKnown, ResultAtRest, JumpReady,
       CallReturnsItsAnswer, UndefinedOnlyFirst, SequencesGrow
<1> QED
  BY <1>1, CallInv, SendInv, ReceiveInv, ReturnInv, AlarmInv, AnswerInv DEF RudpNext

(* dg_send_recv with its sequence numbers, jump buffer and alarm keeps the *)
(* invariant in every run over a lossy, duplicating, reordering network.   *)
THEOREM Exchange == RudpSpec => []RudpInv
<1>1. RudpInit => RudpInv
  BY RudpInitInv
<1>2. RudpInv /\ [RudpNext]_rudpVars => RudpInv'
  BY RudpNextInv
<1> QED
  BY <1>1, <1>2, PTL DEF RudpSpec

(* A call of dg_send_recv that returns data returns the answer to its own  *)
(* request, and loses an answer only to an alarm between recvmsg and       *)
(* alarm(0), for every number of calls and retransmissions.                *)
THEOREM OwnAnswer == RudpSpec => []CallReturnsItsAnswer
<1>1. RudpInv => CallReturnsItsAnswer
  BY DEF RudpInv
<1> QED
  BY <1>1, Exchange, PTL

(* sig_alrm jumps out of every frame only in the gap between alarm() and   *)
(* sigsetjmp of a call's first transmission.                               *)
THEOREM JumpSafe == RudpSpec => []UndefinedOnlyFirst
<1>1. RudpInv => UndefinedOnlyFirst
  BY DEF RudpInv
<1> QED
  BY <1>1, Exchange, PTL

-----------------------------------------------------------------------------
(* Why a call ends: what CallEnds rests on in every state.  An alarm is    *)
(* set whenever the client is between its alarm() and its return, and each *)
(* alarm counts a retransmission, of which there are not too many.         *)
Unanswered == pc \in {"armed", "waiting", "received"}

AlarmSet ==
    /\ rtt_rto \in Nat /\ alarm \in Nat
    /\ rtt_init \/ pc # "idle" => rtt_rto > 0
    /\ Unanswered => alarm > 0

RetriesCounted ==
    /\ pc \in {"idle", "sendagain", "armed", "waiting", "received"}
    /\ rtt_nrexmt \in Nat /\ sends \in 0 .. RTT_MAXNREXMT + 1
    /\ pc # "idle" => rtt_nrexmt <= RTT_MAXNREXMT
    /\ pc = "sendagain" => sends = rtt_nrexmt
    /\ Unanswered => sends = rtt_nrexmt + 1
    /\ result = "ETIMEDOUT" => sends = RTT_MAXNREXMT + 1

(* rtt_minmax never gives a timeout of no seconds, which would be no alarm.*)
LEMMA MinmaxPositive ==
  ASSUME NEW rto \in Nat
  PROVE  rtt_minmax(rto) \in Nat /\ rtt_minmax(rto) > 0
BY RudpAssumption DEF rtt_minmax

LEMMA StepKeepsAlarm ==
  ASSUME AlarmSet, RetriesCounted, [RudpNext]_rudpVars
  PROVE  AlarmSet' /\ RetriesCounted'
<1> USE DEF AlarmSet, RetriesCounted, Unanswered
<1>0. RTT_MAXNREXMT \in Nat /\ Estimates \subseteq Nat
  BY RudpAssumption
<1>1. CASE dg_send_recv
  <2>1. InitialRto \in Nat /\ InitialRto > 0
    BY MinmaxPositive DEF InitialRto
  <2> QED
    BY <1>0, <1>1, <2>1 DEF dg_send_recv
<1>2. CASE SendAndArm
  BY <1>0, <1>2 DEF SendAndArm, rtt_start
<1>3. CASE SetJump
  BY <1>0, <1>3 DEF SetJump
<1>4. CASE Receive
  BY <1>0, <1>4 DEF Receive
<1>5. CASE ReceiveFails
  BY <1>0, <1>5 DEF ReceiveFails
<1>6. CASE Return
  <2>1. rtt_rto' \in Nat /\ rtt_rto' > 0
    BY <1>0, <1>6, MinmaxPositive DEF Return
  <2> QED
    BY <1>0, <1>6, <2>1 DEF Return
<1>7. CASE sig_alrm
  <2>1. CASE jmpbuf = "this" /\ GivesUp
    BY <1>0, <1>7, <2>1 DEF sig_alrm, rtt_timeout, GivesUp
  <2>2. CASE jmpbuf = "this" /\ ~GivesUp
    BY <1>0, <1>7, <2>2 DEF sig_alrm, rtt_timeout, GivesUp
  <2>3. CASE jmpbuf # "this"
    BY <1>0, <1>7, <2>3 DEF sig_alrm
  <2> QED
    BY <2>1, <2>2, <2>3
<1>8. CASE Answer
  BY <1>0, <1>8 DEF Answer, clientVars
<1>9. CASE UNCHANGED rudpVars
  BY <1>0, <1>9 DEF rudpVars, clientVars
<1> QED
  BY <1>1, <1>2, <1>3, <1>4, <1>5, <1>6, <1>7, <1>8, <1>9 DEF RudpNext

(* dg_send_recv never waits in recvmsg without an alarm that will end the  *)
(* wait, never transmits a request more than RTT_MAXNREXMT + 1 times, and  *)
(* gives up only after that many: the safety half of CallEnds.             *)
THEOREM NoCallHangs == RudpSpec => [](AlarmSet /\ RetriesCounted)
<1>1. RudpInit => AlarmSet /\ RetriesCounted
  BY RudpAssumption DEF RudpInit, AlarmSet, RetriesCounted, Unanswered
<1>2. AlarmSet /\ RetriesCounted /\ [RudpNext]_rudpVars => AlarmSet' /\ RetriesCounted'
  BY StepKeepsAlarm
<1> QED
  BY <1>1, <1>2, PTL DEF RudpSpec

-----------------------------------------------------------------------------
(* The rooms of the speech transfer server, for every number of clients,   *)
(* rooms and timestamps.                                                   *)

(* A set of numbers that is not empty has a smallest element ...           *)
LEMMA MinMember ==
  ASSUME NEW S \in SUBSET Nat, S # {}
  PROVE  Min(S) \in S
<1> DEFINE R == OpToRel(<, Nat)
<1>1. \E x \in S : \A y \in S : <<y, x>> \notin R
  <2>1. IsWellFoundedOn(R, Nat)
    BY NatLessThanWellFounded
  <2> HIDE DEF R
  <2> QED
    BY <2>1, WFMin
<1>2. PICK x \in S : \A y \in S : ~(y < x)
  BY <1>1 DEF OpToRel
<1>3. \A y \in S : x <= y
  BY <1>2
<1> QED
  BY <1>3 DEF Min

(* ... and a largest one, if it is bounded.                                *)
LEMMA MaxAbove ==
  ASSUME NEW S \in SUBSET Nat, S # {}, NEW top \in Nat, \A s \in S : s <= top
  PROVE  Max(S) \in S /\ \A s \in S : s <= Max(S)
<1> DEFINE R == OpToRel(<, Nat)
           T == {top - s : s \in S}
<1>1. T \in SUBSET Nat /\ T # {}
  <2>1. \A s \in S : top - s \in Nat
    OBVIOUS
  <2> QED
    BY <2>1
<1>2. \E x \in T : \A y \in T : <<y, x>> \notin R
  <2>1. IsWellFoundedOn(R, Nat)
    BY NatLessThanWellFounded
  <2> HIDE DEF R, T
  <2> QED
    BY <1>1, <2>1, WFMin
<1>3. PICK x \in T : \A y \in T : ~(y < x)
  BY <1>1, <1>2 DEF OpToRel
<1>4. PICK m \in S : x = top - m
  OBVIOUS
<1>5. \A s \in S : s <= m
  <2> TAKE s \in S
  <2>1. ~(top - s < top - m)
    BY <1>3, <1>4
  <2> QED
    BY <2>1
<1> QED
  BY <1>5 DEF Max

-----------------------------------------------------------------------------
(* A PC is in no two rooms.                                                *)
OneRoomEach ==
  \A c \in PC : \A ch, d \in exists : c \in CHAT_ROOM[ch] /\ c \in CHAT_ROOM[d] => ch = d

(* The room that client_already_in finds.                                  *)
LEMMA FirstRoomExists ==
  ASSUME TypeOK, NEW c, client_already_in(c)
  PROVE  FirstRoom(c) \in exists /\ c \in CHAT_ROOM[FirstRoom(c)]
<1>1. RoomsOf(c) \in SUBSET Nat /\ RoomsOf(c) # {}
  BY SpeechRoomsAssumption DEF TypeOK, RoomsOf, client_already_in
<1>2. FirstRoom(c) \in RoomsOf(c)
  BY <1>1, MinMember DEF FirstRoom
<1> QED
  BY <1>2 DEF RoomsOf

(* There are finitely many timestamps.                                     *)
LEMMA TimeFinite == IsFiniteSet(Time) /\ Cardinality(Time) \in Nat /\ Time \subseteq Nat
<1>1. 1 \in Int /\ MaxTime \in Int
  BY SpeechRoomsAssumption
<1>2. IsFiniteSet(Time)
  BY <1>1, FS_Interval DEF Time
<1>3. Time \subseteq Nat
  BY <1>1 DEF Time
<1> QED
  BY <1>2, <1>3, FS_CardinalityType

(* What a pool holds.                                                      *)
Pools == [Client -> SUBSET Time]

(* How many packets a speaker has, and how many at most.                   *)
LEMMA PoolSizes ==
  ASSUME NEW pool \in Pools, NEW c \in Client
  PROVE  /\ IsFiniteSet(pool[c]) /\ Cardinality(pool[c]) \in Nat
         /\ Cardinality(pool[c]) <= MAX_BUFFER_SIZE(pool)
         /\ MAX_BUFFER_SIZE(pool) \in Nat
<1>1. IsFiniteSet(Time) /\ Cardinality(Time) \in Nat
  BY TimeFinite
<1>2. ASSUME NEW d \in Client
      PROVE  /\ IsFiniteSet(pool[d]) /\ Cardinality(pool[d]) \in Nat
             /\ Cardinality(pool[d]) <= Cardinality(Time)
  <2>1. pool[d] \in SUBSET Time
    BY DEF Pools
  <2>2. IsFiniteSet(pool[d]) /\ Cardinality(pool[d]) <= Cardinality(Time)
    BY <1>1, <2>1, FS_Subset
  <2> QED
    BY <2>2, FS_CardinalityType
<1> DEFINE S == {Cardinality(pool[d]) : d \in Client}
<1>3. S \in SUBSET Nat /\ Cardinality(pool[c]) \in S /\ \A s \in S : s <= Cardinality(Time)
  BY <1>2
<1> HIDE DEF S
<1>4. Max(S) \in S /\ \A s \in S : s <= Max(S)
  BY <1>1, <1>3, MaxAbove
<1> QED
  BY <1>2, <1>3, <1>4 DEF MAX_BUFFER_SIZE, S

(* The rank of a packet in its pool.                                       *)
Upto(P, t) == {u \in P : u <= t}

(* Every packet of a pool is the packet of one round, and no other is.     *)
LEMMA Ranks ==
  ASSUME NEW P \in SUBSET Time, NEW t \in P
  PROVE  /\ IsFiniteSet(P)
         /\ Cardinality(Upto(P, t)) \in 1 .. Cardinality(P)
         /\ \A u \in P : Cardinality(Upto(P, u)) = Cardinality(Upto(P, t)) => u = t
<1>1. IsFiniteSet(P)
  BY TimeFinite, FS_Subset
<1>2. \A u \in P : IsFiniteSet(Upto(P, u)) /\ Cardinality(Upto(P, u)) \in Nat
  <2> TAKE u \in P
  <2>1. Upto(P, u) \in SUBSET P
    BY DEF Upto
  <2> QED
    BY <1>1, <2>1, FS_Subset, FS_CardinalityType
<1>3. Cardinality(Upto(P, t)) <= Cardinality(P) /\ Cardinality(P) \in Nat
  <2>1. Upto(P, t) \in SUBSET P
    BY DEF Upto
  <2> QED
    BY <1>1, <2>1, FS_Subset, FS_CardinalityType
<1>4. Cardinality(Upto(P, t)) # 0
  <2>1. t \in Upto(P, t)
    BY SpeechRoomsAssumption DEF Upto, Time
  <2> QED
    BY <1>2, <2>1, FS_EmptySet
<1>5. ASSUME NEW u \in P, NEW v \in P, u < v
      PROVE  Cardinality(Upto(P, u)) # Cardinality(Upto(P, v))
  <2>1. Upto(P, u) \in SUBSET Upto(P, v) /\ v \in Upto(P, v) /\ v \notin Upto(P, u)
    <3>1. u \in Nat /\ v \in Nat /\ \A w \in P : w \in Nat
      BY TimeFinite
    <3>2. v \in Upto(P, v) /\ v \notin Upto(P, u)
      BY <1>5, <3>1 DEF Upto
    <3>3. \A w \in Upto(P, u) : w \in Upto(P, v)
      BY <1>5, <3>1 DEF Upto
    <3> QED
      BY <3>2, <3>3
  <2>2. Upto(P, u) # Upto(P, v)
    BY <2>1
  <2> QED
    BY <1>2, <2>1, <2>2, FS_Subset
<1>6. \A u \in P : u < t \/ t < u \/ u = t
  BY SpeechRoomsAssumption DEF Time
<1>7. \A u \in P : Cardinality(Upto(P, u)) = Cardinality(Upto(P, t)) => u = t
  BY <1>5, <1>6
<1>8. Cardinality(Upto(P, t)) \in 1 .. Cardinality(P)
  BY <1>2, <1>3, <1>4
<1> QED
  BY <1>1, <1>7, <1>8

(* The iterators of round k point at packets: ranks leave out no number.   *)
LEMMA RankTaken ==
  ASSUME NEW P \in SUBSET Time, NEW k \in 1 .. Cardinality(P)
  PROVE  \E t \in P : Cardinality(Upto(P, t)) = k
<1> DEFINE N == Cardinality(P)
           f == [t \in P |-> Cardinality(Upto(P, t))]
<1>1. IsFiniteSet(P) /\ N \in Nat
  BY TimeFinite, FS_Subset, FS_CardinalityType
<1>2. IsFiniteSet(1 .. N) /\ Cardinality(1 .. N) = N
  <2>1. 1 \in Int /\ N \in Int
    BY <1>1
  <2> HIDE DEF N
  <2>2. IsFiniteSet(1 .. N) /\ Cardinality(1 .. N) = IF 1 > N THEN 0 ELSE N - 1 + 1
    BY <2>1, FS_Interval
  <2> QED
    BY <1>1, <2>2
<1>3. f \in Injection(P, 1 .. N)
  <2>1. f \in [P -> 1 .. N]
    BY Ranks
  <2>2. \A t, u \in P : f[t] = f[u] => t = u
    BY Ranks
  <2> QED
    BY <2>1, <2>2 DEF Injection, IsInjective
<1> HIDE DEF f, N
<1>4. f \in Surjection(P, 1 .. N)
  BY <1>1, <1>2, <1>3, FS_Injection DEF N
<1>5. \E t \in P : f[t] = k
  BY <1>4 DEF Surjection, N
<1> QED
  BY <1>5 DEF f

(* Round k takes a packet of every speaker that is in it ...               *)
LEMMA RoundTakesPacket ==
  ASSUME NEW pool \in Pools, NEW k \in Rounds(pool), NEW c \in InRound(pool, k)
  PROVE  c \in Client /\ Packet(pool, c, k) \in pool[c] /\ Packet(pool, c, k) \in Time
<1>1. c \in Client /\ Cardinality(pool[c]) >= k
  BY DEF InRound
<1>2. pool[c] \in SUBSET Time /\ Cardinality(pool[c]) \in Nat
  BY <1>1, PoolSizes DEF Pools
<1>3. k \in 1 .. Cardinality(pool[c])
  BY <1>1, <1>2, PoolSizes DEF Rounds
<1>4. \E t \in pool[c] : Cardinality(Upto(pool[c], t)) = k
  BY <1>2, <1>3, RankTaken
<1>5. Packet(pool, c, k) \in pool[c]
  BY <1>4 DEF Packet, Upto
<1> QED
  BY <1>1, <1>2, <1>5

(* ... and every packet is taken in some round.                            *)
LEMMA PacketOfRank ==
  ASSUME NEW pool \in Pools, NEW c \in Client, NEW t \in pool[c]
  PROVE  \E k \in Rounds(pool) : c \in InRound(pool, k) /\ Packet(pool, c, k) = t
<1> DEFINE k == Cardinality(Upto(pool[c], t))
<1>1. pool[c] \in SUBSET Time
  BY DEF Pools
<1>2. k \in 1 .. Cardinality(pool[c])
  BY <1>1, Ranks
<1>3. \A u \in pool[c] : Cardinality(Upto(pool[c], u)) = k => u = t
  BY <1>1, Ranks
<1>4. Packet(pool, c, k) = t
  <2>1. Packet(pool, c, k) = CHOOSE u \in pool[c] : Cardinality(Upto(pool[c], u)) = k
    BY DEF Packet, Upto
  <2> QED
    BY <1>3, <2>1
<1> HIDE DEF k
<1>5. k \in Rounds(pool) /\ c \in InRound(pool, k)
  BY <1>2, PoolSizes DEF Rounds, InRound
<1> QED
  BY <1>4, <1>5

-----------------------------------------------------------------------------
(* Broadcast, round and mix stay inside the types.                         *)
LEMMA MixTypes ==
  ASSUME TypeOK, NEW pool \in Pools, NEW ch \in Channel
  PROVE  /\ SingleSpeaker(pool, ch) \subseteq Heard
         /\ UNION {Round(pool, k, ch) : k \in Rounds(pool)} \subseteq Heard
<1>1. CHAT_ROOM[ch] \subseteq Client
  BY DEF TypeOK
<1>2. ASSUME NEW c \in Client, NEW t \in Time, NEW except
      PROVE  Broadcast(c, t, ch, except) \subseteq Heard
  BY <1>1 DEF Broadcast, Heard
<1>3. \A c \in Client : pool[c] \subseteq Time
  BY DEF Pools
<1>4. SingleSpeaker(pool, ch) \subseteq Heard
  <2>1. ASSUME NEW c \in Speakers(pool), NEW t \in pool[c]
        PROVE  Broadcast(c, t, ch, {c}) \subseteq Heard
    BY <1>2, <1>3 DEF Speakers
  <2> SUFFICES ASSUME NEW h \in SingleSpeaker(pool, ch) PROVE h \in Heard
    OBVIOUS
  <2>2. PICK c \in Speakers(pool) : h \in UNION {Broadcast(c, t, ch, {c}) : t \in pool[c]}
    BY DEF SingleSpeaker
  <2>3. PICK t \in pool[c] : h \in Broadcast(c, t, ch, {c})
    BY <2>2
  <2> QED
    BY <2>1, <2>3
<1>5. ASSUME NEW k \in Rounds(pool) PROVE Round(pool, k, ch) \subseteq Heard
  <2>1. ASSUME NEW c \in InRound(pool, k), NEW except
        PROVE  Broadcast(c, Packet(pool, c, k), ch, except) \subseteq Heard
    BY <1>2, RoundTakesPacket
  <2> QED
    BY <2>1 DEF Round
<1> QED
  BY <1>4, <1>5

(* Mixing: what it sends, and that it leaves rooms and types alone.        *)
LEMMA PooledType ==
  ASSUME TypeOK, NEW c \in Client, NEW t \in Time
  PROVE  Pooled(c, t) \in Pools
BY DEF TypeOK, Pooled, Pools

IInv == TypeOK /\ OneRoomEach

(* Init has no rooms.                                                      *)
LEMMA InitIInv == Init => IInv
BY DEF Init, IInv, TypeOK, OneRoomEach, Heard

(* Signalling: JOIN looks for the PC in all rooms, CREATE and CANCEL are   *)
(* requests of cameras.                                                    *)
LEMMA RequestIInv == IInv /\ Request => IInv'
<1> SUFFICES ASSUME IInv, Request PROVE IInv'
  OBVIOUS
<1>0. TypeOK /\ OneRoomEach /\ heard' = {} /\ coded' = TRUE /\ UNCHANGED poolVars
  BY DEF IInv, Request
<1>1. ASSUME NEW ch \in Channel, NEW c \in PC, Join(c, ch) PROVE IInv'
  <2>1. TypeOK'
    BY <1>0, <1>1 DEF Join, TypeOK, poolVars, Client
  <2>2. CASE client_already_in(c)
    BY <1>0, <1>1, <2>1, <2>2 DEF Join, IInv, OneRoomEach
  <2>3. CASE ~client_already_in(c)
    <3>1. \A d \in exists : c \notin CHAT_ROOM[d]
      BY <2>3 DEF client_already_in, RoomsOf
    <3>2. OneRoomEach'
      BY <1>0, <1>1, <2>3, <3>1 DEF Join, OneRoomEach, TypeOK
    <3> QED
      BY <2>1, <3>2 DEF IInv
  <2> QED
    BY <2>2, <2>3
<1>2. ASSUME NEW ch \in Channel, NEW c \in PC, Leave(c, ch) PROVE IInv'
  BY <1>0, <1>2 DEF Leave, IInv, TypeOK, OneRoomEach, poolVars
<1>3. ASSUME NEW ch \in Channel, NEW c \in Camera, Create(c, ch) PROVE IInv'
  <2>1. c \notin PC /\ c \in Client
    BY SpeechRoomsAssumption DEF Client
  <2>2. TypeOK'
    BY <1>0, <1>3, <2>1 DEF Create, TypeOK, poolVars
  <2>3. OneRoomEach'
    BY <1>0, <1>3, <2>1 DEF Create, OneRoomEach, TypeOK
  <2> QED
    BY <2>2, <2>3 DEF IInv
<1>4. ASSUME NEW ch \in Channel, NEW c \in Camera, Cancel(c, ch) PROVE IInv'
  BY <1>0, <1>4 DEF Cancel, IInv, TypeOK, OneRoomEach, poolVars
<1> QED
  BY <1>1, <1>2, <1>3, <1>4 DEF Request

(* Speech: the rooms stay as they are.                                     *)
LEMMA SpeechIInv == IInv /\ Speech => IInv'
<1> SUFFICES ASSUME IInv, NEW c \in Client, NEW t \in Time,
                    OnlyPool(c, t) \/ PoolAndMix(c, t)
             PROVE  IInv'
  BY DEF Speech
<1>1. TypeOK /\ OneRoomEach /\ UNCHANGED roomVars /\ client_already_in(c)
  BY DEF IInv, OnlyPool, PoolAndMix
<1>2. OneRoomEach'
  BY <1>1 DEF OneRoomEach, roomVars
<1>3. Pooled(c, t) \in Pools
  BY <1>1, PooledType
<1>4. CASE OnlyPool(c, t)
  BY <1>1, <1>2, <1>3, <1>4 DEF OnlyPool, IInv, TypeOK, roomVars, Pools
<1>5. CASE PoolAndMix(c, t)
  <2>1. FirstRoom(c) \in Channel
    BY <1>1, FirstRoomExists DEF TypeOK
  <2>2. heard' \subseteq Heard /\ coded' \in BOOLEAN
    BY <1>1, <1>3, <1>5, <2>1, MixTypes DEF PoolAndMix, do_mix_and_broadcast_S
  <2>3. SORP_POOL' \in [Client -> SUBSET Time] /\ the_first_calculate' = the_first_calculate
    BY <1>5 DEF PoolAndMix
  <2> QED
    BY <1>1, <1>2, <2>2, <2>3 DEF IInv, TypeOK, roomVars
<1> QED
  BY <1>4, <1>5

(* The rooms and pools of handle_udp_msg keep their types, and no PC gets  *)
(* into a second room.                                                     *)
THEOREM Rooms == Spec => []IInv
<1>1. IInv /\ UNCHANGED vars => IInv'
  BY DEF vars, IInv, TypeOK, OneRoomEach
<1>2. IInv /\ [Next]_vars => IInv'
  BY <1>1, RequestIInv, SpeechIInv DEF Next
<1> QED
  BY <1>2, InitIInv, PTL DEF Spec

(* A PC that repeats JOIN and LEAVE for any rooms, created and cancelled   *)
(* by any cameras, is in one room at most.                                 *)
THEOREM PcStaysInOneRoom == Spec => []PcInOneRoom
<1>1. IInv => PcInOneRoom
  <2> SUFFICES ASSUME IInv, NEW c \in PC PROVE Cardinality(RoomsOf(c)) <= 1
    BY DEF PcInOneRoom
  <2>1. CASE RoomsOf(c) = {}
    BY <2>1, FS_EmptySet
  <2>2. CASE RoomsOf(c) # {}
    <3>1. PICK ch : ch \in RoomsOf(c)
      BY <2>2
    <3>2. RoomsOf(c) = {ch}
      BY <3>1 DEF RoomsOf, IInv, OneRoomEach
    <3> QED
      BY <3>2, FS_Singleton
  <2> QED
    BY <2>1, <2>2
<1> QED
  BY <1>1, Rooms, PTL

(* What the mix sends: every packet of every pool, to everybody else in    *)
(* the room.                                                               *)
LEMMA MixSendsAll ==
  ASSUME NEW pool \in Pools, NEW ch, NEW c \in Client, NEW t \in pool[c],
         NEW m \in CHAT_ROOM[ch] \ {c},
         do_mix_and_broadcast_S(pool, ch), coded'
  PROVE  [from |-> c, time |-> t, to |-> m] \in heard'
<1> DEFINE h == [from |-> c, time |-> t, to |-> m]
<1>1. heard' = IF Cardinality(Speakers(pool)) = 1 THEN SingleSpeaker(pool, ch)
               ELSE UNION {Round(pool, k, ch) : k \in Rounds(pool)}
  BY DEF do_mix_and_broadcast_S
<1>2. CASE Cardinality(Speakers(pool)) = 1
  <2>1. c \in Speakers(pool)
    BY DEF Speakers
  <2>2. h \in Broadcast(c, t, ch, {c})
    BY DEF Broadcast
  <2>3. h \in SingleSpeaker(pool, ch)
    <3> HIDE DEF h
    <3>1. h \in UNION {Broadcast(c, u, ch, {c}) : u \in pool[c]}
      BY <2>2
    <3> QED
      BY <2>1, <3>1 DEF SingleSpeaker
  <2> QED
    BY <1>1, <1>2, <2>3
<1>3. CASE Cardinality(Speakers(pool)) # 1
  <2>1. PICK k \in Rounds(pool) : c \in InRound(pool, k) /\ Packet(pool, c, k) = t
    BY PacketOfRank
  <2>2. h \in Broadcast(c, t, ch, LeftOut(pool, c, k)) /\ h \in Broadcast(c, t, ch, {})
    BY DEF Broadcast, LeftOut
  <2>3. h \in Round(pool, k, ch)
    BY <2>1, <2>2 DEF Round
  <2>4. h \in heard'
    BY <1>1, <1>3, <2>3
  <2> QED
    BY <2>4
<1> QED
  BY <1>2, <1>3

(* do_mix_and_broadcast_S clears the pools only after every packet in      *)
(* them, the one just received included, has gone out to everybody else in *)
(* the room of the client that sent that one, the codec willing.           *)
THEOREM MixLosesNoPacket == Spec => EveryPacketOut
<1> DEFINE A == \A c \in Client, t \in Time :
          coded' /\ PoolAndMix(c, t) =>
             \A d \in Client : \A u \in Pooled(c, t)[d] :
                \A m \in CHAT_ROOM[FirstRoom(c)] \ {d} :
                   [from |-> d, time |-> u, to |-> m] \in heard'
<1>1. IInv /\ [Next]_vars => [A]_vars
  <2> SUFFICES ASSUME TypeOK, NEW c \in Client, NEW t \in Time,
                      coded', PoolAndMix(c, t),
                      NEW d \in Client, NEW u \in Pooled(c, t)[d],
                      NEW m \in CHAT_ROOM[FirstRoom(c)] \ {d}
               PROVE  [from |-> d, time |-> u, to |-> m] \in heard'
    BY DEF IInv
  <2>1. Pooled(c, t) \in Pools
    BY PooledType
  <2>2. do_mix_and_broadcast_S(Pooled(c, t), FirstRoom(c))
    BY DEF PoolAndMix
  <2> QED
    BY <2>1, <2>2, MixSendsAll
<1>2. EveryPacketOut <=> [][A]_vars
  BY DEF EveryPacketOut
<1> QED
  BY <1>1, <1>2, Rooms, PTL DEF Spec

-----------------------------------------------------------------------------
(* Signalling of one channel, for every size of the buffers, every number  *)
(* of tries and both event loops.                                          *)
SignalTypes ==
    /\ rcvbuf \in Seq({"CREATE", "JOIN"})
    /\ inbox \in Seq({"reply", "speech"})
    /\ members \subseteq {"camera", "pc"}

(* handle_udp_msg, whose recvfrom would block the one thread, is called    *)
(* only when a datagram is there.                                          *)
HandlerFindsDatagram == loop = "handle" => rcvbuf # <<>>

(* Who has been told that it is in the channel is in it, and so is the     *)
(* camera that is going to read a reply.                                   *)
AnswersAreTrue ==
    /\ "pc" \in members => "camera" \in members
    /\ knows => "pc" \in members
    /\ cam = "created" => "camera" \in members
    /\ \A i \in 1 .. Len(inbox) : inbox[i] = "reply" => "camera" \in members

SignalInv == SignalTypes /\ HandlerFindsDatagram /\ AnswersAreTrue

(* A datagram to the camera is one more in its inbox, at the end.          *)
LEMMA ToCameraAdds ==
  ASSUME inbox \in Seq({"reply", "speech"}), NEW d \in {"reply", "speech"},
         Signal!ToCamera(d)
  PROVE  /\ inbox' \in Seq({"reply", "speech"})
         /\ \A i \in 1 .. Len(inbox') :
              \/ inbox'[i] = d
              \/ i \in 1 .. Len(inbox) /\ inbox'[i] = inbox[i]
BY DEF Signal!ToCamera

LEMMA SignalStep ==
  ASSUME SignalInv, [Signal!Next]_Signal!vars
  PROVE  SignalInv'
<1> USE DEF SignalInv, SignalTypes, HandlerFindsDatagram, AnswersAreTrue,
            Signal!camVars
<1>1. CASE Signal!CameraSend
  BY <1>1 DEF Signal!CameraSend, Signal!Arrive, Signal!Lost
<1>2. CASE Signal!CameraGivesUp
  BY <1>2 DEF Signal!CameraGivesUp
<1>3. CASE Signal!CameraReceives
  <2>1. /\ inbox' = Tail(inbox) /\ inbox # <<>> /\ rcvbuf' = rcvbuf /\ loop' = loop
        /\ members' = members /\ knows' = knows
        /\ cam' = "created" => inbox[1] = "reply"
    BY <1>3 DEF Signal!CameraReceives, Signal!IsReply
  <2>2. /\ inbox' \in Seq({"reply", "speech"})
        /\ \A i \in 1 .. Len(inbox') : i + 1 \in 1 .. Len(inbox) /\ inbox'[i] = inbox[i + 1]
    BY <2>1
  <2> QED
    BY <2>1, <2>2
<1>4. CASE Signal!CameraTimesOut
  BY <1>4 DEF Signal!CameraTimesOut
<1>5. CASE Signal!PcSend
  BY <1>5 DEF Signal!PcSend, Signal!Arrive
<1>6. CASE Signal!Speech
  BY <1>6, ToCameraAdds DEF Signal!Speech
<1>7. CASE Signal!serve_forever
  BY <1>7 DEF Signal!serve_forever, Signal!Ready
<1>8. CASE Signal!handle_udp_msg
  <2>1. /\ rcvbuf' \in Seq({"CREATE", "JOIN"}) /\ loop' = "wait" /\ cam' = cam
    BY <1>8 DEF Signal!handle_udp_msg
  <2>2. CASE Signal!Create
    <3>1. /\ "camera" \in members' /\ members \subseteq members' /\ knows' = knows
          /\ members' \subseteq {"camera", "pc"}
      BY <2>2 DEF Signal!Create
    <3>2. inbox' \in Seq({"reply", "speech"})
      BY <2>2, ToCameraAdds DEF Signal!Create
    <3> QED
      BY <2>1, <3>1, <3>2
  <2>3. CASE Signal!Join
    <3>1. /\ inbox' = inbox /\ members \subseteq members'
          /\ knows' => knows \/ "pc" \in members'
      BY <2>3 DEF Signal!Join
    <3>2. /\ members' \subseteq {"camera", "pc"}
          /\ "pc" \in members' => "camera" \in members'
      BY <2>3 DEF Signal!Join
    <3> QED
      BY <2>1, <3>1, <3>2
  <2> QED
    BY <1>8, <2>2, <2>3 DEF Signal!handle_udp_msg
<1>9. CASE UNCHANGED Signal!vars
  BY <1>9 DEF Signal!vars
<1> QED
  BY <1>1, <1>2, <1>3, <1>4, <1>5, <1>6, <1>7, <1>8, <1>9 DEF Signal!Next

(* Both event loops call handle_udp_msg only for a datagram that is there, *)
(* and nobody takes a lost, repeated or late reply, or speech, for the     *)
(* news that it is in the channel when it is not.                          *)
THEOREM SignallingIsTrue == Signal!Spec => [](HandlerFindsDatagram /\ AnswersAreTrue)
<1>1. Signal!Init => SignalInv
  BY DEF Signal!Init, SignalInv, SignalTypes, HandlerFindsDatagram, AnswersAreTrue
<1>2. SignalInv /\ [Signal!Next]_Signal!vars => SignalInv'
  BY SignalStep
<1>3. SignalInv => HandlerFindsDatagram /\ AnswersAreTrue
  BY DEF SignalInv
<1> QED
  BY <1>1, <1>2, <1>3, PTL DEF Signal!Spec
=============================================================================
