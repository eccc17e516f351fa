-------------------------------- MODULE Rudp --------------------------------
(***************************************************************************)
(* One client of the reliable datagrams of src/projects/rudp: the request  *)
(* and reply of dg_send_recv (rudp.c), with the retransmission timeout of  *)
(* rtt.c, over a network that loses, duplicates, delays and reorders.      *)
(* A datagram once sent stays in the network for ever and may be delivered *)
(* any number of times, also never: requests and replies are sets of the   *)
(* sequence numbers they carry.  The server is not part of the repository: *)
(* it answers a request with the header it came with, as recvhdr is used.  *)
(*                                                                         *)
(* The timer is SIGALRM, whose handler jumps to jmpbuf: it interrupts      *)
(* dg_send_recv between any two statements while the alarm is set.         *)
(***************************************************************************)
EXTENDS Naturals, FiniteSets

CONSTANTS MaxCalls,       \* calls of dg_send_recv (bound)
          RTT_RXTMIN,     \* rtt.h: shortest timeout, in seconds
          RTT_RXTMAX,     \* rtt.h: longest timeout, in seconds
          RTT_MAXNREXMT,  \* rtt.h: retransmissions of a request
          Estimates       \* what RTT_RTOCALC may make of a measured time

ASSUME RudpAssumption ==
    /\ MaxCalls \in Nat
    /\ RTT_RXTMIN \in Nat \ {0}
    /\ RTT_RXTMAX \in Nat
    /\ RTT_RXTMIN <= RTT_RXTMAX
    /\ RTT_MAXNREXMT \in Nat
    /\ Estimates \subseteq Nat

VARIABLES
    pc,            \* where dg_send_recv is
    rtt_init,      \* the flag of that name: rtt_info is initialised
    rtt_rto,       \* rtt_info.rtt_rto
    rtt_nrexmt,    \* rtt_info.rtt_nrexmt
    sendseq,       \* sendhdr.sequence
    recvseq,       \* recvhdr.sequence: of the last datagram received
    inbuff,        \* sequence number of the request inbuff's data answers
    n,             \* what recvmsg returned last: "data" or "error" (-1)
    jmpbuf,        \* which sigsetjmp filled it: "none", "before", "this"
    alarm,         \* seconds the alarm is set to, 0: none
    result,        \* what the last call returned
    requests,      \* sequence numbers of the requests in the network
    replies,       \* sequence numbers of the replies in the network
    sends,         \* history: sendmsg calls of this call
    late,          \* history: an alarm cut off a received answer in this call
    undefined      \* history: where the handler jumped to no live jmpbuf, or "no"

clientVars == <<pc, rtt_init, rtt_rto, rtt_nrexmt, sendseq, recvseq, inbuff,
                n, jmpbuf, alarm, result, sends, late, undefined>>
rudpVars == <<clientVars, requests, replies>>

Call == 1 .. MaxCalls

MaxRto == RTT_RXTMAX * 2 ^ (RTT_MAXNREXMT + 1)

RudpTypeOK ==
    /\ pc \in {"idle", "sendagain", "armed", "waiting", "received"}
    /\ rtt_init \in BOOLEAN
    /\ rtt_rto \in 0 .. MaxRto
    /\ rtt_nrexmt \in 0 .. RTT_MAXNREXMT + 1
    /\ sendseq \in 0 .. MaxCalls
    /\ recvseq \in 0 .. MaxCalls
    /\ inbuff \in 0 .. MaxCalls
    /\ n \in {"data", "error"}
    /\ jmpbuf \in {"none", "before", "this"}
    /\ alarm \in 0 .. MaxRto
    /\ result \in {"none", "reply", "ETIMEDOUT", "garbage"}
    /\ requests \subseteq Call
    /\ replies \subseteq requests
    /\ sends \in 0 .. RTT_MAXNREXMT + 1
    /\ late \in BOOLEAN
    /\ undefined \in {"no", "armed", "waiting", "received"}

(***************************************************************************)
(* rtt.c.  rtt_minmax clamps; RTT_RTOCALC of the initial estimators is     *)
(* 0 + 4 * 0.75.                                                           *)
(***************************************************************************)
rtt_minmax(rto) ==
    IF rto < RTT_RXTMIN THEN RTT_RXTMIN
    ELSE IF rto > RTT_RXTMAX THEN RTT_RXTMAX ELSE rto

InitialRto == rtt_minmax(3)

(* The seconds given to alarm(); rounding is left out.                     *)
rtt_start == rtt_rto

RudpInit ==
    /\ pc = "idle"
    /\ rtt_init = FALSE
    /\ rtt_rto = 0
    /\ rtt_nrexmt = 0
    /\ sendseq = 0
    /\ recvseq = 0
    /\ inbuff = 0
    /\ n = "data"
    /\ jmpbuf = "none"
    /\ alarm = 0
    /\ result = "none"
    /\ requests = {}
    /\ replies = {}
    /\ sends = 0
    /\ late = FALSE
    /\ undefined = "no"

-----------------------------------------------------------------------------
(* As NextSequence, given out once.                                        *)
NextSequence_same == IF sendseq = 0 THEN 1 ELSE sendseq

NextSequence == sendseq + 1

(* Up to the label sendagain: the estimators are initialised when the      *)
(* first call or the one after a time-out finds rtt_init zero, and the     *)
(* sequence number is the next one.                                        *)
dg_send_recv ==
    /\ pc = "idle"
    /\ undefined = "no"
    /\ sendseq < MaxCalls
    /\ rtt_init' = TRUE
    /\ rtt_rto' = IF rtt_init THEN rtt_rto ELSE InitialRto
    /\ sendseq' = NextSequence
    /\ rtt_nrexmt' = 0
    /\ jmpbuf' = IF jmpbuf = "none" THEN "none" ELSE "before"
    /\ result' = "none"
    /\ sends' = 0
    /\ late' = FALSE
    /\ pc' = "sendagain"
    /\ UNCHANGED <<recvseq, inbuff, n, alarm, requests, replies, undefined>>

(* As SendAndArm, with the alarm set for the first transmission only.      *)
SendAndArm_once ==
    /\ pc = "sendagain"
    /\ requests' = requests \cup {sendseq}
    /\ sends' = sends + 1
    /\ alarm' = IF sends = 0 THEN rtt_start ELSE 0
    /\ pc' = "armed"
    /\ UNCHANGED <<rtt_init, rtt_rto, rtt_nrexmt, sendseq, recvseq, inbuff,
                   n, jmpbuf, result, replies, late, undefined>>

(* sendmsg and alarm: the handler may run before sigsetjmp has.            *)
SendAndArm ==
    /\ pc = "sendagain"
    /\ requests' = requests \cup {sendseq}
    /\ sends' = sends + 1
    /\ alarm' = rtt_start
    /\ pc' = "armed"
    /\ UNCHANGED <<rtt_init, rtt_rto, rtt_nrexmt, sendseq, recvseq, inbuff,
                   n, jmpbuf, result, replies, late, undefined>>

(* As SetJump, with the jump buffer left as it was.                        *)
SetJump_skipped ==
    /\ pc = "armed"
    /\ pc' = "waiting"
    /\ UNCHANGED <<rtt_init, rtt_rto, rtt_nrexmt, sendseq, recvseq, inbuff,
                   n, jmpbuf, alarm, result, requests, replies, sends, late,
                   undefined>>

SetJump ==
    /\ pc = "armed"
    /\ jmpbuf' = "this"
    /\ pc' = "waiting"
    /\ UNCHANGED <<rtt_init, rtt_rto, rtt_nrexmt, sendseq, recvseq, inbuff,
                   n, alarm, result, requests, replies, sends, late, undefined>>

(* As Matches, with any datagram taken for the answer.                     *)
Matches_any(seq) == TRUE

(* The condition that ends the receive loop after a whole datagram.  A     *)
(* datagram of this protocol is never shorter than the header.             *)
Matches(seq) == seq = sendseq

(* recvmsg: any reply in the network, whichever call asked for it; header  *)
(* and data go to recvhdr and inbuff before the sequence is compared.      *)
Receive ==
    /\ pc = "waiting"
    /\ \E seq \in replies :
          /\ recvseq' = seq
          /\ inbuff' = seq
          /\ n' = "data"
          /\ pc' = IF Matches(seq) THEN "received" ELSE "waiting"
    /\ UNCHANGED <<rtt_init, rtt_rto, rtt_nrexmt, sendseq, jmpbuf, alarm,
                   result, requests, replies, sends, late, undefined>>

(* recvmsg returns -1 (an error the network reported to the socket).  The  *)
(* test n < sizeof(struct hdr) is unsigned, -1 is not less: the sequence   *)
(* number of the LAST datagram decides, and the call returns -1 minus the  *)
(* size of a header when it matches; otherwise the loop goes on.           *)
ReceiveFails ==
    /\ pc = "waiting"
    /\ n' = "error"
    /\ pc' = IF Matches(recvseq) THEN "received" ELSE "waiting"
    /\ UNCHANGED <<rtt_init, rtt_rto, rtt_nrexmt, sendseq, recvseq, inbuff,
                   jmpbuf, alarm, result, requests, replies, sends, late,
                   undefined>>

(* alarm(0), rtt_stop and the return.                                      *)
Return ==
    /\ pc = "received"
    /\ alarm' = 0
    /\ rtt_rto' \in {rtt_minmax(e) : e \in Estimates}
    /\ result' = IF n = "data" THEN "reply" ELSE "garbage"
    /\ pc' = "idle"
    /\ UNCHANGED <<rtt_init, rtt_nrexmt, sendseq, recvseq, inbuff, n, jmpbuf,
                   requests, replies, sends, late, undefined>>

(* The request has been retransmitted often enough.                        *)
GivesUp == rtt_nrexmt + 1 > RTT_MAXNREXMT

(* rtt_timeout: the timeout doubles, unclamped.                            *)
rtt_timeout ==
    /\ rtt_rto' = 2 * rtt_rto
    /\ rtt_nrexmt' = rtt_nrexmt + 1
    /\ rtt_init' = ~GivesUp
    /\ result' = IF GivesUp THEN "ETIMEDOUT" ELSE result
    /\ pc' = IF GivesUp THEN "idle" ELSE "sendagain"

(* sig_alrm: siglongjmp to a sigsetjmp of this call resumes there; before  *)
(* the first one of the call there is no frame to return to, and what      *)
(* happens is undefined.  An alarm that comes after the answer but before  *)
(* alarm(0) is handled like any other.                                     *)
sig_alrm ==
    /\ alarm > 0
    /\ pc \in {"armed", "waiting", "received"}
    /\ alarm' = 0
    /\ late' = (late \/ pc = "received")
    /\ IF jmpbuf = "this"
       THEN /\ rtt_timeout
            /\ UNCHANGED undefined
       ELSE /\ undefined' = pc
            /\ pc' = "idle"
            /\ UNCHANGED <<rtt_init, rtt_rto, rtt_nrexmt, result>>
    /\ UNCHANGED <<sendseq, recvseq, inbuff, n, jmpbuf, requests, replies,
                   sends>>

(* The server: answers a request it got, at any time.                      *)
Answer ==
    /\ \E seq \in requests \ replies : replies' = replies \cup {seq}
    /\ UNCHANGED <<clientVars, requests>>

RudpNext ==
    \/ dg_send_recv
    \/ SendAndArm
    \/ SetJump
    \/ Receive
    \/ ReceiveFails
    \/ Return
    \/ sig_alrm
    \/ Answer

(***************************************************************************)
(* Fairness: the client's thread runs, and an alarm that is set goes off.  *)
(* Nothing is assumed of the network or of the server.                     *)
(***************************************************************************)
RudpSpec ==
    /\ RudpInit
    /\ [][RudpNext]_rudpVars
    /\ WF_rudpVars(SendAndArm)
    /\ WF_rudpVars(SetJump)
    /\ WF_rudpVars(Return)
    /\ WF_rudpVars(sig_alrm)

-----------------------------------------------------------------------------
(* A call that returns data returns the data that answer its own request,  *)
(* whatever late replies to earlier calls and duplicates came in between.  *)
(* It throws its answer away - gives up with it, or returns a length that  *)
(* is none - only when an alarm went off between recvmsg and alarm(0): an  *)
(* error of recvmsg alone never ends a call.                               *)
CallReturnsItsAnswer ==
    /\ result = "reply" => inbuff = sendseq
    /\ result = "garbage" => late
    /\ (result = "ETIMEDOUT" /\ recvseq = sendseq) => late

(* The handler jumps to a frame that is gone only between the alarm() and  *)
(* the sigsetjmp of a call's FIRST transmission (rudp.c:59-60): the same   *)
(* gap of a retransmission is harmless, as the jump ends in this call.     *)
UndefinedOnlyFirst ==
    undefined # "no" => undefined = "armed" /\ sends = 1

(* Every call returns, whatever the network does (or has made the jump of  *)
(* UndefinedOnlyFirst, after which nothing is promised).                   *)
CallEnds == (pc # "idle") ~> (pc = "idle")
=============================================================================
