----------------------------- MODULE SpeechSignal -----------------------------
(***************************************************************************)
(* Signalling of the speech transfer server (src/projects/speech-transfer):*)
(* one camera that creates a channel with try_create_in_minutes (the       *)
(* client code under unit/), one PC that joins it, the server's UDP socket *)
(* with its bounded receive buffer, and serve_forever with each of its two *)
(* event loops.  Datagrams are lost in both directions.                    *)
(*                                                                         *)
(* EPOLL is edge-triggered (EPOLLIN | EPOLLET): an arrival makes the       *)
(* descriptor ready, epoll_wait takes the readiness away, and              *)
(* handle_udp_msg reads ONE datagram.  A datagram that finds the buffer    *)
(* full is dropped by the kernel and makes nothing ready.                  *)
(* Requests CANCEL and LEAVE, and speech, are in module SpeechRooms.       *)
(***************************************************************************)
EXTENDS Naturals, Sequences

CONSTANTS RcvBuf,      \* datagrams the socket's receive buffer holds
          times,       \* tries of try_create_in_minutes: minutes * 60 / time_out
          Inbox        \* datagrams the camera's socket holds

ASSUME SpeechSignalAssumption ==
    /\ RcvBuf \in Nat \ {0}
    /\ times \in Nat
    /\ Inbox \in Nat \ {0}

VARIABLES
    ev_loop,    \* config.ev_loop, which never changes: "EPOLL" or "SELECT"
    rcvbuf,     \* the server's socket: requests not yet read
    edge,       \* epoll: an arrival has not been reported yet
    loop,       \* serve_forever: "wait" for an event or "handle" one
    members,    \* CHAT_ROOM[channel], empty: the channel does not exist
    cam,        \* where try_create_in_minutes is
    count,      \* its variable of that name
    tv_timeout, \* its variable of that name: "full", "part" or "zero" is left
    inbox,      \* the camera's socket
    knows       \* the PC has got an answer to its JOIN

camVars == <<cam, count, tv_timeout>>
vars == <<ev_loop, rcvbuf, edge, loop, members, cam, count, tv_timeout, inbox, knows>>

TypeOK ==
    /\ ev_loop \in {"EPOLL", "SELECT"}
    /\ rcvbuf \in Seq({"CREATE", "JOIN"})
    /\ Len(rcvbuf) <= RcvBuf
    /\ edge \in BOOLEAN
    /\ loop \in {"wait", "handle"}
    /\ members \subseteq {"camera", "pc"}
    /\ cam \in {"send", "select", "created", "failed"}
    /\ count \in 0 .. times
    /\ tv_timeout \in {"full", "part", "zero"}
    /\ inbox \in Seq({"reply", "speech"})
    /\ Len(inbox) <= Inbox
    /\ knows \in BOOLEAN

Init ==
    /\ ev_loop \in {"EPOLL", "SELECT"}
    /\ rcvbuf = <<>>
    /\ edge = FALSE
    /\ loop = "wait"
    /\ members = {}
    /\ cam = "send"
    /\ count = 0
    /\ tv_timeout = "full"
    /\ inbox = <<>>
    /\ knows = FALSE

-----------------------------------------------------------------------------
(* The kernel: a datagram reaches the server's socket.                     *)
Arrive(request) ==
    /\ Len(rcvbuf) < RcvBuf
    /\ rcvbuf' = Append(rcvbuf, request)
    /\ edge' = TRUE

Lost == UNCHANGED <<rcvbuf, edge>>

(* A datagram to the camera is delivered or lost.                          *)
ToCamera(datagram) ==
    \/ /\ Len(inbox) < Inbox
       /\ inbox' = Append(inbox, datagram)
    \/ inbox' = inbox

-----------------------------------------------------------------------------

(* try_create_in_minutes: sendto, then select with tv_timeout.             *)
CameraSend ==
    /\ cam = "send"
    /\ count # times
    /\ cam' = "select"
    /\ Arrive("CREATE") \/ Lost
    /\ UNCHANGED <<loop, members, count, tv_timeout, inbox, knows>>

CameraGivesUp ==
    /\ cam = "send"
    /\ count = times
    /\ cam' = "failed"
    /\ UNCHANGED <<rcvbuf, edge, loop, members, count, tv_timeout, inbox, knows>>

(* select leaves in tv_timeout what it has not waited.                     *)
Left == IF tv_timeout = "zero" THEN {"zero"} ELSE {tv_timeout, "part"}

(* The test of the magic numbers of SERVER_REPLY and of its status.        *)
IsReply(datagram) == datagram = "reply"

CameraReceives ==
    /\ cam = "select"
    /\ inbox # <<>>
    /\ inbox' = Tail(inbox)
    /\ tv_timeout' \in Left
    /\ IF IsReply(Head(inbox))
       THEN /\ cam' = "created"
            /\ UNCHANGED count
       ELSE /\ cam' = "send"
            /\ count' = count + 1
    /\ UNCHANGED <<rcvbuf, edge, loop, members, knows>>

CameraTimesOut ==
    /\ cam = "select"
    /\ inbox = <<>>
    /\ cam' = "send"
    /\ count' = count + 1
    /\ tv_timeout' = "zero"
    /\ UNCHANGED <<rcvbuf, edge, loop, members, inbox, knows>>

(* The PC asks until it is answered.                                       *)
PcSend ==
    /\ ~knows
    /\ Arrive("JOIN")
    /\ UNCHANGED <<loop, members, camVars, inbox, knows>>

(* Speech of the channel is broadcast to the camera too.                   *)
Speech ==
    /\ {"camera", "pc"} \subseteq members
    /\ ToCamera("speech")
    /\ UNCHANGED <<rcvbuf, edge, loop, members, camVars, knows>>

-----------------------------------------------------------------------------

(* As Ready, with an edge-triggered loop in both cases.                    *)
Ready_edge ==
    /\ rcvbuf # <<>>
    /\ edge

(* epoll_wait reports an unreported arrival, select a buffer that is not   *)
(* empty.                                                                  *)
Ready ==
    /\ rcvbuf # <<>>
    /\ ev_loop = "EPOLL" => edge

serve_forever ==
    /\ loop = "wait"
    /\ Ready
    /\ loop' = "handle"
    /\ edge' = FALSE
    /\ UNCHANGED <<rcvbuf, members, camVars, inbox, knows>>

(* A CREATE of a channel that exists is answered like the first one.       *)
Create ==
    /\ Head(rcvbuf) = "CREATE"
    /\ members' = IF members = {} THEN {"camera"} ELSE members
    /\ ToCamera("reply")
    /\ UNCHANGED knows

(* As Join, when a channel with its camera in it admits nobody.            *)
Join_refused ==
    /\ Head(rcvbuf) = "JOIN"
    /\ UNCHANGED <<members, knows, inbox>>

(* A JOIN is answered three times, in case of loss; a repeated one, and    *)
(* one for a channel that does not exist, are not.                         *)
Join ==
    /\ Head(rcvbuf) = "JOIN"
    /\ IF members = {} \/ "pc" \in members
       THEN UNCHANGED <<members, knows>>
       ELSE /\ members' = members \cup {"pc"}
            /\ \E arrived \in 0 .. 3 : knows' = (knows \/ arrived > 0)
    /\ UNCHANGED inbox

(* The whole of handle_udp_msg for one request.                            *)
handle_udp_msg ==
    /\ loop = "handle"
    /\ rcvbuf # <<>>
    /\ Create \/ Join
    /\ rcvbuf' = Tail(rcvbuf)
    /\ loop' = "wait"
    /\ UNCHANGED <<edge, camVars>>

Next ==
    /\ \/ CameraSend
       \/ CameraGivesUp
       \/ CameraReceives
       \/ CameraTimesOut
       \/ PcSend
       \/ Speech
       \/ serve_forever
       \/ handle_udp_msg
    /\ UNCHANGED ev_loop

(***************************************************************************)
(* Fairness: the server's thread runs; the network, which loses any one    *)
(* datagram, does not lose all of them: a JOIN that is sent again and      *)
(* again, with room in the buffer each time, arrives.                      *)
(***************************************************************************)
Spec ==
    /\ Init
    /\ [][Next]_vars
    /\ WF_vars(serve_forever /\ UNCHANGED ev_loop)
    /\ WF_vars(handle_udp_msg /\ UNCHANGED ev_loop)
    /\ SF_vars(PcSend /\ UNCHANGED ev_loop)

-----------------------------------------------------------------------------
(* When nobody sends any more (the PC knows, the camera's tries are        *)
(* bounded), the level-triggered select loop reads everything that has     *)
(* arrived, although serve_forever reads one datagram for each event.      *)
EveryDatagramRead == (knows /\ ev_loop = "SELECT") ~> (rcvbuf = <<>>)

(* A PC that keeps asking gets into a channel that exists, under the       *)
(* edge-triggered epoll loop too, which leaves datagrams unread, and       *)
(* although requests, repeated requests and losses mix in the buffer.      *)
JoinTakesEffect == ("camera" \in members) ~> ("pc" \in members)
=============================================================================
