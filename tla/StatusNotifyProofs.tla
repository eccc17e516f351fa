-------------------------- MODULE StatusNotifyProofs --------------------------
(***************************************************************************)
(* What the notify thread makes of the one data field, for every number of *)
(* channels, servers and sessions: a status is told to a server once at    *)
(* most, and is lost only by an overlap.                                   *)
(***************************************************************************)
EXTENDS StatusNotify, TLAPS

(* The threads are where their messages say.                               *)
Threads ==
  /\ \A p \in Poster : /\ poster[p].pc = "idle" => poster[p] = Resting
                       /\ poster[p].pc # "idle" => poster[p].message \in Message
  /\ poster["main"].pc # "idle" => poster["main"].message.status = "ONLINE"
  /\ \A ch \in Channel :
       /\ poster[ch].pc # "idle" => /\ poster[ch].message.status = "OFFLINE"
                                    /\ poster[ch].message.channel = ch
       /\ online[ch] => session[ch] >= 1
  /\ notifier.pc = "idle" => notifier = AtRest
  /\ notifier.pc = "connect" => notifier.message \in taken
  /\ queued => notifier = AtRest

(* The message has been written to data, now or before.                    *)
Written(m) ==
  \/ m \in posted \/ m \in taken \/ data = m
  \/ \E p \in Poster : poster[p].pc = "send" /\ poster[p].message = m

(* ... or is on its way there.                                             *)
Begun(m) == Written(m) \/ \E p \in Poster : poster[p].pc # "idle" /\ poster[p].message = m

(* A message is of the session it was made in, and made once.              *)
Made ==
  \A m \in Message : Begun(m) =>
    /\ m.session <= session[m.channel]
    /\ m.status = "OFFLINE" /\ online[m.channel] => m.session < session[m.channel]

(* It is written once, and was posted or is being posted.                  *)
WrittenOnce ==
  /\ \A p \in Poster : poster[p].pc \in {"pending", "write"} => ~Written(poster[p].message)
  /\ \A p \in Poster : poster[p].pc = "send" => poster[p].message \notin posted
  /\ \A m \in taken \cup ({data} \ {NULL}) :
       m \in posted \/ \E p \in Poster : poster[p].pc = "send" /\ poster[p].message = m

(* The callback reads it once: data is cleared before the next callback.   *)
ReadOnce == data \in taken => notifier.pc # "idle"

(* A server is connected to once for it, and it is sent once.              *)
SentOnce ==
  /\ \A c \in connected : c[2] \in taken
  /\ \A s \in Server :
       /\ \A i \in DOMAIN received[s] : /\ received[s][i] \in taken
                                        /\ <<s, received[s][i]>> \notin connected
       /\ IsInjective(received[s])
       /\ notifier.pc = "connect" /\ s \in notifier.left =>
            /\ <<s, notifier.message>> \notin connected
            /\ \A i \in DOMAIN received[s] : received[s][i] # notifier.message

(* Whoever posts without an overlap is alone with the data field, and      *)
(* finds the notify thread waiting.                                        *)
Alone(p) ==
  /\ data = poster[p].message
  /\ ~sent /\ ~queued /\ notifier.pc = "idle"
  /\ \A q \in Poster \ {p} : poster[q].pc # "send"

NotLost ==
  /\ ~overlapped =>
       /\ \A p \in Poster : poster[p].pc = "send" => Alone(p)
       /\ notifier.pc # "idle" => data \in taken \cup {NULL}
       /\ \A m \in posted \ early : m \in taken \/ Waiting(m)
  /\ \A p \in Poster : poster[p].pc = "send" /\ poster[p].message \notin early
       => started = "running"
  /\ posted \ early # {} => started = "running"

IInv == /\ TypeOK /\ Threads /\ Made /\ WrittenOnce /\ ReadOnce /\ SentOnce /\ NotLost

-----------------------------------------------------------------------------
(* The records have their types, and an update of one field keeps them.    *)
LEMMA RecordTypes ==
  /\ Resting \in PosterType /\ AtRest \in NotifierType
  /\ \A r \in PosterType : \A pc \in {"write", "send"} : [r EXCEPT !.pc = pc] \in PosterType
  /\ \A m \in Message : [pc |-> "pending", message |-> m] \in PosterType
  /\ \A m \in Message : [pc |-> "connect", message |-> m, left |-> Server] \in NotifierType
  /\ [AtRest EXCEPT !.pc = "clear"] \in NotifierType
  /\ \A n \in NotifierType : [n EXCEPT !.pc = "clear"] \in NotifierType
  /\ \A n \in NotifierType, s \in Server : [n EXCEPT !.left = @ \ {s}] \in NotifierType
  /\ \A n \in NotifierType : n.message \in Message \cup {NULL} /\ n.left \in SUBSET Server
  /\ \A r \in PosterType : r.message \in Message \cup {NULL}
  /\ \A ch \in Channel, st \in {"ONLINE", "OFFLINE"}, k \in 1 .. Sessions :
       [channel |-> ch, status |-> st, session |-> k] \in Message
BY DEF Resting, AtRest, PosterType, NotifierType, Message

(* What ev_async_pending does to a poster.                                 *)
LEMMA CheckedPoster ==
  ASSUME TypeOK, NEW p \in Poster, CheckPending(p)
  PROVE  /\ poster' \in [Poster -> PosterType]
         /\ poster[p].pc = "pending"
         /\ \A q \in Poster \ {p} : poster'[q] = poster[q]
         /\ \/ poster'[p] = poster[p] \/ poster'[p] = Resting
            \/ poster'[p].pc = "write" /\ poster'[p].message = poster[p].message
<1>1. poster[p] \in PosterType /\ poster \in [Poster -> PosterType]
  BY DEF TypeOK
<1> DEFINE r == [poster[p] EXCEPT !.pc = "write"]
<1>2. r \in PosterType /\ r.pc = "write" /\ r.message = poster[p].message
  BY <1>1 DEF PosterType
<1>3. Resting \in PosterType
  BY RecordTypes
<1>4. /\ poster[p].pc = "pending"
      /\ \/ poster' = poster \/ poster' = [poster EXCEPT ![p] = Resting]
         \/ poster' = [poster EXCEPT ![p] = r]
  BY DEF CheckPending
<1> HIDE DEF r
<1> QED
  BY <1>1, <1>2, <1>3, <1>4

(* Two threads never post the same message.                                *)
LEMMA PostersDiffer ==
  ASSUME TypeOK, Threads, NEW p \in Poster, NEW q \in Poster, p # q,
         poster[p].pc # "idle", poster[q].pc # "idle"
  PROVE  poster[p].message # poster[q].message
BY DEF Threads, Poster

LEMMA TypeOKStep == ASSUME IInv, Next PROVE TypeOK'
<1> USE RecordTypes, SessionsAssumption DEF IInv, TypeOK, Threads, Call, Poster,
         callbackVars, history
<1>1. ASSUME NEW ch \in Channel, CameraOnline(ch) PROVE TypeOK'
  BY <1>1 DEF CameraOnline
<1>2. ASSUME NEW ch \in Channel, CameraOffline(ch) PROVE TypeOK'
  BY <1>2 DEF CameraOffline
<1>3. ASSUME NEW p \in Poster, CheckPending(p) PROVE TypeOK'
  <2>1. undefined' \in BOOLEAN /\ complete' \in BOOLEAN
    BY <1>3 DEF CheckPending
  <2>2. poster' \in [Poster -> PosterType]
    <3> HIDE DEF TypeOK
    <3> QED
      BY <1>3, CheckedPoster
  <2> QED
    BY <1>3, <2>1, <2>2 DEF CheckPending
<1>4. ASSUME NEW p \in Poster, WriteData(p) PROVE TypeOK'
  BY <1>4, ZenonT(30) DEF WriteData
<1>5. ASSUME NEW p \in Poster, SendAsync(p) PROVE TypeOK'
  BY <1>5 DEF SendAsync
<1>6. ASSUME notify_server_entry PROVE TypeOK'
  BY <1>6 DEF notify_server_entry
<1>7. ASSUME QueueCallback PROVE TypeOK'
  BY <1>7 DEF QueueCallback
<1>8. ASSUME ReadData PROVE TypeOK'
  BY <1>8, ZenonT(30) DEF ReadData
<1>9. ASSUME EndOfServers PROVE TypeOK'
  BY <1>9 DEF EndOfServers
<1>10. ASSUME ClearData PROVE TypeOK'
  BY <1>10 DEF ClearData
<1>11. ASSUME NEW s \in Server, ConnectServer(s) PROVE TypeOK'
  <2>1. notifier' \in NotifierType
    BY <1>11 DEF ConnectServer
  <2>2. connected' \subseteq Server \X Message
    <3>1. notifier.message \in Message
      BY <1>11 DEF ConnectServer
    <3>2. \/ connected' = connected \/ connected' = connected \cup {<<s, notifier.message>>}
      BY <1>11 DEF ConnectServer
    <3> QED
      BY <3>1, <3>2
  <2>3. complete' \in BOOLEAN
    BY <1>11 DEF ConnectServer
  <2> QED
    BY <1>11, <2>1, <2>2, <2>3 DEF ConnectServer
<1>12. ASSUME NEW s \in Server, NEW m \in Message, do_notify_cb(s, m) PROVE TypeOK'
  <2>1. received' \in [Server -> Seq(Message)]
    <3>1. Append(received[s], m) \in Seq(Message)
      OBVIOUS
    <3> QED
      BY <1>12, <3>1, ZenonT(30) DEF do_notify_cb
  <2>2. complete' \in BOOLEAN
    BY <1>12 DEF do_notify_cb
  <2> QED
    BY <1>12, <2>1, <2>2 DEF do_notify_cb
<1>13. ASSUME NEW ch \in Channel, ReplyFails(ch) PROVE TypeOK'
  BY <1>13 DEF ReplyFails
<1> QED
  BY <1>1, <1>2, <1>3, <1>4, <1>5, <1>6, <1>7, <1>8, <1>9, <1>10, <1>11, <1>12,
     <1>13 DEF Next, PosterStep, NotifierStep

LEMMA ThreadsStep == ASSUME IInv, Next PROVE Threads'
<1> USE NullAssumption, SessionsAssumption DEF IInv, TypeOK, Threads, Call, Poster,
         Resting, AtRest, PosterType, NotifierType, callbackVars, history
<1>1. ASSUME NEW ch \in Channel, CameraOnline(ch) PROVE Threads'
  <2> DEFINE msg == [channel |-> ch, status |-> "ONLINE", session |-> session'[ch]]
             k == "main"
  <2>1. k \in Poster /\ poster[k] = Resting
    BY <1>1 DEF CameraOnline
  <2>2. msg \in Message
    BY <1>1 DEF CameraOnline, Message
  <2>3. poster' = [poster EXCEPT ![k] = [pc |-> "pending", message |-> msg]]
    BY <1>1 DEF CameraOnline
  <2>4. msg.status = "ONLINE" /\ msg.channel = ch
    OBVIOUS
  <2>5. \A d \in Channel : online'[d] => session'[d] >= 1
    BY <1>1 DEF CameraOnline
  <2> HIDE DEF msg
  <2> QED
    BY <1>1, <2>1, <2>2, <2>3, <2>4, <2>5 DEF CameraOnline
<1>2. ASSUME NEW ch \in Channel, CameraOffline(ch) PROVE Threads'
  <2> DEFINE msg == [channel |-> ch, status |-> "OFFLINE", session |-> session'[ch]]
             k == ch
  <2>1. k \in Poster /\ poster[k] = Resting
    BY <1>2 DEF CameraOffline
  <2>2. msg \in Message
    BY <1>2 DEF CameraOffline, Message
  <2>3. poster' = [poster EXCEPT ![k] = [pc |-> "pending", message |-> msg]]
    BY <1>2 DEF CameraOffline
  <2>4. msg.status = "OFFLINE" /\ msg.channel = ch
    OBVIOUS
  <2>5. \A d \in Channel : online'[d] => session'[d] >= 1
    BY <1>2 DEF CameraOffline
  <2> HIDE DEF msg
  <2> QED
    BY <1>2, <2>1, <2>2, <2>3, <2>4, <2>5 DEF CameraOffline
<1>3. ASSUME NEW p \in Poster, CheckPending(p) PROVE Threads'
  <2>1. CASE UNCHANGED poster
    BY <1>3, <2>1 DEF CheckPending
  <2>2. CASE poster' = [poster EXCEPT ![p] = Resting]
    BY <1>3, <2>2 DEF CheckPending
  <2>3. CASE ~sent /\ started # "no" /\ poster' = [poster EXCEPT ![p].pc = "write"]
    BY <1>3, <2>3 DEF CheckPending
  <2> QED
    BY <1>3, <2>1, <2>2, <2>3 DEF CheckPending
<1>4. ASSUME NEW p \in Poster, WriteData(p) PROVE Threads'
  BY <1>4 DEF WriteData
<1>5. ASSUME NEW p \in Poster, SendAsync(p) PROVE Threads'
  BY <1>5 DEF SendAsync
<1>6. ASSUME notify_server_entry PROVE Threads'
  BY <1>6 DEF notify_server_entry
<1>7. ASSUME QueueCallback PROVE Threads'
  BY <1>7 DEF QueueCallback
<1>8. ASSUME ReadData PROVE Threads'
  BY <1>8 DEF ReadData
<1>9. ASSUME EndOfServers PROVE Threads'
  BY <1>9 DEF EndOfServers
<1>10. ASSUME ClearData PROVE Threads'
  BY <1>10 DEF ClearData
<1>11. ASSUME NEW s \in Server, ConnectServer(s) PROVE Threads'
  BY <1>11 DEF ConnectServer
<1>12. ASSUME NEW s \in Server, NEW m \in Message, do_notify_cb(s, m) PROVE Threads'
  BY <1>12 DEF do_notify_cb
<1>13. ASSUME NEW ch \in Channel, ReplyFails(ch) PROVE Threads'
  BY <1>13 DEF ReplyFails
<1> QED
  BY <1>1, <1>2, <1>3, <1>4, <1>5, <1>6, <1>7, <1>8, <1>9, <1>10, <1>11, <1>12,
     <1>13 DEF Next, PosterStep, NotifierStep

(* A session makes its messages once.                                      *)
LEMMA MadeStep == ASSUME IInv, Next PROVE Made'
<1> USE NullAssumption, SessionsAssumption DEF IInv, TypeOK, Threads, Made, Begun,
         Written, Call, Poster, Message, Resting, AtRest, PosterType, NotifierType,
         callbackVars, history
<1>1. ASSUME NEW ch \in Channel, CameraOnline(ch) PROVE Made'
  BY <1>1 DEF CameraOnline
<1>2. ASSUME NEW ch \in Channel, CameraOffline(ch) PROVE Made'
  BY <1>2 DEF CameraOffline
<1>3. ASSUME NEW p \in Poster, CheckPending(p) PROVE Made'
  <2> HIDE DEF Message, Poster, Made
  <2>1. UNCHANGED <<posted, taken, data, session, online>>
    BY <1>3 DEF CheckPending
  <2>2. /\ poster[p].pc = "pending"
        /\ \A q \in Poster \ {p} : poster'[q] = poster[q]
        /\ \/ poster'[p] = poster[p] \/ poster'[p] = Resting
           \/ poster'[p].pc = "write" /\ poster'[p].message = poster[p].message
    <3> HIDE DEF TypeOK, PosterType, Resting
    <3> QED
      BY <1>3, CheckedPoster
  <2>3. \A m \in Message : Begun(m)' => Begun(m)
    <3>1. /\ poster'[p].pc # "idle" => poster'[p].message = poster[p].message
          /\ poster'[p].pc # "send"
      <4> HIDE DEF TypeOK, Threads, IInv
      <4> QED
        BY <2>2
    <3>2. \A q \in Poster :
            /\ poster'[q].pc # "idle" => /\ poster[q].pc # "idle"
                                        /\ poster'[q].message = poster[q].message
            /\ poster'[q].pc = "send" => poster[q].pc = "send"
      <4> HIDE DEF TypeOK, Threads, IInv
      <4> QED
        BY <2>2, <3>1
    <3> QED
      BY <2>1, <3>2
  <2> HIDE DEF Begun
  <2> QED
    BY <2>1, <2>3 DEF Made
<1>4. ASSUME NEW p \in Poster, WriteData(p) PROVE Made'
  BY <1>4 DEF WriteData
<1>5. ASSUME NEW p \in Poster, SendAsync(p) PROVE Made'
  BY <1>5 DEF SendAsync
<1>6. ASSUME notify_server_entry PROVE Made'
  BY <1>6 DEF notify_server_entry
<1>7. ASSUME QueueCallback PROVE Made'
  BY <1>7 DEF QueueCallback
<1>8. ASSUME ReadData PROVE Made'
  BY <1>8 DEF ReadData
<1>9. ASSUME EndOfServers PROVE Made'
  <2>1. UNCHANGED <<posted, taken, data, poster, session, online>>
    BY <1>9 DEF EndOfServers
  <2> HIDE DEF Message
  <2> QED
    BY <2>1
<1>10. ASSUME ClearData PROVE Made'
  BY <1>10 DEF ClearData
<1>11. ASSUME NEW s \in Server, ConnectServer(s) PROVE Made'
  <2>1. UNCHANGED <<posted, taken, data, poster, session, online>>
    BY <1>11 DEF ConnectServer
  <2> HIDE DEF Message
  <2> QED
    BY <2>1
<1>12. ASSUME NEW s \in Server, NEW m \in Message, do_notify_cb(s, m) PROVE Made'
  <2>1. UNCHANGED <<posted, taken, data, poster, session, online>>
    BY <1>12 DEF do_notify_cb
  <2> HIDE DEF Message
  <2> QED
    BY <2>1
<1>13. ASSUME NEW ch \in Channel, ReplyFails(ch) PROVE Made'
  BY <1>13 DEF ReplyFails
<1> QED
  BY <1>1, <1>2, <1>3, <1>4, <1>5, <1>6, <1>7, <1>8, <1>9, <1>10, <1>11, <1>12,
     <1>13 DEF Next, PosterStep, NotifierStep

(* Only its own poster writes a message to data, and once.                 *)
LEMMA WrittenOnceStep == ASSUME IInv, Next PROVE WrittenOnce'
<1> USE NullAssumption, SessionsAssumption DEF IInv, TypeOK, Threads, Made,
         WrittenOnce, Begun, Written, Call, Resting, AtRest, PosterType,
         NotifierType, callbackVars, history
<1>1. ASSUME NEW ch \in Channel, CameraOnline(ch) PROVE WrittenOnce'
  <2> DEFINE msg == [channel |-> ch, status |-> "ONLINE", session |-> session'[ch]]
             k == "main"
  <2>1. k \in Poster /\ poster[k] = Resting
    BY <1>1 DEF CameraOnline, Poster
  <2>2. msg \in Message
    BY <1>1 DEF CameraOnline, Message
  <2>3. /\ poster' = [poster EXCEPT ![k] = [pc |-> "pending", message |-> msg]]
        /\ UNCHANGED <<posted, taken, data>>
    BY <1>1 DEF CameraOnline
  <2>4. ~Begun(msg)
    <3>1. msg.channel = ch /\ msg.status = "ONLINE" /\ msg.session = session'[ch]
      OBVIOUS
    <3> HIDE DEF msg, Begun
    <3> QED
      BY <1>1, <2>2, <3>1 DEF CameraOnline
  <2>5. \A m \in Message : Written(m)' = Written(m)
    BY <2>1, <2>3
  <2> HIDE DEF msg, k
  <2>6. \A q \in Poster : poster'[q] = poster[q] \/ (q = k /\ poster'[q].pc = "pending" /\ poster'[q].message = msg)
    BY <2>1, <2>3
  <2>7. \A q \in Poster : poster[q].pc = "send" => poster'[q] = poster[q]
    BY <2>1, <2>3
  <2>8. ~Written(msg)
    BY <2>4
  <2>9. (\A q \in Poster : poster[q].pc \in {"pending", "write"} => ~Written(poster[q].message))'
    <3> SUFFICES ASSUME NEW q \in Poster, poster'[q].pc \in {"pending", "write"}
                 PROVE  ~Written(poster[q].message)'
      OBVIOUS
    <3>1. PICK x \in Message : x = poster'[q].message /\ ~Written(x)
      <4> HIDE DEF Written
      <4> QED
        BY <2>2, <2>6, <2>8
    <3>2. ~Written(x)'
      BY <2>5, <3>1
    <3> QED
      BY <3>1, <3>2
  <2> QED
    BY <2>3, <2>6, <2>7, <2>9
<1>2. ASSUME NEW ch \in Channel, CameraOffline(ch) PROVE WrittenOnce'
  <2> DEFINE msg == [channel |-> ch, status |-> "OFFLINE", session |-> session'[ch]]
             k == ch
  <2>1. k \in Poster /\ poster[k] = Resting
    BY <1>2 DEF CameraOffline, Poster
  <2>2. msg \in Message
    BY <1>2 DEF CameraOffline, Message
  <2>3. /\ poster' = [poster EXCEPT ![k] = [pc |-> "pending", message |-> msg]]
        /\ UNCHANGED <<posted, taken, data>>
    BY <1>2 DEF CameraOffline
  <2>4. ~Begun(msg)
    <3>1. msg.channel = ch /\ msg.status = "OFFLINE" /\ msg.session = session'[ch]
      OBVIOUS
    <3> HIDE DEF msg, Begun
    <3> QED
      BY <1>2, <2>2, <3>1 DEF CameraOffline
  <2>5. \A m \in Message : Written(m)' = Written(m)
    BY <2>1, <2>3
  <2> HIDE DEF msg, k
  <2>6. \A q \in Poster : poster'[q] = poster[q] \/ (q = k /\ poster'[q].pc = "pending" /\ poster'[q].message = msg)
    BY <2>1, <2>3
  <2>7. \A q \in Poster : poster[q].pc = "send" => poster'[q] = poster[q]
    BY <2>1, <2>3
  <2>8. ~Written(msg)
    BY <2>4
  <2>9. (\A q \in Poster : poster[q].pc \in {"pending", "write"} => ~Written(poster[q].message))'
    <3> SUFFICES ASSUME NEW q \in Poster, poster'[q].pc \in {"pending", "write"}
                 PROVE  ~Written(poster[q].message)'
      OBVIOUS
    <3>1. PICK x \in Message : x = poster'[q].message /\ ~Written(x)
      <4> HIDE DEF Written
      <4> QED
        BY <2>2, <2>6, <2>8
    <3>2. ~Written(x)'
      BY <2>5, <3>1
    <3> QED
      BY <3>1, <3>2
  <2> QED
    BY <2>3, <2>6, <2>7, <2>9
<1>3. ASSUME NEW p \in Poster, CheckPending(p) PROVE WrittenOnce'
  <2>1. UNCHANGED <<posted, taken, data>>
    BY <1>3 DEF CheckPending
  <2>2. /\ poster[p].pc = "pending"
        /\ \A q \in Poster \ {p} : poster'[q] = poster[q]
        /\ \/ poster'[p] = poster[p] \/ poster'[p] = Resting
           \/ poster'[p].pc = "write" /\ poster'[p].message = poster[p].message
    <3> HIDE DEF TypeOK, PosterType, Resting
    <3> QED
      BY <1>3, CheckedPoster
  <2>4. \A q \in Poster :
          /\ poster'[q].pc = "send" <=> poster[q].pc = "send"
          /\ poster[q].pc = "send" => poster'[q] = poster[q]
          /\ poster'[q].pc # "idle" => /\ poster'[q].message = poster[q].message
                                      /\ poster[q].pc # "idle"
    BY <2>2
  <2> HIDE DEF TypeOK, Threads, Made
  <2>5. (\A q \in Poster : poster[q].pc \in {"pending", "write"} => ~Written(poster[q].message))'
    <3> SUFFICES ASSUME NEW q \in Poster, poster'[q].pc \in {"pending", "write"}
                 PROVE  ~Written(poster[q].message)'
      OBVIOUS
    <3>1. poster[q].pc \in {"pending", "write"} /\ poster'[q].message = poster[q].message
      BY <2>2, <2>4
    <3> QED
      BY <2>1, <2>4, <3>1
  <2> QED
    BY <2>1, <2>4, <2>5
<1>4. ASSUME NEW p \in Poster, WriteData(p) PROVE WrittenOnce'
  <2>1. /\ poster[p].pc = "write" /\ data' = poster[p].message
        /\ poster' = [poster EXCEPT ![p].pc = "send"]
        /\ UNCHANGED <<posted, taken>>
    BY <1>4 DEF WriteData
  <2>2. \A q \in Poster \ {p} : poster[q].pc # "idle" => poster[q].message # poster[p].message
    BY <2>1, PostersDiffer
  <2>3. /\ poster'[p].pc = "send" /\ poster'[p].message = poster[p].message
        /\ \A q \in Poster \ {p} : poster'[q] = poster[q]
    BY <2>1
  <2>4. (\A q \in Poster : poster[q].pc \in {"pending", "write"} => ~Written(poster[q].message))'
    BY <2>1, <2>2, <2>3
  <2>5. (\A q \in Poster : poster[q].pc = "send" => poster[q].message \notin posted)'
    BY <2>1, <2>3
  <2> QED
    BY <2>1, <2>3, <2>4, <2>5
<1>5. ASSUME NEW p \in Poster, SendAsync(p) PROVE WrittenOnce'
  <2>1. /\ poster[p].pc = "send" /\ posted' = posted \cup {poster[p].message}
        /\ poster' = [poster EXCEPT ![p] = Resting]
        /\ UNCHANGED <<data, taken>>
    BY <1>5 DEF SendAsync
  <2>2. \A q \in Poster \ {p} : poster[q].pc # "idle" => poster[q].message # poster[p].message
    BY <2>1, PostersDiffer
  <2>3. /\ poster'[p].pc = "idle"
        /\ \A q \in Poster \ {p} : poster'[q] = poster[q]
    BY <2>1
  <2>4. (\A q \in Poster : poster[q].pc \in {"pending", "write"} => ~Written(poster[q].message))'
    BY <2>1, <2>2, <2>3
  <2>5. (\A q \in Poster : poster[q].pc = "send" => poster[q].message \notin posted)'
    BY <2>1, <2>2, <2>3
  <2> QED
    BY <2>1, <2>3, <2>4, <2>5
<1>6. ASSUME notify_server_entry PROVE WrittenOnce'
  BY <1>6 DEF notify_server_entry
<1>7. ASSUME QueueCallback PROVE WrittenOnce'
  BY <1>7 DEF QueueCallback
<1>8. ASSUME ReadData PROVE WrittenOnce'
  BY <1>8 DEF ReadData
<1>9. ASSUME EndOfServers PROVE WrittenOnce'
  BY <1>9 DEF EndOfServers
<1>10. ASSUME ClearData PROVE WrittenOnce'
  BY <1>10 DEF ClearData
<1>11. ASSUME NEW s \in Server, ConnectServer(s) PROVE WrittenOnce'
  BY <1>11 DEF ConnectServer
<1>12. ASSUME NEW s \in Server, NEW m \in Message, do_notify_cb(s, m) PROVE WrittenOnce'
  BY <1>12 DEF do_notify_cb
<1>13. ASSUME NEW ch \in Channel, ReplyFails(ch) PROVE WrittenOnce'
  BY <1>13 DEF ReplyFails
<1> QED
  BY <1>1, <1>2, <1>3, <1>4, <1>5, <1>6, <1>7, <1>8, <1>9, <1>10, <1>11, <1>12,
     <1>13 DEF Next, PosterStep, NotifierStep

(* The callback runs to its end, which clears data, before the next one.   *)
LEMMA ReadOnceStep == ASSUME IInv, Next PROVE ReadOnce'
<1> USE NullAssumption DEF IInv, TypeOK, Threads, ReadOnce, WrittenOnce, Written,
         Call, Poster, Resting, AtRest, PosterType, NotifierType, callbackVars,
         history
<1>1. ASSUME NEW ch \in Channel, CameraOnline(ch) PROVE ReadOnce'
  BY <1>1 DEF CameraOnline
<1>2. ASSUME NEW ch \in Channel, CameraOffline(ch) PROVE ReadOnce'
  BY <1>2 DEF CameraOffline
<1>3. ASSUME NEW p \in Poster, CheckPending(p) PROVE ReadOnce'
  BY <1>3 DEF CheckPending
<1>4. ASSUME NEW p \in Poster, WriteData(p) PROVE ReadOnce'
  BY <1>4 DEF WriteData
<1>5. ASSUME NEW p \in Poster, SendAsync(p) PROVE ReadOnce'
  BY <1>5 DEF SendAsync
<1>6. ASSUME notify_server_entry PROVE ReadOnce'
  BY <1>6 DEF notify_server_entry
<1>7. ASSUME QueueCallback PROVE ReadOnce'
  BY <1>7 DEF QueueCallback
<1>8. ASSUME ReadData PROVE ReadOnce'
  BY <1>8 DEF ReadData
<1>9. ASSUME EndOfServers PROVE ReadOnce'
  BY <1>9 DEF EndOfServers
<1>10. ASSUME ClearData PROVE ReadOnce'
  BY <1>10 DEF ClearData
<1>11. ASSUME NEW s \in Server, ConnectServer(s) PROVE ReadOnce'
  BY <1>11 DEF ConnectServer
<1>12. ASSUME NEW s \in Server, NEW m \in Message, do_notify_cb(s, m) PROVE ReadOnce'
  BY <1>12 DEF do_notify_cb
<1>13. ASSUME NEW ch \in Channel, ReplyFails(ch) PROVE ReadOnce'
  BY <1>13 DEF ReplyFails
<1> QED
  BY <1>1, <1>2, <1>3, <1>4, <1>5, <1>6, <1>7, <1>8, <1>9, <1>10, <1>11, <1>12,
     <1>13 DEF Next, PosterStep, NotifierStep

LEMMA SentOnceStep == ASSUME IInv, Next PROVE SentOnce'
<1> USE NullAssumption DEF IInv, TypeOK, Threads, ReadOnce, SentOnce, IsInjective,
         Resting, AtRest, PosterType, NotifierType, callbackVars, history
<1>1. ASSUME NEW ch \in Channel, CameraOnline(ch) PROVE SentOnce'
  BY <1>1 DEF CameraOnline
<1>2. ASSUME NEW ch \in Channel, CameraOffline(ch) PROVE SentOnce'
  BY <1>2 DEF CameraOffline
<1>3. ASSUME NEW p \in Poster, CheckPending(p) PROVE SentOnce'
  BY <1>3 DEF CheckPending
<1>4. ASSUME NEW p \in Poster, WriteData(p) PROVE SentOnce'
  BY <1>4 DEF WriteData
<1>5. ASSUME NEW p \in Poster, SendAsync(p) PROVE SentOnce'
  BY <1>5 DEF SendAsync
<1>6. ASSUME notify_server_entry PROVE SentOnce'
  BY <1>6 DEF notify_server_entry
<1>7. ASSUME QueueCallback PROVE SentOnce'
  BY <1>7 DEF QueueCallback
<1>8. ASSUME ReadData PROVE SentOnce'
  <2>1. CASE data # NULL
    <3>1. data \notin taken
      BY <1>8 DEF ReadData
    <3>2. /\ notifier' = [pc |-> "connect", message |-> data, left |-> Server]
          /\ taken' = taken \cup {data}
          /\ UNCHANGED <<connected, received>>
      BY <1>8, <2>1 DEF ReadData
    <3> HIDE DEF TypeOK, Threads, ReadOnce, IsInjective
    <3>3. \A s \in Server : \A i \in DOMAIN received[s] : received[s][i] # data
      BY <3>1
    <3>4. \A s \in Server : <<s, data>> \notin connected
      BY <3>1
    <3>5. notifier'.message = data
      BY <3>2
    <3> QED
      BY <3>2, <3>3, <3>4, <3>5
  <2>2. CASE data = NULL
    BY <1>8, <2>2, SMTT(30) DEF ReadData
  <2> QED
    BY <2>1, <2>2
<1>9. ASSUME EndOfServers PROVE SentOnce'
  BY <1>9 DEF EndOfServers
<1>10. ASSUME ClearData PROVE SentOnce'
  BY <1>10 DEF ClearData
<1>11. ASSUME NEW s \in Server, ConnectServer(s) PROVE SentOnce'
  BY <1>11 DEF ConnectServer
<1>12. ASSUME NEW s \in Server, NEW m \in Message, do_notify_cb(s, m) PROVE SentOnce'
  <2>1. /\ notifier = AtRest /\ <<s, m>> \in connected
        /\ connected' = connected \ {<<s, m>>}
        /\ UNCHANGED <<notifier, taken>>
    BY <1>12 DEF do_notify_cb
  <2>2. CASE UNCHANGED received
    BY <2>1, <2>2
  <2>3. CASE received' = [received EXCEPT ![s] = Append(@, m)]
    <3>1. \A i \in DOMAIN received[s] : received[s][i] # m
      BY <2>1
    <3>2. m \in taken
      BY <2>1
    <3>3. \A t \in Server \ {s} : received'[t] = received[t]
      BY <2>3
    <3>4. received'[s] = Append(received[s], m) /\ received[s] \in Seq(Message)
      BY <2>3
    <3>5. \A i \in DOMAIN received'[s] :
            \/ i \in DOMAIN received[s] /\ received'[s][i] = received[s][i]
            \/ i = Len(received[s]) + 1 /\ received'[s][i] = m
      BY <3>4
    <3>6. IsInjective(received[s])'
      <4>1. IsInjective(received[s])
        OBVIOUS
      <4>2. Len(received[s]) + 1 \notin DOMAIN received[s]
        BY <3>4
      <4> HIDE DEF TypeOK, Threads, SentOnce
      <4> QED
        BY <3>1, <3>5, <4>1, <4>2
    <3>7. \A i \in DOMAIN received'[s] : received'[s][i] \in taken' /\ <<s, received'[s][i]>> \notin connected'
      BY <2>1, <3>1, <3>2, <3>5
    <3>8. notifier'.pc = "idle"
      BY <2>1
    <3> HIDE DEF IsInjective
    <3> QED
      BY <2>1, <3>3, <3>6, <3>7, <3>8, ZenonT(30)
  <2> QED
    BY <1>12, <2>2, <2>3 DEF do_notify_cb
<1>13. ASSUME NEW ch \in Channel, ReplyFails(ch) PROVE SentOnce'
  BY <1>13 DEF ReplyFails
<1> QED
  BY <1>1, <1>2, <1>3, <1>4, <1>5, <1>6, <1>7, <1>8, <1>9, <1>10, <1>11, <1>12,
     <1>13 DEF Next, PosterStep, NotifierStep

(* A poster without overlap stays alone until it has sent.                 *)
LEMMA NotLostStep == ASSUME IInv, Next PROVE NotLost'
<1> USE NullAssumption DEF IInv, TypeOK, Threads, WrittenOnce, Written, NotLost,
         Alone, Waiting, Posting, ReadOnce, Call, Resting, AtRest, PosterType,
         NotifierType, callbackVars, history
<1>1. ASSUME NEW ch \in Channel, CameraOnline(ch) PROVE NotLost'
  BY <1>1 DEF CameraOnline
<1>2. ASSUME NEW ch \in Channel, CameraOffline(ch) PROVE NotLost'
  BY <1>2 DEF CameraOffline
<1>3. ASSUME NEW p \in Poster, CheckPending(p) PROVE NotLost'
  <2>1. CASE UNCHANGED poster
    BY <1>3, <2>1 DEF CheckPending
  <2>2. CASE poster' = [poster EXCEPT ![p] = Resting]
    BY <1>3, <2>2 DEF CheckPending
  <2>3. CASE ~sent /\ started # "no" /\ poster' = [poster EXCEPT ![p].pc = "write"]
    BY <1>3, <2>3 DEF CheckPending
  <2> QED
    BY <1>3, <2>1, <2>2, <2>3 DEF CheckPending
<1>4. ASSUME NEW p \in Poster, WriteData(p) PROVE NotLost'
  BY <1>4 DEF WriteData
<1>5. ASSUME NEW p \in Poster, SendAsync(p) PROVE NotLost'
  BY <1>5 DEF SendAsync
<1>6. ASSUME notify_server_entry PROVE NotLost'
  BY <1>6 DEF notify_server_entry
<1>7. ASSUME QueueCallback PROVE NotLost'
  BY <1>7 DEF QueueCallback
<1>8. ASSUME ReadData PROVE NotLost'
  BY <1>8 DEF ReadData
<1>9. ASSUME EndOfServers PROVE NotLost'
  BY <1>9 DEF EndOfServers
<1>10. ASSUME ClearData PROVE NotLost'
  BY <1>10 DEF ClearData
<1>11. ASSUME NEW s \in Server, ConnectServer(s) PROVE NotLost'
  BY <1>11 DEF ConnectServer
<1>12. ASSUME NEW s \in Server, NEW m \in Message, do_notify_cb(s, m) PROVE NotLost'
  BY <1>12 DEF do_notify_cb
<1>13. ASSUME NEW ch \in Channel, ReplyFails(ch) PROVE NotLost'
  BY <1>13 DEF ReplyFails
<1> QED
  BY <1>1, <1>2, <1>3, <1>4, <1>5, <1>6, <1>7, <1>8, <1>9, <1>10, <1>11, <1>12,
     <1>13 DEF Next, PosterStep, NotifierStep

-----------------------------------------------------------------------------
(* The initial state.                                                      *)
LEMMA InitInv == Init => IInv
<1> SUFFICES ASSUME Init PROVE IInv
  OBVIOUS
<1>1. TypeOK
  <2>1. session \in [Channel -> 0 .. Sessions]
    BY SessionsAssumption DEF Init
  <2>2. poster \in [Poster -> PosterType] /\ notifier \in NotifierType
    BY RecordTypes DEF Init
  <2>3. received \in [Server -> Seq(Message)] /\ online \in [Channel -> BOOLEAN]
    BY DEF Init
  <2> QED
    BY <2>1, <2>2, <2>3 DEF Init, TypeOK
<1> USE SessionsAssumption, NullAssumption DEF Init, Resting, AtRest
<1>2. Threads
  BY DEF Threads, Poster
<1>3. Made /\ WrittenOnce /\ ReadOnce
  BY DEF Made, Begun, Written, WrittenOnce, ReadOnce
<1>4. SentOnce
  BY DEF SentOnce, IsInjective
<1>5. NotLost
  BY DEF NotLost
<1> QED
  BY <1>1, <1>2, <1>3, <1>4, <1>5 DEF IInv

(* A step that changes nothing.                                            *)
LEMMA Stutter == IInv /\ UNCHANGED vars => IInv'
BY DEF IInv, TypeOK, Threads, Made, Begun, Written, WrittenOnce, ReadOnce,
   SentOnce, NotLost, Alone,
       Waiting, vars
-----------------------------------------------------------------------------
(* Every step keeps the inductive invariant.                               *)
LEMMA IInvStep == IInv /\ [Next]_vars => IInv'
<1>1. ASSUME IInv, Next PROVE IInv'
  BY <1>1, TypeOKStep, ThreadsStep, MadeStep, WrittenOnceStep, ReadOnceStep,
     SentOnceStep,
     NotLostStep DEF IInv
<1> QED
  BY <1>1, Stutter

(* The inductive invariant holds in every reachable state.                 *)
LEMMA Invariance == Spec => []IInv
BY InitInv, IInvStep, PTL DEF Spec

(* The threads of do_channel_notify and the notify thread keep the types of*)
(* what they share.                                                        *)
THEOREM TypeCorrect == Spec => []TypeOK
<1>1. IInv => TypeOK
  BY DEF IInv
<1> QED
  BY <1>1, Invariance, PTL

(* do_notify_cb tells a server of a status once at most, and only of one   *)
(* that do_channel_notify has posted, although the callback frees and      *)
(* clears the data field while other threads overwrite it.                 *)
THEOREM EveryStatusToldOnce == Spec => []ToldOnce
<1>1. IInv => ToldOnce
  <2> SUFFICES ASSUME IInv, NEW s \in Server PROVE
         /\ IsInjective(received[s])
         /\ \A m \in ToSet(received[s]) : m \in posted \cup {poster[p].message : p \in Poster}
    BY DEF ToldOnce
  <2>1. IsInjective(received[s])
    BY DEF IInv, SentOnce
  <2>2. \A m \in ToSet(received[s]) : m \in taken
    BY DEF IInv, SentOnce, ToSet
  <2> QED
    BY <2>1, <2>2 DEF IInv, WrittenOnce
<1> QED
  BY <1>1, Invariance, PTL

(* A status that do_channel_notify logged as done is lost only when it was *)
(* posted over a callback that was queued or running, over another thread's*)
(* post, or before notify_server_entry had started the watcher.            *)
THEOREM LostOnlyByOverlap == Spec => []StatusLostOnlyByOverlap
<1>1. IInv => StatusLostOnlyByOverlap
  BY DEF IInv, NotLost, StatusLostOnlyByOverlap
<1> QED
  BY <1>1, Invariance, PTL

-----------------------------------------------------------------------------
(* Server s has got the message.                                           *)
Got(s, m) == \E i \in DOMAIN received[s] : received[s][i] = m

(* It has got it, is connected to for it, or is still to be connected to.  *)
Due(s, m) ==
  \/ Got(s, m)
  \/ <<s, m>> \in connected
  \/ notifier.pc = "connect" /\ notifier.message = m /\ s \in notifier.left

(* What the callback has read goes out to every server, unless a           *)
(* connection failed.                                                      *)
TakenGoesOut == complete => \A m \in taken, s \in Server : Due(s, m)

(* No step makes complete true again.                                      *)
LEMMA CompleteStep == ASSUME Next, complete' PROVE complete
<1> USE DEF callbackVars, history
<1>1. ASSUME NEW ch \in Channel, CameraOnline(ch) \/ CameraOffline(ch) \/ ReplyFails(ch)
      PROVE  complete
  BY <1>1, Zenon DEF CameraOnline, CameraOffline, ReplyFails
<1>2. ASSUME NEW p \in Poster, CheckPending(p) PROVE complete
  BY <1>2, Zenon DEF CheckPending
<1>3. ASSUME NEW p \in Poster, WriteData(p) \/ SendAsync(p) PROVE complete
  BY <1>3, Zenon DEF WriteData, SendAsync
<1>4. ASSUME \/ notify_server_entry \/ QueueCallback \/ ReadData \/ EndOfServers
             \/ ClearData
      PROVE  complete
  BY <1>4, Zenon DEF notify_server_entry, QueueCallback, ReadData, EndOfServers, ClearData
<1>5. ASSUME NEW s \in Server, ConnectServer(s) PROVE complete
  BY <1>5, Zenon DEF ConnectServer
<1>6. ASSUME NEW s \in Server, NEW m \in Message, do_notify_cb(s, m) PROVE complete
  BY <1>6, Zenon DEF do_notify_cb
<1> QED
  BY <1>1, <1>2, <1>3, <1>4, <1>5, <1>6 DEF Next, PosterStep, NotifierStep

(* What a server is due stays so, from step to step.                       *)
LEMMA DueStep ==
  ASSUME IInv, TakenGoesOut, Next, complete', NEW m \in taken', NEW s \in Server
  PROVE  Due(s, m)'
<1> USE DEF callbackVars, history
<1>0. \A k \in taken : Due(s, k)
  BY CompleteStep DEF TakenGoesOut
<1>1. ASSUME UNCHANGED <<taken, received, connected, notifier>> PROVE Due(s, m)'
  BY <1>0, <1>1 DEF Due, Got
<1>2. ASSUME NEW ch \in Channel, CameraOnline(ch) \/ CameraOffline(ch) \/ ReplyFails(ch)
      PROVE  Due(s, m)'
  <2>1. UNCHANGED <<taken, received, connected, notifier>>
    BY <1>2 DEF CameraOnline, CameraOffline, ReplyFails
  <2> QED
    BY <1>1, <2>1
<1>3. ASSUME NEW p \in Poster, PosterStep(p) PROVE Due(s, m)'
  <2>1. UNCHANGED <<taken, received, connected, notifier>>
    BY <1>3 DEF PosterStep, CheckPending, WriteData, SendAsync
  <2> QED
    BY <1>1, <2>1
<1>4. ASSUME notify_server_entry \/ QueueCallback PROVE Due(s, m)'
  <2>1. UNCHANGED <<taken, received, connected, notifier>>
    BY <1>4 DEF notify_server_entry, QueueCallback
  <2> QED
    BY <1>1, <2>1
<1>5. ASSUME ReadData PROVE Due(s, m)'
  <2>1. notifier.pc = "idle" /\ received' = received /\ connected' = connected
    BY <1>5 DEF ReadData, IInv, Threads, AtRest
  <2>2. CASE m \in taken
    BY <1>0, <2>1, <2>2 DEF Due, Got
  <2>3. CASE m \notin taken
    <3>1. data = m /\ notifier' = [pc |-> "connect", message |-> data, left |-> Server]
      BY <1>5, <2>3 DEF ReadData
    <3>2. notifier'.pc = "connect" /\ notifier'.message = m /\ s \in notifier'.left
      BY <3>1
    <3> QED
      BY <3>2 DEF Due
  <2> QED
    BY <2>2, <2>3
<1>6. ASSUME EndOfServers \/ ClearData PROVE Due(s, m)'
  <2>1. /\ taken' = taken /\ received' = received /\ connected' = connected
        /\ notifier.pc = "connect" => s \notin notifier.left
    BY <1>6 DEF EndOfServers, ClearData
  <2> QED
    BY <1>0, <2>1 DEF Due, Got
<1>7. ASSUME NEW t \in Server, ConnectServer(t) PROVE Due(s, m)'
  <2>1. /\ taken' = taken /\ received' = received
        /\ notifier'.pc = notifier.pc /\ notifier'.message = notifier.message
        /\ notifier'.left = notifier.left \ {t}
    BY <1>7 DEF ConnectServer, IInv, TypeOK, NotifierType
  <2>2. connected' = connected \cup {<<t, notifier.message>>}
    BY <1>7, Zenon DEF ConnectServer
  <2> QED
    BY <1>0, <2>1, <2>2 DEF Due, Got
<1>8. ASSUME NEW t \in Server, NEW k \in Message, do_notify_cb(t, k) PROVE Due(s, m)'
  <2>1. taken' = taken /\ notifier' = notifier /\ connected' = connected \ {<<t, k>>}
    BY <1>8, Zenon DEF do_notify_cb
  <2>2. received' = [received EXCEPT ![t] = Append(@, k)]
    BY <1>8, Zenon DEF do_notify_cb
  <2>3. received[t] \in Seq(Message) /\ received'[t] = Append(received[t], k)
    BY <2>2 DEF IInv, TypeOK
  <2>4. \A u \in Server \ {t} : received'[u] = received[u]
    BY <2>2 DEF IInv, TypeOK
  <2>5. /\ Len(received[t]) + 1 \in DOMAIN received'[t]
        /\ received'[t][Len(received[t]) + 1] = k
        /\ \A i \in DOMAIN received[t] :
             i \in DOMAIN received'[t] /\ received'[t][i] = received[t][i]
    BY <2>3
  <2>6. Got(t, k)'
    BY <2>5 DEF Got
  <2>7. Got(s, m) => Got(s, m)'
    BY <2>4, <2>5 DEF Got
  <2>8. <<s, m>> \in connected => <<s, m>> \in connected' \/ Got(s, m)'
    BY <2>1, <2>6
  <2> QED
    BY <1>0, <2>1, <2>7, <2>8 DEF Due
<1> QED
  BY <1>2, <1>3, <1>4, <1>5, <1>6, <1>7, <1>8 DEF Next, NotifierStep

(* Nothing is left to do for the notify thread.                            *)
Quiet == notifier.pc = "idle" /\ ~queued /\ ~sent /\ connected = {}

(* When the notify thread has come to rest without an overlap, a refused   *)
(* post or a failed connection, every server has every status whose post   *)
(* was logged: nothing is forgotten half-way.  The safety half of AllTold. *)
QuietMeansTold ==
  Quiet /\ complete /\ ~overlapped => \A m \in posted \ early, s \in Server : Got(s, m)

(* read_channel_status_cb and do_notify_cb come to rest only when every    *)
(* server has every status that do_channel_notify logged as posted.        *)
THEOREM RestMeansTold == Spec => []QuietMeansTold
<1>1. Init => TakenGoesOut
  BY DEF Init, TakenGoesOut
<1>2. IInv /\ TakenGoesOut /\ [Next]_vars => TakenGoesOut'
  <2>1. ASSUME TakenGoesOut, UNCHANGED vars PROVE TakenGoesOut'
    <3>1. UNCHANGED <<taken, complete>> /\ UNCHANGED <<received, connected, notifier>>
      BY <2>1 DEF vars
    <3>2. \A s, m : Due(s, m) => Due(s, m)'
      BY <3>1 DEF Due, Got
    <3> QED
      BY <2>1, <3>1, <3>2, Zenon DEF TakenGoesOut
  <2>2. IInv /\ TakenGoesOut /\ Next => TakenGoesOut'
    BY DueStep DEF TakenGoesOut
  <2> QED
    BY <2>1, <2>2
<1>3. IInv /\ TakenGoesOut => QuietMeansTold
  <2> SUFFICES ASSUME IInv, TakenGoesOut, Quiet, complete, ~overlapped,
                      NEW m \in posted \ early, NEW s \in Server
               PROVE  Got(s, m)
    BY DEF QuietMeansTold
  <2>1. m \in taken
    BY DEF IInv, NotLost, Waiting, Quiet
  <2>2. Due(s, m)
    BY <2>1 DEF TakenGoesOut
  <2> QED
    BY <2>2 DEF Due, Quiet
<1> QED
  BY <1>1, <1>2, <1>3, Invariance, PTL DEF Spec
=============================================================================
