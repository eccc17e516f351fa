-------------------------- MODULE SocketTableProofs --------------------------
(***************************************************************************)
(* Who owns a descriptor of the streamer, for every number of descriptors, *)
(* clients and channels.  Until the first double close every number that   *)
(* a thread may use or close is owned by one table entry only, and means   *)
(* the connection that entry was made for.                                 *)
(***************************************************************************)
EXTENDS SocketTable, FiniteSetTheorems, WellFoundedInduction, TLAPS

(* What the worker does with a channel goes with the state of its entry.   *)
Phases ==
  /\ main.pc = "idle" => main = Idle
  /\ main.pc # "idle" => /\ main.fd \in Fd /\ main.client \in Client
                         /\ main.channel \in Channel
  /\ \A ch \in Channel :
       /\ camera[ch].phase = "none" => camera[ch] = NoCamera
       /\ camera[ch].phase # "none" => camera[ch].fd \in Fd /\ camera[ch].client \in Client
       /\ camera[ch].phase = "freed" <=> worker[ch].pc = "drop"
       /\ worker[ch].pc \in {"erase", "loop", "camera", "free"}
            => camera[ch].phase = "streaming"
       /\ camera[ch].phase \in {"none", "freed"} => pool[ch] = NoViewers
       /\ worker[ch].pc = "erase"
            => worker[ch].at \in Fd /\ pool[ch][worker[ch].at] # NONE

(* Connection c is open under number f or not at all.                      *)
Home(f, c) == \A g \in Fd : sock[g] = c => g = f

(* A connection is accepted once, and every entry that ever names it, also *)
(* one that is stale, names it with the number it was given then.          *)
Homes ==
  /\ \A f \in Fd : sock[f] # NONE => Home(f, sock[f]) /\ sock[f] \notin fresh
  /\ \A p \in watchers : Home(p[1], p[2]) /\ p[2] \notin fresh
  /\ \A p \in served : p[2] \notin fresh
  /\ main.pc # "idle" => Home(main.fd, main.client) /\ main.client \notin fresh
  /\ \A ch \in Channel :
       /\ camera[ch].phase # "none" =>
            Home(camera[ch].fd, camera[ch].client) /\ camera[ch].client \notin fresh
       /\ \A f \in Fd : pool[ch][f] # NONE =>
            Home(f, pool[ch][f]) /\ pool[ch][f] \notin fresh

-----------------------------------------------------------------------------
(* The tables through which a thread may still use or close a number.      *)
Held(f)          == \E p \in watchers : p[1] = f
MainHolds        == main.pc \in {"limit", "insert"}
CameraHolds(ch)  == camera[ch].phase \in {"waiting", "streaming"} /\ worker[ch].pc # "free"

(* What they say is true ...                                               *)
Valid ==
  /\ \A p \in watchers : sock[p[1]] = p[2]
  /\ \A p \in served : sock[p[1]] = p[2]
  /\ MainHolds => sock[main.fd] = main.client
  /\ \A ch \in Channel :
       /\ CameraHolds(ch) => sock[camera[ch].fd] = camera[ch].client
       /\ \A f \in Fd : Entry(ch, f) => sock[f] = pool[ch][f]

(* ... and no number is in two of them.                                    *)
Apart ==
  /\ MainHolds => ~Held(main.fd)
  /\ \A ch \in Channel :
       /\ CameraHolds(ch) => /\ ~Held(camera[ch].fd)
                             /\ MainHolds => main.fd # camera[ch].fd
       /\ \A f \in Fd : Entry(ch, f) => ~Held(f) /\ (MainHolds => main.fd # f)
       /\ \A d \in Channel :
            /\ CameraHolds(ch) /\ CameraHolds(d) /\ camera[ch].fd = camera[d].fd => ch = d
            /\ CameraHolds(ch) => ~Entry(d, camera[ch].fd)
            /\ \A f \in Fd : Entry(ch, f) /\ Entry(d, f) => ch = d

Owned == ~doubled => Valid /\ Apart

-----------------------------------------------------------------------------
(* An entry that is about to be erased is of a connection that is closed,  *)
(* or whose cause is on record.                                            *)
Settled(c) == Open(c) => cause[c] # "none"

Known(c) ==
  \/ \E f \in Fd : <<f, c>> \in watchers
  \/ main.client = c
  \/ \E ch \in Channel : \/ camera[ch].client = c
                         \/ \E f \in Fd : pool[ch][f] = c

AgainClosed == main.pc = "again" => ~Open(main.client)
ErasedClosed ==
  \A ch \in Channel : worker[ch].pc = "erase" => ~Open(pool[ch][worker[ch].at])
LoopSettled ==
  \A ch \in Channel : worker[ch].pc \in {"loop", "camera", "free"} =>
    \A f \in Fd : pool[ch][f] # NONE =>
      \/ Settled(pool[ch][f])
      \/ worker[ch].pc = "loop" /\ f \in Ahead(ch)
CameraSettled ==
  \A ch \in Channel : worker[ch].pc \in {"free", "drop"} => Settled(camera[ch].client)

Explained == /\ \A c \in Client : Settled(c) \/ Known(c)
             /\ AgainClosed /\ ErasedClosed /\ LoopSettled /\ CameraSettled

(* The check of the limit is still valid at the insertion, as only the     *)
(* main thread inserts.                                                    *)
Counted ==
  /\ main.pc = "insert" => Size(main.channel) <= VIEWERS_LIMIT
  /\ ViewersBounded

IInv == /\ TypeOK /\ Phases /\ Homes /\ Owned /\ WrongCloseOnlyAfterDouble
        /\ (~undefined => Explained) /\ Counted

-----------------------------------------------------------------------------
(* The fields of the records have their types, and a step to another pc or *)
(* phase keeps them.                                                       *)
LEMMA RecordTypes ==
  /\ Idle \in MainType
  /\ NoCamera \in CameraType
  /\ NoViewers \in [Fd -> Client \cup {NONE}]
  /\ \A pc \in {"idle", "again", "limit", "insert"}, f \in Fd, c \in Client, ch \in Channel :
       [pc |-> pc, fd |-> f, client |-> c, channel |-> ch] \in MainType
  /\ \A m \in MainType : [m EXCEPT !.pc = "insert"] \in MainType
  /\ \A r \in CameraType : \A p \in {"waiting", "streaming", "freed"} :
       [r EXCEPT !.phase = p] \in CameraType
  /\ \A f \in Fd, c \in Client :
       [phase |-> "waiting", fd |-> f, client |-> c] \in CameraType
  /\ \A pc \in {"idle", "erase", "loop", "camera", "free", "drop"}, at \in Fd \cup {NONE} :
       [pc |-> pc, at |-> at] \in WorkerType
BY DEF Idle, NoCamera, NoViewers, MainType, CameraType, WorkerType

(* The loop of delete_camera goes on with the least descriptor ahead ...   *)
LEMMA LeastAhead ==
  ASSUME NEW S \in SUBSET Fd, S # {}
  PROVE  Min(S) \in S /\ \A g \in S : Min(S) <= g
<1> DEFINE R == OpToRel(<, Nat)
<1>1. S \subseteq Nat
  BY FdAssumption
<1>2. PICK f \in S : \A g \in S : <<g, f>> \notin R
  <2> HIDE DEF R
  <2>1. IsWellFoundedOn(R, Nat)
    BY NatLessThanWellFounded DEF R
  <2> QED
    BY <1>1, <2>1, WFMin
<1>3. \A g \in S : ~(g < f)
  BY <1>1, <1>2 DEF OpToRel
<1>4. \A g \in S : f <= g
  BY <1>1, <1>3
<1> QED
  BY <1>1, <1>4 DEF Min

(* ... which leaves the others ahead of it.                                *)
LEMMA AheadShrinks ==
  ASSUME TypeOK, NEW ch \in Channel, CloseNext(ch)
  PROVE  /\ Min(Ahead(ch)) \in Ahead(ch)
         /\ Ahead(ch)' = Ahead(ch) \ {Min(Ahead(ch))}
<1> DEFINE f == Min(Ahead(ch))
<1>1. f \in Ahead(ch) /\ \A g \in Ahead(ch) : f <= g
  <2>1. Ahead(ch) \subseteq Fd /\ Ahead(ch) # {}
    BY DEF Ahead, CloseNext
  <2> QED
    BY <2>1, LeastAhead
<1>2. worker' = [worker EXCEPT ![ch] = [pc |-> "loop", at |-> f]] /\ pool' = pool
  BY DEF CloseNext, Worker
<1> HIDE DEF f
<1>3. f \in Nat /\ f # NONE /\ (worker[ch].at = NONE \/ worker[ch].at < f)
  BY <1>1, FdAssumption, NoneAssumption DEF Ahead
<1>4. worker[ch].at \in Nat \cup {NONE}
  BY FdAssumption DEF TypeOK, WorkerType
<1>5. worker'[ch].at = f
  BY <1>2 DEF TypeOK
<1>6. Ahead(ch)' = {g \in Fd : pool[ch][g] # NONE /\ f < g}
  BY <1>2, <1>3, <1>5 DEF Ahead
<1>7. ASSUME NEW g \in Fd PROVE g \in Ahead(ch)' <=> g \in Ahead(ch) /\ g # f
  <2>1. g \in Nat
    BY FdAssumption
  <2>2. g \in Ahead(ch)' <=> pool[ch][g] # NONE /\ f < g
    BY <1>6
  <2>3. CASE worker[ch].at = NONE
    BY <1>1, <1>3, <2>1, <2>2, <2>3 DEF Ahead
  <2>4. CASE worker[ch].at # NONE
    BY <1>1, <1>3, <1>4, <2>1, <2>2, <2>4 DEF Ahead
  <2> QED
    BY <2>3, <2>4
<1>8. Ahead(ch) \subseteq Fd /\ Ahead(ch)' \subseteq Fd
  BY DEF Ahead
<1>9. Ahead(ch)' = Ahead(ch) \ {f}
  BY <1>7, <1>8
<1> QED
  BY <1>1, <1>9 DEF f

(* Which action writes which variable.                                     *)
LEMMA WhoWrites ==
  ASSUME Next
  PROVE  /\ \/ watchers' = watchers
            \/ \E c \in Client, f \in Fd :
                \/ accept_cb(c, f) \/ RefuseRequest(f, c) \/ MalformedRequest(f, c)
            \/ \E c \in Client, f \in Fd, ch \in Channel :
                \/ CameraRequest(f, c, ch) \/ FindChannel(f, c, ch)
         /\ \/ main' = main
            \/ CloseAgain \/ CheckLimit \/ InsertViewer
            \/ \E c \in Client, f \in Fd, ch \in Channel :
                \/ CameraRequest(f, c, ch) \/ FindChannel(f, c, ch)
         /\ \/ camera' = camera
            \/ \E c \in Client, f \in Fd, ch \in Channel : CameraRequest(f, c, ch)
            \/ \E ch \in Channel :
                \/ StartCamera(ch) \/ ReplyFails(ch) \/ FreeCamera(ch) \/ EraseChannel(ch)
         /\ \/ pool' = pool
            \/ InsertViewer
            \/ \E c \in Client, f \in Fd, ch \in Channel : CameraRequest(f, c, ch)
            \/ \E ch \in Channel :
                \/ ReplyFails(ch) \/ EraseViewer(ch) \/ ClearPool(ch) \/ FreeCamera(ch)
         /\ \/ worker' = worker
            \/ \E ch \in Channel, f \in Fd : CloseViewer(ch, f)
            \/ \E ch \in Channel :
                \/ ReplyFails(ch) \/ EraseViewer(ch) \/ DeleteCamera(ch) \/ CloseNext(ch)
                \/ ClearPool(ch) \/ CloseCamera(ch) \/ FreeCamera(ch) \/ EraseChannel(ch)
         /\ \/ cause' = cause
            \/ InsertViewer
            \/ \E c \in Client, f \in Fd : MalformedRequest(f, c)
            \/ \E ch \in Channel : ReplyFails(ch)
<1> USE DEF Next, MainStep, StateStep, WorkerStep, mainVars, workerVars, history, Worker,
         accept_cb, RefuseRequest, MalformedRequest, CameraRequest, FindChannel,
         CloseAgain, CheckLimit, InsertViewer, UseDeleted, StartCamera,
         ReplyFails, CloseViewer, EraseViewer, DeleteCamera, CloseNext, ClearPool,
         CloseCamera, FreeCamera, EraseChannel, accept_request_cb,
         send_system_info_cb
<1>1. \/ watchers' = watchers
      \/ \E c \in Client, f \in Fd :
          \/ accept_cb(c, f) \/ RefuseRequest(f, c) \/ MalformedRequest(f, c)
      \/ \E c \in Client, f \in Fd, ch \in Channel :
          \/ CameraRequest(f, c, ch) \/ FindChannel(f, c, ch)
  OBVIOUS
<1>2. \/ main' = main
      \/ CloseAgain \/ CheckLimit \/ InsertViewer
      \/ \E c \in Client, f \in Fd, ch \in Channel :
          \/ CameraRequest(f, c, ch) \/ FindChannel(f, c, ch)
  OBVIOUS
<1>3. \/ camera' = camera
      \/ \E c \in Client, f \in Fd, ch \in Channel : CameraRequest(f, c, ch)
      \/ \E ch \in Channel :
          \/ StartCamera(ch) \/ ReplyFails(ch) \/ FreeCamera(ch) \/ EraseChannel(ch)
  <2>1. CASE MainStep
    BY <2>1
  <2>2. CASE StateStep
    BY <2>2
  <2>3. CASE \E ch \in Channel : WorkerStep(ch)
    BY <2>3
  <2> QED
    BY <2>1, <2>2, <2>3
<1>4. \/ pool' = pool
      \/ InsertViewer
      \/ \E c \in Client, f \in Fd, ch \in Channel : CameraRequest(f, c, ch)
      \/ \E ch \in Channel :
          \/ ReplyFails(ch) \/ EraseViewer(ch) \/ ClearPool(ch) \/ FreeCamera(ch)
  <2>1. CASE MainStep
    <3>1. CASE CloseAgain \/ CheckLimit \/ UseDeleted
      BY <3>1
    <3>2. CASE InsertViewer
      BY <3>2
    <3>3. CASE \E c \in Client, f \in Fd :
                 accept_cb(c, f) \/ RefuseRequest(f, c) \/ MalformedRequest(f, c)
      BY <3>3
    <3>4. CASE \E c \in Client, f \in Fd, ch \in Channel : CameraRequest(f, c, ch)
      BY <3>4
    <3>5. CASE \E c \in Client, f \in Fd, ch \in Channel : FindChannel(f, c, ch)
      BY <3>5
    <3> HIDE DEF accept_cb, RefuseRequest, MalformedRequest, CameraRequest, FindChannel,
                 CloseAgain, CheckLimit, InsertViewer, UseDeleted, StartCamera, ReplyFails,
                 CloseViewer, EraseViewer, DeleteCamera, CloseNext, ClearPool,
                 CloseCamera, FreeCamera, EraseChannel
    <3> QED
      BY <2>1, <3>1, <3>2, <3>3, <3>4, <3>5
  <2>2. CASE StateStep
    BY <2>2
  <2>3. CASE \E ch \in Channel : WorkerStep(ch)
    BY <2>3
  <2> QED
    BY <2>1, <2>2, <2>3
<1>5. \/ worker' = worker
      \/ \E ch \in Channel, f \in Fd : CloseViewer(ch, f)
      \/ \E ch \in Channel :
          \/ ReplyFails(ch) \/ EraseViewer(ch) \/ DeleteCamera(ch) \/ CloseNext(ch)
          \/ ClearPool(ch) \/ CloseCamera(ch) \/ FreeCamera(ch) \/ EraseChannel(ch)
  <2>1. MainStep \/ StateStep => worker' = worker
    <3>1. CloseAgain \/ CheckLimit \/ InsertViewer \/ UseDeleted => worker' = worker
      OBVIOUS
    <3>2. \A c \in Client, f \in Fd :
            accept_cb(c, f) \/ RefuseRequest(f, c) \/ MalformedRequest(f, c)
              => worker' = worker
      OBVIOUS
    <3>3. \A c \in Client, f \in Fd, ch \in Channel :
            CameraRequest(f, c, ch) \/ FindChannel(f, c, ch) => worker' = worker
      OBVIOUS
    <3>4. StateStep => worker' = worker
      OBVIOUS
    <3> HIDE DEF accept_cb, RefuseRequest, MalformedRequest, CameraRequest, FindChannel,
                 CloseAgain, CheckLimit, InsertViewer, UseDeleted, StateStep
    <3> QED
      BY <3>1, <3>2, <3>3, <3>4
  <2>2. \A ch \in Channel : StartCamera(ch) => worker' = worker
    OBVIOUS
  <2> HIDE DEF accept_cb, RefuseRequest, MalformedRequest, CameraRequest, FindChannel,
               CloseAgain, CheckLimit, InsertViewer, UseDeleted, StartCamera, ReplyFails,
               CloseViewer, EraseViewer, DeleteCamera, CloseNext, ClearPool,
               CloseCamera, FreeCamera, EraseChannel
  <2>3. ASSUME NEW ch \in Channel, WorkerStep(ch), worker' # worker
        PROVE  \/ \E f \in Fd : CloseViewer(ch, f)
               \/ ReplyFails(ch) \/ EraseViewer(ch) \/ DeleteCamera(ch) \/ CloseNext(ch)
               \/ ClearPool(ch) \/ CloseCamera(ch) \/ FreeCamera(ch) \/ EraseChannel(ch)
    BY <2>2, <2>3
  <2> HIDE DEF MainStep, StateStep, WorkerStep
  <2> QED
    BY <2>1, <2>3
<1>6. \/ cause' = cause
      \/ InsertViewer
      \/ \E c \in Client, f \in Fd : MalformedRequest(f, c)
      \/ \E ch \in Channel : ReplyFails(ch)
  BY ZenonT(30)
<1> QED
  BY <1>1, <1>2, <1>3, <1>4, <1>5, <1>6

-----------------------------------------------------------------------------
(* Types, phases and homes, one step per action.                           *)
LEMMA TypeOKStep == ASSUME IInv, Next PROVE TypeOK'
<1> USE RecordTypes, NoneAssumption DEF IInv, TypeOK, Phases, close, accept, Receive,
         Worker, mainVars, workerVars, history
<1>1. ASSUME NEW c \in Client, NEW f \in Fd, accept_cb(c, f) PROVE TypeOK'
  BY <1>1 DEF accept_cb
<1>2. ASSUME NEW c \in Client, NEW f \in Fd, RefuseRequest(f, c) PROVE TypeOK'
  BY <1>2 DEF RefuseRequest
<1>3. ASSUME NEW c \in Client, NEW f \in Fd, MalformedRequest(f, c) PROVE TypeOK'
  BY <1>3 DEF MalformedRequest
<1>4. ASSUME NEW c \in Client, NEW f \in Fd, NEW ch \in Channel, CameraRequest(f, c, ch)
      PROVE  TypeOK'
  <2>1. undefined' \in BOOLEAN
    BY <1>4 DEF CameraRequest, ListUndefined
  <2>2. sock' \in [Fd -> Client \cup Asker \cup {NONE}] /\ wrong' \subseteq Client \cup Asker
    BY <1>4 DEF CameraRequest
  <2>3. main' \in MainType
    BY <1>4 DEF CameraRequest
  <2>4. camera' \in [Channel -> CameraType]
    <3>1. [phase |-> "waiting", fd |-> f, client |-> c] \in CameraType
      BY RecordTypes
    <3>2. \/ camera' = camera
          \/ camera' = [camera EXCEPT ![ch] = [phase |-> "waiting", fd |-> f, client |-> c]]
      BY <1>4 DEF CameraRequest
    <3> QED
      BY <3>1, <3>2
  <2>5. pool' \in [Channel -> [Fd -> Client \cup {NONE}]] /\ worker' \in [Channel -> WorkerType]
    BY <1>4 DEF CameraRequest
  <2> QED
    BY <1>4, <2>1, <2>2, <2>3, <2>4, <2>5 DEF CameraRequest
<1>5. ASSUME NEW c \in Client, NEW f \in Fd, NEW ch \in Channel, FindChannel(f, c, ch)
      PROVE  TypeOK'
  <2>1. sock' \in [Fd -> Client \cup Asker \cup {NONE}] /\ wrong' \subseteq Client \cup Asker
    <3>1. \/ close(f, c)
          \/ UNCHANGED <<sock, wrong>>
      BY <1>5 DEF FindChannel
    <3> QED
      BY <3>1
  <2>2. main' \in MainType
    BY <1>5 DEF FindChannel
  <2> QED
    BY <1>5, <2>1, <2>2 DEF FindChannel
<1>6. ASSUME CloseAgain PROVE TypeOK'
  BY <1>6 DEF CloseAgain
<1>7. ASSUME CheckLimit PROVE TypeOK'
  BY <1>7, SMTT(30) DEF CheckLimit
<1>8. ASSUME InsertViewer PROVE TypeOK'
  <2>1. main.fd \in Fd /\ main.client \in Client /\ main.channel \in Channel
    BY <1>8 DEF InsertViewer
  <2>2. sock' \in [Fd -> Client \cup Asker \cup {NONE}] /\ wrong' \subseteq Client \cup Asker
    BY <1>8, <2>1 DEF InsertViewer
  <2>3. pool' \in [Channel -> [Fd -> Client \cup {NONE}]]
    <3> DEFINE P == [pool[main.channel] EXCEPT ![main.fd] = main.client]
    <3>1. P \in [Fd -> Client \cup {NONE}]
      BY <2>1
    <3>2. pool' = pool \/ pool' = [pool EXCEPT ![main.channel] = P]
      BY <1>8 DEF InsertViewer
    <3> QED
      BY <2>1, <3>1, <3>2
  <2>4. cause' \in [Client -> {"none", "malformed", "overlap", "reply"}]
    BY <1>8, <2>1 DEF InsertViewer
  <2> QED
    BY <1>8, <2>2, <2>3, <2>4 DEF InsertViewer
<1>9. ASSUME UseDeleted PROVE TypeOK'
  BY <1>9 DEF UseDeleted
<1>10. ASSUME NEW ch \in Channel, StartCamera(ch) PROVE TypeOK'
  BY <1>10 DEF StartCamera
<1>11. ASSUME NEW ch \in Channel, ReplyFails(ch) PROVE TypeOK'
  BY <1>11 DEF ReplyFails
<1>12. ASSUME NEW f \in Fd, NEW ch \in Channel, CloseViewer(ch, f) PROVE TypeOK'
  BY <1>12 DEF CloseViewer
<1>13. ASSUME NEW ch \in Channel, EraseViewer(ch) PROVE TypeOK'
  BY <1>13 DEF EraseViewer
<1>14. ASSUME NEW ch \in Channel, DeleteCamera(ch) PROVE TypeOK'
  BY <1>14 DEF DeleteCamera
<1>15. ASSUME NEW ch \in Channel, CloseNext(ch) PROVE TypeOK'
  <2> DEFINE f == Min(Ahead(ch))
  <2>1. f \in Fd /\ pool[ch][f] # NONE
    BY <1>15, LeastAhead DEF CloseNext, Ahead
  <2> QED
    BY <1>15, <2>1 DEF CloseNext
<1>16. ASSUME NEW ch \in Channel, ClearPool(ch) PROVE TypeOK'
  BY <1>16 DEF ClearPool
<1>17. ASSUME NEW ch \in Channel, CloseCamera(ch) PROVE TypeOK'
  BY <1>17 DEF CloseCamera
<1>18. ASSUME NEW ch \in Channel, FreeCamera(ch) PROVE TypeOK'
  BY <1>18 DEF FreeCamera
<1>19. ASSUME NEW ch \in Channel, EraseChannel(ch) PROVE TypeOK'
  BY <1>19 DEF EraseChannel
<1>20. ASSUME NEW a \in Asker, NEW f \in Fd, accept_request_cb(a, f) PROVE TypeOK'
  BY <1>20 DEF accept_request_cb
<1>21. ASSUME NEW a \in Asker, NEW f \in Fd, send_system_info_cb(f, a) PROVE TypeOK'
  BY <1>21 DEF send_system_info_cb
<1> QED
  BY <1>1, <1>2, <1>3, <1>4, <1>5, <1>6, <1>7, <1>8, <1>9, <1>10, <1>11, <1>12,
     <1>13, <1>14, <1>15, <1>16, <1>17, <1>18, <1>19, <1>20, <1>21
  DEF Next, MainStep, StateStep, WorkerStep

LEMMA PhasesStep == ASSUME IInv, Next PROVE Phases'
<1> USE NoneAssumption DEF IInv, TypeOK, Phases, Idle, NoCamera, NoViewers, MainType,
         CameraType, WorkerType, close, accept, Receive, Worker, mainVars,
         workerVars, history
<1>1. ASSUME NEW c \in Client, NEW f \in Fd, accept_cb(c, f) PROVE Phases'
  BY <1>1 DEF accept_cb
<1>2. ASSUME NEW c \in Client, NEW f \in Fd, RefuseRequest(f, c) PROVE Phases'
  BY <1>2 DEF RefuseRequest
<1>3. ASSUME NEW c \in Client, NEW f \in Fd, MalformedRequest(f, c) PROVE Phases'
  BY <1>3 DEF MalformedRequest
<1>4. ASSUME NEW c \in Client, NEW f \in Fd, NEW ch \in Channel, CameraRequest(f, c, ch)
      PROVE  Phases'
  <2>1. CASE ListUndefined
    BY <1>4, <2>1 DEF CameraRequest
  <2>2. CASE ~ListUndefined /\ camera[ch].phase # "none"
    BY <1>4, <2>2 DEF CameraRequest
  <2>3. CASE ~ListUndefined /\ camera[ch].phase = "none"
    <3>1. /\ camera' = [camera EXCEPT ![ch] = [phase |-> "waiting", fd |-> f, client |-> c]]
          /\ pool' = [pool EXCEPT ![ch] = NoViewers]
          /\ UNCHANGED <<main, worker>>
      BY <1>4, <2>3 DEF CameraRequest
    <3>2. worker[ch].pc = "idle"
      BY <2>3
    <3> QED
      BY <2>3, <3>1, <3>2
  <2> QED
    BY <2>1, <2>2, <2>3
<1>5. ASSUME NEW c \in Client, NEW f \in Fd, NEW ch \in Channel, FindChannel(f, c, ch)
      PROVE  Phases'
  BY <1>5 DEF FindChannel
<1>6. ASSUME CloseAgain PROVE Phases'
  BY <1>6 DEF CloseAgain
<1>7. ASSUME CheckLimit PROVE Phases'
  <2>1. CASE main' = Idle
    BY <1>7, <2>1 DEF CheckLimit
  <2>2. CASE /\ main' = [main EXCEPT !.pc = "insert"]
             /\ UNCHANGED <<sock, wrong>>
    BY <1>7, <2>2 DEF CheckLimit
  <2> QED
    BY <1>7, <2>1, <2>2 DEF CheckLimit
<1>8. ASSUME InsertViewer PROVE Phases'
  <2>1. main.fd \in Fd /\ main.client \in Client /\ main.channel \in Channel
    BY <1>8 DEF InsertViewer
  <2>2. main' = Idle /\ UNCHANGED <<camera, worker>>
    BY <1>8 DEF InsertViewer
  <2>3. CASE pool[main.channel][main.fd] = NONE
    <3>1. pool' = [pool EXCEPT ![main.channel][main.fd] = main.client]
      BY <1>8, <2>3 DEF InsertViewer
    <3>2. camera[main.channel].phase \notin {"none", "freed"}
      BY <1>8 DEF InsertViewer, Alive
    <3>3. main.client # NONE
      BY <2>1
    <3> QED
      BY <2>1, <2>2, <3>1, <3>2, <3>3
  <2>4. CASE pool[main.channel][main.fd] # NONE
    BY <1>8, <2>2, <2>4 DEF InsertViewer
  <2> QED
    BY <2>3, <2>4
<1>9. ASSUME UseDeleted PROVE Phases'
  BY <1>9 DEF UseDeleted
<1>10. ASSUME NEW ch \in Channel, StartCamera(ch) PROVE Phases'
  BY <1>10 DEF StartCamera
<1>11. ASSUME NEW ch \in Channel, ReplyFails(ch) PROVE Phases'
  BY <1>11 DEF ReplyFails
<1>12. ASSUME NEW f \in Fd, NEW ch \in Channel, CloseViewer(ch, f) PROVE Phases'
  BY <1>12 DEF CloseViewer
<1>13. ASSUME NEW ch \in Channel, EraseViewer(ch) PROVE Phases'
  BY <1>13 DEF EraseViewer
<1>14. ASSUME NEW ch \in Channel, DeleteCamera(ch) PROVE Phases'
  BY <1>14 DEF DeleteCamera
<1>15. ASSUME NEW ch \in Channel, CloseNext(ch) PROVE Phases'
  BY <1>15 DEF CloseNext
<1>16. ASSUME NEW ch \in Channel, ClearPool(ch) PROVE Phases'
  BY <1>16 DEF ClearPool
<1>17. ASSUME NEW ch \in Channel, CloseCamera(ch) PROVE Phases'
  BY <1>17 DEF CloseCamera
<1>18. ASSUME NEW ch \in Channel, FreeCamera(ch) PROVE Phases'
  BY <1>18 DEF FreeCamera
<1>19. ASSUME NEW ch \in Channel, EraseChannel(ch) PROVE Phases'
  BY <1>19 DEF EraseChannel
<1>20. ASSUME NEW a \in Asker, NEW f \in Fd, accept_request_cb(a, f) PROVE Phases'
  BY <1>20 DEF accept_request_cb
<1>21. ASSUME NEW a \in Asker, NEW f \in Fd, send_system_info_cb(f, a) PROVE Phases'
  BY <1>21 DEF send_system_info_cb
<1> QED
  BY <1>1, <1>2, <1>3, <1>4, <1>5, <1>6, <1>7, <1>8, <1>9, <1>10, <1>11, <1>12,
     <1>13, <1>14, <1>15, <1>16, <1>17, <1>18, <1>19, <1>20, <1>21
  DEF Next, MainStep, StateStep, WorkerStep

(* A connection is never open under two numbers: accept takes a free number*)
(* for a fresh connection, every other step only closes.                   *)
LEMMA HomesStep == ASSUME IInv, Next PROVE Homes'
<1> USE NoneAssumption, PortsAssumption DEF IInv, TypeOK, Phases, Homes, Home, Idle,
         NoCamera, NoViewers, MainType, CameraType, WorkerType, close, accept,
         Receive, Worker, mainVars, workerVars, history
<1>1. ASSUME NEW c \in Client, NEW f \in Fd, accept_cb(c, f) PROVE Homes'
  BY <1>1 DEF accept_cb
<1>2. ASSUME NEW c \in Client, NEW f \in Fd, RefuseRequest(f, c) PROVE Homes'
  BY <1>2 DEF RefuseRequest
<1>3. ASSUME NEW c \in Client, NEW f \in Fd, MalformedRequest(f, c) PROVE Homes'
  BY <1>3 DEF MalformedRequest
<1>4. ASSUME NEW c \in Client, NEW f \in Fd, NEW ch \in Channel, CameraRequest(f, c, ch)
      PROVE  Homes'
  <2>1. CASE ListUndefined
    BY <1>4, <2>1 DEF CameraRequest
  <2>2. CASE ~ListUndefined /\ camera[ch].phase # "none"
    <3>1. /\ sock' = [sock EXCEPT ![f] = NONE]
          /\ main' = [pc |-> "again", fd |-> f, client |-> c, channel |-> ch]
          /\ watchers' = watchers \ {<<f, c>>} /\ <<f, c>> \in watchers
          /\ UNCHANGED <<camera, pool, fresh, served>>
      BY <1>4, <2>2 DEF CameraRequest
    <3> QED
      BY <3>1
  <2>3. CASE ~ListUndefined /\ camera[ch].phase = "none"
    <3>1. /\ camera' = [camera EXCEPT ![ch] = [phase |-> "waiting", fd |-> f, client |-> c]]
          /\ pool' = [pool EXCEPT ![ch] = NoViewers]
          /\ watchers' = watchers \ {<<f, c>>} /\ <<f, c>> \in watchers
          /\ UNCHANGED <<main, sock, fresh, served>>
      BY <1>4, <2>3 DEF CameraRequest
    <3> QED
      BY <3>1
  <2> QED
    BY <2>1, <2>2, <2>3
<1>5. ASSUME NEW c \in Client, NEW f \in Fd, NEW ch \in Channel, FindChannel(f, c, ch)
      PROVE  Homes'
  <2>1. CASE camera[ch].phase = "none"
    BY <1>5, <2>1 DEF FindChannel
  <2>2. CASE camera[ch].phase # "none"
    BY <1>5, <2>2 DEF FindChannel
  <2> QED
    BY <2>1, <2>2
<1>6. ASSUME CloseAgain PROVE Homes'
  BY <1>6 DEF CloseAgain
<1>7. ASSUME CheckLimit PROVE Homes'
  <2>1. CASE main' = Idle
    BY <1>7, <2>1 DEF CheckLimit
  <2>2. CASE /\ main' = [main EXCEPT !.pc = "insert"]
             /\ UNCHANGED <<sock, wrong>>
    BY <1>7, <2>2 DEF CheckLimit
  <2> QED
    BY <1>7, <2>1, <2>2 DEF CheckLimit
<1>8. ASSUME InsertViewer PROVE Homes'
  <2>1. main.fd \in Fd /\ main.client \in Client /\ main.channel \in Channel
    BY <1>8 DEF InsertViewer
  <2>2. main' = Idle /\ UNCHANGED <<camera, watchers, fresh, served>>
    BY <1>8 DEF InsertViewer
  <2>3. CASE pool[main.channel][main.fd] = NONE
    <3>1. pool' = [pool EXCEPT ![main.channel][main.fd] = main.client] /\ sock' = sock
      BY <1>8, <2>3 DEF InsertViewer
    <3>2. Home(main.fd, main.client) /\ main.client \notin fresh
      BY <1>8 DEF InsertViewer
    <3> QED
      BY <2>1, <2>2, <3>1, <3>2
  <2>4. CASE pool[main.channel][main.fd] # NONE
    <3>1. pool' = pool /\ sock' = [sock EXCEPT ![main.fd] = NONE]
      BY <1>8, <2>4 DEF InsertViewer
    <3> QED
      BY <2>1, <2>2, <3>1
  <2> QED
    BY <2>3, <2>4
<1>9. ASSUME UseDeleted PROVE Homes'
  BY <1>9 DEF UseDeleted
<1>10. ASSUME NEW ch \in Channel, StartCamera(ch) PROVE Homes'
  BY <1>10 DEF StartCamera
<1>11. ASSUME NEW ch \in Channel, ReplyFails(ch) PROVE Homes'
  BY <1>11 DEF ReplyFails
<1>12. ASSUME NEW f \in Fd, NEW ch \in Channel, CloseViewer(ch, f) PROVE Homes'
  BY <1>12 DEF CloseViewer
<1>13. ASSUME NEW ch \in Channel, EraseViewer(ch) PROVE Homes'
  BY <1>13 DEF EraseViewer
<1>14. ASSUME NEW ch \in Channel, DeleteCamera(ch) PROVE Homes'
  BY <1>14 DEF DeleteCamera
<1>15. ASSUME NEW ch \in Channel, CloseNext(ch) PROVE Homes'
  BY <1>15 DEF CloseNext
<1>16. ASSUME NEW ch \in Channel, ClearPool(ch) PROVE Homes'
  BY <1>16 DEF ClearPool
<1>17. ASSUME NEW ch \in Channel, CloseCamera(ch) PROVE Homes'
  BY <1>17 DEF CloseCamera
<1>18. ASSUME NEW ch \in Channel, FreeCamera(ch) PROVE Homes'
  BY <1>18 DEF FreeCamera
<1>19. ASSUME NEW ch \in Channel, EraseChannel(ch) PROVE Homes'
  BY <1>19 DEF EraseChannel
<1>20. ASSUME NEW a \in Asker, NEW f \in Fd, accept_request_cb(a, f) PROVE Homes'
  BY <1>20 DEF accept_request_cb
<1>21. ASSUME NEW a \in Asker, NEW f \in Fd, send_system_info_cb(f, a) PROVE Homes'
  BY <1>21 DEF send_system_info_cb
<1> QED
  BY <1>1, <1>2, <1>3, <1>4, <1>5, <1>6, <1>7, <1>8, <1>9, <1>10, <1>11, <1>12,
     <1>13, <1>14, <1>15, <1>16, <1>17, <1>18, <1>19, <1>20, <1>21
  DEF Next, MainStep, StateStep, WorkerStep

-----------------------------------------------------------------------------
(* What a table says stays true: a number is closed through the one table  *)
(* that holds it, and its entry is erased or past before it is used again. *)
LEMMA ValidStep == ASSUME IInv, Next PROVE (~doubled => Valid)'
<1> USE NoneAssumption, PortsAssumption DEF IInv, TypeOK, Phases, Homes, Home, Owned,
         Held, MainHolds, CameraHolds, Entry, Ahead, Deleting, Valid, Apart, Idle,
         NoCamera, NoViewers, MainType, CameraType, WorkerType, close, accept,
         Receive, Worker, mainVars, workerVars, history
<1>1. ASSUME NEW c \in Client, NEW f \in Fd, accept_cb(c, f) PROVE (~doubled => Valid)'
  BY <1>1 DEF accept_cb
<1>2. ASSUME NEW c \in Client, NEW f \in Fd, RefuseRequest(f, c)
      PROVE  (~doubled => Valid)'
  BY <1>2 DEF RefuseRequest
<1>3. ASSUME NEW c \in Client, NEW f \in Fd, MalformedRequest(f, c)
      PROVE  (~doubled => Valid)'
  BY <1>3 DEF MalformedRequest
<1>4. ASSUME NEW c \in Client, NEW f \in Fd, NEW ch \in Channel, CameraRequest(f, c, ch)
      PROVE  (~doubled => Valid)'
  <2>1. CASE ListUndefined
    BY <1>4, <2>1 DEF CameraRequest
  <2>2. CASE ~ListUndefined /\ camera[ch].phase # "none"
    BY <1>4, <2>2 DEF CameraRequest
  <2>3. CASE ~ListUndefined /\ camera[ch].phase = "none"
    <3>1. /\ camera' = [camera EXCEPT ![ch] = [phase |-> "waiting", fd |-> f, client |-> c]]
          /\ pool' = [pool EXCEPT ![ch] = NoViewers]
          /\ watchers' = watchers \ {<<f, c>>} /\ <<f, c>> \in watchers
          /\ main = Idle
          /\ UNCHANGED <<main, worker, sock, served, doubled>>
      BY <1>4, <2>3 DEF CameraRequest
    <3>2. \A d \in Channel, g \in Fd : Entry(d, g)' => Entry(d, g) /\ d # ch
      BY <2>3, <3>1
    <3>3. \A d \in Channel : CameraHolds(d)' => d = ch \/ CameraHolds(d)
      BY <3>1
    <3> QED
      BY <2>3, <3>1, <3>2, <3>3
  <2> QED
    BY <2>1, <2>2, <2>3
<1>5. ASSUME NEW c \in Client, NEW f \in Fd, NEW ch \in Channel, FindChannel(f, c, ch)
      PROVE  (~doubled => Valid)'
  <2>1. CASE camera[ch].phase = "none"
    BY <1>5, <2>1 DEF FindChannel
  <2>2. CASE camera[ch].phase # "none"
    BY <1>5, <2>2 DEF FindChannel
  <2> QED
    BY <2>1, <2>2
<1>6. ASSUME CloseAgain PROVE (~doubled => Valid)'
  BY <1>6 DEF CloseAgain
<1>7. ASSUME CheckLimit PROVE (~doubled => Valid)'
  <2>1. CASE main' = Idle
    BY <1>7, <2>1 DEF CheckLimit
  <2>2. CASE /\ main' = [main EXCEPT !.pc = "insert"]
             /\ UNCHANGED <<sock, wrong>>
    BY <1>7, <2>2 DEF CheckLimit
  <2> QED
    BY <1>7, <2>1, <2>2 DEF CheckLimit
<1>8. ASSUME InsertViewer PROVE (~doubled => Valid)'
  <2>1. main.fd \in Fd /\ main.client \in Client /\ main.channel \in Channel
    BY <1>8 DEF InsertViewer
  <2>2. /\ main' = Idle /\ MainHolds
        /\ UNCHANGED <<camera, worker, watchers, served, doubled>>
    BY <1>8 DEF InsertViewer
  <2>3. CASE pool[main.channel][main.fd] = NONE
    <3>1. pool' = [pool EXCEPT ![main.channel][main.fd] = main.client] /\ sock' = sock
      BY <1>8, <2>3 DEF InsertViewer
    <3>2. \A d \in Channel, g \in Fd :
            Entry(d, g)' => Entry(d, g) \/ (d = main.channel /\ g = main.fd)
      BY <2>1, <2>2, <3>1
    <3>3. /\ pool'[main.channel][main.fd] = main.client
          /\ \A d \in Channel, g \in Fd :
               ~(d = main.channel /\ g = main.fd) => pool'[d][g] = pool[d][g]
      BY <2>1, <3>1
    <3> HIDE DEF Entry
    <3> QED
      BY <2>1, <2>2, <3>1, <3>2, <3>3
  <2>4. CASE pool[main.channel][main.fd] # NONE
    BY <1>8, <2>4 DEF InsertViewer
  <2> QED
    BY <2>3, <2>4
<1>9. ASSUME UseDeleted PROVE (~doubled => Valid)'
  BY <1>9 DEF UseDeleted
<1>10. ASSUME NEW ch \in Channel, StartCamera(ch) PROVE (~doubled => Valid)'
  BY <1>10 DEF StartCamera
<1>11. ASSUME NEW ch \in Channel, ReplyFails(ch) PROVE (~doubled => Valid)'
  BY <1>11 DEF ReplyFails
<1>12. ASSUME NEW f \in Fd, NEW ch \in Channel, CloseViewer(ch, f)
       PROVE  (~doubled => Valid)'
  BY <1>12 DEF CloseViewer
<1>13. ASSUME NEW ch \in Channel, EraseViewer(ch) PROVE (~doubled => Valid)'
  BY <1>13 DEF EraseViewer
<1>14. ASSUME NEW ch \in Channel, DeleteCamera(ch) PROVE (~doubled => Valid)'
  BY <1>14 DEF DeleteCamera
<1>15. ASSUME NEW ch \in Channel, CloseNext(ch) PROVE (~doubled => Valid)'
  <2> DEFINE f == Min(Ahead(ch))
  <2>1. f \in Ahead(ch) /\ f \in Fd /\ Entry(ch, f)
    BY <1>15, LeastAhead DEF CloseNext
  <2>2. /\ sock' = [sock EXCEPT ![f] = NONE]
        /\ worker' = [worker EXCEPT ![ch] = [pc |-> "loop", at |-> f]]
        /\ worker[ch].pc = "loop"
        /\ UNCHANGED <<main, camera, pool, watchers, served, doubled>>
    BY <1>15 DEF CloseNext
  <2> HIDE DEF f
  <2>3. \A d \in Channel, g \in Fd : Entry(d, g)' => Entry(d, g) /\ (d = ch => g # f)
    <3>1. \A g \in Fd : Entry(ch, g)' => Entry(ch, g) /\ g # f
      <4> HIDE DEF Ahead, TypeOK
      <4>1. Ahead(ch)' = Ahead(ch) \ {f}
        BY <1>15, AheadShrinks DEF f
      <4> QED
        BY <2>2, <4>1
    <3>2. \A d \in Channel \ {ch}, g \in Fd : Entry(d, g)' => Entry(d, g)
      BY <2>2
    <3> QED
      BY <3>1, <3>2
  <2>4. \A d \in Channel : CameraHolds(d)' => CameraHolds(d)
    BY <2>2
  <2> HIDE DEF Entry, CameraHolds
  <2> QED
    BY <2>1, <2>2, <2>3, <2>4
<1>16. ASSUME NEW ch \in Channel, ClearPool(ch) PROVE (~doubled => Valid)'
  BY <1>16 DEF ClearPool
<1>17. ASSUME NEW ch \in Channel, CloseCamera(ch) PROVE (~doubled => Valid)'
  BY <1>17 DEF CloseCamera
<1>18. ASSUME NEW ch \in Channel, FreeCamera(ch) PROVE (~doubled => Valid)'
  BY <1>18 DEF FreeCamera
<1>19. ASSUME NEW ch \in Channel, EraseChannel(ch) PROVE (~doubled => Valid)'
  BY <1>19 DEF EraseChannel
<1>20. ASSUME NEW a \in Asker, NEW f \in Fd, accept_request_cb(a, f)
       PROVE  (~doubled => Valid)'
  BY <1>20 DEF accept_request_cb
<1>21. ASSUME NEW a \in Asker, NEW f \in Fd, send_system_info_cb(f, a)
       PROVE  (~doubled => Valid)'
  BY <1>21 DEF send_system_info_cb
<1> QED
  BY <1>1, <1>2, <1>3, <1>4, <1>5, <1>6, <1>7, <1>8, <1>9, <1>10, <1>11, <1>12,
     <1>13, <1>14, <1>15, <1>16, <1>17, <1>18, <1>19, <1>20, <1>21
  DEF Next, MainStep, StateStep, WorkerStep

(* A number moves from one table to the next and is never in two.          *)
LEMMA ApartStep == ASSUME IInv, Next PROVE (~doubled => Apart)'
<1> USE NoneAssumption, PortsAssumption DEF IInv, TypeOK, Phases, Homes, Home, Owned,
         Held, MainHolds, CameraHolds, Entry, Ahead, Deleting, Valid, Apart, Idle,
         NoCamera, NoViewers, MainType, CameraType, WorkerType, close, accept,
         Receive, Worker, mainVars, workerVars, history
<1>1. ASSUME NEW c \in Client, NEW f \in Fd, accept_cb(c, f) PROVE (~doubled => Apart)'
  BY <1>1 DEF accept_cb
<1>2. ASSUME NEW c \in Client, NEW f \in Fd, RefuseRequest(f, c)
      PROVE  (~doubled => Apart)'
  BY <1>2 DEF RefuseRequest
<1>3. ASSUME NEW c \in Client, NEW f \in Fd, MalformedRequest(f, c)
      PROVE  (~doubled => Apart)'
  BY <1>3 DEF MalformedRequest
<1>4. ASSUME NEW c \in Client, NEW f \in Fd, NEW ch \in Channel, CameraRequest(f, c, ch)
      PROVE  (~doubled => Apart)'
  <2>1. CASE ListUndefined
    BY <1>4, <2>1 DEF CameraRequest
  <2>2. CASE ~ListUndefined /\ camera[ch].phase # "none"
    BY <1>4, <2>2 DEF CameraRequest
  <2>3. CASE ~ListUndefined /\ camera[ch].phase = "none"
    <3>1. /\ camera' = [camera EXCEPT ![ch] = [phase |-> "waiting", fd |-> f, client |-> c]]
          /\ pool' = [pool EXCEPT ![ch] = NoViewers]
          /\ watchers' = watchers \ {<<f, c>>} /\ <<f, c>> \in watchers
          /\ main = Idle
          /\ UNCHANGED <<main, worker, sock, served, doubled>>
      BY <1>4, <2>3 DEF CameraRequest
    <3>2. \A d \in Channel, g \in Fd : Entry(d, g)' => Entry(d, g) /\ d # ch
      BY <2>3, <3>1
    <3>3. \A d \in Channel : CameraHolds(d)' => d = ch \/ CameraHolds(d)
      BY <3>1
    <3> QED
      BY <2>3, <3>1, <3>2, <3>3
  <2> QED
    BY <2>1, <2>2, <2>3
<1>5. ASSUME NEW c \in Client, NEW f \in Fd, NEW ch \in Channel, FindChannel(f, c, ch)
      PROVE  (~doubled => Apart)'
  <2>1. CASE camera[ch].phase = "none"
    BY <1>5, <2>1 DEF FindChannel
  <2>2. CASE camera[ch].phase # "none"
    BY <1>5, <2>2 DEF FindChannel
  <2> QED
    BY <2>1, <2>2
<1>6. ASSUME CloseAgain PROVE (~doubled => Apart)'
  BY <1>6 DEF CloseAgain
<1>7. ASSUME CheckLimit PROVE (~doubled => Apart)'
  <2>1. CASE main' = Idle
    BY <1>7, <2>1 DEF CheckLimit
  <2>2. CASE /\ main' = [main EXCEPT !.pc = "insert"]
             /\ UNCHANGED <<sock, wrong>>
    BY <1>7, <2>2 DEF CheckLimit
  <2> QED
    BY <1>7, <2>1, <2>2 DEF CheckLimit
<1>8. ASSUME InsertViewer PROVE (~doubled => Apart)'
  <2>1. main.fd \in Fd /\ main.client \in Client /\ main.channel \in Channel
    BY <1>8 DEF InsertViewer
  <2>2. /\ main' = Idle /\ MainHolds
        /\ UNCHANGED <<camera, worker, watchers, served, doubled>>
    BY <1>8 DEF InsertViewer
  <2>3. CASE pool[main.channel][main.fd] = NONE
    <3>1. pool' = [pool EXCEPT ![main.channel][main.fd] = main.client] /\ sock' = sock
      BY <1>8, <2>3 DEF InsertViewer
    <3>2. \A d \in Channel, g \in Fd :
            Entry(d, g)' => Entry(d, g) \/ (d = main.channel /\ g = main.fd)
      BY <2>1, <2>2, <3>1
    <3>3. /\ pool'[main.channel][main.fd] = main.client
          /\ \A d \in Channel, g \in Fd :
               ~(d = main.channel /\ g = main.fd) => pool'[d][g] = pool[d][g]
      BY <2>1, <3>1
    <3> HIDE DEF Entry
    <3> QED
      BY <2>1, <2>2, <3>1, <3>2, <3>3, SMTT(30)
  <2>4. CASE pool[main.channel][main.fd] # NONE
    BY <1>8, <2>4 DEF InsertViewer
  <2> QED
    BY <2>3, <2>4
<1>9. ASSUME UseDeleted PROVE (~doubled => Apart)'
  BY <1>9 DEF UseDeleted
<1>10. ASSUME NEW ch \in Channel, StartCamera(ch) PROVE (~doubled => Apart)'
  BY <1>10 DEF StartCamera
<1>11. ASSUME NEW ch \in Channel, ReplyFails(ch) PROVE (~doubled => Apart)'
  BY <1>11 DEF ReplyFails
<1>12. ASSUME NEW f \in Fd, NEW ch \in Channel, CloseViewer(ch, f)
       PROVE  (~doubled => Apart)'
  BY <1>12 DEF CloseViewer
<1>13. ASSUME NEW ch \in Channel, EraseViewer(ch) PROVE (~doubled => Apart)'
  BY <1>13 DEF EraseViewer
<1>14. ASSUME NEW ch \in Channel, DeleteCamera(ch) PROVE (~doubled => Apart)'
  BY <1>14 DEF DeleteCamera
<1>15. ASSUME NEW ch \in Channel, CloseNext(ch) PROVE (~doubled => Apart)'
  <2> DEFINE f == Min(Ahead(ch))
  <2>1. f \in Ahead(ch) /\ f \in Fd /\ Entry(ch, f)
    BY <1>15, LeastAhead DEF CloseNext
  <2>2. /\ sock' = [sock EXCEPT ![f] = NONE]
        /\ worker' = [worker EXCEPT ![ch] = [pc |-> "loop", at |-> f]]
        /\ worker[ch].pc = "loop"
        /\ UNCHANGED <<main, camera, pool, watchers, served, doubled>>
    BY <1>15 DEF CloseNext
  <2> HIDE DEF f
  <2>3. \A d \in Channel, g \in Fd : Entry(d, g)' => Entry(d, g) /\ (d = ch => g # f)
    <3>1. \A g \in Fd : Entry(ch, g)' => Entry(ch, g) /\ g # f
      <4> HIDE DEF Ahead, TypeOK
      <4>1. Ahead(ch)' = Ahead(ch) \ {f}
        BY <1>15, AheadShrinks DEF f
      <4> QED
        BY <2>2, <4>1
    <3>2. \A d \in Channel \ {ch}, g \in Fd : Entry(d, g)' => Entry(d, g)
      BY <2>2
    <3> QED
      BY <3>1, <3>2
  <2>4. \A d \in Channel : CameraHolds(d)' => CameraHolds(d)
    BY <2>2
  <2>5. \A d \in Channel : CameraHolds(d) => camera[d].fd \in Fd
    OBVIOUS
  <2>6. MainHolds => main.fd \in Fd
    OBVIOUS
  <2> HIDE DEF Entry, CameraHolds
  <2> QED
    BY <2>2, <2>3, <2>4, <2>5, <2>6
<1>16. ASSUME NEW ch \in Channel, ClearPool(ch) PROVE (~doubled => Apart)'
  BY <1>16 DEF ClearPool
<1>17. ASSUME NEW ch \in Channel, CloseCamera(ch) PROVE (~doubled => Apart)'
  BY <1>17 DEF CloseCamera
<1>18. ASSUME NEW ch \in Channel, FreeCamera(ch) PROVE (~doubled => Apart)'
  BY <1>18 DEF FreeCamera
<1>19. ASSUME NEW ch \in Channel, EraseChannel(ch) PROVE (~doubled => Apart)'
  BY <1>19 DEF EraseChannel
<1>20. ASSUME NEW a \in Asker, NEW f \in Fd, accept_request_cb(a, f)
       PROVE  (~doubled => Apart)'
  BY <1>20 DEF accept_request_cb
<1>21. ASSUME NEW a \in Asker, NEW f \in Fd, send_system_info_cb(f, a)
       PROVE  (~doubled => Apart)'
  BY <1>21 DEF send_system_info_cb
<1> QED
  BY <1>1, <1>2, <1>3, <1>4, <1>5, <1>6, <1>7, <1>8, <1>9, <1>10, <1>11, <1>12,
     <1>13, <1>14, <1>15, <1>16, <1>17, <1>18, <1>19, <1>20, <1>21
  DEF Next, MainStep, StateStep, WorkerStep

(* Every close but the second one is through a table that holds the number.*)
LEMMA WrongCloseStep == ASSUME IInv, Next PROVE WrongCloseOnlyAfterDouble'
<1> USE NoneAssumption, PortsAssumption DEF IInv, TypeOK, Phases, Owned, MainHolds,
         CameraHolds, Entry, Valid, WrongCloseOnlyAfterDouble, Idle, NoCamera,
         NoViewers, MainType, CameraType, WorkerType, close, accept, Receive, Worker,
         mainVars, workerVars, history
<1>1. ASSUME NEW c \in Client, NEW f \in Fd, accept_cb(c, f)
      PROVE  WrongCloseOnlyAfterDouble'
  BY <1>1 DEF accept_cb
<1>2. ASSUME NEW c \in Client, NEW f \in Fd, RefuseRequest(f, c)
      PROVE  WrongCloseOnlyAfterDouble'
  BY <1>2 DEF RefuseRequest
<1>3. ASSUME NEW c \in Client, NEW f \in Fd, MalformedRequest(f, c)
      PROVE  WrongCloseOnlyAfterDouble'
  BY <1>3 DEF MalformedRequest
<1>4. ASSUME NEW c \in Client, NEW f \in Fd, NEW ch \in Channel, CameraRequest(f, c, ch)
      PROVE  WrongCloseOnlyAfterDouble'
  BY <1>4 DEF CameraRequest
<1>5. ASSUME NEW c \in Client, NEW f \in Fd, NEW ch \in Channel, FindChannel(f, c, ch)
      PROVE  WrongCloseOnlyAfterDouble'
  BY <1>5 DEF FindChannel
<1>6. ASSUME CloseAgain PROVE WrongCloseOnlyAfterDouble'
  BY <1>6 DEF CloseAgain
<1>7. ASSUME CheckLimit PROVE WrongCloseOnlyAfterDouble'
  BY <1>7 DEF CheckLimit
<1>8. ASSUME InsertViewer PROVE WrongCloseOnlyAfterDouble'
  BY <1>8 DEF InsertViewer
<1>9. ASSUME UseDeleted PROVE WrongCloseOnlyAfterDouble'
  BY <1>9 DEF UseDeleted
<1>10. ASSUME NEW ch \in Channel, StartCamera(ch) PROVE WrongCloseOnlyAfterDouble'
  BY <1>10 DEF StartCamera
<1>11. ASSUME NEW ch \in Channel, ReplyFails(ch) PROVE WrongCloseOnlyAfterDouble'
  BY <1>11 DEF ReplyFails
<1>12. ASSUME NEW f \in Fd, NEW ch \in Channel, CloseViewer(ch, f)
       PROVE  WrongCloseOnlyAfterDouble'
  BY <1>12 DEF CloseViewer
<1>13. ASSUME NEW ch \in Channel, EraseViewer(ch) PROVE WrongCloseOnlyAfterDouble'
  BY <1>13 DEF EraseViewer
<1>14. ASSUME NEW ch \in Channel, DeleteCamera(ch) PROVE WrongCloseOnlyAfterDouble'
  BY <1>14 DEF DeleteCamera
<1>15. ASSUME NEW ch \in Channel, CloseNext(ch) PROVE WrongCloseOnlyAfterDouble'
  <2> DEFINE f == Min(Ahead(ch))
  <2>1. f \in Fd /\ Entry(ch, f)
    BY <1>15, LeastAhead DEF CloseNext, Ahead
  <2> QED
    BY <1>15, <2>1 DEF CloseNext
<1>16. ASSUME NEW ch \in Channel, ClearPool(ch) PROVE WrongCloseOnlyAfterDouble'
  BY <1>16 DEF ClearPool
<1>17. ASSUME NEW ch \in Channel, CloseCamera(ch) PROVE WrongCloseOnlyAfterDouble'
  BY <1>17 DEF CloseCamera
<1>18. ASSUME NEW ch \in Channel, FreeCamera(ch) PROVE WrongCloseOnlyAfterDouble'
  BY <1>18 DEF FreeCamera
<1>19. ASSUME NEW ch \in Channel, EraseChannel(ch) PROVE WrongCloseOnlyAfterDouble'
  BY <1>19 DEF EraseChannel
<1>20. ASSUME NEW a \in Asker, NEW f \in Fd, accept_request_cb(a, f)
       PROVE  WrongCloseOnlyAfterDouble'
  BY <1>20 DEF accept_request_cb
<1>21. ASSUME NEW a \in Asker, NEW f \in Fd, send_system_info_cb(f, a)
       PROVE  WrongCloseOnlyAfterDouble'
  BY <1>21 DEF send_system_info_cb
<1> QED
  BY <1>1, <1>2, <1>3, <1>4, <1>5, <1>6, <1>7, <1>8, <1>9, <1>10, <1>11, <1>12,
     <1>13, <1>14, <1>15, <1>16, <1>17, <1>18, <1>19, <1>20, <1>21
  DEF Next, MainStep, StateStep, WorkerStep

-----------------------------------------------------------------------------
(* Only accept opens a connection of the streaming port.                   *)
LEMMA OpenStep ==
  ASSUME IInv, Next
  PROVE  (\A x \in Client : Open(x)' => Open(x)) \/ \E c \in Client, f \in Fd : accept_cb(c, f)
<1> USE NoneAssumption, PortsAssumption DEF IInv, TypeOK, Phases, Open, close,
         accept, Receive, Worker, mainVars, workerVars, history
<1>1. ASSUME NEW c \in Client, NEW f \in Fd, accept_cb(c, f)
      PROVE  (\A x \in Client : Open(x)' => Open(x)) \/ \E y \in Client, k \in Fd : accept_cb(y, k)
  BY <1>1
<1>2. ASSUME NEW c \in Client, NEW f \in Fd, RefuseRequest(f, c)
      PROVE  (\A x \in Client : Open(x)' => Open(x))
  BY <1>2 DEF RefuseRequest
<1>3. ASSUME NEW c \in Client, NEW f \in Fd, MalformedRequest(f, c)
      PROVE  (\A x \in Client : Open(x)' => Open(x))
  BY <1>3 DEF MalformedRequest
<1>4. ASSUME NEW c \in Client, NEW f \in Fd, NEW ch \in Channel, CameraRequest(f, c, ch)
      PROVE  (\A x \in Client : Open(x)' => Open(x))
  BY <1>4 DEF CameraRequest
<1>5. ASSUME NEW c \in Client, NEW f \in Fd, NEW ch \in Channel, FindChannel(f, c, ch)
      PROVE  (\A x \in Client : Open(x)' => Open(x))
  BY <1>5 DEF FindChannel
<1>6. ASSUME CloseAgain PROVE (\A x \in Client : Open(x)' => Open(x))
  BY <1>6 DEF CloseAgain
<1>7. ASSUME CheckLimit PROVE (\A x \in Client : Open(x)' => Open(x))
  BY <1>7 DEF CheckLimit
<1>8. ASSUME InsertViewer PROVE (\A x \in Client : Open(x)' => Open(x))
  BY <1>8 DEF InsertViewer
<1>9. ASSUME UseDeleted PROVE (\A x \in Client : Open(x)' => Open(x))
  BY <1>9 DEF UseDeleted
<1>10. ASSUME NEW ch \in Channel, StartCamera(ch)
       PROVE  (\A x \in Client : Open(x)' => Open(x))
  BY <1>10 DEF StartCamera
<1>11. ASSUME NEW ch \in Channel, ReplyFails(ch)
       PROVE  (\A x \in Client : Open(x)' => Open(x))
  BY <1>11 DEF ReplyFails
<1>12. ASSUME NEW f \in Fd, NEW ch \in Channel, CloseViewer(ch, f)
       PROVE  (\A x \in Client : Open(x)' => Open(x))
  BY <1>12 DEF CloseViewer
<1>13. ASSUME NEW ch \in Channel, EraseViewer(ch)
       PROVE  (\A x \in Client : Open(x)' => Open(x))
  BY <1>13 DEF EraseViewer
<1>14. ASSUME NEW ch \in Channel, DeleteCamera(ch)
       PROVE  (\A x \in Client : Open(x)' => Open(x))
  BY <1>14 DEF DeleteCamera
<1>15. ASSUME NEW ch \in Channel, CloseNext(ch)
       PROVE  (\A x \in Client : Open(x)' => Open(x))
  <2>1. Min(Ahead(ch)) \in Fd
    BY <1>15, LeastAhead DEF CloseNext, Ahead
  <2> QED
    BY <1>15, <2>1 DEF CloseNext
<1>16. ASSUME NEW ch \in Channel, ClearPool(ch)
       PROVE  (\A x \in Client : Open(x)' => Open(x))
  BY <1>16 DEF ClearPool
<1>17. ASSUME NEW ch \in Channel, CloseCamera(ch)
       PROVE  (\A x \in Client : Open(x)' => Open(x))
  BY <1>17 DEF CloseCamera
<1>18. ASSUME NEW ch \in Channel, FreeCamera(ch)
       PROVE  (\A x \in Client : Open(x)' => Open(x))
  BY <1>18 DEF FreeCamera
<1>19. ASSUME NEW ch \in Channel, EraseChannel(ch)
       PROVE  (\A x \in Client : Open(x)' => Open(x))
  BY <1>19 DEF EraseChannel
<1>20. ASSUME NEW a \in Asker, NEW f \in Fd, accept_request_cb(a, f)
       PROVE  (\A x \in Client : Open(x)' => Open(x))
  BY <1>20 DEF accept_request_cb
<1>21. ASSUME NEW a \in Asker, NEW f \in Fd, send_system_info_cb(f, a)
       PROVE  (\A x \in Client : Open(x)' => Open(x))
  BY <1>21 DEF send_system_info_cb
<1> QED
  BY <1>1, <1>2, <1>3, <1>4, <1>5, <1>6, <1>7, <1>8, <1>9, <1>10, <1>11, <1>12,
     <1>13, <1>14, <1>15, <1>16, <1>17, <1>18, <1>19, <1>20, <1>21
  DEF Next, MainStep, StateStep, WorkerStep

(* A cause on record stays on record.                                      *)
LEMMA CauseStep ==
  ASSUME IInv, Next
  PROVE  \A x \in Client : cause[x] # "none" => cause'[x] # "none"
<1> USE DEF IInv, TypeOK, Phases, accept, Receive, Worker, mainVars, workerVars,
         history, close
<1>1. CASE cause' = cause
  BY <1>1
<1>2. ASSUME NEW c \in Client, NEW f \in Fd, MalformedRequest(f, c)
      PROVE  \A x \in Client : cause[x] # "none" => cause'[x] # "none"
  BY <1>2 DEF MalformedRequest
<1>3. ASSUME InsertViewer PROVE \A x \in Client : cause[x] # "none" => cause'[x] # "none"
  BY <1>3 DEF InsertViewer
<1>4. ASSUME NEW ch \in Channel, ReplyFails(ch)
      PROVE  \A x \in Client : cause[x] # "none" => cause'[x] # "none"
  BY <1>4 DEF ReplyFails
<1> QED
  BY <1>1, <1>2, <1>3, <1>4, WhoWrites

(* What is settled stays settled, for a connection that was accepted.      *)
LEMMA SettledStep ==
  ASSUME IInv, Next
  PROVE  \A x \in Client \ fresh : (Open(x)' => Open(x)) /\ (Settled(x) => Settled(x)')
<1>1. \A x \in Client \ fresh : Open(x)' => Open(x)
  <2>1. ASSUME NEW c \in Client, NEW f \in Fd, accept_cb(c, f)
        PROVE  \A x \in Client \ fresh : Open(x)' => Open(x)
    BY <2>1 DEF IInv, TypeOK, accept_cb, accept, Open
  <2> QED
    BY <2>1, OpenStep
<1>2. \A x \in Client : cause[x] # "none" => cause'[x] # "none"
  BY CauseStep
<1> QED
  BY <1>1, <1>2 DEF Settled

(* A close through the home of a connection closes it.                     *)
LEMMA CloseCloses ==
  ASSUME TypeOK, NEW f \in Fd, NEW c \in Client, close(f, c), Home(f, c)
  PROVE  ~Open(c)'
BY NoneAssumption DEF TypeOK, close, Home, Open

(* What the steps of Explained have in common.                             *)
LEMMA SettledFacts ==
  ASSUME IInv, Next
  PROVE  /\ Explained
         /\ \A x \in Client \ fresh : (Open(x)' => Open(x)) /\ (Settled(x) => Settled(x)')
         /\ \A x \in Client, g \in Fd : close(g, x) /\ Home(g, x) => ~Open(x)'
         /\ \A x \in Client : ~Open(x)' \/ cause'[x] # "none" => Settled(x)'
<1>1. Explained /\ TypeOK
  BY DEF Next, IInv
<1>2. \A x \in Client, g \in Fd : close(g, x) /\ Home(g, x) => ~Open(x)'
  BY <1>1, CloseCloses
<1>3. \A x \in Client : ~Open(x)' \/ cause'[x] # "none" => Settled(x)'
  BY DEF Settled
<1>4. \A x \in Client \ fresh : (Open(x)' => Open(x)) /\ (Settled(x) => Settled(x)')
  BY SettledStep
<1> QED
  BY <1>1, <1>2, <1>3, <1>4

(* A connection that is accepted has its watcher.                          *)
LEMMA AcceptedIsKnown ==
  ASSUME IInv, Next, NEW x \in Client, x \in fresh, Open(x)'
  PROVE  \E g \in Fd : <<g, x>> \in watchers'
<1>1. ~Open(x)
  BY NoneAssumption DEF IInv, Homes, Open
<1>2. PICK c \in Client, f \in Fd : accept_cb(c, f)
  BY <1>1, OpenStep
<1>3. c = x
  BY <1>1, <1>2 DEF IInv, TypeOK, accept_cb, accept, Open
<1> QED
  BY <1>2, <1>3 DEF accept_cb

(* What a request, a camera or a viewer is known by goes on to the next    *)
(* table, or the connection is settled.                                    *)
LEMMA WatcherStaysKnown ==
  ASSUME IInv, Next,
         NEW x \in Client \ fresh, ~Settled(x)', ~undefined',
         NEW g \in Fd, <<g, x>> \in watchers
  PROVE  \/ <<g, x>> \in watchers' \/ main'.client = x
         \/ \E d \in Channel : camera'[d].client = x
<1>0. /\ Explained
      /\ \A y \in Client \ fresh : (Open(y)' => Open(y)) /\ (Settled(y) => Settled(y)')
      /\ \A y \in Client, k \in Fd : close(k, y) /\ Home(k, y) => ~Open(y)'
      /\ \A y \in Client : ~Open(y)' \/ cause'[y] # "none" => Settled(y)'
  BY SettledFacts
<1> USE NoneAssumption DEF IInv, TypeOK, Phases, Homes, Explained, AgainClosed,
         ErasedClosed, LoopSettled, CameraSettled, MainHolds, Idle, NoCamera,
         NoViewers, MainType, CameraType, WorkerType, accept, Receive, Worker,
         mainVars, workerVars, history
<1>1. CASE watchers' = watchers
  BY <1>0, <1>1
<1>2. ASSUME NEW c \in Client, NEW f \in Fd, accept_cb(c, f)
      PROVE  \/ <<g, x>> \in watchers' \/ main'.client = x
             \/ \E d \in Channel : camera'[d].client = x
  BY <1>0, <1>2 DEF accept_cb
<1>3. ASSUME NEW c \in Client, NEW f \in Fd, RefuseRequest(f, c)
      PROVE  \/ <<g, x>> \in watchers' \/ main'.client = x
             \/ \E d \in Channel : camera'[d].client = x
  BY <1>0, <1>3 DEF RefuseRequest
<1>4. ASSUME NEW c \in Client, NEW f \in Fd, MalformedRequest(f, c)
      PROVE  \/ <<g, x>> \in watchers' \/ main'.client = x
             \/ \E d \in Channel : camera'[d].client = x
  BY <1>0, <1>4 DEF MalformedRequest
<1>5. ASSUME NEW c \in Client, NEW f \in Fd, NEW ch \in Channel, CameraRequest(f, c, ch)
      PROVE  \/ <<g, x>> \in watchers' \/ main'.client = x
             \/ \E d \in Channel : camera'[d].client = x
  <2>1. CASE ListUndefined
    BY <1>0, <1>5, <2>1 DEF CameraRequest
  <2>2. CASE ~ListUndefined /\ camera[ch].phase # "none"
    BY <1>0, <1>5, <2>2 DEF CameraRequest
  <2>3. CASE ~ListUndefined /\ camera[ch].phase = "none"
    BY <1>0, <1>5, <2>3 DEF CameraRequest
  <2> QED
    BY <2>1, <2>2, <2>3
<1>6. ASSUME NEW c \in Client, NEW f \in Fd, NEW ch \in Channel, FindChannel(f, c, ch)
      PROVE  \/ <<g, x>> \in watchers' \/ main'.client = x
             \/ \E d \in Channel : camera'[d].client = x
  <2>1. CASE camera[ch].phase = "none"
    BY <1>0, <1>6, <2>1 DEF FindChannel
  <2>2. CASE camera[ch].phase # "none"
    BY <1>0, <1>6, <2>2 DEF FindChannel
  <2> QED
    BY <2>1, <2>2
<1> QED
  BY <1>1, <1>2, <1>3, <1>4, <1>5, <1>6, WhoWrites

LEMMA RequestStaysKnown ==
  ASSUME IInv, Next,
         NEW x \in Client \ fresh, ~Settled(x)', ~undefined', main.client = x
  PROVE  main'.client = x \/ \E d \in Channel, g \in Fd : pool'[d][g] = x
<1>0. /\ Explained
      /\ \A y \in Client \ fresh : (Open(y)' => Open(y)) /\ (Settled(y) => Settled(y)')
      /\ \A y \in Client, k \in Fd : close(k, y) /\ Home(k, y) => ~Open(y)'
      /\ \A y \in Client : ~Open(y)' \/ cause'[y] # "none" => Settled(y)'
  BY SettledFacts
<1> USE NoneAssumption DEF IInv, TypeOK, Phases, Homes, Explained, AgainClosed,
         ErasedClosed, LoopSettled, CameraSettled, MainHolds, Idle, NoCamera,
         NoViewers, MainType, CameraType, WorkerType, accept, Receive, Worker,
         mainVars, workerVars, history
<1>1. CASE main' = main
  BY <1>0, <1>1
<1>2. ASSUME NEW c \in Client, NEW f \in Fd, NEW ch \in Channel, CameraRequest(f, c, ch)
      PROVE  main'.client = x \/ \E d \in Channel, g \in Fd : pool'[d][g] = x
  <2>1. CASE ListUndefined
    BY <1>0, <1>2, <2>1 DEF CameraRequest
  <2>2. CASE ~ListUndefined /\ camera[ch].phase # "none"
    BY <1>0, <1>2, <2>2 DEF CameraRequest
  <2>3. CASE ~ListUndefined /\ camera[ch].phase = "none"
    BY <1>0, <1>2, <2>3 DEF CameraRequest
  <2> QED
    BY <2>1, <2>2, <2>3
<1>3. ASSUME NEW c \in Client, NEW f \in Fd, NEW ch \in Channel, FindChannel(f, c, ch)
      PROVE  main'.client = x \/ \E d \in Channel, g \in Fd : pool'[d][g] = x
  <2>1. CASE camera[ch].phase = "none"
    BY <1>0, <1>3, <2>1 DEF FindChannel
  <2>2. CASE camera[ch].phase # "none"
    BY <1>0, <1>3, <2>2 DEF FindChannel
  <2> QED
    BY <2>1, <2>2
<1>4. ASSUME CloseAgain
      PROVE  main'.client = x \/ \E d \in Channel, g \in Fd : pool'[d][g] = x
  BY <1>0, <1>4 DEF CloseAgain
<1>5. ASSUME CheckLimit
      PROVE  main'.client = x \/ \E d \in Channel, g \in Fd : pool'[d][g] = x
  <2>1. CASE main' = Idle
    BY <1>0, <1>5, <2>1 DEF CheckLimit
  <2>2. CASE /\ main' = [main EXCEPT !.pc = "insert"]
             /\ UNCHANGED <<sock, wrong>>
    BY <1>0, <1>5, <2>2 DEF CheckLimit
  <2> QED
    BY <1>0, <1>5, <2>1, <2>2 DEF CheckLimit
<1>6. ASSUME InsertViewer
      PROVE  main'.client = x \/ \E d \in Channel, g \in Fd : pool'[d][g] = x
  <2>1. CASE pool[main.channel][main.fd] = NONE
    BY <1>0, <1>6, <2>1 DEF InsertViewer
  <2>2. CASE pool[main.channel][main.fd] # NONE
    BY <1>0, <1>6, <2>2 DEF InsertViewer
  <2> QED
    BY <2>1, <2>2
<1> QED
  BY <1>1, <1>2, <1>3, <1>4, <1>5, <1>6, WhoWrites

LEMMA CameraStaysKnown ==
  ASSUME IInv, Next,
         NEW x \in Client \ fresh, ~Settled(x)', ~undefined',
         NEW d \in Channel, camera[d].client = x
  PROVE  camera'[d].client = x
<1>0. /\ Explained
      /\ \A y \in Client \ fresh : (Open(y)' => Open(y)) /\ (Settled(y) => Settled(y)')
      /\ \A y \in Client, k \in Fd : close(k, y) /\ Home(k, y) => ~Open(y)'
      /\ \A y \in Client : ~Open(y)' \/ cause'[y] # "none" => Settled(y)'
  BY SettledFacts
<1> USE NoneAssumption DEF IInv, TypeOK, Phases, Homes, Explained, AgainClosed,
         ErasedClosed, LoopSettled, CameraSettled, MainHolds, Idle, NoCamera,
         NoViewers, MainType, CameraType, WorkerType, accept, Receive, Worker,
         mainVars, workerVars, history
<1>1. CASE camera' = camera
  BY <1>0, <1>1
<1>2. ASSUME NEW c \in Client, NEW f \in Fd, NEW ch \in Channel, CameraRequest(f, c, ch)
      PROVE  camera'[d].client = x
  <2>1. CASE ListUndefined
    BY <1>0, <1>2, <2>1 DEF CameraRequest
  <2>2. CASE ~ListUndefined /\ camera[ch].phase # "none"
    BY <1>0, <1>2, <2>2 DEF CameraRequest
  <2>3. CASE ~ListUndefined /\ camera[ch].phase = "none"
    <3>1. /\ camera' = [camera EXCEPT ![ch] = [phase |-> "waiting", fd |-> f, client |-> c]]
          /\ pool' = [pool EXCEPT ![ch] = NoViewers] /\ worker' = worker
      BY <1>0, <1>2, <2>3 DEF CameraRequest
    <3>2. worker[ch].pc = "idle" /\ camera[ch].client = NONE
      BY <2>3
    <3> QED
      BY <1>0, <3>1, <3>2
  <2> QED
    BY <2>1, <2>2, <2>3
<1>3. ASSUME NEW ch \in Channel, StartCamera(ch) PROVE camera'[d].client = x
  BY <1>0, <1>3 DEF StartCamera
<1>4. ASSUME NEW ch \in Channel, ReplyFails(ch) PROVE camera'[d].client = x
  BY <1>0, <1>4 DEF ReplyFails
<1>5. ASSUME NEW ch \in Channel, FreeCamera(ch) PROVE camera'[d].client = x
  BY <1>0, <1>5 DEF FreeCamera
<1>6. ASSUME NEW ch \in Channel, EraseChannel(ch) PROVE camera'[d].client = x
  BY <1>0, <1>6 DEF EraseChannel
<1> QED
  BY <1>1, <1>2, <1>3, <1>4, <1>5, <1>6, WhoWrites

LEMMA ViewerStaysKnown ==
  ASSUME IInv, Next,
         NEW x \in Client \ fresh, ~Settled(x)', ~undefined',
         NEW d \in Channel, NEW g \in Fd, pool[d][g] = x
  PROVE  pool'[d][g] = x
<1>0. /\ Explained
      /\ \A y \in Client \ fresh : (Open(y)' => Open(y)) /\ (Settled(y) => Settled(y)')
      /\ \A y \in Client, k \in Fd : close(k, y) /\ Home(k, y) => ~Open(y)'
      /\ \A y \in Client : ~Open(y)' \/ cause'[y] # "none" => Settled(y)'
  BY SettledFacts
<1> USE NoneAssumption DEF IInv, TypeOK, Phases, Homes, Explained, AgainClosed,
         ErasedClosed, LoopSettled, CameraSettled, MainHolds, Ahead, Idle, NoCamera,
         NoViewers, MainType, CameraType, WorkerType, accept, Receive, Worker,
         mainVars, workerVars, history
<1>1. CASE pool' = pool
  BY <1>0, <1>1
<1>2. ASSUME NEW c \in Client, NEW f \in Fd, NEW ch \in Channel, CameraRequest(f, c, ch)
      PROVE  pool'[d][g] = x
  <2>1. CASE ListUndefined
    BY <1>0, <1>2, <2>1 DEF CameraRequest
  <2>2. CASE ~ListUndefined /\ camera[ch].phase # "none"
    BY <1>0, <1>2, <2>2 DEF CameraRequest
  <2>3. CASE ~ListUndefined /\ camera[ch].phase = "none"
    <3>1. pool' = [pool EXCEPT ![ch] = NoViewers] /\ pool[ch] = NoViewers
      BY <1>0, <1>2, <2>3 DEF CameraRequest
    <3> QED
      BY <3>1
  <2> QED
    BY <2>1, <2>2, <2>3
<1>3. ASSUME InsertViewer PROVE pool'[d][g] = x
  <2>1. CASE pool[main.channel][main.fd] = NONE
    <3>1. main.fd \in Fd /\ main.channel \in Channel
      BY <1>0, <1>3 DEF InsertViewer
    <3>2. pool' = [pool EXCEPT ![main.channel][main.fd] = main.client] /\ worker' = worker
      BY <1>0, <1>3, <2>1 DEF InsertViewer
    <3> QED
      BY <1>0, <2>1, <3>1, <3>2
  <2>2. CASE pool[main.channel][main.fd] # NONE
    BY <1>0, <1>3, <2>2 DEF InsertViewer
  <2> QED
    BY <2>1, <2>2
<1>4. ASSUME NEW ch \in Channel, ReplyFails(ch) PROVE pool'[d][g] = x
  BY <1>0, <1>4 DEF ReplyFails
<1>5. ASSUME NEW ch \in Channel, EraseViewer(ch) PROVE pool'[d][g] = x
  BY <1>0, <1>5 DEF EraseViewer
<1>6. ASSUME NEW ch \in Channel, ClearPool(ch) PROVE pool'[d][g] = x
  BY <1>0, <1>6 DEF ClearPool
<1>7. ASSUME NEW ch \in Channel, FreeCamera(ch) PROVE pool'[d][g] = x
  BY <1>0, <1>7 DEF FreeCamera
<1> QED
  BY <1>1, <1>2, <1>3, <1>4, <1>5, <1>6, <1>7, WhoWrites

(* The entries about to be erased are settled.                             *)
LEMMA AgainStep ==
  ASSUME IInv, Next
  PROVE  (~undefined => AgainClosed)'
<1>0. /\ Explained
      /\ \A y \in Client \ fresh : (Open(y)' => Open(y)) /\ (Settled(y) => Settled(y)')
      /\ \A y \in Client, k \in Fd : close(k, y) /\ Home(k, y) => ~Open(y)'
      /\ \A y \in Client : ~Open(y)' \/ cause'[y] # "none" => Settled(y)'
  BY SettledFacts
<1> USE NoneAssumption DEF IInv, TypeOK, Phases, Homes, Explained, AgainClosed,
         ErasedClosed, LoopSettled, CameraSettled, MainHolds, Idle, NoCamera,
         NoViewers, MainType, CameraType, WorkerType, accept, Receive, Worker,
         mainVars, workerVars, history
<1>1. CASE main' = main
  BY <1>0, <1>1
<1>2. ASSUME NEW c \in Client, NEW f \in Fd, NEW ch \in Channel, CameraRequest(f, c, ch)
      PROVE  (~undefined => AgainClosed)'
  <2>1. CASE ListUndefined
    BY <1>0, <1>2, <2>1 DEF CameraRequest
  <2>2. CASE ~ListUndefined /\ camera[ch].phase # "none"
    BY <1>0, <1>2, <2>2 DEF CameraRequest
  <2>3. CASE ~ListUndefined /\ camera[ch].phase = "none"
    BY <1>0, <1>2, <2>3 DEF CameraRequest
  <2> QED
    BY <2>1, <2>2, <2>3
<1>3. ASSUME NEW c \in Client, NEW f \in Fd, NEW ch \in Channel, FindChannel(f, c, ch)
      PROVE  (~undefined => AgainClosed)'
  <2>1. CASE camera[ch].phase = "none"
    BY <1>0, <1>3, <2>1 DEF FindChannel
  <2>2. CASE camera[ch].phase # "none"
    BY <1>0, <1>3, <2>2 DEF FindChannel
  <2> QED
    BY <2>1, <2>2
<1>4. ASSUME CloseAgain PROVE (~undefined => AgainClosed)'
  BY <1>0, <1>4 DEF CloseAgain
<1>5. ASSUME CheckLimit PROVE (~undefined => AgainClosed)'
  <2>1. CASE main' = Idle
    BY <1>0, <1>5, <2>1 DEF CheckLimit
  <2>2. CASE /\ main' = [main EXCEPT !.pc = "insert"]
             /\ UNCHANGED <<sock, wrong>>
    BY <1>0, <1>5, <2>2 DEF CheckLimit
  <2> QED
    BY <1>0, <1>5, <2>1, <2>2 DEF CheckLimit
<1>6. ASSUME InsertViewer PROVE (~undefined => AgainClosed)'
  <2>1. CASE pool[main.channel][main.fd] = NONE
    BY <1>0, <1>6, <2>1 DEF InsertViewer
  <2>2. CASE pool[main.channel][main.fd] # NONE
    BY <1>0, <1>6, <2>2 DEF InsertViewer
  <2> QED
    BY <2>1, <2>2
<1> QED
  BY <1>1, <1>2, <1>3, <1>4, <1>5, <1>6, WhoWrites

LEMMA EraseStep ==
  ASSUME IInv, Next
  PROVE  (~undefined => ErasedClosed)'
<1>0. /\ Explained
      /\ \A y \in Client \ fresh : (Open(y)' => Open(y)) /\ (Settled(y) => Settled(y)')
      /\ \A y \in Client, k \in Fd : close(k, y) /\ Home(k, y) => ~Open(y)'
      /\ \A y \in Client : ~Open(y)' \/ cause'[y] # "none" => Settled(y)'
  BY SettledFacts
<1> USE NoneAssumption DEF IInv, TypeOK, Phases, Homes, Explained, AgainClosed,
         ErasedClosed, LoopSettled, CameraSettled, MainHolds, Idle, NoCamera,
         NoViewers, MainType, CameraType, WorkerType, accept, Receive, Worker,
         mainVars, workerVars, history
<1>1. CASE pool' = pool /\ worker' = worker
  BY <1>0, <1>1
<1>2. ASSUME NEW c \in Client, NEW f \in Fd, NEW ch \in Channel, CameraRequest(f, c, ch)
      PROVE  (~undefined => ErasedClosed)'
  <2>1. CASE ListUndefined
    BY <1>0, <1>2, <2>1 DEF CameraRequest
  <2>2. CASE ~ListUndefined /\ camera[ch].phase # "none"
    BY <1>0, <1>2, <2>2 DEF CameraRequest
  <2>3. CASE ~ListUndefined /\ camera[ch].phase = "none"
    <3>1. /\ camera' = [camera EXCEPT ![ch] = [phase |-> "waiting", fd |-> f, client |-> c]]
          /\ pool' = [pool EXCEPT ![ch] = NoViewers] /\ worker' = worker
      BY <1>0, <1>2, <2>3 DEF CameraRequest
    <3>2. worker[ch].pc = "idle" /\ camera[ch].client = NONE
      BY <2>3
    <3> QED
      BY <1>0, <3>1, <3>2
  <2> QED
    BY <2>1, <2>2, <2>3
<1>3. ASSUME InsertViewer PROVE (~undefined => ErasedClosed)'
  <2>1. CASE pool[main.channel][main.fd] = NONE
    <3>1. main.fd \in Fd /\ main.channel \in Channel
      BY <1>0, <1>3 DEF InsertViewer
    <3>2. pool' = [pool EXCEPT ![main.channel][main.fd] = main.client] /\ worker' = worker
      BY <1>0, <1>3, <2>1 DEF InsertViewer
    <3>3. \A d \in Channel : worker[d].pc = "erase" =>
            pool'[d][worker[d].at] = pool[d][worker[d].at]
      BY <2>1, <3>1, <3>2
    <3>4. \A d \in Channel : worker[d].pc = "erase" =>
            pool[d][worker[d].at] \in Client \ fresh
      OBVIOUS
    <3> QED
      BY <1>0, <3>2, <3>3, <3>4
  <2>2. CASE pool[main.channel][main.fd] # NONE
    BY <1>0, <1>3, <2>2 DEF InsertViewer
  <2> QED
    BY <2>1, <2>2
<1>4. ASSUME NEW ch \in Channel, ReplyFails(ch) PROVE (~undefined => ErasedClosed)'
  BY <1>0, <1>4 DEF ReplyFails
<1>5. ASSUME NEW f \in Fd, NEW ch \in Channel, CloseViewer(ch, f)
      PROVE  (~undefined => ErasedClosed)'
  BY <1>0, <1>5 DEF CloseViewer
<1>6. ASSUME NEW ch \in Channel, EraseViewer(ch) PROVE (~undefined => ErasedClosed)'
  BY <1>0, <1>6 DEF EraseViewer
<1>7. ASSUME NEW ch \in Channel, DeleteCamera(ch) PROVE (~undefined => ErasedClosed)'
  BY <1>0, <1>7 DEF DeleteCamera
<1>8. ASSUME NEW ch \in Channel, CloseNext(ch) PROVE (~undefined => ErasedClosed)'
  BY <1>0, <1>8 DEF CloseNext
<1>9. ASSUME NEW ch \in Channel, ClearPool(ch) PROVE (~undefined => ErasedClosed)'
  BY <1>0, <1>9 DEF ClearPool
<1>10. ASSUME NEW ch \in Channel, CloseCamera(ch) PROVE (~undefined => ErasedClosed)'
  BY <1>0, <1>10 DEF CloseCamera
<1>11. ASSUME NEW ch \in Channel, FreeCamera(ch) PROVE (~undefined => ErasedClosed)'
  BY <1>0, <1>11 DEF FreeCamera
<1>12. ASSUME NEW ch \in Channel, EraseChannel(ch) PROVE (~undefined => ErasedClosed)'
  BY <1>0, <1>12 DEF EraseChannel
<1> QED
  BY <1>1, <1>2, <1>3, <1>4, <1>5, <1>6, <1>7, <1>8, <1>9, <1>10, <1>11, <1>12, WhoWrites

LEMMA LoopStep ==
  ASSUME IInv, Next,
         NEW d \in Channel, NEW g \in Fd, NEW x \in Client, pool'[d][g] = x,
         ~undefined', worker'[d].pc \in {"loop", "camera", "free"}
  PROVE  Settled(x)' \/ (worker'[d].pc = "loop" /\ g \in Ahead(d)')
<1>0. /\ Explained
      /\ \A y \in Client \ fresh : (Open(y)' => Open(y)) /\ (Settled(y) => Settled(y)')
      /\ \A y \in Client, k \in Fd : close(k, y) /\ Home(k, y) => ~Open(y)'
      /\ \A y \in Client : ~Open(y)' \/ cause'[y] # "none" => Settled(y)'
  BY SettledFacts
<1> USE NoneAssumption DEF IInv, TypeOK, Phases, Homes, Explained, AgainClosed,
         ErasedClosed, LoopSettled, CameraSettled, MainHolds, Ahead, Idle, NoCamera,
         NoViewers, MainType, CameraType, WorkerType, accept, Receive, Worker,
         mainVars, workerVars, history
<1>1. CASE pool' = pool /\ worker' = worker
  BY <1>0, <1>1
<1>2. ASSUME NEW c \in Client, NEW f \in Fd, NEW ch \in Channel, CameraRequest(f, c, ch)
      PROVE  Settled(x)' \/ (worker'[d].pc = "loop" /\ g \in Ahead(d)')
  <2>1. CASE ListUndefined
    BY <1>0, <1>2, <2>1 DEF CameraRequest
  <2>2. CASE ~ListUndefined /\ camera[ch].phase # "none"
    BY <1>0, <1>2, <2>2, SMTT(30) DEF CameraRequest
  <2>3. CASE ~ListUndefined /\ camera[ch].phase = "none"
    <3>1. pool' = [pool EXCEPT ![ch] = NoViewers] /\ worker' = worker
      BY <1>0, <1>2, <2>3 DEF CameraRequest
    <3>2. d # ch /\ pool[d][g] = x
      BY <3>1
    <3> QED
      BY <1>0, <3>1, <3>2
  <2> QED
    BY <2>1, <2>2, <2>3
<1>3. ASSUME InsertViewer PROVE Settled(x)' \/ (worker'[d].pc = "loop" /\ g \in Ahead(d)')
  <2>1. CASE pool[main.channel][main.fd] = NONE
    <3>1. main.fd \in Fd /\ main.channel \in Channel /\ main.client \in Client
      BY <1>0, <1>3 DEF InsertViewer
    <3>2. /\ pool' = [pool EXCEPT ![main.channel][main.fd] = main.client] /\ worker' = worker
          /\ cause' = [cause EXCEPT ![main.client] =
                          IF Deleting(main.channel) THEN "overlap" ELSE @]
      BY <1>0, <1>3, <2>1 DEF InsertViewer
    <3>3. CASE d = main.channel /\ g = main.fd
      <4>1. x = main.client /\ Deleting(main.channel)
        BY <3>1, <3>2, <3>3 DEF Deleting
      <4>2. cause'[x] = "overlap"
        BY <3>1, <3>2, <4>1
      <4> QED
        BY <1>0, <4>2
    <3>4. CASE ~(d = main.channel /\ g = main.fd)
      <4>1. pool[d][g] = x
        BY <3>1, <3>2, <3>4
      <4>2. g \in Ahead(d) => g \in Ahead(d)'
        BY <3>2, <4>1
      <4> QED
        BY <1>0, <3>2, <4>1, <4>2
    <3> QED
      BY <3>3, <3>4
  <2>2. CASE pool[main.channel][main.fd] # NONE
    BY <1>0, <1>3, <2>2 DEF InsertViewer
  <2> QED
    BY <2>1, <2>2
<1>4. ASSUME NEW ch \in Channel, ReplyFails(ch)
      PROVE  Settled(x)' \/ (worker'[d].pc = "loop" /\ g \in Ahead(d)')
  BY <1>0, <1>4 DEF ReplyFails
<1>5. ASSUME NEW f \in Fd, NEW ch \in Channel, CloseViewer(ch, f)
      PROVE  Settled(x)' \/ (worker'[d].pc = "loop" /\ g \in Ahead(d)')
  BY <1>0, <1>5 DEF CloseViewer
<1>6. ASSUME NEW ch \in Channel, EraseViewer(ch)
      PROVE  Settled(x)' \/ (worker'[d].pc = "loop" /\ g \in Ahead(d)')
  BY <1>0, <1>6 DEF EraseViewer
<1>7. ASSUME NEW ch \in Channel, DeleteCamera(ch)
      PROVE  Settled(x)' \/ (worker'[d].pc = "loop" /\ g \in Ahead(d)')
  <2>1. pool' = pool /\ worker' = [worker EXCEPT ![ch] =
          [pc |-> IF Size(ch) = 0 THEN "camera" ELSE "loop", at |-> NONE]]
    BY <1>0, <1>7 DEF DeleteCamera
  <2>2. CASE d = ch
    <3>1. Size(ch) # 0
      <4>1. {k \in Fd : pool[ch][k] # NONE} # {}
        BY <2>1, <2>2
      <4>2. IsFiniteSet({k \in Fd : pool[ch][k] # NONE})
        BY FdAssumption, FS_Subset
      <4> QED
        BY <4>1, <4>2, FS_EmptySet DEF Size
    <3> QED
      BY <2>1, <2>2, <3>1
  <2>3. CASE d # ch
    BY <1>0, <1>0, <2>1, <2>3
  <2> QED
    BY <2>2, <2>3
<1>8. ASSUME NEW ch \in Channel, CloseNext(ch)
      PROVE  Settled(x)' \/ (worker'[d].pc = "loop" /\ g \in Ahead(d)')
  <2> DEFINE m == Min(Ahead(ch))
  <2>1. m \in Ahead(ch) /\ Ahead(ch)' = Ahead(ch) \ {m}
    <3> HIDE DEF Ahead, TypeOK
    <3> QED
      BY <1>0, <1>8, AheadShrinks
  <2>2. /\ close(m, pool[ch][m])
        /\ worker' = [worker EXCEPT ![ch] = [pc |-> "loop", at |-> m]]
        /\ worker[ch].pc = "loop" /\ pool' = pool
    BY <1>0, <1>8 DEF CloseNext
  <2> HIDE DEF m
  <2>3. CASE d = ch /\ g = m
    BY <1>0, <1>0, <2>1, <2>2, <2>3
  <2>4. CASE d = ch /\ g # m
    <3> HIDE DEF Ahead
    <3> QED
      BY <1>0, <1>0, <2>1, <2>2, <2>4
  <2>5. CASE d # ch
    BY <1>0, <1>0, <2>2, <2>5
  <2> QED
    BY <2>3, <2>4, <2>5
<1>9. ASSUME NEW ch \in Channel, ClearPool(ch)
      PROVE  Settled(x)' \/ (worker'[d].pc = "loop" /\ g \in Ahead(d)')
  BY <1>0, <1>9 DEF ClearPool
<1>10. ASSUME NEW ch \in Channel, CloseCamera(ch)
       PROVE  Settled(x)' \/ (worker'[d].pc = "loop" /\ g \in Ahead(d)')
  BY <1>0, <1>10 DEF CloseCamera
<1>11. ASSUME NEW ch \in Channel, FreeCamera(ch)
       PROVE  Settled(x)' \/ (worker'[d].pc = "loop" /\ g \in Ahead(d)')
  BY <1>0, <1>11 DEF FreeCamera
<1>12. ASSUME NEW ch \in Channel, EraseChannel(ch)
       PROVE  Settled(x)' \/ (worker'[d].pc = "loop" /\ g \in Ahead(d)')
  BY <1>0, <1>12 DEF EraseChannel
<1> QED
  BY <1>1, <1>2, <1>3, <1>4, <1>5, <1>6, <1>7, <1>8, <1>9, <1>10, <1>11, <1>12, WhoWrites

LEMMA CameraSettledStep ==
  ASSUME IInv, Next
  PROVE  (~undefined => CameraSettled)'
<1>0. /\ Explained
      /\ \A y \in Client \ fresh : (Open(y)' => Open(y)) /\ (Settled(y) => Settled(y)')
      /\ \A y \in Client, k \in Fd : close(k, y) /\ Home(k, y) => ~Open(y)'
      /\ \A y \in Client : ~Open(y)' \/ cause'[y] # "none" => Settled(y)'
  BY SettledFacts
<1> USE NoneAssumption DEF IInv, TypeOK, Phases, Homes, Explained, AgainClosed,
         ErasedClosed, LoopSettled, CameraSettled, MainHolds, Idle, NoCamera,
         NoViewers, MainType, CameraType, WorkerType, accept, Receive, Worker,
         mainVars, workerVars, history
<1>1. CASE camera' = camera /\ worker' = worker
  BY <1>0, <1>1
<1>2. ASSUME NEW c \in Client, NEW f \in Fd, NEW ch \in Channel, CameraRequest(f, c, ch)
      PROVE  (~undefined => CameraSettled)'
  <2>1. CASE ListUndefined
    BY <1>0, <1>2, <2>1 DEF CameraRequest
  <2>2. CASE ~ListUndefined /\ camera[ch].phase # "none"
    BY <1>0, <1>2, <2>2 DEF CameraRequest
  <2>3. CASE ~ListUndefined /\ camera[ch].phase = "none"
    <3>1. /\ camera' = [camera EXCEPT ![ch] = [phase |-> "waiting", fd |-> f, client |-> c]]
          /\ pool' = [pool EXCEPT ![ch] = NoViewers] /\ worker' = worker
      BY <1>0, <1>2, <2>3 DEF CameraRequest
    <3>2. worker[ch].pc = "idle" /\ camera[ch].client = NONE
      BY <2>3
    <3> QED
      BY <1>0, <3>1, <3>2
  <2> QED
    BY <2>1, <2>2, <2>3
<1>3. ASSUME NEW ch \in Channel, StartCamera(ch) PROVE (~undefined => CameraSettled)'
  BY <1>0, <1>3 DEF StartCamera
<1>4. ASSUME NEW ch \in Channel, ReplyFails(ch) PROVE (~undefined => CameraSettled)'
  BY <1>0, <1>4 DEF ReplyFails
<1>5. ASSUME NEW f \in Fd, NEW ch \in Channel, CloseViewer(ch, f)
      PROVE  (~undefined => CameraSettled)'
  BY <1>0, <1>5 DEF CloseViewer
<1>6. ASSUME NEW ch \in Channel, EraseViewer(ch) PROVE (~undefined => CameraSettled)'
  BY <1>0, <1>6 DEF EraseViewer
<1>7. ASSUME NEW ch \in Channel, DeleteCamera(ch) PROVE (~undefined => CameraSettled)'
  BY <1>0, <1>7 DEF DeleteCamera
<1>8. ASSUME NEW ch \in Channel, CloseNext(ch) PROVE (~undefined => CameraSettled)'
  BY <1>0, <1>8 DEF CloseNext
<1>9. ASSUME NEW ch \in Channel, ClearPool(ch) PROVE (~undefined => CameraSettled)'
  BY <1>0, <1>9 DEF ClearPool
<1>10. ASSUME NEW ch \in Channel, CloseCamera(ch) PROVE (~undefined => CameraSettled)'
  BY <1>0, <1>10 DEF CloseCamera
<1>11. ASSUME NEW ch \in Channel, FreeCamera(ch) PROVE (~undefined => CameraSettled)'
  BY <1>0, <1>11 DEF FreeCamera
<1>12. ASSUME NEW ch \in Channel, EraseChannel(ch) PROVE (~undefined => CameraSettled)'
  BY <1>0, <1>12 DEF EraseChannel
<1> QED
  BY <1>1, <1>2, <1>3, <1>4, <1>5, <1>6, <1>7, <1>8, <1>9, <1>10, <1>11, <1>12, WhoWrites

LEMMA ExplainedStep ==
  ASSUME IInv, Next
  PROVE  (~undefined => Explained)'
<1> SUFFICES ASSUME ~undefined' PROVE Explained'
  OBVIOUS
<1>1. ASSUME NEW x \in Client PROVE (Settled(x) \/ Known(x))'
  <2> SUFFICES ASSUME ~Settled(x)' PROVE Known(x)'
    OBVIOUS
  <2>1. CASE x \in fresh
    BY <2>1, AcceptedIsKnown DEF Settled, Known
  <2>2. CASE x \notin fresh
    <3>1. Known(x)
      BY <2>2, SettledFacts DEF Explained
    <3>2. CASE \E g \in Fd : <<g, x>> \in watchers
      BY <2>2, <3>2, WatcherStaysKnown DEF Known
    <3>3. CASE main.client = x
      BY <2>2, <3>3, RequestStaysKnown DEF Known
    <3>4. CASE \E d \in Channel : camera[d].client = x
      BY <2>2, <3>4, CameraStaysKnown DEF Known
    <3>5. CASE \E d \in Channel, g \in Fd : pool[d][g] = x
      BY <2>2, <3>5, ViewerStaysKnown DEF Known
    <3> QED
      BY <3>1, <3>2, <3>3, <3>4, <3>5 DEF Known
  <2> QED
    BY <2>1, <2>2
<1>2. AgainClosed'
  BY AgainStep
<1>3. ErasedClosed'
  BY EraseStep
<1>4. CameraSettled'
  BY CameraSettledStep
<1>5. ASSUME NEW d \in Channel, worker'[d].pc \in {"loop", "camera", "free"},
             NEW g \in Fd, pool'[d][g] # NONE
      PROVE  (\/ Settled(pool[d][g])
              \/ worker[d].pc = "loop" /\ g \in Ahead(d))'
  <2>1. PICK x \in Client : pool'[d][g] = x
    BY <1>5, TypeOKStep DEF TypeOK
  <2>2. Settled(x)' \/ (worker'[d].pc = "loop" /\ g \in Ahead(d)')
    BY <1>5, <2>1, LoopStep
  <2> QED
    BY <2>1, <2>2 DEF Settled, Open
<1>6. LoopSettled'
  BY <1>5 DEF LoopSettled
<1> QED
  BY <1>1, <1>2, <1>3, <1>4, <1>6 DEF Explained

-----------------------------------------------------------------------------
(* The size of a pool is a number, and grows by the viewer added only.     *)
LEMMA SizeType ==
  ASSUME NEW ch \in Channel
  PROVE  Size(ch) \in Nat /\ Size(ch)' \in Nat
<1>1. \A S \in SUBSET Fd : Cardinality(S) \in Nat
  BY FdAssumption, FS_Subset, FS_CardinalityType
<1>2. /\ {f \in Fd : pool[ch][f] # NONE} \in SUBSET Fd
      /\ {f \in Fd : pool'[ch][f] # NONE} \in SUBSET Fd
  OBVIOUS
<1> QED
  BY <1>1, <1>2 DEF Size

LEMMA FewerViewers ==
  ASSUME NEW ch \in Channel, \A f \in Fd : pool'[ch][f] # NONE => pool[ch][f] # NONE
  PROVE  Size(ch)' <= Size(ch)
<1> DEFINE S == {f \in Fd : pool[ch][f] # NONE}
           T == {f \in Fd : pool'[ch][f] # NONE}
<1>1. S \subseteq Fd /\ T \subseteq S
  OBVIOUS
<1>2. IsFiniteSet(S)
  BY <1>1, FdAssumption, FS_Subset
<1>3. Cardinality(T) <= Cardinality(S)
  BY <1>1, <1>2, FS_Subset
<1> QED
  BY <1>3 DEF Size

LEMMA OneMoreViewer ==
  ASSUME NEW ch \in Channel, NEW g \in Fd,
         \A f \in Fd \ {g} : pool'[ch][f] # NONE => pool[ch][f] # NONE
  PROVE  Size(ch)' <= Size(ch) + 1
<1> DEFINE S == {f \in Fd : pool[ch][f] # NONE}
           T == {f \in Fd : pool'[ch][f] # NONE}
<1>1. S \subseteq Fd /\ T \subseteq S \cup {g}
  OBVIOUS
<1> HIDE DEF S, T
<1>2. IsFiniteSet(S)
  BY <1>1, FdAssumption, FS_Subset
<1>3. IsFiniteSet(S \cup {g}) /\ Cardinality(S \cup {g}) <= Cardinality(S) + 1
  BY <1>2, FS_AddElement, FS_CardinalityType
<1>4. Cardinality(T) <= Cardinality(S \cup {g})
  BY <1>1, <1>3, FS_Subset
<1>5. Cardinality(T) \in Nat /\ Cardinality(S) \in Nat /\ Cardinality(S \cup {g}) \in Nat
  BY <1>1, <1>2, <1>3, FS_Subset, FS_CardinalityType
<1>6. Cardinality(T) <= Cardinality(S) + 1
  BY <1>3, <1>4, <1>5
<1> QED
  BY <1>6 DEF Size, S, T

(* Where the main thread is past the limit, the check still holds.         *)
LEMMA CheckedStep ==
  ASSUME IInv, Next,
         main'.pc = "insert"
  PROVE  /\ main.channel \in Channel /\ main'.channel = main.channel
         /\ Size(main.channel) <= VIEWERS_LIMIT
<1> USE DEF IInv, TypeOK, Phases, Counted, Idle, accept, Receive, Worker, mainVars,
         workerVars, history, close
<1>1. CASE main' = main
  BY <1>1
<1>2. ASSUME NEW c \in Client, NEW f \in Fd, NEW ch \in Channel, CameraRequest(f, c, ch)
      PROVE  /\ main.channel \in Channel /\ main'.channel = main.channel
             /\ Size(main.channel) <= VIEWERS_LIMIT
  <2>1. CASE ListUndefined
    BY <1>2, <2>1 DEF CameraRequest
  <2>2. CASE ~ListUndefined /\ camera[ch].phase # "none"
    BY <1>2, <2>2 DEF CameraRequest
  <2>3. CASE ~ListUndefined /\ camera[ch].phase = "none"
    BY <1>2, <2>3 DEF CameraRequest
  <2> QED
    BY <2>1, <2>2, <2>3
<1>3. ASSUME NEW c \in Client, NEW f \in Fd, NEW ch \in Channel, FindChannel(f, c, ch)
      PROVE  /\ main.channel \in Channel /\ main'.channel = main.channel
             /\ Size(main.channel) <= VIEWERS_LIMIT
  <2>1. CASE camera[ch].phase = "none"
    BY <1>3, <2>1 DEF FindChannel
  <2>2. CASE camera[ch].phase # "none"
    BY <1>3, <2>2 DEF FindChannel
  <2> QED
    BY <2>1, <2>2
<1>4. ASSUME CloseAgain
      PROVE  /\ main.channel \in Channel /\ main'.channel = main.channel
             /\ Size(main.channel) <= VIEWERS_LIMIT
  BY <1>4 DEF CloseAgain
<1>5. ASSUME CheckLimit
      PROVE  /\ main.channel \in Channel /\ main'.channel = main.channel
             /\ Size(main.channel) <= VIEWERS_LIMIT
  <2>1. CASE main' = Idle
    BY <1>5, <2>1 DEF CheckLimit
  <2>2. CASE /\ main' = [main EXCEPT !.pc = "insert"]
             /\ UNCHANGED <<sock, wrong>>
    BY <1>5, <2>2 DEF CheckLimit
  <2> QED
    BY <1>5, <2>1, <2>2 DEF CheckLimit
<1>6. ASSUME InsertViewer
      PROVE  /\ main.channel \in Channel /\ main'.channel = main.channel
             /\ Size(main.channel) <= VIEWERS_LIMIT
  BY <1>6 DEF InsertViewer
<1> QED
  BY <1>1, <1>2, <1>3, <1>4, <1>5, <1>6, WhoWrites

(* Nobody but the main thread adds a viewer.                               *)
LEMMA ShrinkStep ==
  ASSUME IInv, Next,
         ~InsertViewer, NEW d \in Channel, NEW g \in Fd
  PROVE  pool'[d][g] # NONE => pool[d][g] # NONE
<1> USE DEF IInv, TypeOK, Phases, NoViewers, accept, Receive, Worker, mainVars,
         workerVars, history, close
<1>1. CASE pool' = pool
  BY <1>1
<1>2. ASSUME NEW c \in Client, NEW f \in Fd, NEW ch \in Channel, CameraRequest(f, c, ch)
      PROVE  pool'[d][g] # NONE => pool[d][g] # NONE
  BY <1>2 DEF CameraRequest
<1>3. ASSUME InsertViewer PROVE pool'[d][g] # NONE => pool[d][g] # NONE
  BY <1>3
<1>4. ASSUME NEW ch \in Channel, ReplyFails(ch)
      PROVE  pool'[d][g] # NONE => pool[d][g] # NONE
  BY <1>4 DEF ReplyFails
<1>5. ASSUME NEW ch \in Channel, EraseViewer(ch)
      PROVE  pool'[d][g] # NONE => pool[d][g] # NONE
  BY <1>5 DEF EraseViewer
<1>6. ASSUME NEW ch \in Channel, ClearPool(ch)
      PROVE  pool'[d][g] # NONE => pool[d][g] # NONE
  BY <1>6 DEF ClearPool
<1>7. ASSUME NEW ch \in Channel, FreeCamera(ch)
      PROVE  pool'[d][g] # NONE => pool[d][g] # NONE
  BY <1>7 DEF FreeCamera
<1> QED
  BY <1>1, <1>2, <1>3, <1>4, <1>5, <1>6, <1>7, WhoWrites

LEMMA CountedStep ==
  ASSUME IInv, Next
  PROVE  Counted'
<1>1. (main.pc = "insert" => Size(main.channel) <= VIEWERS_LIMIT)'
  <2> SUFFICES ASSUME main'.pc = "insert" PROVE Size(main.channel)' <= VIEWERS_LIMIT
    OBVIOUS
  <2>1. PICK ch \in Channel : ch = main.channel /\ ch = main'.channel
    BY CheckedStep
  <2>2. Size(ch) <= VIEWERS_LIMIT
    BY <2>1, CheckedStep
  <2>3. ~InsertViewer
    BY DEF InsertViewer, Idle
  <2>4. Size(ch)' <= Size(ch)
    BY <2>3, ShrinkStep, FewerViewers
  <2>5. Size(ch)' <= VIEWERS_LIMIT
    BY <2>2, <2>4, SizeType, ViewersLimitAssumption
  <2> QED
    BY <2>1, <2>5 DEF Size
<1>2. ASSUME NEW ch \in Channel PROVE Size(ch)' <= VIEWERS_LIMIT + 1
  <2>1. CASE InsertViewer /\ ch = main.channel
    <3>1. main.fd \in Fd /\ Size(ch) <= VIEWERS_LIMIT
      BY <2>1 DEF InsertViewer, IInv, Phases, Counted
    <3>2. \A f \in Fd \ {main.fd} : pool'[ch][f] # NONE => pool[ch][f] # NONE
      BY <2>1 DEF InsertViewer, IInv, TypeOK
    <3>3. Size(ch)' <= Size(ch) + 1
      BY <3>1, <3>2, OneMoreViewer
    <3> QED
      BY <3>1, <3>3, SizeType, ViewersLimitAssumption
  <2>2. CASE ~(InsertViewer /\ ch = main.channel)
    <3>1. \A f \in Fd : pool'[ch][f] # NONE => pool[ch][f] # NONE
      <4>1. CASE InsertViewer
        BY <2>2, <4>1 DEF InsertViewer, IInv, TypeOK
      <4> QED
        BY <4>1, ShrinkStep
    <3>2. Size(ch)' <= Size(ch)
      BY <3>1, FewerViewers
    <3>3. Size(ch) <= VIEWERS_LIMIT + 1
      BY DEF IInv, Counted, ViewersBounded
    <3> QED
      BY <3>2, <3>3, SizeType, ViewersLimitAssumption
  <2> QED
    BY <2>1, <2>2
<1> QED
  BY <1>1, <1>2 DEF Counted, ViewersBounded

-----------------------------------------------------------------------------
(* The initial state, and a step that changes nothing.                     *)
LEMMA InitInv == Init => IInv
<1> SUFFICES ASSUME Init PROVE IInv
  OBVIOUS
<1> USE DEF Init
<1>1. TypeOK
  BY RecordTypes DEF TypeOK, WorkerType
<1>2. Phases
  BY NoneAssumption DEF Phases, Idle, NoCamera
<1>3. Homes
  BY DEF Homes, Idle, NoCamera, NoViewers
<1>4. Owned
  BY DEF Owned, Valid, Apart, MainHolds, CameraHolds, Entry, Idle, NoCamera,
     NoViewers, Held
<1>5. WrongCloseOnlyAfterDouble
  BY DEF WrongCloseOnlyAfterDouble
<1>6. Explained
  BY NoneAssumption DEF Explained, AgainClosed, ErasedClosed, LoopSettled, CameraSettled,
                        Settled, Open, Idle
<1>7. Counted
  <2>1. ASSUME NEW ch \in Channel PROVE Size(ch) = 0
    <3>1. {f \in Fd : pool[ch][f] # NONE} = {}
      BY DEF NoViewers
    <3> QED
      BY <3>1, FS_EmptySet DEF Size
  <2> QED
    BY <2>1, ViewersLimitAssumption DEF Counted, ViewersBounded, Idle
<1> QED
  BY <1>1, <1>2, <1>3, <1>4, <1>5, <1>6, <1>7 DEF IInv

LEMMA Stutter == IInv /\ UNCHANGED vars => IInv'
<1> SUFFICES ASSUME IInv, UNCHANGED vars PROVE IInv'
  OBVIOUS
<1> USE DEF vars
<1>1. TypeOK' /\ Phases' /\ Homes' /\ WrongCloseOnlyAfterDouble'
  BY DEF IInv, TypeOK, Phases, Homes, Home, WrongCloseOnlyAfterDouble
<1>2. Owned'
  BY DEF IInv, Owned, Valid, Apart, MainHolds, CameraHolds, Entry, Ahead, Held
<1>3. (~undefined => Explained)'
  BY DEF IInv, Explained, AgainClosed, ErasedClosed, LoopSettled, CameraSettled,
         Settled, Known, Open, Ahead
<1>4. Counted'
  BY DEF IInv, Counted, ViewersBounded, Size
<1> QED
  BY <1>1, <1>2, <1>3, <1>4 DEF IInv

-----------------------------------------------------------------------------
(* Every step keeps the inductive invariant.                               *)
LEMMA IInvStep == IInv /\ [Next]_vars => IInv'
<1>1. ASSUME IInv, Next PROVE IInv'
  <2>1. TypeOK' /\ Phases' /\ Homes'
    BY <1>1, TypeOKStep, PhasesStep, HomesStep
  <2>2. Owned' /\ WrongCloseOnlyAfterDouble'
    BY <1>1, ValidStep, ApartStep, WrongCloseStep DEF Owned
  <2>3. (~undefined => Explained)' /\ Counted'
    BY <1>1, ExplainedStep, CountedStep
  <2> QED
    BY <2>1, <2>2, <2>3 DEF IInv
<1> QED
  BY <1>1, Stutter

(* The inductive invariant holds in every reachable state.                 *)
LEMMA Invariance == Spec => []IInv
BY InitInv, IInvStep, PTL DEF Spec

(* The tables keep their types through every interleaving of the main      *)
(* thread, the workers and the state server.                               *)
THEOREM TypeCorrect == Spec => []TypeOK
<1>1. IInv => TypeOK
  BY DEF IInv
<1> QED
  BY <1>1, Invariance, PTL

(* Although delete_viewer closes a descriptor before it erases the entry,  *)
(* and the kernel gives the number out again at once, an entry that no     *)
(* thread is about to erase, and a registered camera, mean the connection  *)
(* that made the request - until a descriptor is closed twice.             *)
THEOREM EntriesAreTrue == Spec => []EntryNamesItsViewer
<1>1. IInv => EntryNamesItsViewer
  BY DEF IInv, Owned, Valid, CameraHolds, EntryNamesItsViewer
<1> QED
  BY <1>1, Invariance, PTL

(* The second close in receive_request_cb of a camera whose channel exists *)
(* is the only root of a thread closing somebody else's connection.        *)
THEOREM DoubleCloseIsTheRoot == Spec => []WrongCloseOnlyAfterDouble
<1>1. IInv => WrongCloseOnlyAfterDouble
  BY DEF IInv
<1> QED
  BY <1>1, Invariance, PTL

(* A connection that is open and in no table has one of the three causes:  *)
(* the 400 without a close, a viewer added while delete_camera runs, and   *)
(* ERASE_CAMERA after a reply that failed.                                 *)
THEOREM OrphansHaveACause == Spec => []OrphansExplained
<1>1. IInv => OrphansExplained
  BY DEF IInv, Explained, Settled, Known, Orphan, OrphansExplained
<1> QED
  BY <1>1, Invariance, PTL

(* The limit that do_viewer_request checks before it inserts is exceeded   *)
(* by one viewer at most, whatever the workers do in between.              *)
THEOREM PoolsAreBounded == Spec => []ViewersBounded
<1>1. IInv => ViewersBounded
  BY DEF IInv, Counted
<1> QED
  BY <1>1, Invariance, PTL
=============================================================================
