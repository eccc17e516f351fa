----------------------------- MODULE SocketTable -----------------------------
(***************************************************************************)
(* Who owns which socket of the streamer.  The main thread accepts a       *)
(* connection, reads its request and answers it: a camera is registered    *)
(* under its channel, a viewer is added to the viewer_info_pool of the     *)
(* channel's camera, everybody else gets an error and is closed.  The      *)
(* channel's worker closes viewers (delete_viewer) and the channel with    *)
(* all its viewers (delete_camera); the state server's thread accepts and  *)
(* closes connections of its own.  None of these tables has a lock, and    *)
(* all of them name a connection by its descriptor, a number the kernel    *)
(* gives out again as soon as it is closed.                                *)
(*                                                                         *)
(* The threads interleave at every access to what they share.  A channel   *)
(* has a worker of its own here, which covers channels that share one.     *)
(* Accesses to one std::map are taken to be atomic.  Beside its number the *)
(* model gives every table entry the connection it was made for.           *)
(***************************************************************************)
EXTENDS Integers, FiniteSets, FiniteSetsExt

CONSTANTS Fd,             \* descriptors the process may open
          Client,         \* connections to the streaming port
          Asker,          \* connections to the port of the state server
          Channel,
          VIEWERS_LIMIT,  \* `viewers' of streamer.conf
          NONE

ASSUME FdAssumption == Fd \subseteq Nat /\ IsFiniteSet(Fd)
ASSUME ViewersLimitAssumption == VIEWERS_LIMIT \in Nat
ASSUME NoneAssumption == NONE \notin Client \cup Asker \cup Fd
ASSUME PortsAssumption == Client \cap Asker = {}

VARIABLES sock,       \* the kernel's table: descriptor -> open connection
          fresh,      \* connections not accepted yet
          watchers,   \* receive_request_cb watchers, as <<fd, client>>
          main,       \* the request the main thread is handling
          camera,     \* per channel: its entry in camera_info_pool
          pool,       \* per channel and descriptor: viewer_info_pool
          worker,     \* per channel: where its worker is
          served,     \* connections of the state server, as <<fd, asker>>
          undefined,  \* a CAMERAS was used after its delete
          wrong,      \* history: connections closed by somebody else
          doubled,    \* history: some descriptor was closed twice
          cause       \* history: why a client may be left without a table

mainVars   == <<watchers, main>>
workerVars == <<camera, pool, worker>>
history    == <<wrong, doubled, cause>>
vars == <<sock, fresh, watchers, main, camera, pool, worker, served, undefined,
          wrong, doubled, cause>>

Open(c) == \E f \in Fd : sock[f] = c
NoCamera == [phase |-> "none", fd |-> NONE, client |-> NONE]
NoViewers == [f \in Fd |-> NONE]
Idle == [pc |-> "idle", fd |-> NONE, client |-> NONE, channel |-> NONE]
Size(ch) == Cardinality({f \in Fd : pool[ch][f] # NONE})

Init ==
  /\ sock = [f \in Fd |-> NONE]
  /\ fresh = Client \cup Asker
  /\ watchers = {} /\ served = {}
  /\ main = Idle
  /\ camera = [ch \in Channel |-> NoCamera]
  /\ pool = [ch \in Channel |-> NoViewers]
  /\ worker = [ch \in Channel |-> [pc |-> "idle", at |-> NONE]]
  /\ undefined = FALSE /\ wrong = {} /\ doubled = FALSE
  /\ cause = [c \in Client |-> "none"]

-----------------------------------------------------------------------------
(* The kernel gives out the lowest free descriptor.  Without one accept    *)
(* fails and its callback returns.                                         *)
accept(c, f) ==
  /\ c \in fresh /\ sock[f] = NONE
  /\ \A g \in Fd : sock[g] = NONE => f <= g
  /\ sock' = [sock EXCEPT ![f] = c]
  /\ fresh' = fresh \ {c}

(* close(f) by a thread that means connection c.                           *)
close(f, c) ==
  /\ sock' = [sock EXCEPT ![f] = NONE]
  /\ wrong' = IF sock[f] \in {c, NONE} THEN wrong ELSE wrong \cup {sock[f]}

-----------------------------------------------------------------------------
(* The main thread. *)

accept_cb(c, f) ==
  /\ main = Idle
  /\ c \in Client /\ accept(c, f)
  /\ watchers' = watchers \cup {<<f, c>>}
  /\ UNCHANGED <<main, workerVars, served, undefined, history>>

(* receive_request_cb starts for a watcher whose descriptor is readable,   *)
(* and the watcher is gone when it returns.                                *)
Receive(f, c) ==
  /\ main = Idle
  /\ <<f, c>> \in watchers /\ sock[f] # NONE
  /\ watchers' = watchers \ {<<f, c>>}

(* Mutant of RefuseRequest: the error reply is not followed by a close.    *)
RefuseRequest_no_close(f, c) ==
  /\ Receive(f, c)
  /\ UNCHANGED <<sock, fresh, main, workerVars, served, undefined, history>>

(* An error is sent and the connection closed: nothing was read, the       *)
(* request is bad, a limit is reached, the hand-off to a worker failed.    *)
RefuseRequest(f, c) ==
  /\ Receive(f, c)
  /\ close(f, c)
  /\ UNCHANGED <<fresh, main, workerVars, served, undefined, doubled, cause>>

(* STREAM_FORMAT_ERROR: 400 is sent, and nothing closes the connection.    *)
MalformedRequest(f, c) ==
  /\ Receive(f, c)
  /\ cause' = [cause EXCEPT ![c] = "malformed"]
  /\ UNCHANGED <<sock, fresh, main, workerVars, served, undefined, wrong, doubled>>

(* get_channel_list reads the IP of every CAMERAS in the pools.            *)
ListUndefined == \E ch \in Channel : camera[ch].phase = "freed"

(* A camera's POST.  get_channel_list, then do_camera_request: for a       *)
(* channel that exists it sends 400 and closes; else the channel is        *)
(* registered and handed to its worker.                                    *)
CameraRequest(f, c, ch) ==
  /\ Receive(f, c)
  /\ undefined' = ListUndefined
  /\ \/ /\ ~ListUndefined /\ camera[ch].phase # "none"
        /\ close(f, c)
        /\ main' = [pc |-> "again", fd |-> f, client |-> c, channel |-> ch]
        /\ UNCHANGED workerVars
     \/ /\ ~ListUndefined /\ camera[ch].phase = "none"
        /\ camera' = [camera EXCEPT ![ch] = [phase |-> "waiting", fd |-> f, client |-> c]]
        /\ pool' = [pool EXCEPT ![ch] = NoViewers]
        /\ UNCHANGED <<main, worker, sock, wrong>>
     \/ ListUndefined /\ UNCHANGED <<main, workerVars, sock, wrong>>
  /\ UNCHANGED <<fresh, served, doubled, cause>>

(* do_camera_request returned false: receive_request_cb sends 500 and      *)
(* closes the descriptor, which do_camera_request has closed already.      *)
CloseAgain ==
  /\ main.pc = "again"
  /\ close(main.fd, main.client)
  /\ main' = Idle
  /\ doubled' = TRUE
  /\ UNCHANGED <<fresh, watchers, workerVars, served, undefined, cause>>

(* A viewer's GET: do_viewer_request looks the channel up.  Without it     *)
(* (and without a source to relay from) 404 is sent.                       *)
FindChannel(f, c, ch) ==
  /\ Receive(f, c)
  /\ \/ /\ camera[ch].phase = "none"
        /\ close(f, c)
        /\ UNCHANGED main
     \/ /\ camera[ch].phase # "none"
        /\ main' = [pc |-> "limit", fd |-> f, client |-> c, channel |-> ch]
        /\ UNCHANGED <<sock, wrong>>
  /\ UNCHANGED <<fresh, workerVars, served, undefined, doubled, cause>>

(* The main thread uses the iterator it found: the CAMERAS must be alive.  *)
Alive == camera[main.channel].phase \notin {"none", "freed"}

UseDeleted ==
  /\ main.pc \in {"limit", "insert"} /\ ~Alive
  /\ undefined' = TRUE
  /\ UNCHANGED <<sock, fresh, mainVars, workerVars, served, history>>

(* Mutant of CheckLimit: `viewers' is not compared with the pool's size.   *)
CheckLimit_none ==
  /\ main.pc = "limit" /\ Alive
  /\ main' = [main EXCEPT !.pc = "insert"]
  /\ UNCHANGED <<sock, wrong, fresh, watchers, workerVars, served, undefined,
                 doubled, cause>>

(* 503 when the pool holds more than VIEWERS_LIMIT.                        *)
CheckLimit ==
  /\ main.pc = "limit" /\ Alive
  /\ \/ /\ Size(main.channel) > VIEWERS_LIMIT
        /\ close(main.fd, main.client)
        /\ main' = Idle
     \/ /\ Size(main.channel) <= VIEWERS_LIMIT
        /\ main' = [main EXCEPT !.pc = "insert"]
        /\ UNCHANGED <<sock, wrong>>
  /\ UNCHANGED <<fresh, watchers, workerVars, served, undefined, doubled, cause>>

Deleting(ch) == worker[ch].pc \in {"loop", "camera", "free", "drop"}

(* The viewer is added under its descriptor, unless the pool has an entry  *)
(* for it: "already in use", 500.  cause remembers that the worker was     *)
(* already deleting the channel.                                           *)
InsertViewer ==
  /\ main.pc = "insert" /\ Alive
  /\ \/ /\ pool[main.channel][main.fd] = NONE
        /\ pool' = [pool EXCEPT ![main.channel][main.fd] = main.client]
        /\ cause' = [cause EXCEPT ![main.client] =
                       IF Deleting(main.channel) THEN "overlap" ELSE @]
        /\ UNCHANGED <<sock, wrong>>
     \/ /\ pool[main.channel][main.fd] # NONE
        /\ close(main.fd, main.client)
        /\ UNCHANGED <<pool, cause>>
  /\ main' = Idle
  /\ UNCHANGED <<fresh, watchers, camera, worker, served, undefined, doubled>>

-----------------------------------------------------------------------------
(* The worker of a channel. *)

Worker(ch, pc, at) == worker' = [worker EXCEPT ![ch] = [pc |-> pc, at |-> at]]

(* async_read_cb replies 200 and starts the camera's watcher.              *)
StartCamera(ch) ==
  /\ worker[ch].pc = "idle" /\ camera[ch].phase = "waiting"
  /\ camera' = [camera EXCEPT ![ch].phase = "streaming"]
  /\ UNCHANGED <<sock, fresh, mainVars, pool, worker, served, undefined, history>>

(* The reply fails: ERASE_CAMERA, and the connection is not closed.  The   *)
(* viewers that are in the pool by then go with it.                        *)
ReplyFails(ch) ==
  /\ worker[ch].pc = "idle" /\ camera[ch].phase = "waiting"
  /\ camera' = [camera EXCEPT ![ch].phase = "freed"]
  /\ pool' = [pool EXCEPT ![ch] = NoViewers]
  /\ cause' = [c \in Client |->
                 IF c = camera[ch].client \/ \E f \in Fd : pool[ch][f] = c
                 THEN "reply" ELSE cause[c]]
  /\ Worker(ch, "drop", NONE)
  /\ UNCHANGED <<sock, fresh, mainVars, served, undefined, wrong, doubled>>

(* delete_viewer, after a write error: the descriptor is closed first ...  *)
CloseViewer(ch, f) ==
  /\ worker[ch].pc = "idle" /\ camera[ch].phase = "streaming"
  /\ pool[ch][f] # NONE
  /\ close(f, pool[ch][f])
  /\ Worker(ch, "erase", f)
  /\ UNCHANGED <<fresh, mainVars, camera, pool, served, undefined, doubled, cause>>

(* Mutant of EraseViewer: the entry stays in the pool.                     *)
EraseViewer_kept(ch) ==
  /\ worker[ch].pc = "erase"
  /\ Worker(ch, "idle", NONE)
  /\ UNCHANGED <<sock, fresh, mainVars, camera, pool, served, undefined, history>>

(* ... and its entry erased afterwards.                                    *)
EraseViewer(ch) ==
  /\ worker[ch].pc = "erase"
  /\ pool' = [pool EXCEPT ![ch][worker[ch].at] = NONE]
  /\ Worker(ch, "idle", NONE)
  /\ UNCHANGED <<sock, fresh, mainVars, camera, served, undefined, history>>

(* delete_camera.  The loop over the viewers is skipped for an empty pool. *)
DeleteCamera(ch) ==
  /\ worker[ch].pc = "idle" /\ camera[ch].phase = "streaming"
  /\ Worker(ch, IF Size(ch) = 0 THEN "camera" ELSE "loop", NONE)
  /\ UNCHANGED <<sock, fresh, mainVars, camera, pool, served, undefined, history>>

(* The entries the loop has still to visit, in the order of the map.       *)
Ahead(ch) == {f \in Fd : /\ pool[ch][f] # NONE
                         /\ worker[ch].at = NONE \/ worker[ch].at < f}

(* Mutant of CloseNext: the loop starts behind the first entry.            *)
CloseNext_skips(ch) ==
  /\ worker[ch].pc = "loop" /\ Ahead(ch) # {}
  /\ LET f == Min(Ahead(ch))
     IN  /\ IF worker[ch].at = NONE THEN UNCHANGED <<sock, wrong>>
            ELSE close(f, pool[ch][f])
         /\ Worker(ch, "loop", f)
  /\ UNCHANGED <<fresh, mainVars, camera, pool, served, undefined, doubled, cause>>

(* The loop closes the next viewer.                                        *)
CloseNext(ch) ==
  /\ worker[ch].pc = "loop" /\ Ahead(ch) # {}
  /\ LET f == Min(Ahead(ch))
     IN  close(f, pool[ch][f]) /\ Worker(ch, "loop", f)
  /\ UNCHANGED <<fresh, mainVars, camera, pool, served, undefined, doubled, cause>>

(* viewer_info_pool.clear().                                               *)
ClearPool(ch) ==
  /\ worker[ch].pc = "loop" /\ Ahead(ch) = {}
  /\ pool' = [pool EXCEPT ![ch] = NoViewers]
  /\ Worker(ch, "camera", NONE)
  /\ UNCHANGED <<sock, fresh, mainVars, camera, served, undefined, history>>

CloseCamera(ch) ==
  /\ worker[ch].pc = "camera"
  /\ close(camera[ch].fd, camera[ch].client)
  /\ Worker(ch, "free", NONE)
  /\ UNCHANGED <<fresh, mainVars, camera, pool, served, undefined, doubled, cause>>

(* delete cir_iter->second, the pool with it; the map keeps a NULL ...     *)
FreeCamera(ch) ==
  /\ worker[ch].pc = "free"
  /\ camera' = [camera EXCEPT ![ch].phase = "freed"]
  /\ pool' = [pool EXCEPT ![ch] = NoViewers]
  /\ Worker(ch, "drop", NONE)
  /\ UNCHANGED <<sock, fresh, mainVars, served, undefined, history>>

(* ... until the channel is erased from camera_info_pool.                  *)
EraseChannel(ch) ==
  /\ worker[ch].pc = "drop"
  /\ camera' = [camera EXCEPT ![ch] = NoCamera]
  /\ Worker(ch, "idle", NONE)
  /\ UNCHANGED <<sock, fresh, mainVars, pool, served, undefined, history>>

-----------------------------------------------------------------------------
(* The thread of the state server. *)

accept_request_cb(a, f) ==
  /\ a \in Asker /\ accept(a, f)
  /\ served' = served \cup {<<f, a>>}
  /\ UNCHANGED <<mainVars, workerVars, undefined, history>>

(* receive_cb refuses the request, or send_system_info_cb reads the IP and *)
(* the viewers of every channel and replies; both close.                   *)
send_system_info_cb(f, a) ==
  /\ <<f, a>> \in served /\ sock[f] # NONE
  /\ \/ /\ close(f, a)
        /\ served' = served \ {<<f, a>>}
        /\ UNCHANGED undefined
     \/ /\ ListUndefined
        /\ undefined' = TRUE
        /\ UNCHANGED <<sock, served, wrong>>
  /\ UNCHANGED <<fresh, mainVars, workerVars, doubled, cause>>

-----------------------------------------------------------------------------
MainStep ==
  \/ CloseAgain \/ CheckLimit \/ InsertViewer \/ UseDeleted
  \/ \E c \in Client, f \in Fd :
       \/ accept_cb(c, f) \/ RefuseRequest(f, c) \/ MalformedRequest(f, c)
       \/ \E ch \in Channel : CameraRequest(f, c, ch) \/ FindChannel(f, c, ch)

WorkerStep(ch) ==
  \/ StartCamera(ch) \/ ReplyFails(ch) \/ EraseViewer(ch)
  \/ DeleteCamera(ch) \/ CloseNext(ch) \/ ClearPool(ch)
  \/ CloseCamera(ch) \/ FreeCamera(ch) \/ EraseChannel(ch)
  \/ \E f \in Fd : CloseViewer(ch, f)

StateStep == \E a \in Asker, f \in Fd :
               accept_request_cb(a, f) \/ send_system_info_cb(f, a)

Next == ~undefined /\ (MainStep \/ StateStep \/ \E ch \in Channel : WorkerStep(ch))

Spec == Init /\ [][Next]_vars

-----------------------------------------------------------------------------
MainType == [pc : {"idle", "again", "limit", "insert"}, fd : Fd \cup {NONE},
             client : Client \cup {NONE}, channel : Channel \cup {NONE}]
CameraType == [phase : {"none", "waiting", "streaming", "freed"},
               fd : Fd \cup {NONE}, client : Client \cup {NONE}]
WorkerType == [pc : {"idle", "erase", "loop", "camera", "free", "drop"},
               at : Fd \cup {NONE}]

(* The tables hold descriptors and connections, the threads are at one of  *)
(* their steps.                                                            *)
TypeOK ==
  /\ sock \in [Fd -> Client \cup Asker \cup {NONE}]
  /\ fresh \subseteq Client \cup Asker
  /\ watchers \subseteq Fd \X Client /\ served \subseteq Fd \X Asker
  /\ main \in MainType
  /\ camera \in [Channel -> CameraType]
  /\ pool \in [Channel -> [Fd -> Client \cup {NONE}]]
  /\ worker \in [Channel -> WorkerType]
  /\ undefined \in BOOLEAN /\ doubled \in BOOLEAN
  /\ wrong \subseteq Client \cup Asker
  /\ cause \in [Client -> {"none", "malformed", "overlap", "reply"}]

(* do_viewer_request compares the size of the pool with `>' and inserts    *)
(* later, while the worker erases and clears: a channel never has more     *)
(* than VIEWERS_LIMIT + 1 viewers.                                         *)
ViewersBounded == \A ch \in Channel : Size(ch) <= VIEWERS_LIMIT + 1

(* The entries that no thread is about to erase: they stand for a viewer   *)
(* that is still connected.                                                *)
Entry(ch, f) ==
  /\ pool[ch][f] # NONE
  /\ \/ worker[ch].pc = "idle"
     \/ worker[ch].pc = "erase" /\ worker[ch].at # f
     \/ worker[ch].pc = "loop" /\ f \in Ahead(ch)

(* delete_viewer closes a descriptor before it erases the entry, and the   *)
(* number may be given out at once: still every entry of a viewer_info_pool*)
(* and every registered camera means the connection that made the request, *)
(* open under that very number, so that what a worker sends or closes is   *)
(* its own - as long as no descriptor was closed twice.                    *)
EntryNamesItsViewer ==
  ~doubled => \A ch \in Channel :
    /\ \A f \in Fd : Entry(ch, f) => sock[f] = pool[ch][f]
    /\ (camera[ch].phase \in {"waiting", "streaming"} /\ worker[ch].pc # "free")
         => sock[camera[ch].fd] = camera[ch].client

(* A thread closes somebody else's connection only after the second close  *)
(* of a camera whose channel existed already.                              *)
WrongCloseOnlyAfterDouble == wrong # {} => doubled

(* A client that is open and that no thread knows any more.                *)
Orphan(c) ==
  /\ Open(c)
  /\ \A f \in Fd : <<f, c>> \notin watchers
  /\ main.client # c
  /\ \A ch \in Channel : /\ camera[ch].client # c
                         /\ \A f \in Fd : pool[ch][f] # c

(* A connection is left open and unknown for three reasons only: its       *)
(* request was malformed; it is a viewer that was added while the worker   *)
(* was deleting the channel; the 200 for its camera could not be sent.     *)
OrphansExplained == ~undefined => \A c \in Client : Orphan(c) => cause[c] # "none"
=============================================================================
