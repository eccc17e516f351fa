---------------------------- MODULE CameraHandOff ----------------------------
(***************************************************************************)
(* How a camera gets from the main thread of the streamer to a worker.     *)
(* The main thread handles a camera's POST request: it checks the limit    *)
(* and the channel, picks a worker round-robin, registers the channel in   *)
(* that worker's camera_info_pool, and leaves a message in the data field  *)
(* of the worker's ev_async watcher.  The worker's loop wakes up, and      *)
(* async_read_cb takes the message, replies 200 and starts the camera's    *)
(* watcher.  There is one data field per worker and no lock.               *)
(*                                                                         *)
(* Main and workers interleave at every access to what they share: the     *)
(* pools, data, and the flag `sent' of the watcher, which is what          *)
(* ev_async_pending reads.  The watcher is started by the worker's thread, *)
(* and the main thread does not wait for that: it may serve a camera       *)
(* before the worker has run at all.  libev clears the flag when it queues *)
(* the callback (queued), before the callback runs; callbacks of other     *)
(* watchers of the same loop may run in between.  Accesses to one std::map *)
(* are taken to be atomic.                                                 *)
(***************************************************************************)
EXTENDS Integers, FiniteSets

CONSTANTS WORKTHREADS_SIZE,  \* number of worker threads
          Channel,           \* channel names
          Camera,            \* camera connections
          CHANNELS_LIMIT,    \* `channels' of streamer.conf
          NULL

ASSUME WorkthreadsAssumption == WORKTHREADS_SIZE \in Nat /\ WORKTHREADS_SIZE > 0
ASSUME LimitAssumption == CHANNELS_LIMIT \in Nat
ASSUME ChannelAssumption == IsFiniteSet(Channel)

(* An EV_ASYNC_DATA; freed marks a pointer that is left after `delete'.    *)
Message == [camera : Camera, channel : Channel, freed : BOOLEAN]

ASSUME NullAssumption == NULL \notin Camera /\ NULL \notin Message

Worker == 0 .. WORKTHREADS_SIZE - 1

VARIABLES connection,        \* per camera: what became of its connection
          asked,             \* per camera: the channel it asked for
          main,              \* where the main thread is, for which camera
          round_robin_val,
          camera_info_pool,  \* per worker and channel: the camera, or NULL
          watching,          \* per worker: channels with a started watcher
          data,              \* per worker: async_watcher->data
          sent,              \* per worker: ev_async_pending
          queued,            \* per worker: async_read_cb is about to run
          worker,            \* per worker: where its async_read_cb is
          started,           \* per worker: its async watcher is started
          undefined,         \* a freed message was read
          overlapped,        \* history: see PostData
          early              \* history: see SendAsync

mainVars   == <<main, round_robin_val>>
workerVars == <<queued, worker, started>>
vars == <<connection, asked, main, round_robin_val, camera_info_pool, watching,
          data, sent, queued, worker, started, undefined, overlapped, early>>

Registered(w, ch) == camera_info_pool[w][ch] # NULL

(* get_channel_list().size(); resource channels are not part of the model. *)
ChannelCount == Cardinality({wc \in Worker \X Channel : Registered(wc[1], wc[2])})

(* Mutant of camera_already_in: only the next worker is asked.             *)
camera_already_in_next(ch) == Registered(round_robin_val, ch)

camera_already_in(ch) == \E w \in Worker : Registered(w, ch)

(* get_workthread_through_round_robin moves on to this worker.             *)
NextWorker == (round_robin_val + 1) % WORKTHREADS_SIZE

Idle == [pc |-> "idle", camera |-> NULL, at |-> 0]

(* init_workthread_info_pool has created the workers' threads, which have  *)
(* not run yet, and allocated their watchers without initialising them:    *)
(* ev_async_pending may find anything.  data is written before it is read. *)
Init ==
  /\ connection = [c \in Camera |-> "closed"]
  /\ asked \in [Camera -> Channel]
  /\ main = Idle
  /\ round_robin_val = 0
  /\ camera_info_pool = [w \in Worker |-> [ch \in Channel |-> NULL]]
  /\ watching = [w \in Worker |-> {}]
  /\ data = [w \in Worker |-> NULL]
  /\ sent \in [Worker -> BOOLEAN]
  /\ queued = [w \in Worker |-> FALSE]
  /\ worker = [w \in Worker |-> [pc |-> "idle", message |-> NULL]]
  /\ started = [w \in Worker |-> FALSE]
  /\ undefined = FALSE
  /\ overlapped = [w \in Worker |-> FALSE]
  /\ early = [w \in Worker |-> {}]

(* A camera connects and sends its request (accept_cb, then its bytes).    *)
Connect(c, ch) ==
  /\ connection[c] \in {"closed", "leaked"}
  /\ connection' = [connection EXCEPT ![c] = "asking"]
  /\ asked' = [asked EXCEPT ![c] = ch]
  /\ UNCHANGED <<mainVars, camera_info_pool, watching, data, sent, workerVars,
                 undefined, overlapped, early>>

-----------------------------------------------------------------------------
(* The main thread replies with an error and closes the connection.        *)
Refuse(c) ==
  /\ connection' = [connection EXCEPT ![c] = "closed"]
  /\ main' = Idle

Goto(pc) == main' = [main EXCEPT !.pc = pc]

(* Mutant of receive_request_cb: the limit is not checked.                 *)
receive_request_cb_no_limit(c) ==
  /\ main = Idle /\ connection[c] = "asking"
  /\ main' = [pc |-> "dup", camera |-> c, at |-> 0]
  /\ connection' = [connection EXCEPT ![c] = "handling"]
  /\ UNCHANGED <<asked, round_robin_val, camera_info_pool, watching, data,
                 sent, workerVars, undefined, overlapped, early>>

(* receive_request_cb: 503 when there are more than CHANNELS_LIMIT.        *)
receive_request_cb(c) ==
  /\ main = Idle /\ connection[c] = "asking"
  /\ \/ ChannelCount > CHANNELS_LIMIT /\ Refuse(c)
     \/ /\ ChannelCount <= CHANNELS_LIMIT
        /\ main' = [pc |-> "dup", camera |-> c, at |-> 0]
        /\ connection' = [connection EXCEPT ![c] = "handling"]
  /\ UNCHANGED <<asked, round_robin_val, camera_info_pool, watching, data,
                 sent, workerVars, undefined, overlapped, early>>

(* Mutant of CheckChannel: the round-robin counter does not wrap around.   *)
CheckChannel_no_wrap ==
  /\ main.pc = "dup"
  /\ ~camera_already_in(asked[main.camera])
  /\ main' = [main EXCEPT !.pc = "pending", !.at = round_robin_val]
  /\ round_robin_val' = round_robin_val + 1
  /\ UNCHANGED <<connection, asked, camera_info_pool, watching, data, sent,
                 workerVars, undefined, overlapped, early>>

(* do_camera_request: 400 for a channel that exists, else the next worker. *)
CheckChannel ==
  /\ main.pc = "dup"
  /\ \/ /\ camera_already_in(asked[main.camera])
        /\ Refuse(main.camera)
        /\ UNCHANGED round_robin_val
     \/ /\ ~camera_already_in(asked[main.camera])
        /\ main' = [main EXCEPT !.pc = "pending", !.at = round_robin_val]
        /\ round_robin_val' = NextWorker
        /\ UNCHANGED connection
  /\ UNCHANGED <<asked, camera_info_pool, watching, data, sent, workerVars,
                 undefined, overlapped, early>>

(* Mutant of CheckPending: the pending flag is not looked at.              *)
CheckPending_skipped ==
  /\ main.pc = "pending"
  /\ Goto("insert")
  /\ UNCHANGED <<connection, asked, round_robin_val, camera_info_pool,
                 watching, data, sent, workerVars, undefined, overlapped,
                 early>>

(* ev_async_pending: a worker that has not woken up yet gets no message;   *)
(* do_camera_request returns false and the caller replies 500.             *)
CheckPending ==
  /\ main.pc = "pending"
  /\ \/ sent[main.at] /\ Refuse(main.camera)
     \/ ~sent[main.at] /\ Goto("insert") /\ UNCHANGED connection
  /\ UNCHANGED <<asked, round_robin_val, camera_info_pool, watching, data,
                 sent, workerVars, undefined, overlapped, early>>

InsertCamera ==
  /\ main.pc = "insert"
  /\ camera_info_pool' =
       [camera_info_pool EXCEPT ![main.at][asked[main.camera]] = main.camera]
  /\ Goto("post")
  /\ UNCHANGED <<connection, asked, round_robin_val, watching, data, sent,
                 workerVars, undefined, overlapped, early>>

(* async_watcher->data = async_data.  overlapped remembers that the worker *)
(* still had the callback of an earlier message before it or under way.    *)
PostData ==
  /\ main.pc = "post"
  /\ data' = [data EXCEPT ![main.at] = [camera  |-> main.camera,
                                        channel |-> asked[main.camera],
                                        freed   |-> FALSE]]
  /\ overlapped' = [overlapped EXCEPT
       ![main.at] = @ \/ queued[main.at] \/ worker[main.at].pc # "idle"]
  /\ Goto("send")
  /\ UNCHANGED <<connection, asked, round_robin_val, camera_info_pool,
                 watching, sent, workerVars, undefined, early>>

(* ev_async_send, and do_camera_request returns true.  early remembers the *)
(* channel when the worker has not started its watcher yet.                *)
SendAsync ==
  /\ main.pc = "send"
  /\ sent' = [sent EXCEPT ![main.at] = TRUE]
  /\ early' = [early EXCEPT ![main.at] =
                 IF started[main.at] THEN @ ELSE @ \cup {asked[main.camera]}]
  /\ main' = Idle
  /\ UNCHANGED <<connection, asked, round_robin_val, camera_info_pool,
                 watching, data, workerVars, undefined, overlapped>>

-----------------------------------------------------------------------------
(* The worker's thread begins: it initialises and starts its watcher.      *)
(* libev then takes the watcher as not sent, whatever was sent before; the *)
(* data field is left alone.                                               *)
workthread_entry(w) ==
  /\ ~started[w]
  /\ started' = [started EXCEPT ![w] = TRUE]
  /\ sent' = [sent EXCEPT ![w] = FALSE]
  /\ UNCHANGED <<connection, asked, mainVars, camera_info_pool, watching, data,
                 queued, worker, undefined, overlapped, early>>

(* libev, in the worker's loop: the wake-up is turned into a queued        *)
(* callback and the flag is cleared.                                       *)
QueueCallback(w) ==
  /\ started[w] /\ worker[w].pc = "idle" /\ sent[w] /\ ~queued[w]
  /\ sent' = [sent EXCEPT ![w] = FALSE]
  /\ queued' = [queued EXCEPT ![w] = TRUE]
  /\ UNCHANGED <<connection, asked, mainVars, camera_info_pool, watching, data,
                 worker, started, undefined, overlapped, early>>

(* async_read_cb reads data.  Without a message it returns; a message that *)
(* was freed may hold anything, and nothing is said of what follows.       *)
TakeData(w) ==
  /\ worker[w].pc = "idle" /\ queued[w]
  /\ queued' = [queued EXCEPT ![w] = FALSE]
  /\ \/ data[w] = NULL /\ UNCHANGED <<worker, undefined>>
     \/ /\ data[w] # NULL /\ ~data[w].freed
        /\ worker' = [worker EXCEPT ![w] = [pc |-> "reply", message |-> data[w]]]
        /\ UNCHANGED undefined
     \/ /\ data[w] # NULL /\ data[w].freed
        /\ undefined' = TRUE
        /\ UNCHANGED worker
  /\ UNCHANGED <<connection, asked, mainVars, camera_info_pool, watching, data,
                 sent, started, overlapped, early>>

(* The reply goes out and the camera's watcher is started.                 *)
ReplyOk(w) ==
  /\ worker[w].pc = "reply"
  /\ LET m == worker[w].message
     IN  /\ connection' = [connection EXCEPT ![m.camera] = "streaming"]
         /\ watching' = [watching EXCEPT ![w] = @ \cup {m.channel}]
  /\ worker' = [worker EXCEPT ![w].pc = "clear"]
  /\ UNCHANGED <<asked, mainVars, camera_info_pool, data, sent, queued,
                 started, undefined, overlapped, early>>

(* The reply fails: the message is freed and the channel erased.  Neither  *)
(* the connection is closed nor the data field cleared.                    *)
ReplyFails(w) ==
  /\ worker[w].pc = "reply"
  /\ LET m == worker[w].message
     IN  /\ connection' = [connection EXCEPT ![m.camera] = "leaked"]
         /\ camera_info_pool' = [camera_info_pool EXCEPT ![w][m.channel] = NULL]
         /\ data' = [data EXCEPT ![w] =
                       IF @ = m THEN [m EXCEPT !.freed = TRUE] ELSE @]
  /\ worker' = [worker EXCEPT ![w] = [pc |-> "idle", message |-> NULL]]
  /\ UNCHANGED <<asked, mainVars, watching, sent, queued, started, undefined,
                 overlapped, early>>

(* Mutant of ClearData: the data field keeps its message.                  *)
ClearData_kept(w) ==
  /\ worker[w].pc = "clear"
  /\ worker' = [worker EXCEPT ![w] = [pc |-> "idle", message |-> NULL]]
  /\ UNCHANGED <<connection, asked, mainVars, camera_info_pool, watching, data,
                 sent, queued, started, undefined, overlapped, early>>

(* The end of async_read_cb frees what the data field holds by then.       *)
ClearData(w) ==
  /\ worker[w].pc = "clear"
  /\ data' = [data EXCEPT ![w] = NULL]
  /\ worker' = [worker EXCEPT ![w] = [pc |-> "idle", message |-> NULL]]
  /\ UNCHANGED <<connection, asked, mainVars, camera_info_pool, watching, sent,
                 queued, started, undefined, overlapped, early>>

(* Mutant of delete_camera: the camera's watcher is not stopped.           *)
delete_camera_keeps_watcher(w, ch) ==
  /\ worker[w].pc = "idle" /\ ch \in watching[w]
  /\ connection' = [connection EXCEPT ![camera_info_pool[w][ch]] = "closed"]
  /\ camera_info_pool' = [camera_info_pool EXCEPT ![w][ch] = NULL]
  /\ UNCHANGED <<asked, mainVars, watching, data, sent, workerVars, undefined,
                 overlapped, early>>

(* receive_stream_cb finds that the camera has gone: delete_camera.        *)
delete_camera(w, ch) ==
  /\ worker[w].pc = "idle" /\ ch \in watching[w]
  /\ connection' = [connection EXCEPT ![camera_info_pool[w][ch]] = "closed"]
  /\ camera_info_pool' = [camera_info_pool EXCEPT ![w][ch] = NULL]
  /\ watching' = [watching EXCEPT ![w] = @ \ {ch}]
  /\ UNCHANGED <<asked, mainVars, data, sent, workerVars, undefined,
                 overlapped, early>>

MainStep == CheckChannel \/ CheckPending \/ InsertCamera \/ PostData \/ SendAsync
            \/ \E c \in Camera : receive_request_cb(c)

WorkerStep(w) == workthread_entry(w) \/ QueueCallback(w) \/ TakeData(w)
                 \/ ReplyOk(w) \/ ReplyFails(w) \/ ClearData(w)

Next ==
  /\ ~undefined
  /\ \/ MainStep
     \/ \E w \in Worker : WorkerStep(w) \/ \E ch \in Channel : delete_camera(w, ch)
     \/ \E c \in Camera, ch \in Channel : Connect(c, ch)

Spec == Init /\ [][Next]_vars

-----------------------------------------------------------------------------
(* The threads are at one of their steps and the shared fields hold what   *)
(* the code puts there.                                                    *)
TypeOK ==
  /\ connection \in [Camera -> {"closed", "asking", "handling", "streaming", "leaked"}]
  /\ asked \in [Camera -> Channel]
  /\ main \in [pc : {"idle", "dup", "pending", "insert", "post", "send"},
               camera : Camera \cup {NULL}, at : Worker]
  /\ round_robin_val \in Worker
  /\ camera_info_pool \in [Worker -> [Channel -> Camera \cup {NULL}]]
  /\ watching \in [Worker -> SUBSET Channel]
  /\ data \in [Worker -> Message \cup {NULL}]
  /\ sent \in [Worker -> BOOLEAN]
  /\ queued \in [Worker -> BOOLEAN]
  /\ worker \in [Worker -> [pc : {"idle", "reply", "clear"},
                            message : Message \cup {NULL}]]
  /\ started \in [Worker -> BOOLEAN]
  /\ undefined \in BOOLEAN
  /\ overlapped \in [Worker -> BOOLEAN]
  /\ early \in [Worker -> SUBSET Channel]

(* The check of camera_already_in and the insertion are separate steps of  *)
(* the main thread, and workers erase channels in between: still no        *)
(* channel is ever registered with two workers, so that do_viewer_request  *)
(* and delete_camera mean the same camera by a channel's name.             *)
ChannelOnOneWorker ==
  \A ch \in Channel : \A v, w \in Worker :
    Registered(v, ch) /\ Registered(w, ch) => v = w

(* The limit is checked with `>' before the insertion: the server takes    *)
(* one channel more than CHANNELS_LIMIT, and no race adds another one.     *)
ChannelsBounded == ChannelCount <= CHANNELS_LIMIT + 1

(* async_read_cb looks the channel of its message up and uses the result   *)
(* unchecked (ci_iter->second): whenever it does, the channel is           *)
(* registered with this worker, for the camera of the message, and its     *)
(* watcher is not started yet.                                             *)
HandlerFindsChannel ==
  \A w \in Worker : worker[w].pc = "reply" =>
    LET m == worker[w].message
    IN  /\ camera_info_pool[w][m.channel] = m.camera
        /\ m.channel \notin watching[w]
        /\ connection[m.camera] = "handling"

(* A started watcher belongs to a registered channel, on the connection    *)
(* of the camera that registered it, and to that channel alone.            *)
WatcherOwnsChannel ==
  \A w \in Worker : \A ch \in watching[w] :
    /\ Registered(w, ch)
    /\ connection[camera_info_pool[w][ch]] = "streaming"
    /\ asked[camera_info_pool[w][ch]] = ch
    /\ \A v \in Worker, d \in Channel :
         camera_info_pool[v][d] = camera_info_pool[w][ch] => v = w /\ d = ch

(* The message of a registered channel is on its way to the worker.        *)
InFlight(w, ch) ==
  \/ main.pc \in {"post", "send"} /\ main.at = w /\ asked[main.camera] = ch
  \/ /\ data[w] # NULL /\ data[w].channel = ch /\ ~data[w].freed
     /\ sent[w] \/ queued[w]
  \/ worker[w].pc = "reply" /\ worker[w].message.channel = ch

(* do_camera_request returned true, and no step will ever reply to the     *)
(* camera, start its watcher or free its channel.                          *)
Stranded(w, ch) == Registered(w, ch) /\ ch \notin watching[w] /\ ~InFlight(w, ch)

(* A hand-off is lost for one of two reasons only.  Either the main thread *)
(* posted to the worker while the callback of an earlier message was still *)
(* queued or running, between libev's clearing of the flag and the end of  *)
(* async_read_cb; or it sent this wake-up before the worker's own thread   *)
(* had started the watcher.                                                *)
LostByOverlapOrEarly ==
  \A w \in Worker, ch \in Channel :
    Stranded(w, ch) => overlapped[w] \/ ch \in early[w]

(* A freed message is read only after such an overlap, too.                *)
FreedReadOnlyByOverlap == undefined => \E w \in Worker : overlapped[w]
=============================================================================
