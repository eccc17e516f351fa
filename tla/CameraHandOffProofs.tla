------------------------- MODULE CameraHandOffProofs -------------------------
(***************************************************************************)
(* Proofs about CameraHandOff, for any number of workers, cameras and      *)
(* channels.  The argument is about who owns a camera: the main thread     *)
(* until it posts the message, then the message, the running callback, and *)
(* last the started watcher.  Inv states this; each property follows.      *)
(***************************************************************************)
EXTENDS CameraHandOff, FiniteSetTheorems, TLAPS

(* Before InsertCamera the main thread's camera is in no pool, and from    *)
(* CheckChannel on neither is its channel: only the main thread inserts.   *)
MainOwns ==
  /\ main.pc # "idle" => main.camera \in Camera
  /\ main.pc \in {"dup", "pending", "insert", "post"} =>
       connection[main.camera] = "handling"
  /\ main.pc \in {"dup", "pending", "insert"} =>
       \A w \in Worker, ch \in Channel : camera_info_pool[w][ch] # main.camera
  /\ main.pc \in {"pending", "insert"} => ~camera_already_in(asked[main.camera])

(* Between InsertCamera and PostData the camera is registered, and no      *)
(* message names it.                                                       *)
MainPosts ==
  main.pc = "post" =>
    /\ camera_info_pool[main.at][asked[main.camera]] = main.camera
    /\ asked[main.camera] \notin watching[main.at]
    /\ \A w \in Worker :
         /\ data[w] # NULL /\ ~data[w].freed => data[w].camera # main.camera
         /\ worker[w].pc # "idle" => worker[w].message.camera # main.camera

(* A registered camera asked for that channel, is registered once, and its *)
(* connection is not closed.                                               *)
PoolOwns ==
  \A w \in Worker, ch \in Channel : Registered(w, ch) =>
    LET c == camera_info_pool[w][ch]
    IN  /\ asked[c] = ch
        /\ connection[c] \in {"handling", "streaming"}
        /\ \A v \in Worker, d \in Channel :
             camera_info_pool[v][d] = c => v = w /\ d = ch

(* The camera of message m of worker w waits for its reply.                *)
Waits(w, m) ==
  /\ m.channel \notin watching[w]
  /\ connection[m.camera] = "handling"

(* A message in the data field names a registered camera, which waits      *)
(* unless the message is the one that the callback is about to free.       *)
DataOwns ==
  \A w \in Worker : data[w] # NULL /\ ~data[w].freed =>
    /\ camera_info_pool[w][data[w].channel] = data[w].camera
    /\ worker[w].pc # "clear" \/ data[w] # worker[w].message => Waits(w, data[w])

WorkerOwns ==
  \A w \in Worker : worker[w].pc # "idle" =>
    LET m == worker[w].message
    IN  /\ m \in Message
        /\ ~m.freed
        /\ camera_info_pool[w][m.channel] = m.camera
        /\ worker[w].pc = "reply" => Waits(w, m)
        /\ worker[w].pc = "clear" => /\ m.channel \in watching[w]
                                     /\ connection[m.camera] = "streaming"

WatcherOwns ==
  \A w \in Worker : \A ch \in watching[w] :
    /\ Registered(w, ch)
    /\ connection[camera_info_pool[w][ch]] = "streaming"

(* The inductive invariant.                                                *)
Inv == TypeOK /\ MainOwns /\ MainPosts /\ PoolOwns /\ DataOwns /\ WorkerOwns
       /\ WatcherOwns /\ ChannelOnOneWorker

-----------------------------------------------------------------------------
USE WorkthreadsAssumption, NullAssumption

(* No camera is anywhere at the start.                                     *)
LEMMA InitInv == Init => Inv
<1> SUFFICES ASSUME Init PROVE Inv
  OBVIOUS
<1>1. TypeOK
  <2>1. main \in [pc : {"idle", "dup", "pending", "insert", "post", "send"},
                 camera : Camera \cup {NULL}, at : Worker]
    BY DEF Init, Idle, Worker
  <2>2. worker \in [Worker -> [pc : {"idle", "reply", "clear"},
                              message : Message \cup {NULL}]]
    BY DEF Init
  <2>3. round_robin_val \in Worker
    BY DEF Init, Worker
  <2>4. /\ connection \in [Camera -> {"closed", "asking", "handling", "streaming", "leaked"}]
        /\ asked \in [Camera -> Channel]
        /\ camera_info_pool \in [Worker -> [Channel -> Camera \cup {NULL}]]
        /\ watching \in [Worker -> SUBSET Channel]
        /\ data \in [Worker -> Message \cup {NULL}]
    BY DEF Init
  <2>5. /\ sent \in [Worker -> BOOLEAN] /\ queued \in [Worker -> BOOLEAN]
        /\ undefined \in BOOLEAN /\ overlapped \in [Worker -> BOOLEAN]
        /\ started \in [Worker -> BOOLEAN] /\ early \in [Worker -> SUBSET Channel]
    BY DEF Init
  <2> QED
    BY <2>1, <2>2, <2>3, <2>4, <2>5 DEF TypeOK
<1>2. main.pc = "idle" /\ \A w \in Worker : worker[w].pc = "idle"
  BY DEF Init, Idle
<1>3. /\ \A w \in Worker, ch \in Channel : ~Registered(w, ch)
      /\ \A w \in Worker : data[w] = NULL /\ watching[w] = {}
  BY DEF Init, Registered
<1>4. QED
  BY <1>1, <1>2, <1>3 DEF Inv, MainOwns, MainPosts, PoolOwns, DataOwns,
     WorkerOwns,
     WatcherOwns, ChannelOnOneWorker

(* What the main thread leaves alone while it checks a request.            *)
Unchanged == UNCHANGED <<asked, round_robin_val, camera_info_pool, watching, data,
                         sent, workerVars, undefined, overlapped, early>>

(* The branches of receive_request_cb and CheckChannel that go on.         *)
Admit(c) ==
  /\ main = Idle /\ connection[c] = "asking"
  /\ main' = [pc |-> "dup", camera |-> c, at |-> 0]
  /\ connection' = [connection EXCEPT ![c] = "handling"]

CheckedChannel ==
  /\ main.pc = "dup" /\ ~camera_already_in(asked[main.camera])
  /\ main' = [main EXCEPT !.pc = "pending", !.at = round_robin_val]
  /\ round_robin_val' = NextWorker
  /\ UNCHANGED <<connection, asked, camera_info_pool, watching, data, sent,
                 workerVars, undefined, overlapped, early>>

(* The round-robin counter stays in range.                                 *)
LEMMA NextWorkerIsOne ==
  ASSUME round_robin_val \in Worker PROVE NextWorker \in Worker
  BY DEF Worker, NextWorker

(* The fields of the messages that data fields and callbacks hold.         *)
LEMMA MessageFields ==
  ASSUME Inv, NEW w \in Worker
  PROVE  /\ data[w] # NULL => data[w].camera \in Camera /\ data[w].channel \in Channel
         /\ worker[w].pc # "idle" =>
              /\ worker[w].message.camera \in Camera
              /\ worker[w].message.channel \in Channel
<1>1. data[w] # NULL => data[w] \in Message
  BY DEF Inv, TypeOK
<1>2. worker[w].pc # "idle" => worker[w].message \in Message
  BY DEF Inv, WorkerOwns
<1>3. QED
  BY <1>1, <1>2 DEF Message

(* A camera that connects is in no pool.                                   *)
LEMMA Connects ==
  ASSUME Inv, NEW c \in Camera, NEW ch \in Channel, Connect(c, ch)
  PROVE  Inv'
<1>1. TypeOK'
  BY DEF Inv, TypeOK, mainVars, workerVars, Connect
<1>2. MainOwns'
  BY DEF Inv, MainOwns, mainVars, Connect, Registered, camera_already_in
<1>3. MainPosts'
  <2>1. main.pc = "post" => main.camera # c
    BY DEF Inv, MainOwns, Connect
  <2>2. main.pc = "post" => asked'[main.camera] = asked[main.camera]
    BY <2>1 DEF Inv, TypeOK, MainOwns, Connect
  <2> QED
    BY <2>2 DEF Inv, MainPosts, mainVars, workerVars, Connect
<1>4. PoolOwns'
  BY DEF Inv, PoolOwns, Connect, Registered
<1>5. DataOwns'
  <2> SUFFICES ASSUME NEW v \in Worker, data'[v] # NULL, ~data'[v].freed
               PROVE  /\ camera_info_pool'[v][data'[v].channel] = data'[v].camera
                      /\ \/ worker'[v].pc # "clear"
                         \/ data'[v] # worker'[v].message
                         => Waits(v, data[v])'
    BY DEF DataOwns
  <2>1. data[v] \in Message
    BY DEF Inv, TypeOK, Connect, workerVars, mainVars
  <2>2. /\ camera_info_pool[v][data[v].channel] = data[v].camera
        /\ \/ worker[v].pc # "clear"
           \/ data[v] # worker[v].message
           => Waits(v, data[v])
    BY DEF Inv, DataOwns, Connect, workerVars, mainVars
  <2> QED
    BY <2>1, <2>2 DEF Inv, TypeOK, Waits, Message, Connect, workerVars,
       mainVars, PoolOwns, Registered
<1>6. WorkerOwns'
  BY DEF Inv, WorkerOwns, workerVars, Connect, Waits
<1>7. WatcherOwns'
  BY DEF Inv, WatcherOwns, Connect, Registered
<1>8. ChannelOnOneWorker'
  BY DEF Inv, ChannelOnOneWorker, Connect, Registered
<1>9. QED
  BY <1>1, <1>2, <1>3, <1>4, <1>5, <1>6, <1>7, <1>8 DEF Inv

(* Refusing a camera that is in no pool disturbs nothing.                  *)
LEMMA Refuses ==
  ASSUME Inv, NEW c \in Camera, Refuse(c), Unchanged,
         \A w \in Worker, ch \in Channel : camera_info_pool[w][ch] # c
  PROVE  Inv'
<1>1. TypeOK'
  <2>1. connection' \in [Camera -> {"closed", "asking", "handling", "streaming", "leaked"}]
    BY DEF Inv, TypeOK, Refuse
  <2>2. main' \in [pc : {"idle", "dup", "pending", "insert", "post", "send"},
                 camera : Camera \cup {NULL}, at : Worker]
    BY DEF Refuse, Idle, Worker
  <2> QED
    BY <2>1, <2>2 DEF Inv, TypeOK, mainVars, workerVars, Unchanged
<1>2. MainOwns'
  BY DEF Inv, MainOwns, Refuse, Idle
<1>3. MainPosts'
  BY DEF Inv, MainPosts, Refuse, Idle
<1>4. PoolOwns'
  BY DEF Inv, PoolOwns, Refuse, Unchanged, Registered
<1>5. DataOwns'
  <2>1. \A w \in Worker : data[w] # NULL /\ ~data[w].freed => data[w].camera # c
    BY MessageFields DEF Inv, DataOwns
  <2> QED
    BY <2>1, MessageFields DEF Inv, TypeOK, DataOwns, workerVars, Refuse,
       Unchanged, Waits
<1>6. WorkerOwns'
  BY DEF Inv, WorkerOwns, workerVars, Refuse,
       Unchanged, Waits, Message
<1>7. WatcherOwns'
  BY DEF Inv, TypeOK, WatcherOwns, Refuse, Unchanged, Registered
<1>8. ChannelOnOneWorker'
  BY DEF Inv, ChannelOnOneWorker, Unchanged, Registered
<1>9. QED
  BY <1>1, <1>2, <1>3, <1>4, <1>5, <1>6, <1>7, <1>8 DEF Inv

(* receive_request_cb goes on to do_camera_request.                        *)
LEMMA Admits ==
  ASSUME Inv, NEW c \in Camera, Admit(c), Unchanged
  PROVE  Inv'
<1>1. TypeOK'
  <2>1. connection' \in [Camera -> {"closed", "asking", "handling", "streaming", "leaked"}]
    BY DEF Inv, TypeOK, Admit
  <2>2. main' \in [pc : {"idle", "dup", "pending", "insert", "post", "send"},
                 camera : Camera \cup {NULL}, at : Worker]
    BY DEF Admit, Worker
  <2> QED
    BY <2>1, <2>2 DEF Inv, TypeOK, mainVars, workerVars, Unchanged
<1>2. MainOwns'
  <2>1. /\ main'.pc = "dup" /\ main'.camera = c /\ connection'[c] = "handling"
        /\ camera_info_pool' = camera_info_pool
    BY DEF Inv, TypeOK, Admit, Unchanged
  <2>2. \A w \in Worker, ch \in Channel : camera_info_pool[w][ch] # c
    BY DEF Inv, PoolOwns, Registered, Admit
  <2> QED
    BY <2>1, <2>2 DEF MainOwns
<1>3. MainPosts'
  BY DEF Inv, MainPosts, Admit
<1>4. PoolOwns'
  BY DEF Inv, PoolOwns, Admit, Unchanged, Registered
<1>5. DataOwns'
  <2>1. \A w \in Worker : data[w] # NULL /\ ~data[w].freed => data[w].camera # c
    BY MessageFields DEF Inv, DataOwns, PoolOwns, Registered, Admit
  <2> QED
    BY <2>1, MessageFields DEF Inv, TypeOK, DataOwns, workerVars, Admit,
       Unchanged, Waits
<1>6. WorkerOwns'
  BY DEF Inv, WorkerOwns, workerVars, Admit,
       Unchanged, Waits
<1>7. WatcherOwns'
  BY DEF Inv, WatcherOwns, Admit, Unchanged, Registered
<1>8. ChannelOnOneWorker'
  BY DEF Inv, ChannelOnOneWorker, Unchanged, Registered
<1>9. QED
  BY <1>1, <1>2, <1>3, <1>4, <1>5, <1>6, <1>7, <1>8 DEF Inv

(* CheckChannel goes on: the channel is in no pool.                        *)
LEMMA ChecksOn ==
  ASSUME Inv, CheckedChannel
  PROVE  Inv'
<1>1. TypeOK'
  <2>1. main' \in [pc : {"idle", "dup", "pending", "insert", "post", "send"},
                 camera : Camera \cup {NULL}, at : Worker]
    BY DEF Inv, TypeOK, CheckedChannel
  <2>2. round_robin_val' \in Worker
    BY NextWorkerIsOne DEF Inv, TypeOK, CheckedChannel
  <2> QED
    BY <2>1, <2>2 DEF Inv, TypeOK, mainVars, workerVars, CheckedChannel
<1>2. MainOwns'
  BY DEF Inv, MainOwns, CheckedChannel, Registered, camera_already_in
<1>3. MainPosts'
  BY DEF Inv, MainPosts, CheckedChannel
<1>4. PoolOwns'
  BY DEF Inv, PoolOwns, CheckedChannel, Registered
<1>5. DataOwns'
  BY DEF Inv, DataOwns, workerVars, CheckedChannel, Waits
<1>6. WorkerOwns'
  BY DEF Inv, WorkerOwns, workerVars, CheckedChannel, Waits
<1>7. WatcherOwns'
  BY DEF Inv, WatcherOwns, CheckedChannel, Registered
<1>8. ChannelOnOneWorker'
  BY DEF Inv, ChannelOnOneWorker, CheckedChannel, Registered
<1>9. QED
  BY <1>1, <1>2, <1>3, <1>4, <1>5, <1>6, <1>7, <1>8 DEF Inv

(* CheckPending goes on.                                                   *)
LEMMA GoesOn ==
  ASSUME Inv, main.pc = "pending", Goto("insert"), UNCHANGED connection, Unchanged
  PROVE  Inv'
<1>1. TypeOK'
  <2>1. main' \in [pc : {"idle", "dup", "pending", "insert", "post", "send"},
                 camera : Camera \cup {NULL}, at : Worker]
    BY DEF Inv, TypeOK, Goto
  <2> QED
    BY <2>1 DEF Inv, TypeOK, mainVars, workerVars, Unchanged
<1>2. MainOwns'
  BY DEF Inv, MainOwns, Goto, Unchanged, Registered, camera_already_in
<1>3. MainPosts'
  BY DEF Inv, MainPosts, Goto
<1>4. PoolOwns'
  BY DEF Inv, PoolOwns, Unchanged, Registered
<1>5. DataOwns'
  BY DEF Inv, DataOwns, workerVars, Unchanged, Waits
<1>6. WorkerOwns'
  BY DEF Inv, WorkerOwns, workerVars, Unchanged, Waits
<1>7. WatcherOwns'
  BY DEF Inv, WatcherOwns, Unchanged, Registered
<1>8. ChannelOnOneWorker'
  BY DEF Inv, ChannelOnOneWorker, Unchanged, Registered
<1>9. QED
  BY <1>1, <1>2, <1>3, <1>4, <1>5, <1>6, <1>7, <1>8 DEF Inv

(* The pool takes the camera over.                                         *)
LEMMA Inserts ==
  ASSUME Inv, InsertCamera
  PROVE  Inv'
<1>1. TypeOK'
  <2>1. main' \in [pc : {"idle", "dup", "pending", "insert", "post", "send"},
                 camera : Camera \cup {NULL}, at : Worker]
    BY DEF Inv, TypeOK, InsertCamera, Goto
  <2>2. camera_info_pool' \in [Worker -> [Channel -> Camera \cup {NULL}]]
    BY DEF Inv, TypeOK, MainOwns, InsertCamera
  <2> QED
    BY <2>1, <2>2 DEF Inv, TypeOK, mainVars, workerVars, InsertCamera
<1>2. MainOwns'
  BY DEF Inv, MainOwns, InsertCamera, Goto
<1>3. MainPosts'
  BY DEF Inv, TypeOK, MainOwns, MainPosts, DataOwns, WorkerOwns, WatcherOwns,
     workerVars, InsertCamera, Goto, camera_already_in, Message
<1>4. PoolOwns'
  BY DEF Inv, MainOwns, PoolOwns, InsertCamera, Registered
<1>5. DataOwns'
  <2>1. ASSUME NEW w \in Worker, data[w] # NULL, ~data[w].freed
        PROVE  camera_info_pool'[w][data[w].channel] = camera_info_pool[w][data[w].channel]
    <3>1. /\ data[w].camera \in Camera /\ data[w].channel \in Channel
          /\ camera_info_pool[w][data[w].channel] = data[w].camera
      BY <2>1, MessageFields DEF Inv, DataOwns
    <3>2. data[w].channel # asked[main.camera]
      BY <3>1 DEF Inv, MainOwns, InsertCamera, Registered, camera_already_in
    <3> QED
      BY <3>1, <3>2 DEF Inv, TypeOK, InsertCamera
  <2> QED
    BY <2>1 DEF Inv, DataOwns, workerVars, InsertCamera, Waits
<1>6. WorkerOwns'
  BY DEF Inv, MainOwns, WorkerOwns, workerVars, InsertCamera, Registered,
     camera_already_in, Waits, Message
<1>7. WatcherOwns'
  BY DEF Inv, MainOwns, WatcherOwns, InsertCamera, Registered,
     camera_already_in
<1>8. ChannelOnOneWorker'
  BY DEF Inv, MainOwns, ChannelOnOneWorker, InsertCamera, Registered,
     camera_already_in
<1>9. QED
  BY <1>1, <1>2, <1>3, <1>4, <1>5, <1>6, <1>7, <1>8 DEF Inv

(* The message takes the camera over.                                      *)
LEMMA Posts ==
  ASSUME Inv, PostData
  PROVE  Inv'
<1>1. TypeOK'
  <2>1. main' \in [pc : {"idle", "dup", "pending", "insert", "post", "send"},
                 camera : Camera \cup {NULL}, at : Worker]
    BY DEF Inv, TypeOK, PostData, Goto
  <2>2. main.camera \in Camera /\ main.at \in Worker /\ asked[main.camera] \in Channel
    BY DEF Inv, TypeOK, MainOwns, PostData
  <2>3. [camera |-> main.camera, channel |-> asked[main.camera], freed |-> FALSE]
          \in Message
    BY <2>2 DEF Message
  <2>4. data' \in [Worker -> Message \cup {NULL}]
    BY <2>2, <2>3 DEF Inv, TypeOK, PostData
  <2>5. overlapped' \in [Worker -> BOOLEAN]
    BY <2>2 DEF Inv, TypeOK, PostData
  <2> QED
    BY <2>1, <2>4, <2>5 DEF Inv, TypeOK, mainVars, workerVars, PostData
<1>2. MainOwns'
  BY DEF Inv, MainOwns, PostData, Goto
<1>3. MainPosts'
  BY DEF Inv, MainPosts, PostData, Goto
<1>4. PoolOwns'
  BY DEF Inv, PoolOwns, PostData, Registered
<1>5. DataOwns'
  BY DEF Inv, MainOwns, MainPosts, DataOwns, workerVars, PostData, Waits
<1>6. WorkerOwns'
  BY DEF Inv, WorkerOwns, workerVars, PostData, Waits
<1>7. WatcherOwns'
  BY DEF Inv, WatcherOwns, PostData, Registered
<1>8. ChannelOnOneWorker'
  BY DEF Inv, ChannelOnOneWorker, PostData, Registered
<1>9. QED
  BY <1>1, <1>2, <1>3, <1>4, <1>5, <1>6, <1>7, <1>8 DEF Inv

(* The wake-up moves no camera.                                            *)
LEMMA Sends ==
  ASSUME Inv, SendAsync
  PROVE  Inv'
<1>1. TypeOK'
  <2>1. main' \in [pc : {"idle", "dup", "pending", "insert", "post", "send"},
                 camera : Camera \cup {NULL}, at : Worker]
    BY DEF SendAsync, Idle, Worker
  <2>2. early' \in [Worker -> SUBSET Channel]
    BY DEF Inv, TypeOK, MainOwns, SendAsync
  <2> QED
    BY <2>1, <2>2 DEF Inv, TypeOK, mainVars, workerVars, SendAsync
<1>2. MainOwns'
  BY DEF Inv, MainOwns, SendAsync, Idle
<1>3. MainPosts'
  BY DEF Inv, MainPosts, SendAsync, Idle
<1>4. PoolOwns'
  BY DEF Inv, PoolOwns, SendAsync, Registered
<1>5. DataOwns'
  BY DEF Inv, DataOwns, workerVars, SendAsync, Waits
<1>6. WorkerOwns'
  BY DEF Inv, WorkerOwns, workerVars, SendAsync, Waits
<1>7. WatcherOwns'
  BY DEF Inv, WatcherOwns, SendAsync, Registered
<1>8. ChannelOnOneWorker'
  BY DEF Inv, ChannelOnOneWorker, SendAsync, Registered
<1>9. QED
  BY <1>1, <1>2, <1>3, <1>4, <1>5, <1>6, <1>7, <1>8 DEF Inv

(* Starting the watcher moves no camera.                                   *)
LEMMA Starts ==
  ASSUME Inv, NEW w \in Worker, workthread_entry(w)
  PROVE  Inv'
<1>1. TypeOK'
  BY DEF Inv, TypeOK, mainVars, workthread_entry
<1>2. MainOwns'
  BY DEF Inv, MainOwns, mainVars, workthread_entry, Registered, camera_already_in
<1>3. MainPosts'
  BY DEF Inv, MainPosts, mainVars, workthread_entry
<1>4. PoolOwns'
  BY DEF Inv, PoolOwns, workthread_entry, Registered
<1>5. DataOwns'
  BY DEF Inv, DataOwns, workthread_entry, Waits
<1>6. WorkerOwns'
  BY DEF Inv, WorkerOwns, workthread_entry, Waits
<1>7. WatcherOwns'
  BY DEF Inv, WatcherOwns, workthread_entry, Registered
<1>8. ChannelOnOneWorker'
  BY DEF Inv, ChannelOnOneWorker, workthread_entry, Registered
<1>9. QED
  BY <1>1, <1>2, <1>3, <1>4, <1>5, <1>6, <1>7, <1>8 DEF Inv

(* Queueing the callback moves no camera.                                  *)
LEMMA Queues ==
  ASSUME Inv, NEW w \in Worker, QueueCallback(w)
  PROVE  Inv'
<1>1. TypeOK'
  BY DEF Inv, TypeOK, mainVars, QueueCallback
<1>2. MainOwns'
  BY DEF Inv, MainOwns, mainVars, QueueCallback, Registered, camera_already_in
<1>3. MainPosts'
  BY DEF Inv, MainPosts, mainVars, QueueCallback
<1>4. PoolOwns'
  BY DEF Inv, PoolOwns, QueueCallback, Registered
<1>5. DataOwns'
  BY DEF Inv, DataOwns, QueueCallback, Waits
<1>6. WorkerOwns'
  BY DEF Inv, WorkerOwns, QueueCallback, Waits
<1>7. WatcherOwns'
  BY DEF Inv, WatcherOwns, QueueCallback, Registered
<1>8. ChannelOnOneWorker'
  BY DEF Inv, ChannelOnOneWorker, QueueCallback, Registered
<1>9. QED
  BY <1>1, <1>2, <1>3, <1>4, <1>5, <1>6, <1>7, <1>8 DEF Inv

(* The callback takes the camera over from the message.                    *)
LEMMA Takes ==
  ASSUME Inv, NEW w \in Worker, TakeData(w)
  PROVE  Inv'
<1>1. TypeOK'
  <2>1. worker' \in [Worker -> [pc : {"idle", "reply", "clear"},
                              message : Message \cup {NULL}]]
    BY DEF Inv, TypeOK, TakeData
  <2> QED
    BY <2>1 DEF Inv, TypeOK, mainVars, workerVars, TakeData
<1>2. MainOwns'
  BY DEF Inv, MainOwns, mainVars, TakeData, Registered, camera_already_in
<1>3. MainPosts'
  <2>1. \A v \in Worker : worker'[v].pc # "idle" =>
          \/ worker[v].pc # "idle" /\ worker'[v] = worker[v]
          \/ v = w /\ data[v] # NULL /\ ~data[v].freed /\ worker'[v].message = data[v]
    BY DEF Inv, TypeOK, TakeData
  <2> QED
    BY <2>1 DEF Inv, MainPosts, TakeData, mainVars
<1>4. PoolOwns'
  BY DEF Inv, PoolOwns, TakeData, Registered
<1>5. DataOwns'
  <2>1. \A v \in Worker : data[v] # NULL /\ ~data[v].freed /\ worker'[v].pc # "clear"
          => worker[v].pc # "clear"
    BY DEF Inv, TypeOK, TakeData
  <2>2. \A v \in Worker : worker'[v].pc = "clear" => worker'[v] = worker[v]
    BY DEF Inv, TypeOK, TakeData
  <2> QED
    BY <2>1, <2>2 DEF Inv, DataOwns, TakeData, Waits
<1>6. WorkerOwns'
  <2> SUFFICES ASSUME NEW v \in Worker, worker'[v].pc # "idle"
               PROVE  /\ worker'[v].message \in Message
                      /\ ~worker'[v].message.freed
                      /\ camera_info_pool[v][worker'[v].message.channel]
                           = worker'[v].message.camera
                      /\ worker'[v].pc = "reply" => Waits(v, worker'[v].message)
                      /\ worker'[v].pc = "clear" =>
                           /\ worker'[v].message.channel \in watching[v]
                           /\ connection[worker'[v].message.camera] = "streaming"
    BY DEF WorkerOwns, TakeData, Waits
  <2>1. CASE worker'[v] = worker[v]
    BY <2>1 DEF Inv, WorkerOwns
  <2>2. CASE worker'[v] # worker[v]
    <3>1. /\ v = w /\ worker[v].pc = "idle"
          /\ data[v] # NULL /\ ~data[v].freed
          /\ worker'[v].message = data[v] /\ worker'[v].pc = "reply"
      BY <2>2 DEF Inv, TypeOK, TakeData
    <3>2. data[v] \in Message
      BY <3>1 DEF Inv, TypeOK
    <3> QED
      BY <3>1, <3>2 DEF Inv, DataOwns
  <2> QED
    BY <2>1, <2>2
<1>7. WatcherOwns'
  BY DEF Inv, WatcherOwns, TakeData, Registered
<1>8. ChannelOnOneWorker'
  BY DEF Inv, ChannelOnOneWorker, TakeData, Registered
<1>9. QED
  BY <1>1, <1>2, <1>3, <1>4, <1>5, <1>6, <1>7, <1>8 DEF Inv

(* The watcher takes the camera over from the callback.                    *)
LEMMA Replies ==
  ASSUME Inv, NEW w \in Worker, ReplyOk(w)
  PROVE  Inv'
<1>1. TypeOK'
  <2>1. connection' \in [Camera -> {"closed", "asking", "handling", "streaming", "leaked"}]
    BY DEF Inv, TypeOK, ReplyOk
  <2>2. worker' \in [Worker -> [pc : {"idle", "reply", "clear"},
                              message : Message \cup {NULL}]]
    <3> DEFINE R == [pc : {"idle", "reply", "clear"}, message : Message \cup {NULL}]
    <3>1. worker \in [Worker -> R] /\ worker' = [worker EXCEPT ![w].pc = "clear"]
      BY DEF Inv, TypeOK, ReplyOk
    <3>2. [worker[w] EXCEPT !.pc = "clear"] \in R
      BY <3>1
    <3> HIDE DEF R
    <3>3. worker' \in [Worker -> R]
      BY <3>1, <3>2
    <3> QED
      BY <3>3 DEF R
  <2>3. watching' \in [Worker -> SUBSET Channel]
    BY DEF Inv, TypeOK, WorkerOwns, ReplyOk, Message
  <2> QED
    BY <2>1, <2>2, <2>3 DEF Inv, TypeOK, mainVars, workerVars, ReplyOk
<1>2. MainOwns'
  BY DEF Inv, MainOwns, MainPosts, WorkerOwns, mainVars, ReplyOk, Registered,
     camera_already_in, Message
<1>3. MainPosts'
  BY DEF Inv, MainPosts, WorkerOwns, mainVars, ReplyOk, Message
<1>4. PoolOwns'
  BY DEF Inv, PoolOwns, ReplyOk, Registered
<1>5. DataOwns'
  <2> DEFINE m == worker[w].message
  <2>1. /\ m \in Message /\ ~m.freed
        /\ camera_info_pool[w][m.channel] = m.camera
        /\ m.camera \in Camera /\ m.channel \in Channel
    BY DEF Inv, WorkerOwns, ReplyOk, Message
  <2> SUFFICES ASSUME NEW v \in Worker, data[v] # NULL, ~data[v].freed,
                      worker'[v].pc # "clear" \/ data[v] # worker'[v].message
               PROVE  Waits(v, data[v])'
    BY DEF Inv, DataOwns, ReplyOk
  <2>2. /\ data[v] \in Message
        /\ data[v].camera \in Camera /\ data[v].channel \in Channel
    BY DEF Inv, TypeOK, Message
  <2>3. /\ camera_info_pool[v][data[v].channel] = data[v].camera
        /\ asked[data[v].camera] = data[v].channel
        /\ asked[m.camera] = m.channel
    BY <2>1, <2>2 DEF Inv, DataOwns, PoolOwns, Registered
  <2>4. data[v].camera = m.camera => v = w /\ data[v].channel = m.channel
    BY <2>1, <2>2, <2>3 DEF Inv, PoolOwns, Registered
  <2>5. data[v].camera = m.camera => data[v] = m
    BY <2>1, <2>2, <2>4 DEF Message
  <2>6. data[v].camera # m.camera
    BY <2>4, <2>5 DEF Inv, TypeOK, ReplyOk
  <2>7. worker[v].pc # "clear" \/ data[v] # worker[v].message
    BY DEF Inv, TypeOK, ReplyOk
  <2>8. Waits(v, data[v])
    BY <2>7 DEF Inv, DataOwns
  <2>9. v = w => data[v].channel # m.channel
    BY <2>1, <2>3, <2>6
  <2> QED
    BY <2>1, <2>2, <2>6, <2>8, <2>9 DEF Inv, TypeOK, Waits, ReplyOk
<1>6. WorkerOwns'
  BY DEF Inv, TypeOK, PoolOwns, WorkerOwns, WatcherOwns, ChannelOnOneWorker,
     ReplyOk, Registered, Waits, Message
<1>7. WatcherOwns'
  BY DEF Inv, TypeOK, WorkerOwns, WatcherOwns, ReplyOk, Registered, Message
<1>8. ChannelOnOneWorker'
  BY DEF Inv, ChannelOnOneWorker, ReplyOk, Registered
<1>9. QED
  BY <1>1, <1>2, <1>3, <1>4, <1>5, <1>6, <1>7, <1>8 DEF Inv

(* The camera goes, and its message is freed.                              *)
LEMMA Fails ==
  ASSUME Inv, NEW w \in Worker, ReplyFails(w)
  PROVE  Inv'
<1>1. TypeOK'
  <2>1. connection' \in [Camera -> {"closed", "asking", "handling", "streaming", "leaked"}]
    BY DEF Inv, TypeOK, ReplyFails
  <2>2. camera_info_pool' \in [Worker -> [Channel -> Camera \cup {NULL}]]
    BY DEF Inv, TypeOK, ReplyFails
  <2>3. [worker[w].message EXCEPT !.freed = TRUE] \in Message
    BY DEF Inv, WorkerOwns, ReplyFails, Message
  <2>4. data' \in [Worker -> Message \cup {NULL}]
    BY <2>3 DEF Inv, TypeOK, ReplyFails
  <2>5. worker' \in [Worker -> [pc : {"idle", "reply", "clear"},
                              message : Message \cup {NULL}]]
    BY DEF Inv, TypeOK, ReplyFails
  <2> QED
    BY <2>1, <2>2, <2>4, <2>5 DEF Inv, TypeOK, mainVars, ReplyFails
<1>2. MainOwns'
  BY DEF Inv, MainOwns, MainPosts, WorkerOwns, mainVars, ReplyFails,
     Registered, camera_already_in, Message
<1>3. MainPosts'
  BY DEF Inv, TypeOK, MainOwns, MainPosts, PoolOwns, DataOwns, WorkerOwns,
     WatcherOwns, ChannelOnOneWorker, mainVars, workerVars, ReplyFails,
     Registered, camera_already_in, Waits, Message
<1>4. PoolOwns'
  BY DEF Inv, TypeOK, PoolOwns, WorkerOwns, ReplyFails, Registered, Message
<1>5. DataOwns'
  <2> DEFINE m == worker[w].message
  <2>1. /\ m \in Message /\ ~m.freed
        /\ camera_info_pool[w][m.channel] = m.camera
        /\ m.camera \in Camera /\ m.channel \in Channel
    BY DEF Inv, WorkerOwns, ReplyFails, Message
  <2> SUFFICES ASSUME NEW v \in Worker, data'[v] # NULL, ~data'[v].freed
               PROVE  /\ camera_info_pool'[v][data'[v].channel] = data'[v].camera
                      /\ \/ worker'[v].pc # "clear"
                         \/ data'[v] # worker'[v].message
                         => Waits(v, data[v])'
    BY DEF DataOwns
  <2>2. data'[v] = data[v] /\ (v = w => data[v] # m)
    BY <2>1 DEF Inv, TypeOK, ReplyFails, Message
  <2>3. /\ data[v] \in Message
        /\ data[v].camera \in Camera /\ data[v].channel \in Channel
    BY <2>2 DEF Inv, TypeOK, Message
  <2>4. /\ camera_info_pool[v][data[v].channel] = data[v].camera
        /\ asked[data[v].camera] = data[v].channel
        /\ asked[m.camera] = m.channel
    BY <2>1, <2>2, <2>3 DEF Inv, DataOwns, PoolOwns, Registered
  <2>5. data[v].camera = m.camera => v = w /\ data[v].channel = m.channel
    BY <2>1, <2>3, <2>4 DEF Inv, PoolOwns, Registered
  <2>6. data[v].camera = m.camera => data[v] = m
    BY <2>1, <2>2, <2>3, <2>5 DEF Message
  <2>7. data[v].camera # m.camera
    BY <2>2, <2>5, <2>6
  <2>8. worker[v].pc # "clear" \/ data[v] # worker[v].message => Waits(v, data[v])
    BY <2>2 DEF Inv, DataOwns
  <2>9. v = w => data[v].channel # m.channel
    BY <2>1, <2>4, <2>7
  <2>10. \/ worker'[v].pc # "clear"
         \/ data'[v] # worker'[v].message
         => Waits(v, data[v])
    BY <2>2, <2>8 DEF Inv, TypeOK, ReplyFails
  <2> QED
    BY <2>1, <2>2, <2>3, <2>4, <2>7, <2>9, <2>10 DEF Inv, TypeOK, Waits,
       ReplyFails
<1>6. WorkerOwns'
  <2> DEFINE m == worker[w].message
  <2>1. /\ m.camera \in Camera /\ m.channel \in Channel
        /\ camera_info_pool[w][m.channel] = m.camera
    BY MessageFields DEF Inv, WorkerOwns, ReplyFails
  <2> SUFFICES ASSUME NEW v \in Worker, worker'[v].pc # "idle"
               PROVE  /\ worker'[v].message \in Message /\ ~worker'[v].message.freed
                      /\ camera_info_pool'[v][worker'[v].message.channel]
                           = worker'[v].message.camera
                      /\ worker'[v].pc = "reply" => Waits(v, worker[v].message)'
                      /\ worker'[v].pc = "clear" =>
                           /\ worker'[v].message.channel \in watching'[v]
                           /\ connection'[worker'[v].message.camera] = "streaming"
    BY DEF WorkerOwns
  <2>2. v # w /\ worker'[v] = worker[v]
    BY DEF Inv, TypeOK, ReplyFails
  <2> DEFINE n == worker[v].message
  <2>3. n.camera \in Camera /\ n.channel \in Channel
    BY <2>2, MessageFields
  <2>4. camera_info_pool[v][n.channel] = n.camera
    BY <2>2 DEF Inv, WorkerOwns
  <2>5. n.camera # m.camera
    BY <2>1, <2>2, <2>3, <2>4 DEF Inv, PoolOwns, Registered
  <2>6. /\ connection'[n.camera] = connection[n.camera]
        /\ watching' = watching /\ camera_info_pool'[v] = camera_info_pool[v]
    BY <2>2, <2>3, <2>5 DEF Inv, TypeOK, ReplyFails
  <2> QED
    BY <2>2, <2>4, <2>6 DEF Inv, WorkerOwns, Waits
<1>7. WatcherOwns'
  BY DEF Inv, WorkerOwns, WatcherOwns, ReplyFails, Registered, Waits
<1>8. ChannelOnOneWorker'
  BY DEF Inv, ChannelOnOneWorker, ReplyFails, Registered
<1>9. QED
  BY <1>1, <1>2, <1>3, <1>4, <1>5, <1>6, <1>7, <1>8 DEF Inv

(* The message of a served camera goes.                                    *)
LEMMA Clears ==
  ASSUME Inv, NEW w \in Worker, ClearData(w)
  PROVE  Inv'
<1>1. TypeOK'
  BY DEF Inv, TypeOK, mainVars, ClearData
<1>2. MainOwns'
  BY DEF Inv, MainOwns, mainVars, ClearData, Registered, camera_already_in
<1>3. MainPosts'
  BY DEF Inv, MainPosts, mainVars, ClearData
<1>4. PoolOwns'
  BY DEF Inv, PoolOwns, ClearData, Registered
<1>5. DataOwns'
  BY DEF Inv, TypeOK, DataOwns, ClearData, Waits
<1>6. WorkerOwns'
  BY DEF Inv, WorkerOwns, ClearData, Waits
<1>7. WatcherOwns'
  BY DEF Inv, WatcherOwns, ClearData, Registered
<1>8. ChannelOnOneWorker'
  BY DEF Inv, ChannelOnOneWorker, ClearData, Registered
<1>9. QED
  BY <1>1, <1>2, <1>3, <1>4, <1>5, <1>6, <1>7, <1>8 DEF Inv

(* The camera of a started watcher goes.                                   *)
LEMMA Deletes ==
  ASSUME Inv, NEW w \in Worker, NEW ch \in Channel, delete_camera(w, ch)
  PROVE  Inv'
<1>1. TypeOK'
  BY DEF Inv, TypeOK, WatcherOwns, mainVars, workerVars, delete_camera
<1>2. MainOwns'
  BY DEF Inv, MainOwns, WatcherOwns, mainVars, delete_camera, Registered,
     camera_already_in
<1>3. MainPosts'
  BY DEF Inv, MainPosts, mainVars, workerVars, delete_camera
<1>4. PoolOwns'
  BY DEF Inv, TypeOK, PoolOwns, delete_camera, Registered
<1>5. DataOwns'
  BY DEF Inv, TypeOK, PoolOwns, DataOwns, WorkerOwns, workerVars,
     delete_camera, Registered, Waits, Message
<1>6. WorkerOwns'
  BY DEF Inv, PoolOwns, WorkerOwns, workerVars, delete_camera, Registered,
     Waits, Message
<1>7. WatcherOwns'
  BY DEF Inv, TypeOK, PoolOwns, WatcherOwns, delete_camera, Registered
<1>8. ChannelOnOneWorker'
  BY DEF Inv, ChannelOnOneWorker, delete_camera, Registered
<1>9. QED
  BY <1>1, <1>2, <1>3, <1>4, <1>5, <1>6, <1>7, <1>8 DEF Inv

(* Every step keeps the invariant: one case per action.                    *)
LEMMA NextInv ==
  ASSUME Inv, [Next]_vars
  PROVE  Inv'
<1>1. CASE UNCHANGED vars
  BY <1>1 DEF vars, Inv, TypeOK, MainOwns, MainPosts, PoolOwns, DataOwns,
     WorkerOwns, WatcherOwns, ChannelOnOneWorker, Registered,
     camera_already_in, Waits
<1>2. ASSUME NEW c \in Camera, receive_request_cb(c) PROVE Inv'
  <2>1. Unchanged
    BY <1>2 DEF receive_request_cb, Unchanged
  <2>2. \A w \in Worker, ch \in Channel : camera_info_pool[w][ch] # c
    BY <1>2 DEF Inv, PoolOwns, Registered, receive_request_cb
  <2> QED
    BY <1>2, <2>1, <2>2, Refuses, Admits DEF receive_request_cb, Admit
<1>3. CASE CheckChannel
  <2>1. CASE camera_already_in(asked[main.camera])
    <3>1. main.camera \in Camera
          /\ \A w \in Worker, ch \in Channel : camera_info_pool[w][ch] # main.camera
      BY <1>3 DEF Inv, MainOwns, CheckChannel
    <3>2. Refuse(main.camera) /\ Unchanged
      BY <1>3, <2>1 DEF CheckChannel, Unchanged
    <3> QED
      BY <3>1, <3>2, Refuses
  <2>2. CASE ~camera_already_in(asked[main.camera])
    BY <1>3, <2>2, ChecksOn DEF CheckChannel, CheckedChannel
  <2> QED
    BY <2>1, <2>2
<1>4. CASE CheckPending
  <2>1. /\ main.camera \in Camera /\ main.pc = "pending" /\ Unchanged
        /\ \A w \in Worker, ch \in Channel : camera_info_pool[w][ch] # main.camera
    BY <1>4 DEF Inv, MainOwns, CheckPending, Unchanged
  <2> QED
    BY <1>4, <2>1, Refuses, GoesOn DEF CheckPending
<1>5. ASSUME NEW w \in Worker, WorkerStep(w) PROVE Inv'
  BY <1>5, Starts, Queues, Takes, Replies, Fails, Clears DEF WorkerStep
<1>6. QED
  BY <1>1, <1>2, <1>3, <1>4, <1>5, Inserts, Posts, Sends, Connects, Deletes
     DEF Next, MainStep

(* Who owns a camera, at every moment of every behaviour.                  *)
THEOREM Ownership == Spec => []Inv
<1>1. Inv /\ [Next]_vars => Inv'
  BY NextInv
<1>2. QED
  BY InitInv, <1>1, PTL DEF Spec

(* Type correctness.                                                       *)
THEOREM TypeCorrect == Spec => []TypeOK
<1>1. Inv => TypeOK
  BY DEF Inv
<1>2. QED
  BY Ownership, <1>1, PTL

(* do_camera_request never registers a channel with a second worker,       *)
(* although it checks and inserts in separate steps without a lock.        *)
THEOREM OneWorker == Spec => []ChannelOnOneWorker
<1>1. Inv => ChannelOnOneWorker
  BY DEF Inv
<1>2. QED
  BY Ownership, <1>1, PTL

(* The unchecked look-up of async_read_cb always finds its channel.        *)
THEOREM HandlerSafe == Spec => []HandlerFindsChannel
<1>1. Inv => HandlerFindsChannel
  BY DEF Inv, WorkerOwns, Waits, HandlerFindsChannel
<1>2. QED
  BY Ownership, <1>1, PTL

(* A started camera watcher is the one of a registered, open camera.       *)
THEOREM WatcherSafe == Spec => []WatcherOwnsChannel
<1>1. Inv => WatcherOwnsChannel
  BY DEF Inv, TypeOK, WatcherOwns, PoolOwns, Registered, WatcherOwnsChannel
<1>2. QED
  BY Ownership, <1>1, PTL

-----------------------------------------------------------------------------
(* That only an overlap in the data field of a worker, or a wake-up before *)
(* its start, loses a hand-off, that only an overlap lets a freed message  *)
(* be read, and how many channels there can be.                            *)

(* The wake-up, the callback and the data field of worker w, and the main  *)
(* thread while it hands over to w, follow one message at a time.          *)
Orderly(w) ==
  /\ ~started[w] => ~queued[w] /\ worker[w].pc = "idle"
  /\ (started[w] /\ sent[w]) \/ queued[w] => data[w] # NULL /\ ~data[w].freed
  /\ ~started[w] /\ sent[w] /\ data[w] # NULL => data[w].channel \in early[w]
  /\ queued[w] => ~sent[w] /\ worker[w].pc = "idle"
  /\ worker[w].pc # "idle" => ~sent[w]
  /\ main.at = w /\ main.pc \in {"insert", "post", "send"} => ~sent[w]
  /\ main.at = w /\ main.pc = "send" =>
       /\ ~queued[w] /\ worker[w].pc = "idle"
       /\ data[w] # NULL /\ ~data[w].freed /\ data[w].camera = main.camera

(* This holds, and no channel of w is lost but the early ones, until a     *)
(* post overlaps.                                                          *)
OrderInv ==
  /\ \A w \in Worker : ~overlapped[w] =>
       Orderly(w) /\ \A ch \in Channel : Stranded(w, ch) => ch \in early[w]
  /\ FreedReadOnlyByOverlap

-----------------------------------------------------------------------------
(* Nothing is under way at the start.                                      *)
LEMMA InitOrder == Init => OrderInv
  BY DEF Init, OrderInv, Orderly, Stranded, Registered, FreedReadOnlyByOverlap, Idle

(* A camera that connects is not the one being handed over.                *)
LEMMA OrderConnects ==
  ASSUME Inv, Inv', OrderInv, NEW c \in Camera, NEW d \in Channel, Connect(c, d)
  PROVE  OrderInv'
<1>1. ASSUME NEW v \in Worker, ~overlapped'[v]
      PROVE  ~overlapped[v] /\ Orderly(v)'
  <2>1. ~overlapped[v]
    BY <1>1 DEF Inv, TypeOK, Connect
  <2>2. Orderly(v)
    BY <2>1 DEF OrderInv
  <2> QED
    BY <1>1, <2>1, <2>2 DEF Inv, TypeOK, Orderly, mainVars, workerVars, Connect
<1>2. ASSUME NEW v \in Worker, ~overlapped'[v], NEW ch \in Channel,
             Registered(v, ch)', ch \notin watching'[v]
      PROVE  InFlight(v, ch)' \/ ch \in early'[v]
  <2>1. /\ ~overlapped[v] /\ Orderly(v) /\ Orderly(v)'
        /\ Registered(v, ch) /\ ch \notin watching[v]
             => InFlight(v, ch) \/ ch \in early[v]
    BY <1>1, <1>2 DEF OrderInv, Stranded
  <2>2. main.pc \in {"post", "send"} /\ main.at = v => main.camera # c
    BY <2>1 DEF Inv, TypeOK, Orderly, MainOwns, DataOwns, Waits, Connect
  <2> QED
    BY <1>2, <2>1, <2>2 DEF Inv, TypeOK, Orderly, InFlight, Registered, mainVars,
       workerVars, Connect
<1>3. FreedReadOnlyByOverlap'
  BY DEF Inv, TypeOK, OrderInv, FreedReadOnlyByOverlap, Connect
<1>4. QED
  BY <1>1, <1>2, <1>3 DEF OrderInv, Stranded

(* The main thread checks: until it goes on to the insertion, with the     *)
(* flag of its worker down, nothing that OrderInv is about changes.        *)
LEMMA OrderChecks ==
  ASSUME OrderInv, main.pc \in {"idle", "dup", "pending"},
         \/ main'.pc \in {"idle", "dup", "pending"}
         \/ main'.pc = "insert" /\ ~sent[main'.at],
         UNCHANGED <<camera_info_pool, watching, data, sent, workerVars, undefined,
                     overlapped, early>>
  PROVE  OrderInv'
<1>1. ASSUME NEW v \in Worker, ~overlapped[v] PROVE Orderly(v)'
  BY <1>1 DEF OrderInv, Orderly, workerVars
<1>2. ASSUME NEW v \in Worker, NEW ch \in Channel, Stranded(v, ch)'
      PROVE  Stranded(v, ch)
  BY <1>2 DEF Stranded, Registered, InFlight, workerVars
<1>3. QED
  BY <1>1, <1>2 DEF OrderInv, FreedReadOnlyByOverlap

(* The channel that InsertCamera registers is in flight: its message is    *)
(* next.                                                                   *)
LEMMA OrderInserts ==
  ASSUME Inv, Inv', OrderInv, InsertCamera
  PROVE  OrderInv'
<1>1. ASSUME NEW v \in Worker, ~overlapped'[v]
      PROVE  ~overlapped[v] /\ Orderly(v)'
  <2>1. ~overlapped[v]
    BY <1>1 DEF Inv, TypeOK, InsertCamera, Goto
  <2>2. Orderly(v)
    BY <2>1 DEF OrderInv
  <2> QED
    BY <1>1, <2>1, <2>2 DEF Inv, TypeOK, Orderly, mainVars, workerVars,
       InsertCamera, Goto
<1>2. ASSUME NEW v \in Worker, ~overlapped'[v], NEW ch \in Channel,
             Registered(v, ch)', ch \notin watching'[v]
      PROVE  InFlight(v, ch)' \/ ch \in early'[v]
  <2>1. /\ ~overlapped[v] /\ Orderly(v) /\ Orderly(v)'
        /\ Registered(v, ch) /\ ch \notin watching[v]
             => InFlight(v, ch) \/ ch \in early[v]
    BY <1>1, <1>2 DEF OrderInv, Stranded
  <2> QED
    BY <1>2, <2>1 DEF Inv, TypeOK, Orderly, InFlight, Registered, mainVars,
       workerVars, InsertCamera, Goto
<1>3. FreedReadOnlyByOverlap'
  BY DEF Inv, TypeOK, OrderInv, FreedReadOnlyByOverlap, InsertCamera, Goto
<1>4. QED
  BY <1>1, <1>2, <1>3 DEF OrderInv, Stranded

(* A post that does not overlap finds the worker idle, and its message     *)
(* stays.                                                                  *)
LEMMA OrderPosts ==
  ASSUME Inv, Inv', OrderInv, PostData
  PROVE  OrderInv'
<1>1. ASSUME NEW v \in Worker, ~overlapped'[v]
      PROVE  ~overlapped[v] /\ Orderly(v)'
  <2>1. ~overlapped[v]
    BY <1>1 DEF Inv, TypeOK, PostData, Goto
  <2>2. Orderly(v)
    BY <2>1 DEF OrderInv
  <2>3. /\ main.at \in Worker
        /\ data'[main.at] = [camera |-> main.camera, channel |-> asked[main.camera],
                             freed |-> FALSE]
    BY DEF Inv, TypeOK, PostData
  <2>4. data'[main.at] \in Message
    BY <2>3 DEF Inv, TypeOK, MainOwns, PostData, Message
  <2>5. data'[main.at] # NULL
    BY <2>4, NullAssumption
  <2>6. ~data'[main.at].freed /\ data'[main.at].camera = main.camera
    BY <2>3
  <2>7. CASE main.at # v
    BY <1>1, <2>1, <2>2, <2>3, <2>7 DEF Inv, TypeOK, Orderly, workerVars, PostData,
       Goto
  <2>8. CASE main.at = v
    <3>1. /\ main'.pc = "send" /\ main'.camera = main.camera /\ main'.at = main.at
          /\ sent' = sent /\ queued' = queued /\ worker' = worker
      BY DEF Inv, TypeOK, PostData, Goto, workerVars
    <3>2. ~queued[v] /\ worker[v].pc = "idle" /\ ~sent[v]
      BY <1>1, <2>2, <2>8, ZenonT(30) DEF Inv, TypeOK, Orderly, PostData
    <3> QED
      BY <2>1, <2>5, <2>6, <2>8, <3>1, <3>2 DEF Orderly
  <2> QED
    BY <2>1, <2>7, <2>8
<1>2. ASSUME NEW v \in Worker, ~overlapped'[v], NEW ch \in Channel,
             Registered(v, ch)', ch \notin watching'[v]
      PROVE  InFlight(v, ch)' \/ ch \in early'[v]
  <2>1. /\ ~overlapped[v] /\ Orderly(v) /\ Orderly(v)'
        /\ Registered(v, ch) /\ ch \notin watching[v]
             => InFlight(v, ch) \/ ch \in early[v]
    BY <1>1, <1>2 DEF OrderInv, Stranded
  <2> QED
    BY <1>2, <2>1 DEF Inv, TypeOK, Orderly, InFlight, Registered, mainVars,
       workerVars, PostData, Goto
<1>3. FreedReadOnlyByOverlap'
  BY DEF Inv, TypeOK, OrderInv, FreedReadOnlyByOverlap, PostData, Goto
<1>4. QED
  BY <1>1, <1>2, <1>3 DEF OrderInv, Stranded

(* The wake-up announces the message of the camera that was just posted.   *)
LEMMA OrderSends ==
  ASSUME Inv, Inv', OrderInv, SendAsync
  PROVE  OrderInv'
<1> USE DEF SendAsync
<1>1. /\ main.at \in Worker /\ main.camera \in Camera
      /\ main'.pc = "idle"
      /\ \A v \in Worker : ~overlapped'[v] => ~overlapped[v] /\ Orderly(v)
  BY DEF Inv, TypeOK, MainOwns, Idle, OrderInv
<1>2. ASSUME ~overlapped[main.at]
      PROVE  /\ data[main.at] # NULL /\ ~data[main.at].freed
             /\ data[main.at].channel = asked[main.camera]
  <2> DEFINE m == data[main.at]
  <2>1. m # NULL /\ ~m.freed /\ m.camera = main.camera
    BY <1>1, <1>2 DEF OrderInv, Orderly
  <2>2. m.camera \in Camera /\ m.channel \in Channel
    BY <1>1, <2>1 DEF Inv, TypeOK, Message
  <2>3. camera_info_pool[main.at][m.channel] = m.camera
    BY <1>1, <2>1 DEF Inv, DataOwns
  <2>4. Registered(main.at, m.channel)
    BY <2>2, <2>3, NullAssumption DEF Registered
  <2> QED
    BY <1>1, <2>1, <2>2, <2>3, <2>4 DEF Inv, PoolOwns
<1>3. ASSUME NEW v \in Worker, ~overlapped'[v]
      PROVE  ~overlapped[v] /\ Orderly(v)'
  <2>1. ~overlapped[v] /\ Orderly(v)
    BY <1>1, <1>3
  <2>2. CASE v = main.at
    <3>1. asked[main.camera] \in early'[v] \/ started[v]
      BY <1>1, <2>2 DEF Inv, TypeOK
    <3> QED
      BY <1>1, <1>2, <2>1, <2>2, <3>1 DEF Inv, TypeOK, Orderly, workerVars
  <2>3. CASE v # main.at
    BY <1>1, <2>1, <2>3 DEF Inv, TypeOK, Orderly, workerVars
  <2> QED
    BY <2>2, <2>3
<1>4. ASSUME NEW v \in Worker, ~overlapped'[v], NEW ch \in Channel,
             Registered(v, ch)', ch \notin watching'[v]
      PROVE  InFlight(v, ch)' \/ ch \in early'[v]
  <2>1. /\ ~overlapped[v] /\ Orderly(v) /\ Orderly(v)'
        /\ Registered(v, ch) /\ ch \notin watching[v]
             => InFlight(v, ch) \/ ch \in early[v]
    BY <1>3, <1>4, <1>1 DEF OrderInv, Stranded
  <2> QED
    BY <1>1, <1>2, <1>4, <2>1 DEF Inv, TypeOK, InFlight, Registered, workerVars
<1>5. FreedReadOnlyByOverlap'
  BY DEF Inv, TypeOK, OrderInv, FreedReadOnlyByOverlap, Idle
<1>6. QED
  BY <1>3, <1>4, <1>5 DEF OrderInv, Stranded

(* The start clears the flag: a message announced before it is early.      *)
LEMMA OrderStarts ==
  ASSUME Inv, Inv', OrderInv, NEW w \in Worker, workthread_entry(w)
  PROVE  OrderInv'
<1>1. ASSUME NEW v \in Worker, ~overlapped'[v]
      PROVE  ~overlapped[v] /\ Orderly(v)'
  <2>1. ~overlapped[v]
    BY <1>1 DEF Inv, TypeOK, workthread_entry
  <2>2. Orderly(v)
    BY <2>1 DEF OrderInv
  <2> QED
    BY <1>1, <2>1, <2>2 DEF Inv, TypeOK, Orderly, mainVars, workerVars,
       workthread_entry
<1>2. ASSUME NEW v \in Worker, ~overlapped'[v], NEW ch \in Channel,
             Registered(v, ch)', ch \notin watching'[v]
      PROVE  InFlight(v, ch)' \/ ch \in early'[v]
  <2>1. /\ ~overlapped[v] /\ Orderly(v) /\ Orderly(v)'
        /\ Registered(v, ch) /\ ch \notin watching[v]
             => InFlight(v, ch) \/ ch \in early[v]
    BY <1>1, <1>2 DEF OrderInv, Stranded
  <2> QED
    BY <1>2, <2>1 DEF Inv, TypeOK, Orderly, InFlight, Registered, mainVars,
       workerVars, workthread_entry
<1>3. FreedReadOnlyByOverlap'
  BY DEF Inv, TypeOK, OrderInv, FreedReadOnlyByOverlap, workthread_entry
<1>4. QED
  BY <1>1, <1>2, <1>3 DEF OrderInv, Stranded

(* The wake-up becomes the callback: the message stays announced.          *)
LEMMA OrderQueues ==
  ASSUME Inv, Inv', OrderInv, NEW w \in Worker, QueueCallback(w)
  PROVE  OrderInv'
<1>1. ASSUME NEW v \in Worker, ~overlapped'[v]
      PROVE  ~overlapped[v] /\ Orderly(v)'
  <2>1. ~overlapped[v]
    BY <1>1 DEF Inv, TypeOK, QueueCallback
  <2>2. Orderly(v)
    BY <2>1 DEF OrderInv
  <2> QED
    BY <1>1, <2>1, <2>2 DEF Inv, TypeOK, Orderly, mainVars, workerVars,
       QueueCallback
<1>2. ASSUME NEW v \in Worker, ~overlapped'[v], NEW ch \in Channel,
             Registered(v, ch)', ch \notin watching'[v]
      PROVE  InFlight(v, ch)' \/ ch \in early'[v]
  <2>1. /\ ~overlapped[v] /\ Orderly(v) /\ Orderly(v)'
        /\ Registered(v, ch) /\ ch \notin watching[v]
             => InFlight(v, ch) \/ ch \in early[v]
    BY <1>1, <1>2 DEF OrderInv, Stranded
  <2> QED
    BY <1>2, <2>1 DEF Inv, TypeOK, Orderly, InFlight, Registered, mainVars,
       workerVars, QueueCallback
<1>3. FreedReadOnlyByOverlap'
  BY DEF Inv, TypeOK, OrderInv, FreedReadOnlyByOverlap, QueueCallback
<1>4. QED
  BY <1>1, <1>2, <1>3 DEF OrderInv, Stranded

(* The callback takes the announced message, which was not freed.          *)
LEMMA OrderTakes ==
  ASSUME Inv, Inv', OrderInv, NEW w \in Worker, TakeData(w)
  PROVE  OrderInv'
<1>1. ASSUME NEW v \in Worker, ~overlapped'[v]
      PROVE  ~overlapped[v] /\ Orderly(v)'
  <2>1. ~overlapped[v]
    BY <1>1 DEF Inv, TypeOK, TakeData
  <2>2. Orderly(v)
    BY <2>1 DEF OrderInv
  <2> QED
    BY <1>1, <2>1, <2>2 DEF Inv, TypeOK, Orderly, mainVars, workerVars, TakeData
<1>2. ASSUME NEW v \in Worker, ~overlapped'[v], NEW ch \in Channel,
             Registered(v, ch)', ch \notin watching'[v]
      PROVE  InFlight(v, ch)' \/ ch \in early'[v]
  <2>1. /\ ~overlapped[v] /\ Orderly(v) /\ Orderly(v)'
        /\ Registered(v, ch) /\ ch \notin watching[v]
             => InFlight(v, ch) \/ ch \in early[v]
    BY <1>1, <1>2 DEF OrderInv, Stranded
  <2> QED
    BY <1>2, <2>1 DEF Inv, TypeOK, Orderly, InFlight, Registered, mainVars,
       workerVars, TakeData
<1>3. FreedReadOnlyByOverlap'
  <2>1. queued[w] /\ data[w] # NULL /\ data[w].freed => overlapped[w]
    BY DEF OrderInv, Orderly
  <2> QED
    BY <2>1 DEF Inv, TypeOK, OrderInv, FreedReadOnlyByOverlap, TakeData
<1>4. QED
  BY <1>1, <1>2, <1>3 DEF OrderInv, Stranded

(* The channel of the reply becomes a watched one.                         *)
LEMMA OrderReplies ==
  ASSUME Inv, Inv', OrderInv, NEW w \in Worker, ReplyOk(w)
  PROVE  OrderInv'
<1>1. ASSUME NEW v \in Worker, ~overlapped'[v]
      PROVE  ~overlapped[v] /\ Orderly(v)'
  <2>1. ~overlapped[v]
    BY <1>1 DEF Inv, TypeOK, ReplyOk
  <2>2. Orderly(v)
    BY <2>1 DEF OrderInv
  <2> QED
    BY <1>1, <2>1, <2>2 DEF Inv, TypeOK, Orderly, mainVars, workerVars, ReplyOk
<1>2. ASSUME NEW v \in Worker, ~overlapped'[v], NEW ch \in Channel,
             Registered(v, ch)', ch \notin watching'[v]
      PROVE  InFlight(v, ch)' \/ ch \in early'[v]
  <2>1. /\ ~overlapped[v] /\ Orderly(v) /\ Orderly(v)'
        /\ Registered(v, ch) /\ ch \notin watching[v]
             => InFlight(v, ch) \/ ch \in early[v]
    BY <1>1, <1>2 DEF OrderInv, Stranded
  <2> QED
    BY <1>2, <2>1 DEF Inv, TypeOK, Orderly, InFlight, Registered, mainVars,
       workerVars, ReplyOk
<1>3. FreedReadOnlyByOverlap'
  BY DEF Inv, TypeOK, OrderInv, FreedReadOnlyByOverlap, ReplyOk
<1>4. QED
  BY <1>1, <1>2, <1>3 DEF OrderInv, Stranded

(* The channel of a failed reply is erased, its message freed unannounced. *)
LEMMA OrderFails ==
  ASSUME Inv, Inv', OrderInv, NEW w \in Worker, ReplyFails(w)
  PROVE  OrderInv'
<1>1. ASSUME NEW v \in Worker, ~overlapped'[v]
      PROVE  ~overlapped[v] /\ Orderly(v)'
  <2>1. ~overlapped[v]
    BY <1>1 DEF Inv, TypeOK, ReplyFails
  <2>2. Orderly(v)
    BY <2>1 DEF OrderInv
  <2> QED
    BY <1>1, <2>1, <2>2 DEF Inv, TypeOK, Orderly, mainVars, workerVars, ReplyFails
<1>2. ASSUME NEW v \in Worker, ~overlapped'[v], NEW ch \in Channel,
             Registered(v, ch)', ch \notin watching'[v]
      PROVE  InFlight(v, ch)' \/ ch \in early'[v]
  <2>1. /\ ~overlapped[v] /\ Orderly(v) /\ Orderly(v)'
        /\ Registered(v, ch) /\ ch \notin watching[v]
             => InFlight(v, ch) \/ ch \in early[v]
    BY <1>1, <1>2 DEF OrderInv, Stranded
  <2> QED
    BY <1>2, <2>1 DEF Inv, TypeOK, Orderly, InFlight, Registered, mainVars,
       workerVars, ReplyFails
<1>3. FreedReadOnlyByOverlap'
  BY DEF Inv, TypeOK, OrderInv, FreedReadOnlyByOverlap, ReplyFails
<1>4. QED
  BY <1>1, <1>2, <1>3 DEF OrderInv, Stranded

(* The field cleared holds no message but the one that was replied to.     *)
LEMMA OrderClears ==
  ASSUME Inv, Inv', OrderInv, NEW w \in Worker, ClearData(w)
  PROVE  OrderInv'
<1>1. ASSUME NEW v \in Worker, ~overlapped'[v]
      PROVE  ~overlapped[v] /\ Orderly(v)'
  <2>1. ~overlapped[v]
    BY <1>1 DEF Inv, TypeOK, ClearData
  <2>2. Orderly(v)
    BY <2>1 DEF OrderInv
  <2> QED
    BY <1>1, <2>1, <2>2 DEF Inv, TypeOK, Orderly, mainVars, workerVars, ClearData
<1>2. ASSUME NEW v \in Worker, ~overlapped'[v], NEW ch \in Channel,
             Registered(v, ch)', ch \notin watching'[v]
      PROVE  InFlight(v, ch)' \/ ch \in early'[v]
  <2>1. /\ ~overlapped[v] /\ Orderly(v) /\ Orderly(v)'
        /\ Registered(v, ch) /\ ch \notin watching[v]
             => InFlight(v, ch) \/ ch \in early[v]
    BY <1>1, <1>2 DEF OrderInv, Stranded
  <2> QED
    BY <1>2, <2>1 DEF Inv, TypeOK, Orderly, InFlight, Registered, mainVars,
       workerVars, ClearData
<1>3. FreedReadOnlyByOverlap'
  BY DEF Inv, TypeOK, OrderInv, FreedReadOnlyByOverlap, ClearData
<1>4. QED
  BY <1>1, <1>2, <1>3 DEF OrderInv, Stranded

(* The channel of the camera that went is erased.                          *)
LEMMA OrderDeletes ==
  ASSUME Inv, Inv', OrderInv, NEW w \in Worker, NEW d \in Channel, delete_camera(w, d)
  PROVE  OrderInv'
<1>1. ASSUME NEW v \in Worker, ~overlapped'[v]
      PROVE  ~overlapped[v] /\ Orderly(v)'
  <2>1. ~overlapped[v]
    BY <1>1 DEF Inv, TypeOK, delete_camera
  <2>2. Orderly(v)
    BY <2>1 DEF OrderInv
  <2> QED
    BY <1>1, <2>1, <2>2 DEF Inv, TypeOK, Orderly, mainVars, workerVars,
       delete_camera
<1>2. ASSUME NEW v \in Worker, ~overlapped'[v], NEW ch \in Channel,
             Registered(v, ch)', ch \notin watching'[v]
      PROVE  InFlight(v, ch)' \/ ch \in early'[v]
  <2>1. /\ ~overlapped[v] /\ Orderly(v) /\ Orderly(v)'
        /\ Registered(v, ch) /\ ch \notin watching[v]
             => InFlight(v, ch) \/ ch \in early[v]
    BY <1>1, <1>2 DEF OrderInv, Stranded
  <2> QED
    BY <1>2, <2>1 DEF Inv, TypeOK, Orderly, InFlight, Registered, mainVars,
       workerVars, delete_camera
<1>3. FreedReadOnlyByOverlap'
  BY DEF Inv, TypeOK, OrderInv, FreedReadOnlyByOverlap, delete_camera
<1>4. QED
  BY <1>1, <1>2, <1>3 DEF OrderInv, Stranded

(* Every step keeps it: one case per action.                               *)
LEMMA NextOrder ==
  ASSUME Inv, Inv', OrderInv, [Next]_vars
  PROVE  OrderInv'
<1>1. CASE UNCHANGED vars
  BY <1>1 DEF vars, OrderInv, Orderly, Stranded, InFlight, Registered,
     FreedReadOnlyByOverlap
<1>2. ASSUME NEW c \in Camera, receive_request_cb(c) PROVE OrderInv'
  BY <1>2, OrderChecks DEF receive_request_cb, Refuse, Idle
<1>3. CASE CheckChannel
  <2>1. main'.pc \in {"idle", "pending"}
    <3>1. main' = Idle => main'.pc = "idle"
      BY DEF Idle
    <3>2. main' = [main EXCEPT !.pc = "pending", !.at = round_robin_val]
            => main'.pc = "pending"
      BY DEF Inv, TypeOK
    <3> QED
      BY <1>3, <3>1, <3>2 DEF CheckChannel, Refuse
  <2> QED
    BY <1>3, <2>1, OrderChecks DEF CheckChannel
<1>4. CASE CheckPending
  <2>1. main'.pc = "idle" \/ (main'.pc = "insert" /\ ~sent[main'.at])
    <3>1. main' = Idle => main'.pc = "idle"
      BY DEF Idle
    <3>2. Goto("insert") => main'.pc = "insert" /\ main'.at = main.at
      BY DEF Inv, TypeOK, Goto
    <3> QED
      BY <1>4, <3>1, <3>2 DEF CheckPending, Refuse
  <2> QED
    BY <1>4, <2>1, OrderChecks DEF CheckPending
<1>5. ASSUME NEW w \in Worker, WorkerStep(w) PROVE OrderInv'
  BY <1>5, OrderStarts, OrderQueues, OrderTakes, OrderReplies, OrderFails,
     OrderClears DEF WorkerStep
<1>6. QED
  BY <1>1, <1>2, <1>3, <1>4, <1>5, OrderInserts, OrderPosts, OrderSends,
     OrderConnects, OrderDeletes DEF Next, MainStep

(* OrderInv holds in every behaviour.                                      *)
LEMMA OrderHolds == Spec => []OrderInv
<1>1. Inv /\ Inv' /\ OrderInv /\ [Next]_vars => OrderInv'
  BY NextOrder
<1>2. QED
  BY InitOrder, Ownership, <1>1, PTL DEF Spec

(* A hand-off is lost only on a worker to which the main thread posted     *)
(* while the callback of an earlier message was queued or running, or when *)
(* its wake-up was sent before the worker had started its watcher.         *)
THEOREM LossHasACause == Spec => []LostByOverlapOrEarly
<1>1. OrderInv => LostByOverlapOrEarly
  BY DEF OrderInv, LostByOverlapOrEarly
<1>2. QED
  BY OrderHolds, <1>1, PTL

(* A freed message is read by async_read_cb only after such an overlap.    *)
THEOREM FreedReadNeedsOverlap == Spec => []FreedReadOnlyByOverlap
<1>1. OrderInv => FreedReadOnlyByOverlap
  BY DEF OrderInv
<1>2. QED
  BY OrderHolds, <1>1, PTL

-----------------------------------------------------------------------------
(* How many channels: the check of the limit stays valid until the         *)
(* insertion, because only the main thread inserts.                        *)
Pairs == {wc \in Worker \X Channel : Registered(wc[1], wc[2])}

CountInv ==
  /\ ChannelCount <= CHANNELS_LIMIT + 1
  /\ main.pc \in {"dup", "pending", "insert"} => ChannelCount <= CHANNELS_LIMIT

(* There are finitely many channels of workers.                            *)
LEMMA PairsFinite == IsFiniteSet(Worker \X Channel)
<1>1. IsFiniteSet(Worker)
  BY FS_Interval, WorkthreadsAssumption DEF Worker
<1>2. QED
  BY <1>1, ChannelAssumption, FS_Product

(* ChannelCount is a number.                                               *)
LEMMA CountIsNat == ChannelCount \in Nat /\ IsFiniteSet(Pairs)
<1>1. IsFiniteSet(Pairs)
  BY PairsFinite, FS_Subset DEF Pairs
<1>2. QED
  BY <1>1, FS_CardinalityType DEF Pairs, ChannelCount

(* Erasing does not raise the count.                                       *)
LEMMA CountShrinks ==
  ASSUME Pairs' \subseteq Pairs
  PROVE  ChannelCount' \in Nat /\ ChannelCount' <= ChannelCount
<1>1. Cardinality(Pairs') \in Nat /\ Cardinality(Pairs') <= Cardinality(Pairs)
  BY CountIsNat, FS_Subset, FS_CardinalityType
<1>2. QED
  BY <1>1 DEF Pairs, ChannelCount

(* One insertion raises it by one at most.                                 *)
LEMMA CountGrows ==
  ASSUME NEW x, Pairs' \subseteq Pairs \cup {x}
  PROVE  ChannelCount' \in Nat /\ ChannelCount' <= ChannelCount + 1
<1>1. /\ IsFiniteSet(Pairs \cup {x})
      /\ Cardinality(Pairs \cup {x}) <= Cardinality(Pairs) + 1
  <2>1. IsFiniteSet(Pairs) /\ Cardinality(Pairs) \in Nat
    BY CountIsNat, FS_CardinalityType
  <2>2. /\ IsFiniteSet(Pairs \cup {x})
        /\ Cardinality(Pairs \cup {x}) =
             IF x \in Pairs THEN Cardinality(Pairs) ELSE Cardinality(Pairs) + 1
    BY <2>1, FS_AddElement
  <2> QED
    BY <2>1, <2>2
<1>2. Cardinality(Pairs') <= Cardinality(Pairs \cup {x})
  BY <1>1, FS_Subset
<1>3. /\ Cardinality(Pairs') \in Nat /\ Cardinality(Pairs) \in Nat
      /\ Cardinality(Pairs \cup {x}) \in Nat
  BY <1>1, CountIsNat, FS_Subset, FS_CardinalityType
<1>4. QED
  BY <1>1, <1>2, <1>3 DEF Pairs, ChannelCount

(* The count after a step: unchanged, or one more after InsertCamera.      *)
LEMMA NextCount ==
  ASSUME Inv, Inv', CountInv, [Next]_vars
  PROVE  CountInv'
<1>1. CASE UNCHANGED camera_info_pool
  <2>1. ChannelCount' = ChannelCount
    BY <1>1 DEF ChannelCount, Registered
  <2>2. main'.pc \in {"dup", "pending", "insert"} =>
          \/ main.pc \in {"dup", "pending", "insert"}
          \/ ChannelCount <= CHANNELS_LIMIT
    <3>1. CASE UNCHANGED vars
      BY <3>1 DEF vars
    <3>2. CASE MainStep
      <4>1. ASSUME NEW c \in Camera, receive_request_cb(c)
            PROVE  main'.pc \in {"dup", "pending", "insert"}
                     => ChannelCount <= CHANNELS_LIMIT
        BY <4>1 DEF receive_request_cb, Refuse, Idle
      <4> QED
        BY <3>2, <4>1 DEF Inv, TypeOK, MainStep, CheckChannel, CheckPending,
           InsertCamera,
           PostData, SendAsync, Refuse, Goto, Idle
    <3>3. ASSUME NEW w \in Worker, WorkerStep(w) PROVE main' = main
      BY <3>3 DEF WorkerStep, workthread_entry, QueueCallback, TakeData, ReplyOk, ReplyFails,
         ClearData, mainVars
    <3>4. ASSUME NEW w \in Worker, NEW ch \in Channel, delete_camera(w, ch)
          PROVE  main' = main
      BY <3>4 DEF delete_camera, mainVars
    <3>5. ASSUME NEW c \in Camera, NEW ch \in Channel, Connect(c, ch)
          PROVE  main' = main
      BY <3>5 DEF Connect, mainVars
    <3> QED
      BY <3>1, <3>2, <3>3, <3>4, <3>5 DEF Next
  <2> QED
    BY <2>1, <2>2 DEF CountInv
<1>2. CASE InsertCamera
  <2>1. Pairs' \subseteq Pairs \cup {<<main.at, asked[main.camera]>>}
    BY <1>2 DEF Inv, TypeOK, MainOwns, InsertCamera, Pairs, Registered
  <2>2. ChannelCount' \in Nat /\ ChannelCount' <= ChannelCount + 1
    BY <2>1, CountGrows
  <2>3. main'.pc = "post" /\ main.pc = "insert"
    BY <1>2 DEF Inv, TypeOK, InsertCamera, Goto
  <2>4. ChannelCount \in Nat
    BY CountIsNat
  <2> QED
    BY <2>2, <2>3, <2>4, LimitAssumption DEF CountInv
<1>3. ASSUME NEW w \in Worker, NEW ch \in Channel, main' = main,
             camera_info_pool' = [camera_info_pool EXCEPT ![w][ch] = NULL]
      PROVE  CountInv'
  <2>1. Pairs' \subseteq Pairs
    BY <1>3 DEF Inv, TypeOK, Pairs, Registered
  <2>2. ChannelCount' \in Nat /\ ChannelCount' <= ChannelCount
    BY <2>1, CountShrinks
  <2>3. ChannelCount \in Nat
    BY CountIsNat
  <2> QED
    BY <1>3, <2>2, <2>3, LimitAssumption DEF CountInv
<1>4. ASSUME NEW w \in Worker, ReplyFails(w) PROVE CountInv'
  <2>1. worker[w].message.channel \in Channel
    BY <1>4 DEF Inv, WorkerOwns, ReplyFails, Message
  <2> QED
    BY <1>3, <1>4, <2>1 DEF ReplyFails, mainVars
<1>5. ASSUME NEW w \in Worker, NEW ch \in Channel, delete_camera(w, ch) PROVE CountInv'
  BY <1>3, <1>5 DEF delete_camera, mainVars
<1>6. \/ UNCHANGED camera_info_pool
      \/ InsertCamera
      \/ \E w \in Worker : ReplyFails(w) \/ \E ch \in Channel : delete_camera(w, ch)
  BY DEF Next, MainStep, WorkerStep, vars, receive_request_cb, CheckChannel,
     CheckPending, PostData, SendAsync, workthread_entry, QueueCallback, TakeData,
     ReplyOk, ClearData, Connect
<1>7. QED
  BY <1>1, <1>2, <1>4, <1>5, <1>6

(* The server never has more than one channel over CHANNELS_LIMIT: the     *)
(* check with `>' admits that one, and no interleaving adds another.       *)
THEOREM LimitPlusOne == Spec => []ChannelsBounded
<1>1. Init => CountInv
  <2> SUFFICES ASSUME Init PROVE CountInv
    OBVIOUS
  <2>1. Pairs = {}
    BY DEF Init, Pairs, Registered
  <2>2. ChannelCount = 0
    BY <2>1, FS_EmptySet DEF Pairs, ChannelCount
  <2> QED
    BY <2>2, LimitAssumption DEF CountInv
<1>2. Inv /\ Inv' /\ CountInv /\ [Next]_vars => CountInv'
  BY NextCount
<1>3. CountInv => ChannelsBounded
  BY DEF CountInv, ChannelsBounded
<1>4. QED
  BY <1>1, <1>2, <1>3, Ownership, PTL DEF Spec
=============================================================================
