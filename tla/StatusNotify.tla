---------------------------- MODULE StatusNotify -----------------------------
(***************************************************************************)
(* How other servers learn which cameras are online.  The main thread      *)
(* posts ONLINE once it has handed a camera to a worker; the worker posts  *)
(* OFFLINE when delete_camera begins.  do_channel_notify leaves the        *)
(* message in the one data field of NOTIFY_ASYNC_WATCHER and wakes the     *)
(* notify thread, whose read_channel_status_cb opens a connection to every *)
(* server of the configuration file; do_notify_cb sends the message on it  *)
(* and closes it.                                                          *)
(*                                                                         *)
(* Threads interleave at every access to data and to the flag that         *)
(* ev_async_pending reads.  libev clears the flag when it queues the       *)
(* callback, before the callback runs.  The messages of different          *)
(* connections reach a server in any order.                                *)
(***************************************************************************)
EXTENDS Integers, Sequences, SequencesExt

CONSTANTS Channel, Server,
          Sessions,  \* bound: how often a channel comes online
          NULL

ASSUME SessionsAssumption == Sessions \in Nat

Message == [channel : Channel, status : {"ONLINE", "OFFLINE"}, session : 1 .. Sessions]

ASSUME NullAssumption == NULL \notin Message /\ "main" \notin Channel

(* The threads that call do_channel_notify: the main thread and, for each  *)
(* channel, the worker that serves it.                                     *)
Poster == Channel \cup {"main"}

VARIABLES online,      \* per channel: it is registered with a worker
          session,     \* per channel: how often it came online
          poster,      \* per poster: where its do_channel_notify is
          started,     \* how far notify_server_entry is
          data,        \* NOTIFY_ASYNC_WATCHER->data
          sent,        \* ev_async_pending( NOTIFY_ASYNC_WATCHER )
          queued,      \* read_channel_status_cb is about to run
          notifier,    \* where read_channel_status_cb is
          connected,   \* do_notify_cb watchers, as <<server, message>>
          received,    \* per server: the messages it got, in order
          undefined,   \* NOTIFY_ASYNC_WATCHER was used before it existed
          posted,      \* history: messages logged as sent to the thread
          taken,       \* history: messages the callback has read
          complete,    \* history: no post refused, no connection failed
          early,       \* history: messages written before the watcher was ready
          overlapped   \* history: see WriteData

callbackVars == <<queued, notifier>>
history == <<posted, taken, complete, early, overlapped>>
vars == <<online, session, poster, started, data, sent, queued, notifier,
          connected, received, undefined, posted, taken, complete, early,
          overlapped>>

Resting == [pc |-> "idle", message |-> NULL]
AtRest == [pc |-> "idle", message |-> NULL, left |-> {}]

Init ==
  /\ online = [ch \in Channel |-> FALSE]
  /\ session = [ch \in Channel |-> 0]
  /\ poster = [p \in Poster |-> Resting]
  /\ started = "no"
  /\ data = NULL /\ sent = FALSE /\ queued = FALSE
  /\ notifier = AtRest
  /\ connected = {}
  /\ received = [s \in Server |-> <<>>]
  /\ undefined = FALSE
  /\ posted = {} /\ taken = {} /\ complete = TRUE /\ early = {} /\ overlapped = FALSE

-----------------------------------------------------------------------------
(* Calls of do_channel_notify. *)

Call(p, ch, status) ==
  poster' = [poster EXCEPT ![p] = [pc |-> "pending",
    message |-> [channel |-> ch, status |-> status, session |-> session'[ch]]]]

(* do_camera_request has registered the channel and returned true.         *)
CameraOnline(ch) ==
  /\ poster["main"] = Resting /\ ~online[ch] /\ poster[ch] = Resting
  /\ session[ch] < Sessions
  /\ online' = [online EXCEPT ![ch] = TRUE]
  /\ session' = [session EXCEPT ![ch] = @ + 1]
  /\ Call("main", ch, "ONLINE")
  /\ UNCHANGED <<started, data, sent, callbackVars, connected, received, undefined, history>>

(* delete_camera; the channel is erased after do_channel_notify returned.  *)
CameraOffline(ch) ==
  /\ poster[ch] = Resting /\ online[ch]
  /\ online' = [online EXCEPT ![ch] = FALSE]
  /\ UNCHANGED session
  /\ Call(ch, ch, "OFFLINE")
  /\ UNCHANGED <<started, data, sent, callbackVars, connected, received, undefined, history>>

(* async_read_cb cannot reply to the camera it was handed (how far it is   *)
(* with the camera is not kept here): the channel is erased, and nobody    *)
(* posts an OFFLINE, although the main thread posts the ONLINE.            *)
ReplyFails(ch) ==
  /\ poster[ch] = Resting /\ online[ch]
  /\ online' = [online EXCEPT ![ch] = FALSE]
  /\ UNCHANGED <<session, poster, started, data, sent, callbackVars, connected,
                 received, undefined, history>>

(* ev_async_pending.  When it is set, the failure is logged and the        *)
(* message is never sent.  Before notify_server_entry has run, the watcher *)
(* is NULL, and before ev_async_init the flag may hold anything.           *)
CheckPending(p) ==
  /\ poster[p].pc = "pending"
  /\ \/ /\ started = "no"
        /\ undefined' = TRUE
        /\ UNCHANGED <<poster, complete>>
     \/ /\ started = "allocated" \/ sent
        /\ poster' = [poster EXCEPT ![p] = Resting]
        /\ complete' = FALSE
        /\ UNCHANGED undefined
     \/ /\ started # "no" /\ ~sent
        /\ poster' = [poster EXCEPT ![p].pc = "write"]
        /\ UNCHANGED <<undefined, complete>>
  /\ UNCHANGED <<online, session, started, data, sent, callbackVars, connected,
                 received, posted, taken, early, overlapped>>

(* Another poster is between its check and its ev_async_send.              *)
Posting(p) == poster[p].pc \in {"write", "send"}

(* NOTIFY_ASYNC_WATCHER->data = notify_data.  overlapped remembers that a  *)
(* callback was queued or running, or that another thread was posting.     *)
WriteData(p) ==
  /\ poster[p].pc = "write"
  /\ data' = poster[p].message
  /\ poster' = [poster EXCEPT ![p].pc = "send"]
  /\ early' = IF started = "running" THEN early ELSE early \cup {poster[p].message}
  /\ overlapped' = (\/ overlapped \/ queued \/ sent
                    \/ notifier.pc # "idle"
                    \/ \E q \in Poster \ {p} : Posting(q))
  /\ UNCHANGED <<online, session, started, sent, callbackVars, connected,
                 received, undefined, posted, taken, complete>>

(* Mutant of SendAsync: the notify thread is not woken.                    *)
SendAsync_no_wake(p) ==
  /\ poster[p].pc = "send"
  /\ posted' = posted \cup {poster[p].message}
  /\ poster' = [poster EXCEPT ![p] = Resting]
  /\ UNCHANGED <<online, session, started, data, sent, callbackVars, connected,
                 received, undefined, taken, complete, early, overlapped>>

(* ev_async_send, and "... DONE" is logged.                                *)
SendAsync(p) ==
  /\ poster[p].pc = "send"
  /\ sent' = TRUE
  /\ posted' = posted \cup {poster[p].message}
  /\ poster' = [poster EXCEPT ![p] = Resting]
  /\ UNCHANGED <<online, session, started, data, callbackVars, connected,
                 received, undefined, taken, complete, early, overlapped>>

-----------------------------------------------------------------------------
(* The notify thread. *)

(* notify_server_entry: new ev_async, then ev_async_init, which clears the *)
(* flag, ev_async_start and ev_run.                                        *)
notify_server_entry ==
  /\ \/ /\ started = "no"
        /\ started' = "allocated"
        /\ UNCHANGED sent
     \/ /\ started = "allocated"
        /\ started' = "running"
        /\ sent' = FALSE
  /\ UNCHANGED <<online, session, poster, data, callbackVars, connected,
                 received, undefined, history>>

(* libev, in the thread's loop: the wake-up becomes a queued callback.     *)
QueueCallback ==
  /\ started = "running" /\ notifier = AtRest /\ ~queued /\ sent
  /\ sent' = FALSE
  /\ queued' = TRUE
  /\ UNCHANGED <<online, session, poster, started, data, notifier, connected,
                 received, undefined, history>>

(* read_channel_status_cb reads data.                                      *)
ReadData ==
  /\ queued
  /\ queued' = FALSE
  /\ \/ /\ data # NULL
        /\ notifier' = [pc |-> "connect", message |-> data, left |-> Server]
        /\ taken' = taken \cup {data}
     \/ /\ data = NULL
        /\ notifier' = [AtRest EXCEPT !.pc = "clear"]
        /\ UNCHANGED taken
  /\ UNCHANGED <<online, session, poster, started, data, sent, connected,
                 received, undefined, posted, complete, early, overlapped>>

(* tcp_connect to the next server, and a watcher with a copy of the        *)
(* message; a server that cannot be reached is passed over.                *)
ConnectServer(s) ==
  /\ notifier.pc = "connect" /\ s \in notifier.left
  /\ notifier' = [notifier EXCEPT !.left = @ \ {s}]
  /\ \/ /\ connected' = connected \cup {<<s, notifier.message>>}
        /\ UNCHANGED complete
     \/ /\ complete' = FALSE
        /\ UNCHANGED connected
  /\ UNCHANGED <<online, session, poster, started, data, sent, queued,
                 received, undefined, posted, taken, early, overlapped>>

(* Mutant of EndOfServers: the loop ends at the first server.              *)
EndOfServers_early ==
  /\ notifier.pc = "connect"
  /\ notifier' = [notifier EXCEPT !.pc = "clear", !.left = {}]
  /\ UNCHANGED <<online, session, poster, started, data, sent, queued,
                 connected, received, undefined, history>>

(* All servers were tried.                                                 *)
EndOfServers ==
  /\ notifier.pc = "connect" /\ notifier.left = {}
  /\ notifier' = [notifier EXCEPT !.pc = "clear"]
  /\ UNCHANGED <<online, session, poster, started, data, sent, queued,
                 connected, received, undefined, history>>

(* Mutant of ClearData: the data field keeps its message.                  *)
ClearData_kept ==
  /\ notifier.pc = "clear"
  /\ notifier' = AtRest
  /\ UNCHANGED <<online, session, poster, started, data, sent, queued,
                 connected, received, undefined, history>>

(* The callback deletes what data points to by then, and clears it.        *)
ClearData ==
  /\ notifier.pc = "clear"
  /\ data' = NULL
  /\ notifier' = AtRest
  /\ UNCHANGED <<online, session, poster, started, sent, queued, connected,
                 received, undefined, history>>

(* do_notify_cb: the message is written, or that fails, and the connection *)
(* is closed either way.                                                   *)
do_notify_cb(s, m) ==
  /\ started = "running" /\ notifier = AtRest /\ <<s, m>> \in connected
  /\ connected' = connected \ {<<s, m>>}
  /\ \/ /\ received' = [received EXCEPT ![s] = Append(@, m)]
        /\ UNCHANGED complete
     \/ /\ complete' = FALSE
        /\ UNCHANGED received
  /\ UNCHANGED <<online, session, poster, started, data, sent, callbackVars,
                 undefined, posted, taken, early, overlapped>>

-----------------------------------------------------------------------------
PosterStep(p) == CheckPending(p) \/ WriteData(p) \/ SendAsync(p)

NotifierStep ==
  \/ notify_server_entry \/ QueueCallback \/ ReadData \/ EndOfServers \/ ClearData
  \/ \E s \in Server : ConnectServer(s) \/ \E m \in Message : do_notify_cb(s, m)

Next ==
  /\ ~undefined
  /\ \/ \E ch \in Channel : CameraOnline(ch) \/ CameraOffline(ch) \/ ReplyFails(ch)
     \/ \E p \in Poster : PosterStep(p)
     \/ NotifierStep

(* The posters run do_channel_notify to its end and the notify thread runs *)
(* its loop; cameras come and go as they like.                             *)
Fairness == /\ WF_vars(~undefined /\ NotifierStep)
            /\ \A p \in Poster : WF_vars(~undefined /\ PosterStep(p))

Spec == Init /\ [][Next]_vars /\ Fairness

-----------------------------------------------------------------------------
PosterType == [pc : {"idle", "pending", "write", "send"}, message : Message \cup {NULL}]
NotifierType == [pc : {"idle", "connect", "clear"}, message : Message \cup {NULL},
                 left : SUBSET Server]

(* The threads are at one of their steps and data holds a message or NULL. *)
TypeOK ==
  /\ online \in [Channel -> BOOLEAN]
  /\ session \in [Channel -> 0 .. Sessions]
  /\ poster \in [Poster -> PosterType]
  /\ started \in {"no", "allocated", "running"}
  /\ data \in Message \cup {NULL}
  /\ sent \in BOOLEAN /\ queued \in BOOLEAN
  /\ notifier \in NotifierType
  /\ connected \subseteq Server \X Message
  /\ received \in [Server -> Seq(Message)]
  /\ undefined \in BOOLEAN
  /\ posted \subseteq Message /\ taken \subseteq Message
  /\ early \subseteq Message /\ complete \in BOOLEAN /\ overlapped \in BOOLEAN

(* The threads share  one data field, which is overwritten, freed and      *)
(* cleared without a lock: still a server is told of a status at most      *)
(* once, and only of one a thread really has posted.                       *)
ToldOnce ==
  \A s \in Server :
    /\ IsInjective(received[s])
    /\ \A m \in ToSet(received[s]) :
         m \in posted \cup {poster[p].message : p \in Poster}

(* The message is in the data field and the notify thread is going to look *)
(* at it.                                                                  *)
Waiting(m) == data = m /\ (sent \/ queued)

(* A status whose post was logged as done gets lost only when it was       *)
(* posted while the callback of an earlier one was queued or running,      *)
(* while another thread was posting, or before the watcher was ready.      *)
StatusLostOnlyByOverlap ==
  ~overlapped => \A m \in posted \ early : m \in taken \/ Waiting(m)

(* Without overlap, failures or refusals every server gets every status.   *)
AllTold ==
  \A m \in Message :
    [](m \in posted =>
       <>(\/ overlapped \/ m \in early \/ ~complete \/ undefined
          \/ \A s \in Server : m \in ToSet(received[s])))
=============================================================================
