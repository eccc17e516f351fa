---------------------------- MODULE BackingRelay -----------------------------
(***************************************************************************)
(* The relays of one worker.  For a viewer whose channel is not here but   *)
(* who names a source, do_the_backing_source_request connects to that      *)
(* streaming server, enters both sockets in the channel's socketfd_pool    *)
(* and hands them to the worker.  There send_backing_resource_cb sends the *)
(* imitated request, pull_stream_cb reads the stream chunk by chunk and    *)
(* push_stream_cb writes it to the viewer.                                 *)
(*                                                                         *)
(* The callbacks of a worker run one at a time, in any order the sockets   *)
(* allow.  push_stream_cb and send_backing_resource_cb keep their progress *)
(* in static variables: one of each for all relays (of all workers).  The  *)
(* stream of a source is its bytes 1, 2, 3, ...; requests differ in length *)
(* with what they ask for.  Sockets are not numbered (see SocketTable).    *)
(***************************************************************************)
EXTENDS Integers, Sequences, SequencesExt, FiniteSets

CONSTANTS Relay, Channel,
          ChannelOf,    \* the channel a relay is for
          ChunkSize,    \* TAG_DATA_SIZE, what one read takes at most
          StreamSize,   \* bound: bytes a source sends
          RequestSize   \* per relay: bytes of its imitated request

ASSUME ChannelOfAssumption == ChannelOf \in [Relay -> Channel]
ASSUME SizesAssumption == ChunkSize \in Nat \ {0} /\ StreamSize \in Nat
ASSUME RequestSizeAssumption == RequestSize \in [Relay -> Nat \ {0}]

Socket == Relay \X {"source", "viewer"}
Source(r) == <<r, "source">>
Viewer(r) == <<r, "viewer">>
NoChunk == [first |-> 0, bytes |-> 0]

VARIABLES asked,          \* relays that were requested
          refused,        \* history: relays that were refused by RefuseRelay
          open,           \* open sockets
          pool,           \* per channel: socketfd_pool, {} without resource
          requesting,     \* relays with a send_backing_resource_cb watcher
          pulling,        \* relays with a pull_stream_cb watcher
          pushing,        \* relays with an active push_stream_cb watcher
          viewerOff,      \* relays whose push_stream_watcher->fd is -1
          chunk,          \* per relay: push_stream_watcher->data
          read,           \* per relay: bytes read from the source
          total_bytes,    \* static in push_stream_cb
          request_bytes,  \* static total_bytes in send_backing_resource_cb
          got,            \* per relay: what the viewer was sent
          request,        \* per relay: bytes of the request the source got
          undefined,      \* end() was used, or a size fell below zero
          sender,         \* history: relay that total_bytes is about
          mixed,          \* history: total_bytes was used for another one
          overwritten,    \* history: a chunk was replaced before it was sent
          requester,      \* history: relay that request_bytes is about
          requestMixed,   \* history: request_bytes was used for another one
          unsettled       \* history: a resource went with a relay left on it

watcherVars == <<requesting, pulling, pushing, viewerOff>>
streamVars  == <<chunk, read, total_bytes, got, sender, mixed, overwritten>>
requestVars == <<request_bytes, request, requester, requestMixed>>
vars == <<asked, refused, open, pool, requesting, pulling, pushing, viewerOff, chunk, read,
          total_bytes, got, sender, mixed, overwritten, request_bytes, request,
          requester, requestMixed, undefined, unsettled>>

Init ==
  /\ asked = {} /\ refused = {} /\ open = {}
  /\ pool = [ch \in Channel |-> {}]
  /\ requesting = {} /\ pulling = {} /\ pushing = {} /\ viewerOff = {}
  /\ chunk = [r \in Relay |-> NoChunk]
  /\ read = [r \in Relay |-> 0]
  /\ total_bytes = 0 /\ request_bytes = 0
  /\ got = [r \in Relay |-> <<>>]
  /\ request = [r \in Relay |-> {}]
  /\ undefined = FALSE
  /\ sender = {} /\ mixed = FALSE /\ overwritten = {} /\ unsettled = FALSE
  /\ requester = {} /\ requestMixed = FALSE

(* get_backing_resource_item finds the resource a socket belongs to; when  *)
(* there is none it returns end(), and all its callers use that.           *)
get_backing_resource_item(s) == {ch \in Channel : s \in pool[ch]}

Fail == undefined' = TRUE

(* Relays whose watchers still look for their sockets in the pool of ch.   *)
LeftOn(ch, r) == \E s \in pulling \ {r} : ChannelOf[s] = ch

-----------------------------------------------------------------------------
(* The viewer's request is relayed: both sockets are entered, and the      *)
(* worker's async_read_cb starts the watchers.                             *)
StartRelay(r) ==
  /\ r \notin asked
  /\ asked' = asked \cup {r}
  /\ open' = open \cup {Source(r), Viewer(r)}
  /\ pool' = [pool EXCEPT ![ChannelOf[r]] = @ \cup {Source(r), Viewer(r)}]
  /\ requesting' = requesting \cup {r}
  /\ pulling' = pulling \cup {r}
  /\ UNCHANGED <<refused, pushing, viewerOff, streamVars, requestVars, undefined,
                 unsettled>>

(* The worker of a channel that is relayed already has a wake-up pending:  *)
(* the viewer gets 500 and is closed.  Its socket stays in the pool, and   *)
(* the one to the source stays open.                                       *)
RefuseRelay(r) ==
  /\ r \notin asked
  /\ pool[ChannelOf[r]] # {}
  /\ asked' = asked \cup {r} /\ refused' = refused \cup {r}
  /\ open' = open \cup {Source(r)}
  /\ pool' = [pool EXCEPT ![ChannelOf[r]] = @ \cup {Source(r), Viewer(r)}]
  /\ UNCHANGED <<watcherVars, streamVars, requestVars, undefined, unsettled>>

(* send_backing_resource_cb is at byte request_bytes of this request;      *)
(* requestMixed remembers that it got there with another relay's request.  *)
MixInRequest(r) ==
  /\ requestMixed' = (requestMixed \/ (request_bytes # 0 /\ requester # {r}))
  /\ requester' = {r}

(* send_backing_resource_cb writes n bytes, from where the static          *)
(* total_bytes says it is.  A counter that equals the length of this       *)
(* request means that it was sent, whoever counted: nothing is written.    *)
SendRequest(r, n) ==
  /\ r \in requesting /\ Source(r) \in open
  /\ n = 0 => request_bytes = RequestSize[r]
  /\ MixInRequest(r)
  /\ LET upto == request_bytes + n
     IN  /\ upto <= RequestSize[r]
         /\ request' = [request EXCEPT ![r] = @ \cup (request_bytes + 1 .. upto)]
         /\ IF upto = RequestSize[r]
            THEN request_bytes' = 0 /\ requesting' = requesting \ {r}
            ELSE request_bytes' = upto /\ UNCHANGED requesting
  /\ UNCHANGED <<asked, refused, open, pool, pulling, pushing, viewerOff, streamVars,
                 undefined, unsettled>>

(* The counter is beyond this request: the size to write is below zero,    *)
(* which a size_t makes a huge one.                                        *)
RequestBeyond(r) ==
  /\ r \in requesting /\ Source(r) \in open
  /\ request_bytes > RequestSize[r]
  /\ MixInRequest(r)
  /\ Fail
  /\ UNCHANGED <<asked, refused, open, pool, watcherVars, streamVars, request_bytes,
                 request, unsettled>>

(* The write fails: the resource is erased without closing its sockets,    *)
(* and pull_stream_watcher keeps running.                                  *)
RequestFails(r) ==
  /\ r \in requesting /\ Source(r) \in open
  /\ request_bytes < RequestSize[r]
  /\ MixInRequest(r)
  /\ IF get_backing_resource_item(Source(r)) = {}
     THEN Fail /\ UNCHANGED <<pool, requesting, request_bytes, unsettled>>
     ELSE /\ pool' = [pool EXCEPT ![ChannelOf[r]] = {}]
          /\ requesting' = requesting \ {r}
          /\ request_bytes' = 0
          /\ unsettled' = TRUE
          /\ UNCHANGED undefined
  /\ UNCHANGED <<asked, refused, open, pulling, pushing, viewerOff, streamVars, request>>

-----------------------------------------------------------------------------
(* pull_stream_cb, once the viewer is off: the relay is taken down.        *)
PullAfterViewer(r) ==
  /\ r \in pulling /\ r \in viewerOff /\ Source(r) \in open
  /\ IF get_backing_resource_item(Source(r)) = {}
     THEN Fail /\ UNCHANGED <<pool, open, pulling>>
     ELSE /\ pool' = [pool EXCEPT ![ChannelOf[r]] = @ \ {Source(r)}]
          /\ open' = open \ {Source(r)}
          /\ pulling' = pulling \ {r}
          /\ UNCHANGED undefined
  /\ UNCHANGED <<asked, refused, requesting, pushing, viewerOff, streamVars, requestVars, unsettled>>

(* pull_stream_cb reads n bytes, hands them to the push watcher, whatever  *)
(* that still holds, and starts it.  The source streams once it has seen   *)
(* the end of a request.                                                   *)
PullChunk(r, n) ==
  /\ r \in pulling \ viewerOff /\ Source(r) \in open
  /\ RequestSize[r] \in request[r]
  /\ read[r] + n <= StreamSize
  /\ chunk' = [chunk EXCEPT ![r] = [first |-> read[r] + 1, bytes |-> n]]
  /\ read' = [read EXCEPT ![r] = @ + n]
  /\ pushing' = pushing \cup {r}
  /\ overwritten' = IF chunk[r] = NoChunk THEN overwritten ELSE overwritten \cup {r}
  /\ UNCHANGED <<asked, refused, open, pool, requesting, pulling, viewerOff, total_bytes,
                 got, sender, mixed, requestVars, undefined, unsettled>>

(* Mutant of PullEnd: the resource keeps its entry.                        *)
PullEnd_keeps_resource(r) ==
  /\ r \in pulling \ viewerOff /\ Source(r) \in open
  /\ open' = open \ pool[ChannelOf[r]]
  /\ pulling' = pulling \ {r}
  /\ pushing' = pushing \ {r}
  /\ UNCHANGED <<asked, refused, pool, requesting, viewerOff, streamVars, requestVars, undefined, unsettled>>

(* The source has nothing more: every socket of the channel's pool is      *)
(* closed and the resource erased (DELETE_RESOURCE).                       *)
PullEnd(r) ==
  /\ r \in pulling \ viewerOff /\ Source(r) \in open
  /\ IF get_backing_resource_item(Source(r)) = {}
     THEN Fail /\ UNCHANGED <<open, pool, pulling, pushing, unsettled>>
     ELSE /\ open' = open \ pool[ChannelOf[r]]
          /\ pool' = [pool EXCEPT ![ChannelOf[r]] = {}]
          /\ pulling' = pulling \ {r}
          /\ pushing' = pushing \ {r}
          /\ unsettled' = (unsettled \/ LeftOn(ChannelOf[r], r))
          /\ UNCHANGED undefined
  /\ UNCHANGED <<asked, refused, requesting, viewerOff, streamVars, requestVars>>

-----------------------------------------------------------------------------
(* push_stream_cb is at byte total_bytes of this relay's chunk; mixed      *)
(* remembers that it got there with another relay's chunk.                 *)
MixIn(r) ==
  /\ mixed' = (mixed \/ (total_bytes # 0 /\ sender # {r}))
  /\ sender' = {r}

(* Mutant of PushPart: every write starts at the head of the chunk.        *)
PushPart_from_head(r, n) ==
  /\ r \in pushing /\ Viewer(r) \in open
  /\ MixIn(r)
  /\ total_bytes + n <= chunk[r].bytes
  /\ got' = [got EXCEPT ![r] = @ \o [i \in 1 .. n |-> chunk[r].first + i - 1]]
  /\ IF total_bytes + n = chunk[r].bytes
     THEN /\ total_bytes' = 0
          /\ chunk' = [chunk EXCEPT ![r] = NoChunk]
          /\ pushing' = pushing \ {r}
     ELSE total_bytes' = total_bytes + n /\ UNCHANGED <<chunk, pushing>>
  /\ UNCHANGED <<asked, refused, open, pool, requesting, pulling, viewerOff, read,
                 overwritten, requestVars, undefined, unsettled>>

(* push_stream_cb writes n bytes; the chunk that is sent completely, or    *)
(* that has exactly total_bytes bytes, is deleted and the watcher stopped. *)
PushPart(r, n) ==
  /\ r \in pushing /\ Viewer(r) \in open
  /\ total_bytes + n <= chunk[r].bytes
  /\ n = 0 => total_bytes = chunk[r].bytes
  /\ MixIn(r)
  /\ got' = [got EXCEPT ![r] = @ \o [i \in 1 .. n |-> chunk[r].first + total_bytes + i - 1]]
  /\ IF total_bytes + n = chunk[r].bytes
     THEN /\ total_bytes' = 0
          /\ chunk' = [chunk EXCEPT ![r] = NoChunk]
          /\ pushing' = pushing \ {r}
     ELSE total_bytes' = total_bytes + n /\ UNCHANGED <<chunk, pushing>>
  /\ UNCHANGED <<asked, refused, open, pool, requesting, pulling, viewerOff, read,
                 overwritten, requestVars, undefined, unsettled>>

(* total_bytes is beyond the chunk: the size to write falls below zero.    *)
PushBeyond(r) ==
  /\ r \in pushing /\ Viewer(r) \in open
  /\ total_bytes > chunk[r].bytes
  /\ MixIn(r)
  /\ Fail
  /\ UNCHANGED <<asked, refused, open, pool, watcherVars, chunk, read, total_bytes, got,
                 overwritten, requestVars, unsettled>>

(* Mutant of PushFails: the source's socket is taken out of the pool.      *)
PushFails_wrong_socket(r) ==
  /\ r \in pushing /\ Viewer(r) \in open
  /\ total_bytes < chunk[r].bytes
  /\ pool' = [pool EXCEPT ![ChannelOf[r]] = @ \ {Source(r)}]
  /\ open' = open \ {Viewer(r)}
  /\ pushing' = pushing \ {r}
  /\ viewerOff' = viewerOff \cup {r}
  /\ chunk' = [chunk EXCEPT ![r] = NoChunk]
  /\ UNCHANGED <<asked, refused, requesting, pulling, read, total_bytes, got,
                 sender, mixed, overwritten, requestVars, unsettled, undefined>>

(* The write fails: the viewer is taken out of the pool and closed, and    *)
(* its descriptor set to -1.  total_bytes keeps its value.                 *)
PushFails(r) ==
  /\ r \in pushing /\ Viewer(r) \in open
  /\ total_bytes < chunk[r].bytes
  /\ IF get_backing_resource_item(Viewer(r)) = {}
     THEN Fail /\ UNCHANGED <<pool, open, pushing, viewerOff, chunk>>
     ELSE /\ pool' = [pool EXCEPT ![ChannelOf[r]] = @ \ {Viewer(r)}]
          /\ open' = open \ {Viewer(r)}
          /\ pushing' = pushing \ {r}
          /\ viewerOff' = viewerOff \cup {r}
          /\ chunk' = [chunk EXCEPT ![r] = NoChunk]
          /\ UNCHANGED undefined
  /\ UNCHANGED <<asked, refused, requesting, pulling, read, total_bytes, got, sender,
                 mixed, overwritten, requestVars, unsettled>>

RelayStep(r) ==
  \/ StartRelay(r) \/ RefuseRelay(r) \/ RequestFails(r) \/ RequestBeyond(r)
  \/ PullAfterViewer(r) \/ PullEnd(r) \/ PushBeyond(r) \/ PushFails(r)
  \/ \E n \in 0 .. RequestSize[r] : SendRequest(r, n)
  \/ \E n \in 1 .. ChunkSize : PullChunk(r, n)
  \/ \E n \in 0 .. ChunkSize : PushPart(r, n)

Next == ~undefined /\ \E r \in Relay : RelayStep(r)

Spec == Init /\ [][Next]_vars

-----------------------------------------------------------------------------
ChunkType == [first : 0 .. StreamSize, bytes : 0 .. ChunkSize]

(* Watchers belong to relays, and total_bytes stays within a chunk.        *)
TypeOK ==
  /\ asked \subseteq Relay /\ refused \subseteq asked /\ open \subseteq Socket
  /\ pool \in [Channel -> SUBSET Socket]
  /\ requesting \subseteq asked /\ pulling \subseteq asked
  /\ pushing \subseteq asked /\ viewerOff \subseteq asked
  /\ chunk \in [Relay -> ChunkType]
  /\ read \in [Relay -> 0 .. StreamSize]
  /\ total_bytes \in 0 .. ChunkSize - 1 /\ request_bytes \in Nat
  /\ got \in [Relay -> Seq(1 .. StreamSize)]
  /\ request \in [Relay -> SUBSET Nat]
  /\ undefined \in BOOLEAN /\ mixed \in BOOLEAN /\ unsettled \in BOOLEAN
  /\ sender \subseteq Relay /\ overwritten \subseteq Relay
  /\ requester \subseteq Relay /\ requestMixed \in BOOLEAN

(* A viewer was sent the stream so far, unless the counter was left by     *)
(* another relay, or the source delivered a chunk before the viewer had    *)
(* taken the one before.                                                   *)
ViewerIntact ==
  ~mixed => \A r \in Relay \ overwritten : \A i \in DOMAIN got[r] : got[r][i] = i

(* A relay that is done with its request has sent all of it, unless that   *)
(* counter was left by another relay, or a request failed.                 *)
RequestIntact ==
  ~requestMixed /\ ~unsettled =>
    \A r \in asked \ (requesting \cup refused) : request[r] = 1 .. RequestSize[r]

(* What goes through the static counters of push_stream_cb and of          *)
(* send_backing_resource_cb arrives byte by byte, until they are mixed up: *)
(* the stream at the viewers and the requests at the sources.              *)
StreamIntact == ViewerIntact /\ RequestIntact

(* The callbacks use what get_backing_resource_item returns unchecked, and *)
(* the counters as indices: that goes wrong only when a resource was       *)
(* erased with a relay left on it, or a counter was not about this chunk   *)
(* or this request.                                                        *)
UndefinedExplained ==
  undefined => unsettled \/ mixed \/ overwritten # {} \/ requestMixed

(* A channel stays in resource_info_pool only as long as one of its relays *)
(* pulls; with none left its entry is gone and the next viewer starts      *)
(* anew.  Only the sockets of a refused relay can keep the entry.          *)
ResourceHasRelay ==
  \A ch \in Channel : pool[ch] # {} =>
    \/ \E r \in pulling : ChannelOf[r] = ch
    \/ \E r \in refused : ChannelOf[r] = ch
=============================================================================
