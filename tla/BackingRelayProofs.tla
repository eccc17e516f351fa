-------------------------- MODULE BackingRelayProofs --------------------------
(***************************************************************************)
(* The relays of a worker, for every number of relays and channels and     *)
(* every size: what the static counters may spoil, and nothing else does.  *)
(***************************************************************************)
EXTENDS BackingRelay, SequenceTheorems, TLAPS

(* A relay that was not asked for has no state yet; a callback that counts *)
(* in total_bytes is one of a relay.                                       *)
Asked ==
  /\ \A r \in Relay \ asked : chunk[r] = NoChunk /\ read[r] = 0 /\ got[r] = <<>>
  /\ sender \subseteq asked /\ pulling \cap refused = {}
  /\ \A s \in open : s[1] \in asked
  /\ \A r \in pushing : r \in pulling \ viewerOff

(* push_stream_cb has a chunk, the last one that was read.                 *)
Chunks == \A r \in Relay :
  /\ r \in pushing => chunk[r] # NoChunk
  /\ chunk[r] # NoChunk => /\ chunk[r].first >= 1 /\ chunk[r].bytes >= 1
                           /\ read[r] = chunk[r].first + chunk[r].bytes - 1

(* An entry of socketfd_pool is of a relay of its channel that still pulls *)
(* or was refused; the entry of a viewer that is off is gone.              *)
Entries ==
  /\ \A ch \in Channel : \A s \in pool[ch] :
       ChannelOf[s[1]] = ch /\ s[1] \in pulling \cup refused
  /\ \A r \in viewerOff, ch \in Channel : Viewer(r) \notin pool[ch]

(* Unless a resource was erased under its relays, a socket that is open is *)
(* entered, so that get_backing_resource_item finds it.                    *)
Found == ~unsettled => \A s \in open : s \in pool[ChannelOf[s[1]]]

(* How far push_stream_cb is in the chunk of this relay.                   *)
Progress(r) == IF sender = {r} THEN total_bytes ELSE 0

(* The counter is that of the last sender, and what the viewer got and the *)
(* rest of its chunk are what was read.                                    *)
Counter ==
  ~mixed =>
    /\ total_bytes # 0 => \E r \in Relay : sender = {r}
    /\ \A r \in Relay \ overwritten :
         /\ r \in pushing => /\ Progress(r) < chunk[r].bytes
                             /\ Len(got[r]) = chunk[r].first - 1 + Progress(r)
         /\ r \in pulling \ (viewerOff \cup pushing) =>
              /\ chunk[r] = NoChunk /\ Progress(r) = 0
              /\ Len(got[r]) = read[r]

(* How far send_backing_resource_cb is in the request of this relay.       *)
RequestProgress(r) == IF requester = {r} THEN request_bytes ELSE 0

(* That counter, too, is the progress of the last requester, and what the  *)
(* source got of a request under way is its beginning.                     *)
Requests ==
  /\ requester \subseteq asked
  /\ \A r \in Relay \ asked : request[r] = {}
  /\ ~requestMixed => \A r \in requesting :
       RequestProgress(r) < RequestSize[r] /\ request[r] = 1 .. RequestProgress(r)

IInv == /\ TypeOK /\ Asked /\ Chunks /\ Entries /\ Found /\ Counter /\ Requests
        /\ StreamIntact /\ UndefinedExplained

-----------------------------------------------------------------------------
(* The two sockets of a relay.                                             *)
LEMMA Sockets ==
  /\ \A r \in Relay : /\ Source(r) \in Socket /\ Viewer(r) \in Socket
                       /\ Source(r)[1] = r /\ Viewer(r)[1] = r
  /\ \A s \in Socket : s[1] \in Relay /\ (s = Source(s[1]) \/ s = Viewer(s[1]))
  /\ \A q, r \in Relay : Source(q) # Viewer(r)
BY DEF Socket, Source, Viewer

(* What an update of one channel's socketfd_pool leaves.                   *)
LEMMA PoolUpdate ==
  ASSUME TypeOK, NEW r \in Relay, NEW S \in SUBSET Socket,
         pool' = [pool EXCEPT ![ChannelOf[r]] = S]
  PROVE  /\ pool' \in [Channel -> SUBSET Socket]
         /\ pool'[ChannelOf[r]] = S
         /\ \A ch \in Channel : ch # ChannelOf[r] => pool'[ch] = pool[ch]
         /\ ChannelOf[r] \in Channel /\ pool[ChannelOf[r]] \subseteq Socket
BY ChannelOfAssumption DEF TypeOK

(* How each callback changes the pool.                                     *)
LEMMA StartRelayPool ==
  ASSUME TypeOK, NEW r \in Relay, StartRelay(r)
  PROVE  /\ pool' \in [Channel -> SUBSET Socket]
         /\ pool'[ChannelOf[r]] = pool[ChannelOf[r]] \cup {Source(r), Viewer(r)}
         /\ \A ch \in Channel : ch # ChannelOf[r] => pool'[ch] = pool[ch]
         /\ ChannelOf[r] \in Channel /\ pool[ChannelOf[r]] \subseteq Socket
<1>1. /\ pool[ChannelOf[r]] \cup {Source(r), Viewer(r)} \in SUBSET Socket
      /\ pool' = [pool EXCEPT ![ChannelOf[r]] = pool[ChannelOf[r]] \cup {Source(r), Viewer(r)}]
  BY Sockets, ChannelOfAssumption DEF StartRelay, TypeOK
<1> QED
  BY <1>1, PoolUpdate

LEMMA RefuseRelayPool ==
  ASSUME TypeOK, NEW r \in Relay, RefuseRelay(r)
  PROVE  /\ pool' \in [Channel -> SUBSET Socket]
         /\ pool'[ChannelOf[r]] = pool[ChannelOf[r]] \cup {Source(r), Viewer(r)}
         /\ \A ch \in Channel : ch # ChannelOf[r] => pool'[ch] = pool[ch]
         /\ ChannelOf[r] \in Channel /\ pool[ChannelOf[r]] \subseteq Socket
<1>1. /\ pool[ChannelOf[r]] \cup {Source(r), Viewer(r)} \in SUBSET Socket
      /\ pool' = [pool EXCEPT ![ChannelOf[r]] = pool[ChannelOf[r]] \cup {Source(r), Viewer(r)}]
  BY Sockets, ChannelOfAssumption DEF RefuseRelay, TypeOK
<1> QED
  BY <1>1, PoolUpdate

LEMMA RequestFailsPool ==
  ASSUME TypeOK, NEW r \in Relay, RequestFails(r), get_backing_resource_item(Source(r)) # {}
  PROVE  /\ pool' \in [Channel -> SUBSET Socket]
         /\ pool'[ChannelOf[r]] = {}
         /\ \A ch \in Channel : ch # ChannelOf[r] => pool'[ch] = pool[ch]
         /\ ChannelOf[r] \in Channel /\ pool[ChannelOf[r]] \subseteq Socket
<1>1. /\ {} \in SUBSET Socket
      /\ pool' = [pool EXCEPT ![ChannelOf[r]] = {}]
  BY Sockets, ChannelOfAssumption DEF RequestFails, TypeOK
<1> QED
  BY <1>1, PoolUpdate

LEMMA PullAfterViewerPool ==
  ASSUME TypeOK, NEW r \in Relay, PullAfterViewer(r), get_backing_resource_item(Source(r)) # {}
  PROVE  /\ pool' \in [Channel -> SUBSET Socket]
         /\ pool'[ChannelOf[r]] = pool[ChannelOf[r]] \ {Source(r)}
         /\ \A ch \in Channel : ch # ChannelOf[r] => pool'[ch] = pool[ch]
         /\ ChannelOf[r] \in Channel /\ pool[ChannelOf[r]] \subseteq Socket
<1>1. /\ pool[ChannelOf[r]] \ {Source(r)} \in SUBSET Socket
      /\ pool' = [pool EXCEPT ![ChannelOf[r]] = pool[ChannelOf[r]] \ {Source(r)}]
  BY Sockets, ChannelOfAssumption DEF PullAfterViewer, TypeOK
<1> QED
  BY <1>1, PoolUpdate, ZenonT(30)

LEMMA PullEndPool ==
  ASSUME TypeOK, NEW r \in Relay, PullEnd(r), get_backing_resource_item(Source(r)) # {}
  PROVE  /\ pool' \in [Channel -> SUBSET Socket]
         /\ pool'[ChannelOf[r]] = {}
         /\ \A ch \in Channel : ch # ChannelOf[r] => pool'[ch] = pool[ch]
         /\ ChannelOf[r] \in Channel /\ pool[ChannelOf[r]] \subseteq Socket
<1>1. /\ {} \in SUBSET Socket
      /\ pool' = [pool EXCEPT ![ChannelOf[r]] = {}]
  BY Sockets, ChannelOfAssumption DEF PullEnd, TypeOK
<1> QED
  BY <1>1, PoolUpdate

LEMMA PushFailsPool ==
  ASSUME TypeOK, NEW r \in Relay, PushFails(r), get_backing_resource_item(Viewer(r)) # {}
  PROVE  /\ pool' \in [Channel -> SUBSET Socket]
         /\ pool'[ChannelOf[r]] = pool[ChannelOf[r]] \ {Viewer(r)}
         /\ \A ch \in Channel : ch # ChannelOf[r] => pool'[ch] = pool[ch]
         /\ ChannelOf[r] \in Channel /\ pool[ChannelOf[r]] \subseteq Socket
<1>1. /\ pool[ChannelOf[r]] \ {Viewer(r)} \in SUBSET Socket
      /\ pool' = [pool EXCEPT ![ChannelOf[r]] = pool[ChannelOf[r]] \ {Viewer(r)}]
  BY Sockets, ChannelOfAssumption DEF PushFails, TypeOK
<1> QED
  BY <1>1, PoolUpdate, ZenonT(30)

(* The chunk a watcher holds.                                              *)
LEMMA ChunkFacts ==
  /\ NoChunk \in ChunkType
  /\ \A c \in ChunkType : c.first \in 0 .. StreamSize /\ c.bytes \in 0 .. ChunkSize
BY SizesAssumption DEF NoChunk, ChunkType

(* A function on 1 .. k is a sequence of length k.                         *)
LEMMA FunctionIsSeq ==
  ASSUME NEW S, NEW k \in Nat, NEW f \in [1 .. k -> S]
  PROVE  f \in Seq(S) /\ Len(f) = k
OBVIOUS

(* What push_stream_cb appends to the viewer's bytes.                      *)
LEMMA PushedBytes ==
  ASSUME TypeOK, Chunks, NEW r \in Relay, NEW n \in 0 .. ChunkSize, PushPart(r, n)
  PROVE  /\ got'[r] \in Seq(1 .. StreamSize) /\ Len(got'[r]) = Len(got[r]) + n
         /\ \A i \in 1 .. Len(got[r]) : got'[r][i] = got[r][i]
         /\ \A i \in 1 .. n :
              got'[r][Len(got[r]) + i] = chunk[r].first + total_bytes + i - 1
         /\ \A q \in Relay \ {r} : got'[q] = got[q]
<1> DEFINE b == [i \in 1 .. n |-> chunk[r].first + total_bytes + i - 1]
<1>1. chunk[r].first \in Nat /\ chunk[r].bytes \in Nat /\ total_bytes \in Nat /\ n \in Nat
  BY SizesAssumption, ChunkFacts DEF TypeOK
<1>2. chunk[r].first >= 1 /\ chunk[r].first + chunk[r].bytes - 1 <= StreamSize
  <2>1. read[r] <= StreamSize /\ read[r] = chunk[r].first + chunk[r].bytes - 1
        /\ chunk[r].first >= 1
    BY SizesAssumption DEF TypeOK, Chunks, PushPart
  <2> QED
    BY <2>1
<1>3. total_bytes + n <= chunk[r].bytes
  BY DEF PushPart
<1>4. \A i \in 1 .. n : chunk[r].first + total_bytes + i - 1 \in 1 .. StreamSize
  BY <1>1, <1>2, <1>3, SizesAssumption
<1>5. b \in Seq(1 .. StreamSize) /\ Len(b) = n
  <2>1. b \in [1 .. n -> 1 .. StreamSize] /\ n \in Nat
    BY <1>1, <1>4
  <2> HIDE DEF b
  <2> QED
    BY <2>1, FunctionIsSeq
<1>6. got[r] \in Seq(1 .. StreamSize)
  BY DEF TypeOK
<1>7. got' = [got EXCEPT ![r] = got[r] \o b]
  BY DEF PushPart
<1>8. /\ got[r] \o b \in Seq(1 .. StreamSize) /\ Len(got[r] \o b) = Len(got[r]) + n
      /\ \A i \in 1 .. Len(got[r]) + n :
           (got[r] \o b)[i] = IF i <= Len(got[r]) THEN got[r][i] ELSE b[i - Len(got[r])]
  BY <1>5, <1>6, ConcatProperties
<1>9. got'[r] = got[r] \o b /\ \A q \in Relay \ {r} : got'[q] = got[q]
  BY <1>7 DEF TypeOK
<1>10. \A i \in 1 .. n : b[i] = chunk[r].first + total_bytes + i - 1
  OBVIOUS
<1> HIDE DEF b
<1>11. Len(got[r]) \in Nat
  BY <1>6
<1>12. \A i \in 1 .. Len(got[r]) : got'[r][i] = got[r][i]
  BY <1>1, <1>8, <1>9, <1>11
<1>13. ASSUME NEW i \in 1 .. n
       PROVE  got'[r][Len(got[r]) + i] = chunk[r].first + total_bytes + i - 1
  <2>1. Len(got[r]) + i \in 1 .. Len(got[r]) + n /\ ~(Len(got[r]) + i <= Len(got[r]))
        /\ Len(got[r]) + i - Len(got[r]) = i
    BY <1>1, <1>11
  <2> QED
    BY <1>8, <1>9, <1>10, <2>1
<1> QED
  BY <1>8, <1>9, <1>12, <1>13

LEMMA TypeOKStep == ASSUME IInv, Next PROVE TypeOK'
<1> USE ChannelOfAssumption, SizesAssumption DEF IInv, TypeOK, MixIn, Fail,
         watcherVars, streamVars, requestVars, MixInRequest
<1>1. ASSUME NEW r \in Relay, StartRelay(r) PROVE TypeOK'
  <2>0. /\ pool' \in [Channel -> SUBSET Socket]
        /\ pool'[ChannelOf[r]] = pool[ChannelOf[r]] \cup {Source(r), Viewer(r)}
        /\ \A ch \in Channel : ch # ChannelOf[r] => pool'[ch] = pool[ch]
        /\ ChannelOf[r] \in Channel /\ pool[ChannelOf[r]] \subseteq Socket
    <3> HIDE DEF TypeOK
    <3> QED
      BY <1>1, StartRelayPool
  <2>2. open' \subseteq Socket
    BY <1>1, Sockets DEF StartRelay
  <2> QED
    BY <1>1, <2>0, <2>2 DEF StartRelay
<1>2. ASSUME NEW r \in Relay, RefuseRelay(r) PROVE TypeOK'
  <2>0. /\ pool' \in [Channel -> SUBSET Socket]
        /\ pool'[ChannelOf[r]] = pool[ChannelOf[r]] \cup {Source(r), Viewer(r)}
        /\ \A ch \in Channel : ch # ChannelOf[r] => pool'[ch] = pool[ch]
        /\ ChannelOf[r] \in Channel /\ pool[ChannelOf[r]] \subseteq Socket
    <3> HIDE DEF TypeOK
    <3> QED
      BY <1>2, RefuseRelayPool
  <2>2. open' \subseteq Socket
    BY <1>2, Sockets DEF RefuseRelay
  <2> QED
    BY <1>2, <2>0, <2>2 DEF RefuseRelay
<1>3. ASSUME NEW r \in Relay, RequestFails(r) PROVE TypeOK'
  <2>1. CASE get_backing_resource_item(Source(r)) = {}
    BY <1>3, <2>1 DEF RequestFails
  <2>2. CASE get_backing_resource_item(Source(r)) # {}
    <3>0. /\ pool' \in [Channel -> SUBSET Socket]
          /\ pool'[ChannelOf[r]] = {}
          /\ \A ch \in Channel : ch # ChannelOf[r] => pool'[ch] = pool[ch]
          /\ ChannelOf[r] \in Channel /\ pool[ChannelOf[r]] \subseteq Socket
      <4> HIDE DEF TypeOK
      <4> QED
        BY <1>3, <2>2, RequestFailsPool
    <3>1. request_bytes' = 0
      BY <1>3, <2>2 DEF RequestFails
    <3>2. requesting' \subseteq asked'
      BY <1>3, <2>2 DEF RequestFails
    <3>3. unsettled' \in BOOLEAN
      BY <1>3, <2>2 DEF RequestFails
    <3> QED
      BY <1>3, <2>2, <3>0, <3>1, <3>2, <3>3 DEF RequestFails
  <2> QED
    BY <2>1, <2>2
<1>4. ASSUME NEW r \in Relay, PullAfterViewer(r) PROVE TypeOK'
  <2>1. CASE get_backing_resource_item(Source(r)) = {}
    BY <1>4, <2>1 DEF PullAfterViewer
  <2>2. CASE get_backing_resource_item(Source(r)) # {}
    <3>0. /\ pool' \in [Channel -> SUBSET Socket]
          /\ pool'[ChannelOf[r]] = pool[ChannelOf[r]] \ {Source(r)}
          /\ \A ch \in Channel : ch # ChannelOf[r] => pool'[ch] = pool[ch]
          /\ ChannelOf[r] \in Channel /\ pool[ChannelOf[r]] \subseteq Socket
      <4> HIDE DEF TypeOK
      <4> QED
        BY <1>4, <2>2, PullAfterViewerPool
    <3> QED
      BY <1>4, <2>2, <3>0 DEF PullAfterViewer
  <2> QED
    BY <2>1, <2>2
<1>5. ASSUME NEW r \in Relay, PullEnd(r) PROVE TypeOK'
  <2>1. CASE get_backing_resource_item(Source(r)) = {}
    BY <1>5, <2>1 DEF PullEnd
  <2>2. CASE get_backing_resource_item(Source(r)) # {}
    <3>0. /\ pool' \in [Channel -> SUBSET Socket]
          /\ pool'[ChannelOf[r]] = {}
          /\ \A ch \in Channel : ch # ChannelOf[r] => pool'[ch] = pool[ch]
          /\ ChannelOf[r] \in Channel /\ pool[ChannelOf[r]] \subseteq Socket
      <4> HIDE DEF TypeOK
      <4> QED
        BY <1>5, <2>2, PullEndPool
    <3> QED
      BY <1>5, <2>2, <3>0 DEF PullEnd
  <2> QED
    BY <2>1, <2>2
<1>6. ASSUME NEW r \in Relay, PushBeyond(r) PROVE TypeOK'
  BY <1>6 DEF PushBeyond
<1>7. ASSUME NEW r \in Relay, PushFails(r) PROVE TypeOK'
  <2>1. CASE get_backing_resource_item(Viewer(r)) = {}
    BY <1>7, <2>1 DEF PushFails
  <2>2. CASE get_backing_resource_item(Viewer(r)) # {}
    <3>0. /\ pool' \in [Channel -> SUBSET Socket]
          /\ pool'[ChannelOf[r]] = pool[ChannelOf[r]] \ {Viewer(r)}
          /\ \A ch \in Channel : ch # ChannelOf[r] => pool'[ch] = pool[ch]
          /\ ChannelOf[r] \in Channel /\ pool[ChannelOf[r]] \subseteq Socket
      <4> HIDE DEF TypeOK
      <4> QED
        BY <1>7, <2>2, PushFailsPool
    <3>1. chunk' \in [Relay -> ChunkType]
      BY <1>7, <2>2, ChunkFacts DEF PushFails
    <3> QED
      BY <1>7, <2>2, <3>0, <3>1 DEF PushFails
  <2> QED
    BY <2>1, <2>2
<1>8. ASSUME NEW r \in Relay, NEW n \in 0 .. RequestSize[r], SendRequest(r, n) PROVE TypeOK'
  <2>1. request_bytes' \in Nat
    <3>1. request_bytes \in Nat /\ n \in Nat
      BY <1>8, RequestSizeAssumption
    <3> QED
      BY <1>8, <3>1 DEF SendRequest
  <2>2. request' \in [Relay -> SUBSET Nat]
    <3>1. request[r] \cup (request_bytes + 1 .. request_bytes + n) \in SUBSET Nat
      BY <1>8
    <3>2. request' = [request EXCEPT ![r] = request[r] \cup (request_bytes + 1 .. request_bytes + n)]
      BY <1>8 DEF SendRequest
    <3> QED
      BY <3>1, <3>2
  <2> QED
    BY <1>8, <2>1, <2>2 DEF SendRequest
<1>9. ASSUME NEW r \in Relay, NEW n \in 1 .. ChunkSize, PullChunk(r, n) PROVE TypeOK'
  <2>1. [first |-> read[r] + 1, bytes |-> n] \in ChunkType
    BY <1>9 DEF PullChunk, ChunkType
  <2>2. chunk' \in [Relay -> ChunkType]
    BY <1>9, <2>1 DEF PullChunk
  <2>3. read' \in [Relay -> 0 .. StreamSize]
    BY <1>9 DEF PullChunk
  <2>4. pushing' \subseteq asked' /\ overwritten' \subseteq Relay
    BY <1>9 DEF PullChunk
  <2> QED
    BY <1>9, <2>2, <2>3, <2>4 DEF PullChunk
<1>10. ASSUME NEW r \in Relay, NEW n \in 0 .. ChunkSize, PushPart(r, n) PROVE TypeOK'
  <2>1. got' \in [Relay -> Seq(1 .. StreamSize)]
    <3> HIDE DEF TypeOK, Chunks
    <3>1. /\ got'[r] \in Seq(1 .. StreamSize)
          /\ \A q \in Relay \ {r} : got'[q] = got[q]
      BY <1>10, PushedBytes
    <3>2. got' = [q \in Relay |-> got'[q]]
      BY <1>10 DEF TypeOK, PushPart
    <3> QED
      BY <3>1, <3>2 DEF TypeOK
  <2>2. chunk' \in [Relay -> ChunkType]
    BY <1>10, ChunkFacts DEF PushPart
  <2>3. total_bytes' \in 0 .. ChunkSize - 1
    <3>1. chunk[r].bytes \in 0 .. ChunkSize /\ total_bytes \in Nat
      BY ChunkFacts
    <3>2. \/ total_bytes' = 0
          \/ /\ total_bytes' = total_bytes + n /\ total_bytes + n <= chunk[r].bytes
             /\ total_bytes + n # chunk[r].bytes
      BY <1>10 DEF PushPart
    <3> HIDE DEF TypeOK
    <3> QED
      BY <3>1, <3>2
  <2>4. mixed' \in BOOLEAN /\ sender' \subseteq Relay /\ pushing' \subseteq asked'
    BY <1>10 DEF PushPart
  <2> QED
    BY <1>10, <2>1, <2>2, <2>3, <2>4 DEF PushPart
<1>11. ASSUME NEW r \in Relay, RequestBeyond(r) PROVE TypeOK'
  BY <1>11 DEF RequestBeyond
<1> QED
  BY <1>1, <1>2, <1>3, <1>4, <1>5, <1>6, <1>7, <1>8, <1>9, <1>10, <1>11
  DEF Next, RelayStep

LEMMA AskedStep == ASSUME IInv, Next PROVE Asked'
<1> USE ChannelOfAssumption, SizesAssumption DEF IInv, TypeOK, Asked, MixIn,
         NoChunk, Socket, Source, Viewer, Fail, watcherVars, streamVars,
         requestVars, MixInRequest
<1>1. ASSUME NEW r \in Relay, StartRelay(r) PROVE Asked'
  BY <1>1 DEF StartRelay
<1>2. ASSUME NEW r \in Relay, RefuseRelay(r) PROVE Asked'
  BY <1>2 DEF RefuseRelay
<1>3. ASSUME NEW r \in Relay, RequestFails(r) PROVE Asked'
  BY <1>3 DEF RequestFails
<1>4. ASSUME NEW r \in Relay, PullAfterViewer(r) PROVE Asked'
  BY <1>4 DEF PullAfterViewer
<1>5. ASSUME NEW r \in Relay, PullEnd(r) PROVE Asked'
  BY <1>5 DEF PullEnd
<1>6. ASSUME NEW r \in Relay, PushBeyond(r) PROVE Asked'
  BY <1>6 DEF PushBeyond
<1>7. ASSUME NEW r \in Relay, PushFails(r) PROVE Asked'
  BY <1>7 DEF PushFails
<1>8. ASSUME NEW r \in Relay, NEW n \in 0 .. RequestSize[r], SendRequest(r, n) PROVE Asked'
  BY <1>8 DEF SendRequest
<1>9. ASSUME NEW r \in Relay, NEW n \in 1 .. ChunkSize, PullChunk(r, n) PROVE Asked'
  BY <1>9 DEF PullChunk
<1>10. ASSUME NEW r \in Relay, NEW n \in 0 .. ChunkSize, PushPart(r, n) PROVE Asked'
  BY <1>10 DEF PushPart
<1>11. ASSUME NEW r \in Relay, RequestBeyond(r) PROVE Asked'
  BY <1>11 DEF RequestBeyond
<1> QED
  BY <1>1, <1>2, <1>3, <1>4, <1>5, <1>6, <1>7, <1>8, <1>9, <1>10, <1>11
  DEF Next, RelayStep

LEMMA ChunksStep == ASSUME IInv, Next PROVE Chunks'
<1> USE ChannelOfAssumption, SizesAssumption, ChunkFacts DEF IInv, TypeOK, Asked,
         Chunks, NoChunk, Fail, watcherVars, streamVars, requestVars, MixInRequest
<1>1. ASSUME NEW r \in Relay, StartRelay(r) PROVE Chunks'
  BY <1>1 DEF StartRelay
<1>2. ASSUME NEW r \in Relay, RefuseRelay(r) PROVE Chunks'
  BY <1>2 DEF RefuseRelay
<1>3. ASSUME NEW r \in Relay, RequestFails(r) PROVE Chunks'
  BY <1>3 DEF RequestFails
<1>4. ASSUME NEW r \in Relay, PullAfterViewer(r) PROVE Chunks'
  BY <1>4 DEF PullAfterViewer
<1>5. ASSUME NEW r \in Relay, PullEnd(r) PROVE Chunks'
  BY <1>5 DEF PullEnd
<1>6. ASSUME NEW r \in Relay, PushBeyond(r) PROVE Chunks'
  BY <1>6 DEF PushBeyond
<1>7. ASSUME NEW r \in Relay, PushFails(r) PROVE Chunks'
  BY <1>7 DEF PushFails
<1>8. ASSUME NEW r \in Relay, NEW n \in 0 .. RequestSize[r], SendRequest(r, n) PROVE Chunks'
  BY <1>8 DEF SendRequest
<1>9. ASSUME NEW r \in Relay, NEW n \in 1 .. ChunkSize, PullChunk(r, n) PROVE Chunks'
  <2>1. /\ chunk'[r] = [first |-> read[r] + 1, bytes |-> n] /\ read'[r] = read[r] + n
        /\ \A q \in Relay \ {r} : chunk'[q] = chunk[q] /\ read'[q] = read[q]
        /\ pushing' = pushing \cup {r} /\ read[r] \in Nat
    BY <1>9 DEF PullChunk
  <2>2. chunk'[r].first = read[r] + 1 /\ chunk'[r].bytes = n
    BY <2>1
  <2>3. chunk'[r].first >= 1 /\ chunk'[r].bytes >= 1 /\ chunk'[r] # NoChunk
        /\ read'[r] = chunk'[r].first + chunk'[r].bytes - 1
    BY <2>1, <2>2
  <2> SUFFICES ASSUME NEW q \in Relay
               PROVE  /\ q \in pushing' => chunk'[q] # NoChunk
                      /\ chunk'[q] # NoChunk =>
                           /\ chunk'[q].first >= 1 /\ chunk'[q].bytes >= 1
                           /\ read'[q] = chunk'[q].first + chunk'[q].bytes - 1
    OBVIOUS
  <2>4. CASE q = r
    BY <2>3, <2>4
  <2>5. CASE q # r
    BY <2>1, <2>5
  <2> QED
    BY <2>4, <2>5
<1>10. ASSUME NEW r \in Relay, NEW n \in 0 .. ChunkSize, PushPart(r, n) PROVE Chunks'
  BY <1>10, ZenonT(30) DEF PushPart
<1>11. ASSUME NEW r \in Relay, RequestBeyond(r) PROVE Chunks'
  BY <1>11 DEF RequestBeyond
<1> QED
  BY <1>1, <1>2, <1>3, <1>4, <1>5, <1>6, <1>7, <1>8, <1>9, <1>10, <1>11
  DEF Next, RelayStep

(* Entries leave the pool before their relay stops pulling.                *)
LEMMA EntriesStep == ASSUME IInv, Next PROVE Entries'
<1> USE ChannelOfAssumption, SizesAssumption, Sockets DEF IInv, TypeOK, Asked,
         Entries, Fail, watcherVars, streamVars, requestVars, MixInRequest
<1>1. ASSUME NEW r \in Relay, StartRelay(r) PROVE Entries'
  <2>0. /\ pool' \in [Channel -> SUBSET Socket]
        /\ pool'[ChannelOf[r]] = pool[ChannelOf[r]] \cup {Source(r), Viewer(r)}
        /\ \A ch \in Channel : ch # ChannelOf[r] => pool'[ch] = pool[ch]
        /\ ChannelOf[r] \in Channel /\ pool[ChannelOf[r]] \subseteq Socket
    <3> HIDE DEF TypeOK
    <3> QED
      BY <1>1, StartRelayPool
  <2>2. \A q \in viewerOff : q # r /\ q \in Relay
    BY <1>1 DEF StartRelay
  <2>3. \A q \in viewerOff : Viewer(q) # Source(r) /\ Viewer(q) # Viewer(r)
    <3> SUFFICES ASSUME NEW q \in viewerOff
                 PROVE  Viewer(q) # Source(r) /\ Viewer(q) # Viewer(r)
      OBVIOUS
    <3>1. Viewer(q)[1] = q /\ Viewer(r)[1] = r /\ Source(r) # Viewer(q)
      BY <2>2, Sockets
    <3> QED
      BY <2>2, <3>1
  <2> QED
    BY <1>1, <2>0, <2>3 DEF StartRelay
<1>2. ASSUME NEW r \in Relay, RefuseRelay(r) PROVE Entries'
  <2>0. /\ pool' \in [Channel -> SUBSET Socket]
        /\ pool'[ChannelOf[r]] = pool[ChannelOf[r]] \cup {Source(r), Viewer(r)}
        /\ \A ch \in Channel : ch # ChannelOf[r] => pool'[ch] = pool[ch]
        /\ ChannelOf[r] \in Channel /\ pool[ChannelOf[r]] \subseteq Socket
    <3> HIDE DEF TypeOK
    <3> QED
      BY <1>2, RefuseRelayPool
  <2>2. \A q \in viewerOff : q # r /\ q \in Relay
    BY <1>2 DEF RefuseRelay
  <2>3. \A q \in viewerOff : Viewer(q) # Source(r) /\ Viewer(q) # Viewer(r)
    <3> SUFFICES ASSUME NEW q \in viewerOff
                 PROVE  Viewer(q) # Source(r) /\ Viewer(q) # Viewer(r)
      OBVIOUS
    <3>1. Viewer(q)[1] = q /\ Viewer(r)[1] = r /\ Source(r) # Viewer(q)
      BY <2>2, Sockets
    <3> QED
      BY <2>2, <3>1
  <2> QED
    BY <1>2, <2>0, <2>3 DEF RefuseRelay
<1>3. ASSUME NEW r \in Relay, RequestFails(r) PROVE Entries'
  <2>1. CASE get_backing_resource_item(Source(r)) = {}
    BY <1>3, <2>1 DEF RequestFails
  <2>2. CASE get_backing_resource_item(Source(r)) # {}
    <3>0. /\ pool' \in [Channel -> SUBSET Socket]
          /\ pool'[ChannelOf[r]] = {}
          /\ \A ch \in Channel : ch # ChannelOf[r] => pool'[ch] = pool[ch]
          /\ ChannelOf[r] \in Channel /\ pool[ChannelOf[r]] \subseteq Socket
      <4> HIDE DEF TypeOK
      <4> QED
        BY <1>3, <2>2, RequestFailsPool
    <3>1. \A ch \in Channel : pool'[ch] \subseteq pool[ch]
      BY <1>3, <2>2, <3>0 DEF RequestFails
    <3>2. UNCHANGED <<pulling, refused, viewerOff>>
      BY <1>3 DEF RequestFails
    <3> QED
      BY <3>1, <3>2
  <2> QED
    BY <2>1, <2>2
<1>4. ASSUME NEW r \in Relay, PullAfterViewer(r) PROVE Entries'
  <2>1. CASE get_backing_resource_item(Source(r)) = {}
    BY <1>4, <2>1 DEF PullAfterViewer
  <2>2. CASE get_backing_resource_item(Source(r)) # {}
    <3>0. /\ pool' \in [Channel -> SUBSET Socket]
          /\ pool'[ChannelOf[r]] = pool[ChannelOf[r]] \ {Source(r)}
          /\ \A ch \in Channel : ch # ChannelOf[r] => pool'[ch] = pool[ch]
          /\ ChannelOf[r] \in Channel /\ pool[ChannelOf[r]] \subseteq Socket
      <4> HIDE DEF TypeOK
      <4> QED
        BY <1>4, <2>2, PullAfterViewerPool
    <3>1. /\ \A ch \in Channel : pool'[ch] \subseteq pool[ch]
          /\ Source(r) \notin pool'[ChannelOf[r]] /\ r \in viewerOff
          /\ pulling' = pulling \ {r} /\ UNCHANGED <<refused, viewerOff>>
      BY <1>4, <2>2, <3>0 DEF PullAfterViewer
    <3>2. \A ch \in Channel : \A s \in pool'[ch] : s[1] # r
      <4> SUFFICES ASSUME NEW ch \in Channel, NEW s \in pool'[ch], s[1] = r PROVE FALSE
        OBVIOUS
      <4>1. s \in pool[ch] /\ ch = ChannelOf[r] /\ s \in Socket
        BY <3>1
      <4>2. s = Viewer(r)
        <5>1. s = Source(s[1]) \/ s = Viewer(s[1])
          BY <4>1, Sockets
        <5> QED
          BY <3>1, <4>1, <5>1
      <4> QED
        BY <3>1, <4>1, <4>2
    <3> QED
      BY <3>1, <3>2
  <2> QED
    BY <2>1, <2>2
<1>5. ASSUME NEW r \in Relay, PullEnd(r) PROVE Entries'
  <2>1. CASE get_backing_resource_item(Source(r)) = {}
    BY <1>5, <2>1 DEF PullEnd
  <2>2. CASE get_backing_resource_item(Source(r)) # {}
    <3>0. /\ pool' \in [Channel -> SUBSET Socket]
          /\ pool'[ChannelOf[r]] = {}
          /\ \A ch \in Channel : ch # ChannelOf[r] => pool'[ch] = pool[ch]
          /\ ChannelOf[r] \in Channel /\ pool[ChannelOf[r]] \subseteq Socket
      <4> HIDE DEF TypeOK
      <4> QED
        BY <1>5, <2>2, PullEndPool
    <3>1. /\ \A ch \in Channel : pool'[ch] \subseteq pool[ch]
          /\ pool'[ChannelOf[r]] = {}
          /\ pulling' = pulling \ {r} /\ UNCHANGED <<refused, viewerOff>>
      BY <1>5, <2>2, <3>0 DEF PullEnd
    <3>2. \A ch \in Channel : \A s \in pool'[ch] : s[1] # r
      BY <3>1
    <3> QED
      BY <3>1, <3>2
  <2> QED
    BY <2>1, <2>2
<1>6. ASSUME NEW r \in Relay, PushBeyond(r) PROVE Entries'
  BY <1>6 DEF PushBeyond
<1>7. ASSUME NEW r \in Relay, PushFails(r) PROVE Entries'
  <2>1. CASE get_backing_resource_item(Viewer(r)) = {}
    BY <1>7, <2>1 DEF PushFails
  <2>2. CASE get_backing_resource_item(Viewer(r)) # {}
    <3>0. /\ pool' \in [Channel -> SUBSET Socket]
          /\ pool'[ChannelOf[r]] = pool[ChannelOf[r]] \ {Viewer(r)}
          /\ \A ch \in Channel : ch # ChannelOf[r] => pool'[ch] = pool[ch]
          /\ ChannelOf[r] \in Channel /\ pool[ChannelOf[r]] \subseteq Socket
      <4> HIDE DEF TypeOK
      <4> QED
        BY <1>7, <2>2, PushFailsPool
    <3>1. /\ \A ch \in Channel : pool'[ch] \subseteq pool[ch]
          /\ Viewer(r) \notin pool'[ChannelOf[r]]
          /\ viewerOff' = viewerOff \cup {r} /\ UNCHANGED <<pulling, refused>>
      BY <1>7, <2>2, <3>0 DEF PushFails
    <3>2. \A ch \in Channel : Viewer(r) \notin pool'[ch]
      <4>1. Viewer(r)[1] = r
        BY Sockets
      <4> QED
        BY <3>0, <3>1, <4>1
    <3> QED
      BY <3>1, <3>2
  <2> QED
    BY <2>1, <2>2
<1>8. ASSUME NEW r \in Relay, NEW n \in 0 .. RequestSize[r], SendRequest(r, n) PROVE Entries'
  BY <1>8 DEF SendRequest
<1>9. ASSUME NEW r \in Relay, NEW n \in 1 .. ChunkSize, PullChunk(r, n) PROVE Entries'
  BY <1>9 DEF PullChunk
<1>10. ASSUME NEW r \in Relay, NEW n \in 0 .. ChunkSize, PushPart(r, n) PROVE Entries'
  BY <1>10 DEF PushPart
<1>11. ASSUME NEW r \in Relay, RequestBeyond(r) PROVE Entries'
  BY <1>11 DEF RequestBeyond
<1> QED
  BY <1>1, <1>2, <1>3, <1>4, <1>5, <1>6, <1>7, <1>8, <1>9, <1>10, <1>11
  DEF Next, RelayStep

(* A socket that is open is entered, until a resource is erased.           *)
LEMMA FoundStep == ASSUME IInv, Next PROVE Found'
<1> USE ChannelOfAssumption, SizesAssumption, Sockets DEF IInv, TypeOK, Asked,
         Entries, Found, Fail, watcherVars, streamVars, requestVars, MixInRequest
<1>1. ASSUME NEW r \in Relay, StartRelay(r) PROVE Found'
  BY <1>1 DEF StartRelay
<1>2. ASSUME NEW r \in Relay, RefuseRelay(r) PROVE Found'
  BY <1>2 DEF RefuseRelay
<1>3. ASSUME NEW r \in Relay, RequestFails(r) PROVE Found'
  BY <1>3 DEF RequestFails
<1>4. ASSUME NEW r \in Relay, PullAfterViewer(r) PROVE Found'
  <2>1. CASE get_backing_resource_item(Source(r)) = {}
    BY <1>4, <2>1 DEF PullAfterViewer
  <2>2. CASE get_backing_resource_item(Source(r)) # {}
    <3>0. /\ pool' \in [Channel -> SUBSET Socket]
          /\ pool'[ChannelOf[r]] = pool[ChannelOf[r]] \ {Source(r)}
          /\ \A ch \in Channel : ch # ChannelOf[r] => pool'[ch] = pool[ch]
          /\ ChannelOf[r] \in Channel /\ pool[ChannelOf[r]] \subseteq Socket
      <4> HIDE DEF TypeOK
      <4> QED
        BY <1>4, <2>2, PullAfterViewerPool
    <3>1. /\ \A ch \in Channel : pool[ch] \ {Source(r)} \subseteq pool'[ch]
          /\ open' = open \ {Source(r)} /\ UNCHANGED unsettled
      BY <1>4, <2>2, <3>0 DEF PullAfterViewer
    <3>2. \A s \in open : s[1] \in Relay /\ ChannelOf[s[1]] \in Channel
      OBVIOUS
    <3> QED
      BY <3>1, <3>2
  <2> QED
    BY <2>1, <2>2
<1>5. ASSUME NEW r \in Relay, PullEnd(r) PROVE Found'
  <2>1. CASE get_backing_resource_item(Source(r)) = {}
    BY <1>5, <2>1 DEF PullEnd
  <2>2. CASE get_backing_resource_item(Source(r)) # {}
    <3>1. /\ \A ch \in Channel \ {ChannelOf[r]} : pool'[ch] = pool[ch]
          /\ open' = open \ pool[ChannelOf[r]] /\ (~unsettled' => ~unsettled)
      BY <1>5, <2>2 DEF PullEnd
    <3>2. \A s \in open : s[1] \in Relay /\ ChannelOf[s[1]] \in Channel
      OBVIOUS
    <3> QED
      BY <3>1, <3>2
  <2> QED
    BY <2>1, <2>2
<1>6. ASSUME NEW r \in Relay, PushBeyond(r) PROVE Found'
  BY <1>6 DEF PushBeyond
<1>7. ASSUME NEW r \in Relay, PushFails(r) PROVE Found'
  <2>1. CASE get_backing_resource_item(Viewer(r)) = {}
    BY <1>7, <2>1 DEF PushFails
  <2>2. CASE get_backing_resource_item(Viewer(r)) # {}
    <3>0. /\ pool' \in [Channel -> SUBSET Socket]
          /\ pool'[ChannelOf[r]] = pool[ChannelOf[r]] \ {Viewer(r)}
          /\ \A ch \in Channel : ch # ChannelOf[r] => pool'[ch] = pool[ch]
          /\ ChannelOf[r] \in Channel /\ pool[ChannelOf[r]] \subseteq Socket
      <4> HIDE DEF TypeOK
      <4> QED
        BY <1>7, <2>2, PushFailsPool
    <3>1. /\ \A ch \in Channel : pool[ch] \ {Viewer(r)} \subseteq pool'[ch]
          /\ open' = open \ {Viewer(r)} /\ UNCHANGED unsettled
      BY <1>7, <2>2, <3>0 DEF PushFails
    <3>2. \A s \in open : s[1] \in Relay /\ ChannelOf[s[1]] \in Channel
      OBVIOUS
    <3> QED
      BY <3>1, <3>2
  <2> QED
    BY <2>1, <2>2
<1>8. ASSUME NEW r \in Relay, NEW n \in 0 .. RequestSize[r], SendRequest(r, n) PROVE Found'
  BY <1>8 DEF SendRequest
<1>9. ASSUME NEW r \in Relay, NEW n \in 1 .. ChunkSize, PullChunk(r, n) PROVE Found'
  BY <1>9 DEF PullChunk
<1>10. ASSUME NEW r \in Relay, NEW n \in 0 .. ChunkSize, PushPart(r, n) PROVE Found'
  BY <1>10 DEF PushPart
<1>11. ASSUME NEW r \in Relay, RequestBeyond(r) PROVE Found'
  BY <1>11 DEF RequestBeyond
<1> QED
  BY <1>1, <1>2, <1>3, <1>4, <1>5, <1>6, <1>7, <1>8, <1>9, <1>10, <1>11
  DEF Next, RelayStep

(* total_bytes is the progress of its sender, and of nobody else.          *)
LEMMA CounterStep == ASSUME IInv, Next PROVE Counter'
<1> USE ChannelOfAssumption, SizesAssumption DEF IInv, TypeOK, Asked, Chunks,
         Counter, Progress, MixIn, Fail, watcherVars, streamVars, requestVars, MixInRequest
<1>1. ASSUME NEW r \in Relay, StartRelay(r) PROVE Counter'
  <2>1. /\ pulling' = pulling \cup {r}
        /\ chunk[r] = NoChunk /\ read[r] = 0 /\ got[r] = <<>>
        /\ r \notin pushing /\ sender # {r}
    BY <1>1 DEF StartRelay
  <2>2. UNCHANGED <<chunk, read, got, total_bytes, sender, mixed, overwritten, pushing,
                    viewerOff>>
    BY <1>1 DEF StartRelay
  <2>3. Len(got[r]) = read[r] /\ Progress(r) = 0
    <3>1. Len(<<>>) = 0
      OBVIOUS
    <3> QED
      BY <2>1, <3>1
  <2> HIDE DEF TypeOK, Asked, Chunks
  <2>4. \A q \in Relay : Progress(q)' = Progress(q)
    BY <2>2
  <2>5. ~mixed => (total_bytes # 0 => \E q \in Relay : sender = {q})
    BY DEF Counter
  <2> HIDE DEF Progress
  <2> SUFFICES ASSUME ~mixed, NEW q \in Relay \ overwritten
               PROVE  /\ q \in pushing => /\ Progress(q) < chunk[q].bytes
                                          /\ Len(got[q]) = chunk[q].first - 1 + Progress(q)
                      /\ q \in pulling' \ (viewerOff \cup pushing) =>
                           /\ chunk[q] = NoChunk /\ Progress(q) = 0
                           /\ Len(got[q]) = read[q]
    BY <2>2, <2>4, <2>5 DEF Counter
  <2>6. CASE q = r
    BY <2>1, <2>3, <2>6
  <2>7. CASE q # r
    BY <2>1, <2>7 DEF Counter
  <2> QED
    BY <2>6, <2>7
<1>2. ASSUME NEW r \in Relay, RefuseRelay(r) PROVE Counter'
  BY <1>2 DEF RefuseRelay
<1>3. ASSUME NEW r \in Relay, RequestFails(r) PROVE Counter'
  BY <1>3 DEF RequestFails
<1>4. ASSUME NEW r \in Relay, PullAfterViewer(r) PROVE Counter'
  BY <1>4 DEF PullAfterViewer
<1>5. ASSUME NEW r \in Relay, PullEnd(r) PROVE Counter'
  BY <1>5, ZenonT(30) DEF PullEnd
<1>6. ASSUME NEW r \in Relay, PushBeyond(r) PROVE Counter'
  BY <1>6, ZenonT(30) DEF PushBeyond
<1>7. ASSUME NEW r \in Relay, PushFails(r) PROVE Counter'
  <2>1. CASE get_backing_resource_item(Viewer(r)) = {}
    BY <1>7, <2>1 DEF PushFails
  <2>2. CASE get_backing_resource_item(Viewer(r)) # {}
    <3>1. /\ pushing' = pushing \ {r} /\ viewerOff' = viewerOff \cup {r}
          /\ \A q \in Relay \ {r} : chunk'[q] = chunk[q]
          /\ UNCHANGED <<pulling, read, total_bytes, got, sender, mixed, overwritten>>
      BY <1>7, <2>2 DEF PushFails
    <3> QED
      BY <3>1
  <2> QED
    BY <2>1, <2>2
<1>8. ASSUME NEW r \in Relay, NEW n \in 0 .. RequestSize[r], SendRequest(r, n) PROVE Counter'
  BY <1>8 DEF SendRequest
<1>9. ASSUME NEW r \in Relay, NEW n \in 1 .. ChunkSize, PullChunk(r, n) PROVE Counter'
  <2>1. /\ chunk'[r] = [first |-> read[r] + 1, bytes |-> n] /\ read'[r] = read[r] + n
        /\ \A q \in Relay \ {r} : chunk'[q] = chunk[q] /\ read'[q] = read[q]
        /\ pushing' = pushing \cup {r} /\ r \in pulling \ viewerOff
        /\ UNCHANGED <<pulling, viewerOff, total_bytes, got, sender, mixed>>
    BY <1>9 DEF PullChunk
  <2>2. overwritten \subseteq overwritten' /\ (chunk[r] # NoChunk => r \in overwritten')
    BY <1>9 DEF PullChunk
  <2>3. chunk'[r].first = read[r] + 1 /\ chunk'[r].bytes = n /\ n \in Nat /\ n >= 1
    BY <2>1
  <2>4. r \notin overwritten' => r \notin pushing
    BY <2>2
  <2>5. read[r] \in Nat
    BY SizesAssumption
  <2> HIDE DEF TypeOK, Asked, Chunks
  <2>6. \A q \in Relay : Progress(q)' = Progress(q)
    BY <2>1
  <2>7. ~mixed => (total_bytes # 0 => \E q \in Relay : sender = {q})
    BY DEF Counter
  <2> HIDE DEF Progress
  <2> SUFFICES ASSUME ~mixed, NEW q \in Relay \ overwritten'
               PROVE  /\ q \in pushing' => /\ Progress(q) < chunk'[q].bytes
                                           /\ Len(got[q]) = chunk'[q].first - 1 + Progress(q)
                      /\ q \in pulling \ (viewerOff \cup pushing') =>
                           /\ chunk'[q] = NoChunk /\ Progress(q) = 0
                           /\ Len(got[q]) = read'[q]
    BY <2>1, <2>6, <2>7 DEF Counter
  <2>8. CASE q = r
    <3>1. Progress(r) = 0 /\ Len(got[r]) = read[r]
      BY <2>1, <2>2, <2>4, <2>8 DEF Counter
    <3> QED
      BY <2>1, <2>3, <2>5, <2>8, <3>1
  <2>9. CASE q # r
    BY <2>1, <2>2, <2>9 DEF Counter
  <2> QED
    BY <2>8, <2>9
<1>10. ASSUME NEW r \in Relay, NEW n \in 0 .. ChunkSize, PushPart(r, n) PROVE Counter'
  <2> SUFFICES ASSUME ~mixed'
               PROVE  (/\ total_bytes # 0 => \E q \in Relay : sender = {q}
                       /\ \A q \in Relay \ overwritten :
                            /\ q \in pushing =>
                                 /\ Progress(q) < chunk[q].bytes
                                 /\ Len(got[q]) = chunk[q].first - 1 + Progress(q)
                            /\ q \in pulling \ (viewerOff \cup pushing) =>
                                 /\ chunk[q] = NoChunk /\ Progress(q) = 0
                                 /\ Len(got[q]) = read[q])'
    OBVIOUS
  <2>1. /\ ~mixed /\ (total_bytes = 0 \/ sender = {r}) /\ sender' = {r}
        /\ r \in pushing /\ total_bytes + n <= chunk[r].bytes
        /\ UNCHANGED <<pulling, viewerOff, read, overwritten>>
    BY <1>10 DEF PushPart
  <2>2. /\ Len(got'[r]) = Len(got[r]) + n
        /\ \A q \in Relay \ {r} : got'[q] = got[q]
    <3> HIDE DEF TypeOK, Chunks
    <3> QED
      BY <1>10, PushedBytes
  <2>3. \A q \in Relay \ {r} : /\ Progress(q) = 0 /\ Progress(q)' = 0
                                /\ chunk'[q] = chunk[q] /\ (q \in pushing' <=> q \in pushing)
    BY <1>10, <2>1 DEF PushPart
  <2>4. Progress(r) = total_bytes /\ Progress(r)' = total_bytes'
    BY <2>1
  <2>5. chunk[r].first \in Nat /\ chunk[r].bytes \in Nat /\ total_bytes \in Nat /\ n \in Nat
        /\ read[r] \in Nat
    BY ChunkFacts
  <2>6. CASE total_bytes + n = chunk[r].bytes
    <3>1. total_bytes' = 0 /\ chunk'[r] = NoChunk /\ r \notin pushing'
      BY <1>10, <2>6 DEF PushPart
    <3>2. r \notin overwritten => Len(got'[r]) = read[r]
      <4>1. read[r] = chunk[r].first + chunk[r].bytes - 1
        BY <2>1
      <4>2. r \notin overwritten => Len(got[r]) = chunk[r].first - 1 + total_bytes
        BY <2>1, <2>4
      <4>3. Len(got[r]) \in Nat
        OBVIOUS
      <4> HIDE DEF TypeOK, Asked, Chunks, Counter, Progress
      <4> QED
        <5> SUFFICES ASSUME r \notin overwritten PROVE Len(got'[r]) = read[r]
          OBVIOUS
        <5>1. Len(got[r]) + n = chunk[r].first + chunk[r].bytes - 1
          <6> DEFINE f == chunk[r].first
                     b == chunk[r].bytes
                     t == total_bytes
                     l == Len(got[r])
          <6>1. f \in Nat /\ b \in Nat /\ t \in Nat /\ n \in Nat /\ l \in Nat
            BY <2>5, <4>3
          <6>2. l = f - 1 + t
            BY <4>2
          <6>3. t + n = b
            BY <2>6
          <6> HIDE DEF f, b, t, l
          <6>4. l + n = f + b - 1
            BY <6>1, <6>2, <6>3
          <6> QED
            BY <6>4 DEF f, b, l
        <5> QED
          BY <2>2, <4>1, <5>1
    <3> HIDE DEF Progress, Chunks
    <3> QED
      BY <2>1, <2>2, <2>3, <2>4, <3>1, <3>2
  <2>7. CASE total_bytes + n # chunk[r].bytes
    <3>1. total_bytes' = total_bytes + n /\ chunk' = chunk /\ pushing' = pushing
      BY <1>10, <2>7 DEF PushPart
    <3>2. r \notin overwritten => Len(got'[r]) = chunk[r].first - 1 + total_bytes'
      <4>1. r \notin overwritten => Len(got[r]) = chunk[r].first - 1 + total_bytes
        BY <2>1, <2>4
      <4>2. Len(got[r]) \in Nat
        OBVIOUS
      <4> HIDE DEF TypeOK, Asked, Chunks, Counter, Progress
      <4> SUFFICES ASSUME r \notin overwritten
                   PROVE  Len(got'[r]) = chunk[r].first - 1 + total_bytes'
        OBVIOUS
      <4> DEFINE f == chunk[r].first
                 t == total_bytes
                 l == Len(got[r])
      <4>3. f \in Nat /\ t \in Nat /\ n \in Nat /\ l \in Nat /\ l = f - 1 + t
        BY <2>5, <4>1, <4>2
      <4> HIDE DEF f, t, l
      <4>4. l + n = f - 1 + (t + n)
        BY <4>3
      <4> QED
        BY <2>2, <3>1, <4>4 DEF f, t, l
    <3>3. total_bytes' < chunk[r].bytes
      <4> HIDE DEF TypeOK, Asked, Chunks, Counter, Progress
      <4> QED
        BY <2>1, <2>5, <2>7, <3>1
    <3> HIDE DEF Progress, Chunks
    <3> QED
      BY <2>1, <2>2, <2>3, <2>4, <3>1, <3>2, <3>3
  <2> QED
    BY <2>6, <2>7
<1>11. ASSUME NEW r \in Relay, RequestBeyond(r) PROVE Counter'
  BY <1>11 DEF RequestBeyond
<1> QED
  BY <1>1, <1>2, <1>3, <1>4, <1>5, <1>6, <1>7, <1>8, <1>9, <1>10, <1>11
  DEF Next, RelayStep

LEMMA ViewerIntactStep == ASSUME IInv, Next PROVE ViewerIntact'
<1> USE ChannelOfAssumption, SizesAssumption DEF IInv, TypeOK, Asked, Chunks,
         Counter, Progress, MixIn, StreamIntact, ViewerIntact, Fail, watcherVars, streamVars,
         requestVars, MixInRequest
<1>1. ASSUME NEW r \in Relay, StartRelay(r) PROVE ViewerIntact'
  BY <1>1 DEF StartRelay
<1>2. ASSUME NEW r \in Relay, RefuseRelay(r) PROVE ViewerIntact'
  BY <1>2 DEF RefuseRelay
<1>3. ASSUME NEW r \in Relay, RequestFails(r) PROVE ViewerIntact'
  BY <1>3 DEF RequestFails
<1>4. ASSUME NEW r \in Relay, PullAfterViewer(r) PROVE ViewerIntact'
  BY <1>4 DEF PullAfterViewer
<1>5. ASSUME NEW r \in Relay, PullEnd(r) PROVE ViewerIntact'
  BY <1>5 DEF PullEnd
<1>6. ASSUME NEW r \in Relay, PushBeyond(r) PROVE ViewerIntact'
  BY <1>6 DEF PushBeyond
<1>7. ASSUME NEW r \in Relay, PushFails(r) PROVE ViewerIntact'
  BY <1>7 DEF PushFails
<1>8. ASSUME NEW r \in Relay, NEW n \in 0 .. RequestSize[r], SendRequest(r, n)
      PROVE  ViewerIntact'
  BY <1>8 DEF SendRequest
<1>9. ASSUME NEW r \in Relay, NEW n \in 1 .. ChunkSize, PullChunk(r, n)
      PROVE  ViewerIntact'
  BY <1>9 DEF PullChunk
<1>10. ASSUME NEW r \in Relay, NEW n \in 0 .. ChunkSize, PushPart(r, n)
       PROVE  ViewerIntact'
  <2> SUFFICES ASSUME ~mixed', NEW q \in Relay \ overwritten', NEW i \in DOMAIN got'[q]
               PROVE  got'[q][i] = i
    OBVIOUS
  <2>1. /\ ~mixed /\ (total_bytes = 0 \/ sender = {r}) /\ r \in pushing
        /\ overwritten' = overwritten
    BY <1>10 DEF PushPart
  <2>2. /\ Len(got'[r]) = Len(got[r]) + n /\ got'[r] \in Seq(1 .. StreamSize)
        /\ \A j \in 1 .. Len(got[r]) : got'[r][j] = got[r][j]
        /\ \A j \in 1 .. n :
             got'[r][Len(got[r]) + j] = chunk[r].first + total_bytes + j - 1
        /\ \A p \in Relay \ {r} : got'[p] = got[p]
    <3> HIDE DEF TypeOK, Chunks
    <3> QED
      BY <1>10, PushedBytes
  <2>3. CASE q # r
    BY <2>1, <2>2, <2>3
  <2>4. CASE q = r
    <3>1. Len(got[r]) = chunk[r].first - 1 + total_bytes
      BY <2>1, <2>4
    <3>2. Len(got[r]) \in Nat /\ chunk[r].first \in Nat /\ total_bytes \in Nat /\ n \in Nat
      BY ChunkFacts
    <3>3. i \in 1 .. Len(got[r]) + n
      BY <2>2, <2>4
    <3>4. CASE i \in 1 .. Len(got[r])
      BY <2>1, <2>2, <2>4, <3>4, SMTT(30)
    <3>5. CASE i \notin 1 .. Len(got[r])
      <4>1. PICK j \in 1 .. n : i = Len(got[r]) + j
        <5>1. i - Len(got[r]) \in 1 .. n /\ i = Len(got[r]) + (i - Len(got[r]))
          BY <3>2, <3>3, <3>5
        <5> QED
          BY <5>1
      <4>2. got'[r][i] = chunk[r].first + total_bytes + j - 1
        BY <2>2, <4>1
      <4> QED
        BY <2>4, <3>1, <3>2, <4>1, <4>2
    <3> QED
      BY <3>4, <3>5
  <2> QED
    BY <2>3, <2>4
<1>11. ASSUME NEW r \in Relay, RequestBeyond(r) PROVE ViewerIntact'
  BY <1>11 DEF RequestBeyond
<1> QED
  BY <1>1, <1>2, <1>3, <1>4, <1>5, <1>6, <1>7, <1>8, <1>9, <1>10, <1>11
  DEF Next, RelayStep

(* The counter of send_backing_resource_cb is the progress of its last     *)
(* requester: what the others sent is complete or has not begun.           *)
LEMMA RequestsStep == ASSUME IInv, Next PROVE Requests'
<1> USE RequestSizeAssumption DEF IInv, TypeOK, Requests,
         RequestProgress, MixInRequest, Fail, watcherVars, streamVars, requestVars
<1>1. ASSUME NEW r \in Relay, StartRelay(r) PROVE Requests'
  <2>1. /\ requester # {r} /\ request[r] = 1 .. 0 /\ 0 < RequestSize[r]
        /\ asked' = asked \cup {r} /\ requesting' = requesting \cup {r}
        /\ UNCHANGED <<requester, requestMixed, request, request_bytes>>
    BY <1>1 DEF StartRelay
  <2>2. RequestProgress(r)' = 0 /\ \A q \in requesting : RequestProgress(q)' = RequestProgress(q)
    BY <2>1
  <2> HIDE DEF RequestProgress
  <2> QED
    BY <2>1, <2>2
<1>2. ASSUME NEW r \in Relay, RefuseRelay(r) PROVE Requests'
  BY <1>2 DEF RefuseRelay
<1>3. ASSUME NEW r \in Relay,
             RequestFails(r) \/ RequestBeyond(r)
      PROVE  Requests'
  <2>1. /\ r \in requesting /\ requester' = {r} /\ requesting' \subseteq requesting
        /\ request_bytes' = request_bytes \/ (request_bytes' = 0 /\ r \notin requesting')
        /\ UNCHANGED <<asked, request>>
        /\ ~requestMixed' => ~requestMixed /\ (request_bytes = 0 \/ requester = {r})
    BY <1>3 DEF RequestFails, RequestBeyond
  <2>2. ASSUME ~requestMixed', NEW q \in requesting'
        PROVE  RequestProgress(q)' = RequestProgress(q)
    BY <2>1, <2>2
  <2> QED
    BY <2>1, <2>2
<1>4. ASSUME NEW r \in Relay,
             \/ PullAfterViewer(r) \/ PullEnd(r) \/ PushBeyond(r) \/ PushFails(r)
             \/ \E n \in 1 .. ChunkSize : PullChunk(r, n)
             \/ \E n \in 0 .. ChunkSize : PushPart(r, n)
      PROVE  Requests'
  <2>1. UNCHANGED <<asked, requesting, requester, requestMixed, request, request_bytes>>
    BY <1>4 DEF PullAfterViewer, PullEnd, PushBeyond, PushFails, PullChunk, PushPart
  <2> QED
    BY <2>1
<1>5. ASSUME NEW r \in Relay, NEW n \in 0 .. RequestSize[r], SendRequest(r, n)
      PROVE  Requests'
  <2>1. /\ r \in requesting /\ requester' = {r} /\ UNCHANGED asked
        /\ \A q \in Relay \ {r} : request'[q] = request[q]
        /\ request'[r] = request[r] \cup (request_bytes + 1 .. request_bytes + n)
        /\ requesting' \subseteq requesting
        /\ ~requestMixed' => ~requestMixed /\ (request_bytes = 0 \/ requester = {r})
    BY <1>5 DEF SendRequest
  <2>2. r \in requesting' => request_bytes' = request_bytes + n /\ request_bytes' < RequestSize[r]
    <3>1. request_bytes \in Nat /\ n \in Nat /\ RequestSize[r] \in Nat
      OBVIOUS
    <3>2. /\ request_bytes + n <= RequestSize[r]
          /\ r \in requesting' => /\ request_bytes + n # RequestSize[r]
                                  /\ request_bytes' = request_bytes + n
      BY <1>5 DEF SendRequest
    <3> HIDE DEF TypeOK, Requests
    <3> QED
      BY <3>1, <3>2
  <2> SUFFICES ASSUME ~requestMixed', NEW q \in requesting'
               PROVE  /\ RequestProgress(q)' < RequestSize[q]
                      /\ request'[q] = 1 .. RequestProgress(q)'
    <3>1. r \in asked /\ \A p \in Relay \ asked : p # r
      BY <2>1
    <3>2. requester' \subseteq asked' /\ \A p \in Relay \ asked' : request'[p] = {}
      BY <2>1, <3>1
    <3> QED
      BY <3>2
  <2>3. CASE q = r
    <3>1. request[r] = 1 .. request_bytes
      BY <2>1, <2>3
    <3>2. request_bytes \in Nat /\ n \in Nat
      OBVIOUS
    <3>3. (1 .. request_bytes) \cup (request_bytes + 1 .. request_bytes + n)
            = 1 .. request_bytes + n
      BY <3>2
    <3>4. RequestProgress(q)' = request_bytes + n
      BY <2>1, <2>2, <2>3
    <3> QED
      BY <2>1, <2>2, <2>3, <3>1, <3>3, <3>4
  <2>4. CASE q # r
    <3>1. RequestProgress(q) = 0 /\ RequestProgress(q)' = 0
      BY <2>1, <2>4
    <3> QED
      BY <2>1, <2>4, <3>1
  <2> QED
    BY <2>3, <2>4
<1> QED
  BY <1>1, <1>2, <1>3, <1>4, <1>5 DEF Next, RelayStep

(* A relay leaves `requesting' with its request sent, or after a failure.  *)
LEMMA RequestIntactStep == ASSUME IInv, Next PROVE RequestIntact'
<1> USE RequestSizeAssumption DEF IInv, TypeOK, Requests,
         RequestProgress, StreamIntact, RequestIntact, MixInRequest, Fail,
         watcherVars, streamVars, requestVars
<1>1. ASSUME NEW r \in Relay, StartRelay(r) \/ RefuseRelay(r) PROVE RequestIntact'
  BY <1>1 DEF StartRelay, RefuseRelay
<1>2. ASSUME NEW r \in Relay, RequestFails(r) \/ RequestBeyond(r) PROVE RequestIntact'
  BY <1>2 DEF RequestFails, RequestBeyond
<1>3. ASSUME NEW r \in Relay,
             \/ PullAfterViewer(r) \/ PullEnd(r) \/ PushBeyond(r) \/ PushFails(r)
             \/ \E n \in 1 .. ChunkSize : PullChunk(r, n)
             \/ \E n \in 0 .. ChunkSize : PushPart(r, n)
      PROVE  RequestIntact'
  <2>1. /\ UNCHANGED <<asked, refused, requesting, requestMixed, request>>
        /\ ~unsettled' => ~unsettled
    BY <1>3 DEF PullAfterViewer, PullEnd, PushBeyond, PushFails, PullChunk, PushPart
  <2> QED
    BY <2>1
<1>4. ASSUME NEW r \in Relay, NEW n \in 0 .. RequestSize[r], SendRequest(r, n)
      PROVE  RequestIntact'
  <2> SUFFICES ASSUME ~requestMixed', ~unsettled,
                      NEW q \in asked \ (requesting' \cup refused)
               PROVE  request'[q] = 1 .. RequestSize[q]
    BY <1>4 DEF SendRequest
  <2>1. /\ ~requestMixed /\ (request_bytes = 0 \/ requester = {r}) /\ r \in requesting
        /\ \A p \in Relay \ {r} : request'[p] = request[p]
        /\ request'[r] = request[r] \cup (request_bytes + 1 .. request_bytes + n)
        /\ q # r => q \notin requesting
    BY <1>4 DEF SendRequest
  <2>2. CASE q = r
    <3>1. request[r] = 1 .. request_bytes
      BY <2>1
    <3>2. request_bytes \in Nat /\ n \in Nat /\ request_bytes + n = RequestSize[r]
      BY <1>4, <2>1, <2>2 DEF SendRequest
    <3>3. (1 .. request_bytes) \cup (request_bytes + 1 .. request_bytes + n)
            = 1 .. request_bytes + n
      BY <3>2
    <3> QED
      BY <2>1, <2>2, <3>1, <3>2, <3>3
  <2>3. CASE q # r
    BY <2>1, <2>3
  <2> QED
    BY <2>2, <2>3
<1> QED
  BY <1>1, <1>2, <1>3, <1>4 DEF Next, RelayStep

LEMMA UndefinedStep == ASSUME IInv, Next PROVE UndefinedExplained'
<1> USE ChannelOfAssumption, SizesAssumption DEF IInv, TypeOK, Asked, Chunks,
         Found, Counter, Progress, MixIn, UndefinedExplained, Socket, Source,
         Viewer, get_backing_resource_item, Fail, watcherVars, streamVars,
         requestVars, MixInRequest
<1>1. ASSUME NEW r \in Relay, StartRelay(r) PROVE UndefinedExplained'
  BY <1>1 DEF StartRelay
<1>2. ASSUME NEW r \in Relay, RefuseRelay(r) PROVE UndefinedExplained'
  BY <1>2 DEF RefuseRelay
<1>3. ASSUME NEW r \in Relay, RequestFails(r) PROVE UndefinedExplained'
  BY <1>3 DEF RequestFails
<1>4. ASSUME NEW r \in Relay, PullAfterViewer(r) PROVE UndefinedExplained'
  BY <1>4 DEF PullAfterViewer
<1>5. ASSUME NEW r \in Relay, PullEnd(r) PROVE UndefinedExplained'
  BY <1>5 DEF PullEnd
<1>6. ASSUME NEW r \in Relay, PushBeyond(r) PROVE UndefinedExplained'
  <2> SUFFICES ASSUME ~mixed', overwritten = {} PROVE FALSE
    BY <1>6 DEF PushBeyond
  <2>1. ~mixed /\ (total_bytes = 0 \/ sender = {r}) /\ r \in pushing /\ total_bytes > chunk[r].bytes
    BY <1>6 DEF PushBeyond
  <2>2. Progress(r) = total_bytes /\ Progress(r) < chunk[r].bytes
    BY <2>1
  <2>3. chunk[r].bytes \in Nat /\ total_bytes \in Nat
    BY ChunkFacts
  <2> QED
    BY <2>1, <2>2, <2>3
<1>7. ASSUME NEW r \in Relay, PushFails(r) PROVE UndefinedExplained'
  BY <1>7 DEF PushFails
<1>8. ASSUME NEW r \in Relay, NEW n \in 0 .. RequestSize[r], SendRequest(r, n)
      PROVE  UndefinedExplained'
  BY <1>8 DEF SendRequest
<1>9. ASSUME NEW r \in Relay, NEW n \in 1 .. ChunkSize, PullChunk(r, n)
      PROVE  UndefinedExplained'
  BY <1>9 DEF PullChunk
<1>10. ASSUME NEW r \in Relay, NEW n \in 0 .. ChunkSize, PushPart(r, n)
       PROVE  UndefinedExplained'
  BY <1>10 DEF PushPart
<1>11. ASSUME NEW r \in Relay, RequestBeyond(r) PROVE UndefinedExplained'
  <2> SUFFICES ASSUME ~requestMixed' PROVE FALSE
    BY <1>11 DEF RequestBeyond
  <2>1. /\ ~requestMixed /\ (request_bytes = 0 \/ requester = {r})
        /\ r \in requesting /\ request_bytes > RequestSize[r]
    BY <1>11 DEF RequestBeyond
  <2>2. RequestProgress(r) = request_bytes /\ RequestProgress(r) < RequestSize[r]
    BY <2>1 DEF Requests, RequestProgress
  <2>3. request_bytes \in Nat /\ RequestSize[r] \in Nat
    BY RequestSizeAssumption
  <2> QED
    BY <2>1, <2>2, <2>3
<1> QED
  BY <1>1, <1>2, <1>3, <1>4, <1>5, <1>6, <1>7, <1>8, <1>9, <1>10, <1>11
  DEF Next, RelayStep

-----------------------------------------------------------------------------
(* The initial state.                                                      *)
LEMMA InitInv == Init => IInv
<1> SUFFICES ASSUME Init PROVE IInv
  OBVIOUS
<1> USE ChannelOfAssumption, SizesAssumption DEF Init
<1>1. TypeOK
  <2>1. chunk \in [Relay -> ChunkType]
    BY ChunkFacts
  <2>2. got \in [Relay -> Seq(1 .. StreamSize)]
    OBVIOUS
  <2>3. total_bytes \in 0 .. ChunkSize - 1 /\ request_bytes = 0
    OBVIOUS
  <2>4. /\ pool \in [Channel -> SUBSET Socket] /\ read \in [Relay -> 0 .. StreamSize]
        /\ request \in [Relay -> SUBSET Nat] /\ \A r \in Relay : request[r] = {}
    OBVIOUS
  <2>5. /\ undefined \in BOOLEAN /\ mixed \in BOOLEAN /\ unsettled \in BOOLEAN
        /\ requestMixed \in BOOLEAN /\ requester = {}
    OBVIOUS
  <2> QED
    BY <2>1, <2>2, <2>3, <2>4, <2>5 DEF TypeOK
<1>2. Asked
  BY DEF Asked
<1>3. Chunks
  BY DEF Chunks
<1>4. Entries /\ Found
  BY DEF Entries, Found
<1>5. Counter
  BY DEF Counter
<1>6. StreamIntact
  <2>1. \A r \in Relay : DOMAIN got[r] = {}
    OBVIOUS
  <2> QED
    BY <2>1 DEF StreamIntact, ViewerIntact, RequestIntact
<1>7. UndefinedExplained /\ Requests
  BY DEF UndefinedExplained, Requests
<1> QED
  BY <1>1, <1>2, <1>3, <1>4, <1>5, <1>6, <1>7 DEF IInv

(* A step that changes nothing.                                            *)
LEMMA Stutter == IInv /\ UNCHANGED vars => IInv'
<1> SUFFICES ASSUME IInv, UNCHANGED vars PROVE IInv'
  OBVIOUS
<1> USE DEF IInv, vars
<1>1. TypeOK'
  BY DEF TypeOK
<1>2. Asked' /\ Chunks'
  BY DEF Asked, Chunks
<1>3. Entries' /\ Found'
  BY DEF Entries, Found
<1>4. Counter'
  BY DEF Counter, Progress
<1>5. StreamIntact' /\ UndefinedExplained' /\ Requests'
  BY DEF StreamIntact, ViewerIntact, RequestIntact, UndefinedExplained, Requests,
     RequestProgress
<1> QED
  BY <1>1, <1>2, <1>3, <1>4, <1>5

(* Every step keeps the inductive invariant.                               *)
LEMMA IInvStep == IInv /\ [Next]_vars => IInv'
<1> SUFFICES ASSUME IInv, [Next]_vars PROVE IInv'
  OBVIOUS
<1>1. CASE UNCHANGED vars
  BY <1>1, Stutter
<1>2. CASE Next
  BY <1>2, TypeOKStep, AskedStep, ChunksStep, EntriesStep, FoundStep, CounterStep,
     RequestsStep, ViewerIntactStep, RequestIntactStep, UndefinedStep
     DEF IInv, StreamIntact
<1> QED
  BY <1>1, <1>2

(* The inductive invariant holds in every reachable state.                 *)
LEMMA Invariance == Spec => []IInv
BY InitInv, IInvStep, PTL DEF Spec

(* The callbacks of a worker keep the types of what they share; total_bytes*)
(* of push_stream_cb stays below ChunkSize whichever relay moves it.       *)
THEOREM TypeCorrect == Spec => []TypeOK
<1>1. IInv => TypeOK
  BY DEF IInv
<1> QED
  BY Invariance, <1>1, PTL

(* push_stream_cb writes a viewer the bytes that pull_stream_cb read, in   *)
(* order and without a gap, unless the static total_bytes was left by      *)
(* another relay or a chunk was replaced before it was sent; and           *)
(* send_backing_resource_cb is done with a request only when the source    *)
(* has all of it, unless its counter was left by another relay or a write  *)
(* failed.                                                                 *)
THEOREM ViewersGetTheStream == Spec => []StreamIntact
<1>1. IInv => StreamIntact
  BY DEF IInv
<1> QED
  BY Invariance, <1>1, PTL

(* The unchecked result of get_backing_resource_item and the sizes that    *)
(* push_stream_cb and send_backing_resource_cb compute go wrong only after *)
(* a resource was erased under a relay that was left on it, or the counter *)
(* was not about this chunk or this request, whatever their lengths.       *)
THEOREM UndefinedHasACause == Spec => []UndefinedExplained
<1>1. IInv => UndefinedExplained
  BY DEF IInv
<1> QED
  BY Invariance, <1>1, PTL

(* A channel whose last relay has ended has no entry in resource_info_pool,*)
(* but for the sockets of a viewer that was refused.                       *)
THEOREM ResourcesHaveRelays == Spec => []ResourceHasRelay
<1>1. IInv => ResourceHasRelay
  BY DEF IInv, Entries, ResourceHasRelay
<1> QED
  BY Invariance, <1>1, PTL
=============================================================================
