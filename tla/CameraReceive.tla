---------------------------- MODULE CameraReceive ----------------------------
(***************************************************************************)
(* How the bytes of one camera become FLV tags: receive_stream_cb reads    *)
(* the FLV header, then over and over a tag header and as much data as     *)
(* that header announces, with read_specify_size.  The bytes arrive in any *)
(* portions, and the counters of the channel carry a stage that is not     *)
(* complete over to the next callback.                                     *)
(*                                                                         *)
(* A byte is its position in the camera's stream, so a buffer shows which  *)
(* bytes it holds.  Tag i begins at boundary[i], and its header says where *)
(* it ends.  Every call of read_specify_size is one step: it takes all the *)
(* bytes that it wants if they are there, and less if at least one is; if  *)
(* there is none, and the connection is open, it spins and so does the     *)
(* whole worker: no step is enabled until the camera goes on.              *)
(***************************************************************************)
EXTENDS Integers, Sequences

CONSTANTS FLV_HEADER_BYTES,  \* FLV_HEADER_SIZE + PREVIOUS_TAG_SIZE
          TAG_HEADER_SIZE,
          MaxData,           \* bound: bytes of a tag after its header
          MaxTags            \* bound: tags of the stream

ASSUME SizesAssumption ==
  FLV_HEADER_BYTES \in Nat \ {0} /\ TAG_HEADER_SIZE \in Nat \ {0}
ASSUME BoundsAssumption == MaxData \in Nat \ {0} /\ MaxTags \in Nat

VARIABLES boundary,   \* where each tag begins, and the last one ends
          written,    \* number of bytes that the camera has sent
          connection, \* "open", "closed" or "reset" by the camera
          consumed,   \* number of bytes read from the socket
          pc,         \* "loop", a stage of the callback, or "gone"
          camera,     \* the fields of CAMERAS that receive_stream_cb uses
          packets     \* history: the packets that were put together

peerVars == <<boundary, written, connection>>
vars == <<boundary, written, connection, consumed, pc, camera, packets>>

NONE == -1  \* the content of a byte that was never written

MaxLength == FLV_HEADER_BYTES + MaxTags * (TAG_HEADER_SIZE + MaxData)

Boundaries ==
  {b \in [1 .. MaxTags + 1 -> 0 .. MaxLength] :
     /\ b[1] = FLV_HEADER_BYTES
     /\ \A i \in 1 .. MaxTags : b[i + 1] - b[i] - TAG_HEADER_SIZE \in 1 .. MaxData}

Buffer(n) == [j \in 0 .. n - 1 |-> NONE]

new_cameras ==
  [receive_first                |-> TRUE,
   not_received_flv_header_done |-> TRUE,
   not_received_tag_header_done |-> TRUE,
   not_received_tag_data_done   |-> TRUE,
   flv_header_received_bytes    |-> 0,
   tag_header_received_bytes    |-> 0,
   tag_data_received_bytes      |-> 0,
   flv_header                   |-> Buffer(FLV_HEADER_BYTES),
   tag_header                   |-> Buffer(TAG_HEADER_SIZE),
   tag_data                     |-> Buffer(0),
   tag_data_size                |-> 0]

Init ==
  /\ boundary \in Boundaries
  /\ written = 0
  /\ connection = "open"
  /\ consumed = 0
  /\ pc = "loop"
  /\ camera = new_cameras
  /\ packets = << >>

-----------------------------------------------------------------------------
(* The camera: it sends, ends its stream, or the connection breaks and the *)
(* bytes that nobody has read are lost.                                    *)
Send(n) ==
  /\ connection = "open" /\ written + n <= boundary[MaxTags + 1]
  /\ written' = written + n
  /\ UNCHANGED <<boundary, connection, consumed, pc, camera, packets>>

Close ==
  /\ connection = "open"
  /\ connection' = "closed"
  /\ UNCHANGED <<boundary, written, consumed, pc, camera, packets>>

Reset ==
  /\ connection = "open"
  /\ connection' = "reset"
  /\ written' = consumed
  /\ UNCHANGED <<boundary, consumed, pc, camera, packets>>

-----------------------------------------------------------------------------
Available == written - consumed

(* Mutant of ReadsNothing: a hang-up is noticed before the bytes are read. *)
ReadsNothing_on_hang_up(total_bytes) == connection # "open"

(* The results of read_specify_size for total_bytes: all of them; some; or *)
(* 0, for the end of the stream or an error, even after it has read some.  *)
ReadsAll(total_bytes) == Available >= total_bytes
ReadsSome(total_bytes) ==
  connection = "open" /\ 0 < Available /\ Available < total_bytes
ReadsNothing(total_bytes) == connection # "open" /\ Available < total_bytes

(* Mutant of Filled: every portion goes to the start of the buffer.        *)
Filled_from_start(buffer, offset, n) ==
  [j \in DOMAIN buffer |-> IF j < n THEN consumed + j ELSE buffer[j]]

(* buffer after the next n bytes of the socket were read at an offset.     *)
Filled(buffer, offset, n) ==
  [j \in DOMAIN buffer |->
     IF offset <= j /\ j < offset + n THEN consumed + j - offset ELSE buffer[j]]

(* The size that a tag header announces; that of a buffer that is not the  *)
(* header of a tag could be anything.                                      *)
IsHeader(buffer, i) ==
  \A j \in 0 .. TAG_HEADER_SIZE - 1 : buffer[j] = boundary[i] + j
DataSizes(buffer) ==
  {n \in 1 .. MaxData : \A i \in 1 .. MaxTags :
     IsHeader(buffer, i) => n = boundary[i + 1] - boundary[i] - TAG_HEADER_SIZE}

delete_camera ==
  /\ pc' = "gone"
  /\ UNCHANGED <<peerVars, consumed, camera, packets>>

(* libev calls receive_stream_cb: it goes on with the stage that is due.   *)
receive_stream_cb ==
  /\ pc = "loop" /\ (Available > 0 \/ connection # "open")
  /\ pc' = IF camera.receive_first /\ camera.not_received_flv_header_done THEN "flv"
           ELSE IF camera.not_received_tag_header_done THEN "header" ELSE "data"
  /\ UNCHANGED <<peerVars, consumed, camera, packets>>

(* One stage: it completes and goes on, or the callback returns and the    *)
(* next one goes on here, or the camera is deleted.                        *)
Stage(here, total_bytes, Completed, part) ==
  \/ /\ pc = here /\ ReadsAll(total_bytes)
     /\ consumed' = consumed + total_bytes
     /\ Completed
     /\ UNCHANGED peerVars
  \/ /\ pc = here /\ ReadsSome(total_bytes)
     /\ consumed' = written
     /\ pc' = "loop"
     /\ camera' = part
     /\ UNCHANGED <<peerVars, packets>>
  \/ pc = here /\ ReadsNothing(total_bytes) /\ delete_camera

ReadFlvHeader ==
  LET received    == camera.flv_header_received_bytes
      total_bytes == FLV_HEADER_BYTES - received
  IN  Stage("flv", total_bytes,
        /\ pc' = "header"
        /\ camera' = [camera EXCEPT
             !.flv_header = Filled(@, received, total_bytes),
             !.flv_header_received_bytes = FLV_HEADER_BYTES,
             !.not_received_flv_header_done = FALSE,
             !.receive_first = FALSE]
        /\ UNCHANGED packets,
        [camera EXCEPT
           !.flv_header = Filled(@, received, Available),
           !.flv_header_received_bytes = received + Available])

(* A complete tag header tells the size of the buffer for the data.        *)
ReadTagHeader ==
  LET received    == camera.tag_header_received_bytes
      total_bytes == TAG_HEADER_SIZE - received
      header      == Filled(camera.tag_header, received, total_bytes)
  IN  Stage("header", total_bytes,
        /\ pc' = "data"
        /\ \E size \in DataSizes(header) :
             camera' = [camera EXCEPT
               !.tag_header = header,
               !.tag_header_received_bytes = 0,
               !.not_received_tag_header_done = FALSE,
               !.tag_data = Buffer(size),
               !.tag_data_size = size]
        /\ UNCHANGED packets,
        [camera EXCEPT
           !.tag_header = Filled(@, received, Available),
           !.tag_header_received_bytes = received + Available])

(* The packet of a tag: its header and its data.                           *)
Packet(header, tag_data, size) ==
  [j \in 0 .. TAG_HEADER_SIZE + size - 1 |->
     IF j < TAG_HEADER_SIZE THEN header[j] ELSE tag_data[j - TAG_HEADER_SIZE]]

(* Mutants of ReadTagData: the counter keeps its value; the callback goes  *)
(* straight on to the next tag.                                            *)
ReadTagData_no_reset ==
  LET received    == camera.tag_data_received_bytes
      total_bytes == camera.tag_data_size - received
      tag_data    == Filled(camera.tag_data, received, total_bytes)
  IN  Stage("data", total_bytes,
        /\ pc' = "loop"
        /\ camera' = [camera EXCEPT
             !.tag_data = Buffer(0),
             !.tag_data_received_bytes = camera.tag_data_size,
             !.tag_header = Buffer(TAG_HEADER_SIZE),
             !.not_received_tag_header_done = TRUE]
        /\ packets' =
             Append(packets, Packet(camera.tag_header, tag_data, camera.tag_data_size)),
        [camera EXCEPT
           !.tag_data = Filled(@, received, Available),
           !.tag_data_received_bytes = received + Available])

ReadTagData_goes_on ==
  LET received    == camera.tag_data_received_bytes
      total_bytes == camera.tag_data_size - received
      tag_data    == Filled(camera.tag_data, received, total_bytes)
  IN  Stage("data", total_bytes,
        /\ pc' = "header"
        /\ camera' = [camera EXCEPT
             !.tag_data = Buffer(0),
             !.tag_data_received_bytes = 0,
             !.tag_header = Buffer(TAG_HEADER_SIZE),
             !.not_received_tag_header_done = TRUE]
        /\ packets' =
             Append(packets, Packet(camera.tag_header, tag_data, camera.tag_data_size)),
        [camera EXCEPT
           !.tag_data = Filled(@, received, Available),
           !.tag_data_received_bytes = received + Available])

(* Complete data completes the packet, which goes to the headers of the    *)
(* channel or to its viewers (see TagDelivery); the channel is ready for   *)
(* the next tag.  not_received_tag_data_done is set and cleared on the way.*)
ReadTagData ==
  LET received    == camera.tag_data_received_bytes
      total_bytes == camera.tag_data_size - received
      tag_data    == Filled(camera.tag_data, received, total_bytes)
  IN  Stage("data", total_bytes,
        /\ pc' = "loop"
        /\ camera' = [camera EXCEPT
             !.tag_data = Buffer(0),
             !.tag_data_received_bytes = 0,
             !.tag_header = Buffer(TAG_HEADER_SIZE),
             !.not_received_tag_header_done = TRUE]
        /\ packets' =
             Append(packets, Packet(camera.tag_header, tag_data, camera.tag_data_size)),
        [camera EXCEPT
           !.tag_data = Filled(@, received, Available),
           !.tag_data_received_bytes = received + Available])

WorkerStep == receive_stream_cb \/ ReadFlvHeader \/ ReadTagHeader \/ ReadTagData

Next ==
  \/ WorkerStep
  \/ \E n \in 1 .. MaxLength : Send(n)
  \/ Close
  \/ Reset

Spec == Init /\ [][Next]_vars

(* The worker's loop runs, and so does a callback that can go on.  Nothing *)
(* is assumed of the camera.                                               *)
FairSpec == Spec /\ WF_vars(WorkerStep)

-----------------------------------------------------------------------------
(* What is allocated for the data of the tag that is being read.           *)
Allocated == IF camera.not_received_tag_header_done THEN 0 ELSE camera.tag_data_size

CameraType ==
  [receive_first                : BOOLEAN,
   not_received_flv_header_done : BOOLEAN,
   not_received_tag_header_done : BOOLEAN,
   not_received_tag_data_done   : BOOLEAN,
   flv_header_received_bytes    : 0 .. FLV_HEADER_BYTES,
   tag_header_received_bytes    : 0 .. TAG_HEADER_SIZE - 1,
   tag_data_received_bytes      : 0 .. MaxData,
   flv_header                   : [0 .. FLV_HEADER_BYTES - 1 -> Int],
   tag_header                   : [0 .. TAG_HEADER_SIZE - 1 -> Int],
   tag_data                     : [0 .. Allocated - 1 -> Int],
   tag_data_size                : 0 .. MaxData]

(* The counters stay inside their buffers: no portion is written past the  *)
(* end of one, and the size_t total_bytes never wraps around.              *)
TypeOK ==
  /\ boundary \in Boundaries
  /\ written \in 0 .. MaxLength /\ consumed \in 0 .. written
  /\ connection \in {"open", "closed", "reset"}
  /\ pc \in {"loop", "flv", "header", "data", "gone"}
  /\ camera \in CameraType
  /\ camera.not_received_flv_header_done =>
       camera.flv_header_received_bytes < FLV_HEADER_BYTES
  /\ IF camera.not_received_tag_header_done
     THEN camera.tag_data_received_bytes = 0
     ELSE camera.tag_data_received_bytes < camera.tag_data_size

(* The bytes of the camera's i-th tag.                                     *)
Tag(i) == [j \in 0 .. boundary[i + 1] - boundary[i] - 1 |-> boundary[i] + j]

(* However the camera's bytes are split into portions, packet i is tag i   *)
(* of the stream, from the first byte of its header to the last of its     *)
(* data, and the saved FLV header is the one the stream began with.        *)
TagsCutRight ==
  /\ \A i \in 1 .. Len(packets) : packets[i] = Tag(i)
  /\ ~camera.receive_first => camera.flv_header = [j \in 0 .. FLV_HEADER_BYTES - 1 |-> j]

Blocked ==
  pc \in {"flv", "header", "data"} /\ Available = 0 /\ connection = "open"

(* read_specify_size spins on a socket without a byte, and with it every   *)
(* channel of the worker.  A camera that pauses between two tags, or in    *)
(* the middle of a header or of data, never causes this: it happens only   *)
(* when the FLV header or the header of a tag is the last it sent.         *)
BlockedOnlyAfterHeader ==
  Blocked => \/ consumed = FLV_HEADER_BYTES
             \/ \E i \in 1 .. MaxTags : consumed = boundary[i] + TAG_HEADER_SIZE

(* Every tag that the camera has sent to its last byte becomes a packet,   *)
(* also when the camera hangs up right after it, unless the connection is  *)
(* reset.                                                                  *)
WholeTagsReceived ==
  \A i \in 1 .. MaxTags :
    written >= boundary[i + 1] ~> Len(packets) >= i \/ connection = "reset"
=============================================================================
