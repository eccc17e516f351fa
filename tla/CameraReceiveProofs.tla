------------------------- MODULE CameraReceiveProofs -------------------------
(***************************************************************************)
(* Proofs about CameraReceive, for every size of the headers and the tags  *)
(* and every length of the stream: however its bytes are split, the camera *)
(* is cut into its tags, a callback spins only after a header, and the     *)
(* worker leaves no complete tag behind when it has nothing left to do.    *)
(***************************************************************************)
EXTENDS CameraReceive, SequenceTheorems, NaturalsInduction, WellFoundedInduction,
        TLAPS

(* The tag that is being read begins here.                                 *)
Begin == boundary[Len(packets) + 1]

(* The camera sends no more than its tags, and there are no more packets.  *)
WithinStream ==
  /\ written <= boundary[MaxTags + 1]
  /\ packets \in Seq({Tag(i) : i \in 1 .. MaxTags}) /\ Len(packets) <= MaxTags

(* Until the FLV header is complete, its counter is the position in the    *)
(* stream, and the buffer holds what was read so far.                      *)
InFlvHeader ==
  camera.receive_first =>
    /\ camera.not_received_flv_header_done /\ camera.not_received_tag_header_done
    /\ packets = << >> /\ camera.tag_header_received_bytes = 0
    /\ consumed = camera.flv_header_received_bytes
    /\ \A j \in 0 .. consumed - 1 : camera.flv_header[j] = j
    /\ pc \notin {"header", "data"}

(* In the header of a tag its counter is how far the stream is past Begin. *)
InTagHeader ==
  ~camera.receive_first /\ camera.not_received_tag_header_done =>
    /\ pc \notin {"flv", "data"}
    /\ consumed = Begin + camera.tag_header_received_bytes
    /\ \A j \in 0 .. camera.tag_header_received_bytes - 1 :
         camera.tag_header[j] = Begin + j

(* In its data the header is complete, and the size is the tag's.          *)
InTagData ==
  ~camera.not_received_tag_header_done =>
    /\ ~camera.receive_first /\ pc \notin {"flv", "header"}
    /\ camera.tag_header_received_bytes = 0
    /\ Len(packets) < MaxTags /\ IsHeader(camera.tag_header, Len(packets) + 1)
    /\ camera.tag_data_size = boundary[Len(packets) + 2] - Begin - TAG_HEADER_SIZE
    /\ consumed = Begin + TAG_HEADER_SIZE + camera.tag_data_received_bytes
    /\ \A j \in 0 .. camera.tag_data_received_bytes - 1 :
         camera.tag_data[j] = Begin + TAG_HEADER_SIZE + j

IInv ==
  /\ TypeOK /\ WithinStream
  /\ InFlvHeader /\ InTagHeader /\ InTagData
  /\ TagsCutRight /\ BlockedOnlyAfterHeader

-----------------------------------------------------------------------------
(* The fields of CAMERAS have their types.                                 *)
LEMMA Fields ==
  ASSUME camera \in CameraType
  PROVE  /\ camera.receive_first \in BOOLEAN
         /\ camera.not_received_flv_header_done \in BOOLEAN
         /\ camera.not_received_tag_header_done \in BOOLEAN
         /\ camera.not_received_tag_data_done \in BOOLEAN
         /\ camera.flv_header_received_bytes \in 0 .. FLV_HEADER_BYTES
         /\ camera.tag_header_received_bytes \in 0 .. TAG_HEADER_SIZE - 1
         /\ camera.tag_data_received_bytes \in 0 .. MaxData
         /\ camera.flv_header \in [0 .. FLV_HEADER_BYTES - 1 -> Int]
         /\ camera.tag_header \in [0 .. TAG_HEADER_SIZE - 1 -> Int]
         /\ camera.tag_data \in [0 .. Allocated - 1 -> Int]
         /\ camera.tag_data_size \in 0 .. MaxData
BY DEF CameraType

(* What each stage does to the fields.                                     *)
LEMMA FlvComplete ==
  ASSUME camera \in CameraType, NEW b \in [0 .. FLV_HEADER_BYTES - 1 -> Int],
         camera' = [camera EXCEPT !.flv_header = b,
                                  !.flv_header_received_bytes = FLV_HEADER_BYTES,
                                  !.not_received_flv_header_done = FALSE,
                                  !.receive_first = FALSE]
  PROVE  /\ camera'.receive_first = FALSE
         /\ camera'.not_received_flv_header_done = FALSE
         /\ camera'.not_received_tag_header_done = camera.not_received_tag_header_done
         /\ camera'.not_received_tag_data_done = camera.not_received_tag_data_done
         /\ camera'.flv_header_received_bytes = FLV_HEADER_BYTES
         /\ camera'.tag_header_received_bytes = camera.tag_header_received_bytes
         /\ camera'.tag_data_received_bytes = camera.tag_data_received_bytes
         /\ camera'.flv_header = b
         /\ camera'.tag_header = camera.tag_header
         /\ camera'.tag_data = camera.tag_data
         /\ camera'.tag_data_size = camera.tag_data_size
         /\ camera' \in CameraType'
<1>1. /\ camera'.receive_first = FALSE
      /\ camera'.not_received_flv_header_done = FALSE
      /\ camera'.not_received_tag_header_done = camera.not_received_tag_header_done
      /\ camera'.not_received_tag_data_done = camera.not_received_tag_data_done
      /\ camera'.flv_header_received_bytes = FLV_HEADER_BYTES
      /\ camera'.tag_header_received_bytes = camera.tag_header_received_bytes
      /\ camera'.tag_data_received_bytes = camera.tag_data_received_bytes
      /\ camera'.flv_header = b
      /\ camera'.tag_header = camera.tag_header
      /\ camera'.tag_data = camera.tag_data
      /\ camera'.tag_data_size = camera.tag_data_size
  BY DEF CameraType
<1>2. Allocated' = Allocated
  BY <1>1 DEF Allocated
<1>3. FLV_HEADER_BYTES \in 0 .. FLV_HEADER_BYTES
  BY SizesAssumption, BoundsAssumption
<1>4. camera' \in CameraType'
  BY <1>1, <1>2, <1>3 DEF CameraType
<1> QED
  BY <1>1, <1>4

LEMMA FlvPart ==
  ASSUME camera \in CameraType, NEW b \in [0 .. FLV_HEADER_BYTES - 1 -> Int],
         NEW n \in 0 .. FLV_HEADER_BYTES,
         camera' = [camera EXCEPT !.flv_header = b,
                                  !.flv_header_received_bytes = n]
  PROVE  /\ camera'.receive_first = camera.receive_first
         /\ camera'.not_received_flv_header_done = camera.not_received_flv_header_done
         /\ camera'.not_received_tag_header_done = camera.not_received_tag_header_done
         /\ camera'.not_received_tag_data_done = camera.not_received_tag_data_done
         /\ camera'.flv_header_received_bytes = n
         /\ camera'.tag_header_received_bytes = camera.tag_header_received_bytes
         /\ camera'.tag_data_received_bytes = camera.tag_data_received_bytes
         /\ camera'.flv_header = b
         /\ camera'.tag_header = camera.tag_header
         /\ camera'.tag_data = camera.tag_data
         /\ camera'.tag_data_size = camera.tag_data_size
         /\ camera' \in CameraType'
<1>1. /\ camera'.receive_first = camera.receive_first
      /\ camera'.not_received_flv_header_done = camera.not_received_flv_header_done
      /\ camera'.not_received_tag_header_done = camera.not_received_tag_header_done
      /\ camera'.not_received_tag_data_done = camera.not_received_tag_data_done
      /\ camera'.flv_header_received_bytes = n
      /\ camera'.tag_header_received_bytes = camera.tag_header_received_bytes
      /\ camera'.tag_data_received_bytes = camera.tag_data_received_bytes
      /\ camera'.flv_header = b
      /\ camera'.tag_header = camera.tag_header
      /\ camera'.tag_data = camera.tag_data
      /\ camera'.tag_data_size = camera.tag_data_size
  BY DEF CameraType
<1>2. Allocated' = Allocated
  BY <1>1 DEF Allocated
<1>3. camera' \in CameraType'
  BY <1>1, <1>2, SizesAssumption DEF CameraType
<1> QED
  BY <1>1, <1>3

LEMMA HeaderComplete ==
  ASSUME camera \in CameraType, NEW b \in [0 .. TAG_HEADER_SIZE - 1 -> Int],
         NEW n \in 0 .. MaxData, NEW d \in [0 .. n - 1 -> Int],
         camera' = [camera EXCEPT !.tag_header = b,
                                  !.tag_header_received_bytes = 0,
                                  !.not_received_tag_header_done = FALSE,
                                  !.tag_data = d,
                                  !.tag_data_size = n]
  PROVE  /\ camera'.receive_first = camera.receive_first
         /\ camera'.not_received_flv_header_done = camera.not_received_flv_header_done
         /\ camera'.not_received_tag_header_done = FALSE
         /\ camera'.not_received_tag_data_done = camera.not_received_tag_data_done
         /\ camera'.flv_header_received_bytes = camera.flv_header_received_bytes
         /\ camera'.tag_header_received_bytes = 0
         /\ camera'.tag_data_received_bytes = camera.tag_data_received_bytes
         /\ camera'.flv_header = camera.flv_header
         /\ camera'.tag_header = b
         /\ camera'.tag_data = d
         /\ camera'.tag_data_size = n
         /\ camera' \in CameraType'
<1>1. /\ camera'.receive_first = camera.receive_first
      /\ camera'.not_received_flv_header_done = camera.not_received_flv_header_done
      /\ camera'.not_received_tag_header_done = FALSE
      /\ camera'.not_received_tag_data_done = camera.not_received_tag_data_done
      /\ camera'.flv_header_received_bytes = camera.flv_header_received_bytes
      /\ camera'.tag_header_received_bytes = 0
      /\ camera'.tag_data_received_bytes = camera.tag_data_received_bytes
      /\ camera'.flv_header = camera.flv_header
      /\ camera'.tag_header = b
      /\ camera'.tag_data = d
      /\ camera'.tag_data_size = n
  BY DEF CameraType
<1>2. Allocated' = n
  BY <1>1 DEF Allocated
<1>3. 0 \in 0 .. TAG_HEADER_SIZE - 1
  BY SizesAssumption, BoundsAssumption
<1>4. camera' \in CameraType'
  BY <1>1, <1>2, <1>3 DEF CameraType
<1> QED
  BY <1>1, <1>4

LEMMA HeaderPart ==
  ASSUME camera \in CameraType, NEW b \in [0 .. TAG_HEADER_SIZE - 1 -> Int],
         NEW n \in 0 .. TAG_HEADER_SIZE - 1,
         camera' = [camera EXCEPT !.tag_header = b,
                                  !.tag_header_received_bytes = n]
  PROVE  /\ camera'.receive_first = camera.receive_first
         /\ camera'.not_received_flv_header_done = camera.not_received_flv_header_done
         /\ camera'.not_received_tag_header_done = camera.not_received_tag_header_done
         /\ camera'.not_received_tag_data_done = camera.not_received_tag_data_done
         /\ camera'.flv_header_received_bytes = camera.flv_header_received_bytes
         /\ camera'.tag_header_received_bytes = n
         /\ camera'.tag_data_received_bytes = camera.tag_data_received_bytes
         /\ camera'.flv_header = camera.flv_header
         /\ camera'.tag_header = b
         /\ camera'.tag_data = camera.tag_data
         /\ camera'.tag_data_size = camera.tag_data_size
         /\ camera' \in CameraType'
<1>1. /\ camera'.receive_first = camera.receive_first
      /\ camera'.not_received_flv_header_done = camera.not_received_flv_header_done
      /\ camera'.not_received_tag_header_done = camera.not_received_tag_header_done
      /\ camera'.not_received_tag_data_done = camera.not_received_tag_data_done
      /\ camera'.flv_header_received_bytes = camera.flv_header_received_bytes
      /\ camera'.tag_header_received_bytes = n
      /\ camera'.tag_data_received_bytes = camera.tag_data_received_bytes
      /\ camera'.flv_header = camera.flv_header
      /\ camera'.tag_header = b
      /\ camera'.tag_data = camera.tag_data
      /\ camera'.tag_data_size = camera.tag_data_size
  BY DEF CameraType
<1>2. Allocated' = Allocated
  BY <1>1 DEF Allocated
<1>3. camera' \in CameraType'
  BY <1>1, <1>2, SizesAssumption DEF CameraType
<1> QED
  BY <1>1, <1>3

LEMMA DataComplete ==
  ASSUME camera \in CameraType, NEW b \in [0 .. TAG_HEADER_SIZE - 1 -> Int],
         NEW d \in [0 .. 0 - 1 -> Int],
         camera' = [camera EXCEPT !.tag_data = d,
                                  !.tag_data_received_bytes = 0,
                                  !.tag_header = b,
                                  !.not_received_tag_header_done = TRUE]
  PROVE  /\ camera'.receive_first = camera.receive_first
         /\ camera'.not_received_flv_header_done = camera.not_received_flv_header_done
         /\ camera'.not_received_tag_header_done = TRUE
         /\ camera'.not_received_tag_data_done = camera.not_received_tag_data_done
         /\ camera'.flv_header_received_bytes = camera.flv_header_received_bytes
         /\ camera'.tag_header_received_bytes = camera.tag_header_received_bytes
         /\ camera'.tag_data_received_bytes = 0
         /\ camera'.flv_header = camera.flv_header
         /\ camera'.tag_header = b
         /\ camera'.tag_data = d
         /\ camera'.tag_data_size = camera.tag_data_size
         /\ camera' \in CameraType'
<1>1. /\ camera'.receive_first = camera.receive_first
      /\ camera'.not_received_flv_header_done = camera.not_received_flv_header_done
      /\ camera'.not_received_tag_header_done = TRUE
      /\ camera'.not_received_tag_data_done = camera.not_received_tag_data_done
      /\ camera'.flv_header_received_bytes = camera.flv_header_received_bytes
      /\ camera'.tag_header_received_bytes = camera.tag_header_received_bytes
      /\ camera'.tag_data_received_bytes = 0
      /\ camera'.flv_header = camera.flv_header
      /\ camera'.tag_header = b
      /\ camera'.tag_data = d
      /\ camera'.tag_data_size = camera.tag_data_size
  BY DEF CameraType
<1>2. Allocated' = 0
  BY <1>1 DEF Allocated
<1>3. 0 \in 0 .. MaxData
  BY SizesAssumption, BoundsAssumption
<1>4. camera' \in CameraType'
  BY <1>1, <1>2, <1>3 DEF CameraType
<1> QED
  BY <1>1, <1>4

LEMMA DataPart ==
  ASSUME camera \in CameraType, NEW b \in [0 .. Allocated - 1 -> Int],
         NEW n \in 0 .. MaxData,
         camera' = [camera EXCEPT !.tag_data = b,
                                  !.tag_data_received_bytes = n]
  PROVE  /\ camera'.receive_first = camera.receive_first
         /\ camera'.not_received_flv_header_done = camera.not_received_flv_header_done
         /\ camera'.not_received_tag_header_done = camera.not_received_tag_header_done
         /\ camera'.not_received_tag_data_done = camera.not_received_tag_data_done
         /\ camera'.flv_header_received_bytes = camera.flv_header_received_bytes
         /\ camera'.tag_header_received_bytes = camera.tag_header_received_bytes
         /\ camera'.tag_data_received_bytes = n
         /\ camera'.flv_header = camera.flv_header
         /\ camera'.tag_header = camera.tag_header
         /\ camera'.tag_data = b
         /\ camera'.tag_data_size = camera.tag_data_size
         /\ camera' \in CameraType'
<1>1. /\ camera'.receive_first = camera.receive_first
      /\ camera'.not_received_flv_header_done = camera.not_received_flv_header_done
      /\ camera'.not_received_tag_header_done = camera.not_received_tag_header_done
      /\ camera'.not_received_tag_data_done = camera.not_received_tag_data_done
      /\ camera'.flv_header_received_bytes = camera.flv_header_received_bytes
      /\ camera'.tag_header_received_bytes = camera.tag_header_received_bytes
      /\ camera'.tag_data_received_bytes = n
      /\ camera'.flv_header = camera.flv_header
      /\ camera'.tag_header = camera.tag_header
      /\ camera'.tag_data = b
      /\ camera'.tag_data_size = camera.tag_data_size
  BY DEF CameraType
<1>2. Allocated' = Allocated
  BY <1>1 DEF Allocated
<1>3. camera' \in CameraType'
  BY <1>1, <1>2, SizesAssumption DEF CameraType
<1> QED
  BY <1>1, <1>3

(* read_specify_size fills a part of a buffer and leaves the rest.         *)
LEMMA FilledBytes ==
  ASSUME NEW m \in Nat, NEW b \in [0 .. m - 1 -> Int], NEW o \in Nat, NEW n \in Nat,
         consumed \in Nat
  PROVE  /\ Filled(b, o, n) \in [0 .. m - 1 -> Int]
         /\ \A j \in 0 .. m - 1 : Filled(b, o, n)[j] =
              IF o <= j /\ j < o + n THEN consumed + j - o ELSE b[j]
<1>1. DOMAIN b = 0 .. m - 1
  OBVIOUS
<1> QED
  BY <1>1 DEF Filled

(* The boundaries of the camera's tags.                                    *)
LEMMA Bounds ==
  ASSUME boundary \in Boundaries
  PROVE  /\ \A i \in 1 .. MaxTags + 1 : boundary[i] \in 0 .. MaxLength
         /\ boundary[1] = FLV_HEADER_BYTES /\ MaxLength \in Nat
         /\ \A i \in 1 .. MaxTags :
              boundary[i + 1] - boundary[i] - TAG_HEADER_SIZE \in 1 .. MaxData
<1>1. MaxLength \in Nat
  BY SizesAssumption, BoundsAssumption DEF MaxLength
<1> QED
  BY <1>1 DEF Boundaries

-----------------------------------------------------------------------------
(* Steps that read nothing: the camera's, the start of a callback, and the *)
(* end of the camera.                                                      *)
LEMMA SameBytes ==
  ASSUME IInv, UNCHANGED <<boundary, consumed, camera, packets>>,
         written' \in Nat, consumed <= written', written' <= boundary[MaxTags + 1],
         connection' \in {"open", "closed", "reset"},
         \/ pc' = pc \/ pc' = "gone"
         \/ pc' = "flv" /\ camera.receive_first
         \/ /\ pc' = "header" /\ ~camera.receive_first
            /\ camera.not_received_tag_header_done
         \/ pc' = "data" /\ ~camera.not_received_tag_header_done,
         BlockedOnlyAfterHeader'
  PROVE  IInv'
<1>1. TypeOK'
  <2>1. boundary[MaxTags + 1] \in 0 .. MaxLength /\ MaxLength \in Nat
    BY Bounds, BoundsAssumption DEF IInv, TypeOK
  <2>2. written' \in 0 .. MaxLength /\ consumed' \in 0 .. written'
    BY <2>1 DEF IInv, TypeOK
  <2>3. camera' \in CameraType'
    BY DEF IInv, TypeOK, CameraType, Allocated
  <2> QED
    BY <2>2, <2>3 DEF IInv, TypeOK
<1>2. WithinStream'
  BY DEF IInv, WithinStream, Tag
<1>3. InFlvHeader'
  BY DEF IInv, InFlvHeader, InTagData
<1>4. InTagHeader'
  BY DEF IInv, InTagHeader, Begin
<1>5. InTagData'
  BY DEF IInv, InTagData, InFlvHeader, Begin, IsHeader
<1>6. TagsCutRight'
  BY DEF IInv, TagsCutRight, Tag
<1> QED
  BY <1>1, <1>2, <1>3, <1>4, <1>5, <1>6 DEF IInv

LEMMA SendStep == ASSUME IInv, NEW n \in 1 .. MaxLength, Send(n) PROVE IInv'
<1>1. written \in Nat /\ consumed \in Nat /\ consumed <= written /\ n \in Nat
  BY Bounds DEF IInv, TypeOK
<1>2. /\ UNCHANGED <<boundary, consumed, camera, packets>> /\ pc' = pc
      /\ written' = written + n /\ written' <= boundary[MaxTags + 1]
      /\ connection' \in {"open", "closed", "reset"}
  BY DEF Send, IInv, TypeOK
<1>3. written' \in Nat /\ consumed <= written' /\ written' - consumed # 0
  BY <1>1, <1>2
<1>4. BlockedOnlyAfterHeader'
  BY <1>2, <1>3, <1>1 DEF BlockedOnlyAfterHeader, Blocked, Available
<1> QED
  BY <1>2, <1>3, <1>4, SameBytes

LEMMA CloseStep == ASSUME IInv, Close PROVE IInv'
<1>1. /\ written \in Nat /\ consumed \in Nat /\ consumed <= written
      /\ written <= boundary[MaxTags + 1]
  BY Bounds DEF IInv, TypeOK, WithinStream
<1>2. /\ UNCHANGED <<boundary, consumed, camera, packets>> /\ pc' = pc
      /\ written' = written /\ connection' = "closed"
  BY DEF Close
<1>3. BlockedOnlyAfterHeader'
  BY <1>2 DEF BlockedOnlyAfterHeader, Blocked
<1> QED
  BY <1>1, <1>2, <1>3, SameBytes

LEMMA ResetStep == ASSUME IInv, Reset PROVE IInv'
<1>1. /\ written \in Nat /\ consumed \in Nat /\ consumed <= written
      /\ written <= boundary[MaxTags + 1] /\ boundary[MaxTags + 1] \in Nat
  BY Bounds, BoundsAssumption DEF IInv, TypeOK, WithinStream
<1>2. /\ UNCHANGED <<boundary, consumed, camera, packets>> /\ pc' = pc
      /\ written' = consumed /\ connection' = "reset"
  BY DEF Reset
<1>3. BlockedOnlyAfterHeader'
  BY <1>2 DEF BlockedOnlyAfterHeader, Blocked
<1>4. consumed <= boundary[MaxTags + 1] /\ consumed <= consumed
  BY <1>1
<1> QED
  BY <1>1, <1>2, <1>3, <1>4, SameBytes

LEMMA DeleteStep == ASSUME IInv, delete_camera PROVE IInv'
<1>1. /\ written \in Nat /\ consumed \in Nat /\ consumed <= written
      /\ written <= boundary[MaxTags + 1]
      /\ connection \in {"open", "closed", "reset"}
  BY Bounds DEF IInv, TypeOK, WithinStream
<1>2. /\ UNCHANGED <<boundary, consumed, camera, packets>> /\ pc' = "gone"
      /\ written' = written /\ connection' = connection
  BY DEF delete_camera, peerVars
<1>3. BlockedOnlyAfterHeader'
  BY <1>2 DEF BlockedOnlyAfterHeader, Blocked
<1> QED
  BY <1>1, <1>2, <1>3, SameBytes

LEMMA CallbackStep == ASSUME IInv, receive_stream_cb PROVE IInv'
<1>1. /\ written \in Nat /\ consumed \in Nat /\ consumed <= written
      /\ written <= boundary[MaxTags + 1]
      /\ connection \in {"open", "closed", "reset"}
  BY Bounds DEF IInv, TypeOK, WithinStream
<1>2. /\ UNCHANGED <<boundary, consumed, camera, packets>>
      /\ written' = written /\ connection' = connection
      /\ written - consumed > 0 \/ connection # "open"
  BY DEF receive_stream_cb, peerVars, Available
<1>3. BlockedOnlyAfterHeader'
  BY <1>1, <1>2 DEF BlockedOnlyAfterHeader, Blocked, Available
<1>4. \/ pc' = "flv" /\ camera.receive_first
      \/ /\ pc' = "header" /\ ~camera.receive_first
         /\ camera.not_received_tag_header_done
      \/ pc' = "data" /\ ~camera.not_received_tag_header_done
  BY DEF receive_stream_cb, IInv, InFlvHeader
<1> QED
  BY <1>1, <1>2, <1>3, <1>4, SameBytes

(* The FLV header: complete, in part, or the camera is deleted.            *)
LEMMA FlvStep == ASSUME IInv, ReadFlvHeader PROVE IInv'
<1> DEFINE received == camera.flv_header_received_bytes
           total_bytes == FLV_HEADER_BYTES - received
<1>1. CASE pc = "flv" /\ delete_camera
  BY <1>1, DeleteStep
<1>2. ASSUME pc = "flv" PROVE camera.receive_first
  BY <1>2 DEF IInv, InTagHeader, InTagData
<1>0. total_bytes = FLV_HEADER_BYTES - received
  OBVIOUS
<1>3. /\ camera \in CameraType /\ boundary \in Boundaries
      /\ received \in Nat /\ consumed \in Nat /\ written \in Nat
      /\ camera.flv_header \in [0 .. FLV_HEADER_BYTES - 1 -> Int]
      /\ consumed <= written /\ written <= MaxLength /\ MaxLength \in Nat
  <2>1. /\ camera \in CameraType /\ boundary \in Boundaries
        /\ written \in 0 .. MaxLength /\ consumed \in 0 .. written
    BY DEF IInv, TypeOK
  <2>2. MaxLength \in Nat
    BY <2>1, Bounds
  <2>3. /\ written \in Nat /\ consumed \in Nat
        /\ consumed <= written /\ written <= MaxLength
    BY <2>1, <2>2
  <2> QED
    BY <2>1, <2>2, <2>3, Fields, SizesAssumption
<1>4. ASSUME pc = "flv"
      PROVE  /\ camera.not_received_flv_header_done
             /\ camera.not_received_tag_header_done
             /\ packets = << >> /\ camera.tag_header_received_bytes = 0
             /\ consumed = received /\ received < FLV_HEADER_BYTES
             /\ \A j \in 0 .. consumed - 1 : camera.flv_header[j] = j
             /\ camera.tag_data_received_bytes = 0
  BY <1>2, <1>4 DEF IInv, InFlvHeader, TypeOK
<1>5. CASE /\ pc = "flv" /\ ReadsAll(total_bytes)
           /\ consumed' = consumed + total_bytes /\ pc' = "header"
           /\ camera' = [camera EXCEPT
                !.flv_header = Filled(camera.flv_header, received, total_bytes),
                !.flv_header_received_bytes = FLV_HEADER_BYTES,
                !.not_received_flv_header_done = FALSE,
                !.receive_first = FALSE]
           /\ UNCHANGED <<boundary, written, connection, packets>>
  <2> DEFINE b == Filled(camera.flv_header, received, total_bytes)
  <2>1. total_bytes \in Nat /\ consumed' = FLV_HEADER_BYTES
    BY <1>3, <1>4, <1>5, SizesAssumption
  <2>2. FLV_HEADER_BYTES <= written
    BY <1>3, <1>4, <1>5, SizesAssumption DEF ReadsAll, Available
  <2>3. /\ b \in [0 .. FLV_HEADER_BYTES - 1 -> Int]
        /\ \A j \in 0 .. FLV_HEADER_BYTES - 1 : b[j] =
             IF received <= j /\ j < received + total_bytes
             THEN consumed + j - received ELSE camera.flv_header[j]
    <3> HIDE DEF received, total_bytes
    <3>1. /\ FLV_HEADER_BYTES \in Nat /\ received \in Nat /\ total_bytes \in Nat
          /\ consumed \in Nat /\ camera.flv_header \in [0 .. FLV_HEADER_BYTES - 1 -> Int]
      BY <1>3, <2>1, SizesAssumption
    <3> QED
      BY <3>1, FilledBytes
  <2>4. b = [j \in 0 .. FLV_HEADER_BYTES - 1 |-> j]
    <3>1. \A j \in 0 .. FLV_HEADER_BYTES - 1 : b[j] = j
      <4>1. consumed = received /\ \A j \in 0 .. consumed - 1 : camera.flv_header[j] = j
        BY <1>4, <1>5
      <4>2. received + total_bytes = FLV_HEADER_BYTES
        BY <1>0, <1>3, SizesAssumption
      <4> HIDE DEF b, received, total_bytes
      <4>3. ASSUME NEW j \in 0 .. FLV_HEADER_BYTES - 1 PROVE b[j] = j
        <5>1. CASE received <= j
          BY <1>3, <2>3, <4>1, <4>2, <5>1, SizesAssumption
        <5>2. CASE ~(received <= j)
          BY <1>3, <2>3, <4>1, <5>2, SizesAssumption
        <5> QED
          BY <5>1, <5>2
      <4> QED
        BY <4>3
    <3> HIDE DEF b
    <3> QED
      BY <2>3, <3>1
  <2>5. /\ camera'.receive_first = FALSE
        /\ camera'.not_received_flv_header_done = FALSE
        /\ camera'.not_received_tag_header_done = camera.not_received_tag_header_done
        /\ camera'.tag_header_received_bytes = camera.tag_header_received_bytes
        /\ camera'.tag_data_received_bytes = camera.tag_data_received_bytes
        /\ camera'.flv_header = b /\ camera' \in CameraType'
    <3>1. camera' = [camera EXCEPT !.flv_header = b,
                                  !.flv_header_received_bytes = FLV_HEADER_BYTES,
                                  !.not_received_flv_header_done = FALSE,
                                  !.receive_first = FALSE]
      BY <1>5
    <3> HIDE DEF b
    <3> QED
      BY <1>3, <2>3, <3>1, FlvComplete
  <2> HIDE DEF b, received, total_bytes
  <2>6. TypeOK'
    <3>1. consumed' \in 0 .. written' /\ written' \in 0 .. MaxLength
      BY <1>3, <1>5, <2>1, <2>2, SizesAssumption
    <3> QED
      BY <1>4, <1>5, <2>5, <3>1 DEF IInv, TypeOK
  <2>7. WithinStream'
    BY <1>5 DEF IInv, WithinStream, Tag
  <2>8. InFlvHeader' /\ InTagData'
    BY <1>4, <1>5, <2>5 DEF InFlvHeader, InTagData
  <2>9. InTagHeader'
    <3>1. Begin' = FLV_HEADER_BYTES
      <4>1. Len(packets') + 1 = 1
        BY <1>4, <1>5
      <4> QED
        BY <1>3, <1>5, <4>1, Bounds DEF Begin
    <3>2. \A j \in 0 .. camera'.tag_header_received_bytes - 1 : FALSE
      BY <1>4, <1>5, <2>5
    <3> QED
      BY <1>4, <1>5, <2>1, <2>5, <3>1, <3>2, SizesAssumption DEF InTagHeader
  <2>10. TagsCutRight'
    BY <1>4, <1>5, <2>4, <2>5 DEF TagsCutRight
  <2>11. BlockedOnlyAfterHeader'
    BY <2>1 DEF BlockedOnlyAfterHeader
  <2> QED
    BY <2>6, <2>7, <2>8, <2>9, <2>10, <2>11 DEF IInv
<1>6. CASE /\ pc = "flv" /\ ReadsSome(total_bytes)
           /\ consumed' = written /\ pc' = "loop"
           /\ camera' = [camera EXCEPT
                !.flv_header = Filled(camera.flv_header, received, Available),
                !.flv_header_received_bytes = received + Available]
           /\ UNCHANGED <<boundary, written, connection, packets>>
  <2> DEFINE b == Filled(camera.flv_header, received, Available)
             n == received + Available
  <2>1. /\ Available \in Nat /\ Available < total_bytes /\ n = written
        /\ n \in 0 .. FLV_HEADER_BYTES /\ n < FLV_HEADER_BYTES
    <3>1. /\ consumed = received /\ Available = written - consumed
          /\ 0 < Available /\ Available < total_bytes
      BY <1>4, <1>6 DEF ReadsSome, Available
    <3>2. n = received + Available
      OBVIOUS
    <3> HIDE DEF n, received, total_bytes
    <3> QED
      BY <1>0, <1>3, <3>1, <3>2, SizesAssumption
  <2>2. /\ b \in [0 .. FLV_HEADER_BYTES - 1 -> Int]
        /\ \A j \in 0 .. FLV_HEADER_BYTES - 1 : b[j] =
             IF received <= j /\ j < received + Available
             THEN consumed + j - received ELSE camera.flv_header[j]
    <3> HIDE DEF received
    <3>1. /\ FLV_HEADER_BYTES \in Nat /\ received \in Nat /\ Available \in Nat
          /\ consumed \in Nat /\ camera.flv_header \in [0 .. FLV_HEADER_BYTES - 1 -> Int]
      BY <1>3, <2>1, SizesAssumption
    <3> QED
      BY <3>1, FilledBytes
  <2>3. \A j \in 0 .. n - 1 : b[j] = j
    <3>1. consumed = received /\ \A j \in 0 .. consumed - 1 : camera.flv_header[j] = j
      BY <1>4, <1>6
    <3>2. n = received + Available
      OBVIOUS
    <3> HIDE DEF b, n, received, total_bytes
    <3>3. ASSUME NEW j \in 0 .. n - 1 PROVE b[j] = j
      <4>1. j \in 0 .. FLV_HEADER_BYTES - 1 /\ j < received + Available
        BY <1>3, <2>1, <3>2, SizesAssumption
      <4>2. CASE received <= j
        BY <1>3, <2>2, <3>1, <4>1, <4>2
      <4>3. CASE ~(received <= j)
        BY <1>3, <2>2, <3>1, <4>1, <4>3
      <4> QED
        BY <4>2, <4>3
    <3> QED
      BY <3>3
  <2>4. /\ camera'.receive_first = camera.receive_first
        /\ camera'.not_received_flv_header_done = camera.not_received_flv_header_done
        /\ camera'.not_received_tag_header_done = camera.not_received_tag_header_done
        /\ camera'.flv_header_received_bytes = n
        /\ camera'.tag_header_received_bytes = camera.tag_header_received_bytes
        /\ camera'.tag_data_received_bytes = camera.tag_data_received_bytes
        /\ camera'.flv_header = b /\ camera' \in CameraType'
    <3>1. camera' = [camera EXCEPT !.flv_header = b, !.flv_header_received_bytes = n]
      BY <1>6
    <3> HIDE DEF b, n
    <3> QED
      BY <1>3, <2>1, <2>2, <3>1, FlvPart
  <2> HIDE DEF b, n, received, total_bytes
  <2>5. TypeOK'
    <3>1. consumed' \in 0 .. written' /\ written' \in 0 .. MaxLength
      BY <1>3, <1>6
    <3> QED
      BY <1>4, <1>6, <2>1, <2>4, <3>1 DEF IInv, TypeOK
  <2>6. WithinStream'
    BY <1>6 DEF IInv, WithinStream, Tag
  <2>7. InFlvHeader' /\ InTagData'
    BY <1>4, <1>6, <2>1, <2>3, <2>4 DEF InFlvHeader, InTagData
  <2>8. InTagHeader' /\ TagsCutRight'
    BY <1>2, <1>4, <1>6, <2>4 DEF InTagHeader, TagsCutRight
  <2>9. BlockedOnlyAfterHeader'
    BY <1>6 DEF BlockedOnlyAfterHeader, Blocked
  <2> QED
    BY <2>5, <2>6, <2>7, <2>8, <2>9 DEF IInv
<1> QED
  BY <1>1, <1>5, <1>6 DEF ReadFlvHeader, Stage, peerVars

(* The header of a tag.  It can be complete only before the last tag, and  *)
(* then it is the tag's, so that it announces the tag's size.              *)
LEMMA HeaderStep == ASSUME IInv, ReadTagHeader PROVE IInv'
<1> DEFINE received == camera.tag_header_received_bytes
           total_bytes == TAG_HEADER_SIZE - received
           header == Filled(camera.tag_header, received, total_bytes)
           k == Len(packets)
<1>0. total_bytes = TAG_HEADER_SIZE - received
  OBVIOUS
<1>1. CASE pc = "header" /\ delete_camera
  BY <1>1, DeleteStep
<1>2. ASSUME pc = "header"
      PROVE  /\ ~camera.receive_first /\ camera.not_received_tag_header_done
             /\ consumed = Begin + received
             /\ \A j \in 0 .. received - 1 : camera.tag_header[j] = Begin + j
             /\ camera.tag_data_received_bytes = 0
  BY <1>2 DEF IInv, InFlvHeader, InTagHeader, InTagData, TypeOK
<1>3. /\ camera \in CameraType /\ boundary \in Boundaries
      /\ received \in Nat /\ received < TAG_HEADER_SIZE
      /\ consumed \in Nat /\ written \in Nat
      /\ camera.tag_header \in [0 .. TAG_HEADER_SIZE - 1 -> Int]
      /\ consumed <= written /\ written <= MaxLength /\ MaxLength \in Nat
  <2>1. /\ camera \in CameraType /\ boundary \in Boundaries
        /\ written \in 0 .. MaxLength /\ consumed \in 0 .. written
    BY DEF IInv, TypeOK
  <2>2. MaxLength \in Nat
    BY <2>1, Bounds
  <2>3. /\ written \in Nat /\ consumed \in Nat
        /\ consumed <= written /\ written <= MaxLength
    BY <2>1, <2>2
  <2> QED
    BY <2>1, <2>2, <2>3, Fields, SizesAssumption
<1>4. /\ k \in Nat /\ k <= MaxTags /\ written <= boundary[MaxTags + 1]
      /\ Begin = boundary[k + 1] /\ Begin \in Nat
  <2>1. k \in Nat /\ k <= MaxTags /\ written <= boundary[MaxTags + 1]
    BY DEF IInv, WithinStream
  <2>2. Begin = boundary[k + 1]
    BY DEF Begin
  <2>3. k + 1 \in 1 .. MaxTags + 1
    BY <2>1, BoundsAssumption
  <2>4. boundary[k + 1] \in 0 .. MaxLength
    BY <1>3, <2>3, Bounds
  <2> HIDE DEF k
  <2> QED
    BY <1>3, <2>1, <2>2, <2>4
<1>7. /\ received \in Nat /\ received < TAG_HEADER_SIZE /\ TAG_HEADER_SIZE \in Nat
       /\ consumed \in Nat /\ written \in Nat /\ Begin \in Nat
  BY <1>3, <1>4, SizesAssumption
<1>5. CASE /\ pc = "header" /\ ReadsAll(total_bytes)
           /\ consumed' = consumed + total_bytes /\ pc' = "data"
           /\ \E size \in DataSizes(header) :
                camera' = [camera EXCEPT
                  !.tag_header = header, !.tag_header_received_bytes = 0,
                  !.not_received_tag_header_done = FALSE,
                  !.tag_data = Buffer(size), !.tag_data_size = size]
           /\ UNCHANGED <<boundary, written, connection, packets>>
  <2>1. /\ total_bytes \in Nat /\ total_bytes >= 1
        /\ consumed' = Begin + TAG_HEADER_SIZE /\ consumed' <= written
    <3>1. consumed = Begin + received /\ written - consumed >= total_bytes
          /\ consumed' = consumed + total_bytes
      BY <1>2, <1>5 DEF ReadsAll, Available
    <3> HIDE DEF received, total_bytes
    <3> QED
      BY <1>0, <1>7, <3>1
  <2>2. k < MaxTags
    <3> HIDE DEF k
    <3>1. CASE k = MaxTags
      BY <1>3, <1>4, <2>1, <3>1, SizesAssumption
    <3> QED
      BY <1>4, <3>1, BoundsAssumption
  <2>3. /\ header \in [0 .. TAG_HEADER_SIZE - 1 -> Int]
        /\ \A j \in 0 .. TAG_HEADER_SIZE - 1 : header[j] =
             IF received <= j /\ j < received + total_bytes
             THEN consumed + j - received ELSE camera.tag_header[j]
    <3> HIDE DEF received, total_bytes
    <3>1. /\ TAG_HEADER_SIZE \in Nat /\ received \in Nat /\ total_bytes \in Nat
          /\ consumed \in Nat /\ camera.tag_header \in [0 .. TAG_HEADER_SIZE - 1 -> Int]
      BY <1>3, <2>1, SizesAssumption
    <3> QED
      BY <3>1, FilledBytes
  <2>4. \A j \in 0 .. TAG_HEADER_SIZE - 1 : header[j] = Begin + j
    <3>1. /\ consumed = Begin + received
          /\ \A j \in 0 .. received - 1 : camera.tag_header[j] = Begin + j
      BY <1>2, <1>5
    <3>2. received + total_bytes = TAG_HEADER_SIZE
      BY <1>0, <1>3, SizesAssumption
    <3> HIDE DEF header, received, total_bytes
    <3>3. ASSUME NEW j \in 0 .. TAG_HEADER_SIZE - 1 PROVE header[j] = Begin + j
      <4>1. CASE received <= j
        <5>1. j < received + total_bytes
          BY <1>7, <3>2
        <5>2. header[j] = consumed + j - received
          BY <2>3, <4>1, <5>1
        <5> QED
          BY <1>7, <3>1, <5>2
      <4>2. CASE ~(received <= j)
        <5>1. header[j] = camera.tag_header[j]
          BY <2>3, <4>2
        <5>2. j \in 0 .. received - 1
          BY <1>7, <4>2
        <5> QED
          BY <3>1, <5>1, <5>2
      <4> QED
        BY <4>1, <4>2
    <3> QED
      BY <3>3
  <2>5. IsHeader(header, k + 1)
    <3> HIDE DEF header, k
    <3> QED
      BY <1>4, <2>4 DEF IsHeader
  <2>6. PICK size \in DataSizes(header) :
          camera' = [camera EXCEPT
            !.tag_header = header, !.tag_header_received_bytes = 0,
            !.not_received_tag_header_done = FALSE,
            !.tag_data = Buffer(size), !.tag_data_size = size]
    BY <1>5
  <2>7. /\ size \in 1 .. MaxData
        /\ size = boundary[k + 2] - Begin - TAG_HEADER_SIZE
    <3> HIDE DEF header, k
    <3>1. k + 1 \in 1 .. MaxTags /\ k + 1 + 1 = k + 2
      BY <1>4, <2>2, BoundsAssumption
    <3>2. size \in 1 .. MaxData
          /\ (IsHeader(header, k + 1) =>
                 size = boundary[k + 1 + 1] - boundary[k + 1] - TAG_HEADER_SIZE)
      BY <3>1 DEF DataSizes
    <3> QED
      BY <1>4, <2>5, <3>1, <3>2
  <2>8. /\ camera'.receive_first = camera.receive_first
        /\ camera'.not_received_flv_header_done = camera.not_received_flv_header_done
        /\ camera'.not_received_tag_header_done = FALSE
        /\ camera'.flv_header_received_bytes = camera.flv_header_received_bytes
        /\ camera'.tag_header_received_bytes = 0
        /\ camera'.tag_data_received_bytes = camera.tag_data_received_bytes
        /\ camera'.flv_header = camera.flv_header
        /\ camera'.tag_header = header
        /\ camera'.tag_data_size = size /\ camera' \in CameraType'
    <3>1. size \in 0 .. MaxData /\ Buffer(size) \in [0 .. size - 1 -> Int]
      BY <2>7, BoundsAssumption DEF Buffer, NONE
    <3> HIDE DEF header
    <3> QED
      BY <1>3, <2>3, <2>6, <3>1, HeaderComplete
  <2> HIDE DEF header, received, total_bytes, k
  <2>9. TypeOK'
    <3>1. consumed' \in 0 .. written' /\ written' \in 0 .. MaxLength
      BY <1>3, <1>4, <1>5, <2>1, SizesAssumption
    <3>2. camera'.tag_data_received_bytes < camera'.tag_data_size
      BY <1>2, <1>5, <2>7, <2>8, BoundsAssumption
    <3> QED
      BY <1>5, <2>8, <3>1, <3>2 DEF IInv, TypeOK
  <2>10. WithinStream'
    BY <1>5 DEF IInv, WithinStream, Tag
  <2>11. InFlvHeader' /\ InTagHeader'
    BY <1>2, <1>5, <2>8 DEF InFlvHeader, InTagHeader
  <2>12. InTagData'
    <3>1. Begin' = Begin /\ Len(packets') = k
      BY <1>5 DEF Begin, k
    <3>2. camera'.tag_data_received_bytes = 0
      BY <1>2, <1>5, <2>8
    <3>3. \A j \in 0 .. TAG_HEADER_SIZE - 1 :
            camera'.tag_header[j] = boundary'[Len(packets') + 1] + j
      BY <1>5, <2>5, <2>8, <3>1 DEF IsHeader
    <3>4. \A j \in 0 .. camera'.tag_data_received_bytes - 1 : FALSE
      BY <3>2
    <3>5. consumed' = Begin' + TAG_HEADER_SIZE + camera'.tag_data_received_bytes
      BY <1>4, <2>1, <3>1, <3>2, SizesAssumption
    <3>6. camera'.tag_data_size = boundary'[Len(packets') + 2] - Begin' - TAG_HEADER_SIZE
      BY <1>5, <2>7, <2>8, <3>1
    <3>7. Len(packets') < MaxTags /\ ~camera'.receive_first /\ pc' = "data"
          /\ camera'.tag_header_received_bytes = 0
      BY <1>2, <1>5, <2>2, <2>8, <3>1
    <3>8. IsHeader(camera.tag_header, Len(packets) + 1)'
      BY <3>3 DEF IsHeader
    <3> QED
      BY <3>4, <3>5, <3>6, <3>7, <3>8 DEF InTagData
  <2>13. TagsCutRight'
    BY <1>5, <2>8 DEF IInv, TagsCutRight, Tag
  <2>14. BlockedOnlyAfterHeader'
    <3>1. k + 1 \in 1 .. MaxTags /\ consumed' = boundary'[k + 1] + TAG_HEADER_SIZE
      BY <1>4, <1>5, <2>1, <2>2, BoundsAssumption
    <3> QED
      BY <3>1 DEF BlockedOnlyAfterHeader
  <2> QED
    BY <2>9, <2>10, <2>11, <2>12, <2>13, <2>14 DEF IInv
<1>6. CASE /\ pc = "header" /\ ReadsSome(total_bytes)
           /\ consumed' = written /\ pc' = "loop"
           /\ camera' = [camera EXCEPT
                !.tag_header = Filled(camera.tag_header, received, Available),
                !.tag_header_received_bytes = received + Available]
           /\ UNCHANGED <<boundary, written, connection, packets>>
  <2> DEFINE b == Filled(camera.tag_header, received, Available)
             n == received + Available
  <2>1. /\ Available \in Nat /\ Begin + n = written
        /\ n \in 0 .. TAG_HEADER_SIZE - 1
    <3>1. /\ consumed = Begin + received /\ Available = written - consumed
          /\ 0 < Available /\ Available < total_bytes
      BY <1>2, <1>6 DEF ReadsSome, Available
    <3>2. n = received + Available
      OBVIOUS
    <3> HIDE DEF n, received, total_bytes
    <3> QED
      BY <1>0, <1>7, <3>1, <3>2
  <2>2. /\ b \in [0 .. TAG_HEADER_SIZE - 1 -> Int]
        /\ \A j \in 0 .. TAG_HEADER_SIZE - 1 : b[j] =
             IF received <= j /\ j < received + Available
             THEN consumed + j - received ELSE camera.tag_header[j]
    <3> HIDE DEF received
    <3>1. /\ TAG_HEADER_SIZE \in Nat /\ received \in Nat /\ Available \in Nat
          /\ consumed \in Nat /\ camera.tag_header \in [0 .. TAG_HEADER_SIZE - 1 -> Int]
      BY <1>3, <2>1, SizesAssumption
    <3> QED
      BY <3>1, FilledBytes
  <2>3. \A j \in 0 .. n - 1 : b[j] = Begin + j
    <3>1. /\ consumed = Begin + received
          /\ \A j \in 0 .. received - 1 : camera.tag_header[j] = Begin + j
      BY <1>2, <1>6
    <3>2. n = received + Available
      OBVIOUS
    <3> HIDE DEF b, n, received, total_bytes
    <3>3. ASSUME NEW j \in 0 .. n - 1 PROVE b[j] = Begin + j
      <4>1. j \in 0 .. TAG_HEADER_SIZE - 1 /\ j < received + Available
        BY <1>3, <2>1, <3>2, SizesAssumption
      <4>2. CASE received <= j
        BY <1>3, <1>4, <2>2, <3>1, <4>1, <4>2
      <4>3. CASE ~(received <= j)
        BY <1>3, <2>2, <3>1, <4>1, <4>3
      <4> QED
        BY <4>2, <4>3
    <3> QED
      BY <3>3
  <2>4. /\ camera'.receive_first = camera.receive_first
        /\ camera'.not_received_flv_header_done = camera.not_received_flv_header_done
        /\ camera'.not_received_tag_header_done = camera.not_received_tag_header_done
        /\ camera'.flv_header_received_bytes = camera.flv_header_received_bytes
        /\ camera'.tag_header_received_bytes = n
        /\ camera'.tag_data_received_bytes = camera.tag_data_received_bytes
        /\ camera'.flv_header = camera.flv_header
        /\ camera'.tag_header = b /\ camera' \in CameraType'
    <3>1. camera' = [camera EXCEPT !.tag_header = b, !.tag_header_received_bytes = n]
      BY <1>6
    <3> HIDE DEF b, n
    <3> QED
      BY <1>3, <2>1, <2>2, <3>1, HeaderPart
  <2> HIDE DEF b, n, received, total_bytes, header, k
  <2>5. TypeOK'
    <3>1. consumed' \in 0 .. written' /\ written' \in 0 .. MaxLength
      BY <1>3, <1>6
    <3> QED
      BY <1>2, <1>6, <2>4, <3>1 DEF IInv, TypeOK
  <2>6. WithinStream'
    BY <1>6 DEF IInv, WithinStream, Tag
  <2>7. InFlvHeader' /\ InTagData'
    BY <1>2, <1>6, <2>4 DEF InFlvHeader, InTagData
  <2>8. InTagHeader'
    <3>1. Begin' = Begin /\ consumed' = Begin + n
      BY <1>6, <2>1 DEF Begin
    <3> QED
      BY <1>6, <2>3, <2>4, <3>1 DEF InTagHeader
  <2>9. TagsCutRight'
    BY <1>6, <2>4 DEF IInv, TagsCutRight, Tag
  <2>10. BlockedOnlyAfterHeader'
    BY <1>6 DEF BlockedOnlyAfterHeader, Blocked
  <2> QED
    BY <2>5, <2>6, <2>7, <2>8, <2>9, <2>10 DEF IInv
<1> QED
  BY <1>1, <1>5, <1>6 DEF ReadTagHeader, Stage, peerVars

(* The data of a tag: with it the packet is the tag.                       *)
LEMMA DataStep == ASSUME IInv, ReadTagData PROVE IInv'
<1> DEFINE received == camera.tag_data_received_bytes
           size == camera.tag_data_size
           total_bytes == size - received
           tag_data == Filled(camera.tag_data, received, total_bytes)
           k == Len(packets)
<1>0. total_bytes = size - received
  OBVIOUS
<1>1. CASE pc = "data" /\ delete_camera
  BY <1>1, DeleteStep
<1>2. ASSUME pc = "data"
      PROVE  /\ ~camera.receive_first /\ ~camera.not_received_tag_header_done
             /\ consumed = Begin + TAG_HEADER_SIZE + received /\ k < MaxTags
             /\ size = boundary[k + 2] - Begin - TAG_HEADER_SIZE
             /\ IsHeader(camera.tag_header, k + 1)
             /\ \A j \in 0 .. received - 1 :
                  camera.tag_data[j] = Begin + TAG_HEADER_SIZE + j
             /\ camera.tag_header_received_bytes = 0 /\ received < size
  BY <1>2 DEF IInv, InFlvHeader, InTagHeader, InTagData, TypeOK
<1>3. /\ camera \in CameraType /\ boundary \in Boundaries
      /\ received \in Nat /\ size \in Nat /\ size <= MaxData
      /\ consumed \in Nat /\ written \in Nat /\ consumed <= written
      /\ camera.tag_data \in [0 .. Allocated - 1 -> Int]
      /\ written <= MaxLength /\ MaxLength \in Nat
  <2>1. /\ camera \in CameraType /\ boundary \in Boundaries
        /\ written \in 0 .. MaxLength /\ consumed \in 0 .. written
    BY DEF IInv, TypeOK
  <2>2. MaxLength \in Nat
    BY <2>1, Bounds
  <2>3. /\ written \in Nat /\ consumed \in Nat
        /\ consumed <= written /\ written <= MaxLength
    BY <2>1, <2>2
  <2> QED
    BY <2>1, <2>2, <2>3, Fields, BoundsAssumption
<1>4. ASSUME pc = "data"
      PROVE  Allocated = size /\ camera.tag_data \in [0 .. size - 1 -> Int]
  BY <1>2, <1>3, <1>4 DEF Allocated
<1>5. /\ k \in Nat /\ k <= MaxTags
      /\ Begin = boundary[k + 1] /\ Begin \in Nat
  <2>1. k \in Nat /\ k <= MaxTags
    BY DEF IInv, WithinStream
  <2>2. Begin = boundary[k + 1]
    BY DEF Begin
  <2>3. k + 1 \in 1 .. MaxTags + 1
    BY <2>1, BoundsAssumption
  <2>4. boundary[k + 1] \in 0 .. MaxLength
    BY <1>3, <2>3, Bounds
  <2> HIDE DEF k
  <2> QED
    BY <1>3, <2>1, <2>2, <2>4
<1>6. /\ received \in Nat /\ size \in Nat /\ TAG_HEADER_SIZE \in Nat
      /\ consumed \in Nat /\ written \in Nat /\ Begin \in Nat
  BY <1>3, <1>5, SizesAssumption
<1>7. CASE /\ pc = "data" /\ ReadsAll(total_bytes)
           /\ consumed' = consumed + total_bytes /\ pc' = "loop"
           /\ camera' = [camera EXCEPT
                !.tag_data = Buffer(0), !.tag_data_received_bytes = 0,
                !.tag_header = Buffer(TAG_HEADER_SIZE),
                !.not_received_tag_header_done = TRUE]
           /\ packets' = Append(packets, Packet(camera.tag_header, tag_data, size))
           /\ UNCHANGED <<boundary, written, connection>>
  <2>1. /\ total_bytes \in Nat /\ received + total_bytes = size
        /\ consumed' = Begin + TAG_HEADER_SIZE + size /\ consumed' <= written
    <3>1. /\ consumed = Begin + TAG_HEADER_SIZE + received /\ received < size
          /\ written - consumed >= total_bytes /\ consumed' = consumed + total_bytes
      BY <1>2, <1>7 DEF ReadsAll, Available
    <3> HIDE DEF received, total_bytes, size
    <3> QED
      BY <1>0, <1>6, <3>1
  <2>2. /\ tag_data \in [0 .. size - 1 -> Int]
        /\ \A j \in 0 .. size - 1 : tag_data[j] =
             IF received <= j /\ j < received + total_bytes
             THEN consumed + j - received ELSE camera.tag_data[j]
    <3>1. camera.tag_data \in [0 .. size - 1 -> Int]
      BY <1>4, <1>7
    <3> HIDE DEF received, total_bytes, size
    <3>2. /\ size \in Nat /\ received \in Nat /\ total_bytes \in Nat
          /\ consumed \in Nat /\ camera.tag_data \in [0 .. size - 1 -> Int]
      BY <1>6, <2>1, <3>1
    <3> QED
      BY <3>2, FilledBytes
  <2>3. \A j \in 0 .. size - 1 : tag_data[j] = Begin + TAG_HEADER_SIZE + j
    <3>1. /\ consumed = Begin + TAG_HEADER_SIZE + received
          /\ \A j \in 0 .. received - 1 :
               camera.tag_data[j] = Begin + TAG_HEADER_SIZE + j
      BY <1>2, <1>7
    <3> HIDE DEF tag_data, received, total_bytes, size
    <3>2. ASSUME NEW j \in 0 .. size - 1
          PROVE  tag_data[j] = Begin + TAG_HEADER_SIZE + j
      <4>1. CASE received <= j
        <5>1. j < received + total_bytes
          BY <1>6, <2>1
        <5>2. tag_data[j] = consumed + j - received
          BY <2>2, <4>1, <5>1
        <5> QED
          BY <1>6, <3>1, <5>2
      <4>2. CASE ~(received <= j)
        <5>1. tag_data[j] = camera.tag_data[j]
          BY <2>2, <4>2
        <5>2. j \in 0 .. received - 1
          BY <1>6, <4>2
        <5> QED
          BY <3>1, <5>1, <5>2
      <4> QED
        BY <4>1, <4>2
    <3> QED
      BY <3>2
  <2>4. /\ k + 1 \in 1 .. MaxTags /\ k + 1 + 1 = k + 2
        /\ boundary[k + 2] = Begin + TAG_HEADER_SIZE + size
    <3>1. k < MaxTags /\ size = boundary[k + 2] - Begin - TAG_HEADER_SIZE
      BY <1>2, <1>7
    <3>2. k + 1 \in 1 .. MaxTags /\ k + 1 + 1 = k + 2 /\ k + 2 \in 1 .. MaxTags + 1
      BY <1>5, <3>1, BoundsAssumption
    <3>3. boundary[k + 2] \in Nat
      <4>1. boundary[k + 2] \in 0 .. MaxLength
        BY <1>3, <3>2, Bounds
      <4> QED
        BY <1>3, <4>1
    <3> HIDE DEF k, size
    <3> QED
      BY <1>6, <3>1, <3>2, <3>3
  <2>5. Packet(camera.tag_header, tag_data, size) = Tag(k + 1)
    <3>1. \A j \in 0 .. TAG_HEADER_SIZE - 1 : camera.tag_header[j] = Begin + j
      BY <1>2, <1>5, <1>7 DEF IsHeader
    <3>2. boundary[k + 1 + 1] - boundary[k + 1] - 1 = TAG_HEADER_SIZE + size - 1
      <4>1. boundary[k + 1 + 1] = Begin + TAG_HEADER_SIZE + size /\ boundary[k + 1] = Begin
        BY <1>5, <2>4
      <4> HIDE DEF k, size
      <4> QED
        BY <1>6, <4>1
    <3> HIDE DEF k, size, tag_data, received, total_bytes
    <3>3. ASSUME NEW j \in 0 .. TAG_HEADER_SIZE + size - 1
          PROVE  (IF j < TAG_HEADER_SIZE THEN camera.tag_header[j]
                  ELSE tag_data[j - TAG_HEADER_SIZE]) = boundary[k + 1] + j
      <4>1. CASE j < TAG_HEADER_SIZE
        BY <1>5, <1>6, <3>1, <4>1
      <4>2. CASE ~(j < TAG_HEADER_SIZE)
        <5>1. j - TAG_HEADER_SIZE \in 0 .. size - 1
          BY <1>6, <4>2
        <5>2. tag_data[j - TAG_HEADER_SIZE] = Begin + TAG_HEADER_SIZE + (j - TAG_HEADER_SIZE)
          BY <2>3, <5>1
        <5>3. Begin + TAG_HEADER_SIZE + (j - TAG_HEADER_SIZE) = Begin + j
          BY <1>6
        <5> QED
          BY <1>5, <4>2, <5>2, <5>3
      <4> QED
        BY <4>1, <4>2
    <3> QED
      BY <3>2, <3>3 DEF Packet, Tag
  <2>6. /\ packets' \in Seq({Tag(i) : i \in 1 .. MaxTags}) /\ Len(packets') = k + 1
        /\ \A i \in 1 .. k : packets'[i] = packets[i]
        /\ packets'[k + 1] = Tag(k + 1)
    <3>1. packets \in Seq({Tag(i) : i \in 1 .. MaxTags})
      BY DEF IInv, WithinStream
    <3>2. Tag(k + 1) \in {Tag(i) : i \in 1 .. MaxTags}
      BY <2>4
    <3>3. packets' = Append(packets, Tag(k + 1))
      BY <1>7, <2>5
    <3> HIDE DEF size, tag_data, received, total_bytes
    <3> QED
      BY <3>1, <3>2, <3>3
  <2>7. \A i \in 1 .. MaxTags : Tag(i)' = Tag(i)
    BY <1>7 DEF Tag
  <2>8. /\ camera'.receive_first = camera.receive_first
        /\ camera'.not_received_flv_header_done = camera.not_received_flv_header_done
        /\ camera'.not_received_tag_header_done = TRUE
        /\ camera'.flv_header_received_bytes = camera.flv_header_received_bytes
        /\ camera'.tag_header_received_bytes = camera.tag_header_received_bytes
        /\ camera'.tag_data_received_bytes = 0
        /\ camera'.flv_header = camera.flv_header /\ camera' \in CameraType'
    <3>1. /\ Buffer(0) \in [0 .. 0 - 1 -> Int]
          /\ Buffer(TAG_HEADER_SIZE) \in [0 .. TAG_HEADER_SIZE - 1 -> Int]
      BY DEF Buffer, NONE
    <3>2. camera' = [camera EXCEPT
                       !.tag_data = Buffer(0), !.tag_data_received_bytes = 0,
                       !.tag_header = Buffer(TAG_HEADER_SIZE),
                       !.not_received_tag_header_done = TRUE]
      BY <1>7
    <3> QED
      BY <1>3, <3>1, <3>2, DataComplete
  <2> HIDE DEF size, tag_data, received, total_bytes, k
  <2>9. TypeOK'
    <3>1. consumed' \in 0 .. written' /\ written' \in 0 .. MaxLength
      BY <1>3, <1>6, <1>7, <2>1
    <3> QED
      BY <1>7, <2>8, <3>1 DEF IInv, TypeOK
  <2>10. WithinStream'
    <3>1. packets' \in Seq({Tag(i)' : i \in 1 .. MaxTags})
      BY <2>6, <2>7
    <3>2. Len(packets') <= MaxTags
      BY <1>5, <2>4, <2>6, BoundsAssumption
    <3> QED
      BY <1>7, <3>1, <3>2 DEF IInv, WithinStream
  <2>11. InFlvHeader' /\ InTagData'
    BY <1>2, <1>7, <2>8 DEF InFlvHeader, InTagData
  <2>12. InTagHeader'
    <3>1. Begin' = consumed'
      <4>1. Begin' = boundary[k + 1 + 1]
        BY <1>7, <2>6 DEF Begin
      <4> QED
        BY <2>1, <2>4, <4>1
    <3>2. camera'.tag_header_received_bytes = 0
      BY <1>2, <1>7, <2>8
    <3>3. \A j \in 0 .. camera'.tag_header_received_bytes - 1 : FALSE
      BY <3>2
    <3>4. consumed' = Begin' + camera'.tag_header_received_bytes
      BY <1>6, <2>1, <3>1, <3>2
    <3> QED
      BY <1>7, <3>3, <3>4 DEF InTagHeader
  <2>13. TagsCutRight'
    <3>1. ASSUME NEW i \in 1 .. Len(packets') PROVE packets'[i] = Tag(i)'
      <4>1. i \in 1 .. MaxTags /\ (i \in 1 .. k \/ i = k + 1)
        <5>1. Len(packets') = k + 1
          BY <2>6
        <5> QED
          BY <1>5, <2>4, <5>1, BoundsAssumption
      <4>2. Tag(i)' = Tag(i)
        BY <2>7, <4>1
      <4>3. i \in 1 .. k => packets[i] = Tag(i)
        BY DEF IInv, TagsCutRight, k
      <4> QED
        BY <2>6, <4>1, <4>2, <4>3
    <3>2. ~camera'.receive_first =>
            camera'.flv_header = [j \in 0 .. FLV_HEADER_BYTES - 1 |-> j]
      BY <2>8 DEF IInv, TagsCutRight
    <3> QED
      BY <3>1, <3>2 DEF TagsCutRight
  <2>14. BlockedOnlyAfterHeader'
    BY <1>7 DEF BlockedOnlyAfterHeader, Blocked
  <2> QED
    BY <2>9, <2>10, <2>11, <2>12, <2>13, <2>14 DEF IInv
<1>8. CASE /\ pc = "data" /\ ReadsSome(total_bytes)
           /\ consumed' = written /\ pc' = "loop"
           /\ camera' = [camera EXCEPT
                !.tag_data = Filled(camera.tag_data, received, Available),
                !.tag_data_received_bytes = received + Available]
           /\ UNCHANGED <<boundary, written, connection, packets>>
  <2> DEFINE b == Filled(camera.tag_data, received, Available)
             n == received + Available
  <2>1. /\ Available \in Nat /\ Begin + TAG_HEADER_SIZE + n = written
        /\ n \in Nat /\ n < size
    <3>1. /\ consumed = Begin + TAG_HEADER_SIZE + received
          /\ Available = written - consumed
          /\ 0 < Available /\ Available < total_bytes
      BY <1>2, <1>8 DEF ReadsSome, Available
    <3>2. n = received + Available
      OBVIOUS
    <3> HIDE DEF n, received, total_bytes, size
    <3> QED
      BY <1>0, <1>6, <3>1, <3>2
  <2>2. /\ b \in [0 .. size - 1 -> Int]
        /\ \A j \in 0 .. size - 1 : b[j] =
             IF received <= j /\ j < received + Available
             THEN consumed + j - received ELSE camera.tag_data[j]
    <3>1. camera.tag_data \in [0 .. size - 1 -> Int]
      BY <1>4, <1>8
    <3> HIDE DEF received, size
    <3>2. /\ size \in Nat /\ received \in Nat /\ Available \in Nat
          /\ consumed \in Nat /\ camera.tag_data \in [0 .. size - 1 -> Int]
      BY <1>6, <2>1, <3>1
    <3> QED
      BY <3>2, FilledBytes
  <2>3. \A j \in 0 .. n - 1 : b[j] = Begin + TAG_HEADER_SIZE + j
    <3>1. /\ consumed = Begin + TAG_HEADER_SIZE + received
          /\ \A j \in 0 .. received - 1 :
               camera.tag_data[j] = Begin + TAG_HEADER_SIZE + j
      BY <1>2, <1>8
    <3>2. n = received + Available
      OBVIOUS
    <3> HIDE DEF b, n, received, total_bytes, size
    <3>3. ASSUME NEW j \in 0 .. n - 1 PROVE b[j] = Begin + TAG_HEADER_SIZE + j
      <4>1. j \in 0 .. size - 1 /\ j < received + Available
        BY <1>6, <2>1, <3>2
      <4>2. CASE received <= j
        <5>1. b[j] = consumed + j - received
          BY <2>2, <4>1, <4>2
        <5> QED
          BY <1>6, <3>1, <5>1
      <4>3. CASE ~(received <= j)
        <5>1. b[j] = camera.tag_data[j] /\ j \in 0 .. received - 1
          BY <1>6, <2>2, <4>1, <4>3
        <5> QED
          BY <3>1, <5>1
      <4> QED
        BY <4>2, <4>3
    <3> QED
      BY <3>3
  <2>4. /\ camera'.receive_first = camera.receive_first
        /\ camera'.not_received_flv_header_done = camera.not_received_flv_header_done
        /\ camera'.not_received_tag_header_done = camera.not_received_tag_header_done
        /\ camera'.flv_header_received_bytes = camera.flv_header_received_bytes
        /\ camera'.tag_header_received_bytes = camera.tag_header_received_bytes
        /\ camera'.tag_data_received_bytes = n
        /\ camera'.flv_header = camera.flv_header
        /\ camera'.tag_header = camera.tag_header
        /\ camera'.tag_data_size = size
        /\ camera'.tag_data = b /\ camera' \in CameraType'
    <3>1. camera' = [camera EXCEPT !.tag_data = b, !.tag_data_received_bytes = n]
      BY <1>8
    <3>2. n \in 0 .. MaxData
      <4> HIDE DEF n, size
      <4> QED
        BY <1>3, <2>1, BoundsAssumption
    <3>3. b \in [0 .. Allocated - 1 -> Int]
      <4> HIDE DEF b, size
      <4> QED
        BY <1>4, <1>8, <2>2
    <3> HIDE DEF b, n
    <3> QED
      BY <1>3, <3>1, <3>2, <3>3, DataPart
  <2> HIDE DEF b, n, received, total_bytes, tag_data, size, k
  <2>5. TypeOK'
    <3>1. consumed' \in 0 .. written' /\ written' \in 0 .. MaxLength
      BY <1>3, <1>8
    <3> QED
      BY <1>2, <1>8, <2>1, <2>4, <3>1 DEF IInv, TypeOK
  <2>6. WithinStream'
    BY <1>8 DEF IInv, WithinStream, Tag
  <2>7. InFlvHeader' /\ InTagHeader'
    BY <1>2, <1>8, <2>4 DEF InFlvHeader, InTagHeader
  <2>8. InTagData'
    <3>1. Begin' = Begin /\ Len(packets') = Len(packets) /\ boundary' = boundary
      BY <1>8 DEF Begin
    <3>2. consumed' = Begin + TAG_HEADER_SIZE + n
      BY <1>8, <2>1
    <3>3. \A j \in 0 .. TAG_HEADER_SIZE - 1 :
            camera'.tag_header[j] = boundary'[Len(packets') + 1] + j
      BY <1>2, <1>8, <2>4, <3>1 DEF IsHeader, k
    <3>4. IsHeader(camera.tag_header, Len(packets) + 1)'
      BY <3>3 DEF IsHeader
    <3>5. camera'.tag_data_size = boundary'[Len(packets') + 2] - Begin' - TAG_HEADER_SIZE
      BY <1>2, <1>8, <2>4, <3>1 DEF k
    <3>6. Len(packets') < MaxTags /\ ~camera'.receive_first /\ pc' = "loop"
          /\ camera'.tag_header_received_bytes = 0
      BY <1>2, <1>8, <2>4, <3>1 DEF k
    <3> QED
      BY <2>3, <2>4, <3>1, <3>2, <3>4, <3>5, <3>6 DEF InTagData
  <2>9. TagsCutRight'
    BY <1>8, <2>4 DEF IInv, TagsCutRight, Tag
  <2>10. BlockedOnlyAfterHeader'
    BY <1>8 DEF BlockedOnlyAfterHeader, Blocked
  <2> QED
    BY <2>5, <2>6, <2>7, <2>8, <2>9, <2>10 DEF IInv
<1> QED
  BY <1>1, <1>7, <1>8 DEF ReadTagData, Stage, peerVars

-----------------------------------------------------------------------------
(* The initial state.                                                      *)
LEMMA InitInv == Init => IInv
<1> SUFFICES ASSUME Init PROVE IInv
  OBVIOUS
<1>1. /\ \A i \in 1 .. MaxTags + 1 : boundary[i] \in 0 .. MaxLength
      /\ boundary[1] = FLV_HEADER_BYTES /\ MaxLength \in Nat
  BY Bounds DEF Init
<1>2. new_cameras \in [receive_first : {TRUE}, not_received_flv_header_done : {TRUE},
         not_received_tag_header_done : {TRUE}, not_received_tag_data_done : {TRUE},
         flv_header_received_bytes : {0}, tag_header_received_bytes : {0},
         tag_data_received_bytes : {0},
         flv_header : [0 .. FLV_HEADER_BYTES - 1 -> Int],
         tag_header : [0 .. TAG_HEADER_SIZE - 1 -> Int],
         tag_data : [0 .. 0 - 1 -> Int], tag_data_size : {0}]
  BY DEF new_cameras, Buffer, NONE
<1>3. camera \in CameraType
  <2>1. Allocated = 0
    BY DEF Allocated, Init, new_cameras
  <2>2. 0 \in 0 .. FLV_HEADER_BYTES /\ 0 \in 0 .. TAG_HEADER_SIZE - 1 /\ 0 \in 0 .. MaxData
    BY SizesAssumption, BoundsAssumption
  <2> QED
    BY <1>2, <2>1, <2>2 DEF Init, CameraType
<1>4. /\ camera.receive_first /\ camera.not_received_flv_header_done
      /\ camera.not_received_tag_header_done /\ camera.tag_data_received_bytes = 0
      /\ camera.flv_header_received_bytes = 0 /\ camera.tag_header_received_bytes = 0
  BY DEF Init, new_cameras
<1>5. TypeOK
  BY <1>1, <1>3, <1>4, SizesAssumption DEF Init, TypeOK
<1>6. WithinStream
  BY <1>1, BoundsAssumption DEF Init, WithinStream
<1>7. InFlvHeader /\ InTagHeader /\ InTagData
  BY <1>4 DEF Init, InFlvHeader, InTagHeader, InTagData
<1>8. TagsCutRight /\ BlockedOnlyAfterHeader
  BY <1>4 DEF Init, TagsCutRight, BlockedOnlyAfterHeader, Blocked
<1> QED
  BY <1>5, <1>6, <1>7, <1>8 DEF IInv

(* A step that changes nothing.                                            *)
LEMMA Stutter == ASSUME IInv, UNCHANGED vars PROVE IInv'
<1>1. /\ written \in Nat /\ consumed \in Nat /\ consumed <= written
      /\ written <= boundary[MaxTags + 1]
      /\ connection \in {"open", "closed", "reset"}
  BY Bounds DEF IInv, TypeOK, WithinStream
<1>2. BlockedOnlyAfterHeader'
  BY DEF IInv, vars, BlockedOnlyAfterHeader, Blocked, Available
<1>3. /\ UNCHANGED <<boundary, consumed, camera, packets>> /\ pc' = pc
      /\ written' = written /\ connection' = connection
  BY DEF vars
<1> QED
  BY <1>1, <1>2, <1>3, SameBytes

(* Every step keeps the inductive invariant.                               *)
LEMMA IInvStep == IInv /\ [Next]_vars => IInv'
<1> SUFFICES ASSUME IInv, [Next]_vars PROVE IInv'
  OBVIOUS
<1>1. CASE UNCHANGED vars
  BY <1>1, Stutter
<1>2. CASE WorkerStep
  BY <1>2, CallbackStep, FlvStep, HeaderStep, DataStep DEF WorkerStep
<1>3. CASE \E n \in 1 .. MaxLength : Send(n)
  BY <1>3, SendStep
<1>4. CASE Close \/ Reset
  BY <1>4, CloseStep, ResetStep
<1> QED
  BY <1>1, <1>2, <1>3, <1>4 DEF Next

(* The inductive invariant holds in every reachable state.                 *)
LEMMA Invariance == Spec => []IInv
BY InitInv, IInvStep, PTL DEF Spec

(* receive_stream_cb keeps its counters inside their buffers, for every size*)
(* of a header or a tag and every portion that arrives.                    *)
THEOREM TypeCorrect == Spec => []TypeOK
<1>1. IInv => TypeOK
  BY DEF IInv
<1> QED
  BY Invariance, <1>1, PTL

(* receive_stream_cb cuts the camera's stream into its tags: packet i is tag*)
(* i, byte by byte, however read_specify_size got the bytes.               *)
THEOREM CameraIsCutIntoTags == Spec => []TagsCutRight
<1>1. IInv => TagsCutRight
  BY DEF IInv
<1> QED
  BY Invariance, <1>1, PTL

(* read_specify_size spins in receive_stream_cb only when the camera paused*)
(* right after the FLV header or the header of a tag.                      *)
THEOREM SpinsOnlyAfterHeader == Spec => []BlockedOnlyAfterHeader
<1>1. IInv => BlockedOnlyAfterHeader
  BY DEF IInv
<1> QED
  BY Invariance, <1>1, PTL

-----------------------------------------------------------------------------
(* No step of the worker can be taken: the event loop waits for the camera,*)
(* read_specify_size spins, or the camera is deleted.                      *)
AtRest ==
  \/ pc = "loop" /\ Available = 0 /\ connection = "open"
  \/ Blocked
  \/ pc = "gone"

(* When the worker can do nothing more, every tag that has been sent to its*)
(* last byte is a packet, unless the connection was reset: receive_stream_cb*)
(* neither stops before a tag that is there, nor deletes the camera before *)
(* it has read what the camera sent before it hung up.                     *)
RestMeansReceived ==
  AtRest /\ connection # "reset" =>
    \A i \in 1 .. MaxTags : written >= boundary[i + 1] => Len(packets) >= i

(* A camera is deleted only after a hang-up, with less than a tag unread.  *)
GoneIsRead ==
  pc = "gone" =>
    /\ connection # "open"
    /\ connection = "closed" /\ Len(packets) < MaxTags =>
         written < boundary[Len(packets) + 2]

(* The tags follow each other in the stream.                               *)
LEMMA Ascending ==
  ASSUME boundary \in Boundaries, NEW i \in 1 .. MaxTags + 1, NEW k \in i .. MaxTags + 1
  PROVE  boundary[i] <= boundary[k]
<1> SUFFICES ASSUME boundary[k] < boundary[i] PROVE FALSE
  <2>1. i \in 1 .. MaxTags + 1 /\ k \in 1 .. MaxTags + 1
    BY BoundsAssumption
  <2>2. boundary[i] \in Int /\ boundary[k] \in Int
    BY <2>1, Bounds
  <2> QED
    BY <2>2
<1> DEFINE R == OpToRel(<, Nat)
           S == {m \in Nat : m \in i .. MaxTags + 1 /\ boundary[m] < boundary[i]}
<1>1. k \in S
  BY BoundsAssumption
<1>2. PICK m \in S : \A y \in S : <<y, m>> \notin R
  <2>1. IsWellFoundedOn(R, Nat)
    BY NatLessThanWellFounded
  <2>2. S \subseteq Nat /\ S # {}
    BY <1>1
  <2> HIDE DEF R, S
  <2> QED
    BY <2>1, <2>2, WFMin
<1>3. \A y \in S : ~(y < m)
  BY <1>2 DEF OpToRel
<1>4. m \in i .. MaxTags + 1 /\ boundary[m] < boundary[i] /\ MaxTags \in Nat
  BY <1>2, BoundsAssumption
<1>5. boundary[i] \in Int /\ boundary[m] \in Int
  BY <1>4, Bounds
<1>6. m # i
  BY <1>4, <1>5
<1>7. m - 1 \in i .. MaxTags /\ m - 1 \in 1 .. MaxTags /\ m - 1 \in Nat /\ m - 1 < m
  BY <1>4, <1>6
<1>8. boundary[m - 1] \in Int /\ boundary[m] - boundary[m - 1] - TAG_HEADER_SIZE > 0
  <2>1. \A a \in 1 .. MaxTags : boundary[a] \in Int
                             /\ boundary[a + 1] - boundary[a] - TAG_HEADER_SIZE > 0
    BY Bounds, <1>4
  <2>2. (m - 1) + 1 = m
    BY <1>4
  <2> QED
    BY <2>1, <2>2, <1>7
<1>9. boundary[m - 1] < boundary[i]
  BY <1>4, <1>5, <1>8, SizesAssumption
<1>10. m - 1 \in S
  <2>1. m - 1 \in i .. MaxTags + 1
    BY <1>4, <1>6
  <2> QED
    BY <1>7, <1>9, <2>1
<1> QED
  BY <1>3, <1>7, <1>10

(* A tag whose end is not sent is later than every packet's.               *)
LEMMA NotYetSent ==
  ASSUME IInv, Len(packets) < MaxTags => written < boundary[Len(packets) + 2]
  PROVE  \A i \in 1 .. MaxTags : written >= boundary[i + 1] => Len(packets) >= i
<1> SUFFICES ASSUME NEW i \in 1 .. MaxTags, written >= boundary[i + 1], Len(packets) < i
             PROVE  FALSE
  BY BoundsAssumption DEF IInv, WithinStream
<1>1. Len(packets) \in Nat /\ MaxTags \in Nat /\ boundary \in Boundaries
  BY BoundsAssumption DEF IInv, WithinStream, TypeOK
<1>2. /\ Len(packets) + 2 \in 1 .. MaxTags + 1
      /\ i + 1 \in Len(packets) + 2 .. MaxTags + 1 /\ i + 1 \in 1 .. MaxTags + 1
  BY <1>1
<1>3. boundary[Len(packets) + 2] <= boundary[i + 1]
  BY <1>1, <1>2, Ascending
<1>4. boundary[Len(packets) + 2] \in Int /\ boundary[i + 1] \in Int /\ written \in Int
  BY <1>1, <1>2, Bounds DEF IInv, TypeOK
<1> QED
  BY <1>1, <1>3, <1>4

(* The numbers of the tag that is being read.                              *)
LEMMA ThisTag ==
  ASSUME IInv, Len(packets) < MaxTags
  PROVE  /\ Begin \in Nat /\ boundary[Len(packets) + 2] \in Nat
         /\ Begin + TAG_HEADER_SIZE < boundary[Len(packets) + 2]
         /\ Len(packets) \in Nat /\ TAG_HEADER_SIZE \in Nat
         /\ packets = << >> => Begin = FLV_HEADER_BYTES
<1>1. Len(packets) \in Nat /\ MaxTags \in Nat /\ boundary \in Boundaries
  BY BoundsAssumption DEF IInv, WithinStream, TypeOK
<1>2. Len(packets) + 1 \in 1 .. MaxTags /\ Len(packets) + 2 \in 1 .. MaxTags + 1
      /\ Len(packets) + 1 \in 1 .. MaxTags + 1 /\ (Len(packets) + 1) + 1 = Len(packets) + 2
  BY <1>1
<1>3. /\ boundary[Len(packets) + 1] \in Nat /\ boundary[Len(packets) + 2] \in Nat
      /\ boundary[Len(packets) + 2] - boundary[Len(packets) + 1] - TAG_HEADER_SIZE > 0
  <2>1. \A a \in 1 .. MaxTags :
          boundary[a + 1] - boundary[a] - TAG_HEADER_SIZE \in 1 .. MaxData
    BY <1>1, Bounds
  <2> QED
    BY <1>1, <1>2, <2>1, Bounds, BoundsAssumption
<1>4. boundary[1] = FLV_HEADER_BYTES /\ TAG_HEADER_SIZE \in Nat
  BY <1>1, Bounds, SizesAssumption
<1>5. packets = << >> => boundary[Len(packets) + 1] = FLV_HEADER_BYTES
  BY <1>4
<1>6. boundary[Len(packets) + 1] + TAG_HEADER_SIZE < boundary[Len(packets) + 2]
  BY <1>3, <1>4
<1> QED
  BY <1>1, <1>3, <1>4, <1>5, <1>6 DEF Begin

(* All that was read is less than the end of the tag that is being read.   *)
LEMMA ReadIsLess ==
  ASSUME IInv, Len(packets) < MaxTags
  PROVE  consumed < boundary[Len(packets) + 2]
<1>1. /\ camera.receive_first \in BOOLEAN /\ camera.not_received_tag_header_done \in BOOLEAN
      /\ camera.flv_header_received_bytes \in 0 .. FLV_HEADER_BYTES
      /\ camera.tag_header_received_bytes \in 0 .. TAG_HEADER_SIZE - 1
      /\ camera.tag_data_received_bytes \in 0 .. MaxData
      /\ camera.tag_data_size \in 0 .. MaxData
  BY Fields DEF IInv, TypeOK
<1>2. CASE camera.receive_first
  <2>1. consumed = camera.flv_header_received_bytes /\ packets = << >>
    BY <1>2 DEF IInv, InFlvHeader
  <2> QED
    BY <1>1, <2>1, ThisTag, SizesAssumption
<1>3. CASE ~camera.receive_first /\ camera.not_received_tag_header_done
  <2>1. consumed = Begin + camera.tag_header_received_bytes
    BY <1>3 DEF IInv, InTagHeader
  <2> QED
    BY <1>1, <2>1, ThisTag, SizesAssumption
<1>4. CASE ~camera.not_received_tag_header_done
  <2>1. /\ consumed = Begin + TAG_HEADER_SIZE + camera.tag_data_received_bytes
        /\ camera.tag_data_received_bytes < camera.tag_data_size
        /\ camera.tag_data_size = boundary[Len(packets) + 2] - Begin - TAG_HEADER_SIZE
    BY <1>4 DEF IInv, InTagData, TypeOK
  <2>2. Begin \in Nat /\ boundary[Len(packets) + 2] \in Nat /\ TAG_HEADER_SIZE \in Nat
    BY ThisTag
  <2>3. camera.tag_data_received_bytes \in Nat
    BY <1>1, BoundsAssumption
  <2> QED
    BY <2>1, <2>2, <2>3
<1> QED
  BY <1>1, <1>2, <1>3, <1>4

(* A read fails only when the camera hung up and the rest of the tag is not *)
(* there, and what the stage still wants is within that tag.               *)
LEMMA FailedRead ==
  ASSUME IInv, NEW total_bytes \in Int, ReadsNothing(total_bytes), delete_camera,
         Len(packets) < MaxTags => consumed + total_bytes <= boundary[Len(packets) + 2]
  PROVE  GoneIsRead'
<1>1. /\ written \in Int /\ consumed \in Int
      /\ Len(packets) < MaxTags => boundary[Len(packets) + 2] \in Int
  BY ThisTag, Bounds DEF IInv, TypeOK
<1>2. connection # "open" /\ written < consumed + total_bytes
  BY <1>1 DEF ReadsNothing, Available
<1>3. Len(packets) < MaxTags => written < boundary[Len(packets) + 2]
  BY <1>1, <1>2
<1>4. UNCHANGED <<boundary, written, connection, packets>>
  BY DEF delete_camera, peerVars
<1> QED
  BY <1>2, <1>3, <1>4 DEF GoneIsRead

(* The worker deletes a camera in a stage, and only if its read failed.    *)
LEMMA DeletedIsRead ==
  ASSUME IInv, WorkerStep
  PROVE  pc # "gone" /\ GoneIsRead'
<1>1. /\ camera.receive_first \in BOOLEAN /\ camera.not_received_tag_header_done \in BOOLEAN
      /\ camera.flv_header_received_bytes \in 0 .. FLV_HEADER_BYTES
      /\ camera.tag_header_received_bytes \in 0 .. TAG_HEADER_SIZE - 1
      /\ camera.tag_data_received_bytes \in 0 .. MaxData
      /\ camera.tag_data_size \in 0 .. MaxData /\ consumed \in Int
  BY Fields, Bounds DEF IInv, TypeOK
<1>2. CASE receive_stream_cb
  BY <1>2 DEF receive_stream_cb, GoneIsRead
<1>3. CASE ReadFlvHeader
  <2> DEFINE total_bytes == FLV_HEADER_BYTES - camera.flv_header_received_bytes
  <2>1. pc = "flv" /\ (pc' # "gone" \/ (ReadsNothing(total_bytes) /\ delete_camera))
    BY <1>3 DEF ReadFlvHeader, Stage
  <2>2. camera.receive_first
    BY <2>1, <1>1 DEF IInv, InTagHeader, InTagData
  <2>3. consumed = camera.flv_header_received_bytes /\ packets = << >>
    BY <2>2 DEF IInv, InFlvHeader
  <2>4. total_bytes \in Int /\ consumed + total_bytes = FLV_HEADER_BYTES
    BY <1>1, <2>3, SizesAssumption
  <2>5. Len(packets) < MaxTags => consumed + total_bytes <= boundary[Len(packets) + 2]
    BY <2>3, <2>4, ThisTag, SizesAssumption
  <2> HIDE DEF total_bytes
  <2> QED
    BY <2>1, <2>4, <2>5, FailedRead DEF GoneIsRead
<1>4. CASE ReadTagHeader
  <2> DEFINE total_bytes == TAG_HEADER_SIZE - camera.tag_header_received_bytes
  <2>1. pc = "header" /\ (pc' # "gone" \/ (ReadsNothing(total_bytes) /\ delete_camera))
    BY <1>4 DEF ReadTagHeader, Stage
  <2>2. ~camera.receive_first /\ camera.not_received_tag_header_done
    BY <2>1, <1>1 DEF IInv, InFlvHeader, InTagData
  <2>3. consumed = Begin + camera.tag_header_received_bytes
    BY <2>2 DEF IInv, InTagHeader
  <2>4. total_bytes \in Int
    BY <1>1, SizesAssumption
  <2>5. Len(packets) < MaxTags => consumed + total_bytes <= boundary[Len(packets) + 2]
    <3> SUFFICES ASSUME Len(packets) < MaxTags
                 PROVE  consumed + total_bytes <= boundary[Len(packets) + 2]
      OBVIOUS
    <3>1. /\ Begin \in Nat /\ boundary[Len(packets) + 2] \in Nat /\ TAG_HEADER_SIZE \in Nat
          /\ Begin + TAG_HEADER_SIZE < boundary[Len(packets) + 2]
      BY ThisTag
    <3>2. camera.tag_header_received_bytes \in Int
      BY <1>1, <3>1
    <3> QED
      BY <2>3, <3>1, <3>2
  <2> HIDE DEF total_bytes
  <2> QED
    BY <2>1, <2>4, <2>5, FailedRead DEF GoneIsRead
<1>5. CASE ReadTagData
  <2> DEFINE total_bytes == camera.tag_data_size - camera.tag_data_received_bytes
  <2>1. pc = "data" /\ (pc' # "gone" \/ (ReadsNothing(total_bytes) /\ delete_camera))
    BY <1>5 DEF ReadTagData, Stage
  <2>2. ~camera.not_received_tag_header_done
    BY <2>1, <1>1 DEF IInv, InFlvHeader, InTagHeader
  <2>3. /\ consumed = Begin + TAG_HEADER_SIZE + camera.tag_data_received_bytes
        /\ camera.tag_data_size = boundary[Len(packets) + 2] - Begin - TAG_HEADER_SIZE
        /\ Len(packets) < MaxTags
    BY <2>2 DEF IInv, InTagData
  <2>4. total_bytes \in Int
    BY <1>1, BoundsAssumption
  <2>5. Len(packets) < MaxTags => consumed + total_bytes <= boundary[Len(packets) + 2]
    <3>1. /\ Begin \in Nat /\ boundary[Len(packets) + 2] \in Nat /\ TAG_HEADER_SIZE \in Nat
          /\ camera.tag_data_received_bytes \in Nat
      BY <1>1, <2>3, ThisTag, BoundsAssumption
    <3>2. consumed + total_bytes = boundary[Len(packets) + 2]
      BY <2>3, <3>1
    <3> QED
      BY <3>1, <3>2
  <2> HIDE DEF total_bytes
  <2> QED
    BY <2>1, <2>4, <2>5, FailedRead DEF GoneIsRead
<1> QED
  BY <1>2, <1>3, <1>4, <1>5 DEF WorkerStep

LEMMA GoneStep == IInv /\ GoneIsRead /\ [Next]_vars => GoneIsRead'
<1> SUFFICES ASSUME IInv, GoneIsRead, [Next]_vars PROVE GoneIsRead'
  OBVIOUS
<1>1. CASE WorkerStep
  BY <1>1, DeletedIsRead
<1>2. CASE (\E n \in 1 .. MaxLength : Send(n)) \/ Close \/ Reset
  BY <1>2 DEF GoneIsRead, Send, Close, Reset
<1>3. CASE UNCHANGED vars
  BY <1>3 DEF GoneIsRead, vars
<1> QED
  BY <1>1, <1>2, <1>3 DEF Next

(* What receive_stream_cb promises of a camera that it serves or has given *)
(* up: every tag sent to its last byte is a packet when the worker rests.  *)
(* This is the safety half of WholeTagsReceived, for every length of the   *)
(* stream, the tags and the portions.                                      *)
THEOREM NoTagLeftBehind == Spec => []RestMeansReceived
<1>1. Init => GoneIsRead
  BY DEF Init, GoneIsRead
<1>2. IInv /\ GoneIsRead => RestMeansReceived
  <2> SUFFICES ASSUME IInv, GoneIsRead, AtRest, connection # "reset"
               PROVE  Len(packets) < MaxTags => written < boundary[Len(packets) + 2]
    BY NotYetSent DEF RestMeansReceived
  <2>1. CASE pc = "gone"
    BY <2>1 DEF GoneIsRead, IInv, TypeOK
  <2>2. CASE pc # "gone"
    <3>1. written - consumed = 0 /\ written \in Int /\ consumed \in Int
      BY <2>2, Bounds DEF AtRest, Blocked, Available, IInv, TypeOK
    <3> QED
      BY <3>1, ReadIsLess
  <2> QED
    BY <2>1, <2>2
<1> QED
  BY <1>1, <1>2, Invariance, GoneStep, PTL DEF Spec
=============================================================================
