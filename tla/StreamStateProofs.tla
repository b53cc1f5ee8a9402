------------------------- MODULE StreamStateProofs -------------------------
(***************************************************************************)
(* Proofs about StreamState, for any peers, timestamps and bounds.         *)
(***************************************************************************)
EXTENDS StreamState, TLAPS

(* server_init leaves a stream of the right type.                          *)
LEMMA EmptyStreamType == EmptyStream \in StreamType
BY DEF EmptyStream, StreamType, NoSession, NoFloor, NoAnchor, Realtime, Buffered

(* The inductive invariant: BoundaryOfSession is inductive once the fields *)
(* of the stream are known to have their types.                            *)
StreamInv == stream \in StreamType /\ BoundaryOfSession

(* The record sets StreamType is made of, named so that the provers can    *)
(* work with the fields as wholes.                                         *)
SessionType == [type : {0, Realtime, Buffered}, of : Nat]
FloorType == [stamp : Nat, exclusive : BOOLEAN, of : Nat]
AnchorType == [playing : BOOLEAN, of : Nat]

(* The fields the updates compute with.                                    *)
LEMMA FieldTypes ==
    ASSUME stream \in StreamType
    PROVE  /\ stream.session.of \in Nat
           /\ stream.generation \in Nat
           /\ stream.flush_generation \in Nat
           /\ stream.anchor \in AnchorType
BY DEF StreamType, AnchorType

(* The cleared boundary, anchor and session.                               *)
LEMMA NothingTypes ==
    NoFloor \in FloorType /\ NoAnchor \in AnchorType /\ NoSession \in SessionType
BY DEF NoFloor, NoAnchor, NoSession, FloorType, AnchorType, SessionType

(* ANNOUNCE keeps the type of the stream.                                  *)
LEMMA AnnouncedType ==
    ASSUME stream \in StreamType
    PROVE  Announced \in StreamType
<1>1. [type |-> 0, of |-> stream.generation + 1] \in SessionType
  BY FieldTypes DEF SessionType
<1>2. stream.generation + 1 \in Nat
  BY FieldTypes
<1> QED BY <1>1, <1>2, NothingTypes, Zenon DEF Announced, StreamType, SessionType, FloorType

(* The AirPlay 2 stream SETUP keeps the type.                              *)
LEMMA SetUp2Type ==
    ASSUME stream \in StreamType, NEW ip \in Peers, NEW type \in {Realtime, Buffered}
    PROVE  SetUp2(ip, type) \in StreamType
<1>1. [type |-> type, of |-> stream.generation + 1] \in SessionType
  BY FieldTypes DEF SessionType
<1>2. stream.generation + 1 \in Nat /\ 0 \in Nat
  BY FieldTypes
<1> QED BY <1>1, <1>2, NothingTypes, ZenonT(30)
        DEF SetUp2, StreamType, SessionType, FloorType, AnchorType

(* SETUP keeps the type.                                                   *)
LEMMA TransportedType ==
    ASSUME stream \in StreamType, NEW ip \in Peers
    PROVE  Transported(ip) \in StreamType
<1>1. stream.generation + 1 \in Nat
  BY FieldTypes
<1> QED BY <1>1, Zenon DEF Transported, StreamType

(* FLUSH keeps the type.                                                   *)
LEMMA FlushedType ==
    ASSUME stream \in StreamType, NEW has \in BOOLEAN, NEW stamp \in Stamps
    PROVE  Flushed(has, stamp) \in StreamType
<1>1. stream.flush_generation + 1 \in Nat
  BY FieldTypes
<1>2. (IF has THEN [stamp |-> stamp, exclusive |-> TRUE, of |-> stream.session.of]
              ELSE NoFloor) \in FloorType
  BY FieldTypes, NothingTypes, StampsAssumption DEF FloorType
<1> QED BY <1>1, <1>2, Zenon DEF Flushed, StreamType, FloorType

(* RECORD keeps the type, with any rtptime.                                *)
LEMMA RecordedType ==
    ASSUME stream \in StreamType, NEW has \in BOOLEAN, NEW stamp \in Nat
    PROVE  Recorded(has, stamp) \in StreamType
<1>1. [stamp |-> stamp, exclusive |-> FALSE, of |-> stream.session.of] \in FloorType
  BY FieldTypes DEF FloorType
<1>2. CASE has
  BY <1>1, <1>2, Zenon DEF Recorded, StreamType, FloorType
<1>3. CASE ~has
  BY <1>3, Zenon DEF Recorded, StreamType
<1> QED BY <1>2, <1>3

(* PAUSE keeps the type.                                                   *)
LEMMA PausedType ==
    ASSUME stream \in StreamType
    PROVE  Paused \in StreamType
BY Zenon DEF Paused, StreamType

(* TEARDOWN and a lost owner keep the type.                                *)
LEMMA EndedType ==
    ASSUME stream \in StreamType
    PROVE  Ended \in StreamType
<1>1. stream.generation + 1 \in Nat
  BY FieldTypes
<1> QED BY <1>1, NothingTypes, Zenon DEF Ended, StreamType, SessionType

(* SETRATEANCHORTIME keeps the type.                                       *)
LEMMA AnchoredType ==
    ASSUME stream \in StreamType, NEW rate \in {0, 1}
    PROVE  Anchored(rate) \in StreamType
<1>1. /\ [playing |-> TRUE, of |-> stream.session.of] \in AnchorType
      /\ [stream.anchor EXCEPT !.playing = FALSE] \in AnchorType
  BY FieldTypes DEF AnchorType
<1>2. CASE rate = 1
  BY <1>1, <1>2, Zenon DEF Anchored, StreamType, AnchorType
<1>3. CASE rate # 1
  BY <1>1, <1>3, Zenon DEF Anchored, StreamType, AnchorType
<1> QED BY <1>2, <1>3

(* SET_PARAMETER keeps the type.                                           *)
LEMMA LoudType ==
    ASSUME stream \in StreamType, NEW volume \in Volumes
    PROVE  Loud(volume) \in StreamType
BY Zenon DEF Loud, StreamType

(* FLUSHBUFFERED keeps the type.                                           *)
LEMMA FlushedBufferedType ==
    ASSUME stream \in StreamType
    PROVE  FlushedBuffered \in StreamType
<1>1. stream.flush_generation + 1 \in Nat /\ stream.session.of \in Nat
  BY FieldTypes
<1>2. [stream.anchor EXCEPT !.playing = FALSE] \in AnchorType
  BY FieldTypes DEF AnchorType
<1> QED BY <1>1, <1>2, NothingTypes, ZenonT(30)
        DEF FlushedBuffered, StreamType, FloorType, AnchorType

(* Every step of the stream keeps its type.                                *)
LEMMA StepType ==
    ASSUME stream \in StreamType, StreamNext
    PROVE  stream' \in StreamType
<1>1. CASE NewSession
  BY <1>1, AnnouncedType, SetUp2Type DEF NewSession
<1>2. CASE Transport
  BY <1>2, TransportedType DEF Transport
<1>3. CASE Flush
  BY <1>3, FlushedType, FlushedBufferedType DEF Flush
<1>4. CASE Record
  BY <1>4, RecordedType, StampsAssumption DEF Record
<1>5. CASE Pause
  BY <1>5, PausedType DEF Pause
<1>6. CASE End
  BY <1>6, EndedType DEF End
<1>7. CASE Anchor
  BY <1>7, AnchoredType DEF Anchor
<1>8. CASE Volume
  BY <1>8, LoudType DEF Volume
<1> QED BY <1>1, <1>2, <1>3, <1>4, <1>5, <1>6, <1>7, <1>8 DEF StreamNext

(* Every step leaves only boundaries of the session there is then.         *)
LEMMA StepBoundary ==
    ASSUME StreamInv, StreamNext
    PROVE  BoundaryOfSession'
<1> USE DEF StreamInv, StreamType, BoundaryOfSession, Realtime, Buffered
<1>1. CASE NewSession
  <2>1. CASE stream' = Announced
    BY <2>1 DEF Announced, NoFloor
  <2>2. ASSUME NEW ip \in Peers, NEW type \in {Realtime, Buffered},
               stream' = SetUp2(ip, type)
        PROVE  BoundaryOfSession'
    <3>1. stream'.floor.of = 0 /\ stream'.buffered_flush_of = 0 /\ stream'.anchor.of = 0
      BY <2>2 DEF SetUp2, NoFloor, NoAnchor
    <3> QED BY <3>1
  <2> QED BY <1>1, <2>1, <2>2 DEF NewSession
<1>2. CASE Transport
  BY <1>2 DEF Transport, Transported
<1>3. CASE Flush
  <2>1. ASSUME NEW has \in BOOLEAN, NEW t \in Stamps, stream' = Flushed(has, t)
        PROVE  BoundaryOfSession'
    BY <2>1 DEF Flushed, NoFloor
  <2>2. CASE stream' = FlushedBuffered
    BY <2>2 DEF FlushedBuffered, NoFloor
  <2> QED BY <1>3, <2>1, <2>2 DEF Flush
<1>4. CASE Record
  BY <1>4 DEF Record, Recorded
<1>5. CASE Pause
  BY <1>5 DEF Pause, Paused
<1>6. CASE End
  BY <1>6 DEF End, Ended, NoSession
<1>7. CASE Anchor
  BY <1>7 DEF Anchor, Anchored
<1>8. CASE Volume
  BY <1>8 DEF Volume, Loud
<1> QED BY <1>1, <1>2, <1>3, <1>4, <1>5, <1>6, <1>7, <1>8 DEF StreamNext

(* The stream keeps its type and its boundaries.                           *)
LEMMA StreamInvariance == StreamSpec => []StreamInv
<1>1. StreamInit => StreamInv
  BY EmptyStreamType
     DEF StreamInit, StreamInv, BoundaryOfSession, EmptyStream, NoFloor, NoAnchor, NoSession
<1>2. StreamInv /\ [StreamNext]_stream => StreamInv'
  BY StepType, StepBoundary DEF StreamInv, BoundaryOfSession
<1> QED BY <1>1, <1>2, PTL DEF StreamSpec

(* A boundary or an anchor that the audio thread would install belongs to  *)
(* the session it would install it for, whatever the handlers of           *)
(* airplay_rtsp.c and airplay2.c did before.                               *)
THEOREM BoundariesCurrent == StreamSpec => []BoundaryOfSession
BY StreamInvariance, PTL DEF StreamInv

(* A step of the stream moves the generation on, or keeps it together with *)
(* the session and the timing peer.                                        *)
LEMMA GenerationMoves ==
    ASSUME stream \in StreamType, StreamNext
    PROVE  \/ stream'.generation > stream.generation
           \/ stream'.generation = stream.generation /\ Announcement' = Announcement
<1> USE DEF StreamType
<1>1. CASE NewSession
  <2>1. ASSUME stream' = Announced
        PROVE  stream'.generation > stream.generation
    BY <2>1 DEF Announced
  <2>2. ASSUME NEW ip \in Peers, NEW type \in {Realtime, Buffered},
               stream' = SetUp2(ip, type)
        PROVE  stream'.generation > stream.generation
    BY <2>2 DEF SetUp2
  <2> QED BY <1>1, <2>1, <2>2 DEF NewSession
<1>2. CASE Transport
  <2>1. stream'.generation > stream.generation
    BY <1>2 DEF Transport, Transported
  <2> QED BY <2>1
<1>3. CASE Flush
  BY <1>3 DEF Flush, Flushed, FlushedBuffered, Announcement
<1>4. CASE Record
  BY <1>4 DEF Record, Recorded, Announcement
<1>5. CASE Pause
  BY <1>5 DEF Pause, Paused, Announcement
<1>6. CASE End
  <2>1. stream'.generation > stream.generation
    BY <1>6 DEF End, Ended
  <2> QED BY <2>1
<1>7. CASE Anchor
  BY <1>7 DEF Anchor, Anchored, Announcement
<1>8. CASE Volume
  BY <1>8 DEF Volume, Loud, Announcement
<1> QED BY <1>1, <1>2, <1>3, <1>4, <1>5, <1>6, <1>7, <1>8 DEF StreamNext

(* Every update that replaces the session or the timing peer moves the     *)
(* generation, by which airplay_audio_main notices it.                     *)
THEOREM ChangesNoticed == StreamSpec => GenerationCovers
<1>1. StreamInv /\ [StreamNext]_stream =>
        [Announcement' # Announcement => stream'.generation > stream.generation]_stream
  BY GenerationMoves DEF StreamInv
<1> QED BY <1>1, StreamInvariance, PTL DEF StreamSpec, GenerationCovers
=============================================================================
