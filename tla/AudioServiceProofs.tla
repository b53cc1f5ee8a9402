------------------------- MODULE AudioServiceProofs ------------------------
(***************************************************************************)
(* Proofs about AudioService, for any senders, timestamps and bounds.      *)
(***************************************************************************)
EXTENDS AudioService, StreamStateProofs

(* The state of the audio thread and of its pipeline.                      *)
LoopType == [generation : Nat, flush_generation : Nat, transport_generation : Nat]

PipelineType ==
    [state : {"STOPPED", "READY", "PLAYING"}, configured : BOOLEAN,
     session : SessionType, queue : SUBSET Packet, floor : FloorType,
     discard_of : Nat, peer : Peers \cup {None}, anchor : AnchorType,
     volume : Volumes \cup {0}]

AudioType ==
    /\ stream \in StreamType
    /\ stopping \in BOOLEAN
    /\ result \in {0, -1}
    /\ pc \in {"check", "read", "apply", "poll", "leave", "exited"}
    /\ snap \in StreamType
    /\ loop \in LoopType
    /\ device \in BOOLEAN
    /\ pipeline \in PipelineType

(* BoundaryOfSession, of any stream: the copy has it too.                  *)
Boundaries(s) ==
    s.has_session =>
        /\ s.floor.of \in {0, s.session.of}
        /\ s.session.type = Buffered => s.buffered_flush_of \in {0, s.session.of}
        /\ s.session.type # 0 => s.anchor.of \in {0, s.session.of}

(* What the audio thread remembers of stream s, if the generations tell it *)
(* that s is the one it has applied.                                       *)
Remembered(s) ==
    /\ loop.generation <= s.generation
    /\ loop.transport_generation <= s.generation
    /\ device /\ loop.generation = s.generation => pipeline.session = s.session
    /\ loop.transport_generation = s.generation /\ s.has_session /\ s.session.type = Buffered
          => pipeline.discard_of \in {0, s.session.of}

(* The copy is a stream there was: if no generation has passed since, it   *)
(* still shows the session there is.                                       *)
CopyInv ==
    /\ Boundaries(stream)
    /\ Boundaries(snap)
    /\ pc = "apply" =>
        /\ snap.generation <= stream.generation
        /\ snap.generation = stream.generation =>
              snap.session = stream.session /\ snap.has_session = stream.has_session

(* The stream, and the copy that is about to be applied.                   *)
RememberedInv ==
    /\ Remembered(stream)
    /\ pc = "apply" => Remembered(snap)

(* While the pipeline plays, all it works with is of one session.          *)
PlayingInv ==
    device =>
        /\ loop.generation = loop.transport_generation
        /\ pipeline.session.type # 0 => pipeline.anchor.of \in {0, pipeline.session.of}
        /\ pipeline.floor.of \in {0, pipeline.session.of}
        /\ pipeline.session.type = Buffered
              => pipeline.discard_of \in {0, pipeline.session.of}

(* Every packet that waits was accepted for what is in force.              *)
QueueInv ==
    \A q \in pipeline.queue :
        /\ q.generation = loop.generation
        /\ q.flush_generation = loop.flush_generation
        /\ pipeline.peer \in {None, q.ip}

(* The inductive invariant of the audio thread and the control side.       *)
AudioInv ==
    AudioType /\ CopyInv /\ RememberedInv /\ PlayingInv /\ QueueInv /\ DeviceWhilePlaying

----------------------------------------------------------------------------
(* What the updates of the pipeline do to its fields.                      *)

(* audio_pipeline_stop.                                                    *)
LEMMA StoppedFields ==
    ASSUME NEW p \in PipelineType
    PROVE  /\ Stopped(p) \in PipelineType
           /\ Stopped(p).state = "STOPPED"
           /\ Stopped(p).queue = {}
           /\ Stopped(p).discard_of = p.discard_of
           /\ Stopped(p).peer = p.peer
<1>1. {} \in SUBSET Packet
  OBVIOUS
<1> HIDE DEF Packet
<1>2. Stopped(p) \in PipelineType
  BY <1>1, NothingTypes, Zenon DEF Stopped, PipelineType
<1> QED BY <1>2 DEF Stopped, PipelineType

(* The transport is replaced only when the generation of the copy differs  *)
(* from the one it was made for.                                           *)
LEMMA TransportFields ==
    ASSUME NEW p \in PipelineType, snap \in StreamType
    PROVE  /\ WithTransport(p) \in PipelineType
           /\ WithTransport(p).state = p.state
           /\ WithTransport(p).configured = p.configured
           /\ WithTransport(p).session = p.session
           /\ WithTransport(p).queue = p.queue
           /\ WithTransport(p).floor = p.floor
           /\ WithTransport(p).anchor = p.anchor
           /\ loop.transport_generation = snap.generation => WithTransport(p) = p
           /\ loop.transport_generation # snap.generation
                 => WithTransport(p).discard_of = 0
<1>1. (IF snap.has_session THEN snap.timing_peer ELSE None) \in Peers \cup {None}
  BY DEF StreamType
<1>2. 0 \in Nat
  OBVIOUS
<1>3. WithTransport(p) \in PipelineType
  BY <1>1, <1>2, Zenon DEF WithTransport, PipelineType
<1> QED BY <1>3 DEF WithTransport, PipelineType

(* The anchor of the copy is installed unless the stream is realtime.      *)
LEMMA AnchorFields ==
    ASSUME NEW p \in PipelineType, snap \in StreamType
    PROVE  /\ WithAnchor(p) \in PipelineType
           /\ WithAnchor(p).state = p.state
           /\ WithAnchor(p).configured = p.configured
           /\ WithAnchor(p).session = p.session
           /\ WithAnchor(p).queue = p.queue
           /\ WithAnchor(p).floor = p.floor
           /\ WithAnchor(p).discard_of = p.discard_of
           /\ WithAnchor(p).peer = p.peer
           /\ WithAnchor(p).anchor = IF snap.session.type = Realtime THEN p.anchor
                                                                    ELSE snap.anchor
<1>1. snap.anchor \in AnchorType
  BY DEF StreamType, AnchorType
<1>2. WithAnchor(p) \in PipelineType
  BY <1>1, Zenon DEF WithAnchor, PipelineType
<1> QED BY <1>2 DEF WithAnchor, PipelineType

(* A session that is configured and started.                               *)
LEMMA ConfiguredFields ==
    ASSUME NEW p \in PipelineType, snap \in StreamType
    PROVE  /\ Configured(p) \in PipelineType
           /\ Configured(p).state = "PLAYING"
           /\ Configured(p).configured
           /\ Configured(p).session = snap.session
           /\ Configured(p).queue = {}
           /\ Configured(p).floor = snap.floor
           /\ Configured(p).anchor = NoAnchor
           /\ Configured(p).discard_of =
                 IF snap.buffered_flush_of # 0 /\ snap.session.type = Buffered
                 THEN snap.buffered_flush_of ELSE p.discard_of
<1> DEFINE q == Stopped(p)
           d == IF snap.buffered_flush_of # 0 /\ snap.session.type = Buffered
                THEN snap.buffered_flush_of ELSE q.discard_of
<1>1. q \in PipelineType /\ q.queue = {} /\ q.discard_of = p.discard_of
  BY StoppedFields
<1>2. d \in Nat
  BY <1>1 DEF StreamType, PipelineType
<1>3. /\ snap.session \in SessionType
      /\ snap.floor \in FloorType
      /\ snap.volume \in Volumes \cup {0}
  BY DEF StreamType, SessionType, FloorType
<1>4. Configured(p) =
        [q EXCEPT !.state = "PLAYING", !.configured = TRUE, !.session = snap.session,
                  !.anchor = NoAnchor, !.volume = snap.volume, !.floor = snap.floor,
                  !.discard_of = d]
  BY <1>1 DEF Configured, PipelineType
<1> HIDE DEF q, d
<1>5. Configured(p) \in PipelineType
  BY <1>1, <1>2, <1>3, <1>4, NothingTypes, ZenonT(60) DEF PipelineType
<1>6. /\ Configured(p).state = "PLAYING"
      /\ Configured(p).configured
      /\ Configured(p).session = snap.session
      /\ Configured(p).queue = q.queue
      /\ Configured(p).floor = snap.floor
      /\ Configured(p).anchor = NoAnchor
      /\ Configured(p).discard_of = d
  BY <1>1, <1>4 DEF PipelineType
<1> QED BY <1>1, <1>5, <1>6 DEF d

----------------------------------------------------------------------------
(* server_init: nothing is applied, nothing is open.                       *)
LEMMA AudioInit == Init => AudioInv
<1> SUFFICES ASSUME Init PROVE AudioInv
  OBVIOUS
<1> USE DEF Init, StreamInit
<1>1. EmptyStream \in StreamType
  BY EmptyStreamType
<1>2. pipeline \in PipelineType
  <2>1. {} \in SUBSET Packet /\ 0 \in Nat /\ 0 \in Volumes \cup {0}
    OBVIOUS
  <2> QED BY <2>1, NothingTypes, Zenon DEF PipelineType
<1>3. AudioType
  BY <1>1, <1>2 DEF AudioType, LoopType
<1>4. CopyInv
  BY DEF CopyInv, Boundaries, EmptyStream
<1>5. RememberedInv
  BY DEF RememberedInv, Remembered, EmptyStream
<1> QED BY <1>3, <1>4, <1>5 DEF AudioInv, PlayingInv, QueueInv, DeviceWhilePlaying

(* The control thread changes the stream.  A change that could confuse the *)
(* audio thread moves the generation, and then nothing it remembers is     *)
(* taken for the new session.                                              *)
LEMMA ControlKeeps ==
    ASSUME AudioInv, Control
    PROVE  AudioInv'
<1>1. stream \in StreamType /\ StreamNext
  BY DEF AudioInv, AudioType, Control
<1>2. stream' \in StreamType
  BY <1>1, StepType
<1>3. Boundaries(stream)'
  <2>1. BoundaryOfSession'
    BY <1>1, StepBoundary DEF AudioInv, CopyInv, Boundaries, StreamInv, BoundaryOfSession
  <2> QED BY <2>1 DEF Boundaries, BoundaryOfSession
<1>4. \/ stream'.generation > stream.generation
      \/ /\ stream'.generation = stream.generation
         /\ stream'.session = stream.session
         /\ stream'.has_session = stream.has_session
  BY <1>1, GenerationMoves DEF Announcement
<1>5. /\ stream.generation \in Nat /\ stream'.generation \in Nat /\ snap.generation \in Nat
      /\ loop.generation \in Nat /\ loop.transport_generation \in Nat
  BY <1>1, <1>2 DEF StreamType, AudioInv, AudioType, LoopType
<1>6. UNCHANGED <<stopping, result, pc, snap, loop, device, pipeline>>
  BY DEF Control, audio
<1>7. CopyInv'
  BY <1>3, <1>4, <1>5, <1>6 DEF AudioInv, CopyInv, Boundaries
<1>8. Remembered(stream)'
  BY <1>4, <1>5, <1>6 DEF AudioInv, RememberedInv, Remembered
<1>9. RememberedInv'
  BY <1>6, <1>8 DEF AudioInv, RememberedInv, Remembered
<1> QED BY <1>2, <1>6, <1>7, <1>9
        DEF AudioInv, AudioType, PlayingInv, QueueInv, DeviceWhilePlaying

(* The steps between the copies: nothing is applied in them.               *)
LEMMA LoopKeeps ==
    ASSUME AudioInv,
           AudioCheck \/ PollDone \/ PollFails \/ airplay_server_stop
    PROVE  AudioInv'
<1>1. /\ UNCHANGED <<stream, snap, loop, device, pipeline>>
      /\ pc' = "apply" => pc = "apply"
      /\ stopping' \in BOOLEAN /\ result' \in {0, -1}
      /\ pc' \in {"check", "read", "apply", "poll", "leave", "exited"}
  BY DEF AudioInv, AudioType, AudioCheck, PollDone, PollFails, airplay_server_stop
<1> QED BY <1>1 DEF AudioInv, AudioType, CopyInv, Boundaries, RememberedInv, Remembered,
                    PlayingInv, QueueInv, DeviceWhilePlaying

(* The copy taken under the lock is the stream as it is.                   *)
LEMMA ReadKeeps ==
    ASSUME AudioInv, rtsp_get_stream_state
    PROVE  AudioInv'
<1>1. /\ UNCHANGED <<stream, stopping, result, loop, device, pipeline>>
      /\ snap' = stream /\ pc' = "apply"
  BY DEF rtsp_get_stream_state
<1>2. AudioType'
  BY <1>1 DEF AudioInv, AudioType
<1>3. CopyInv'
  <2>1. stream.generation \in Nat
    BY DEF AudioInv, AudioType, StreamType
  <2> QED BY <1>1, <2>1 DEF AudioInv, CopyInv, Boundaries
<1>4. RememberedInv'
  BY <1>1 DEF AudioInv, RememberedInv, Remembered
<1> QED BY <1>1, <1>2, <1>3, <1>4 DEF AudioInv, PlayingInv, QueueInv, DeviceWhilePlaying

----------------------------------------------------------------------------
(* The copy is applied.  Once that is done it is forgotten.                *)
LEMMA CopyForgotten ==
    ASSUME AudioInv, UNCHANGED stream, snap' = EmptyStream, pc' # "apply"
    PROVE  CopyInv' /\ stream' \in StreamType /\ snap' \in StreamType
<1>1. Boundaries(EmptyStream)
  BY DEF Boundaries, EmptyStream
<1> QED BY <1>1, EmptyStreamType DEF AudioInv, AudioType, CopyInv, Boundaries

(* A discard mark that outlives the set-up of the transport is one of the  *)
(* session the copy shows.                                                 *)
LEMMA DiscardOfSession ==
    ASSUME AudioInv, pc = "apply", snap.has_session, snap.session.type = Buffered
    PROVE  WithTransport(pipeline).discard_of \in {0, snap.session.of}
<1>1. snap \in StreamType /\ pipeline \in PipelineType
  BY DEF AudioInv, AudioType
<1>2. Remembered(snap)
  BY DEF AudioInv, RememberedInv
<1>3. CASE loop.transport_generation = snap.generation
  BY <1>1, <1>2, <1>3, TransportFields DEF Remembered
<1>4. CASE loop.transport_generation # snap.generation
  BY <1>1, <1>4, TransportFields
<1> QED BY <1>3, <1>4

(* What was applied from the copy is remembered rightly of the stream: it  *)
(* has moved to another generation meanwhile, or still shows the session   *)
(* of the copy.                                                            *)
LEMMA AppliedRemembered ==
    ASSUME AudioInv, pc = "apply", UNCHANGED stream, pc' # "apply",
           loop' \in LoopType,
           loop'.transport_generation = snap.generation,
           loop'.generation \in {loop.generation, snap.generation},
           device' => loop'.generation = snap.generation /\ pipeline'.session = snap.session,
           snap.has_session /\ snap.session.type = Buffered
              => pipeline'.discard_of \in {0, snap.session.of}
    PROVE  RememberedInv'
<1>1. /\ loop.generation <= snap.generation
      /\ snap.generation <= stream.generation
      /\ loop.generation \in Nat /\ snap.generation \in Nat /\ stream.generation \in Nat
  BY DEF AudioInv, AudioType, LoopType, StreamType, RememberedInv, Remembered, CopyInv
<1>2. snap.generation = stream.generation =>
        snap.session = stream.session /\ snap.has_session = stream.has_session
  BY DEF AudioInv, CopyInv
<1>3. Remembered(stream)'
  BY <1>1, <1>2 DEF Remembered
<1> QED BY <1>3 DEF RememberedInv

(* close_audio when there is nothing to play.                              *)
LEMMA IdleKeeps ==
    ASSUME AudioInv, ApplyIdle
    PROVE  AudioInv'
<1> DEFINE p == WithTransport(pipeline)
           q == IF device THEN Stopped(p) ELSE p
<1>1. /\ pc = "apply" /\ pc' = "poll" /\ device' = FALSE
      /\ pipeline' = WithAnchor(q)
      /\ loop' = [loop EXCEPT !.transport_generation = snap.generation]
      /\ snap' = EmptyStream
      /\ UNCHANGED <<stream, stopping, result>>
  BY DEF ApplyIdle
<1>2. /\ snap \in StreamType /\ pipeline \in PipelineType /\ loop \in LoopType
      /\ snap.generation \in Nat
      /\ DeviceWhilePlaying
  BY DEF AudioInv, AudioType, StreamType
<1>3. p \in PipelineType /\ p.state = pipeline.state /\ p.queue = pipeline.queue
  BY <1>2, TransportFields
<1>4. q \in PipelineType /\ q.state # "PLAYING" /\ q.queue = {} /\ q.discard_of = p.discard_of
  <2>1. CASE device
    BY <1>3, <2>1, StoppedFields
  <2>2. CASE ~device
    BY <1>2, <1>3, <2>2 DEF DeviceWhilePlaying
  <2> QED BY <2>1, <2>2
<1> HIDE DEF q
<1>5. /\ pipeline' \in PipelineType /\ pipeline'.state # "PLAYING" /\ pipeline'.queue = {}
      /\ pipeline'.discard_of = p.discard_of
  BY <1>1, <1>2, <1>4, AnchorFields
<1>6. loop' \in LoopType /\ loop'.transport_generation = snap.generation
                         /\ loop'.generation = loop.generation
  BY <1>1, <1>2 DEF LoopType
<1>7. CopyInv' /\ stream' \in StreamType /\ snap' \in StreamType
  BY <1>1, CopyForgotten
<1>8. RememberedInv'
  BY <1>1, <1>5, <1>6, DiscardOfSession, AppliedRemembered
<1> QED BY <1>1, <1>5, <1>6, <1>7, <1>8
        DEF AudioInv, AudioType, PlayingInv, QueueInv, DeviceWhilePlaying

(* Audio that runs goes on: its transport stays, its session is the one of *)
(* the copy, and so is the anchor that is installed.                       *)
LEMMA RunningKeeps ==
    ASSUME AudioInv, ApplyRunning
    PROVE  AudioInv'
<1> DEFINE p == [WithTransport(pipeline) EXCEPT !.volume = snap.volume]
<1>1. /\ pc = "apply" /\ pc' = "poll" /\ device' = device /\ device
      /\ snap.has_session
      /\ loop.generation = snap.generation
      /\ pipeline' = WithAnchor(p)
      /\ loop' = [loop EXCEPT !.transport_generation = snap.generation]
      /\ snap' = EmptyStream
      /\ UNCHANGED <<stream, stopping, result>>
  BY DEF ApplyRunning, Running
<1>2. /\ snap \in StreamType /\ pipeline \in PipelineType /\ loop \in LoopType
      /\ DeviceWhilePlaying /\ PlayingInv /\ QueueInv /\ Boundaries(snap) /\ Remembered(snap)
  BY <1>1 DEF AudioInv, AudioType, CopyInv, RememberedInv
<1>3. loop.transport_generation = snap.generation
  BY <1>1, <1>2 DEF PlayingInv
<1>4. WithTransport(pipeline) = pipeline
  BY <1>2, <1>3, TransportFields
<1>5. /\ p \in PipelineType
      /\ p.state = pipeline.state /\ p.configured = pipeline.configured
      /\ p.session = pipeline.session /\ p.queue = pipeline.queue
      /\ p.floor = pipeline.floor /\ p.discard_of = pipeline.discard_of
      /\ p.peer = pipeline.peer /\ p.anchor = pipeline.anchor
  <2>1. snap.volume \in Volumes \cup {0}
    BY <1>2 DEF StreamType
  <2> QED BY <1>2, <1>4, <2>1 DEF PipelineType
<1> HIDE DEF p
<1>6. loop' = loop
  BY <1>1, <1>2, <1>3 DEF LoopType
<1>7. /\ pipeline' \in PipelineType
      /\ pipeline'.state = pipeline.state /\ pipeline'.configured = pipeline.configured
      /\ pipeline'.session = pipeline.session /\ pipeline'.queue = pipeline.queue
      /\ pipeline'.floor = pipeline.floor /\ pipeline'.discard_of = pipeline.discard_of
      /\ pipeline'.peer = pipeline.peer
      /\ pipeline'.anchor = IF snap.session.type = Realtime THEN pipeline.anchor
                                                            ELSE snap.anchor
  BY <1>1, <1>2, <1>5, AnchorFields
<1>8. pipeline.session = snap.session
  BY <1>1, <1>2 DEF Remembered
<1>9. PlayingInv'
  <2>1. snap.session.type # 0 => snap.anchor.of \in {0, snap.session.of}
    BY <1>1, <1>2 DEF Boundaries
  <2> QED BY <1>1, <1>2, <1>6, <1>7, <1>8, <2>1 DEF PlayingInv
<1>10. QueueInv'
  BY <1>2, <1>6, <1>7 DEF QueueInv
<1>11. CopyInv' /\ stream' \in StreamType /\ snap' \in StreamType
  BY <1>1, CopyForgotten
<1>12. RememberedInv'
  <2>1. snap.session.type = Buffered => pipeline'.discard_of \in {0, snap.session.of}
    BY <1>1, <1>4, <1>7, DiscardOfSession
  <2> QED BY <1>1, <1>2, <1>3, <1>6, <1>7, <1>8, <2>1, AppliedRemembered
<1> QED BY <1>1, <1>2, <1>6, <1>7, <1>9, <1>10, <1>11, <1>12
        DEF AudioInv, AudioType, DeviceWhilePlaying

(* start_audio_session: what the pipeline then plays with is the session,  *)
(* the boundary and the anchor of one copy.                                *)
LEMMA StartKeeps ==
    ASSUME AudioInv, ApplyStart
    PROVE  AudioInv'
<1> DEFINE t == WithTransport(pipeline)
           p == Configured(t)
<1>1. /\ pc = "apply" /\ pc' = "poll" /\ device' = TRUE
      /\ snap.has_session
      /\ pipeline' = WithAnchor(p)
      /\ loop' = [generation |-> snap.generation,
                  flush_generation |-> snap.flush_generation,
                  transport_generation |-> snap.generation]
      /\ snap' = EmptyStream
      /\ UNCHANGED <<stream, stopping, result>>
  BY DEF ApplyStart
<1>2. /\ snap \in StreamType /\ pipeline \in PipelineType
      /\ snap.generation \in Nat /\ snap.flush_generation \in Nat
      /\ Boundaries(snap)
  BY DEF AudioInv, AudioType, CopyInv, StreamType
<1>3. t \in PipelineType
  BY <1>2, TransportFields
<1> HIDE DEF t
<1>4. /\ p \in PipelineType
      /\ p.state = "PLAYING" /\ p.configured
      /\ p.session = snap.session /\ p.queue = {}
      /\ p.floor = snap.floor /\ p.anchor = NoAnchor
      /\ p.discard_of = IF snap.buffered_flush_of # 0 /\ snap.session.type = Buffered
                        THEN snap.buffered_flush_of ELSE t.discard_of
  BY <1>2, <1>3, ConfiguredFields
<1> HIDE DEF p
<1>5. /\ pipeline' \in PipelineType
      /\ pipeline'.state = "PLAYING" /\ pipeline'.configured
      /\ pipeline'.session = snap.session /\ pipeline'.queue = {}
      /\ pipeline'.floor = snap.floor
      /\ pipeline'.discard_of = p.discard_of
      /\ pipeline'.anchor = IF snap.session.type = Realtime THEN NoAnchor ELSE snap.anchor
  BY <1>1, <1>2, <1>4, AnchorFields
<1>6. snap.session.type = Buffered => pipeline'.discard_of \in {0, snap.session.of}
  <2>1. CASE snap.buffered_flush_of # 0
    BY <1>1, <1>2, <1>4, <1>5, <2>1 DEF Boundaries
  <2>2. CASE snap.buffered_flush_of = 0
    BY <1>1, <1>4, <1>5, <2>2, DiscardOfSession DEF t
  <2> QED BY <2>1, <2>2
<1>7. loop' \in LoopType /\ loop'.generation = snap.generation
      /\ loop'.transport_generation = snap.generation
  BY <1>1, <1>2 DEF LoopType
<1>8. PlayingInv'
  BY <1>1, <1>2, <1>5, <1>6, <1>7 DEF PlayingInv, Boundaries, NoAnchor
<1>9. CopyInv' /\ stream' \in StreamType /\ snap' \in StreamType
  BY <1>1, CopyForgotten
<1>10. RememberedInv'
  BY <1>1, <1>5, <1>6, <1>7, AppliedRemembered
<1> QED BY <1>1, <1>5, <1>7, <1>8, <1>9, <1>10
        DEF AudioInv, AudioType, QueueInv, DeviceWhilePlaying

(* start_audio_session fails: whatever it had set up is closed again.      *)
LEMMA FailsKeeps ==
    ASSUME AudioInv, ApplyFails
    PROVE  AudioInv'
<1> DEFINE t == WithTransport(pipeline)
           p == Stopped(t)
           q == [p EXCEPT !.session = snap.session, !.anchor = NoAnchor]
<1>1. /\ pc = "apply" /\ pc' = "leave" /\ device' = FALSE
      /\ pipeline' \in {p, [q EXCEPT !.configured = FALSE],
                        [q EXCEPT !.configured = TRUE, !.state = "READY"]}
      /\ loop' = [loop EXCEPT !.transport_generation = snap.generation]
      /\ snap' = EmptyStream
      /\ UNCHANGED stream
      /\ stopping' = TRUE /\ result' = -1
  BY DEF ApplyFails
<1>2. /\ snap \in StreamType /\ pipeline \in PipelineType /\ loop \in LoopType
      /\ snap.generation \in Nat
      /\ snap.session \in SessionType
  BY DEF AudioInv, AudioType, StreamType, SessionType
<1>3. t \in PipelineType
  BY <1>2, TransportFields
<1> HIDE DEF t
<1>4. p \in PipelineType /\ p.state = "STOPPED" /\ p.queue = {} /\ p.discard_of = t.discard_of
  BY <1>3, StoppedFields
<1> HIDE DEF p
<1>5. q \in PipelineType /\ q.state = "STOPPED" /\ q.queue = {} /\ q.discard_of = t.discard_of
  BY <1>2, <1>4, NothingTypes DEF PipelineType
<1> HIDE DEF q
<1>6. /\ pipeline' \in PipelineType
      /\ pipeline'.state # "PLAYING" /\ pipeline'.queue = {}
      /\ pipeline'.discard_of = t.discard_of
  BY <1>1, <1>4, <1>5 DEF PipelineType
<1>7. loop' \in LoopType /\ loop'.generation = loop.generation
      /\ loop'.transport_generation = snap.generation
  BY <1>1, <1>2 DEF LoopType
<1>8. CopyInv' /\ stream' \in StreamType /\ snap' \in StreamType
  BY <1>1, CopyForgotten
<1>9. RememberedInv'
  BY <1>1, <1>6, <1>7, DiscardOfSession, AppliedRemembered DEF t
<1> QED BY <1>1, <1>6, <1>7, <1>8, <1>9
        DEF AudioInv, AudioType, PlayingInv, QueueInv, DeviceWhilePlaying

----------------------------------------------------------------------------
(* audio_pipeline_poll: a packet is tagged with what is in force.          *)
LEMMA ReceiveAudioKeeps ==
    ASSUME AudioInv, NEW ip \in Peers, ReceiveAudio(ip)
    PROVE  AudioInv'
<1> DEFINE k == [ip |-> ip, generation |-> loop.generation,
                 flush_generation |-> loop.flush_generation]
<1>1. /\ pc = "poll" /\ pipeline.peer \in {None, ip} /\ pipeline.state = "PLAYING"
      /\ pipeline' = [pipeline EXCEPT !.queue = pipeline.queue \cup {k}]
      /\ UNCHANGED <<stream, stopping, result, pc, snap, loop, device>>
  BY DEF ReceiveAudio
<1>2. pipeline \in PipelineType /\ loop \in LoopType
  BY DEF AudioInv, AudioType
<1>3. k \in Packet
  BY <1>2 DEF Packet, LoopType
<1>4. /\ k.ip = ip /\ k.generation = loop.generation
      /\ k.flush_generation = loop.flush_generation
  OBVIOUS
<1> HIDE DEF k
<1>5. /\ pipeline' \in PipelineType /\ pipeline'.queue = pipeline.queue \cup {k}
      /\ pipeline'.state = pipeline.state /\ pipeline'.configured = pipeline.configured
      /\ pipeline'.session = pipeline.session /\ pipeline'.floor = pipeline.floor
      /\ pipeline'.discard_of = pipeline.discard_of /\ pipeline'.peer = pipeline.peer
      /\ pipeline'.anchor = pipeline.anchor
  BY <1>1, <1>2, <1>3 DEF PipelineType
<1>6. QueueInv'
  BY <1>1, <1>4, <1>5 DEF AudioInv, QueueInv
<1> QED BY <1>1, <1>5, <1>6
        DEF AudioInv, AudioType, CopyInv, Boundaries, RememberedInv, Remembered,
            PlayingInv, DeviceWhilePlaying

(* A realtime anchor is one of the session the pipeline plays.             *)
LEMMA ReceiveControlKeeps ==
    ASSUME AudioInv, NEW ip \in Peers, ReceiveControl(ip)
    PROVE  AudioInv'
<1> DEFINE a == [playing |-> TRUE, of |-> pipeline.session.of]
<1>1. /\ pc = "poll" /\ pipeline' = [pipeline EXCEPT !.anchor = a]
      /\ UNCHANGED <<stream, stopping, result, pc, snap, loop, device>>
  BY DEF ReceiveControl
<1>2. pipeline \in PipelineType
  BY DEF AudioInv, AudioType
<1>3. a \in AnchorType /\ a.of = pipeline.session.of
  BY <1>2 DEF AnchorType, PipelineType, SessionType
<1> HIDE DEF a
<1>4. /\ pipeline' \in PipelineType /\ pipeline'.queue = pipeline.queue
      /\ pipeline'.state = pipeline.state /\ pipeline'.configured = pipeline.configured
      /\ pipeline'.session = pipeline.session /\ pipeline'.floor = pipeline.floor
      /\ pipeline'.discard_of = pipeline.discard_of /\ pipeline'.peer = pipeline.peer
      /\ pipeline'.anchor = a
  BY <1>1, <1>2, <1>3 DEF PipelineType
<1> QED BY <1>1, <1>3, <1>4
        DEF AudioInv, AudioType, CopyInv, Boundaries, RememberedInv, Remembered,
            PlayingInv, QueueInv, DeviceWhilePlaying

(* A packet leaves the queue.                                              *)
LEMMA PlayKeeps ==
    ASSUME AudioInv, PlayPacket
    PROVE  AudioInv'
<1>1. /\ pc = "poll" /\ pipeline.state = "PLAYING"
      /\ UNCHANGED <<stream, pc, snap, loop, device>>
      /\ stopping' \in BOOLEAN /\ result' \in {0, -1}
  BY DEF PlayPacket, AudioInv, AudioType
<1>2. PICK k \in pipeline.queue : pipeline' = [pipeline EXCEPT !.queue = pipeline.queue \ {k}]
  BY DEF PlayPacket
<1>3. pipeline \in PipelineType
  BY DEF AudioInv, AudioType
<1>4. /\ pipeline' \in PipelineType /\ pipeline'.queue = pipeline.queue \ {k}
      /\ pipeline'.state = pipeline.state /\ pipeline'.configured = pipeline.configured
      /\ pipeline'.session = pipeline.session /\ pipeline'.floor = pipeline.floor
      /\ pipeline'.discard_of = pipeline.discard_of /\ pipeline'.peer = pipeline.peer
      /\ pipeline'.anchor = pipeline.anchor
  BY <1>2, <1>3 DEF PipelineType
<1>5. QueueInv'
  BY <1>1, <1>4 DEF AudioInv, QueueInv
<1> QED BY <1>1, <1>4, <1>5
        DEF AudioInv, AudioType, CopyInv, Boundaries, RememberedInv, Remembered,
            PlayingInv, DeviceWhilePlaying

(* close_audio on the way out.                                             *)
LEMMA LeaveKeeps ==
    ASSUME AudioInv, AudioLeave
    PROVE  AudioInv'
<1>1. /\ pc' = "exited" /\ device' = FALSE /\ pipeline' = Stopped(pipeline)
      /\ UNCHANGED <<stream, stopping, result, snap, loop>>
  BY DEF AudioLeave
<1>2. /\ pipeline' \in PipelineType /\ pipeline'.state = "STOPPED" /\ pipeline'.queue = {}
      /\ pipeline'.discard_of = pipeline.discard_of
  BY <1>1, StoppedFields DEF AudioInv, AudioType
<1>3. CopyInv' /\ RememberedInv'
  BY <1>1, <1>2 DEF AudioInv, CopyInv, Boundaries, RememberedInv, Remembered
<1> QED BY <1>1, <1>2, <1>3
        DEF AudioInv, AudioType, PlayingInv, QueueInv, DeviceWhilePlaying

----------------------------------------------------------------------------
(* Whatever the control thread, the senders and a stop do between any two  *)
(* steps of airplay_audio_main, what it has applied stays accounted for.   *)
THEOREM AudioAccounted == Spec => []AudioInv
<1>1. AudioInv /\ [Next]_vars => AudioInv'
  <2> SUFFICES ASSUME AudioInv, [Next]_vars PROVE AudioInv'
    OBVIOUS
  <2>1. CASE Control
    BY <2>1, ControlKeeps
  <2>2. CASE AudioThread
    BY <2>2, LoopKeeps, ReadKeeps, IdleKeeps, RunningKeeps, StartKeeps, FailsKeeps,
       LeaveKeeps DEF AudioThread
  <2>3. CASE Network
    BY <2>3, ReceiveAudioKeeps, ReceiveControlKeeps, PlayKeeps DEF Network
  <2>4. CASE airplay_server_stop
    BY <2>4, LoopKeeps
  <2>5. CASE UNCHANGED vars
    BY <2>5 DEF vars, audio, AudioInv, AudioType, CopyInv, Boundaries, RememberedInv,
                Remembered, PlayingInv, QueueInv, DeviceWhilePlaying
  <2> QED BY <2>1, <2>2, <2>3, <2>4, <2>5 DEF Next
<1> QED BY <1>1, AudioInit, PTL DEF Spec

(* close_audio and start_audio_session open and close the device with the  *)
(* pipeline: it is open exactly while the pipeline plays, and nothing      *)
(* waits in a queue that nobody plays.                                     *)
THEOREM DeviceFollowsPipeline == Spec => []DeviceWhilePlaying
BY AudioAccounted, PTL DEF AudioInv

(* The session, transport, boundary and anchor the pipeline plays with,    *)
(* and the packets that wait in it, are of one session, although each      *)
(* iteration works on a copy the control thread may have made stale.       *)
THEOREM NothingMixed == Spec => []OneSession
<1>1. AudioInv => OneSession
  BY DEF AudioInv, DeviceWhilePlaying, PlayingInv, QueueInv, OneSession
<1> QED BY <1>1, AudioAccounted, PTL

(* BoundaryOfSession holds next to the audio thread too: it only reads the *)
(* stream.                                                                 *)
THEOREM StreamUndisturbed == Spec => []BoundaryOfSession
<1>1. AudioInv => BoundaryOfSession
  BY DEF AudioInv, CopyInv, Boundaries, BoundaryOfSession
<1> QED BY <1>1, AudioAccounted, PTL
=============================================================================
