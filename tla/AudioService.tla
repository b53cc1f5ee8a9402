---------------------------- MODULE AudioService ---------------------------
(***************************************************************************)
(* The audio thread (airplay_audio_main of shared/service/server.c) next   *)
(* to the control side.  Each iteration tests the stop flag, copies the    *)
(* stream under its lock, applies the copy to the pipeline and the output  *)
(* device, and polls the pipeline; the control thread may change the       *)
(* stream between any two of these steps.                                  *)
(***************************************************************************)
EXTENDS StreamState, FiniteSets

CONSTANT MaxQueue   \* AIRPLAY_PLAYOUT_PACKETS

ASSUME MaxQueueAssumption == MaxQueue \in Nat \ {0}

VARIABLES
    stopping,  \* server->stopping
    result,    \* server->result
    pc,        \* where the audio thread is
    snap,      \* its copy of the stream
    loop,      \* audio_loop_state_t; its volume_db is that of the pipeline
    device,    \* server->audio is open
    pipeline   \* audio_pipeline_t: what the stream configures

audio == <<stopping, result, pc, snap, loop, device, pipeline>>
vars == <<stream, audio>>

(* pipeline.floor is the boundary audio_pipeline_set_start installed last. *)
(* A queued packet is tagged with the sender's address and with the        *)
(* generations that were in force when it was accepted.                    *)
Packet == [ip : Peers, generation : Nat, flush_generation : Nat]

Init ==
    /\ StreamInit
    /\ stopping = FALSE
    /\ result = 0
    /\ pc = "check"
    /\ snap = EmptyStream
    /\ loop = [generation |-> 0, flush_generation |-> 0, transport_generation |-> 0]
    /\ device = FALSE
    /\ pipeline = [state |-> "STOPPED", configured |-> FALSE, session |-> NoSession,
                   queue |-> {}, floor |-> NoFloor, discard_of |-> 0,
                   peer |-> None, anchor |-> NoAnchor, volume |-> 0]

----------------------------------------------------------------------------

(* audio_pipeline_stop, as an update: it stops and empties the queue.      *)
Stopped(p) == [p EXCEPT !.state = "STOPPED", !.queue = {}, !.floor = NoFloor]

(* audio_pipeline_set_transport disconnects the buffered sender.           *)
WithTransport(p) ==
    IF loop.transport_generation = snap.generation THEN p
    ELSE [p EXCEPT !.peer = IF snap.has_session THEN snap.timing_peer ELSE None,
                   !.discard_of = 0]

(* Mutants of Running: one of the two generations is not compared. *)
RunningAnySession == device /\ loop.flush_generation = snap.flush_generation
RunningAnyFlush == device /\ loop.generation = snap.generation

(* Audio already runs for this generation and this flush.                  *)
Running ==
    /\ device
    /\ loop.generation = snap.generation
    /\ loop.flush_generation = snap.flush_generation

(* audio_pipeline_configure, audio_pipeline_start and the boundaries       *)
(* start_audio_session installs.                                           *)
Configured(p) ==
    [Stopped(p) EXCEPT
        !.state = "PLAYING",
        !.configured = TRUE,
        !.session = snap.session,
        !.anchor = NoAnchor,
        !.volume = snap.volume,
        !.floor = snap.floor,
        !.discard_of = IF snap.buffered_flush_of # 0 /\ snap.session.type = Buffered
                       THEN snap.buffered_flush_of ELSE @]

(* Except for realtime streams, whose anchors arrive in RTP control        *)
(* packets, the anchor of the stream is copied in every iteration.         *)
WithAnchor(p) ==
    IF snap.session.type = Realtime THEN p ELSE [p EXCEPT !.anchor = snap.anchor]

----------------------------------------------------------------------------
AudioCheck ==
    /\ pc = "check"
    /\ pc' = IF stopping THEN "leave" ELSE "read"
    /\ UNCHANGED <<stream, stopping, result, snap, loop, device, pipeline>>

rtsp_get_stream_state ==
    /\ pc = "read"
    /\ snap' = stream
    /\ pc' = "apply"
    /\ UNCHANGED <<stream, stopping, result, loop, device, pipeline>>

(* Mutants of ApplyIdle: the pipeline goes on without the device; nothing  *)
(* is stopped.                                                             *)
ApplyIdleDeviceOnly ==
    /\ pc = "apply"
    /\ ~(snap.recording /\ snap.has_session)
    /\ device' = FALSE
    /\ pipeline' = WithAnchor(WithTransport(pipeline))
    /\ loop' = [loop EXCEPT !.transport_generation = snap.generation]
    /\ pc' = "poll"
    /\ snap' = EmptyStream
    /\ UNCHANGED <<stream, stopping, result>>

ApplyIdleKeeps ==
    /\ pc = "apply"
    /\ ~(snap.recording /\ snap.has_session)
    /\ pipeline' = WithAnchor(WithTransport(pipeline))
    /\ loop' = [loop EXCEPT !.transport_generation = snap.generation]
    /\ pc' = "poll"
    /\ snap' = EmptyStream
    /\ UNCHANGED <<stream, stopping, result, device>>

(* The rest of the iteration does not use the copy again: it is dropped.   *)
(* Nothing to play: close_audio if the device is open.                     *)
ApplyIdle ==
    /\ pc = "apply"
    /\ ~(snap.recording /\ snap.has_session)
    /\ device' = FALSE
    /\ LET p == WithTransport(pipeline) IN
       pipeline' = WithAnchor(IF device THEN Stopped(p) ELSE p)
    /\ loop' = [loop EXCEPT !.transport_generation = snap.generation]
    /\ pc' = "poll"
    /\ snap' = EmptyStream
    /\ UNCHANGED <<stream, stopping, result>>

(* start_audio_session returns early; only the volume may change.          *)
ApplyRunning ==
    /\ pc = "apply"
    /\ snap.recording /\ snap.has_session
    /\ Running
    /\ pipeline' = WithAnchor([WithTransport(pipeline) EXCEPT !.volume = snap.volume])
    /\ loop' = [loop EXCEPT !.transport_generation = snap.generation]
    /\ pc' = "poll"
    /\ snap' = EmptyStream
    /\ UNCHANGED <<stream, stopping, result, device>>

(* start_audio_session closes what runs and starts afresh.                 *)
ApplyStart ==
    /\ pc = "apply"
    /\ snap.recording /\ snap.has_session
    /\ ~Running
    /\ device' = TRUE
    /\ pipeline' = WithAnchor(Configured(WithTransport(pipeline)))
    /\ loop' = [generation |-> snap.generation, flush_generation |-> snap.flush_generation,
                transport_generation |-> snap.generation]
    /\ pc' = "poll"
    /\ snap' = EmptyStream
    /\ UNCHANGED <<stream, stopping, result>>

(* start_audio_session fails: in the checks of audio_pipeline_configure,   *)
(* in a decoder or key set up there, or in audio_open.  The thread leaves. *)
ApplyFails ==
    /\ pc = "apply"
    /\ snap.recording /\ snap.has_session
    /\ ~Running
    /\ device' = FALSE
    /\ LET p == Stopped(WithTransport(pipeline))
           q == [p EXCEPT !.session = snap.session, !.anchor = NoAnchor]
       IN pipeline' \in {p, [q EXCEPT !.configured = FALSE],
                         [q EXCEPT !.configured = TRUE, !.state = "READY"]}
    /\ loop' = [loop EXCEPT !.transport_generation = snap.generation]
    /\ stopping' = TRUE
    /\ result' = -1
    /\ pc' = "leave"
    /\ snap' = EmptyStream
    /\ UNCHANGED stream

(* audio_pipeline_poll: datagrams from the peer, accepted while PLAYING.   *)
ReceiveAudio(ip) ==
    /\ pc = "poll"
    /\ pipeline.peer \in {None, ip}
    /\ pipeline.state = "PLAYING"
    /\ Cardinality(pipeline.queue) < MaxQueue
    /\ pipeline' = [pipeline EXCEPT !.queue = @ \cup
            {[ip |-> ip, generation |-> loop.generation,
              flush_generation |-> loop.flush_generation]}]
    /\ UNCHANGED <<stream, stopping, result, pc, snap, loop, device>>

(* A realtime anchor of the running session. *)
ReceiveControl(ip) ==
    /\ pc = "poll"
    /\ pipeline.peer \in {None, ip}
    /\ pipeline.session.type = Realtime
    /\ pipeline' = [pipeline EXCEPT !.anchor =
            [playing |-> TRUE, of |-> pipeline.session.of]]
    /\ UNCHANGED <<stream, stopping, result, pc, snap, loop, device>>

(* pipeline_play_ready_packets plays or drops a packet; a failed           *)
(* audio_write stops the server.                                           *)
PlayPacket ==
    /\ pc = "poll"
    /\ pipeline.state = "PLAYING"
    /\ \E q \in pipeline.queue :
          pipeline' = [pipeline EXCEPT !.queue = @ \ {q}]
    /\ \/ UNCHANGED <<stopping, result>>
       \/ ~stopping /\ stopping' = TRUE /\ result' = -1
    /\ UNCHANGED <<stream, pc, snap, loop, device>>

PollDone ==
    /\ pc = "poll"
    /\ pc' = "check"
    /\ UNCHANGED <<stream, stopping, result, snap, loop, device, pipeline>>

(* A socket or device error in audio_pipeline_poll: server_fail.           *)
PollFails ==
    /\ pc = "poll"
    /\ stopping' = TRUE
    /\ result' = -1
    /\ pc' = "check"
    /\ UNCHANGED <<stream, snap, loop, device, pipeline>>

(* close_audio on the way out of airplay_audio_main.                       *)
AudioLeave ==
    /\ pc = "leave"
    /\ pipeline' = Stopped(pipeline)
    /\ device' = FALSE
    /\ pc' = "exited"
    /\ UNCHANGED <<stream, stopping, result, snap, loop>>

airplay_server_stop ==
    /\ ~stopping
    /\ stopping' = TRUE
    /\ UNCHANGED <<stream, result, pc, snap, loop, device, pipeline>>

(* The control thread, as far as the stream shows it.                      *)
Control == StreamNext /\ UNCHANGED audio

AudioThread ==
    \/ AudioCheck \/ rtsp_get_stream_state
    \/ ApplyIdle \/ ApplyRunning \/ ApplyStart \/ ApplyFails
    \/ PollDone \/ PollFails \/ AudioLeave

Network ==
    \/ \E ip \in Peers : ReceiveAudio(ip) \/ ReceiveControl(ip)
    \/ PlayPacket

Next == Control \/ AudioThread \/ Network \/ airplay_server_stop

(* The audio thread keeps running: its waits have timeouts and each poll   *)
(* handles a bounded batch.  Senders need not do anything.                 *)
Spec == Init /\ [][Next]_vars /\ WF_vars(AudioThread)

----------------------------------------------------------------------------
(* The device is open exactly while the pipeline plays, so decoded audio   *)
(* always has an output; and nothing stays queued while it does not play.  *)
DeviceWhilePlaying ==
    /\ device <=> pipeline.state = "PLAYING"
    /\ pipeline.state # "PLAYING" => pipeline.queue = {}
    /\ pipeline.state = "PLAYING" => pipeline.configured

(* Every packet that waits was accepted from the peer of the session in    *)
(* force, after the last session change and flush that was applied; and    *)
(* the session, peer, boundary and anchor the pipeline plays with all      *)
(* belong to one stream session, although the audio thread works on copies *)
(* of a stream that changes meanwhile.                                     *)
OneSession ==
    /\ \A q \in pipeline.queue :
        /\ q.generation = loop.generation
        /\ q.flush_generation = loop.flush_generation
        /\ pipeline.peer \in {None, q.ip}
    /\ pipeline.state = "PLAYING" /\ pc # "apply" =>
        /\ loop.generation = loop.transport_generation
        /\ pipeline.session.type # 0
              => pipeline.anchor.of \in {0, pipeline.session.of}
        /\ pipeline.floor.of \in {0, pipeline.session.of}
        /\ pipeline.session.type = Buffered => pipeline.discard_of \in {0, pipeline.session.of}

(* PAUSE, TEARDOWN and a lost owner silence the output: once recording is  *)
(* off the device is closed, unless a sender starts recording again.       *)
PauseStops == ~stream.recording ~> (~device \/ stream.recording)

(* A FLUSH or a new session reaches the pipeline: the audio thread catches *)
(* up with the stream whenever that stays as it is and records.            *)
CatchesUp ==
    \A g \in 1 .. 2 * MaxGen, f \in 0 .. MaxFlush :
        stream.recording /\ stream.generation = g /\ stream.flush_generation = f
            ~> \/ loop.generation = g /\ loop.flush_generation = f
               \/ stream.generation # g \/ stream.flush_generation # f
               \/ ~stream.recording
               \/ pc = "exited"

(* "Reject packets before the RECORD or FLUSH RTP timestamp boundary": an  *)
(* iteration that leaves the pipeline playing leaves it with the boundary  *)
(* the last RECORD or FLUSH gave, or a later one.                          *)
BoundaryInForce ==
    [][pc = "apply" /\ pipeline'.state = "PLAYING" /\ snap.floor # NoFloor
          => pipeline'.floor.stamp >= snap.floor.stamp]_vars
=============================================================================
