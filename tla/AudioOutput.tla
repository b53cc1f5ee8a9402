---------------------------- MODULE AudioOutput ----------------------------
(***************************************************************************)
(* Timed playback: pipeline_play_ready_packets of audio_pipeline.c submits *)
(* the packets of the playout queue to the output device of the platform   *)
(* (ALSA, AudioQueue, waveOut, or the driver of an embedded board) so that *)
(* they are heard when they are due.                                       *)
(*                                                                         *)
(* Time is counted in frames: the hardware plays one per tick.  Within a   *)
(* call the program computes in no time, only its waits take time; between *)
(* two polls any time may pass.                                            *)
(***************************************************************************)
EXTENDS Integers, Sequences, FiniteSets, FiniteSetsExt, SequencesExt

CONSTANTS
    Backends,    \* drivers to check
    Sources,     \* per driver: "ntp" (timing peer known), "alone" (none), "ptp"
    F,           \* frames per packet
    Packets,     \* bound: packets sent, per driver
    MaxTime,     \* bound on time, per driver
    Buffers,     \* AIRPLAY_OUTPUT_BUFFER_COUNT
    Ring,        \* frames in the ALSA buffer, AIRPLAY_ALSA_BUFFER_US
    PosRing,     \* values of the 32-bit waveOut position: 2^32
    Units,       \* units a waveOut driver may answer in
    FrameBytes,  \* bytes of a frame: two for each channel
    SampleRate,  \* frames per second
    Second,      \* milliseconds per second
    AheadLimit,  \* 40 ms: how far before its deadline a packet is looked at
    Margin,      \* 5 ms
    LateLimit,   \* 100 ms
    WriteTime,   \* 120 ms: deadline of a write
    Attempts,    \* 64: bound on the loop of the ALSA write
    Bases,       \* times the sender's clock may give the first packet
    SyncWait,    \* 3 s without a sender clock
    Fallback     \* 2 s

(* A millisecond of frames, and what rounding to a whole one may add.      *)
MsFrames == (SampleRate + Second - 2) \div Second

ASSUME OutputAssumption ==
    /\ Backends \subseteq {"alsa", "audioqueue", "waveout", "board"}
    /\ {F, Buffers, Ring, PosRing, Attempts} \subseteq Nat \ {0}
    /\ {FrameBytes, SampleRate, Second} \subseteq Nat \ {0}
    /\ Units \subseteq {"samples", "bytes", "ms"}
    /\ {AheadLimit, Margin, LateLimit, WriteTime, SyncWait, Fallback} \subseteq Nat
    /\ Packets \in [Backends -> Nat] /\ MaxTime \in [Backends -> Nat]
    /\ Buffers > 1 /\ PosRing > (Buffers + 1) * F + MsFrames
    /\ Bases \subseteq Nat

VARIABLES
    backend, source,
    now,
    queue,      \* packets in the playout queue
    popped,     \* the packet that left the queue last; earlier ones are stale
    synced, base,               \* the sender's clock
    first_arrival, first_packet,
    call,       \* where the audio thread is in the submission of a packet
    stopping,   \* server->stopping
    stuck,      \* the hardware has stopped taking frames
    pcm,        \* the ALSA device, or the board's
    ring,       \* the buffers of AudioQueue and waveOut
    counters,   \* the waveOut frame counters, and what the driver has played
    accepted    \* the frame the device accepted last

clock == <<synced, base, first_arrival, first_packet>>
device == <<pcm, ring, counters, stuck>>
outputVars == <<backend, source, now, queue, popped, clock, call, stopping, device,
                accepted>>

----------------------------------------------------------------------------
(* Frames a .. b of a packet whose first frame is due at the time due.     *)
Frames(p, due, a, b) ==
    [i \in 1 .. b - a + 1 |-> [packet |-> p, index |-> a + i - 1, due |-> due + a + i - 2]]

NoFrame == [packet |-> 0, index |-> 0, due |-> 0]
NoCall == [at |-> "poll", packet |-> 0, due |-> 0, written |-> 0, since |-> 0, attempts |-> 0]

Slots == 1 .. Buffers
NextSlot(i) == IF i = Buffers THEN 1 ELSE i + 1

FreshPcm == [state |-> "prepared", frames |-> <<>>]

(* data: the samples of each buffer, of a free one left out; busy: the     *)
(* buffers AudioQueue has not given back; enqueued: the driver's queue,    *)
(* the head frames of its first buffer played; finished: played buffers    *)
(* whose callback is pending.                                              *)
FreshRing ==
    [data |-> [i \in Slots |-> <<>>], busy |-> {}, next |-> 1,
     enqueued |-> <<>>, head |-> 0, finished |-> {}, started |-> FALSE]

(* unit: of the positions this driver reports; position: the frames it has *)
(* played since it was opened.                                             *)
FreshCounters(unit) ==
    [unit |-> unit, position |-> 0, last_position |-> 0, submitted |-> 0, played |-> 0]

OutputInit ==
    /\ backend \in Backends
    /\ source \in Sources[backend]
    /\ now = 0
    /\ queue = {} /\ popped = 0
    /\ synced = FALSE /\ base = 0
    /\ first_arrival = -1 /\ first_packet = 0
    /\ call = [NoCall EXCEPT !.at = "closed"]
    /\ stopping = FALSE
    /\ pcm = FreshPcm /\ ring = FreshRing
    /\ counters = FreshCounters("samples")
    /\ stuck = FALSE
    /\ accepted = NoFrame

(* What the device still has to play. *)
Queued ==
    IF backend \in {"alsa", "board"} THEN pcm.frames
    ELSE LET all == FlattenSeq([k \in DOMAIN ring.enqueued |-> ring.data[ring.enqueued[k]]])
         IN  SubSeq(all, ring.head + 1, Len(all))

----------------------------------------------------------------------------
(* Deadlines.  pipeline_ntp_deadline waits for the sender's clock while a  *)
(* timing peer is known, then plays relative to the first arrival;         *)
(* pipeline_ptp_deadline always needs the clock.                           *)
HasDeadline ==
    \/ synced
    \/ source = "alone"
    \/ source = "ntp" /\ now - first_arrival >= SyncWait

Deadline(p) ==
    IF synced THEN base + (p - 1) * F
    ELSE first_arrival + Fallback + (p - first_packet) * F

(* waveOutGetPosition: what the driver has played, in its own unit and as  *)
(* a 32-bit number.                                                        *)
Elapsed(unit, n) ==
    CASE unit = "samples" -> n
      [] unit = "bytes"   -> n * FrameBytes
      [] unit = "ms"      -> (n * Second) \div SampleRate

waveOutGetPosition == Elapsed(counters.unit, counters.position) % PosRing

(* The answer in frames, a 32-bit number again.                            *)
InFrames(unit, position) ==
    CASE unit = "samples" -> position
      [] unit = "bytes"   -> position \div FrameBytes
      [] unit = "ms"      -> ((position * SampleRate) \div Second) % PosRing

wave_frames == InFrames(counters.unit, waveOutGetPosition)

(* audio_delay_frames, per driver.  AudioQueue counts whole buffers until  *)
(* their callback; waveOut accumulates the distance the position has moved *)
(* since the last call.                                                    *)
queue_delay_frames == MapThenSumSet(LAMBDA i : Len(ring.data[i]), ring.busy)

(* Mutant of Played: the position is taken to grow for ever. *)
PlayedNoWrap == counters.played + (wave_frames - counters.last_position)

Played == counters.played + ((wave_frames - counters.last_position) % PosRing)
wave_delay_frames == IF counters.submitted > Played THEN counters.submitted - Played ELSE 0

alsa_delay_frames == IF pcm.state = "xrun" THEN 0 ELSE Len(pcm.frames)

DelayFrames ==
    CASE backend = "alsa"       -> alsa_delay_frames
      [] backend = "audioqueue" -> queue_delay_frames
      [] backend = "waveout"    -> wave_delay_frames
      [] backend = "board"      -> Len(pcm.frames)

(* The call that measures the delay updates the waveOut counters.          *)
MeasureDelay ==
    /\ counters' = IF backend = "waveout"
                   THEN [counters EXCEPT !.played = Played, !.last_position = wave_frames]
                   ELSE counters
    /\ UNCHANGED <<pcm, ring, stuck>>

DelayMayFail ==
    \/ backend \in {"waveout", "board"}
    \/ backend = "alsa" /\ pcm.state # "xrun"

----------------------------------------------------------------------------
(* pipeline_play_ready_packets: the head of the queue, once it has a       *)
(* deadline that is near.                                                  *)
HeadPacket == Min(queue)

Looked ==
    /\ call.at = "poll" /\ ~stopping
    /\ queue # {}
    /\ HasDeadline
    /\ Deadline(HeadPacket) - now <= AheadLimit

(* Mutant of SubmitMargin: what the device still holds is not counted. *)
SubmitMarginAlone == Deadline(HeadPacket) - now

SubmitMargin == Deadline(HeadPacket) - now - DelayFrames

Pop(p) == queue' = queue \ {p} /\ popped' = p

(* audio_delay_frames reports an error: the poll fails. *)
DelayFails ==
    /\ Looked
    /\ DelayMayFail
    /\ stopping' = TRUE
    /\ UNCHANGED <<backend, source, now, queue, popped, clock, call, device, accepted>>

TooEarly ==
    /\ Looked
    /\ SubmitMargin > Margin
    /\ MeasureDelay
    /\ UNCHANGED <<backend, source, now, queue, popped, clock, call, stopping, accepted>>

(* A packet that is too late, that does not decode, or that is decoded     *)
(* when the server is stopping leaves the queue unheard.                   *)
DropPacket ==
    /\ Looked
    /\ SubmitMargin <= Margin
    /\ MeasureDelay
    /\ Pop(HeadPacket)
    /\ UNCHANGED <<backend, source, now, clock, call, stopping, accepted>>

(* audio_pipeline_decode_packet and output_pcm: audio_write begins. *)
Submit ==
    /\ Looked
    /\ SubmitMargin \in -LateLimit .. Margin
    /\ MeasureDelay
    /\ call' = [at |-> "write", packet |-> HeadPacket, due |-> Deadline(HeadPacket),
                written |-> 0, since |-> now, attempts |-> 0]
    /\ UNCHANGED <<backend, source, now, queue, popped, clock, stopping, accepted>>

----------------------------------------------------------------------------
(* audio_write returns; a failure is server_fail.  Either way the packet   *)
(* leaves the queue.                                                       *)
Return(ok) ==
    /\ Pop(call.packet)
    /\ call' = NoCall
    /\ stopping' = (stopping \/ ~ok)

Continue(c) == call' = c /\ UNCHANGED <<queue, popped, stopping>>

Left(c) == F - c.written
(* Mutant of NewFrames: a retry starts over. *)
NewFramesRestart(n) == Frames(call.packet, call.due, 1, n)

NewFrames(n) == Frames(call.packet, call.due, call.written + 1, call.written + n)

(* Mutants of LoopTest: no deadline, or no bound on the attempts. *)
LoopNoDeadline(c) ==
    IF Left(c) = 0 THEN Return(TRUE)
    ELSE IF c.attempts + 1 >= Attempts THEN Return(FALSE)
    ELSE Continue([c EXCEPT !.at = "write", !.attempts = @ + 1])

LoopNoBound(c) ==
    IF Left(c) = 0 THEN Return(TRUE)
    ELSE IF now - c.since >= WriteTime THEN Return(FALSE)
    ELSE Continue([c EXCEPT !.at = "write"])

(* The test at the end of the ALSA loop. *)
LoopTest(c) ==
    IF Left(c) = 0 THEN Return(TRUE)
    ELSE IF now - c.since >= WriteTime \/ c.attempts + 1 >= Attempts THEN Return(FALSE)
    ELSE Continue([c EXCEPT !.at = "write", !.attempts = @ + 1])

Room == Ring - Len(pcm.frames)

(* snd_pcm_writei takes frames, reports an underrun, would block or is     *)
(* interrupted, or fails.                                                  *)
writei_accepts ==
    /\ pcm.state # "xrun"
    /\ \E n \in 1 .. Min({Room, Left(call)}) :
          /\ pcm' = [state |-> "running", frames |-> pcm.frames \o NewFrames(n)]
          /\ accepted' = Last(NewFrames(n))
          /\ LoopTest([call EXCEPT !.written = @ + n])

writei_underrun ==
    /\ pcm.state = "xrun"
    /\ \/ pcm' = FreshPcm /\ LoopTest(call)
       \/ UNCHANGED pcm /\ Return(FALSE)
    /\ UNCHANGED accepted

writei_waits ==
    /\ pcm.state # "xrun"
    /\ Continue([call EXCEPT !.at = "wait"])
    /\ UNCHANGED <<pcm, accepted>>

writei_fails == Return(FALSE) /\ UNCHANGED <<pcm, accepted>>

alsa_write ==
    /\ backend = "alsa" /\ call.at = "write"
    /\ writei_accepts \/ writei_underrun \/ writei_waits \/ writei_fails
    /\ UNCHANGED <<backend, source, now, clock, ring, counters, stuck>>

(* snd_pcm_wait returns when there is room, after 10 ms, or interrupted.   *)
alsa_wait ==
    /\ backend = "alsa" /\ call.at \in {"wait", "woken"}
    /\ LoopTest(call) \/ Return(FALSE)
    /\ UNCHANGED <<backend, source, now, clock, device, accepted>>

(* AudioQueue: the buffer is claimed under the mutex ...                   *)
queue_claim ==
    /\ backend = "audioqueue" /\ call.at = "write"
    /\ IF ring.next \notin ring.busy
       THEN /\ ring' = [ring EXCEPT !.busy = @ \cup {ring.next}]
            /\ Continue([call EXCEPT !.at = "claimed"])
       ELSE /\ UNCHANGED ring
            /\ IF call.attempts < WriteTime
               THEN Continue([call EXCEPT !.at = "wait", !.attempts = @ + 1])
               ELSE Return(FALSE)
    /\ UNCHANGED <<backend, source, now, clock, pcm, counters, stuck, accepted>>

Filled == [ring EXCEPT !.data[ring.next] = NewFrames(F)]

(* ... filled and enqueued outside it; then the queue is started.          *)
queue_enqueue ==
    /\ backend = "audioqueue" /\ call.at = "claimed"
    /\ \/ /\ ring' = [Filled EXCEPT !.busy = @ \ {ring.next}]
          /\ Return(FALSE) /\ UNCHANGED accepted
       \/ /\ accepted' = Last(NewFrames(F))
          /\ \/ /\ ring' = [Filled EXCEPT !.enqueued = Append(@, ring.next), !.started = TRUE,
                                          !.next = NextSlot(@)]
                /\ Return(TRUE)
             \/ /\ ~ring.started
                /\ ring' = [Filled EXCEPT !.enqueued = Append(@, ring.next)]
                /\ Return(FALSE)
    /\ UNCHANGED <<backend, source, now, clock, pcm, counters, stuck>>

(* The callback of AudioQueue, on a thread of its own. *)
buffer_finished(i) ==
    /\ i \in ring.finished
    /\ ring' = [ring EXCEPT !.busy = @ \ {i}, !.finished = @ \ {i}, !.data[i] = <<>>]
    /\ UNCHANGED <<backend, source, now, queue, popped, clock, call, stopping, pcm, counters,
                   stuck, accepted>>

(* waveOut: WHDR_INQUEUE says that the driver still has the buffer. *)
InQueue(i) == i \in Range(ring.enqueued)

wave_write ==
    /\ backend = "waveout" /\ call.at = "write"
    /\ IF ~InQueue(ring.next)
       THEN \/ /\ ring' = [Filled EXCEPT !.enqueued = Append(@, ring.next), !.started = TRUE,
                                         !.next = NextSlot(@)]
               /\ counters' = [counters EXCEPT !.submitted = @ + F]
               /\ accepted' = Last(NewFrames(F))
               /\ Return(TRUE)
            \/ ring' = Filled /\ Return(FALSE) /\ UNCHANGED <<counters, accepted>>
       ELSE /\ IF now - call.since >= WriteTime
               THEN Return(FALSE)
               ELSE Continue([call EXCEPT !.at = "wait"])
            /\ UNCHANGED <<ring, counters, accepted>>
    /\ UNCHANGED <<backend, source, now, clock, pcm, stuck>>

(* A sleep of 2 ms ends; a signal may cut nanosleep short.                 *)
Wake ==
    /\ \/ backend = "waveout" /\ call.at = "woken"
       \/ backend = "audioqueue" /\ call.at \in {"wait", "woken"}
    /\ call' = [call EXCEPT !.at = "write"]
    /\ UNCHANGED <<backend, source, now, queue, popped, clock, stopping, device, accepted>>

(* airplay_board_audio_write takes all samples or the write has failed.    *)
board_write ==
    /\ backend = "board" /\ call.at = "write"
    /\ \/ /\ pcm' = [pcm EXCEPT !.frames = @ \o NewFrames(F)]
          /\ accepted' = Last(NewFrames(F))
          /\ Return(TRUE)
       \/ Return(FALSE) /\ UNCHANGED <<pcm, accepted>>
    /\ UNCHANGED <<backend, source, now, clock, ring, counters, stuck>>

----------------------------------------------------------------------------
(* The hardware plays one frame, unless it got stuck; ALSA underruns when  *)
(* the buffer empties, the other drivers wait for the next buffer.  A      *)
(* callback is delivered before the next buffer is through.                *)
Playing == ~stuck /\ Queued # <<>> /\ (backend \in {"alsa", "board"} \/ ring.started)
HeadBuffer == Head(ring.enqueued)
EndsBuffer == ring.head + 1 = Len(ring.data[HeadBuffer])

PlayFrame ==
    /\ IF backend \in {"alsa", "board"}
       THEN /\ pcm' = [frames |-> Tail(pcm.frames),
                       state |-> IF backend = "alsa" /\ Len(pcm.frames) = 1 THEN "xrun"
                                 ELSE pcm.state]
            /\ UNCHANGED <<ring, counters, stuck>>
       ELSE /\ IF EndsBuffer
               THEN /\ backend = "audioqueue" => ring.finished = {}
                    /\ ring' = [ring EXCEPT !.enqueued = Tail(@), !.head = 0,
                           !.finished = IF backend = "audioqueue" THEN {HeadBuffer} ELSE {},
                           !.data[HeadBuffer] = IF backend = "audioqueue" THEN @ ELSE <<>>]
               ELSE ring' = [ring EXCEPT !.head = @ + 1]
            /\ counters' = IF backend = "waveout"
                           THEN [counters EXCEPT !.position = @ + 1]
                           ELSE counters
            /\ UNCHANGED <<pcm, stuck>>

Stall ==
    /\ call.at = "poll" /\ ~stuck /\ stuck' = TRUE
    /\ UNCHANGED <<backend, source, now, queue, popped, clock, call, stopping, pcm, ring,
                   counters, accepted>>

Tick ==
    /\ now < MaxTime[backend] \/ call.at = "wait"
    /\ call.at \in {"closed", "poll", "wait"}
    /\ ~(backend = "alsa" /\ call.at = "wait" /\ (Room > 0 \/ pcm.state = "xrun"))
    /\ now' = now + 1
    /\ call' = IF call.at = "wait" THEN [call EXCEPT !.at = "woken"] ELSE call
    /\ IF Playing THEN PlayFrame ELSE UNCHANGED device
    /\ UNCHANGED <<backend, source, queue, popped, clock, stopping, accepted>>

(* A packet is received and stored.  Packets may come in any order, or not *)
(* at all; one behind playback is stale.                                   *)
Arrive(p) ==
    /\ call.at = "poll" /\ ~stopping
    /\ p > popped /\ p \notin queue
    /\ queue' = queue \cup {p}
    /\ IF first_arrival < 0
       THEN first_arrival' = now /\ first_packet' = p
       ELSE UNCHANGED <<first_arrival, first_packet>>
    /\ UNCHANGED <<backend, source, now, popped, synced, base, call, stopping, device,
                   accepted>>

(* The sender's clock and anchor become known. *)
Sync ==
    /\ call.at = "poll" /\ ~stopping
    /\ source # "alone" /\ ~synced
    /\ synced' = TRUE /\ base' \in Bases
    /\ UNCHANGED <<backend, source, now, queue, popped, first_arrival, first_packet, call,
                   stopping, device, accepted>>

(* audio_open of each driver: the device is fresh, or everything acquired  *)
(* on the way is given back and the session does not start.                *)
FreshDevice(unit) ==
    pcm' = FreshPcm /\ ring' = FreshRing /\ counters' = FreshCounters(unit) /\ stuck' = FALSE

Open(driver, units) ==
    /\ backend = driver
    /\ call.at = "closed" /\ ~stopping
    /\ \/ call' = NoCall /\ UNCHANGED stopping
       \/ stopping' = TRUE /\ UNCHANGED call
    /\ \E unit \in units : FreshDevice(unit)
    /\ UNCHANGED <<backend, source, now, queue, popped, clock, accepted>>

alsa_open == Open("alsa", {"samples"})
queue_open == Open("audioqueue", {"samples"})
wave_open == Open("waveout", Units)
board_open == Open("board", {"samples"})

(* audio_close of each driver drops what is not played; audio_pipeline_stop *)
(* and audio_pipeline_flush empty the playout queue and forget the clock's *)
(* anchor.                                                                 *)
Close(driver) ==
    /\ backend = driver
    /\ call.at = "poll"
    /\ call' = [NoCall EXCEPT !.at = "closed"]
    /\ FreshDevice("samples")

alsa_close == Close("alsa")
queue_close == Close("audioqueue")
wave_close == Close("waveout")
board_close == Close("board")

audio_pipeline_stop ==
    /\ queue' = {} /\ synced' = FALSE /\ base' = 0
    /\ first_arrival' = -1 /\ first_packet' = 0

close_audio ==
    /\ audio_pipeline_stop
    /\ alsa_close \/ queue_close \/ wave_close \/ board_close
    /\ UNCHANGED <<backend, source, now, popped, stopping, accepted>>

(* Another thread stops the server; the audio thread sees it between calls. *)
StopRequest ==
    /\ call.at \in {"closed", "poll"}
    /\ ~stopping /\ stopping' = TRUE
    /\ UNCHANGED <<backend, source, now, queue, popped, clock, call, device, accepted>>

Ended == call.at = "closed" /\ stopping /\ UNCHANGED outputVars

audio_write ==
    \/ alsa_write \/ alsa_wait
    \/ queue_claim \/ queue_enqueue
    \/ wave_write
    \/ Wake
    \/ board_write

OutputNext ==
    \/ DelayFails \/ TooEarly \/ DropPacket \/ Submit
    \/ audio_write
    \/ \E i \in Slots : buffer_finished(i)
    \/ Stall \/ Tick
    \/ \E p \in 1 .. Packets[backend] : Arrive(p)
    \/ Sync \/ StopRequest
    \/ alsa_open \/ queue_open \/ wave_open \/ board_open
    \/ close_audio
    \/ Ended

(* The audio thread is scheduled inside a write, a sleep ends, and the     *)
(* callback of a played buffer comes.                                      *)
OutputFairness ==
    /\ WF_outputVars(audio_write)
    /\ WF_outputVars(Tick)
    /\ WF_outputVars(\E i \in Slots : buffer_finished(i))

OutputSpec == OutputInit /\ [][OutputNext]_outputVars /\ OutputFairness

----------------------------------------------------------------------------
(* Every driver implements the abstract device: what it holds is what was  *)
(* written, in order, and nothing is overwritten while it waits to be      *)
(* played.                                                                 *)
Device == INSTANCE AudioDevice WITH queued <- Queued, accepted <- accepted
DeviceSpec == Device!DeviceSpec

(* AudioQueue counts a buffer until its callback: the part of the first    *)
(* one already played, and one whose callback is pending.  A position in   *)
(* milliseconds leaves out the one that has begun.                         *)
Overcount ==
    CASE backend = "audioqueue" -> 2 * F - 1
      [] backend = "waveout" /\ counters.unit = "ms" -> MsFrames
      [] OTHER -> 0

(* The code follows a position across 2^32 frames, not across 2^32 bytes   *)
(* or milliseconds.                                                        *)
PositionLost ==
    /\ backend = "waveout" /\ counters.unit # "samples"
    /\ Elapsed(counters.unit, counters.position) >= PosRing

(* audio.h: the delay is the number of frames submitted and not played, in *)
(* whatever unit the position comes and whatever callbacks are due: across *)
(* the wrap of a position in samples, and up to the wrap in other units.   *)
DelayHonest ==
    call.at = "poll" /\ ~PositionLost => DelayFrames - Len(Queued) \in 0 .. Overcount

(* A frame is heard at its deadline: at most the margin early (and what    *)
(* the driver over-counts), and never later than the limit beyond which    *)
(* play_ready_packets drops a packet, as long as waveOut's position can be *)
(* followed.                                                               *)
HeardOnTime ==
    Playing /\ ~PositionLost =>
        now - Head(Queued).due \in -(Margin + Overcount) .. LateLimit

(* audio.h: a write blocks for a bounded time, whatever the driver does.   *)
WriteBounded ==
    call.at \in {"write", "claimed", "wait", "woken"} => now - call.since <= WriteTime + 1

(* A write that began returns, even when the driver never takes a frame    *)
(* and no time passes between its errors.                                  *)
WriteReturns == call.at \notin {"closed", "poll"} ~> call.at = "poll"
=============================================================================
