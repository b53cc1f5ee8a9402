# Portable AirPlay receiver: TLA+ verification project

TLA+ models of the receiver in `src/` (AirPlay 1/RAOP and AirPlay 2 speaker in
C11), TLC runs that check them on small instances, and TLAPS proofs. Paths below
are relative to the repository.

## 1. The system

The program has three service threads over one `airplay_server_t`
(`shared/service/server.c`), started and joined by the program of the platform
(`main` of `platform/linux`, `platform/apple` and `platform/windows`, or
`platform/embedded/runtime.c`, whose server is static and may be started again):

* **mdns** announces two services (RAOP and AirPlay), answers the neighbours'
  queries and says goodbye at the end;
* **rtsp** accepts up to `RTSP_MAX_CLIENTS` control connections and handles their
  requests. It owns all connection state and publishes one
  `rtsp_stream_state_t`, guarded by `state_lock`;
* **audio** copies that stream in every iteration, applies the copy to the
  pipeline and the output device, and polls the pipeline (RTP over UDP, buffered
  audio over TCP, NTP and PTP clocks, the reorder queue, the decoder).

The threads share nothing but the published stream, the stop flag, the result and
the memory pool of the crypto library. They block only in the platform layer: in
socket calls with timeouts and in writes to the output device.

| Component | State | Operations | Talks to |
|---|---|---|---|
| playout queue `audio/playout.c` | slots, `next_sequence`, `count`, `started`, timestamp floor | reset, set_floor, push, peek, pop | filled by the RTP and buffered receivers, drained by the scheduler, one thread |
| RTSP server `protocol/rtsp.c` | client slots (socket, peer, pairing, `encrypted`, event sockets), owner, stream | poll: accept, receive, handle, close | handlers; publishes the stream |
| AirPlay 1 handlers `airplay/airplay_rtsp.c` | the stream, its owner | ANNOUNCE, SETUP, RECORD, PAUSE, FLUSH, TEARDOWN, SET_PARAMETER, ... | called by the server |
| AirPlay 2 handlers `airplay/airplay2.c`, `pairing.c`, `fairplay.c` | pairing and FairPlay stage per client, the stream | pair-setup, fp-setup, SETUP, SETRATEANCHORTIME, FLUSHBUFFERED, RECORD | called by the server |
| audio loop `service/server.c` | generations seen, device, volume | one iteration: copy, transport, start/close, anchor, poll | reads the stream, drives the pipeline |
| audio pipeline `audio/audio_pipeline.c` | STOPPED/READY/PLAYING, session, peer, anchor | configure, start, stop, set_transport, poll | owns queue, clocks, transports |
| buffered transport `audio/buffered_audio.c` | connection, partial record, seek boundary | poll, flush, disconnect | TCP sender, queue |
| PTP clock `sync/ptp_sync.c` | selected clock, pending Sync, offset | packet, set_clock, deadline | UDP multicast |
| NTP clock `sync/ntp_sync.c` | pending request, best sample, RTP anchor | request, process_packet, reply, control, deadline | UDP timing port |
| pairing `airplay/pairing.c` | the SRP exchange in progress, keys, its numbers in the pool | pairing_setup (M1, M3), pairing_close, seal, open | control connection, crypto pool |
| lifecycle `service/server.c`, the programs | what is initialised, stop flag, result | init, start threads, stop, join, deinit | everything |
| discovery `airplay/airplay_discovery.c`, `protocol/mdns.c` | two services, one socket | announce, poll, answer, goodbye | neighbours; the mdns thread |
| property lists `protocol/bplist.c` | writer: buffer, offset table, failed | add objects, finish; read | AirPlay 2 requests and responses |
| RTP packets `protocol/rtp.c` | none | parse | RTP receiver |
| audio output `platform/*/audio.c` | buffers, frame counters | open, write, delay, close; callbacks | scheduler of the pipeline, hardware |
| sockets `platform/*/net.c` | handles | open, accept, receive, send_all, wait, close | every thread, kernel |
| session descriptions `protocol/sdp.c` | none | parse, base64 | ANNOUNCE |
| crypto primitives, codecs, RAOP authentication | | | not modelled: section 6 |

What is hard here: two threads that meet only through a copied structure and its
generation numbers; takeover of the stream by another client; responses that fail
after the state was changed; UDP packets lost, repeated and reordered; TCP records
cut anywhere; ring arithmetic on 16, 24 and 32 bits; clocks that are measured by
lossy exchanges; failures in the middle of start and shutdown; drivers that take a
part of what is written and play it while the program counts; lengths and offsets
that the sender chooses. `PROJECT.json`
lists these hazards at their lines with the properties that would catch them.

What makes each component correct:

* queue: nothing twice, nothing stranded, never backwards, exact count;
* control channel: requests whole and in order, nothing in clear after pairing,
  no nonce twice, a well-behaved sender is kept and served;
* control: a session exists exactly while a connected client owns it, only an
  authorised client holds a keyed stream, the accepted peer is the owner's;
* audio loop: device, queue, peer, boundary and anchor are of one session, and
  the thread catches up with the stream;
* buffered transport: framing survives everything, seeks are exact and end, no
  record that was read is lost for lack of room;
* clocks: the error of the offset is bounded by what was measured, deadlines are
  right, also around rollovers;
* lifecycle: released once, never while in use, always ends, truthful status;
* discovery: every service answers what asks for it, and none is advertised by a
  receiver that is gone;
* pairing: keys only from the current exchange and shared with the sender that
  proved itself in it; no number stays in the pool;
* audio output: what is accepted is played once, in order and when it is due; a
  write ends in time;
* sockets: a call keeps its timeout, a send is exact, no descriptor leaks;
* formats: a parser yields what the bytes mean or refuses, inside the message; a
  writer writes the whole or nothing.

## 2. Modules

| Module | Models | Role |
|---|---|---|
| `Playout` | `playout.c` | the queue, for any packets at any time |
| `PlayoutProofs` | | TLAPS proofs about `Playout` |
| `StreamState` | `rtsp_stream_state_t` and the updates of it | abstract specification of the control side (`StreamSpec`) |
| `StreamStateProofs` | | TLAPS proofs about `StreamState` |
| `RtspControl` | `rtsp.c`, `airplay_rtsp.c`, `airplay2.c`, `pairing.c`, `fairplay.c` | the control thread; implements `StreamSpec` |
| `RtspControlProofs` | | TLAPS proofs about `RtspControl`, the refinement included |
| `RtspChannel` | `rtsp.c`, records of `pairing.c` | the byte channel of one control connection |
| `Tlv` | `tlv_get`, `tlv_put` of `pairing.c` | items against a declarative definition |
| `Pairing` | `pairing_setup`, `pairing_close`, `airplay2_pair_setup` | the exchange M1 to M4, with a sender |
| `ControlConnection` | | `RtspChannel` and `Pairing` of one connection |
| `ControlConnectionProofs` | | TLAPS proofs about `RtspChannel`, `Pairing` and `Tlv` |
| `AudioService` | `airplay_audio_main` and the pipeline operations it uses | the audio thread composed with `StreamSpec` |
| `AudioServiceProofs` | | TLAPS proofs about `AudioService` |
| `BufferedAudio` | `buffered_audio.c`, `pipeline_receive_buffered` | TCP transport with sender and network |
| `OsTime` | `os_time_us`, C division | the local clock both stream clocks run on |
| `PtpSync` | `ptp_sync.c` | the PTP clock with senders and network |
| `NtpSync` | `ntp_sync.c` as a client | the NTP clock with sender and network |
| `StreamClocks` | the choice of the clock in the pipeline | `NtpSync` for RAOP, `PtpSync` for AirPlay 2 |
| `PipelineProofs` | | TLAPS proofs about `PtpSync` and `BufferedAudio` |
| `NtpReply` | `ntp_sync_reply` | the receiver as timing server |
| `Discovery` | `airplay_discovery.c`, `mdns_handle_packet_from` | services, queries, answers |
| `ServerLifecycle` | `airplay_server_init/deinit`, thread mains, the programs | start, failure, shutdown, restart; extends `Discovery` |
| `ServerLifecycleProofs` | | TLAPS proofs about `ServerLifecycle` |
| `MdnsPacket` | name reading and packet building of `mdns.c` | byte by byte, against a definition of DNS names |
| `Plist` | `bplist.c` | writer and reader, byte by byte |
| `RtpPacket` | `rtp_parse_packet` | against the decomposition of a packet |
| `Sdp` | `sdp.c`, what ANNOUNCE accepts | the lines applied in order, against "what was given last"; base64 against its bits |
| `WireFormats` | | these formats, one input at a time |
| `Receiver` | | `ServerLifecycle` and `WireFormats` |
| `AudioDevice` | `platform/audio.h` | abstract specification of an output device |
| `AudioOutput` | `pipeline_play_ready_packets`, the four `audio.c` | timed playback; implements `AudioDevice` |
| `NetIo` | `platform/linux/net.c` | socket calls with kernel and peer |
| `Platform` | | `AudioOutput` and `NetIo` |
| `PlatformProofs` | | TLAPS proofs about `NetIo` and `AudioOutput` |

`MCx.tla` instantiates module `x` for TLC (symmetry sets, negative constants,
sets of inputs); `MCRtspChannel` instantiates `ControlConnection`. Where a module
composes two that share no state (`ControlConnection`, `StreamClocks`, `Receiver`,
`Platform`), a behaviour is of one of them: interleaving them would only multiply
states that no property relates.
Operators introduced by a comment "Mutant of ..." are broken variants that show
that a property can fail; no specification uses them.

### How state and actions correspond to the code

*Playout.* One variable per field of `playout_t`, one action per function. The
sequence ring has `2*Half` values (code: 2^16), the timestamp ring `2*HalfStamp`
(2^32), the queue `N` slots. The payload is left out; its length check is the
Boolean `fits`. What an invalid slot holds is never read and is normalised.
`playout_pop` is only ever called on the packet `playout_peek` returned, in the
same step.

*StreamState.* `stream` is the structure under `state_lock`. Sessions, boundaries
and anchors additionally carry `of`, the generation of the session they belong to,
so that properties can tell sessions apart. A timestamp boundary whose `has_` flag
is clear is `NoFloor`. The SDP data of a session is reduced to its stream type, the
volume to an element of a set. The two guards `MaxGen` and `MaxFlush` bound the
generations.

*RtspControl.* Each handler is one action: it takes the lock once, so its update is
atomic. A response may fail; then `closing` holds the client until `close_client`,
which is a critical section of its own, has run. Every rejection path changes
nothing and is the action `Reply`. Requests that are the same for the state
(rejected, malformed plist, wrong media type) are not told apart. The first free
slot of the code is any free slot (the slots are symmetric).

*RtspChannel.* One connection below the handlers: `receive_client`, the request loop
of `rtsp_server_poll` and the record layer. A byte carries its request and its place
in it; a record carries its payload, counter and whether it arrived intact, so what
`pairing_open` accepts is decided as by authentication. One receive and one turn of
the loop are an action each. `parse_request` is reduced to its decision: wait,
refuse, handle. The sender is external: it writes requests behind each other,
transmits them in clear or in records that end anywhere, and may break the rules,
which `faults` records. 2^64-1 of the counters is `MaxCounter`. A record that spans
two requests is one of the recorded faults: the buffer is drained in clear by
receiving no more than the room left, but a record has to fit as a whole
(`rtsp.c:222`), so one that ends a large request and begins the next is refused.

*AudioService.* The loop of `airplay_audio_main` in steps: test the stop flag, copy
the stream, apply the copy (transport, close or start, volume, anchor), poll. The
control side may act between any two. Starting a session may fail at each of its
calls. In the poll step packets of the accepted peer arrive and are played or
dropped in any order and number; each carries the generations in force.

*BufferedAudio.* Bytes on the wire know their record, so misframing is visible.
`net_tcp_recv` returns any non-empty prefix. The listener's backlog holds the
sender or a stranger. The thread's view of the stream (`mode`, `seek`) changes by
FLUSHBUFFERED, pause, resume, new and ended sessions.

*PtpSync, NtpSync.* Time is discrete; the sender's clock is the local one plus a
constant. Messages are lost when they take longer than a bound, may be delivered
any number of times and in any order. C's truncating division, signed ring
differences and the NTP era are kept; the number of microseconds in a second, NTP
fractions, ring sizes and limits are constants. In `NtpSync` the conversion of
times to NTP fractions and back is that of the code, rounding included.

*Pairing.* The messages are bytes, built and read with `Tlv`; fragments have
`Fragment` bytes instead of 255. Cryptography is symbolic: an exchange is the fresh
number of its random values, and hashes are equal when what they were computed from
is (a hash shows the exchange and the first byte of the public value, which must tell
the public values in use apart: `HashAssumption`). Every computation may fail. `live` is what exchanges hold in the pool. The sender
may repeat M1, answer an exchange that was replaced, send malformed proofs and
values with leading zeros, and drop the connection.

*ServerLifecycle, Discovery.* One step per resource acquired or released. `held`
counts acquisitions, so a double release and a leak show. A thread is at its flag
test, in its poll or leaving. The three programs differ in the order of their steps
and in how they learn that a thread ended: POSIX and Windows join, the embedded
program waits for the bits of an event group. A query is a sequence of questions;
`airplay_discovery_poll` hands the packet to one service after the other, each of
which may fail. `advert` is what the network heard last of each service.

*MdnsPacket, Plist, RtpPacket, Tlv, Sdp.* The bytes, offsets and sizes of the code. The
lengths of DNS labels and names and of TLV fragments are constants. Products and
sums in the property-list reader are those of 64-bit sizes that saturate (`Huge`):
larger values are rejected alike. A finished list reaches the reader unchanged, with
one byte changed, or cut short. A line of a session description is what scanning
finds in it (codec, numbers, encoded text); every order and repetition of lines
occurs. `sdp_parse` lets 24 bits and up to 8192 frames pass, which
`audio_pipeline_configure` then refuses: to `AudioService` that is one of the
failures of `ApplyFails`.

*AudioOutput.* Time is counted in frames, one tick each. Within a call computation
takes no time, only waits do; between two polls any time may pass. ALSA takes any
part of what is written, underruns, reports errors or takes nothing; AudioQueue and
waveOut have a ring of buffers that return with a callback (at most one buffer
late) or a flag; the board's driver takes a packet or refuses it. An error of the
position query fails the poll like the other errors (`DelayFails`), and so does a
position of a type the code does not know. Packets come with a deadline from one of
the three sources of the scheduler: the NTP clock, the arrival of the first packet when
there is no timing peer or it stays silent, and the PTP anchor.

The waveOut position follows `windows/audio.c:93-108` with its conversions. The code
asks for samples, but a driver may answer in another unit; which one (`unit`) is chosen
when the device is opened and kept while it is open. `waveOutGetPosition` is what the
driver has played since then (`position`), in that unit and modulo `PosRing` (2^32); it
is external, and assumed to be exact and, in milliseconds, rounded down. `InFrames` is
the code's conversion: bytes are divided by `FrameBytes` (two per channel), milliseconds
are multiplied by `SampleRate`, divided by `Second` (1000) and cut to 32 bits. `Played`
adds the distance to the converted position of the call before, modulo `PosRing`. A
millisecond position is rounded twice, which makes the delay too large by up to
`MsFrames` (about 44 frames at 44.1 kHz); this is part of `Overcount`. A position in
samples may wrap at any time. One in bytes or milliseconds may not: see the note under
Findings. `PositionLost` is the state after such a wrap, and `DelayHonest` and
`HeardOnTime` claim nothing there.

*NetIo.* One thread calls, on a listener, a connection it accepts and a UDP socket;
the kernel reuses descriptors, lets waits end early with EINTR, and takes any part of
a send. It is translated from the Linux code; the other platforms run the same loops
around other system calls.

Type invariants are stated where a proof rests on them (`Playout`, `StreamState`,
`RtspControl`), and proved rather than listed in the runs; elsewhere the other
invariants already fix the types that matter.

## 3. Runs

| Run | Bounds | What it shows |
|---|---|---|
| `playout` | rings of 6 and 4, 3 slots | all reachable states of the queue for arbitrary input. The rings are larger than the queue and wrap, slots run out, and both halves of each ring occur |
| `rtsp_control` | 2 clients, 2 peers, 2 new sessions, 1 flush | ownership and authorisation under takeovers, failed responses and disconnects; refinement of `StreamSpec`. Two clients suffice for a takeover and its aftermath, two generations for a session to follow another |
| `rtsp_channel` | buffer of 4 bytes, records of 3 with 3 bytes of overhead, counters to 3, 3 requests of 2, 4 and 5 bytes; fragments and proofs of 5 bytes, public values of up to 6, 2 exchanges | framing, the switch to encryption, nonces, and that a well-behaved sender is served and kept; which exchange yields keys. Three requests are one that pairs and two behind each other on the encrypted channel; sizes below, at and above the buffer occur, with a header that fits and one that does not. Public values are longer than a fragment, and two exchanges let a proof answer the wrong one |
| `audio_service` | 2 peers, 2 sessions, 1 flush, 1 tagged packet of each kind | one-session invariants of the audio thread |
| `audio_live` | 1 peer, 1 session, 1 flush | liveness of the audio thread |
| `audio_boundary` | as `audio_live`, 2 timestamps | violation: finding 1 |
| `lifecycle` | three programs, the embedded one started twice, 11 mDNS packets of up to 2 questions; names of 5 bytes over 7 byte values; lists of up to 4 objects for a limit of 3, in buffers just below and above what they need; every TLV message of up to 6 bytes over 0..3; RTP packets of 0 to 30 bytes; descriptions of up to 3 of 18 lines; base64 texts of up to 5 characters | every failure at every point of start, service and stop, with liveness; every format at its limits. A second start shows what the first leaves in a static server; the lengths include one below, at and above each limit |
| `buffered` | 3 records of length 2..5 around the wrap of a ring of 10, 7 bytes in flight, queue of 4 | framing, order, seeks, back-pressure. Lengths 2 (too short), 3 and 4 (good) and 5 (too long) all occur; the sender starts one before the wrap |
| `buffered_seek` | the same | violation: finding 2 |
| `clocks` | NTP: 7 ticks of 1/4 second, era and RTP rollovers inside the run; PTP: 2 clocks with 2 domains, 4 ticks, 2 Syncs in flight | acceptance and deadline bounds over lost, repeated, late and reordered messages, new senders and clock switches |
| `ntp_reply` | 3 ticks | violation: finding 3 |
| `platform` | four drivers, 2 to 4 packets of 2 frames, 2 buffers, 5 to 8 ticks, positions in samples, bytes (2 per frame) and milliseconds (4/3 frames each) on a ring of 8; millisecond ring of 5, timeouts of 2 and for ever, a send of 3 bytes into room for 2 | every driver implements `AudioDevice`, audio is heard on time, writes end; socket calls keep their timeouts and sends are exact. The packets fill the buffers and take the waveOut position around its ring (in samples with all 8 frames, in bytes after 4; milliseconds are rounded but do not wrap, the theorems cover that), the clock wraps inside a wait, a send needs several writes |

Deadlock is checked, except in the audio runs, where the thread exits and senders
may have reached their bounds, and in `clocks` and `ntp_reply`, where bounded time
ends.

### Fairness

* `AudioService`: weak fairness of the audio thread's own steps. Its waits have
  timeouts (20 ms, or 2 ms while playing) and each poll handles a bounded batch
  (16 packets, 8 PTP messages per socket), so every iteration ends; no sender and
  no control request is assumed to happen.
* `RtspChannel` (in `ControlConnection`): weak fairness of the receive and of the
  request loop: the thread polls every readable socket again and again. The sender
  is not assumed to send, and nothing is assumed of pairing.
* `BufferedAudio`: weak fairness of `buffered_audio_poll`; the audio thread calls it
  in every iteration while it plays. The sender is not assumed to send.
* `ServerLifecycle` (in `Receiver`): weak fairness of main, of each thread loop, of
  handing a received packet on, and of leaving the audio loop: polls time out. No
  signal, no packet and no failure is assumed.
* `AudioOutput` (in `Platform`): weak fairness of the steps inside a write, of time,
  and of the callback for a buffer that was played. The hardware may stop taking
  frames for good (`Stall`): a write must return all the same.

That a poll ends, which the first four rely on, is what `CallBounded`, `WriteBounded`
and `WriteReturns` show of the platform layer.

### Findings

1. `BoundaryInForce`: `audio_pipeline.h:122` promises to reject packets before the
   RECORD or FLUSH boundary. RECORD stores its `rtptime` without moving a
   generation, and `start_audio_session` returns early when audio already runs, so
   a boundary given by a later RECORD is not installed.
2. `SeekNotCancelled`: refusing a connection from another address calls
   `buffered_audio_disconnect`, which also drops a seek that waits for the sender.
3. `ReplyNamesRequest`: `ntp_sync_reply` echoes the request's origin field instead
   of its transmit time, against `tests/test_timing.c:106`.

Without a run of its own: `audio.h:40` calls the result of `audio_delay_frames`
"Estimated frames submitted but not yet played". `windows/audio.c:107` takes the
difference of two *converted* positions modulo 2^32. If the driver answers in bytes, the
position wraps after 2^32 bytes (2^30 frames in stereo, 6.8 hours at 44.1 kHz; 2^31 in
mono), where the converted value falls from 2^30 to 0 and the difference adds
2^32 - 2^30 frames that nobody played; in milliseconds the same happens after 2^32 ms. From
then on `played_frames` is ahead of `submitted_frames` and the delay reads 0 whatever is
queued, so packets may be submitted, and heard, later than they are due. The model does
this too: without the hypothesis `~PositionLost` the `platform` run violates
`DelayHonest` and `HeardOnTime` with a position in bytes. The hypothesis is the exact limit
of the two properties, not an assumption of the model.

## 4. Proofs

All theorems hold for every value of the constants that satisfies the named
assumptions of the modules. Beyond types these are: `None` is neither a peer nor a
client, there is at least one timestamp, ring halves and the bounds on generations
are positive or natural; the limit of a socket call (an `int`) is smaller than the ring
of the clock (2^32 ms); the drivers are the four of the repository, they have more than
one buffer (`AIRPLAY_OUTPUT_BUFFER_COUNT` is 8), the positions waveOut reports wrap
only after all these buffers, one more and a rounded millisecond (`MsFrames`), and the
sample rate, the milliseconds of a second and the bytes of a frame are positive; a buffered session has fewer than 2^23
records, and a record has at least the three bytes of length and sequence the model
gives it and fits the buffer; PTP domains are numbers; an NTP second has at least twice
as many fractions as microseconds (2^32 and 10^6), and within a run the clocks of
sender and receiver are less than half an NTP era (68 years) apart (`EraAssumption`),
since `ntp_sync_diff_us` takes the difference of the seconds as a signed 32 bit number;
a TLV length is one byte, a proof (64 bytes) fits one fragment (255) and has at least
five bytes, and hashes of different public values differ (`HashAssumption`), as they do
unless SHA-512 collides.
Run `tlapm` on each of the eight modules to check them.

Two kinds of argument recur. A loop that waits with a limit is bounded by an
invariant that says, at every place of the loop, how much of the limit may be spent
there. And a statement about buffers of any length is an invariant over positions
("byte `i+1` follows byte `i`"), with lemmas on what joining and cutting sequences
does to it; where such a proof needs induction, it is the least number principle for
a *set* of positions that violate the claim, which the provers can use, instead of
an induction over a predicate, which they cannot.

**`PlayoutProofs`** (any ring sizes, any number of slots). The queue's properties
are proved from one inductive invariant `Inv`: the type invariant, the exact count,
no sequence number in two slots, and `Chained`: before playback `next_sequence` is
itself queued, and a packet in the upper half of the ring has another one at most
half a ring before it. `Chained` is what makes the packet that `playout_peek`
returns lie in the lower half (lemma `PeekNear`), so that a pop moves forward; it
survives an earlier packet that moves `next_sequence` back, although distances to
the other packets then grow past half a ring, because the packet at the old
position stays queued, and it survives a pop only because the packet that
is popped is the nearest. Theorems: `TypeCorrect`, `QueueConsistent`
(that is `QueueSound`: count, duplicates and chain together) and the action property
`PlaysForward`.

**`StreamStateProofs`** (any peers, timestamps, bounds). Each update of the stream
has a lemma that it keeps `StreamType`; `StreamInv` adds `BoundaryOfSession`.
Theorems: `BoundariesCurrent` (no flush boundary or anchor outlives its session in
a stream the audio thread would apply) and `ChangesNoticed` (nothing the audio
thread configures itself from changes without the generation).

**`RtspControlProofs`** (any number of clients). The invariant `Inv` joins the five
checked invariants with `Connected`: a connected client has an address, an
encrypted channel belongs to an established pairing, and the client that is being
closed is still connected. It is needed because a takeover makes the address and
the channel of the client those of the stream, and because `close_client` relies on
finding its client open after other threads ran. The proof follows the four kinds
of steps: updates by the owner (`Harmless` says what they leave alone, `UpdateStep`
that this is enough), steps of one client's own state (`ClientStep`), takeovers
(`TakeOverStep`), and the ends of a session (`TeardownStep`, `CloseStep`).
Theorems: `ControlTypeCorrect`, `Ownership`, `Authorization`, `PeerIsTheOwners`,
`SlotsReusedClean`, the action property `OwnerVisible`, and the refinement
`ControlImplementsStream`: every step of the control thread is a step of
`StreamSpec` or leaves the stream alone. It needs `Ownership`, since `StreamSpec`
lets a session change only while there is one and the code asks only who the owner
is. `ControlKeepsStream` draws the consequence: the theorems of `StreamStateProofs`
hold of the control thread.

**`AudioServiceProofs`** (any senders, timestamps, volumes and bounds). The audio
thread works on a copy of the stream that may be stale by the time it is applied. The
invariant `AudioInv` therefore speaks of three generations at once: that of the copy
is at most the stream's and, when equal, so is the session (`CopyInv`); what the
thread remembers having applied equals what the stream, or the copy, of that
generation says (`RememberedInv`); and while the device is open, transport, floor,
anchor and waiting packets are all of the session the pipeline plays (`PlayingInv`,
`QueueInv`). The first two are what a step of the control side between copying and
applying cannot break, and without them the last two are not inductive. The steps of
the control side are those of `StreamSpec`, whose lemmas are reused. Theorems:
`AudioAccounted`, `DeviceFollowsPipeline`, `NothingMixed` (`OneSession`) and
`StreamUndisturbed`.

**`ServerLifecycleProofs`** (each of the three programs, any packets of the
neighbours, any number of restarts). `NoLeak` only speaks about the end of a program;
`LifecycleInv` is the account of what is held at every step before. The acquiring
steps are numbered alike in the three programs (`Now`), each resource has the number
of the step that acquires it (`Rank`) and of the one that releases it (`ReleasedAt`),
and the invariant says: while starting, exactly what ranks below is held (`Starting`);
while serving, everything, and the device and the PTP sockets only if the audio
thread was created (`Serving`); while releasing, nothing already passed, and of the
rest what the flags say was acquired (`Releasing`). A start that fails at any step
enters `Releasing` at its first step, which is why the flags appear. Theorems:
`LifecycleAccounted`, `NothingUsedAfterRelease`, `NothingLeaks`, `StatusIsTruthful`,
`ServicesWithdrawn`. For discovery, `AnsweredInv` says what is known of the packet and
of the answers at each place of a poll: between the two services the first one has
given exactly the answer that is expected of it and the second none. The loop over the
questions is compared with its reference (`FirstAsked`) by counting the questions left
down to the one that decides (`LoopAnswers`), again with the least number principle.
Theorem: `QueriesAreAnswered`.

**`ControlConnectionProofs`** (requests of any shape, any sizes of buffers and
records, counters of any width). `ChannelInv` follows the bytes of a connection
through their four places: written but not sent (`PlainInv`), on the wire and in the
record being received (`ComingInv`, over `record \o wire`), in the request buffer
(`RxInv`), handled. Each place begins where the next one ends: byte follows byte, and
record follows record with the counter one higher. `CleanInv` adds what holds as long as
the sender breaks no rule (no record spans requests, none is damaged, nothing but the
pairing request is last in clear); it is what lets `ClosedForCause` be proved, because
each path of the code that closes a client contradicts one of its parts. Theorems:
`ChannelAccounted`, `EveryRequestWhole` (whatever the network splits and joins, the
loop handles the requests in order, each from its first byte), `BoundaryIsKept`
(nothing received in clear is handled after the channel is encrypted),
`NoncesAreUnique` and `NobodyCutOff`.

The pairing half of the module (any size of fragments, proofs, public values and
responses) has two layers. The first is about the TLV messages. Both `tlv_get` and
`tlv_put` are folds; from the library's definition of a fold, which takes the last
position off first, follows the sequence of the states of their loops (`ScanRounds`,
`PutRounds`), and then a reader
that stands before something `tlv_put` wrote is shown to stand behind it with the value
in hand, one fragment at a time (`ValueRead`). It follows what a message made of whole
items says (`ThreeItems`) and what one that is cut inside its key can say: the item
swallows the type of the proof that follows, so the bytes that are left are all one
value and never a proof (`CutKeyRead`). The second layer is the exchange. `PairingInv`
adds to `PairingSound` what the unread response says (`ReplyInv`): an M4 is there only
while pairing stands and answers the very proof the keys were made of. It is needed
because the sender derives its keys from the response alone, and no other proof it ever
sent has this answer (`AnswerTells`); and that pairing was established by that proof is
`FinishesProve`: in whatever of the messages `verify` finds a proof for the exchange in
progress, it is the one the sender made for it, over the public value that was read.
Theorems: `PairingAccounted`, `PairingIsSound`.

**`PipelineProofs`** (any lengths, delays, ring sizes, time constants). For the PTP
clock, `PtpInv` says of the Sync that waits when it was sent, and that a Follow_Up in
flight that would match it is its own (`PendingInv`); then an accepted sample is short
of the true offset by at most the delay of a message, and the filter, whose truncating
division is proved not to overshoot (`QuotientToward`), keeps it so (`SampleInv`).
Theorems: `ClocksAccounted`, `DeadlinesCorrect`. For the buffered transport,
`TransportInv` describes what is in the buffer and on the wire together: it is a
sequence of records (`RecordsOf`), the first one directly behind the last one taken,
and the buffer never holds a whole record (`WireInv`); a seek in progress has its
sequence number and an empty queue (`SeekInv`). Theorems: `TransportAccounted`,
`RecordsAreKept`, and the action properties `RecordsAreTakenInOrder` and
`SeeksAreExact`. For the NTP exchange, `ExchangeInv` says of everything in flight that
it carries times the two clocks have shown, in the order in which they were read, and
of the sample held that its offset is wrong by at most half its round trip and two
microseconds. The conversions are rounded divisions by variables: lemmas bound what a
conversion to fractions and back costs, first for one second and then across the end
of an era, and the rest is linear. Theorems: `ExchangeHolds`, `RepliesAreAccepted`
(`GenuineAccepted`), `NtpDeadlines` (`DeadlineAccurate`).

**`PlatformProofs`** (messages of any length, clocks with rings of any size, any
limits). `SocketInv` says how the descriptors are shared between program and kernel at
every step, that what is left of a call's limit is computed from its start
(`RemainingIs`: the difference on the ring is the time that passed), and which part of
the message the peer has. Theorems: `SocketLayer`, `HandlesAreExact`,
`CallsAreBounded`, `MessagesAreSentExactly`. `WriteInv` bounds what a write has spent
at each place of the drivers' loops; AudioQueue, which counts sleeps instead of
reading the clock, is bounded because no sleep outlasts its attempt. Theorem:
`WritesAreBounded`.

That the drivers implement `AudioDevice` rests on `OutputInv`: the packet of a call is
the first of the queue and behind every packet heard of (`OrderInv`), the device
accepted the part of it that the call counts as written (`AcceptedInv`), so the next
frames follow; and the buffers a driver holds are different ones and full, while the
one being claimed or filled is not among them and AudioQueue has marked all that it
has not given back (`BuffersOk`, `ClaimedOk`), so nothing queued is overwritten. What
AudioQueue and waveOut hold is `FlattenSeq` of their buffers without the part of the
first one already played (`Shown`). The library defines `FlattenSeq` by a choice of
prefixes; the lemmas `FlattenAppend` and `FlattenTail` are proved from it by the least
number principle. Each step of a driver is then an `Accept`, a `Play`, a `Close` (ALSA
after an underrun also closes: it has nothing left) or a stutter of the device
(`WriteSteps`, `TickDevice`, `CallbackKeeps`, `OpenCloseDevice`). Theorems:
`OutputAccounted`, `DriversImplementDevice`.

The delay a driver reports and the time at which a frame is heard need three more
invariants. `DelayInv`: buffers are claimed, queued and given back in turn (`InTurn`),
AudioQueue has marked no buffer it does not have but the one whose callback is due and
the one being filled (`BusyOk`), and the frames played and queued of waveOut are those
submitted, while the position kept from the last call is `played` on its ring and not
ahead of what the driver can tell by now (`WaveOk`). What it can tell is `Told`: all
frames in samples and in bytes, all but `MsFrames` in milliseconds (`ToldNear`), never
fewer later (`ToldGrows`); that the code's conversion yields it, modulo the ring, is
`FramesReported`. For a unit that is not samples this holds until the position has gone
around (`Lost`), and a position that is lost stays lost while the device is open. `StartInv`: what is queued is playing,
unless starting the driver failed, which stops the server. `DueInv`, until the position is lost: the frame at place
`i` of the queue is due within the margins of `now + i - 1`, and so is the rest of the
packet being written. The last one is what a decision taken on a delay measured before
the write depends on: the measured delay is right within `Overcount` (`InvHonest`), so
`PlayPacket` starts in time, and a write that has to wait sleeps while the driver plays
what it holds, so that the place behind the queue does not move. Theorems:
`QueuedIsDue`, `DelaysAreHonest`, `FramesAreHeardOnTime`.

The runs check what the theorems say on small instances, except for the type
invariants, `ChangesNoticed`, `SlotsReusedClean` and the inductive invariants
themselves, which rest on the proofs. The refinements of `StreamSpec` and of
`AudioDevice` are both checked and proved.

## 5. Only model-checked

* Liveness (`PauseStops`, `CatchesUp`, `SeekCompletes`, `Served`, `Terminates`,
  `WriteReturns`): everything that rests on fairness or `ENABLED` is out of the
  prover's reach.
* `FormatsExact` (wire formats): what a parser that folds over the bytes of a message
  computes is compared with a reference that is itself a recursive definition, an
  induction over data; for every format the two are compared over all messages up to a
  bound. (What the proof of pairing needs of TLV messages is proved, see above.)

## 6. Not modelled

* Codecs (`alac.c`, `aac.c`), cryptographic primitives, the arithmetic of SRP, RAOP
  authentication: computations on large inputs without interaction, out of TLC's
  reach. `Pairing` treats them symbolically.
* The text of RTSP headers, of request parameters and of the fields of an SDP line:
  the models start at what scanning finds, accepted or rejected. `bplist_real` needs floating point. What a
  TXT entry of a service says is data.
* `os.c` of the platforms (time, sleep, mutexes), `net_udp_send` and group
  membership: one system call each. How Windows chooses the network adapter that
  names the receiver: enumeration of system data.
* The mutex of the crypto pool: one atomic exchange in a loop, taken by the RTSP
  thread and, for the key of a session, by the audio thread. It excludes by itself;
  on the embedded platform the tasks have equal priorities, so the holder runs on.
* The limit of packets per poll of the RTP receiver, sample conversion and volume.
* The overshoot of a sleep: `WriteBounded` takes each of the 2 ms sleeps of
  `apple/audio.c`, which counts them instead of reading the clock, to end in its tick.
* A full queue while a seek discards: in `BufferedAudio` the queue is empty then, so of
  the hazard at `audio_pipeline.c:814` the runs exercise the back-pressure half.
* Clock drift: the offset between clocks is constant in the clock models.
* A buffered session of more than 2^23 records: the ring comparison is then
  ambiguous, see the hazard at `server.c:237`.
* `Withdrawn` speaks about a receiver that served. When the second announcement of
  `airplay_discovery_init` fails, the first service stays announced without a goodbye
  until its records expire; the code does not try to withdraw it.

## 7. Plan

Done: queue, control, control channel, pairing, audio loop, lifecycle of every
program, discovery, buffered transport, clocks, timed output, sockets, wire formats.
What is left, in this order:

1. An abstract reorder queue refined by `Playout`.
2. Timed playback over `Playout` itself instead of a set of packets.
