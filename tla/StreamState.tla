---------------------------- MODULE StreamState ----------------------------
(***************************************************************************)
(* The stream description the control thread publishes to the audio        *)
(* thread (rtsp_stream_state_t), and the updates that may be made to it.   *)
(*                                                                         *)
(* StreamSpec is the abstract specification of the control side: it says   *)
(* in which ways the stream may change, and nothing about connections,     *)
(* ownership or responses.  RtspControl implements it, and AudioService    *)
(* composes it with the audio thread.                                      *)
(***************************************************************************)
EXTENDS Integers

CONSTANTS
    Peers,        \* IP addresses of senders
    None,         \* a zeroed address, a null pointer
    Stamps,       \* RTP timestamps of RECORD and FLUSH boundaries
    Volumes,      \* volumes a sender sets
    MaxGen,       \* bound on generation for new sessions and transports
    MaxFlush      \* bound on flush_generation

ASSUME PeersAssumption == None \notin Peers
ASSUME StampsAssumption == Stamps \subseteq Nat /\ Stamps # {}
ASSUME MaxAssumption == MaxGen \in Nat /\ MaxFlush \in Nat

VARIABLE stream

(* Sessions, boundaries and anchors carry the generation of the session    *)
(* they were made for (of): the code has no such field, the properties     *)
(* need it.  A boundary whose has_ flag is clear is never read: it is      *)
(* normalised to NoFloor, 0 or NoAnchor, which stand for the cleared flag. *)
(* The port of the timing peer only feeds NTP requests and is left out.    *)
NoSession == [type |-> 0, of |-> 0]
NoAnchor == [playing |-> FALSE, of |-> 0]
NoFloor == [stamp |-> 0, exclusive |-> FALSE, of |-> 0]

Realtime == 96
Buffered == 103

EmptyStream ==
    [session |-> NoSession, has_session |-> FALSE, recording |-> FALSE,
     timing_peer |-> None, floor |-> NoFloor, buffered_flush_of |-> 0,
     anchor |-> NoAnchor, volume |-> 0, generation |-> 0, flush_generation |-> 0]

----------------------------------------------------------------------------
(* Mutants of Announced: the timing peer, or the boundary, of the session  *)
(* before survives.                                                        *)
AnnouncedKeepsPeer ==
    [stream EXCEPT
        !.session = [type |-> 0, of |-> stream.generation + 1],
        !.has_session = TRUE,
        !.recording = FALSE,
        !.floor = NoFloor,
        !.generation = @ + 1]

AnnouncedKeepsFloor ==
    [stream EXCEPT
        !.session = [type |-> 0, of |-> stream.generation + 1],
        !.has_session = TRUE,
        !.recording = FALSE,
        !.timing_peer = None,
        !.generation = @ + 1]

(* What the handlers write, as updates of the stream. *)
Announced ==
    [stream EXCEPT
        !.session = [type |-> 0, of |-> stream.generation + 1],
        !.has_session = TRUE,
        !.recording = FALSE,
        !.timing_peer = None,
        !.floor = NoFloor,
        !.generation = @ + 1]

Transported(ip) ==
    [stream EXCEPT
        !.timing_peer = ip,
        !.generation = @ + 1]

Flushed(has, stamp) ==
    [stream EXCEPT
        !.flush_generation = @ + 1,
        !.floor = IF has
                  THEN [stamp |-> stamp, exclusive |-> TRUE, of |-> stream.session.of]
                  ELSE NoFloor]

Paused == [stream EXCEPT !.recording = FALSE]

Recorded(has, stamp) ==
    IF has
    THEN [stream EXCEPT
            !.recording = TRUE,
            !.floor = [stamp |-> stamp, exclusive |-> FALSE, of |-> stream.session.of]]
    ELSE [stream EXCEPT !.recording = TRUE]

(* Mutant of Ended: the generation stays. *)
EndedQuietly ==
    [stream EXCEPT !.recording = FALSE, !.has_session = FALSE, !.session = NoSession]

(* TEARDOWN, and the owner's disconnect. *)
Ended ==
    [stream EXCEPT
        !.recording = FALSE,
        !.has_session = FALSE,
        !.session = NoSession,
        !.generation = @ + 1]

Loud(volume) == [stream EXCEPT !.volume = volume]

SetUp2(ip, type) ==
    [stream EXCEPT
        !.session = [type |-> type, of |-> stream.generation + 1],
        !.has_session = TRUE,
        !.recording = TRUE,
        !.floor = NoFloor,
        !.buffered_flush_of = 0,
        !.timing_peer = ip,
        !.anchor = NoAnchor,
        !.generation = @ + 1]

Anchored(rate) ==
    IF rate = 1
    THEN [stream EXCEPT !.anchor =
            [playing |-> TRUE, of |-> stream.session.of]]
    ELSE [stream EXCEPT !.anchor.playing = FALSE]

FlushedBuffered ==
    [stream EXCEPT
        !.buffered_flush_of = stream.session.of,
        !.floor = NoFloor,
        !.anchor.playing = FALSE,
        !.flush_generation = @ + 1]

----------------------------------------------------------------------------
(* The ways the stream may change: a new session at any time, everything   *)
(* else only while there is one.                                           *)
NewSession ==
    /\ stream.generation < MaxGen
    /\ \/ stream' = Announced
       \/ \E ip \in Peers, type \in {Realtime, Buffered} : stream' = SetUp2(ip, type)

Transport ==
    /\ stream.has_session
    /\ stream.generation < MaxGen
    /\ \E ip \in Peers : stream' = Transported(ip)

Flush ==
    /\ stream.has_session
    /\ stream.flush_generation < MaxFlush
    /\ \/ \E has \in BOOLEAN, t \in Stamps : stream' = Flushed(has, t)
       \/ stream' = FlushedBuffered

Record ==
    /\ stream.has_session
    /\ \E has \in BOOLEAN, t \in Stamps : stream' = Recorded(has, t)

Pause == stream.has_session /\ stream' = Paused

End == stream.has_session /\ stream' = Ended

Anchor == stream.has_session /\ \E rate \in {0, 1} : stream' = Anchored(rate)

Volume == \E v \in Volumes : stream' = Loud(v)

StreamInit == stream = EmptyStream

StreamNext ==
    \/ NewSession \/ Transport \/ Flush \/ Record \/ Pause \/ End \/ Anchor \/ Volume

StreamSpec == StreamInit /\ [][StreamNext]_stream

----------------------------------------------------------------------------
StreamType ==
    [session : [type : {0, Realtime, Buffered}, of : Nat],
     has_session : BOOLEAN, recording : BOOLEAN,
     timing_peer : Peers \cup {None},
     floor : [stamp : Nat, exclusive : BOOLEAN, of : Nat],
     buffered_flush_of : Nat,
     anchor : [playing : BOOLEAN, of : Nat],
     volume : Volumes \cup {0}, generation : Nat, flush_generation : Nat]

(* A flush boundary or a playback anchor that the audio thread would apply *)
(* was set for the current session, not left behind by an earlier one.     *)
BoundaryOfSession ==
    stream.has_session =>
        /\ stream.floor.of \in {0, stream.session.of}
        /\ stream.session.type = Buffered
              => stream.buffered_flush_of \in {0, stream.session.of}
        /\ stream.session.type # 0
              => stream.anchor.of \in {0, stream.session.of}

(* What the audio thread configures its decoder and sockets from.          *)
Announcement == <<stream.session, stream.timing_peer, stream.has_session>>

(* The audio thread notices a change only by generation: whatever replaces *)
(* the session or the timing peer moves the generation.                    *)
GenerationCovers ==
    [][Announcement' # Announcement => stream'.generation > stream.generation]_stream
=============================================================================
