--------------------------- MODULE BufferedAudio ---------------------------
(***************************************************************************)
(* The AirPlay 2 buffered transport of shared/audio/buffered_audio.c and   *)
(* the loop of audio_pipeline.c that reads it: length-prefixed records     *)
(* over one TCP connection, received in pieces, a seek that discards       *)
(* records through a sequence number, and a bounded queue behind it.       *)
(*                                                                         *)
(* The sender numbers its records by position; a record carries its        *)
(* position on a ring of 2*Half sequence numbers (2^24 in the code).  A    *)
(* byte on the wire knows the record it belongs to, the length that record *)
(* announces and its index, so a torn or misframed record can be seen.     *)
(***************************************************************************)
EXTENDS Integers, Sequences

CONSTANTS
    Half,        \* half of the sequence ring: 0x800000
    Base,        \* position of the sender's first record
    MaxRecords,  \* bound: records the sender numbers
    MaxWire,     \* bound: bytes in flight
    Lengths,     \* record lengths the sender announces, good and bad
    MinRecord,   \* shortest record accepted: 38
    Capacity,    \* sizeof data
    N,           \* AIRPLAY_PLAYOUT_PACKETS
    None

(* The 24-bit sequence comparison is meant for records closer together     *)
(* than half the ring: a session of 2^23 records lasts two days.           *)
ASSUME WindowAssumption ==
    Base \in Nat \ {0} /\ MaxRecords \in Nat /\ Half \in Nat /\ MaxRecords + 1 < Half
ASSUME LengthAssumption ==
    /\ Lengths \subseteq Nat /\ \A need \in Lengths : need >= 2
    /\ Capacity \in Nat /\ MinRecord \in 3 .. Capacity
ASSUME QueueAssumption == N \in Nat /\ N > 2

VARIABLES
    mode,        \* "idle": no session; "paused": not recording; "playing"
    client,      \* a sender's connection is open
    backlog,     \* who waits in the listener's queue: "sender", "stranger", None
    wire,        \* bytes of the connection not yet received
    eof,         \* the sender closed its side
    sent,        \* position of the sender's next record
    data,        \* b->data[0 .. used)
    discarding, discard_sequence,
    seek,        \* stream.buffered_flush_sequence, as a position
    count,       \* playout.count
    boundary,    \* history: position of the seek asked on this connection
    consumed     \* history: the last record taken from this connection

connection == <<client, wire, eof, data, discarding, boundary, consumed>>
vars == <<mode, connection, backlog, sent, discard_sequence, seek, count>>

Positions == Base .. Base + MaxRecords
Sequence(pos) == pos % (2 * Half)
Record(pos, need) == [i \in 1 .. need |-> [pos |-> pos, need |-> need, at |-> i]]

Init ==
    /\ mode = "idle"
    /\ client = FALSE
    /\ backlog = None
    /\ wire = <<>>
    /\ eof = FALSE
    /\ sent = Base
    /\ data = <<>>
    /\ discarding = FALSE
    /\ discard_sequence = 0
    /\ seek = None
    /\ count = 0
    /\ boundary = None
    /\ consumed = [pos |-> Base - 1, delivered |-> FALSE]

----------------------------------------------------------------------------
(* The sender and the network. *)
Connect(who) ==
    /\ backlog = None
    /\ backlog' = who
    /\ UNCHANGED <<mode, connection, sent, discard_sequence, seek, count>>

Send(need) ==
    /\ client /\ ~eof
    /\ sent < Base + MaxRecords
    /\ Len(wire) + need <= MaxWire
    /\ wire' = wire \o Record(sent, need)
    /\ sent' = sent + 1
    /\ UNCHANGED <<mode, client, eof, data, discarding, boundary, consumed, backlog,
                   discard_sequence, seek, count>>

(* The sender closes; a reset also loses what is in flight.                *)
HangUp ==
    /\ client /\ ~eof
    /\ eof' = TRUE
    /\ wire' \in {wire, <<>>}
    /\ UNCHANGED <<mode, client, data, discarding, boundary, consumed, backlog, sent,
                   discard_sequence, seek, count>>

----------------------------------------------------------------------------
(* Mutant of buffered_audio_disconnect: the partial record is kept. *)
disconnect_keeps_data ==
    /\ client' = FALSE
    /\ wire' = <<>>
    /\ eof' = FALSE
    /\ discarding' = FALSE
    /\ boundary' = None
    /\ UNCHANGED <<data, consumed>>

buffered_audio_disconnect ==
    /\ client' = FALSE
    /\ wire' = <<>>
    /\ eof' = FALSE
    /\ data' = <<>>
    /\ discarding' = FALSE
    /\ boundary' = None
    /\ UNCHANGED consumed

(* A record at or behind the boundary, by its distance on the ring.        *)
Distance(sequence) == (sequence - discard_sequence) % (2 * Half)

(* Mutants of Discards: the record of the boundary itself is kept; the     *)
(* distance is not looked at.                                              *)
DiscardsBehind(sequence) == discarding /\ Distance(sequence) >= Half
DiscardsAll(sequence) == discarding

Discards(sequence) ==
    discarding /\ (Distance(sequence) = 0 \/ Distance(sequence) >= Half)

(* A complete record: it is discarded, or handed to the queue, which may   *)
(* refuse it (authentication, a duplicate).                                *)
Consume(d) ==
    LET skip == Discards(Sequence(d[3].pos)) IN
    /\ data' = <<>>
    /\ consumed' = [pos |-> d[3].pos, delivered |-> ~skip]
    /\ IF skip THEN UNCHANGED <<discarding, count>>
               ELSE discarding' = FALSE /\ count' \in {count, count + 1}
    /\ UNCHANGED <<client, eof, boundary>>

(* Receiving with d in the buffer and w on the wire.  A timeout keeps what *)
(* is there; end of file and a bad length end the connection.              *)
Timeout(d) == data' = d /\ UNCHANGED <<client, eof, discarding, boundary, consumed, count>>

BadLength(d) == d[1].need < MinRecord \/ d[1].need > Capacity

ReceiveBody(d, w) ==
    IF BadLength(d) \/ (w = <<>> /\ eof)
    THEN buffered_audio_disconnect /\ UNCHANGED count
    ELSE IF w = <<>> THEN Timeout(d) /\ wire' = w
    ELSE \E n \in 1 .. Len(w) :
            /\ Len(d) + n <= d[1].need
            /\ wire' = SubSeq(w, n + 1, Len(w))
            /\ LET full == d \o SubSeq(w, 1, n) IN
               IF Len(full) < full[1].need THEN Timeout(full) ELSE Consume(full)

ReceiveHeader ==
    IF wire = <<>>
    THEN IF eof THEN buffered_audio_disconnect /\ UNCHANGED count
                ELSE Timeout(data) /\ wire' = wire
    ELSE \E n \in 1 .. 2 :
            /\ Len(data) + n <= 2 /\ n <= Len(wire)
            /\ LET d == data \o SubSeq(wire, 1, n)
                   w == SubSeq(wire, n + 1, Len(wire))
               IN IF Len(d) < 2 THEN Timeout(d) /\ wire' = w ELSE ReceiveBody(d, w)

(* net_tcp_accept.  What the sender sent before it was accepted counts as  *)
(* sent right after.  A stranger's connection is closed at once.           *)
AcceptSender ==
    /\ ~client
    /\ backlog = "sender"
    /\ backlog' = None
    /\ client' = TRUE
    /\ consumed' = [pos |-> sent - 1, delivered |-> FALSE]
    /\ UNCHANGED <<wire, eof, data, discarding, boundary, count>>

Refuse ==
    /\ ~client
    /\ backlog = "stranger"
    /\ backlog' = None
    /\ buffered_audio_disconnect
    /\ UNCHANGED count

Receive ==
    /\ client
    /\ IF Len(data) < 2 THEN ReceiveHeader ELSE ReceiveBody(data, wire)
    /\ UNCHANGED backlog

(* The loop of pipeline_receive_buffered goes on while this holds.         *)
MayRead == mode = "playing" /\ (discarding \/ count < N - 2)

buffered_audio_poll ==
    /\ MayRead
    /\ AcceptSender \/ Refuse \/ Receive
    /\ UNCHANGED <<mode, sent, discard_sequence, seek>>

----------------------------------------------------------------------------
(* What the audio thread does with the stream it reads. *)
PlayPacket ==
    /\ mode = "playing" /\ count > 0
    /\ count' = count - 1
    /\ UNCHANGED <<mode, connection, backlog, sent, discard_sequence, seek>>

(* Mutant of buffered_audio_flush: a seek drops the partial record. *)
flush_drops_data(until) ==
    /\ discard_sequence' = Sequence(until)
    /\ discarding' = TRUE
    /\ boundary' = until
    /\ data' = <<>>
    /\ UNCHANGED <<client, wire, eof, consumed>>

buffered_audio_flush(until) ==
    /\ discard_sequence' = Sequence(until)
    /\ discarding' = TRUE
    /\ boundary' = until
    /\ UNCHANGED <<client, wire, eof, data, consumed>>

(* start_audio_session: an empty queue, and the seek of the stream.        *)
StartAudio(until) ==
    /\ mode' = "playing"
    /\ count' = 0
    /\ IF until = None THEN UNCHANGED <<connection, discard_sequence>>
                       ELSE buffered_audio_flush(until)
    /\ UNCHANGED <<backlog, sent>>

(* FLUSHBUFFERED reaches the audio thread, at once or when it plays again. *)
FlushBuffered(until) ==
    /\ mode # "idle"
    /\ seek' = until
    /\ \/ mode = "playing" /\ StartAudio(until)
       \/ mode = "paused" /\ UNCHANGED <<mode, connection, backlog, sent, discard_sequence, count>>

Pause ==
    /\ mode = "playing"
    /\ mode' = "paused"
    /\ count' = 0
    /\ UNCHANGED <<connection, backlog, sent, discard_sequence, seek>>

Resume == mode = "paused" /\ StartAudio(seek) /\ UNCHANGED seek

(* SETUP of a stream, or its end: audio_pipeline_set_transport.            *)
set_transport(m) ==
    /\ mode' = m
    /\ count' = 0
    /\ seek' = None
    /\ buffered_audio_disconnect
    /\ UNCHANGED <<backlog, sent, discard_sequence>>

NewSession == set_transport("playing")
EndSession == mode # "idle" /\ set_transport("idle")

Next ==
    \/ \E who \in {"sender", "stranger"} : Connect(who)
    \/ \E need \in Lengths : Send(need)
    \/ HangUp
    \/ buffered_audio_poll
    \/ PlayPacket
    \/ \E until \in Positions : FlushBuffered(until)
    \/ Pause \/ Resume \/ NewSession \/ EndSession

(* The audio thread polls again and again while it plays.                  *)
Spec == Init /\ [][Next]_vars /\ WF_vars(buffered_audio_poll)

----------------------------------------------------------------------------
(* The buffer always holds the beginning of exactly one record: nothing of *)
(* an earlier record, an earlier connection or a dropped one is in it,     *)
(* wherever TCP cut the stream and whenever seeks and hang-ups came; and   *)
(* reading stops before the last two slots of the queue, so that no record *)
(* that was read is lost for lack of room.                                 *)
RecordsKept ==
    /\ \A i \in 1 .. Len(data) : data[i].at = i /\ data[i].pos = data[1].pos
    /\ count <= N - 2

(* The records of a connection are taken one by one, each exactly once, in *)
(* the order in which they were sent.                                      *)
TakenInOrder ==
    [][client /\ consumed' # consumed => consumed'.pos = consumed.pos + 1]_vars

(* A seek is exact: after it nothing up to its boundary reaches the queue, *)
(* and nothing beyond it is discarded, across the wrap of the sequence     *)
(* numbers and whatever was in flight.                                     *)
SeekExact ==
    [][client /\ consumed' # consumed =>
          (consumed'.delivered <=> (boundary = None \/ consumed'.pos > boundary))]_vars

(* A seek ends: once a record beyond the boundary is in flight, playback   *)
(* is taken up again, even though the queue may be full meanwhile.         *)
SeekCompletes ==
    \A b \in Positions :
        discarding /\ mode = "playing" /\ boundary = b
              /\ (\E i \in 1 .. Len(wire) : wire[i].pos > b)
            ~> (~discarding \/ mode # "playing" \/ boundary # b)

(* "Discard through this 24-bit wire sequence": a pending seek ends only   *)
(* with a record beyond it or with the sender's connection or session.     *)
SeekNotCancelled ==
    [][discarding /\ ~discarding' /\ mode' = mode /\ seek' = seek
          => consumed' # consumed \/ (client /\ ~client')]_vars
=============================================================================
