------------------------------ MODULE Playout ------------------------------
(***************************************************************************)
(* The compressed-packet reorder queue of shared/audio/playout.c.          *)
(*                                                                         *)
(* RTP sequence numbers live on a ring of 2*Half values (2^16 in the       *)
(* code), RTP timestamps on a ring of 2*HalfStamp values (2^32).  The      *)
(* module makes no assumption on the packets that arrive: every sequence   *)
(* number and timestamp may be pushed at any time, as on an open UDP port. *)
(***************************************************************************)
EXTENDS Integers, FiniteSets

CONSTANTS
    Half,       \* half of the sequence ring: 32768
    HalfStamp,  \* half of the timestamp ring: 2^31
    N           \* AIRPLAY_PLAYOUT_PACKETS

ASSUME HalfAssumption == Half \in Nat \ {0}
ASSUME HalfStampAssumption == HalfStamp \in Nat \ {0}
ASSUME NAssumption == N \in Nat \ {0}

Seqs == 0 .. 2 * Half - 1
Stamps == 0 .. 2 * HalfStamp - 1
Slots == 1 .. N

VARIABLES
    packets,         \* packets[i]: slot i, its payload left out
    next_sequence,
    count,
    started,         \* a packet was played since the last reset
    have_sequence,   \* next_sequence is meaningful
    have_floor, floor_exclusive, timestamp_floor

vars == <<packets, next_sequence, count, started, have_sequence,
          have_floor, floor_exclusive, timestamp_floor>>

floor == <<have_floor, floor_exclusive, timestamp_floor>>

(* What an invalid slot holds is never read: its fields are normalised.    *)
FreeSlot == [valid |-> FALSE, sequence |-> 0, timestamp |-> 0]
Slot == [valid : BOOLEAN, sequence : Seqs, timestamp : Stamps]

Valid == {i \in Slots : packets[i].valid}

----------------------------------------------------------------------------
(* Ring arithmetic.  Dist(s, n, h) is the unsigned difference s - n on a   *)
(* ring of 2*h values; the signed difference is negative when it is in the *)
(* upper half.                                                             *)
Dist(s, n, h) == IF s >= n THEN s - n ELSE s - n + 2 * h

Behind(s, n, h) == Dist(s, n, h) >= h

Succ(s) == IF s = 2 * Half - 1 THEN 0 ELSE s + 1

(* Distance of the packet in slot i from the next one to play.             *)
Ahead(i) == Dist(packets[i].sequence, next_sequence, Half)

----------------------------------------------------------------------------
Init ==
    /\ packets = [i \in Slots |-> FreeSlot]
    /\ next_sequence = 0
    /\ count = 0
    /\ started = FALSE
    /\ have_sequence = FALSE
    /\ have_floor = FALSE
    /\ floor_exclusive = FALSE
    /\ timestamp_floor = 0

ClearQueue ==
    /\ packets' = [i \in Slots |-> FreeSlot]
    /\ count' = 0
    /\ next_sequence' = 0
    /\ started' = FALSE
    /\ have_sequence' = FALSE

playout_reset ==
    /\ ClearQueue
    /\ have_floor' = FALSE
    /\ UNCHANGED <<floor_exclusive, timestamp_floor>>

playout_set_floor(timestamp, exclusive) ==
    /\ ClearQueue
    /\ have_floor' = TRUE
    /\ floor_exclusive' = exclusive
    /\ timestamp_floor' = timestamp

(* The tests of playout_push, in the order of the code.                    *)
BelowFloor(timestamp) ==
    /\ have_floor
    /\ \/ Behind(timestamp, timestamp_floor, HalfStamp)
       \/ timestamp = timestamp_floor /\ floor_exclusive

(* Mutant of Stale: late packets are stored after playback started. *)
StaleNever(sequence) == FALSE

Stale(sequence) ==
    /\ have_sequence
    /\ started
    /\ Behind(sequence, next_sequence, Half)

Duplicate(sequence) == \E i \in Valid : packets[i].sequence = sequence

Full == Valid = Slots

(* The value playout_push returns: 1 stored, 0 dropped, -1 over a limit.   *)
PushResult(sequence, timestamp, fits) ==
    IF ~fits THEN -1
    ELSE IF BelowFloor(timestamp) \/ Stale(sequence) \/ Duplicate(sequence) THEN 0
    ELSE IF Full THEN -1
    ELSE 1

(* Mutant of RestartsAt: an earlier packet before playback moves nothing. *)
RestartsFirst(sequence) == ~have_sequence

(* next_sequence moves to the packet stored when it is the first one, or   *)
(* an earlier one before playback.                                         *)
RestartsAt(sequence) ==
    \/ ~have_sequence
    \/ ~started /\ Behind(sequence, next_sequence, Half)

FirstFree(i) == i \in Slots \ Valid /\ \A j \in Slots \ Valid : i <= j

Store(sequence, timestamp) ==
    /\ next_sequence' = IF RestartsAt(sequence) THEN sequence ELSE next_sequence
    /\ have_sequence' = TRUE
    /\ \E i \in Slots :
          /\ FirstFree(i)
          /\ packets' = [packets EXCEPT ![i] =
                [valid |-> TRUE, sequence |-> sequence, timestamp |-> timestamp]]
    /\ count' = count + 1
    /\ UNCHANGED <<started, floor>>

playout_push(sequence, timestamp, fits) ==
    IF PushResult(sequence, timestamp, fits) = 1
    THEN Store(sequence, timestamp)
    ELSE UNCHANGED vars

(* playout_peek: the valid slot nearest ahead of next_sequence.            *)
Peek(i) == i \in Valid /\ \A j \in Valid : Ahead(i) <= Ahead(j)

(* playout_pop of the slot playout_peek returned, its only use.            *)
playout_pop ==
    \E i \in Slots :
        /\ Peek(i)
        /\ next_sequence' = Succ(packets[i].sequence)
        /\ started' = TRUE
        /\ have_floor' = FALSE
        /\ packets' = [packets EXCEPT ![i] = FreeSlot]
        /\ count' = count - 1
        /\ UNCHANGED <<have_sequence, floor_exclusive, timestamp_floor>>

Next ==
    \/ playout_reset
    \/ \E t \in Stamps, e \in BOOLEAN : playout_set_floor(t, e)
    \/ \E s \in Seqs, t \in Stamps, f \in BOOLEAN : playout_push(s, t, f)
    \/ playout_pop

Spec == Init /\ [][Next]_vars

----------------------------------------------------------------------------
(* Every field of playout_t stays in the range of its C type.              *)
TypeOK ==
    /\ packets \in [Slots -> Slot]
    /\ next_sequence \in Seqs
    /\ count \in Nat
    /\ started \in BOOLEAN
    /\ have_sequence \in BOOLEAN
    /\ have_floor \in BOOLEAN
    /\ floor_exclusive \in BOOLEAN
    /\ timestamp_floor \in Stamps

(* count, which the receive loops use for back-pressure, is the number of  *)
(* occupied slots after any mix of pushes, pops, flushes and overflows.    *)
CountExact == count = Cardinality(Valid)

(* Two occupied slots never hold the same sequence number, so a packet     *)
(* that is retransmitted or duplicated by the network is decoded once.     *)
NoDuplicates ==
    \A i, j \in Valid : packets[i].sequence = packets[j].sequence => i = j

(* The reorder queue never strands packets across the ring: before         *)
(* playback next_sequence is itself queued, and a queued packet in the     *)
(* upper half of the ring always has another one at most half a ring       *)
(* before it, so playing up to that one brings it into the lower half.     *)
Chained ==
    /\ started => have_sequence
    /\ ~have_sequence => Valid = {}
    /\ have_sequence /\ ~started => \E i \in Valid : Ahead(i) = 0
    /\ \A i \in Valid : Ahead(i) >= Half =>
          \E j \in Valid : Ahead(j) < Ahead(i) /\ Ahead(i) - Ahead(j) <= Half

(* The queue of playout.c is consistent after any calls in any order: the  *)
(* count is exact, no sequence number waits twice, nothing is stranded.    *)
QueueSound == CountExact /\ NoDuplicates /\ Chained

(* Playback between two resets never moves backwards: a packet that is     *)
(* played lies 0 .. Half-1 after the position playback has reached,        *)
(* whatever sequence numbers the network delivered.                        *)
PlayOrder ==
    [][started /\ started' /\ next_sequence' # next_sequence
          => Dist(next_sequence', next_sequence, Half) \in 1 .. Half]_vars
=============================================================================
