--------------------------- MODULE PipelineProofs --------------------------
(***************************************************************************)
(* Proofs about two of the parts audio_pipeline.c is made of, for any      *)
(* lengths, delays and time constants: the sender's clocks (StreamClocks)  *)
(* and the buffered transport (BufferedAudio).  They share no state.       *)
(***************************************************************************)
EXTENDS StreamClocks, BufferedAudio, SequenceTheorems, TLAPS

----------------------------------------------------------------------------
(* The PTP clock.                                                          *)

(* The types of its messages, of ptp_sync_t and of the anchor.             *)
SyncType ==
    [source : Sources, at : Nat, two_step : BOOLEAN, correction : Corrections,
     follow_correction : Nat]

PtpType ==
    [clock_id : Clocks \cup {0}, pending : BOOLEAN,
     sync : [sequence : Nat, source : Sources \cup {NoSource}, received_us : Nat,
             correction : Nat],
     ready : BOOLEAN, sample : [offset_us : Int, updated_us : Nat]]

AnchorType ==
    [valid : BOOLEAN, clock_id : Clocks \cup {0}, network_us : Int, at : Nat]

(* The PTP state has its type.                                             *)
PtpTypes ==
    /\ now \in Nat
    /\ syncs \subseteq SyncType
    /\ ptp \in PtpType
    /\ anchor \in AnchorType

(* What is in flight is no older than MaxDelay, and of one source no two   *)
(* messages were sent at one time.                                         *)
FlightInv ==
    /\ \A m \in syncs : m.at <= now /\ now - m.at <= MaxDelay
    /\ \A m, k \in syncs : m.source = k.source /\ m.at = k.at => m = k

(* When the Sync that waits for its Follow_Up was sent.                    *)
SentAt == ptp.sync.sequence - ptp.sync.source.domain

(* The Sync that waits is one of the selected clock that took at most      *)
(* MaxDelay; a message in flight that would match it is that Sync.         *)
PendingInv ==
    ptp.pending =>
        /\ ptp.sync.source \in Sources
        /\ ptp.sync.source.clock = ptp.clock_id
        /\ ptp.sync.received_us - SentAt \in 0 .. MaxDelay
        /\ ptp.sync.received_us <= now
        /\ SentAt = now => \E m \in syncs : m.source = ptp.sync.source /\ m.at = now
        /\ \A m \in syncs : m.source = ptp.sync.source /\ m.at = SentAt =>
              /\ m.correction = ptp.sync.correction
              /\ ptp.sync.received_us - m.at >= m.correction + m.follow_correction

(* The offset is that of the selected clock, short of it by at most the    *)
(* delay of a message.                                                     *)
SampleInv ==
    ptp.ready =>
        /\ ptp.clock_id \in Clocks
        /\ ClockTheta[ptp.clock_id] - ptp.sample.offset_us \in 0 .. MaxDelay

(* The anchor gives the time of its frame by its own clock.                *)
AnchorInv ==
    anchor.valid =>
        /\ anchor.clock_id \in Clocks
        /\ anchor.network_us = anchor.at + ClockTheta[anchor.clock_id]

(* The inductive invariant of the PTP clock.                               *)
PtpInv == PtpTypes /\ FlightInv /\ PendingInv /\ SampleInv /\ AnchorInv

----------------------------------------------------------------------------
(* Truncating division takes a sample not above the offset no further than *)
(* the sample.                                                             *)
LEMMA QuotientToward ==
    ASSUME NEW a \in Int, NEW b \in Nat \ {0}, a <= 0
    PROVE  Quotient(a, b) \in Int /\ a <= Quotient(a, b) /\ Quotient(a, b) <= 0
<1> DEFINE n == -a
           d == n \div b
<1>1. n \in Nat
  OBVIOUS
<1>2. d \in Nat /\ d <= n
  BY <1>1
<1>3. a >= 0 => a = 0 /\ a \div b = 0
  OBVIOUS
<1>4. Quotient(a, b) = IF a >= 0 THEN a \div b ELSE -d
  BY DEF Quotient
<1> HIDE DEF d
<1> QED BY <1>1, <1>2, <1>3, <1>4

(* The fields of the PTP state.                                            *)
LEMMA PtpFields ==
    ASSUME PtpTypes
    PROVE  /\ now \in Nat
           /\ ptp.clock_id \in Clocks \cup {0}
           /\ ptp.pending \in BOOLEAN /\ ptp.ready \in BOOLEAN
           /\ ptp.sync.sequence \in Nat /\ ptp.sync.received_us \in Nat
           /\ ptp.sync.correction \in Nat
           /\ ptp.sync.source \in Sources \cup {NoSource}
           /\ ptp.sample.offset_us \in Int /\ ptp.sample.updated_us \in Nat
           /\ \A m \in syncs :
                 /\ m.source \in Sources /\ m.at \in Nat /\ m.two_step \in BOOLEAN
                 /\ m.correction \in Nat /\ m.follow_correction \in Nat
           /\ MaxDelay \in Nat /\ Smooth \in Nat \ {0}
BY TimesAssumption DEF PtpTypes, PtpType, SyncType

(* A source is a clock with a sequence of its own.                         *)
LEMMA SourceFields ==
    ASSUME NEW s \in Sources
    PROVE  s.clock \in Clocks /\ s.domain \in Nat /\ ClockTheta[s.clock] \in Int
BY ClocksAssumption DEF Sources

(* The offset stays within the delay of a message of its clock.            *)
LEMMA FilteredBounds ==
    ASSUME PtpInv, NEW p \in PtpType, NEW offset \in Int, NEW theta \in Int,
           p.ready = ptp.ready, p.sample = ptp.sample,
           ptp.ready => theta = ClockTheta[ptp.clock_id],
           theta - offset \in 0 .. MaxDelay
    PROVE  /\ Filtered(p, offset) \in Int
           /\ theta - Filtered(p, offset) \in 0 .. MaxDelay
<1> DEFINE old == ptp.sample.offset_us
           step == Quotient(offset - old, Smooth)
<1>1. old \in Int /\ MaxDelay \in Nat /\ Smooth \in Nat \ {0} /\ now \in Nat
      /\ ptp.sample.updated_us \in Nat
  BY PtpFields DEF PtpInv
<1>2. CASE ~ptp.ready \/ now - ptp.sample.updated_us > Window \/ offset > old
  <2>1. Filtered(p, offset) = offset
    BY <1>2 DEF Filtered
  <2> QED BY <2>1
<1>3. CASE ~(~ptp.ready \/ now - ptp.sample.updated_us > Window \/ offset > old)
  <2>1. Filtered(p, offset) = old + step
    BY <1>3 DEF Filtered
  <2>2. theta - old \in 0 .. MaxDelay
    BY <1>3 DEF PtpInv, SampleInv
  <2>3. offset - old \in Int /\ offset - old <= 0
    BY <1>1, <1>3
  <2>4. step \in Int /\ offset - old <= step /\ step <= 0
    BY <1>1, <2>3, QuotientToward
  <2> HIDE DEF step, old
  <2> QED BY <1>1, <2>1, <2>2, <2>4 DEF old
<1> QED BY <1>2, <1>3

(* A sample of the selected clock is taken.                                *)
LEMMA SampledKeeps ==
    ASSUME PtpInv, NEW p \in PtpType, NEW offset \in Int,
           p.ready = ptp.ready, p.sample = ptp.sample, p.clock_id = ptp.clock_id,
           ptp.clock_id \in Clocks,
           ClockTheta[ptp.clock_id] - offset \in 0 .. MaxDelay,
           ptp' = Sampled(p, offset), UNCHANGED <<now, syncs, anchor>>
    PROVE  PtpInv'
<1> DEFINE s == [offset_us |-> Filtered(p, offset), updated_us |-> now]
<1>1. ClockTheta[ptp.clock_id] \in Int
  BY ClocksAssumption
<1>2. /\ Filtered(p, offset) \in Int
      /\ ClockTheta[ptp.clock_id] - Filtered(p, offset) \in 0 .. MaxDelay
  BY <1>1, FilteredBounds
<1>3. s \in [offset_us : Int, updated_us : Nat]
  BY <1>2 DEF PtpInv, PtpTypes
<1>4. s.offset_us = Filtered(p, offset)
  OBVIOUS
<1>5. NoSync \in [sequence : Nat, source : Sources \cup {NoSource}, received_us : Nat,
                  correction : Nat]
  BY DEF NoSync
<1>6. ptp' = [p EXCEPT !.sample = s, !.ready = TRUE, !.pending = FALSE, !.sync = NoSync]
  BY DEF Sampled
<1> HIDE DEF s
<1>7. ptp' \in PtpType
  BY <1>3, <1>5, <1>6, Zenon DEF PtpType
<1>8. ~ptp'.pending /\ ptp'.clock_id = ptp.clock_id /\ ptp'.sample.offset_us = s.offset_us
  BY <1>6 DEF PtpType
<1>9. PtpTypes' /\ FlightInv' /\ AnchorInv'
  BY <1>7 DEF PtpInv, PtpTypes, FlightInv, AnchorInv
<1>10. PendingInv' /\ SampleInv'
  BY <1>2, <1>4, <1>8 DEF PendingInv, SampleInv
<1> QED BY <1>9, <1>10 DEF PtpInv

----------------------------------------------------------------------------
(* ptp_sync_init.                                                          *)
LEMMA PtpStarts == PtpInit => PtpInv
<1> SUFFICES ASSUME PtpInit PROVE PtpInv
  OBVIOUS
<1> USE DEF PtpInit
<1>1. NoSync \in [sequence : Nat, source : Sources \cup {NoSource}, received_us : Nat,
                  correction : Nat]
  BY DEF NoSync
<1>2. NoSample \in [offset_us : Int, updated_us : Nat]
  BY DEF NoSample
<1>3. ptp \in PtpType
  BY <1>1, <1>2, Zenon DEF PtpType
<1>4. anchor \in AnchorType
  BY DEF AnchorType, NoAnchor
<1>5. ~ptp.pending /\ ~ptp.ready /\ ~anchor.valid
  BY DEF NoAnchor
<1> QED BY <1>3, <1>4, <1>5
        DEF PtpInv, PtpTypes, FlightInv, PendingInv, SampleInv, AnchorInv

(* Time passes and late messages are lost.                                 *)
LEMMA TickKeeps ==
    ASSUME PtpInv, PtpTick
    PROVE  PtpInv'
<1>1. /\ now' = now + 1 /\ now \in Nat
      /\ syncs' \subseteq syncs
      /\ \A m \in syncs' : now' - m.at <= MaxDelay
      /\ UNCHANGED <<ptp, anchor>>
  BY DEF PtpInv, PtpTypes, PtpTick
<1>2. PtpTypes'
  BY <1>1 DEF PtpInv, PtpTypes
<1>3. FlightInv'
  <2>1. \A m \in syncs' : m \in syncs /\ m.at \in Nat
    BY <1>1 DEF PtpInv, PtpTypes, SyncType
  <2> QED BY <1>1, <2>1 DEF PtpInv, FlightInv
<1>4. PendingInv'
  <2> SUFFICES ASSUME ptp.pending PROVE PendingInv'
    BY <1>1 DEF PendingInv
  <2>1. /\ ptp.sync.received_us \in Nat /\ MaxDelay \in Nat /\ ptp.sync.sequence \in Nat
        /\ ptp.sync.source \in Sources
    BY PtpFields DEF PtpInv, PendingInv
  <2>2. SentAt \in Int
    BY <2>1, SourceFields DEF SentAt
  <2>3. SentAt' = SentAt
    BY <1>1 DEF SentAt
  <2>4. SentAt # now'
    BY <1>1, <2>1, <2>2 DEF PtpInv, PendingInv
  <2>5. ptp.sync.received_us <= now'
    BY <1>1, <2>1 DEF PtpInv, PendingInv
  <2> QED BY <1>1, <2>3, <2>4, <2>5 DEF PtpInv, PendingInv
<1> QED BY <1>1, <1>2, <1>3, <1>4 DEF PtpInv, SampleInv, AnchorInv

(* A clock sends a Sync, at most one at a time from each source.           *)
LEMMA SendKeeps ==
    ASSUME PtpInv, NEW source \in Sources, SendSync(source)
    PROVE  PtpInv'
<1>1. PICK two_step \in BOOLEAN, c1 \in Corrections, c2 \in Corrections :
          syncs' = syncs \cup {[source |-> source, at |-> now, two_step |-> two_step,
                               correction |-> c1,
                               follow_correction |-> IF two_step THEN c2 ELSE 0]}
  BY DEF SendSync
<1> DEFINE n == [source |-> source, at |-> now, two_step |-> two_step, correction |-> c1,
                 follow_correction |-> IF two_step THEN c2 ELSE 0]
<1>2. /\ UNCHANGED <<now, ptp, anchor>> /\ now \in Nat
      /\ \A m \in syncs : m.source = source => m.at < now
  BY DEF SendSync, PtpInv, PtpTypes
<1>3. n \in SyncType /\ n.source = source /\ n.at = now
  BY <1>2, TimesAssumption DEF SyncType
<1>4. syncs' = syncs \cup {n}
  BY <1>1
<1> HIDE DEF n
<1>5. \A m \in syncs : m.source = source => m.at # now
  BY <1>2
<1>6. PtpTypes'
  BY <1>2, <1>3, <1>4 DEF PtpInv, PtpTypes
<1>7. FlightInv'
  <2>1. MaxDelay \in Nat
    BY TimesAssumption
  <2> QED BY <1>2, <1>3, <1>4, <1>5, <2>1 DEF PtpInv, FlightInv
<1>8. PendingInv'
  <2> SUFFICES ASSUME ptp.pending PROVE PendingInv'
    BY <1>2 DEF PendingInv
  <2>1. SentAt' = SentAt
    BY <1>2 DEF SentAt
  <2>2. ~(n.source = ptp.sync.source /\ n.at = SentAt)
    BY <1>2, <1>3, <1>5 DEF PtpInv, PendingInv
  <2> QED BY <1>2, <1>4, <2>1, <2>2 DEF PtpInv, PendingInv
<1> QED BY <1>2, <1>6, <1>7, <1>8 DEF PtpInv, SampleInv, AnchorInv

(* A Sync of the selected clock: of two steps it waits, of one it is the   *)
(* sample.                                                                 *)
LEMMA ReceiveSyncKeeps ==
    ASSUME PtpInv, NEW m \in syncs, ReceiveSync(m)
    PROVE  PtpInv'
<1> DEFINE w == [sequence |-> SequenceId(m), source |-> m.source, received_us |-> now,
                 correction |-> m.correction]
           p == [ptp EXCEPT !.pending = TRUE, !.sync = w]
           o == Stamp(m) + m.correction - now
<1>1. /\ m.source.clock = ptp.clock_id /\ now - m.at >= m.correction + m.follow_correction
      /\ ptp' = IF m.two_step THEN p ELSE Sampled(p, o)
      /\ UNCHANGED <<now, syncs, anchor>>
  BY DEF ReceiveSync, Arrives
<1>2. /\ now \in Nat /\ m.source \in Sources /\ m.at \in Nat /\ MaxDelay \in Nat
      /\ m.correction \in Nat /\ m.follow_correction \in Nat
      /\ ptp \in PtpType
  BY PtpFields DEF PtpInv, PtpTypes
<1>3. m.source.clock \in Clocks /\ m.source.domain \in Nat /\ ClockTheta[ptp.clock_id] \in Int
  BY <1>1, <1>2, SourceFields
<1>4. now - m.at <= MaxDelay /\ m.at <= now
  BY DEF PtpInv, FlightInv
<1>5. /\ w \in [sequence : Nat, source : Sources \cup {NoSource}, received_us : Nat,
                correction : Nat]
      /\ w.source = m.source /\ w.sequence = m.at + m.source.domain
      /\ w.received_us = now /\ w.correction = m.correction
  BY <1>2, <1>3 DEF SequenceId
<1> HIDE DEF w
<1>6. p \in PtpType
  BY <1>2, <1>5, Zenon DEF PtpType
<1>7. /\ p.pending /\ p.sync = w /\ p.ready = ptp.ready /\ p.sample = ptp.sample
      /\ p.clock_id = ptp.clock_id
  BY <1>2 DEF PtpType
<1> HIDE DEF p
<1>8. CASE m.two_step
  <2>1. ptp' = p
    BY <1>1, <1>8
  <2>2. SentAt' = m.at
    BY <1>2, <1>3, <1>5, <1>7, <2>1 DEF SentAt
  <2>3. PendingInv'
    <3>1. \A k \in syncs : k.source = m.source /\ k.at = m.at => k = m
      BY DEF PtpInv, FlightInv
    <3>2. now - m.at \in 0 .. MaxDelay /\ now <= now
      BY <1>2, <1>4
    <3> QED BY <1>1, <1>2, <1>5, <1>7, <2>1, <2>2, <3>1, <3>2 DEF PendingInv
  <2>4. PtpTypes' /\ FlightInv' /\ AnchorInv' /\ SampleInv'
    BY <1>1, <1>6, <1>7, <2>1 DEF PtpInv, PtpTypes, FlightInv, AnchorInv, SampleInv
  <2> QED BY <2>3, <2>4 DEF PtpInv
<1>9. CASE ~m.two_step
  <2>1. o = m.at + ClockTheta[ptp.clock_id] + m.correction - now
    BY <1>1 DEF Stamp
  <2>2. o \in Int /\ ClockTheta[ptp.clock_id] - o \in 0 .. MaxDelay
    <3> HIDE DEF o
    <3> QED BY <1>1, <1>2, <1>3, <1>4, <2>1
  <2>3. ptp' = Sampled(p, o)
    BY <1>1, <1>9
  <2> HIDE DEF o
  <2> QED BY <1>1, <1>3, <1>6, <1>7, <2>2, <2>3, SampledKeeps
<1> QED BY <1>2, <1>8, <1>9, PtpFields

(* A Follow_Up completes the Sync that waits: it is that Sync's own.       *)
LEMMA FollowUpKeeps ==
    ASSUME PtpInv, NEW m \in syncs, ReceiveFollowUp(m)
    PROVE  PtpInv'
<1> DEFINE o == Stamp(m) + m.follow_correction + ptp.sync.correction - ptp.sync.received_us
<1>1. /\ m.source.clock = ptp.clock_id /\ ptp.pending
      /\ SequenceId(m) = ptp.sync.sequence /\ m.source = ptp.sync.source
      /\ ptp' = Sampled(ptp, o)
      /\ UNCHANGED <<now, syncs, anchor>>
  BY DEF ReceiveFollowUp, Matches
<1>2. /\ m.source \in Sources /\ m.at \in Nat /\ MaxDelay \in Nat
      /\ m.correction \in Nat /\ m.follow_correction \in Nat
      /\ ptp.sync.received_us \in Nat /\ ptp.sync.correction \in Nat
      /\ ptp.sync.sequence \in Nat
      /\ ptp \in PtpType
  BY PtpFields DEF PtpInv, PtpTypes
<1>3. m.source.clock \in Clocks /\ m.source.domain \in Nat /\ ClockTheta[ptp.clock_id] \in Int
  BY <1>1, <1>2, SourceFields
<1>4. SentAt = m.at
  BY <1>1, <1>2, <1>3 DEF SentAt, SequenceId
<1>5. /\ m.correction = ptp.sync.correction
      /\ ptp.sync.received_us - m.at >= m.correction + m.follow_correction
      /\ ptp.sync.received_us - m.at \in 0 .. MaxDelay
  BY <1>1, <1>4 DEF PtpInv, PendingInv
<1>6. o = m.at + ClockTheta[ptp.clock_id] + m.follow_correction + ptp.sync.correction
            - ptp.sync.received_us
  BY <1>1 DEF Stamp
<1> HIDE DEF o
<1>7. o \in Int /\ ClockTheta[ptp.clock_id] - o \in 0 .. MaxDelay
  BY <1>2, <1>3, <1>5, <1>6
<1> QED BY <1>1, <1>2, <1>3, <1>7, SampledKeeps

(* Another clock is selected: nothing of the clock before stays.           *)
LEMMA SetClockKeeps ==
    ASSUME PtpInv, NEW id \in Clocks \cup {0}, ptp' = ptp_sync_set_clock(id),
           UNCHANGED <<now, syncs>>
    PROVE  /\ ptp' \in PtpType
           /\ PendingInv' /\ SampleInv'
<1>1. ptp \in PtpType /\ PendingInv /\ SampleInv
  BY DEF PtpInv, PtpTypes
<1>2. CASE ptp.clock_id = id
  BY <1>1, <1>2 DEF ptp_sync_set_clock, PendingInv, SampleInv, SentAt
<1>3. CASE ptp.clock_id # id
  <2>1. NoSync \in [sequence : Nat, source : Sources \cup {NoSource}, received_us : Nat,
                    correction : Nat]
    BY DEF NoSync
  <2>2. NoSample \in [offset_us : Int, updated_us : Nat]
    BY DEF NoSample
  <2>3. ptp' \in PtpType
    BY <1>1, <1>3, <2>1, <2>2, Zenon DEF ptp_sync_set_clock, PtpType
  <2>4. ~ptp'.pending /\ ~ptp'.ready
    BY <1>1, <1>3 DEF ptp_sync_set_clock, PtpType
  <2> QED BY <2>3, <2>4 DEF PendingInv, SampleInv
<1> QED BY <1>2, <1>3

(* A session starts.                                                       *)
LEMMA ConfigureKeeps ==
    ASSUME PtpInv, Configure
    PROVE  PtpInv'
<1>1. /\ ptp' = ptp_sync_set_clock(0) /\ anchor' = NoAnchor /\ UNCHANGED <<now, syncs>>
  BY DEF Configure
<1>2. ptp' \in PtpType /\ PendingInv' /\ SampleInv'
  BY <1>1, SetClockKeeps
<1>3. anchor' \in AnchorType /\ ~anchor'.valid
  BY <1>1 DEF NoAnchor, AnchorType
<1> QED BY <1>1, <1>2, <1>3 DEF PtpInv, PtpTypes, FlightInv, AnchorInv

(* An anchor is installed together with its clock.                         *)
LEMMA SetAnchorKeeps ==
    ASSUME PtpInv, NEW c \in Clocks, SetAnchor(c)
    PROVE  PtpInv'
<1>1. /\ ptp' = ptp_sync_set_clock(c) /\ UNCHANGED <<now, syncs>>
      /\ anchor' = [valid |-> TRUE, clock_id |-> c, network_us |-> now + ClockTheta[c],
                    at |-> now]
  BY DEF SetAnchor
<1>2. ptp' \in PtpType /\ PendingInv' /\ SampleInv'
  BY <1>1, SetClockKeeps
<1>3. now \in Nat /\ ClockTheta[c] \in Int
  BY ClocksAssumption DEF PtpInv, PtpTypes
<1>4. anchor' \in AnchorType
  BY <1>1, <1>3 DEF AnchorType
<1>5. AnchorInv'
  BY <1>1 DEF AnchorInv
<1> QED BY <1>1, <1>2, <1>4, <1>5 DEF PtpInv, PtpTypes, FlightInv

----------------------------------------------------------------------------
(* A RAOP stream uses the NTP exchange: its PTP clock stays idle.          *)
ClocksInv ==
    /\ PtpInv
    /\ stream_type = 0 => syncs = {} /\ ~ptp.pending

(* Every message, anchor and session keeps the offset and the anchor those *)
(* of the clock they are labelled with.                                    *)
THEOREM ClocksAccounted == ClocksSpec => []ClocksInv
<1>1. ClocksInit => ClocksInv
  BY PtpStarts DEF ClocksInit, ClocksInv, PtpInit
<1>2. ClocksInv /\ [ClocksNext]_clockVars => ClocksInv'
  <2> SUFFICES ASSUME ClocksInv, [ClocksNext]_clockVars PROVE ClocksInv'
    OBVIOUS
  <2>1. CASE stream_type = 96 /\ PtpNext /\ UNCHANGED stream_type
    <3>1. PtpInv'
      BY <2>1, TickKeeps, SendKeeps, ReceiveSyncKeeps, FollowUpKeeps, ConfigureKeeps,
         SetAnchorKeeps DEF ClocksInv, PtpNext
    <3> QED BY <2>1, <3>1 DEF ClocksInv
  <2>2. CASE /\ stream_type = 0 /\ NtpNext /\ UNCHANGED <<syncs, ptp, anchor>>
             /\ UNCHANGED stream_type
    <3>1. now' \in Nat
      <4>1. now' = now \/ now' = now + 1
        BY <2>2, Zenon DEF NtpNext, NtpTick, ntp_sync_init, ntp_sync_request, SenderReceives,
                    SenderReplies, ntp_sync_process_packet
      <4> QED BY <4>1 DEF ClocksInv, PtpInv, PtpTypes
    <3>2. syncs = {} /\ ~ptp.pending
      BY <2>2 DEF ClocksInv
    <3> QED BY <2>2, <3>1, <3>2 DEF ClocksInv, PtpInv, PtpTypes, FlightInv, PendingInv,
                                    SampleInv, AnchorInv
  <2>3. CASE UNCHANGED clockVars
    BY <2>3 DEF clockVars, ptpVars, ClocksInv, PtpInv, PtpTypes, FlightInv, PendingInv,
                SentAt, SampleInv, AnchorInv
  <2> QED BY <2>1, <2>2, <2>3 DEF ClocksNext
<1> QED BY <1>1, <1>2, PTL DEF ClocksSpec

(* ptp_sync_deadline is never early, and late by no more than a message    *)
(* may take: messages that are delayed, repeated or reordered, and changes *)
(* of clock and anchor between them, never combine an anchor with the      *)
(* offset of another clock, or a Follow_Up with another Sync.              *)
THEOREM DeadlinesCorrect == ClocksSpec => []DeadlineCorrect
<1>1. ClocksInv => DeadlineCorrect
  <2> SUFFICES ASSUME ClocksInv, HasDeadline
               PROVE  Deadline - anchor.at \in 0 .. MaxDelay
    BY DEF DeadlineCorrect
  <2> DEFINE theta == ClockTheta[ptp.clock_id]
  <2>1. anchor.network_us = anchor.at + theta /\ theta - ptp.sample.offset_us \in 0 .. MaxDelay
    BY DEF HasDeadline, ClocksInv, PtpInv, SampleInv, AnchorInv
  <2>2. anchor.at \in Nat /\ theta \in Int /\ ptp.sample.offset_us \in Int
    BY ClocksAssumption, PtpFields
       DEF HasDeadline, ClocksInv, PtpInv, PtpTypes, AnchorType, SampleInv
  <2> HIDE DEF theta
  <2> QED BY <2>1, <2>2 DEF Deadline
<1> QED BY <1>1, ClocksAccounted, PTL

----------------------------------------------------------------------------
(* The buffered transport.                                                 *)

(* What the connection still has to give: the partial record and the wire. *)
Unread == data \o wire

Byte == [pos : Nat, need : Nat, at : Nat]

(* The number of bytes of s before the record that byte i belongs to.      *)
Before(s, i) == i - s[i].at

(* s is a sequence of records, one behind the other in the order of their  *)
(* positions; the last one may be cut short.                               *)
RecordsOf(s) ==
    /\ s \in Seq(Byte)
    /\ \A i \in 1 .. Len(s) :
        /\ s[i].need >= 2 /\ s[i].at \in 1 .. s[i].need
        /\ Before(s, i) >= 0
        /\ \A k \in 1 .. Len(s) :
              /\ Before(s, i) < k /\ k <= Before(s, i) + s[i].need
                    => /\ s[k].pos = s[i].pos /\ s[k].need = s[i].need
                       /\ s[k].at = k - Before(s, i)
              /\ k = Before(s, i) + s[i].need + 1 => s[k].pos = s[i].pos + 1 /\ s[k].at = 1

(* The last record of s is whole, and the one before position p.           *)
Whole(s, p) ==
    \A i \in 1 .. Len(s) :
        /\ Before(s, i) + s[i].need <= Len(s)
        /\ Before(s, i) + s[i].need = Len(s) => s[i].pos = p - 1

TransportTypes ==
    /\ mode \in {"idle", "paused", "playing"}
    /\ client \in BOOLEAN /\ eof \in BOOLEAN /\ discarding \in BOOLEAN
    /\ data \in Seq(Byte) /\ wire \in Seq(Byte)
    /\ sent \in Base .. Base + MaxRecords
    /\ seek \in Positions \cup {None}
    /\ count \in Nat
    /\ consumed \in [pos : Int, delivered : BOOLEAN]

(* The wire carries on where the buffer and the records taken end, and the *)
(* buffer never holds a whole record.                                      *)
WireInv ==
    /\ RecordsOf(Unread)
    /\ \A i \in 1 .. Len(Unread) : Unread[i].pos \in Base .. sent - 1
    /\ Unread # <<>> => Unread[1].pos = consumed.pos + 1
    /\ data # <<>> => Len(data) < data[1].need
    /\ client /\ ~eof => Whole(Unread, sent)
    /\ client /\ ~eof /\ Unread = <<>> => consumed.pos = sent - 1
    /\ ~client => Unread = <<>> /\ ~eof

(* A seek in progress is at its boundary's sequence number with an empty   *)
(* queue; one that ended has passed its boundary.                          *)
SeekInv ==
    /\ discarding =>
        /\ boundary \in Positions /\ boundary # None
        /\ discard_sequence = Sequence(boundary)
        /\ count = 0
    /\ boundary # None /\ ~discarding => client /\ consumed.pos >= boundary
    /\ boundary \in Positions \cup {None}

(* The inductive invariant of the buffered transport.                      *)
TransportInv == TransportTypes /\ WireInv /\ SeekInv /\ count <= N - 2

(* Joining sequences of bytes.                                             *)
LEMMA Joined ==
    ASSUME NEW s \in Seq(Byte), NEW t \in Seq(Byte)
    PROVE  /\ s \o t \in Seq(Byte)
           /\ Len(s \o t) = Len(s) + Len(t)
           /\ \A i \in 1 .. Len(s) : (s \o t)[i] = s[i]
           /\ \A i \in 1 .. Len(t) : (s \o t)[Len(s) + i] = t[i]
           /\ s \o t = <<>> <=> s = <<>> /\ t = <<>>
OBVIOUS

(* A part of a sequence of bytes.                                          *)
LEMMA Part ==
    ASSUME NEW s \in Seq(Byte), NEW m \in 1 .. Len(s) + 1, NEW n \in Nat,
           m - 1 <= n, n <= Len(s)
    PROVE  /\ SubSeq(s, m, n) \in Seq(Byte)
           /\ Len(SubSeq(s, m, n)) = n - m + 1
           /\ \A i \in 1 .. n - m + 1 : SubSeq(s, m, n)[i] = s[m + i - 1]
OBVIOUS

(* Bytes that move from the wire to the buffer stay where they are in what *)
(* is unread.                                                              *)
LEMMA Moved ==
    ASSUME NEW d \in Seq(Byte), NEW w \in Seq(Byte), NEW n \in 0 .. Len(w)
    PROVE  /\ d \o SubSeq(w, 1, n) \in Seq(Byte)
           /\ SubSeq(w, n + 1, Len(w)) \in Seq(Byte)
           /\ Len(d \o SubSeq(w, 1, n)) = Len(d) + n
           /\ (d \o SubSeq(w, 1, n)) \o SubSeq(w, n + 1, Len(w)) = d \o w
<1> DEFINE a == SubSeq(w, 1, n)
           b == SubSeq(w, n + 1, Len(w))
<1>0. Len(w) \in Nat /\ Len(d) \in Nat
  OBVIOUS
<1>1. a \in Seq(Byte) /\ Len(a) = n /\ \A i \in 1 .. n : a[i] = w[i]
  BY <1>0, Part
<1>2. /\ b \in Seq(Byte) /\ Len(b) = Len(w) - n
      /\ \A i \in 1 .. Len(w) - n : b[i] = w[n + i]
  BY <1>0, Part
<1> HIDE DEF a, b
<1>3. a \o b = w
  <2>1. a \o b \in Seq(Byte) /\ Len(a \o b) = Len(w)
    BY <1>0, <1>1, <1>2, ConcatProperties
  <2>2. ASSUME NEW i \in 1 .. Len(w) PROVE (a \o b)[i] = w[i]
    <3>1. CASE i <= n
      BY <1>0, <1>1, <1>2, <3>1, Joined
    <3>2. CASE i > n
      <4>1. PICK j \in 1 .. Len(w) - n : i = n + j
        BY <1>0, <3>2
      <4>2. (a \o b)[n + j] = b[j]
        BY <1>0, <1>1, <1>2, <4>1, Joined
      <4> QED BY <1>2, <4>1, <4>2
    <3>3. i <= n \/ i > n
      BY <1>0
    <3> QED BY <3>1, <3>2, <3>3
  <2> QED BY <2>1, <2>2, SeqEqual
<1>4. (d \o a) \o b = d \o w
  <2>1. (d \o a) \o b = d \o (a \o b)
    BY <1>1, <1>2
  <2> QED BY <1>3, <2>1
<1>5. d \o a \in Seq(Byte) /\ Len(d \o a) = Len(d) + n
  BY <1>1, ConcatProperties
<1> QED BY <1>2, <1>4, <1>5 DEF a, b

(* A byte of a sequence of records has the fields of its type.             *)
LEMMA Fields ==
    ASSUME NEW s \in Seq(Byte), NEW i \in 1 .. Len(s)
    PROVE  s[i].pos \in Nat /\ s[i].need \in Nat /\ s[i].at \in Nat
<1>1. s[i] \in Byte
  OBVIOUS
<1> QED BY <1>1 DEF Byte

(* A sequence of records begins with the first byte of one.                *)
LEMMA FirstRecord ==
    ASSUME NEW s, RecordsOf(s), s # <<>>
    PROVE  /\ Len(s) \in Nat /\ Len(s) >= 1 /\ s[1].need >= 2 /\ s[1].at = 1
           /\ \A k \in 1 .. Len(s) :
                 k <= s[1].need => /\ s[k].pos = s[1].pos /\ s[k].need = s[1].need
                                   /\ s[k].at = k
           /\ s[1].need + 1 <= Len(s) => s[s[1].need + 1].pos = s[1].pos + 1
<1>1. s \in Seq(Byte) /\ Len(s) \in Nat /\ Len(s) >= 1
  BY EmptySeq DEF RecordsOf
<1>2. 1 \in 1 .. Len(s) /\ s[1].pos \in Nat /\ s[1].need \in Nat /\ s[1].at \in Nat
  BY <1>1, Fields
<1>3. s[1].need >= 2 /\ s[1].at >= 1 /\ Before(s, 1) >= 0
  BY <1>1, <1>2 DEF RecordsOf
<1>4. s[1].at = 1 /\ Before(s, 1) = 0
  BY <1>2, <1>3 DEF Before
<1>5. ASSUME NEW k \in 1 .. Len(s), k <= s[1].need
      PROVE  s[k].pos = s[1].pos /\ s[k].need = s[1].need /\ s[k].at = k
  <2>1. /\ 0 < k /\ k <= 0 + s[1].need
              => /\ s[k].pos = s[1].pos /\ s[k].need = s[1].need
                 /\ s[k].at = k - 0
    BY <1>1, <1>2, <1>4 DEF RecordsOf
  <2> QED BY <1>1, <1>2, <1>5, <2>1
<1>6. ASSUME s[1].need + 1 <= Len(s)
      PROVE  s[s[1].need + 1].pos = s[1].pos + 1
  <2>1. PICK k \in 1 .. Len(s) : k = s[1].need + 1
    BY <1>1, <1>2, <1>6
  <2>2. k = 0 + s[1].need + 1 => s[k].pos = s[1].pos + 1
    BY <1>1, <1>2, <1>4 DEF RecordsOf
  <2> QED BY <1>2, <2>1, <2>2
<1> QED BY <1>1, <1>3, <1>4, <1>5, <1>6

(* A window of a sequence, seen from need bytes further on.                *)
LEMMA Shifted ==
    ASSUME NEW c \in Int, NEW m \in Int, NEW k \in Int, NEW need \in Int, NEW n \in Int,
           n = need + k
    PROVE  /\ c < k <=> c + need < n
           /\ k <= c + m <=> n <= c + need + m
           /\ k = c + m + 1 <=> n = c + need + m + 1
           /\ n - (c + need) = k - c
OBVIOUS

(* What follows the first record is a sequence of records too.             *)
LEMMA Dropped ==
    ASSUME NEW s, RecordsOf(s), s # <<>>, s[1].need <= Len(s), NEW p \in Int
    PROVE  LET t == SubSeq(s, s[1].need + 1, Len(s)) IN
           /\ RecordsOf(t)
           /\ \A i \in 1 .. Len(t) : \E k \in 1 .. Len(s) : t[i] = s[k]
           /\ t # <<>> => t[1].pos = s[1].pos + 1
           /\ Whole(s, p) => Whole(t, p)
           /\ Whole(s, p) /\ t = <<>> => s[1].pos = p - 1
<1>0. s \in Seq(Byte) /\ Len(s) \in Nat /\ 1 \in 1 .. Len(s)
  BY FirstRecord DEF RecordsOf
<1>1. PICK need \in 2 .. Len(s) : need = s[1].need
  BY <1>0, FirstRecord, Fields
<1> DEFINE t == SubSeq(s, need + 1, Len(s))
<1>2. /\ t \in Seq(Byte) /\ Len(t) = Len(s) - need
      /\ \A i \in 1 .. Len(s) - need : t[i] = s[need + i]
  BY <1>0, <1>1, Part
<1> HIDE DEF t
<1>a. /\ Len(s) \in Int /\ need \in Int /\ need >= 2 /\ need <= Len(s)
      /\ Len(t) \in Int /\ Len(t) = Len(s) - need
  BY <1>0, <1>1, <1>2
<1>3. ASSUME NEW i \in 1 .. Len(t)
      PROVE  /\ need + i \in 1 .. Len(s) /\ t[i] = s[need + i]
             /\ Before(t, i) = Before(s, need + i) - need
             /\ t[i].pos \in Nat /\ t[i].need \in Nat /\ t[i].at \in Nat
  <2>1. need + i \in 1 .. Len(s) /\ t[i] = s[need + i]
    BY <1>0, <1>1, <1>2
  <2>2. t[i].pos \in Nat /\ t[i].need \in Nat /\ t[i].at \in Nat
    BY <1>2, Fields
  <2> QED BY <1>0, <1>1, <2>1, <2>2 DEF Before
<1>4. ASSUME NEW i \in 1 .. Len(t)
      PROVE  Before(t, i) >= 0
  <2>0. PICK j \in 1 .. Len(s) : j = need + i /\ Before(t, i) = Before(s, j) - need
    BY <1>3
  <2> DEFINE before == Before(s, j)
  <2>1. /\ j \in 1 .. Len(s) /\ before >= 0 /\ before \in Int
        /\ s[j].need \in Nat /\ s[j].at \in 1 .. s[j].need /\ s[j].at = j - before
    BY <1>0, <1>1, Fields DEF Before, RecordsOf
  <2> HIDE DEF before
  <2>2. SUFFICES ASSUME before < need PROVE FALSE
    BY <1>0, <1>1, <2>0, <2>1 DEF before
  <2>3. need \in 1 .. Len(s) /\ 1 <= need /\ before < need /\ need <= before + s[j].need
    BY <1>a, <2>0, <2>1, <2>2
  <2>4. s[need].at = need - before
    BY <2>1, <2>3 DEF RecordsOf, before
  <2>5. s[need].at = need
    BY <1>0, <1>1, FirstRecord
  <2>6. before = 0
    BY <1>0, <1>1, <2>1, <2>4, <2>5
  <2>7. s[1].need = s[j].need
    <3>1. before < 1 /\ 1 <= before + s[j].need
      BY <2>1, <2>6
    <3> QED BY <1>0, <2>1, <3>1 DEF RecordsOf, before
  <2> QED BY <1>0, <1>1, <2>0, <2>1, <2>6, <2>7
<1>5. ASSUME NEW i \in 1 .. Len(t), NEW k \in 1 .. Len(t)
      PROVE  /\ t[i].need >= 2 /\ t[i].at \in 1 .. t[i].need
             /\ Before(t, i) < k /\ k <= Before(t, i) + t[i].need
                   => /\ t[k].pos = t[i].pos /\ t[k].need = t[i].need
                      /\ t[k].at = k - Before(t, i)
             /\ k = Before(t, i) + t[i].need + 1 => t[k].pos = t[i].pos + 1 /\ t[k].at = 1
  <2>1. PICK j \in 1 .. Len(s), n \in 1 .. Len(s) : j = need + i /\ n = need + k
    BY <1>3
  <2>2. /\ t[i] = s[j] /\ t[k] = s[n] /\ Before(s, j) = Before(t, i) + need
        /\ Before(t, i) \in Int
    <3>1. PICK c \in Int, e \in Int : c = Before(t, i) /\ e = Before(s, j)
      <4>1. i \in Int /\ t[i].at \in Int /\ t[i] = s[j]
        BY <1>a, <1>3, <2>1
      <4> QED BY <2>1, <4>1 DEF Before
    <3>2. t[i] = s[j] /\ t[k] = s[n]
      BY <1>a, <1>3, <2>1
    <3>3. Before(s, j) = Before(t, i) + need
      BY <1>a, <1>3, <2>1, <3>1
    <3> QED BY ONLY <3>1, <3>2, <3>3
  <2>3. /\ s[j].need >= 2 /\ s[j].at \in 1 .. s[j].need
        /\ Before(s, j) < n /\ n <= Before(s, j) + s[j].need
              => /\ s[n].pos = s[j].pos /\ s[n].need = s[j].need
                 /\ s[n].at = n - Before(s, j)
        /\ n = Before(s, j) + s[j].need + 1 => s[n].pos = s[j].pos + 1 /\ s[n].at = 1
    BY <2>1 DEF RecordsOf
  <2>4. t[i].need \in Nat /\ t[k].at \in Nat
    BY <1>3
  <2>5. PICK c \in Int, m \in Nat : c = Before(t, i) /\ m = t[i].need
    BY ONLY <2>2, <2>4, Zenon
  <2>6. i \in Int /\ k \in Int /\ n = need + k /\ Before(s, j) = c + need
    BY <1>a, <2>1, <2>2, <2>5
  <2>7. /\ c < k /\ k <= c + m => /\ s[n].pos = s[j].pos /\ s[n].need = s[j].need
                                  /\ s[n].at = k - c
        /\ k = c + m + 1 => s[n].pos = s[j].pos + 1 /\ s[n].at = 1
    <3>1. /\ c < k => c + need < n
          /\ k <= c + m => n <= c + need + m
          /\ k = c + m + 1 => n = c + need + m + 1
          /\ n - (c + need) = k - c
      <4>1. n \in Int
        BY <1>a
      <4> QED BY <1>a, <2>6, <4>1, Shifted
    <3> QED BY <2>2, <2>3, <2>5, <2>6, <3>1
  <2> QED BY <2>2, <2>3, <2>5, <2>7
<1>6. RecordsOf(t)
  BY <1>2, <1>4, <1>5 DEF RecordsOf
<1>7. ASSUME Whole(s, p)
      PROVE  Whole(t, p)
  <2> SUFFICES ASSUME NEW i \in 1 .. Len(t)
               PROVE  /\ Before(t, i) + t[i].need <= Len(t)
                      /\ Before(t, i) + t[i].need = Len(t) => t[i].pos = p - 1
    BY DEF Whole
  <2>1. PICK j \in 1 .. Len(s) : j = need + i
    BY <1>3
  <2>2. t[i] = s[j] /\ Before(s, j) = Before(t, i) + need /\ Before(t, i) \in Int
    <3>1. PICK c \in Int, e \in Int : c = Before(t, i) /\ e = Before(s, j)
      <4>1. i \in Int /\ t[i].at \in Int /\ t[i] = s[j]
        BY <1>a, <1>3, <2>1
      <4> QED BY <2>1, <4>1 DEF Before
    <3> QED BY <1>a, <1>3, <2>1, <3>1
  <2>3. /\ Before(s, j) + s[j].need <= Len(s)
        /\ Before(s, j) + s[j].need = Len(s) => s[j].pos = p - 1
    BY <1>7 DEF Whole
  <2>4. t[i].need \in Nat
    BY <1>3
  <2>5. PICK c \in Int, m \in Nat : c = Before(t, i) /\ m = t[i].need
    BY ONLY <2>2, <2>4, Zenon
  <2>6. c + need + m <= Len(s) /\ (c + need + m = Len(s) => s[j].pos = p - 1)
    BY <2>2, <2>3, <2>5
  <2>7. c + m <= Len(t) /\ (c + m = Len(t) => s[j].pos = p - 1)
    <3>1. PICK x \in Int, y \in Int : x = Len(s) /\ y = Len(t)
      BY <1>a, <2>6
    <3>2. y = x - need /\ need \in Int
      BY <1>a, <3>1
    <3>3. c + need + m <= x => c + m <= y
      BY ONLY <3>2, x \in Int, c \in Int, m \in Int
    <3>4. c + m = y => c + need + m = x
      BY ONLY <3>2, x \in Int, c \in Int, m \in Int
    <3> QED BY ONLY <2>6, <3>1, <3>3, <3>4
  <2> QED BY <2>2, <2>5, <2>7
<1>8. t # <<>> => t[1].pos = s[1].pos + 1
  <2> SUFFICES ASSUME t # <<>> PROVE t[1].pos = s[1].pos + 1
    OBVIOUS
  <2>1. 1 \in 1 .. Len(t)
    BY <1>2, EmptySeq
  <2> QED BY <1>0, <1>1, <1>2, <1>3, <2>1, FirstRecord
<1>9. ASSUME Whole(s, p), t = <<>>
      PROVE  s[1].pos = p - 1
  <2>1. Len(s) = need
    BY <1>0, <1>1, <1>2, <1>9
  <2>2. Before(s, 1) = 0
    BY <1>0, <1>1, FirstRecord DEF Before
  <2> QED BY <1>0, <1>1, <1>9, <2>1, <2>2 DEF Whole
<1>10. \A i \in 1 .. Len(t) : \E k \in 1 .. Len(s) : t[i] = s[k]
  BY <1>3
<1> QED BY <1>1, <1>6, <1>7, <1>8, <1>9, <1>10 DEF t

(* The beginning of a sequence of records is one.                          *)
LEMMA Prefix ==
    ASSUME NEW d \in Seq(Byte), NEW w \in Seq(Byte), RecordsOf(d \o w)
    PROVE  RecordsOf(d)
<1> DEFINE s == d \o w
<1>1. \A i \in 1 .. Len(d) : i \in 1 .. Len(s) /\ s[i] = d[i]
  BY Joined
<1>2. RecordsOf(s)
  OBVIOUS
<1> HIDE DEF s
<1>3. \A i \in 1 .. Len(d) : Before(d, i) = Before(s, i)
  BY <1>1 DEF Before
<1>4. ASSUME NEW i \in 1 .. Len(d)
      PROVE  /\ d[i].need >= 2 /\ d[i].at \in 1 .. d[i].need
             /\ Before(d, i) >= 0
             /\ \A k \in 1 .. Len(d) :
                  /\ Before(d, i) < k /\ k <= Before(d, i) + d[i].need
                        => /\ d[k].pos = d[i].pos /\ d[k].need = d[i].need
                           /\ d[k].at = k - Before(d, i)
                  /\ k = Before(d, i) + d[i].need + 1
                        => d[k].pos = d[i].pos + 1 /\ d[k].at = 1
  <2>1. /\ s[i].need >= 2 /\ s[i].at \in 1 .. s[i].need
        /\ Before(s, i) >= 0
        /\ \A k \in 1 .. Len(d) :
             /\ Before(s, i) < k /\ k <= Before(s, i) + s[i].need
                   => /\ s[k].pos = s[i].pos /\ s[k].need = s[i].need
                      /\ s[k].at = k - Before(s, i)
             /\ k = Before(s, i) + s[i].need + 1
                   => s[k].pos = s[i].pos + 1 /\ s[k].at = 1
    BY <1>1, <1>2 DEF RecordsOf
  <2> QED BY <1>1, <1>3, <2>1
<1> QED BY <1>4 DEF RecordsOf

(* The bytes of a record that is sent.                                     *)
LEMMA RecordBytes ==
    ASSUME NEW p \in Nat, NEW need \in Nat
    PROVE  /\ Record(p, need) \in Seq(Byte) /\ Len(Record(p, need)) = need
           /\ \A i \in 1 .. need : /\ Record(p, need)[i].pos = p
                                   /\ Record(p, need)[i].need = need
                                   /\ Record(p, need)[i].at = i
<1>1. \A i \in 1 .. need : [pos |-> p, need |-> need, at |-> i] \in Byte
  BY DEF Byte
<1> QED BY <1>1 DEF Record

(* A record sent behind whole ones makes a longer sequence of whole ones.  *)
LEMMA Appended ==
    ASSUME NEW s, RecordsOf(s), NEW p \in Nat, Whole(s, p), NEW need \in Nat, need >= 2
    PROVE  LET t == s \o Record(p, need) IN
           /\ RecordsOf(t) /\ Whole(t, p + 1)
           /\ \A i \in 1 .. Len(t) : t[i].pos = p \/ \E k \in 1 .. Len(s) : t[i] = s[k]
           /\ t # <<>> /\ (s # <<>> => t[1] = s[1]) /\ (s = <<>> => t[1].pos = p)
<1> DEFINE r == Record(p, need)
           t == s \o r
<1>1. s \in Seq(Byte) /\ Len(s) \in Nat
  BY DEF RecordsOf
<1>2. /\ r \in Seq(Byte) /\ Len(r) = need
      /\ \A i \in 1 .. need : /\ r[i].pos = p
                              /\ r[i].need = need
                              /\ r[i].at = i
  BY RecordBytes, Zenon
<1> HIDE DEF r
<1>3. /\ t \in Seq(Byte) /\ Len(t) = Len(s) + need
      /\ \A i \in 1 .. Len(s) : t[i] = s[i]
      /\ \A i \in 1 .. need : t[Len(s) + i] = r[i]
  BY <1>1, <1>2, Joined
<1> HIDE DEF t
<1>4. ASSUME NEW i \in 1 .. Len(t)
      PROVE  \/ i \in 1 .. Len(s) /\ t[i] = s[i] /\ Before(t, i) = Before(s, i)
             \/ /\ i \in Len(s) + 1 .. Len(t) /\ t[i].pos = p /\ t[i].need = need
                /\ t[i].at = i - Len(s) /\ Before(t, i) = Len(s)
  <2>1. CASE i <= Len(s)
    BY <1>1, <1>3, <2>1 DEF Before
  <2>2. CASE i > Len(s)
    <3>1. PICK j \in 1 .. need : i = Len(s) + j
      BY <1>1, <1>3, <2>2
    <3>2. t[i].pos = p /\ t[i].need = need /\ t[i].at = j
      BY <1>2, <1>3, <3>1
    <3> QED BY <1>1, <1>3, <2>2, <3>1, <3>2 DEF Before
  <2>3. i \in Int
    BY <1>1, <1>3
  <2> QED BY <1>1, <2>1, <2>2, <2>3
<1>5. ASSUME NEW i \in 1 .. Len(s)
      PROVE  /\ s[i].pos \in Nat /\ s[i].need \in Nat /\ s[i].at \in Nat
             /\ Before(s, i) \in Int
  <2>1. s[i].pos \in Nat /\ s[i].need \in Nat /\ s[i].at \in Nat
    BY <1>1, Fields
  <2> QED BY <1>1, <2>1 DEF Before
<1>6. RecordsOf(t)
  <2> SUFFICES ASSUME NEW i \in 1 .. Len(t), NEW k \in 1 .. Len(t)
               PROVE  /\ t[i].need >= 2 /\ t[i].at \in 1 .. t[i].need
                      /\ Before(t, i) >= 0
                      /\ Before(t, i) < k /\ k <= Before(t, i) + t[i].need
                            => /\ t[k].pos = t[i].pos /\ t[k].need = t[i].need
                               /\ t[k].at = k - Before(t, i)
                      /\ k = Before(t, i) + t[i].need + 1
                            => t[k].pos = t[i].pos + 1 /\ t[k].at = 1
    BY <1>3 DEF RecordsOf
  <2>1. CASE i \in 1 .. Len(s) /\ t[i] = s[i] /\ Before(t, i) = Before(s, i)
    <3>1. /\ s[i].need >= 2 /\ s[i].at \in 1 .. s[i].need /\ Before(s, i) >= 0
          /\ Before(s, i) + s[i].need <= Len(s)
          /\ Before(s, i) + s[i].need = Len(s) => s[i].pos = p - 1
      BY <2>1 DEF RecordsOf, Whole
    <3>2. CASE k \in 1 .. Len(s) /\ t[k] = s[k]
      <4>1. /\ Before(s, i) < k /\ k <= Before(s, i) + s[i].need
                  => /\ s[k].pos = s[i].pos /\ s[k].need = s[i].need
                     /\ s[k].at = k - Before(s, i)
            /\ k = Before(s, i) + s[i].need + 1 => s[k].pos = s[i].pos + 1 /\ s[k].at = 1
        BY <2>1, <3>2 DEF RecordsOf
      <4> QED BY <2>1, <3>1, <3>2, <4>1
    <3>3. CASE k \in Len(s) + 1 .. Len(t) /\ t[k].pos = p /\ t[k].at = k - Len(s)
      <4>1. PICK b \in Int, m \in Int, q \in Int :
                b = Before(s, i) /\ m = s[i].need /\ q = s[i].pos
        BY <1>5, <2>1
      <4>2. ~(k <= b + m) /\ (k = b + m + 1 => q = p - 1 /\ k = Len(s) + 1)
        <5>1. b + m <= Len(s) /\ (b + m = Len(s) => q = p - 1)
          BY <3>1, <4>1
        <5>2. k \in Int /\ k > Len(s) /\ Len(s) \in Int
          BY <1>1, <1>3, <3>3
        <5> QED BY <5>1, <5>2
      <4> QED BY <1>1, <2>1, <3>1, <3>3, <4>1, <4>2
    <3> QED BY <1>4, <3>2, <3>3
  <2>2. CASE /\ i \in Len(s) + 1 .. Len(t) /\ t[i].pos = p /\ t[i].need = need
             /\ t[i].at = i - Len(s) /\ Before(t, i) = Len(s)
    <3>1. k \in Int /\ i \in Int /\ k <= Len(s) + need /\ i <= Len(s) + need /\ i > Len(s)
      BY <1>1, <1>3, <2>2
    <3>2. CASE k > Len(s)
      <4>1. t[k].pos = p /\ t[k].need = need /\ t[k].at = k - Len(s)
        BY <1>1, <1>4, <3>1, <3>2
      <4> QED BY <1>1, <2>2, <3>1, <4>1
    <3>3. CASE k <= Len(s)
      BY <1>1, <2>2, <3>1, <3>3
    <3> QED BY <1>1, <3>1, <3>2, <3>3
  <2> QED BY <1>4, <2>1, <2>2
<1>7. Whole(t, p + 1)
  <2> SUFFICES ASSUME NEW i \in 1 .. Len(t)
               PROVE  /\ Before(t, i) + t[i].need <= Len(t)
                      /\ Before(t, i) + t[i].need = Len(t) => t[i].pos = p + 1 - 1
    BY DEF Whole
  <2>1. CASE i \in 1 .. Len(s) /\ t[i] = s[i] /\ Before(t, i) = Before(s, i)
    <3>1. Before(s, i) + s[i].need <= Len(s)
      BY <2>1 DEF Whole
    <3>2. PICK b \in Int, m \in Int : b = Before(s, i) /\ m = s[i].need
      BY <1>5, <2>1
    <3>3. b + m < Len(t)
      BY <1>1, <1>3, <3>1, <3>2
    <3> QED BY <1>1, <1>3, <2>1, <3>2, <3>3
  <2>2. CASE t[i].pos = p /\ t[i].need = need /\ Before(t, i) = Len(s)
    BY <1>1, <1>3, <2>2
  <2> QED BY <1>4, <2>1, <2>2
<1>8. \A i \in 1 .. Len(t) : t[i].pos = p \/ \E k \in 1 .. Len(s) : t[i] = s[k]
  BY <1>4
<1>9. t # <<>> /\ (s # <<>> => t[1] = s[1]) /\ (s = <<>> => t[1].pos = p)
  <2>1. Len(t) >= 2 /\ 1 \in 1 .. Len(t)
    BY <1>1, <1>3
  <2>2. ASSUME s # <<>> PROVE t[1] = s[1]
    <3>1. 1 \in 1 .. Len(s)
      BY <1>1, <2>2, EmptySeq
    <3> QED BY <1>3, <3>1
  <2>3. ASSUME s = <<>> PROVE t[1].pos = p
    BY <1>4, <2>1, <2>3
  <2> QED BY <2>1, <2>2, <2>3
<1> QED BY <1>6, <1>7, <1>8, <1>9 DEF t, r

(* The remainder is the only one.                                          *)
LEMMA RemainderUnique ==
    ASSUME NEW y \in Int, NEW q \in Int, NEW r \in Int, NEW n \in Nat,
           0 <= r, r < n, y = n * q + r
    PROVE  y % n = r
BY SMTT(30)

(* Division with remainder on the ring.                                    *)
LEMMA Divided ==
    ASSUME NEW y \in Int, NEW n \in Nat, n > 0
    PROVE  \E q \in Int, r \in Int : r = y % n /\ y = n * q + r /\ 0 <= r /\ r < n
<1>1. y \div n \in Int /\ n * (y \div n) <= y /\ y < n * (y \div n) + n
  BY SMTT(30)
<1>2. PICK q \in Int : q = y \div n
  BY <1>1
<1>3. PICK c \in Int : c = n * q
  OBVIOUS
<1>4. PICK r \in Int : r = y - c
  OBVIOUS
<1>5. y = n * q + r /\ 0 <= r /\ r < n
  BY <1>1, <1>2, <1>3, <1>4
<1>6. y % n = r
  BY <1>5, RemainderUnique
<1> QED BY <1>5, <1>6

(* Positions closer than half the ring are ordered by the distance of      *)
(* their sequence numbers, across the wrap.                                *)
LEMMA RingOrder ==
    ASSUME NEW p \in Int, NEW b \in Int, NEW h \in Nat, p - b < h, b - p < h
    PROVE  LET distance == ((p % (2 * h)) - (b % (2 * h))) % (2 * h)
           IN  (distance = 0 \/ distance >= h) <=> p <= b
<1>1. PICK n \in Nat : n = 2 * h /\ n > 0 /\ h > 0
  OBVIOUS
<1>2. PICK i \in Int, x \in Int : x = p % n /\ p = n * i + x
  <2>1. \E q \in Int, r \in Int : r = p % n /\ p = n * q + r
    BY <1>1, Divided
  <2> QED BY <2>1
<1>3. PICK j \in Int, y \in Int : y = b % n /\ b = n * j + y
  <2>1. \E q \in Int, r \in Int : r = b % n /\ b = n * q + r
    BY <1>1, Divided
  <2> QED BY <2>1
<1>4. PICK z \in Int, c \in Int : z = x - y /\ c = j - i
  OBVIOUS
<1>5. z = n * c + (p - b)
  BY <1>1, <1>2, <1>3, <1>4
<1>6. CASE p >= b
  <2>1. z % n = p - b
    <3>1. PICK r \in Int : r = p - b /\ 0 <= r /\ r < n
      BY <1>1, <1>6
    <3> QED BY <1>5, <3>1, RemainderUnique
  <2>2. (p - b = 0 \/ p - b >= h) <=> p <= b
    BY <1>6
  <2> QED BY <1>1, <1>2, <1>3, <1>4, <2>1, <2>2
<1>7. CASE p < b
  <2>1. PICK e \in Int, r \in Int : e = c - 1 /\ r = p - b + n
    OBVIOUS
  <2>2. n * c = n * e + n
    BY <2>1
  <2>3. z = n * e + r /\ h <= r /\ r < n
    BY <1>1, <1>5, <1>7, <2>1, <2>2
  <2>4. z % n = r
    BY <1>1, <2>3, RemainderUnique
  <2> QED BY <1>1, <1>2, <1>3, <1>4, <1>7, <2>3, <2>4
<1> QED BY <1>6, <1>7

(* What follows a part of a sequence.                                      *)
LEMMA Behind ==
    ASSUME NEW d \in Seq(Byte), NEW w \in Seq(Byte), d # <<>>
    PROVE  /\ (d \o w)[1] = d[1] /\ d \o w # <<>> /\ Len(d) \in Nat /\ Len(d) >= 1
           /\ Len(d) <= Len(d \o w)
           /\ SubSeq(d \o w, Len(d) + 1, Len(d \o w)) = w
<1>1. Len(d) \in Nat /\ Len(d) >= 1 /\ Len(w) \in Nat
  BY EmptySeq
<1> DEFINE s == d \o w
           t == SubSeq(s, Len(d) + 1, Len(s))
<1>2. /\ s \in Seq(Byte) /\ Len(s) = Len(d) + Len(w) /\ s # <<>>
      /\ \A i \in 1 .. Len(d) : s[i] = d[i]
      /\ \A i \in 1 .. Len(w) : s[Len(d) + i] = w[i]
  BY Joined
<1> HIDE DEF s
<1>3. /\ t \in Seq(Byte) /\ Len(t) = Len(s) - (Len(d) + 1) + 1
      /\ \A i \in 1 .. Len(s) - (Len(d) + 1) + 1 : t[i] = s[Len(d) + 1 + i - 1]
  BY <1>1, <1>2, Part
<1> HIDE DEF t
<1>4. Len(t) = Len(w)
  BY <1>1, <1>2, <1>3
<1>5. ASSUME NEW i \in 1 .. Len(t) PROVE t[i] = w[i]
  <2>1. t[i] = s[Len(d) + 1 + i - 1] /\ Len(d) + 1 + i - 1 = Len(d) + i /\ i \in 1 .. Len(w)
    BY <1>1, <1>2, <1>3, <1>4
  <2> QED BY <1>2, <2>1
<1>6. t = w
  BY <1>3, <1>4, <1>5, SeqEqual
<1> QED BY <1>1, <1>2, <1>6 DEF s, t

(* A step that moves bytes at most, and leaves part of a record in the     *)
(* buffer.                                                                 *)
LEMMA WireKeeps ==
    ASSUME WireInv, Unread' = Unread, UNCHANGED <<client, eof, sent, consumed>>,
           data' # <<>> => Len(data') < data'[1].need
    PROVE  WireInv'
BY DEF WireInv, RecordsOf, Whole, Before

(* What a step does to the record taken last.                              *)
Taken ==
    client /\ consumed' # consumed =>
        /\ consumed'.pos = consumed.pos + 1
        /\ consumed'.delivered <=> (boundary = None \/ consumed'.pos > boundary)

(* A connection that ends leaves nothing.                                  *)
LEMMA DisconnectKeeps ==
    ASSUME TransportInv, buffered_audio_disconnect, UNCHANGED sent,
           mode' \in {"idle", "paused", "playing"}, seek' \in Positions \cup {None},
           count' \in Nat, count' <= N - 2
    PROVE  TransportInv' /\ Taken
<1>1. Unread' = <<>>
  BY DEF buffered_audio_disconnect, Unread
<1>2. TransportTypes'
  <2>1. <<>> \in Seq(Byte)
    OBVIOUS
  <2> QED BY <2>1 DEF TransportInv, TransportTypes, buffered_audio_disconnect
<1>3. WireInv'
  BY <1>1 DEF WireInv, RecordsOf, Whole, buffered_audio_disconnect
<1>4. SeekInv'
  BY DEF SeekInv, buffered_audio_disconnect
<1>5. Taken
  BY DEF Taken, buffered_audio_disconnect
<1> QED BY <1>2, <1>3, <1>4, <1>5 DEF TransportInv

(* Steps that leave the connection alone.                                  *)
LEMMA ConnectionKeeps ==
    ASSUME TransportInv, UNCHANGED <<connection, sent, discard_sequence>>,
           mode' \in {"idle", "paused", "playing"}, seek' \in Positions \cup {None},
           count' \in Nat, count' <= count
    PROVE  TransportInv' /\ Taken
<1>0. N \in Int /\ count \in Nat
  BY QueueAssumption DEF TransportInv, TransportTypes
<1>1. Unread' = Unread
  BY DEF Unread, connection
<1>2. TransportTypes'
  BY DEF TransportInv, TransportTypes, connection
<1>3. WireInv'
  BY <1>1, WireKeeps DEF TransportInv, WireInv, connection
<1>4. SeekInv'
  BY <1>0 DEF TransportInv, SeekInv, connection
<1>5. Taken
  BY DEF Taken, connection
<1>6. count' <= N - 2
  BY <1>0 DEF TransportInv
<1> QED BY <1>2, <1>3, <1>4, <1>5, <1>6 DEF TransportInv

(* While a seek is going on, a record is discarded exactly when it is not  *)
(* beyond the boundary.                                                    *)
LEMMA DiscardsExactly ==
    ASSUME TransportInv, NEW p \in Base .. sent - 1
    PROVE  Discards(Sequence(p)) <=> discarding /\ p <= boundary
<1>1. CASE ~discarding
  BY <1>1 DEF Discards
<1>2. CASE discarding
  <2>1. boundary \in Base .. Base + MaxRecords /\ discard_sequence = Sequence(boundary)
    BY <1>2 DEF TransportInv, SeekInv, Positions
  <2>2. /\ p \in Int /\ boundary \in Int /\ Half \in Nat
        /\ p - boundary < Half /\ boundary - p < Half
    BY <2>1, WindowAssumption DEF TransportInv, TransportTypes
  <2> DEFINE distance ==
          ((p % (2 * Half)) - (boundary % (2 * Half))) % (2 * Half)
  <2>3. Distance(Sequence(p)) = distance
    BY <2>1 DEF Distance, Sequence
  <2>4. (distance = 0 \/ distance >= Half) <=> p <= boundary
    BY <2>2, RingOrder
  <2> HIDE DEF distance
  <2> QED BY <1>2, <2>3, <2>4 DEF Discards
<1> QED BY <1>1, <1>2

(* A record is taken from the front of what is unread.                     *)
LEMMA ConsumeKeeps ==
    ASSUME TransportInv, client, MayRead, UNCHANGED <<mode, sent, discard_sequence, seek>>,
           NEW d \in Seq(Byte), wire' \in Seq(Byte), d \o wire' = Unread,
           Len(d) >= 3, Len(d) = d[1].need, Consume(d)
    PROVE  TransportInv' /\ Taken
<1> DEFINE p == d[3].pos
           skip == Discards(Sequence(p))
<1>0. /\ RecordsOf(Unread) /\ Unread # <<>> /\ Unread[1] = d[1]
      /\ Unread[1].need <= Len(Unread) /\ Len(d) \in Nat
      /\ wire' = SubSeq(Unread, Unread[1].need + 1, Len(Unread))
  <2>1. d # <<>>
    BY EmptySeq
  <2>2. d \in Seq(Byte) /\ wire' \in Seq(Byte) /\ Unread = d \o wire'
    OBVIOUS
  <2>3. RecordsOf(Unread)
    BY DEF TransportInv, WireInv
  <2>4. /\ Unread # <<>> /\ Unread[1] = d[1] /\ Len(d) <= Len(Unread) /\ Len(d) \in Nat
        /\ wire' = SubSeq(Unread, Len(d) + 1, Len(Unread))
    BY ONLY <2>1, <2>2, Behind
  <2>5. Len(d) = Unread[1].need
    BY <2>4
  <2> QED BY <2>3, <2>4, <2>5
<1>1. sent \in Int /\ N \in Int /\ N > 2 /\ count \in Nat
  BY QueueAssumption, WindowAssumption DEF TransportInv, TransportTypes
<1>2. p = Unread[1].pos
  <2>1. 3 \in 1 .. Len(d) /\ Len(d) <= Len(Unread) /\ Len(Unread) \in Nat
    BY <1>0, FirstRecord
  <2>2. Unread[3] = d[3] /\ 3 \in 1 .. Len(Unread) /\ 3 <= Unread[1].need
    BY <1>0, <2>1, Joined
  <2>3. \A i \in 1 .. Len(Unread) : i <= Unread[1].need => Unread[i].pos = Unread[1].pos
    BY <1>0, FirstRecord
  <2>4. Unread[3].pos = Unread[1].pos
    BY ONLY <2>2, <2>3
  <2> QED BY ONLY <2>2, <2>4
<1>3. p = consumed.pos + 1 /\ p \in Base .. sent - 1 /\ p \in Int /\ consumed.pos \in Int
  <2>1. 1 \in 1 .. Len(Unread)
    BY <1>0, FirstRecord
  <2>2. p \in Base .. sent - 1
    BY <1>2, <2>1 DEF TransportInv, WireInv
  <2> QED BY <1>0, <1>1, <1>2, <2>2, WindowAssumption
          DEF TransportInv, TransportTypes, WireInv
<1>4. /\ data' = <<>> /\ consumed' = [pos |-> p, delivered |-> ~skip]
      /\ skip => UNCHANGED <<discarding, count>>
      /\ ~skip => discarding' = FALSE /\ count' \in {count, count + 1}
      /\ UNCHANGED <<client, eof, boundary>>
  BY DEF Consume
<1>5. skip <=> discarding /\ p <= boundary
  BY <1>3, DiscardsExactly
<1> HIDE DEF p, skip
<1>6. /\ consumed'.pos = p /\ (consumed'.delivered <=> ~skip)
      /\ consumed' \in [pos : Int, delivered : BOOLEAN]
  <2>1. (~skip) \in BOOLEAN
    OBVIOUS
  <2> QED BY <1>3, <1>4, <2>1
<1>7. Unread' = wire'
  BY <1>4 DEF Unread
<1>8. TransportTypes'
  <2>1. count' \in Nat /\ discarding' \in BOOLEAN
    <3>1. discarding \in BOOLEAN
      BY DEF TransportInv, TransportTypes
    <3>2. CASE skip
      BY <1>1, <1>4, <3>1, <3>2
    <3>3. CASE ~skip
      <4>1. discarding' \in BOOLEAN
        BY <1>4, <3>3
      <4> QED BY <1>1, <1>4, <3>3, <4>1
    <3> QED BY <3>2, <3>3
  <2>2. <<>> \in Seq(Byte)
    OBVIOUS
  <2> QED BY <1>4, <1>6, <2>1, <2>2 DEF TransportInv, TransportTypes
<1>9. WireInv'
  <2>1. /\ RecordsOf(wire')
        /\ \A i \in 1 .. Len(wire') : \E k \in 1 .. Len(Unread) : wire'[i] = Unread[k]
        /\ wire' # <<>> => wire'[1].pos = Unread[1].pos + 1
        /\ Whole(Unread, sent) => Whole(wire', sent)
        /\ Whole(Unread, sent) /\ wire' = <<>> => Unread[1].pos = sent - 1
    <3> DEFINE s == Unread
               t == SubSeq(s, s[1].need + 1, Len(s))
    <3>1. /\ RecordsOf(t)
          /\ \A i \in 1 .. Len(t) : \E k \in 1 .. Len(s) : t[i] = s[k]
          /\ t # <<>> => t[1].pos = s[1].pos + 1
          /\ Whole(s, sent) => Whole(t, sent)
          /\ Whole(s, sent) /\ t = <<>> => s[1].pos = sent - 1
      <4>1. RecordsOf(s) /\ s # <<>> /\ s[1].need <= Len(s)
        BY <1>0
      <4> HIDE DEF s
      <4> QED BY <1>1, <4>1, Dropped
    <3>2. wire' = t
      BY <1>0
    <3> HIDE DEF t
    <3> QED BY <3>1, <3>2
  <2>2. \A i \in 1 .. Len(wire') : wire'[i].pos \in Base .. sent - 1
    BY <2>1 DEF TransportInv, WireInv
  <2>3. wire' # <<>> => wire'[1].pos = consumed'.pos + 1
    BY <1>2, <1>6, <2>1
  <2>4. ~eof => Whole(wire', sent) /\ (wire' = <<>> => consumed'.pos = sent - 1)
    BY <1>2, <1>6, <2>1 DEF TransportInv, WireInv
  <2>5. RecordsOf(Unread)' /\ (~eof => Whole(Unread, sent)')
    BY <1>7, <2>1, <2>4 DEF RecordsOf, Whole, Before
  <2> QED BY <1>4, <1>7, <2>2, <2>3, <2>4, <2>5 DEF WireInv
<1>10. /\ boundary \in Positions \cup {None} /\ (boundary # None => boundary \in Int)
       /\ discarding => /\ boundary \in Positions /\ boundary # None
                        /\ discard_sequence = Sequence(boundary) /\ count = 0
       /\ boundary # None /\ ~discarding => consumed.pos >= boundary
  BY WindowAssumption DEF TransportInv, SeekInv, Positions
<1>11. SeekInv'
  <2>1. CASE skip
    <3>1. discarding /\ discarding' /\ boundary' = boundary /\ count' = 0
      BY <1>4, <1>5, <1>10, <2>1
    <3> QED BY <1>10, <3>1 DEF SeekInv, Sequence
  <2>2. CASE ~skip
    <3>1. ~discarding' /\ boundary' = boundary /\ client' = client
      BY <1>4, <2>2
    <3>2. boundary # None => p >= boundary
      BY <1>3, <1>5, <1>10, <2>2
    <3> QED BY <1>6, <1>10, <3>1, <3>2 DEF SeekInv
  <2> QED BY <2>1, <2>2
<1>12. count' <= N - 2
  <2>1. (discarding /\ count = 0) \/ count < N - 2
    BY <1>10 DEF MayRead
  <2> QED BY <1>1, <1>4, <2>1, <1>10, <1>5
<1>13. Taken
  <2>1. consumed'.pos = consumed.pos + 1
    BY <1>3, <1>6
  <2>2. ~skip <=> (boundary = None \/ p > boundary)
    BY <1>3, <1>5, <1>10
  <2> QED BY <1>6, <2>1, <2>2 DEF Taken
<1> QED BY <1>8, <1>9, <1>11, <1>12, <1>13 DEF TransportInv

(* A receive that leaves the record incomplete.                            *)
LEMMA TimeoutKeeps ==
    ASSUME TransportInv, UNCHANGED <<mode, sent, discard_sequence, seek>>,
           NEW d \in Seq(Byte), wire' \in Seq(Byte), d \o wire' = Unread,
           d # <<>> => Len(d) < d[1].need, Timeout(d)
    PROVE  TransportInv' /\ Taken
<1>1. Unread' = Unread
  BY DEF Timeout, Unread
<1>2. WireInv'
  BY <1>1, WireKeeps DEF TransportInv, Timeout
<1>3. TransportTypes' /\ SeekInv' /\ Taken
  BY DEF TransportInv, TransportTypes, SeekInv, Sequence, Timeout, Taken
<1> QED BY <1>2, <1>3 DEF TransportInv, Timeout

(* buffered_audio_disconnect in the middle of a receive.                   *)
LEMMA DropKeeps ==
    ASSUME TransportInv, UNCHANGED <<mode, sent, seek, count>>, buffered_audio_disconnect
    PROVE  TransportInv' /\ Taken
<1>1. /\ mode' \in {"idle", "paused", "playing"} /\ seek' \in Positions \cup {None}
      /\ count' \in Nat /\ count' <= N - 2
  BY DEF TransportInv, TransportTypes
<1> QED BY <1>1, DisconnectKeeps

(* Receiving the body of a record.                                         *)
LEMMA BodyKeeps ==
    ASSUME TransportInv, client, MayRead, UNCHANGED <<mode, sent, discard_sequence, seek>>,
           NEW d \in Seq(Byte), NEW w \in Seq(Byte), d \o w = Unread,
           Len(d) >= 2, Len(d) = 2 \/ Len(d) < d[1].need, ReceiveBody(d, w)
    PROVE  TransportInv' /\ Taken
<1>0. /\ d # <<>> /\ Len(d) \in Nat /\ Len(w) \in Nat /\ Unread[1] = d[1]
      /\ RecordsOf(Unread) /\ Unread # <<>>
  <2>1. d # <<>>
    BY EmptySeq
  <2> QED BY <2>1, Behind DEF TransportInv, WireInv
<1>1. CASE BadLength(d) \/ (w = <<>> /\ eof)
  BY <1>1, DropKeeps DEF ReceiveBody
<1>2. CASE ~BadLength(d) /\ ~(w = <<>> /\ eof)
  <2>1. PICK need \in Nat : need = d[1].need /\ need >= 3
    <3>1. MinRecord \in Int /\ Capacity \in Int /\ MinRecord >= 3
      BY LengthAssumption
    <3>2. 1 \in 1 .. Len(d)
      BY <1>0
    <3>3. d[1].need \in Nat
      BY <3>2, Fields
    <3> QED BY <1>2, <3>1, <3>3 DEF BadLength
  <2>2. Len(d) < d[1].need
    <3>1. CASE Len(d) = 2
      BY <2>1, <3>1
    <3>2. CASE Len(d) < d[1].need
      BY <3>2
    <3> QED BY <3>1, <3>2
  <2>3. CASE w = <<>>
    <3>1. Timeout(d) /\ wire' = w
      BY <1>2, <2>3 DEF ReceiveBody
    <3> QED BY <2>2, <3>1, TimeoutKeeps
  <2>4. CASE w # <<>>
    <3>1. PICK n \in 1 .. Len(w) :
            /\ Len(d) + n <= d[1].need
            /\ wire' = SubSeq(w, n + 1, Len(w))
            /\ LET full == d \o SubSeq(w, 1, n) IN
               IF Len(full) < full[1].need THEN Timeout(full) ELSE Consume(full)
      BY <1>2, <2>4 DEF ReceiveBody
    <3> DEFINE full == d \o SubSeq(w, 1, n)
    <3>2. /\ full \in Seq(Byte) /\ wire' \in Seq(Byte) /\ Len(full) = Len(d) + n
          /\ full \o wire' = Unread
      <4>1. n \in 0 .. Len(w) /\ wire' = SubSeq(w, n + 1, Len(w))
        BY <1>0, <3>1
      <4> QED BY <4>1, Moved
    <3>3. IF Len(full) < full[1].need THEN Timeout(full) ELSE Consume(full)
      BY <3>1
    <3> HIDE DEF full
    <3>4. full # <<>> /\ Len(full) >= 3 /\ Len(full) \in Nat
      <4>1. Len(full) >= 3 /\ Len(full) \in Nat
        BY <1>0, <3>2
      <4> QED BY <3>2, <4>1, EmptySeq
    <3>5. full[1] = d[1]
      BY <1>0, <3>2, <3>4, Behind
    <3>6. CASE Len(full) < full[1].need
      BY <3>2, <3>3, <3>6, TimeoutKeeps
    <3>7. CASE ~(Len(full) < full[1].need)
      <4>1. Len(full) = full[1].need
        <5>1. Len(full) <= need /\ full[1].need = need
          BY <2>1, <3>1, <3>2, <3>5
        <5> QED BY <3>4, <3>7, <5>1
      <4> QED BY <3>2, <3>3, <3>4, <3>7, <4>1, ConsumeKeeps
    <3> QED BY <3>6, <3>7
  <2> QED BY <2>3, <2>4
<1> QED BY <1>1, <1>2

(* Receiving the length of a record, and what follows it.                  *)
LEMMA HeaderKeeps ==
    ASSUME TransportInv, client, MayRead, UNCHANGED <<mode, sent, discard_sequence, seek>>,
           Len(data) < 2, ReceiveHeader
    PROVE  TransportInv' /\ Taken
<1>0. /\ data \in Seq(Byte) /\ wire \in Seq(Byte) /\ Len(data) \in Nat /\ Len(wire) \in Nat
      /\ data \o wire = Unread /\ RecordsOf(Unread)
      /\ data # <<>> => Len(data) < data[1].need
  <2>1. data \in Seq(Byte) /\ wire \in Seq(Byte)
    BY DEF TransportInv, TransportTypes
  <2>2. RecordsOf(Unread) /\ (data # <<>> => Len(data) < data[1].need)
    BY DEF TransportInv, WireInv
  <2>3. Len(data) \in Nat /\ Len(wire) \in Nat
    BY ONLY <2>1
  <2> QED BY ONLY <2>1, <2>2, <2>3 DEF Unread
<1>1. CASE wire = <<>> /\ eof
  BY <1>1, DropKeeps DEF ReceiveHeader
<1>2. CASE wire = <<>> /\ ~eof
  <2>1. Timeout(data) /\ wire' = wire
    BY <1>2 DEF ReceiveHeader
  <2> QED BY <1>0, <2>1, TimeoutKeeps
<1>3. CASE wire # <<>>
  <2>1. PICK n \in 1 .. 2 :
          /\ Len(data) + n <= 2 /\ n <= Len(wire)
          /\ LET d == data \o SubSeq(wire, 1, n)
                 w == SubSeq(wire, n + 1, Len(wire))
             IN IF Len(d) < 2 THEN Timeout(d) /\ wire' = w ELSE ReceiveBody(d, w)
    BY <1>3 DEF ReceiveHeader
  <2> DEFINE d == data \o SubSeq(wire, 1, n)
             w == SubSeq(wire, n + 1, Len(wire))
  <2>2. d \in Seq(Byte) /\ w \in Seq(Byte) /\ Len(d) = Len(data) + n /\ d \o w = Unread
    <3>1. n \in 0 .. Len(wire)
      BY <1>0, <2>1
    <3> QED BY <1>0, <3>1, Moved
  <2>3. IF Len(d) < 2 THEN Timeout(d) /\ wire' = w ELSE ReceiveBody(d, w)
    BY <2>1
  <2> HIDE DEF d, w
  <2>4. CASE Len(d) < 2
    <3>1. Len(d) = 1 /\ d # <<>>
      BY <1>0, <2>1, <2>2, <2>4, EmptySeq
    <3>2. Unread[1] = d[1] /\ Unread # <<>>
      BY <2>2, <3>1, Behind
    <3>3. Len(d) < d[1].need
      <4>1. 1 \in 1 .. Len(d)
        BY <3>1
      <4>2. d[1].need \in Nat
        BY <2>2, <4>1, Fields
      <4> QED BY <1>0, <3>1, <3>2, <4>2, FirstRecord
    <3> QED BY <2>2, <2>3, <2>4, <3>3, TimeoutKeeps
  <2>5. CASE ~(Len(d) < 2)
    <3>1. Len(d) = 2
      BY <1>0, <2>1, <2>2, <2>5
    <3> QED BY <2>2, <2>3, <2>5, <3>1, BodyKeeps
  <2> QED BY <2>4, <2>5
<1> QED BY <1>1, <1>2, <1>3

(* A record is sent behind the others.                                     *)
LEMMA SendRecordKeeps ==
    ASSUME TransportInv, NEW need \in Lengths, Send(need)
    PROVE  TransportInv' /\ Taken
<1>0. /\ data \in Seq(Byte) /\ wire \in Seq(Byte) /\ need \in Nat /\ need >= 2
      /\ sent \in Nat /\ sent >= Base /\ Base \in Nat /\ MaxRecords \in Nat
      /\ client /\ ~eof /\ sent < Base + MaxRecords
      /\ wire' = wire \o Record(sent, need) /\ sent' = sent + 1
  BY WindowAssumption, LengthAssumption DEF Send, TransportInv, TransportTypes
<1>1. /\ RecordsOf(Unread) /\ Whole(Unread, sent)
      /\ Unread # <<>> => Unread[1].pos = consumed.pos + 1
      /\ Unread = <<>> => consumed.pos = sent - 1
      /\ data # <<>> => Len(data) < data[1].need
      /\ \A i \in 1 .. Len(Unread) : Unread[i].pos \in Base .. sent - 1
  BY <1>0 DEF TransportInv, WireInv
<1>2. Record(sent, need) \in Seq(Byte)
  BY <1>0, RecordBytes
<1>3. Unread' = Unread \o Record(sent, need)
  <2>1. Unread' = data \o (wire \o Record(sent, need))
    BY <1>0 DEF Send, Unread
  <2> HIDE DEF Record
  <2>2. data \o (wire \o Record(sent, need)) = (data \o wire) \o Record(sent, need)
    <3>1. data \in Seq(Byte) /\ wire \in Seq(Byte) /\ Record(sent, need) \in Seq(Byte)
      BY <1>0, <1>2
    <3> QED BY ONLY <3>1, SMTT(30)
  <2> QED BY <2>1, <2>2 DEF Unread
<1> DEFINE s == Unread
           t == s \o Record(sent, need)
<1>4. /\ RecordsOf(t) /\ Whole(t, sent + 1)
      /\ \A i \in 1 .. Len(t) : t[i].pos = sent \/ \E k \in 1 .. Len(s) : t[i] = s[k]
      /\ t # <<>> /\ (s # <<>> => t[1] = s[1]) /\ (s = <<>> => t[1].pos = sent)
  <2>1. RecordsOf(s) /\ Whole(s, sent)
    BY <1>1
  <2> HIDE DEF s
  <2> QED BY <1>0, <2>1, Appended
<1>5. Unread' = t
  BY <1>3
<1>6. wire' \in Seq(Byte)
  BY <1>0, <1>2, Joined
<1> HIDE DEF t
<1>7. \A i \in 1 .. Len(t) : t[i].pos \in Base .. sent + 1 - 1
  <2> SUFFICES ASSUME NEW i \in 1 .. Len(t) PROVE t[i].pos \in Base .. sent + 1 - 1
    OBVIOUS
  <2>1. CASE t[i].pos = sent
    BY <1>0, <2>1
  <2>2. CASE \E k \in 1 .. Len(s) : t[i] = s[k]
    <3>1. t[i].pos \in Base .. sent - 1
      BY <1>1, <2>2
    <3> QED BY <1>0, <3>1
  <2> QED BY <1>4, <2>1, <2>2
<1>8. t[1].pos = consumed.pos + 1
  <2>1. consumed.pos \in Int
    BY DEF TransportInv, TransportTypes
  <2>2. CASE s = <<>>
    <3>1. t[1].pos = sent /\ sent = consumed.pos + 1
      BY <1>0, <1>1, <1>4, <2>2
    <3> QED BY ONLY <3>1
  <2>3. CASE s # <<>>
    BY <1>1, <1>4, <2>3
  <2> QED BY <2>2, <2>3
<1>9. WireInv'
  <2>1. RecordsOf(Unread)' /\ Whole(Unread, sent)'
    BY <1>0, <1>4, <1>5 DEF RecordsOf, Whole, Before
  <2> QED BY <1>0, <1>1, <1>4, <1>5, <1>7, <1>8, <2>1 DEF WireInv, Send
<1>10. TransportTypes'
  <2>1. sent' \in Base .. Base + MaxRecords
    BY <1>0
  <2> QED BY <1>6, <2>1 DEF TransportInv, TransportTypes, Send
<1>11. SeekInv' /\ Taken
  BY DEF TransportInv, SeekInv, Sequence, Taken, Send
<1> QED BY <1>9, <1>10, <1>11 DEF TransportInv, Send

(* The sender closes its side.                                             *)
LEMMA HangUpKeeps ==
    ASSUME TransportInv, HangUp
    PROVE  TransportInv' /\ Taken
<1>0. /\ data \in Seq(Byte) /\ wire \in Seq(Byte) /\ <<>> \in Seq(Byte)
      /\ RecordsOf(data \o wire) /\ client /\ eof' /\ eof' \in BOOLEAN
  BY DEF HangUp, TransportInv, TransportTypes, WireInv, Unread
<1>1. TransportTypes' /\ SeekInv' /\ Taken
  <2>1. wire' \in Seq(Byte)
    BY <1>0 DEF HangUp
  <2> QED BY <1>0, <2>1 DEF HangUp, TransportInv, TransportTypes, SeekInv, Sequence, Taken
<1>2. CASE wire' = wire
  <2>1. Unread' = Unread
    BY <1>2 DEF HangUp, Unread
  <2>2. WireInv'
    BY <1>0, <2>1 DEF HangUp, TransportInv, WireInv, RecordsOf, Before
  <2> QED BY <1>1, <2>2 DEF HangUp, TransportInv
<1>3. CASE wire' = <<>>
  <2>1. Unread' = data
    BY <1>0, <1>3 DEF HangUp, Unread
  <2>2. RecordsOf(data)
    BY <1>0, Prefix
  <2>3. \A i \in 1 .. Len(data) : i \in 1 .. Len(Unread) /\ Unread[i] = data[i]
    BY <1>0, Joined DEF Unread
  <2>4. \A i \in 1 .. Len(data) : data[i].pos \in Base .. sent - 1
    BY <2>3 DEF TransportInv, WireInv
  <2>5. data # <<>> => data[1].pos = consumed.pos + 1
    <3> SUFFICES ASSUME data # <<>> PROVE data[1].pos = consumed.pos + 1
      OBVIOUS
    <3> QED BY <1>0, Behind DEF TransportInv, WireInv, Unread
  <2>6. RecordsOf(Unread)'
    BY <2>1, <2>2 DEF RecordsOf, Before
  <2>7. WireInv'
    BY <1>0, <2>1, <2>4, <2>5, <2>6 DEF HangUp, TransportInv, WireInv
  <2> QED BY <1>1, <2>7 DEF HangUp, TransportInv
<1> QED BY <1>2, <1>3 DEF HangUp

(* buffered_audio_poll: accept, refuse, receive.                           *)
LEMMA PollKeeps ==
    ASSUME TransportInv, buffered_audio_poll
    PROVE  TransportInv' /\ Taken
<1>0. MayRead /\ UNCHANGED <<mode, sent, discard_sequence, seek>>
  BY DEF buffered_audio_poll
<1>1. CASE AcceptSender
  <2>1. ~client /\ Unread = <<>> /\ ~eof /\ Unread' = Unread /\ data = <<>> /\ data' = <<>>
    <3>1. ~client /\ Unread = <<>> /\ ~eof /\ Unread' = Unread
      BY <1>1 DEF AcceptSender, TransportInv, WireInv, Unread
    <3>2. data = <<>>
      BY <3>1, Joined DEF TransportInv, TransportTypes, Unread
    <3> QED BY <1>1, <3>1, <3>2 DEF AcceptSender
  <2>2. /\ consumed' = [pos |-> sent - 1, delivered |-> FALSE]
        /\ consumed' \in [pos : Int, delivered : BOOLEAN]
    BY <1>1, WindowAssumption DEF AcceptSender, TransportInv, TransportTypes
  <2>3. TransportTypes'
    BY <1>0, <1>1, <2>2 DEF AcceptSender, TransportInv, TransportTypes
  <2>4. WireInv'
    <3>1. RecordsOf(Unread)'
      BY <2>1 DEF TransportInv, WireInv, RecordsOf, Before
    <3> QED BY <1>0, <1>1, <2>1, <2>2, <3>1 DEF AcceptSender, TransportInv, WireInv, Whole
  <2>5. SeekInv' /\ Taken
    BY <1>0, <1>1, <2>1 DEF AcceptSender, TransportInv, SeekInv, Sequence, Taken
  <2> QED BY <1>1, <2>3, <2>4, <2>5 DEF AcceptSender, TransportInv
<1>2. CASE Refuse
  BY <1>0, <1>2, DropKeeps DEF Refuse
<1>3. CASE Receive
  <2>1. CASE Len(data) < 2
    BY <1>0, <1>3, <2>1, HeaderKeeps DEF Receive
  <2>2. CASE ~(Len(data) < 2)
    <3>1. /\ data \in Seq(Byte) /\ wire \in Seq(Byte) /\ data \o wire = Unread
          /\ Len(data) >= 2
      BY <2>2 DEF TransportInv, TransportTypes, Unread
    <3>2. Len(data) < data[1].need
      BY <3>1, EmptySeq DEF TransportInv, WireInv
    <3>3. client /\ ReceiveBody(data, wire)
      BY <1>3, <2>2 DEF Receive
    <3> QED BY <1>0, <3>1, <3>2, <3>3, BodyKeeps
  <2> QED BY <2>1, <2>2
<1> QED BY <1>1, <1>2, <1>3 DEF buffered_audio_poll

(* A seek while playing, or on playing again: an empty queue, and records  *)
(* are discarded through the boundary from here on.                        *)
LEMMA StartAudioKeeps ==
    ASSUME TransportInv, NEW until \in Positions \cup {None}, StartAudio(until),
           seek' \in Positions \cup {None}
    PROVE  TransportInv' /\ Taken
<1>0. /\ mode' = "playing" /\ count' = 0 /\ UNCHANGED sent
      /\ 0 \in Nat /\ 0 <= N - 2 /\ count \in Nat /\ 0 <= count
  BY QueueAssumption DEF StartAudio, TransportInv, TransportTypes
<1>1. CASE until = None
  BY <1>0, <1>1, ConnectionKeeps DEF StartAudio
<1>2. CASE until # None
  <2>1. buffered_audio_flush(until) /\ until \in Positions
    BY <1>2 DEF StartAudio
  <2>2. Unread' = Unread
    BY <2>1 DEF buffered_audio_flush, Unread
  <2>3. WireInv'
    BY <1>0, <2>1, <2>2, WireKeeps DEF buffered_audio_flush, TransportInv, WireInv
  <2>4. TransportTypes' /\ Taken
    BY <1>0, <2>1 DEF buffered_audio_flush, TransportInv, TransportTypes, Taken
  <2>5. SeekInv'
    BY <1>0, <1>2, <2>1 DEF buffered_audio_flush, SeekInv, Sequence
  <2> QED BY <1>0, <2>3, <2>4, <2>5 DEF TransportInv
<1> QED BY <1>1, <1>2

(* A session starts or ends.                                               *)
LEMMA SetTransportKeeps ==
    ASSUME TransportInv, NEW m \in {"idle", "playing"}, set_transport(m)
    PROVE  TransportInv' /\ Taken
<1>1. 0 \in Nat /\ 0 <= N - 2
  BY QueueAssumption
<1> QED BY <1>1, DisconnectKeeps DEF set_transport

(* Every step keeps the invariant and takes records as promised.           *)
LEMMA TransportStep == TransportInv /\ [Next]_vars => TransportInv' /\ Taken
<1> SUFFICES ASSUME TransportInv, [Next]_vars PROVE TransportInv' /\ Taken
  OBVIOUS
<1>0. /\ mode \in {"idle", "paused", "playing"} /\ seek \in Positions \cup {None}
      /\ count \in Nat /\ count <= count
  BY DEF TransportInv, TransportTypes
<1>1. ASSUME NEW who \in {"sender", "stranger"}, Connect(who) PROVE TransportInv' /\ Taken
  BY <1>0, <1>1, ConnectionKeeps DEF Connect
<1>2. ASSUME NEW need \in Lengths, Send(need) PROVE TransportInv' /\ Taken
  BY <1>2, SendRecordKeeps
<1>3. CASE HangUp
  BY <1>3, HangUpKeeps
<1>4. CASE buffered_audio_poll
  BY <1>4, PollKeeps
<1>5. CASE PlayPacket
  <2>1. count' \in Nat /\ count' <= count
    BY <1>0, <1>5 DEF PlayPacket
  <2> QED BY <1>0, <1>5, <2>1, ConnectionKeeps DEF PlayPacket
<1>6. ASSUME NEW until \in Positions, FlushBuffered(until) PROVE TransportInv' /\ Taken
  <2>1. CASE StartAudio(until)
    BY <1>6, <2>1, StartAudioKeeps DEF FlushBuffered
  <2>2. CASE UNCHANGED <<mode, connection, backlog, sent, discard_sequence, count>>
    BY <1>0, <1>6, <2>2, ConnectionKeeps DEF FlushBuffered
  <2> QED BY <1>6, <2>1, <2>2 DEF FlushBuffered
<1>7. CASE Pause
  <2>1. count' \in Nat /\ count' <= count
    BY <1>0, <1>7 DEF Pause
  <2> QED BY <1>0, <1>7, <2>1, ConnectionKeeps DEF Pause
<1>8. CASE Resume
  BY <1>0, <1>8, StartAudioKeeps DEF Resume
<1>9. CASE NewSession
  BY <1>9, SetTransportKeeps DEF NewSession
<1>10. CASE EndSession
  BY <1>10, SetTransportKeeps DEF EndSession
<1>11. CASE UNCHANGED vars
  BY <1>0, <1>11, ConnectionKeeps DEF vars
<1> QED BY <1>1, <1>2, <1>3, <1>4, <1>5, <1>6, <1>7, <1>8, <1>9, <1>10, <1>11 DEF Next

(* The buffered transport starts with nothing to read.                     *)
LEMMA TransportStarts == Init => TransportInv
<1> SUFFICES ASSUME Init PROVE TransportInv
  OBVIOUS
<1>0. /\ Base \in Nat /\ MaxRecords \in Nat /\ N \in Nat /\ N > 2 /\ <<>> \in Seq(Byte)
      /\ Base \in Base .. Base + MaxRecords /\ Base - 1 \in Int
  BY WindowAssumption, QueueAssumption
<1>1. Unread = <<>>
  BY DEF Init, Unread
<1>2. TransportTypes
  <2>1. [pos |-> Base - 1, delivered |-> FALSE] \in [pos : Int, delivered : BOOLEAN]
    BY <1>0
  <2> QED BY <1>0, <2>1 DEF Init, TransportTypes
<1>3. WireInv
  BY <1>0, <1>1 DEF Init, WireInv, RecordsOf, Whole
<1> QED BY <1>0, <1>2, <1>3 DEF Init, TransportInv, SeekInv

(* Wherever TCP cuts the stream and whenever seeks, pauses and hang-ups    *)
(* come, what is unread of the connection is the sender's records from the *)
(* first one not taken, in order and without a gap, the buffer never holds *)
(* a whole record, and the seek is at its boundary: for any lengths, any   *)
(* number of records in half the sequence ring and any queue.              *)
THEOREM TransportAccounted == Spec => []TransportInv
BY TransportStarts, TransportStep, PTL DEF Spec

(* buffered_audio_poll's buffer holds the beginning of exactly one record, *)
(* and reading stops before the last two slots of the queue.               *)
THEOREM RecordsAreKept == Spec => []RecordsKept
<1>1. TransportInv => RecordsKept
  <2> SUFFICES ASSUME TransportInv, NEW i \in 1 .. Len(data)
               PROVE  data[i].at = i /\ data[i].pos = data[1].pos
    BY DEF RecordsKept, TransportInv
  <2>1. data \in Seq(Byte) /\ wire \in Seq(Byte) /\ RecordsOf(data \o wire)
    BY DEF TransportInv, TransportTypes, WireInv, Unread
  <2>2. data # <<>> /\ Len(data) \in Nat
    BY <2>1, EmptySeq
  <2>3. RecordsOf(data) /\ Len(data) < data[1].need
    BY <2>1, <2>2, Prefix DEF TransportInv, WireInv
  <2>4. 1 \in 1 .. Len(data)
    BY <2>2
  <2>5. data[1].need \in Nat
    BY <2>1, <2>4, Fields
  <2>6. i <= data[1].need
    BY <2>2, <2>3, <2>5
  <2> QED BY <2>2, <2>3, <2>6, FirstRecord
<1> QED BY <1>1, TransportAccounted, PTL

(* Records are taken one by one in the order they were sent, whatever the  *)
(* pieces TCP delivers them in.                                            *)
THEOREM RecordsAreTakenInOrder == Spec => TakenInOrder
<1>1. TransportInv /\ [Next]_vars =>
          [client /\ consumed' # consumed => consumed'.pos = consumed.pos + 1]_vars
  BY TransportStep DEF Taken
<1> QED BY <1>1, TransportAccounted, PTL DEF Spec, TakenInOrder

(* A record reaches the queue exactly when no seek was asked on its        *)
(* connection or it is beyond the boundary, across the wrap of the         *)
(* sequence numbers.                                                       *)
THEOREM SeeksAreExact == Spec => SeekExact
<1>1. TransportInv /\ [Next]_vars =>
          [client /\ consumed' # consumed =>
             (consumed'.delivered <=> (boundary = None \/ consumed'.pos > boundary))]_vars
  BY TransportStep DEF Taken
<1> QED BY <1>1, TransportAccounted, PTL DEF Spec, SeekExact

----------------------------------------------------------------------------
(* The NTP exchange.  First, division and the conversions it is for: a     *)
(* time in microseconds, its NTP fractions, and back.                      *)

(* Factors cancel.                                                         *)
LEMMA MulLess ==
    ASSUME NEW a \in Int, NEW b \in Int, NEW n \in Nat, n > 0, n * a < n * b
    PROVE  a < b
<1> SUFFICES ASSUME a >= b PROVE FALSE
  OBVIOUS
<1>1. PICK d \in Nat : d = a - b
  OBVIOUS
<1>2. n * d >= 0 /\ n * a = n * b + n * d
  BY <1>1
<1> QED BY <1>2

(* The parts of C's division.                                              *)
LEMMA QuotientParts ==
    ASSUME NEW a \in Int, NEW n \in Nat, n > 0
    PROVE  \E q \in Int :
              /\ q = Quotient(a, n)
              /\ a >= 0 => q >= 0 /\ n * q <= a /\ a < n * q + n
              /\ a <= 0 => q <= 0 /\ a <= n * q /\ n * q - n < a
<1>1. CASE a >= 0
  <2>1. PICK q \in Int, r \in Int : a = n * q + r /\ 0 <= r /\ r < n /\ q = a \div n
    <3>1. a \div n \in Int /\ n * (a \div n) <= a /\ a < n * (a \div n) + n
      BY SMTT(30)
    <3>2. PICK q \in Int, c \in Int : q = a \div n /\ c = n * q
      BY <3>1
    <3>3. PICK r \in Int : r = a - c
      OBVIOUS
    <3>4. a = n * q + r /\ 0 <= r /\ r < n
      BY <3>1, <3>2, <3>3
    <3> QED BY <3>2, <3>4
  <2>2. n * 0 < n * (q + 1)
    <3>1. n * (q + 1) = n * q + n /\ n * 0 = 0
      OBVIOUS
    <3> QED BY <1>1, <2>1, <3>1
  <2>3. q + 1 > 0
    BY <2>2, MulLess
  <2>4. q >= 0
    BY <2>3
  <2>5. Quotient(a, n) = q
    BY <1>1, <2>1 DEF Quotient
  <2>6. a <= 0 => q = 0
    <3> SUFFICES ASSUME a <= 0, q >= 1 PROVE FALSE
      BY <2>4
    <3>1. PICK d \in Nat : d = q - 1
      BY <2>4
    <3>2. n * q = n * d + n /\ n * d >= 0
      BY <3>1
    <3> QED BY <2>1, <3>2
  <2>7. a <= 0 => a = 0 /\ n * q = 0
    BY <1>1, <2>6
  <2> QED BY <2>1, <2>4, <2>5, <2>6, <2>7
<1>2. CASE a < 0
  <2>1. PICK b \in Nat : b = -a /\ b > 0
    BY <1>2
  <2>2. b \div n \in Int /\ n * (b \div n) <= b /\ b < n * (b \div n) + n
    BY <2>1, SMTT(30)
  <2>3. PICK p \in Int : p = b \div n
    BY <2>2
  <2>4. n * p <= b /\ b < n * p + n
    BY <2>2, <2>3
  <2>5. p >= 0
    <3>1. n * 0 < n * (p + 1)
      <4>1. n * (p + 1) = n * p + n /\ n * 0 = 0
        OBVIOUS
      <4> QED BY <2>1, <2>4, <4>1
    <3>2. 0 < p + 1
      BY <3>1, MulLess
    <3> QED BY <3>2
  <2>6. PICK q \in Int : q = -p
    OBVIOUS
  <2>7. Quotient(a, n) = q
    BY <1>2, <2>1, <2>3, <2>6 DEF Quotient
  <2>8. n * q = -(n * p)
    BY <2>6
  <2> QED BY <1>2, <2>1, <2>4, <2>5, <2>6, <2>7, <2>8
<1> QED BY <1>1, <1>2

(* A fraction that is less than one off a whole number is truncated to it  *)
(* or to the next one towards zero.                                        *)
LEMMA QuotientNear ==
    ASSUME NEW a \in Int, NEW d \in Int, NEW n \in Nat, n > 0,
           n * d - n < a, a < n * d + n
    PROVE  /\ Quotient(a, n) \in Int
           /\ Quotient(a, n) \in d - 1 .. d + 1
           /\ d >= 0 => Quotient(a, n) \in 0 .. d
           /\ d <= 0 => Quotient(a, n) \in d .. 0
<1>1. PICK q \in Int :
         /\ q = Quotient(a, n)
         /\ a >= 0 => q >= 0 /\ n * q <= a /\ a < n * q + n
         /\ a <= 0 => q <= 0 /\ a <= n * q /\ n * q - n < a
  BY QuotientParts
<1>2. n * (d + 1) = n * d + n /\ n * (d - 1) = n * d - n /\ n * (q + 1) = n * q + n
      /\ n * (q - 1) = n * q - n /\ n * 0 = 0
  OBVIOUS
<1>3. CASE a >= 0
  <2>1. q < d + 1 /\ 0 < d + 1 /\ d - 1 < q + 1
    <3>1. n * q < n * (d + 1) /\ n * 0 < n * (d + 1) /\ n * (d - 1) < n * (q + 1)
      BY <1>1, <1>2, <1>3
    <3>2. q < d + 1
      BY <3>1, MulLess
    <3>3. 0 < d + 1
      BY <3>1, MulLess
    <3>4. d - 1 < q + 1
      BY <3>1, MulLess
    <3> QED BY <3>2, <3>3, <3>4
  <2> QED BY <1>1, <1>3, <2>1
<1>4. CASE a < 0
  <2>1. n * (d - 1) < n * q /\ n * (d - 1) < n * 0 /\ n * (q - 1) < n * (d + 1)
    BY <1>1, <1>2, <1>4
  <2>2. d - 1 < q
    BY <2>1, MulLess
  <2>3. d - 1 < 0
    BY <2>1, MulLess
  <2>4. q - 1 < d + 1
    BY <2>1, MulLess
  <2> QED BY <1>1, <1>4, <2>2, <2>3, <2>4
<1> QED BY <1>3, <1>4

(* A signed difference on a ring is the difference of what is counted.     *)
LEMMA SignedExact ==
    ASSUME NEW x \in Int, NEW y \in Int, NEW h \in Nat, -h <= y - x, y - x < h
    PROVE  Signed((y % (2 * h)) - (x % (2 * h)), h) = y - x
<1>1. PICK n \in Nat : n = 2 * h /\ n > 0
  OBVIOUS
<1>2. PICK i \in Int, u \in Int : u = x % n /\ x = n * i + u
  <2>1. \E q \in Int, r \in Int : r = x % n /\ x = n * q + r /\ 0 <= r /\ r < n
    BY <1>1, Divided
  <2> QED BY <2>1
<1>3. PICK j \in Int, v \in Int : v = y % n /\ y = n * j + v
  <2>1. \E q \in Int, r \in Int : r = y % n /\ y = n * q + r /\ 0 <= r /\ r < n
    BY <1>1, Divided
  <2> QED BY <2>1
<1>4. PICK c \in Int, r \in Int, z \in Int : c = i - j /\ r = y - x + h /\ z = v - u + h
  OBVIOUS
<1>5. n * c = n * i - n * j
  BY <1>4
<1>6. z = n * c + r /\ 0 <= r /\ r < n
  BY <1>1, <1>2, <1>3, <1>4, <1>5
<1>7. z % n = r
  BY <1>1, <1>6, RemainderUnique
<1>8. Signed(v - u, h) = (z % n) - h
  BY <1>1, <1>4 DEF Signed
<1> QED BY <1>1, <1>2, <1>3, <1>4, <1>7, <1>8

(* The constants of the conversions.                                       *)
LEMMA NtpConstants ==
    /\ Second \in Nat /\ Second > 0
    /\ Fraction \in Nat /\ Fraction > 0 /\ Fraction >= 2 * Second
    /\ HalfEra \in Nat /\ HalfEra > 0 /\ HalfRtp \in Nat /\ HalfRtp > 0
    /\ Rate \in Nat /\ Rate > 0
    /\ Epoch \in Int /\ Theta \in Int /\ FirstFrame \in Int /\ NtpMaxTime \in Nat
    /\ MaxRtt \in Nat
BY TimeAssumption

(* A time of the local clock as NTP seconds and fraction: the fraction is  *)
(* rounded down.                                                           *)
LEMMA FromUs ==
    ASSUME NEW us \in Int
    PROVE  \E q \in Int, m \in Int, f \in Int :
              /\ us = Second * q + m /\ 0 <= m /\ m < Second
              /\ Second * f <= Fraction * m /\ Fraction * m < Second * f + Second
              /\ 0 <= f /\ f < Fraction
              /\ from_us(us).seconds = (q + Epoch) % (2 * HalfEra)
              /\ from_us(us).fraction = f
<1>1. PICK s \in Nat, n \in Nat : s = Second /\ n = Fraction /\ s > 0 /\ n > 0
  BY NtpConstants
<1>2. us \div s \in Int /\ s * (us \div s) <= us /\ us < s * (us \div s) + s
  BY <1>1, SMTT(30)
<1>3. PICK q \in Int : q = us \div s
  BY <1>2
<1>4. PICK c \in Int : c = s * q
  OBVIOUS
<1>5. PICK m \in Int : m = us - c
  OBVIOUS
<1>6. us = s * q + m /\ 0 <= m /\ m < s
  BY <1>2, <1>3, <1>4, <1>5
<1>7. us % s = m
  BY <1>1, <1>6, RemainderUnique
<1>8. PICK p \in Int : p = m * n
  OBVIOUS
<1>9. p \div s \in Int /\ s * (p \div s) <= p /\ p < s * (p \div s) + s
  BY <1>1, SMTT(30)
<1>10. PICK f \in Int : f = p \div s
  BY <1>9
<1>11. s * f <= n * m /\ n * m < s * f + s
  BY <1>8, <1>9, <1>10
<1>12. 0 <= f
  <2>1. n * m >= 0
    BY <1>1, <1>6
  <2>2. s * 0 < s * (f + 1)
    <3>1. s * (f + 1) = s * f + s /\ s * 0 = 0
      OBVIOUS
    <3> QED BY <1>11, <2>1, <3>1
  <2>3. 0 < f + 1
    BY <1>1, <2>2, MulLess
  <2> QED BY <2>3
<1>13. f < n
  <2>1. n * m < n * s
    <3>1. PICK d \in Nat : s = m + d /\ d > 0
      <4>1. s - m \in Nat /\ s - m > 0
        BY <1>6
      <4> QED BY <4>1
    <3>2. n * s = n * m + n * d /\ n * d > 0
      BY <1>1, <3>1
    <3> QED BY <3>2
  <2>2. n * s = s * n
    OBVIOUS
  <2>3. s * f < s * n
    BY <1>11, <2>1, <2>2
  <2> QED BY <1>1, <2>3, MulLess
<1>14. from_us(us).seconds = (q + Epoch) % (2 * HalfEra) /\ from_us(us).fraction = f
  BY <1>1, <1>3, <1>7, <1>8, <1>10 DEF from_us
<1> QED BY <1>1, <1>6, <1>11, <1>12, <1>13, <1>14

(* The difference of two NTP times, when what their seconds count is less  *)
(* than half an era apart.                                                 *)
LEMMA DiffUs ==
    ASSUME NEW a, NEW b, NEW x \in Int, NEW y \in Int,
           a.seconds = x % (2 * HalfEra), b.seconds = y % (2 * HalfEra),
           -HalfEra <= y - x, y - x < HalfEra
    PROVE  ntp_sync_diff_us(a, b) =
             (y - x) * Second + Quotient((b.fraction - a.fraction) * Second, Fraction)
<1>1. Signed(b.seconds - a.seconds, HalfEra) = y - x
  BY NtpConstants, SignedExact
<1> QED BY <1>1 DEF ntp_sync_diff_us

(* The distance at which times can be subtracted.                          *)
Reach == (HalfEra - 1) * Second

(* From one converted time to another it costs at most a microsecond, and  *)
(* never turns the order round.                                            *)
LEMMA DiffNear ==
    ASSUME NEW t \in Int, NEW u \in Int,
           t - u < Reach, u - t < Reach
    PROVE  /\ ntp_sync_diff_us(from_us(t), from_us(u)) \in Int
           /\ ntp_sync_diff_us(from_us(t), from_us(u)) \in (u - t) - 1 .. (u - t) + 1
           /\ t <= u => ntp_sync_diff_us(from_us(t), from_us(u)) >= 0
<1>1. PICK s \in Nat, n \in Nat, h \in Nat :
         /\ s = Second /\ n = Fraction /\ h = HalfEra /\ s > 0 /\ n > 0 /\ h > 0 /\ n >= 2 * s
         /\ Reach = (h - 1) * s
  BY NtpConstants DEF Reach
<1>2. PICK q \in Int, m \in Int, f \in Int :
         /\ t = s * q + m /\ 0 <= m /\ m < s
         /\ s * f <= n * m /\ n * m < s * f + s
         /\ from_us(t).seconds = (q + Epoch) % (2 * HalfEra)
         /\ from_us(t).fraction = f
  BY <1>1, FromUs
<1>3. PICK p \in Int, k \in Int, g \in Int :
         /\ u = s * p + k /\ 0 <= k /\ k < s
         /\ s * g <= n * k /\ n * k < s * g + s
         /\ from_us(u).seconds = (p + Epoch) % (2 * HalfEra)
         /\ from_us(u).fraction = g
  BY <1>1, FromUs
<1>4. PICK e \in Int, d \in Int, a \in Int : e = p - q /\ d = k - m /\ a = (g - f) * s
  OBVIOUS
<1>5. /\ s * e = s * p - s * q /\ n * d = n * k - n * m /\ a = s * g - s * f
      /\ s * (h - 1) = s * h - s /\ s * (e + 1) = s * e + s /\ s * (e - 1) = s * e - s
      /\ s * (1 - h) = s - s * h /\ (h - 1) * s = s * h - s /\ s * 0 = 0 /\ s * (-h) = -(s * h)
  BY <1>4
<1>6. u - t = s * e + d /\ -s < d /\ d < s
  BY <1>2, <1>3, <1>4, <1>5
<1>7. -h <= e /\ e < h
  <2>1. s * (e - 1) < s * (h - 1) /\ s * (1 - h) < s * (e + 1)
    BY <1>1, <1>5, <1>6
  <2>2. e - 1 < h - 1
    BY <1>1, <2>1, MulLess
  <2>3. 1 - h < e + 1
    BY <1>1, <2>1, MulLess
  <2> QED BY <2>2, <2>3
<1>8. n * d - n < a /\ a < n * d + n
  BY <1>1, <1>2, <1>3, <1>5
<1>9. PICK r \in Int :
         /\ r = Quotient(a, n) /\ d - 1 <= r /\ r <= d + 1
         /\ d >= 0 => r >= 0
         /\ d <= 0 => d <= r
  <2>1. /\ Quotient(a, n) \in Int
        /\ Quotient(a, n) \in d - 1 .. d + 1
        /\ d >= 0 => Quotient(a, n) \in 0 .. d
        /\ d <= 0 => Quotient(a, n) \in d .. 0
    BY <1>1, <1>8, QuotientNear
  <2> QED BY <2>1
<1>10. ntp_sync_diff_us(from_us(t), from_us(u)) = e * s + r
  <2>1. q + Epoch \in Int /\ p + Epoch \in Int /\ (p + Epoch) - (q + Epoch) = e
    BY <1>4, NtpConstants
  <2>2. ntp_sync_diff_us(from_us(t), from_us(u)) =
          ((p + Epoch) - (q + Epoch)) * Second
              + Quotient((from_us(u).fraction - from_us(t).fraction) * Second, Fraction)
    <3>1. -HalfEra <= (p + Epoch) - (q + Epoch) /\ (p + Epoch) - (q + Epoch) < HalfEra
      BY <1>1, <1>7, <2>1
    <3> QED BY <1>2, <1>3, <2>1, <3>1, DiffUs
  <2> QED BY <1>1, <1>2, <1>3, <1>4, <1>9, <2>1, <2>2
<1>11. e * s = s * e
  OBVIOUS
<1>12. t <= u => e * s + r >= 0
  <2> SUFFICES ASSUME t <= u PROVE s * e + r >= 0
    BY <1>11
  <2>1. e >= 0
    <3>1. s * 0 < s * (e + 1)
      BY <1>5, <1>6
    <3>2. 0 < e + 1
      BY <1>1, <3>1, MulLess
    <3> QED BY <3>2
  <2>2. s * e >= 0
    BY <1>1, <2>1
  <2>3. CASE d >= 0
    BY <1>9, <2>2, <2>3
  <2>4. CASE d < 0
    BY <1>6, <1>9, <2>4
  <2> QED BY <2>3, <2>4
<1> QED BY <1>6, <1>9, <1>10, <1>11, <1>12

(* Two times less than half an era apart are not converted to the same.    *)
LEMMA FromUsDistinct ==
    ASSUME NEW t \in Int, NEW u \in Int,
           t - u < Reach, u - t < Reach,
           from_us(t) = from_us(u)
    PROVE  t = u
<1>1. PICK s \in Nat, n \in Nat, h \in Nat :
         /\ s = Second /\ n = Fraction /\ h = HalfEra /\ s > 0 /\ n > 0 /\ h > 0 /\ n >= 2 * s
         /\ Reach = (h - 1) * s
  BY NtpConstants DEF Reach
<1>2. PICK q \in Int, m \in Int, f \in Int :
         /\ t = s * q + m /\ 0 <= m /\ m < s
         /\ s * f <= n * m /\ n * m < s * f + s
         /\ from_us(t).seconds = (q + Epoch) % (2 * HalfEra)
         /\ from_us(t).fraction = f
  BY <1>1, FromUs
<1>3. PICK p \in Int, k \in Int, g \in Int :
         /\ u = s * p + k /\ 0 <= k /\ k < s
         /\ s * g <= n * k /\ n * k < s * g + s
         /\ from_us(u).seconds = (p + Epoch) % (2 * HalfEra)
         /\ from_us(u).fraction = g
  BY <1>1, FromUs
<1>4. PICK e \in Int, d \in Int : e = p - q /\ d = k - m
  OBVIOUS
<1>5. /\ s * e = s * p - s * q /\ n * d = n * k - n * m
      /\ s * (h - 1) = s * h - s /\ s * (e + 1) = s * e + s /\ s * (e - 1) = s * e - s
      /\ s * (1 - h) = s - s * h /\ (h - 1) * s = s * h - s
      /\ n * (d + 1) = n * d + n /\ n * (d - 1) = n * d - n /\ n * 0 = 0
  BY <1>4
<1>6. u - t = s * e + d /\ -s < d /\ d < s
  BY <1>2, <1>3, <1>4, <1>5
<1>7. -h <= e /\ e < h
  <2>1. s * (e - 1) < s * (h - 1) /\ s * (1 - h) < s * (e + 1)
    BY <1>1, <1>5, <1>6
  <2>2. e - 1 < h - 1
    BY <1>1, <2>1, MulLess
  <2>3. 1 - h < e + 1
    BY <1>1, <2>1, MulLess
  <2> QED BY <2>2, <2>3
<1>8. e = 0
  <2>1. q + Epoch \in Int /\ p + Epoch \in Int /\ (p + Epoch) - (q + Epoch) = e
    BY <1>4, NtpConstants
  <2>2. PICK x \in Int, y \in Int : x = q + Epoch /\ y = p + Epoch
    BY <2>1
  <2>3. -h <= y - x /\ y - x < h
    BY <1>7, <2>1, <2>2
  <2>4. Signed((y % (2 * h)) - (x % (2 * h)), h) = y - x
    BY <2>3, SignedExact
  <2>5. y % (2 * h) = x % (2 * h)
    BY <1>1, <1>2, <1>3, <2>2
  <2>6. Signed((x % (2 * h)) - (x % (2 * h)), h) = x - x
    <3>1. -h <= x - x /\ x - x < h
      BY <1>1
    <3> QED BY <3>1, SignedExact
  <2>7. y - x = x - x
    BY <2>4, <2>5, <2>6
  <2> QED BY <2>1, <2>2, <2>7
<1>9. d = 0
  <2>1. n * (d - 1) < n * 0 /\ n * 0 < n * (d + 1)
    BY <1>1, <1>2, <1>3, <1>5
  <2>2. d - 1 < 0
    BY <1>1, <2>1, MulLess
  <2>3. 0 < d + 1
    BY <1>1, <2>1, MulLess
  <2> QED BY <2>2, <2>3
<1>10. s * e = 0
  BY <1>8
<1> QED BY <1>6, <1>9, <1>10

----------------------------------------------------------------------------
(* The types of ntp_sync_t and of the replies.                             *)
NtpSyncType ==
    [pending : BOOLEAN, request_us : Nat, next_request_us : Nat, requests : Nat,
     synchronized : BOOLEAN, offset_us : Int, rtt_us : Nat, best_sample_us : Nat]

ReplyType == [origin : Nat, receive : Nat, transmit : Nat \cup {-1}]

(* No time that was noted lies ahead, and the sender takes a request up    *)
(* after it was made and answers it after that.                            *)
NtpFlightInv ==
    /\ \A t1 \in requests : t1 \in Nat /\ t1 <= now
    /\ \A r \in replies :
          /\ r \in ReplyType
          /\ r.origin <= r.receive /\ r.receive <= now
          /\ r.transmit # -1 => r.receive <= r.transmit /\ r.transmit <= now

(* The offset is off by at most half of what the round trip it came from   *)
(* took, and rounding.                                                     *)
OffsetInv ==
    sync.synchronized =>
        /\ 2 * (sync.offset_us - Theta) <= sync.rtt_us + 4
        /\ 2 * (Theta - sync.offset_us) <= sync.rtt_us + 4

(* The inductive invariant of the NTP exchange; the time of an AirPlay 2   *)
(* stream is not bounded by it.                                            *)
NtpInv ==
    /\ now \in Nat
    /\ sync \in NtpSyncType
    /\ sync.request_us <= now
    /\ NtpFlightInv
    /\ OffsetInv

(* Times of a run and of the sender's clock are close enough to subtract.  *)
LEMMA CloseEnough ==
    ASSUME NEW t \in Int, NEW u \in Int, 0 <= t, t <= NtpMaxTime, 0 <= u, u <= NtpMaxTime
    PROVE  /\ t - u < Reach /\ u - t < Reach
           /\ (t + Theta) - u < Reach
           /\ u - (t + Theta) < Reach
           /\ (t + Theta) - (u + Theta) < Reach
           /\ (u + Theta) - (t + Theta) < Reach
<1>1. (HalfRtp * Second) \div Rate \in Int /\ (HalfRtp * Second) \div Rate >= 0
  <2>1. PICK a \in Nat, n \in Nat : a = HalfRtp * Second /\ n = Rate /\ n > 0
    BY NtpConstants
  <2>2. a \div n \in Int /\ a \div n >= 0
    BY <2>1, SMTT(30)
  <2> QED BY <2>1, <2>2
<1>2. PICK c \in Int : c = (HalfRtp * Second) \div Rate /\ c >= 0
  BY <1>1
<1>3. PICK l \in Int : l = Reach
  BY NtpConstants DEF Reach
<1>4. NtpMaxTime + Second + c + Theta < l /\ (NtpMaxTime + Second + c) - Theta < l
  <2>1. LET span == NtpMaxTime + Second + c
        IN  span + Theta < Reach /\ span - Theta < Reach
    BY <1>2, EraAssumption, Zenon DEF Reach
  <2>2. NtpMaxTime + Second + c + Theta < Reach /\ (NtpMaxTime + Second + c) - Theta < Reach
    BY <2>1, Zenon
  <2> QED BY ONLY <1>3, <2>2
<1>5. NtpMaxTime \in Nat /\ Second \in Nat /\ Theta \in Int
  BY NtpConstants
<1>6. NtpMaxTime < l
  BY <1>2, <1>4, <1>5
<1> QED BY <1>2, <1>3, <1>4, <1>5, <1>6

(* What a reply to the pending request tells.                              *)
LEMMA AnswerTells ==
    ASSUME NtpInv, now <= NtpMaxTime, NEW r \in replies, r.transmit # -1, Answers(r)
    PROVE  /\ r.origin = sync.request_us
           /\ Processing(r) \in Int /\ Processing(r) >= 0
           /\ r.transmit - r.receive - 1 <= Processing(r)
           /\ Processing(r) <= r.transmit - r.receive + 1
           /\ RoundTrip(r) = now - r.origin - Processing(r)
<1>1. /\ r.origin \in Nat /\ r.receive \in Nat /\ r.transmit \in Nat
      /\ r.origin <= r.receive /\ r.receive <= r.transmit /\ r.transmit <= now
  BY DEF NtpInv, NtpFlightInv, ReplyType
<1>2. sync.request_us \in Nat /\ sync.request_us <= now /\ now \in Nat
  BY DEF NtpInv, NtpSyncType
<1>3. r.origin = sync.request_us
  <2>1. /\ r.origin - sync.request_us < Reach
        /\ sync.request_us - r.origin < Reach
    BY <1>1, <1>2, CloseEnough, NtpConstants
  <2> QED BY <1>1, <1>2, <2>1, FromUsDistinct DEF Answers
<1>4. PICK t \in Int, u \in Int : t = r.receive + Theta /\ u = r.transmit + Theta
  BY <1>1, NtpConstants
<1>5. t - u < Reach /\ u - t < Reach
  BY <1>1, <1>2, <1>4, CloseEnough, NtpConstants
<1>6. Processing(r) = ntp_sync_diff_us(from_us(t), from_us(u))
  BY <1>4 DEF Processing, SenderTime
<1>7. t <= u /\ u - t = r.transmit - r.receive
  BY <1>1, <1>4, NtpConstants
<1>8. PICK p \in Int : p = Processing(r) /\ p \in (u - t) - 1 .. (u - t) + 1 /\ p >= 0
  BY <1>5, <1>6, <1>7, DiffNear
<1>9. RoundTrip(r) = now - r.origin - Processing(r)
  BY <1>1, <1>2, <1>3, <1>8 DEF RoundTrip
<1> QED BY <1>1, <1>3, <1>7, <1>8, <1>9

(* The offset a reply gives.                                               *)
LEMMA OffsetNear ==
    ASSUME NtpInv, now <= NtpMaxTime, NEW r \in replies, r.transmit # -1, Answers(r)
    PROVE  /\ Offset(r) \in Int /\ RoundTrip(r) \in Int
           /\ 2 * (Offset(r) - Theta) <= RoundTrip(r) + 4
           /\ 2 * (Theta - Offset(r)) <= RoundTrip(r) + 4
<1>1. /\ r.origin \in Nat /\ r.receive \in Nat /\ r.transmit \in Nat
      /\ r.origin <= r.receive /\ r.receive <= r.transmit /\ r.transmit <= now
  BY DEF NtpInv, NtpFlightInv, ReplyType
<1>2. now \in Nat /\ Theta \in Int
  BY NtpConstants DEF NtpInv
<1>3. PICK o \in Int, v \in Int, w \in Int :
         o = r.origin /\ v = r.receive + Theta /\ w = r.transmit + Theta
  BY <1>1, <1>2
<1>4. /\ o - v < Reach /\ v - o < Reach
      /\ now - w < Reach /\ w - now < Reach
  BY <1>1, <1>2, <1>3, CloseEnough, NtpConstants
<1>5. PICK b \in Int : b = ntp_sync_diff_us(from_us(o), from_us(v))
                       /\ b \in (v - o) - 1 .. (v - o) + 1
  BY <1>4, DiffNear
<1>6. PICK c \in Int : c = ntp_sync_diff_us(from_us(now), from_us(w))
                       /\ c \in (w - now) - 1 .. (w - now) + 1
  BY <1>2, <1>4, DiffNear
<1>7. PICK q \in Int :
         /\ q = Quotient(b + c, 2)
         /\ b + c >= 0 => q >= 0 /\ 2 * q <= b + c /\ b + c < 2 * q + 2
         /\ b + c <= 0 => q <= 0 /\ b + c <= 2 * q /\ 2 * q - 2 < b + c
  <2>1. b + c \in Int /\ 2 \in Nat /\ 2 > 0
    OBVIOUS
  <2> QED BY <2>1, QuotientParts
<1>8. b + c - 1 <= 2 * q /\ 2 * q <= b + c + 1
  BY <1>7
<1>9. Offset(r) = q
  BY <1>3, <1>5, <1>6, <1>7 DEF Offset, SenderTime
<1>10. PICK p \in Int, x \in Int :
          /\ p = Processing(r) /\ x = RoundTrip(r) /\ x = now - o - p
          /\ r.transmit - r.receive - 1 <= p /\ p <= r.transmit - r.receive + 1
  BY <1>1, <1>2, <1>3, AnswerTells
<1> QED BY <1>1, <1>2, <1>3, <1>5, <1>6, <1>8, <1>9, <1>10

(* The two bounds of Plausible are those of the exchange.                  *)
LEMMA InvAccepts == NtpInv /\ now <= NtpMaxTime => GenuineAccepted
<1> SUFFICES ASSUME NtpInv, now <= NtpMaxTime, NEW r \in replies, r.transmit # -1,
                    Answers(r), now - r.origin <= MaxRtt
             PROVE  Plausible(r)
  BY DEF GenuineAccepted
<1>1. /\ r.origin \in Nat /\ r.receive \in Nat /\ r.transmit \in Nat
      /\ r.origin <= r.receive /\ r.receive <= r.transmit /\ r.transmit <= now
  BY DEF NtpInv, NtpFlightInv, ReplyType
<1>2. now \in Nat /\ MaxRtt \in Nat
  BY NtpConstants DEF NtpInv
<1>3. PICK p \in Int :
         /\ p = Processing(r) /\ p >= 0
         /\ p <= r.transmit - r.receive + 1
         /\ RoundTrip(r) = now - r.origin - p
  BY AnswerTells
<1> QED BY <1>1, <1>2, <1>3 DEF Plausible

(* The fields of ntp_sync_t.                                               *)
LEMMA NtpFields ==
    ASSUME NtpInv
    PROVE  /\ now \in Nat /\ sync.pending \in BOOLEAN /\ sync.synchronized \in BOOLEAN
           /\ sync.request_us \in Nat /\ sync.request_us <= now
           /\ sync.requests \in Nat /\ sync.offset_us \in Int /\ sync.rtt_us \in Nat
           /\ sync.best_sample_us \in Nat /\ sync.next_request_us \in Nat
           /\ \A r \in replies : /\ r.origin \in Nat /\ r.receive \in Nat
                                 /\ r.transmit \in Nat \cup {-1}
BY DEF NtpInv, NtpSyncType, NtpFlightInv, ReplyType

(* The exchange starts without a sample.                                   *)
LEMMA NtpStarts == NtpInit => NtpInv /\ replies = {} /\ requests = {} /\ ~sync.synchronized
<1> SUFFICES ASSUME NtpInit
             PROVE  NtpInv /\ replies = {} /\ requests = {} /\ ~sync.synchronized
  OBVIOUS
<1>1. now = 0 /\ requests = {} /\ replies = {} /\ sync = InitialSync
  BY DEF NtpInit
<1>2. InitialSync \in NtpSyncType /\ InitialSync.synchronized = FALSE
      /\ InitialSync.request_us = 0
  BY DEF InitialSync, NtpSyncType
<1> QED BY <1>1, <1>2 DEF NtpInv, NtpFlightInv, OffsetInv

(* Time passes; what takes too long is lost.                               *)
LEMMA NtpTickKeeps ==
    ASSUME NtpInv, NtpTick
    PROVE  NtpInv' /\ now' <= NtpMaxTime
<1>1. /\ now < NtpMaxTime /\ now' = now + 1 /\ sync' = sync
      /\ requests' \subseteq requests /\ replies' \subseteq replies
  BY DEF NtpTick
<1>2. now \in Nat /\ NtpMaxTime \in Nat /\ sync.request_us \in Nat
  BY NtpConstants, NtpFields
<1>3. \A r \in replies : r.origin \in Nat /\ r.receive \in Nat /\ r.transmit \in Nat \cup {-1}
  BY NtpFields
<1>4. NtpFlightInv'
  BY <1>1, <1>2, <1>3 DEF NtpInv, NtpFlightInv
<1>5. OffsetInv'
  BY <1>1 DEF NtpInv, OffsetInv
<1> QED BY <1>1, <1>2, <1>4, <1>5 DEF NtpInv

(* A new sender: the sample is forgotten, a request is not pending.        *)
LEMMA NtpRestartKeeps ==
    ASSUME NtpInv, ntp_sync_init
    PROVE  NtpInv'
<1>1. sync' = InitialSync /\ UNCHANGED <<now, requests, replies>>
  BY DEF ntp_sync_init
<1>2. InitialSync \in NtpSyncType /\ InitialSync.synchronized = FALSE
      /\ InitialSync.request_us = 0
  BY DEF InitialSync, NtpSyncType
<1>3. now \in Nat
  BY DEF NtpInv
<1> QED BY <1>1, <1>2, <1>3 DEF NtpInv, NtpFlightInv, OffsetInv

(* A request is made.                                                      *)
LEMMA NtpRequestKeeps ==
    ASSUME NtpInv, ntp_sync_request
    PROVE  NtpInv'
<1>1. /\ requests' = requests \cup {now} /\ now' = now /\ replies' = replies
      /\ sync' = [sync EXCEPT
            !.pending = TRUE,
            !.request_us = now,
            !.requests = IF @ <= FastRequests THEN @ + 1 ELSE @,
            !.next_request_us =
                now + IF sync.requests + 1 <= FastRequests THEN FastInterval ELSE SlowInterval]
  BY DEF ntp_sync_request
<1>2. PICK i \in Nat, k \in Nat :
         /\ i = (IF sync.requests <= FastRequests THEN sync.requests + 1 ELSE sync.requests)
         /\ k = now + IF sync.requests + 1 <= FastRequests THEN FastInterval ELSE SlowInterval
  <2>1. FastInterval \in Nat /\ SlowInterval \in Nat
    BY TimeAssumption
  <2>2. now \in Nat /\ sync.requests \in Nat
    BY NtpFields
  <2> QED BY <2>1, <2>2
<1>3. PICK t \in BOOLEAN : t = TRUE
  OBVIOUS
<1>4. /\ sync' \in NtpSyncType /\ sync'.request_us = now
      /\ sync'.synchronized = sync.synchronized /\ sync'.offset_us = sync.offset_us
      /\ sync'.rtt_us = sync.rtt_us
  <2>1. sync' = [sync EXCEPT !.pending = t, !.request_us = now, !.requests = i,
                             !.next_request_us = k]
    BY <1>1, <1>2, <1>3
  <2>2. sync \in NtpSyncType /\ now \in Nat
    BY DEF NtpInv
  <2> QED BY <2>1, <2>2 DEF NtpSyncType
<1>5. NtpFlightInv'
  BY <1>1, NtpFields DEF NtpInv, NtpFlightInv
<1>6. OffsetInv'
  BY <1>4 DEF NtpInv, OffsetInv
<1> QED BY <1>1, <1>4, <1>5, <1>6, NtpFields DEF NtpInv

(* A reply and its fields.                                                 *)
Reply(o, v, w) == [origin |-> o, receive |-> v, transmit |-> w]

(* It has its type.                                                        *)
LEMMA ReplyFields ==
    ASSUME NEW o \in Nat, NEW v \in Nat, NEW w \in Nat \cup {-1}
    PROVE  /\ Reply(o, v, w) \in ReplyType
           /\ Reply(o, v, w).origin = o /\ Reply(o, v, w).receive = v
           /\ Reply(o, v, w).transmit = w
BY DEF Reply, ReplyType

(* The sender takes up a request, which was made before.                   *)
LEMMA SenderReceivesKeeps ==
    ASSUME NtpInv, NEW t1 \in requests, SenderReceives(t1)
    PROVE  NtpInv'
<1>1. /\ replies' = replies \cup {[origin |-> t1, receive |-> now, transmit |-> -1]}
      /\ requests' \subseteq requests /\ UNCHANGED <<now, sync>>
  BY DEF SenderReceives
<1>2. PICK r \in ReplyType : /\ r = [origin |-> t1, receive |-> now, transmit |-> -1]
                             /\ r.origin = t1 /\ r.receive = now /\ r.transmit = -1
  <2>1. t1 \in Nat /\ now \in Nat
    BY DEF NtpInv, NtpFlightInv
  <2>2. PICK w \in Nat \cup {-1} : w = -1
    OBVIOUS
  <2>3. [origin |-> t1, receive |-> now, transmit |-> -1] = Reply(t1, now, w)
    BY <2>2 DEF Reply
  <2> QED BY <2>1, <2>2, <2>3, ReplyFields
<1>3. NtpFlightInv'
  <2>1. t1 \in Nat /\ t1 <= now /\ now \in Nat
    BY DEF NtpInv, NtpFlightInv
  <2> QED BY <1>1, <1>2, <2>1 DEF NtpInv, NtpFlightInv
<1> QED BY <1>1, <1>3 DEF NtpInv, OffsetInv

(* The sender answers after it took the request up.                        *)
LEMMA SenderRepliesKeeps ==
    ASSUME NtpInv, NEW r \in replies, SenderReplies(r)
    PROVE  NtpInv'
<1>1. /\ replies' = (replies \ {r}) \cup {[r EXCEPT !.transmit = now]}
      /\ UNCHANGED <<now, requests, sync>>
  BY DEF SenderReplies
<1>2. r \in ReplyType /\ r.origin <= r.receive /\ r.receive <= now /\ now \in Nat
  BY DEF NtpInv, NtpFlightInv
<1>3. PICK a \in ReplyType : /\ a = [r EXCEPT !.transmit = now]
                             /\ a.origin = r.origin /\ a.receive = r.receive
                             /\ a.transmit = now
  <2>1. r.origin \in Nat /\ r.receive \in Nat /\ now \in Nat \cup {-1}
    BY <1>2 DEF ReplyType
  <2>2. [r EXCEPT !.transmit = now] = Reply(r.origin, r.receive, now)
    BY <1>2 DEF ReplyType, Reply
  <2> QED BY <2>1, <2>2, ReplyFields
<1>4. \A k \in replies' : k \in replies \/ k = a
  BY <1>1, <1>3
<1>5. ASSUME NEW k \in replies'
      PROVE  /\ k \in ReplyType /\ k.origin <= k.receive /\ k.receive <= now
             /\ k.transmit # -1 => k.receive <= k.transmit /\ k.transmit <= now
  <2>1. CASE k \in replies
    BY <2>1 DEF NtpInv, NtpFlightInv
  <2>2. CASE k = a
    BY <1>2, <1>3, <2>2
  <2> QED BY <1>4, <2>1, <2>2
<1>6. NtpFlightInv'
  BY <1>1, <1>5 DEF NtpInv, NtpFlightInv
<1> QED BY <1>1, <1>6 DEF NtpInv, OffsetInv

(* A reply that is taken gives an offset as good as its round trip.        *)
LEMMA NtpSampleKeeps ==
    ASSUME NtpInv, now <= NtpMaxTime, NEW r \in replies, ntp_sync_process_packet(r)
    PROVE  NtpInv'
<1> DEFINE rtt == Clamped(RoundTrip(r))
<1>1. /\ r.transmit # -1 /\ Answers(r) /\ Plausible(r)
      /\ sync' = IF Preferred(rtt)
                 THEN [sync EXCEPT !.pending = FALSE, !.synchronized = TRUE,
                         !.offset_us = Offset(r), !.rtt_us = rtt, !.best_sample_us = now]
                 ELSE [sync EXCEPT !.pending = FALSE]
      /\ UNCHANGED <<now, requests, replies>>
  BY DEF ntp_sync_process_packet
<1>2. PICK f \in BOOLEAN, t \in BOOLEAN : f = FALSE /\ t = TRUE
  OBVIOUS
<1>3. PICK o \in Int, x \in Int : /\ o = Offset(r) /\ x = RoundTrip(r)
                                  /\ 2 * (o - Theta) <= x + 4
                                  /\ 2 * (Theta - o) <= x + 4
  BY <1>1, OffsetNear
<1>4. PICK c \in Nat : c = rtt /\ x <= c
  BY <1>3 DEF Clamped
<1>5. sync \in NtpSyncType /\ now \in Nat /\ sync.request_us <= now
  BY DEF NtpInv
<1>6. CASE Preferred(rtt)
  <2>1. sync' = [sync EXCEPT !.pending = f, !.synchronized = t,
                   !.offset_us = o, !.rtt_us = c, !.best_sample_us = now]
    BY <1>1, <1>2, <1>3, <1>4, <1>6
  <2>2. /\ sync' \in NtpSyncType /\ sync'.request_us = sync.request_us
        /\ sync'.offset_us = o /\ sync'.rtt_us = c
    BY <1>5, <2>1 DEF NtpSyncType
  <2>3. Theta \in Int /\ 2 * (o - Theta) <= c + 4 /\ 2 * (Theta - o) <= c + 4
    BY <1>3, <1>4, NtpConstants
  <2> QED BY <1>1, <1>5, <2>2, <2>3 DEF NtpInv, NtpFlightInv, OffsetInv
<1>7. CASE ~Preferred(rtt)
  <2>1. sync' = [sync EXCEPT !.pending = f]
    BY <1>1, <1>2, <1>7
  <2>2. /\ sync' \in NtpSyncType /\ sync'.request_us = sync.request_us
        /\ sync'.offset_us = sync.offset_us /\ sync'.rtt_us = sync.rtt_us
        /\ sync'.synchronized = sync.synchronized
    BY <1>5, <2>1 DEF NtpSyncType
  <2> QED BY <1>1, <1>5, <2>2 DEF NtpInv, NtpFlightInv, OffsetInv
<1> QED BY <1>6, <1>7

----------------------------------------------------------------------------
(* The difference of RTP timestamps is that of the frames, in half a ring. *)
LEMMA RtpDelta ==
    ASSUME NEW at \in Int, NEW n \in Int, -HalfRtp <= n, n < HalfRtp
    PROVE  Signed(((RtpBase(at) + n) % (2 * HalfRtp)) - RtpBase(at), HalfRtp) = n
<1>1. PICK h \in Nat, s \in Nat : h = HalfRtp /\ h > 0 /\ s = Second /\ s > 0
  BY NtpConstants
<1>2. PICK p \in Int : p = at * Rate
  BY NtpConstants
<1>3. p \div s \in Int
  BY <1>1, SMTT(30)
<1>4. PICK b \in Int : b = FirstFrame + p \div s
  BY <1>3, NtpConstants
<1>5. PICK m \in Nat : m = 2 * h /\ m > 0
  BY <1>1
<1>6. PICK q \in Int, r \in Int : r = b % m /\ b = m * q + r /\ 0 <= r /\ r < m
  <2>1. \E q \in Int, r \in Int : r = b % m /\ b = m * q + r /\ 0 <= r /\ r < m
    BY <1>5, Divided
  <2> QED BY <2>1
<1>7. 0 <= r /\ r < m
  BY <1>6
<1>8. RtpBase(at) = r
  BY <1>1, <1>2, <1>4, <1>5, <1>6 DEF RtpBase, Frame
<1>9. r % m = r
  <2>1. r = m * 0 + r
    BY <1>5
  <2> QED BY <1>5, <1>7, <2>1, RemainderUnique
<1>10. PICK y \in Int : y = r + n
  OBVIOUS
<1>11. Signed((y % (2 * h)) - (r % (2 * h)), h) = y - r
  <2>1. -h <= y - r /\ y - r < h
    BY <1>1, <1>10
  <2> QED BY ONLY <2>1, SignedExact, h \in Nat, r \in Int, y \in Int
<1> QED BY <1>1, <1>5, <1>8, <1>9, <1>10, <1>11

(* What is added on a ring may be added before.                            *)
LEMMA RingAdd ==
    ASSUME NEW y \in Int, NEW a \in Int, NEW n \in Nat, n > 0
    PROVE  ((y % n) + a) % n = (y + a) % n
<1>1. PICK i \in Int, r \in Int : r = y % n /\ y = n * i + r
  <2>1. \E q \in Int, r \in Int : r = y % n /\ y = n * q + r
    BY Divided
  <2> QED BY <2>1
<1>2. PICK z \in Int : z = r + a
  OBVIOUS
<1>3. PICK j \in Int, o \in Int : o = z % n /\ z = n * j + o /\ 0 <= o /\ o < n
  <2>1. \E q \in Int, o \in Int : o = z % n /\ z = n * q + o /\ 0 <= o /\ o < n
    BY Divided
  <2> QED BY <2>1
<1>4. PICK k \in Int, x \in Int : k = i + j /\ x = y + a
  OBVIOUS
<1>5. n * k = n * i + n * j
  BY <1>4
<1>6. x = n * k + o
  BY <1>1, <1>2, <1>3, <1>4, <1>5
<1>7. x % n = o
  BY <1>3, <1>6, RemainderUnique
<1> QED BY <1>1, <1>2, <1>3, <1>4, <1>7

(* A timestamp becomes the NTP time at which its frame is due, less than   *)
(* two fractions of a microsecond off; the difference to the local time is *)
(* off by at most a microsecond.                                           *)
LEMMA DeadlineNear ==
    ASSUME NEW t \in Int, NEW at \in Int, NEW n \in Int, NEW delta \in Int,
           -HalfRtp <= n, n < HalfRtp, delta = Quotient(n * Second, Rate),
           (at + Theta + delta) - t < Reach, t - (at + Theta + delta) < Reach
    PROVE  LET due == ntp_sync_rtp_to_ntp(at, (RtpBase(at) + n) % (2 * HalfRtp))
           IN  /\ ntp_sync_diff_us(from_us(t), due) \in Int
               /\ ntp_sync_diff_us(from_us(t), due) \in
                    (at + Theta + delta) - t - 1 .. (at + Theta + delta) - t + 1
<1>1. PICK s \in Nat, f \in Nat, h \in Nat :
         /\ s = Second /\ f = Fraction /\ h = HalfEra /\ s > 0 /\ f > 0 /\ h > 0 /\ f >= 2 * s
         /\ Reach = (h - 1) * s
  BY NtpConstants DEF Reach
<1>2. PICK z \in Int : z = at + Theta
  BY NtpConstants
<1>3. PICK q \in Int, m \in Int, g \in Int :
         /\ z = s * q + m /\ 0 <= m /\ m < s
         /\ s * g <= f * m /\ f * m < s * g + s
         /\ 0 <= g /\ g < f
         /\ from_us(z).seconds = (q + Epoch) % (2 * HalfEra)
         /\ from_us(z).fraction = g
  BY ONLY <1>1, FromUs, t \in Int, z \in Int
<1>4. PICK p \in Int, k \in Int, e \in Int :
         /\ t = s * p + k /\ 0 <= k /\ k < s
         /\ s * e <= f * k /\ f * k < s * e + s
         /\ 0 <= e /\ e < f
         /\ from_us(t).seconds = (p + Epoch) % (2 * HalfEra)
         /\ from_us(t).fraction = e
  BY ONLY <1>1, FromUs, t \in Int, z \in Int
<1>5. PICK u \in Int :
         /\ u = Quotient(delta, s)
         /\ delta >= 0 => u >= 0 /\ s * u <= delta /\ delta < s * u + s
         /\ delta <= 0 => u <= 0 /\ delta <= s * u /\ s * u - s < delta
  BY <1>1, QuotientParts
<1>6. PICK w \in Int : /\ w = Remainder(delta, s) /\ w = delta - s * u
                       /\ -s < w /\ w < s
  <2>1. delta - s * u \in Int
    OBVIOUS
  <2> QED BY <1>1, <1>5, <2>1 DEF Remainder
<1>7. PICK x \in Int : x = w * f
  OBVIOUS
<1>8. PICK v \in Int :
         /\ v = Quotient(x, s)
         /\ x >= 0 => v >= 0 /\ s * v <= x /\ x < s * v + s
         /\ x <= 0 => v <= 0 /\ x <= s * v /\ s * v - s < x
  BY <1>1, QuotientParts
<1>9. -f < v /\ v < f
  <2>1. f * w < f * s /\ f * (-s) < f * w
    <3>1. PICK c \in Nat, d \in Nat : c = s - w /\ d = w + s /\ c > 0 /\ d > 0
      BY <1>6
    <3>2. f * c > 0 /\ f * d > 0
      BY <1>1, <3>1
    <3>3. f * c = f * s - f * w /\ f * d = f * w + f * s /\ f * (-s) = -(f * s)
      BY <3>1
    <3> QED BY <3>2, <3>3
  <2>2. x = f * w /\ f * s = s * f /\ s * (-f) = -(s * f) /\ f * (-s) = -(f * s)
    BY <1>7
  <2>3. s * 0 = 0
    OBVIOUS
  <2>4. s * v < s * f /\ s * (-f) < s * v
    BY <1>1, <1>8, <2>1, <2>2
  <2>5. v < f
    BY <1>1, <2>4, MulLess
  <2>6. -f < v
    BY <1>1, <2>4, MulLess
  <2> QED BY <2>5, <2>6
<1>10. PICK c \in Int : /\ c = IF g + v < 0 THEN -1 ELSE IF g + v >= f THEN 1 ELSE 0
  OBVIOUS
<1>11. PICK b \in Int : b = g + v - c * f
  OBVIOUS
<1>12. 0 <= b /\ b < f
  BY <1>1, <1>3, <1>9, <1>10, <1>11
<1> DEFINE due == ntp_sync_rtp_to_ntp(at, (RtpBase(at) + n) % (2 * HalfRtp))
<1>13. due.seconds = (q + Epoch + u + c) % (2 * HalfEra) /\ due.fraction = b
  <2> DEFINE base == SenderTime(at)
             raw == base.fraction + Quotient(Remainder(delta, Second) * Fraction, Second)
             carry == IF raw < 0 THEN -1 ELSE IF raw >= Fraction THEN 1 ELSE 0
  <2>1. Signed(((RtpBase(at) + n) % (2 * HalfRtp)) - RtpBase(at), HalfRtp) = n
    BY RtpDelta
  <2>2. due = [seconds |-> (base.seconds + Quotient(delta, Second) + carry) % (2 * HalfEra),
               fraction |-> raw - carry * Fraction]
    BY <2>1, Zenon DEF ntp_sync_rtp_to_ntp
  <2>3. base.fraction = g /\ base.seconds = (q + Epoch) % (2 * HalfEra)
    BY <1>2, <1>3 DEF SenderTime
  <2>4. raw = g + v
    BY <1>1, <1>6, <1>7, <1>8, <2>3
  <2>5. carry = c
    BY <1>1, <1>10, <2>4
  <2> HIDE DEF base, raw, carry
  <2>6. due.fraction = b
    BY <1>1, <1>11, <2>2, <2>4, <2>5
  <2>7. due.seconds = (((q + Epoch) % (2 * HalfEra)) + u + c) % (2 * HalfEra)
    BY <1>1, <1>5, <2>2, <2>3, <2>5
  <2>8. (((q + Epoch) % (2 * HalfEra)) + u + c) % (2 * HalfEra)
          = (q + Epoch + u + c) % (2 * HalfEra)
    <3>1. PICK y \in Int, l \in Nat, a \in Int :
             y = q + Epoch /\ l = 2 * HalfEra /\ l > 0 /\ a = u + c
      BY <1>10, NtpConstants
    <3>2. ((y % l) + a) % l = (y + a) % l
      BY <3>1, RingAdd
    <3>3. y % l \in Int
      <4>1. \E j \in Int, o \in Int : o = y % l /\ y = l * j + o /\ 0 <= o /\ o < l
        BY ONLY <3>1, Divided, y \in Int, l \in Nat
      <4> QED BY <4>1
    <3>4. PICK r \in Int : r = y % l
      BY <3>3
    <3>5. (r + u) + c = r + a /\ y + a = ((q + Epoch) + u) + c
      BY <1>10, <3>1, NtpConstants
    <3>6. ((y % l) + u) + c = r + a
      BY <3>4, <3>5
    <3> QED BY ONLY <3>1, <3>2, <3>4, <3>5, <3>6
  <2> QED BY <2>6, <2>7, <2>8
<1> HIDE DEF due
<1>14. PICK i \in Int, d \in Int, a \in Int :
          i = q + u + c - p /\ d = m + w - c * s - k /\ a = (b - e) * s
  OBVIOUS
<1>15. c \in {-1, 0, 1}
  BY <1>10
<1>16. PICK cs \in Int, cf \in Int : cs = c * s /\ cf = c * f /\ f * cs = s * cf
  <2>1. f * (c * s) = s * (c * f)
    BY <1>15
  <2> QED BY <2>1
<1>17. /\ s * i = s * q + s * u + cs - s * p
       /\ f * d = f * m + f * w - f * cs - f * k
       /\ a = s * g + s * v - s * cf - s * e
  <2>1. s * c = cs
    BY <1>16
  <2>2. a = s * b - s * e /\ s * b = s * g + s * v - s * cf
    BY <1>11, <1>14, <1>16
  <2> QED BY <1>14, <1>16, <2>1, <2>2
<1>18. z + delta - t = s * i + d
  BY <1>3, <1>4, <1>6, <1>14, <1>16, <1>17
<1>19. f * d - f < a /\ a < f * d + f
  <2>1. x = f * w
    BY <1>7
  <2>2. -s < s * v - x /\ s * v - x < s
    BY <1>1, <1>8, <2>1
  <2> QED BY <1>1, <1>3, <1>4, <1>16, <1>17, <2>1, <2>2
<1>20. -s <= d /\ d <= s
  <2>1. f * (d - 1) = f * d - f /\ f * (d + 1) = f * d + f /\ f * s = s * f /\ f * (-s) = -(f * s)
    OBVIOUS
  <2>2. a < s * f /\ -(s * f) < a
    <3>1. PICK y \in Int : y = b - e /\ -f < y /\ y < f
      BY <1>4, <1>12
    <3>2. PICK aa \in Nat, bb \in Nat : aa = f - y /\ bb = y + f /\ aa > 0 /\ bb > 0
      BY <3>1
    <3>3. s * aa > 0 /\ s * bb > 0
      BY <1>1, <3>2
    <3>4. s * aa = s * f - s * y /\ s * bb = s * y + s * f /\ a = s * y
      BY <1>14, <3>1, <3>2
    <3> QED BY <3>3, <3>4
  <2>3. f * (d - 1) < f * s /\ f * (-s) < f * (d + 1)
    BY <1>19, <2>1, <2>2
  <2>4. d - 1 < s
    BY <1>1, <2>3, MulLess
  <2>5. -s < d + 1
    BY <1>1, <2>3, MulLess
  <2> QED BY <2>4, <2>5
<1>21. -h <= i /\ i < h
  <2>1. (h - 1) * s = s * h - s /\ s * (-h) = -(s * h)
    OBVIOUS
  <2>2. s * i < s * h /\ s * (-h) < s * i
    BY <1>1, <1>2, <1>18, <1>20, <2>1, NtpConstants
  <2>3. i < h
    BY <1>1, <2>2, MulLess
  <2>4. -h < i
    BY <1>1, <2>2, MulLess
  <2> QED BY <2>3, <2>4
<1>22. PICK r \in Int : r = Quotient(a, f) /\ d - 1 <= r /\ r <= d + 1
  <2>1. Quotient(a, f) \in Int /\ Quotient(a, f) \in d - 1 .. d + 1
    BY <1>1, <1>19, QuotientNear
  <2> QED BY <2>1
<1>23. ntp_sync_diff_us(from_us(t), due) = i * s + r
  <2>1. PICK xx \in Int, yy \in Int : xx = p + Epoch /\ yy = q + Epoch + u + c /\ yy - xx = i
    BY <1>14, NtpConstants
  <2>2. -HalfEra <= yy - xx /\ yy - xx < HalfEra
    BY <1>1, <1>21, <2>1
  <2>3. ntp_sync_diff_us(from_us(t), due) =
          (yy - xx) * Second + Quotient((due.fraction - from_us(t).fraction) * Second, Fraction)
    BY <1>4, <1>13, <2>1, <2>2, DiffUs
  <2> QED BY <1>1, <1>4, <1>13, <1>14, <1>22, <2>1, <2>3
<1>24. i * s = s * i
  OBVIOUS
<1>25. ntp_sync_diff_us(from_us(t), due) \in Int
       /\ ntp_sync_diff_us(from_us(t), due) \in
            (at + Theta + delta) - t - 1 .. (at + Theta + delta) - t + 1
  BY <1>2, <1>18, <1>22, <1>23, <1>24, NtpConstants
<1> QED BY <1>25 DEF due

(* Half a ring of frames takes as long as the assumption on the eras says. *)
LEMMA DeltaBound ==
    ASSUME NEW n \in Int, -HalfRtp <= n, n < HalfRtp
    PROVE  /\ Quotient(n * Second, Rate) \in Int
           /\ (HalfRtp * Second) \div Rate \in Int
           /\ Quotient(n * Second, Rate) <= (HalfRtp * Second) \div Rate
           /\ -Quotient(n * Second, Rate) <= (HalfRtp * Second) \div Rate
<1>1. PICK s \in Nat, h \in Nat, k \in Nat : s = Second /\ h = HalfRtp /\ k = Rate /\ k > 0
  BY TimeAssumption
<1>2. PICK m \in Int, b \in Nat : /\ m = n * s /\ b = h * s /\ -b <= m /\ m <= b
  <2>1. PICK x \in Nat, y \in Nat : x = h - n /\ y = h + n
    BY <1>1
  <2>2. s * x >= 0 /\ s * y >= 0
    OBVIOUS
  <2>3. s * x = h * s - n * s /\ s * y = h * s + n * s
    BY <2>1
  <2>4. h * s \in Nat
    OBVIOUS
  <2> QED BY <2>2, <2>3, <2>4
<1>3. PICK d \in Int, r \in Int : d = b \div k /\ b = k * d + r /\ 0 <= r /\ r < k
  <2>1. b \div k \in Int /\ k * (b \div k) <= b /\ b < k * (b \div k) + k
    BY <1>1, SMTT(30)
  <2>2. PICK d \in Int, c \in Int : d = b \div k /\ c = k * d
    BY <2>1
  <2>3. PICK r \in Int : r = b - c
    OBVIOUS
  <2> QED BY <2>1, <2>2, <2>3
<1>4. PICK q \in Int :
         /\ q = Quotient(m, k)
         /\ m >= 0 => q >= 0 /\ k * q <= m /\ m < k * q + k
         /\ m <= 0 => q <= 0 /\ m <= k * q /\ k * q - k < m
  BY <1>1, QuotientParts
<1>5. k * (d + 1) = k * d + k /\ k * (-q) = -(k * q)
  OBVIOUS
<1>6. k * q < k * (d + 1)
  <2>1. k * 0 = 0 /\ k * d + k > 0
    BY <1>1, <1>2, <1>3
  <2>2. m >= 0 \/ m <= 0
    OBVIOUS
  <2>3. CASE m >= 0
    BY <1>2, <1>3, <1>4, <1>5, <2>3
  <2>4. CASE m <= 0
    <3>1. PICK z \in Nat : z = -q
      BY <1>4, <2>4
    <3>2. k * z >= 0 /\ k * q = -(k * z)
      BY <3>1
    <3> QED BY <1>5, <2>1, <3>2
  <2> QED BY <2>2, <2>3, <2>4
<1>7. k * (-q) < k * (d + 1)
  <2>1. k * d + k > 0
    BY <1>1, <1>2, <1>3
  <2>2. CASE m >= 0
    <3>1. k * q >= 0
      BY <1>4, <2>2
    <3> QED BY <1>5, <2>1, <3>1
  <2>3. CASE m <= 0
    BY <1>2, <1>3, <1>4, <1>5, <2>3
  <2> QED BY <2>2, <2>3
<1>8. q < d + 1
  BY <1>1, <1>6, MulLess
<1>9. -q < d + 1
  <2>1. PICK z \in Int : z = -q
    OBVIOUS
  <2> QED BY <1>1, <1>7, <2>1, MulLess
<1> QED BY <1>1, <1>2, <1>3, <1>4, <1>8, <1>9

(* What the offset is off by is all that a deadline is off by, but for the *)
(* microsecond of the conversion.                                          *)
LEMMA InvDeadline == NtpInv /\ now <= NtpMaxTime => DeadlineAccurate
<1> SUFFICES ASSUME NtpInv, now <= NtpMaxTime, sync.synchronized,
                    NEW at \in 0 .. Second,
                    NEW n \in -(HalfRtp \div 2) .. HalfRtp \div 2
             PROVE  2 * Abs(ntp_sync_deadline(at, (RtpBase(at) + n) % (2 * HalfRtp))
                              - (at + Quotient(n * Second, Rate)))
                      <= sync.rtt_us + 6
  BY DEF DeadlineAccurate
<1>1. /\ now \in Nat /\ sync.offset_us \in Int /\ sync.rtt_us \in Nat
      /\ Theta \in Int /\ NtpMaxTime \in Nat /\ Second \in Nat
      /\ HalfEra \in Nat /\ HalfRtp \in Nat /\ HalfRtp > 0
  BY NtpFields, NtpConstants, TimeAssumption
<1>2. n \in Int /\ -HalfRtp <= n /\ n < HalfRtp /\ at \in Int /\ 0 <= at /\ at <= Second
  <2>1. PICK h \in Nat : h = HalfRtp \div 2 /\ h < HalfRtp
    BY <1>1
  <2> QED BY <1>1, <2>1
<1>3. PICK delta \in Int, d \in Int :
         /\ delta = Quotient(n * Second, Rate) /\ d = (HalfRtp * Second) \div Rate
         /\ delta <= d /\ -delta <= d
  BY <1>2, DeltaBound
<1>4. PICK reach \in Int :
         /\ reach = Reach
         /\ NtpMaxTime + Second + d + Theta < reach
         /\ NtpMaxTime + Second + d - Theta < reach
  BY <1>1, <1>3, EraAssumption DEF Reach
<1>5. (at + Theta + delta) - now < Reach /\ now - (at + Theta + delta) < Reach
  BY <1>1, <1>2, <1>3, <1>4
<1>6. PICK e \in Int :
         e = ntp_sync_diff_us(from_us(now),
               ntp_sync_rtp_to_ntp(at, (RtpBase(at) + n) % (2 * HalfRtp)))
         /\ (at + Theta + delta) - now - 1 <= e /\ e <= (at + Theta + delta) - now + 1
  <2>1. now \in Int
    BY <1>1
  <2>2. LET due == ntp_sync_rtp_to_ntp(at, (RtpBase(at) + n) % (2 * HalfRtp))
        IN  /\ ntp_sync_diff_us(from_us(now), due) \in Int
            /\ ntp_sync_diff_us(from_us(now), due) \in
                 (at + Theta + delta) - now - 1 .. (at + Theta + delta) - now + 1
    BY <1>2, <1>3, <1>5, <2>1, DeadlineNear
  <2> QED BY <1>1, <1>2, <1>3, <2>2
<1>7. ntp_sync_deadline(at, (RtpBase(at) + n) % (2 * HalfRtp)) = now + e - sync.offset_us
  BY <1>6 DEF ntp_sync_deadline
<1>8. /\ 2 * (sync.offset_us - Theta) <= sync.rtt_us + 4
      /\ 2 * (Theta - sync.offset_us) <= sync.rtt_us + 4
  BY DEF NtpInv, OffsetInv
<1>9. PICK y \in Int : y = now + e - sync.offset_us - (at + delta)
  BY <1>1, <1>2
<1>10. 2 * y <= sync.rtt_us + 6 /\ 2 * (-y) <= sync.rtt_us + 6
  BY <1>1, <1>2, <1>6, <1>8, <1>9
<1>11. 2 * Abs(y) <= sync.rtt_us + 6
  BY <1>10 DEF Abs
<1>12. ntp_sync_deadline(at, (RtpBase(at) + n) % (2 * HalfRtp))
         - (at + Quotient(n * Second, Rate)) = y
  <2>1. PICK x \in Int :
           x = ntp_sync_deadline(at, (RtpBase(at) + n) % (2 * HalfRtp)) /\ x - (at + delta) = y
    BY <1>1, <1>2, <1>7, <1>9
  <2> QED BY <1>3, <2>1
<1> QED BY <1>11, <1>12

----------------------------------------------------------------------------
(* A RAOP stream keeps the invariant of the exchange for as long as the    *)
(* run lasts; an AirPlay 2 stream exchanges nothing.                       *)
ExchangeInv ==
    /\ NtpInv
    /\ stream_type = 0 => now <= NtpMaxTime
    /\ stream_type # 0 => requests = {} /\ replies = {} /\ ~sync.synchronized

(* An exchange starts empty.                                               *)
LEMMA ExchangeStarts == ClocksInit => ExchangeInv
<1> SUFFICES ASSUME ClocksInit PROVE ExchangeInv
  OBVIOUS
<1>1. NtpInit
  BY DEF ClocksInit
<1>2. NtpInv /\ replies = {} /\ requests = {} /\ ~sync.synchronized
  BY <1>1, NtpStarts
<1>3. now = 0 /\ 0 <= NtpMaxTime
  BY <1>1, NtpConstants DEF NtpInit
<1> QED BY <1>2, <1>3 DEF ExchangeInv

(* What one step of the exchange keeps.                                    *)
LEMMA NtpStepKeeps ==
    ASSUME NtpInv, now <= NtpMaxTime, NtpNext
    PROVE  NtpInv' /\ now' <= NtpMaxTime
<1>1. CASE NtpTick
  BY <1>1, NtpTickKeeps
<1>2. CASE ntp_sync_init
  <2>1. now' = now
    BY <1>2 DEF ntp_sync_init
  <2> QED BY <1>2, <2>1, NtpRestartKeeps
<1>3. CASE ntp_sync_request
  <2>1. now' = now
    BY <1>3 DEF ntp_sync_request
  <2> QED BY <1>3, <2>1, NtpRequestKeeps
<1>4. ASSUME NEW t1 \in requests, SenderReceives(t1)
      PROVE  NtpInv' /\ now' <= NtpMaxTime
  <2>1. now' = now
    BY <1>4 DEF SenderReceives
  <2> QED BY <1>4, <2>1, SenderReceivesKeeps
<1>5. ASSUME NEW r \in replies, SenderReplies(r)
      PROVE  NtpInv' /\ now' <= NtpMaxTime
  <2>1. now' = now
    BY <1>5 DEF SenderReplies
  <2> QED BY <1>5, <2>1, SenderRepliesKeeps
<1>6. ASSUME NEW r \in replies, ntp_sync_process_packet(r)
      PROVE  NtpInv' /\ now' <= NtpMaxTime
  <2>1. now' = now
    BY <1>6 DEF ntp_sync_process_packet
  <2> QED BY <1>6, <2>1, NtpSampleKeeps
<1> QED BY <1>1, <1>2, <1>3, <1>4, <1>5, <1>6 DEF NtpNext

(* A step of the PTP clock only lets time pass.                            *)
LEMMA PtpStepTime ==
    ASSUME now \in Nat, PtpNext
    PROVE  now' \in Nat /\ now <= now'
<1>1. CASE PtpTick
  BY <1>1 DEF PtpTick
<1>2. CASE UNCHANGED now
  BY <1>2
<1>3. PtpTick \/ UNCHANGED now
  BY DEF PtpNext, SendSync, ReceiveSync, ReceiveFollowUp, Configure, SetAnchor
<1> QED BY <1>1, <1>2, <1>3

(* Each step keeps the invariant.                                          *)
LEMMA ExchangeKeeps ==
    ASSUME ExchangeInv, [ClocksNext]_clockVars
    PROVE  ExchangeInv'
<1>1. CASE stream_type = 0 /\ NtpNext /\ stream_type' = stream_type
  <2>1. NtpInv /\ now <= NtpMaxTime
    BY <1>1 DEF ExchangeInv
  <2>2. NtpInv' /\ now' <= NtpMaxTime
    BY <1>1, <2>1, NtpStepKeeps
  <2> QED BY <1>1, <2>2 DEF ExchangeInv
<1>2. CASE /\ stream_type = 96 /\ PtpNext /\ stream_type' = stream_type
           /\ UNCHANGED <<requests, replies, sync>>
  <2>1. NtpInv /\ now \in Nat /\ sync.request_us \in Nat /\ sync.request_us <= now
    BY NtpFields DEF ExchangeInv
  <2>2. now' \in Nat /\ now <= now'
    BY <1>2, <2>1, PtpStepTime
  <2>3. requests = {} /\ replies = {} /\ ~sync.synchronized
    BY <1>2 DEF ExchangeInv
  <2>4. NtpFlightInv' /\ OffsetInv'
    BY <1>2, <2>3 DEF NtpFlightInv, OffsetInv
  <2>5. sync' \in NtpSyncType /\ sync'.request_us <= now'
    BY <1>2, <2>1, <2>2 DEF NtpInv
  <2>6. NtpInv'
    BY <2>2, <2>4, <2>5 DEF NtpInv
  <2> QED BY <1>2, <2>3, <2>6 DEF ExchangeInv
<1>3. CASE UNCHANGED clockVars
  BY <1>3 DEF clockVars, ntpVars, ptpVars, ExchangeInv, NtpInv, NtpFlightInv, OffsetInv
<1> QED BY <1>1, <1>2, <1>3 DEF ClocksNext

(* The two properties follow.                                              *)
LEMMA ExchangeSound == ExchangeInv => GenuineAccepted /\ DeadlineAccurate
<1>1. CASE stream_type = 0
  BY <1>1, InvAccepts, InvDeadline DEF ExchangeInv
<1>2. CASE stream_type # 0
  BY <1>2 DEF ExchangeInv, GenuineAccepted, DeadlineAccurate
<1> QED BY <1>1, <1>2

(* The invariant of the exchange, whatever is lost, late or repeated.      *)
THEOREM ExchangeHolds == ClocksSpec => []ExchangeInv
<1>1. ClocksInit => ExchangeInv
  BY ExchangeStarts
<1>2. ExchangeInv /\ [ClocksNext]_clockVars => ExchangeInv'
  BY ExchangeKeeps
<1> QED BY <1>1, <1>2, PTL DEF ClocksSpec

(* ntp_sync_process_packet: the plausibility check never turns down an     *)
(* answer to the pending request that came within the longest round trip.  *)
THEOREM RepliesAreAccepted == ClocksSpec => []GenuineAccepted
BY ExchangeHolds, ExchangeSound, PTL

(* ntp_sync_deadline: a frame is due when the sender says, but for half    *)
(* the round trip of the sample and the rounding, for every time base,     *)
(* rate and offset, across the ends of the rings.                          *)
THEOREM NtpDeadlines == ClocksSpec => []DeadlineAccurate
BY ExchangeHolds, ExchangeSound, PTL
=============================================================================
