------------------------------ MODULE PtpSync ------------------------------
(***************************************************************************)
(* The receive-only PTP clock of shared/sync/ptp_sync.c and the playback   *)
(* anchor it serves.  Sync and Follow_Up messages of several clocks reach  *)
(* the receiver delayed, repeated, reordered or not at all; sessions and   *)
(* anchors select the clock to follow at any time.                         *)
(*                                                                         *)
(* Times are microseconds of the receiver's clock; the clock of identity   *)
(* c shows ClockTheta[c] more.  Drift is left out: it is constant.         *)
(***************************************************************************)
EXTENDS OsTime, FiniteSets

CONSTANTS
    Clocks,       \* clock identities, none of them 0
    Domains,      \* PTP domains and source ports, as numbers
    ClockTheta,   \* ClockTheta[c]: what clock c shows beyond the local one
    MaxDelay,     \* a Sync or Follow_Up that takes longer is lost
    Corrections,  \* corrections that switches on the path report
    MatchTime,    \* a Follow_Up is matched for so long: 1 s
    Window,       \* the offset is replaced after so long: 2 s
    Fresh,        \* the offset is usable for so long: 5 s
    Smooth,       \* weight of a worse sample: 64
    PtpMaxTime,   \* bound: time
    MaxSyncs      \* bound: Sync messages in flight

ASSUME ClocksAssumption ==
    /\ Clocks \subseteq Nat \ {0} /\ Domains \subseteq Nat
    /\ ClockTheta \in [Clocks -> Int]
ASSUME TimesAssumption ==
    /\ {MaxDelay, MatchTime, Window, Fresh, PtpMaxTime, MaxSyncs} \subseteq Nat
    /\ Corrections \subseteq Nat
    /\ Smooth \in Nat \ {0}

VARIABLES
    syncs,    \* the Sync messages in flight, each with its Follow_Up
    ptp,      \* ptp_sync_t
    anchor    \* pipeline.anchor; at is the instant it really denotes

ptpVars == <<now, syncs, ptp, anchor>>

NoAnchor == [valid |-> FALSE, clock_id |-> 0, network_us |-> 0, at |-> 0]
NoSource == [clock |-> 0, domain |-> 0]

(* A Sync that waits for its Follow_Up, and the offset.  What they hold    *)
(* while pending, or ready, is clear is never read: it is normalised.      *)
NoSync == [sequence |-> 0, source |-> NoSource, received_us |-> 0, correction |-> 0]
NoSample == [offset_us |-> 0, updated_us |-> 0]

PtpInit ==
    /\ now = 0
    /\ syncs = {}
    /\ ptp = [clock_id |-> 0, pending |-> FALSE, sync |-> NoSync,
              ready |-> FALSE, sample |-> NoSample]
    /\ anchor = NoAnchor

----------------------------------------------------------------------------
(* A message that is late by more than MaxDelay is lost.                   *)
PtpTick ==
    /\ now < PtpMaxTime
    /\ now' = now + 1
    /\ syncs' = {m \in syncs : now' - m.at <= MaxDelay}
    /\ UNCHANGED <<ptp, anchor>>

(* A clock sends a Sync.  A two-step one is completed by a Follow_Up with  *)
(* the same sequence number, which carries the time it was sent.  Each     *)
(* source counts its messages, at most one a tick, from its own origin;    *)
(* numbers come back only after much longer than MatchTime.                *)
Sources == [clock : Clocks, domain : Domains]

SequenceId(m) == m.at + m.source.domain

SendSync(source) ==
    /\ Cardinality(syncs) < MaxSyncs
    /\ \A m \in syncs : m.source = source => m.at < now
    /\ \E two_step \in BOOLEAN, c1, c2 \in Corrections :
          syncs' = syncs \cup {[source |-> source, at |-> now, two_step |-> two_step,
                               correction |-> c1,
                               follow_correction |-> IF two_step THEN c2 ELSE 0]}
    /\ UNCHANGED <<now, ptp, anchor>>

(* What is delivered took at least the delay that the path reports.        *)
Arrives(m) == now - m.at >= m.correction + m.follow_correction

(* The sender's time of m. *)
Stamp(m) == m.at + ClockTheta[m.source.clock]

----------------------------------------------------------------------------
(* Samples with less delay are larger: they are taken, others smoothed.    *)
Filtered(p, offset) ==
    IF ~p.ready \/ now - p.sample.updated_us > Window \/ offset > p.sample.offset_us
    THEN offset
    ELSE p.sample.offset_us + Quotient(offset - p.sample.offset_us, Smooth)

Sampled(p, offset) ==
    [p EXCEPT !.sample = [offset_us |-> Filtered(p, offset), updated_us |-> now],
              !.ready = TRUE, !.pending = FALSE, !.sync = NoSync]

(* ptp_sync_packet of a Sync of the selected clock; others are ignored.    *)
ReceiveSync(m) ==
    /\ m.source.clock = ptp.clock_id
    /\ Arrives(m)
    /\ LET p == [ptp EXCEPT !.pending = TRUE,
                    !.sync = [sequence |-> SequenceId(m), source |-> m.source,
                              received_us |-> now, correction |-> m.correction]]
       IN ptp' = IF m.two_step THEN p ELSE Sampled(p, Stamp(m) + m.correction - now)
    /\ UNCHANGED <<now, syncs, anchor>>

(* The Follow_Up of m belongs to the Sync received last.                   *)
Matches(m) ==
    /\ ptp.pending
    /\ SequenceId(m) = ptp.sync.sequence
    /\ m.source = ptp.sync.source
    /\ now - ptp.sync.received_us <= MatchTime

ReceiveFollowUp(m) ==
    /\ m.two_step
    /\ m.source.clock = ptp.clock_id
    /\ Matches(m)
    /\ ptp' = Sampled(ptp, Stamp(m) + m.follow_correction + ptp.sync.correction
                              - ptp.sync.received_us)
    /\ UNCHANGED <<now, syncs, anchor>>

----------------------------------------------------------------------------
(* Mutant of ptp_sync_set_clock: samples of the clock before are kept. *)
set_clock_keeps(id) == [ptp EXCEPT !.clock_id = id]

ptp_sync_set_clock(id) ==
    IF ptp.clock_id = id THEN ptp
    ELSE [ptp EXCEPT !.clock_id = id, !.pending = FALSE, !.sync = NoSync,
                     !.ready = FALSE, !.sample = NoSample]

(* audio_pipeline_configure: a session starts, or starts again.            *)
Configure ==
    /\ ptp' = ptp_sync_set_clock(0)
    /\ anchor' = NoAnchor
    /\ UNCHANGED <<now, syncs>>

(* An anchor, from SETRATEANCHORTIME or from an RTP control packet: the    *)
(* frame that is due now by the sender's clock c.                          *)
SetAnchor(c) ==
    /\ anchor' = [valid |-> TRUE, clock_id |-> c,
                  network_us |-> now + ClockTheta[c], at |-> now]
    /\ ptp' = ptp_sync_set_clock(c)
    /\ UNCHANGED <<now, syncs>>

PtpNext ==
    \/ PtpTick
    \/ \E source \in Sources : SendSync(source)
    \/ \E m \in syncs : ReceiveSync(m) \/ ReceiveFollowUp(m)
    \/ Configure
    \/ \E c \in Clocks : SetAnchor(c)

PtpSpec == PtpInit /\ [][PtpNext]_ptpVars

----------------------------------------------------------------------------
(* ptp_sync_deadline for the anchor's own frame, where it returns one.     *)
HasDeadline ==
    /\ ptp.ready /\ anchor.valid
    /\ anchor.clock_id = ptp.clock_id
    /\ now - ptp.sample.updated_us <= Fresh
    /\ anchor.network_us - ptp.sample.offset_us >= 0

Deadline == anchor.network_us - ptp.sample.offset_us

(* A deadline is never early, and late by no more than the network delay:  *)
(* an anchor is never combined with the offset of another clock.           *)
DeadlineCorrect == HasDeadline => Deadline - anchor.at \in 0 .. MaxDelay
=============================================================================
