------------------------------ MODULE NtpSync ------------------------------
(***************************************************************************)
(* The AirPlay 1 timing exchange of shared/sync/ntp_sync.c: requests and   *)
(* replies over UDP that may be lost, repeated, late or out of order, the  *)
(* choice of a reference sample, and the conversion of RTP timestamps to   *)
(* local deadlines.                                                        *)
(*                                                                         *)
(* A second has Second microseconds (10^6 in the code) and Fraction NTP    *)
(* fractions (2^32); NTP seconds are counted on a ring of 2*HalfEra        *)
(* values (2^32), RTP frames on a ring of 2*HalfRtp values (2^32).  The    *)
(* sender's clock shows Theta microseconds more than the local one.        *)
(***************************************************************************)
EXTENDS OsTime, FiniteSets

CONSTANTS
    Second, Fraction, HalfEra, HalfRtp,
    Epoch,        \* NTP_EPOCH_OFFSET, in seconds
    Theta,        \* sender's clock minus local clock
    Rate,         \* frames per second
    FirstFrame,   \* the RTP timestamp of time 0 at the sender
    MaxRtt,       \* a longer round trip is rejected: 500 ms
    Slack,        \* round trips so much above the best are taken: 500 us
    MaxAge,       \* the reference sample is replaced after this: 10 s
    FastInterval, SlowInterval, FastRequests,  \* 250 ms, 2 s, 4
    NtpMaxTime,   \* bound: time
    MaxFlight,    \* bound: what takes longer, from request to reply, is lost
    MaxReplies    \* bound: replies in flight

ASSUME TimeAssumption ==
    /\ {Second, Fraction, HalfEra, HalfRtp, Rate, FastInterval, SlowInterval}
          \subseteq Nat \ {0}
    /\ {Epoch, FirstFrame, MaxRtt, Slack, MaxAge, FastRequests, NtpMaxTime, MaxFlight,
          MaxReplies} \subseteq Nat
    /\ Theta \in Int /\ Fraction >= 2 * Second

(* The clocks are less than half an era apart at any time that is          *)
(* converted: ntp_sync_diff_us takes the difference of the seconds as      *)
(* signed.                                                                 *)
ASSUME EraAssumption ==
    LET span == NtpMaxTime + Second + (HalfRtp * Second) \div Rate
    IN  span + Theta < (HalfEra - 1) * Second /\ span - Theta < (HalfEra - 1) * Second

VARIABLES
    requests,  \* requests on their way to the sender: their transmit times
    replies,   \* the sender's replies: [origin, receive, transmit], local times
    sync       \* ntp_sync_t

ntpVars == <<now, requests, replies, sync>>

----------------------------------------------------------------------------
(* NTP time. *)
Remainder(a, b) == a - b * Quotient(a, b)

(* The signed value of a difference on a ring of 2*half values.            *)
Signed(d, half) == ((d + half) % (2 * half)) - half

from_us(us) ==
    [seconds |-> (us \div Second + Epoch) % (2 * HalfEra),
     fraction |-> ((us % Second) * Fraction) \div Second]

(* b - a in microseconds. *)
ntp_sync_diff_us(a, b) ==
    Signed(b.seconds - a.seconds, HalfEra) * Second
        + Quotient((b.fraction - a.fraction) * Second, Fraction)

(* What the sender's clock shows at local time us. *)
SenderTime(us) == from_us(us + Theta)

----------------------------------------------------------------------------
InitialSync ==
    [pending |-> FALSE, request_us |-> 0, next_request_us |-> 0, requests |-> 0,
     synchronized |-> FALSE, offset_us |-> 0, rtt_us |-> 0, best_sample_us |-> 0]

NtpInit ==
    /\ now = 0
    /\ requests = {}
    /\ replies = {}
    /\ sync = InitialSync

(* audio_pipeline_set_transport: a new sender, or the same one again, with *)
(* requests and replies still under way.                                   *)
ntp_sync_init ==
    /\ sync' = InitialSync
    /\ UNCHANGED <<now, requests, replies>>

NtpTick ==
    /\ now < NtpMaxTime
    /\ now' = now + 1
    /\ requests' = {t1 \in requests : now' - t1 <= MaxFlight}
    /\ replies' = {r \in replies : now' - r.origin <= MaxFlight}
    /\ UNCHANGED sync

(* pipeline_poll_inputs sends a request when one is due.  requests counts  *)
(* up to the change of the interval.                                       *)
ntp_sync_request ==
    /\ now >= sync.next_request_us
    /\ requests' = requests \cup {now}
    /\ sync' = [sync EXCEPT
          !.pending = TRUE,
          !.request_us = now,
          !.requests = IF @ <= FastRequests THEN @ + 1 ELSE @,
          !.next_request_us =
              now + IF sync.requests + 1 <= FastRequests THEN FastInterval ELSE SlowInterval]
    /\ UNCHANGED <<now, replies>>

(* The sender takes a request up and answers it, maybe later, maybe twice. *)
SenderReceives(t1) ==
    /\ Cardinality(replies) < MaxReplies
    /\ replies' = replies \cup {[origin |-> t1, receive |-> now, transmit |-> -1]}
    /\ requests' \in {requests, requests \ {t1}}
    /\ UNCHANGED <<now, sync>>

SenderReplies(r) ==
    /\ r.transmit = -1
    /\ replies' = (replies \ {r}) \cup {[r EXCEPT !.transmit = now]}
    /\ UNCHANGED <<now, requests, sync>>

----------------------------------------------------------------------------
(* ntp_sync_process_packet *)
Processing(r) == ntp_sync_diff_us(SenderTime(r.receive), SenderTime(r.transmit))

RoundTrip(r) == (now - sync.request_us) - Processing(r)

Offset(r) ==
    Quotient(ntp_sync_diff_us(from_us(r.origin), SenderTime(r.receive))
                + ntp_sync_diff_us(from_us(now), SenderTime(r.transmit)), 2)

(* The reply is to the request that is pending.                            *)
Answers(r) == sync.pending /\ from_us(r.origin) = from_us(sync.request_us)

(* Mutant of Plausible: no rounding is allowed for. *)
PlausibleStrict(r) == Processing(r) >= 0 /\ RoundTrip(r) >= 0 /\ RoundTrip(r) <= MaxRtt

Plausible(r) == Processing(r) >= 0 /\ RoundTrip(r) >= -2 /\ RoundTrip(r) <= MaxRtt

Preferred(rtt) ==
    \/ ~sync.synchronized
    \/ rtt <= sync.rtt_us + Slack
    \/ now - sync.best_sample_us > MaxAge

Clamped(rtt) == IF rtt < 0 THEN 0 ELSE rtt

ntp_sync_process_packet(r) ==
    /\ r.transmit # -1
    /\ Answers(r) /\ Plausible(r)
    /\ LET rtt == Clamped(RoundTrip(r)) IN
       sync' = IF Preferred(rtt)
               THEN [sync EXCEPT !.pending = FALSE, !.synchronized = TRUE,
                       !.offset_us = Offset(r), !.rtt_us = rtt, !.best_sample_us = now]
               ELSE [sync EXCEPT !.pending = FALSE]
    /\ UNCHANGED <<now, requests, replies>>

NtpNext ==
    \/ NtpTick
    \/ ntp_sync_init
    \/ ntp_sync_request
    \/ \E t1 \in requests : SenderReceives(t1)
    \/ \E r \in replies : SenderReplies(r) \/ ntp_sync_process_packet(r)

NtpSpec == NtpInit /\ [][NtpNext]_ntpVars

----------------------------------------------------------------------------
(* Deadlines.  The sender announces, in a control packet, the frame that   *)
(* is due at local time at: rtp_base and ntp_base of ntp_sync_control.     *)
Frame(n) == (FirstFrame + n) % (2 * HalfRtp)

RtpBase(at) == Frame((at * Rate) \div Second)

(* Mutant of ntp_sync_rtp_to_ntp: the fraction is not carried. *)
rtp_to_ntp_no_carry(at, timestamp) ==
    LET base == SenderTime(at)
        delta == Quotient(Signed(timestamp - RtpBase(at), HalfRtp) * Second, Rate)
        raw == base.fraction + Quotient(Remainder(delta, Second) * Fraction, Second)
    IN [seconds |-> (base.seconds + Quotient(delta, Second)) % (2 * HalfEra),
        fraction |-> raw % Fraction]

ntp_sync_rtp_to_ntp(at, timestamp) ==
    LET base == SenderTime(at)
        delta == Quotient(Signed(timestamp - RtpBase(at), HalfRtp) * Second, Rate)
        raw == base.fraction + Quotient(Remainder(delta, Second) * Fraction, Second)
        carry == IF raw < 0 THEN -1 ELSE IF raw >= Fraction THEN 1 ELSE 0
    IN [seconds |-> (base.seconds + Quotient(delta, Second) + carry) % (2 * HalfEra),
        fraction |-> raw - carry * Fraction]

ntp_sync_deadline(at, timestamp) ==
    now + ntp_sync_diff_us(from_us(now), ntp_sync_rtp_to_ntp(at, timestamp)) - sync.offset_us

Abs(x) == IF x >= 0 THEN x ELSE -x

(* An answer to the pending request is never rejected for its timestamps:  *)
(* the conversions to NTP fractions and back cost at most the 2 us that    *)
(* the check allows.                                                       *)
GenuineAccepted ==
    \A r \in replies : r.transmit # -1 /\ Answers(r) /\ now - r.origin <= MaxRtt => Plausible(r)

(* A frame is scheduled when the sender means it to be heard, within the   *)
(* clock error and the rounding of one frame, before and after the anchor  *)
(* and across the wrap of RTP timestamps, NTP fractions and NTP eras.      *)
DeadlineAccurate ==
    sync.synchronized =>
        \A at \in 0 .. Second, n \in -(HalfRtp \div 2) .. HalfRtp \div 2 :
            2 * Abs(ntp_sync_deadline(at, (RtpBase(at) + n) % (2 * HalfRtp))
                      - (at + Quotient(n * Second, Rate)))
                <= sync.rtt_us + 6
=============================================================================
