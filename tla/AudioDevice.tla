---------------------------- MODULE AudioDevice ----------------------------
(***************************************************************************)
(* What platform/audio.h promises of an output device, whichever driver is *)
(* behind it: the frames that audio_write accepts are played in the order  *)
(* they were written, each of them once and unchanged, until audio_close   *)
(* stops the device and drops the rest.                                    *)
(***************************************************************************)
EXTENDS Integers, Sequences

VARIABLES
    queued,    \* the frames accepted and not yet played
    accepted   \* the frame accepted last

(* A frame carries the packet it belongs to and its index in the packet.   *)
(* A packet may be cut short or left out, but no frame comes twice.        *)
Follows(g, f) ==
    \/ g.packet = f.packet /\ g.index = f.index + 1
    \/ g.packet > f.packet /\ g.index = 1

Accept ==
    /\ Len(queued') > Len(queued)
    /\ SubSeq(queued', 1, Len(queued)) = queued
    /\ LET run == <<accepted>> \o SubSeq(queued', Len(queued) + 1, Len(queued')) IN
       /\ \A i \in 1 .. Len(run) - 1 : Follows(run[i + 1], run[i])
       /\ accepted' = run[Len(run)]

Play ==
    /\ queued # <<>>
    /\ queued' = Tail(queued)
    /\ accepted' = accepted

Close ==
    /\ queued' = <<>>
    /\ accepted' = accepted

DeviceInit == queued = <<>>

DeviceSpec == DeviceInit /\ [][Accept \/ Play \/ Close]_<<queued, accepted>>
=============================================================================
