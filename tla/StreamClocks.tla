---------------------------- MODULE StreamClocks ----------------------------
(***************************************************************************)
(* The sender's clock as audio_pipeline_poll uses it: a RAOP stream is     *)
(* scheduled by the NTP exchange, an AirPlay 2 stream by the PTP clock and *)
(* its anchor.  Both run on the local clock.                               *)
(***************************************************************************)
EXTENDS NtpSync, PtpSync

VARIABLE stream_type   \* session.stream_type: 0 is RAOP, 96 AirPlay 2

clockVars == <<stream_type, ntpVars, ptpVars>>

ClocksInit == stream_type \in {0, 96} /\ NtpInit /\ PtpInit

ClocksNext ==
    /\ \/ stream_type = 0 /\ NtpNext /\ UNCHANGED <<syncs, ptp, anchor>>
       \/ stream_type = 96 /\ PtpNext /\ UNCHANGED <<requests, replies, sync>>
    /\ UNCHANGED stream_type

ClocksSpec == ClocksInit /\ [][ClocksNext]_clockVars
=============================================================================
