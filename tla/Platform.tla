------------------------------ MODULE Platform ------------------------------
(***************************************************************************)
(* The platform calls the service threads block in: the socket calls and   *)
(* the timed writes to the audio output.  They share no state, so a        *)
(* behaviour exercises one side or the other.  The fairness that           *)
(* AudioService and ServerLifecycle assume of a poll rests on the bounds   *)
(* shown here.                                                             *)
(***************************************************************************)
EXTENDS AudioOutput, NetIo

VARIABLE side

platformVars == <<side, outputVars, netVars>>

PlatformInit ==
    /\ OutputInit /\ NetInit
    /\ \/ side = "audio"
       \/ side = "net" /\ backend = "board" /\ source = "ptp"

PlatformNext ==
    \/ side = "audio" /\ OutputNext /\ UNCHANGED <<side, netVars>>
    \/ side = "net" /\ NetNext /\ UNCHANGED <<side, outputVars>>

PlatformSpec == PlatformInit /\ [][PlatformNext]_platformVars /\ OutputFairness
=============================================================================
