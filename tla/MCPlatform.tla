----------------------------- MODULE MCPlatform -----------------------------
(* Each audio driver with packets of two frames: enough of them to fill    *)
(* the driver's buffers, and for waveOut to take its position around the   *)
(* ring.  Socket calls that wait for ever or for two milliseconds of a     *)
(* clock that wraps during them, and a message of three bytes for a kernel *)
(* that buffers two.                                                       *)
EXTENDS Platform

MCBackends == {"alsa", "audioqueue", "waveout", "board"}

MCPackets ==
    [b \in Backends |-> CASE b = "waveout" -> 4 [] b = "board" -> 2 [] OTHER -> 3]

MCMaxTime == [b \in Backends |-> IF b = "waveout" THEN 8 ELSE 5]

MCSources ==
    [b \in Backends |-> CASE b = "waveout" -> {"alone"}
                            [] b = "audioqueue" -> {"ntp"}
                            [] OTHER -> {"ntp", "alone", "ptp"}]

MCTimeouts == {-1, 2}
=============================================================================
