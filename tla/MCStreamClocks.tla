-------------------------- MODULE MCStreamClocks --------------------------
(* NTP seconds of 4 microseconds and 9 fractions, an era that ends during  *)
(* the run and a sender that is a second and a half behind; two PTP clocks *)
(* that are 3 apart.                                                       *)
EXTENDS StreamClocks

MCTheta == -6
MCClockTheta == [c \in Clocks |-> 3 * c - 4]
=============================================================================
