------------------------- MODULE ControlConnection -------------------------
(***************************************************************************)
(* One control connection: the exchange that pairs it, and the byte        *)
(* channel that carries its requests in clear and, once it is paired, in   *)
(* sealed records.  RtspChannel knows of pairing only that a request       *)
(* completes it, Pairing of the channel only that requests and responses   *)
(* pass or the connection ends, so the two are explored side by side.      *)
(***************************************************************************)
EXTENDS RtspChannel, Pairing

VARIABLE part   \* "channel" or "pairing"

connectionVars == <<part, vars, pairingVars>>

ConnectionInit == part \in {"channel", "pairing"} /\ Init /\ PairingInit

ConnectionNext ==
    /\ \/ part = "channel" /\ Next /\ UNCHANGED pairingVars
       \/ part = "pairing" /\ PairingNext /\ UNCHANGED vars
    /\ UNCHANGED part

ConnectionSpec == ConnectionInit /\ [][ConnectionNext]_connectionVars /\ Fairness
=============================================================================
