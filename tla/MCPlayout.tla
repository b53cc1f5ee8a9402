----------------------------- MODULE MCPlayout -----------------------------
(* Playout on a ring of 6 sequence numbers and 4 timestamps, 3 slots.      *)
EXTENDS Playout
=============================================================================
