-------------------------- MODULE MCAudioService ---------------------------
(* AudioService for TLC: the senders are symmetric (safety runs only).     *)
EXTENDS AudioService, TLC

Symmetry == Permutations(Peers)
=============================================================================
