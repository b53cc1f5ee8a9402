--------------------------- MODULE MCRtspControl ---------------------------
(* RtspControl for TLC: the client slots and the senders are symmetric.    *)
EXTENDS RtspControl, TLC

Symmetry == Permutations(Clients) \cup Permutations(Peers)
=============================================================================
