-------------------------- MODULE MCBufferedAudio --------------------------
(* BufferedAudio with 3 records around the wrap of a ring of 10 sequence   *)
(* numbers, records of 3 to 4 bytes and announced lengths out of range.    *)
EXTENDS BufferedAudio
=============================================================================
