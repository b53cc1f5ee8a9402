--------------------------- MODULE MCRtspChannel ---------------------------
(* A small request, one as large as the buffer, one whose body and one     *)
(* whose header cannot fit; public values that differ in their leading     *)
(* zeros only, zero and none.                                              *)
EXTENDS ControlConnection

MCShapes ==
    {[head |-> 1, size |-> 2], [head |-> 2, size |-> 4],
     [head |-> 2, size |-> 5], [head |-> 5, size |-> 5]}
MCPublics == {<<1, 1, 1, 1, 1, 1>>, <<0, 0, 0, 0, 0, 2>>, <<2>>, <<0, 0>>, <<>>}
=============================================================================
