---------------------------- MODULE MCSinkQueue ----------------------------
(* Small instances of SinkQueue: with a header of three bytes and a pad of *)
(* two, these lengths produce bridges, exact fits and, with a ring whose   *)
(* size they do not divide, rests too short for a pad.                     *)
EXTENDS SinkQueue

CONSTANTS e1, e2, e3, e4, e5

PackedLenDef ==
    [e \in Events |-> CASE e \in {e1, e4} -> 3 [] e = e2 -> 4 [] OTHER -> 5]
=============================================================================
