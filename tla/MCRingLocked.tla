---------------------------- MODULE MCRingLocked ----------------------------
(* Small instances of RingLocked. *)
EXTENDS RingLocked, SequencesExt

CONSTANTS m1, m2, m3, m4, m5

(* Lengths in words with a header of two: against eight words of memory    *)
(* they produce pads, records extended to the boundary, and exact fits.    *)
RecordLenDef == [m \in Msgs |-> CASE m = m1 -> 3 [] m = m2 -> 4
                                  [] m = m3 -> 2 [] m = m4 -> 3
                                  [] OTHER -> 4]

Symmetry == Permutations(Consumers) \cup Permutations(Producers)
=============================================================================
