--------------------------- MODULE MCRingLockfree ---------------------------
(* Small instances of RingLockfree. *)
EXTENDS RingLockfree, TLC

CONSTANTS m1, m2, m3, m4, m5

(* With a header of two words and eight words of memory these lengths      *)
(* produce pads, records extended to the boundary and exact fits.          *)
RecordLenDef == [m \in Msgs |-> CASE m = m1 -> 3 [] m = m3 -> 2 [] OTHER -> 4]

(* Records of the same length are interchangeable. *)
Symmetry ==
    Permutations(Producers) \cup Permutations(Consumers)
        \cup Permutations({m \in Msgs : RecordLen[m] = 4})
=============================================================================
