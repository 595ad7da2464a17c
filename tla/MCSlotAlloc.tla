---------------------------- MODULE MCSlotAlloc -----------------------------
(* Model values and symmetry for the TLC runs of SlotAlloc. *)
EXTENDS SlotAlloc, TLC

CONSTANTS t1, t2, t3

TwoThreads   == {t1, t2}
ThreeThreads == {t1, t2, t3}
Symmetry     == Permutations(Thread)
=============================================================================
