--------------------------- MODULE MCTimingWheel ---------------------------
(* Instances of TimingWheelUse for TLC. *)
EXTENDS TimingWheelUse, TLC

\* The entries are interchangeable.
Symmetry == Permutations(Entries)
=============================================================================
