--------------------------- MODULE MCSnapshotView ---------------------------
(* Instances of SnapshotView for TLC.                                      *)
EXTENDS SnapshotView, TLC

\* The files are interchangeable.
PathSymmetry == Permutations(Paths)
=============================================================================
