--------------------------- MODULE MCVersionStore ---------------------------
(* Instances of VersionStore for TLC.                                      *)
EXTENDS VersionStore, TLC

\* The files are interchangeable.
PathSymmetry == Permutations(Paths)
=============================================================================
