---------------------------- MODULE MCMountTable ----------------------------
(* Instances of MountTable for TLC: the mount points are interchangeable.  *)
EXTENDS MountTable, TLC

Symmetry == Permutations(MountPoints)

=============================================================================
