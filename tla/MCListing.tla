----------------------------- MODULE MCListing -----------------------------
(* Instances of Listing for TLC: the readers are interchangeable.          *)
EXTENDS Listing, TLC

Symmetry == Permutations(Readers)

=============================================================================
