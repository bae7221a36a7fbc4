----------------------------- MODULE MCRelease -----------------------------
(* A small instance of Release: two versions to release after the first.   *)
EXTENDS Release

\* New versions are interchangeable, and so are new artifacts.
ReleaseSymmetry == Permutations(Versions \ {First}) \cup Permutations(Checksums \ {FirstSum})
=============================================================================
