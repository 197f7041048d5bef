----------------------------- MODULE MCCloudLease -----------------------------
(* Small instances of CloudLease for TLC.                                  *)
EXTENDS CloudLease, TLC

(* No slot is distinguished, so safety may be checked up to renaming.      *)
RunSymmetry == Permutations(Run)
=============================================================================
