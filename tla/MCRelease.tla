------------------------------ MODULE MCRelease -----------------------------
(* Release for TLC: workers are interchangeable.                           *)
EXTENDS Release, TLC

WorkerSymmetry == Permutations(Workers)

=============================================================================
