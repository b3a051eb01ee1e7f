---------------------------- MODULE MCDeploySaga ----------------------------
(* Four requests, two of them served at once: enough for a row, two         *)
(* requests that race on it and one that follows.                           *)
EXTENDS DeploySaga, TLC

MCSymmetry == Permutations(Requests)
=============================================================================
