---------------------------- MODULE MCRebalance ----------------------------
(* Two mints. The balances of 29 and 71 add up to 100, so that shares and   *)
(* drifts are whole and their floats may fall short; 29 and 70 sum to 99    *)
(* and 29 and 72 to 101, on either boundary of the tolerance.               *)
EXTENDS Rebalance, TLC

CONSTANTS m1, m2

MCMints == {m1, m2}
MCSymmetry == Permutations(MCMints)
=============================================================================
