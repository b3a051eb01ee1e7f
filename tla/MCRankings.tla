----------------------------- MODULE MCRankings -----------------------------
(* Two local agents that meet in two challenges and a hosted instance in    *)
(* one of its own; two settlements at once, each followed by others.        *)
EXTENDS Rankings, TLC

CONSTANTS c1, c2, h1

MCAgentIds == {1, 2, 3}
MCHosted == {3}
MCEntrants == (c1 :> {1, 2}) @@ (c2 :> {1, 2}) @@ (h1 :> {3})
MCQualities == {100}

MCSymmetry == Permutations(Processes)
=============================================================================
