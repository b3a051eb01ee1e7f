---------------------------- MODULE MCLifecycle -----------------------------
(* One challenge of up to two agents, created and executed by requests or   *)
(* by the script, two requests at once beside it.  A slot serves any number *)
(* of requests, one after the other.                                        *)
EXTENDS Lifecycle

MCAgentIds == {1, 2}

MCSymmetry == Permutations(Requests)
=============================================================================
