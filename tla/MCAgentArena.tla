---------------------------- MODULE MCAgentArena ----------------------------
(* A small instance of the on-chain program: two signers, two challenges    *)
(* and two agents.  The ids of signers and challenges are only compared, so *)
(* they are symmetric; the properties are safety properties.                *)
EXTENDS AgentArena, TLC

MCAgentIds == {1, 2}

MCSymmetry == Permutations(Signers) \cup Permutations(Challenges)
=============================================================================
