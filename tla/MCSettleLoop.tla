---------------------------- MODULE MCSettleLoop ----------------------------
(* Every list of up to three accounts drawn from the runs of three agents   *)
(* (pending, invalid, or complete with two balances and two end times), a   *)
(* run of another challenge and an account of another program.              *)
EXTENDS SettleLoop

MCRun(a, completion, usdc, at) ==
  [owned |-> TRUE, challenge_id |-> ThisChallenge, agent_id |-> a,
   completion |-> completion, ending_usdc |-> usdc, ended_at |-> at]

MCRunsOf(a) ==
  {MCRun(a, None, None, None), MCRun(a, "invalid", 8, 0)}
    \cup {MCRun(a, "complete", usdc, at) : usdc \in {7, 8}, at \in {0, 1}}

MCAccounts ==
  UNION {MCRunsOf(a) : a \in Agents}
    \cup { [MCRun(a, "complete", 8, 0) EXCEPT !.challenge_id = c] :
             a \in {CHOOSE b \in Agents : TRUE}, c \in ChallengeIds \ {ThisChallenge} }
    \cup { [MCRun(a, "complete", 8, 0) EXCEPT !.owned = FALSE] :
             a \in {CHOOSE b \in Agents : TRUE} }

MCInputLists == UNION {[1..n -> MCAccounts] : n \in 0..3}
=============================================================================
