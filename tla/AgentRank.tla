------------------------------ MODULE AgentRank ------------------------------
(***************************************************************************)
(* The rank accounts of the on-chain program (update_agent_rank.rs): one    *)
(* PDA per agent, created by its first update and overwritten by the later  *)
(* ones.  It shares the config and the strategies with the challenges, and  *)
(* nothing else, so it is a specification of its own over the registry.     *)
(* Of the statistics an update carries the score and the wins are kept.     *)
(***************************************************************************)
EXTENDS Registry

CONSTANTS
  Scores,     \* scores an update_agent_rank may carry
  WinCounts   \* wins it may carry

ASSUME ScoresAssumption == Scores \subseteq Nat
ASSUME WinCountsAssumption == WinCounts \subseteq Nat

VARIABLE rank      \* AgentRankAccount of each agent id

rankVars == <<admin, strategies, rank>>

MaxScore == 10000  \* constants.rs MAX_SCORE

AgentRankAccount ==
  [agent_id : AgentIds \cup {0},
   owner    : OptionOf(Signers),
   score    : 0..MaxScore,
   wins     : Nat]

(* init_if_needed hands the handler a zeroed account.                       *)
ZeroRank == [agent_id |-> 0, owner |-> None, score |-> 0, wins |-> 0]

RankInit ==
  /\ RegistryInit
  /\ rank = [a \in AgentIds |-> ZeroRank]

(* Mutants: the owner follows the strategy passed with every update; a      *)
(* score is stored without its limit.                                       *)
OwnerAlwaysTaken(r, a, o) == [r EXCEPT !.agent_id = a, !.owner = o]
AnyScore(score) == TRUE

ValidScore(score) == score <= MaxScore

(* "Initialize on first creation": a zero agent_id is read as "new".        *)
RankInitialized(r, a, o) ==
  IF r.agent_id = 0 THEN [r EXCEPT !.agent_id = a, !.owner = o] ELSE r

UpdateAgentRank(s, a, o, score, wins) ==
  /\ Registered(o, a)
  /\ IsAdmin(s)
  /\ ValidScore(score)
  /\ rank' = [rank EXCEPT ![a] =
                [RankInitialized(rank[a], a, o) EXCEPT !.score = score, !.wins = wins]]
  /\ UNCHANGED registryVars

RankNext ==
  \/ RegistryNext /\ UNCHANGED rank
  \/ \E s, o \in Signers, a \in AgentIds, score \in Scores, wins \in WinCounts :
       UpdateAgentRank(s, a, o, score, wins)

RankSpec == RankInit /\ [][RankNext]_rankVars

-----------------------------------------------------------------------------
RankTypeOK ==
  /\ RegistryTypeOK
  /\ rank \in [AgentIds -> AgentRankAccount]

(* The owner written when an agent's rank account is created is an owner    *)
(* who registered that agent, and no later update, whichever registered     *)
(* strategy it is sent with, replaces it.  Agent id 0 is excluded: there    *)
(* the handler cannot tell a created account from a new one.                *)
RankOwnerFixed ==
  [][\A a \in AgentIds \ {0} :
       rank'[a].owner # rank[a].owner =>
         /\ rank[a].owner = None
         /\ Registered(rank'[a].owner, a)]_rankVars

(* update_agent_rank.rs:61 says of the assignment of the owner "Initialize  *)
(* on first creation": once an account exists, its owner stays.             *)
OwnerSetOnFirstCreation ==
  [][\A a \in AgentIds :
       rank[a].owner # None => rank'[a].owner = rank[a].owner]_rankVars
=============================================================================
