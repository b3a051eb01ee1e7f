--------------------------- MODULE RankingsProofs ---------------------------
(***************************************************************************)
(* No win is made up, and none is lost without an overlap, for any number   *)
(* of challenges, agents and settlements at once.                           *)
(***************************************************************************)
EXTENDS Rankings, FiniteSetTheorems, SequenceTheorems, TLAPS

-----------------------------------------------------------------------------
(* The rank accounts on chain (AgentRank), under whatever the signers send. *)

(* A rank account that was created carries its agent's id, so that only     *)
(* the account of agent 0 can look new twice.                               *)
OwnedHasId == \A a \in AgentIds : rank[a].owner # None => rank[a].agent_id = a

RankInv == RankTypeOK /\ OwnedHasId

LEMMA InitRankInv == RankInit => RankInv
BY DEF RankInit, RankInv, RankTypeOK, OwnedHasId, RegistryInit, RegistryTypeOK,
       AgentRankAccount, ZeroRank, MaxScore, OptionOf

(* What an update writes.                                                   *)
LEMMA UpdateWrites ==
  ASSUME RankTypeOK, NEW s \in Signers, NEW o \in Signers, NEW a \in AgentIds,
         NEW score \in Scores, NEW wins \in WinCounts,
             UpdateAgentRank(s, a, o, score, wins)
  PROVE  /\ rank' \in [AgentIds -> AgentRankAccount]
         /\ \A b \in AgentIds \ {a} : rank'[b] = rank[b]
         /\ rank[a].agent_id # 0 =>
              /\ rank'[a].owner = rank[a].owner
              /\ rank'[a].agent_id = rank[a].agent_id
         /\ rank[a].agent_id = 0 => rank'[a].owner = o /\ rank'[a].agent_id = a
<1> DEFINE r == RankInitialized(rank[a], a, o)
<1>1. /\ r \in AgentRankAccount
      /\ rank[a].agent_id # 0 => r = rank[a]
      /\ rank[a].agent_id = 0 => r.owner = o /\ r.agent_id = a
  BY DEF RankInitialized, RankTypeOK, AgentRankAccount, OptionOf
<1>2. rank' = [rank EXCEPT ![a] = [r EXCEPT !.score = score, !.wins = wins]]
  BY DEF UpdateAgentRank
<1>3. score \in 0..MaxScore
  <2>1. score \in Nat /\ score <= MaxScore
    BY ScoresAssumption DEF UpdateAgentRank, ValidScore
  <2> QED BY <2>1, SMTT(30) DEF MaxScore
<1>4. wins \in Nat
  BY WinCountsAssumption
<1> HIDE DEF r
<1> QED BY <1>1, <1>2, <1>3, <1>4 DEF RankTypeOK, AgentRankAccount

LEMMA StepRankInv == RankInv /\ [RankNext]_rankVars => RankInv'
<1> SUFFICES ASSUME RankInv, [RankNext]_rankVars PROVE RankInv'
  OBVIOUS
<1>1. ASSUME NEW s \in Signers, NEW o \in Signers, NEW a \in AgentIds,
             NEW score \in Scores, NEW wins \in WinCounts,
             UpdateAgentRank(s, a, o, score, wins)
      PROVE  RankInv'
  <2>1. RegistryTypeOK'
    BY <1>1 DEF UpdateAgentRank, registryVars, RankInv, RankTypeOK, RegistryTypeOK
  <2>2. RankTypeOK' /\ OwnedHasId'
    BY <1>1, <2>1, UpdateWrites DEF RankInv, RankTypeOK, OwnedHasId
  <2> QED BY <2>2 DEF RankInv
<1>2. ASSUME NEW s \in Signers, Initialize(s), UNCHANGED rank PROVE RankInv'
  BY <1>2 DEF Initialize, RankInv, RankTypeOK, RegistryTypeOK, OwnedHasId, OptionOf
<1>3. ASSUME NEW s \in Signers, NEW a \in AgentIds, RegisterStrategy(s, a),
             UNCHANGED rank
      PROVE  RankInv'
  <2>1. <<s, a>> \in Signers \X AgentIds
    OBVIOUS
  <2> QED
    BY <1>3, <2>1 DEF RegisterStrategy, RankInv, RankTypeOK, RegistryTypeOK, OwnedHasId
<1>4. CASE UNCHANGED rankVars
  BY <1>4 DEF rankVars, RankInv, RankTypeOK, RegistryTypeOK, OwnedHasId
<1> QED BY <1>1, <1>2, <1>3, <1>4 DEF RankNext, RegistryNext

(* Rank accounts are well-typed, so no score above the limit is ever stored, *)
(* for any set of scores an update may carry.                                *)
THEOREM RankTypeCorrect == RankSpec => []RankTypeOK
<1>1. RankInv => RankTypeOK
  BY DEF RankInv
<1> QED BY <1>1, InitRankInv, StepRankInv, PTL DEF RankSpec

OwnerStep ==
  \A a \in AgentIds \ {0} :
    rank'[a].owner # rank[a].owner =>
      /\ rank[a].owner = None
      /\ Registered(rank'[a].owner, a)

LEMMA StepOwner == RankInv /\ [RankNext]_rankVars => [OwnerStep]_rankVars
<1> SUFFICES ASSUME RankInv, RankNext PROVE OwnerStep
  OBVIOUS
<1>1. CASE UNCHANGED rank
  BY <1>1 DEF OwnerStep
<1>2. ASSUME NEW s \in Signers, NEW o \in Signers, NEW a \in AgentIds,
             NEW score \in Scores, NEW wins \in WinCounts,
             UpdateAgentRank(s, a, o, score, wins)
      PROVE  OwnerStep
  <2>1. ASSUME NEW b \in AgentIds \ {0}, rank'[b].owner # rank[b].owner
        PROVE  rank[b].owner = None /\ Registered(rank'[b].owner, b)
    <3>1. b = a /\ rank[a].agent_id = 0 /\ rank'[a].owner = o
      BY <1>2, <2>1, UpdateWrites DEF RankInv
    <3> QED BY <1>2, <2>1, <3>1 DEF RankInv, OwnedHasId, UpdateAgentRank
  <2> QED BY <2>1 DEF OwnerStep
<1> QED BY <1>1, <1>2 DEF RankNext

(* Once the rank account of an agent other than 0 exists, its owner is the  *)
(* one that registered the agent and stays so through any updates.          *)
THEOREM OwnerFixed == RankSpec => RankOwnerFixed
<1>1. RankSpec => []RankInv
  BY InitRankInv, StepRankInv, PTL DEF RankSpec
<1>2. RankSpec => [][OwnerStep]_rankVars
  BY <1>1, StepOwner, PTL DEF RankSpec
<1> QED BY <1>2 DEF RankOwnerFixed, OwnerStep

-----------------------------------------------------------------------------
(* The snapshots and rank updates of settlements (Rankings).                *)

(* A settlement under way is of a challenge that is over.  From its ranking *)
(* on it has a run at least on record for each agent.                       *)
InFlight ==
  \A p \in Processes :
    ~At(p, "idle") =>
      /\ process[p].c \in Challenges
      /\ best[process[p].c] # None
      /\ IsHosted(process[p].c) \/ IsLocal(process[p].c)
      /\ At(p, "settle_call") => ~IsHosted(process[p].c)
      /\ process[p].todo \subseteq Entrants[process[p].c]
      /\ Ranking(p) =>
           \A a \in Entrants[process[p].c] : process[p].total[a] # 0

BestIsEntrant == \A c \in Challenges : best[c] # None => best[c] \in Entrants[c]

TypeInv == RankingsTypeOK /\ InFlight /\ BestIsEntrant

LEMMA AgentsNotNone == None \notin AgentIds
BY AgentIdsAssumption, NoneAssumption

LEMMA TerminalRunsType ==
  ASSUME NEW a \in AgentIds
  PROVE  /\ TerminalRuns(a) \in Nat
         /\ \A c \in Challenges : a \in Entrants[c] /\ best[c] # None => TerminalRuns(a) # 0
<1> DEFINE S == {c \in Challenges : a \in Entrants[c] /\ best[c] # None}
<1>1. IsFiniteSet(S)
  BY ChallengesAssumption, FS_Subset
<1>2. Cardinality(S) \in Nat /\ (Cardinality(S) = 0 <=> S = {})
  BY <1>1, FS_CardinalityType, FS_EmptySet
<1> QED BY <1>2 DEF TerminalRuns

LEMMA QuotientType ==
  ASSUME NEW n \in Nat, NEW d \in Nat, d # 0
  PROVE  n \div d \in Nat
BY SMT

LEMMA ScoreType ==
  ASSUME NEW wins \in Nat, NEW total \in Nat, total # 0,
         NEW q \in Qualities, NEW k \in Qualities
  PROVE  Score(wins, total, q, k) \in Nat
<1>1. (3500 * wins) \div total \in Nat
  <2>1. 3500 * wins \in Nat
    OBVIOUS
  <2> QED BY <2>1, QuotientType
<1>2. Confidence(total) \in Nat
  BY DEF Confidence
<1>3. q \in Nat /\ k \in Nat
  BY QualitiesAssumption
<1> QED BY <1>1, <1>2, <1>3 DEF Score

LEMMA LatestWinsType ==
  ASSUME NEW a \in AgentIds, snapshots \in [AgentIds -> Seq(Snapshot)]
  PROVE  LatestWins(a) \in Nat
<1>1. CASE snapshots[a] = <<>>
  BY <1>1 DEF LatestWins
<1>2. CASE snapshots[a] # <<>>
  <2>1. snapshots[a][Len(snapshots[a])] \in Snapshot
    BY <1>2
  <2> QED BY <1>2, <2>1 DEF LatestWins, Snapshot
<1> QED BY <1>1, <1>2

LEMMA IdleType == Idle \in Process
BY DEF Idle, Process, OptionOf

LEMMA ValidScoreType ==
  ASSUME NEW n \in Nat, ValidScore(n)
  PROVE  n \in 0..MaxScore
BY DEF ValidScore, MaxScore

LEMMA InitializedType ==
  ASSUME NEW r \in AgentRankAccount, NEW a \in AgentIds
  PROVE  RankInitialized(r, a, Authority) \in AgentRankAccount
<1>1. a \in AgentIds \cup {0} /\ Authority \in OptionOf(Signers)
  BY AuthorityAssumption DEF OptionOf
<1>2. [r EXCEPT !.agent_id = a, !.owner = Authority] \in AgentRankAccount
  BY <1>1 DEF AgentRankAccount
<1> QED BY <1>2 DEF RankInitialized

(* What a settlement's turn for an agent writes.                            *)
LEMMA SendWrites ==
  ASSUME TypeInv, NEW p \in Processes, NEW a \in AgentIds, At(p, "rank"),
         a \in process[p].todo, NEW q \in Qualities, NEW k \in Qualities,
         SendsRank(p, a, q, k)
  PROVE  /\ UNCHANGED registryVars
         /\ Wins(p, a) \in Nat
         /\ rank' \in [AgentIds -> AgentRankAccount]
         /\ rank'[a].wins = Wins(p, a)
         /\ \A b \in AgentIds \ {a} : rank'[b] = rank[b]
<1> DEFINE total == process[p].total[a]
           score == Score(Wins(p, a), total, q, k)
           r == RankInitialized(rank[a], a, Authority)
<1>1. process[p] \in Process
  BY DEF TypeInv, RankingsTypeOK
<1>2. total \in Nat /\ total # 0
  BY <1>1 DEF Process, TypeInv, InFlight, At, Ranking
<1>3. Wins(p, a) \in Nat
  BY <1>1 DEF Process, Wins
<1>4. score \in Nat
  BY <1>2, <1>3, ScoreType
<1>5. UpdateAgentRank(Authority, a, Authority, score, Wins(p, a))
  BY DEF SendsRank
<1>6. score \in 0..MaxScore
  <2>1. ValidScore(score)
    BY <1>5 DEF UpdateAgentRank
  <2> QED BY <1>4, <2>1, ValidScoreType
<1>7. r \in AgentRankAccount
  <2>1. rank[a] \in AgentRankAccount
    BY DEF TypeInv, RankingsTypeOK, RankTypeOK
  <2> QED BY <2>1, InitializedType
<1>8. rank' = [rank EXCEPT ![a] = [r EXCEPT !.score = score, !.wins = Wins(p, a)]]
  BY <1>5 DEF UpdateAgentRank
<1>9. UNCHANGED registryVars
  BY <1>5 DEF UpdateAgentRank
<1>10. rank \in [AgentIds -> AgentRankAccount]
  BY DEF TypeInv, RankingsTypeOK, RankTypeOK
<1> HIDE DEF score, r, total
<1> QED BY <1>3, <1>6, <1>7, <1>8, <1>9, <1>10 DEF AgentRankAccount

LEMMA ProcessType ==
  ASSUME TypeInv, NEW p \in Processes
  PROVE  process[p] \in Process
BY DEF TypeInv, RankingsTypeOK

LEMMA TurnWrites ==
  ASSUME TypeInv, NEW p \in Processes, NEW a \in AgentIds, RankAgent(p, a)
  PROVE  \E f \in SUBSET AgentIds : process' =
           [process EXCEPT ![p] = [process[p] EXCEPT !.todo = process[p].todo \ {a},
                                                     !.failed = f]]
<1> DEFINE r == [process[p] EXCEPT !.todo = process[p].todo \ {a}]
           W(f) == [process EXCEPT ![p] = [process[p] EXCEPT
                      !.todo = process[p].todo \ {a}, !.failed = f]]
<1>1. process[p] \in Process
  BY ProcessType
<1>2. process[p].failed \in SUBSET AgentIds /\ Recorded(p, a) \in SUBSET AgentIds
  BY <1>1 DEF Process, Recorded
<1>3. /\ r = [process[p] EXCEPT !.todo = process[p].todo \ {a},
                               !.failed = process[p].failed]
      /\ [r EXCEPT !.failed = Recorded(p, a)] =
           [process[p] EXCEPT !.todo = process[p].todo \ {a}, !.failed = Recorded(p, a)]
  BY <1>1 DEF Process
<1>4. \/ process' = [process EXCEPT ![p] = r]
      \/ process' = [process EXCEPT ![p] = [r EXCEPT !.failed = Recorded(p, a)]]
  BY DEF RankAgent, Becomes
<1>5. process' = W(process[p].failed) \/ process' = W(Recorded(p, a))
  BY <1>3, <1>4
<1> QED BY <1>2, <1>5

-----------------------------------------------------------------------------
LEMMA InitTypeInv == RankingsInit => TypeInv
<1> SUFFICES ASSUME RankingsInit PROVE TypeInv
  OBVIOUS
<1>1. RankTypeOK
  <2>1. strategies \subseteq Signers \X AgentIds
    BY AuthorityAssumption DEF RankingsInit
  <2> QED
    BY <2>1, AuthorityAssumption
    DEF RankingsInit, RankTypeOK, RegistryTypeOK, AgentRankAccount, ZeroRank,
        MaxScore, OptionOf
<1>2. RankingsTypeOK
  <2>1. process \in [Processes -> Process] /\ snapshots \in [AgentIds -> Seq(Snapshot)]
    BY IdleType DEF RankingsInit
  <2> QED BY <1>1, <2>1 DEF RankingsInit, RankingsTypeOK, OptionOf
<1>3. InFlight /\ BestIsEntrant
  BY DEF RankingsInit, InFlight, BestIsEntrant, At, Idle
<1> QED BY <1>2, <1>3 DEF TypeInv

LEMMA StepTypeInv == TypeInv /\ [RankingsNext]_rankingsVars => TypeInv'
<1> SUFFICES ASSUME TypeInv, [RankingsNext]_rankingsVars PROVE TypeInv'
  OBVIOUS
<1> USE DEF TypeInv
<1>1. ASSUME NEW c \in Challenges, NEW a \in AgentIds, RunsEnd(c, a) PROVE TypeInv'
  <2>1. RankTypeOK'
    BY <1>1 DEF RunsEnd, RankingsTypeOK, RankTypeOK, RegistryTypeOK, registryVars
  <2>2. RankingsTypeOK'
    BY <1>1, <2>1 DEF RunsEnd, RankingsTypeOK, OptionOf
  <2>3. \A d \in Challenges : best[d] # None => best'[d] # None
    BY <1>1 DEF RunsEnd, RankingsTypeOK
  <2>4. InFlight'
    BY <1>1, <2>3 DEF RunsEnd, InFlight, At, Ranking
  <2>5. BestIsEntrant'
    BY <1>1 DEF RunsEnd, BestIsEntrant, RankingsTypeOK
  <2> QED BY <2>2, <2>4, <2>5
<1>2. ASSUME NEW p \in Processes, NEW c \in Challenges, Settle(p, c) PROVE TypeInv'
  <2>1. RankTypeOK'
    BY <1>2 DEF Settle, RankingsTypeOK, RankTypeOK, RegistryTypeOK, registryVars
  <2>2. process'[p] \in Process /\ process' \in [Processes -> Process]
    BY <1>2, IdleType DEF Settle, Becomes, RankingsTypeOK, Process, OptionOf
  <2>3. RankingsTypeOK'
    BY <1>2, <2>1, <2>2 DEF Settle, RankingsTypeOK
  <2>4. /\ process'[p].c = c /\ process'[p].todo = {}
        /\ process'[p].pc \in {"settle_call", "row"}
        /\ process'[p].pc = "settle_call" => ~IsHosted(c)
        /\ \A q \in Processes \ {p} : process'[q] = process[q]
    BY <1>2 DEF Settle, Becomes, Idle, RankingsTypeOK
  <2>5. InFlight'
    BY <1>2, <2>4 DEF Settle, InFlight, At, Ranking
  <2> QED BY <1>2, <2>3, <2>5 DEF Settle, BestIsEntrant
<1>3. ASSUME NEW p \in Processes, SettleCall(p) PROVE TypeInv'
  <2>1. RankTypeOK'
    BY <1>3 DEF SettleCall, RankingsTypeOK, RankTypeOK, RegistryTypeOK, registryVars
  <2>2. \/ process' = [process EXCEPT ![p] = [process[p] EXCEPT !.pc = "row"]]
        \/ process' = [process EXCEPT ![p] = Idle]
    BY <1>3 DEF SettleCall, Becomes, Ends
  <2>3. process' \in [Processes -> Process]
    <3>1. [process[p] EXCEPT !.pc = "row"] \in Process
      BY ProcessType DEF Process
    <3> QED BY <2>2, <3>1, IdleType DEF RankingsTypeOK
  <2>4. process[p].c \in Challenges
    BY <1>3 DEF SettleCall, InFlight, At
  <2>5. RankingsTypeOK'
    BY <1>3, <2>1, <2>3, <2>4 DEF SettleCall, RankingsTypeOK
  <2>6. InFlight'
    <3>1. \/ process'[p] = Idle
          \/ /\ process'[p].pc = "row"
             /\ process'[p].c = process[p].c
             /\ process'[p].todo = process[p].todo
      BY <2>2, ProcessType DEF RankingsTypeOK, Process
    <3>2. \A q \in Processes \ {p} : process'[q] = process[q]
      BY <2>2 DEF RankingsTypeOK
    <3>3. At(p, "settle_call") /\ best' = best
      BY <1>3 DEF SettleCall
    <3> QED BY <3>1, <3>2, <3>3 DEF InFlight, At, Ranking, Idle
  <2> QED BY <1>3, <2>5, <2>6 DEF SettleCall, BestIsEntrant
<1>4. ASSUME NEW p \in Processes, ReadRuns(p) PROVE TypeInv'
  <2> DEFINE c == process[p].c
             total == [a \in AgentIds |-> IF a \in Entrants[c] THEN TerminalRuns(a) ELSE 0]
  <2>1. RankTypeOK'
    BY <1>4 DEF ReadRuns, RankingsTypeOK, RankTypeOK, RegistryTypeOK, registryVars
  <2>2. c \in Challenges /\ best[c] # None /\ Entrants[c] \subseteq AgentIds
    BY <1>4, EntrantsAssumption DEF ReadRuns, InFlight, At
  <2>3. total \in [AgentIds -> Nat] /\ \A a \in Entrants[c] : total[a] # 0
    BY <2>2, TerminalRunsType
  <2>4. process' = [process EXCEPT ![p] = [process[p] EXCEPT !.pc = "wins", !.total = total]]
    BY <1>4 DEF ReadRuns, Becomes
  <2> HIDE DEF total
  <2>5. process' \in [Processes -> Process]
    <3>1. [process[p] EXCEPT !.pc = "wins", !.total = total] \in Process
      BY <2>3, ProcessType DEF Process
    <3> QED BY <2>4, <3>1 DEF RankingsTypeOK
  <2>6. overlapped' \in BOOLEAN
    BY <1>4 DEF ReadRuns, RankingsTypeOK
  <2>7. RankingsTypeOK'
    BY <1>4, <2>1, <2>5, <2>6 DEF ReadRuns, RankingsTypeOK
  <2>8. InFlight'
    BY <1>4, <2>3, <2>4 DEF ReadRuns, InFlight, At, Ranking, RankingsTypeOK, Process
  <2> QED BY <1>4, <2>7, <2>8 DEF ReadRuns, BestIsEntrant
<1>5. ASSUME NEW p \in Processes, ReadWins(p) PROVE TypeInv'
  <2> DEFINE c == process[p].c
             prev == [a \in AgentIds |-> IF a \in Entrants[c] THEN LatestWins(a) ELSE 0]
  <2>1. RankTypeOK'
    BY <1>5 DEF ReadWins, RankingsTypeOK, RankTypeOK, RegistryTypeOK, registryVars
  <2>2. c \in Challenges /\ Entrants[c] \subseteq AgentIds
    BY <1>5, EntrantsAssumption DEF ReadWins, InFlight, At
  <2>3. prev \in [AgentIds -> Nat]
    BY LatestWinsType DEF RankingsTypeOK
  <2>4. process' = [process EXCEPT ![p] = [process[p] EXCEPT
                       !.pc = "rank", !.todo = Entrants[c], !.prev = prev]]
    BY <1>5 DEF ReadWins, Becomes
  <2> HIDE DEF prev
  <2>5. process' \in [Processes -> Process]
    <3>1. [process[p] EXCEPT !.pc = "rank", !.todo = Entrants[c], !.prev = prev] \in Process
      BY <2>2, <2>3, ProcessType DEF Process
    <3> QED BY <2>4, <3>1 DEF RankingsTypeOK
  <2>6. RankingsTypeOK'
    BY <1>5, <2>1, <2>5 DEF ReadWins, RankingsTypeOK
  <2>7. InFlight'
    BY <1>5, <2>4 DEF ReadWins, InFlight, At, Ranking, RankingsTypeOK, Process
  <2> QED BY <1>5, <2>6, <2>7 DEF ReadWins, BestIsEntrant
<1>6. ASSUME NEW p \in Processes, NEW a \in AgentIds, RankAgent(p, a) PROVE TypeInv'
  <2>1. RankTypeOK'
    <3>1. CASE UNCHANGED <<registryVars, rank>>
      BY <3>1 DEF RankingsTypeOK, RankTypeOK, RegistryTypeOK, registryVars
    <3>2. CASE \E q, k \in Qualities : SendsRank(p, a, q, k)
      BY <1>6, <3>2, SendWrites
      DEF RankAgent, RankingsTypeOK, RankTypeOK, RegistryTypeOK, registryVars
    <3> QED BY <1>6, <3>1, <3>2 DEF RankAgent
  <2>2. PICK f \in SUBSET AgentIds : process' =
          [process EXCEPT ![p] = [process[p] EXCEPT !.todo = process[p].todo \ {a},
                                                    !.failed = f]]
    BY <1>6, TurnWrites
  <2>3. process' \in [Processes -> Process]
    <3>1. [process[p] EXCEPT !.todo = process[p].todo \ {a}, !.failed = f] \in Process
      BY ProcessType DEF Process
    <3> QED BY <2>2, <3>1 DEF RankingsTypeOK
  <2>4. RankingsTypeOK'
    BY <1>6, <2>1, <2>3 DEF RankAgent, RankingsTypeOK
  <2>5. InFlight'
    BY <1>6, <2>2 DEF RankAgent, InFlight, At, Ranking, RankingsTypeOK, Process
  <2> QED BY <1>6, <2>4, <2>5 DEF RankAgent, BestIsEntrant
<1>7. ASSUME NEW p \in Processes, Commit(p) PROVE TypeInv'
  <2> DEFINE c == process[p].c
  <2>1. RankTypeOK'
    BY <1>7 DEF Commit, RankingsTypeOK, RankTypeOK, RegistryTypeOK, registryVars
  <2>2. c \in Challenges /\ best[c] \in AgentIds /\ process[p] \in Process
    BY <1>7 DEF Commit, InFlight, At, RankingsTypeOK, OptionOf
  <2>3. ASSUME NEW a \in AgentIds PROVE NewSnapshot(p, a) \in Snapshot
    BY <2>2 DEF NewSnapshot, Snapshot, Wins, Process
  <2>4. snapshots' \in [AgentIds -> Seq(Snapshot)]
    BY <1>7, <2>3 DEF Commit, RankingsTypeOK
  <2>5. process' \in [Processes -> Process]
    BY <1>7, IdleType DEF Commit, Ends, Becomes, RankingsTypeOK
  <2>6. RankingsTypeOK'
    BY <1>7, <2>1, <2>2, <2>4, <2>5 DEF Commit, RankingsTypeOK, OptionOf
  <2>7. InFlight'
    BY <1>7 DEF Commit, Ends, Becomes, InFlight, At, Ranking, Idle, RankingsTypeOK
  <2> QED BY <1>7, <2>6, <2>7 DEF Commit, BestIsEntrant
<1>8. ASSUME NEW p \in Processes, Crash(p) PROVE TypeInv'
  <2>1. RankTypeOK'
    BY <1>8 DEF Crash, RankingsTypeOK, RankTypeOK, RegistryTypeOK, registryVars
  <2>2. RankingsTypeOK'
    BY <1>8, <2>1, IdleType DEF Crash, Ends, Becomes, RankingsTypeOK, Ranking
  <2>3. InFlight'
    BY <1>8 DEF Crash, Ends, Becomes, InFlight, At, Ranking, Idle, RankingsTypeOK
  <2> QED BY <1>8, <2>2, <2>3 DEF Crash, BestIsEntrant
<1>9. CASE UNCHANGED rankingsVars
  BY <1>9
  DEF rankingsVars, RankingsTypeOK, RankTypeOK, RegistryTypeOK, InFlight, At,
      Ranking, BestIsEntrant
<1> QED BY <1>1, <1>2, <1>3, <1>4, <1>5, <1>6, <1>7, <1>8, <1>9 DEF RankingsNext

(* The accounts and counters of the settlements are well-typed, for any     *)
(* challenges, agents and settlements at once: no snapshot holds a negative *)
(* count and no rank account a score above MAX_SCORE.                       *)
THEOREM RankingsTypeCorrect == RankingsSpec => []RankingsTypeOK
<1>1. TypeInv => RankingsTypeOK
  BY DEF TypeInv
<1> QED BY <1>1, InitTypeInv, StepTypeInv, PTL DEF RankingsSpec

-----------------------------------------------------------------------------
(* The program settles a challenge for one settlement only, which holds it  *)
(* until it commits or dies.  A hosted challenge has no such guard.         *)
Holds(p) == process[p].pc \in {"row", "wins", "rank"}

ChainOnce ==
  /\ \A c \in settledOnChain : best[c] # None
  /\ \A c \in settledTwice : IsHosted(c)
  /\ \A c \in Challenges :
       /\ winner[c] # None => winner[c] = best[c]
       /\ winner[c] # None /\ ~IsHosted(c) => c \in settledOnChain
  /\ \A p \in Processes :
       Holds(p) /\ ~IsHosted(process[p].c) =>
         /\ process[p].c \in settledOnChain
         /\ winner[process[p].c] = None
         /\ \A q \in Processes \ {p} : Holds(q) => process[q].c # process[p].c

LEMMA InitChainOnce == RankingsInit => ChainOnce
BY DEF RankingsInit, ChainOnce, Holds, Idle

LEMMA StepChainOnce ==
  TypeInv /\ ChainOnce /\ [RankingsNext]_rankingsVars => ChainOnce'
<1> SUFFICES ASSUME TypeInv, ChainOnce, [RankingsNext]_rankingsVars PROVE ChainOnce'
  OBVIOUS
<1> USE DEF ChainOnce, Holds
<1>0. /\ process \in [Processes -> Process]
      /\ best \in [Challenges -> OptionOf(AgentIds)]
      /\ winner \in [Challenges -> OptionOf(AgentIds)]
      /\ settledOnChain \subseteq Challenges
      /\ \A p \in Processes : ~At(p, "idle") =>
           process[p].c \in Challenges /\ best[process[p].c] # None
      /\ \A p \in Processes : At(p, "settle_call") => ~IsHosted(process[p].c)
  BY DEF TypeInv, RankingsTypeOK, InFlight, At
<1>1. ASSUME NEW c \in Challenges, NEW a \in AgentIds, RunsEnd(c, a) PROVE ChainOnce'
  BY <1>0, <1>1, AgentsNotNone DEF RunsEnd, IsHosted
<1>2. ASSUME NEW p \in Processes, NEW c \in Challenges, Settle(p, c) PROVE ChainOnce'
  <2>1. /\ process'[p].c = c
        /\ process'[p].pc = "row" => IsHosted(c)
        /\ process'[p].pc \in {"row", "settle_call"}
        /\ \A q \in Processes \ {p} : process'[q] = process[q]
    BY <1>0, <1>2 DEF Settle, Becomes, Idle
  <2> QED BY <1>0, <1>2, <2>1 DEF Settle, IsHosted
<1>3. ASSUME NEW p \in Processes, SettleCall(p) PROVE ChainOnce'
  <2> DEFINE c == process[p].c
  <2>1. \A q \in Processes \ {p} : process'[q] = process[q]
    BY <1>0, <1>3 DEF SettleCall, Becomes, Ends
  <2>2. best' = best /\ winner' = winner /\ settledTwice' = settledTwice
    BY <1>3 DEF SettleCall
  <2>3. c \in Challenges /\ best[c] # None /\ ~IsHosted(c)
    BY <1>0, <1>3 DEF SettleCall, At
  <2>4. CASE process'[p] = Idle /\ settledOnChain' \in {settledOnChain, settledOnChain \cup {c}}
    BY <1>0, <2>1, <2>2, <2>3, <2>4 DEF Idle, IsHosted
  <2>5. CASE /\ c \notin settledOnChain
             /\ settledOnChain' = settledOnChain \cup {c}
             /\ process' = [process EXCEPT ![p] = [process[p] EXCEPT !.pc = "row"]]
    <3>1. process'[p].c = c
      BY <1>0, <2>5 DEF Process
    <3>2. winner[c] = None
      BY <2>3, <2>5
    <3>3. \A q \in Processes \ {p} : Holds(q) => process[q].c # c
      BY <2>3, <2>5
    <3> QED BY <1>0, <2>1, <2>2, <2>3, <2>5, <3>1, <3>2, <3>3 DEF IsHosted
  <2> QED BY <1>0, <1>3, <2>4, <2>5 DEF SettleCall, Becomes, Ends
<1>4. ASSUME NEW p \in Processes, ReadRuns(p) PROVE ChainOnce'
  <2>1. /\ process'[p].c = process[p].c /\ Holds(p)
        /\ \A q \in Processes \ {p} : process'[q] = process[q]
    BY <1>0, <1>4 DEF ReadRuns, Becomes, At, Process
  <2> QED BY <1>4, <2>1 DEF ReadRuns, IsHosted
<1>5. ASSUME NEW p \in Processes, ReadWins(p) PROVE ChainOnce'
  <2>1. /\ process'[p].c = process[p].c /\ Holds(p)
        /\ \A q \in Processes \ {p} : process'[q] = process[q]
    BY <1>0, <1>5 DEF ReadWins, Becomes, At, Process
  <2> QED BY <1>5, <2>1 DEF ReadWins, IsHosted
<1>6. ASSUME NEW p \in Processes, NEW a \in AgentIds, RankAgent(p, a) PROVE ChainOnce'
  <2>1. /\ process'[p].c = process[p].c /\ Holds(p)
        /\ \A q \in Processes \ {p} : process'[q] = process[q]
    <3>1. PICK f \in SUBSET AgentIds : process' =
            [process EXCEPT ![p] = [process[p] EXCEPT !.todo = process[p].todo \ {a},
                                                      !.failed = f]]
      BY <1>6, TurnWrites
    <3> QED BY <1>0, <1>6, <3>1 DEF RankAgent, At, Process
  <2> QED BY <1>6, <2>1 DEF RankAgent, IsHosted
<1>7. ASSUME NEW p \in Processes, Commit(p) PROVE ChainOnce'
  <2>1. process'[p] = Idle /\ \A q \in Processes \ {p} : process'[q] = process[q]
    BY <1>0, <1>7 DEF Commit, Ends, Becomes
  <2>2. Holds(p) /\ process[p].c \in Challenges
    BY <1>0, <1>7 DEF Commit, At
  <2>3. \A c \in settledTwice' : IsHosted(c)
    BY <1>7, <2>2 DEF Commit
  <2> QED BY <1>0, <1>7, <2>1, <2>2, <2>3 DEF Commit, Idle, IsHosted
<1>8. ASSUME NEW p \in Processes, Crash(p) PROVE ChainOnce'
  <2>1. process'[p] = Idle /\ \A q \in Processes \ {p} : process'[q] = process[q]
    BY <1>0, <1>8 DEF Crash, Ends, Becomes
  <2> QED BY <1>8, <2>1 DEF Crash, Idle, IsHosted
<1>9. CASE UNCHANGED rankingsVars
  BY <1>9 DEF rankingsVars, IsHosted
<1> QED BY <1>1, <1>2, <1>3, <1>4, <1>5, <1>6, <1>7, <1>8, <1>9 DEF RankingsNext

-----------------------------------------------------------------------------
SettledFor(a) == {c \in settledOnChain : best[c] = a}
CommittedFor(a) == {c \in settledOnChain : winner[c] = a}

(* Counts only follow wins: of a snapshot, of what a settlement read, and   *)
(* of a rank account.                                                       *)
Counted ==
  /\ \A a \in AgentIds, i \in Nat :
       ~WonTwice(a) /\ i \in DOMAIN snapshots[a] => snapshots[a][i].wins <= Won(a)
  /\ \A p \in Processes, a \in AgentIds :
       ~WonTwice(a) /\ At(p, "rank") => process[p].prev[a] <= Won(a)
  /\ \A a \in AgentIds : rank[a].wins <= Cardinality(SettledFor(a))

EarnedInv == TypeInv /\ ChainOnce /\ Counted

LEMMA SettledFinite ==
  ASSUME TypeInv
  PROVE  \A a : /\ IsFiniteSet(SettledFor(a)) /\ Cardinality(SettledFor(a)) \in Nat
               /\ IsFiniteSet(CommittedFor(a)) /\ Cardinality(CommittedFor(a)) \in Nat
<1>1. IsFiniteSet(settledOnChain)
  BY ChallengesAssumption, FS_Subset DEF TypeInv, RankingsTypeOK
<1> QED BY <1>1, FS_Subset, FS_CardinalityType DEF SettledFor, CommittedFor

LEMMA WonType == \A a : Won(a) \in Nat
<1>1. \A a : IsFiniteSet({c \in Challenges : winner[c] = a})
  BY ChallengesAssumption, FS_Subset
<1> QED BY <1>1, FS_CardinalityType DEF Won

LEMMA WonKept ==
  ASSUME UNCHANGED <<winner, settledTwice>>
  PROVE  \A a : Won(a)' = Won(a) /\ (WonTwice(a)' <=> WonTwice(a))
BY DEF Won, WonTwice

(* The challenges of a local agent are settled once, by the program too.    *)
LEMMA LocalWonOnce ==
  ASSUME TypeInv, ChainOnce, NEW a \in AgentIds \ Hosted
  PROVE  ~WonTwice(a) /\ Won(a) = Cardinality(CommittedFor(a))
<1>1. ASSUME NEW c \in Challenges, winner[c] = a PROVE ~IsHosted(c)
  <2>1. a \in Entrants[c]
    BY <1>1, AgentsNotNone DEF ChainOnce, TypeInv, BestIsEntrant
  <2> QED BY <2>1 DEF IsHosted
<1>2. ~WonTwice(a)
  BY <1>1 DEF WonTwice, ChainOnce, TypeInv, RankingsTypeOK
<1>3. {c \in Challenges : winner[c] = a} = CommittedFor(a)
  BY <1>1, AgentsNotNone DEF CommittedFor, ChainOnce, TypeInv, RankingsTypeOK
<1> QED BY <1>2, <1>3 DEF Won

(* The wins of a local agent a settlement sends: the settlement holds a     *)
(* challenge that the program settled and that is not committed yet.        *)
LEMMA WinsSettled ==
  ASSUME EarnedInv, NEW p \in Processes, NEW a \in AgentIds \ Hosted, At(p, "rank"),
         a \in process[p].todo
  PROVE  Wins(p, a) <= Cardinality(SettledFor(a))
<1> DEFINE c == process[p].c
<1>1. /\ c \in Challenges /\ a \in Entrants[c] /\ ~IsHosted(c)
      /\ process[p].prev[a] \in Nat
  BY ProcessType DEF EarnedInv, TypeInv, InFlight, At, IsHosted, Process, RankingsTypeOK
<1>2. c \in settledOnChain /\ winner[c] = None
  BY <1>1 DEF EarnedInv, ChainOnce, Holds, At
<1>3. CommittedFor(a) \subseteq SettledFor(a)
  BY AgentsNotNone
  DEF CommittedFor, SettledFor, EarnedInv, ChainOnce, TypeInv, RankingsTypeOK
<1>4. /\ IsFiniteSet(SettledFor(a)) /\ Cardinality(SettledFor(a)) \in Nat
      /\ Cardinality(CommittedFor(a)) \in Nat
  BY SettledFinite DEF EarnedInv
<1>5. process[p].prev[a] <= Cardinality(CommittedFor(a))
  BY LocalWonOnce DEF EarnedInv, Counted
<1>6. CASE a = best[c]
  <2>1. c \in SettledFor(a) /\ c \notin CommittedFor(a)
    BY <1>2, <1>6, AgentsNotNone DEF SettledFor, CommittedFor
  <2>2. Cardinality(CommittedFor(a)) < Cardinality(SettledFor(a))
    BY <1>3, <1>4, <2>1, FS_Subset
  <2> QED BY <1>1, <1>4, <1>5, <1>6, <2>2 DEF Wins
<1>7. CASE a # best[c]
  <2>1. Cardinality(CommittedFor(a)) <= Cardinality(SettledFor(a))
    BY <1>3, <1>4, FS_Subset
  <2> QED BY <1>1, <1>4, <1>5, <1>7, <2>1 DEF Wins
<1> QED BY <1>6, <1>7

LEMMA InitCounted == RankingsInit => Counted
<1> SUFFICES ASSUME RankingsInit PROVE Counted
  OBVIOUS
<1>1. \A a : SettledFor(a) = {}
  BY DEF RankingsInit, SettledFor
<1>2. Cardinality({}) = 0
  BY FS_EmptySet
<1>3. \A a \in AgentIds : rank[a].wins = 0 /\ snapshots[a] = <<>>
  BY DEF RankingsInit, ZeroRank
<1>4. \A p \in Processes : ~At(p, "rank")
  BY DEF RankingsInit, At, Idle
<1>5. \A a \in AgentIds, i \in Nat : i \notin DOMAIN snapshots[a]
  BY <1>3
<1>6. \A a \in AgentIds : rank[a].wins <= Cardinality(SettledFor(a))
  <2> SUFFICES ASSUME NEW a \in AgentIds PROVE rank[a].wins <= Cardinality(SettledFor(a))
    OBVIOUS
  <2>1. Cardinality(SettledFor(a)) = 0
    BY <1>1, <1>2
  <2> QED BY <1>3, <2>1
<1> QED BY <1>4, <1>5, <1>6 DEF Counted

(* What grows keeps the counts below it.                                    *)
LEMMA CountedKept ==
  ASSUME EarnedInv, TypeInv',
         UNCHANGED <<snapshots, rank, winner, settledTwice>>,
         settledOnChain \subseteq settledOnChain',
         \A c \in settledOnChain : best'[c] = best[c],
         \A p \in Processes : At(p, "rank")' => process'[p].prev = process[p].prev /\ At(p, "rank")
  PROVE  Counted'
<1>1. ASSUME NEW a \in AgentIds PROVE rank'[a].wins <= Cardinality(SettledFor(a)')
  <2>1. SettledFor(a) \subseteq SettledFor(a)'
    BY DEF SettledFor
  <2>2. IsFiniteSet(settledOnChain')
    BY ChallengesAssumption, FS_Subset DEF TypeInv, RankingsTypeOK
  <2>3. IsFiniteSet(SettledFor(a)') /\ Cardinality(SettledFor(a)') \in Nat
    BY <2>2, FS_Subset, FS_CardinalityType DEF SettledFor
  <2>4. Cardinality(SettledFor(a)) <= Cardinality(SettledFor(a)')
    BY <2>1, <2>3, FS_Subset
  <2>5. Cardinality(SettledFor(a)) \in Nat /\ rank[a].wins <= Cardinality(SettledFor(a))
    BY SettledFinite DEF EarnedInv, Counted
  <2>6. rank[a].wins \in Nat
    BY DEF EarnedInv, TypeInv, RankingsTypeOK, RankTypeOK, AgentRankAccount
  <2> QED BY <2>3, <2>4, <2>5, <2>6
<1>2. \A p \in Processes, a \in AgentIds :
        ~WonTwice(a)' /\ At(p, "rank")' => process'[p].prev[a] <= Won(a)'
  BY WonKept DEF EarnedInv, Counted
<1>3. \A a \in AgentIds, i \in Nat :
        ~WonTwice(a)' /\ i \in DOMAIN snapshots'[a] => snapshots'[a][i].wins <= Won(a)'
  BY WonKept DEF EarnedInv, Counted
<1> HIDE DEF EarnedInv
<1> QED BY <1>1, <1>2, <1>3 DEF Counted

(* The latest snapshot is one of the snapshots.                             *)
LEMMA LatestWinsCounted ==
  ASSUME EarnedInv, NEW a \in AgentIds, ~WonTwice(a)
  PROVE  LatestWins(a) \in Nat /\ LatestWins(a) <= Won(a)
<1>1. snapshots[a] \in Seq(Snapshot) /\ Won(a) \in Nat
  BY WonType DEF EarnedInv, TypeInv, RankingsTypeOK
<1>2. LatestWins(a) \in Nat
  BY LatestWinsType DEF EarnedInv, TypeInv, RankingsTypeOK
<1>3. CASE snapshots[a] = <<>>
  BY <1>1, <1>2, <1>3 DEF LatestWins
<1>4. CASE snapshots[a] # <<>>
  <2>1. Len(snapshots[a]) \in Nat /\ Len(snapshots[a]) \in DOMAIN snapshots[a]
    BY <1>1, <1>4
  <2> QED BY <1>2, <1>4, <2>1 DEF LatestWins, EarnedInv, Counted
<1> QED BY <1>3, <1>4

(* A commit leaves what agents other than its winner won.                   *)
LEMMA CommitOthers ==
  ASSUME EarnedInv, NEW p \in Processes, Commit(p), NEW a \in AgentIds,
         a # best[process[p].c]
  PROVE  Won(a)' = Won(a)
<1> DEFINE c == process[p].c
<1>1. /\ c \in Challenges
      /\ winner \in [Challenges -> OptionOf(AgentIds)]
      /\ winner[c] # None => winner[c] = best[c]
  BY DEF Commit, EarnedInv, TypeInv, InFlight, At, RankingsTypeOK, ChainOnce
<1>2. winner' = [winner EXCEPT ![c] = best[c]]
  BY DEF Commit
<1>3. {d \in Challenges : winner'[d] = a} = {d \in Challenges : winner[d] = a}
  BY <1>1, <1>2, AgentsNotNone
<1> QED BY <1>3 DEF Won

(* What a commit does to the challenges won: its winner has one more, if it *)
(* is the first one of the challenge.                                       *)
LEMMA CommitWins ==
  ASSUME EarnedInv, NEW p \in Processes, Commit(p), NEW a \in AgentIds, ~WonTwice(a)'
  PROVE  /\ ~WonTwice(a)
         /\ Won(a)' = Won(a) + (IF a = best[process[p].c] THEN 1 ELSE 0)
<1> DEFINE c == process[p].c
           S == {d \in Challenges : winner[d] = a}
<1>1. /\ c \in Challenges /\ best[c] # None
      /\ winner \in [Challenges -> OptionOf(AgentIds)] /\ settledTwice \subseteq Challenges
      /\ winner[c] # None => winner[c] = best[c]
  BY DEF Commit, EarnedInv, TypeInv, InFlight, At, RankingsTypeOK, ChainOnce
<1>2. /\ winner' = [winner EXCEPT ![c] = best[c]]
      /\ settledTwice' = settledTwice \cup (IF winner[c] = None THEN {} ELSE {c})
  BY DEF Commit
<1>3. ~WonTwice(a)
  BY <1>1, <1>2, AgentsNotNone DEF WonTwice
<1>4. IsFiniteSet(S) /\ Cardinality(S) \in Nat /\ Won(a) = Cardinality(S)
  BY ChallengesAssumption, FS_Subset, FS_CardinalityType DEF Won
<1>5. CASE a = best[c]
  <2>1. winner[c] = None
    BY <1>1, <1>2, <1>5 DEF WonTwice
  <2>2. {d \in Challenges : winner'[d] = a} = S \cup {c} /\ c \notin S
    BY <1>1, <1>2, <1>5, <2>1, AgentsNotNone
  <2>3. Cardinality(S \cup {c}) = Cardinality(S) + 1
    BY <1>4, <2>2, FS_AddElement
  <2> QED BY <1>3, <1>4, <1>5, <2>2, <2>3 DEF Won
<1>6. CASE a # best[c]
  <2>1. Won(a)' = Won(a)
    BY <1>6, CommitOthers
  <2> QED BY <1>3, <1>6, <2>1, WonType
<1> QED BY <1>5, <1>6

(* What a commit does to the counts of an agent.                            *)
LEMMA CommitWrites ==
  ASSUME EarnedInv, NEW p \in Processes, Commit(p)
  PROVE  /\ process[p].c \in Challenges /\ best[process[p].c] \in Entrants[process[p].c]
         /\ process' = [process EXCEPT ![p] = Idle]
         /\ winner' = [winner EXCEPT ![process[p].c] = best[process[p].c]]
         /\ UNCHANGED <<settledOnChain, best, rank, overlapped>>
         /\ \A a \in AgentIds :
              /\ Wins(p, a) \in Nat
              /\ Wins(p, a) = process[p].prev[a] + (IF a = best[process[p].c] THEN 1 ELSE 0)
              /\ a \in Entrants[process[p].c] =>
                   snapshots'[a] = Append(snapshots[a], NewSnapshot(p, a))
              /\ a \notin Entrants[process[p].c] => snapshots'[a] = snapshots[a]
<1>1. process[p].c \in Challenges /\ best[process[p].c] \in Entrants[process[p].c]
  BY DEF Commit, EarnedInv, TypeInv, InFlight, BestIsEntrant, At
<1>2. process[p] \in Process
  BY ProcessType DEF EarnedInv
<1>3. \A a \in AgentIds :
        /\ Wins(p, a) = process[p].prev[a] + (IF a = best[process[p].c] THEN 1 ELSE 0)
        /\ Wins(p, a) \in Nat
  BY <1>2 DEF Wins, Process
<1>4. winner' = [winner EXCEPT ![process[p].c] = best[process[p].c]]
  BY <1>1 DEF Commit, EarnedInv, TypeInv, RankingsTypeOK
<1>5. snapshots' = [a \in AgentIds |->
        IF a \in Entrants[process[p].c] THEN Append(snapshots[a], NewSnapshot(p, a))
                                        ELSE snapshots[a]]
  BY DEF Commit
<1>6. process' = [process EXCEPT ![p] = Idle] /\ UNCHANGED <<settledOnChain, best, rank, overlapped>>
  BY DEF Commit, Ends, Becomes
<1> QED BY <1>1, <1>3, <1>4, <1>5, <1>6

LEMMA StepCounted ==
  EarnedInv /\ TypeInv' /\ [RankingsNext]_rankingsVars => Counted'
<1> SUFFICES ASSUME EarnedInv, TypeInv', [RankingsNext]_rankingsVars PROVE Counted'
  OBVIOUS
<1>0. process \in [Processes -> Process]
  BY DEF EarnedInv, TypeInv, RankingsTypeOK
<1>1. ASSUME NEW c \in Challenges, NEW a \in AgentIds, RunsEnd(c, a) PROVE Counted'
  <2>1. \A d \in settledOnChain : best'[d] = best[d]
    BY <1>1 DEF RunsEnd, EarnedInv, ChainOnce, TypeInv, RankingsTypeOK
  <2> QED BY <1>1, <2>1, CountedKept DEF RunsEnd, At
<1>2. ASSUME NEW p \in Processes, NEW c \in Challenges, Settle(p, c) PROVE Counted'
  <2>1. \A q \in Processes : At(q, "rank")' => process'[q] = process[q]
    BY <1>0, <1>2 DEF Settle, Becomes, Idle, At
  <2> QED BY <1>2, <2>1, CountedKept DEF Settle, At
<1>3. ASSUME NEW p \in Processes, SettleCall(p) PROVE Counted'
  <2>1. process'[p].pc \in {"idle", "row"} /\ \A q \in Processes \ {p} : process'[q] = process[q]
    BY <1>0, <1>3 DEF SettleCall, Becomes, Ends, Idle, Process
  <2>2. \A q \in Processes : At(q, "rank")' => process'[q] = process[q]
    BY <2>1 DEF At
  <2>3. settledOnChain \subseteq settledOnChain'
    BY <1>3 DEF SettleCall
  <2> QED BY <1>3, <2>2, <2>3, CountedKept DEF SettleCall, At
<1>4. ASSUME NEW p \in Processes, ReadRuns(p) PROVE Counted'
  <2>1. process'[p].pc = "wins" /\ \A q \in Processes \ {p} : process'[q] = process[q]
    BY <1>0, <1>4 DEF ReadRuns, Becomes, Process
  <2>2. \A q \in Processes : At(q, "rank")' => process'[q] = process[q]
    BY <2>1 DEF At
  <2> QED BY <1>4, <2>2, CountedKept DEF ReadRuns, At
<1>5. ASSUME NEW p \in Processes, ReadWins(p) PROVE Counted'
  <2>1. \A a \in AgentIds : ~WonTwice(a) => process'[p].prev[a] <= Won(a)
    BY <1>0, <1>5, WonType, LatestWinsCounted DEF ReadWins, Becomes, Process
  <2>2. \A q \in Processes \ {p} : process'[q] = process[q]
    BY <1>0, <1>5 DEF ReadWins, Becomes
  <2>3. UNCHANGED <<snapshots, rank, best, settledOnChain, winner, settledTwice>>
    BY <1>5 DEF ReadWins
  <2>4. \A a : SettledFor(a)' = SettledFor(a)
    BY <2>3 DEF SettledFor
  <2> QED BY <2>1, <2>2, <2>3, <2>4, WonKept DEF EarnedInv, Counted, At
<1>6. ASSUME NEW p \in Processes, NEW a \in AgentIds, RankAgent(p, a) PROVE Counted'
  <2>1. \A q \in Processes :
          process'[q].pc = process[q].pc /\ process'[q].prev = process[q].prev
    <3>1. PICK f \in SUBSET AgentIds : process' =
            [process EXCEPT ![p] = [process[p] EXCEPT !.todo = process[p].todo \ {a},
                                                      !.failed = f]]
      BY <1>6, TurnWrites DEF EarnedInv
    <3> QED BY <1>0, <3>1 DEF Process
  <2>2. UNCHANGED <<snapshots, best, settledOnChain, winner, settledTwice>>
    BY <1>6 DEF RankAgent
  <2>3. \A b \in AgentIds : rank'[b].wins <= Cardinality(SettledFor(b))
    <3>1. CASE UNCHANGED rank
      BY <3>1 DEF EarnedInv, Counted
    <3>2. ASSUME NEW q \in Qualities, NEW k \in Qualities, SendsRank(p, a, q, k), a \in address
          PROVE  \A b \in AgentIds : rank'[b].wins <= Cardinality(SettledFor(b))
      <4>1. At(p, "rank") /\ a \in process[p].todo /\ a \in AgentIds \ Hosted
        BY <1>6, <3>2 DEF RankAgent, EarnedInv, TypeInv, RankingsTypeOK
      <4>2. rank'[a].wins <= Cardinality(SettledFor(a))
        BY <3>2, <4>1, SendWrites, WinsSettled DEF EarnedInv
      <4>3. \A b \in AgentIds \ {a} : rank'[b] = rank[b]
        BY <3>2, <4>1, SendWrites DEF EarnedInv
      <4> QED BY <4>2, <4>3 DEF EarnedInv, Counted
    <3> QED BY <1>6, <3>1, <3>2 DEF RankAgent
  <2>4. \A b \in AgentIds : SettledFor(b)' = SettledFor(b)
    BY <2>2 DEF SettledFor
  <2> QED BY <2>1, <2>2, <2>3, <2>4, WonKept DEF EarnedInv, Counted, At
<1>7. ASSUME NEW p \in Processes, Commit(p) PROVE Counted'
  <2> DEFINE c == process[p].c
  <2>1. At(p, "rank")
    BY <1>7 DEF Commit
  <2>2. ASSUME NEW a \in AgentIds, ~WonTwice(a)'
        PROVE  ~WonTwice(a) /\ Won(a) <= Won(a)' /\ Wins(p, a) <= Won(a)'
    <3>1. ~WonTwice(a) /\ Won(a)' = Won(a) + (IF a = best[c] THEN 1 ELSE 0)
      BY <1>7, <2>2, CommitWins
    <3>2. process[p].prev[a] \in Nat /\ process[p].prev[a] <= Won(a)
      BY <1>0, <2>1, <3>1 DEF Process, EarnedInv, Counted
    <3>3. Wins(p, a) = process[p].prev[a] + (IF a = best[c] THEN 1 ELSE 0)
      BY <1>7, CommitWrites
    <3> QED BY <3>1, <3>2, <3>3, WonType
  <2>3. ASSUME NEW a \in AgentIds, ~WonTwice(a)', NEW i \in Nat, i \in DOMAIN snapshots'[a]
        PROVE  snapshots'[a][i].wins <= Won(a)'
    <3>1. /\ snapshots[a] \in Seq(Snapshot) /\ Won(a) \in Nat
          /\ ~WonTwice(a) /\ Won(a) <= Won(a)' /\ Wins(p, a) <= Won(a)'
      BY <2>2, <2>3, WonType DEF EarnedInv, TypeInv, RankingsTypeOK
    <3>2. CASE i \in DOMAIN snapshots[a]
      <4>1. snapshots'[a][i] = snapshots[a][i]
        <5> DEFINE old == snapshots[a]
                   new == NewSnapshot(p, a)
        <5>1. snapshots'[a] \in {old, Append(old, new)}
          BY <1>7, CommitWrites
        <5>2. old \in Seq(Snapshot) /\ i \in DOMAIN old
          BY <3>1, <3>2
        <5> HIDE DEF old, new
        <5>3. Append(old, new)[i] = old[i]
          BY <5>2
        <5>4. snapshots'[a][i] = old[i]
          BY <5>1, <5>3
        <5> QED BY <5>4 DEF old
      <4>2. snapshots[a][i].wins \in Nat /\ snapshots[a][i].wins <= Won(a)
        <5>1. snapshots[a][i] \in Snapshot
          BY <3>1, <3>2
        <5> QED BY <3>1, <3>2, <5>1 DEF EarnedInv, Counted, Snapshot
      <4>3. Won(a)' \in Nat
        BY <1>7, <2>3, <3>1, CommitWins
      <4> QED BY <3>1, <4>1, <4>2, <4>3
    <3>3. CASE i \notin DOMAIN snapshots[a]
      <4>1. snapshots'[a] = Append(snapshots[a], NewSnapshot(p, a))
        BY <1>7, <2>3, <3>3, CommitWrites
      <4>2. snapshots'[a][i] = NewSnapshot(p, a)
        BY <2>3, <3>1, <3>3, <4>1
      <4> QED BY <3>1, <4>2 DEF NewSnapshot
    <3> QED BY <3>2, <3>3
  <2>4. ASSUME NEW q \in Processes, NEW a \in AgentIds, ~WonTwice(a)', At(q, "rank")'
        PROVE  process'[q].prev[a] <= Won(a)'
    <3>1. process'[q] = process[q] /\ At(q, "rank")
      BY <1>0, <1>7, <2>4, CommitWrites DEF At, Idle
    <3>2. ~WonTwice(a) /\ Won(a) <= Won(a)' /\ Won(a) \in Nat /\ Won(a)' \in Nat
      BY <1>7, <2>2, <2>4, WonType, CommitWins
    <3>3. process[q].prev[a] \in Nat /\ process[q].prev[a] <= Won(a)
      BY <1>0, <3>1, <3>2 DEF Process, EarnedInv, Counted
    <3> QED BY <3>1, <3>2, <3>3
  <2>5. \A a \in AgentIds : rank'[a].wins <= Cardinality(SettledFor(a)')
    <3>1. rank' = rank /\ \A a \in AgentIds : SettledFor(a)' = SettledFor(a)
      BY <1>7, CommitWrites DEF SettledFor
    <3> QED BY <3>1 DEF EarnedInv, Counted
  <2> QED BY <2>3, <2>4, <2>5 DEF Counted
<1>8. ASSUME NEW p \in Processes, Crash(p) PROVE Counted'
  <2>1. \A q \in Processes : At(q, "rank")' => process'[q] = process[q]
    BY <1>0, <1>8 DEF Crash, Ends, Becomes, Idle, At
  <2> QED BY <1>8, <2>1, CountedKept DEF Crash, At
<1>9. CASE UNCHANGED rankingsVars
  BY <1>9, CountedKept DEF rankingsVars, At
<1> QED BY <1>1, <1>2, <1>3, <1>4, <1>5, <1>6, <1>7, <1>8, <1>9 DEF RankingsNext

(* No win is made up: unless a challenge it won was settled twice, which    *)
(* only happens to hosted agents, an agent has no more wins in any snapshot *)
(* than challenges it won, and none on chain that the program did not       *)
(* settle, for any number of settlements that overlap, repeat or die.       *)
THEOREM NoWinMadeUp == RankingsSpec => []WinsEarned
<1>1. RankingsInit => EarnedInv
  BY InitTypeInv, InitChainOnce, InitCounted DEF EarnedInv
<1>2. EarnedInv /\ [RankingsNext]_rankingsVars => EarnedInv'
  BY StepTypeInv, StepChainOnce, StepCounted DEF EarnedInv
<1>3. EarnedInv => WinsEarned
  <2> SUFFICES ASSUME EarnedInv, NEW a \in AgentIds
               PROVE  /\ WonTwice(a) => a \in Hosted
                      /\ ~WonTwice(a) =>
                           \A i \in DOMAIN snapshots[a] : snapshots[a][i].wins <= Won(a)
                      /\ rank[a].wins <= Cardinality(SettledFor(a))
    BY DEF WinsEarned, SettledFor
  <2>1. WonTwice(a) => a \in Hosted
    BY LocalWonOnce DEF EarnedInv
  <2>2. DOMAIN snapshots[a] \subseteq Nat
    BY DEF EarnedInv, TypeInv, RankingsTypeOK
  <2> QED BY <2>1, <2>2 DEF EarnedInv, Counted
<1> QED BY <1>1, <1>2, <1>3, PTL DEF RankingsSpec

-----------------------------------------------------------------------------
(* Without an overlap, the settlements that rank have no agent in common,   *)
(* so that what one has read is still the latest when it commits.           *)
Exact ==
  ~overlapped =>
    /\ \A a \in AgentIds : ~WonTwice(a) => LatestWins(a) = Won(a)
    /\ \A p \in Processes, q \in Processes :
         p # q /\ Ranking(p) /\ Ranking(q) =>
           Entrants[process[p].c] \cap Entrants[process[q].c] = {}
    /\ \A p \in Processes :
         At(p, "rank") =>
           \A a \in Entrants[process[p].c] : ~WonTwice(a) => process[p].prev[a] = Won(a)

LEMMA InitExact == RankingsInit => Exact
<1> SUFFICES ASSUME RankingsInit PROVE Exact
  OBVIOUS
<1>1. \A p \in Processes : ~Ranking(p) /\ ~At(p, "rank")
  BY DEF RankingsInit, Ranking, At, Idle
<1>2. ASSUME NEW a \in AgentIds PROVE LatestWins(a) = Won(a)
  <2>1. LatestWins(a) = 0
    BY DEF RankingsInit, LatestWins
  <2>2. {c \in Challenges : winner[c] = a} = {}
    BY AgentsNotNone DEF RankingsInit
  <2> QED BY <2>1, <2>2, FS_EmptySet DEF Won
<1> QED BY <1>1, <1>2 DEF Exact

(* Steps that only end a settlement or leave it where it was.               *)
LEMMA ExactKept ==
  ASSUME Exact, UNCHANGED <<snapshots, winner, settledTwice>>, overlapped' = overlapped,
         \A p \in Processes : Ranking(p)' =>
           /\ process'[p].c = process[p].c
           /\ process'[p].prev = process[p].prev
           /\ process'[p].pc = process[p].pc
  PROVE  Exact'
<1> SUFFICES ASSUME ~overlapped PROVE Exact'
  BY DEF Exact
<1>1. \A p \in Processes : Ranking(p)' => Ranking(p)
  BY DEF Ranking
<1>2. \A p \in Processes : At(p, "rank")' => At(p, "rank") /\ Ranking(p)'
  BY DEF At, Ranking
<1>3. \A a \in AgentIds : LatestWins(a)' = LatestWins(a)
  BY DEF LatestWins
<1>4. \A p \in Processes, q \in Processes :
        p # q /\ Ranking(p)' /\ Ranking(q)' =>
          Entrants[process'[p].c] \cap Entrants[process'[q].c] = {}
  BY <1>1 DEF Exact
<1>5. \A p \in Processes : At(p, "rank")' =>
        \A a \in Entrants[process'[p].c] :
          ~WonTwice(a)' => process'[p].prev[a] = Won(a)'
  BY <1>2, WonKept DEF Exact
<1> QED BY <1>3, <1>4, <1>5, WonKept DEF Exact

LEMMA StepExact ==
  EarnedInv /\ Exact /\ [RankingsNext]_rankingsVars => Exact'
<1> SUFFICES ASSUME EarnedInv, Exact, [RankingsNext]_rankingsVars PROVE Exact'
  OBVIOUS
<1>0. process \in [Processes -> Process]
  BY DEF EarnedInv, TypeInv, RankingsTypeOK
<1>1. ASSUME NEW c \in Challenges, NEW a \in AgentIds, RunsEnd(c, a) PROVE Exact'
  BY <1>1, ExactKept DEF RunsEnd, Ranking
<1>2. ASSUME NEW p \in Processes, NEW c \in Challenges, Settle(p, c) PROVE Exact'
  <2>1. process'[p].pc \in {"row", "settle_call"} /\ \A q \in Processes \ {p} : process'[q] = process[q]
    BY <1>0, <1>2 DEF Settle, Becomes, Idle
  <2> QED BY <1>2, <2>1, ExactKept DEF Settle, Ranking
<1>3. ASSUME NEW p \in Processes, SettleCall(p) PROVE Exact'
  <2>1. process'[p].pc \in {"idle", "row"} /\ \A q \in Processes \ {p} : process'[q] = process[q]
    BY <1>0, <1>3 DEF SettleCall, Becomes, Ends, Idle, Process
  <2> QED BY <1>3, <2>1, ExactKept DEF SettleCall, Ranking
<1>4. ASSUME NEW p \in Processes, ReadRuns(p) PROVE Exact'
  <2>1. /\ process'[p].pc = "wins" /\ process'[p].c = process[p].c
        /\ \A q \in Processes \ {p} : process'[q] = process[q]
    BY <1>0, <1>4 DEF ReadRuns, Becomes, Process
  <2>2. UNCHANGED <<snapshots, winner, settledTwice>>
    BY <1>4 DEF ReadRuns
  <2>3. ASSUME ~overlapped'
        PROVE  /\ ~overlapped
               /\ \A q \in Processes \ {p} : Ranking(q) =>
                    Entrants[process[p].c] \cap Entrants[process[q].c] = {}
    BY <1>4, <2>3 DEF ReadRuns
  <2> SUFFICES ASSUME ~overlapped' PROVE Exact'
    BY DEF Exact
  <2>4. \A a \in AgentIds : ~WonTwice(a)' => LatestWins(a)' = Won(a)'
    BY <2>2, <2>3, WonKept DEF LatestWins, Exact
  <2>5. \A q \in Processes \ {p} :
          /\ Ranking(q)' => Ranking(q)
          /\ At(q, "rank")' => At(q, "rank")
    BY <2>1 DEF Ranking, At
  <2>6. ~At(p, "rank")'
    BY <2>1 DEF At
  <2>7. \A q \in Processes, r \in Processes :
          q # r /\ Ranking(q)' /\ Ranking(r)' =>
            Entrants[process'[q].c] \cap Entrants[process'[r].c] = {}
    BY <2>1, <2>3, <2>5 DEF Exact
  <2>8. \A q \in Processes : At(q, "rank")' =>
          \A a \in Entrants[process'[q].c] :
            ~WonTwice(a)' => process'[q].prev[a] = Won(a)'
    BY <2>1, <2>2, <2>3, <2>5, <2>6, WonKept DEF Exact
  <2> QED BY <2>4, <2>7, <2>8 DEF Exact
<1>5. ASSUME NEW p \in Processes, ReadWins(p) PROVE Exact'
  <2>1. /\ Ranking(p) /\ process'[p].c = process[p].c
        /\ process'[p].prev = [a \in AgentIds |->
             IF a \in Entrants[process[p].c] THEN LatestWins(a) ELSE 0]
        /\ \A q \in Processes \ {p} : process'[q] = process[q]
    BY <1>0, <1>5 DEF ReadWins, Becomes, Ranking, At, Process
  <2>2. UNCHANGED <<snapshots, winner, settledTwice, overlapped>>
    BY <1>5 DEF ReadWins
  <2>3. Entrants[process[p].c] \subseteq AgentIds
    BY <1>5, EntrantsAssumption DEF ReadWins, EarnedInv, TypeInv, InFlight, At
  <2> SUFFICES ASSUME ~overlapped PROVE Exact'
    BY <2>2 DEF Exact
  <2>4. \A q \in Processes : process'[q].c = process[q].c /\ (Ranking(q)' => Ranking(q))
    BY <2>1 DEF Ranking
  <2>5. \A a \in AgentIds : /\ LatestWins(a)' = LatestWins(a)
                            /\ ~WonTwice(a) => LatestWins(a) = Won(a)
    BY <2>2 DEF LatestWins, Exact
  <2>6. ASSUME NEW q \in Processes, At(q, "rank")', NEW a \in Entrants[process'[q].c],
               ~WonTwice(a)'
        PROVE  process'[q].prev[a] = Won(a)'
    <3>1. ~WonTwice(a) /\ Won(a)' = Won(a)
      BY <2>2, <2>6, WonKept
    <3>2. CASE q = p
      BY <2>1, <2>3, <2>5, <2>6, <3>1, <3>2
    <3>3. CASE q # p
      BY <2>1, <2>6, <3>1, <3>3 DEF Exact, At
    <3> QED BY <3>2, <3>3
  <2> QED BY <2>2, <2>4, <2>5, <2>6, WonKept DEF Exact
<1>6. ASSUME NEW p \in Processes, NEW a \in AgentIds, RankAgent(p, a) PROVE Exact'
  <2>1. PICK f \in SUBSET AgentIds : process' =
          [process EXCEPT ![p] = [process[p] EXCEPT !.todo = process[p].todo \ {a},
                                                    !.failed = f]]
    BY <1>6, TurnWrites DEF EarnedInv
  <2>2. \A q \in Processes : /\ process'[q].c = process[q].c
                            /\ process'[q].prev = process[q].prev
                            /\ process'[q].pc = process[q].pc
    BY <1>0, <2>1 DEF Process
  <2> QED BY <1>6, <2>2, ExactKept DEF RankAgent
<1>7. ASSUME NEW p \in Processes, Commit(p) PROVE Exact'
  <2> DEFINE c == process[p].c
  <2> SUFFICES ASSUME ~overlapped PROVE Exact'
    BY <1>7, CommitWrites DEF Exact
  <2>1. Ranking(p) /\ At(p, "rank")
    BY <1>7 DEF Commit, Ranking, At
  <2>2. process'[p] = Idle /\ \A q \in Processes \ {p} : process'[q] = process[q]
    BY <1>0, <1>7, CommitWrites
  <2>3. ASSUME NEW a \in AgentIds, ~WonTwice(a)' PROVE LatestWins(a)' = Won(a)'
    <3>1. /\ snapshots[a] \in Seq(Snapshot) /\ ~WonTwice(a)
          /\ Won(a)' = Won(a) + (IF a = best[c] THEN 1 ELSE 0)
      BY <1>7, <2>3, CommitWins DEF EarnedInv, TypeInv, RankingsTypeOK
    <3>2. CASE a \in Entrants[c]
      <4>1. snapshots'[a] = Append(snapshots[a], NewSnapshot(p, a))
        BY <1>7, <3>2, CommitWrites
      <4>2. /\ snapshots'[a] # <<>>
            /\ snapshots'[a][Len(snapshots'[a])] = NewSnapshot(p, a)
        BY <3>1, <4>1
      <4>3. LatestWins(a)' = Wins(p, a)
        BY <4>2 DEF LatestWins, NewSnapshot
      <4>4. process[p].prev[a] = Won(a)
        BY <2>1, <3>1, <3>2 DEF Exact
      <4> QED BY <1>7, <3>1, <4>3, <4>4, CommitWrites
    <3>3. CASE a \notin Entrants[c]
      <4>1. snapshots'[a] = snapshots[a] /\ a # best[c] /\ Won(a)' = Won(a)
        BY <1>7, <3>1, <3>3, WonType, CommitWrites
      <4> QED BY <3>1, <4>1 DEF Exact, LatestWins
    <3> QED BY <3>2, <3>3
  <2>4. ASSUME NEW q \in Processes, At(q, "rank")', NEW a \in Entrants[process'[q].c],
               ~WonTwice(a)'
        PROVE  process'[q].prev[a] = Won(a)'
    <3>1. q # p /\ process'[q] = process[q]
      BY <2>2, <2>4 DEF At, Idle
    <3>2. At(q, "rank") /\ Ranking(q)
      BY <2>4, <3>1 DEF At, Ranking
    <3>3. a \in AgentIds
      BY <2>4, <3>1, <3>2, EntrantsAssumption DEF EarnedInv, TypeInv, InFlight, At
    <3>4. Entrants[process[p].c] \cap Entrants[process[q].c] = {}
      BY <2>1, <3>1, <3>2 DEF Exact
    <3>5. a \notin Entrants[c]
      BY <2>4, <3>1, <3>4
    <3>6. ~WonTwice(a) /\ Won(a)' = Won(a)
      <4>1. a # best[c]
        BY <1>7, <3>5, CommitWrites
      <4> QED BY <1>7, <2>4, <3>3, <4>1, WonType, CommitWins
    <3>7. process[q].prev[a] = Won(a)
      BY <2>4, <3>1, <3>2, <3>6 DEF Exact
    <3> QED BY <3>1, <3>6, <3>7
  <2>5. \A q \in Processes : Ranking(q)' => q # p /\ Ranking(q) /\ process'[q] = process[q]
    BY <2>2 DEF Ranking, Idle
  <2> QED BY <2>3, <2>4, <2>5 DEF Exact
<1>8. ASSUME NEW p \in Processes, Crash(p) PROVE Exact'
  <2>1. process'[p] = Idle /\ \A q \in Processes \ {p} : process'[q] = process[q]
    BY <1>0, <1>8 DEF Crash, Ends, Becomes
  <2> QED BY <1>8, <2>1, ExactKept DEF Crash, Ranking, Idle
<1>9. CASE UNCHANGED rankingsVars
  BY <1>9, ExactKept DEF rankingsVars, Ranking
<1> QED BY <1>1, <1>2, <1>3, <1>4, <1>5, <1>6, <1>7, <1>8, <1>9 DEF RankingsNext

(* No win is lost without an overlap, whatever dies or is refused: an agent *)
(* whose challenges were settled once has a win on record for each it won.  *)
THEOREM NoWinLost == RankingsSpec => []WinsExact
<1>1. RankingsInit => EarnedInv /\ Exact
  BY InitTypeInv, InitChainOnce, InitCounted, InitExact DEF EarnedInv
<1>2. EarnedInv /\ Exact /\ [RankingsNext]_rankingsVars => EarnedInv' /\ Exact'
  BY StepTypeInv, StepChainOnce, StepCounted, StepExact DEF EarnedInv
<1>3. Exact => WinsExact
  BY DEF Exact, WinsExact
<1> QED BY <1>1, <1>2, <1>3, PTL DEF RankingsSpec

-----------------------------------------------------------------------------
(* What a settlement read before the wins covers them: the runs of its      *)
(* agents, its own challenge among them, as long as nobody else commits a   *)
(* win of theirs.                                                           *)
Covered ==
  ~overlapped =>
    \A p \in Processes :
      Ranking(p) =>
        \A a \in Entrants[process[p].c] \ Hosted :
          Won(a) + (IF a = best[process[p].c] THEN 1 ELSE 0) <= process[p].total[a]

(* Every committed win is of a run on record, and so is the one a           *)
(* settlement will commit.                                                  *)
LEMMA RunsCoverWins ==
  ASSUME EarnedInv, NEW c \in Challenges, NEW a \in Entrants[c] \ Hosted,
         best[c] # None, winner[c] = None
  PROVE  Won(a) + (IF a = best[c] THEN 1 ELSE 0) <= TerminalRuns(a)
<1> DEFINE T == {d \in Challenges : a \in Entrants[d] /\ best[d] # None}
<1>1. a \in AgentIds \ Hosted
  BY EntrantsAssumption
<1>2. CommittedFor(a) \subseteq T /\ c \notin CommittedFor(a) /\ c \in T
  BY <1>1, AgentsNotNone
  DEF CommittedFor, EarnedInv, ChainOnce, TypeInv, BestIsEntrant, RankingsTypeOK
<1>3. /\ IsFiniteSet(T) /\ Cardinality(T) \in Nat /\ Cardinality(CommittedFor(a)) \in Nat
      /\ Won(a) = Cardinality(CommittedFor(a))
  <2>1. IsFiniteSet(T)
    BY ChallengesAssumption, FS_Subset
  <2> QED BY <1>1, <2>1, FS_CardinalityType, SettledFinite, LocalWonOnce DEF EarnedInv
<1>4. Cardinality(CommittedFor(a)) < Cardinality(T)
  BY <1>2, <1>3, FS_Subset
<1>5. TerminalRuns(a) = Cardinality(T)
  BY DEF TerminalRuns
<1> HIDE DEF T
<1> QED BY <1>3, <1>4, <1>5

LEMMA CoveredKept ==
  ASSUME EarnedInv, Covered, UNCHANGED <<winner, settledTwice, overlapped>>,
         \A c \in Challenges : best[c] # None => best'[c] = best[c],
         \A p \in Processes : Ranking(p)' =>
           Ranking(p) /\ process'[p].c = process[p].c /\ process'[p].total = process[p].total
  PROVE  Covered'
<1> SUFFICES ASSUME ~overlapped, NEW p \in Processes, Ranking(p)',
                    NEW a \in Entrants[process'[p].c] \ Hosted
             PROVE  Won(a)' + (IF a = best'[process'[p].c] THEN 1 ELSE 0)
                      <= process'[p].total[a]
  BY DEF Covered
<1>1. Ranking(p) /\ process[p].c \in Challenges /\ best[process[p].c] # None
  BY DEF EarnedInv, TypeInv, InFlight, At, Ranking
<1> QED BY <1>1, WonKept DEF Covered

LEMMA StepCovered ==
  EarnedInv /\ Exact /\ Covered /\ [RankingsNext]_rankingsVars => Covered'
<1> SUFFICES ASSUME EarnedInv, Exact, Covered, [RankingsNext]_rankingsVars PROVE Covered'
  OBVIOUS
<1>0. process \in [Processes -> Process]
  BY DEF EarnedInv, TypeInv, RankingsTypeOK
<1>1. ASSUME NEW c \in Challenges, NEW a \in AgentIds, RunsEnd(c, a) PROVE Covered'
  <2>1. \A d \in Challenges : best[d] # None => best'[d] = best[d]
    BY <1>1 DEF RunsEnd, EarnedInv, TypeInv, RankingsTypeOK
  <2> QED BY <1>1, <2>1, CoveredKept DEF RunsEnd, Ranking
<1>2. ASSUME NEW p \in Processes, NEW c \in Challenges, Settle(p, c) PROVE Covered'
  <2>1. process'[p].pc \in {"row", "settle_call"} /\ \A q \in Processes \ {p} : process'[q] = process[q]
    BY <1>0, <1>2 DEF Settle, Becomes, Idle
  <2> QED BY <1>2, <2>1, CoveredKept DEF Settle, Ranking
<1>3. ASSUME NEW p \in Processes, SettleCall(p) PROVE Covered'
  <2>1. process'[p].pc \in {"idle", "row"} /\ \A q \in Processes \ {p} : process'[q] = process[q]
    BY <1>0, <1>3 DEF SettleCall, Becomes, Ends, Idle, Process
  <2> QED BY <1>3, <2>1, CoveredKept DEF SettleCall, Ranking
<1>4. ASSUME NEW p \in Processes, ReadRuns(p) PROVE Covered'
  <2> DEFINE c == process[p].c
  <2>1. /\ process'[p].pc = "wins" /\ process'[p].c = c
        /\ process'[p].total = [a \in AgentIds |->
             IF a \in Entrants[c] THEN TerminalRuns(a) ELSE 0]
        /\ \A q \in Processes \ {p} : process'[q] = process[q]
        /\ UNCHANGED <<winner, settledTwice, best>> /\ (~overlapped' => ~overlapped)
    BY <1>0, <1>4 DEF ReadRuns, Becomes, Process
  <2>2. c \in Challenges /\ best[c] # None /\ Holds(p)
    BY <1>4 DEF ReadRuns, EarnedInv, TypeInv, InFlight, At, Holds
  <2> SUFFICES ASSUME ~overlapped', NEW q \in Processes, Ranking(q)',
                      NEW a \in Entrants[process'[q].c] \ Hosted
               PROVE  Won(a)' + (IF a = best'[process'[q].c] THEN 1 ELSE 0)
                        <= process'[q].total[a]
    BY DEF Covered
  <2>3. CASE q = p
    <3>1. a \in Entrants[c] \ Hosted /\ a \in AgentIds
      BY <2>1, <2>2, <2>3, EntrantsAssumption
    <3>2. winner[c] = None
      BY <2>2, <3>1 DEF EarnedInv, ChainOnce, IsHosted
    <3>3. Won(a) + (IF a = best[c] THEN 1 ELSE 0) <= TerminalRuns(a)
      BY <2>2, <3>1, <3>2, RunsCoverWins
    <3> QED BY <2>1, <2>3, <3>1, <3>3, WonKept
  <2>4. CASE q # p
    BY <2>1, <2>4, WonKept DEF Covered, Ranking
  <2> QED BY <2>3, <2>4
<1>5. ASSUME NEW p \in Processes, ReadWins(p) PROVE Covered'
  <2>1. /\ Ranking(p) /\ process'[p].c = process[p].c /\ process'[p].total = process[p].total
        /\ \A q \in Processes \ {p} : process'[q] = process[q]
    BY <1>0, <1>5 DEF ReadWins, Becomes, Ranking, At, Process
  <2> QED BY <1>5, <2>1, CoveredKept DEF ReadWins, Ranking
<1>6. ASSUME NEW p \in Processes, NEW a \in AgentIds, RankAgent(p, a) PROVE Covered'
  <2>1. PICK f \in SUBSET AgentIds : process' =
          [process EXCEPT ![p] = [process[p] EXCEPT !.todo = process[p].todo \ {a},
                                                    !.failed = f]]
    BY <1>6, TurnWrites DEF EarnedInv
  <2>2. \A q \in Processes : /\ process'[q].c = process[q].c
                            /\ process'[q].total = process[q].total
                            /\ process'[q].pc = process[q].pc
    BY <1>0, <2>1 DEF Process
  <2> QED BY <1>6, <2>2, CoveredKept DEF RankAgent, Ranking
<1>7. ASSUME NEW p \in Processes, Commit(p) PROVE Covered'
  <2>1. /\ Ranking(p) /\ process'[p] = Idle
        /\ (\A q \in Processes \ {p} : process'[q] = process[q])
        /\ UNCHANGED <<best, overlapped>>
    BY <1>0, <1>7, CommitWrites DEF Commit, Ranking, At
  <2> SUFFICES ASSUME ~overlapped, NEW q \in Processes, Ranking(q)',
                      NEW a \in Entrants[process'[q].c] \ Hosted
               PROVE  Won(a)' + (IF a = best'[process'[q].c] THEN 1 ELSE 0)
                        <= process'[q].total[a]
    BY <2>1 DEF Covered
  <2>2. q # p /\ process'[q] = process[q] /\ Ranking(q)
    BY <2>1 DEF Ranking, Idle
  <2>3. a \in AgentIds /\ a \in Entrants[process[q].c] /\ a # best[process[p].c]
    <3>1. Entrants[process[p].c] \cap Entrants[process[q].c] = {}
      BY <2>1, <2>2 DEF Exact
    <3> QED BY <1>7, <2>2, <3>1, CommitWrites, EntrantsAssumption
            DEF EarnedInv, TypeInv, InFlight, At, Ranking
  <2>4. Won(a)' = Won(a)
    BY <1>7, <2>3, CommitOthers
  <2> QED BY <2>1, <2>2, <2>3, <2>4 DEF Covered
<1>8. ASSUME NEW p \in Processes, Crash(p) PROVE Covered'
  <2>1. process'[p] = Idle /\ \A q \in Processes \ {p} : process'[q] = process[q]
    BY <1>0, <1>8 DEF Crash, Ends, Becomes
  <2> QED BY <1>8, <2>1, CoveredKept DEF Crash, Ranking, Idle
<1>9. CASE UNCHANGED rankingsVars
  BY <1>9, CoveredKept DEF rankingsVars, Ranking
<1> QED BY <1>1, <1>2, <1>3, <1>4, <1>5, <1>6, <1>7, <1>8, <1>9 DEF RankingsNext

LEMMA QuotientBound ==
  ASSUME NEW n \in Nat, NEW d \in Nat, NEW k \in Nat, d # 0, n <= k * d
  PROVE  n \div d <= k
<1> DEFINE q == n \div d
<1>1. q \in Nat /\ d * q <= n
  BY SMT
<1>2. d * q <= k * d
  BY <1>1
<1> HIDE DEF q
<1>3. ~(q >= k + 1)
  <2> SUFFICES ASSUME q >= k + 1 PROVE FALSE
    OBVIOUS
  <2>1. d * q >= d * (k + 1)
    BY <1>1, SMT
  <2> QED BY <1>1, <1>2, <2>1
<1> QED BY <1>1, <1>3 DEF q

(* The weights of the score sum to MAX_SCORE.                               *)
LEMMA ScoreWithinLimit ==
  ASSUME NEW wins \in Nat, NEW total \in Nat, total # 0, wins <= total,
         NEW q \in Qualities, NEW k \in Qualities
  PROVE  ValidScore(Score(wins, total, q, k))
<1>1. (3500 * wins) \div total \in Nat /\ (3500 * wins) \div total <= 3500
  BY QuotientType, QuotientBound
<1>2. Confidence(total) \in Nat /\ Confidence(total) <= 100
  BY DEF Confidence
<1>3. q \in 0..100 /\ k \in 0..100
  BY QualitiesAssumption
<1> QED BY <1>1, <1>2, <1>3 DEF Score, ValidScore, MaxScore

(* As long as no two settlements with an agent in common ranked at once,    *)
(* the program refuses no update of a local challenge for what it says, and *)
(* its losses can be encoded, although runs and wins are read one after the *)
(* other.                                                                   *)
THEOREM UpdatesAccepted == RankingsSpec => []UpdatesAcceptable
<1>1. RankingsInit => EarnedInv /\ Exact /\ Covered
  <2>1. RankingsInit => Covered
    BY DEF RankingsInit, Covered, Ranking, Idle
  <2> QED BY <2>1, InitTypeInv, InitChainOnce, InitCounted, InitExact DEF EarnedInv
<1>2. EarnedInv /\ Exact /\ Covered /\ [RankingsNext]_rankingsVars
        => EarnedInv' /\ Exact' /\ Covered'
  BY StepTypeInv, StepChainOnce, StepCounted, StepExact, StepCovered DEF EarnedInv
<1>3. EarnedInv /\ Exact /\ Covered => UpdatesAcceptable
  <2> SUFFICES ASSUME EarnedInv, Exact, Covered, ~overlapped, NEW p \in Processes,
                      At(p, "rank"), IsLocal(process[p].c), NEW a \in process[p].todo
               PROVE  /\ Wins(p, a) <= process[p].total[a]
                      /\ \A q, k \in Qualities :
                           ValidScore(Score(Wins(p, a), process[p].total[a], q, k))
    BY DEF UpdatesAcceptable
  <2>1. /\ Ranking(p) /\ process[p].c \in Challenges
        /\ a \in Entrants[process[p].c] \ Hosted /\ process[p].total[a] # 0
    BY DEF EarnedInv, TypeInv, InFlight, At, Ranking, IsLocal
  <2>2. a \in AgentIds
    BY <2>1, EntrantsAssumption
  <2>3. process[p].total[a] \in Nat /\ Wins(p, a) \in Nat
    BY <2>2, ProcessType DEF EarnedInv, Process, Wins
  <2>4. process[p].prev[a] = Won(a)
    BY <2>1, <2>2, LocalWonOnce DEF Exact, EarnedInv
  <2>5. Wins(p, a) <= process[p].total[a]
    BY <2>1, <2>4 DEF Covered, Wins
  <2> QED BY <2>1, <2>3, <2>5, ScoreWithinLimit
<1> QED BY <1>1, <1>2, <1>3, PTL DEF RankingsSpec

-----------------------------------------------------------------------------
(* Without an overlap or a settlement that died half-way, a rank account    *)
(* says what the agent's latest snapshot says, or the snapshot says that it *)
(* does not; between an agent's turn and the commit, the settlement knows.  *)
InStep(a) ==
  \/ rank[a].wins = LatestWins(a)
  \/ snapshots[a] # <<>> /\ snapshots[a][Len(snapshots[a])].sync_failed

Ranked(p, a) ==
  At(p, "rank") /\ a \in Entrants[process[p].c] /\ a \notin process[p].todo

Reported ==
  ~overlapped /\ ~rolledBack =>
    \A a \in AgentIds \ Hosted :
      /\ (\A p \in Processes : ~Ranked(p, a)) => InStep(a)
      /\ \A p \in Processes :
           Ranked(p, a) => rank[a].wins = Wins(p, a) \/ a \in process[p].failed

LEMMA InitReported == RankingsInit => Reported
<1> SUFFICES ASSUME RankingsInit PROVE Reported
  OBVIOUS
<1>1. \A p \in Processes : ~At(p, "rank")
  BY DEF RankingsInit, At, Idle
<1>2. \A a \in AgentIds : rank[a].wins = 0 /\ LatestWins(a) = 0
  BY DEF RankingsInit, ZeroRank, LatestWins
<1> QED BY <1>1, <1>2 DEF Reported, Ranked, InStep

(* Steps that leave ranks and snapshots, and what is being ranked, alone.   *)
LEMMA ReportedKept ==
  ASSUME EarnedInv, Reported, UNCHANGED <<rank, snapshots>>,
         ~overlapped' /\ ~rolledBack' => ~overlapped /\ ~rolledBack,
         \A c \in Challenges : best[c] # None => best'[c] = best[c],
         \A p \in Processes, a \in AgentIds :
           ~overlapped' /\ ~rolledBack' => (Ranked(p, a)' <=> Ranked(p, a)),
         \A p \in Processes, a \in AgentIds :
           Ranked(p, a)' /\ Ranked(p, a) => process'[p] = process[p]
  PROVE  Reported'
<1> SUFFICES ASSUME ~overlapped', ~rolledBack', NEW a \in AgentIds \ Hosted
             PROVE  /\ (\A p \in Processes : ~Ranked(p, a)') => InStep(a)'
                    /\ \A p \in Processes :
                         Ranked(p, a)' =>
                           rank'[a].wins = Wins(p, a)' \/ a \in process'[p].failed
  BY DEF Reported
<1>1. (\A p \in Processes : ~Ranked(p, a)') => InStep(a)'
  <2>1. InStep(a)' <=> InStep(a)
    BY DEF InStep, LatestWins
  <2> QED BY <2>1 DEF Reported
<1>2. ASSUME NEW p \in Processes, Ranked(p, a)'
      PROVE  rank'[a].wins = Wins(p, a)' \/ a \in process'[p].failed
  <2>1. Ranked(p, a) /\ process'[p] = process[p]
    BY <1>2
  <2>2. process[p].c \in Challenges /\ best[process[p].c] # None
    BY <2>1 DEF Ranked, EarnedInv, TypeInv, InFlight, At
  <2>3. Wins(p, a)' = Wins(p, a)
    BY <2>1, <2>2 DEF Wins
  <2> QED BY <2>1, <2>3 DEF Reported
<1> QED BY <1>1, <1>2

(* A turn writes the account of its agent, or puts the agent on record.     *)
LEMMA TurnReports ==
  ASSUME EarnedInv, NEW p \in Processes, NEW a \in AgentIds, RankAgent(p, a)
  PROVE  /\ UNCHANGED <<best, snapshots, overlapped, rolledBack>>
         /\ At(p, "rank") /\ a \in process[p].todo
         /\ \A q \in Processes \ {p} : process'[q] = process[q]
         /\ process'[p].pc = process[p].pc /\ process'[p].c = process[p].c
         /\ process'[p].prev = process[p].prev
         /\ process'[p].todo = process[p].todo \ {a}
         /\ \A b \in AgentIds \ {a} :
              rank'[b] = rank[b] /\ (b \in process[p].failed => b \in process'[p].failed)
         /\ rank'[a].wins = Wins(p, a) \/ a \in Hosted \/ a \in process'[p].failed
<1> DEFINE r == [process[p] EXCEPT !.todo = process[p].todo \ {a}]
           s == [process[p] EXCEPT !.todo = process[p].todo \ {a}, !.failed = Recorded(p, a)]
<1>1. process[p] \in Process /\ process \in [Processes -> Process]
  BY ProcessType DEF EarnedInv, TypeInv, RankingsTypeOK
<1>2. /\ UNCHANGED <<best, snapshots, overlapped, rolledBack>>
      /\ At(p, "rank") /\ a \in process[p].todo
  BY DEF RankAgent
<1>3. s = [r EXCEPT !.failed = Recorded(p, a)]
  BY <1>1 DEF Process
<1>4. /\ r.pc = process[p].pc /\ r.c = process[p].c /\ r.prev = process[p].prev
      /\ r.todo = process[p].todo \ {a} /\ r.failed = process[p].failed
      /\ s.pc = process[p].pc /\ s.c = process[p].c /\ s.prev = process[p].prev
      /\ s.todo = process[p].todo \ {a} /\ s.failed = process[p].failed \cup {a}
  BY <1>1 DEF Process, Recorded
<1>5. \/ /\ \E quality, consistency \in Qualities : SendsRank(p, a, quality, consistency)
         /\ \/ process' = [process EXCEPT ![p] = r]
            \/ process' = [process EXCEPT ![p] = s]
      \/ /\ process' = [process EXCEPT ![p] = IF a \in Hosted THEN r ELSE s]
         /\ UNCHANGED rank
  BY <1>3 DEF RankAgent, Becomes
<1> HIDE DEF r, s
<1>6. /\ process' = [process EXCEPT ![p] = r] \/ process' = [process EXCEPT ![p] = s]
      /\ \A q \in Processes \ {p} : process'[q] = process[q]
      /\ process'[p] = r \/ process'[p] = s
  BY <1>1, <1>5
<1>7. /\ \A b \in AgentIds \ {a} : rank'[b] = rank[b]
      /\ rank'[a].wins = Wins(p, a) \/ a \in Hosted \/ process'[p] = s
  <2>1. CASE \E quality, consistency \in Qualities : SendsRank(p, a, quality, consistency)
    BY <1>2, <2>1, SendWrites DEF EarnedInv
  <2>2. CASE /\ process' = [process EXCEPT ![p] = IF a \in Hosted THEN r ELSE s]
             /\ UNCHANGED rank
    BY <1>1, <2>2
  <2> QED BY <1>5, <2>1, <2>2
<1> QED BY <1>2, <1>4, <1>6, <1>7

\* The last element of a sequence that was just appended to.
LEMMA LastAppended ==
  ASSUME NEW S, NEW old \in Seq(S), NEW x, NEW new, new = Append(old, x)
  PROVE  new # <<>> /\ new[Len(new)] = x
  OBVIOUS

LEMMA StepReported ==
  EarnedInv /\ Exact /\ Reported /\ [RankingsNext]_rankingsVars => Reported'
<1> SUFFICES ASSUME EarnedInv, Exact, Reported, [RankingsNext]_rankingsVars
             PROVE  Reported'
  OBVIOUS
<1>0. process \in [Processes -> Process]
  BY DEF EarnedInv, TypeInv, RankingsTypeOK
<1>1. ASSUME NEW c \in Challenges, NEW a \in AgentIds, RunsEnd(c, a) PROVE Reported'
  <2>1. \A d \in Challenges : best[d] # None => best'[d] = best[d]
    BY <1>1 DEF RunsEnd, EarnedInv, TypeInv, RankingsTypeOK
  <2> QED BY <1>1, <2>1, ReportedKept DEF RunsEnd, Ranked, At
<1>2. ASSUME NEW p \in Processes, NEW c \in Challenges, Settle(p, c) PROVE Reported'
  <2>1. /\ process[p].pc = "idle" /\ process'[p].pc \in {"row", "settle_call"}
        /\ \A q \in Processes \ {p} : process'[q] = process[q]
    BY <1>0, <1>2 DEF Settle, Becomes, Idle, At
  <2> QED BY <1>2, <2>1, ReportedKept DEF Settle, Ranked, At
<1>3. ASSUME NEW p \in Processes, SettleCall(p) PROVE Reported'
  <2>1. /\ process[p].pc = "settle_call" /\ process'[p].pc \in {"idle", "row"}
        /\ \A q \in Processes \ {p} : process'[q] = process[q]
    BY <1>0, <1>3 DEF SettleCall, Becomes, Ends, Idle, Process, At
  <2> QED BY <1>3, <2>1, ReportedKept DEF SettleCall, Ranked, At
<1>4. ASSUME NEW p \in Processes, ReadRuns(p) PROVE Reported'
  <2>1. /\ process[p].pc = "row" /\ process'[p].pc = "wins"
        /\ \A q \in Processes \ {p} : process'[q] = process[q]
        /\ ~overlapped' => ~overlapped
    BY <1>0, <1>4 DEF ReadRuns, Becomes, Process, At
  <2> QED BY <1>4, <2>1, ReportedKept DEF ReadRuns, Ranked, At
<1>5. ASSUME NEW p \in Processes, ReadWins(p) PROVE Reported'
  <2>1. /\ process[p].pc = "wins" /\ process'[p].c = process[p].c
        /\ process'[p].todo = Entrants[process[p].c]
        /\ \A q \in Processes \ {p} : process'[q] = process[q]
    BY <1>0, <1>5 DEF ReadWins, Becomes, At, Process
  <2>2. \A q \in Processes, a \in AgentIds : Ranked(q, a)' <=> Ranked(q, a)
    BY <2>1 DEF Ranked, At
  <2>3. \A q \in Processes, a \in AgentIds : Ranked(q, a) => process'[q] = process[q]
    BY <2>1 DEF Ranked, At
  <2> QED BY <1>5, <2>2, <2>3, ReportedKept DEF ReadWins
<1>6. ASSUME NEW p \in Processes, NEW a \in AgentIds, RankAgent(p, a) PROVE Reported'
  <2> SUFFICES ASSUME ~overlapped, ~rolledBack, NEW b \in AgentIds \ Hosted
               PROVE  /\ (\A q \in Processes : ~Ranked(q, b)') => InStep(b)'
                      /\ \A q \in Processes :
                           Ranked(q, b)' =>
                             rank'[b].wins = Wins(q, b)' \/ b \in process'[q].failed
    BY <1>6, TurnReports DEF Reported
  <2>1. /\ At(p, "rank") /\ Ranking(p) /\ a \in Entrants[process[p].c]
        /\ At(p, "rank")' /\ process'[p].c = process[p].c
        /\ process'[p].todo = process[p].todo \ {a}
    BY <1>6, TurnReports DEF At, Ranking, EarnedInv, TypeInv, InFlight
  <2>2. \A q \in Processes : Wins(q, b)' = Wins(q, b)
    BY <1>6, TurnReports DEF Wins
  <2>3. CASE b = a
    <3>1. Ranked(p, b)'
      BY <2>1, <2>3 DEF Ranked
    <3>2. rank'[b].wins = Wins(p, b)' \/ b \in process'[p].failed
      BY <1>6, <2>2, <2>3, TurnReports
    <3>3. ASSUME NEW q \in Processes, q # p PROVE ~Ranked(q, b)'
      <4>1. process'[q] = process[q]
        BY <1>6, <3>3, TurnReports
      <4>2. Ranking(q) => b \notin Entrants[process[q].c]
        BY <2>1, <2>3, <3>3 DEF Exact
      <4> QED BY <4>1, <4>2 DEF Ranked, At, Ranking
    <3> QED BY <3>1, <3>2, <3>3
  <2>4. CASE b # a
    <3>1. \A q \in Processes : Ranked(q, b)' <=> Ranked(q, b)
      BY <1>6, <2>1, <2>4, TurnReports DEF Ranked, At
    <3>2. InStep(b)' <=> InStep(b)
      BY <1>6, <2>4, TurnReports DEF InStep, LatestWins
    <3>3. \A q \in Processes : b \in process[q].failed => b \in process'[q].failed
      BY <1>6, <2>4, TurnReports
    <3>4. rank'[b] = rank[b]
      BY <1>6, <2>4, TurnReports
    <3> QED BY <2>2, <3>1, <3>2, <3>3, <3>4 DEF Reported
  <2> QED BY <2>3, <2>4
<1>7. ASSUME NEW p \in Processes, Commit(p) PROVE Reported'
  <2> DEFINE c == process[p].c
  <2>1. /\ Ranking(p) /\ At(p, "rank") /\ process[p].todo = {} /\ process'[p] = Idle
        /\ (\A q \in Processes \ {p} : process'[q] = process[q])
        /\ UNCHANGED <<best, rank, overlapped, rolledBack>>
    BY <1>0, <1>7, CommitWrites DEF Commit, Ranking, At
  <2> SUFFICES ASSUME ~overlapped, ~rolledBack, NEW b \in AgentIds \ Hosted
               PROVE  /\ (\A q \in Processes : ~Ranked(q, b)') => InStep(b)'
                      /\ \A q \in Processes :
                           Ranked(q, b)' =>
                             rank'[b].wins = Wins(q, b)' \/ b \in process'[q].failed
    BY <2>1 DEF Reported
  <2>2. ~Ranked(p, b)'
    BY <2>1 DEF Ranked, At, Idle
  <2>3. \A q \in Processes \ {p} :
          (Ranked(q, b)' <=> Ranked(q, b)) /\ Wins(q, b)' = Wins(q, b)
    BY <2>1 DEF Ranked, At, Wins
  <2>4. CASE b \in Entrants[c]
    <3>1. rank[b].wins = Wins(p, b) \/ b \in process[p].failed
      BY <2>1, <2>4 DEF Reported, Ranked
    <3>2. snapshots[b] \in Seq(Snapshot)
      BY DEF EarnedInv, TypeInv, RankingsTypeOK
    <3>3. snapshots'[b] = Append(snapshots[b], NewSnapshot(p, b))
      BY <1>7, <2>4, CommitWrites
    <3>4. /\ snapshots'[b] # <<>>
          /\ snapshots'[b][Len(snapshots'[b])] = NewSnapshot(p, b)
      BY ONLY <3>2, <3>3, LastAppended
    <3>5. snapshots'[b][Len(snapshots'[b])].wins = Wins(p, b)
      BY ONLY <3>4 DEF NewSnapshot
    <3>6. LatestWins(b)' = Wins(p, b)
      BY <3>4, <3>5 DEF LatestWins
    <3>7. rank'[b] = rank[b]
      BY <2>1
    <3>8. ASSUME b \in process[p].failed
          PROVE  snapshots'[b][Len(snapshots'[b])].sync_failed
      <4>1. NewSnapshot(p, b).sync_failed = (b \in process[p].failed)
        BY Zenon DEF NewSnapshot
      <4> QED BY ONLY <3>4, <3>8, <4>1, Zenon
    <3>9. rank'[b].wins = LatestWins(b)' \/ b \in process[p].failed
      BY <3>1, <3>6, <3>7
    <3>10. InStep(b)'
      BY <3>4, <3>8, <3>9 DEF InStep
    <3> QED BY <2>1, <2>2, <2>3, <3>10 DEF Reported
  <2>5. CASE b \notin Entrants[c]
    <3>1. ~Ranked(p, b) /\ snapshots'[b] = snapshots[b]
      BY <1>7, <2>5, CommitWrites DEF Ranked
    <3>2. InStep(b)' <=> InStep(b)
      BY <2>1, <3>1 DEF InStep, LatestWins
    <3>3. (\A q \in Processes : ~Ranked(q, b)') => (\A q \in Processes : ~Ranked(q, b))
      BY <2>3, <3>1
    <3> QED BY <2>1, <2>2, <2>3, <3>2, <3>3 DEF Reported
  <2> QED BY <2>4, <2>5
<1>8. ASSUME NEW p \in Processes, Crash(p) PROVE Reported'
  <2>1. /\ process'[p] = Idle /\ (\A q \in Processes \ {p} : process'[q] = process[q])
        /\ ~rolledBack' => ~rolledBack /\ ~Ranking(p)
    BY <1>0, <1>8 DEF Crash, Ends, Becomes
  <2>2. \A q \in Processes, a \in AgentIds :
          ~rolledBack' => (Ranked(q, a)' <=> Ranked(q, a))
    BY <2>1 DEF Ranked, At, Idle, Ranking
  <2>3. \A q \in Processes, a \in AgentIds : Ranked(q, a)' => process'[q] = process[q]
    BY <2>1 DEF Ranked, At, Idle
  <2> QED BY <1>8, <2>1, <2>2, <2>3, ReportedKept DEF Crash
<1>9. CASE UNCHANGED rankingsVars
  BY <1>9, ReportedKept DEF rankingsVars, Ranked, At
<1> QED BY <1>1, <1>2, <1>3, <1>4, <1>5, <1>6, <1>7, <1>8, <1>9 DEF RankingsNext

(* An operator who reads the artifacts misses no rank account that is not   *)
(* what the snapshots say, unless settlements overlap or die half-way:      *)
(* failed updates, lost answers and missing addresses all leave one.        *)
THEOREM RanksReported == RankingsSpec => []RanksInStep
<1>1. RankingsInit => EarnedInv /\ Exact /\ Reported
  BY InitTypeInv, InitChainOnce, InitCounted, InitExact, InitReported DEF EarnedInv
<1>2. EarnedInv /\ Exact /\ Reported /\ [RankingsNext]_rankingsVars
        => EarnedInv' /\ Exact' /\ Reported'
  BY StepTypeInv, StepChainOnce, StepCounted, StepExact, StepReported DEF EarnedInv
<1>3. Reported => RanksInStep
  BY DEF Reported, InStep, Ranked, Ranking, At, RanksInStep
<1> QED BY <1>1, <1>2, <1>3, PTL DEF RankingsSpec
=============================================================================
