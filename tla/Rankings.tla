------------------------------ MODULE Rankings ------------------------------
(***************************************************************************)
(* The rank updates of services/settlement_service.py, against the rank     *)
(* accounts of the program (AgentRank).                                     *)
(*                                                                          *)
(* A settlement counts, for each agent of its challenge, the runs on record *)
(* and the wins in the agent's latest rank_snapshots row, appends a         *)
(* snapshot with the sums, and sends them to the chain for local agents.    *)
(* Everything it writes to Postgres is one transaction, committed at the    *)
(* end; what it sends to the chain stays sent.  Postgres runs at READ       *)
(* COMMITTED: a query sees what was committed when it ran.                  *)
(***************************************************************************)
EXTENDS AgentRank, FiniteSets, Sequences

CONSTANTS
  Authority,    \* the key the backend signs with, also the program's admin
  Challenges,   \* challenges whose runs were created
  Entrants,     \* the agents of each challenge
  Hosted,       \* agents that stand for hosted instances
  Qualities,    \* percentages avg_eq and consistency may come to
  Processes     \* slots for the settlements under way at once

ASSUME AuthorityAssumption == Authority \in Signers
ASSUME EntrantsAssumption == Entrants \in [Challenges -> SUBSET AgentIds]
ASSUME ChallengesAssumption == IsFiniteSet(Challenges) /\ None \notin Challenges
ASSUME HostedAssumption == Hosted \subseteq AgentIds
ASSUME QualitiesAssumption == Qualities \subseteq 0..100

VARIABLES
  address,      \* agents whose row has the onchain_address of their strategy
  best,         \* winner by the runs of a challenge; None while one is not over
  settledOnChain, \* challenges the program settled
  winner,       \* committed winner_agent_id; with it goes status "completed"
  snapshots,    \* committed rank_snapshots of each agent, by snapshot_id
  process,      \* progress of each settlement
  settledTwice, \* challenges committed by a second settlement (history)
  overlapped,   \* two settlements with an agent in common ranked at once
  rolledBack    \* a settlement died once it had begun to rank (history)

rankingsVars ==
  <<admin, strategies, rank, address, best, settledOnChain, winner, snapshots,
    process, settledTwice, overlapped, rolledBack>>

(* sync_failed: whether a rank_sync_failed artifact of the agent's run is   *)
(* committed with the snapshot.                                             *)
Snapshot == [wins : Nat, total : Nat, sync_failed : BOOLEAN]

(* total, prev: what the settlement read of each agent; todo: the agents    *)
(* left to rank; failed: those with a rank_sync_failed artifact.            *)
Process ==
  [pc     : {"idle", "settle_call", "row", "wins", "rank"},
   c      : OptionOf(Challenges),
   total  : [AgentIds -> Nat],
   prev   : [AgentIds -> Nat],
   todo   : SUBSET AgentIds,
   failed : SUBSET AgentIds]

Idle ==
  [pc |-> "idle", c |-> None, total |-> [a \in AgentIds |-> 0],
   prev |-> [a \in AgentIds |-> 0], todo |-> {}, failed |-> {}]

At(p, pc) == process[p].pc = pc
Becomes(p, r) == process' = [process EXCEPT ![p] = r]
Ends(p) == Becomes(p, Idle)

IsHosted(c) == Entrants[c] \subseteq Hosted
IsLocal(c) == Entrants[c] \cap Hosted = {}

(* From the update of its challenge row, whose lock it then holds, to its   *)
(* end.                                                                     *)
Ranking(p) == process[p].pc \in {"wins", "rank"}

-----------------------------------------------------------------------------
(* The strategies of the local agents are registered; the rows of some have *)
(* no address yet.                                                          *)
RankingsInit ==
  /\ admin = Authority
  /\ strategies = {<<Authority, a>> : a \in AgentIds \ Hosted}
  /\ rank = [a \in AgentIds |-> ZeroRank]
  /\ address \in SUBSET (AgentIds \ Hosted)
  /\ best = [c \in Challenges |-> None]
  /\ settledOnChain = {}
  /\ winner = [c \in Challenges |-> None]
  /\ snapshots = [a \in AgentIds |-> <<>>]
  /\ process = [p \in Processes |-> Idle]
  /\ settledTwice = {}
  /\ overlapped = FALSE
  /\ rolledBack = FALSE

(* The last run of c is committed as completed; a is the best one's agent.  *)
RunsEnd(c, a) ==
  /\ best[c] = None
  /\ a \in Entrants[c]
  /\ best' = [best EXCEPT ![c] = a]
  /\ UNCHANGED <<registryVars, rank, address, settledOnChain, winner, snapshots,
                 process, settledTwice, overlapped, rolledBack>>

(* settle_challenge: the row is not settled, the runs are eligible and all  *)
(* of one kind.  A hosted challenge makes no call.                          *)
Settle(p, c) ==
  /\ At(p, "idle")
  /\ winner[c] = None
  /\ best[c] # None
  /\ IsHosted(c) \/ IsLocal(c)
  /\ Becomes(p, [Idle EXCEPT !.pc = IF IsHosted(c) THEN "row" ELSE "settle_call",
                             !.c = c])
  /\ UNCHANGED <<registryVars, rank, address, best, settledOnChain, winner,
                 snapshots, settledTwice, overlapped, rolledBack>>

(* The program settles a challenge once.  A refusal, a failure and an       *)
(* answer that is lost all end the settlement.                              *)
SettleCall(p) ==
  /\ At(p, "settle_call")
  /\ \/ /\ process[p].c \notin settledOnChain
        /\ settledOnChain' = settledOnChain \cup {process[p].c}
        /\ Becomes(p, [process[p] EXCEPT !.pc = "row"]) \/ Ends(p)
     \/ Ends(p) /\ UNCHANGED settledOnChain
  /\ UNCHANGED <<registryVars, rank, address, best, winner, snapshots,
                 settledTwice, overlapped, rolledBack>>

(* Mutant: only runs of settled challenges count.                           *)
SettledRuns(a) == Cardinality({c \in Challenges : a \in Entrants[c] /\ winner[c] # None})

(* The runs of the agent with a terminal status, of whatever challenge.     *)
TerminalRuns(a) == Cardinality({c \in Challenges : a \in Entrants[c] /\ best[c] # None})

(* The challenge row is written, not committed: the row lock keeps another  *)
(* settlement of c waiting.  Then the runs are read.                        *)
ReadRuns(p) ==
  /\ At(p, "row")
  /\ LET c == process[p].c
         others == {q \in Processes : Ranking(q) /\ q # p}
     IN /\ \A q \in others : process[q].c # c
        /\ Becomes(p, [process[p] EXCEPT !.pc = "wins",
             !.total = [a \in AgentIds |->
                          IF a \in Entrants[c] THEN TerminalRuns(a) ELSE 0]])
        /\ overlapped' = (overlapped \/ \E q \in others :
                            Entrants[c] \cap Entrants[process[q].c] # {})
  /\ UNCHANGED <<registryVars, rank, address, best, settledOnChain, winner,
                 snapshots, settledTwice, rolledBack>>

(* Mutant: the wins of the agent's first snapshot.                          *)
FirstWins(a) == IF snapshots[a] = <<>> THEN 0 ELSE Head(snapshots[a]).wins

(* _get_latest_wins_batch: the snapshot with the largest id, else 0.        *)
LatestWins(a) ==
  IF snapshots[a] = <<>> THEN 0 ELSE snapshots[a][Len(snapshots[a])].wins

ReadWins(p) ==
  /\ At(p, "wins")
  /\ LET c == process[p].c
     IN Becomes(p, [process[p] EXCEPT !.pc = "rank", !.todo = Entrants[c],
          !.prev = [a \in AgentIds |-> IF a \in Entrants[c] THEN LatestWins(a) ELSE 0]])
  /\ UNCHANGED <<registryVars, rank, address, best, settledOnChain, winner,
                 snapshots, settledTwice, overlapped, rolledBack>>

-----------------------------------------------------------------------------
(* Mutant: every agent of the challenge is given the win.                   *)
WinForAll(p, a) == process[p].prev[a] + 1

(* _compute_rank.                                                           *)
Wins(p, a) ==
  process[p].prev[a] + (IF a = best[process[p].c] THEN 1 ELSE 0)

Confidence(total) == IF total * 10 > 100 THEN 100 ELSE total * 10

(* The weights are hundredths, so this is the score the chain is sent: a    *)
(* hundred times the percentage.                                            *)
Score(wins, total, avg_eq, consistency) ==
  (3500 * wins) \div total + 30 * avg_eq + 20 * consistency
    + 15 * Confidence(total)

(* What the update of an agent sends.  losses is total - wins: the client   *)
(* cannot encode it below 0.                                                *)
SendsRank(p, a, quality, consistency) ==
  LET wins == Wins(p, a)
      total == process[p].total[a]
  IN /\ wins <= total
     /\ UpdateAgentRank(Authority, a, Authority,
                        Score(wins, total, quality, consistency), wins)

(* Mutant: a failed update leaves no artifact.                              *)
NotRecorded(p, a) == process[p].failed

Recorded(p, a) == process[p].failed \cup {a}

(* One turn of the loop over the agents, in any order.  Hosted agents get   *)
(* their snapshot only.  Without an address, or if the update fails or its  *)
(* answer is lost, there is an artifact for the operator, and on it goes.   *)
RankAgent(p, a) ==
  /\ At(p, "rank")
  /\ a \in process[p].todo
  /\ LET ranked == [process[p] EXCEPT !.todo = @ \ {a}]
     IN \/ /\ a \in address
           /\ \E quality, consistency \in Qualities :
                SendsRank(p, a, quality, consistency)
           /\ \/ Becomes(p, ranked)
              \/ Becomes(p, [ranked EXCEPT !.failed = Recorded(p, a)])
        \/ /\ Becomes(p, IF a \in Hosted
                         THEN ranked
                         ELSE [ranked EXCEPT !.failed = Recorded(p, a)])
           /\ UNCHANGED <<registryVars, rank>>
  /\ UNCHANGED <<address, best, settledOnChain, winner, snapshots, settledTwice,
                 overlapped, rolledBack>>

(* Mutant: the runs are left out of the snapshot.                           *)
SnapshotWithoutRuns(p, a) ==
  [wins |-> Wins(p, a), total |-> None, sync_failed |-> a \in process[p].failed]

NewSnapshot(p, a) ==
  [wins |-> Wins(p, a), total |-> process[p].total[a],
   sync_failed |-> a \in process[p].failed]

(* The one commit.  Nothing checks again that the row was not settled since *)
(* Settle, which only the program does for local challenges.  Snapshot ids  *)
(* are taken in its flush: their order is that of the commits but for       *)
(* settlements that overlap.                                                *)
Commit(p) ==
  /\ At(p, "rank")
  /\ process[p].todo = {}
  /\ LET c == process[p].c
     IN /\ winner' = [winner EXCEPT ![c] = best[c]]
        /\ snapshots' = [a \in AgentIds |->
             IF a \in Entrants[c] THEN Append(snapshots[a], NewSnapshot(p, a))
                                  ELSE snapshots[a]]
        /\ settledTwice' = settledTwice \cup (IF winner[c] = None THEN {} ELSE {c})
  /\ Ends(p)
  /\ UNCHANGED <<registryVars, rank, address, best, settledOnChain, overlapped,
                 rolledBack>>

(* The process dies, is cancelled, or its transaction fails.                *)
Crash(p) ==
  /\ ~At(p, "idle")
  /\ Ends(p)
  /\ rolledBack' = (rolledBack \/ Ranking(p))
  /\ UNCHANGED <<registryVars, rank, address, best, settledOnChain, winner,
                 snapshots, settledTwice, overlapped>>

RankingsNext ==
  \/ \E c \in Challenges, a \in AgentIds : RunsEnd(c, a)
  \/ \E p \in Processes :
       \/ \E c \in Challenges : Settle(p, c)
       \/ SettleCall(p) \/ ReadRuns(p) \/ ReadWins(p)
       \/ \E a \in AgentIds : RankAgent(p, a)
       \/ Commit(p) \/ Crash(p)

RankingsSpec == RankingsInit /\ [][RankingsNext]_rankingsVars

-----------------------------------------------------------------------------
(* Properties.                                                              *)

RankingsTypeOK ==
  /\ RankTypeOK
  /\ address \subseteq AgentIds \ Hosted
  /\ best \in [Challenges -> OptionOf(AgentIds)]
  /\ settledOnChain \subseteq Challenges
  /\ winner \in [Challenges -> OptionOf(AgentIds)]
  /\ snapshots \in [AgentIds -> Seq(Snapshot)]
  /\ process \in [Processes -> Process]
  /\ settledTwice \subseteq Challenges
  /\ overlapped \in BOOLEAN
  /\ rolledBack \in BOOLEAN

(* The challenges an agent won, and whether one of them was settled twice.  *)
Won(a) == Cardinality({c \in Challenges : winner[c] = a})
WonTwice(a) == \E c \in settledTwice : winner[c] = a

(* No win is made up, whatever settlements overlap, repeat or die between   *)
(* the chain and the commit: no snapshot of an agent counts more wins than  *)
(* the challenges it won, and its rank account none that the program did    *)
(* not settle in its favour.  Only a hosted challenge, which the program    *)
(* does not see, may be settled twice, and then the count of its winner is  *)
(* exempt (EachWinOnce).                                                    *)
WinsEarned ==
  \A a \in AgentIds :
    /\ WonTwice(a) => a \in Hosted
    /\ ~WonTwice(a) => \A i \in DOMAIN snapshots[a] : snapshots[a][i].wins <= Won(a)
    /\ rank[a].wins <= Cardinality({c \in settledOnChain : best[c] = a})

(* settlement_service.py:67 says "Idempotency - reject already-settled      *)
(* challenges", so that a challenge counts as one win of its winner.        *)
EachWinOnce ==
  \A a \in AgentIds :
    \A i \in DOMAIN snapshots[a] : snapshots[a][i].wins <= Won(a)

(* No win is lost unless two settlements with an agent in common read the   *)
(* latest snapshot before either commits: an agent none of whose challenges *)
(* was settled twice has as many wins on record as challenges won, whatever *)
(* settlements die.                                                         *)
WinsExact ==
  ~overlapped =>
    \A a \in AgentIds : ~WonTwice(a) => LatestWins(a) = Won(a)

(* A rank account that is not what the agent's latest snapshot says is      *)
(* reported by a rank_sync_failed artifact, if no settlement overlapped     *)
(* another or died while it sent its updates.                               *)
RanksInStep ==
  ~overlapped /\ ~rolledBack /\ (\A p \in Processes : ~Ranking(p)) =>
    \A a \in AgentIds \ Hosted :
      \/ rank[a].wins = LatestWins(a)
      \/ snapshots[a][Len(snapshots[a])].sync_failed

(* What the settlement of a local challenge computes is what the program    *)
(* accepts, as long as no two settlements with an agent in common ranked at *)
(* once: no more wins than runs, so that losses fit their unsigned field,   *)
(* and a score within MAX_SCORE.  The runs are read before the wins, so an  *)
(* overlap can break it.                                                    *)
UpdatesAcceptable ==
  ~overlapped =>
    \A p \in Processes :
      At(p, "rank") /\ IsLocal(process[p].c) =>
        \A a \in process[p].todo :
          LET wins == Wins(p, a)
              total == process[p].total[a]
          IN /\ wins <= total
             /\ \A quality, consistency \in Qualities :
                  ValidScore(Score(wins, total, quality, consistency))
=============================================================================
