----------------------------- MODULE SettleLoop -----------------------------
(***************************************************************************)
(* The body of settle_challenge::handler (settle_challenge.rs:25-110), one  *)
(* remaining account per step: what it rejects, what it skips, how it keeps *)
(* the best run so far, and the cardinality check at the end.  AgentArena   *)
(* takes the whole handler as one action that settles by SettlementRule;    *)
(* here the loop is shown to compute that rule for every list.              *)
(***************************************************************************)
EXTENDS SettlementRule

CONSTANTS
  Agents,           \* agent identifiers
  ChallengeIds,     \* challenge identifiers
  ThisChallenge,    \* the challenge being settled
  Capacity,         \* length of seen_agents (32)
  InputLists,       \* the account lists a caller may pass
  EnrolledCounts    \* values of challenge.num_enrolled

(* What remaining_accounts may hold: an account of another program, or a    *)
(* RunAccount of this one.                                                  *)
Account ==
  [owned        : BOOLEAN,
   challenge_id : ChallengeIds,
   agent_id     : Agents,
   completion   : OptionOf(CompletionStatuses),
   ending_usdc  : OptionOf(Nat),
   ended_at     : OptionOf(Nat)]

ASSUME AgentsAssumption == None \notin Agents
ASSUME ThisChallengeAssumption == ThisChallenge \in ChallengeIds
ASSUME CapacityAssumption == Capacity \in Nat /\ Capacity < 255
ASSUME InputsAssumption == InputLists \subseteq Seq(Account)
ASSUME CountsAssumption == EnrolledCounts \subseteq 0..Capacity

VARIABLES
  accounts,      \* remaining_accounts
  num_enrolled,  \* challenge.num_enrolled
  i,             \* accounts already examined
  winner,        \* index of the best run so far, 0 for none
  seen_agents,   \* the agents in seen_agents[..seen_count]
  seen_count,
  verdict,       \* "looping", "rejected" or "settled"
  result         \* challenge.winner_agent_id once settled

vars == <<accounts, num_enrolled, i, winner, seen_agents, seen_count, verdict, result>>

Init ==
  /\ accounts \in InputLists
  /\ num_enrolled \in EnrolledCounts
  /\ i = 0
  /\ winner = 0
  /\ seen_agents = {}
  /\ seen_count = 0
  /\ verdict = "looping"
  /\ result = None

Current == accounts[i + 1]

(* Mutant: the agents already seen are not looked at.                       *)
AcceptableTwice(r) ==
  /\ r.owned /\ r.challenge_id = ThisChallenge
  /\ seen_count < Capacity

(* The require!s on one account.  The u8 count of valid runs is the number  *)
(* of agents seen.                                                          *)
Acceptable(r) ==
  /\ r.owned
  /\ r.challenge_id = ThisChallenge
  /\ r.agent_id \notin seen_agents
  /\ seen_count < Capacity

Better(r) ==
  \/ winner = 0
  \/ Beats(r, accounts[winner])

(* One turn of the loop: count the run, then skip it or compare it.         *)
Examine ==
  /\ verdict = "looping"
  /\ i < Len(accounts)
  /\ Acceptable(Current)
  /\ seen_agents' = seen_agents \cup {Current.agent_id}
  /\ seen_count' = seen_count + 1
  /\ winner' = IF Eligible(Current) /\ Better(Current) THEN i + 1 ELSE winner
  /\ i' = i + 1
  /\ UNCHANGED <<accounts, num_enrolled, verdict, result>>

RejectAccount ==
  /\ verdict = "looping"
  /\ i < Len(accounts)
  /\ ~Acceptable(Current)
  /\ verdict' = "rejected"
  /\ UNCHANGED <<accounts, num_enrolled, i, winner, seen_agents, seen_count, result>>

RejectCount ==
  /\ verdict = "looping"
  /\ i = Len(accounts)
  /\ seen_count # num_enrolled
  /\ verdict' = "rejected"
  /\ UNCHANGED <<accounts, num_enrolled, i, winner, seen_agents, seen_count, result>>

Settle ==
  /\ verdict = "looping"
  /\ i = Len(accounts)
  /\ seen_count = num_enrolled
  /\ verdict' = "settled"
  /\ result' = IF winner = 0 THEN None ELSE accounts[winner].agent_id
  /\ UNCHANGED <<accounts, num_enrolled, i, winner, seen_agents, seen_count>>

Next == Examine \/ RejectAccount \/ RejectCount \/ Settle

Spec == Init /\ [][Next]_vars

-----------------------------------------------------------------------------
(* What the caller has to pass: this challenge's runs, each agent once, as  *)
(* many as are enrolled.                                                    *)
ListOK ==
  /\ \A k \in DOMAIN accounts :
       /\ accounts[k].owned
       /\ accounts[k].challenge_id = ThisChallenge
  /\ \A k, m \in DOMAIN accounts :
       accounts[k].agent_id = accounts[m].agent_id => k = m
  /\ Len(accounts) = num_enrolled

(* The loop's variables summarize the accounts examined so far: the agents  *)
(* seen are theirs, none twice, and the winner kept is an eligible run that *)
(* no other eligible one beats, the first of those that tie.                *)
LoopInvariant ==
  /\ i \in 0..Len(accounts)
  /\ seen_count = i
  /\ seen_agents = {accounts[k].agent_id : k \in 1..i}
  /\ \A k \in 1..i :
       accounts[k].owned /\ accounts[k].challenge_id = ThisChallenge
  /\ \A k, m \in 1..i : accounts[k].agent_id = accounts[m].agent_id => k = m
  /\ winner \in 0..i
  /\ winner = 0 => \A k \in 1..i : ~Eligible(accounts[k])
  /\ winner # 0 =>
       /\ Eligible(accounts[winner])
       /\ \A k \in 1..i :
            Eligible(accounts[k]) =>
              /\ ~Beats(accounts[k], accounts[winner])
              /\ k < winner => Beats(accounts[winner], accounts[k])

(* A settlement records exactly the winner of the whole list, ties between  *)
(* equal balances and times going to the account listed first, and only for *)
(* a list that has every enrolled run once.                                 *)
SettledByRule ==
  verdict = "settled" => ListOK /\ IsWinner(accounts, result)

(* The handler rejects no list it should settle.                            *)
RejectsOnlyBadLists == verdict = "rejected" => ~ListOK
=============================================================================
