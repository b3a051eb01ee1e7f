----------------------------- MODULE AgentArena -----------------------------
(***************************************************************************)
(* Challenges and runs of the Anchor program programs/agent_arena: the      *)
(* instructions create_challenge, create_run, start_challenge, finalize_run *)
(* and settle_challenge over the registry, each one atomic action.          *)
(*                                                                          *)
(* Left out: argument checks on data no other instruction reads (slippage,  *)
(* budgets), byte layouts, rent, events and log hashes.                     *)
(***************************************************************************)
EXTENDS Registry, SettlementRule, FiniteSets

CONSTANTS
  Challenges,      \* challenge identifiers (PDA seeds)
  MaxContestants,  \* constants.rs MAX_CONTESTANTS (32)
  Balances,        \* ending balances a finalize_run may report
  Completions,     \* completion statuses a finalize_run may report
  MaxTime          \* bound on the cluster clock

ASSUME LimitAssumption == MaxContestants \in Nat /\ MaxContestants < 255
ASSUME BalancesAssumption == Balances \subseteq Nat
ASSUME CompletionsAssumption == Completions \subseteq CompletionStatuses
ASSUME TimeAssumption == MaxTime \in Nat

VARIABLES
  challenge,   \* ChallengeAccount of each challenge id
  run,         \* RunAccount of each challenge id and agent id
  now          \* Clock::unix_timestamp

vars == <<admin, strategies, challenge, run, now>>

-----------------------------------------------------------------------------
(* Accounts.  A PDA that was never initialized has status "absent".         *)

ChallengeStatuses ==
  {"absent", "pending", "active", "settling", "completed"}

RunStatuses == {"absent", "pending", "completed"}

ChallengeAccount ==
  [authority       : OptionOf(Signers),
   status          : ChallengeStatuses,
   num_contestants : Nat,
   num_enrolled    : Nat,
   num_finalized   : Nat,
   winner_agent_id : OptionOf(AgentIds),
   started_at      : OptionOf(Nat),
   ended_at        : OptionOf(Nat)]

RunAccount ==
  [status      : RunStatuses,
   agent_id    : AgentIds,
   completion  : OptionOf(CompletionStatuses),
   ending_usdc : OptionOf(Nat),
   ended_at    : OptionOf(Nat)]

NoChallenge ==
  [authority |-> None, status |-> "absent", num_contestants |-> 0,
   num_enrolled |-> 0, num_finalized |-> 0, winner_agent_id |-> None,
   started_at |-> None, ended_at |-> None]

(* Mutant: create_run leaves agent_id at its zero default.                  *)
RunWithoutAgent(st, a) ==
  [status |-> st, agent_id |-> 0, completion |-> None,
   ending_usdc |-> None, ended_at |-> None]

RunWithStatus(st, a) ==
  [status |-> st, agent_id |-> a, completion |-> None,
   ending_usdc |-> None, ended_at |-> None]

Enrolled(c)  == {a \in AgentIds : run[c][a].status # "absent"}
Finalized(c) == {a \in AgentIds : run[c][a].status = "completed"}

-----------------------------------------------------------------------------
Init ==
  /\ RegistryInit
  /\ challenge = [c \in Challenges |-> NoChallenge]
  /\ run = [c \in Challenges |-> [a \in AgentIds |-> RunWithStatus("absent", a)]]
  /\ now = 0

CreateChallenge(s, c, n) ==
  /\ challenge[c].status = "absent"
  /\ IsAdmin(s)
  /\ n > 0 /\ n <= MaxContestants
  /\ challenge' = [challenge EXCEPT ![c] =
       [NoChallenge EXCEPT !.authority = s, !.status = "pending",
                           !.num_contestants = n]]
  /\ UNCHANGED <<admin, strategies, run, now>>

(* Mutant: the declared number of contestants does not limit enrollment.    *)
CanEnrollPastLimit(ch) == ch.status \in {"pending", "active"}

(* One run per contestant slot, until the challenge leaves active.          *)
CanEnroll(ch) ==
  /\ ch.status \in {"pending", "active"}
  /\ ch.num_enrolled < ch.num_contestants

CreateRun(s, c, a) ==
  /\ run[c][a].status = "absent"
  /\ challenge[c].authority = s
  /\ CanEnroll(challenge[c])
  /\ \E o \in Signers : Registered(o, a)
  /\ challenge' = [challenge EXCEPT ![c].num_enrolled = @ + 1]
  /\ run' = [run EXCEPT ![c][a] = RunWithStatus("pending", a)]
  /\ UNCHANGED <<admin, strategies, now>>

StartChallenge(s, c) ==
  /\ challenge[c].authority = s
  /\ challenge[c].status = "pending"
  /\ challenge[c].num_enrolled = challenge[c].num_contestants
  /\ challenge' = [challenge EXCEPT ![c].status = "active", ![c].started_at = now]
  /\ UNCHANGED <<admin, strategies, run, now>>

(* Mutants: a run may be finalized again; the challenge moves to settling   *)
(* when the runs enrolled so far, not the declared contestants, are in, or  *)
(* one run too late.                                                        *)
FinalizableTwice(r) == r.status # "absent"
StatusAfterEnrolledIn(ch) ==
  IF ch.num_finalized = ch.num_enrolled THEN "settling" ELSE ch.status

StatusAfterOneMore(ch) ==
  IF ch.num_finalized > ch.num_contestants THEN "settling" ELSE ch.status

Finalizable(r) == r.status = "pending"

StatusAfterFinalize(ch) ==
  IF ch.num_finalized = ch.num_contestants THEN "settling" ELSE ch.status

(* The status of the challenge is not consulted: a run can be finalized     *)
(* before the challenge was started.                                        *)
FinalizeRun(s, c, a, usdc, completion) ==
  /\ Finalizable(run[c][a])
  /\ challenge[c].authority = s
  /\ run' = [run EXCEPT ![c][a] =
       [status |-> "completed", agent_id |-> a, completion |-> completion,
        ending_usdc |-> usdc, ended_at |-> now]]
  /\ LET ch == [challenge[c] EXCEPT !.num_finalized = @ + 1]
     IN challenge' = [challenge EXCEPT ![c] =
                        [ch EXCEPT !.status = StatusAfterFinalize(ch)]]
  /\ UNCHANGED <<admin, strategies, now>>

(* remaining_accounts: what the caller lists, in the caller's order.        *)
AccountLists == UNION {[1..n -> Challenges \X AgentIds] : n \in 0..MaxContestants}

(* Mutants: an account may be listed twice; or may be a run of another      *)
(* challenge.                                                               *)
AdmissibleWithRepeats(c, accounts) ==
  /\ Len(accounts) = challenge[c].num_enrolled
  /\ \A i \in DOMAIN accounts :
       /\ run[accounts[i][1]][accounts[i][2]].status # "absent"
       /\ accounts[i][1] = c

AdmissibleFromAnywhere(c, accounts) ==
  /\ Len(accounts) = challenge[c].num_enrolled
  /\ \A i, j \in DOMAIN accounts :
       /\ run[accounts[i][1]][accounts[i][2]].status # "absent"
       /\ j < i => accounts[j][2] # accounts[i][2]

(* Every account is a RunAccount of this challenge, no agent appears twice, *)
(* and there are as many as runs were created.                              *)
Admissible(c, accounts) ==
  /\ \A i \in DOMAIN accounts :
       /\ run[accounts[i][1]][accounts[i][2]].status # "absent"
       /\ accounts[i][1] = c
       /\ \A j \in DOMAIN accounts : j < i => accounts[j][2] # accounts[i][2]
  /\ Len(accounts) = challenge[c].num_enrolled

RunsListed(accounts) ==
  [i \in DOMAIN accounts |-> run[accounts[i][1]][accounts[i][2]]]

(* What the instruction asks of its signer and accounts, and of the winner  *)
(* it computes.                                                             *)
Settleable(s, c, accounts, w) ==
  /\ challenge[c].authority = s
  /\ challenge[c].status = "settling"
  /\ Admissible(c, accounts)
  /\ IsWinner(RunsListed(accounts), w)

SettleChallenge(s, c, accounts, w) ==
  /\ Settleable(s, c, accounts, w)
  /\ challenge' = [challenge EXCEPT ![c].winner_agent_id = w,
                                    ![c].status = "completed",
                                    ![c].ended_at = now]
  /\ UNCHANGED <<admin, strategies, run, now>>

Tick ==
  /\ now < MaxTime
  /\ now' = now + 1
  /\ UNCHANGED <<admin, strategies, challenge, run>>

Next ==
  \/ Tick
  \/ RegistryNext /\ UNCHANGED <<challenge, run, now>>
  \/ \E s \in Signers, c \in Challenges :
       \/ \E n \in 1..MaxContestants : CreateChallenge(s, c, n)
       \/ StartChallenge(s, c)
       \/ \E a \in AgentIds :
            \/ CreateRun(s, c, a)
            \/ \E usdc \in Balances, completion \in Completions :
                 FinalizeRun(s, c, a, usdc, completion)
       \/ \E accounts \in AccountLists, w \in OptionOf(AgentIds) :
            SettleChallenge(s, c, accounts, w)

Spec == Init /\ [][Next]_vars

-----------------------------------------------------------------------------
(* Properties.                                                              *)

TypeOK ==
  /\ RegistryTypeOK
  /\ challenge \in [Challenges -> ChallengeAccount]
  /\ run \in [Challenges -> [AgentIds -> RunAccount]]
  /\ now \in Nat

(* The two u8 counters of a challenge, incremented by create_run and        *)
(* finalize_run, count the run accounts that exist and those finalized, and *)
(* stay within the declared number of contestants: the checked_adds cannot  *)
(* overflow.                                                                *)
CountersMatchRuns ==
  \A c \in Challenges :
    /\ IsFiniteSet(Enrolled(c))
    /\ challenge[c].num_enrolled = Cardinality(Enrolled(c))
    /\ challenge[c].num_finalized = Cardinality(Finalized(c))
    /\ challenge[c].num_enrolled <= challenge[c].num_contestants
    /\ challenge[c].num_contestants <= MaxContestants

(* A challenge is up for settlement, or settled, exactly when every slot it *)
(* declared was enrolled and every run was finalized, although finalize_run *)
(* never looks at the challenge's status.                                   *)
SettlingMeansAllIn ==
  \A c \in Challenges :
    challenge[c].status \in {"settling", "completed"} <=>
      /\ challenge[c].status # "absent"
      /\ Cardinality(Finalized(c)) = challenge[c].num_contestants
      /\ Finalized(c) = Enrolled(c)

(* The recorded winner is the best of ALL the runs of the challenge, not    *)
(* only of those the caller of settle_challenge listed: a Complete run that *)
(* no other Complete run beats; none is recorded only if no run qualifies.  *)
WinnerIsBest ==
  \A c \in Challenges :
    LET w == challenge[c].winner_agent_id
    IN challenge[c].status = "completed" =>
         \/ /\ w = None
            /\ \A a \in Enrolled(c) : ~Eligible(run[c][a])
         \/ /\ w \in Enrolled(c) /\ Eligible(run[c][w])
            /\ \A a \in Enrolled(c) :
                 Eligible(run[c][a]) => ~Beats(run[c][a], run[c][w])

(* Nothing about a settled challenge changes again: neither its account nor *)
(* any of its runs; and a finalized run keeps its result whatever happens.  *)
SettlementIsFinal ==
  [][\A c \in Challenges :
       /\ challenge[c].status = "completed" =>
            challenge'[c] = challenge[c] /\ run'[c] = run[c]
       /\ \A a \in AgentIds :
            run[c][a].status = "completed" => run'[c][a] = run[c][a]]_vars

(* No challenge that was started can be stranded: while active it has a run *)
(* left to finalize, and once all are in there is an account list with      *)
(* which its authority can settle it. SettleChallenge is enabled exactly    *)
(* where Settleable holds: the rest of it assigns.                          *)
NeverStranded ==
  \A c \in Challenges :
    /\ challenge[c].status = "active" =>
         \E a \in AgentIds : Finalizable(run[c][a])
    /\ challenge[c].status = "settling" =>
         \E s \in Signers, accounts \in AccountLists, w \in OptionOf(AgentIds) :
           Settleable(s, c, accounts, w)

(* The program implements a contest: quota is the declared number of        *)
(* contestants, a result is recorded by finalize_run and the decision taken *)
(* by settle_challenge.                                                     *)
ResultOf(r) ==
  IF r.status = "completed"
  THEN [completion |-> r.completion, ending_usdc |-> r.ending_usdc,
        ended_at |-> r.ended_at]
  ELSE None

quotaBar == [c \in Challenges |-> challenge[c].num_contestants]
resultBar == [c \in Challenges |-> [a \in AgentIds |-> ResultOf(run[c][a])]]
decisionBar ==
  [c \in Challenges |->
     IF challenge[c].status = "completed" THEN {challenge[c].winner_agent_id} ELSE {}]

Contest == INSTANCE Contest WITH
  Contests <- Challenges, Contestants <- AgentIds,
  quota <- quotaBar, result <- resultBar, decision <- decisionBar

(* Every instruction either leaves the contest alone or is one step of it:  *)
(* results are write-once, the decision comes after all of them and stands. *)
ImplementsContest == Contest!ContestSpec
=============================================================================
