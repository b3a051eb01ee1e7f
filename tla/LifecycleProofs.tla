-------------------------- MODULE LifecycleProofs ---------------------------
(***************************************************************************)
(* Why Postgres and the chain agree on a challenge, for any challenges,     *)
(* agents, balances and number of requests served at once: one inductive    *)
(* invariant that says what each request under way, and the script, know of *)
(* the two stores at every step between their calls and their commits.      *)
(***************************************************************************)
EXTENDS Lifecycle, AgentArenaProofs

(* What a request is doing.                                                 *)
CreateSteps == {"create_call", "create_commit", "create_run", "run_call", "run_commit"}
StartSteps  == {"start_call", "start_commit"}
RunSteps    == {"loop", "finalize_call", "finalize_commit"}
SettleSteps == {"settle_call", "settle_commit"}

(* A request whose call took effect and that has still to commit it: of all *)
(* requests, the one that owes Postgres a change of the chain.              *)
Answered(r, pc) == r.pc = pc /\ r.answered

AnsweredFor(r, pc, c) == Answered(r, pc) /\ r.c = c

-----------------------------------------------------------------------------
(* The invariant.                                                           *)

(* The progress of a request is one its steps can be in.                    *)
RequestShape(r) ==
  /\ r.pc # "idle" => r.c \in Challenges
  /\ r.pc \in {"run_call", "run_commit"} \cup RunSteps => r.todo # <<>>
  /\ r.pc \in {"finalize_call", "finalize_commit"} =>
       /\ r.result \in Result
       /\ r.result.ending_usdc \in Balances /\ r.result.completion \in Completions
  /\ r.pc \in SettleSteps => r.winner \in AgentIds

(* The list a settlement sends and the winner it will commit: rows that are *)
(* final, none of which beats the winner's.                                 *)
SettlementPlan(r) ==
  /\ \A i \in DOMAIN r.todo :
       /\ runRow[r.c][r.todo[i]].status = "completed"
       /\ Eligible(runRow[r.c][r.todo[i]]) =>
            ~Beats(runRow[r.c][r.todo[i]], runRow[r.c][r.winner])
  /\ \E i \in DOMAIN r.todo : r.todo[i] = r.winner
  /\ Eligible(runRow[r.c][r.winner])

(* What the chain made of a run agrees with what is (to be) committed.      *)
Agrees(onchain, result) ==
  /\ result.completion = onchain.completion
  /\ result.ending_usdc = onchain.ending_usdc

(* w did no worse than the winner on chain.                                 *)
TiesOnChain(c, w) ==
  /\ challenge[c].winner_agent_id # None
  /\ Eligible(run[c][w])
  /\ run[c][w].ending_usdc = run[c][challenge[c].winner_agent_id].ending_usdc

(* What a request can rely on between two of its steps.                     *)
RequestInv(r) ==
  /\ r.pc \in {"create_call", "create_commit"} => ~HasRow(r.c)
  /\ r.pc \in {"create_run", "run_call", "run_commit"} \cup StartSteps =>
       challengeRow[r.c].onchain_address
  /\ r.pc \in {"run_call", "run_commit"} => runRow[r.c][Head(r.todo)].status = "absent"
  /\ r.pc \in RunSteps => runRow[r.c][Head(r.todo)].status = "running"
  /\ r.pc \in {"loop", "finalize_call"} => run[r.c][Head(r.todo)].status # "completed"
  /\ r.pc = "finalize_commit" /\ run[r.c][Head(r.todo)].status = "completed" =>
       Agrees(run[r.c][Head(r.todo)], r.result)
  /\ r.pc \in SettleSteps => SettlementPlan(r)
  /\ Answered(r, "create_commit") => challenge[r.c].status # "absent" /\ Len(r.todo) > 0
  /\ Answered(r, "run_commit") => run[r.c][Head(r.todo)].status # "absent"
  /\ Answered(r, "start_commit") =>
       /\ challenge[r.c].status \notin {"absent", "pending"}
       /\ challenge[r.c].started_at # None
  /\ Answered(r, "settle_commit") =>
       /\ challenge[r.c].status = "completed"
       /\ TiesOnChain(r.c, r.winner)
       /\ challengeRow[r.c].winner_agent_id = None

(* What no two requests can be doing to the same challenge.                 *)
Clash(r, s) ==
  /\ r.c = s.c
  /\ \/ r.pc \in CreateSteps /\ s.pc \in CreateSteps
     \/ r.pc \in RunSteps /\ s.pc \in RunSteps /\ Head(r.todo) = Head(s.todo)
     \/ Answered(r, "start_commit") /\ Answered(s, "start_commit")
     \/ Answered(r, "settle_commit") /\ Answered(s, "settle_commit")

(* The row of a challenge against its account.                              *)
ChallengeRowInv(c) ==
  LET row == challengeRow[c]
  IN /\ row.onchain_address <=> row.status \notin {"absent", "onchain_failed"}
     /\ row.onchain_address => challenge[c].status # "absent" /\ row.num_contestants > 0
     /\ row.num_contestants <= MaxContestants
     /\ row.status = "active" => challenge[c].started_at # None
     /\ row.status = "completed" => challenge[c].status = "completed"
     /\ row.status = "absent" => row.winner_agent_id = None
     /\ row.winner_agent_id # None =>
          challenge[c].status = "completed" /\ TiesOnChain(c, row.winner_agent_id)
     /\ records[c] = IF row.winner_agent_id = None THEN 0 ELSE 1
     /\ challenge[c].status # "completed" => challenge[c].winner_agent_id = None

(* The row of a run against its account.                                    *)
RunRowInv(c, a) ==
  LET row == runRow[c][a]
  IN /\ row.agent_id = a
     /\ row.status # "absent" => challengeRow[c].onchain_address
     /\ row.onchain_address => row.status # "absent" /\ run[c][a].status # "absent"
     /\ row.status = "completed" =>
          /\ row.completion # None /\ row.ending_usdc # None /\ row.ended_at # None
          /\ run[c][a].status = "completed" => Agrees(run[c][a], row)

(* While no answer was lost and no request died, whatever the chain holds   *)
(* that the rows do not is owed by a request.                               *)
OwedInv(c) ==
  ~faulty =>
    /\ challenge[c].status # "absent" =>
         \/ challengeRow[c].onchain_address
         \/ \E q \in Requests : AnsweredFor(request[q], "create_commit", c)
    /\ challenge[c].started_at # None /\ challengeRow[c].status \in {"absent", "pending"} =>
         \E q \in Requests : AnsweredFor(request[q], "start_commit", c)
    /\ challenge[c].status = "completed" =>
         \/ challengeRow[c].winner_agent_id # None
         \/ \E q \in Requests : AnsweredFor(request[q], "settle_commit", c)
    /\ \A a \in AgentIds :
         run[c][a].status # "absent" =>
           \/ runRow[c][a].onchain_address
           \/ \E q \in Requests : AnsweredFor(request[q], "run_commit", c)
                                  /\ Head(request[q].todo) = a

BackendInv ==
  /\ IInv
  /\ BackendTypeOK
  /\ \A q \in Requests : RequestShape(request[q]) /\ RequestInv(request[q])
  /\ \A p, q \in Requests : p # q => ~Clash(request[p], request[q])
  /\ \A c \in Challenges : ChallengeRowInv(c) /\ OwedInv(c)
  /\ \A c \in Challenges, a \in AgentIds : RunRowInv(c, a)

(* A run is finalized on chain by the execution of its row only ...         *)
OnlyExecuted ==
  \A c \in Challenges, a \in AgentIds :
    runRow[c][a].status \notin {"running", "completed"} => run[c][a].status # "completed"

(* ... when nobody runs the script.                                         *)
UnusedInv == AtStep("unused") => OnlyExecuted

(* How far the script got.                                                  *)
AwaitingSteps == {"creating", "starting", "settling"}
SettledSteps == {"verify", "done"}
FinalizedSteps == {"settle", "settling", "verify", "done"}
StartedSteps == {"finalize", "finalize_failed", "settle", "settling", "verify", "done"}
CreatedSteps == {"start", "starting"} \cup StartedSteps

Ours == {Alpha, Beta}

(* The script's own progress.                                               *)
ScriptShape ==
  /\ script.todo \in {Both, <<Beta>>, <<>>}
  /\ script.todo = <<>> => script.pc \in {"finalize", "failed"}
  /\ script.pc \in {"create", "creating", "start", "starting"} => script.todo = Both
  /\ script.pc \in {"creating"} \cup CreatedSteps => script.c \in Challenges
  /\ script.pc \in AwaitingSteps => script.q \in Requests
  /\ script.pc \notin AwaitingSteps => script.q = None
  /\ script.pc \notin StartedSteps \cup {"failed"} =>
       \A a \in AgentIds : script.ended_at[a] = None

(* The request it awaits is the one it made.                                *)
AwaitedInv ==
  /\ script.pc \in AwaitingSteps => request[script.q].c = script.c
  /\ script.pc = "creating" => request[script.q].pc \in CreateSteps
  /\ script.pc = "starting" => request[script.q].pc \in StartSteps
  /\ script.pc = "settling" => request[script.q].pc \in SettleSteps

(* What a run the script finalized holds on chain, or its row.              *)
Ended(r, a) ==
  r.status = "completed" /\ r.completion = "complete" /\ r.ending_usdc = Ending(a)

(* Nobody executes runs, and creations are of the script's agents.          *)
OursAlone ==
  /\ \A q \in Requests :
       /\ request[q].pc \notin RunSteps
       /\ request[q].pc \in CreateSteps =>
            \A i \in DOMAIN request[q].todo : request[q].todo[i] \in Ours
  /\ \A c \in Challenges, a \in AgentIds : run[c][a].status # "absent" => a \in Ours

ActiveRegistered ==
  \A a \in AgentIds : agentStatus[a] = "active" => \E o \in Signers : Registered(o, a)

RegisteredInv ==
  AtStep("register_commit") => \E o \in Signers : Registered(o, Head(script.todo))

(* The creation is over, and nobody else creates runs of its challenge.     *)
CreatedInv ==
  script.pc \in CreatedSteps =>
    /\ challengeRow[script.c].onchain_address
    /\ \A q \in Requests : request[q].pc \in CreateSteps => request[q].c # script.c

(* The challenge was started, and no other start is left to commit: what    *)
(* the script goes on to write in its row stands.                           *)
StartedInv ==
  script.pc \in StartedSteps =>
    /\ challenge[script.c].status \notin {"absent", "pending"}
    /\ \A q \in Requests : ~AnsweredFor(request[q], "start_commit", script.c)

(* What it has still to commit of the runs it finalized is what they hold.  *)
FinalizingInv ==
  /\ script.pc \in {"finalize", "finalize_failed"} =>
       \A a \in AgentIds :
         script.ended_at[a] # None /\ StatusToCommit(a) = "completed" =>
           Ended(run[script.c][a], a)
  /\ AtStep("finalize") =>
       /\ script.todo # Both => script.ended_at[Alpha] # None
       /\ script.todo = <<>> => script.ended_at[Beta] # None

(* A row is completed by the script's commit alone, after the chain.        *)
CompletedInv ==
  \A c \in Challenges, a \in AgentIds :
    runRow[c][a].status = "completed" =>
      run[c][a].status = "completed" /\ script.pc \in FinalizedSteps \cup {"failed"}

FinalizedInv ==
  script.pc \in FinalizedSteps => \A a \in Ours : Ended(runRow[script.c][a], a)

SettledInv ==
  script.pc \in SettledSteps =>
    /\ challengeRow[script.c].status = "completed"
    /\ challengeRow[script.c].winner_agent_id # None

ScriptInv ==
  ~AtStep("unused") =>
    /\ OursAlone /\ ActiveRegistered /\ RegisteredInv /\ AwaitedInv
    /\ CreatedInv /\ StartedInv /\ FinalizingInv
    /\ CompletedInv /\ FinalizedInv /\ SettledInv

LifecycleInv ==
  /\ BackendInv
  /\ LifecycleTypeOK
  /\ ScriptShape
  /\ UnusedInv
  /\ ScriptInv
-----------------------------------------------------------------------------
(* Lists of contestants, and the shapes of rows.                            *)

LEMMA ListFacts ==
  ASSUME NEW l \in ContestantLists
  PROVE  /\ l \in Seq(AgentIds) /\ Len(l) \in Nat /\ Len(l) <= MaxContestants
         /\ DOMAIN l = 1..Len(l)
         /\ l # <<>> => Head(l) = l[1] /\ Head(l) \in AgentIds /\ Tail(l) \in ContestantLists
         /\ l # <<>> => \A i \in DOMAIN Tail(l) : i + 1 \in DOMAIN l /\ Tail(l)[i] = l[i + 1]
<1>1. PICK n \in 0..MaxContestants : l \in [1..n -> AgentIds]
  BY DEF ContestantLists
<1>2. n \in Nat /\ n <= MaxContestants
  BY <1>1, LimitAssumption
<1>3. l \in Seq(AgentIds) /\ Len(l) = n /\ DOMAIN l = 1..n
  BY <1>1, <1>2
<1>4. ASSUME l # <<>>
      PROVE  /\ Head(l) = l[1] /\ Head(l) \in AgentIds /\ Tail(l) \in ContestantLists
             /\ \A i \in DOMAIN Tail(l) : i + 1 \in DOMAIN l /\ Tail(l)[i] = l[i + 1]
  <2>1. n > 0 /\ n - 1 \in 0..MaxContestants
    BY <1>2, <1>3, <1>4, LimitAssumption
  <2>2. Tail(l) \in [1..(n - 1) -> AgentIds]
    <3>1. Tail(l) \in Seq(AgentIds) /\ Len(Tail(l)) = n - 1
      BY <1>3, <1>4
    <3>2. \A s \in Seq(AgentIds) : s \in [1..Len(s) -> AgentIds]
      OBVIOUS
    <3> QED BY <3>1, <3>2
  <2>3. Tail(l) \in ContestantLists
    BY <2>1, <2>2 DEF ContestantLists
  <2> QED BY <1>3, <1>4, <2>1, <2>2, <2>3
<1> QED BY <1>2, <1>3, <1>4

LEMMA ShortLists ==
  /\ <<>> \in ContestantLists
  /\ \A a \in AgentIds : <<a>> \in ContestantLists /\ <<a>> # <<>> /\ Head(<<a>>) = a
  /\ Both \in ContestantLists /\ Both # <<>> /\ Head(Both) = Alpha /\ Tail(Both) = <<Beta>>
  /\ Tail(<<Beta>>) = <<>>
  /\ \A i \in DOMAIN Both : Both[i] \in Ours
<1>1. 0 \in 0..MaxContestants /\ 1 \in 0..MaxContestants /\ 2 \in 0..MaxContestants
  BY LimitAssumption, ContestantsAssumption
<1>2. <<>> \in [1..0 -> AgentIds]
  OBVIOUS
<1>3. \A a \in AgentIds : <<a>> \in [1..1 -> AgentIds]
  OBVIOUS
<1>4. Both \in [1..2 -> AgentIds]
  BY AlphaBetaAssumption DEF Both
<1>5. /\ <<>> \in ContestantLists /\ Both \in ContestantLists
      /\ \A a \in AgentIds : <<a>> \in ContestantLists
  BY <1>1, <1>2, <1>3, <1>4 DEF ContestantLists
<1> QED BY <1>5 DEF Both, Ours

LEMMA NewRowTypes ==
  /\ NoChallengeRow \in ChallengeRow
  /\ \A a \in AgentIds, b \in BOOLEAN :
       \A st \in {"absent", "pending", "pending_onchain", "onchain_failed"} :
         NewRunRow(st, a, b) \in RunRow
  /\ Idle \in Request
<1>1. NoChallengeRow \in ChallengeRow
  BY DEF NoChallengeRow, ChallengeRow, OptionOf
<1>2. \A a \in AgentIds, b \in BOOLEAN :
       \A st \in {"absent", "pending", "pending_onchain", "onchain_failed"} :
         NewRunRow(st, a, b) \in RunRow
  BY DEF NewRunRow, RunRow, OptionOf
<1>3. Idle \in Request
  BY ShortLists DEF Idle, Request, Steps, OptionOf
<1> QED BY <1>1, <1>2, <1>3

LEMMA NoneIsNothing == None \notin AgentIds /\ None \notin Balances
BY NoneAssumption, AgentIdsAssumption, BalancesAssumption

-----------------------------------------------------------------------------
(* What any step leaves of the chain.                                       *)

Monotone ==
  \A c \in Challenges :
    /\ challenge[c].status # "absent" => challenge'[c].status # "absent"
    /\ challenge[c].status \notin {"absent", "pending"} =>
         challenge'[c].status \notin {"absent", "pending"}
    /\ challenge[c].started_at # None => challenge'[c].started_at # None
    /\ challenge[c].status = "completed" =>
         challenge'[c] = challenge[c] /\ run'[c] = run[c]
    /\ challenge'[c].status # "completed" /\ challenge[c].winner_agent_id = None =>
         challenge'[c].winner_agent_id = None
    /\ \A a \in AgentIds :
         /\ run[c][a].status # "absent" => run'[c][a].status # "absent"
         /\ run[c][a].status = "completed" => run'[c][a] = run[c][a]

LEMMA ChainMonotone ==
  ASSUME IInv, [Next]_vars
  PROVE  Monotone
<1>1. Frozen
  BY StepFrozen
<1> DEFINE Kept(c) ==
             /\ challenge[c].status # "absent" => challenge'[c].status # "absent"
             /\ challenge[c].status \notin {"absent", "pending"} =>
                  challenge'[c].status \notin {"absent", "pending"}
             /\ challenge[c].started_at # None => challenge'[c].started_at # None
             /\ challenge'[c].status # "completed" /\ challenge[c].winner_agent_id = None =>
                  challenge'[c].winner_agent_id = None
             /\ \A a \in AgentIds :
                  run[c][a].status # "absent" => run'[c][a].status # "absent"
<1> SUFFICES ASSUME NEW c \in Challenges PROVE Kept(c)
  BY <1>1 DEF Monotone, Frozen
<1>2. challenge \in [Challenges -> ChallengeAccount] /\ run \in [Challenges -> [AgentIds -> RunAccount]]
  BY DEF IInv, TypeOK
<1>3. CASE challenge'[c] = challenge[c] /\ run'[c] = run[c]
  BY <1>3
<1>4. CASE \/ Tick
           \/ RegistryNext /\ UNCHANGED <<challenge, run, now>>
           \/ UNCHANGED vars
  BY <1>3, <1>4 DEF Tick, vars
<1>5. ASSUME NEW s \in Signers, NEW n \in 1..MaxContestants, CreateChallenge(s, c, n)
      PROVE  Kept(c)
  <2>1. challenge[c] = NoChallenge
    BY <1>5 DEF CreateChallenge, IInv, StatusShapes, StatusShape
  <2>2. /\ challenge'[c].status = "pending" /\ challenge'[c].winner_agent_id = None
        /\ run' = run
    BY <1>2, <1>5, <2>1 DEF CreateChallenge, NoChallenge
  <2>3. challenge[c].started_at = None /\ challenge[c].status = "absent"
    BY <2>1 DEF NoChallenge
  <2> QED BY <2>2, <2>3
<1>6. ASSUME NEW s \in Signers, StartChallenge(s, c)
      PROVE  Kept(c)
  <2>1. /\ challenge'[c].status = "active" /\ challenge'[c].started_at = now
        /\ challenge'[c].winner_agent_id = challenge[c].winner_agent_id
        /\ run' = run
    BY <1>2, <1>6 DEF StartChallenge, ChallengeAccount
  <2>2. now # None
    BY NoneAssumption DEF IInv, TypeOK
  <2> QED BY <2>1, <2>2
<1>7. ASSUME NEW s \in Signers, NEW a \in AgentIds, CreateRun(s, c, a)
      PROVE  Kept(c)
  <2>1. /\ challenge'[c] = [challenge[c] EXCEPT !.num_enrolled = @ + 1]
        /\ run'[c] = [run[c] EXCEPT ![a] = RunWithStatus("pending", a)]
    BY <1>2, <1>7 DEF CreateRun
  <2>2. /\ challenge'[c].status = challenge[c].status
        /\ challenge'[c].started_at = challenge[c].started_at
        /\ challenge'[c].winner_agent_id = challenge[c].winner_agent_id
    BY <1>2, <2>1 DEF ChallengeAccount
  <2>3. RunWithStatus("pending", a).status = "pending"
    BY DEF RunWithStatus
  <2> QED BY <1>2, <2>1, <2>2, <2>3
<1>8. ASSUME NEW s \in Signers, NEW a \in AgentIds, NEW usdc \in Balances,
             NEW completion \in Completions, FinalizeRun(s, c, a, usdc, completion)
      PROVE  Kept(c)
  <2> DEFINE ch == [challenge[c] EXCEPT !.num_finalized = @ + 1]
  <2>1. /\ challenge'[c] = [ch EXCEPT !.status = StatusAfterFinalize(ch)]
        /\ run'[c] = [run[c] EXCEPT ![a] =
             [status |-> "completed", agent_id |-> a, completion |-> completion,
              ending_usdc |-> usdc, ended_at |-> now]]
    BY <1>2, <1>8 DEF FinalizeRun
  <2>2. /\ challenge'[c].status \in {challenge[c].status, "settling"}
        /\ challenge'[c].started_at = challenge[c].started_at
        /\ challenge'[c].winner_agent_id = challenge[c].winner_agent_id
    BY <1>2, <2>1 DEF ChallengeAccount, StatusAfterFinalize
  <2> QED BY <1>2, <2>1, <2>2
<1>9. ASSUME NEW s \in Signers, NEW accounts \in AccountLists, NEW w \in OptionOf(AgentIds),
             SettleChallenge(s, c, accounts, w)
      PROVE  Kept(c)
  <2>1. /\ challenge'[c].status = "completed"
        /\ challenge'[c].started_at = challenge[c].started_at
        /\ run' = run
    BY <1>2, <1>9 DEF SettleChallenge, Settleable, ChallengeAccount
  <2> QED BY <2>1
<1>10. CASE \E s \in Signers, d \in Challenges :
              \/ \E n \in 1..MaxContestants : CreateChallenge(s, d, n)
              \/ StartChallenge(s, d)
              \/ \E accounts \in AccountLists, w \in OptionOf(AgentIds) :
                   SettleChallenge(s, d, accounts, w)
  <2>1. CASE \E s \in Signers :
               \/ \E n \in 1..MaxContestants : CreateChallenge(s, c, n)
               \/ StartChallenge(s, c)
               \/ \E accounts \in AccountLists, w \in OptionOf(AgentIds) :
                    SettleChallenge(s, c, accounts, w)
    BY <1>5, <1>6, <1>9, <2>1
  <2>2. CASE \E s \in Signers, d \in Challenges \ {c} :
               \/ \E n \in 1..MaxContestants : CreateChallenge(s, d, n)
               \/ StartChallenge(s, d)
               \/ \E accounts \in AccountLists, w \in OptionOf(AgentIds) :
                    SettleChallenge(s, d, accounts, w)
    <3>1. challenge'[c] = challenge[c] /\ run'[c] = run[c]
      BY <1>2, <2>2, ZenonT(30) DEF CreateChallenge, StartChallenge, SettleChallenge, Settleable
    <3> QED BY <1>3, <3>1
  <2> QED BY <1>10, <2>1, <2>2
<1>11. CASE \E s \in Signers, d \in Challenges, a \in AgentIds :
              \/ CreateRun(s, d, a)
              \/ \E usdc \in Balances, completion \in Completions :
                   FinalizeRun(s, d, a, usdc, completion)
  <2>1. CASE \E s \in Signers, a \in AgentIds :
               \/ CreateRun(s, c, a)
               \/ \E usdc \in Balances, completion \in Completions :
                    FinalizeRun(s, c, a, usdc, completion)
    BY <1>7, <1>8, <2>1
  <2>2. CASE \E s \in Signers, d \in Challenges \ {c}, a \in AgentIds :
               \/ CreateRun(s, d, a)
               \/ \E usdc \in Balances, completion \in Completions :
                    FinalizeRun(s, d, a, usdc, completion)
    <3>1. challenge'[c] = challenge[c] /\ run'[c] = run[c]
      BY <1>2, <2>2 DEF CreateRun, FinalizeRun
    <3> QED BY <1>3, <3>1
  <2> QED BY <1>11, <2>1, <2>2
<1> HIDE DEF Kept
<1> QED BY <1>4, <1>10, <1>11 DEF Next

-----------------------------------------------------------------------------
(* What a step that leaves a request alone must leave to it.                *)

Undisturbed(r) ==
  /\ r.pc \in {"create_call", "create_commit"} =>
       challengeRow'[r.c].status = challengeRow[r.c].status
  /\ challengeRow[r.c].onchain_address => challengeRow'[r.c].onchain_address
  /\ r.pc \in {"run_call", "run_commit"} \cup RunSteps =>
       runRow'[r.c][Head(r.todo)].status = runRow[r.c][Head(r.todo)].status
  /\ r.pc \in RunSteps /\ run'[r.c][Head(r.todo)].status = "completed" =>
       run[r.c][Head(r.todo)].status = "completed"
  /\ \A a \in AgentIds :
       runRow[r.c][a].status = "completed" => runRow'[r.c][a] = runRow[r.c][a]
  /\ Answered(r, "settle_commit") =>
       challengeRow'[r.c].winner_agent_id = challengeRow[r.c].winner_agent_id

LEMMA PlanKept ==
  ASSUME NEW r \in Request, r.c \in Challenges, r.winner \in AgentIds, SettlementPlan(r),
         \A a \in AgentIds :
           runRow[r.c][a].status = "completed" => runRow'[r.c][a] = runRow[r.c][a]
  PROVE  SettlementPlan(r)'
<1>1. r.todo \in ContestantLists
  BY DEF Request
<1>2. \A i \in DOMAIN r.todo : r.todo[i] \in AgentIds
  BY <1>1, ListFacts
<1>3. \A i \in DOMAIN r.todo : runRow'[r.c][r.todo[i]] = runRow[r.c][r.todo[i]]
  BY <1>2 DEF SettlementPlan
<1>4. runRow'[r.c][r.winner] = runRow[r.c][r.winner]
  BY <1>3 DEF SettlementPlan
<1> QED BY <1>3, <1>4 DEF SettlementPlan

LEMMA TieKept ==
  ASSUME Monotone, NEW c \in Challenges, NEW w, challenge[c].status = "completed",
         TiesOnChain(c, w)
  PROVE  TiesOnChain(c, w)'
BY DEF Monotone, TiesOnChain

LEMMA RequestKept ==
  ASSUME BackendInv, Monotone, NEW p \in Requests, request'[p] = request[p],
         request[p].pc # "idle" => Undisturbed(request[p])
  PROVE  RequestShape(request[p])' /\ RequestInv(request[p])'
<1> DEFINE r == request[p]
<1>1. r \in Request /\ RequestShape(r) /\ RequestInv(r)
  BY DEF BackendInv, BackendTypeOK
<1>2. RequestShape(request[p])'
  BY <1>1 DEF RequestShape
<1>3. CASE r.pc = "idle"
  <2>1. request'[p].pc = "idle"
    BY <1>3
  <2> HIDE DEF r
  <2> QED BY <1>2, <2>1 DEF RequestInv, Answered, RunSteps, StartSteps, SettleSteps
<1>4. CASE r.pc # "idle"
  <2>1. r.c \in Challenges /\ Undisturbed(r)
    BY <1>1, <1>4 DEF RequestShape
  <2>2. r.pc \in {"run_call", "run_commit"} \cup RunSteps => Head(r.todo) \in AgentIds
    BY <1>1, ListFacts DEF RequestShape, Request
  <2>3. r.pc \in SettleSteps => SettlementPlan(r)'
    BY <1>1, <2>1, PlanKept DEF RequestShape, RequestInv, Undisturbed
  <2>4. Answered(r, "settle_commit") =>
          /\ challenge'[r.c].status = "completed"
          /\ TiesOnChain(r.c, r.winner)'
          /\ challengeRow'[r.c].winner_agent_id = None
    BY <1>1, <2>1, TieKept DEF RequestInv, Undisturbed, Monotone
  <2>5. Answered(r, "start_commit") =>
          /\ challenge'[r.c].status \notin {"absent", "pending"}
          /\ challenge'[r.c].started_at # None
    BY <1>1, <2>1 DEF RequestInv, Monotone
  <2>6. Answered(r, "run_commit") => run'[r.c][Head(r.todo)].status # "absent"
    BY <1>1, <2>1, <2>2 DEF RequestInv, Monotone, Answered
  <2>7. Answered(r, "create_commit") => challenge'[r.c].status # "absent" /\ Len(r.todo) > 0
    BY <1>1, <2>1 DEF RequestInv, Monotone
  <2>8. /\ r.pc \in {"loop", "finalize_call"} =>
             run'[r.c][Head(r.todo)].status # "completed"
        /\ r.pc = "finalize_commit" /\ run'[r.c][Head(r.todo)].status = "completed" =>
             Agrees(run'[r.c][Head(r.todo)], r.result)
    BY <1>1, <2>1, <2>2 DEF RequestInv, Undisturbed, Monotone, RunSteps
  <2>9. /\ r.pc \in {"create_call", "create_commit"} => ~HasRow(r.c)'
        /\ r.pc \in {"create_run", "run_call", "run_commit"} \cup StartSteps =>
             challengeRow'[r.c].onchain_address
        /\ r.pc \in {"run_call", "run_commit"} =>
             runRow'[r.c][Head(r.todo)].status = "absent"
        /\ r.pc \in RunSteps => runRow'[r.c][Head(r.todo)].status = "running"
    BY <1>1, <2>1 DEF RequestInv, Undisturbed, HasRow
  <2>10. r' = r
    OBVIOUS
  <2> HIDE DEF r
  <2>11. RequestInv(r)'
    BY <2>3, <2>4, <2>5, <2>6, <2>7, <2>8, <2>9, <2>10 DEF RequestInv
  <2> QED BY <2>11, <1>2 DEF r
<1> HIDE DEF r
<1> QED BY <1>2, <1>3, <1>4

LEMMA RowsKept ==
  ASSUME BackendInv, Monotone, UNCHANGED <<challengeRow, records>>, NEW c \in Challenges
  PROVE  ChallengeRowInv(c)'
<1>1. ChallengeRowInv(c)
  BY DEF BackendInv
<1>2. challengeRow[c].winner_agent_id # None =>
        challenge'[c].status = "completed" /\ TiesOnChain(c, challengeRow[c].winner_agent_id)'
  <2> SUFFICES ASSUME challengeRow[c].winner_agent_id # None
               PROVE  /\ challenge'[c].status = "completed"
                      /\ TiesOnChain(c, challengeRow[c].winner_agent_id)'
    OBVIOUS
  <2>1. challenge[c].status = "completed" /\ TiesOnChain(c, challengeRow[c].winner_agent_id)
    BY <1>1 DEF ChallengeRowInv
  <2>2. challenge'[c] = challenge[c] /\ run'[c] = run[c]
    BY <2>1 DEF Monotone
  <2> QED BY <2>1, <2>2 DEF TiesOnChain
<1>3. /\ challengeRow[c].onchain_address => challenge'[c].status # "absent"
      /\ challengeRow[c].status = "active" => challenge'[c].started_at # None
      /\ challengeRow[c].status = "completed" => challenge'[c].status = "completed"
      /\ challenge'[c].status # "completed" => challenge'[c].winner_agent_id = None
  BY <1>1 DEF ChallengeRowInv, Monotone
<1> QED BY <1>1, <1>2, <1>3 DEF ChallengeRowInv

LEMMA RunRowsKept ==
  ASSUME BackendInv, Monotone, UNCHANGED <<challengeRow, runRow>>,
         NEW c \in Challenges, NEW a \in AgentIds,
         runRow[c][a].status = "completed" /\ run'[c][a].status = "completed" =>
           run[c][a].status = "completed"
  PROVE  RunRowInv(c, a)'
<1>1. RunRowInv(c, a)
  BY DEF BackendInv
<1>2. /\ run[c][a].status # "absent" => run'[c][a].status # "absent"
      /\ run[c][a].status = "completed" => run'[c][a] = run[c][a]
  BY DEF Monotone
<1> QED BY <1>1, <1>2 DEF RunRowInv

(* No new debt, and a request forgets one only when the rows have it.       *)
LEMMA OwedKept ==
  ASSUME NEW c \in Challenges, OwedInv(c),
         ~faulty' =>
           /\ ~faulty
           /\ challenge'[c] = challenge[c] /\ run'[c] = run[c]
           /\ challengeRow[c].onchain_address => challengeRow'[c].onchain_address
           /\ challengeRow'[c].status \in {"absent", "pending"} =>
                challengeRow[c].status \in {"absent", "pending"}
           /\ challengeRow[c].winner_agent_id # None => challengeRow'[c].winner_agent_id # None
           /\ \A a \in AgentIds :
                runRow[c][a].onchain_address => runRow'[c][a].onchain_address
           /\ \A p \in Requests :
                request[p].c = c /\ request[p].answered =>
                  \/ request'[p] = request[p]
                  \/ request[p].pc = "create_commit" /\ challengeRow'[c].onchain_address
                  \/ request[p].pc = "start_commit"
                     /\ challengeRow'[c].status \notin {"absent", "pending"}
                  \/ request[p].pc = "settle_commit" /\ challengeRow'[c].winner_agent_id # None
                  \/ request[p].pc = "run_commit"
                     /\ runRow'[c][Head(request[p].todo)].onchain_address
                  \/ request[p].pc \notin {"create_commit", "run_commit", "start_commit",
                                           "settle_commit"}
  PROVE  OwedInv(c)'
<1> SUFFICES ASSUME ~faulty' PROVE OwedInv(c)'
  BY DEF OwedInv
<1>1. \A p \in Requests :
        /\ AnsweredFor(request[p], "create_commit", c) =>
             request'[p] = request[p] \/ challengeRow'[c].onchain_address
        /\ AnsweredFor(request[p], "start_commit", c) =>
             request'[p] = request[p] \/ challengeRow'[c].status \notin {"absent", "pending"}
        /\ AnsweredFor(request[p], "settle_commit", c) =>
             request'[p] = request[p] \/ challengeRow'[c].winner_agent_id # None
        /\ AnsweredFor(request[p], "run_commit", c) =>
             \/ request'[p] = request[p]
             \/ runRow'[c][Head(request[p].todo)].onchain_address
  BY DEF AnsweredFor, Answered
<1>2. challenge[c].status # "absent" =>
         \/ challengeRow'[c].onchain_address
         \/ \E q \in Requests : AnsweredFor(request'[q], "create_commit", c)
  BY <1>1 DEF OwedInv
<1>3. challenge[c].started_at # None /\ challengeRow'[c].status \in {"absent", "pending"} =>
         \E q \in Requests : AnsweredFor(request'[q], "start_commit", c)
  BY <1>1 DEF OwedInv
<1>4. challenge[c].status = "completed" =>
         \/ challengeRow'[c].winner_agent_id # None
         \/ \E q \in Requests : AnsweredFor(request'[q], "settle_commit", c)
  BY <1>1 DEF OwedInv
<1>5. \A a \in AgentIds :
         run[c][a].status # "absent" =>
           \/ runRow'[c][a].onchain_address
           \/ \E q \in Requests : AnsweredFor(request'[q], "run_commit", c)
                                  /\ Head(request'[q].todo) = a
  <2> SUFFICES ASSUME NEW a \in AgentIds, run[c][a].status # "absent",
                      ~runRow'[c][a].onchain_address
               PROVE  \E q \in Requests : AnsweredFor(request'[q], "run_commit", c)
                                         /\ Head(request'[q].todo) = a
    OBVIOUS
  <2>1. ~runRow[c][a].onchain_address
    OBVIOUS
  <2>2. PICK q \in Requests : AnsweredFor(request[q], "run_commit", c)
                              /\ Head(request[q].todo) = a
    BY <2>1 DEF OwedInv
  <2>3. request'[q] = request[q]
    BY <1>1, <2>2
  <2> QED BY <2>2, <2>3
<1> QED BY <1>2, <1>3, <1>4, <1>5 DEF OwedInv, AnsweredFor, Answered

(* The invariant from its parts, for a step of the request q.               *)
LEMMA Assembled ==
  ASSUME BackendInv, IInv', BackendTypeOK', NEW q \in Requests, NEW r \in Request,
         request' = [request EXCEPT ![q] = r],
         RequestShape(r), RequestInv(r)',
         \A p \in Requests \ {q} : request[p].pc # "idle" => Undisturbed(request[p]),
         \A p \in Requests \ {q} : ~Clash(r, request[p]),
         Monotone,
         \A c \in Challenges : ChallengeRowInv(c)' /\ OwedInv(c)',
         \A c \in Challenges, a \in AgentIds : RunRowInv(c, a)'
  PROVE  BackendInv'
<1>1. request \in [Requests -> Request]
  BY DEF BackendInv, BackendTypeOK
<1>2. request'[q] = r /\ \A p \in Requests \ {q} : request'[p] = request[p]
  BY <1>1
<1>3. \A p \in Requests \ {q} : RequestShape(request'[p]) /\ RequestInv(request[p])'
  BY <1>2, RequestKept
<1>4. \A p \in Requests : RequestShape(request'[p]) /\ RequestInv(request[p])'
  <2>1. RequestInv(request[q])'
    BY <1>2
  <2> QED BY <1>2, <1>3, <2>1
<1>5. \A p \in Requests \ {q} : ~Clash(request[p], r)
  BY DEF Clash
<1>6. \A p, s \in Requests : p # s => ~Clash(request'[p], request'[s])
  <2> SUFFICES ASSUME NEW p \in Requests, NEW s \in Requests, p # s
               PROVE  ~Clash(request'[p], request'[s])
    OBVIOUS
  <2>1. CASE p = q
    BY <1>2, <2>1
  <2>2. CASE s = q
    BY <1>2, <1>5, <2>2
  <2>3. CASE p # q /\ s # q
    BY <1>2, <2>3 DEF BackendInv
  <2> QED BY <2>1, <2>2, <2>3
<1> QED BY <1>4, <1>6 DEF BackendInv

(* A step that sends one instruction to the chain, or only moves on.        *)
LEMMA CallInvariant ==
  ASSUME BackendInv, [Next]_vars, UNCHANGED rowVars, faulty' \in BOOLEAN,
         NEW q \in Requests, NEW r \in Request, request' = [request EXCEPT ![q] = r],
         RequestShape(r), RequestInv(r)',
         \A p \in Requests \ {q} : ~Clash(r, request[p]),
         \A c \in Challenges, a \in AgentIds :
           run'[c][a].status = "completed" /\ run[c][a].status # "completed" =>
             /\ runRow[c][a].status # "completed"
             /\ \A p \in Requests \ {q} :
                  ~(/\ request[p].pc \in RunSteps /\ request[p].c = c
                    /\ Head(request[p].todo) = a),
         \A c \in Challenges : OwedInv(c)'
  PROVE  BackendInv'
<1>1. IInv'
  BY StepInvariant DEF BackendInv
<1>2. Monotone
  BY ChainMonotone DEF BackendInv
<1>3. BackendTypeOK'
  BY <1>1 DEF BackendInv, BackendTypeOK, IInv, rowVars
<1>4. \A p \in Requests \ {q} : request[p].pc # "idle" => Undisturbed(request[p])
  <2> SUFFICES ASSUME NEW p \in Requests \ {q}, request[p].pc # "idle"
               PROVE  Undisturbed(request[p])
    OBVIOUS
  <2>1. request[p].c \in Challenges
    BY DEF BackendInv, RequestShape
  <2>2. request[p].pc \in RunSteps => Head(request[p].todo) \in AgentIds
    BY ListFacts DEF BackendInv, BackendTypeOK, RequestShape, Request
  <2> QED BY <2>1, <2>2 DEF Undisturbed, rowVars
<1>5. \A c \in Challenges : ChallengeRowInv(c)'
  BY <1>2, RowsKept DEF rowVars
<1>6. \A c \in Challenges, a \in AgentIds : RunRowInv(c, a)'
  BY <1>2, RunRowsKept DEF rowVars
<1> QED BY <1>1, <1>2, <1>3, <1>4, <1>5, <1>6, Assembled

(* A step that only moves a request on.                                     *)
LEMMA MoveInvariant ==
  ASSUME BackendInv, UNCHANGED <<chainVars, rowVars>>, faulty' \in BOOLEAN,
         NEW q \in Requests, NEW r \in Request, request' = [request EXCEPT ![q] = r],
         RequestShape(r), RequestInv(r),
         \A p \in Requests \ {q} : ~Clash(r, request[p]),
         ~faulty' =>
           /\ ~faulty
           /\ ~(/\ request[q].answered
                /\ request[q].pc \in {"create_commit", "run_commit", "start_commit",
                                      "settle_commit"})
  PROVE  BackendInv'
<1>1. UNCHANGED vars
  BY DEF chainVars, vars
<1>2. RequestInv(r)'
  BY SMTT(30) DEF chainVars, rowVars, RequestInv, SettlementPlan, TiesOnChain, HasRow
<1>3. \A p \in Requests \ {q} : request'[p] = request[p]
  BY DEF BackendInv, BackendTypeOK
<1>4. ASSUME NEW c \in Challenges PROVE OwedInv(c)'
  <2>1. OwedInv(c)
    BY DEF BackendInv
  <2> QED BY <1>3, <2>1, OwedKept DEF chainVars, rowVars
<1>5. \A c \in Challenges, a \in AgentIds :
        ~(run'[c][a].status = "completed" /\ run[c][a].status # "completed")
  BY DEF chainVars
<1> QED BY <1>1, <1>2, <1>4, <1>5, CallInvariant

-----------------------------------------------------------------------------
(* The steps that touch neither store.                                      *)

LEMMA RequestFacts ==
  ASSUME BackendInv, NEW q \in Requests
  PROVE  /\ request \in [Requests -> Request]
         /\ request[q] \in Request /\ RequestShape(request[q]) /\ RequestInv(request[q])
         /\ request[q].todo \in ContestantLists
         /\ request[q].pc # "idle" => request[q].c \in Challenges
         /\ request[q].pc \in {"run_call", "run_commit"} \cup RunSteps =>
              request[q].todo # <<>> /\ Head(request[q].todo) \in AgentIds
         /\ \A p \in Requests \ {q} : ~Clash(request[q], request[p])
<1>1. /\ request \in [Requests -> Request]
      /\ request[q] \in Request /\ RequestShape(request[q]) /\ RequestInv(request[q])
      /\ \A p \in Requests \ {q} : ~Clash(request[q], request[p])
  BY DEF BackendInv, BackendTypeOK
<1>2. request[q].todo \in ContestantLists
  BY <1>1 DEF Request
<1> QED BY <1>1, <1>2, ListFacts DEF RequestShape

LEMMA IdleFacts ==
  /\ Idle \in Request /\ Idle.pc = "idle" /\ RequestShape(Idle) /\ RequestInv(Idle)
  /\ \A s : ~Clash(Idle, s)
<1>1. Idle.pc = "idle"
  BY DEF Idle
<1>2. RequestShape(Idle) /\ RequestInv(Idle)
  BY <1>1 DEF RequestShape, RequestInv, Answered, RunSteps, StartSteps, SettleSteps
<1>3. \A s : ~Clash(Idle, s)
  BY <1>1 DEF Clash, CreateSteps, RunSteps, Answered
<1> QED BY <1>1, <1>2, <1>3, NewRowTypes

LEMMA CreateChallengeRequestInvariant ==
  ASSUME BackendInv, NEW q \in Requests, NEW c \in Challenges,
         NEW l \in ContestantLists, CreateChallengeRequest(q, c, l)
  PROVE  BackendInv'
<1> DEFINE r == [Idle EXCEPT !.pc = "create_call", !.c = c, !.todo = l]
<1>1. /\ request' = [request EXCEPT ![q] = r] /\ FreshId(c) /\ request[q].pc = "idle"
      /\ UNCHANGED <<chainVars, rowVars, faulty>>
  BY DEF CreateChallengeRequest, Becomes, At
<1>2. /\ r \in Request /\ r.pc = "create_call" /\ r.c = c
  BY DEF Idle, Request, Steps, OptionOf
<1> HIDE DEF r
<1>3. RequestShape(r)
  BY <1>2 DEF RequestShape, RunSteps, SettleSteps
<1>4. RequestInv(r)
  BY <1>1, <1>2 DEF FreshId, RequestInv, RunSteps, StartSteps, SettleSteps, Answered
<1>5. \A p \in Requests \ {q} : ~Clash(r, request[p])
  BY <1>1, <1>2 DEF FreshId, Clash
<1>6. faulty' \in BOOLEAN
  BY <1>1 DEF BackendInv, BackendTypeOK
<1> QED BY <1>1, <1>2, <1>3, <1>4, <1>5, <1>6, MoveInvariant

LEMMA CreateEndsInvariant ==
  ASSUME BackendInv, NEW q \in Requests, CreateEnds(q)
  PROVE  BackendInv'
<1>1. /\ request' = [request EXCEPT ![q] = Idle] /\ request[q].pc = "create_run"
      /\ UNCHANGED <<chainVars, rowVars, faulty>>
  BY DEF CreateEnds, Ends, Becomes, At
<1>2. faulty' \in BOOLEAN
  BY <1>1 DEF BackendInv, BackendTypeOK
<1> QED BY <1>1, <1>2, IdleFacts, MoveInvariant

LEMMA CrashInvariant ==
  ASSUME BackendInv, NEW q \in Requests, Crash(q)
  PROVE  BackendInv'
<1>1. /\ request' = [request EXCEPT ![q] = Idle] /\ faulty' = TRUE
      /\ UNCHANGED <<chainVars, rowVars>>
  BY DEF Crash, Ends, Becomes
<1> QED BY <1>1, IdleFacts, MoveInvariant

LEMMA StartRequestInvariant ==
  ASSUME BackendInv, NEW q \in Requests, NEW c \in Challenges, StartRequest(q, c)
  PROVE  BackendInv'
<1> DEFINE r == [Idle EXCEPT !.pc = "start_call", !.c = c]
<1>1. /\ request' = [request EXCEPT ![q] = r] /\ challengeRow[c].status = "pending"
      /\ UNCHANGED <<chainVars, rowVars, faulty>> /\ request[q].pc = "idle"
  BY DEF StartRequest, Becomes, At
<1>2. /\ r \in Request /\ r.pc = "start_call" /\ r.c = c
  BY NewRowTypes DEF Idle, Request, Steps, OptionOf
<1> HIDE DEF r
<1>3. RequestShape(r)
  BY <1>2 DEF RequestShape, RunSteps, SettleSteps
<1>4. challengeRow[c].onchain_address
  BY <1>1 DEF BackendInv, ChallengeRowInv
<1>5. RequestInv(r)
  BY <1>2, <1>4 DEF RequestInv, RunSteps, StartSteps, SettleSteps, Answered
<1>6. \A p \in Requests \ {q} : ~Clash(r, request[p])
  BY <1>2 DEF Clash, CreateSteps, RunSteps, Answered
<1>7. faulty' \in BOOLEAN
  BY <1>1 DEF BackendInv, BackendTypeOK
<1> QED BY <1>1, <1>2, <1>3, <1>5, <1>6, <1>7, MoveInvariant

LEMMA LoopFinishesInvariant ==
  ASSUME BackendInv, NEW q \in Requests, NEW usdc \in Balances,
         NEW completion \in Completions, LoopFinishes(q, usdc, completion)
  PROVE  BackendInv'
<1> DEFINE res == [completion |-> completion, ending_usdc |-> usdc, ended_at |-> now]
           r == [request[q] EXCEPT !.pc = "finalize_call", !.result = res]
<1>1. /\ request' = [request EXCEPT ![q] = r] /\ request[q].pc = "loop"
      /\ UNCHANGED <<chainVars, rowVars, faulty>>
  BY DEF LoopFinishes, Becomes, At
<1>2. res \in Result /\ res.ending_usdc \in Balances /\ res.completion \in Completions
  BY BalancesAssumption, CompletionsAssumption DEF Result, BackendInv, IInv, TypeOK
<1> HIDE DEF res
<1>3. /\ r \in Request /\ r.pc = "finalize_call" /\ r.c = request[q].c
      /\ r.todo = request[q].todo /\ r.result = res
  BY <1>2, RequestFacts DEF Request, Steps, OptionOf
<1> HIDE DEF r
<1>4. RequestShape(request[q]) /\ RequestInv(request[q])
  BY RequestFacts
<1>5. RequestShape(r)
  BY <1>1, <1>2, <1>3, <1>4 DEF RequestShape, RunSteps, SettleSteps
<1>6. RequestInv(r)
  BY <1>1, <1>3, <1>4 DEF RequestInv, RunSteps, StartSteps, SettleSteps, Answered
<1>7. \A p \in Requests \ {q} : ~Clash(r, request[p])
  <2>1. \A p \in Requests \ {q} : ~Clash(request[q], request[p])
    BY RequestFacts
  <2> QED BY <1>1, <1>3, <2>1 DEF Clash, CreateSteps, RunSteps, Answered
<1>8. faulty' \in BOOLEAN
  BY <1>1 DEF BackendInv, BackendTypeOK
<1> QED BY <1>1, <1>3, <1>5, <1>6, <1>7, <1>8, MoveInvariant

(* A settlement plans on rows that are all final: there are as many as the  *)
(* challenge declared contestants.                                          *)
LEMMA SettleRequestInvariant ==
  ASSUME BackendInv, NEW q \in Requests, NEW c \in Challenges, SettleRequest(q, c)
  PROVE  BackendInv'
<1>1. PICK l \in SetToSeqs(RunsInRows(c)), w \in AgentIds :
        /\ DetermineWinner(c, l, w)
        /\ request' = [request EXCEPT ![q] =
             [Idle EXCEPT !.pc = "settle_call", !.c = c, !.todo = l, !.winner = w]]
  BY DEF SettleRequest, Becomes
<1>2. /\ CanSettle(c) /\ request[q].pc = "idle"
      /\ UNCHANGED <<chainVars, rowVars, faulty>>
  BY DEF SettleRequest, At
<1> DEFINE n == Cardinality(RunsInRows(c))
<1>3. n = challengeRow[c].num_contestants /\ n \in 0..MaxContestants
  <2>1. PICK a \in AgentIds : runRow[c][a].status # "absent"
    BY <1>2 DEF CanSettle, RunsInRows
  <2>2. challengeRow[c].onchain_address
    BY <2>1 DEF BackendInv, RunRowInv
  <2>3. /\ challengeRow[c].num_contestants > 0
        /\ challengeRow[c].num_contestants <= MaxContestants
        /\ challengeRow[c].num_contestants \in Nat
    BY <2>2 DEF BackendInv, BackendTypeOK, ChallengeRowInv, ChallengeRow
  <2> QED BY <1>2, <2>3, LimitAssumption DEF CanSettle
<1>4. l \in [1..n -> RunsInRows(c)]
  BY <1>1 DEF SetToSeqs
<1>5. \A i \in DOMAIN l : l[i] \in AgentIds /\ runRow[c][l[i]].status = "completed"
  BY <1>2, <1>4 DEF CanSettle, RunsInRows
<1>6. l \in ContestantLists
  <2>1. l \in [1..n -> AgentIds]
    BY <1>4 DEF RunsInRows
  <2> QED BY <1>3, <2>1 DEF ContestantLists
<1> DEFINE r == [Idle EXCEPT !.pc = "settle_call", !.c = c, !.todo = l, !.winner = w]
           rows == [i \in DOMAIN l |-> runRow[c][l[i]]]
<1>7. /\ r \in Request /\ r.pc = "settle_call" /\ r.c = c /\ r.todo = l /\ r.winner = w
  BY <1>6 DEF Idle, Request, Steps, OptionOf
<1> HIDE DEF r
<1>8. RequestShape(r)
  BY <1>7 DEF RequestShape, RunSteps, SettleSteps
<1>9. SettlementPlan(r)
  <2>1. PICK i \in DOMAIN l : WinsAt(rows, i) /\ w = rows[i].agent_id
    BY <1>1, NoneIsNothing DEF DetermineWinner, IsWinner
  <2>2. w = l[i]
    BY <1>5, <2>1 DEF BackendInv, RunRowInv
  <2>3. /\ Eligible(runRow[c][w])
        /\ \A j \in DOMAIN l : Eligible(runRow[c][l[j]]) => ~Beats(runRow[c][l[j]], runRow[c][w])
    BY <2>1, <2>2 DEF WinsAt
  <2> QED BY <1>5, <1>7, <2>2, <2>3 DEF SettlementPlan
<1>10. RequestInv(r)
  BY <1>7, <1>9 DEF RequestInv, RunSteps, StartSteps, SettleSteps, Answered
<1>11. \A p \in Requests \ {q} : ~Clash(r, request[p])
  BY <1>7 DEF Clash, CreateSteps, RunSteps, Answered
<1>12. faulty' \in BOOLEAN
  BY <1>2 DEF BackendInv, BackendTypeOK
<1>13. request' = [request EXCEPT ![q] = r]
  BY <1>1 DEF r
<1> QED BY <1>2, <1>7, <1>8, <1>10, <1>11, <1>12, <1>13, MoveInvariant

-----------------------------------------------------------------------------
(* The calls.  Each: what became of it, that the chain made one of its      *)
(* steps, what the request can rely on afterwards, and who owes the rows    *)
(* what took effect.                                                        *)

LEMMA AuthoritySigns == Authority \in Signers
BY AuthorityAssumption

(* The steps of the chain the backend's calls are.                          *)
LEMMA CallsAreSteps ==
  ASSUME NEW c \in Challenges
  PROVE  /\ \A n \in Nat : CreateChallenge(Authority, c, n) => [Next]_vars
         /\ StartChallenge(Authority, c) => [Next]_vars
         /\ \A a \in AgentIds : CreateRun(Authority, c, a) => [Next]_vars
         /\ \A a \in AgentIds, usdc \in Balances, completion \in Completions :
              FinalizeRun(Authority, c, a, usdc, completion) => [Next]_vars
         /\ \A accounts \in AccountLists, w \in OptionOf(AgentIds) :
              SettleChallenge(Authority, c, accounts, w) => [Next]_vars
         /\ UNCHANGED chainVars => [Next]_vars
<1>1. ASSUME NEW n \in Nat, CreateChallenge(Authority, c, n) PROVE [Next]_vars
  <2>1. n \in 1..MaxContestants
    BY <1>1, LimitAssumption DEF CreateChallenge
  <2> QED BY <1>1, <2>1, AuthoritySigns DEF Next
<1>2. UNCHANGED chainVars => [Next]_vars
  BY DEF chainVars, vars
<1>3. StartChallenge(Authority, c) => [Next]_vars
  BY AuthoritySigns DEF Next
<1>4. \A a \in AgentIds : CreateRun(Authority, c, a) => [Next]_vars
  BY AuthoritySigns DEF Next
<1>5. ASSUME NEW a \in AgentIds, NEW usdc \in Balances, NEW completion \in Completions,
             FinalizeRun(Authority, c, a, usdc, completion)
      PROVE  [Next]_vars
  BY <1>5, AuthoritySigns DEF Next
<1>6. ASSUME NEW accounts \in AccountLists, NEW w \in OptionOf(AgentIds),
             SettleChallenge(Authority, c, accounts, w)
      PROVE  [Next]_vars
  BY <1>6, AuthoritySigns DEF Next
<1> QED BY <1>1, <1>2, <1>3, <1>4, <1>5, <1>6

LEMMA CreateChallengeCallInvariant ==
  ASSUME BackendInv, NEW q \in Requests, CreateChallengeCall(q)
  PROVE  BackendInv'
<1>0. PICK r \in Request : r = request[q]
  BY RequestFacts
<1> DEFINE c == r.c
           A == CreateChallenge(Authority, c, Len(r.todo))
<1>1. /\ r.pc = "create_call" /\ c \in Challenges /\ r \in Request /\ Len(r.todo) \in Nat
      /\ UNCHANGED rowVars /\ RequestInv(r) /\ RequestShape(r)
  BY <1>0, RequestFacts, ListFacts DEF CreateChallengeCall, At
<1>2. PICK b \in BOOLEAN :
        /\ request' = [request EXCEPT ![q] = [r EXCEPT !.pc = "create_commit", !.answered = b]]
        /\ A \/ UNCHANGED chainVars
        /\ b => A
        /\ faulty' \in BOOLEAN
        /\ ~faulty' => ~faulty /\ (b \/ UNCHANGED chainVars)
  <2>1. Call(q, A, "create_commit") /\ faulty \in BOOLEAN
    BY <1>0 DEF CreateChallengeCall, BackendInv, BackendTypeOK
  <2> HIDE DEF A
  <2>2. \/ /\ A /\ UNCHANGED faulty
           /\ request' = [request EXCEPT ![q] = [r EXCEPT !.pc = "create_commit", !.answered = TRUE]]
        \/ /\ A \/ UNCHANGED chainVars
           /\ request' = [request EXCEPT ![q] = [r EXCEPT !.pc = "create_commit", !.answered = FALSE]]
           /\ faulty' = TRUE \/ (UNCHANGED <<chainVars, faulty>>)
    BY <1>0, <2>1 DEF Call, Becomes
  <2> QED BY <2>1, <2>2
<1> DEFINE s == [r EXCEPT !.pc = "create_commit", !.answered = b]
<1>3. /\ s \in Request /\ s.pc = "create_commit" /\ s.c = c /\ s.todo = r.todo
      /\ s.answered = b
  BY <1>1 DEF Request, Steps
<1>4. [Next]_vars
  BY <1>1, <1>2, CallsAreSteps
<1>5. ASSUME A
      PROVE  /\ challenge'[c].status = "pending" /\ challenge'[c].started_at = None
             /\ Len(r.todo) > 0 /\ run' = run
             /\ \A d \in Challenges \ {c} : challenge'[d] = challenge[d]
             /\ \A a \in AgentIds : run[c][a].status = "absent"
  <2>1. challenge \in [Challenges -> ChallengeAccount] /\ challenge[c] = NoChallenge
    BY <1>1, <1>5 DEF BackendInv, IInv, TypeOK, StatusShapes, StatusShape, CreateChallenge
  <2>2. /\ challenge'[c].status = "pending" /\ challenge'[c].started_at = None
        /\ Len(r.todo) > 0 /\ run' = run
        /\ \A d \in Challenges \ {c} : challenge'[d] = challenge[d]
    BY <1>1, <1>5, <2>1 DEF CreateChallenge, NoChallenge
  <2>3. IsFiniteSet(Enrolled(c)) /\ Cardinality(Enrolled(c)) = 0
    BY <1>1, <2>1 DEF BackendInv, IInv, CountersMatchRuns, NoChallenge
  <2>4. Enrolled(c) = {}
    BY <2>3, FS_EmptySet
  <2> QED BY <2>2, <2>4 DEF Enrolled
<1> HIDE DEF s, A
<1>6. RequestShape(s)
  BY <1>1, <1>3 DEF RequestShape, RunSteps, SettleSteps
<1>7. RequestInv(s)'
  <2>1. ~HasRow(s.c)'
    BY <1>1, <1>3 DEF RequestInv, HasRow, rowVars
  <2>2. b => challenge'[s.c].status # "absent" /\ Len(s.todo) > 0
    BY <1>2, <1>3, <1>5
  <2> QED BY <1>3, <2>1, <2>2
         DEF RequestInv, RunSteps, StartSteps, SettleSteps, Answered
<1>8. \A p \in Requests \ {q} : ~Clash(s, request[p])
  <2>1. \A p \in Requests \ {q} : ~Clash(r, request[p])
    BY <1>0, RequestFacts
  <2> QED BY <1>1, <1>3, <2>1 DEF Clash, CreateSteps, RunSteps, Answered
<1>9. \A d \in Challenges, a \in AgentIds :
        ~(run'[d][a].status = "completed" /\ run[d][a].status # "completed")
  BY <1>2, <1>5 DEF chainVars
<1>10. request'[q] = s /\ \A p \in Requests \ {q} : request'[p] = request[p]
  BY <1>2, RequestFacts DEF s
<1>11. ASSUME NEW d \in Challenges PROVE OwedInv(d)'
  <2>1. OwedInv(d)
    BY DEF BackendInv
  <2>2. CASE b /\ d = c /\ ~faulty'
    <3>1. AnsweredFor(request'[q], "create_commit", d)
      BY <1>3, <1>10, <2>2 DEF AnsweredFor, Answered
    <3>2. /\ challenge'[d].started_at = None /\ challenge'[d].status = "pending"
          /\ \A a \in AgentIds : run'[d][a].status = "absent"
      BY <1>2, <1>5, <2>2
    <3>3. \E p \in Requests : AnsweredFor(request[p], "create_commit", d)'
      BY <3>1 DEF AnsweredFor, Answered
    <3> QED BY <3>2, <3>3 DEF OwedInv
  <2>3. CASE faulty'
    BY <2>3 DEF OwedInv
  <2>4. CASE ~faulty' /\ ~(b /\ d = c)
    <3>1. challenge'[d] = challenge[d] /\ run'[d] = run[d]
      BY <1>2, <1>5, <2>4 DEF chainVars
    <3> QED BY <1>0, <1>1, <1>2, <1>10, <2>1, <2>4, <3>1, OwedKept DEF rowVars
  <2> QED BY <2>2, <2>3, <2>4
<1>12. request' = [request EXCEPT ![q] = s]
  BY <1>2 DEF s
<1> QED BY <1>1, <1>2, <1>3, <1>4, <1>6, <1>7, <1>8, <1>9, <1>11, <1>12, CallInvariant, ZenonT(30)

LEMMA CreateRunCallInvariant ==
  ASSUME BackendInv, NEW q \in Requests, CreateRunCall(q)
  PROVE  BackendInv'
<1>0. PICK r \in Request : r = request[q]
  BY RequestFacts
<1> DEFINE c == r.c
           a == Head(r.todo)
           A == CreateRun(Authority, c, a)
<1>1. /\ r.pc = "run_call" /\ c \in Challenges /\ a \in AgentIds /\ r.todo # <<>>
      /\ UNCHANGED rowVars /\ RequestInv(r) /\ RequestShape(r)
      /\ Call(q, A, "run_commit")
  BY <1>0, RequestFacts DEF CreateRunCall, At
<1>2. PICK b \in BOOLEAN :
        /\ request' = [request EXCEPT ![q] = [r EXCEPT !.pc = "run_commit", !.answered = b]]
        /\ A \/ UNCHANGED chainVars
        /\ b => A
        /\ faulty' \in BOOLEAN
        /\ ~faulty' => ~faulty /\ (b \/ UNCHANGED chainVars)
  <2>1. Call(q, A, "run_commit") /\ faulty \in BOOLEAN
    BY <1>0, <1>1 DEF BackendInv, BackendTypeOK
  <2> HIDE DEF A
  <2>2. \/ /\ A /\ UNCHANGED faulty
           /\ request' = [request EXCEPT ![q] = [r EXCEPT !.pc = "run_commit", !.answered = TRUE]]
        \/ /\ A \/ UNCHANGED chainVars
           /\ request' = [request EXCEPT ![q] = [r EXCEPT !.pc = "run_commit", !.answered = FALSE]]
           /\ faulty' = TRUE \/ (UNCHANGED <<chainVars, faulty>>)
    BY <1>0, <2>1 DEF Call, Becomes
  <2> QED BY <2>1, <2>2
<1> DEFINE s == [r EXCEPT !.pc = "run_commit", !.answered = b]
<1>3. /\ s \in Request /\ s.pc = "run_commit" /\ s.c = c /\ s.todo = r.todo
      /\ s.answered = b /\ s.result = r.result /\ s.winner = r.winner
  BY <1>1 DEF Request, Steps
<1>4. [Next]_vars
  BY <1>1, <1>2, CallsAreSteps
<1>5. ASSUME A
      PROVE  /\ challenge'[c].status = challenge[c].status
             /\ challenge'[c].started_at = challenge[c].started_at
             /\ run'[c][a].status = "pending"
             /\ \A e \in AgentIds \ {a} : run'[c][e] = run[c][e]
             /\ \A d \in Challenges \ {c} : challenge'[d] = challenge[d] /\ run'[d] = run[d]
  <2>1. /\ challenge \in [Challenges -> ChallengeAccount]
        /\ run \in [Challenges -> [AgentIds -> RunAccount]]
    BY DEF BackendInv, IInv, TypeOK
  <2>2. /\ challenge' = [challenge EXCEPT ![c] = [challenge[c] EXCEPT !.num_enrolled = @ + 1]]
        /\ run' = [run EXCEPT ![c][a] = RunWithStatus("pending", a)]
    BY <1>5 DEF CreateRun
  <2>3. RunWithStatus("pending", a).status = "pending"
    BY DEF RunWithStatus
  <2>4. challenge[c] \in ChallengeAccount
    BY <1>1, <2>1
  <2>5. /\ challenge'[c].status = challenge[c].status
        /\ challenge'[c].started_at = challenge[c].started_at
    BY <1>1, <2>1, <2>2, <2>4 DEF ChallengeAccount
  <2> QED BY <1>1, <2>1, <2>2, <2>3, <2>5
<1> HIDE DEF s, A, a
<1>6. RequestShape(s)
  BY <1>1, <1>3 DEF RequestShape, RunSteps, SettleSteps
<1>7. RequestInv(s)'
  <2>1. challengeRow'[s.c].onchain_address /\ runRow'[s.c][Head(s.todo)].status = "absent"
    BY <1>1, <1>3 DEF RequestInv, rowVars
  <2>2. b => run'[s.c][Head(s.todo)].status # "absent"
    BY <1>2, <1>3, <1>5 DEF a
  <2> QED BY <1>3, <2>1, <2>2
         DEF RequestInv, RunSteps, StartSteps, SettleSteps, Answered
<1>8. \A p \in Requests \ {q} : ~Clash(s, request[p])
  <2>1. \A p \in Requests \ {q} : ~Clash(r, request[p])
    BY <1>0, RequestFacts
  <2> QED BY <1>1, <1>3, <2>1 DEF Clash, CreateSteps, RunSteps, Answered
<1>9. \A d \in Challenges, e \in AgentIds :
        ~(run'[d][e].status = "completed" /\ run[d][e].status # "completed")
  <2> SUFFICES ASSUME NEW d \in Challenges, NEW e \in AgentIds,
                      run'[d][e].status = "completed", run[d][e].status # "completed"
               PROVE  FALSE
    OBVIOUS
  <2>1. A
    BY <1>2 DEF chainVars
  <2> QED BY <1>5, <2>1
<1>10. request'[q] = s /\ \A p \in Requests \ {q} : request'[p] = request[p]
  BY <1>2, RequestFacts DEF s
<1>11. ASSUME NEW d \in Challenges PROVE OwedInv(d)'
  <2>1. OwedInv(d)
    BY DEF BackendInv
  <2>2. CASE b /\ d = c /\ ~faulty'
    <3>1. /\ ~faulty
          /\ \A p \in Requests, pc \in {"create_commit", "start_commit", "settle_commit", "run_commit"} :
               AnsweredFor(request[p], pc, d) => AnsweredFor(request'[p], pc, d)
                                                /\ request'[p] = request[p]
      BY <1>0, <1>1, <1>2, <1>10, <2>2 DEF AnsweredFor, Answered
    <3>2. AnsweredFor(request'[q], "run_commit", d) /\ Head(request'[q].todo) = a
      BY <1>3, <1>10, <2>2 DEF AnsweredFor, Answered, a
    <3>3. /\ challenge'[d].status = challenge[d].status
          /\ challenge'[d].started_at = challenge[d].started_at
          /\ \A e \in AgentIds \ {a} : run'[d][e] = run[d][e]
          /\ UNCHANGED rowVars
      BY <1>1, <1>2, <1>5, <2>2
    <3>4. /\ challenge'[d].status # "absent" =>
               \/ challengeRow[d].onchain_address
               \/ \E p \in Requests : AnsweredFor(request'[p], "create_commit", d)
          /\ challenge'[d].started_at # None /\ challengeRow[d].status \in {"absent", "pending"} =>
               \E p \in Requests : AnsweredFor(request'[p], "start_commit", d)
          /\ challenge'[d].status = "completed" =>
               \/ challengeRow[d].winner_agent_id # None
               \/ \E p \in Requests : AnsweredFor(request'[p], "settle_commit", d)
      BY <2>1, <3>1, <3>3 DEF OwedInv
    <3>5. ASSUME NEW e \in AgentIds, run'[d][e].status # "absent"
          PROVE  \/ runRow[d][e].onchain_address
                 \/ \E p \in Requests : AnsweredFor(request'[p], "run_commit", d)
                                        /\ Head(request'[p].todo) = e
      <4>1. CASE e = a
        BY <3>2, <4>1
      <4>2. CASE e # a
        <5>1. run[d][e].status # "absent"
          BY <3>3, <3>5, <4>2
        <5>2. \/ runRow[d][e].onchain_address
              \/ \E p \in Requests : AnsweredFor(request[p], "run_commit", d)
                                     /\ Head(request[p].todo) = e
          BY <2>1, <3>1, <5>1 DEF OwedInv
        <5> QED BY <3>1, <5>2
      <4> QED BY <4>1, <4>2
    <3> QED BY <3>3, <3>4, <3>5 DEF OwedInv, AnsweredFor, Answered, rowVars
  <2>3. CASE faulty'
    BY <2>3 DEF OwedInv
  <2>4. CASE ~faulty' /\ ~(b /\ d = c)
    <3>1. challenge'[d] = challenge[d] /\ run'[d] = run[d]
      BY <1>2, <1>5, <2>4 DEF chainVars
    <3> QED BY <1>0, <1>1, <1>2, <1>10, <2>1, <2>4, <3>1, OwedKept DEF rowVars
  <2> QED BY <2>2, <2>3, <2>4
<1>12. request' = [request EXCEPT ![q] = s]
  BY <1>2 DEF s
<1> QED BY <1>1, <1>2, <1>3, <1>4, <1>6, <1>7, <1>8, <1>9, <1>11, <1>12, CallInvariant, ZenonT(30)

LEMMA StartCallInvariant ==
  ASSUME BackendInv, NEW q \in Requests, StartCall(q)
  PROVE  BackendInv'
<1>0. PICK r \in Request : r = request[q]
  BY RequestFacts
<1> DEFINE c == r.c
           A == StartChallenge(Authority, c)
<1>1. /\ r.pc = "start_call" /\ c \in Challenges
      /\ UNCHANGED rowVars /\ RequestInv(r) /\ RequestShape(r)
      /\ Call(q, A, "start_commit")
  BY <1>0, RequestFacts DEF StartCall, At
<1>2. PICK b \in BOOLEAN :
        /\ request' = [request EXCEPT ![q] = [r EXCEPT !.pc = "start_commit", !.answered = b]]
        /\ A \/ UNCHANGED chainVars
        /\ b => A
        /\ faulty' \in BOOLEAN
        /\ ~faulty' => ~faulty /\ (b \/ UNCHANGED chainVars)
  <2>1. Call(q, A, "start_commit") /\ faulty \in BOOLEAN
    BY <1>0, <1>1 DEF BackendInv, BackendTypeOK
  <2> HIDE DEF A
  <2>2. \/ /\ A /\ UNCHANGED faulty
           /\ request' = [request EXCEPT ![q] = [r EXCEPT !.pc = "start_commit", !.answered = TRUE]]
        \/ /\ A \/ UNCHANGED chainVars
           /\ request' = [request EXCEPT ![q] = [r EXCEPT !.pc = "start_commit", !.answered = FALSE]]
           /\ faulty' = TRUE \/ (UNCHANGED <<chainVars, faulty>>)
    BY <1>0, <2>1 DEF Call, Becomes
  <2> QED BY <2>1, <2>2
<1> DEFINE s == [r EXCEPT !.pc = "start_commit", !.answered = b]
<1>3. /\ s \in Request /\ s.pc = "start_commit" /\ s.c = c /\ s.todo = r.todo
      /\ s.answered = b /\ s.result = r.result /\ s.winner = r.winner
  BY <1>1 DEF Request, Steps
<1>4. [Next]_vars
  BY <1>1, <1>2, CallsAreSteps
<1>5. ASSUME A
      PROVE  /\ challenge[c].status = "pending" /\ challenge'[c].status = "active"
             /\ challenge'[c].started_at # None
             /\ run' = run
             /\ \A d \in Challenges \ {c} : challenge'[d] = challenge[d]
  <2>1. challenge \in [Challenges -> ChallengeAccount] /\ now \in Nat
    BY DEF BackendInv, IInv, TypeOK
  <2>2. challenge[c] \in ChallengeAccount
    BY <1>1, <2>1
  <2> QED BY <1>1, <1>5, <2>1, <2>2, NoneAssumption DEF StartChallenge, ChallengeAccount
<1> HIDE DEF s, A
<1>6. RequestShape(s)
  BY <1>1, <1>3 DEF RequestShape, RunSteps, SettleSteps
<1>7. RequestInv(s)'
  <2>1. challengeRow'[s.c].onchain_address
    BY <1>1, <1>3 DEF RequestInv, rowVars, StartSteps
  <2>2. b => /\ challenge'[s.c].status \notin {"absent", "pending"}
             /\ challenge'[s.c].started_at # None
    BY <1>2, <1>3, <1>5
  <2> QED BY <1>3, <2>1, <2>2
         DEF RequestInv, RunSteps, StartSteps, SettleSteps, Answered
<1>8. \A p \in Requests \ {q} : ~Clash(s, request[p])
  <2> SUFFICES ASSUME NEW p \in Requests \ {q}, Clash(s, request[p]) PROVE FALSE
    OBVIOUS
  <2>1. b /\ request[p].c = c /\ Answered(request[p], "start_commit")
    BY <1>3 DEF Clash, CreateSteps, RunSteps, Answered
  <2>2. challenge[c].status # "pending"
    BY <2>1, RequestFacts DEF RequestInv
  <2> QED BY <1>2, <1>5, <2>1, <2>2
<1>9. \A d \in Challenges, e \in AgentIds :
        ~(run'[d][e].status = "completed" /\ run[d][e].status # "completed")
  BY <1>2, <1>5 DEF chainVars
<1>10. request'[q] = s /\ \A p \in Requests \ {q} : request'[p] = request[p]
  BY <1>2, RequestFacts DEF s
<1>11. ASSUME NEW d \in Challenges PROVE OwedInv(d)'
  <2>1. OwedInv(d)
    BY DEF BackendInv
  <2>2. CASE b /\ d = c /\ ~faulty'
    <3>1. /\ ~faulty
          /\ \A p \in Requests, pc \in {"create_commit", "run_commit"} :
               AnsweredFor(request[p], pc, d) => AnsweredFor(request'[p], pc, d)
                                                /\ request'[p] = request[p]
      BY <1>0, <1>1, <1>2, <1>10, <2>2 DEF AnsweredFor, Answered
    <3>2. AnsweredFor(request'[q], "start_commit", d)
      BY <1>3, <1>10, <2>2 DEF AnsweredFor, Answered
    <3>3. /\ challenge[d].status # "absent" /\ challenge'[d].status = "active"
          /\ run' = run /\ UNCHANGED rowVars
      BY <1>1, <1>2, <1>5, <2>2
    <3>4. \/ challengeRow[d].onchain_address
          \/ \E p \in Requests : AnsweredFor(request'[p], "create_commit", d)
      BY <2>1, <3>1, <3>3 DEF OwedInv
    <3>5. \A e \in AgentIds :
            run[d][e].status # "absent" =>
              \/ runRow[d][e].onchain_address
              \/ \E p \in Requests : AnsweredFor(request'[p], "run_commit", d)
                                     /\ Head(request'[p].todo) = e
      BY <2>1, <3>1 DEF OwedInv
    <3> QED BY <3>2, <3>3, <3>4, <3>5 DEF OwedInv, AnsweredFor, Answered, rowVars
  <2>3. CASE faulty'
    BY <2>3 DEF OwedInv
  <2>4. CASE ~faulty' /\ ~(b /\ d = c)
    <3>1. challenge'[d] = challenge[d] /\ run'[d] = run[d]
      BY <1>2, <1>5, <2>4 DEF chainVars
    <3> QED BY <1>0, <1>1, <1>2, <1>10, <2>1, <2>4, <3>1, OwedKept DEF rowVars
  <2> QED BY <2>2, <2>3, <2>4
<1>12. request' = [request EXCEPT ![q] = s]
  BY <1>2 DEF s
<1> QED BY <1>1, <1>2, <1>3, <1>4, <1>6, <1>7, <1>8, <1>9, <1>11, <1>12, CallInvariant, ZenonT(30)

LEMMA FinalizeCallInvariant ==
  ASSUME BackendInv, NEW q \in Requests, FinalizeCall(q)
  PROVE  BackendInv'
<1>0. PICK r \in Request : r = request[q]
  BY RequestFacts
<1> DEFINE c == r.c
           a == Head(r.todo)
           A == FinalizeRun(Authority, c, a, r.result.ending_usdc, r.result.completion)
<1>1. /\ r.pc = "finalize_call" /\ c \in Challenges /\ a \in AgentIds /\ r.todo # <<>>
      /\ UNCHANGED rowVars /\ RequestInv(r) /\ RequestShape(r)
      /\ Call(q, A, "finalize_commit")
  BY <1>0, RequestFacts DEF FinalizeCall, At, Told, RunSteps
<1>2. PICK b \in BOOLEAN :
        /\ request' = [request EXCEPT ![q] = [r EXCEPT !.pc = "finalize_commit", !.answered = b]]
        /\ A \/ UNCHANGED chainVars
        /\ b => A
        /\ faulty' \in BOOLEAN
        /\ ~faulty' => ~faulty /\ (b \/ UNCHANGED chainVars)
  <2>1. Call(q, A, "finalize_commit") /\ faulty \in BOOLEAN
    BY <1>0, <1>1 DEF BackendInv, BackendTypeOK
  <2> HIDE DEF A
  <2>2. \/ /\ A /\ UNCHANGED faulty
           /\ request' = [request EXCEPT ![q] = [r EXCEPT !.pc = "finalize_commit", !.answered = TRUE]]
        \/ /\ A \/ UNCHANGED chainVars
           /\ request' = [request EXCEPT ![q] = [r EXCEPT !.pc = "finalize_commit", !.answered = FALSE]]
           /\ faulty' = TRUE \/ (UNCHANGED <<chainVars, faulty>>)
    BY <1>0, <2>1 DEF Call, Becomes
  <2> QED BY <2>1, <2>2
<1> DEFINE s == [r EXCEPT !.pc = "finalize_commit", !.answered = b]
<1>3. /\ s \in Request /\ s.pc = "finalize_commit" /\ s.c = c /\ s.todo = r.todo
      /\ s.answered = b /\ s.result = r.result /\ s.winner = r.winner
  BY <1>1 DEF Request, Steps
<1>4. [Next]_vars
  <2>1. r.result.ending_usdc \in Balances /\ r.result.completion \in Completions
    BY <1>1 DEF RequestShape
  <2> QED BY <1>1, <1>2, <2>1, CallsAreSteps
<1>5. ASSUME A
      PROVE  /\ challenge[c].status # "absent"
             /\ challenge'[c].status \in {challenge[c].status, "settling"}
             /\ challenge'[c].started_at = challenge[c].started_at
             /\ run[c][a].status # "absent"
             /\ Agrees(run'[c][a], r.result)
             /\ \A e \in AgentIds \ {a} : run'[c][e] = run[c][e]
             /\ \A d \in Challenges \ {c} : challenge'[d] = challenge[d] /\ run'[d] = run[d]
  <2>1. /\ challenge \in [Challenges -> ChallengeAccount]
        /\ run \in [Challenges -> [AgentIds -> RunAccount]]
    BY DEF BackendInv, IInv, TypeOK
  <2> DEFINE ch == [challenge[c] EXCEPT !.num_finalized = @ + 1]
             done == [status |-> "completed", agent_id |-> a,
                      completion |-> r.result.completion,
                      ending_usdc |-> r.result.ending_usdc, ended_at |-> now]
  <2>2. /\ challenge' = [challenge EXCEPT ![c] = [ch EXCEPT !.status = StatusAfterFinalize(ch)]]
        /\ run' = [run EXCEPT ![c][a] = done]
        /\ run[c][a].status = "pending" /\ challenge[c].authority = Authority
    BY <1>5 DEF FinalizeRun, Finalizable
  <2>3. challenge[c] \in ChallengeAccount
    BY <1>1, <2>1
  <2>4. /\ challenge'[c].status \in {challenge[c].status, "settling"}
        /\ challenge'[c].started_at = challenge[c].started_at
    BY <1>1, <2>1, <2>2, <2>3 DEF ChallengeAccount, StatusAfterFinalize
  <2>5. challenge[c].status # "absent"
    BY <1>1, <2>2, SignersAssumption, AuthoritySigns
       DEF BackendInv, IInv, StatusShapes, StatusShape, NoChallenge
  <2>6. Agrees(done, r.result)
    BY DEF Agrees
  <2> HIDE DEF done
  <2> QED BY <1>1, <2>1, <2>2, <2>4, <2>5, <2>6
<1> HIDE DEF s, A, a
<1>6. RequestShape(s)
  BY <1>1, <1>3 DEF RequestShape, RunSteps, SettleSteps
<1>7. RequestInv(s)'
  <2>1. runRow'[s.c][Head(s.todo)].status = "running"
    BY <1>1, <1>3 DEF RequestInv, rowVars, RunSteps
  <2>2. run'[s.c][Head(s.todo)].status = "completed" =>
          Agrees(run'[s.c][Head(s.todo)], s.result)
    <3>1. run[c][a].status # "completed"
      BY <1>1 DEF RequestInv, a
    <3>2. UNCHANGED chainVars => run' = run
      BY DEF chainVars
    <3> QED BY <1>2, <1>3, <1>5, <3>1, <3>2 DEF a
  <2> QED BY <1>3, <2>1, <2>2
         DEF RequestInv, RunSteps, StartSteps, SettleSteps, Answered
<1>8. \A p \in Requests \ {q} : ~Clash(r, request[p]) /\ ~Clash(s, request[p])
  <2>1. \A p \in Requests \ {q} : ~Clash(r, request[p])
    BY <1>0, RequestFacts
  <2> QED BY <1>1, <1>3, <2>1 DEF Clash, CreateSteps, RunSteps, Answered
<1>9. \A d \in Challenges, e \in AgentIds :
        run'[d][e].status = "completed" /\ run[d][e].status # "completed" =>
          /\ runRow[d][e].status # "completed"
          /\ \A p \in Requests \ {q} :
               ~(/\ request[p].pc \in RunSteps /\ request[p].c = d
                 /\ Head(request[p].todo) = e)
  <2> SUFFICES ASSUME NEW d \in Challenges, NEW e \in AgentIds,
                      run'[d][e].status = "completed", run[d][e].status # "completed"
               PROVE  /\ runRow[d][e].status # "completed"
                      /\ \A p \in Requests \ {q} :
                           ~(/\ request[p].pc \in RunSteps /\ request[p].c = d
                             /\ Head(request[p].todo) = e)
    OBVIOUS
  <2>1. A
    BY <1>2 DEF chainVars
  <2>2. d = c /\ e = a
    BY <1>5, <2>1
  <2>3. runRow[c][a].status = "running"
    BY <1>1 DEF RequestInv, RunSteps, a
  <2>4. \A p \in Requests \ {q} :
          ~(/\ request[p].pc \in RunSteps /\ request[p].c = c
            /\ Head(request[p].todo) = a)
    BY <1>1, <1>8 DEF Clash, RunSteps, a
  <2> QED BY <2>2, <2>3, <2>4
<1>10. request'[q] = s /\ \A p \in Requests \ {q} : request'[p] = request[p]
  BY <1>2, RequestFacts DEF s
<1>11. ASSUME NEW d \in Challenges PROVE OwedInv(d)'
  <2>1. OwedInv(d)
    BY DEF BackendInv
  <2>2. CASE b /\ d = c /\ ~faulty'
    <3>1. /\ ~faulty
          /\ \A p \in Requests, pc \in {"create_commit", "start_commit", "settle_commit", "run_commit"} :
               AnsweredFor(request[p], pc, d) => AnsweredFor(request'[p], pc, d)
                                                /\ request'[p] = request[p]
      BY <1>0, <1>1, <1>2, <1>10, <2>2 DEF AnsweredFor, Answered
    <3>2. /\ challenge[d].status # "absent"
          /\ challenge'[d].status = "completed" => challenge[d].status = "completed"
          /\ challenge'[d].started_at = challenge[d].started_at
          /\ \A e \in AgentIds :
               run'[d][e].status # "absent" => run[d][e].status # "absent"
          /\ UNCHANGED rowVars
      BY <1>1, <1>2, <1>5, <2>2
    <3>3. /\ \/ challengeRow[d].onchain_address
             \/ \E p \in Requests : AnsweredFor(request'[p], "create_commit", d)
          /\ challenge'[d].started_at # None /\ challengeRow[d].status \in {"absent", "pending"} =>
               \E p \in Requests : AnsweredFor(request'[p], "start_commit", d)
          /\ challenge'[d].status = "completed" =>
               \/ challengeRow[d].winner_agent_id # None
               \/ \E p \in Requests : AnsweredFor(request'[p], "settle_commit", d)
      BY <2>1, <3>1, <3>2 DEF OwedInv
    <3>4. \A e \in AgentIds :
            run'[d][e].status # "absent" =>
              \/ runRow[d][e].onchain_address
              \/ \E p \in Requests : AnsweredFor(request'[p], "run_commit", d)
                                     /\ Head(request'[p].todo) = e
      BY <2>1, <3>1, <3>2 DEF OwedInv
    <3> QED BY <3>2, <3>3, <3>4 DEF OwedInv, AnsweredFor, Answered, rowVars
  <2>3. CASE faulty'
    BY <2>3 DEF OwedInv
  <2>4. CASE ~faulty' /\ ~(b /\ d = c)
    <3>1. challenge'[d] = challenge[d] /\ run'[d] = run[d]
      BY <1>2, <1>5, <2>4 DEF chainVars
    <3> QED BY <1>0, <1>1, <1>2, <1>10, <2>1, <2>4, <3>1, OwedKept DEF rowVars
  <2> QED BY <2>2, <2>3, <2>4
<1>12. request' = [request EXCEPT ![q] = s]
  BY <1>2 DEF s
<1> QED BY <1>1, <1>2, <1>3, <1>4, <1>6, <1>7, <1>8, <1>9, <1>11, <1>12, CallInvariant

(* The two sides settle on runs that tie: the rows of the list are final    *)
(* and agree with the chain, and the list holds every run on chain.         *)
LEMMA SettlementsTie ==
  ASSUME BackendInv, IInv', NEW r \in Request, r.c \in Challenges, r.winner \in AgentIds,
         SettlementPlan(r), NEW w \in OptionOf(AgentIds),
         SettleChallenge(Authority, r.c, [i \in DOMAIN r.todo |-> <<r.c, r.todo[i]>>], w)
  PROVE  TiesOnChain(r.c, r.winner)'
<1> DEFINE c == r.c
           accounts == [i \in DOMAIN r.todo |-> <<c, r.todo[i]>>]
<1>1. /\ r.todo \in ContestantLists
      /\ \A i \in DOMAIN r.todo : r.todo[i] \in AgentIds
      /\ DOMAIN r.todo = 1..Len(r.todo) /\ Len(r.todo) \in 0..MaxContestants
  BY ListFacts, LimitAssumption DEF Request
<1>2. accounts \in AccountLists
  BY <1>1 DEF AccountLists
<1>3. {accounts[k][2] : k \in DOMAIN accounts} = Enrolled(c)
  BY <1>2, AdmissibleListsAll DEF BackendInv, SettleChallenge, Settleable
<1>4. \A a : a \in Enrolled(c) <=> \E i \in DOMAIN r.todo : r.todo[i] = a
  BY <1>3
<1>5. Finalized(c) = Enrolled(c)
  <2>1. challenge[c].status = "settling"
    BY DEF SettleChallenge, Settleable
  <2> QED BY <2>1, SettlingFromInvariant DEF BackendInv, SettlingMeansAllIn
<1>6. /\ challenge \in [Challenges -> ChallengeAccount]
      /\ run \in [Challenges -> [AgentIds -> RunAccount]]
      /\ runRow \in [Challenges -> [AgentIds -> RunRow]]
  BY DEF BackendInv, BackendTypeOK, IInv, TypeOK
<1>7. /\ challenge'[c].status = "completed" /\ challenge'[c].winner_agent_id = w
      /\ run' = run
  BY <1>6 DEF SettleChallenge, Settleable
(* A run in the list is on chain what it is in its row.                     *)
<1>8. ASSUME NEW a \in AgentIds, a \in Enrolled(c)
      PROVE  /\ run[c][a].completion = runRow[c][a].completion
             /\ run[c][a].ending_usdc = runRow[c][a].ending_usdc
             /\ run[c][a].ending_usdc \in Nat
             /\ run[c][a].ended_at # None /\ run[c][a].completion # None
             /\ runRow[c][a].ended_at # None
             /\ Eligible(run[c][a]) <=> Eligible(runRow[c][a])
             /\ Eligible(runRow[c][a]) => ~Beats(runRow[c][a], runRow[c][r.winner])
  <2>1. run[c][a].status = "completed"
    BY <1>5, <1>8 DEF Finalized
  <2>2. PICK i \in DOMAIN r.todo : r.todo[i] = a
    BY <1>4, <1>8
  <2>3. /\ runRow[c][a].status = "completed"
        /\ Eligible(runRow[c][a]) => ~Beats(runRow[c][a], runRow[c][r.winner])
    BY <2>2 DEF SettlementPlan
  <2>4. RunRowInv(c, a) /\ RunShape(run[c][a], a)
    BY DEF BackendInv, IInv, RunShapes
  <2>5. Agrees(run[c][a], runRow[c][a]) /\ runRow[c][a].ended_at # None
    BY <2>1, <2>3, <2>4 DEF RunRowInv
  <2>6. /\ run[c][a].completion # None /\ run[c][a].ending_usdc # None
        /\ run[c][a].ended_at # None
    BY <2>1, <2>4 DEF RunShape
  <2>7. run[c][a].ending_usdc \in Nat
    <3>1. run[c][a] \in RunAccount
      BY <1>6
    <3> QED BY <2>6, <3>1 DEF RunAccount, OptionOf
  <2> QED BY <2>3, <2>5, <2>6, <2>7 DEF Agrees, Eligible
<1>9. r.winner \in Enrolled(c) /\ Eligible(run[c][r.winner])
  BY <1>4, <1>8 DEF SettlementPlan
<1>10. PICK v \in AgentIds : v = w /\ v \in Enrolled(c) /\ Eligible(run[c][v])
                             /\ ~Beats(run[c][r.winner], run[c][v])
  <2>1. Enrolled(c)' = Enrolled(c)
    BY <1>7 DEF Enrolled
  <2>2. \/ w = None /\ \A a \in Enrolled(c) : ~Eligible(run[c][a])
        \/ /\ w \in Enrolled(c) /\ Eligible(run[c][w])
           /\ \A a \in Enrolled(c) : Eligible(run[c][a]) => ~Beats(run[c][a], run[c][w])
    BY <1>7, <2>1 DEF IInv, WinnerIsBest
  <2>3. Enrolled(c) \subseteq AgentIds
    BY DEF Enrolled
  <2> QED BY <1>9, <2>2, <2>3
<1>11. run[c][r.winner].ending_usdc = run[c][v].ending_usdc
  <2>1. ~Beats(runRow[c][v], runRow[c][r.winner])
    BY <1>8, <1>10
  <2>2. /\ ~(runRow[c][v].ending_usdc > runRow[c][r.winner].ending_usdc)
        /\ ~(run[c][r.winner].ending_usdc > run[c][v].ending_usdc)
    BY <1>10, <2>1 DEF Beats
  <2>3. /\ run[c][v].ending_usdc = runRow[c][v].ending_usdc
        /\ run[c][v].ending_usdc \in Nat
    BY <1>8, <1>10
  <2>4. /\ run[c][r.winner].ending_usdc = runRow[c][r.winner].ending_usdc
        /\ run[c][r.winner].ending_usdc \in Nat
    BY <1>8, <1>9
  <2> QED BY <2>2, <2>3, <2>4
<1>12. v # None
  BY NoneIsNothing
<1> QED BY <1>7, <1>9, <1>10, <1>11, <1>12 DEF TiesOnChain

LEMMA SettleCallInvariant ==
  ASSUME BackendInv, NEW q \in Requests, SettleCall(q)
  PROVE  BackendInv'
<1>0. PICK r \in Request : r = request[q]
  BY RequestFacts
<1> DEFINE c == r.c
           accounts == [i \in DOMAIN r.todo |-> <<c, r.todo[i]>>]
<1>a. PICK w \in OptionOf(AgentIds) :
        Call(q, SettleChallenge(Authority, c, accounts, w), "settle_commit")
  BY <1>0 DEF SettleCall
<1> DEFINE A == SettleChallenge(Authority, c, accounts, w)
<1>1. /\ r.pc = "settle_call" /\ c \in Challenges
      /\ UNCHANGED rowVars /\ RequestInv(r) /\ RequestShape(r)
      /\ Call(q, A, "settle_commit")
  BY <1>0, <1>a, RequestFacts DEF SettleCall, At
<1>b. r.winner \in AgentIds /\ SettlementPlan(r)
  BY <1>1 DEF RequestShape, RequestInv, SettleSteps
<1>2. PICK b \in BOOLEAN :
        /\ request' = [request EXCEPT ![q] = [r EXCEPT !.pc = "settle_commit", !.answered = b]]
        /\ A \/ UNCHANGED chainVars
        /\ b => A
        /\ faulty' \in BOOLEAN
        /\ ~faulty' => ~faulty /\ (b \/ UNCHANGED chainVars)
  <2>1. Call(q, A, "settle_commit") /\ faulty \in BOOLEAN
    BY <1>0, <1>1 DEF BackendInv, BackendTypeOK
  <2> HIDE DEF A
  <2>2. \/ /\ A /\ UNCHANGED faulty
           /\ request' = [request EXCEPT ![q] = [r EXCEPT !.pc = "settle_commit", !.answered = TRUE]]
        \/ /\ A \/ UNCHANGED chainVars
           /\ request' = [request EXCEPT ![q] = [r EXCEPT !.pc = "settle_commit", !.answered = FALSE]]
           /\ faulty' = TRUE \/ (UNCHANGED <<chainVars, faulty>>)
    BY <1>0, <2>1 DEF Call, Becomes
  <2> QED BY <2>1, <2>2
<1> DEFINE s == [r EXCEPT !.pc = "settle_commit", !.answered = b]
<1>3. /\ s \in Request /\ s.pc = "settle_commit" /\ s.c = c /\ s.todo = r.todo
      /\ s.answered = b /\ s.result = r.result /\ s.winner = r.winner
  BY <1>1 DEF Request, Steps
<1>4. [Next]_vars
  <2>1. /\ DOMAIN r.todo = 1..Len(r.todo) /\ Len(r.todo) \in 0..MaxContestants
        /\ \A i \in DOMAIN r.todo : r.todo[i] \in AgentIds
    BY ListFacts, LimitAssumption DEF Request
  <2>2. accounts \in AccountLists
    BY <1>1, <2>1 DEF AccountLists
  <2> HIDE DEF accounts
  <2> QED BY <1>1, <1>2, <2>2, CallsAreSteps
<1>c. IInv'
  BY <1>4, StepInvariant DEF BackendInv
<1>5. ASSUME A
      PROVE  /\ challenge[c].status = "settling" /\ challenge'[c].status = "completed"
             /\ challenge'[c].started_at = challenge[c].started_at
             /\ TiesOnChain(c, r.winner)'
             /\ run' = run
             /\ \A d \in Challenges \ {c} : challenge'[d] = challenge[d]
  <2>1. challenge \in [Challenges -> ChallengeAccount] /\ challenge[c] \in ChallengeAccount
    BY <1>1 DEF BackendInv, IInv, TypeOK
  <2>2. TiesOnChain(r.c, r.winner)'
    BY <1>1, <1>5, <1>b, <1>c, SettlementsTie
  <2>3. TiesOnChain(c, r.winner)'
    BY <2>2
  <2> QED BY <1>1, <1>5, <2>1, <2>3 DEF SettleChallenge, Settleable, ChallengeAccount
<1> HIDE DEF s, A
<1>6. RequestShape(s)
  BY <1>1, <1>3 DEF RequestShape, RunSteps, SettleSteps
<1>d. SettlementPlan(s)
  BY <1>3, <1>b DEF SettlementPlan
<1>7. RequestInv(s)'
  <2>1. SettlementPlan(s)'
    BY <1>1, <1>d DEF SettlementPlan, rowVars
  <2>2. b => /\ challenge'[s.c].status = "completed"
             /\ TiesOnChain(s.c, s.winner)'
    BY <1>2, <1>3, <1>5
  <2>3. b => challengeRow'[s.c].winner_agent_id = None
    <3>1. b => challenge[c].status # "completed"
      BY <1>2, <1>5
    <3> QED BY <1>1, <1>3, <3>1 DEF BackendInv, ChallengeRowInv, rowVars
  <2> QED BY <1>3, <2>1, <2>2, <2>3
         DEF RequestInv, RunSteps, StartSteps, SettleSteps, Answered
<1>8. \A p \in Requests \ {q} : ~Clash(s, request[p])
  <2> SUFFICES ASSUME NEW p \in Requests \ {q}, Clash(s, request[p]) PROVE FALSE
    OBVIOUS
  <2>1. b /\ request[p].c = c /\ Answered(request[p], "settle_commit")
    BY <1>3 DEF Clash, CreateSteps, RunSteps, Answered
  <2>2. challenge[c].status = "completed"
    BY <2>1, RequestFacts DEF RequestInv
  <2> QED BY <1>2, <1>5, <2>1, <2>2
<1>9. \A d \in Challenges, e \in AgentIds :
        ~(run'[d][e].status = "completed" /\ run[d][e].status # "completed")
  BY <1>2, <1>5 DEF chainVars
<1>10. request'[q] = s /\ \A p \in Requests \ {q} : request'[p] = request[p]
  BY <1>2, RequestFacts DEF s
<1>11. ASSUME NEW d \in Challenges PROVE OwedInv(d)'
  <2>1. OwedInv(d)
    BY DEF BackendInv
  <2>2. CASE b /\ d = c /\ ~faulty'
    <3>1. /\ ~faulty
          /\ \A p \in Requests, pc \in {"create_commit", "run_commit", "start_commit"} :
               AnsweredFor(request[p], pc, d) => AnsweredFor(request'[p], pc, d)
                                                /\ request'[p] = request[p]
      BY <1>0, <1>1, <1>2, <1>10, <2>2 DEF AnsweredFor, Answered
    <3>2. AnsweredFor(request'[q], "settle_commit", d)
      BY <1>3, <1>10, <2>2 DEF AnsweredFor, Answered
    <3>3. /\ challenge[d].status # "absent"
          /\ challenge'[d].started_at = challenge[d].started_at
          /\ run' = run /\ UNCHANGED rowVars
      BY <1>1, <1>2, <1>5, <2>2
    <3>4. /\ \/ challengeRow[d].onchain_address
             \/ \E p \in Requests : AnsweredFor(request'[p], "create_commit", d)
          /\ challenge'[d].started_at # None /\ challengeRow[d].status \in {"absent", "pending"} =>
               \E p \in Requests : AnsweredFor(request'[p], "start_commit", d)
      BY <2>1, <3>1, <3>3 DEF OwedInv
    <3>5. \A e \in AgentIds :
            run[d][e].status # "absent" =>
              \/ runRow[d][e].onchain_address
              \/ \E p \in Requests : AnsweredFor(request'[p], "run_commit", d)
                                     /\ Head(request'[p].todo) = e
      BY <2>1, <3>1 DEF OwedInv
    <3> QED BY <3>2, <3>3, <3>4, <3>5 DEF OwedInv, AnsweredFor, Answered, rowVars
  <2>3. CASE faulty'
    BY <2>3 DEF OwedInv
  <2>4. CASE ~faulty' /\ ~(b /\ d = c)
    <3>1. challenge'[d] = challenge[d] /\ run'[d] = run[d]
      BY <1>2, <1>5, <2>4 DEF chainVars
    <3> QED BY <1>0, <1>1, <1>2, <1>10, <2>1, <2>4, <3>1, OwedKept DEF rowVars
  <2> QED BY <2>2, <2>3, <2>4
<1>12. request' = [request EXCEPT ![q] = s]
  BY <1>2 DEF s
<1> QED BY <1>1, <1>2, <1>3, <1>4, <1>6, <1>7, <1>8, <1>9, <1>11, <1>12, CallInvariant, ZenonT(30)

-----------------------------------------------------------------------------
(* The commits.                                                             *)

(* A step of a request that leaves the chain alone.                         *)
LEMMA CommitInvariant ==
  ASSUME BackendInv, UNCHANGED <<chainVars, agentOnchain, faulty>>,
         challengeRow' \in [Challenges -> ChallengeRow],
         runRow' \in [Challenges -> [AgentIds -> RunRow]],
         records' \in [Challenges -> Nat],
         NEW q \in Requests, NEW r \in Request, request' = [request EXCEPT ![q] = r],
         RequestShape(r), RequestInv(r)',
         \A p \in Requests \ {q} : ~Clash(r, request[p]),
         \A p \in Requests \ {q} : request[p].pc # "idle" => Undisturbed(request[p]),
         \A c \in Challenges : ChallengeRowInv(c)' /\ OwedInv(c)',
         \A c \in Challenges, a \in AgentIds : RunRowInv(c, a)'
  PROVE  BackendInv'
<1>1. UNCHANGED vars
  BY DEF chainVars, vars
<1>2. IInv'
  BY <1>1, StepInvariant DEF BackendInv
<1>3. Monotone
  BY <1>1, ChainMonotone DEF BackendInv
<1>4. request' \in [Requests -> Request]
  BY RequestFacts
<1>5. BackendTypeOK'
  BY <1>2, <1>4 DEF BackendInv, BackendTypeOK, IInv
<1> QED BY <1>2, <1>3, <1>5, Assembled

(* Rows that did not change still are what they were.                       *)
LEMMA UntouchedRows ==
  ASSUME BackendInv, UNCHANGED chainVars, NEW c \in Challenges
  PROVE  /\ challengeRow'[c] = challengeRow[c] /\ records'[c] = records[c] =>
              ChallengeRowInv(c)'
         /\ \A a \in AgentIds :
              /\ challengeRow[c].onchain_address => challengeRow'[c].onchain_address
              /\ runRow'[c][a] = runRow[c][a]
              => RunRowInv(c, a)'
<1>1. ChallengeRowInv(c) /\ \A a \in AgentIds : RunRowInv(c, a)
  BY DEF BackendInv
<1> QED BY <1>1 DEF chainVars, ChallengeRowInv, RunRowInv, TiesOnChain

LEMMA CreateChallengeCommitInvariant ==
  ASSUME BackendInv, NEW q \in Requests, CreateChallengeCommit(q)
  PROVE  BackendInv'
<1>0. PICK r \in Request : r = request[q]
  BY RequestFacts
<1> DEFINE c == r.c
           row == [status |-> IF r.answered THEN "pending" ELSE "onchain_failed",
                   num_contestants |-> Len(r.todo), onchain_address |-> r.answered,
                   winner_agent_id |-> None]
           s == IF r.answered THEN [r EXCEPT !.pc = "create_run"] ELSE Idle
<1>1. /\ r.pc = "create_commit" /\ c \in Challenges /\ r.answered \in BOOLEAN
      /\ Len(r.todo) \in Nat /\ Len(r.todo) <= MaxContestants
      /\ RequestShape(r) /\ RequestInv(r)
      /\ UNCHANGED <<chainVars, agentOnchain, runRow, records, faulty>>
      /\ challengeRow' = [challengeRow EXCEPT ![c] = row]
      /\ request' = [request EXCEPT ![q] = s]
  BY <1>0, RequestFacts, ListFacts DEF CreateChallengeCommit, At, Becomes, Ends, Request
<1>2. row \in ChallengeRow
  BY <1>1 DEF ChallengeRow, OptionOf
<1>3. /\ challengeRow \in [Challenges -> ChallengeRow]
      /\ runRow \in [Challenges -> [AgentIds -> RunRow]]
      /\ records \in [Challenges -> Nat]
      /\ request \in [Requests -> Request]
  BY DEF BackendInv, BackendTypeOK
<1>4. /\ challengeRow' \in [Challenges -> ChallengeRow]
      /\ challengeRow'[c].status = (IF r.answered THEN "pending" ELSE "onchain_failed")
      /\ challengeRow'[c].num_contestants = Len(r.todo)
      /\ challengeRow'[c].onchain_address = r.answered
      /\ challengeRow'[c].winner_agent_id = None
      /\ \A d \in Challenges \ {c} : challengeRow'[d] = challengeRow[d]
  BY <1>1, <1>2, <1>3
<1>5. /\ s \in Request
      /\ r.answered => s.pc = "create_run" /\ s.c = c /\ s.todo = r.todo
      /\ ~r.answered => s = Idle
  BY IdleFacts DEF Request, Steps
<1> HIDE DEF s, row
<1>6. /\ challengeRow[c].status = "absent" /\ ~challengeRow[c].onchain_address
      /\ challengeRow[c].winner_agent_id = None /\ records[c] = 0
      /\ challenge[c].status # "completed" => challenge[c].winner_agent_id = None
  BY <1>1 DEF RequestInv, HasRow, BackendInv, ChallengeRowInv
<1>7. RequestShape(s)
  BY <1>1, <1>5, IdleFacts DEF RequestShape, RunSteps, SettleSteps
<1>8. RequestInv(s)'
  <2>1. CASE r.answered
    BY <1>4, <1>5, <2>1 DEF RequestInv, RunSteps, StartSteps, SettleSteps, Answered
  <2>2. CASE ~r.answered
    BY <1>5, <2>2, IdleFacts DEF RequestInv, RunSteps, StartSteps, SettleSteps, Answered
  <2> QED BY <1>1, <2>1, <2>2
<1>9. \A p \in Requests \ {q} : ~Clash(r, request[p])
  BY <1>0, RequestFacts
<1>10. \A p \in Requests \ {q} : ~Clash(s, request[p])
  BY <1>1, <1>5, <1>9, IdleFacts DEF Clash, CreateSteps, RunSteps, Answered
<1>11. ASSUME NEW p \in Requests \ {q}, request[p].pc # "idle" PROVE Undisturbed(request[p])
  <2>1. request[p].c \in Challenges
    BY <1>11, RequestFacts
  <2>2. request[p].pc \in {"create_call", "create_commit"} => request[p].c # c
    BY <1>1, <1>9 DEF Clash, CreateSteps
  <2>3. Answered(request[p], "settle_commit") =>
          challengeRow'[request[p].c].winner_agent_id = challengeRow[request[p].c].winner_agent_id
    BY <1>4, <1>6, <2>1
  <2> QED BY <1>1, <1>4, <1>6, <2>1, <2>2, <2>3 DEF Undisturbed, chainVars
<1>12. ASSUME NEW d \in Challenges PROVE ChallengeRowInv(d)'
  <2>1. CASE d # c
    BY <1>1, <1>4, <2>1, UntouchedRows
  <2>2. CASE d = c
    <3>1. r.answered => challenge'[c].status # "absent" /\ Len(r.todo) > 0
      BY <1>1 DEF RequestInv, Answered, chainVars
    <3> QED BY <1>1, <1>4, <1>6, <2>2, <3>1 DEF ChallengeRowInv, chainVars
  <2> QED BY <2>1, <2>2
<1>13. ASSUME NEW d \in Challenges, NEW a \in AgentIds PROVE RunRowInv(d, a)'
  BY <1>1, <1>4, <1>6, UntouchedRows
<1>14. ASSUME NEW d \in Challenges PROVE OwedInv(d)'
  <2>1. OwedInv(d) /\ \A p \in Requests \ {q} : request'[p] = request[p]
    BY <1>1, <1>3 DEF BackendInv
  <2>2. r.c = d /\ r.answered => challengeRow'[d].onchain_address
    BY <1>4
  <2>3. /\ challengeRow[d].onchain_address => challengeRow'[d].onchain_address
        /\ challengeRow'[d].status \in {"absent", "pending"} =>
             challengeRow[d].status \in {"absent", "pending"}
        /\ challengeRow[d].winner_agent_id # None => challengeRow'[d].winner_agent_id # None
    BY <1>4, <1>6
  <2> QED BY <1>0, <1>1, <2>1, <2>2, <2>3, OwedKept DEF chainVars
<1> QED BY <1>1, <1>3, <1>4, <1>5, <1>7, <1>8, <1>10, <1>11, <1>12, <1>13, <1>14,
           CommitInvariant

LEMMA NextContestantInvariant ==
  ASSUME BackendInv, NEW q \in Requests, NextContestant(q)
  PROVE  BackendInv'
<1>0. PICK r \in Request : r = request[q]
  BY RequestFacts
<1> DEFINE c == r.c
           a == Head(r.todo)
<1>1. /\ r.pc = "create_run" /\ c \in Challenges /\ r.todo \in ContestantLists
      /\ RequestShape(r) /\ RequestInv(r)
      /\ UNCHANGED <<chainVars, agentOnchain, challengeRow, records, faulty>>
      /\ ~NoMoreRuns(r)
  BY <1>0, RequestFacts DEF NextContestant, At
<1>2. r.todo # <<>> /\ a \in AgentIds /\ runRow[c][a].status = "absent"
  BY <1>1, ListFacts DEF NoMoreRuns
<1>3. /\ challengeRow \in [Challenges -> ChallengeRow]
      /\ runRow \in [Challenges -> [AgentIds -> RunRow]]
      /\ records \in [Challenges -> Nat]
      /\ request \in [Requests -> Request] /\ faulty \in BOOLEAN
  BY DEF BackendInv, BackendTypeOK
<1>4. \A p \in Requests \ {q} : ~Clash(r, request[p])
  BY <1>0, RequestFacts
<1>5. CASE a \in agentOnchain
  <2> DEFINE s == [r EXCEPT !.pc = "run_call"]
  <2>1. /\ request' = [request EXCEPT ![q] = s] /\ UNCHANGED runRow
    BY <1>0, <1>5 DEF NextContestant, Becomes
  <2>2. s \in Request /\ s.pc = "run_call" /\ s.c = c /\ s.todo = r.todo
    BY DEF Request, Steps
  <2> HIDE DEF s
  <2>3. RequestShape(s)
    BY <1>1, <1>2, <2>2 DEF RequestShape, RunSteps, SettleSteps
  <2>4. RequestInv(s)
    BY <1>1, <1>2, <2>2 DEF RequestInv, RunSteps, StartSteps, SettleSteps, Answered
  <2>5. \A p \in Requests \ {q} : ~Clash(s, request[p])
    BY <1>1, <1>4, <2>2 DEF Clash, CreateSteps, RunSteps, Answered
  <2>6. faulty' \in BOOLEAN /\ (~faulty' => ~faulty) /\ UNCHANGED <<chainVars, rowVars>>
    BY <1>1, <1>3, <2>1 DEF rowVars
  <2>7. request[q].pc = "create_run"
    BY <1>0, <1>1
  <2> QED BY <2>1, <2>2, <2>3, <2>4, <2>5, <2>6, <2>7, MoveInvariant
<1>6. CASE a \notin agentOnchain
  <2> DEFINE s == [r EXCEPT !.todo = Tail(@)]
             row == NewRunRow("pending_onchain", a, FALSE)
  <2>1. /\ request' = [request EXCEPT ![q] = s]
        /\ runRow' = [runRow EXCEPT ![c][a] = row]
    BY <1>0, <1>6 DEF NextContestant, Becomes
  <2>2. /\ s \in Request /\ s.pc = "create_run" /\ s.c = c
    BY <1>1, <1>2, ListFacts DEF Request, Steps
  <2>3. /\ row \in RunRow /\ row.status = "pending_onchain" /\ row.agent_id = a
        /\ ~row.onchain_address
    BY <1>2, NewRowTypes DEF NewRunRow
  <2> HIDE DEF s, row, a
  <2>4. /\ runRow' \in [Challenges -> [AgentIds -> RunRow]]
        /\ runRow'[c][a] = row
        /\ \A d \in Challenges, e \in AgentIds :
             d # c \/ e # a => runRow'[d][e] = runRow[d][e]
    BY <1>1, <1>2, <1>3, <2>1, <2>3
  <2>5. RequestShape(s)
    BY <1>1, <2>2 DEF RequestShape, RunSteps, SettleSteps
  <2>6. RequestInv(s)'
    <3>1. challengeRow'[s.c].onchain_address
      BY <1>1, <2>2 DEF RequestInv
    <3> QED BY <2>2, <3>1 DEF RequestInv, RunSteps, StartSteps, SettleSteps, Answered
  <2>7. \A p \in Requests \ {q} : ~Clash(s, request[p])
    BY <1>1, <1>4, <2>2 DEF Clash, CreateSteps, RunSteps, Answered
  <2>8. ASSUME NEW p \in Requests \ {q}, request[p].pc # "idle"
        PROVE  Undisturbed(request[p])
    <3>1. /\ request[p].c \in Challenges /\ RequestInv(request[p])
          /\ request[p].pc \in {"run_call", "run_commit"} \cup RunSteps =>
               Head(request[p].todo) \in AgentIds
      BY <2>8, RequestFacts
    <3>2. request[p].pc \in {"run_call", "run_commit"} => request[p].c # c
      BY <1>1, <1>4 DEF Clash, CreateSteps
    <3>3. request[p].pc \in RunSteps => request[p].c # c \/ Head(request[p].todo) # a
      BY <1>2, <3>1 DEF RequestInv, a
    <3>4. \A e \in AgentIds :
            runRow[request[p].c][e].status = "completed" =>
              runRow'[request[p].c][e] = runRow[request[p].c][e]
      BY <1>2, <2>4, <3>1 DEF a
    <3>5. request[p].pc \in {"run_call", "run_commit"} \cup RunSteps =>
            runRow'[request[p].c][Head(request[p].todo)]
              = runRow[request[p].c][Head(request[p].todo)]
      BY <2>4, <3>1, <3>2, <3>3
    <3> QED BY <1>1, <3>4, <3>5 DEF Undisturbed, chainVars
  <2>9. ASSUME NEW d \in Challenges PROVE ChallengeRowInv(d)'
    BY <1>1, UntouchedRows
  <2>10. ASSUME NEW d \in Challenges, NEW e \in AgentIds PROVE RunRowInv(d, e)'
    <3>1. CASE d = c /\ e = a
      <4>1. challengeRow[c].onchain_address
        BY <1>1 DEF RequestInv
      <4> QED BY <1>1, <2>3, <2>4, <3>1, <4>1 DEF RunRowInv, chainVars
    <3>2. CASE d # c \/ e # a
      BY <1>1, <2>4, <3>2, UntouchedRows
    <3> QED BY <3>1, <3>2
  <2>11. ASSUME NEW d \in Challenges PROVE OwedInv(d)'
    <3>1. OwedInv(d) /\ \A p \in Requests \ {q} : request'[p] = request[p]
      BY <1>3, <2>1 DEF BackendInv
    <3>2. ~runRow[c][a].onchain_address
      BY <1>1, <1>2 DEF BackendInv, RunRowInv, a
    <3>3. \A e \in AgentIds : runRow[d][e].onchain_address => runRow'[d][e].onchain_address
      BY <2>4, <3>2
    <3> QED BY <1>0, <1>1, <3>1, <3>3, OwedKept DEF chainVars
  <2> QED BY <1>1, <1>3, <2>1, <2>2, <2>4, <2>5, <2>6, <2>7, <2>8, <2>9, <2>10, <2>11,
             CommitInvariant
<1> QED BY <1>5, <1>6

LEMMA CreateRunCommitInvariant ==
  ASSUME BackendInv, NEW q \in Requests, CreateRunCommit(q)
  PROVE  BackendInv'
<1>0. PICK r \in Request : r = request[q]
  BY RequestFacts
<1> DEFINE c == r.c
           a == Head(r.todo)
           s == [r EXCEPT !.pc = "create_run", !.todo = Tail(@)]
           row == RunRowAfterCall(a, r.answered)
<1>1. /\ r.pc = "run_commit" /\ c \in Challenges /\ r.todo \in ContestantLists
      /\ r.todo # <<>> /\ a \in AgentIds /\ r.answered \in BOOLEAN
      /\ RequestShape(r) /\ RequestInv(r)
      /\ UNCHANGED <<chainVars, agentOnchain, challengeRow, records, faulty>>
      /\ request' = [request EXCEPT ![q] = s]
      /\ runRow' = [runRow EXCEPT ![c][a] = row]
  BY <1>0, RequestFacts DEF CreateRunCommit, At, Becomes, Request
<1>2. /\ row \in RunRow /\ row.status \in {"pending", "onchain_failed"}
      /\ row.agent_id = a /\ row.onchain_address = r.answered
  BY <1>1, NewRowTypes DEF RunRowAfterCall, NewRunRow
<1>3. /\ challengeRow \in [Challenges -> ChallengeRow]
      /\ runRow \in [Challenges -> [AgentIds -> RunRow]]
      /\ records \in [Challenges -> Nat]
      /\ request \in [Requests -> Request]
  BY DEF BackendInv, BackendTypeOK
<1>4. s \in Request /\ s.pc = "create_run" /\ s.c = c
  BY <1>1, ListFacts DEF Request, Steps
<1> HIDE DEF s, row, a
<1>5. /\ runRow' \in [Challenges -> [AgentIds -> RunRow]]
      /\ runRow'[c][a] = row
      /\ \A d \in Challenges, e \in AgentIds : d # c \/ e # a => runRow'[d][e] = runRow[d][e]
  BY <1>1, <1>2, <1>3
<1>6. /\ runRow[c][a].status = "absent" /\ ~runRow[c][a].onchain_address
      /\ challengeRow[c].onchain_address
      /\ r.answered => run[c][a].status # "absent"
  BY <1>1 DEF RequestInv, BackendInv, RunRowInv, Answered, a
<1>7. \A p \in Requests \ {q} : ~Clash(r, request[p])
  BY <1>0, RequestFacts
<1>8. RequestShape(s)
  BY <1>1, <1>4 DEF RequestShape, RunSteps, SettleSteps
<1>9. RequestInv(s)'
  <2>1. challengeRow'[s.c].onchain_address
    BY <1>1, <1>4, <1>6
  <2> QED BY <1>4, <2>1 DEF RequestInv, RunSteps, StartSteps, SettleSteps, Answered
<1>10. \A p \in Requests \ {q} : ~Clash(s, request[p])
  BY <1>1, <1>4, <1>7 DEF Clash, CreateSteps, RunSteps, Answered
<1>11. ASSUME NEW p \in Requests \ {q}, request[p].pc # "idle"
       PROVE  Undisturbed(request[p])
  <2>1. /\ request[p].c \in Challenges /\ RequestInv(request[p])
        /\ request[p].pc \in {"run_call", "run_commit"} \cup RunSteps =>
             Head(request[p].todo) \in AgentIds
    BY <1>11, RequestFacts
  <2>2. request[p].pc \in {"run_call", "run_commit"} => request[p].c # c
    BY <1>1, <1>7 DEF Clash, CreateSteps
  <2>3. request[p].pc \in RunSteps => request[p].c # c \/ Head(request[p].todo) # a
    BY <1>6, <2>1 DEF RequestInv
  <2>4. \A e \in AgentIds :
          runRow[request[p].c][e].status = "completed" =>
            runRow'[request[p].c][e] = runRow[request[p].c][e]
    BY <1>5, <1>6, <2>1
  <2>5. request[p].pc \in {"run_call", "run_commit"} \cup RunSteps =>
          runRow'[request[p].c][Head(request[p].todo)]
            = runRow[request[p].c][Head(request[p].todo)]
    BY <1>5, <2>1, <2>2, <2>3
  <2> QED BY <1>1, <2>4, <2>5 DEF Undisturbed, chainVars
<1>12. ASSUME NEW d \in Challenges PROVE ChallengeRowInv(d)'
  BY <1>1, UntouchedRows
<1>13. ASSUME NEW d \in Challenges, NEW e \in AgentIds PROVE RunRowInv(d, e)'
  <2>1. CASE d = c /\ e = a
    BY <1>1, <1>2, <1>5, <1>6, <2>1 DEF RunRowInv, chainVars
  <2>2. CASE d # c \/ e # a
    BY <1>1, <1>5, <2>2, UntouchedRows
  <2> QED BY <2>1, <2>2
<1>14. ASSUME NEW d \in Challenges PROVE OwedInv(d)'
  <2>1. OwedInv(d) /\ \A p \in Requests \ {q} : request'[p] = request[p]
    BY <1>1, <1>3 DEF BackendInv
  <2>2. \A e \in AgentIds : runRow[d][e].onchain_address => runRow'[d][e].onchain_address
    BY <1>5, <1>6
  <2>3. r.c = d /\ r.answered => runRow'[d][Head(r.todo)].onchain_address
    BY <1>2, <1>5 DEF a
  <2> QED BY <1>0, <1>1, <2>1, <2>2, <2>3, OwedKept DEF chainVars
<1> QED BY <1>1, <1>3, <1>4, <1>5, <1>8, <1>9, <1>10, <1>11, <1>12, <1>13, <1>14,
           CommitInvariant

(* The status is written whatever the row says by now: it is still about a  *)
(* challenge on chain.                                                      *)
LEMMA StartCommitInvariant ==
  ASSUME BackendInv, NEW q \in Requests, StartCommit(q)
  PROVE  BackendInv'
<1>0. PICK r \in Request : r = request[q]
  BY RequestFacts
<1> DEFINE c == r.c
           row == [challengeRow[c] EXCEPT !.status = IF r.answered THEN "active" ELSE @]
<1>1. /\ r.pc = "start_commit" /\ c \in Challenges /\ r.answered \in BOOLEAN
      /\ RequestShape(r) /\ RequestInv(r)
      /\ UNCHANGED <<chainVars, agentOnchain, runRow, records, faulty>>
      /\ challengeRow' = [challengeRow EXCEPT ![c] = row]
      /\ request' = [request EXCEPT ![q] = Idle]
  BY <1>0, RequestFacts DEF StartCommit, At, Becomes, Ends, Request, StatusAfterStart
<1>2. /\ challengeRow \in [Challenges -> ChallengeRow]
      /\ runRow \in [Challenges -> [AgentIds -> RunRow]]
      /\ records \in [Challenges -> Nat]
      /\ request \in [Requests -> Request]
  BY DEF BackendInv, BackendTypeOK
<1>3. /\ row \in ChallengeRow
      /\ row.status = (IF r.answered THEN "active" ELSE challengeRow[c].status)
      /\ row.num_contestants = challengeRow[c].num_contestants
      /\ row.onchain_address = challengeRow[c].onchain_address
      /\ row.winner_agent_id = challengeRow[c].winner_agent_id
  <2>1. challengeRow[c] \in ChallengeRow
    BY <1>1, <1>2
  <2> QED BY <2>1 DEF ChallengeRow
<1> HIDE DEF row
<1>4. /\ challengeRow' \in [Challenges -> ChallengeRow]
      /\ challengeRow'[c] = row
      /\ \A d \in Challenges \ {c} : challengeRow'[d] = challengeRow[d]
  BY <1>1, <1>2, <1>3
<1>5. /\ challengeRow[c].onchain_address
      /\ r.answered => challenge[c].started_at # None
  BY <1>1 DEF RequestInv, StartSteps, Answered
<1>6. ChallengeRowInv(c)
  BY <1>1 DEF BackendInv
<1>7. challengeRow[c].status \notin {"absent", "onchain_failed"}
  BY <1>5, <1>6 DEF ChallengeRowInv
<1>8. ASSUME NEW p \in Requests \ {q}, request[p].pc # "idle" PROVE Undisturbed(request[p])
  <2>1. request[p].c \in Challenges /\ RequestInv(request[p])
    BY <1>8, RequestFacts
  <2>2. request[p].pc \in {"create_call", "create_commit"} => request[p].c # c
    BY <1>7, <2>1 DEF RequestInv, HasRow
  <2> QED BY <1>1, <1>3, <1>4, <2>1, <2>2 DEF Undisturbed, chainVars
<1>9. ASSUME NEW d \in Challenges PROVE ChallengeRowInv(d)'
  <2>1. CASE d # c
    BY <1>1, <1>4, <2>1, UntouchedRows
  <2>2. CASE d = c
    <3>1. challengeRow'[c].winner_agent_id # None =>
            TiesOnChain(c, challengeRow[c].winner_agent_id)'
      BY <1>1, <1>3, <1>4, <1>6 DEF ChallengeRowInv, TiesOnChain, chainVars
    <3> QED BY <1>1, <1>3, <1>4, <1>5, <1>6, <1>7, <2>2, <3>1 DEF ChallengeRowInv, chainVars
  <2> QED BY <2>1, <2>2
<1>10. ASSUME NEW d \in Challenges, NEW a \in AgentIds PROVE RunRowInv(d, a)'
  BY <1>1, <1>3, <1>4, UntouchedRows
<1>11. ASSUME NEW d \in Challenges PROVE OwedInv(d)'
  <2>1. OwedInv(d) /\ \A p \in Requests \ {q} : request'[p] = request[p]
    BY <1>1, <1>2 DEF BackendInv
  <2>2. r.c = d /\ r.answered => challengeRow'[d].status \notin {"absent", "pending"}
    BY <1>3, <1>4
  <2>3. /\ challengeRow[d].onchain_address => challengeRow'[d].onchain_address
        /\ challengeRow'[d].status \in {"absent", "pending"} =>
             challengeRow[d].status \in {"absent", "pending"}
        /\ challengeRow[d].winner_agent_id # None => challengeRow'[d].winner_agent_id # None
    BY <1>3, <1>4
  <2> QED BY <1>0, <1>1, <2>1, <2>2, <2>3, OwedKept DEF chainVars
<1>12. RequestInv(Idle)'
  BY IdleFacts DEF RequestInv, RunSteps, StartSteps, SettleSteps, Answered
<1> QED BY <1>1, <1>2, <1>4, <1>8, <1>9, <1>10, <1>11, <1>12, IdleFacts, CommitInvariant

LEMMA FinalizeCommitInvariant ==
  ASSUME BackendInv, NEW q \in Requests, FinalizeCommit(q)
  PROVE  BackendInv'
<1>0. PICK r \in Request : r = request[q]
  BY RequestFacts
<1> DEFINE c == r.c
           a == Head(r.todo)
           row == [runRow[c][a] EXCEPT !.status = "completed",
                                       !.completion = r.result.completion,
                                       !.ending_usdc = r.result.ending_usdc,
                                       !.ended_at = r.result.ended_at]
<1>1. /\ r.pc = "finalize_commit" /\ c \in Challenges /\ a \in AgentIds
      /\ RequestShape(r) /\ RequestInv(r)
      /\ UNCHANGED <<chainVars, agentOnchain, challengeRow, records, faulty>>
      /\ request' = [request EXCEPT ![q] = Idle]
      /\ runRow' = [runRow EXCEPT ![c][a] = row]
  BY <1>0, RequestFacts DEF FinalizeCommit, At, Becomes, Ends, RunSteps
<1>2. /\ challengeRow \in [Challenges -> ChallengeRow]
      /\ runRow \in [Challenges -> [AgentIds -> RunRow]]
      /\ records \in [Challenges -> Nat]
      /\ request \in [Requests -> Request]
  BY DEF BackendInv, BackendTypeOK
<1>3. /\ r.result.completion \in CompletionStatuses /\ r.result.ending_usdc \in Nat
      /\ r.result.ended_at \in Nat
      /\ r.result.completion # None /\ r.result.ending_usdc # None /\ r.result.ended_at # None
  BY <1>1, NoneAssumption, NoneNotAStatus DEF RequestShape, Result
<1>4. /\ row \in RunRow /\ row.status = "completed" /\ row.agent_id = runRow[c][a].agent_id
      /\ row.onchain_address = runRow[c][a].onchain_address
      /\ row.completion = r.result.completion /\ row.ending_usdc = r.result.ending_usdc
      /\ row.ended_at = r.result.ended_at
  <2>1. runRow[c][a] \in RunRow
    BY <1>1, <1>2
  <2> QED BY <1>3, <2>1 DEF RunRow, OptionOf
<1>5. /\ runRow[c][a].status = "running"
      /\ run[c][a].status = "completed" => Agrees(run[c][a], r.result)
  BY <1>1 DEF RequestInv, RunSteps
<1>6. \A p \in Requests \ {q} : ~Clash(r, request[p])
  BY <1>0, RequestFacts
<1>7. \A p \in Requests \ {q} :
        request[p].pc \in RunSteps => request[p].c # c \/ Head(request[p].todo) # a
  BY <1>1, <1>6 DEF Clash, RunSteps
<1> HIDE DEF row, a
<1>8. /\ runRow' \in [Challenges -> [AgentIds -> RunRow]]
      /\ runRow'[c][a] = row
      /\ \A d \in Challenges, e \in AgentIds : d # c \/ e # a => runRow'[d][e] = runRow[d][e]
  BY <1>1, <1>2, <1>4
<1>9. ASSUME NEW p \in Requests \ {q}, request[p].pc # "idle"
      PROVE  Undisturbed(request[p])
  <2>1. /\ request[p].c \in Challenges /\ RequestInv(request[p])
        /\ request[p].pc \in {"run_call", "run_commit"} \cup RunSteps =>
             Head(request[p].todo) \in AgentIds
    BY <1>9, RequestFacts
  <2>2. request[p].pc \in {"run_call", "run_commit"} =>
          request[p].c # c \/ Head(request[p].todo) # a
    BY <1>5, <2>1 DEF RequestInv
  <2>3. \A e \in AgentIds :
          runRow[request[p].c][e].status = "completed" =>
            runRow'[request[p].c][e] = runRow[request[p].c][e]
    BY <1>5, <1>8, <2>1
  <2>4. request[p].pc \in {"run_call", "run_commit"} \cup RunSteps =>
          runRow'[request[p].c][Head(request[p].todo)]
            = runRow[request[p].c][Head(request[p].todo)]
    BY <1>7, <1>8, <2>1, <2>2
  <2> QED BY <1>1, <2>3, <2>4 DEF Undisturbed, chainVars
<1>10. ASSUME NEW d \in Challenges PROVE ChallengeRowInv(d)'
  BY <1>1, UntouchedRows
<1>11. ASSUME NEW d \in Challenges, NEW e \in AgentIds PROVE RunRowInv(d, e)'
  <2>1. CASE d = c /\ e = a
    <3>1. RunRowInv(c, a)
      BY <1>1 DEF BackendInv
    <3> QED BY <1>1, <1>3, <1>4, <1>5, <1>8, <2>1, <3>1 DEF RunRowInv, Agrees, chainVars
  <2>2. CASE d # c \/ e # a
    BY <1>1, <1>8, <2>2, UntouchedRows
  <2> QED BY <2>1, <2>2
<1>12. ASSUME NEW d \in Challenges PROVE OwedInv(d)'
  <2>1. OwedInv(d) /\ \A p \in Requests \ {q} : request'[p] = request[p]
    BY <1>1, <1>2 DEF BackendInv
  <2>2. \A e \in AgentIds : runRow[d][e].onchain_address => runRow'[d][e].onchain_address
    BY <1>4, <1>8
  <2> QED BY <1>0, <1>1, <2>1, <2>2, OwedKept DEF chainVars
<1>13. RequestInv(Idle)'
  BY IdleFacts DEF RequestInv, RunSteps, StartSteps, SettleSteps, Answered
<1> QED BY <1>1, <1>2, <1>8, <1>9, <1>10, <1>11, <1>12, <1>13, IdleFacts, CommitInvariant

LEMMA SettleCommitInvariant ==
  ASSUME BackendInv, NEW q \in Requests, SettleCommit(q)
  PROVE  BackendInv'
<1>0. PICK r \in Request : r = request[q]
  BY RequestFacts
<1> DEFINE c == r.c
<1>1. /\ r.pc = "settle_commit" /\ c \in Challenges /\ r.answered \in BOOLEAN
      /\ RequestShape(r) /\ RequestInv(r)
      /\ UNCHANGED <<chainVars, agentOnchain, runRow, faulty>>
      /\ request' = [request EXCEPT ![q] = Idle]
  BY <1>0, RequestFacts DEF SettleCommit, At, Becomes, Ends, Request
<1>2. CASE ~r.answered
  <2>1. UNCHANGED <<chainVars, rowVars>>
    BY <1>0, <1>1, <1>2 DEF SettleCommit, Settles, rowVars
  <2>2. faulty' \in BOOLEAN /\ (~faulty' => ~faulty) /\ ~request[q].answered
    BY <1>0, <1>1, <1>2 DEF BackendInv, BackendTypeOK
  <2> QED BY <1>1, <2>1, <2>2, IdleFacts, MoveInvariant
<1>3. CASE r.answered
  <2> DEFINE row == [challengeRow[c] EXCEPT !.status = "completed",
                                            !.winner_agent_id = r.winner]
  <2>1. /\ challengeRow' = [challengeRow EXCEPT ![c] = row]
        /\ records' = [records EXCEPT ![c] = @ + 1]
    BY <1>0, <1>1, <1>3 DEF SettleCommit, Settles
  <2>2. /\ challengeRow \in [Challenges -> ChallengeRow]
        /\ runRow \in [Challenges -> [AgentIds -> RunRow]]
        /\ records \in [Challenges -> Nat]
        /\ request \in [Requests -> Request]
    BY DEF BackendInv, BackendTypeOK
  <2>3. r.winner \in AgentIds /\ r.winner # None /\ SettlementPlan(r)
    BY <1>1, NoneIsNothing DEF RequestShape, RequestInv, SettleSteps
  <2>4. /\ row \in ChallengeRow /\ row.status = "completed" /\ row.winner_agent_id = r.winner
        /\ row.num_contestants = challengeRow[c].num_contestants
        /\ row.onchain_address = challengeRow[c].onchain_address
    <3>1. challengeRow[c] \in ChallengeRow
      BY <1>1, <2>2
    <3> QED BY <2>3, <3>1 DEF ChallengeRow, OptionOf
  <2> HIDE DEF row
  <2>5. /\ challengeRow' \in [Challenges -> ChallengeRow] /\ challengeRow'[c] = row
        /\ \A d \in Challenges \ {c} :
             challengeRow'[d] = challengeRow[d] /\ records'[d] = records[d]
        /\ records' \in [Challenges -> Nat] /\ records'[c] = records[c] + 1
    BY <1>1, <2>1, <2>2, <2>4
  <2>6. /\ challenge[c].status = "completed" /\ TiesOnChain(c, r.winner)
        /\ challengeRow[c].winner_agent_id = None
    BY <1>1, <1>3 DEF RequestInv, Answered
  <2>7. ChallengeRowInv(c)
    BY <1>1 DEF BackendInv
  <2>8. records[c] = 0
    BY <2>6, <2>7 DEF ChallengeRowInv
  <2>9. challengeRow[c].onchain_address /\ HasRow(c)
    <3>1. PICK a \in AgentIds : runRow[c][a].status = "completed"
      BY <1>1, <2>3, ListFacts DEF SettlementPlan, Request
    <3>2. challengeRow[c].onchain_address
      BY <1>1, <3>1 DEF BackendInv, RunRowInv
    <3> QED BY <2>7, <3>2 DEF ChallengeRowInv, HasRow
  <2>10. ASSUME NEW p \in Requests \ {q}, request[p].pc # "idle"
         PROVE  Undisturbed(request[p])
    <3>1. request[p].c \in Challenges /\ RequestInv(request[p])
      BY <2>10, RequestFacts
    <3>2. request[p].pc \in {"create_call", "create_commit"} => request[p].c # c
      BY <2>9, <3>1 DEF RequestInv
    <3>3. ~Clash(r, request[p])
      BY <1>0, RequestFacts
    <3>4. Answered(request[p], "settle_commit") => request[p].c # c
      BY <1>1, <1>3, <3>3 DEF Clash, Answered
    <3> QED BY <1>1, <2>4, <2>5, <3>1, <3>2, <3>4 DEF Undisturbed, chainVars
  <2>11. ASSUME NEW d \in Challenges PROVE ChallengeRowInv(d)'
    <3>1. CASE d # c
      BY <1>1, <2>5, <3>1, UntouchedRows
    <3>2. CASE d = c
      <4>1. TiesOnChain(c, r.winner)'
        BY <1>1, <2>6 DEF TiesOnChain, chainVars
      <4>2. /\ challengeRow'[d].winner_agent_id = r.winner
            /\ TiesOnChain(d, challengeRow[d].winner_agent_id)'
            /\ challenge' = challenge
        BY <1>1, <2>4, <2>5, <3>2, <4>1 DEF chainVars
      <4>3. /\ challengeRow'[d].status = "completed"
            /\ challengeRow'[d].num_contestants = challengeRow[d].num_contestants
            /\ challengeRow'[d].onchain_address = challengeRow[d].onchain_address
        BY <2>4, <2>5, <3>2
      <4>5. challengeRow'[d].onchain_address
        BY <2>9, <3>2, <4>3
      <4>6. records'[d] = 1
        BY <2>5, <2>8, <3>2
      <4>4. /\ challengeRow[d].num_contestants > 0
            /\ challengeRow[d].num_contestants <= MaxContestants
        BY <2>7, <2>9, <3>2 DEF ChallengeRowInv
      <4> QED BY <2>3, <2>6, <3>2, <4>2, <4>3, <4>4, <4>5, <4>6 DEF ChallengeRowInv
    <3> QED BY <3>1, <3>2
  <2>12. ASSUME NEW d \in Challenges, NEW a \in AgentIds PROVE RunRowInv(d, a)'
    BY <1>1, <2>4, <2>5, UntouchedRows
  <2>13. ASSUME NEW d \in Challenges PROVE OwedInv(d)'
    <3>1. OwedInv(d) /\ \A p \in Requests \ {q} : request'[p] = request[p]
      BY <1>1, <2>2 DEF BackendInv
    <3>2. r.c = d => challengeRow'[d].winner_agent_id # None
      BY <2>3, <2>4, <2>5
    <3>3. /\ challengeRow[d].onchain_address => challengeRow'[d].onchain_address
          /\ challengeRow'[d].status \in {"absent", "pending"} =>
               challengeRow[d].status \in {"absent", "pending"}
          /\ challengeRow[d].winner_agent_id # None => challengeRow'[d].winner_agent_id # None
      BY <2>3, <2>4, <2>5
    <3> QED BY <1>0, <1>1, <3>1, <3>2, <3>3, OwedKept DEF chainVars
  <2>14. RequestInv(Idle)'
    BY IdleFacts DEF RequestInv, RunSteps, StartSteps, SettleSteps, Answered
  <2>15. runRow' \in [Challenges -> [AgentIds -> RunRow]]
    BY <1>1, <2>2
  <2> QED BY <1>1, <2>5, <2>10, <2>11, <2>12, <2>13, <2>14, <2>15, IdleFacts, CommitInvariant
<1> QED BY <1>1, <1>2, <1>3

(* A run is executed from a row that is not final, its chain account open.  *)
LEMMA ExecuteRunInvariant ==
  ASSUME BackendInv, OnlyExecuted,
         NEW q \in Requests, NEW c \in Challenges, NEW a \in AgentIds, ExecuteRun(q, c, a)
  PROVE  BackendInv'
<1> DEFINE row == [runRow[c][a] EXCEPT !.status = "running"]
           s == [Idle EXCEPT !.pc = "loop", !.c = c, !.todo = <<a>>]
<1>1. /\ request[q].pc = "idle"
      /\ runRow[c][a].status \in {"pending", "pending_onchain", "onchain_failed"}
      /\ UNCHANGED <<chainVars, agentOnchain, challengeRow, records, faulty>>
      /\ request' = [request EXCEPT ![q] = s]
      /\ runRow' = [runRow EXCEPT ![c][a] = row]
  BY DEF ExecuteRun, At, Becomes
<1>2. /\ challengeRow \in [Challenges -> ChallengeRow]
      /\ runRow \in [Challenges -> [AgentIds -> RunRow]]
      /\ records \in [Challenges -> Nat]
      /\ request \in [Requests -> Request]
  BY DEF BackendInv, BackendTypeOK
<1>3. /\ row \in RunRow /\ row.status = "running" /\ row.agent_id = runRow[c][a].agent_id
      /\ row.onchain_address = runRow[c][a].onchain_address
  <2>1. runRow[c][a] \in RunRow
    BY <1>2
  <2> QED BY <2>1 DEF RunRow
<1>4. s \in Request /\ s.pc = "loop" /\ s.c = c /\ s.todo = <<a>>
  BY ShortLists DEF Idle, Request, Steps, OptionOf
<1>5. s.todo # <<>> /\ Head(s.todo) = a
  BY <1>4, ShortLists
<1> HIDE DEF row, s
<1>6. /\ runRow' \in [Challenges -> [AgentIds -> RunRow]]
      /\ runRow'[c][a] = row
      /\ \A d \in Challenges, e \in AgentIds : d # c \/ e # a => runRow'[d][e] = runRow[d][e]
  BY <1>1, <1>2, <1>3
<1>7. run[c][a].status # "completed"
  BY <1>1 DEF OnlyExecuted
<1>8. RequestShape(s)
  BY <1>4, <1>5 DEF RequestShape, RunSteps, SettleSteps
<1>9. RequestInv(s)'
  <2>1. runRow'[s.c][Head(s.todo)].status = "running" /\ run'[s.c][Head(s.todo)].status # "completed"
    BY <1>1, <1>3, <1>4, <1>5, <1>6, <1>7 DEF chainVars
  <2> QED BY <1>4, <2>1 DEF RequestInv, RunSteps, StartSteps, SettleSteps, Answered
<1>10. \A p \in Requests \ {q} :
         request[p].pc \in RunSteps => request[p].c # c \/ Head(request[p].todo) # a
  BY <1>1, RequestFacts DEF RequestInv, RunSteps
<1>11. \A p \in Requests \ {q} : ~Clash(s, request[p])
  BY <1>4, <1>5, <1>10 DEF Clash, CreateSteps, RunSteps, Answered
<1>12. ASSUME NEW p \in Requests \ {q}, request[p].pc # "idle"
       PROVE  Undisturbed(request[p])
  <2>1. /\ request[p].c \in Challenges /\ RequestInv(request[p])
        /\ request[p].pc \in {"run_call", "run_commit"} \cup RunSteps =>
             Head(request[p].todo) \in AgentIds
    BY <1>12, RequestFacts
  <2>2. request[p].pc \in {"run_call", "run_commit"} =>
          request[p].c # c \/ Head(request[p].todo) # a
    BY <1>1, <2>1 DEF RequestInv
  <2>3. \A e \in AgentIds :
          runRow[request[p].c][e].status = "completed" =>
            runRow'[request[p].c][e] = runRow[request[p].c][e]
    BY <1>1, <1>6, <2>1
  <2>4. request[p].pc \in {"run_call", "run_commit"} \cup RunSteps =>
          runRow'[request[p].c][Head(request[p].todo)]
            = runRow[request[p].c][Head(request[p].todo)]
    BY <1>6, <1>10, <2>1, <2>2
  <2> QED BY <1>1, <2>3, <2>4 DEF Undisturbed, chainVars
<1>13. ASSUME NEW d \in Challenges PROVE ChallengeRowInv(d)'
  BY <1>1, UntouchedRows
<1>14. ASSUME NEW d \in Challenges, NEW e \in AgentIds PROVE RunRowInv(d, e)'
  <2>1. CASE d = c /\ e = a
    <3>1. RunRowInv(c, a)
      BY DEF BackendInv
    <3> QED BY <1>1, <1>3, <1>6, <2>1, <3>1 DEF RunRowInv, chainVars
  <2>2. CASE d # c \/ e # a
    BY <1>1, <1>6, <2>2, UntouchedRows
  <2> QED BY <2>1, <2>2
<1>15. ASSUME NEW d \in Challenges PROVE OwedInv(d)'
  <2>1. OwedInv(d) /\ \A p \in Requests \ {q} : request'[p] = request[p]
    BY <1>1, <1>2 DEF BackendInv
  <2>2. \A e \in AgentIds : runRow[d][e].onchain_address => runRow'[d][e].onchain_address
    BY <1>3, <1>6
  <2> QED BY <1>1, <2>1, <2>2, OwedKept DEF chainVars
<1> QED BY <1>1, <1>2, <1>4, <1>6, <1>8, <1>9, <1>11, <1>12, <1>13, <1>14, <1>15,
           CommitInvariant

-----------------------------------------------------------------------------
(* The backend's own steps.                                                 *)

LEMMA ServeInvariant ==
  ASSUME BackendInv, NEW q \in Requests, Serve(q)
  PROVE  BackendInv'
<1>1. CASE \E usdc \in Balances, completion \in Completions : LoopFinishes(q, usdc, completion)
  BY <1>1, LoopFinishesInvariant
<1> QED
  BY <1>1, CreateChallengeCallInvariant, CreateChallengeCommitInvariant,
     CreateEndsInvariant, NextContestantInvariant, CreateRunCallInvariant,
     CreateRunCommitInvariant, StartCallInvariant, StartCommitInvariant,
     FinalizeCallInvariant, FinalizeCommitInvariant, SettleCallInvariant,
     SettleCommitInvariant
  DEF Serve

(* A step that no request takes.                                            *)
LEMMA OutsideInvariant ==
  ASSUME BackendInv, [Next]_vars, UNCHANGED <<challengeRow, records, request>>,
         agentOnchain' \subseteq AgentIds, faulty' \in BOOLEAN,
         runRow' \in [Challenges -> [AgentIds -> RunRow]],
         \A p \in Requests : request[p].pc # "idle" => Undisturbed(request[p]),
         \A c \in Challenges : OwedInv(c)',
         \A c \in Challenges, a \in AgentIds : RunRowInv(c, a)'
  PROVE  BackendInv'
<1>1. IInv' /\ Monotone
  BY StepInvariant, ChainMonotone DEF BackendInv
<1>2. BackendTypeOK'
  BY <1>1 DEF BackendInv, BackendTypeOK, IInv
<1>3. \A p \in Requests : RequestShape(request'[p]) /\ RequestInv(request[p])'
  BY <1>1, RequestKept
<1>4. \A c \in Challenges : ChallengeRowInv(c)'
  BY <1>1, RowsKept
<1>5. \A p, q \in Requests : p # q => ~Clash(request'[p], request'[q])
  BY DEF BackendInv
<1> QED BY <1>1, <1>2, <1>3, <1>4, <1>5 DEF BackendInv

(* Nothing a request or a row is about moves.                               *)
LEMMA ElsewhereInvariant ==
  ASSUME BackendInv, [Next]_vars,
         UNCHANGED <<challenge, run, challengeRow, runRow, records, request>>,
         agentOnchain' \subseteq AgentIds, faulty' \in BOOLEAN, ~faulty' => ~faulty
  PROVE  BackendInv'
<1>1. \A p \in Requests : Undisturbed(request[p])
  BY DEF Undisturbed
<1>2. \A c \in Challenges : OwedInv(c)'
  BY OwedKept DEF BackendInv
<1>3. \A c \in Challenges, a \in AgentIds : RunRowInv(c, a)'
  BY DEF BackendInv, RunRowInv
<1>4. runRow' \in [Challenges -> [AgentIds -> RunRow]]
  BY DEF BackendInv, BackendTypeOK
<1> QED BY <1>1, <1>2, <1>3, <1>4, OutsideInvariant

LEMMA TicksInvariant ==
  ASSUME BackendInv, ClockTicks
  PROVE  BackendInv'
BY ElsewhereInvariant DEF ClockTicks, Tick, Next, rowVars, BackendInv, BackendTypeOK

LEMMA CompleteRegistrationInvariant ==
  ASSUME BackendInv, NEW a \in AgentIds, CompleteRegistration(a)
  PROVE  BackendInv'
<1>1. agentOnchain' \subseteq AgentIds /\ faulty' \in BOOLEAN /\ (~faulty' => ~faulty)
  BY DEF CompleteRegistration, BackendInv, BackendTypeOK
<1>2. UNCHANGED vars
  BY DEF CompleteRegistration, chainVars, vars
<1> QED BY <1>1, <1>2, ElsewhereInvariant DEF CompleteRegistration, chainVars

-----------------------------------------------------------------------------
(* What one step of a request changes, seen from the script.                *)

RequestEffect(q) ==
  LET r == request[q]
      s == request'[q]
  IN /\ \A p \in Requests \ {q} : request'[p] = request[p]
     /\ s.pc \in RunSteps => r.pc \in RunSteps
     /\ s.pc \in CreateSteps =>
          /\ r.pc \in CreateSteps /\ s.c = r.c
          /\ \A i \in DOMAIN s.todo : \E j \in DOMAIN r.todo : s.todo[i] = r.todo[j]
     /\ Answered(s, "start_commit") => challenge[s.c].status = "pending"
     /\ r.pc # "idle" /\ s.pc # "idle" =>
          /\ s.c = r.c
          /\ r.pc \in CreateSteps => s.pc \in CreateSteps
          /\ r.pc \in StartSteps => s.pc \in StartSteps
          /\ r.pc \in SettleSteps => s.pc \in SettleSteps

ChainEffect(r) ==
  /\ strategies' = strategies
  /\ \A c \in Challenges, a \in AgentIds :
       /\ run'[c][a].status # "absent" =>
            \/ run[c][a].status # "absent"
            \/ r.pc = "run_call" /\ r.c = c /\ a = Head(r.todo)
       /\ run'[c][a].status = "completed" =>
            run[c][a].status = "completed" \/ runRow[c][a].status = "running"

RowEffect(r) ==
  \A c \in Challenges :
    /\ \A a \in AgentIds :
         /\ runRow[c][a].status \in {"running", "completed"} =>
              runRow'[c][a].status \in {"running", "completed"}
         /\ runRow[c][a].status = "completed" => runRow'[c][a] = runRow[c][a]
         /\ runRow'[c][a].status = "completed" =>
              runRow[c][a].status = "completed" \/ r.pc \in RunSteps
    /\ challengeRow[c].onchain_address => challengeRow'[c].onchain_address
    /\ challengeRow[c].winner_agent_id # None => challengeRow'[c].winner_agent_id # None
    /\ challengeRow[c].status = "completed" =>
         challengeRow'[c].status = "completed" \/ AnsweredFor(r, "start_commit", c)

Effect(q) == RequestEffect(q) /\ ChainEffect(request[q]) /\ RowEffect(request[q])

LEMMA NoChainEffect ==
  ASSUME NEW r, UNCHANGED <<strategies, run>>
  PROVE  ChainEffect(r)
BY DEF ChainEffect

LEMMA NoRowEffect ==
  ASSUME NEW r, UNCHANGED rowVars
  PROVE  RowEffect(r)
BY DEF RowEffect, rowVars

(* A request that ends, and one that takes its next step.                   *)
LEMMA EndEffect ==
  ASSUME BackendInv, NEW q \in Requests, request' = [request EXCEPT ![q] = Idle]
  PROVE  RequestEffect(q)
<1>1. request'[q] = Idle /\ \A p \in Requests \ {q} : request'[p] = request[p]
  BY RequestFacts
<1> QED BY <1>1, IdleFacts DEF RequestEffect, RunSteps, CreateSteps, Answered

LEMMA StepEffect ==
  ASSUME BackendInv, NEW q \in Requests, NEW s \in Request,
         request' = [request EXCEPT ![q] = s], s.c = request[q].c,
         \/ request[q].pc \in CreateSteps /\ s.pc \in CreateSteps
         \/ request[q].pc \in RunSteps /\ s.pc \in RunSteps
         \/ request[q].pc \in StartSteps /\ s.pc \in StartSteps
         \/ request[q].pc \in SettleSteps /\ s.pc \in SettleSteps,
         \A i \in DOMAIN s.todo : \E j \in DOMAIN request[q].todo :
           s.todo[i] = request[q].todo[j],
         Answered(s, "start_commit") => challenge[s.c].status = "pending"
  PROVE  RequestEffect(q)
<1>1. request'[q] = s /\ \A p \in Requests \ {q} : request'[p] = request[p]
  BY RequestFacts
<1>2. /\ s.pc \in RunSteps => request[q].pc \in RunSteps
      /\ s.pc \in CreateSteps => request[q].pc \in CreateSteps
      /\ request[q].pc \in CreateSteps => s.pc \in CreateSteps
      /\ request[q].pc \in StartSteps => s.pc \in StartSteps
      /\ request[q].pc \in SettleSteps => s.pc \in SettleSteps
  BY DEF CreateSteps, RunSteps, StartSteps, SettleSteps
<1> QED BY <1>1, <1>2 DEF RequestEffect

(* A call whose instruction has such an effect.                             *)
LEMMA CallEffect ==
  ASSUME BackendInv, NEW q \in Requests, UNCHANGED rowVars,
         NEW b \in BOOLEAN, NEW next \in Steps,
         request' = [request EXCEPT ![q] = [request[q] EXCEPT !.pc = next, !.answered = b]],
         \/ request[q].pc \in CreateSteps /\ next \in CreateSteps
         \/ request[q].pc \in RunSteps /\ next \in RunSteps
         \/ request[q].pc \in StartSteps /\ next \in StartSteps
         \/ request[q].pc \in SettleSteps /\ next \in SettleSteps,
         next = "start_commit" /\ b => challenge[request[q].c].status = "pending",
         ChainEffect(request[q])
  PROVE  Effect(q)
<1>1. PICK s \in Request : s = [request[q] EXCEPT !.pc = next, !.answered = b]
  <2>1. [request[q] EXCEPT !.pc = next, !.answered = b] \in Request
    BY RequestFacts DEF Request
  <2> QED BY <2>1
<1>2. request' = [request EXCEPT ![q] = s]
  BY <1>1
<1>3. s.pc = next /\ s.c = request[q].c /\ s.todo = request[q].todo /\ s.answered = b
  BY <1>1, RequestFacts DEF Request
<1>4. Answered(s, "start_commit") => challenge[s.c].status = "pending"
  BY <1>3 DEF Answered
<1>5. \/ request[q].pc \in CreateSteps /\ s.pc \in CreateSteps
      \/ request[q].pc \in RunSteps /\ s.pc \in RunSteps
      \/ request[q].pc \in StartSteps /\ s.pc \in StartSteps
      \/ request[q].pc \in SettleSteps /\ s.pc \in SettleSteps
  BY <1>3
<1>6. RequestEffect(q)
  BY <1>2, <1>3, <1>4, <1>5, StepEffect
<1> QED BY <1>6, NoRowEffect DEF Effect

LEMMA CreateChallengeCallEffect ==
  ASSUME BackendInv, NEW q \in Requests, CreateChallengeCall(q)
  PROVE  Effect(q)
<1> DEFINE A == CreateChallenge(Authority, request[q].c, Len(request[q].todo))
<1>1. request[q].pc = "create_call" /\ UNCHANGED rowVars /\ Call(q, A, "create_commit")
  BY DEF CreateChallengeCall, At
<1>2. A => UNCHANGED <<strategies, run>>
  BY DEF CreateChallenge
<1> HIDE DEF A
<1>3. PICK b \in BOOLEAN :
        /\ request' = [request EXCEPT ![q] =
             [request[q] EXCEPT !.pc = "create_commit", !.answered = b]]
        /\ A \/ UNCHANGED chainVars
        /\ b => A
  BY <1>1 DEF Call, Becomes
<1>4. ChainEffect(request[q])
  BY <1>2, <1>3, NoChainEffect DEF chainVars
<1> QED BY <1>1, <1>2, <1>3, <1>4, CallEffect DEF CreateSteps, Steps

LEMMA StartCallEffect ==
  ASSUME BackendInv, NEW q \in Requests, StartCall(q)
  PROVE  Effect(q)
<1> DEFINE A == StartChallenge(Authority, request[q].c)
<1>1. request[q].pc = "start_call" /\ UNCHANGED rowVars /\ Call(q, A, "start_commit")
  BY DEF StartCall, At
<1>2. A => UNCHANGED <<strategies, run>> /\ challenge[request[q].c].status = "pending"
  BY DEF StartChallenge
<1> HIDE DEF A
<1>3. PICK b \in BOOLEAN :
        /\ request' = [request EXCEPT ![q] =
             [request[q] EXCEPT !.pc = "start_commit", !.answered = b]]
        /\ A \/ UNCHANGED chainVars
        /\ b => A
  BY <1>1 DEF Call, Becomes
<1>4. ChainEffect(request[q])
  BY <1>2, <1>3, NoChainEffect DEF chainVars
<1> QED BY <1>1, <1>2, <1>3, <1>4, CallEffect DEF StartSteps, Steps

LEMMA SettleCallEffect ==
  ASSUME BackendInv, NEW q \in Requests, SettleCall(q)
  PROVE  Effect(q)
<1> DEFINE accounts == [i \in DOMAIN request[q].todo |-> <<request[q].c, request[q].todo[i]>>]
<1>1. PICK w \in OptionOf(AgentIds) :
        Call(q, SettleChallenge(Authority, request[q].c, accounts, w), "settle_commit")
  BY DEF SettleCall
<1> DEFINE A == SettleChallenge(Authority, request[q].c, accounts, w)
<1>2. request[q].pc = "settle_call" /\ UNCHANGED rowVars /\ Call(q, A, "settle_commit")
  BY <1>1 DEF SettleCall, At
<1>3. A => UNCHANGED <<strategies, run>>
  BY DEF SettleChallenge, Settleable
<1> HIDE DEF A
<1>4. PICK b \in BOOLEAN :
        /\ request' = [request EXCEPT ![q] =
             [request[q] EXCEPT !.pc = "settle_commit", !.answered = b]]
        /\ A \/ UNCHANGED chainVars
  BY <1>2 DEF Call, Becomes
<1>5. ChainEffect(request[q])
  BY <1>3, <1>4, NoChainEffect DEF chainVars
<1> QED BY <1>2, <1>4, <1>5, CallEffect DEF SettleSteps, Steps

LEMMA CreateRunCallEffect ==
  ASSUME BackendInv, NEW q \in Requests, CreateRunCall(q)
  PROVE  Effect(q)
<1>1. PICK r \in Request : r = request[q]
  BY RequestFacts
<1> DEFINE c == r.c
           a == Head(r.todo)
           A == CreateRun(Authority, c, a)
<1>2. r.pc = "run_call" /\ UNCHANGED rowVars /\ Call(q, A, "run_commit")
  BY <1>1 DEF CreateRunCall, At
<1>3. c \in Challenges /\ a \in AgentIds
  BY <1>1, <1>2, RequestFacts
<1>4. A => ChainEffect(r)
  <2> SUFFICES ASSUME A PROVE ChainEffect(r)
    OBVIOUS
  <2>1. /\ run \in [Challenges -> [AgentIds -> RunAccount]]
        /\ run' = [run EXCEPT ![c][a] = RunWithStatus("pending", a)]
        /\ strategies' = strategies
    BY DEF BackendInv, IInv, TypeOK, CreateRun
  <2>2. RunWithStatus("pending", a).status = "pending"
    BY DEF RunWithStatus
  <2>3. \A d \in Challenges, e \in AgentIds :
          run'[d][e].status = IF d = c /\ e = a THEN "pending" ELSE run[d][e].status
    BY <1>3, <2>1, <2>2
  <2> HIDE DEF A
  <2> QED BY <1>2, <2>1, <2>3 DEF ChainEffect
<1> HIDE DEF A
<1>5. PICK b \in BOOLEAN :
        /\ request' = [request EXCEPT ![q] =
             [request[q] EXCEPT !.pc = "run_commit", !.answered = b]]
        /\ A \/ UNCHANGED chainVars
  BY <1>2 DEF Call, Becomes
<1>6. ChainEffect(r)
  BY <1>4, <1>5, NoChainEffect DEF chainVars
<1> QED BY <1>1, <1>2, <1>5, <1>6, CallEffect DEF CreateSteps, Steps

LEMMA FinalizeCallEffect ==
  ASSUME BackendInv, NEW q \in Requests, FinalizeCall(q)
  PROVE  Effect(q)
<1>1. PICK r \in Request : r = request[q]
  BY RequestFacts
<1> DEFINE c == r.c
           a == Head(r.todo)
           A == FinalizeRun(Authority, c, a, r.result.ending_usdc, Told(r.result.completion))
<1>2. r.pc = "finalize_call" /\ UNCHANGED rowVars /\ Call(q, A, "finalize_commit")
  BY <1>1 DEF FinalizeCall, At
<1>3. c \in Challenges /\ a \in AgentIds /\ runRow[c][a].status = "running"
  BY <1>1, <1>2, RequestFacts DEF RequestInv, RunSteps
<1>4. A => ChainEffect(r)
  <2> SUFFICES ASSUME A PROVE ChainEffect(r)
    OBVIOUS
  <2>1. PICK done : /\ run' = [run EXCEPT ![c][a] = done]
                    /\ run[c][a].status = "pending" /\ strategies' = strategies
    BY DEF FinalizeRun, Finalizable
  <2>2. run \in [Challenges -> [AgentIds -> RunAccount]]
    BY DEF BackendInv, IInv, TypeOK
  <2> HIDE DEF A
  <2>3. \A d \in Challenges, e \in AgentIds :
          (d = c /\ e = a) \/ run'[d][e] = run[d][e]
    BY <1>3, <2>1, <2>2
  <2> QED BY <1>3, <2>1, <2>3 DEF ChainEffect
<1> HIDE DEF A
<1>5. PICK b \in BOOLEAN :
        /\ request' = [request EXCEPT ![q] =
             [request[q] EXCEPT !.pc = "finalize_commit", !.answered = b]]
        /\ A \/ UNCHANGED chainVars
  BY <1>2 DEF Call, Becomes
<1>6. ChainEffect(r)
  BY <1>4, <1>5, NoChainEffect DEF chainVars
<1> QED BY <1>1, <1>2, <1>5, <1>6, CallEffect DEF RunSteps, Steps

LEMMA CreateChallengeCommitEffect ==
  ASSUME BackendInv, NEW q \in Requests, CreateChallengeCommit(q)
  PROVE  Effect(q)
<1>1. PICK r \in Request : r = request[q]
  BY RequestFacts
<1>2. /\ r.pc = "create_commit" /\ r.c \in Challenges /\ UNCHANGED <<chainVars, runRow>>
      /\ ~HasRow(r.c)
  BY <1>1, RequestFacts DEF CreateChallengeCommit, At, RequestInv
<1>3. RequestEffect(q)
  <2>1. CASE r.answered
    <3>1. PICK s \in Request : s = [r EXCEPT !.pc = "create_run"]
      <4>1. [r EXCEPT !.pc = "create_run"] \in Request
        BY DEF Request, Steps
      <4> QED BY <4>1
    <3>2. request' = [request EXCEPT ![q] = s]
      BY <1>1, <2>1, <3>1 DEF CreateChallengeCommit, Becomes
    <3>3. s.pc = "create_run" /\ s.c = r.c /\ s.todo = r.todo
      BY <3>1 DEF Request
    <3> QED BY <1>1, <1>2, <3>2, <3>3, StepEffect DEF Answered, CreateSteps
  <2>2. CASE ~r.answered
    BY <1>1, <2>2, EndEffect DEF CreateChallengeCommit, Ends, Becomes
  <2> QED BY <2>1, <2>2
<1>4. RowEffect(r)
  <2>1. PICK row : challengeRow' = [challengeRow EXCEPT ![r.c] = row]
    BY <1>1 DEF CreateChallengeCommit
  <2>2. \A c \in Challenges : c = r.c \/ challengeRow'[c] = challengeRow[c]
    BY <2>1 DEF BackendInv, BackendTypeOK
  <2>3. /\ ~challengeRow[r.c].onchain_address /\ challengeRow[r.c].winner_agent_id = None
        /\ challengeRow[r.c].status = "absent"
    BY <1>2 DEF BackendInv, ChallengeRowInv, HasRow
  <2> QED BY <1>2, <2>2, <2>3 DEF RowEffect
<1> QED BY <1>1, <1>2, <1>3, <1>4, NoChainEffect DEF Effect, chainVars

LEMMA CreateEndsEffect ==
  ASSUME BackendInv, NEW q \in Requests, CreateEnds(q)
  PROVE  Effect(q)
BY EndEffect, NoChainEffect, NoRowEffect DEF CreateEnds, Ends, Becomes, Effect, chainVars

(* A request for a creation that leaves the rows of runs that exist alone.  *)
LEMMA RunMadeEffect ==
  ASSUME BackendInv, NEW r, NEW c \in Challenges, NEW a \in AgentIds, NEW row \in RunRow,
         runRow' = [runRow EXCEPT ![c][a] = row], UNCHANGED challengeRow,
         runRow[c][a].status = "absent", row.status # "completed"
  PROVE  RowEffect(r)
<1>1. runRow \in [Challenges -> [AgentIds -> RunRow]]
  BY DEF BackendInv, BackendTypeOK
<1>2. \A d \in Challenges, e \in AgentIds :
        runRow'[d][e] = IF d = c /\ e = a THEN row ELSE runRow[d][e]
  BY <1>1
<1> QED BY <1>2 DEF RowEffect

LEMMA NextContestantEffect ==
  ASSUME BackendInv, NEW q \in Requests, NextContestant(q)
  PROVE  Effect(q)
<1>1. PICK r \in Request : r = request[q]
  BY RequestFacts
<1> DEFINE a == Head(r.todo)
<1>2. /\ r.pc = "create_run" /\ r.c \in Challenges /\ r.todo \in ContestantLists
      /\ UNCHANGED <<chainVars, agentOnchain, challengeRow, records>> /\ ~NoMoreRuns(r)
  BY <1>1, RequestFacts DEF NextContestant, At
<1>3. r.todo # <<>> /\ a \in AgentIds /\ runRow[r.c][a].status = "absent"
  BY <1>2, ListFacts DEF NoMoreRuns
<1>4. CASE a \in agentOnchain
  <2>1. PICK s \in Request : s = [r EXCEPT !.pc = "run_call"]
    <3>1. [r EXCEPT !.pc = "run_call"] \in Request
      BY DEF Request, Steps
    <3> QED BY <3>1
  <2>2. request' = [request EXCEPT ![q] = s] /\ UNCHANGED runRow
    BY <1>1, <1>4, <2>1 DEF NextContestant, Becomes
  <2>3. s.pc = "run_call" /\ s.c = r.c /\ s.todo = r.todo
    BY <2>1 DEF Request
  <2>4. RequestEffect(q)
    BY <1>1, <1>2, <2>2, <2>3, StepEffect DEF Answered, CreateSteps
  <2> QED BY <1>2, <2>2, <2>4, NoChainEffect, NoRowEffect DEF Effect, chainVars, rowVars
<1>5. CASE a \notin agentOnchain
  <2>1. PICK s \in Request : s = [r EXCEPT !.todo = Tail(@)]
    <3>1. [r EXCEPT !.todo = Tail(@)] \in Request
      BY <1>2, <1>3, ListFacts DEF Request
    <3> QED BY <3>1
  <2>2. /\ request' = [request EXCEPT ![q] = s]
        /\ runRow' = [runRow EXCEPT ![r.c][a] = NewRunRow("pending_onchain", a, FALSE)]
    BY <1>1, <1>5, <2>1 DEF NextContestant, Becomes
  <2>3. s.pc = "create_run" /\ s.c = r.c /\ s.todo = Tail(r.todo)
    BY <1>2, <2>1 DEF Request
  <2>4. \A i \in DOMAIN s.todo : \E j \in DOMAIN r.todo : s.todo[i] = r.todo[j]
    BY <1>2, <1>3, <2>3, ListFacts
  <2>5. RequestEffect(q)
    BY <1>1, <1>2, <2>2, <2>3, <2>4, StepEffect DEF Answered, CreateSteps
  <2>6. RowEffect(r)
    <3>1. /\ NewRunRow("pending_onchain", a, FALSE) \in RunRow
          /\ NewRunRow("pending_onchain", a, FALSE).status = "pending_onchain"
      BY <1>3, NewRowTypes DEF NewRunRow
    <3> QED BY <1>2, <1>3, <2>2, <3>1, RunMadeEffect
  <2> QED BY <1>1, <1>2, <2>5, <2>6, NoChainEffect DEF Effect, chainVars
<1> QED BY <1>4, <1>5

LEMMA CreateRunCommitEffect ==
  ASSUME BackendInv, NEW q \in Requests, CreateRunCommit(q)
  PROVE  Effect(q)
<1>1. PICK r \in Request : r = request[q]
  BY RequestFacts
<1> DEFINE a == Head(r.todo)
           row == RunRowAfterCall(a, r.answered)
<1>2. /\ r.pc = "run_commit" /\ r.c \in Challenges /\ r.todo \in ContestantLists
      /\ r.todo # <<>> /\ a \in AgentIds
      /\ UNCHANGED <<chainVars, agentOnchain, challengeRow, records>>
      /\ runRow[r.c][a].status = "absent"
      /\ runRow' = [runRow EXCEPT ![r.c][a] = row]
  BY <1>1, RequestFacts DEF CreateRunCommit, At, RequestInv
<1>3. row \in RunRow /\ row.status # "completed"
  <2>1. r.answered \in BOOLEAN
    BY DEF Request
  <2> QED BY <1>2, <2>1, NewRowTypes DEF RunRowAfterCall, NewRunRow
<1>4. PICK s \in Request : s = [r EXCEPT !.pc = "create_run", !.todo = Tail(@)]
  <2>1. [r EXCEPT !.pc = "create_run", !.todo = Tail(@)] \in Request
    BY <1>2, ListFacts DEF Request, Steps
  <2> QED BY <2>1
<1>5. request' = [request EXCEPT ![q] = s]
  BY <1>1, <1>4 DEF CreateRunCommit, Becomes
<1>6. s.pc = "create_run" /\ s.c = r.c /\ s.todo = Tail(r.todo)
  BY <1>4 DEF Request
<1>7. \A i \in DOMAIN s.todo : \E j \in DOMAIN r.todo : s.todo[i] = r.todo[j]
  BY <1>2, <1>6, ListFacts
<1>8. RequestEffect(q)
  BY <1>1, <1>2, <1>5, <1>6, <1>7, StepEffect DEF Answered, CreateSteps
<1> HIDE DEF row
<1>9. RowEffect(r)
  BY <1>2, <1>3, RunMadeEffect
<1> QED BY <1>1, <1>2, <1>8, <1>9, NoChainEffect DEF Effect, chainVars

LEMMA StartCommitEffect ==
  ASSUME BackendInv, NEW q \in Requests, StartCommit(q)
  PROVE  Effect(q)
<1>1. PICK r \in Request : r = request[q]
  BY RequestFacts
<1> DEFINE st == StatusAfterStart(challengeRow[r.c].status, r.answered)
<1>2. /\ r.pc = "start_commit" /\ r.c \in Challenges /\ r.answered \in BOOLEAN
      /\ UNCHANGED <<chainVars, runRow>>
      /\ challengeRow' = [challengeRow EXCEPT ![r.c].status = st]
      /\ request' = [request EXCEPT ![q] = Idle]
  BY <1>1, RequestFacts DEF StartCommit, At, Ends, Becomes, Request
<1>3. /\ challengeRow \in [Challenges -> ChallengeRow]
      /\ challengeRow[r.c].status = "completed" =>
           st = "completed" \/ AnsweredFor(r, "start_commit", r.c)
  BY <1>2 DEF BackendInv, BackendTypeOK, StatusAfterStart, AnsweredFor, Answered
<1> HIDE DEF st
<1>4. /\ challengeRow'[r.c].status = st
      /\ \A c \in Challenges :
           /\ c = r.c \/ challengeRow'[c] = challengeRow[c]
           /\ challengeRow'[c].onchain_address = challengeRow[c].onchain_address
           /\ challengeRow'[c].winner_agent_id = challengeRow[c].winner_agent_id
  BY <1>2, <1>3 DEF ChallengeRow
<1>5. RowEffect(r)
  BY <1>2, <1>3, <1>4 DEF RowEffect
<1> QED BY <1>1, <1>2, <1>5, EndEffect, NoChainEffect DEF Effect, chainVars

LEMMA LoopFinishesEffect ==
  ASSUME BackendInv, NEW q \in Requests, NEW usdc \in Balances,
         NEW completion \in Completions, LoopFinishes(q, usdc, completion)
  PROVE  Effect(q)
<1>1. PICK r \in Request : r = request[q]
  BY RequestFacts
<1> DEFINE res == [completion |-> completion, ending_usdc |-> usdc, ended_at |-> now]
<1>2. /\ request' = [request EXCEPT ![q] = [r EXCEPT !.pc = "finalize_call", !.result = res]]
      /\ r.pc = "loop" /\ UNCHANGED <<chainVars, rowVars>>
  BY <1>1 DEF LoopFinishes, Becomes, At
<1>3. res \in Result
  BY BalancesAssumption, CompletionsAssumption DEF Result, BackendInv, IInv, TypeOK
<1> HIDE DEF res
<1>4. PICK s \in Request : s = [r EXCEPT !.pc = "finalize_call", !.result = res]
  <2>1. [r EXCEPT !.pc = "finalize_call", !.result = res] \in Request
    BY <1>3 DEF Request, Steps, OptionOf
  <2> QED BY <2>1
<1>5. s.pc = "finalize_call" /\ s.c = r.c /\ s.todo = r.todo
  BY <1>4 DEF Request
<1>6. request' = [request EXCEPT ![q] = s]
  BY <1>2, <1>4
<1>7. RequestEffect(q)
  BY <1>1, <1>2, <1>5, <1>6, StepEffect DEF Answered, RunSteps
<1> QED BY <1>2, <1>7, NoChainEffect, NoRowEffect DEF Effect, chainVars

LEMMA FinalizeCommitEffect ==
  ASSUME BackendInv, NEW q \in Requests, FinalizeCommit(q)
  PROVE  Effect(q)
<1>1. PICK r \in Request : r = request[q]
  BY RequestFacts
<1> DEFINE a == Head(r.todo)
           row == [runRow[r.c][a] EXCEPT !.status = "completed",
                     !.completion = r.result.completion,
                     !.ending_usdc = r.result.ending_usdc,
                     !.ended_at = r.result.ended_at]
<1>2. /\ r.pc = "finalize_commit" /\ r.c \in Challenges /\ a \in AgentIds
      /\ UNCHANGED <<chainVars, challengeRow>>
      /\ runRow[r.c][a].status = "running"
      /\ request' = [request EXCEPT ![q] = Idle]
  BY <1>1, RequestFacts DEF FinalizeCommit, At, Ends, Becomes, RequestInv, RunSteps
<1>3. runRow' = [runRow EXCEPT ![r.c][a] = row]
  BY <1>1 DEF FinalizeCommit
<1>4. /\ runRow \in [Challenges -> [AgentIds -> RunRow]]
      /\ row.status = "completed"
  <2>1. runRow \in [Challenges -> [AgentIds -> RunRow]]
    BY DEF BackendInv, BackendTypeOK
  <2>2. runRow[r.c][a] \in RunRow
    BY <1>2, <2>1
  <2> QED BY <2>1, <2>2 DEF RunRow
<1> HIDE DEF row
<1>5. \A d \in Challenges, e \in AgentIds :
        runRow'[d][e] = IF d = r.c /\ e = a THEN row ELSE runRow[d][e]
  BY <1>2, <1>3, <1>4
<1>6. RowEffect(r)
  BY <1>2, <1>4, <1>5 DEF RowEffect, RunSteps
<1> QED BY <1>1, <1>2, <1>6, EndEffect, NoChainEffect DEF Effect, chainVars

LEMMA SettleCommitEffect ==
  ASSUME BackendInv, NEW q \in Requests, SettleCommit(q)
  PROVE  Effect(q)
<1>1. PICK r \in Request : r = request[q]
  BY RequestFacts
<1>2. /\ r.pc = "settle_commit" /\ r.c \in Challenges /\ r.winner \in AgentIds
      /\ UNCHANGED <<chainVars, runRow>>
      /\ request' = [request EXCEPT ![q] = Idle]
  BY <1>1, RequestFacts DEF SettleCommit, At, Ends, Becomes, RequestShape, SettleSteps
<1>3. RowEffect(r)
  <2>1. CASE ~r.answered
    <3>1. UNCHANGED challengeRow
      BY <1>1, <2>1 DEF SettleCommit, Settles
    <3> QED BY <1>2, <3>1 DEF RowEffect
  <2>2. CASE r.answered
    <3> DEFINE row == [challengeRow[r.c] EXCEPT !.status = "completed",
                                                !.winner_agent_id = r.winner]
    <3>1. challengeRow' = [challengeRow EXCEPT ![r.c] = row]
      BY <1>1, <2>2 DEF SettleCommit, Settles
    <3>2. challengeRow \in [Challenges -> ChallengeRow]
      BY DEF BackendInv, BackendTypeOK
    <3>3. challengeRow[r.c] \in ChallengeRow
      BY <1>2, <3>2
    <3>4. /\ row.status = "completed" /\ row.winner_agent_id = r.winner /\ r.winner # None
          /\ row.onchain_address = challengeRow[r.c].onchain_address
      BY <1>2, <3>3, NoneIsNothing DEF ChallengeRow
    <3> HIDE DEF row
    <3>5. \A d \in Challenges :
            challengeRow'[d] = IF d = r.c THEN row ELSE challengeRow[d]
      BY <3>1, <3>2
    <3> QED BY <1>2, <3>4, <3>5 DEF RowEffect
  <2> QED BY <2>1, <2>2
<1> QED BY <1>1, <1>2, <1>3, EndEffect, NoChainEffect DEF Effect, chainVars

LEMMA CrashEffect ==
  ASSUME BackendInv, NEW q \in Requests, Crash(q)
  PROVE  Effect(q)
BY EndEffect, NoChainEffect, NoRowEffect DEF Crash, Ends, Becomes, Effect, chainVars

(* The requests that others may make of the script's challenge.             *)
LEMMA StartRequestEffect ==
  ASSUME BackendInv, NEW q \in Requests, NEW c \in Challenges, StartRequest(q, c)
  PROVE  Effect(q)
<1> DEFINE s == [Idle EXCEPT !.pc = "start_call", !.c = c]
<1>1. s.pc = "start_call"
  BY DEF Idle
<1>2. /\ request' = [request EXCEPT ![q] = s] /\ UNCHANGED <<chainVars, rowVars>>
      /\ request[q].pc = "idle"
  BY DEF StartRequest, Becomes, At
<1> HIDE DEF s
<1>3. request'[q] = s /\ \A p \in Requests \ {q} : request'[p] = request[p]
  BY <1>2, RequestFacts
<1>4. RequestEffect(q)
  BY <1>1, <1>2, <1>3 DEF RequestEffect, RunSteps, CreateSteps, Answered
<1> QED BY <1>2, <1>4, NoChainEffect, NoRowEffect DEF Effect, chainVars

LEMMA SettleRequestEffect ==
  ASSUME BackendInv, NEW q \in Requests, NEW c \in Challenges, SettleRequest(q, c)
  PROVE  Effect(q)
<1>1. PICK l, w :
        request' = [request EXCEPT ![q] =
          [Idle EXCEPT !.pc = "settle_call", !.c = c, !.todo = l, !.winner = w]]
  BY DEF SettleRequest, Becomes
<1> DEFINE s == [Idle EXCEPT !.pc = "settle_call", !.c = c, !.todo = l, !.winner = w]
<1>2. s.pc = "settle_call"
  BY DEF Idle
<1>3. UNCHANGED <<chainVars, rowVars>> /\ request[q].pc = "idle"
  BY DEF SettleRequest, At
<1> HIDE DEF s
<1>4. request'[q] = s /\ \A p \in Requests \ {q} : request'[p] = request[p]
  BY <1>1, RequestFacts DEF s
<1>5. RequestEffect(q)
  BY <1>2, <1>3, <1>4 DEF RequestEffect, RunSteps, CreateSteps, Answered
<1> QED BY <1>3, <1>5, NoChainEffect, NoRowEffect DEF Effect, chainVars

LEMMA ServeEffect ==
  ASSUME BackendInv, NEW q \in Requests, Serve(q)
  PROVE  Effect(q)
<1>1. CASE \E usdc \in Balances, completion \in Completions : LoopFinishes(q, usdc, completion)
  BY <1>1, LoopFinishesEffect
<1> QED
  BY <1>1, CreateChallengeCallEffect, CreateChallengeCommitEffect, CreateEndsEffect,
     NextContestantEffect, CreateRunCallEffect, CreateRunCommitEffect, StartCallEffect,
     StartCommitEffect, FinalizeCallEffect, FinalizeCommitEffect, SettleCallEffect,
     SettleCommitEffect
  DEF Serve

-----------------------------------------------------------------------------
(* While nobody runs the script.                                            *)

LEMMA ExecutedKept ==
  ASSUME OnlyExecuted, NEW r, ChainEffect(r), RowEffect(r)
  PROVE  OnlyExecuted'
<1> SUFFICES ASSUME NEW c \in Challenges, NEW a \in AgentIds,
                    run'[c][a].status = "completed"
             PROVE  runRow'[c][a].status \in {"running", "completed"}
  BY DEF OnlyExecuted
<1>1. run[c][a].status = "completed" \/ runRow[c][a].status = "running"
  BY DEF ChainEffect
<1>2. runRow[c][a].status \in {"running", "completed"}
  BY <1>1 DEF OnlyExecuted
<1> QED BY <1>2 DEF RowEffect

LEMMA BackendInvariant ==
  ASSUME BackendInv, OnlyExecuted, BackendNext
  PROVE  BackendInv' /\ OnlyExecuted'
<1>1. CASE ClockTicks
  <2>1. OnlyExecuted'
    BY <1>1 DEF ClockTicks, Tick, rowVars, OnlyExecuted
  <2> QED BY <1>1, <2>1, TicksInvariant
<1>2. CASE \E a \in AgentIds : CompleteRegistration(a)
  <2>1. OnlyExecuted'
    BY <1>2 DEF CompleteRegistration, chainVars, OnlyExecuted
  <2> QED BY <1>2, <2>1, CompleteRegistrationInvariant
<1>3. ASSUME NEW q \in Requests, Effect(q)
      PROVE  OnlyExecuted'
  BY <1>3, ExecutedKept DEF Effect
<1>4. ASSUME NEW q \in Requests, Serve(q) \/ Crash(q)
      PROVE  BackendInv' /\ OnlyExecuted'
  BY <1>3, <1>4, ServeInvariant, ServeEffect, CrashInvariant, CrashEffect
<1>5. ASSUME NEW q \in Requests, NEW c \in Challenges,
             StartRequest(q, c) \/ SettleRequest(q, c)
      PROVE  BackendInv' /\ OnlyExecuted'
  BY <1>3, <1>5, StartRequestInvariant, StartRequestEffect, SettleRequestInvariant,
     SettleRequestEffect
<1>6. ASSUME NEW q \in Requests, NEW c \in Challenges, NEW l \in ContestantLists,
             CreateChallengeRequest(q, c, l)
      PROVE  BackendInv' /\ OnlyExecuted'
  <2>1. OnlyExecuted'
    BY <1>6 DEF CreateChallengeRequest, chainVars, rowVars, OnlyExecuted
  <2> QED BY <1>6, <2>1, CreateChallengeRequestInvariant
<1>7. ASSUME NEW q \in Requests, NEW c \in Challenges, NEW a \in AgentIds,
             ExecuteRun(q, c, a)
      PROVE  BackendInv' /\ OnlyExecuted'
  <2>1. /\ runRow \in [Challenges -> [AgentIds -> RunRow]]
        /\ runRow' = [runRow EXCEPT ![c][a].status = "running"] /\ run' = run
    BY <1>7 DEF ExecuteRun, chainVars, BackendInv, BackendTypeOK
  <2>2. \A d \in Challenges, e \in AgentIds :
          \/ runRow'[d][e].status = "running"
          \/ runRow'[d][e] = runRow[d][e]
    BY <2>1 DEF RunRow
  <2>3. OnlyExecuted'
    BY <2>1, <2>2 DEF OnlyExecuted
  <2> QED BY <1>7, <2>3, ExecuteRunInvariant
<1> QED BY <1>1, <1>2, <1>4, <1>5, <1>6, <1>7 DEF BackendNext

-----------------------------------------------------------------------------
(* While the script runs, or after it stopped: what requests leave to it.   *)

LEMMA OursKept ==
  ASSUME BackendInv, OursAlone, NEW q \in Requests, Effect(q)
  PROVE  OursAlone'
<1>1. ASSUME NEW p \in Requests
      PROVE  /\ request'[p].pc \notin RunSteps
             /\ request'[p].pc \in CreateSteps =>
                  \A i \in DOMAIN request'[p].todo : request'[p].todo[i] \in Ours
  <2>1. CASE p = q
    BY <2>1 DEF OursAlone, Effect, RequestEffect
  <2>2. CASE p # q
    BY <2>2 DEF OursAlone, Effect, RequestEffect
  <2> QED BY <2>1, <2>2
<1>2. ASSUME NEW c \in Challenges, NEW a \in AgentIds, run'[c][a].status # "absent"
      PROVE  a \in Ours
  <2>1. CASE run[c][a].status # "absent"
    BY <2>1 DEF OursAlone
  <2>2. CASE request[q].pc = "run_call" /\ a = Head(request[q].todo)
    <3>1. request[q].todo \in ContestantLists /\ request[q].todo # <<>>
      BY <2>2, RequestFacts
    <3>2. 1 \in DOMAIN request[q].todo /\ a = request[q].todo[1]
      BY <2>2, <3>1, ListFacts
    <3> QED BY <2>2, <3>2 DEF OursAlone, CreateSteps
  <2> QED BY <1>2, <2>1, <2>2 DEF Effect, ChainEffect
<1> QED BY <1>1, <1>2 DEF OursAlone

LEMMA ActiveKept ==
  ASSUME ActiveRegistered, UNCHANGED agentStatus, strategies \subseteq strategies'
  PROVE  ActiveRegistered'
BY DEF ActiveRegistered, Registered

(* The rows of completed runs stay, and no request adds one.                *)
LEMMA CompletedKept ==
  ASSUME OursAlone, CompletedInv, Monotone, NEW q \in Requests, Effect(q),
         NEW c \in Challenges, NEW a \in AgentIds, runRow'[c][a].status = "completed"
  PROVE  /\ runRow[c][a].status = "completed" /\ run'[c][a].status = "completed"
         /\ script.pc \in FinalizedSteps \cup {"failed"}
<1>1. runRow[c][a].status = "completed"
  BY DEF OursAlone, Effect, RowEffect
<1> QED BY <1>1 DEF CompletedInv, Monotone

(* A step of a request that the script only looks on at.                    *)
LEMMA ScriptLooksOn ==
  ASSUME BackendInv, ScriptShape, ScriptInv, ~AtStep("unused"), Monotone,
         NEW q \in Requests, Effect(q), UNCHANGED <<agentStatus, script>>, AwaitedInv'
  PROVE  ScriptInv'
<1> USE DEF AtStep
<1>1. /\ OursAlone /\ ActiveRegistered /\ RegisteredInv /\ CreatedInv /\ StartedInv
      /\ FinalizingInv /\ CompletedInv /\ FinalizedInv /\ SettledInv
  BY DEF ScriptInv
<1>2. script.pc \in CreatedSteps => script.c \in Challenges
  BY DEF ScriptShape
<1>3. OursAlone'
  BY <1>1, OursKept
<1>4. ActiveRegistered' /\ RegisteredInv'
  <2>1. strategies' = strategies
    BY DEF Effect, ChainEffect
  <2> QED BY <1>1, <2>1, ActiveKept DEF RegisteredInv, Registered
<1>5. CreatedInv'
  <2>1. ASSUME script.pc \in CreatedSteps, NEW p \in Requests, request'[p].pc \in CreateSteps
        PROVE  request'[p].c # script.c
    <3>1. CASE p = q
      BY <1>1, <2>1, <3>1 DEF CreatedInv, Effect, RequestEffect
    <3>2. CASE p # q
      BY <1>1, <2>1, <3>2 DEF CreatedInv, Effect, RequestEffect
    <3> QED BY <3>1, <3>2
  <2>2. script.pc \in CreatedSteps => challengeRow'[script.c].onchain_address
    BY <1>1, <1>2 DEF CreatedInv, Effect, RowEffect
  <2> QED BY <2>1, <2>2 DEF CreatedInv
<1>6. StartedInv'
  <2> SUFFICES ASSUME script.pc \in StartedSteps PROVE StartedInv'
    BY DEF StartedInv
  <2>1. /\ script.c \in Challenges
        /\ challenge[script.c].status \notin {"absent", "pending"}
    BY <1>1, <1>2 DEF StartedInv, CreatedSteps
  <2>2. ASSUME NEW p \in Requests
        PROVE  ~AnsweredFor(request'[p], "start_commit", script.c)
    <3>1. CASE p = q
      BY <2>1, <3>1 DEF Effect, RequestEffect, AnsweredFor
    <3>2. CASE p # q
      BY <1>1, <3>2 DEF StartedInv, Effect, RequestEffect
    <3> QED BY <3>1, <3>2
  <2>3. challenge'[script.c].status \notin {"absent", "pending"}
    BY <2>1 DEF Monotone
  <2> QED BY <2>2, <2>3 DEF StartedInv, AnsweredFor, Answered
<1>7. FinalizingInv'
  <2>1. ASSUME script.pc \in {"finalize", "finalize_failed"}, NEW a \in AgentIds,
               Ended(run[script.c][a], a)
        PROVE  Ended(run'[script.c][a], a)
    <3>1. script.c \in Challenges
      BY <1>2, <2>1 DEF CreatedSteps, StartedSteps
    <3> QED BY <2>1, <3>1 DEF Monotone, Ended
  <2> QED BY <1>1, <2>1 DEF FinalizingInv, StatusToCommit, Ended
<1>8. CompletedInv'
  BY <1>1, CompletedKept DEF CompletedInv
<1>9. FinalizedInv'
  <2> SUFFICES ASSUME script.pc \in FinalizedSteps, NEW a \in Ours
               PROVE  Ended(runRow'[script.c][a], a)
    BY DEF FinalizedInv, Ended
  <2>1. script.c \in Challenges /\ a \in AgentIds
    BY <1>2, AlphaBetaAssumption DEF CreatedSteps, StartedSteps, FinalizedSteps, Ours
  <2>2. Ended(runRow[script.c][a], a)
    BY <1>1 DEF FinalizedInv
  <2> QED BY <2>1, <2>2 DEF Ended, Effect, RowEffect
<1>10. SettledInv'
  <2> SUFFICES ASSUME script.pc \in SettledSteps PROVE SettledInv'
    BY DEF SettledInv
  <2>1. script.c \in Challenges /\ script.pc \in StartedSteps
    BY <1>2 DEF CreatedSteps, StartedSteps, SettledSteps
  <2>2. ~AnsweredFor(request[q], "start_commit", script.c)
    BY <1>1, <2>1 DEF StartedInv
  <2> QED BY <1>1, <2>1, <2>2 DEF SettledInv, Effect, RowEffect
<1> QED BY <1>3, <1>4, <1>5, <1>6, <1>7, <1>8, <1>9, <1>10 DEF ScriptInv

(* What the script does not await can be any request but the one it does.   *)
LEMMA AwaitedLeftAlone ==
  ASSUME ScriptShape, AwaitedInv, NEW q \in Requests \ {script.q}, Effect(q), UNCHANGED script
  PROVE  AwaitedInv'
<1>1. script.pc \in AwaitingSteps => request'[script.q] = request[script.q]
  BY DEF ScriptShape, Effect, RequestEffect
<1> QED BY <1>1 DEF AwaitedInv, AwaitingSteps

-----------------------------------------------------------------------------
(* The steps of the script.                                                 *)

ScriptOn ==
  /\ BackendInv
  /\ LifecycleTypeOK
  /\ ScriptShape
  /\ ~AtStep("unused")
  /\ ScriptInv

(* What becomes of the progress of the script.                              *)
LEMMA ScriptMoves ==
  ASSUME script \in Script, NEW pc \in ScriptSteps
  PROVE  /\ Goes(pc) =>
              /\ script' \in Script /\ script'.pc = pc /\ script'.todo = Both
              /\ script'.c = script.c /\ script'.q = script.q
              /\ script'.ended_at = script.ended_at
         /\ Fails =>
              /\ script' \in Script /\ script'.pc = "failed" /\ script'.q = None
              /\ script'.c = script.c /\ script'.todo = script.todo
         /\ script' = [script EXCEPT !.pc = pc] =>
              /\ script' \in Script /\ script'.pc = pc /\ script'.todo = script.todo
              /\ script'.c = script.c /\ script'.q = script.q
              /\ script'.ended_at = script.ended_at
         /\ script' = [script EXCEPT !.pc = pc, !.todo = Tail(@)] /\ script.todo # <<>> =>
              /\ script' \in Script /\ script'.pc = pc /\ script'.todo = Tail(script.todo)
              /\ script'.c = script.c /\ script'.q = script.q
              /\ script'.ended_at = script.ended_at
         /\ script' = [script EXCEPT !.todo = Tail(@)] /\ script.todo # <<>> =>
              /\ script' \in Script /\ script'.pc = script.pc
              /\ script'.todo = Tail(script.todo)
              /\ script'.c = script.c /\ script'.q = script.q
              /\ script'.ended_at = script.ended_at
<1>1. /\ script.todo \in ContestantLists /\ Both \in ContestantLists
      /\ script.todo # <<>> => Tail(script.todo) \in ContestantLists
      /\ "failed" \in ScriptSteps /\ None \in OptionOf(Requests)
  BY ShortLists, ListFacts DEF Script, ScriptSteps, OptionOf
<1>2. Goes(pc) =>
        /\ script' \in Script /\ script'.pc = pc /\ script'.todo = Both
        /\ script'.c = script.c /\ script'.q = script.q
        /\ script'.ended_at = script.ended_at
  BY <1>1 DEF Goes, Script
<1>3. Fails =>
        /\ script' \in Script /\ script'.pc = "failed" /\ script'.q = None
        /\ script'.c = script.c /\ script'.todo = script.todo
  BY <1>1 DEF Fails, Script
<1>4. script' = [script EXCEPT !.pc = pc] =>
        /\ script' \in Script /\ script'.pc = pc /\ script'.todo = script.todo
        /\ script'.c = script.c /\ script'.q = script.q
        /\ script'.ended_at = script.ended_at
  BY DEF Script
<1>5. script' = [script EXCEPT !.pc = pc, !.todo = Tail(@)] /\ script.todo # <<>> =>
        /\ script' \in Script /\ script'.pc = pc /\ script'.todo = Tail(script.todo)
        /\ script'.c = script.c /\ script'.q = script.q
        /\ script'.ended_at = script.ended_at
  BY <1>1 DEF Script
<1>6. script' = [script EXCEPT !.todo = Tail(@)] /\ script.todo # <<>> =>
        /\ script' \in Script /\ script'.pc = script.pc
        /\ script'.todo = Tail(script.todo)
        /\ script'.c = script.c /\ script'.q = script.q
        /\ script'.ended_at = script.ended_at
  BY <1>1 DEF Script
<1> QED BY <1>2, <1>3, <1>4, <1>5, <1>6

LEMMA ScriptFacts ==
  ASSUME ScriptOn
  PROVE  /\ script \in Script /\ agentStatus \in [AgentIds -> AgentStatuses]
         /\ script.todo \in {Both, <<Beta>>, <<>>}
         /\ script.todo # <<>> => Head(script.todo) \in AgentIds
         /\ script.todo = Both => Head(script.todo) = Alpha /\ Tail(script.todo) = <<Beta>>
         /\ script.todo = <<Beta>> => Head(script.todo) = Beta /\ Tail(script.todo) = <<>>
         /\ Both # <<>> /\ <<Beta>> # <<>> /\ Both # <<Beta>>
<1>1. script \in Script /\ agentStatus \in [AgentIds -> AgentStatuses] /\ ScriptShape
  BY DEF ScriptOn, LifecycleTypeOK
<1>2. script.todo \in {Both, <<Beta>>, <<>>}
  BY <1>1 DEF ScriptShape
<1>3. <<Beta>> # <<>> /\ Head(<<Beta>>) = Beta /\ Beta \in AgentIds /\ Alpha \in AgentIds
  BY ShortLists, AlphaBetaAssumption
<1>4. Both # <<Beta>> /\ Both # <<>> /\ Head(Both) = Alpha /\ Tail(Both) = <<Beta>>
      /\ Tail(<<Beta>>) = <<>>
  BY ShortLists, <1>3
<1> QED BY <1>1, <1>2, <1>3, <1>4

EarlySteps == {"submit", "register", "register_commit", "register_failed", "create"}

(* A step before its challenge exists, or its last: the script has nothing  *)
(* to say of a challenge then.                                              *)
LEMMA EarlyStep ==
  ASSUME ScriptOn, BackendInv', UNCHANGED <<run, runRow, request>>,
         agentStatus' \in [AgentIds -> AgentStatuses], script' \in Script,
         ScriptShape', ActiveRegistered', RegisteredInv',
         \/ script'.pc = "failed"
         \/ script.pc \in EarlySteps /\ script'.pc \in EarlySteps
  PROVE  ScriptOn'
<1>1. OursAlone /\ CompletedInv
  BY DEF ScriptOn, ScriptInv
<1>2. OursAlone'
  BY <1>1 DEF OursAlone
<1>3. CompletedInv'
  BY <1>1 DEF CompletedInv, EarlySteps, FinalizedSteps
<1>4. /\ script'.pc \notin AwaitingSteps \cup CreatedSteps \cup {"unused"}
      /\ StartedSteps \subseteq CreatedSteps /\ FinalizedSteps \subseteq CreatedSteps
      /\ SettledSteps \subseteq CreatedSteps
  BY DEF EarlySteps, AwaitingSteps, CreatedSteps, StartedSteps, FinalizedSteps, SettledSteps
<1>5. AwaitedInv' /\ CreatedInv' /\ StartedInv' /\ FinalizedInv' /\ SettledInv'
  BY <1>4 DEF AwaitedInv, AwaitingSteps, CreatedInv, StartedInv, FinalizedInv, SettledInv
<1>6. FinalizingInv'
  BY <1>4 DEF FinalizingInv, AtStep, CreatedSteps, StartedSteps
<1> QED BY <1>2, <1>3, <1>4, <1>5, <1>6
        DEF ScriptOn, ScriptInv, LifecycleTypeOK, AtStep, BackendInv

LEMMA EarlyShape ==
  ASSUME script'.todo \in {Both, <<Beta>>, <<>>}, script'.todo = <<>> => script'.pc = "failed",
         script'.q = None,
         \/ script'.pc = "failed"
         \/ /\ script'.pc \in EarlySteps /\ (script'.pc = "create" => script'.todo = Both)
            /\ \A a \in AgentIds : script'.ended_at[a] = None
  PROVE  ScriptShape'
BY DEF ScriptShape, EarlySteps, AwaitingSteps, CreatedSteps, StartedSteps

LEMMA EarlyFacts ==
  ASSUME ScriptOn, script.pc \in EarlySteps
  PROVE  /\ script.todo \in {Both, <<Beta>>} /\ script.q = None
         /\ \A a \in AgentIds : script.ended_at[a] = None
         /\ ActiveRegistered /\ RegisteredInv
BY DEF ScriptOn, ScriptShape, ScriptInv, EarlySteps, AwaitingSteps, StartedSteps

LEMMA SubmitStrategyInvariant ==
  ASSUME ScriptOn, SubmitStrategy
  PROVE  ScriptOn'
<1>1. /\ UNCHANGED backendVars /\ script.pc = "submit"
      /\ \/ StrategyRow(Head(script.todo)) /\ NextAgent("register")
         \/ Fails /\ UNCHANGED agentStatus
  BY DEF SubmitStrategy, AtStep
<1>2. BackendInv'
  BY <1>1, ElsewhereInvariant
     DEF backendVars, chainVars, rowVars, ScriptOn, vars, BackendInv, BackendTypeOK
<1>3. UNCHANGED <<run, runRow, request, strategies>>
  BY <1>1 DEF backendVars, chainVars, rowVars
<1>4. script.todo \in {Both, <<Beta>>} /\ script.pc \in EarlySteps /\ script.q = None
      /\ (\A a \in AgentIds : script.ended_at[a] = None) /\ ActiveRegistered
  BY <1>1, EarlyFacts DEF EarlySteps
<1>5. agentStatus' \in [AgentIds -> AgentStatuses] /\ ActiveRegistered'
  <2>1. CASE UNCHANGED agentStatus
    BY <1>3, <1>4, <2>1, ScriptFacts, ActiveKept
  <2>2. CASE StrategyRow(Head(script.todo))
    BY <1>3, <1>4, <2>2, ScriptFacts
       DEF StrategyRow, AgentStatuses, ActiveRegistered, Registered
  <2> QED BY <1>1, <2>1, <2>2
<1>6. /\ script' \in Script /\ script'.pc \in {"submit", "register", "failed"}
      /\ script'.q = None /\ script'.todo \in {Both, <<Beta>>}
      /\ script'.pc = "failed" \/ script'.ended_at = script.ended_at
  <2>1. CASE Fails
    BY <1>4, <2>1, ScriptFacts, ScriptMoves DEF ScriptSteps
  <2>2. CASE NextAgent("register")
    <3>1. \/ Goes("register")
          \/ script' = [script EXCEPT !.todo = Tail(@)] /\ script.todo = Both
      BY <1>4, <2>2, ScriptFacts DEF NextAgent
    <3>2. "register" \in ScriptSteps
      BY DEF ScriptSteps
    <3> QED BY <1>1, <1>4, <3>1, <3>2, ScriptFacts, ScriptMoves
  <2> QED BY <1>1, <2>1, <2>2
<1>7. ScriptShape'
  BY <1>4, <1>6, ScriptFacts, EarlyShape DEF EarlySteps
<1>8. RegisteredInv'
  BY <1>6 DEF RegisteredInv, AtStep
<1> QED BY <1>2, <1>3, <1>4, <1>5, <1>6, <1>7, <1>8, EarlyStep DEF EarlySteps

LEMMA RegisterOnChainInvariant ==
  ASSUME ScriptOn, RegisterOnChain
  PROVE  ScriptOn'
<1> DEFINE a == Head(script.todo)
           Registers == /\ \E o \in Signers : RegisterStrategy(o, a)
                        /\ UNCHANGED <<challenge, run, now>>
<1>1. /\ script.pc = "register" /\ UNCHANGED <<rowVars, request, agentStatus>>
      /\ \/ Registers /\ script' = [script EXCEPT !.pc = "register_commit"] /\ UNCHANGED faulty
         \/ Registers /\ script' = [script EXCEPT !.pc = "register_failed"] /\ faulty' = TRUE
         \/ /\ script' = [script EXCEPT !.pc = "register_failed"]
            /\ UNCHANGED <<chainVars, faulty>>
  BY DEF RegisterOnChain, AtStep
<1>2. /\ script.todo \in {Both, <<Beta>>} /\ script.pc \in EarlySteps /\ script.q = None
      /\ (\A e \in AgentIds : script.ended_at[e] = None) /\ ActiveRegistered
      /\ a \in AgentIds
  BY <1>1, EarlyFacts, ScriptFacts DEF EarlySteps
<1>3. /\ [Next]_vars /\ UNCHANGED <<challenge, run>> /\ strategies \subseteq strategies'
      /\ Registers => \E o \in Signers : <<o, a>> \in strategies'
  <2>1. CASE Registers
    <3>1. PICK o \in Signers : RegisterStrategy(o, a)
      BY <2>1
    <3>2. RegistryNext
      BY <1>2, <3>1 DEF RegistryNext
    <3>3. strategies' = strategies \cup {<<o, a>>}
      BY <3>1 DEF RegisterStrategy
    <3> QED BY <2>1, <3>2, <3>3 DEF Next
  <2>2. CASE UNCHANGED chainVars /\ ~Registers
    BY <2>2 DEF chainVars, vars
  <2> QED BY <1>1, <2>1, <2>2
<1>4. BackendInv'
  <2>1. BackendInv /\ agentOnchain \subseteq AgentIds /\ faulty \in BOOLEAN
    BY DEF ScriptOn, BackendInv, BackendTypeOK
  <2>2. faulty' \in BOOLEAN /\ (~faulty' => ~faulty)
    BY <1>1, <2>1
  <2> QED BY <1>1, <1>3, <2>1, <2>2, ElsewhereInvariant DEF rowVars
<1>5. /\ script' \in Script /\ script'.pc \in {"register_commit", "register_failed"}
      /\ script'.q = None /\ script'.todo = script.todo
      /\ script'.ended_at = script.ended_at
      /\ script'.pc = "register_commit" => Registers
  <2>1. "register_commit" \in ScriptSteps /\ "register_failed" \in ScriptSteps
    BY DEF ScriptSteps
  <2> HIDE DEF Registers
  <2> QED BY <1>1, <1>2, <2>1, ScriptFacts, ScriptMoves
<1>6. ScriptShape'
  BY <1>2, <1>5, ScriptFacts, EarlyShape DEF EarlySteps
<1>7. RegisteredInv'
  BY <1>3, <1>5 DEF RegisteredInv, AtStep, Registered
<1>8. ActiveRegistered' /\ agentStatus' \in [AgentIds -> AgentStatuses]
  BY <1>1, <1>2, <1>3, ActiveKept, ScriptFacts
<1>9. UNCHANGED <<run, runRow, request>>
  BY <1>1, <1>3 DEF rowVars
<1> QED BY <1>2, <1>4, <1>5, <1>6, <1>7, <1>8, <1>9, EarlyStep DEF EarlySteps

LEMMA RegisterCommitInvariant ==
  ASSUME ScriptOn, RegisterCommit
  PROVE  ScriptOn'
<1> DEFINE a == Head(script.todo)
<1>1. /\ script.pc = "register_commit" /\ CompleteRegistration(a)
      /\ agentStatus' = [agentStatus EXCEPT ![a] = "active"]
      /\ \/ Goes("create") /\ Tail(script.todo) = <<>>
         \/ /\ script' = [script EXCEPT !.pc = "register", !.todo = Tail(@)]
            /\ Tail(script.todo) # <<>>
  BY DEF RegisterCommit, AtStep
<1>2. /\ script.todo \in {Both, <<Beta>>} /\ script.pc \in EarlySteps /\ script.q = None
      /\ (\A e \in AgentIds : script.ended_at[e] = None) /\ ActiveRegistered /\ RegisteredInv
      /\ a \in AgentIds /\ agentStatus \in [AgentIds -> AgentStatuses]
  BY <1>1, EarlyFacts, ScriptFacts DEF EarlySteps
<1>3. BackendInv' /\ UNCHANGED <<run, runRow, request, strategies>>
  BY <1>1, <1>2, CompleteRegistrationInvariant DEF ScriptOn, CompleteRegistration, chainVars
<1>4. agentStatus' \in [AgentIds -> AgentStatuses]
  BY <1>1, <1>2 DEF AgentStatuses
<1>5. ActiveRegistered'
  <2>1. \E o \in Signers : Registered(o, a)
    BY <1>1, <1>2 DEF RegisteredInv, AtStep
  <2> QED BY <1>1, <1>2, <1>3, <2>1 DEF ActiveRegistered, Registered
<1>6. /\ script' \in Script /\ script'.pc \in {"create", "register"} /\ script'.q = None
      /\ script'.todo \in {Both, <<Beta>>}
      /\ script'.ended_at = script.ended_at /\ (script'.pc = "create" => script'.todo = Both)
  <2>1. "create" \in ScriptSteps /\ "register" \in ScriptSteps
    BY DEF ScriptSteps
  <2> QED BY <1>1, <1>2, <2>1, ScriptFacts, ScriptMoves
<1>7. ScriptShape'
  BY <1>2, <1>6, ScriptFacts, EarlyShape DEF EarlySteps
<1>8. RegisteredInv'
  BY <1>6 DEF RegisteredInv, AtStep
<1> QED BY <1>2, <1>3, <1>4, <1>5, <1>6, <1>7, <1>8, EarlyStep DEF EarlySteps

(* It stops, whatever it was doing, with its own session's work lost.       *)
LEMMA StopsInvariant ==
  ASSUME ScriptOn, Fails, UNCHANGED <<chainVars, rowVars, request>>,
         faulty' \in BOOLEAN, ~faulty' => ~faulty,
         agentStatus' \in [AgentIds -> AgentStatuses], ActiveRegistered'
  PROVE  ScriptOn'
<1>1. BackendInv'
  BY ElsewhereInvariant DEF ScriptOn, chainVars, rowVars, vars, BackendInv, BackendTypeOK
<1>2. /\ script' \in Script /\ script'.pc = "failed" /\ script'.q = None
      /\ script'.todo = script.todo
  BY ScriptFacts, ScriptMoves DEF ScriptSteps
<1>3. ScriptShape'
  BY <1>2, EarlyShape DEF ScriptOn, ScriptShape
<1>4. RegisteredInv' /\ UNCHANGED <<run, runRow, request>>
  BY <1>2 DEF RegisteredInv, AtStep, chainVars, rowVars
<1> QED BY <1>1, <1>2, <1>3, <1>4, EarlyStep

LEMMA RegisterFailedInvariant ==
  ASSUME ScriptOn, RegisterFailed
  PROVE  ScriptOn'
<1>1. /\ agentStatus' = [agentStatus EXCEPT ![Head(script.todo)] = "onchain_failed"]
      /\ Fails /\ UNCHANGED <<chainVars, rowVars, request, faulty>>
      /\ script.pc \in EarlySteps
  BY DEF RegisterFailed, backendVars, AtStep, EarlySteps
<1>2. agentStatus' \in [AgentIds -> AgentStatuses] /\ ActiveRegistered'
  BY <1>1, EarlyFacts, ScriptFacts
     DEF ActiveRegistered, AgentStatuses, Registered, chainVars
<1>3. faulty' \in BOOLEAN
  BY <1>1 DEF ScriptOn, BackendInv, BackendTypeOK
<1> QED BY <1>1, <1>2, <1>3, StopsInvariant

LEMMA GiveUpInvariant ==
  ASSUME ScriptOn, GiveUp
  PROVE  ScriptOn'
<1>1. ActiveRegistered' /\ agentStatus' \in [AgentIds -> AgentStatuses]
  BY ScriptFacts, ActiveKept DEF ScriptOn, ScriptInv, GiveUp, chainVars
<1>2. faulty' \in BOOLEAN /\ (~faulty' => ~faulty)
  BY DEF GiveUp, ScriptOn, BackendInv, BackendTypeOK
<1> QED BY <1>1, <1>2, StopsInvariant DEF GiveUp

(* To the chain, what a request does is one instruction or nothing.         *)
LEMMA ServeIsStep ==
  ASSUME BackendInv, NEW q \in Requests, Serve(q)
  PROVE  [Next]_vars
<1>1. PICK r \in Request : r = request[q]
  BY RequestFacts
<1>2. CASE UNCHANGED chainVars
  BY <1>2 DEF chainVars, vars
<1>3. CASE CreateChallengeCall(q)
  <2>1. r.c \in Challenges /\ Len(r.todo) \in Nat
    BY <1>1, <1>3, RequestFacts, ListFacts DEF CreateChallengeCall, At
  <2>2. CreateChallenge(Authority, r.c, Len(r.todo)) \/ UNCHANGED chainVars
    BY <1>1, <1>3 DEF CreateChallengeCall, Call
  <2> QED BY <2>1, <2>2, CallsAreSteps
<1>4. CASE CreateRunCall(q)
  <2>1. r.c \in Challenges /\ Head(r.todo) \in AgentIds
    BY <1>1, <1>4, RequestFacts DEF CreateRunCall, At
  <2>2. CreateRun(Authority, r.c, Head(r.todo)) \/ UNCHANGED chainVars
    BY <1>1, <1>4 DEF CreateRunCall, Call
  <2> QED BY <2>1, <2>2, CallsAreSteps
<1>5. CASE StartCall(q)
  <2>1. r.c \in Challenges
    BY <1>1, <1>5, RequestFacts DEF StartCall, At
  <2>2. StartChallenge(Authority, r.c) \/ UNCHANGED chainVars
    BY <1>1, <1>5 DEF StartCall, Call
  <2> QED BY <2>1, <2>2, CallsAreSteps
<1>6. CASE FinalizeCall(q)
  <2>1. /\ r.c \in Challenges /\ Head(r.todo) \in AgentIds
        /\ r.result.ending_usdc \in Balances /\ r.result.completion \in Completions
    BY <1>1, <1>6, RequestFacts DEF FinalizeCall, At, RunSteps, RequestShape
  <2>2. \/ FinalizeRun(Authority, r.c, Head(r.todo), r.result.ending_usdc,
                       r.result.completion)
        \/ UNCHANGED chainVars
    BY <1>1, <1>6 DEF FinalizeCall, Call, Told
  <2> QED BY <2>1, <2>2, CallsAreSteps
<1>7. CASE SettleCall(q)
  <2> DEFINE accounts == [i \in DOMAIN r.todo |-> <<r.c, r.todo[i]>>]
  <2>1. r.c \in Challenges
    BY <1>1, <1>7, RequestFacts DEF SettleCall, At
  <2>2. accounts \in AccountLists
    <3>1. /\ DOMAIN r.todo = 1..Len(r.todo) /\ Len(r.todo) \in 0..MaxContestants
          /\ \A i \in DOMAIN r.todo : r.todo[i] \in AgentIds
      BY ListFacts, LimitAssumption DEF Request
    <3> QED BY <2>1, <3>1 DEF AccountLists
  <2>3. \/ \E w \in OptionOf(AgentIds) : SettleChallenge(Authority, r.c, accounts, w)
        \/ UNCHANGED chainVars
    BY <1>1, <1>7 DEF SettleCall, Call
  <2> HIDE DEF accounts
  <2> QED BY <2>1, <2>2, <2>3, CallsAreSteps
<1>8. CASE \E usdc \in Balances, completion \in Completions : LoopFinishes(q, usdc, completion)
  BY <1>2, <1>8 DEF LoopFinishes
<1>9. CASE \/ CreateChallengeCommit(q) \/ CreateEnds(q) \/ NextContestant(q)
           \/ CreateRunCommit(q) \/ StartCommit(q) \/ FinalizeCommit(q) \/ SettleCommit(q)
  BY <1>2, <1>9 DEF CreateChallengeCommit, CreateEnds, NextContestant, CreateRunCommit,
                    StartCommit, FinalizeCommit, SettleCommit
<1> QED BY <1>3, <1>4, <1>5, <1>6, <1>7, <1>8, <1>9 DEF Serve

LEMMA AskMoves ==
  ASSUME ScriptOn, NEW pc \in ScriptSteps, NEW c \in Challenges, NEW q \in Requests,
         script' = [script EXCEPT !.pc = pc, !.c = c, !.q = q]
  PROVE  /\ script' \in Script /\ script'.pc = pc /\ script'.c = c /\ script'.q = q
         /\ script'.todo = script.todo /\ script'.ended_at = script.ended_at
BY ScriptFacts DEF Script, OptionOf

LEMMA AskCreateInvariant ==
  ASSUME ScriptOn, NEW q \in Requests, NEW c \in Challenges, AskCreate(q, c)
  PROVE  ScriptOn'
<1>1. /\ script.pc = "create" /\ CreateChallengeRequest(q, c, Both) /\ UNCHANGED agentStatus
      /\ script' = [script EXCEPT !.pc = "creating", !.c = c, !.q = q]
  BY DEF AskCreate, Asks, AtStep
<1>2. BackendInv' /\ UNCHANGED <<chainVars, rowVars>> /\ BackendInv
  BY <1>1, ShortLists, CreateChallengeRequestInvariant DEF ScriptOn, CreateChallengeRequest
<1>3. /\ request'[q].pc = "create_call" /\ request'[q].c = c /\ request'[q].todo = Both
      /\ \A p \in Requests \ {q} : request'[p] = request[p]
  <2> DEFINE s == [Idle EXCEPT !.pc = "create_call", !.c = c, !.todo = Both]
  <2>1. request' = [request EXCEPT ![q] = s]
    BY <1>1 DEF CreateChallengeRequest, Becomes
  <2>2. s.pc = "create_call" /\ s.c = c /\ s.todo = Both
    BY DEF Idle
  <2> HIDE DEF s
  <2> QED BY <1>2, <2>1, <2>2, RequestFacts
<1>4. /\ script' \in Script /\ script'.pc = "creating" /\ script'.c = c /\ script'.q = q
      /\ script'.todo = script.todo /\ script'.ended_at = script.ended_at
  BY <1>1, AskMoves DEF ScriptSteps
<1>5. ScriptShape /\ OursAlone /\ ActiveRegistered /\ CompletedInv
  BY DEF ScriptOn, ScriptInv
<1>6. ScriptShape'
  BY <1>1, <1>4, <1>5, ScriptFacts
     DEF ScriptShape, AwaitingSteps, CreatedSteps, StartedSteps
<1>7. OursAlone'
  <2>1. ASSUME NEW p \in Requests
        PROVE  /\ request'[p].pc \notin RunSteps
               /\ request'[p].pc \in CreateSteps =>
                    \A i \in DOMAIN request'[p].todo : request'[p].todo[i] \in Ours
    <3>1. CASE p = q
      BY <1>3, <3>1, ShortLists DEF RunSteps
    <3>2. CASE p # q
      BY <1>3, <1>5, <3>2 DEF OursAlone
    <3> QED BY <3>1, <3>2
  <2>2. run' = run
    BY <1>2 DEF chainVars
  <2> QED BY <1>5, <2>1, <2>2 DEF OursAlone
<1>8. ActiveRegistered'
  BY <1>1, <1>2, <1>5, ActiveKept DEF chainVars
<1>9. CompletedInv'
  BY <1>1, <1>2, <1>5 DEF CompletedInv, FinalizedSteps, rowVars
<1>10. AwaitedInv'
  BY <1>3, <1>4 DEF AwaitedInv, CreateSteps
<1>11. RegisteredInv' /\ CreatedInv' /\ StartedInv' /\ FinalizingInv' /\ FinalizedInv' /\ SettledInv'
  BY <1>4 DEF RegisteredInv, AtStep, CreatedInv, CreatedSteps, StartedInv, StartedSteps,
              FinalizingInv, FinalizedInv, FinalizedSteps, SettledInv, SettledSteps
<1>12. agentStatus' \in [AgentIds -> AgentStatuses]
  BY <1>1, ScriptFacts
<1> QED BY <1>2, <1>4, <1>6, <1>7, <1>8, <1>9, <1>10, <1>11, <1>12
        DEF ScriptOn, ScriptInv, LifecycleTypeOK, AtStep, BackendInv

(* It asks for the start of its challenge, or for its settlement.           *)
LEMMA AskInvariant ==
  ASSUME ScriptOn, BackendInv', NEW q \in Requests, Effect(q),
         UNCHANGED <<chainVars, rowVars, agentStatus>>,
         request'[q].c = script.c,
         \/ /\ script' = [script EXCEPT !.pc = "starting", !.c = script.c, !.q = q]
            /\ script.pc = "start" /\ request'[q].pc = "start_call"
         \/ /\ script' = [script EXCEPT !.pc = "settling", !.c = script.c, !.q = q]
            /\ script.pc = "settle" /\ request'[q].pc = "settle_call"
  PROVE  ScriptOn'
<1>1. /\ BackendInv /\ ScriptShape /\ OursAlone /\ ActiveRegistered /\ CompletedInv
      /\ CreatedInv /\ StartedInv /\ FinalizedInv
  BY DEF ScriptOn, ScriptInv
<1>2. script.c \in Challenges
  BY <1>1 DEF ScriptShape, CreatedSteps, StartedSteps
<1>3. /\ script' \in Script /\ script'.c = script.c /\ script'.q = q
      /\ script'.todo = script.todo /\ script'.ended_at = script.ended_at
      /\ \/ /\ script.pc = "start" /\ script'.pc = "starting"
            /\ request'[q].pc = "start_call"
         \/ /\ script.pc = "settle" /\ script'.pc = "settling"
            /\ request'[q].pc = "settle_call"
  <2>1. "starting" \in ScriptSteps /\ "settling" \in ScriptSteps
    BY DEF ScriptSteps
  <2>2. PICK c \in Challenges : c = script.c
    BY <1>2
  <2>3. CASE script.pc = "start"
    <3>1. /\ script' = [script EXCEPT !.pc = "starting", !.c = c, !.q = q]
          /\ request'[q].pc = "start_call"
      BY <2>2, <2>3
    <3>2. /\ script' \in Script /\ script'.pc = "starting" /\ script'.c = c /\ script'.q = q
          /\ script'.todo = script.todo /\ script'.ended_at = script.ended_at
      BY <2>1, <3>1, AskMoves
    <3> QED BY <2>2, <2>3, <3>1, <3>2
  <2>4. CASE script.pc = "settle"
    <3>1. /\ script' = [script EXCEPT !.pc = "settling", !.c = c, !.q = q]
          /\ request'[q].pc = "settle_call"
      BY <2>2, <2>4
    <3>2. /\ script' \in Script /\ script'.pc = "settling" /\ script'.c = c /\ script'.q = q
          /\ script'.todo = script.todo /\ script'.ended_at = script.ended_at
      BY <2>1, <3>1, AskMoves
    <3> QED BY <2>2, <2>4, <3>1, <3>2
  <2> QED BY <2>3, <2>4
<1>4. ScriptShape'
  BY <1>1, <1>3, ScriptFacts DEF ScriptShape, AwaitingSteps, CreatedSteps, StartedSteps
<1>5. OursAlone'
  BY <1>1, OursKept
<1>6. ActiveRegistered'
  BY <1>1, ActiveKept DEF chainVars
<1>7. CompletedInv'
  BY <1>1, <1>3 DEF CompletedInv, FinalizedSteps, rowVars, chainVars
<1>8. AwaitedInv'
  BY <1>3 DEF AwaitedInv, StartSteps, SettleSteps
<1>9. \A p \in Requests : p # q => request'[p] = request[p]
  BY DEF Effect, RequestEffect
<1>10. CreatedInv'
  <2>1. script.pc \in CreatedSteps /\ request'[q].pc \notin CreateSteps
    BY <1>3 DEF CreatedSteps, StartedSteps, CreateSteps
  <2> QED BY <1>1, <1>3, <1>9, <2>1 DEF CreatedInv, rowVars
<1>11. StartedInv'
  <2> SUFFICES ASSUME script'.pc \in StartedSteps PROVE StartedInv'
    BY DEF StartedInv
  <2>1. script.pc \in StartedSteps /\ request'[q].pc # "start_commit"
    BY <1>3 DEF StartedSteps
  <2> QED BY <1>1, <1>3, <1>9, <2>1 DEF StartedInv, chainVars, AnsweredFor, Answered
<1>12. FinalizedInv'
  BY <1>1, <1>3 DEF FinalizedInv, FinalizedSteps, Ended, rowVars
<1>13. RegisteredInv' /\ FinalizingInv' /\ SettledInv'
  BY <1>3 DEF RegisteredInv, AtStep, FinalizingInv, SettledInv, SettledSteps
<1>14. agentStatus' \in [AgentIds -> AgentStatuses]
  BY ScriptFacts
<1> QED BY <1>3, <1>4, <1>5, <1>6, <1>7, <1>8, <1>10, <1>11, <1>12, <1>13, <1>14
        DEF ScriptOn, ScriptInv, LifecycleTypeOK, AtStep, BackendInv

LEMMA AskStartInvariant ==
  ASSUME ScriptOn, NEW q \in Requests, AskStart(q)
  PROVE  ScriptOn'
<1>1. /\ script.pc = "start" /\ StartRequest(q, script.c) /\ UNCHANGED agentStatus
      /\ script' = [script EXCEPT !.pc = "starting", !.c = script.c, !.q = q]
  BY DEF AskStart, Asks, AtStep
<1>2. PICK c \in Challenges : c = script.c
  BY <1>1 DEF ScriptOn, ScriptShape, CreatedSteps
<1>3. BackendInv' /\ Effect(q) /\ UNCHANGED <<chainVars, rowVars>> /\ BackendInv
  BY <1>1, <1>2, StartRequestInvariant, StartRequestEffect DEF ScriptOn, StartRequest
<1>4. request'[q].pc = "start_call" /\ request'[q].c = c
  <2> DEFINE s == [Idle EXCEPT !.pc = "start_call", !.c = c]
  <2>1. request' = [request EXCEPT ![q] = s]
    BY <1>1, <1>2 DEF StartRequest, Becomes
  <2>2. s.pc = "start_call" /\ s.c = c
    BY DEF Idle
  <2> HIDE DEF s
  <2> QED BY <1>3, <2>1, <2>2, RequestFacts
<1> QED BY <1>1, <1>2, <1>3, <1>4, AskInvariant

LEMMA AskSettleInvariant ==
  ASSUME ScriptOn, NEW q \in Requests, AskSettle(q)
  PROVE  ScriptOn'
<1>1. /\ script.pc = "settle" /\ SettleRequest(q, script.c) /\ UNCHANGED agentStatus
      /\ script' = [script EXCEPT !.pc = "settling", !.c = script.c, !.q = q]
  BY DEF AskSettle, Asks, AtStep
<1>2. PICK c \in Challenges : c = script.c
  BY <1>1 DEF ScriptOn, ScriptShape, CreatedSteps, StartedSteps
<1>3. BackendInv' /\ Effect(q) /\ UNCHANGED <<chainVars, rowVars>> /\ BackendInv
  BY <1>1, <1>2, SettleRequestInvariant, SettleRequestEffect DEF ScriptOn, SettleRequest
<1>4. PICK l, w :
        request' = [request EXCEPT ![q] =
          [Idle EXCEPT !.pc = "settle_call", !.c = c, !.todo = l, !.winner = w]]
  BY <1>1, <1>2 DEF SettleRequest, Becomes
<1>5. request'[q].pc = "settle_call" /\ request'[q].c = c
  <2> DEFINE s == [Idle EXCEPT !.pc = "settle_call", !.c = c, !.todo = l, !.winner = w]
  <2>1. s.pc = "settle_call" /\ s.c = c
    BY DEF Idle
  <2>2. request' = [request EXCEPT ![q] = s]
    BY <1>4
  <2> HIDE DEF s
  <2> QED BY <1>3, <2>1, <2>2, RequestFacts
<1> QED BY <1>1, <1>2, <1>3, <1>5, AskInvariant

LEMMA AwaitedFacts ==
  ASSUME ScriptOn, script.q # None
  PROVE  /\ script.q \in Requests /\ script.c \in Challenges /\ script.pc \in AwaitingSteps
         /\ request[script.q].c = script.c /\ request[script.q].pc # "idle"
         /\ script.pc = "creating" => request[script.q].pc \in CreateSteps
         /\ script.pc = "starting" => request[script.q].pc \in StartSteps
         /\ script.pc = "settling" => request[script.q].pc \in SettleSteps
<1>1. ScriptShape /\ AwaitedInv
  BY DEF ScriptOn, ScriptInv
<1>2. script.pc \in AwaitingSteps /\ script.q \in Requests
  BY <1>1 DEF ScriptShape
<1>3. script.c \in Challenges
  BY <1>1, <1>2 DEF ScriptShape, AwaitingSteps, CreatedSteps, StartedSteps
<1> QED BY <1>1, <1>2, <1>3
        DEF AwaitedInv, AwaitingSteps, CreateSteps, StartSteps, SettleSteps

(* The request it awaits failed or died, and it stops.                      *)
LEMMA AwaitedFails ==
  ASSUME ScriptOn, BackendInv', Monotone, NEW q \in Requests, Effect(q),
         Fails, UNCHANGED agentStatus
  PROVE  ScriptOn'
<1>1. /\ BackendInv /\ OursAlone /\ ActiveRegistered /\ CompletedInv /\ ScriptShape
  BY DEF ScriptOn, ScriptInv
<1>2. script' \in Script /\ script'.pc = "failed" /\ script'.q = None /\ script'.todo = script.todo
  BY ScriptFacts, ScriptMoves DEF ScriptSteps
<1>3. ScriptShape'
  BY <1>1, <1>2, EarlyShape DEF ScriptShape
<1>4. OursAlone'
  BY <1>1, OursKept
<1>5. ActiveRegistered'
  <2>1. strategies' = strategies
    BY DEF Effect, ChainEffect
  <2> QED BY <1>1, <2>1, ActiveKept
<1>6. CompletedInv'
  BY <1>1, <1>2, CompletedKept DEF CompletedInv
<1>7. RegisteredInv' /\ CreatedInv' /\ StartedInv' /\ FinalizingInv' /\ FinalizedInv'
      /\ SettledInv' /\ AwaitedInv'
  BY <1>2 DEF RegisteredInv, AtStep, CreatedInv, CreatedSteps, StartedInv, StartedSteps,
              FinalizingInv, FinalizedInv, FinalizedSteps, SettledInv, SettledSteps,
              AwaitedInv, AwaitingSteps
<1>8. agentStatus' \in [AgentIds -> AgentStatuses]
  BY ScriptFacts
<1> QED BY <1>2, <1>3, <1>4, <1>5, <1>6, <1>7, <1>8
        DEF ScriptOn, ScriptInv, LifecycleTypeOK, AtStep, BackendInv

LEMMA AwaitedCrashesInvariant ==
  ASSUME ScriptOn, AwaitedCrashes
  PROVE  ScriptOn'
<1>1. /\ script.q # None /\ Crash(script.q) /\ Fails /\ UNCHANGED agentStatus
  BY DEF AwaitedCrashes
<1>2. PICK q \in Requests : q = script.q
  BY <1>1, AwaitedFacts
<1>3. BackendInv /\ Crash(q)
  BY <1>1, <1>2 DEF ScriptOn
<1>4. BackendInv' /\ Effect(q)
  BY <1>3, CrashInvariant, CrashEffect
<1>5. Monotone
  BY <1>3, ChainMonotone DEF Crash, chainVars, vars, BackendInv
<1> QED BY <1>1, <1>4, <1>5, AwaitedFails

(* The creation it awaits is the only one of its challenge, a start that    *)
(* was answered the only one, and the settlement commits the row: when the  *)
(* request ends well, the script may rely on what it was for.               *)
LEMMA AwaitedServesInvariant ==
  ASSUME ScriptOn, AwaitedServes
  PROVE  ScriptOn'
<1>1. /\ script.q # None /\ Serve(script.q) /\ UNCHANGED agentStatus
      /\ IF request'[script.q].pc # "idle" THEN UNCHANGED script
         ELSE script' = [script EXCEPT !.pc = AfterAnswer(request[script.q]), !.q = None]
  BY DEF AwaitedServes
<1>2. PICK q \in Requests : q = script.q
  BY <1>1, AwaitedFacts
<1>3. PICK r \in Request : r = request[q]
  BY RequestFacts DEF ScriptOn
<1>4. /\ BackendInv /\ Serve(q) /\ ScriptShape /\ OursAlone /\ ActiveRegistered
      /\ CompletedInv /\ CreatedInv /\ StartedInv /\ FinalizedInv
      /\ RequestInv(r) /\ RequestShape(r)
  BY <1>1, <1>2, <1>3, RequestFacts DEF ScriptOn, ScriptInv
<1>5. BackendInv' /\ Effect(q) /\ Monotone
  BY <1>4, ServeInvariant, ServeEffect, ServeIsStep, ChainMonotone DEF BackendInv
<1>6. /\ script.c \in Challenges /\ script.pc \in AwaitingSteps
      /\ r.c = script.c /\ r.pc # "idle"
      /\ script.pc = "creating" => r.pc \in CreateSteps
      /\ script.pc = "starting" => r.pc \in StartSteps
      /\ script.pc = "settling" => r.pc \in SettleSteps
  BY <1>1, <1>2, <1>3, AwaitedFacts
<1>7. CASE request'[q].pc # "idle"
  <2>1. UNCHANGED script
    BY <1>1, <1>2, <1>7
  <2>2. AwaitedInv'
    BY <1>2, <1>3, <1>5, <1>6, <1>7, <2>1 DEF AwaitedInv, Effect, RequestEffect
  <2> QED BY <1>1, <1>4, <1>5, <2>1, <2>2, ScriptLooksOn
          DEF ScriptOn, LifecycleTypeOK, AtStep, ScriptShape, BackendInv
<1>8. CASE request'[q].pc = "idle"
  <2>1. script' = [script EXCEPT !.pc = AfterAnswer(r), !.q = None]
    BY <1>1, <1>2, <1>3, <1>8
  <2>2. CASE AfterAnswer(r) = "failed"
    BY <1>1, <1>5, <2>1, <2>2, AwaitedFails DEF Fails
  <2>3. CASE AfterAnswer(r) # "failed"
    <3>1. \/ r.pc = "create_run" /\ AfterAnswer(r) = "start"
          \/ r.pc = "start_commit" /\ r.answered /\ AfterAnswer(r) = "finalize"
          \/ r.pc = "settle_commit" /\ r.answered /\ AfterAnswer(r) = "verify"
      BY <2>3 DEF AfterAnswer
    <3>2. AfterAnswer(r) \in ScriptSteps
      BY <3>1 DEF ScriptSteps
    <3>3. /\ script' \in Script /\ script'.pc = AfterAnswer(r) /\ script'.q = None
          /\ script'.c = script.c /\ script'.todo = script.todo
          /\ script'.ended_at = script.ended_at
      <4>1. script \in Script /\ None \in OptionOf(Requests)
        BY ScriptFacts DEF OptionOf
      <4> HIDE DEF AfterAnswer
      <4> QED BY <2>1, <3>2, <4>1 DEF Script
    <3>4. \/ r.pc = "create_run" /\ script.pc = "creating" /\ script'.pc = "start"
          \/ r.pc = "start_commit" /\ r.answered
             /\ script.pc = "starting" /\ script'.pc = "finalize"
          \/ r.pc = "settle_commit" /\ r.answered
             /\ script.pc = "settling" /\ script'.pc = "verify"
      BY <1>6, <3>1, <3>3 DEF AwaitingSteps, CreateSteps, StartSteps, SettleSteps
    <3>5. \A p \in Requests \ {q} : request'[p] = request[p] /\ ~Clash(r, request[p])
      BY <1>3, <1>4, <1>5, RequestFacts DEF Effect, RequestEffect
    <3>6. /\ script'.todo # <<>> /\ (script'.pc = "start" => script'.todo = Both)
          /\ script'.pc = "finalize" =>
               script'.todo = Both /\ \A a \in AgentIds : script'.ended_at[a] = None
      BY <1>4, <3>3, <3>4 DEF ScriptShape, StartedSteps
    <3>7. ScriptShape'
      BY <1>4, <1>6, <3>3, <3>4, <3>6
         DEF ScriptShape, AwaitingSteps, CreatedSteps, StartedSteps
    <3>8. OursAlone'
      BY <1>4, <1>5, OursKept
    <3>9. ActiveRegistered'
      BY <1>1, <1>4, <1>5, ActiveKept DEF Effect, ChainEffect
    <3>10. CompletedInv'
      BY <1>4, <1>5, <3>4, CompletedKept DEF CompletedInv, FinalizedSteps
    <3>11. CreatedInv'
      <4>1. challengeRow'[script.c].onchain_address
        <5>1. challengeRow[script.c].onchain_address
          BY <1>4, <1>6, <3>4 DEF RequestInv, StartSteps, CreatedInv, CreatedSteps, StartedSteps
        <5> QED BY <1>5, <1>6, <5>1 DEF Effect, RowEffect
      <4>2. \A p \in Requests \ {q} : request[p].pc \in CreateSteps => request[p].c # script.c
        BY <1>4, <1>6, <3>4, <3>5
           DEF Clash, CreateSteps, CreatedInv, CreatedSteps, StartedSteps
      <4>3. request'[q].pc \notin CreateSteps
        BY <1>8 DEF CreateSteps
      <4> QED BY <3>3, <3>5, <4>1, <4>2, <4>3 DEF CreatedInv
    <3>12. StartedInv'
      <4> SUFFICES ASSUME script'.pc \in StartedSteps PROVE StartedInv'
        BY DEF StartedInv
      <4>1. script'.pc \in {"finalize", "verify"}
        BY <3>4 DEF StartedSteps
      <4>2. /\ challenge[script.c].status \notin {"absent", "pending"}
            /\ \A p \in Requests \ {q} : ~AnsweredFor(request[p], "start_commit", script.c)
        <5>1. CASE r.pc = "start_commit" /\ r.answered
          BY <1>4, <1>6, <3>5, <5>1 DEF RequestInv, Answered, AnsweredFor, Clash
        <5>2. CASE script.pc = "settling"
          BY <1>4, <5>2 DEF StartedInv, StartedSteps
        <5> QED BY <3>4, <4>1, <5>1, <5>2
      <4>3. challenge'[script.c].status \notin {"absent", "pending"}
        BY <1>5, <1>6, <4>2 DEF Monotone
      <4>4. request'[q].pc # "start_commit"
        BY <1>8
      <4> QED BY <3>3, <3>5, <4>2, <4>3, <4>4 DEF StartedInv, AnsweredFor, Answered
    <3>13. FinalizingInv'
      BY <3>3, <3>4, <3>6 DEF FinalizingInv, AtStep
    <3>14. FinalizedInv'
      <4> SUFFICES ASSUME script'.pc \in FinalizedSteps, NEW a \in Ours
                   PROVE  Ended(runRow'[script'.c][a], a)
        BY DEF FinalizedInv, Ended
      <4>1. script.pc \in FinalizedSteps /\ a \in AgentIds
        BY <3>4, AlphaBetaAssumption DEF FinalizedSteps, Ours
      <4>2. Ended(runRow[script.c][a], a)
        BY <1>4, <4>1 DEF FinalizedInv
      <4> QED BY <1>5, <1>6, <3>3, <4>1, <4>2 DEF Ended, Effect, RowEffect
    <3>15. SettledInv'
      <4> SUFFICES ASSUME script'.pc \in SettledSteps PROVE SettledInv'
        BY DEF SettledInv
      <4>1. r.pc = "settle_commit" /\ r.answered /\ r.winner # None
        <5>1. r.pc = "settle_commit" /\ r.answered
          BY <3>4 DEF SettledSteps
        <5> QED BY <1>4, <5>1, NoneIsNothing DEF RequestShape, SettleSteps
      <4>2. SettleCommit(q)
        BY <1>3, <1>4, <4>1
           DEF Serve, At, CreateChallengeCall, CreateChallengeCommit, CreateEnds,
               NextContestant, CreateRunCall, CreateRunCommit, StartCall, StartCommit,
               LoopFinishes, FinalizeCall, FinalizeCommit, SettleCall
      <4>3. challengeRow' = [challengeRow EXCEPT ![r.c].status = "completed",
                                                 ![r.c].winner_agent_id = r.winner]
        BY <1>3, <4>1, <4>2 DEF SettleCommit, Settles
      <4>4. challengeRow \in [Challenges -> ChallengeRow]
        BY <1>4 DEF BackendInv, BackendTypeOK
      <4>5. challengeRow'[script.c].status = "completed"
            /\ challengeRow'[script.c].winner_agent_id = r.winner
        BY <1>6, <4>3, <4>4 DEF ChallengeRow
      <4> QED BY <3>3, <4>1, <4>5 DEF SettledInv
    <3>16. RegisteredInv' /\ AwaitedInv'
      BY <3>4 DEF RegisteredInv, AtStep, AwaitedInv, AwaitingSteps
    <3>17. agentStatus' \in [AgentIds -> AgentStatuses] /\ script'.pc # "unused"
      BY <1>1, <3>4, ScriptFacts
    <3> QED BY <1>5, <3>3, <3>7, <3>8, <3>9, <3>10, <3>11, <3>12, <3>13, <3>14, <3>15,
               <3>16, <3>17
            DEF ScriptOn, ScriptInv, LifecycleTypeOK, AtStep, BackendInv
  <2> QED BY <2>2, <2>3
<1> QED BY <1>7, <1>8

LEMMA EndingFacts ==
  /\ \A a \in AgentIds : Ending(a) \in Balances /\ Ending(a) \in Nat /\ Ending(a) # None
  /\ "complete" \in Completions
BY EndingsAssumption, BalancesAssumption, NoneIsNothing DEF Ending

(* Nobody else is about to commit a result, and no row has one yet: a run   *)
(* may be finalized on chain.                                               *)
LEMMA FinalizeOnChainInvariant ==
  ASSUME ScriptOn, FinalizeOnChain
  PROVE  ScriptOn'
<1>1. PICK a \in AgentIds : a = Head(script.todo)
  BY ScriptFacts DEF FinalizeOnChain
<1>2. PICK c \in Challenges : c = script.c
  BY DEF FinalizeOnChain, AtStep, ScriptOn, ScriptShape, CreatedSteps, StartedSteps
<1> DEFINE A == FinalizeRun(Authority, c, a, Ending(a), "complete")
           ended == [script EXCEPT !.ended_at[a] = now]
<1>3. /\ script.pc = "finalize" /\ script.todo # <<>>
      /\ UNCHANGED <<rowVars, request, agentStatus>>
      /\ \/ A /\ script' = [ended EXCEPT !.todo = Tail(@)] /\ UNCHANGED faulty
         \/ A /\ script' = [ended EXCEPT !.pc = "finalize_failed"] /\ faulty' = TRUE
         \/ /\ script' = [ended EXCEPT !.pc = "finalize_failed"]
            /\ UNCHANGED <<chainVars, faulty>>
  BY <1>1, <1>2 DEF FinalizeOnChain, AtStep
<1>4. /\ BackendInv /\ ScriptShape /\ OursAlone /\ ActiveRegistered /\ CreatedInv
      /\ StartedInv /\ FinalizingInv /\ CompletedInv /\ IInv
  BY DEF ScriptOn, ScriptInv, BackendInv
<1>5. A \/ UNCHANGED chainVars
  BY <1>3
<1>6. ASSUME A
      PROVE  /\ run[c][a].status = "pending" /\ Ended(run'[c][a], a)
             /\ \A e \in AgentIds \ {a} : run'[c][e] = run[c][e]
             /\ \A d \in Challenges \ {c} : challenge'[d] = challenge[d] /\ run'[d] = run[d]
             /\ challenge[c].status # "absent"
             /\ challenge'[c].status \in {challenge[c].status, "settling"}
             /\ challenge'[c].started_at = challenge[c].started_at
             /\ strategies' = strategies
  <2> DEFINE ch == [challenge[c] EXCEPT !.num_finalized = @ + 1]
             done == [status |-> "completed", agent_id |-> a, completion |-> "complete",
                      ending_usdc |-> Ending(a), ended_at |-> now]
  <2>1. /\ challenge \in [Challenges -> ChallengeAccount]
        /\ run \in [Challenges -> [AgentIds -> RunAccount]]
    BY <1>4 DEF IInv, TypeOK
  <2>2. /\ challenge' = [challenge EXCEPT ![c] = [ch EXCEPT !.status = StatusAfterFinalize(ch)]]
        /\ run' = [run EXCEPT ![c][a] = done]
        /\ run[c][a].status = "pending" /\ strategies' = strategies
        /\ challenge[c].authority = Authority
    BY <1>6 DEF FinalizeRun, Finalizable
  <2>3. challenge[c].status # "absent"
    BY <1>4, <2>2, AuthorityAssumption, SignersAssumption
       DEF IInv, StatusShapes, StatusShape, NoChallenge
  <2>4. challenge[c] \in ChallengeAccount
    BY <2>1
  <2>5. /\ [ch EXCEPT !.status = StatusAfterFinalize(ch)].status
             \in {challenge[c].status, "settling"}
        /\ [ch EXCEPT !.status = StatusAfterFinalize(ch)].started_at = challenge[c].started_at
    BY <2>4 DEF ChallengeAccount, StatusAfterFinalize
  <2>6. Ended(done, a)
    BY DEF Ended
  <2> HIDE DEF done, ch
  <2> QED BY <2>1, <2>2, <2>3, <2>5, <2>6
<1> HIDE DEF A
<1>7. [Next]_vars
  <2>1. A => [Next]_vars
    BY EndingFacts, CallsAreSteps DEF A
  <2>2. UNCHANGED chainVars => [Next]_vars
    BY DEF chainVars, vars
  <2> QED BY <1>5, <2>1, <2>2
<1>8. Monotone
  BY <1>4, <1>7, ChainMonotone
<1>9. BackendInv'
  <2>1. \A p \in Requests : request[p].pc # "idle" => Undisturbed(request[p])
    BY <1>3, <1>4 DEF Undisturbed, OursAlone, rowVars
  <2>2. \A d \in Challenges, e \in AgentIds : RunRowInv(d, e)'
    <3>1. \A d \in Challenges, e \in AgentIds : runRow[d][e].status # "completed"
      BY <1>3, <1>4 DEF CompletedInv, FinalizedSteps
    <3> QED BY <1>3, <1>4, <1>8, <3>1, RunRowsKept DEF rowVars
  <2>3. ASSUME NEW d \in Challenges PROVE OwedInv(d)'
    <3>1. OwedInv(d)
      BY <1>4 DEF BackendInv
    <3>2. ~faulty' => ~faulty
      BY <1>3
    <3>3. /\ challenge'[d].status # "absent" => challenge[d].status # "absent"
          /\ challenge'[d].started_at = challenge[d].started_at
          /\ challenge'[d].status = "completed" => challenge[d].status = "completed"
          /\ \A e \in AgentIds : run'[d][e].status # "absent" => run[d][e].status # "absent"
      <4>1. CASE A
        BY <1>6, <4>1
      <4>2. CASE UNCHANGED chainVars
        BY <4>2 DEF chainVars
      <4> QED BY <1>5, <4>1, <4>2
    <3> QED BY <1>3, <3>1, <3>2, <3>3 DEF OwedInv, rowVars
  <2>4. /\ agentOnchain' \subseteq AgentIds /\ faulty' \in BOOLEAN
        /\ runRow' \in [Challenges -> [AgentIds -> RunRow]]
    BY <1>3, <1>4 DEF rowVars, BackendInv, BackendTypeOK
  <2> QED BY <1>3, <1>4, <1>7, <2>1, <2>2, <2>3, <2>4, OutsideInvariant DEF rowVars
<1>10. /\ script' \in Script /\ script'.c = c /\ script'.q = None
       /\ script'.ended_at = [script.ended_at EXCEPT ![a] = now]
       /\ \/ A /\ script'.pc = "finalize" /\ script'.todo = Tail(script.todo)
          \/ script'.pc = "finalize_failed" /\ script'.todo = script.todo
  <2>1. /\ script \in Script /\ now \in Nat /\ Tail(script.todo) \in ContestantLists
        /\ script.q = None
    BY <1>3, <1>4, ScriptFacts, ListFacts
       DEF IInv, TypeOK, Script, ScriptShape, AwaitingSteps
  <2>2. PICK s : s = ended
    OBVIOUS
  <2>3. /\ s \in Script /\ s.c = script.c /\ s.q = script.q /\ s.todo = script.todo
        /\ s.ended_at = [script.ended_at EXCEPT ![a] = now] /\ s.pc = "finalize"
    BY <1>3, <2>1, <2>2 DEF Script, OptionOf
  <2>4. CASE A /\ script' = [s EXCEPT !.todo = Tail(@)]
    <3>1. script' \in Script
      BY <2>1, <2>3, <2>4 DEF Script
    <3> QED BY <1>2, <2>1, <2>3, <2>4, <3>1 DEF Script
  <2>5. CASE script' = [s EXCEPT !.pc = "finalize_failed"]
    <3>1. script' \in Script
      BY <2>3, <2>5 DEF Script, ScriptSteps
    <3> QED BY <1>2, <2>1, <2>3, <2>5, <3>1 DEF Script
  <2> QED BY <1>3, <2>2, <2>4, <2>5
<1>11. script.ended_at \in [AgentIds -> OptionOf(Nat)] /\ now # None
  BY <1>4, ScriptFacts, NoneAssumption DEF Script, IInv, TypeOK
<1>12. ScriptShape'
  BY <1>3, <1>10, ScriptFacts
     DEF ScriptShape, AwaitingSteps, CreatedSteps, StartedSteps
<1>13. OursAlone'
  <2>1. \A d \in Challenges, e \in AgentIds :
          run'[d][e].status # "absent" => run[d][e].status # "absent"
    <3>1. CASE A
      BY <1>6, <3>1
    <3>2. CASE UNCHANGED chainVars
      BY <3>2 DEF chainVars
    <3> QED BY <1>5, <3>1, <3>2
  <2> QED BY <1>3, <1>4, <2>1 DEF OursAlone
<1>14. ActiveRegistered'
  <2>1. strategies' = strategies
    BY <1>5, <1>6 DEF chainVars
  <2> QED BY <1>3, <1>4, <2>1, ActiveKept
<1>15. CompletedInv'
  BY <1>3, <1>4 DEF CompletedInv, FinalizedSteps, rowVars
<1>16. CreatedInv' /\ StartedInv'
  <2>1. script.pc \in CreatedSteps /\ script.pc \in StartedSteps
    BY <1>3 DEF CreatedSteps, StartedSteps
  <2>2. challenge'[c].status \notin {"absent", "pending"}
    BY <1>2, <1>4, <1>8, <2>1 DEF StartedInv, Monotone
  <2> QED BY <1>2, <1>3, <1>4, <1>10, <2>1, <2>2
          DEF CreatedInv, StartedInv, rowVars, AnsweredFor, Answered
<1>17. FinalizingInv'
  <2>1. ASSUME NEW e \in AgentIds, script'.ended_at[e] # None,
               ~(script'.pc = "finalize_failed" /\ e = a)
        PROVE  Ended(run'[c][e], e)
    <3>1. CASE e = a
      BY <1>6, <1>10, <2>1, <3>1
    <3>2. CASE e # a
      <4>1. script.ended_at[e] # None /\ StatusToCommit(e) = "completed"
        BY <1>3, <1>10, <1>11, <2>1, <3>2 DEF StatusToCommit, AtStep
      <4>2. Ended(run[c][e], e)
        BY <1>2, <1>3, <1>4, <4>1 DEF FinalizingInv
      <4> QED BY <1>8, <4>2 DEF Monotone, Ended
    <3> QED BY <3>1, <3>2
  <2>2. ASSUME NEW e \in AgentIds, script'.ended_at[e] # None, StatusToCommit(e)' = "completed"
        PROVE  Ended(run'[script'.c][e], e)
    <3>1. ~(script'.pc = "finalize_failed" /\ e = a)
      BY <1>1, <1>10, <2>2 DEF StatusToCommit, AtStep
    <3> QED BY <1>10, <2>1, <2>2, <3>1
  <2>3. ASSUME script'.pc = "finalize"
        PROVE  /\ script'.todo # Both => script'.ended_at[Alpha] # None
               /\ script'.todo = <<>> => script'.ended_at[Beta] # None
    <3>1. script'.todo = Tail(script.todo)
      BY <1>10, <2>3
    <3>2. Alpha \in AgentIds /\ Beta \in AgentIds /\ Alpha # Beta
      BY AlphaBetaAssumption
    <3>3. CASE script.todo = Both
      BY <1>1, <1>10, <1>11, <3>1, <3>2, <3>3, ScriptFacts
    <3>4. CASE script.todo = <<Beta>>
      <4>1. a = Beta /\ script.ended_at[Alpha] # None
        BY <1>1, <1>3, <1>4, <3>4, ScriptFacts DEF FinalizingInv, AtStep
      <4> QED BY <1>10, <1>11, <3>2, <4>1
    <3> QED BY <1>3, <3>3, <3>4, ScriptFacts
  <2> QED BY <2>2, <2>3 DEF FinalizingInv, AtStep, Ended
<1>18. RegisteredInv' /\ AwaitedInv' /\ FinalizedInv' /\ SettledInv' /\ script'.pc # "unused"
  BY <1>10 DEF RegisteredInv, AtStep, AwaitedInv, AwaitingSteps, FinalizedInv,
               FinalizedSteps, SettledInv, SettledSteps
<1>19. agentStatus' \in [AgentIds -> AgentStatuses]
  BY <1>3, ScriptFacts
<1> QED BY <1>9, <1>10, <1>12, <1>13, <1>14, <1>15, <1>16, <1>17, <1>18, <1>19
        DEF ScriptOn, ScriptInv, LifecycleTypeOK, AtStep, BackendInv

(* The one commit writes what the chain holds of the runs, into rows that   *)
(* nobody reads or writes meanwhile.                                        *)
LEMMA FinalizeRunsCommitInvariant ==
  ASSUME ScriptOn, FinalizeRunsCommit
  PROVE  ScriptOn'
<1>1. PICK c \in Challenges : c = script.c
  BY DEF FinalizeRunsCommit, AtStep, ScriptOn, ScriptShape, CreatedSteps, StartedSteps
<1> DEFINE row(a) == IF script.ended_at[a] = None THEN runRow[c][a]
                     ELSE FinalizedRow(runRow[c][a], a, StatusToCommit(a), script.ended_at[a])
<1>2. /\ \/ script.pc = "finalize" /\ script.todo = <<>> /\ Goes("settle")
         \/ script.pc = "finalize_failed" /\ Fails
      /\ runRow' = [runRow EXCEPT ![c] = [a \in AgentIds |-> row(a)]]
      /\ UNCHANGED <<chainVars, agentOnchain, challengeRow, records, request, faulty,
                     agentStatus>>
  BY <1>1 DEF FinalizeRunsCommit, AtStep
<1>3. /\ BackendInv /\ ScriptShape /\ OursAlone /\ ActiveRegistered /\ CreatedInv
      /\ StartedInv /\ FinalizingInv /\ CompletedInv
  BY DEF ScriptOn, ScriptInv
<1>4. /\ runRow \in [Challenges -> [AgentIds -> RunRow]]
      /\ script.ended_at \in [AgentIds -> OptionOf(Nat)]
  BY <1>3, ScriptFacts DEF BackendInv, BackendTypeOK, Script
<1>5. \A d \in Challenges, a \in AgentIds :
        /\ runRow[d][a].status # "completed"
        /\ runRow'[d][a] = IF d = c THEN row(a) ELSE runRow[d][a]
  BY <1>2, <1>3, <1>4 DEF CompletedInv, FinalizedSteps
<1>6. ASSUME NEW a \in AgentIds
      PROVE  /\ row(a) \in RunRow /\ row(a).agent_id = runRow[c][a].agent_id
             /\ row(a).onchain_address = runRow[c][a].onchain_address
             /\ script.ended_at[a] = None => row(a) = runRow[c][a]
             /\ script.ended_at[a] # None =>
                  /\ row(a).status = StatusToCommit(a)
                  /\ row(a).completion = "complete" /\ row(a).ending_usdc = Ending(a)
                  /\ row(a).ended_at # None
  <2>1. runRow[c][a] \in RunRow /\ Ending(a) \in Nat /\ script.ended_at[a] \in OptionOf(Nat)
    BY <1>4, EndingFacts
  <2>2. StatusToCommit(a) \in {"completed", "onchain_failed"}
    BY DEF StatusToCommit
  <2>3. "complete" \in OptionOf(CompletionStatuses)
    BY DEF CompletionStatuses, OptionOf
  <2>4. Ending(a) \in OptionOf(Nat)
    BY <2>1 DEF OptionOf
  <2>5. CASE script.ended_at[a] = None
    BY <2>1, <2>5
  <2>6. CASE script.ended_at[a] # None
    <3>1. row(a) = FinalizedRow(runRow[c][a], a, StatusToCommit(a), script.ended_at[a])
      BY <2>6
    <3> HIDE DEF row
    <3> QED BY <2>1, <2>2, <2>3, <2>4, <2>6, <3>1 DEF FinalizedRow, RunRow
  <2> QED BY <2>5, <2>6
<1>7. ASSUME NEW a \in AgentIds, row(a).status = "completed"
      PROVE  /\ script.ended_at[a] # None /\ Ended(run[c][a], a)
             /\ row(a).completion = "complete" /\ row(a).ending_usdc = Ending(a)
             /\ row(a).ended_at # None
  <2>1. script.ended_at[a] # None
    BY <1>5, <1>6, <1>7
  <2>2. StatusToCommit(a) = "completed"
    BY <1>6, <1>7, <2>1
  <2>3. Ended(run[c][a], a)
    BY <1>1, <1>2, <1>3, <2>1, <2>2 DEF FinalizingInv
  <2> QED BY <1>6, <2>1, <2>3
<1> HIDE DEF row
<1>8. runRow' \in [Challenges -> [AgentIds -> RunRow]]
  <2>1. [a \in AgentIds |-> row(a)] \in [AgentIds -> RunRow]
    BY <1>6
  <2> QED BY <1>2, <1>4, <2>1
<1>9. challengeRow[c].onchain_address /\ (\A q \in Requests : request[q].pc \in CreateSteps => request[q].c # c)
  BY <1>1, <1>2, <1>3 DEF CreatedInv, CreatedSteps, StartedSteps
<1>10. BackendInv'
  <2>1. ASSUME NEW p \in Requests, request[p].pc # "idle"
        PROVE  Undisturbed(request[p])
    <3>1. /\ request[p].c \in Challenges
          /\ request[p].pc \in {"run_call", "run_commit"} \cup RunSteps =>
               Head(request[p].todo) \in AgentIds
      BY <1>3, <2>1, RequestFacts
    <3>2. request[p].pc \notin RunSteps
      BY <1>3 DEF OursAlone
    <3>3. request[p].pc \in {"run_call", "run_commit"} => request[p].c # c
      BY <1>9 DEF CreateSteps
    <3>4. request[p].pc \in {"run_call", "run_commit"} \cup RunSteps =>
            runRow'[request[p].c][Head(request[p].todo)]
              = runRow[request[p].c][Head(request[p].todo)]
      BY <1>5, <3>1, <3>2, <3>3
    <3> QED BY <1>2, <1>5, <3>1, <3>2, <3>4 DEF Undisturbed
  <2>2. ASSUME NEW d \in Challenges, NEW a \in AgentIds PROVE RunRowInv(d, a)'
    <3>1. RunRowInv(d, a)
      BY <1>3 DEF BackendInv
    <3>2. CASE d # c
      BY <1>2, <1>5, <3>1, <3>2 DEF RunRowInv, chainVars
    <3>3. CASE d = c
      <4>1. runRow'[c][a] = row(a)
        BY <1>5
      <4>2. row(a).agent_id = a /\ challengeRow'[c].onchain_address
        BY <1>2, <1>6, <1>9, <3>1, <3>3 DEF RunRowInv
      <4>3. row(a).onchain_address => row(a).status # "absent" /\ run'[c][a].status # "absent"
        <5>1. row(a).status \in {runRow[c][a].status, "completed", "onchain_failed"}
          BY <1>6 DEF StatusToCommit
        <5> QED BY <1>2, <1>6, <3>1, <3>3, <5>1 DEF RunRowInv, chainVars
      <4>4. row(a).status = "completed" =>
              /\ row(a).completion # None /\ row(a).ending_usdc # None /\ row(a).ended_at # None
              /\ run'[c][a].status = "completed" => Agrees(run'[c][a], row(a))
        <5>1. "complete" # None
          BY NoneNotAStatus DEF CompletionStatuses
        <5> QED BY <1>2, <1>7, <5>1, EndingFacts DEF Ended, Agrees, chainVars
      <4> QED BY <3>3, <4>1, <4>2, <4>3, <4>4 DEF RunRowInv
    <3> QED BY <3>2, <3>3
  <2>3. ASSUME NEW d \in Challenges PROVE OwedInv(d)'
    <3>1. OwedInv(d)
      BY <1>3 DEF BackendInv
    <3>2. \A a \in AgentIds : runRow'[d][a].onchain_address = runRow[d][a].onchain_address
      BY <1>5, <1>6
    <3> QED BY <1>2, <3>1, <3>2, OwedKept DEF chainVars
  <2>4. agentOnchain' \subseteq AgentIds /\ faulty' \in BOOLEAN /\ [Next]_vars
    BY <1>2, <1>3 DEF BackendInv, BackendTypeOK, chainVars, vars
  <2> QED BY <1>2, <1>3, <1>8, <2>1, <2>2, <2>3, <2>4, OutsideInvariant
<1>11. /\ script' \in Script /\ script'.q = None
       /\ \/ /\ script.pc = "finalize" /\ script.todo = <<>> /\ script'.pc = "settle"
             /\ script'.todo = Both /\ script'.c = c
          \/ script'.pc = "failed" /\ script'.todo = script.todo
  <2>1. script.q = None /\ "settle" \in ScriptSteps
    BY <1>2, <1>3 DEF ScriptShape, AwaitingSteps, ScriptSteps
  <2> QED BY <1>1, <1>2, <2>1, ScriptFacts, ScriptMoves
<1>12. ScriptShape'
  BY <1>3, <1>11, ScriptFacts DEF ScriptShape, AwaitingSteps, CreatedSteps, StartedSteps
<1>13. OursAlone' /\ ActiveRegistered'
  BY <1>2, <1>3 DEF OursAlone, ActiveRegistered, Registered, chainVars
<1>14. CompletedInv'
  <2>1. script'.pc \in FinalizedSteps \cup {"failed"}
    BY <1>11 DEF FinalizedSteps
  <2> QED BY <1>2, <1>5, <1>7, <2>1 DEF CompletedInv, Ended, chainVars
<1>15. CreatedInv' /\ StartedInv'
  <2>1. script.pc \in CreatedSteps /\ script.pc \in StartedSteps
    BY <1>2 DEF CreatedSteps, StartedSteps
  <2>2. script'.pc \in CreatedSteps \cup StartedSteps => script'.c = c
    BY <1>11 DEF CreatedSteps, StartedSteps
  <2> QED BY <1>1, <1>2, <1>3, <2>1, <2>2
          DEF CreatedInv, StartedInv, chainVars, AnsweredFor, Answered
<1>16. FinalizedInv'
  <2> SUFFICES ASSUME script'.pc \in FinalizedSteps, NEW a \in Ours
               PROVE  Ended(runRow'[script'.c][a], a)
    BY DEF FinalizedInv, Ended
  <2>1. script.pc = "finalize" /\ script.todo = <<>> /\ script'.c = c
    BY <1>11 DEF FinalizedSteps
  <2>2. a \in AgentIds /\ script.ended_at[a] # None
    BY <1>3, <2>1, ScriptFacts, AlphaBetaAssumption DEF FinalizingInv, AtStep, Ours
  <2>3. StatusToCommit(a) = "completed"
    BY <2>1 DEF StatusToCommit, AtStep
  <2> QED BY <1>5, <1>6, <2>1, <2>2, <2>3 DEF Ended
<1>17. RegisteredInv' /\ AwaitedInv' /\ FinalizingInv' /\ SettledInv' /\ script'.pc # "unused"
  BY <1>11 DEF RegisteredInv, AtStep, AwaitedInv, AwaitingSteps, FinalizingInv,
               SettledInv, SettledSteps
<1>18. agentStatus' \in [AgentIds -> AgentStatuses]
  BY <1>2, ScriptFacts
<1> QED BY <1>10, <1>11, <1>12, <1>13, <1>14, <1>15, <1>16, <1>17, <1>18
        DEF ScriptOn, ScriptInv, LifecycleTypeOK, AtStep, BackendInv

LEMMA VerifyInvariant ==
  ASSUME ScriptOn, Verify
  PROVE  ScriptOn'
<1>1. script.pc = "verify" /\ Goes("done") /\ UNCHANGED <<backendVars, agentStatus>>
  BY DEF Verify, AtStep
<1>2. /\ script' \in Script /\ script'.pc = "done" /\ script'.todo = Both
      /\ script'.c = script.c /\ script'.q = None
  BY <1>1, ScriptFacts, ScriptMoves DEF ScriptSteps, ScriptOn, ScriptShape, AwaitingSteps
<1>3. ScriptOn
  OBVIOUS
<1>4. BackendInv'
  <2>1. UNCHANGED vars /\ UNCHANGED <<rowVars, request, faulty>>
    BY <1>1 DEF backendVars, chainVars, vars
  <2> QED BY <1>3, <2>1, ElsewhereInvariant
          DEF ScriptOn, rowVars, vars, BackendInv, BackendTypeOK
<1>5. ScriptShape'
  BY <1>1, <1>2, <1>3, ScriptFacts
     DEF ScriptOn, ScriptShape, AwaitingSteps, CreatedSteps, StartedSteps
<1>6. /\ OursAlone /\ ActiveRegistered /\ CompletedInv /\ CreatedInv /\ StartedInv
      /\ FinalizedInv /\ SettledInv
  BY <1>3 DEF ScriptOn, ScriptInv
<1>7. UNCHANGED <<strategies, challenge, run, challengeRow, runRow, request>>
  BY <1>1 DEF backendVars, chainVars, rowVars
<1>8. /\ script.pc \in CreatedSteps /\ script.pc \in StartedSteps
      /\ script.pc \in FinalizedSteps /\ script.pc \in SettledSteps
      /\ script'.pc \in FinalizedSteps
  BY <1>1, <1>2 DEF CreatedSteps, StartedSteps, FinalizedSteps, SettledSteps
<1>9. OursAlone' /\ ActiveRegistered' /\ CompletedInv'
  BY <1>1, <1>6, <1>7, <1>8
     DEF OursAlone, ActiveRegistered, Registered, CompletedInv
<1>10. CreatedInv' /\ StartedInv' /\ FinalizedInv' /\ SettledInv'
  BY <1>2, <1>6, <1>7, <1>8
     DEF CreatedInv, StartedInv, FinalizedInv, SettledInv, Ended, AnsweredFor, Answered
<1>11. RegisteredInv' /\ AwaitedInv' /\ FinalizingInv'
  BY <1>2 DEF RegisteredInv, AtStep, AwaitedInv, AwaitingSteps, FinalizingInv
<1>12. agentStatus' \in [AgentIds -> AgentStatuses]
  BY <1>1, ScriptFacts
<1> QED BY <1>2, <1>4, <1>5, <1>9, <1>10, <1>11, <1>12
        DEF ScriptOn, ScriptInv, LifecycleTypeOK, AtStep, BackendInv

(* Others start or settle a challenge, or go on with a request of theirs.   *)
LEMMA OthersInvariant ==
  ASSUME ScriptOn, OthersNext, UNCHANGED script
  PROVE  ScriptOn'
<1>1. /\ BackendInv /\ ScriptShape /\ ScriptInv /\ AwaitedInv /\ ~AtStep("unused")
      /\ agentStatus \in [AgentIds -> AgentStatuses] /\ script \in Script
  BY DEF ScriptOn, ScriptInv, LifecycleTypeOK
<1>2. ScriptShape' /\ ~AtStep("unused")'
  BY <1>1 DEF ScriptShape, AtStep
<1>3. CASE ClockTicks /\ UNCHANGED agentStatus
  <2>1. BackendInv'
    BY <1>1, <1>3, TicksInvariant
  <2>2. UNCHANGED <<strategies, challenge, run, challengeRow, runRow, request>>
    BY <1>3 DEF ClockTicks, Tick, rowVars
  <2>3. /\ OursAlone' /\ ActiveRegistered' /\ RegisteredInv' /\ AwaitedInv'
        /\ CreatedInv' /\ StartedInv'
    BY <1>1, <1>3, <2>2
       DEF ScriptInv, OursAlone, ActiveRegistered, RegisteredInv, AwaitedInv,
           CreatedInv, StartedInv, AnsweredFor, Answered, Registered, AtStep
  <2>4. FinalizingInv' /\ CompletedInv' /\ FinalizedInv' /\ SettledInv'
    BY <1>1, <2>2
       DEF ScriptInv, FinalizingInv, CompletedInv, FinalizedInv, SettledInv, Ended,
           StatusToCommit, AtStep
  <2> QED BY <1>1, <1>2, <1>3, <2>1, <2>3, <2>4
          DEF ScriptOn, ScriptInv, LifecycleTypeOK, BackendInv
<1>4. ASSUME NEW q \in Requests \ {script.q}, UNCHANGED agentStatus,
             \/ Serve(q) \/ Crash(q)
             \/ \E c \in Challenges : StartRequest(q, c) \/ SettleRequest(q, c)
      PROVE  ScriptOn'
  <2>1. BackendInv' /\ Effect(q)
    BY <1>1, <1>4, ServeInvariant, ServeEffect, CrashInvariant, CrashEffect,
       StartRequestInvariant, StartRequestEffect, SettleRequestInvariant,
       SettleRequestEffect
  <2>2. [Next]_vars
    BY <1>1, <1>4, ServeIsStep DEF Crash, StartRequest, SettleRequest, chainVars, vars
  <2>3. Monotone
    BY <1>1, <2>2, ChainMonotone DEF BackendInv
  <2>4. AwaitedInv'
    BY <1>1, <1>4, <2>1, AwaitedLeftAlone
  <2>5. ScriptInv'
    BY <1>1, <1>4, <2>1, <2>3, <2>4, ScriptLooksOn
  <2> QED BY <1>1, <1>2, <1>4, <2>1, <2>5 DEF ScriptOn, LifecycleTypeOK, BackendInv
<1> QED BY <1>1, <1>3, <1>4 DEF OthersNext

LEMMA ScriptInvariant ==
  ASSUME ScriptOn, LifecycleNext
  PROVE  ScriptOn'
<1>1. CASE \E q \in Requests :
             \/ \E c \in Challenges : AskCreate(q, c)
             \/ AskStart(q) \/ AskSettle(q)
  BY <1>1, AskCreateInvariant, AskStartInvariant, AskSettleInvariant
<1>2. CASE ScriptNext
  BY <1>1, <1>2, SubmitStrategyInvariant, RegisterOnChainInvariant,
     RegisterCommitInvariant, RegisterFailedInvariant, AwaitedServesInvariant,
     AwaitedCrashesInvariant, FinalizeOnChainInvariant, FinalizeRunsCommitInvariant,
     VerifyInvariant, GiveUpInvariant
  DEF ScriptNext
<1> QED BY <1>2, OthersInvariant DEF LifecycleNext

(* Nobody runs the script.                                                  *)
LEMMA UnusedInvariant ==
  ASSUME LifecycleInv, AtStep("unused"), LifecycleNext
  PROVE  LifecycleInv'
<1>1. /\ BackendInv /\ OnlyExecuted /\ ScriptShape /\ script \in Script
      /\ agentStatus \in [AgentIds -> AgentStatuses]
  BY DEF LifecycleInv, UnusedInv, LifecycleTypeOK
<1>2. script.pc = "unused" /\ script.q = None
  BY <1>1 DEF AtStep, ScriptShape, AwaitingSteps
<1>3. ~ScriptNext
  BY <1>2 DEF ScriptNext, SubmitStrategy, RegisterOnChain, RegisterCommit,
              RegisterFailed, AskCreate, AskStart, AskSettle, AwaitedServes,
              AwaitedCrashes, FinalizeOnChain, FinalizeRunsCommit, Verify, GiveUp,
              Running, AtStep
<1>4. /\ BackendNext /\ UNCHANGED script
      /\ agentStatus' = [a \in AgentIds |->
           IF a \in agentOnchain' THEN "active" ELSE agentStatus[a]]
  BY <1>3 DEF LifecycleNext, OthersNext
<1>5. BackendInv' /\ OnlyExecuted'
  BY <1>1, <1>4, BackendInvariant
<1>6. agentStatus' \in [AgentIds -> AgentStatuses]
  BY <1>1, <1>4 DEF AgentStatuses
<1>7. ScriptShape' /\ AtStep("unused")'
  BY <1>1, <1>2, <1>4 DEF ScriptShape, AtStep
<1> QED BY <1>1, <1>4, <1>5, <1>6, <1>7
        DEF LifecycleInv, UnusedInv, ScriptInv, LifecycleTypeOK, BackendInv

LEMMA LifecycleStutters ==
  ASSUME LifecycleInv, UNCHANGED lifecycleVars
  PROVE  LifecycleInv'
<1>1. /\ UNCHANGED <<vars, rowVars, request, faulty, agentStatus, script>>
      /\ UNCHANGED <<strategies, challenge, run, challengeRow, runRow, records, request>>
      /\ UNCHANGED agentOnchain
  BY DEF lifecycleVars, backendVars, chainVars, rowVars, vars
<1>2. BackendInv'
  BY <1>1, ElsewhereInvariant DEF LifecycleInv, BackendInv, BackendTypeOK
<1>3. LifecycleTypeOK'
  BY <1>1, <1>2 DEF LifecycleInv, LifecycleTypeOK, BackendInv
<1>4. ScriptShape' /\ UnusedInv'
  BY <1>1 DEF LifecycleInv, ScriptShape, UnusedInv, AtStep, OnlyExecuted
<1>5. (/\ OursAlone /\ ActiveRegistered /\ RegisteredInv /\ AwaitedInv
       /\ CreatedInv /\ StartedInv /\ FinalizingInv
       /\ CompletedInv /\ FinalizedInv /\ SettledInv)
      =>
      (/\ OursAlone /\ ActiveRegistered /\ RegisteredInv /\ AwaitedInv
       /\ CreatedInv /\ StartedInv /\ FinalizingInv
       /\ CompletedInv /\ FinalizedInv /\ SettledInv)'
  BY <1>1 DEF OursAlone, ActiveRegistered, RegisteredInv, AwaitedInv,
              CreatedInv, StartedInv, FinalizingInv, CompletedInv, FinalizedInv, SettledInv,
              AnsweredFor, Answered, Registered, AtStep, Ended, StatusToCommit
<1>6. ScriptInv'
  BY <1>1, <1>5 DEF LifecycleInv, ScriptInv, AtStep
<1> QED BY <1>2, <1>3, <1>4, <1>6 DEF LifecycleInv

LEMMA StepLifecycle == LifecycleInv /\ [LifecycleNext]_lifecycleVars => LifecycleInv'
<1>1. ASSUME LifecycleInv, LifecycleNext, ~AtStep("unused") PROVE LifecycleInv'
  <2>1. ScriptOn
    BY <1>1 DEF LifecycleInv, ScriptOn
  <2>2. ScriptOn'
    BY <1>1, <2>1, ScriptInvariant
  <2> QED BY <2>2 DEF LifecycleInv, ScriptOn, UnusedInv, AtStep
<1> QED BY <1>1, UnusedInvariant, LifecycleStutters

-----------------------------------------------------------------------------
(* The initial states.                                                      *)

LEMMA FreshBackend ==
  ASSUME NoRows, RegistryTypeOK, agentOnchain \subseteq AgentIds
  PROVE  BackendInv
<1>1. IInv
  BY FreshInvariant DEF NoRows
<1>2. /\ \A c \in Challenges : challengeRow[c] = NoChallengeRow /\ records[c] = 0
      /\ \A c \in Challenges : challenge[c] = NoChallenge
      /\ \A q \in Requests : request[q] = Idle
  BY DEF NoRows
<1>3. BackendTypeOK
  BY <1>1, NewRowTypes DEF NoRows, BackendTypeOK, IInv
<1>4. \A q \in Requests : RequestShape(request[q]) /\ RequestInv(request[q])
  BY <1>2, IdleFacts
<1>5. \A p, q \in Requests : p # q => ~Clash(request[p], request[q])
  BY <1>2, IdleFacts
<1>6. \A c \in Challenges : ChallengeRowInv(c)
  BY <1>2, LimitAssumption DEF ChallengeRowInv, NoChallengeRow, NoChallenge
<1>7. ASSUME NEW c \in Challenges
      PROVE  OwedInv(c)
  <2>1. challenge[c].status = "absent" /\ challenge[c].started_at = None
    BY <1>2 DEF NoChallenge
  <2>2. \A a \in AgentIds : run[c][a].status = "absent"
    BY DEF NoRows, RunWithStatus
  <2> QED BY <2>1, <2>2 DEF OwedInv
<1>8. ASSUME NEW c \in Challenges, NEW a \in AgentIds
      PROVE  RunRowInv(c, a)
  <2>1. /\ runRow[c][a].agent_id = a /\ runRow[c][a].status = "absent"
        /\ runRow[c][a].onchain_address = FALSE
    BY DEF NoRows, NewRunRow
  <2> QED BY <2>1 DEF RunRowInv
<1> QED BY <1>1, <1>3, <1>4, <1>5, <1>6, <1>7, <1>8 DEF BackendInv

LEMMA FreshScript ==
  ASSUME NEW pc \in {"unused", "submit"}, script = ScriptAt(pc)
  PROVE  ScriptShape /\ script \in Script /\ script.pc = pc
<1>1. /\ script.pc = pc /\ script.c = None /\ script.q = None /\ script.todo = Both
      /\ script.ended_at = [a \in AgentIds |-> None]
  BY DEF ScriptAt
<1>2. Both \in ContestantLists /\ Both # <<>>
  BY ShortLists
<1>3. script \in Script
  BY <1>2 DEF ScriptAt, Script, ScriptSteps, OptionOf
<1>4. pc \notin {"create", "creating", "start", "starting"} \cup CreatedSteps \cup AwaitingSteps
  BY DEF CreatedSteps, StartedSteps, AwaitingSteps
<1>5. ScriptShape
  BY <1>1, <1>2, <1>4 DEF ScriptShape
<1> QED BY <1>1, <1>3, <1>5

LEMMA InitLifecycle == LifecycleInit => LifecycleInv
<1>1. ASSUME BackendInit, script = ScriptAt("unused"),
             agentStatus = [a \in AgentIds |->
               IF a \in agentOnchain THEN "active" ELSE "pending_onchain"]
      PROVE  LifecycleInv
  <2>1. RegistryTypeOK
    BY <1>1, AuthorityAssumption DEF BackendInit, RegistryTypeOK, OptionOf
  <2>2. BackendInv /\ NoRows
    BY <1>1, <2>1, FreshBackend DEF BackendInit
  <2>3. OnlyExecuted
    BY <2>2 DEF NoRows, RunWithStatus, OnlyExecuted
  <2>4. ScriptShape /\ script \in Script /\ script.pc = "unused"
    BY <1>1, FreshScript
  <2>5. agentStatus \in [AgentIds -> AgentStatuses]
    BY <1>1 DEF AgentStatuses
  <2> QED BY <2>2, <2>3, <2>4, <2>5
          DEF LifecycleInv, LifecycleTypeOK, UnusedInv, ScriptInv, AtStep, BackendInv
<1>2. ASSUME admin = Authority, strategies = {}, agentOnchain = {}, NoRows,
             agentStatus = [a \in AgentIds |-> "absent"], script = ScriptAt("submit")
      PROVE  LifecycleInv
  <2>1. RegistryTypeOK
    BY <1>2, AuthorityAssumption DEF RegistryTypeOK, OptionOf
  <2>2. BackendInv
    BY <1>2, <2>1, FreshBackend
  <2>3. ScriptShape /\ script \in Script /\ script.pc = "submit"
    BY <1>2, FreshScript
  <2>4. agentStatus \in [AgentIds -> AgentStatuses]
    BY <1>2 DEF AgentStatuses
  <2>5. OursAlone /\ CompletedInv
    <3>1. /\ \A c \in Challenges, a \in AgentIds :
               run[c][a].status = "absent" /\ runRow[c][a].status = "absent"
          /\ \A q \in Requests : request[q].pc = "idle"
      BY <1>2, IdleFacts DEF NoRows, RunWithStatus, NewRunRow
    <3> QED BY <3>1 DEF OursAlone, CompletedInv, RunSteps, CreateSteps
  <2>6. ActiveRegistered
    BY <1>2 DEF ActiveRegistered
  <2>7. /\ RegisteredInv /\ AwaitedInv /\ CreatedInv /\ StartedInv /\ FinalizingInv
        /\ FinalizedInv /\ SettledInv
    BY <2>3 DEF RegisteredInv, AtStep, AwaitedInv, AwaitingSteps, CreatedInv, CreatedSteps,
                StartedInv, StartedSteps, FinalizingInv, FinalizedInv, FinalizedSteps,
                SettledInv, SettledSteps
  <2> QED BY <2>2, <2>3, <2>4, <2>5, <2>6, <2>7
          DEF LifecycleInv, LifecycleTypeOK, UnusedInv, ScriptInv, AtStep, BackendInv
<1> QED BY <1>1, <1>2 DEF LifecycleInit

(* Through any interleaving of requests, calls that fail or lose their      *)
(* answer and crashes, whatever the rows, a request or the script rely on   *)
(* is so: this is the invariant the theorems below read off.                *)
THEOREM LifecycleInvariant == LifecycleSpec => []LifecycleInv
BY InitLifecycle, StepLifecycle, PTL DEF LifecycleSpec

(* Every row, account, request and the script stay well formed.             *)
THEOREM LifecycleTypeCorrect == LifecycleSpec => []LifecycleTypeOK
<1>1. LifecycleInv => LifecycleTypeOK
  BY DEF LifecycleInv
<1> QED BY <1>1, LifecycleInvariant, PTL

(* challenge_service.py's "On-chain must succeed before Postgres            *)
(* transitions": no row claims what the chain does not hold.                *)
THEOREM RowsStayBehind == LifecycleSpec => []RowsBehindChain
<1>1. LifecycleInv => RowsBehindChain
  BY DEF LifecycleInv, BackendInv, ChallengeRowInv, RunRowInv, RowsBehindChain
<1> QED BY <1>1, LifecycleInvariant, PTL

(* What both stores hold of a run is the same, and the winner committed did *)
(* no worse than the winner on chain.                                       *)
THEOREM StoresAgree == LifecycleSpec => []ResultsAgree
<1>1. LifecycleInv => ResultsAgree
  BY DEF LifecycleInv, BackendInv, ChallengeRowInv, RunRowInv, Agrees, TiesOnChain,
         ResultsTie, ResultsAgree
<1> QED BY <1>1, LifecycleInvariant, PTL

(* However many settlements of a challenge run at once, one at most commits *)
(* its winner and its record.                                               *)
THEOREM OneSettlement == LifecycleSpec => []SettledOnce
<1>1. LifecycleInv => SettledOnce
  BY DEF LifecycleInv, BackendInv, ChallengeRowInv, SettledOnce
<1> QED BY <1>1, LifecycleInvariant, PTL

(* With no answer lost and nothing dead, the stores are in step whenever no *)
(* request is under way, whichever calls failed.                            *)
THEOREM InStep == LifecycleSpec => []InStepWithoutFaults
<1>1. ASSUME LifecycleInv, ~faulty, \A q \in Requests : At(q, "idle"), NEW c \in Challenges
      PROVE  /\ challengeRow[c].status \in {"absent", "onchain_failed"} <=>
                  challenge[c].status = "absent"
             /\ challengeRow[c].status = "pending" => challenge[c].started_at = None
             /\ challengeRow[c].status = "active" => challenge[c].started_at # None
             /\ challengeRow[c].winner_agent_id = challenge[c].winner_agent_id
                \/ ResultsTie(c)
             /\ \A a \in AgentIds :
                  runRow[c][a].onchain_address <=> run[c][a].status # "absent"
  <2>1. /\ ChallengeRowInv(c) /\ OwedInv(c)
        /\ \A a \in AgentIds : RunRowInv(c, a)
        /\ challengeRow[c] \in ChallengeRow
        /\ \A a \in AgentIds : runRow[c][a] \in RunRow
    BY <1>1 DEF LifecycleInv, BackendInv, BackendTypeOK
  <2>2. \A q \in Requests :
          /\ ~AnsweredFor(request[q], "create_commit", c)
          /\ ~AnsweredFor(request[q], "start_commit", c)
          /\ ~AnsweredFor(request[q], "settle_commit", c)
          /\ ~AnsweredFor(request[q], "run_commit", c)
    BY <1>1 DEF At, AnsweredFor, Answered
  <2>3. challengeRow[c].status \in {"absent", "onchain_failed"} <=>
          challenge[c].status = "absent"
    BY <1>1, <2>1, <2>2 DEF ChallengeRowInv, OwedInv
  <2>4. /\ challengeRow[c].status = "pending" => challenge[c].started_at = None
        /\ challengeRow[c].status = "active" => challenge[c].started_at # None
    BY <1>1, <2>1, <2>2 DEF ChallengeRowInv, OwedInv
  <2>5. challengeRow[c].winner_agent_id = challenge[c].winner_agent_id \/ ResultsTie(c)
    <3>1. challengeRow[c].winner_agent_id # None => ResultsTie(c)
      BY <2>1 DEF ChallengeRowInv, TiesOnChain, ResultsTie
    <3>2. challengeRow[c].winner_agent_id = None => challenge[c].winner_agent_id = None
      BY <1>1, <2>1, <2>2 DEF ChallengeRowInv, OwedInv
    <3> QED BY <3>1, <3>2
  <2>6. ASSUME NEW a \in AgentIds
        PROVE  runRow[c][a].onchain_address <=> run[c][a].status # "absent"
    BY <1>1, <2>1, <2>2 DEF RunRowInv, OwedInv, RunRow
  <2> QED BY <2>3, <2>4, <2>5, <2>6
<1>2. LifecycleInv => InStepWithoutFaults
  BY <1>1 DEF InStepWithoutFaults
<1> QED BY <1>2, LifecycleInvariant, PTL

(* When the script is through, its two runs are final on chain and its      *)
(* first agent won there, and in the row.                                   *)
LEMMA AlphaWins ==
  ASSUME ScriptOn, script.pc = "done", NEW c \in Challenges, c = script.c
  PROVE  /\ challenge[c].status = "completed" /\ challenge[c].winner_agent_id = Alpha
         /\ challengeRow[c].status = "completed" /\ challengeRow[c].winner_agent_id = Alpha
         /\ records[c] = 1
         /\ \A a \in Ours : run[c][a].status = "completed" /\ runRow[c][a].status = "completed"
<1> DEFINE v == challenge[c].winner_agent_id
           w == challengeRow[c].winner_agent_id
<1>1. /\ IInv /\ ChallengeRowInv(c) /\ OursAlone /\ CompletedInv
      /\ \A a \in AgentIds : RunRowInv(c, a) /\ RunShape(run[c][a], a)
      /\ challengeRow[c] \in ChallengeRow
  BY DEF ScriptOn, BackendInv, BackendTypeOK, IInv, RunShapes, ScriptInv
<1>2. /\ challengeRow[c].status = "completed" /\ w # None
      /\ \A a \in Ours : Ended(runRow[c][a], a)
  BY DEF ScriptOn, ScriptInv, SettledInv, SettledSteps, FinalizedInv, FinalizedSteps
<1>3. /\ challenge[c].status = "completed" /\ records[c] = 1 /\ TiesOnChain(c, w)
  BY <1>1, <1>2 DEF ChallengeRowInv
<1>4. ASSUME NEW a \in Ours
      PROVE  /\ runRow[c][a].status = "completed" /\ Ended(run[c][a], a)
             /\ a \in Enrolled(c) /\ Eligible(run[c][a])
  <2>1. a \in AgentIds
    BY AlphaBetaAssumption DEF Ours
  <2>2. runRow[c][a].status = "completed" /\ run[c][a].status = "completed"
    BY <1>1, <1>2, <2>1 DEF Ended, CompletedInv
  <2>3. Ended(run[c][a], a)
    BY <1>1, <1>2, <2>1, <2>2 DEF Ended, RunRowInv, Agrees
  <2>4. Eligible(run[c][a])
    BY <1>1, <2>1, <2>3 DEF Ended, RunShape, Eligible
  <2> QED BY <2>1, <2>2, <2>3, <2>4 DEF Ended, Enrolled
<1>5. /\ run[c][Alpha].ending_usdc = WinnerEnding /\ run[c][Beta].ending_usdc = LoserEnding
      /\ WinnerEnding \in Nat /\ LoserEnding \in Nat /\ LoserEnding < WinnerEnding
      /\ Alpha \in Ours /\ Beta \in Ours
  BY <1>4, AlphaBetaAssumption, EndingsAssumption, BalancesAssumption DEF Ended, Ending, Ours
<1>6. v = Alpha
  <2>1. /\ v \in Enrolled(c)
        /\ \A a \in Enrolled(c) : Eligible(run[c][a]) => ~Beats(run[c][a], run[c][v])
    BY <1>1, <1>3 DEF IInv, WinnerIsBest, TiesOnChain
  <2>2. v \in Ours
    BY <1>1, <2>1 DEF OursAlone, Enrolled
  <2>3. ~Beats(run[c][Alpha], run[c][v])
    BY <1>4, <1>5, <2>1
  <2>4. v # Beta
    BY <1>5, <2>3 DEF Beats
  <2> QED BY <2>2, <2>4 DEF Ours
<1>7. w = Alpha
  <2>1. w \in AgentIds /\ Eligible(run[c][w]) /\ run[c][w].ending_usdc = run[c][v].ending_usdc
    BY <1>1, <1>2, <1>3 DEF ChallengeRow, OptionOf, TiesOnChain
  <2>2. run[c][w].status # "absent"
    BY <1>1, <2>1, NoneAssumption DEF RunShape, Eligible
  <2>3. w \in Ours
    BY <1>1, <2>1, <2>2 DEF OursAlone
  <2>4. w # Beta
    BY <1>5, <1>6, <2>1
  <2> QED BY <2>3, <2>4 DEF Ours
<1> QED BY <1>2, <1>3, <1>4, <1>6, <1>7 DEF Ended

(* Exit code 0 is earned: both runs count on both sides and the settlement, *)
(* committed once, names the same winner in the row and on chain.           *)
THEOREM SuccessEarned == LifecycleSpec => []SuccessMeansSettled
<1>1. ASSUME LifecycleInv, AtStep("done")
      PROVE  SuccessMeansSettled
  <2>1. ScriptOn
    BY <1>1 DEF LifecycleInv, ScriptOn, AtStep
  <2>2. PICK c \in Challenges : c = script.c
    BY <1>1 DEF AtStep, LifecycleInv, ScriptShape, CreatedSteps, StartedSteps
  <2> QED BY <1>1, <2>1, <2>2, AlphaWins DEF AtStep, SuccessMeansSettled, Ours
<1>2. LifecycleInv => SuccessMeansSettled
  BY <1>1 DEF SuccessMeansSettled
<1> QED BY <1>2, LifecycleInvariant, PTL

(* Wherever the script stops, an agent it activated is registered and a run *)
(* it completed is finalized on chain, with the result of the row.          *)
THEOREM ScriptStaysBehind == LifecycleSpec => []ScriptBehindChain
<1>1. ASSUME LifecycleInv, ~AtStep("unused"), NEW c \in Challenges, NEW a \in AgentIds,
             runRow[c][a].status = "completed"
      PROVE  /\ run[c][a].status = "completed"
             /\ run[c][a].completion = runRow[c][a].completion
             /\ run[c][a].ending_usdc = runRow[c][a].ending_usdc
  BY <1>1 DEF LifecycleInv, ScriptInv, CompletedInv, BackendInv, RunRowInv, Agrees
<1>2. LifecycleInv => ScriptBehindChain
  BY <1>1 DEF LifecycleInv, ScriptInv, ActiveRegistered, ScriptBehindChain
<1> QED BY <1>2, LifecycleInvariant, PTL

-----------------------------------------------------------------------------
(* What no step does.                                                       *)

(* To the chain, a step of the backend or of the script is a step too.      *)
LEMMA LifecycleIsStep == LifecycleInv /\ [LifecycleNext]_lifecycleVars => [Next]_vars
<1> SUFFICES ASSUME LifecycleInv, [LifecycleNext]_lifecycleVars PROVE [Next]_vars
  OBVIOUS
<1>1. BackendInv /\ ScriptShape /\ script \in Script
  BY DEF LifecycleInv, LifecycleTypeOK
<1>2. UNCHANGED chainVars => [Next]_vars
  BY DEF chainVars, vars
<1>3. ASSUME NEW q \in Requests, Serve(q) PROVE [Next]_vars
  BY <1>1, <1>3, ServeIsStep
<1>4. CASE RegisterOnChain /\ ~UNCHANGED chainVars
  <2>1. /\ UNCHANGED <<challenge, run, now>>
        /\ \E o \in Signers : RegisterStrategy(o, Head(script.todo))
    BY <1>4 DEF RegisterOnChain
  <2>2. Head(script.todo) \in AgentIds
    <3>1. script.todo # <<>>
      BY <1>1, <1>4 DEF RegisterOnChain, AtStep, ScriptShape
    <3> QED BY <1>1, <3>1, ListFacts DEF Script
  <2>3. RegistryNext
    BY <2>1, <2>2 DEF RegistryNext
  <2> QED BY <2>1, <2>3 DEF Next
<1>5. CASE FinalizeOnChain /\ ~UNCHANGED chainVars
  <2>1. PICK c \in Challenges : c = script.c
    BY <1>1, <1>5 DEF FinalizeOnChain, AtStep, ScriptShape, CreatedSteps, StartedSteps
  <2>2. PICK a \in AgentIds : a = Head(script.todo)
    BY <1>1, <1>5, ListFacts DEF FinalizeOnChain, Script
  <2>3. FinalizeRun(Authority, c, a, Ending(a), "complete")
    BY <1>5, <2>1, <2>2 DEF FinalizeOnChain
  <2>4. Ending(a) \in Balances /\ "complete" \in Completions
    BY EndingsAssumption DEF Ending
  <2> QED BY <2>3, <2>4, CallsAreSteps
<1>6. CASE AwaitedServes
  <2>1. script.q \in Requests /\ Serve(script.q)
    BY <1>1, <1>6 DEF AwaitedServes, ScriptShape
  <2> QED BY <1>3, <2>1
<1>7. CASE ScriptNext /\ ~AwaitedServes
  <2>1. \/ UNCHANGED chainVars
        \/ RegisterOnChain \/ FinalizeOnChain
    BY <1>7 DEF ScriptNext, SubmitStrategy, RegisterCommit, RegisterFailed, AskCreate,
                AskStart, AskSettle, Asks, CreateChallengeRequest, StartRequest,
                SettleRequest, AwaitedCrashes, Crash, FinalizeRunsCommit, Verify, GiveUp,
                CompleteRegistration, backendVars
  <2> QED BY <1>2, <1>4, <1>5, <2>1
<1>8. CASE OthersNext
  <2>1. \/ UNCHANGED chainVars
        \/ ClockTicks
        \/ \E q \in Requests : Serve(q)
    BY <1>8 DEF OthersNext, BackendNext, CompleteRegistration, Crash, StartRequest,
                SettleRequest, CreateChallengeRequest, ExecuteRun
  <2>2. ClockTicks => [Next]_vars
    BY DEF ClockTicks, Next
  <2> QED BY <1>2, <1>3, <2>1, <2>2
<1>9. CASE UNCHANGED lifecycleVars
  BY <1>2, <1>9 DEF lifecycleVars, backendVars
<1> QED BY <1>6, <1>7, <1>8, <1>9 DEF LifecycleNext

(* Whatever the backend and the script do, lose or repeat, the chain only   *)
(* ever sees instructions of the program with arguments it may be sent.     *)
THEOREM ChainRulesKept == LifecycleSpec => [][Next]_vars
<1>1. LifecycleSpec => [][[Next]_vars]_lifecycleVars
  BY LifecycleInvariant, LifecycleIsStep, PTL DEF LifecycleSpec
<1>2. UNCHANGED lifecycleVars => UNCHANGED vars
  BY DEF lifecycleVars, backendVars, chainVars, vars
<1> QED BY <1>1, <1>2, PTL

(* A settled challenge and its runs stay as they are on chain, and so does  *)
(* the result of a finalized run, whatever requests come later.             *)
THEOREM SettledOnChain == LifecycleSpec => SettlementIsFinal
<1>1. LifecycleInv /\ [Next]_vars => Frozen
  BY StepFrozen DEF LifecycleInv, BackendInv
<1>2. LifecycleSpec => [][Frozen]_vars
  BY <1>1, LifecycleInvariant, ChainRulesKept, PTL
<1> QED BY <1>2 DEF SettlementIsFinal, Frozen

(* No challenge the backend or the script started is beyond settling, after *)
(* whatever lost answers, repeats and crashes.                              *)
THEOREM BackendStrandsNone == LifecycleSpec => []NeverStranded
<1>1. LifecycleInv => NeverStranded
  BY StrandedFromInvariant DEF LifecycleInv, BackendInv
<1> QED BY <1>1, LifecycleInvariant, PTL

(* A committed winner stays, with its one record, and so does the row of a  *)
(* completed run.                                                           *)
RowsStand ==
  \A c \in Challenges :
    /\ challengeRow[c].winner_agent_id # None =>
         /\ challengeRow'[c].winner_agent_id = challengeRow[c].winner_agent_id
         /\ records'[c] = records[c]
    /\ \A a \in AgentIds :
         runRow[c][a].status = "completed" => runRow'[c][a] = runRow[c][a]

LEMMA ServeStands ==
  ASSUME BackendInv, NEW q \in Requests, Serve(q)
  PROVE  RowsStand
<1> SUFFICES ASSUME NEW d \in Challenges, challengeRow[d].winner_agent_id # None
             PROVE  /\ challengeRow'[d].winner_agent_id = challengeRow[d].winner_agent_id
                    /\ records'[d] = records[d]
  BY ServeEffect DEF Effect, RowEffect, RowsStand
<1>1. PICK r \in Request : r = request[q]
  BY RequestFacts
<1>2. /\ challengeRow \in [Challenges -> ChallengeRow] /\ records \in [Challenges -> Nat]
      /\ ChallengeRowInv(d) /\ RequestInv(r) /\ (r.pc # "idle" => r.c \in Challenges)
  BY <1>1, RequestFacts DEF BackendInv, BackendTypeOK
<1>3. HasRow(d)
  BY <1>2 DEF ChallengeRowInv, HasRow
<1>4. CASE UNCHANGED <<challengeRow, records>>
  BY <1>4
<1>5. CASE CreateChallengeCommit(q)
  <2>1. r.pc = "create_commit" /\ r.c # d
    BY <1>1, <1>2, <1>3, <1>5 DEF CreateChallengeCommit, At, RequestInv
  <2>2. challengeRow'[d] = challengeRow[d] /\ records' = records
    BY <1>1, <1>2, <1>5, <2>1 DEF CreateChallengeCommit
  <2> QED BY <2>2
<1>6. CASE StartCommit(q)
  <2>1. /\ challengeRow' = [challengeRow EXCEPT ![r.c].status =
             StatusAfterStart(@, r.answered)]
        /\ records' = records
    BY <1>1, <1>6 DEF StartCommit
  <2> QED BY <1>2, <2>1 DEF ChallengeRow
<1>7. CASE SettleCommit(q) /\ ~UNCHANGED <<challengeRow, records>>
  <2>1. /\ r.pc = "settle_commit" /\ r.answered
        /\ challengeRow' = [challengeRow EXCEPT ![r.c].status = "completed",
                                                ![r.c].winner_agent_id = r.winner]
        /\ records' = [records EXCEPT ![r.c] = @ + 1]
    BY <1>1, <1>7 DEF SettleCommit, Settles, At
  <2>2. r.c # d
    BY <1>2, <2>1 DEF RequestInv, Answered
  <2> QED BY <1>2, <2>1, <2>2
<1>8. CASE /\ ~CreateChallengeCommit(q) /\ ~StartCommit(q) /\ ~SettleCommit(q)
  BY <1>4, <1>8
     DEF Serve, CreateChallengeCall, CreateEnds, NextContestant, CreateRunCall,
         CreateRunCommit, StartCall, LoopFinishes, FinalizeCall, FinalizeCommit,
         SettleCall, rowVars
<1> QED BY <1>4, <1>5, <1>6, <1>7, <1>8

LEMMA StepStands == LifecycleInv /\ [LifecycleNext]_lifecycleVars => RowsStand
<1> SUFFICES ASSUME LifecycleInv, [LifecycleNext]_lifecycleVars PROVE RowsStand
  OBVIOUS
<1>1. BackendInv /\ ScriptShape /\ runRow \in [Challenges -> [AgentIds -> RunRow]]
  BY DEF LifecycleInv, BackendInv, BackendTypeOK
<1>2. CASE UNCHANGED <<challengeRow, runRow, records>>
  BY <1>2 DEF RowsStand
<1>3. ASSUME NEW q \in Requests, Serve(q) PROVE RowsStand
  BY <1>1, <1>3, ServeStands
<1>4. ASSUME NEW q \in Requests, NEW c \in Challenges, NEW a \in AgentIds,
             ExecuteRun(q, c, a)
      PROVE  RowsStand
  <2>1. /\ runRow[c][a].status # "completed" /\ UNCHANGED <<challengeRow, records>>
        /\ runRow' = [runRow EXCEPT ![c][a].status = "running"]
    BY <1>4 DEF ExecuteRun
  <2>2. ASSUME NEW d \in Challenges, NEW e \in AgentIds, runRow[d][e].status = "completed"
        PROVE  runRow'[d][e] = runRow[d][e]
    BY <1>1, <2>1, <2>2
  <2> QED BY <2>1, <2>2 DEF RowsStand
<1>5. CASE FinalizeRunsCommit
  <2>1. script.pc \in {"finalize", "finalize_failed"} /\ UNCHANGED <<challengeRow, records>>
    BY <1>5 DEF FinalizeRunsCommit, AtStep
  <2>2. PICK c \in Challenges : c = script.c
    BY <1>1, <2>1 DEF ScriptShape, CreatedSteps, StartedSteps
  <2>3. \A d \in Challenges \ {c} : runRow'[d] = runRow[d]
    BY <1>1, <1>5, <2>2 DEF FinalizeRunsCommit
  <2>4. \A d \in Challenges, a \in AgentIds :
          runRow[d][a].status = "completed" => script.pc \in FinalizedSteps \cup {"failed"}
    BY <2>1 DEF LifecycleInv, ScriptInv, CompletedInv, AtStep
  <2> QED BY <2>1, <2>4 DEF RowsStand, FinalizedSteps
<1>6. CASE AwaitedServes
  BY <1>1, <1>3, <1>6 DEF AwaitedServes, ScriptShape
<1>7. CASE ScriptNext /\ ~AwaitedServes /\ ~FinalizeRunsCommit
  BY <1>2, <1>7
     DEF ScriptNext, SubmitStrategy, RegisterOnChain, RegisterCommit, RegisterFailed,
         AskCreate, AskStart, AskSettle, Asks, CreateChallengeRequest, StartRequest,
         SettleRequest, AwaitedCrashes, Crash, FinalizeOnChain, Verify, GiveUp,
         CompleteRegistration, backendVars, rowVars
<1>8. CASE OthersNext
  <2>1. \/ UNCHANGED <<challengeRow, runRow, records>>
        \/ \E q \in Requests :
             \/ Serve(q)
             \/ \E c \in Challenges, a \in AgentIds : ExecuteRun(q, c, a)
    BY <1>8 DEF OthersNext, BackendNext, ClockTicks, CompleteRegistration, Crash,
                StartRequest, SettleRequest, CreateChallengeRequest, rowVars
  <2> QED BY <1>2, <1>3, <1>4, <2>1
<1>9. CASE UNCHANGED lifecycleVars
  BY <1>2, <1>9 DEF lifecycleVars, backendVars, rowVars
<1> QED BY <1>5, <1>6, <1>7, <1>8, <1>9 DEF LifecycleNext

(* What the backend committed of a result stands: no late start, retried    *)
(* settlement, second execution or finalization by the script writes over a *)
(* winner, adds a record to it or touches the row of a completed run.       *)
THEOREM CommittedResultsStand == LifecycleSpec => [][RowsStand]_lifecycleVars
BY StepStands, LifecycleInvariant, PTL DEF LifecycleSpec
=============================================================================
