----------------------------- MODULE Lifecycle ------------------------------
(***************************************************************************)
(* A whole challenge driven by backend/scripts/run_devnet_lifecycle.py over *)
(* the backend and the chain of ArenaBackend: it submits two strategies,    *)
(* registers them on chain, creates and starts a challenge through the API, *)
(* finalizes both runs and settles.  Its header promises that "DB and chain *)
(* are kept synchronized", and exit code 0 for success.                     *)
(*                                                                          *)
(* It is one process beside the backend's requests.  What it asks of the    *)
(* API or of a service is a request of ArenaBackend, whose end it awaits;   *)
(* the registration and the finalization are sessions of its own.  It stops *)
(* at the first thing that fails.                                           *)
(***************************************************************************)
EXTENDS ArenaBackend

CONSTANTS
  Alpha, Beta,    \* the agents of its two strategies
  WinnerEnding,   \* WINNER_ENDING_USDC
  LoserEnding,    \* LOSER_ENDING_USDC
  MaxSubmissions  \* MAX_SUBMISSIONS_PER_USER (3)

ASSUME AlphaBetaAssumption == Alpha \in AgentIds /\ Beta \in AgentIds /\ Alpha # Beta
ASSUME EndingsAssumption ==
  /\ WinnerEnding \in Balances /\ LoserEnding \in Balances
  /\ LoserEnding < WinnerEnding
  /\ "complete" \in Completions
ASSUME ContestantsAssumption == MaxContestants >= 2   \* of MAX_CONTESTANTS, 32
ASSUME SubmissionsAssumption == MaxSubmissions \in Nat

VARIABLES
  agentStatus,  \* status in the agents row of each agent
  script        \* progress of the script

lifecycleVars == <<backendVars, agentStatus, script>>

AgentStatuses == {"absent", "pending_onchain", "onchain_failed", "active"}

ScriptSteps ==
  {"unused", "submit", "register", "register_commit", "register_failed",
   "create", "creating", "start", "starting", "finalize", "finalize_failed",
   "settle", "settling", "verify", "done", "failed"}

(* q: the request it awaits; todo: the agents its loop has yet to deal      *)
(* with; ended_at: end times of the runs it finalized and has to commit.    *)
Script ==
  [pc : ScriptSteps, c : OptionOf(Challenges), q : OptionOf(Requests),
   todo : ContestantLists, ended_at : [AgentIds -> OptionOf(Nat)]]

Both == <<Alpha, Beta>>

ScriptAt(pc) ==
  [pc |-> pc, c |-> None, q |-> None, todo |-> Both,
   ended_at |-> [a \in AgentIds |-> None]]

AtStep(pc) == script.pc = pc
Goes(pc) == script' = [script EXCEPT !.pc = pc, !.todo = Both]
Fails == script' = [script EXCEPT !.pc = "failed", !.q = None]
Running == script.pc \notin {"unused", "done", "failed"}

-----------------------------------------------------------------------------
(* Either nobody runs the script, or it has its agents yet to submit.       *)
LifecycleInit ==
  \/ /\ BackendInit
     /\ agentStatus = [a \in AgentIds |->
          IF a \in agentOnchain THEN "active" ELSE "pending_onchain"]
     /\ script = ScriptAt("unused")
  \/ /\ admin = Authority
     /\ strategies = {}
     /\ agentOnchain = {}
     /\ NoRows
     /\ agentStatus = [a \in AgentIds |-> "absent"]
     /\ script = ScriptAt("submit")

(* The next agent of a loop, and pc when it was the last.                   *)
NextAgent(pc) ==
  IF Tail(script.todo) = <<>> THEN Goes(pc)
  ELSE script' = [script EXCEPT !.todo = Tail(@)]

(* What get_active_count may be: each strategy has a user of its own, with   *)
(* those of earlier runs.                                                   *)
ActiveCounts == 0..MaxSubmissions

(* register_strategy of the service: a row, its registration deferred.      *)
StrategyRow(a) == agentStatus' = [agentStatus EXCEPT ![a] = "pending_onchain"]

(* POST /strategies for each strategy, refused beyond MaxSubmissions.       *)
SubmitStrategy ==
  /\ AtStep("submit")
  /\ \E active_count \in ActiveCounts :
       \/ /\ active_count < MaxSubmissions
          /\ StrategyRow(Head(script.todo))
          /\ NextAgent("register")
       \/ /\ active_count >= MaxSubmissions
          /\ Fails
          /\ UNCHANGED agentStatus
  /\ UNCHANGED backendVars

(* onchain_register_agents: each strategy under a key of its own, made for  *)
(* it.  The call may fail, or take effect unanswered.                       *)
RegisterOnChain ==
  /\ AtStep("register")
  /\ LET Registers == /\ \E o \in Signers : RegisterStrategy(o, Head(script.todo))
                      /\ UNCHANGED <<challenge, run, now>>
         Step(pc) == script' = [script EXCEPT !.pc = pc]
     IN \/ Registers /\ Step("register_commit") /\ UNCHANGED faulty
        \/ Registers /\ Step("register_failed") /\ faulty' = TRUE
        \/ Step("register_failed") /\ UNCHANGED <<chainVars, faulty>>
  /\ UNCHANGED <<rowVars, request, agentStatus>>

RegisterCommit ==
  /\ AtStep("register_commit")
  /\ LET a == Head(script.todo)
     IN /\ agentStatus[a] \in {"pending_onchain", "onchain_failed"}
        /\ CompleteRegistration(a)
        /\ agentStatus' = [agentStatus EXCEPT ![a] = "active"]
  /\ IF Tail(script.todo) = <<>> THEN Goes("create")
     ELSE script' = [script EXCEPT !.pc = "register", !.todo = Tail(@)]

RegisterFailed ==
  /\ AtStep("register_failed")
  /\ agentStatus' = [agentStatus EXCEPT ![Head(script.todo)] = "onchain_failed"]
  /\ Fails
  /\ UNCHANGED backendVars

(* POST /admin/challenges, POST /admin/challenges/{id}/start, and           *)
(* settle_challenge with a session of its own.                              *)
Asks(Request_, pc, c, q) ==
  /\ Request_
  /\ script' = [script EXCEPT !.pc = pc, !.c = c, !.q = q]
  /\ UNCHANGED agentStatus

AskCreate(q, c) ==
  AtStep("create") /\ Asks(CreateChallengeRequest(q, c, Both), "creating", c, q)

AskStart(q) ==
  AtStep("start") /\ Asks(StartRequest(q, script.c), "starting", script.c, q)

AskSettle(q) ==
  AtStep("settle") /\ Asks(SettleRequest(q, script.c), "settling", script.c, q)

(* Mutant: the settlement's failure is not noticed.                         *)
AfterAnyAnswer(r) ==
  CASE r.pc = "create_run" /\ r.todo = <<>>   -> "start"
    [] r.pc = "start_commit" /\ r.answered    -> "finalize"
    [] r.pc = "settle_commit"                 -> "verify"
    [] OTHER                                  -> "failed"

(* What the end of the request it awaits means to it.  create_challenge     *)
(* answers although runs of it failed on chain.                             *)
AfterAnswer(r) ==
  CASE r.pc = "create_run" /\ r.todo = <<>>   -> "start"
    [] r.pc = "start_commit" /\ r.answered    -> "finalize"
    [] r.pc = "settle_commit" /\ r.answered   -> "verify"
    [] OTHER                                  -> "failed"

(* The request it awaits goes on, or ends and answers ...                   *)
AwaitedServes ==
  /\ script.q # None
  /\ Serve(script.q)
  /\ IF request'[script.q].pc # "idle" THEN UNCHANGED script
     ELSE script' = [script EXCEPT !.pc = AfterAnswer(request[script.q]), !.q = None]
  /\ UNCHANGED agentStatus

(* ... or dies.                                                             *)
AwaitedCrashes ==
  /\ script.q # None
  /\ Crash(script.q)
  /\ Fails
  /\ UNCHANGED agentStatus

-----------------------------------------------------------------------------
(* deterministic_finalize_runs.                                             *)

Ending(a) == IF a = Alpha THEN WinnerEnding ELSE LoserEnding

FinalizedRow(row, a, st, ended_at) ==
  [row EXCEPT !.status = st, !.completion = "complete",
              !.ending_usdc = Ending(a), !.ended_at = ended_at]

(* One run after the other, in one session, on chain first.                 *)
FinalizeOnChain ==
  /\ AtStep("finalize")
  /\ script.todo # <<>>
  /\ LET a == Head(script.todo)
         Finalizes == FinalizeRun(Authority, script.c, a, Ending(a), "complete")
         ended == [script EXCEPT !.ended_at[a] = now]
     IN \/ /\ Finalizes
           /\ script' = [ended EXCEPT !.todo = Tail(@)]
           /\ UNCHANGED faulty
        \/ /\ Finalizes /\ faulty' = TRUE
           /\ script' = [ended EXCEPT !.pc = "finalize_failed"]
        \/ /\ script' = [ended EXCEPT !.pc = "finalize_failed"]
           /\ UNCHANGED <<chainVars, faulty>>
  /\ UNCHANGED <<rowVars, request, agentStatus>>

(* Mutant: the run whose call failed is committed like the others.          *)
FailedAsCompleted(a) == "completed"

(* The status committed with a run: that of the one whose call failed is    *)
(* not "completed".                                                         *)
StatusToCommit(a) ==
  IF AtStep("finalize_failed") /\ a = Head(script.todo)
  THEN "onchain_failed" ELSE "completed"

(* The one commit: of all runs, or of those before the failure and the one  *)
(* that failed.                                                             *)
FinalizeRunsCommit ==
  /\ \/ AtStep("finalize") /\ script.todo = <<>> /\ Goes("settle")
     \/ AtStep("finalize_failed") /\ Fails
  /\ runRow' = [runRow EXCEPT ![script.c] =
       [a \in AgentIds |->
          IF script.ended_at[a] = None THEN @[a]
          ELSE FinalizedRow(@[a], a, StatusToCommit(a), script.ended_at[a])]]
  /\ UNCHANGED <<chainVars, agentOnchain, challengeRow, records, request, faulty,
                 agentStatus>>

(* The read side is asked at last; what it says is printed, not acted on.   *)
Verify == AtStep("verify") /\ Goes("done") /\ UNCHANGED <<backendVars, agentStatus>>

(* It raises, is killed, or its HTTP client stops waiting: the request it   *)
(* had sent goes on, what its own session had not committed is lost.        *)
GiveUp ==
  /\ Running
  /\ Fails
  /\ faulty' = (faulty \/ script.pc \in {"register_commit", "register_failed",
                                         "finalize", "finalize_failed"})
  /\ UNCHANGED <<chainVars, rowVars, request, agentStatus>>

ScriptNext ==
  \/ SubmitStrategy \/ RegisterOnChain \/ RegisterCommit \/ RegisterFailed
  \/ \E q \in Requests :
       \/ \E c \in Challenges : AskCreate(q, c)
       \/ AskStart(q) \/ AskSettle(q)
  \/ AwaitedServes \/ AwaitedCrashes
  \/ FinalizeOnChain \/ FinalizeRunsCommit
  \/ Verify \/ GiveUp

(* Requests of others.  While the script has a challenge to itself, its     *)
(* admins may start it and services settle it; its runs are the script's.   *)
OthersNext ==
  \/ /\ AtStep("unused")
     /\ BackendNext
     /\ agentStatus' = [a \in AgentIds |->
          IF a \in agentOnchain' THEN "active" ELSE agentStatus[a]]
  \/ /\ ~AtStep("unused")
     /\ \/ ClockTicks
        \/ \E q \in Requests \ {script.q} :
             \/ Serve(q) \/ Crash(q)
             \/ \E c \in Challenges : StartRequest(q, c) \/ SettleRequest(q, c)
     /\ UNCHANGED agentStatus

LifecycleNext == ScriptNext \/ (OthersNext /\ UNCHANGED script)

LifecycleSpec == LifecycleInit /\ [][LifecycleNext]_lifecycleVars

-----------------------------------------------------------------------------
(* Properties.                                                              *)

LifecycleTypeOK ==
  /\ BackendTypeOK
  /\ agentStatus \in [AgentIds -> AgentStatuses]
  /\ script \in Script

(* Exit code 0 is earned: both runs count on both sides, Alpha won in the   *)
(* row and on chain, and the settlement was committed once and stands,      *)
(* although runs may fail inside a creation that answers, and others may    *)
(* start or settle the challenge at the same time.                          *)
SuccessMeansSettled ==
  AtStep("done") =>
    /\ challenge[script.c].status = "completed"
    /\ challengeRow[script.c].status = "completed"
    /\ challenge[script.c].winner_agent_id = Alpha
    /\ challengeRow[script.c].winner_agent_id = Alpha
    /\ records[script.c] = 1
    /\ \A a \in {Alpha, Beta} : run[script.c][a].status = "completed"
                              /\ runRow[script.c][a].status = "completed"

(* "DB and chain are kept synchronized": wherever the script stops, an      *)
(* agent it activated is registered, and a run it completed is finalized on *)
(* chain with the same result.  (Runs that execute_run finalizes are        *)
(* completed although the chain refused.)                                   *)
ScriptBehindChain ==
  ~AtStep("unused") =>
    /\ \A a \in AgentIds :
         agentStatus[a] = "active" => \E o \in Signers : Registered(o, a)
    /\ \A c \in Challenges, a \in AgentIds :
         runRow[c][a].status = "completed" =>
           /\ run[c][a].status = "completed"
           /\ run[c][a].completion = runRow[c][a].completion
           /\ run[c][a].ending_usdc = runRow[c][a].ending_usdc
=============================================================================
