---------------------------- MODULE ArenaBackend ----------------------------
(***************************************************************************)
(* Benchmark challenges as the backend runs them against the on-chain       *)
(* program: services/challenge_service.py, the finalization of a run in     *)
(* services/runner_service.py and services/settlement_service.py with its   *)
(* integrity/settlement_verifier.py, for local (on-chain) runs.             *)
(*                                                                          *)
(* Postgres and the chain are two stores that no transaction spans.  A      *)
(* request reads its rows, sends one instruction through                    *)
(* chain/program_client.py, and commits what it learnt.  The chain is the   *)
(* program of AgentArena, every instruction signed by the backend's         *)
(* authority.  A call may be answered; fail; or take effect without the     *)
(* answer reaching the caller, which sees an exception either way.  A       *)
(* request may die between any two steps, losing what it had not committed. *)
(***************************************************************************)
EXTENDS AgentArena, SequencesExt

CONSTANTS
  Requests,   \* slots for the requests served at once
  Authority   \* the key the backend signs with, also the program's admin

ASSUME AuthorityAssumption == Authority \in Signers

VARIABLES
  agentOnchain,   \* agents whose row has an onchain_address
  challengeRow,   \* committed challenges row of each challenge id
  runRow,         \* committed runs row of each challenge id and agent id
  records,        \* settlement_record artifacts committed for each challenge
  request,        \* progress of each request
  faulty          \* whether an answer was lost or a request died (history)

chainVars == <<admin, strategies, challenge, run, now>>
rowVars == <<agentOnchain, challengeRow, runRow, records>>
backendVars == <<chainVars, rowVars, request, faulty>>

ChallengeRow ==
  [status          : {"absent", "pending", "onchain_failed", "active", "completed"},
   num_contestants : Nat,
   onchain_address : BOOLEAN,
   winner_agent_id : OptionOf(AgentIds)]

RunRow ==
  [status          : {"absent", "pending", "pending_onchain", "onchain_failed",
                      "running", "completed"},
   agent_id        : AgentIds,
   onchain_address : BOOLEAN,
   completion      : OptionOf(CompletionStatuses),
   ending_usdc     : OptionOf(Nat),   \* ending_value
   ended_at        : OptionOf(Nat)]

NoChallengeRow ==
  [status |-> "absent", num_contestants |-> 0, onchain_address |-> FALSE,
   winner_agent_id |-> None]

(* Mutant: the agent is left out of the row.                                *)
RowWithoutAgent(st, a, address) ==
  [status |-> st, agent_id |-> None, onchain_address |-> address,
   completion |-> None, ending_usdc |-> None, ended_at |-> None]

NewRunRow(st, a, address) ==
  [status |-> st, agent_id |-> a, onchain_address |-> address,
   completion |-> None, ending_usdc |-> None, ended_at |-> None]

(* todo: the agents the request still has to deal with, in order; answered: *)
(* what became of its call; result, winner: what it will commit.            *)
Steps ==
  {"idle", "create_call", "create_commit", "create_run", "run_call",
   "run_commit", "start_call", "start_commit", "loop", "finalize_call",
   "finalize_commit", "settle_call", "settle_commit"}

ContestantLists == UNION {[1..n -> AgentIds] : n \in 0..MaxContestants}

Request ==
  [pc : Steps, c : OptionOf(Challenges), todo : ContestantLists,
   answered : BOOLEAN, result : OptionOf(Result), winner : OptionOf(AgentIds)]

Idle ==
  [pc |-> "idle", c |-> None, todo |-> <<>>, answered |-> FALSE,
   result |-> None, winner |-> None]

At(q, pc) == request[q].pc = pc
Becomes(q, r) == request' = [request EXCEPT ![q] = r]
Ends(q) == Becomes(q, Idle)
HasRow(c) == challengeRow[c].status # "absent"

(* The instruction A and what the client makes of it.                       *)
Call(q, A, next) ==
  \/ A /\ Becomes(q, [request[q] EXCEPT !.pc = next, !.answered = TRUE])
       /\ UNCHANGED faulty
  \/ A /\ Becomes(q, [request[q] EXCEPT !.pc = next, !.answered = FALSE])
       /\ faulty' = TRUE
  \/ /\ Becomes(q, [request[q] EXCEPT !.pc = next, !.answered = FALSE])
     /\ UNCHANGED <<chainVars, faulty>>

-----------------------------------------------------------------------------
NoRows ==
  /\ challenge = [c \in Challenges |-> NoChallenge]
  /\ run = [c \in Challenges |-> [a \in AgentIds |-> RunWithStatus("absent", a)]]
  /\ now = 0
  /\ challengeRow = [c \in Challenges |-> NoChallengeRow]
  /\ runRow = [c \in Challenges |-> [a \in AgentIds |-> NewRunRow("absent", a, FALSE)]]
  /\ records = [c \in Challenges |-> 0]
  /\ request = [q \in Requests |-> Idle]
  /\ faulty = FALSE

(* The program was initialized and the contestants' strategies registered;  *)
(* the backend may still have to learn of some of them.                     *)
BackendInit ==
  /\ admin = Authority
  /\ strategies = {<<Authority, a>> : a \in AgentIds}
  /\ agentOnchain \in SUBSET AgentIds
  /\ NoRows

(* strategy_service.complete_onchain_registration.                          *)
CompleteRegistration(a) ==
  /\ a \notin agentOnchain
  /\ agentOnchain' = agentOnchain \cup {a}
  /\ UNCHANGED <<chainVars, challengeRow, runRow, records, request, faulty>>

(* create_challenge.  The id comes from a database sequence; one drawn by a *)
(* request that died before its call left no trace.                         *)
FreshId(c) ==
  /\ ~HasRow(c) /\ challenge[c].status = "absent"
  /\ \A q \in Requests : request[q].c # c

CreateChallengeRequest(q, c, contestants) ==
  /\ At(q, "idle") /\ FreshId(c)
  /\ Becomes(q, [Idle EXCEPT !.pc = "create_call", !.c = c, !.todo = contestants])
  /\ UNCHANGED <<chainVars, rowVars, faulty>>

CreateChallengeCall(q) ==
  /\ At(q, "create_call")
  /\ LET r == request[q]
     IN Call(q, CreateChallenge(Authority, r.c, Len(r.todo)), "create_commit")
  /\ UNCHANGED rowVars

(* A failure is committed as onchain_failed and raised.                     *)
CreateChallengeCommit(q) ==
  /\ At(q, "create_commit")
  /\ LET r == request[q]
     IN /\ challengeRow' = [challengeRow EXCEPT ![r.c] =
             [status |-> IF r.answered THEN "pending" ELSE "onchain_failed",
              num_contestants |-> Len(r.todo), onchain_address |-> r.answered,
              winner_agent_id |-> None]]
        /\ IF r.answered THEN Becomes(q, [r EXCEPT !.pc = "create_run"]) ELSE Ends(q)
  /\ UNCHANGED <<chainVars, agentOnchain, runRow, records, faulty>>

(* The contestants are through, or the next one violates                    *)
(* uq_runs_challenge_agent: a second run of the same agent.                 *)
NoMoreRuns(r) == IF r.todo = <<>> THEN TRUE ELSE runRow[r.c][Head(r.todo)].status # "absent"

CreateEnds(q) ==
  /\ At(q, "create_run")
  /\ NoMoreRuns(request[q])
  /\ Ends(q)
  /\ UNCHANGED <<chainVars, rowVars, faulty>>

(* create_run for the next contestant.  An agent not yet on chain gets a    *)
(* row and no account.                                                      *)
NextContestant(q) ==
  /\ At(q, "create_run")
  /\ ~NoMoreRuns(request[q])
  /\ LET r == request[q]
         a == Head(r.todo)
     IN IF a \in agentOnchain
        THEN /\ Becomes(q, [r EXCEPT !.pc = "run_call"])
             /\ UNCHANGED runRow
        ELSE /\ Becomes(q, [r EXCEPT !.todo = Tail(@)])
             /\ runRow' = [runRow EXCEPT ![r.c][a] =
                             NewRunRow("pending_onchain", a, FALSE)]
  /\ UNCHANGED <<chainVars, agentOnchain, challengeRow, records, faulty>>

CreateRunCall(q) ==
  /\ At(q, "run_call")
  /\ Call(q, CreateRun(Authority, request[q].c, Head(request[q].todo)), "run_commit")
  /\ UNCHANGED rowVars

RunRowAfterCall(a, answered) ==
  NewRunRow(IF answered THEN "pending" ELSE "onchain_failed", a, answered)

(* A failure is logged, the row kept, and the next contestant taken.        *)
CreateRunCommit(q) ==
  /\ At(q, "run_commit")
  /\ LET r == request[q]
         a == Head(r.todo)
     IN /\ runRow' = [runRow EXCEPT ![r.c][a] = RunRowAfterCall(a, r.answered)]
        /\ Becomes(q, [r EXCEPT !.pc = "create_run", !.todo = Tail(@)])
  /\ UNCHANGED <<chainVars, agentOnchain, challengeRow, records, faulty>>

-----------------------------------------------------------------------------
(* start_challenge.                                                         *)
StartRequest(q, c) ==
  /\ At(q, "idle")
  /\ challengeRow[c].status = "pending"
  /\ Becomes(q, [Idle EXCEPT !.pc = "start_call", !.c = c])
  /\ UNCHANGED <<chainVars, rowVars, faulty>>

StartCall(q) ==
  /\ At(q, "start_call")
  /\ Call(q, StartChallenge(Authority, request[q].c), "start_commit")
  /\ UNCHANGED rowVars

(* Mutants: the row goes active although the call failed; or stays pending. *)
StatusWithoutChain(st, answered) == "active"
StatusLeftPending(st, answered) == st

StatusAfterStart(st, answered) == IF answered THEN "active" ELSE st

(* The status is written whatever it is by now.                             *)
StartCommit(q) ==
  /\ At(q, "start_commit")
  /\ LET r == request[q]
     IN challengeRow' = [challengeRow EXCEPT ![r.c].status = StatusAfterStart(@, r.answered)]
  /\ Ends(q)
  /\ UNCHANGED <<chainVars, agentOnchain, runRow, records, faulty>>

-----------------------------------------------------------------------------
(* execute_run, from "running" to its last commit; the decision loop is in  *)
(* Runner.  It looks at no status; its callers execute a run once.          *)
ExecuteRun(q, c, a) ==
  /\ At(q, "idle")
  /\ runRow[c][a].status \in {"pending", "pending_onchain", "onchain_failed"}
  /\ runRow' = [runRow EXCEPT ![c][a].status = "running"]
  /\ Becomes(q, [Idle EXCEPT !.pc = "loop", !.c = c, !.todo = <<a>>])
  /\ UNCHANGED <<chainVars, agentOnchain, challengeRow, records, faulty>>

(* The ending balance, the completion status and the end time are taken ... *)
LoopFinishes(q, usdc, completion) ==
  /\ At(q, "loop")
  /\ Becomes(q, [request[q] EXCEPT !.pc = "finalize_call",
       !.result = [completion |-> completion, ending_usdc |-> usdc, ended_at |-> now]])
  /\ UNCHANGED <<chainVars, rowVars, faulty>>

(* Mutant: the chain is told every run completed.                           *)
ToldComplete(completion) == "complete"

Told(completion) == completion

(* ... sent to the chain, whose clock sets its own end time, ...            *)
FinalizeCall(q) ==
  /\ At(q, "finalize_call")
  /\ LET r == request[q]
     IN Call(q, FinalizeRun(Authority, r.c, Head(r.todo), r.result.ending_usdc,
                            Told(r.result.completion)),
             "finalize_commit")
  /\ UNCHANGED rowVars

(* ... and committed, whatever became of the call.                          *)
FinalizeCommit(q) ==
  /\ At(q, "finalize_commit")
  /\ LET r == request[q]
     IN runRow' = [runRow EXCEPT ![r.c][Head(r.todo)] =
          [@ EXCEPT !.status = "completed", !.completion = r.result.completion,
                    !.ending_usdc = r.result.ending_usdc,
                    !.ended_at = r.result.ended_at]]
  /\ Ends(q)
  /\ UNCHANGED <<chainVars, agentOnchain, challengeRow, records, faulty>>

-----------------------------------------------------------------------------
(* SettlementService.settle_challenge and SettlementVerifier.               *)
RunsInRows(c) == {a \in AgentIds : runRow[c][a].status # "absent"}

CanSettle(c) ==
  /\ HasRow(c)
  /\ challengeRow[c].status # "completed" /\ challengeRow[c].winner_agent_id = None
  /\ \A a \in RunsInRows(c) : runRow[c][a].status = "completed"
  /\ challengeRow[c].num_contestants > 0 =>
       Cardinality(RunsInRows(c)) = challengeRow[c].num_contestants
  /\ \E a \in RunsInRows(c) : Eligible(runRow[c][a])
  /\ \A a \in RunsInRows(c) : runRow[c][a].onchain_address

(* determine_winner: the stable sort by balance, then end time, over the    *)
(* eligible rows in the order the query returned them.  The list the        *)
(* program is sent has the rows that are not eligible last; where they      *)
(* stand matters to neither side, so any order of all rows is taken.        *)
DetermineWinner(c, list, w) == IsWinner([i \in DOMAIN list |-> runRow[c][list[i]]], w)

SettleRequest(q, c) ==
  /\ At(q, "idle")
  /\ CanSettle(c)
  /\ \E list \in SetToSeqs(RunsInRows(c)), w \in AgentIds :
       /\ DetermineWinner(c, list, w)
       /\ Becomes(q, [Idle EXCEPT !.pc = "settle_call", !.c = c,
                                  !.todo = list, !.winner = w])
  /\ UNCHANGED <<chainVars, rowVars, faulty>>

SettleCall(q) ==
  /\ At(q, "settle_call")
  /\ LET r == request[q]
         accounts == [i \in DOMAIN r.todo |-> <<r.c, r.todo[i]>>]
     IN \E w \in OptionOf(AgentIds) :
          Call(q, SettleChallenge(Authority, r.c, accounts, w), "settle_commit")
  /\ UNCHANGED rowVars

(* Mutant: a failed call does not stop the settlement.                      *)
SettlesRegardless(answered) == TRUE

Settles(answered) == answered

SettleCommit(q) ==
  /\ At(q, "settle_commit")
  /\ LET r == request[q]
     IN IF Settles(r.answered)
        THEN /\ challengeRow' = [challengeRow EXCEPT ![r.c].status = "completed",
                                                     ![r.c].winner_agent_id = r.winner]
             /\ records' = [records EXCEPT ![r.c] = @ + 1]
        ELSE UNCHANGED <<challengeRow, records>>
  /\ Ends(q)
  /\ UNCHANGED <<chainVars, agentOnchain, runRow, faulty>>

(* The process dies, or the client's disconnect cancels the request.        *)
Crash(q) ==
  /\ ~At(q, "idle")
  /\ Ends(q)
  /\ faulty' = TRUE
  /\ UNCHANGED <<chainVars, rowVars>>

(* What a request under way does next.                                      *)
Serve(q) ==
  \/ CreateChallengeCall(q) \/ CreateChallengeCommit(q)
  \/ CreateEnds(q) \/ NextContestant(q)
  \/ CreateRunCall(q) \/ CreateRunCommit(q)
  \/ StartCall(q) \/ StartCommit(q)
  \/ \E usdc \in Balances, completion \in Completions :
       LoopFinishes(q, usdc, completion)
  \/ FinalizeCall(q) \/ FinalizeCommit(q)
  \/ SettleCall(q) \/ SettleCommit(q)

ClockTicks == Tick /\ UNCHANGED <<rowVars, request, faulty>>

BackendNext ==
  \/ ClockTicks
  \/ \E a \in AgentIds : CompleteRegistration(a)
  \/ \E q \in Requests :
       \/ Serve(q) \/ Crash(q)
       \/ \E c \in Challenges :
            \/ \E contestants \in ContestantLists :
                 CreateChallengeRequest(q, c, contestants)
            \/ StartRequest(q, c) \/ SettleRequest(q, c)
            \/ \E a \in AgentIds : ExecuteRun(q, c, a)

BackendSpec == BackendInit /\ [][BackendNext]_backendVars

-----------------------------------------------------------------------------
(* Properties.                                                              *)

BackendTypeOK ==
  /\ TypeOK
  /\ agentOnchain \subseteq AgentIds
  /\ challengeRow \in [Challenges -> ChallengeRow]
  /\ runRow \in [Challenges -> [AgentIds -> RunRow]]
  /\ records \in [Challenges -> Nat]
  /\ request \in [Requests -> Request]
  /\ faulty \in BOOLEAN

(* challenge_service.py:218, "On-chain must succeed before Postgres         *)
(* transitions": the rows never claim more than the chain holds, through    *)
(* any interleaving of requests, failed or unanswered calls and crashes.    *)
RowsBehindChain ==
  \A c \in Challenges :
    LET st == challengeRow[c].status
    IN /\ challengeRow[c].onchain_address => challenge[c].status # "absent"
       /\ st = "active" => challenge[c].started_at # None
       /\ st = "completed" => challenge[c].status = "completed"
       /\ \A a \in AgentIds :
            runRow[c][a].onchain_address => run[c][a].status # "absent"

(* The winner in the row did no worse than the winner on chain.             *)
ResultsTie(c) ==
  LET w == challengeRow[c].winner_agent_id
      v == challenge[c].winner_agent_id
  IN /\ w # None /\ v # None
     /\ Eligible(run[c][w])
     /\ run[c][w].ending_usdc = run[c][v].ending_usdc

(* What Postgres and the chain both hold of a run is the same, and the      *)
(* winner in the settled row did no worse than the winner on chain: both    *)
(* completed, with the same balance.  (Each side breaks a tie by end times  *)
(* of its own, so they need not be the same agent.)                         *)
ResultsAgree ==
  \A c \in Challenges :
    /\ \A a \in AgentIds :
         runRow[c][a].status = "completed" /\ run[c][a].status = "completed" =>
           /\ runRow[c][a].completion = run[c][a].completion
           /\ runRow[c][a].ending_usdc = run[c][a].ending_usdc
    /\ challengeRow[c].winner_agent_id # None => ResultsTie(c)

(* A challenge is settled once: however many settlements run at the same    *)
(* time and whichever fail, one at most commits its winner, its settlement  *)
(* record and (in the same transaction) its rank updates.                   *)
SettledOnce ==
  \A c \in Challenges :
    records[c] = IF challengeRow[c].winner_agent_id = None THEN 0 ELSE 1

(* With no answer lost and no request dead, Postgres and the chain are in   *)
(* step whenever no request is in flight, even if calls failed.  (The       *)
(* status of a settled row may still read "active": a start that was slow   *)
(* to commit writes it last, since nothing makes a run wait for it.)        *)
InStepWithoutFaults ==
  ~faulty /\ (\A q \in Requests : At(q, "idle")) =>
    \A c \in Challenges :
      LET st == challengeRow[c].status
      IN /\ st \in {"absent", "onchain_failed"} <=> challenge[c].status = "absent"
         /\ st = "pending" => challenge[c].started_at = None
         /\ st = "active" => challenge[c].started_at # None
         /\ challengeRow[c].winner_agent_id = challenge[c].winner_agent_id
            \/ ResultsTie(c)
         /\ \A a \in AgentIds :
              runRow[c][a].onchain_address <=> run[c][a].status # "absent"
=============================================================================
