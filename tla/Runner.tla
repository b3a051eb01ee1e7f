------------------------------- MODULE Runner -------------------------------
(***************************************************************************)
(* One benchmark run of the backend: RunnerService.execute_run with its     *)
(* decision loop, flattening and finalization (services/runner_service.py), *)
(* the ActionValidator, CompletionEvaluator and RunAuditor (integrity/) and *)
(* the two challenge adapters (challenges/), cut at the awaits.             *)
(*                                                                          *)
(* A transaction handed to the wallet service is sent, not confirmed: it    *)
(* takes effect later or never, and its answer may be lost.  A balance read *)
(* may fail, or answer with no balances when the RPC node reports an error. *)
(* Between the commits that start and end a run events are only flushed: a  *)
(* crash, or a database error, which ends the session, loses them.          *)
(*                                                                          *)
(* A quote ages while the action that names it is dealt with.  The swap     *)
(* service is Jupiter's or Orca's, the decisions a local agent's or a       *)
(* hosted one's.                                                            *)
(*                                                                          *)
(* Left out: amounts (a token is held or not), slippage and routes (a swap  *)
(* may be valid or not), swaps that sell, and scores.                       *)
(***************************************************************************)
EXTENDS Option, Integers, Sequences, FiniteSets

CONSTANTS
  Mints,           \* tokens other than USDC that a swap may buy
  Required,        \* swap_intents of the challenge
  IterationBudget, \* iteration_budget
  MaxInvalid,      \* max_invalid_attempts of the evaluator (10)
  ChallengeQuoteAge, \* quote_max_age_secs of the challenge
  QuoteMaxAge,     \* QUOTE_MAX_AGE_SECS, the limit of the swap service itself
  MaxPieces        \* bound: the pieces of a reply that are told apart

ASSUME MintsAssumption ==
  Required \subseteq Mints /\ None \notin Mints /\ IsFiniteSet(Mints)
ASSUME BudgetAssumption == IterationBudget \in Nat /\ MaxInvalid \in Nat
ASSUME QuoteAssumption ==
  ChallengeQuoteAge \in Nat /\ QuoteMaxAge \in Nat /\ MaxPieces \in Nat

VARIABLES
  adapter,     \* challenge_type, which selects the adapter
  swap_service,\* which SwapServiceProtocol the runner was given
  pc,          \* where execute_run is
  sequence_no, \* the next event's number; flattening adds its own count at the end
  flattened,   \* events _flatten_to_usdc persisted
  events,      \* run_events flushed so far
  action,      \* the action being dealt with
  iterations_used,
  toFlatten,   \* balances _flatten_to_usdc has yet to go through
  completion,  \* run.completion_status, not committed yet
  run_log_hash,\* the events the hash covers; None before
  row,         \* the committed run row and its events
  chain,       \* the RunAccount on chain
  evidence,    \* whether the rebalance_evidence_v1 artifact is committed
  held,        \* tokens in the benchmark wallet
  sent,        \* transactions sent that may still take effect
  leftOver     \* the tokens in the wallet when the final balances were read

setup == <<adapter, swap_service>>
memory == <<action, iterations_used, toFlatten, completion, run_log_hash>>
wallet == <<held, sent, leftOver>>
record == <<row, chain, evidence>>
vars ==
  <<setup, pc, sequence_no, flattened, events, memory, wallet, record>>

Adapters == {"swap_execution", "rebalance_execution"}
SwapServices == {"jupiter", "orca"}
CompletionStatuses == {"complete", "incomplete", "invalid"}
ASSUME StatusAssumption == None \notin CompletionStatuses
EventTypes ==
  {"observe", "budget_exceeded", "error", "decide", "finish", "validate",
   "execute", "flatten", "finalize", "onchain_finalize", "onchain_error"}
LoopSteps == {"observe", "budget", "decide", "validate", "execute"}
Steps ==
  LoopSteps \cup {"start", "flatten", "flattening", "finalize", "onchain",
                  "commit", "emit_evidence", "done", "crashed"}

(* ok is valid of a validate event, executed of an execute event, success   *)
(* of a flatten event, and not fatal of an error.                           *)
Event == [sequence_no : Nat, type : EventTypes, ok : BOOLEAN, mint : OptionOf(Mints)]

(* Nothing tells ages from this one on apart.                               *)
Oldest == IF QuoteMaxAge < ChallengeQuoteAge THEN ChallengeQuoteAge ELSE QuoteMaxAge

(* A cached QuoteOption: the token it trades for USDC, and its age.         *)
Quote == [mint : Mints, age : 0..Oldest]
ASSUME QuoteOptionAssumption == None \notin Quote

(* A decision; quote is what its quote_id stands for in the service's       *)
(* cache, and None if the id is unknown.                                    *)
Action ==
  [type : {"EXECUTE_SWAP"}, quote : OptionOf(Quote)] \cup {[type |-> "WAIT", quote |-> None]}
Finish == [type |-> "FINISH", quote |-> None]

MintOf(a) == IF a.quote = None THEN None ELSE a.quote.mint

(* A transaction buys a token (a swap) or sells all of it (flattening); it  *)
(* is stale if its quote was past the service's own limit when prepared.    *)
Transaction == [mint : Mints, buys : BOOLEAN, stale : BOOLEAN]

-----------------------------------------------------------------------------
Init ==
  /\ adapter \in Adapters
  /\ swap_service \in SwapServices
  /\ pc = "start"
  /\ sequence_no = 0
  /\ flattened = 0
  /\ events = <<>>
  /\ action = None
  /\ iterations_used = 0
  /\ toFlatten = {}
  /\ completion = None
  /\ run_log_hash = None
  /\ row = [status |-> "pending", completion |-> None, log |-> None, events |-> <<>>]
  /\ chain = [status |-> "pending", completion |-> None, log |-> None]
  /\ evidence = FALSE
  /\ held = {}
  /\ sent = {}
  /\ leftOver = {}

(* _persist_event, with the number its caller passes.                       *)
Persist(number, type, ok, mint) ==
  events' = Append(events, [sequence_no |-> number, type |-> type, ok |-> ok, mint |-> mint])

(* Persist, count, go on.                                                   *)
Emit(type, ok, mint, next) ==
  /\ Persist(sequence_no, type, ok, mint)
  /\ sequence_no' = sequence_no + 1
  /\ pc' = next
  /\ UNCHANGED <<setup, flattened>>

Count(list, type, ok) ==
  Cardinality({k \in DOMAIN list : list[k].type = type /\ list[k].ok = ok})

(* Where the loop's breaks lead.                                            *)
AfterLoop == IF adapter = "swap_execution" THEN "flatten" ELSE "finalize"

Start ==
  /\ pc = "start"
  /\ row' = [row EXCEPT !.status = "running"]
  /\ pc' = "observe"
  /\ UNCHANGED <<setup, sequence_no, flattened, events, memory, wallet, chain, evidence>>

(* A balance read that fails is logged and the portfolio kept.              *)
Observe ==
  /\ pc = "observe"
  /\ Emit("observe", TRUE, None, "budget")
  /\ UNCHANGED <<memory, wallet, record>>

(* Mutant: the budget is compared one turn late.                            *)
OneTurnLate == iterations_used > IterationBudget

OutOfIterations == iterations_used >= IterationBudget

(* The time may run out at any turn.                                        *)
CheckBudget ==
  /\ pc = "budget"
  /\ \/ Emit("budget_exceeded", TRUE, None, AfterLoop)
     \/ ~OutOfIterations /\ pc' = "decide"
        /\ UNCHANGED <<setup, sequence_no, flattened, events>>
  /\ UNCHANGED <<memory, wallet, record>>

(* What a model answers, in pieces as JSON is looked for: the whole text,   *)
(* a code block, then each object in it; None where a piece is no action.   *)
(* No piece at all: no answer.                                              *)
Reply == UNION {[1..n -> OptionOf(Action \cup {Finish})] : n \in 0..MaxPieces}

(* LocalAgentProvider.decide: the first piece that is an action, or raises  *)
(* (None).                                                                  *)
LocalDecides(reply) ==
  LET read == {k \in DOMAIN reply : reply[k] # None}
  IN IF read = {} THEN None ELSE reply[CHOOSE k \in read : \A j \in read : k <= j]

(* AgentOSRuntime.invoke_decide behind HostedInstanceProvider: only the     *)
(* whole content will do, and everything else raises.                       *)
ParseAgentAction(reply) == reply[1]
HostedDecides(reply) == IF reply = <<>> THEN None ELSE ParseAgentAction(reply)

Decided == {LocalDecides(reply) : reply \in Reply} \cup {HostedDecides(reply) : reply \in Reply}

(* Any exception of the provider ends the loop, with an error that is not   *)
(* fatal.                                                                   *)
DecideFails(d) ==
  /\ pc = "decide"
  /\ d = None
  /\ Emit("error", TRUE, None, AfterLoop)
  /\ UNCHANGED <<memory, wallet, record>>

Decide(d) ==
  /\ pc = "decide"
  /\ d \in Action
  /\ action' = d
  /\ Emit("decide", TRUE, MintOf(d), "validate")
  /\ UNCHANGED <<iterations_used, toFlatten, completion, run_log_hash, wallet, record>>

(* FINISH is not validated: a decide and a finish event, with nothing       *)
(* awaited between them but their flushes.                                  *)
DecideFinish(d) ==
  /\ pc = "decide"
  /\ d = Finish
  /\ events' = events \o
       << [sequence_no |-> sequence_no, type |-> "decide", ok |-> TRUE, mint |-> None],
          [sequence_no |-> sequence_no + 1, type |-> "finish", ok |-> TRUE, mint |-> None] >>
  /\ sequence_no' = sequence_no + 2
  /\ pc' = AfterLoop
  /\ UNCHANGED <<setup, flattened, memory, wallet, record>>

(* Mutant: an action refused is executed.                                   *)
ExecutedAnyway(valid) == "execute"

(* Fail-closed: the loop continues without executing.                       *)
AfterValidation(valid) == IF valid THEN "execute" ELSE "observe"

UsedAfterValidation(valid) == IF valid THEN iterations_used ELSE iterations_used + 1

(* is_quote_fresh: an unknown quote is not fresh, and a limit of 0 is none, *)
(* so that the service's own applies.                                       *)
Fresh(quote, max_age_secs) ==
  quote # None /\ quote.age < (IF max_age_secs = 0 THEN QuoteMaxAge ELSE max_age_secs)

(* The rebalance adapter allows no swaps; a swap's quote has to be fresh,   *)
(* its slippage and route may do or not, and a wait may be in range or not. *)
SwapMayBeValid(a) == adapter = "swap_execution" /\ Fresh(a.quote, ChallengeQuoteAge)
MayBeValid(a) == a.type = "WAIT" \/ SwapMayBeValid(a)

Validate(valid) ==
  /\ pc = "validate"
  /\ valid => MayBeValid(action)
  /\ Emit("validate", valid, MintOf(action), AfterValidation(valid))
  /\ iterations_used' = UsedAfterValidation(valid)
  /\ action' = IF pc' = "execute" THEN action ELSE None
  /\ UNCHANGED <<toFlatten, completion, run_log_hash, wallet, record>>

(* A slippage of the wrong type raises in _validate_swap, past the checks   *)
(* of the quote.                                                            *)
FatalError ==
  /\ pc = "validate"
  /\ action.type = "EXECUTE_SWAP" /\ SwapMayBeValid(action)
  /\ Emit("error", FALSE, None, AfterLoop)
  /\ action' = None
  /\ UNCHANGED <<iterations_used, toFlatten, completion, run_log_hash, wallet, record>>

(* Time passes at any await between the fetching of a quote and its use.    *)
QuoteAges ==
  /\ pc \in {"validate", "execute"}
  /\ action.quote # None /\ action.quote.age < Oldest
  /\ action' = [action EXCEPT !.quote.age = @ + 1]
  /\ UNCHANGED <<setup, pc, sequence_no, flattened, events, iterations_used,
                 toFlatten, completion, run_log_hash, wallet, record>>

(* get_quotes: Orca's is made up without asking anybody, Jupiter's API may  *)
(* fail (None).                                                             *)
OrcaQuotes(m) == {[mint |-> m, age |-> 0]}
JupiterQuotes(m) == {[mint |-> m, age |-> 0], None}
GetQuotes(m) == IF swap_service = "orca" THEN OrcaQuotes(m) ELSE JupiterQuotes(m)

(* Mutant: Jupiter's service, too, looks only for the quote's id.           *)
JupiterLooksForId(quote) == quote # None

(* prepare_swap_transaction makes a transaction for these quotes only:      *)
(* Orca's service looks for the quote's id, Jupiter's at its age as well.   *)
OrcaPrepares(quote) == quote # None
JupiterPrepares(quote) == Fresh(quote, 0)
Prepares(quote) ==
  IF swap_service = "orca" THEN OrcaPrepares(quote) ELSE JupiterPrepares(quote)

(* WalletService.sign_and_send: sent, or an exception, raised before the    *)
(* transaction was sent or after.                                           *)
Send(t, answered) ==
  \/ sent' = sent \cup {t}
  \/ ~answered /\ UNCHANGED sent

(* get_token_balances: the balances, or none when the node cannot be asked. *)
BalancesRead == {held, {}}

(* A swap is prepared and sent, or fails on the way; the Node helper, the   *)
(* API and the wallet service all may.  A wait executes without the flag.   *)
Execute(executed) ==
  /\ pc = "execute"
  /\ \/ /\ action.type = "EXECUTE_SWAP" /\ Prepares(action.quote)
        /\ Send([mint |-> action.quote.mint, buys |-> TRUE,
                 stale |-> ~Fresh(action.quote, 0)], executed)
     \/ ~executed /\ UNCHANGED sent
  /\ iterations_used' = iterations_used + 1
  /\ Emit("execute", executed, MintOf(action), "observe")
  /\ action' = None
  /\ UNCHANGED <<toFlatten, completion, run_log_hash, held, leftOver, record>>

(* _flatten_to_usdc: the balances read, or an error event.                  *)
FlattenRead(balances) ==
  /\ pc = "flatten"
  /\ balances \in BalancesRead
  /\ toFlatten' = balances
  /\ pc' = "flattening"
  /\ UNCHANGED <<setup, sequence_no, flattened, events, action, iterations_used,
                 completion, run_log_hash, wallet, record>>

FlattenReadFails ==
  /\ pc = "flatten"
  /\ Emit("flatten", FALSE, None, "finalize")
  /\ UNCHANGED <<memory, wallet, record>>

(* No quotes, a sale sent, or an exception before or after it was sent.     *)
Flatten(m, success) ==
  /\ pc = "flattening"
  /\ m \in toFlatten
  /\ toFlatten' = toFlatten \ {m}
  /\ \/ /\ \E quote \in GetQuotes(m) : Prepares(quote)
        /\ Send([mint |-> m, buys |-> FALSE, stale |-> FALSE], success)
     \/ ~success /\ UNCHANGED sent
  /\ Persist(sequence_no + flattened, "flatten", success, m)
  /\ flattened' = flattened + 1
  /\ UNCHANGED <<setup, pc, sequence_no, action, iterations_used, completion,
                 run_log_hash, held, leftOver, record>>

(* Mutants: at least one number is reserved, used or not; the wallet has to *)
(* be flat before the run goes on.                                          *)
NextAfterFlatten == IF flattened = 0 THEN 1 ELSE flattened

WalletFlat == toFlatten = {} /\ held = {}

FlattenCount == flattened

AllTried == toFlatten = {}

FlattenEnds ==
  /\ pc = "flattening"
  /\ AllTried
  /\ sequence_no' = sequence_no + FlattenCount
  /\ pc' = "finalize"
  /\ UNCHANGED <<setup, flattened, events, memory, wallet, record>>

(* Which mints the execute events say were bought, and the adapters'        *)
(* validate_completion.                                                     *)
Bought(list) ==
  {list[k].mint : k \in {j \in DOMAIN list : list[j].type = "execute" /\ list[j].ok}}

ValidateCompletion(list, balances) ==
  IF \/ adapter = "swap_execution" /\ Required \subseteq Bought(list) /\ balances = {}
     \/ adapter = "rebalance_execution" /\ Count(list, "finish", TRUE) > 0
  THEN "complete" ELSE "incomplete"

TooManyInvalid(list) == Count(list, "validate", FALSE) > MaxInvalid
Fatal(list) == Count(list, "error", FALSE) > 0

(* Mutant: a run out of budget is left to the adapter.                      *)
EvaluatedWithoutBudget(list, balances) ==
  IF TooManyInvalid(list) \/ Fatal(list) THEN "invalid"
  ELSE ValidateCompletion(list, balances)

(* CompletionEvaluator.evaluate: too many invalid actions or a fatal error, *)
(* then the budget, then the adapter.  The run's status is "running" here,  *)
(* so the check for "timeout" never applies.                                *)
Evaluate(list, balances) ==
  IF TooManyInvalid(list) \/ Fatal(list) THEN "invalid"
  ELSE IF Count(list, "budget_exceeded", TRUE) > 0 THEN "incomplete"
  ELSE ValidateCompletion(list, balances)

(* Mutant: the hash is taken before the finalize event is added.            *)
HashBeforeFinalize(list) == {list[k] : k \in 1..(Len(list) - 1)}

(* compute_run_log_hash sorts by sequence_no: it hashes the set of events.  *)
Hash(list) == {list[k] : k \in DOMAIN list}

(* The final balances (no balances if the read fails), the evaluation, the  *)
(* finalize event and the hash over all events so far.                      *)
Finalize(balances) ==
  /\ pc = "finalize"
  /\ balances \in BalancesRead
  /\ leftOver' = held
  /\ completion' = Evaluate(events, balances)
  /\ Emit("finalize", TRUE, None, "onchain")
  /\ run_log_hash' = Hash(events')
  /\ UNCHANGED <<action, iterations_used, toFlatten, held, sent, record>>

(* program.finalize_run; without a program client nothing happens.          *)
FinalizedOnChain ==
  chain' = [status |-> "completed", completion |-> completion, log |-> run_log_hash]

Onchain ==
  /\ pc = "onchain"
  /\ \/ FinalizedOnChain /\ Emit("onchain_finalize", TRUE, None, "commit")
     \/ (FinalizedOnChain \/ UNCHANGED chain)
        /\ Emit("onchain_error", TRUE, None, "commit")
     \/ pc' = "commit" /\ UNCHANGED <<setup, sequence_no, flattened, events, chain>>
  /\ UNCHANGED <<memory, wallet, row, evidence>>

Commit ==
  /\ pc = "commit"
  /\ row' = [status |-> "completed", completion |-> completion,
             log |-> run_log_hash, events |-> events]
  /\ pc' = "emit_evidence"
  /\ UNCHANGED <<setup, sequence_no, flattened, events, memory, wallet, chain, evidence>>

(* adapter.emit_run_evidence: nothing for a swap run, a commit of its own   *)
(* for a rebalance run; an instance that cannot be resolved raises.         *)
EmitEvidence ==
  /\ pc = "emit_evidence"
  /\ evidence' \in {FALSE, adapter = "rebalance_execution"}
  /\ pc' = "done"
  /\ UNCHANGED <<setup, sequence_no, flattened, events, memory, wallet, row, chain>>

(* The process dies, or a flush fails: events and run are not written.      *)
Crash ==
  /\ pc \notin {"done", "crashed"}
  /\ pc' = "crashed"
  /\ UNCHANGED <<setup, sequence_no, flattened, events, memory, wallet, record>>

(* The cluster takes a transaction, or it expires.                          *)
Land(t) ==
  /\ t \in sent
  /\ sent' = sent \ {t}
  /\ held' = IF t.buys THEN held \cup {t.mint} ELSE held \ {t.mint}
  /\ UNCHANGED <<setup, pc, sequence_no, flattened, events, memory, leftOver, record>>

Expire(t) ==
  /\ t \in sent
  /\ sent' = sent \ {t}
  /\ UNCHANGED <<setup, pc, sequence_no, flattened, events, memory, held, leftOver, record>>

Proceed ==
  \/ Start \/ Observe \/ CheckBudget
  \/ \E d \in Decided : DecideFails(d) \/ Decide(d) \/ DecideFinish(d)
  \/ FatalError
  \/ \E b \in BOOLEAN : Validate(b) \/ Execute(b)
  \/ \E balances \in SUBSET Mints : FlattenRead(balances) \/ Finalize(balances)
  \/ FlattenReadFails \/ FlattenEnds
  \/ \E m \in Mints, success \in BOOLEAN : Flatten(m, success)
  \/ Onchain \/ Commit \/ EmitEvidence

Cluster == \E t \in Transaction : Land(t) \/ Expire(t)

Next == Proceed \/ QuoteAges \/ Crash \/ Cluster

(* Every call execute_run awaits returns or raises: the HTTP clients have   *)
(* timeouts and the waits are bounded, so execute_run itself proceeds.      *)
Spec == Init /\ [][Next]_vars /\ WF_vars(Proceed)

-----------------------------------------------------------------------------
(* Properties.                                                              *)

RunnerTypeOK ==
  /\ adapter \in Adapters /\ swap_service \in SwapServices /\ pc \in Steps
  /\ sequence_no \in Nat /\ flattened \in Nat
  /\ events \in Seq(Event)
  /\ action \in OptionOf(Action) /\ iterations_used \in 0..IterationBudget
  /\ toFlatten \subseteq Mints
  /\ completion \in OptionOf(CompletionStatuses)
  /\ row.status \in {"pending", "running", "completed"}
  /\ chain.status \in {"pending", "completed"}
  /\ evidence \in BOOLEAN
  /\ held \subseteq Mints /\ sent \subseteq Transaction /\ leftOver \subseteq Mints

(* The events of a run are numbered 0, 1, 2, ... in the order they happened *)
(* although loop, flattening and finalization count them apart: the unique  *)
(* (run_id, sequence_no) never collides and no number is skipped.           *)
EventsNumbered == \A k \in DOMAIN events : events[k].sequence_no = k - 1

(* Tokens get into the wallet, or are on their way, only through a swap the *)
(* validator let through: no order of refusals, errors, lost answers and    *)
(* late transactions executes a refused action.  Quotes age on after the    *)
(* validation: only with Orca's service are swaps sent that are stale by    *)
(* the service's own limit.                                                 *)
OnlyValidatedBuys ==
  /\ \A m \in held \cup {t.mint : t \in sent} :
       \E k \in DOMAIN events :
         events[k].type = "validate" /\ events[k].ok /\ events[k].mint = m
  /\ \A t \in sent : t.stale => swap_service = "orca"

(* A run recorded as complete had no fatal error, did not run out of budget *)
(* or of invalid attempts, and has an executed swap on record for every     *)
(* required token, or its finish if it was a rebalance.                     *)
CompleteIsEarned ==
  completion = "complete" =>
    /\ Count(events, "error", FALSE) = 0
    /\ Count(events, "budget_exceeded", TRUE) = 0
    /\ Count(events, "validate", FALSE) <= MaxInvalid
    /\ IF adapter = "swap_execution"
       THEN Required \subseteq Bought(events) ELSE Count(events, "finish", TRUE) = 1

(* What the auditor recomputes from the committed rows, leaving out the     *)
(* events after the on-chain call by their types, is the hash committed     *)
(* with the run, and the one on chain if the run was finalized there, with  *)
(* the same completion.  Evidence is on record of committed runs only.      *)
IsEvidence(e) == e.type \notin {"onchain_finalize", "onchain_error"}
AuditAgrees ==
  /\ evidence => row.status = "completed"
  /\ row.status = "completed" =>
       /\ {e \in Hash(row.events) : IsEvidence(e)} = row.log
       /\ \E e \in row.log :
            /\ e.type = "finalize"
            /\ \A other \in row.log : other.sequence_no <= e.sequence_no
       /\ chain.status = "completed" =>
            chain.log = row.log /\ chain.completion = row.completion

(* Unless the process dies a run that is started ends: refused actions and  *)
(* failed swaps cannot keep it in the loop.                                 *)
RunEnds == <>(pc \in {"done", "crashed"})

(* swap_execution.py:73 requires of a complete run "Final balances are      *)
(* flattened to USDC (all non-USDC balances zero)".                         *)
CompleteMeansFlattened ==
  completion = "complete" /\ adapter = "swap_execution" => leftOver = {}
=============================================================================
