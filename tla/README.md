# Proof Arena in TLA+

Proof Arena benchmarks trading agents. An Anchor program on Solana records who
entered a challenge, how each run ended and who won; a Python backend (FastAPI,
SQLAlchemy, asyncio) creates the challenges, executes the runs against wallets
it hosts, settles them, and deploys hosted agent instances. This directory
holds TLA+ models of both, the TLC configurations that check them on small
instances, and TLAPS proofs.

Paths below are relative to the repository; `program/` stands for
`programs/agent_arena/src/` and `backend/` for `backend/src/`.

## The system

| Component | State it keeps | Operations | What makes it correct |
|---|---|---|---|
| Arena program, `program/` | accounts: config, strategies, challenges, runs | `initialize`, `register_strategy`, `create_challenge`, `create_run`, `start_challenge`, `finalize_run`, `settle_challenge` | counters agree with accounts; a challenge settles once, with all its runs in; the winner is the best of all runs |
| Ranks on chain, `program/instructions/update_agent_rank.rs` | a rank account per agent id | `update_agent_rank` | scores in bounds, the owner of a rank stays, wins add up |
| Challenge service, `backend/services/challenge_service.py` | `challenges`, `runs` rows | create and start a challenge, create runs (local and for instances) | the rows never claim more than the chain holds |
| Settlement, `settlement_service.py`, `integrity/settlement_verifier.py` | winner in the challenge row, artifacts, rank snapshots | `settle_challenge` | settled once, with the chain's result; no win lost or counted twice |
| Runner, `runner_service.py` and `integrity/` | `runs` row, `run_events`, the benchmark wallet | `execute_run` | only validated actions are executed; the record is complete, numbered and what the hash covers; the run ends |
| Hosted instances, `instance_service.py`, `api/instances_operator.py` | `agent_instances` rows, wallets, AgentOS sessions | deploy, update config, retry consent, teardown | a row tells the truth about its wallet, session and consent |
| Wallets, `wallet_service.py`, `privy_signing.py` | wallets at Privy | create, sign and send, balances, fund, drain | as their callers see them |
| Flagship, `flagship_service.py`, `scripts/flagship_cron.py` | lock file, runs of the flagship instance | bootstrap, deploy, tick | one tick at a time, one run per challenge |
| Strategies, `strategy_service.py` | `agents` rows | submit, complete the registration | a row is active only if registered on chain |
| Policy, `backend/policy/`, `integrity/cats/` and the rebalance adapter, `challenges/rebalance_execution.py` | evidence artifacts | validate an envelope, plan a rebalance, judge the plan | a plan made under an envelope is one its policy accepts |
| Devnet script, `backend/scripts/run_devnet_lifecycle.py` | none of its own | drives a challenge from submission to settlement | exit code 0 is earned; database and chain are kept together |
| Read side, API, frontend, AgentOS app, other scripts | none of their own | projections, authentication, wiring | - |

**Interaction.** An API request or a script calls a service with a database
session of its own (`db/engine.py`, `expire_on_commit=False`). The services
call the program through `chain/program_client.py` (one transaction per
instruction, signed by the authority's key), Privy and AgentOS over HTTP, and
quote services. Nothing makes Postgres, the chain, Privy and AgentOS change
together. The chain never calls back.

**What is hard.** Requests interleave at every `await`; rows are read without
locks and written back later; a call may fail before or after it took effect;
a process may die between two commits, or between a call and its commit;
transactions are sent and not confirmed; events are only flushed until a run
ends; the program's instructions may come in any order from any signer.
`PROJECT.json` lists these hazards one by one, at their lines.

## Modules

| Module | Models | Kind |
|---|---|---|
| `Option` | values or `None` | shared |
| `SettlementRule` | eligibility, the better of two results, the winner of a list | operators |
| `Registry` | `initialize`, `register_strategy` | component |
| `AgentArena` | the program's challenges and runs, on `Registry` | component |
| `Contest` | what the program promises: submit results once, decide once, for a best one | abstract specification |
| `SettleLoop` | the loop of `settle_challenge`, account by account | algorithm |
| `AgentRank` | `update_agent_rank`, on `Registry` | component |
| `DeploySaga` | hosted instances: saga, update, retry, teardown | component |
| `Runner` | `execute_run` | component |
| `HostedRuns` | the flagship, the cron's tick and `create_run_for_instance` | component |
| `ArenaBackend` | challenge and settlement services and the end of a run, composed with `AgentArena` | composition |
| `Lifecycle` | the devnet script beside the requests of others, on `ArenaBackend` | composition |
| `Rankings` | what a settlement does to rank snapshots and rank accounts, on `AgentRank` | composition |
| `Rebalance` | a rebalance envelope, the plan made under it, the verdict on the plan | component |
| `MC*` | constants and symmetry for TLC | model checking |
| `*Proofs` | theorems on the module they are named after; `AgentArenaProofs` also that it implements `Contest`, `RankingsProofs` also on `AgentRank`, `LifecycleProofs` also on `ArenaBackend` | proofs |

### The program: `Registry`, `AgentArena`, `Contest`, `SettleLoop`, `AgentRank`

An instruction is one atomic action; the Anchor constraints and `require!`s
are its guards, since a transaction that fails changes nothing. `challenge`
and `run` are the accounts; one that does not exist yet has status
`"absent"`. Every signer may send every instruction with any account, so the
authority checks are in the guards and are exercised. Statuses the program
declares and never writes (`Running` of a run, `Cancelled` of a challenge) are
not in the model's sets. Budgets, slippage, mints, wallets and hashes are
stored and never read by a handler; they are left out. `now` is the cluster's
clock.

`settle_challenge` is modelled twice. In `AgentArena` it is atomic, as it is
on chain: the accounts it is given are a sequence of any runs of any
challenge, and the winner is the one `IsWinner` of `SettlementRule` names. In
`SettleLoop` it is the `for` loop over `remaining_accounts`, with its running
winner and its `seen_agents` array; `SettledByRule` ties the two together.
`Settleable` is the guard of the atomic action, under a name because
`NeverStranded` asks for it: `SettleChallenge` can be taken exactly where it
holds.

`Contest` has a quota, results and a decision per challenge and knows
nothing of statuses, counters or account lists. `AgentArena` implements it
with results taken from finalized runs: `create_challenge` opens,
`finalize_run` submits, `settle_challenge` decides, the rest stutters.

`AgentRank` has `init_if_needed`: an account that does not exist reads as
zeroes, and the handler takes agent id 0 for "not initialized".

### Ranks off and on chain: `Rankings`

A settlement reads, for each agent of its challenge, the terminal runs
(`TerminalRuns`) and then the wins of the latest snapshot (`LatestWins`); it
appends a snapshot with the sums and, for local agents, sends them to the
program. `RankAgent` is one turn of that loop. Postgres gets everything in one
commit at the end; what was sent to the chain stays sent. `Crash` is a request
that dies anywhere, a failed commit included. `best` is the winner the runs of
a challenge give, as settling itself is `ArenaBackend`'s matter.
`settledTwice`, `overlapped` and `rolledBack` are history; `Won(a)` counts the
challenges whose committed winner is `a`, each once however often it was
settled. What the model shows and the properties allow for:

- nothing but the program refuses the second of two settlements that both
  passed the check at `settlement_service.py:71`, and a hosted challenge makes
  no call to it. The second waits for the row lock of the first, reads the
  snapshot the first committed and adds the win again: two wins for one
  challenge (run `hosted_settled_twice`). `WinsEarned` says that this befalls
  hosted agents only, and bounds the wins of every other agent by `Won`; of
  rank accounts it bounds all;
- two overlapping settlements with a common agent read the same latest
  snapshot, and one win is lost for good: `WinsExact` excludes the overlap,
  `WinsEarned` does not need to;
- runs are read before wins, so an overlap may also send more wins than runs:
  `UpdatesAcceptable` is about local challenges without an overlap;
- after a settlement that died while ranking, the rank account is ahead of the
  snapshots and no artifact tells.

### Hosted instances: `DeploySaga`

Each request creates at most one row, wallet and session, so all four are
indexed by the request. `request[q].pc` is the await it stands at. A row is
committed by the steps that commit in the code; what is flushed earlier is
invisible to others and lost by a crash, so it is not a state change. An
operator's or an update's decision is taken on the row as read in its first
step and applied in its last, whatever has happened in between. Failing calls
have both outcomes: nothing happened, or it happened and the answer was lost.
Any flush or commit may fail: the request then ends in `failed` and what it had
not committed is gone (`DatabaseFails`, and a branch of its own in the steps
that commit a new row). A cancelled request is a crash of that request alone.
What the model shows and the properties allow for:

- the handler of step 6 sets the failed status whatever went wrong, but when it
  was the flush at `instance_service.py:236`, the transaction is over and the
  commit at `:251` raises: no row is left beside the session, although the
  docstring (`:25-26`) has one committed. `SessionsOwned` says who else can
  leave a session without a row: a saga at its last step and one that died.
  Rejected consents and failed calls do not;
- a teardown of a row that is torn down answers `runtime_cleanup_ok=true`
  (`instances_operator.py:253-259`) whatever became of the session, so that
  `true` alone says nothing, though the docstring (`:243-247`) has failures
  surfaced as `false`. `CleanupHonest` says what the answers taken together are
  worth: if the session a row names is still there although the row is torn
  down or some teardown answered `true`, another teardown has answered `false`;
- a row without a handle is answered `true` as well (`:276`), also when the
  session of a deploy whose answer was lost exists; no answer tells of that one,
  only the row's status (`SessionsOwned`);
- a stale retry that writes `live` over a teardown leaves a live row whose
  handle names a released session: `LiveIsComplete` is about what is on record;
- of two concurrent updates of one row both supersede it, and the link names the
  later one.

### One run: `Runner`

The steps of `execute_run` between awaits, with both adapters. `events` are
the flushed events, each with the number passed by its caller; `row` is what
is committed. Transactions go through `sent`: they land or expire later, in
any order, also after the run has read its final balances, and also when the
sender saw an exception. A balance read may raise or answer with nothing:
both happen in `wallet_service.py`. Amounts are left out: a token is in the
wallet or not.

A decision comes from a reply, taken as the pieces in which JSON is looked
for. A local agent's provider takes the first piece that is an action
(`LocalDecides`), a hosted agent's only the whole content (`HostedDecides`);
anything else is an exception, which ends the loop. A quote carries its age,
which grows between the decision and the transaction (`QuoteAges`) up to
`Oldest`, past which no limit tells ages apart. The validator looks at it with the challenge's limit
(`ChallengeQuoteAge`), the swap service may look again with its own
(`QuoteMaxAge`). Jupiter's does, Orca's looks only for the quote's id, so that
with Orca a stale swap can be sent: the second half of `OnlyValidatedBuys`
says that this happens with Orca alone. `FatalError` is a slippage of a wrong
type, which raises in the validator. The hash of the record sorts the events
by number; it is modelled as the set of events.

### The flagship and its runs: `HostedRuns`

A process bootstraps the canonical agent, deploys the flagship, or is one tick
of the cron on some host; it inserts at most one agent, instance and run, so
these are indexed by it. `process[p].pc` is the place in its transaction, and
a step ends where other sessions can come in between: at a commit, and at the
insert of the synthetic agent. `inserted` are the agents whose transaction is
still open: nobody else can read them, and another insert of the same key
waits for their end, as the unique index makes it. A run's commit takes the
agent along; a duplicate run rolls both back. `agent[a]` is the instance of
the synthetic key, `run[r].wallet` the one whose wallet the run spends.

The saga of the flagship's instance is here with its outcomes (a live row, a
failed row, none), operators act on the row at any time, on stale reads too
(`OperateOn`; detail in `DeploySaga`), and `execute_run` ends with a completion status or raises
(detail in `Runner`). What the model shows and no invariant excludes:

- two deploys that race leave two live flagships, each of which may run a
  challenge, so that "one run" is a statement about an instance;
- a crash between the saga's commit and the label's leaves a live instance
  that is no flagship, and the next deploy makes another;
- the live check of `create_run_for_instance` looks at the row the session
  read when it chose the flagship; an instance torn down or superseded in
  between still gets its run, although `integrity/saga_statuses.py:17` says
  that it cannot be benchmarked;
- a run whose `execute_run` raised stays `running`, and the unique index then
  refuses the same challenge to every later tick.

### Postgres against the chain: `ArenaBackend`

It extends `AgentArena`; the chain's part of the state changes by its actions
only, all signed by `Authority`. `Call` is the client: the instruction is
executed and answered, executed with the answer lost, or not executed. Rows
hold what is committed. `CanSettle` and `DetermineWinner` are the verifier's
rules on rows; the chain applies its own in `SettleChallenge`. `faulty` is a
history variable: set when an answer was lost or a request died.

The loop of a run is one step here (`LoopFinishes`); `Runner` is its detail.
`execute_run` looks at no status; its callers (scripts, cron) execute a run
once, and so does the model. What the model shows and the properties allow for:

- the winner in the row may be another agent than on chain after a tie, as
  each side uses end times of its own clock (`ResultsAgree` demands the same
  balance, not the same agent);
- a `start_challenge` that is slow to commit may overwrite `completed` with
  `active` after the whole contest; the winner stays, and with it the check
  against a second settlement;
- after a lost answer or a crash around the on-chain settlement the row is
  never settled: the chain refuses a second settlement, and the reconciliation
  `settlement_service.py:135` asks for does not exist.

### A challenge from end to end: `Lifecycle`

`run_devnet_lifecycle.py` is a process beside the requests of `ArenaBackend`:
`script.pc` is its step. It submits and registers two strategies, asks the API
to create and to start a challenge, finalizes both runs itself in one session,
and settles by calling the service, of which it is the only caller. What it
asks for is a request of `ArenaBackend` whose end it awaits (`AwaitedServes`);
others may start and settle its challenge at the same time. It stops at the
first failure it notices (`Fails`); `GiveUp` is an exception, a kill, or its
HTTP client's timeout, after which the request it had sent goes on alone.
Creating a challenge answers 200 although a run of it was not created on chain,
so the script starts and finalizes such a challenge and learns of it only from
the chain. Its last step reads the leaderboard and prints; it decides nothing,
and neither does `Verify`. Where nobody runs the script (`"unused"`), the
model is that of `ArenaBackend` with any requests. While the script runs, its
runs are executed by it alone: no other executor is started for a devnet
challenge. A submission is refused when the user has `MaxSubmissions` active
strategies, whichever count is read.

### Envelope, plan and verdict: `Rebalance`

`EngineAccepts` is what `policy/engine.py` demands of an envelope,
`Plan` what the adapter plans from the portfolio and prices of the last
observation, `Verdict` what the policy cat says of the run. Weights are
hundredths. `int()` of a float product may fall one short of a whole number;
`Truncated` takes both outcomes, for each target and for the drift, and
`rounds_inside` does the same for a sum of weights at the edge of 1.0 +- 0.01, which
the engine widens by 1e-9 and the cat does not. The adapter is configured by
the challenge, not by the deployed envelope: `create_challenge` writes no
rebalance field (`BareConfig`), seeds and tests write the envelope's
(`ConfigOf`). The prices are those the adapter reads; the runner records none
so far, and every verdict on such a run is `fail`
(`scripts/seed_v2_1_rebalance_smoke_run.py:14-25` says so). The engine deploys
envelopes that can never pass: a weight of 0, a weight above the envelope's own
`max_position_weight`, `dry_run` off, a sum at the edge. `VerdictExplained`
says that these, a missing price and missing evidence are all there is.

## Runs

| Run | Bounds | Shows |
|---|---|---|
| `agent_arena` | 2 signers, 2 challenges, 2 agent ids, up to 2 contestants, one balance, complete or invalid, clock 0..1 | the safety of the program, that no challenge is stranded, that it implements `Contest` |
| `settle_loop` | 3 agents, 2 challenge ids, every list of length up to 3, 1..3 enrolled | the loop computes the rule |
| `rankings` | 2 local agents in 2 challenges, 1 hosted agent in a third, 2 settlements at once | wins neither made up nor lost, ranks in step, updates the program accepts |
| `deploy_saga` | 4 requests, 2 at a time | the six properties of rows, wallets and sessions |
| `runner` | 2 tokens, 1 of them required, 2 turns, 1 invalid attempt allowed, replies of up to 2 pieces, quotes valid to age 2 for the challenge and 1 for the service | record, completion, audit, what is bought and how stale, and that a run ends |
| `hosted_runs` | 4 processes, 2 hosts, 1 challenge | one run per instance and challenge, on the right agent; the label; the lock comes free |
| `lifecycle` | 2 concurrent requests, with the script or without, 1 challenge, 2 agents, balances 7 and 8, clock 0..1 | rows behind the chain, agreement, settled once; what the script's success means |
| `rebalance` | 2 mints, balances 0, 29, 71, two prices or none, 7 weights, limits on both sides of each bound | what decides the verdict; no planned trade overshoots |
| `rank_owner_zero`, `torn_down`, `hosted_settled_twice`, `runner_flattened` | as above | violations, see Findings |

Why these bounds are enough to be interesting:

- `agent_arena`: two challenges let runs of one be offered in the settlement
  of the other; two agents with a clock of two values make ties broken by
  time and ties left over; one balance is enough since `settle_loop` has the
  comparison of balances; two signers, one of them no admin, exercise the
  authority checks. The theorems cover all other sizes.
- `settle_loop`: a third account is what a duplicate needs to make up for one
  that is missing while another is listed properly.
- `deploy_saga`: the longest story that matters has four requests (a deploy,
  an update of it, a retry or a teardown of either, and one more); two in
  flight are a race, and the proofs cover any number.
- `runner`: a turn refused and a turn executed fit in the budget, in both
  orders, and the invalid attempts may pass their limit; one token required
  and one not tell apart "bought what was asked" and "holds something". The
  challenge's quote limit is above the service's, so that a quote can be fresh
  for the one and stale for the other; two pieces let an action stand after one
  that is none.
- `hosted_runs`: a bootstrap, a deploy and two ticks on two hosts are the
  shortest story in which two inserts of one key race, and crashes and
  operators may come at any point of it; two challenges would only repeat it.
- `lifecycle`: two requests race in every pair of operations (two
  settlements, a settlement and a slow start, two executions), and one of
  another caller races with any that the script awaits; time 0..1 and two
  balances give ties and strict winners.
- `rankings`: two challenges with the same two agents are what a lost win
  needs, and a settlement that dies can be tried again before or after the
  other; the hosted one may be settled twice at once.
- `rebalance`: 29 and 71 add up to 100, so that shares and drifts are whole
  and their floats may fall short; the weights have sums of 99, 100 and 101, a
  threshold is met exactly, and trades are cut by the limit and not.

Deadlock is not checked where the system may stop: `agent_arena` (all
settled, or the clock at its bound), `settle_loop` (the instruction ends),
`deploy_saga`, `runner`, `hosted_runs`, `lifecycle`, `rankings` and
`rebalance` (all requests done, the challenge id used up, everything settled,
the evidence written). Bounds that cut the system are `MaxTime`, `MaxInFlight`, the
finite sets in the `.cfg` files, `MaxPieces`, and `MaxContestants` below the
program's 32. `MaxSubmissions` is the code's own 3.

Symmetry is declared for signers and challenges (`agent_arena`) and for
requests (`deploy_saga`, `lifecycle`), settlements (`rankings`) and mints
(`rebalance`): they are only compared, and no definition tells one from
another. Agent ids are numbers, as in the program,
and are not permuted. The runs with a liveness property use no symmetry.

**Fairness.** Two modules assume any. `Runner`: `WF_vars(Proceed)`, that
`execute_run` goes on. It is one coroutine whose awaits return or raise: the
HTTP clients have timeouts, a wait is at most 60 seconds, database calls end
or raise. Nothing is assumed of the cluster (`Land`, `Expire`) and a crash
may come at any time, so `RunEnds` is about the loop and not about luck: the
time budget is never forced to run out in the model, so it is the turns
counted, for refused actions too, that end the loop. `HostedRuns`:
`WF_vars(TickStep(p))`, that a tick which has not died goes on; its database
calls return or raise, and that `execute_run` ends is `Runner`'s `RunEnds`.
Nothing is assumed of deploys, operators or crashes, and no tick is assumed to
start.

## Findings

Four runs expect a violation; each is about a sentence of the repository.

1. `rank_owner_zero`: `update_agent_rank.rs:61` "Initialize on first creation".
   The rank account of agent id 0 is initialized by every update, so another
   owner of a strategy with id 0 takes it over.
2. `torn_down`: `db/models.py:564` "torn_down -> (terminal)". `retry_consent`
   writes `live` over a teardown that committed after it read the row.
3. `hosted_settled_twice`: `settlement_service.py:67` "Idempotency — reject
   already-settled challenges". Two settlements of a hosted challenge both pass
   the check, whose row is read without a lock, and the winner's snapshot says
   2 wins of 1 run.
4. `runner_flattened`: `swap_execution.py:73` "Final balances are flattened to
   USDC". A final balance read that fails counts as a flat wallet.

Disagreements met on the way that have no run of their own:

- `instance_service.py:318` "Updating an already-superseded source row is
  rejected": two concurrent updates both pass the check, and the second
  replaces the link of the first;
- `instance_service.py:25` "Step 6 failure: row committed": not if the flush of
  the consent artifact failed;
- `instances_operator.py:243` "Runtime cleanup failures are logged and surfaced
  in the response as runtime_cleanup_ok=false": not by the teardown that is
  repeated.

Met on the way and not contradicting any text: a crash between the two
commits of an update leaves two live instances (`instance_service.py:351`); a
template that proves unknown leaves a wallet without a row (`:188`); a run
whose process died stays `running`.

## Proofs

The theorems hold for all values of the constants under the assumptions the
modules name. Most say that ids are numbers or that `None` is no other value
(`AgentIdsAssumption`, `NoneAssumption`, `StatusAssumption`, ...), that
balances, prices and scores are naturals, and that sets the code keeps in
memory are finite (`Mints` of `Runner` and `Rebalance`, `Challenges` of
`Rankings`). These say more:

- `LimitAssumption`: `MaxContestants` is below 255, so that the `u8` counters
  of the program do not overflow (the program's bound is 32);
- `ContestantsAssumption`, `EndingsAssumption`: the script's two strategies
  fit into a challenge, and the balances it reports are its own two, which
  differ (`run_devnet_lifecycle.py` has them as constants);
- `QualitiesAssumption`: a quality score is 0..100, as it is computed.

Sums, "some element comes first" and the like are shown without induction over
operators: a set of counterexamples among the subsets of a finite set would
have a smallest one (`SmallestSubset`, from the well-foundedness of strict
inclusion), and that one is refuted.

- **`AgentArenaProofs`**. `TypeOK` is inductive. Counters are not: that a
  challenge is settling exactly when all runs are in needs that nobody
  enrolls past the quota, that status and counters move together, and that
  cardinalities of `Enrolled` and `Finalized` follow the counters. `IInv` is
  this conjunction by challenge (`ChallengeInv`); each instruction disturbs
  one challenge, and a lemma carries the others over. `CountersCorrect`,
  `SettlesWhenAllIn` and `WinnerCorrect` follow from it; `WinnerCorrect` by way
  of `AdmissibleListsAll`: as many different runs of the challenge as are
  enrolled are all the enrolled runs. `SettlementStands` is the action
  property, `Refinement` says that every instruction is a step of `Contest` or
  a stutter. `NoneStranded` has two halves: while a challenge is active some
  enrolled run is not finalized (the counters differ), and its owner may
  finalize it; once it is settling, the list of all its runs passes every
  check, as some run of it comes first in the order of results and positions
  (`ListHasWinner`).
- **`SettleLoopProofs`**. `LoopInvariant` (the winner so far is the winner of
  the prefix; `seen_agents` is the set of its agents) with the types and the
  two results is inductive: `LoopSummarizes`, `LoopComputesRule` and
  `LoopRejectsOnlyBadLists`, of which the run checks the second only. It needs
  that `Beats` and its complement are transitive.
- **`LifecycleProofs`**. One inductive invariant, `LifecycleInv`, for
  `ArenaBackend` and `Lifecycle` together, on top of the program's `IInv`. It
  has four parts. (1) What a row says against its account (`ChallengeRowInv`,
  `RunRowInv`): the properties themselves, and what they hide, as that an
  address is in the row exactly while the status says so. (2) What a request
  relies on between two of its steps (`RequestInv`): an answered call whose
  commit is still to come is why the chain may be ahead, and the winner a
  settlement will commit was chosen from rows that can change no more. (3) What
  no two requests do at once (`Clash`): the row of a challenge or a run admits
  one creator and one executor, and the chain one successful start and one
  settlement, so of two requests only one has an answer to commit. Without it,
  two starts or two settlements would each commit. (4) What is owed
  (`OwedInv`): while nothing was lost, all that the rows lack is with a request
  under way, which gives `InStepWithoutFaults`. The script's part, `ScriptInv`,
  says how far it has come, what the request it awaits is, and that with nobody
  else executing runs the results it reported are what both sides hold. A step
  of a request leaves another what it relies on (`Undisturbed`), and is seen by
  the script as an `Effect` on rows and accounts, so that its proof does not go
  through the requests' actions again. `RowsStayBehind`, `StoresAgree`,
  `OneSettlement`, `InStep`, `SuccessEarned` and `ScriptStaysBehind` are the
  run's invariants. Four more theorems go beyond the run: `ChainRulesKept`
  (every step is, on chain, one of the program's, so that what is proved of
  the program holds here), whence `SettledOnChain` and `BackendStrandsNone`, and
  `CommittedResultsStand` (no step rewrites a committed winner or a completed
  run's row).
- **`RankingsProofs`**. For `AgentRank`, `RankTypeCorrect` (scores stay within
  the limit) and `OwnerFixed`: a rank account that exists under an id other
  than 0 bears that id. For `Rankings`, `NoWinMadeUp` and `NoWinLost`: what a
  settlement will commit is on its way in `process`; that it counts no win too
  many needs the bound on what it read, that commits only add to `Won`, and
  that a challenge the program settled is settled there by one
  process only, which makes a challenge settled twice a hosted one
  (`ChainOnce`, `LocalWonOnce`). `CommitWins` and `CommitOthers` say what a
  commit does to the count of its winner and of the others. For `NoWinLost` the invariant says that, while nothing overlapped, what a
  settlement read of an agent is still the agent's latest snapshot (`Exact`).
  `UpdatesAccepted`, of local challenges and without overlap, needs that the runs, read before the wins, still cover
  them when the update is sent (`Covered`, from `RunsCoverWins`).
  `RanksReported` follows an agent's rank through the settlement that has sent
  it and not committed yet (`Ranked`): it agrees with what will be committed,
  or the failure is noted and will be (`Reported`).
- **`RunnerProofs`**. The inductive invariant `IInv` has four parts, each with
  a lemma for the step, and each needs what the property leaves out.
  `EventsAreNumbered` needs how `sequence_no` and `flattened` share the count
  while the flattening is on (`CountsAgree`). `BuysAreValidated` needs that the
  action at hand was validated when it is executed, and what is to be sold was
  bought (`TradesValidated`). `CompleteEarned` needs that a run finishes once
  and leaves the loop with it (`FinishesOnce`). `AuditPasses` needs where
  memory, row and chain stand at each step after the verdict, and that events
  added after the hash are of the two types the auditor leaves out
  (`VerdictsAgree`). `EventsKept` is an action property: flushed events are only
  appended to. `StepsRunOut` is the part of `RunEnds` that needs no fairness:
  `StepsLeft`, a number made of the turns left, the place in the turn and the
  tokens left to sell, is lowered by every step of `execute_run` and raised by
  none of the cluster's. From there, that a run which goes on ends is a matter of `WF_vars(Proceed)`.
- **`RebalanceProofs`**. `LegWithinShare`: for every portfolio value, weight,
  holding and limit, a planned purchase leaves its mint at or below its exact
  share and a sale at most two base units below, whichever way the floats are
  truncated. `NeverOvershoots` lifts it to the artifacts: evidence on record is
  a plan of its config (`Planned` in `RebalanceInv`), whose total is a natural
  number because a fold over a finite set of mints is the sum it looks like
  (`SumsAgree`, `SumOfIn`). `VerdictHasReasons` rests on `PlanPasses`: the
  checks of drift, legs and trades never fail a plan of the adapter's.
- **`HostedRunsProofs`**. `uq_runs_challenge_agent` speaks of agents and
  `OneRunPerInstance` of instances; between them stand that an instance has
  one agent, open transactions included (`OneAgentPerInstance`), and that a
  process about to commit a run holds an agent of its flagship which is
  committed or its own (`Progress`). With `RunsAttached` this is inductive
  (`RunInv`). The label's part (`Labels`) follows a row from its deploy to its
  promotion: no repair or teardown can leave it `failed` on the way.
  `HostedInvariant` is their conjunction; the other four theorems are parts.
- **`DeploySagaProofs`**. The properties need what is said of a request in
  progress: no row of its name yet and, from its second step on, a wallet; the
  row an operator's request is about exists, and one whose consent may be
  retried keeps its handle and wallet for good, whatever others write to it.
  `SessionsAreOwned` rests on the ways a saga can end (`SagaEnds`): a row is
  committed, or the request has failed. For `CleanupIsHonest`, a step that
  neither answers `true` nor tears a row down leaves the answers standing
  (`CleanupKept`); the steps that do either are shown one by one.
  This is `InProgress` and `Progress`; with the properties themselves it is
  inductive (`SagaInvariant`), and five theorems are its parts.
  `SupersessionIsSound` is also about circles of superseded rows, which updates
  that write over links might make: a request is about a
  row that existed when it came and its own row did not (`TargetsExist`), so
  that no set of requests is closed under what they are about (`TargetsEnd`);
  rows in a circle of links would be such a set, by the pigeonhole principle.

**Only model-checked**: `RunEnds` and `LockFreed`, liveness under fairness,
which TLAPS does not handle (of `RunEnds`, the variant is proved). The four runs that expect a violation have no
theorem, as what they check does not hold. `NeverStranded` is stated with the
guard `Settleable` in place of `ENABLED`, which TLAPS does not handle either.

## Not modelled, and why

`mark_onchain_failed`, which nothing calls. The swap envelope and the wallet
policy document, which are range checks and a translation; the wallet safety
cat, a table from reason to check. Funding and draining of wallets, which
nothing calls. Templates are validated by the engine of `Rebalance` and then
read. The read side, API projections, authentication, the frontend, the AgentOS
application and the remaining scripts hold no state of their own or drive the
services above one after the other. Prompts, routes and slippage are data that
no property tells apart; so are the texts of replies beyond what piece of them
is an action. Migrations and schemas are declarations. Users are not kept
apart in `Lifecycle`, so the count of a user's active strategies is any up to
the limit: `api/strategies.py:28` counts and then inserts, and concurrent
submissions may pass it.

## Plan

1. Action properties of the components that have none: of `DeploySaga`, what a
   row never loses again; of `HostedRuns`, that a committed run is not moved to
   another agent or wallet.
2. That one run of `Runner` is a detail of `LoopFinishes` and the finalization
   of `ArenaBackend`, as a refinement of the part of a run they share.
3. A variant for a tick of `HostedRuns`, as `StepsLeft` is one for a run.
