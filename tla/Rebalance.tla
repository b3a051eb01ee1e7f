------------------------------ MODULE Rebalance ------------------------------
(* A rebalance instance from its envelope to the verdict on its run: the    *)
(* policy engine lets the envelope deploy (policy/engine.py), the challenge *)
(* adapter plans against what the run observed and leaves an evidence       *)
(* artifact (challenges/rebalance_execution.py), and the policy cat judges  *)
(* the artifact by the envelope that was deployed                           *)
(* (integrity/cats/rebalance_policy.py).                                    *)
(*                                                                          *)
(* A weight is a whole number of hundredths, and where the code's floats    *)
(* may fall on either side of a boundary both outcomes are taken.           *)
(* max_slippage_bps, whose range both sides check alike and which no dry    *)
(* run can exceed, is left out, as are hashes, the shape of the JSON and    *)
(* the transaction signatures a hosted run never has. The prices are those  *)
(* the adapter reads: its caller, the runner, records none so far.          *)
EXTENDS Naturals, FiniteSets, FiniteSetsExt, Functions, Option

CONSTANTS
  Mints,
  Weights,        \* of a target, in hundredths
  Balances,
  Prices,         \* in millionths of a base unit
  Thresholds,     \* rebalance_threshold_bps
  TradeLimits,    \* max_trade_value
  WeightLimits,   \* max_position_weight, in hundredths
  PositionSizeLimit   \* _MAX_POSITION_SIZE_LIMIT of the engine

ASSUME MintsAssumption == IsFiniteSet(Mints)

ASSUME StatusAssumption ==
  None \notin {"live", "torn_down", "pending", "completed"}

ASSUME RebalanceAssumption ==
  Weights \cup Balances \cup Prices \cup Thresholds \cup TradeLimits
    \cup WeightLimits \cup {PositionSizeLimit} \subseteq Nat

VARIABLES
  instance,   \* status of the agent_instances row, or None
  envelope,   \* its effective_config_json
  rounds_inside,  \* the weights' floats sum to just inside a sum on the boundary
  config,     \* what the adapter takes from the challenge's config_json
  run,        \* status of the run row, or None
  evidence    \* the rebalance_evidence_v1 artifact of the run, or None

vars == <<instance, envelope, rounds_inside, config, run, evidence>>

PartialFunctions(S, T) == UNION {[D -> T] : D \in SUBSET S}

Envelope ==
  [ universe  : SUBSET Mints,
    target    : PartialFunctions(Mints, Weights),
    threshold : Thresholds,
    trade     : TradeLimits,
    weight    : WeightLimits,
    dry_run   : BOOLEAN ]

SumOf(f) == MapThenSumSet(LAMBDA x : f[x], DOMAIN f)

Distance(a, b) == IF a < b THEN b - a ELSE a - b

-----------------------------------------------------------------------------
(* The policy engine, before the instance deploys.                          *)

InRange(n, low, high) == low <= n /\ n <= high

EngineAccepts(e) ==
  /\ e.universe # {}
  /\ DOMAIN e.target # {}
  /\ DOMAIN e.target \subseteq e.universe
  /\ \A m \in DOMAIN e.target : InRange(e.target[m], 0, 100)
  /\ Distance(SumOf(e.target), 100) <= 1
  /\ InRange(e.threshold, 1, 5000)
  /\ InRange(e.weight, 1, 100)
  /\ InRange(e.trade, 1, PositionSizeLimit)

-----------------------------------------------------------------------------
(* The adapter's plan. What it needs of its config are the universe, the    *)
(* targets, the threshold and the limit of a trade; a config that leaves    *)
(* them out gets the defaults.                                              *)

BareConfig ==
  [universe |-> {}, target |-> <<>>, threshold |-> 50, trade |-> 1000000000]

ConfigOf(e) ==
  [universe |-> e.universe, target |-> e.target, threshold |-> e.threshold,
   trade |-> e.trade]

(* int() of a float that stands for n / d. When the quotient is whole the   *)
(* float may fall just short of it, and the floor with it.                  *)
Truncated(n, d, short) ==
  IF short /\ n > 0 /\ n % d = 0 THEN n \div d - 1 ELSE n \div d

(* Multiples of a quarter are floats without error.                         *)
TargetValue(total, weight, short) ==
  Truncated(total * weight, 100, short /\ weight % 25 # 0)

Value(balance, price) ==
  IF price = None THEN 0 ELSE (balance * price) \div 1000000

StartPortfolio(c, observed) ==
  [m \in DOMAIN observed \cup c.universe |->
     IF m \in DOMAIN observed THEN observed[m] ELSE 0]

ValueMap(portfolio, prices) ==
  [m \in DOMAIN portfolio |-> Value(portfolio[m], prices[m])]

ValueIn(value, m) == IF m \in DOMAIN value THEN value[m] ELSE 0

Drift(aims, value, total, short) ==
  LET off == [m \in DOMAIN aims |-> Distance(aims[m], ValueIn(value, m))]
  IN  IF total = 0 THEN 0 ELSE Truncated(SumOf(off) * 10000, total, short)

(* Mutant: every leg is as large as the limit allows.                       *)
LegAtLimit(aim, held, limit) ==
  [side |-> IF aim > held THEN "BUY" ELSE "SELL", size |-> limit]

Leg(aim, held, limit) ==
  [ side |-> IF aim > held THEN "BUY" ELSE "SELL",
    size |-> Min({Distance(aim, held), limit}) ]

(* Mutants: a mint that is at its target gets a leg too; a drift that just  *)
(* reaches the threshold gets none.                                         *)
LegsOfEveryTarget(c, aims, value, drift) ==
  [ m \in {x \in DOMAIN aims : drift >= c.threshold} |->
      Leg(aims[m], ValueIn(value, m), c.trade) ]

LegsPastThreshold(c, aims, value, drift) ==
  [ m \in {x \in DOMAIN aims :
             drift > c.threshold /\ aims[x] # ValueIn(value, x)} |->
      Leg(aims[m], ValueIn(value, m), c.trade) ]

Legs(c, aims, value, drift) ==
  [ m \in {x \in DOMAIN aims :
             drift >= c.threshold /\ aims[x] # ValueIn(value, x)} |->
      Leg(aims[m], ValueIn(value, m), c.trade) ]

-----------------------------------------------------------------------------
(* The cat. Without evidence every check fails; with it, each is asked of   *)
(* the deployed envelope and the artifact.                                  *)

SumInside(e) ==
  LET off == Distance(SumOf(e.target), 100)
  IN  off < 1 \/ (off = 1 /\ rounds_inside)

Known(e, proof) ==
  \A m \in DOMAIN e.target \cup DOMAIN proof.portfolio : proof.prices[m] # None

ThresholdCheck(e, proof) ==
  /\ InRange(e.threshold, 1, 5000)
  /\ (proof.drift >= e.threshold) <=> (DOMAIN proof.legs # {})

WeightCheck(e) ==
  \A m \in DOMAIN e.target : InRange(e.target[m], 1, e.weight)

TradeCheck(e, proof) ==
  \A m \in DOMAIN proof.legs : proof.legs[m].size <= e.trade

PassesChecks(e, proof) ==
  /\ SumInside(e)
  /\ DOMAIN e.target \subseteq e.universe
  /\ Known(e, proof)
  /\ ThresholdCheck(e, proof)
  /\ TradeCheck(e, proof)
  /\ WeightCheck(e)
  /\ e.dry_run

(* The resolver gives a verdict only on a finished run of a live instance.  *)
Resolvable == run = "completed" /\ instance = "live"

Verdict ==
  CASE ~Resolvable -> "none"
    [] Resolvable /\ evidence = None -> "fail"
    [] OTHER -> IF PassesChecks(envelope, evidence) THEN "pass" ELSE "fail"

-----------------------------------------------------------------------------
Init ==
  /\ instance = None /\ envelope = None /\ run = None
  /\ rounds_inside = FALSE /\ config = None /\ evidence = None

(* Only an envelope on the boundary has a sum that may fall on either side. *)
Deploy(e) ==
  /\ instance = None
  /\ EngineAccepts(e)
  /\ instance' = "live"
  /\ envelope' = e
  /\ rounds_inside' \in (IF Distance(SumOf(e.target), 100) = 1 THEN BOOLEAN ELSE {FALSE})
  /\ UNCHANGED <<config, run, evidence>>

(* The adapter is configured by the challenge, not by the instance:         *)
(* create_challenge writes none of the rebalance fields, the seeds and the  *)
(* tests write those of the instance's own envelope.                        *)
EnrollRun(c) ==
  /\ instance = "live" /\ run = None
  /\ run' = "pending"
  /\ config' = c
  /\ UNCHANGED <<instance, envelope, rounds_inside, evidence>>

FinishRun ==
  /\ run = "pending"
  /\ run' = "completed"
  /\ UNCHANGED <<instance, envelope, rounds_inside, config, evidence>>

Plan(portfolio, prices, shortTargets, shortDrift) ==
  LET value == ValueMap(portfolio, prices)
      total == SumOf(value)
      aims  == [m \in DOMAIN config.target |->
                  TargetValue(total, config.target[m], m \in shortTargets)]
      drift == Drift(aims, value, total, shortDrift)
  IN  [ portfolio |-> portfolio, prices |-> prices, drift |-> drift,
        legs |-> Legs(config, aims, value, drift) ]

(* After the run's own commit, from the balances and prices the last        *)
(* observation recorded. A crash in between leaves a completed run that     *)
(* never gets its evidence: that is a behaviour which stops before this     *)
(* step, for no code runs emit_run_evidence a second time.                  *)
EmitEvidence(observed, prices) ==
  /\ run = "completed" /\ evidence = None
  /\ \E shortTargets \in SUBSET DOMAIN config.target, shortDrift \in BOOLEAN :
       evidence' = Plan(StartPortfolio(config, observed), prices,
                        shortTargets, shortDrift)
  /\ UNCHANGED <<instance, envelope, rounds_inside, config, run>>

Teardown ==
  /\ instance = "live"
  /\ instance' = "torn_down"
  /\ UNCHANGED <<envelope, rounds_inside, config, run, evidence>>

Next ==
  \/ \E e \in Envelope : Deploy(e)
  \/ EnrollRun(BareConfig)
  \/ envelope # None /\ EnrollRun(ConfigOf(envelope))
  \/ FinishRun
  \/ \E observed \in PartialFunctions(Mints, Balances) :
       \E prices \in [Mints -> OptionOf(Prices)] : EmitEvidence(observed, prices)
  \/ Teardown

Spec == Init /\ [][Next]_vars

-----------------------------------------------------------------------------
(* What is deployed passed the engine, what is planned trades only targets, *)
(* and no leg is empty.                                                     *)
RebalanceTypeOK ==
  /\ instance \in {None, "live", "torn_down"}
  /\ instance # None => envelope \in Envelope /\ EngineAccepts(envelope)
  /\ run \in {None, "pending", "completed"}
  /\ run # None => config \in {BareConfig, ConfigOf(envelope)}
  /\ evidence # None =>
       /\ run = "completed"
       /\ DOMAIN evidence.portfolio \subseteq Mints
       /\ \A m \in DOMAIN evidence.legs :
            /\ m \in DOMAIN config.target
            /\ evidence.legs[m].side \in {"BUY", "SELL"}
            /\ evidence.legs[m].size \in Nat \ {0}

(* The verdict on a plan is decided by six facts: the evidence is there,    *)
(* the envelope is a dry run, its sum is not one of those the engine lets   *)
(* through and the cat does not, its weights are above 0 and within its own *)
(* limit (the engine looks at neither), and the run saw a price for every   *)
(* mint. No plan the adapter makes under the deployed envelope, or under    *)
(* no rebalance config at all, fails a check of drift, legs or trades,      *)
(* wherever its floats are truncated.                                       *)
VerdictExplained ==
  Resolvable =>
    ((Verdict = "pass") <=>
       /\ evidence # None
       /\ envelope.dry_run
       /\ SumInside(envelope)
       /\ \A m \in DOMAIN envelope.target :
            envelope.target[m] # 0 /\ envelope.target[m] <= envelope.weight
       /\ Known(envelope, evidence))

(* No leg takes a mint past its share of the portfolio: a purchase stays at *)
(* or below the exact share, and a sale at most two base units below it,    *)
(* one for the share's fraction and one for the float.                      *)
NoOvershoot ==
  evidence # None =>
    LET value == ValueMap(evidence.portfolio, evidence.prices)
        total == SumOf(value)
    IN  \A m \in DOMAIN evidence.legs :
          LET leg   == evidence.legs[m]
              held  == ValueIn(value, m)
              share == total * config.target[m]
          IN  IF leg.side = "BUY"
              THEN 100 * (held + leg.size) <= share
              ELSE leg.size <= held /\ share < 100 * (held - leg.size + 2)

=============================================================================
