--------------------------- MODULE RebalanceProofs ---------------------------
(* A planned trade stays within its mint's share for every portfolio value, *)
(* weight, holding and limit, not only for the amounts a run of TLC takes.  *)
EXTENDS Rebalance, FiniteSetTheorems, TLAPS

-----------------------------------------------------------------------------
(* Sums. SumOf folds by a recursive function over the subsets of a domain.  *)
(* That the function exists and is the only one of its kind is shown        *)
(* through a smallest counterexample among those subsets, and what a sum    *)
(* of elements of a set closed under + is follows in the same way.          *)

LEMMA SmallestSubset ==
  ASSUME NEW D, IsFiniteSet(D), NEW Bad, Bad \subseteq SUBSET D, Bad # {}
  PROVE  \E s \in Bad : \A t \in SUBSET s : t # s => t \notin Bad
<1>1. Bad \subseteq FiniteSubsetsOf(D)
  BY FS_FiniteSubsetsOfFinite
<1>2. \E s \in Bad : \A t \in Bad : ~ (<<t, s>> \in StrictSubsetOrdering(D))
  <2>1. IsWellFoundedOn(StrictSubsetOrdering(D), FiniteSubsetsOf(D))
    BY FS_StrictSubsetOrderingWellFounded
  <2> QED BY <1>1, <2>1, WFMin
<1>3. PICK s \in Bad : \A t \in Bad : ~ (<<t, s>> \in StrictSubsetOrdering(D))
  BY <1>2
<1>4. ASSUME NEW t \in SUBSET s, t # s, t \in Bad PROVE FALSE
  <2>1. <<t, s>> \in StrictSubsetOrdering(D)
    BY <1>4 DEF StrictSubsetOrdering
  <2> QED BY <1>3, <1>4, <2>1
<1> QED BY <1>4

\* The element the fold takes next, and what is left.
Taken(s) == CHOOSE x \in s : TRUE

Rest(s) == s \ {Taken(s)}

\* g sums f over every subset of D.
Sums(f, D, g) ==
  g = [s \in SUBSET D |-> IF s = {} THEN 0 ELSE f[Taken(s)] + g[Rest(s)]]

LEMMA SumOfFolds ==
  ASSUME NEW f
  PROVE  SumOf(f) = (CHOOSE g : Sums(f, DOMAIN f, g))[DOMAIN f]
BY DEF SumOf, MapThenSumSet, MapThenFoldSet, Sums, Taken, Rest

LEMMA RestSmaller ==
  ASSUME NEW s, s # {}
  PROVE  Taken(s) \in s /\ Rest(s) \in SUBSET s /\ Rest(s) # s
BY DEF Taken, Rest

\* Two such functions agree wherever both are defined.
LEMMA SumsAgree ==
  ASSUME NEW f, NEW D, IsFiniteSet(D), NEW A \in SUBSET D, NEW B \in SUBSET D,
         NEW g, NEW h, Sums(f, A, g), Sums(f, B, h), NEW s \in SUBSET (A \cap B)
  PROVE  g[s] = h[s]
<1> DEFINE Bad == {t \in SUBSET (A \cap B) : g[t] # h[t]}
<1> SUFFICES ASSUME Bad # {} PROVE FALSE
  OBVIOUS
<1>1. Bad \subseteq SUBSET D
  OBVIOUS
<1>2. \E t \in Bad : \A u \in SUBSET t : u # t => u \notin Bad
  <2> HIDE DEF Bad
  <2> QED BY <1>1, SmallestSubset
<1>3. PICK t \in Bad : \A u \in SUBSET t : u # t => u \notin Bad
  BY <1>2
<1>4. /\ g[t] = IF t = {} THEN 0 ELSE f[Taken(t)] + g[Rest(t)]
      /\ h[t] = IF t = {} THEN 0 ELSE f[Taken(t)] + h[Rest(t)]
  BY DEF Sums
<1>5. t # {}
  BY <1>4
<1>6. Rest(t) \in SUBSET t /\ Rest(t) # t
  BY <1>5, RestSmaller
<1>7. g[Rest(t)] = h[Rest(t)]
  BY <1>3, <1>6
<1> QED BY <1>4, <1>7

\* What the fold makes of a subset: the value at its top of the function
\* over its subsets.
Folded(f, s) == (CHOOSE g : Sums(f, s, g))[s]

LEMMA SumsExist ==
  ASSUME NEW f, NEW D, IsFiniteSet(D)
  PROVE  \E g : Sums(f, D, g)
<1> DEFINE Bad == {A \in SUBSET D : ~ \E g : Sums(f, A, g)}
<1> SUFFICES ASSUME Bad # {} PROVE FALSE
  OBVIOUS
<1>1. \E A \in Bad : \A B \in SUBSET A : B # A => B \notin Bad
  <2>1. Bad \subseteq SUBSET D
    OBVIOUS
  <2> HIDE DEF Bad
  <2> QED BY <2>1, SmallestSubset
<1>2. PICK A \in Bad : \A B \in SUBSET A : B # A => B \notin Bad
  BY <1>1
<1>3. ASSUME NEW B \in SUBSET A, B # A
      PROVE  Sums(f, B, CHOOSE g : Sums(f, B, g))
  BY <1>2, <1>3
<1> DEFINE G == [s \in SUBSET A |-> IF s = {} THEN 0
                                    ELSE f[Taken(s)] + Folded(f, Rest(s))]
<1>4. ASSUME NEW t \in SUBSET A, t # A PROVE G[t] = Folded(f, t)
  <2> DEFINE h == CHOOSE g : Sums(f, t, g)
             k == CHOOSE g : Sums(f, Rest(t), g)
  <2>1. Sums(f, t, h)
    BY <1>3, <1>4
  <2>2. h[t] = IF t = {} THEN 0 ELSE f[Taken(t)] + h[Rest(t)]
    <3> HIDE DEF h
    <3> QED BY <2>1 DEF Sums
  <2>3. CASE t = {}
    BY <2>2, <2>3 DEF Folded
  <2>4. CASE t # {}
    <3>1. Rest(t) \in SUBSET t /\ Rest(t) # t
      BY <2>4, RestSmaller
    <3>2. Sums(f, Rest(t), k)
      BY <1>3, <3>1
    <3>3. h[Rest(t)] = k[Rest(t)]
      <4>1. t \in SUBSET D /\ Rest(t) \in SUBSET D /\ Rest(t) \in SUBSET (t \cap Rest(t))
        BY <3>1
      <4> HIDE DEF h, k
      <4> QED BY <2>1, <3>2, <4>1, SumsAgree
    <3> QED BY <2>2, <2>4, <3>3 DEF Folded
  <2> QED BY <2>3, <2>4
<1>5. ASSUME NEW s \in SUBSET A, s # {} PROVE G[Rest(s)] = Folded(f, Rest(s))
  <2>1. Rest(s) \in SUBSET A /\ Rest(s) # A
    BY <1>5, RestSmaller DEF Rest
  <2> HIDE DEF G
  <2> QED BY <1>4, <2>1
<1>6. Sums(f, A, G)
  <2>1. \A s \in SUBSET A :
          G[s] = IF s = {} THEN 0 ELSE f[Taken(s)] + G[Rest(s)]
    BY <1>5
  <2> QED BY <2>1 DEF Sums
<1> QED BY <1>2, <1>6

LEMMA SumOfIn ==
  ASSUME NEW f, IsFiniteSet(DOMAIN f), NEW T, 0 \in T,
         \A a, b \in T : a + b \in T, \A x \in DOMAIN f : f[x] \in T
  PROVE  SumOf(f) \in T
<1> DEFINE D == DOMAIN f
<1>1. PICK g : Sums(f, D, g) /\ SumOf(f) = g[D]
  BY SumsExist, SumOfFolds
<1> DEFINE Bad == {s \in SUBSET D : g[s] \notin T}
<1> SUFFICES ASSUME Bad # {} PROVE FALSE
  BY <1>1
<1>2. \E s \in Bad : \A t \in SUBSET s : t # s => t \notin Bad
  <2>1. Bad \subseteq SUBSET D
    OBVIOUS
  <2> HIDE DEF Bad
  <2> QED BY <2>1, SmallestSubset
<1>3. PICK s \in Bad : \A t \in SUBSET s : t # s => t \notin Bad
  BY <1>2
<1>4. g[s] = IF s = {} THEN 0 ELSE f[Taken(s)] + g[Rest(s)]
  BY <1>1 DEF Sums
<1>5. s # {}
  BY <1>4
<1>6. Taken(s) \in s /\ Rest(s) \in SUBSET s /\ Rest(s) # s
  BY <1>5, RestSmaller
<1>7. f[Taken(s)] \in T /\ g[Rest(s)] \in T
  BY <1>3, <1>6
<1> QED BY <1>4, <1>5, <1>7

(* int() of total * weight is the floor of the exact share or one below it. *)
LEMMA TruncatedShare ==
  ASSUME NEW share \in Nat, NEW short \in BOOLEAN
  PROVE  LET aim == Truncated(share, 100, short)
         IN  aim \in Nat /\ 100 * aim <= share /\ share < 100 * (aim + 2)
<1>1. /\ share \div 100 \in Nat /\ share % 100 \in 0 .. 99
      /\ share = 100 * (share \div 100) + (share % 100)
  BY SMT
<1>2. CASE short /\ share > 0 /\ share % 100 = 0
  <2>1. share \div 100 >= 1
    BY <1>1, <1>2
  <2> QED BY <1>1, <1>2, <2>1 DEF Truncated
<1>3. CASE ~(short /\ share > 0 /\ share % 100 = 0)
  <2>1. Truncated(share, 100, short) = share \div 100
    BY <1>3 DEF Truncated
  <2> QED BY <1>1, <2>1
<1> QED BY <1>2, <1>3

LEMMA TargetWithinShare ==
  ASSUME NEW total \in Nat, NEW weight \in Nat, NEW short \in BOOLEAN
  PROVE  LET aim == TargetValue(total, weight, short)
         IN  /\ aim \in Nat
             /\ 100 * aim <= total * weight
             /\ total * weight < 100 * (aim + 2)
<1>1. total * weight \in Nat
  BY SMT
<1> DEFINE share == total * weight
           falls == short /\ weight % 25 # 0
<1>2. falls \in BOOLEAN
  OBVIOUS
<1>3. TargetValue(total, weight, short) = Truncated(share, 100, falls)
  BY DEF TargetValue
<1> HIDE DEF share, falls
<1>4. LET aim == Truncated(share, 100, falls)
      IN  aim \in Nat /\ 100 * aim <= share /\ share < 100 * (aim + 2)
  <2>1. share \in Nat
    BY <1>1 DEF share
  <2> QED BY <1>2, <2>1, TruncatedShare
<1> QED BY <1>3, <1>4 DEF share

(* A leg is as large as the difference or the limit, whichever is less.     *)
LEMMA LegSize ==
  ASSUME NEW aim \in Nat, NEW held \in Nat, NEW limit \in Nat
  PROVE  LET size == Leg(aim, held, limit).size
         IN  size \in Nat /\ size <= limit /\ size <= Distance(aim, held)
<1> DEFINE d == Distance(aim, held)
<1>1. d \in Nat
  BY DEF Distance
<1>2. \E x \in {d, limit} : \A y \in {d, limit} : x <= y
  BY <1>1
<1>3. Min({d, limit}) \in {d, limit} /\ \A y \in {d, limit} : Min({d, limit}) <= y
  BY <1>2 DEF Min
<1> QED BY <1>1, <1>3 DEF Leg

(* For every value of the portfolio, weight, holding and limit, a purchase  *)
(* leaves its mint at or below its exact share and a sale at most two base  *)
(* units below, and neither is larger than the limit: what _compute_v0_plan *)
(* plans, whichever way its floats are truncated.                           *)
THEOREM LegWithinShare ==
  ASSUME NEW total \in Nat, NEW weight \in Nat, NEW short \in BOOLEAN,
         NEW held \in Nat, NEW limit \in Nat
  PROVE  LET leg   == Leg(TargetValue(total, weight, short), held, limit)
             share == total * weight
         IN  /\ leg.size \in Nat /\ leg.size <= limit
             /\ (leg.side = "BUY") => 100 * (held + leg.size) <= share
             /\ (leg.side = "SELL") =>
                  leg.size <= held /\ share < 100 * (held - leg.size + 2)
<1> DEFINE aim == TargetValue(total, weight, short)
           size == Leg(aim, held, limit).size
           share == total * weight
<1>1. aim \in Nat /\ 100 * aim <= share /\ share < 100 * (aim + 2)
  BY TargetWithinShare
<1>2. size \in Nat /\ size <= limit /\ size <= Distance(aim, held)
  BY <1>1, LegSize
<1>3. share \in Nat
  BY SMT
<1> HIDE DEF aim, size, share
<1>4. ASSUME aim > held PROVE 100 * (held + size) <= share
  BY <1>1, <1>2, <1>3, <1>4 DEF Distance
<1>5. ASSUME ~(aim > held)
      PROVE size <= held /\ share < 100 * (held - size + 2)
  BY <1>1, <1>2, <1>3, <1>5 DEF Distance
<1>6. Leg(aim, held, limit).side = IF aim > held THEN "BUY" ELSE "SELL"
  BY DEF Leg
<1>7. /\ (Leg(aim, held, limit).side = "BUY") => 100 * (held + size) <= share
      /\ (Leg(aim, held, limit).side = "SELL") =>
           size <= held /\ share < 100 * (held - size + 2)
  BY <1>4, <1>5, <1>6
<1> QED BY <1>2, <1>7 DEF aim, size, share

-----------------------------------------------------------------------------
(* The specification. Whatever the balances, the prices and the truncations *)
(* were, an artifact on record is a plan of the config: its drift reaches   *)
(* the threshold exactly if it has a leg, and every leg brings its mint     *)
(* towards an aim that is the share of the total.                           *)

ConfigOK ==
  /\ config.universe \subseteq Mints
  /\ \A m \in DOMAIN config.target : m \in Mints /\ config.target[m] \in Nat
  /\ config.threshold \in Nat \ {0}
  /\ config.trade \in Nat \ {0}

LegOf(leg, m, total, held) ==
  \E short \in BOOLEAN :
    LET aim == TargetValue(total, config.target[m], short)
    IN  aim # held /\ leg = Leg(aim, held, config.trade)

Planned(plan) ==
  LET value == ValueMap(plan.portfolio, plan.prices)
      total == SumOf(value)
  IN  /\ DOMAIN plan.portfolio \subseteq Mints
      /\ \A m \in DOMAIN plan.portfolio : value[m] \in Nat
      /\ total \in Nat
      /\ \A m \in DOMAIN plan.legs :
           m \in DOMAIN config.target /\ LegOf(plan.legs[m], m, total, ValueIn(value, m))
      /\ (plan.drift >= config.threshold) <=> (DOMAIN plan.legs # {})
      /\ plan.drift \in Nat
      /\ DOMAIN config.target = {} => plan.drift = 0

RebalanceInv ==
  /\ RebalanceTypeOK
  /\ run # None => instance # None
  /\ evidence # None => Planned(evidence)

LEMMA ConfigFits ==
  ASSUME RebalanceTypeOK, run # None, instance # None
  PROVE  ConfigOK
<1>1. envelope \in Envelope /\ EngineAccepts(envelope)
  BY DEF RebalanceTypeOK
<1>2. CASE config = BareConfig
  <2>1. DOMAIN config.target = {}
    BY <1>2 DEF BareConfig
  <2>2. config.universe = {} /\ config.threshold = 50 /\ config.trade = 1000000000
    BY <1>2 DEF BareConfig
  <2> QED BY <2>1, <2>2 DEF ConfigOK
<1>3. CASE config = ConfigOf(envelope)
  <2>1. /\ config.universe = envelope.universe /\ config.target = envelope.target
        /\ config.threshold = envelope.threshold /\ config.trade = envelope.trade
    BY <1>3 DEF ConfigOf
  <2>2. /\ envelope.universe \subseteq Mints
        /\ envelope.target \in PartialFunctions(Mints, Weights)
        /\ envelope.threshold \in Thresholds /\ envelope.trade \in TradeLimits
    BY <1>1 DEF Envelope
  <2>3. \A m \in DOMAIN envelope.target :
          m \in Mints /\ envelope.target[m] \in Weights
    BY <2>2 DEF PartialFunctions
  <2>4. envelope.threshold >= 1 /\ envelope.trade >= 1
    BY <1>1 DEF EngineAccepts, InRange
  <2> QED BY <2>1, <2>2, <2>3, <2>4, RebalanceAssumption DEF ConfigOK
<1> QED BY <1>2, <1>3 DEF RebalanceTypeOK

\* A float quotient's int() is a natural number, and 0 for 0.
LEMMA TruncatedType ==
  ASSUME NEW n \in Nat, NEW d \in Nat \ {0}, NEW short \in BOOLEAN
  PROVE  Truncated(n, d, short) \in Nat /\ Truncated(0, d, short) = 0
<1>1. /\ n \div d \in Nat /\ n % d \in 0 .. d - 1
      /\ n = d * (n \div d) + (n % d)
  BY SMT
<1>2. 0 \div d = 0
  BY SMT
<1>3. ASSUME n > 0, n % d = 0 PROVE n \div d >= 1
  <2> DEFINE q == n \div d
  <2>1. q \in Nat /\ n = d * q
    BY <1>1, <1>3
  <2>2. CASE q = 0
    BY <1>3, <2>1, <2>2
  <2> QED BY <2>1, <2>2
<1> QED BY <1>1, <1>2, <1>3 DEF Truncated

LEMMA ValuesType ==
  ASSUME ConfigOK, NEW observed \in PartialFunctions(Mints, Balances),
         NEW prices \in [Mints -> OptionOf(Prices)]
  PROVE  LET portfolio == StartPortfolio(config, observed)
             value == ValueMap(portfolio, prices)
         IN  /\ DOMAIN portfolio \subseteq Mints /\ DOMAIN value = DOMAIN portfolio
             /\ \A m \in DOMAIN portfolio : value[m] \in Nat
             /\ SumOf(value) \in Nat
<1> DEFINE portfolio == StartPortfolio(config, observed)
           value == ValueMap(portfolio, prices)
<1>1. DOMAIN observed \subseteq Mints /\ \A m \in DOMAIN observed : observed[m] \in Nat
  BY RebalanceAssumption DEF PartialFunctions
<1>2. /\ DOMAIN portfolio \subseteq Mints
      /\ \A m \in DOMAIN portfolio : portfolio[m] \in Nat
  BY <1>1 DEF ConfigOK, StartPortfolio
<1>3. DOMAIN value = DOMAIN portfolio
  BY DEF ValueMap
<1>4. ASSUME NEW m \in DOMAIN portfolio PROVE value[m] \in Nat
  <2>1. value[m] = Value(portfolio[m], prices[m])
    BY DEF ValueMap
  <2>2. prices[m] = None \/ prices[m] \in Nat
    BY <1>2, RebalanceAssumption DEF OptionOf
  <2>3. ASSUME NEW balance \in Nat, NEW price \in Nat
        PROVE  (balance * price) \div 1000000 \in Nat
    <3>1. balance * price \in Nat
      BY SMT
    <3> QED BY <3>1, SMT
  <2> QED BY <1>2, <2>1, <2>2, <2>3 DEF Value
<1>5. SumOf(value) \in Nat
  <2>1. IsFiniteSet(DOMAIN value)
    BY <1>2, <1>3, MintsAssumption, FS_Subset
  <2>2. \A m \in DOMAIN value : value[m] \in Nat
    BY <1>3, <1>4
  <2>3. \A a, b \in Nat : a + b \in Nat
    OBVIOUS
  <2> HIDE DEF value
  <2> QED BY <2>1, <2>2, <2>3, SumOfIn
<1> QED BY <1>2, <1>3, <1>4, <1>5

LEMMA ValueInNat ==
  ASSUME NEW value, \A m \in DOMAIN value : value[m] \in Nat, NEW m
  PROVE  ValueIn(value, m) \in Nat
BY DEF ValueIn

\* A drift that is not 0 has a target that is off its aim.
LEMMA DriftFacts ==
  ASSUME NEW aims, IsFiniteSet(DOMAIN aims), \A m \in DOMAIN aims : aims[m] \in Nat,
         NEW value, \A m \in DOMAIN value : value[m] \in Nat,
         NEW total \in Nat, NEW short \in BOOLEAN
  PROVE  LET drift == Drift(aims, value, total, short)
         IN  /\ drift \in Nat
             /\ drift # 0 => \E m \in DOMAIN aims : aims[m] # ValueIn(value, m)
<1> DEFINE off == [m \in DOMAIN aims |-> Distance(aims[m], ValueIn(value, m))]
           drift == Drift(aims, value, total, short)
<1>1. ASSUME NEW m \in DOMAIN aims
      PROVE  /\ off[m] \in Nat
             /\ aims[m] = ValueIn(value, m) => off[m] = 0
  <2>1. aims[m] \in Nat /\ ValueIn(value, m) \in Nat
    BY ValueInNat
  <2> QED BY <2>1 DEF Distance
<1>2. SumOf(off) \in Nat
  <2>1. \A m \in DOMAIN off : off[m] \in Nat
    BY <1>1
  <2>2. IsFiniteSet(DOMAIN off)
    OBVIOUS
  <2>3. \A a, b \in Nat : a + b \in Nat
    OBVIOUS
  <2> HIDE DEF off
  <2> QED BY <2>1, <2>2, <2>3, SumOfIn
<1>3. ASSUME \A m \in DOMAIN aims : aims[m] = ValueIn(value, m) PROVE SumOf(off) = 0
  <2>1. \A m \in DOMAIN off : off[m] \in {0}
    BY <1>1, <1>3
  <2>2. IsFiniteSet(DOMAIN off)
    OBVIOUS
  <2>3. \A a, b \in {0} : a + b \in {0}
    OBVIOUS
  <2>4. SumOf(off) \in {0}
    <3> HIDE DEF off
    <3> QED BY <2>1, <2>2, <2>3, SumOfIn
  <2> QED BY <2>4
<1>4. drift = IF total = 0 THEN 0 ELSE Truncated(SumOf(off) * 10000, total, short)
  BY DEF Drift
<1> HIDE DEF off, drift
<1>5. drift \in Nat /\ (SumOf(off) = 0 => drift = 0)
  <2>1. CASE total = 0
    BY <1>4, <2>1
  <2>2. CASE total # 0
    <3>1. SumOf(off) * 10000 \in Nat /\ (SumOf(off) = 0 => SumOf(off) * 10000 = 0)
      BY <1>2
    <3>2. total \in Nat \ {0}
      BY <2>2
    <3> QED BY <1>4, <2>2, <3>1, <3>2, TruncatedType
  <2> QED BY <2>1, <2>2
<1> QED BY <1>3, <1>5 DEF drift

LEMMA PlanIsPlanned ==
  ASSUME ConfigOK, NEW observed \in PartialFunctions(Mints, Balances),
         NEW prices \in [Mints -> OptionOf(Prices)],
         NEW shortTargets \in SUBSET DOMAIN config.target, NEW shortDrift \in BOOLEAN
  PROVE  Planned(Plan(StartPortfolio(config, observed), prices, shortTargets, shortDrift))
<1> DEFINE portfolio == StartPortfolio(config, observed)
           plan == Plan(portfolio, prices, shortTargets, shortDrift)
           value == ValueMap(portfolio, prices)
           total == SumOf(value)
           aims == [m \in DOMAIN config.target |->
                      TargetValue(total, config.target[m], m \in shortTargets)]
           drift == Drift(aims, value, total, shortDrift)
<1>1. /\ DOMAIN portfolio \subseteq Mints /\ DOMAIN value = DOMAIN portfolio
      /\ \A m \in DOMAIN portfolio : value[m] \in Nat
      /\ total \in Nat
  BY ValuesType
<1>2. /\ plan.portfolio = portfolio /\ plan.prices = prices
      /\ plan.drift = drift /\ plan.legs = Legs(config, aims, value, drift)
  BY DEF Plan
<1> HIDE DEF portfolio, plan, value, total, drift
<1>3. ASSUME NEW m \in DOMAIN aims
      PROVE  /\ m \in DOMAIN config.target /\ aims[m] \in Nat
             /\ \E short \in BOOLEAN :
                  aims[m] = TargetValue(total, config.target[m], short)
  <2>1. /\ m \in DOMAIN config.target
        /\ aims[m] = TargetValue(total, config.target[m], m \in shortTargets)
    OBVIOUS
  <2>2. \A short \in BOOLEAN : TargetValue(total, config.target[m], short) \in Nat
    BY <1>1, <2>1, TargetWithinShare DEF ConfigOK
  <2>3. (m \in shortTargets) \in BOOLEAN
    OBVIOUS
  <2>4. TargetValue(total, config.target[m], m \in shortTargets) \in Nat
    BY <2>2, <2>3
  <2>5. \E short \in BOOLEAN : aims[m] = TargetValue(total, config.target[m], short)
    <3> WITNESS (m \in shortTargets) \in BOOLEAN
    <3> QED BY <2>1
  <2> HIDE DEF aims
  <2> QED BY <2>1, <2>4, <2>5
<1>4. IsFiniteSet(DOMAIN aims)
  BY MintsAssumption, FS_Subset DEF ConfigOK
<1>5. DOMAIN aims = DOMAIN config.target
  OBVIOUS
<1> HIDE DEF aims
<1>6. drift \in Nat /\ (drift # 0 => \E m \in DOMAIN aims : aims[m] # ValueIn(value, m))
  <2>1. \A m \in DOMAIN value : value[m] \in Nat
    BY <1>1
  <2> QED BY <1>1, <1>3, <1>4, <2>1, DriftFacts DEF drift
<1>7. /\ DOMAIN plan.legs = {x \in DOMAIN aims :
                 drift >= config.threshold /\ aims[x] # ValueIn(value, x)}
      /\ \A m \in DOMAIN plan.legs :
           plan.legs[m] = Leg(aims[m], ValueIn(value, m), config.trade)
  BY <1>2 DEF Legs
<1>8. (plan.drift >= config.threshold) <=> (DOMAIN plan.legs # {})
  BY <1>2, <1>6, <1>7 DEF ConfigOK
<1>9. ASSUME NEW m \in DOMAIN plan.legs
      PROVE  /\ m \in DOMAIN config.target
             /\ LegOf(plan.legs[m], m, total, ValueIn(value, m))
  <2>1. /\ m \in DOMAIN aims /\ aims[m] # ValueIn(value, m)
        /\ plan.legs[m] = Leg(aims[m], ValueIn(value, m), config.trade)
    BY <1>7
  <2>2. PICK short \in BOOLEAN :
          aims[m] = TargetValue(total, config.target[m], short)
    BY <1>3, <2>1
  <2> QED BY <1>3, <2>1, <2>2 DEF LegOf
<1>10. ValueMap(plan.portfolio, plan.prices) = value
  BY <1>2 DEF value
<1> HIDE DEF plan
<1>11. plan.drift \in Nat /\ (DOMAIN config.target = {} => plan.drift = 0)
  BY <1>2, <1>5, <1>6
<1>12. Planned(plan)
  BY <1>1, <1>2, <1>8, <1>9, <1>10, <1>11 DEF Planned, total
<1> QED BY <1>12 DEF plan, portfolio

\* What is said of a leg of a planned artifact.
LEMMA LegFacts ==
  ASSUME ConfigOK, NEW plan, Planned(plan), NEW m \in DOMAIN plan.legs
  PROVE  LET leg   == plan.legs[m]
             value == ValueMap(plan.portfolio, plan.prices)
             held  == ValueIn(value, m)
             share == SumOf(value) * config.target[m]
         IN  /\ m \in DOMAIN config.target /\ leg.side \in {"BUY", "SELL"}
             /\ leg.size \in Nat \ {0} /\ leg.size <= config.trade
             /\ (leg.side = "BUY") => 100 * (held + leg.size) <= share
             /\ (leg.side = "SELL") =>
                  leg.size <= held /\ share < 100 * (held - leg.size + 2)
<1> DEFINE value == ValueMap(plan.portfolio, plan.prices)
           total == SumOf(value)
           held  == ValueIn(value, m)
           leg   == plan.legs[m]
<1>1. /\ \A x \in DOMAIN value : value[x] \in Nat
      /\ total \in Nat /\ m \in DOMAIN config.target /\ LegOf(leg, m, total, held)
  BY DEF Planned, ValueMap
<1>2. held \in Nat
  BY <1>1, ValueInNat
<1> HIDE DEF value, total, held, leg
<1>3. config.target[m] \in Nat /\ config.trade \in Nat \ {0}
  BY <1>1 DEF ConfigOK
<1>4. PICK short \in BOOLEAN :
        /\ TargetValue(total, config.target[m], short) # held
        /\ leg = Leg(TargetValue(total, config.target[m], short), held, config.trade)
  BY <1>1 DEF LegOf
<1> DEFINE aim == TargetValue(total, config.target[m], short)
<1>5. aim \in Nat
  BY <1>1, <1>3, TargetWithinShare
<1>6. /\ leg.size \in Nat /\ leg.size <= config.trade
      /\ (leg.side = "BUY") => 100 * (held + leg.size) <= total * config.target[m]
      /\ (leg.side = "SELL") =>
           /\ leg.size <= held
           /\ total * config.target[m] < 100 * (held - leg.size + 2)
  <2>1. LET l     == Leg(TargetValue(total, config.target[m], short), held, config.trade)
            share == total * config.target[m]
        IN  /\ l.size \in Nat /\ l.size <= config.trade
            /\ (l.side = "BUY") => 100 * (held + l.size) <= share
            /\ (l.side = "SELL") =>
                 l.size <= held /\ share < 100 * (held - l.size + 2)
    BY <1>1, <1>2, <1>3, LegWithinShare, ZenonT(30)
  <2> QED BY <1>4, <2>1
<1> HIDE DEF aim
<1>7. leg.side \in {"BUY", "SELL"} /\ leg.size # 0
  <2>1. leg = Leg(aim, held, config.trade) /\ aim # held
    BY <1>4 DEF aim
  <2> DEFINE d == Distance(aim, held)
  <2>2. d \in Nat \ {0}
    BY <1>2, <1>5, <2>1 DEF Distance
  <2> HIDE DEF d
  <2>3. \E x \in {d, config.trade} : \A y \in {d, config.trade} : x <= y
    BY <1>3, <2>2
  <2>4. Min({d, config.trade}) \in {d, config.trade}
    BY <2>3 DEF Min
  <2>5. leg.size = Min({d, config.trade})
    BY <2>1 DEF Leg, d
  <2>6. leg.side \in {"BUY", "SELL"}
    BY <2>1 DEF Leg
  <2> QED BY <1>3, <2>2, <2>4, <2>5, <2>6
<1> QED BY <1>1, <1>6, <1>7 DEF value, total, held, leg

LEMMA InitRebalanceInv ==
  Init => RebalanceInv
BY StatusAssumption DEF Init, RebalanceInv, RebalanceTypeOK

\* Planned reads no variable but the config.
LEMMA PlannedKept ==
  ASSUME config' = config, NEW plan, Planned(plan)
  PROVE  Planned(plan)'
BY DEF Planned, LegOf

LEMMA StepRebalanceInv ==
  RebalanceInv /\ [Next]_vars => RebalanceInv'
<1> SUFFICES ASSUME RebalanceInv, [Next]_vars PROVE RebalanceInv'
  OBVIOUS
<1> USE DEF RebalanceInv
<1>1. ASSUME NEW e \in Envelope, Deploy(e) PROVE RebalanceInv'
  <2>1. run = None /\ evidence = None
    BY <1>1, StatusAssumption DEF Deploy, RebalanceTypeOK
  <2> QED BY <1>1, <2>1 DEF Deploy, RebalanceTypeOK
<1>2. ASSUME \/ EnrollRun(BareConfig)
             \/ envelope # None /\ EnrollRun(ConfigOf(envelope))
      PROVE  RebalanceInv'
  <2>1. /\ envelope' = envelope /\ run' = "pending" /\ evidence' = evidence
        /\ instance' = instance /\ instance = "live" /\ run = None
        /\ config' \in {BareConfig, ConfigOf(envelope)}
    BY <1>2 DEF EnrollRun
  <2>2. evidence = None
    BY <2>1, StatusAssumption DEF RebalanceTypeOK
  <2>3. EngineAccepts(envelope)' <=> EngineAccepts(envelope)
    BY <2>1 DEF EngineAccepts
  <2>4. config' \in {BareConfig, ConfigOf(envelope)}'
    BY <2>1
  <2> QED BY <2>1, <2>2, <2>3, <2>4, StatusAssumption DEF RebalanceTypeOK
<1>3. CASE FinishRun
  <2>1. evidence = None /\ evidence' = None
    BY <1>3 DEF FinishRun, RebalanceTypeOK
  <2> QED BY <1>3, <2>1, StatusAssumption DEF FinishRun, RebalanceTypeOK
<1>4. ASSUME NEW observed \in PartialFunctions(Mints, Balances),
             NEW prices \in [Mints -> OptionOf(Prices)],
             EmitEvidence(observed, prices)
      PROVE  RebalanceInv'
  <2>1. ConfigOK
    BY <1>4, ConfigFits, StatusAssumption DEF EmitEvidence
  <2>2. PICK shortTargets \in SUBSET DOMAIN config.target, shortDrift \in BOOLEAN :
          evidence' = Plan(StartPortfolio(config, observed), prices,
                           shortTargets, shortDrift)
    BY <1>4 DEF EmitEvidence
  <2>3. Planned(evidence')
    BY <2>1, <2>2, PlanIsPlanned
  <2>4. UNCHANGED <<instance, envelope, rounds_inside, config, run>> /\ run = "completed"
    BY <1>4 DEF EmitEvidence
  <2>5. DOMAIN evidence'.portfolio \subseteq Mints
    BY <2>3 DEF Planned
  <2>6. \A m \in DOMAIN evidence'.legs :
          /\ m \in DOMAIN config.target /\ evidence'.legs[m].side \in {"BUY", "SELL"}
          /\ evidence'.legs[m].size \in Nat \ {0}
    BY <2>1, <2>3, LegFacts
  <2>7. RebalanceTypeOK'
    BY <2>4, <2>5, <2>6 DEF RebalanceTypeOK
  <2>8. Planned(evidence)'
    BY <2>3, <2>4 DEF Planned, LegOf
  <2> QED BY <2>4, <2>7, <2>8
<1>5. CASE Teardown
  <2>1. UNCHANGED <<envelope, rounds_inside, config, run, evidence>>
    BY <1>5 DEF Teardown
  <2>2. RebalanceTypeOK'
    BY <1>5, <2>1, StatusAssumption DEF Teardown, RebalanceTypeOK
  <2>3. evidence # None => Planned(evidence)'
    BY <2>1 DEF Planned, LegOf
  <2> QED BY <1>5, <2>1, <2>2, <2>3, StatusAssumption DEF Teardown
<1>6. CASE UNCHANGED vars
  BY <1>6 DEF vars, RebalanceTypeOK, Planned, LegOf
<1> QED BY <1>1, <1>2, <1>3, <1>4, <1>5, <1>6 DEF Next

\* The inductive invariant, of every reachable state.
THEOREM RebalanceInvariant == Spec => []RebalanceInv
<1> QED BY InitRebalanceInv, StepRebalanceInv, PTL DEF Spec

\* What is deployed passed the engine, what is planned trades only targets
\* of the config, and no leg is empty, whatever the floats did.
THEOREM RebalanceTypeCorrect == Spec => []RebalanceTypeOK
<1>1. RebalanceInv => RebalanceTypeOK
  BY DEF RebalanceInv
<1> QED BY <1>1, RebalanceInvariant, PTL

\* No leg of an artifact takes its mint past its share of the portfolio:
\* _compute_v0_plan, for every set of mints, every amount and every price.
THEOREM NeverOvershoots == Spec => []NoOvershoot
<1>1. RebalanceInv => NoOvershoot
  <2> SUFFICES ASSUME RebalanceInv, evidence # None, NEW m \in DOMAIN evidence.legs
               PROVE  LET value == ValueMap(evidence.portfolio, evidence.prices)
                          leg   == evidence.legs[m]
                          held  == ValueIn(value, m)
                          share == SumOf(value) * config.target[m]
                      IN  IF leg.side = "BUY"
                          THEN 100 * (held + leg.size) <= share
                          ELSE leg.size <= held /\ share < 100 * (held - leg.size + 2)
    BY DEF NoOvershoot
  <2>1. ConfigOK
    BY ConfigFits, StatusAssumption DEF RebalanceInv, RebalanceTypeOK
  <2>2. Planned(evidence)
    BY DEF RebalanceInv
  <2> DEFINE value == ValueMap(evidence.portfolio, evidence.prices)
             leg   == evidence.legs[m]
             held  == ValueIn(value, m)
             share == SumOf(value) * config.target[m]
  <2>3. /\ leg.side \in {"BUY", "SELL"}
        /\ (leg.side = "BUY") => 100 * (held + leg.size) <= share
        /\ (leg.side = "SELL") => leg.size <= held /\ share < 100 * (held - leg.size + 2)
    BY <2>1, <2>2, LegFacts
  <2> HIDE DEF value, leg, held, share
  <2>4. IF leg.side = "BUY" THEN 100 * (held + leg.size) <= share
        ELSE leg.size <= held /\ share < 100 * (held - leg.size + 2)
    BY <2>3
  <2> QED BY <2>4 DEF value, leg, held, share
<1> QED BY <1>1, RebalanceInvariant, PTL

\* The cat's checks of drift, legs and trades hold of every plan the adapter
\* makes, under the deployed envelope's config and under a bare one.
LEMMA PlanPasses ==
  ASSUME RebalanceInv, run = "completed", evidence # None
  PROVE  ThresholdCheck(envelope, evidence) /\ TradeCheck(envelope, evidence)
<1>1. /\ envelope \in Envelope /\ EngineAccepts(envelope)
      /\ config \in {BareConfig, ConfigOf(envelope)}
      /\ ConfigOK /\ Planned(evidence)
  BY ConfigFits, StatusAssumption DEF RebalanceInv, RebalanceTypeOK
<1>2. InRange(envelope.threshold, 1, 5000) /\ envelope.threshold \in Nat
  BY <1>1, RebalanceAssumption DEF EngineAccepts, Envelope
<1>3. CASE config = BareConfig
  <2>1. DOMAIN config.target = {}
    BY <1>3 DEF BareConfig
  <2>2. evidence.drift = 0 /\ DOMAIN evidence.legs = {}
    BY <1>1, <2>1 DEF Planned
  <2>3. TradeCheck(envelope, evidence)
    BY <2>2 DEF TradeCheck
  <2>4. ~(evidence.drift >= envelope.threshold)
    BY <1>2, <2>2 DEF InRange
  <2> QED BY <1>2, <2>2, <2>3, <2>4 DEF ThresholdCheck
<1>4. CASE config = ConfigOf(envelope)
  <2>1. config.threshold = envelope.threshold /\ config.trade = envelope.trade
    BY <1>4 DEF ConfigOf
  <2>2. (evidence.drift >= envelope.threshold) <=> (DOMAIN evidence.legs # {})
    BY <1>1, <2>1 DEF Planned
  <2>3. \A m \in DOMAIN evidence.legs : evidence.legs[m].size <= envelope.trade
    BY <1>1, <2>1, LegFacts
  <2> QED BY <1>2, <2>2, <2>3 DEF ThresholdCheck, TradeCheck
<1> QED BY <1>1, <1>3, <1>4

\* The verdict on a finished run of a live instance is decided by whether the
\* evidence is there and by the facts of the envelope that the engine does
\* not look at: no plan of the adapter's fails rebalance_policy's checks of
\* drift, legs or trades.
THEOREM VerdictHasReasons == Spec => []VerdictExplained
<1>1. RebalanceInv => VerdictExplained
  <2> SUFFICES ASSUME RebalanceInv, Resolvable
               PROVE  (Verdict = "pass") <=>
                        /\ evidence # None
                        /\ envelope.dry_run
                        /\ SumInside(envelope)
                        /\ \A m \in DOMAIN envelope.target :
                             /\ envelope.target[m] # 0
                             /\ envelope.target[m] <= envelope.weight
                        /\ Known(envelope, evidence)
    BY DEF VerdictExplained
  <2>1. CASE evidence = None
    <3>1. Verdict = "fail"
      BY <2>1 DEF Verdict
    <3> QED BY <2>1, <3>1
  <2>2. CASE evidence # None
    <3>1. (Verdict = "pass") <=> PassesChecks(envelope, evidence)
      BY <2>2 DEF Verdict
    <3>2. envelope \in Envelope /\ EngineAccepts(envelope)
      BY StatusAssumption DEF RebalanceInv, RebalanceTypeOK, Resolvable
    <3>3. ThresholdCheck(envelope, evidence) /\ TradeCheck(envelope, evidence)
      BY <2>2, PlanPasses DEF Resolvable
    <3>4. DOMAIN envelope.target \subseteq envelope.universe
      BY <3>2 DEF EngineAccepts
    <3>5. \A m \in DOMAIN envelope.target : envelope.target[m] \in Nat
      BY <3>2, RebalanceAssumption DEF Envelope, PartialFunctions
    <3>6. WeightCheck(envelope) <=>
            \A m \in DOMAIN envelope.target :
              envelope.target[m] # 0 /\ envelope.target[m] <= envelope.weight
      BY <3>5 DEF WeightCheck, InRange
    <3> QED BY <2>2, <3>1, <3>3, <3>4, <3>6, Zenon DEF PassesChecks
  <2> QED BY <2>1, <2>2
<1> QED BY <1>1, RebalanceInvariant, PTL
=============================================================================
