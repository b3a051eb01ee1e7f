----------------------------- MODULE RunnerProofs -----------------------------
(***************************************************************************)
(* The safety invariants of Runner, for any set of mints, any budgets and   *)
(* any limits of a quote's age.                                             *)
(***************************************************************************)
EXTENDS Runner, FiniteSetTheorems, TLAPS

InLoop == LoopSteps \cup {"start"}
BeforeVerdict == InLoop \cup {"flatten", "flattening", "finalize"}

(* A turn that is past the budget check has iterations left, and the action *)
(* it deals with.                                                           *)
Turns ==
  /\ pc \in {"decide", "validate", "execute"} => iterations_used < IterationBudget
  /\ pc \in {"validate", "execute"} => action \in Action

(* The three counts of events agree, unless the process died.               *)
CountsAgree ==
  /\ pc \in InLoop \cup {"flatten"} => flattened = 0
  /\ pc # "crashed" =>
       Len(events) = sequence_no + (IF pc = "flattening" THEN flattened ELSE 0)

Validated(m) ==
  \E k \in DOMAIN events :
    events[k].type = "validate" /\ events[k].ok /\ events[k].mint = m

(* What is about to be bought or sold has passed the validator.             *)
TradesValidated ==
  /\ \A m \in toFlatten : Validated(m)
  /\ pc = "execute" => Validated(MintOf(action))

(* A run finishes once, and leaves the loop with it.                        *)
FinishesOnce ==
  /\ pc \in InLoop => \A k \in DOMAIN events : events[k].type # "finish"
  /\ \A j, k \in DOMAIN events :
       events[j].type = "finish" /\ events[k].type = "finish" => j = k

(* A log is the events of a list up to its finalize event.                  *)
LogOf(log, list) ==
  /\ log = {e \in Hash(list) : IsEvidence(e)}
  /\ \E e \in log :
       /\ e.type = "finalize"
       /\ \A other \in log : other.sequence_no <= e.sequence_no

(* Which of memory, chain and row have the verdict, and that it is one.     *)
VerdictsAgree ==
  /\ pc \in BeforeVerdict => completion = None
  /\ pc \in BeforeVerdict \cup {"onchain"} =>
       chain.status = "pending" /\ \A k \in DOMAIN events : IsEvidence(events[k])
  /\ pc \in {"onchain", "commit"} => LogOf(run_log_hash, events)
  /\ pc \in BeforeVerdict \cup {"onchain", "commit"} => row.status # "completed"
  /\ pc \in {"emit_evidence", "done"} => row.status = "completed"
  /\ chain.status = "completed" =>
       chain.log = run_log_hash /\ chain.completion = completion
  /\ row.status = "completed" =>
       /\ row.log = run_log_hash /\ row.completion = completion
       /\ LogOf(row.log, row.events)
  /\ evidence => row.status = "completed"

TypeInv == RunnerTypeOK /\ Turns
NumberInv == EventsNumbered /\ CountsAgree
TradeInv == OnlyValidatedBuys /\ TradesValidated
VerdictInv == CompleteIsEarned /\ FinishesOnce /\ VerdictsAgree

IInv == TypeInv /\ NumberInv /\ TradeInv /\ VerdictInv

-----------------------------------------------------------------------------
(* Steps and events.                                                        *)

LEMMA Persisted ==
  ASSUME events \in Seq(Event),
         NEW number \in Nat, NEW type \in EventTypes, NEW ok \in BOOLEAN,
         NEW mint \in OptionOf(Mints),
         Persist(number, type, ok, mint)
  PROVE  /\ events' \in Seq(Event)
         /\ Len(events') = Len(events) + 1
         /\ \A k \in 1..Len(events) : events'[k] = events[k]
         /\ events'[Len(events) + 1] =
              [sequence_no |-> number, type |-> type, ok |-> ok, mint |-> mint]
BY DEF Persist, Event

LEMMA MintTyped ==
  ASSUME NEW a \in Action
  PROVE  MintOf(a) \in OptionOf(Mints)
BY DEF MintOf, Action, Quote, OptionOf

LEMMA StepNames ==
  /\ LoopSteps \subseteq Steps
  /\ {"start", "flatten", "flattening", "finalize", "onchain", "commit",
      "emit_evidence", "done", "crashed"} \subseteq Steps
  /\ LoopSteps = {"observe", "budget", "decide", "validate", "execute"}
  /\ AfterLoop \in {"flatten", "finalize"}
  /\ \A valid \in BOOLEAN :
       AfterValidation(valid) = IF valid THEN "execute" ELSE "observe"
BY DEF LoopSteps, Steps, AfterLoop, AfterValidation

(* A flushed event is neither changed nor taken back.                       *)
Grows ==
  /\ events' \in Seq(Event)
  /\ Len(events) <= Len(events')
  /\ \A k \in 1..Len(events) : events'[k] = events[k]

LEMMA EmitTyped ==
  ASSUME RunnerTypeOK,
         NEW type \in EventTypes, NEW ok \in BOOLEAN, NEW mint \in OptionOf(Mints),
         NEW next \in Steps,
         Emit(type, ok, mint, next)
  PROVE  /\ Grows
         /\ Len(events') = Len(events) + 1
         /\ events'[Len(events) + 1] =
              [sequence_no |-> sequence_no, type |-> type, ok |-> ok, mint |-> mint]
         /\ sequence_no' \in Nat /\ sequence_no' = sequence_no + 1
         /\ pc' \in Steps /\ pc' = next
         /\ UNCHANGED <<adapter, swap_service, flattened>>
<1>1. /\ events \in Seq(Event) /\ sequence_no \in Nat
      /\ Persist(sequence_no, type, ok, mint)
      /\ sequence_no' = sequence_no + 1 /\ pc' = next
      /\ UNCHANGED <<adapter, swap_service, flattened>>
  BY DEF RunnerTypeOK, Emit, setup
<1>2. /\ events' \in Seq(Event) /\ Len(events') = Len(events) + 1
      /\ \A k \in 1..Len(events) : events'[k] = events[k]
      /\ events'[Len(events) + 1] =
           [sequence_no |-> sequence_no, type |-> type, ok |-> ok, mint |-> mint]
  BY <1>1, Persisted
<1>3. Len(events) <= Len(events')
  BY <1>1, <1>2
<1> QED BY <1>1, <1>2, <1>3 DEF Grows

LEMMA FinishEvents ==
  ASSUME RunnerTypeOK, NEW d, DecideFinish(d)
  PROVE  /\ Grows
         /\ Len(events') = Len(events) + 2
         /\ events'[Len(events) + 1] =
              [sequence_no |-> sequence_no, type |-> "decide", ok |-> TRUE, mint |-> None]
         /\ events'[Len(events) + 2] =
              [sequence_no |-> sequence_no + 1, type |-> "finish", ok |-> TRUE, mint |-> None]
<1> DEFINE e1 == [sequence_no |-> sequence_no, type |-> "decide", ok |-> TRUE, mint |-> None]
           e2 == [sequence_no |-> sequence_no + 1, type |-> "finish", ok |-> TRUE, mint |-> None]
<1>1. events \in Seq(Event) /\ sequence_no \in Nat
  BY DEF RunnerTypeOK
<1>2. e1 \in Event /\ e2 \in Event
  BY <1>1 DEF Event, EventTypes, OptionOf
<1>3. events' = events \o <<e1, e2>>
  BY DEF DecideFinish
<1> HIDE DEF e1, e2
<1>4. /\ events' \in Seq(Event) /\ Len(events') = Len(events) + 2
      /\ \A k \in 1..Len(events) : events'[k] = events[k]
      /\ events'[Len(events) + 1] = e1 /\ events'[Len(events) + 2] = e2
  BY <1>1, <1>2, <1>3
<1>5. Len(events) <= Len(events')
  BY <1>1, <1>4
<1> QED BY <1>4, <1>5 DEF Grows, e1, e2

LEMMA TypeStep ==
  ASSUME TypeInv, [Next]_vars
  PROVE  TypeInv' /\ Grows
<1> USE BudgetAssumption DEF TypeInv, Turns
<1>a. events \in Seq(Event) /\ RunnerTypeOK
  BY DEF RunnerTypeOK
<1>names. /\ {"observe", "budget", "decide", "validate", "execute", "start", "flatten",
              "flattening", "finalize", "onchain", "commit", "emit_evidence", "done",
              "crashed"} \subseteq Steps
          /\ AfterLoop \in {"flatten", "finalize"}
          /\ {TRUE, FALSE} = BOOLEAN
  BY StepNames
<1>types. /\ EventTypes = {"observe", "budget_exceeded", "error", "decide", "finish",
                "validate", "execute", "flatten", "finalize", "onchain_finalize",
                "onchain_error"}
          /\ None \in OptionOf(Mints) /\ Mints \subseteq OptionOf(Mints)
  BY DEF EventTypes, OptionOf
<1>1. ASSUME Start PROVE TypeInv' /\ Grows
  BY <1>1, <1>a, <1>names DEF Start, RunnerTypeOK, Grows, setup, memory, wallet, record
<1>2. ASSUME Observe PROVE TypeInv' /\ Grows
  <2>1. Emit("observe", TRUE, None, "budget") /\ UNCHANGED <<memory, wallet, record>>
    BY <1>2 DEF Observe
  <2>2. /\ Grows /\ sequence_no' \in Nat /\ pc' = "budget"
        /\ UNCHANGED <<adapter, swap_service, flattened>>
    BY <2>1, <1>a, <1>names, <1>types, EmitTyped
  <2> QED BY <2>1, <2>2, <1>names DEF RunnerTypeOK, Grows, memory, wallet, record
<1>3. ASSUME CheckBudget PROVE TypeInv' /\ Grows
  <2>1. CASE Emit("budget_exceeded", TRUE, None, AfterLoop)
    <3>1. UNCHANGED <<memory, wallet, record>>
      BY <1>3 DEF CheckBudget
    <3>2. /\ Grows /\ sequence_no' \in Nat /\ pc' = AfterLoop
          /\ UNCHANGED <<adapter, swap_service, flattened>>
      BY <2>1, <1>a, <1>names, <1>types, EmitTyped
    <3> QED BY <3>1, <3>2, <1>names DEF RunnerTypeOK, Grows, memory, wallet, record
  <2>2. CASE ~OutOfIterations /\ pc' = "decide"
             /\ UNCHANGED <<setup, sequence_no, flattened, events>>
    BY <1>3, <2>2, <1>a, <1>names
    DEF CheckBudget, OutOfIterations, RunnerTypeOK, Grows, setup, memory, wallet, record
  <2> QED BY <1>3, <2>1, <2>2 DEF CheckBudget
<1>4. ASSUME NEW d, DecideFails(d) PROVE TypeInv' /\ Grows
  <2>1. Emit("error", TRUE, None, AfterLoop) /\ UNCHANGED <<memory, wallet, record>>
    BY <1>4 DEF DecideFails
  <2>2. /\ Grows /\ sequence_no' \in Nat /\ pc' = AfterLoop
        /\ UNCHANGED <<adapter, swap_service, flattened>>
    BY <2>1, <1>a, <1>names, <1>types, EmitTyped
  <2> QED BY <2>1, <2>2, <1>names DEF RunnerTypeOK, Grows, memory, wallet, record
<1>5. ASSUME NEW d, Decide(d) PROVE TypeInv' /\ Grows
  <2>1. /\ pc = "decide" /\ d \in Action /\ action' = d
        /\ Emit("decide", TRUE, MintOf(d), "validate")
        /\ UNCHANGED <<iterations_used, toFlatten, completion, run_log_hash, wallet, record>>
    BY <1>5 DEF Decide
  <2>2. /\ Grows /\ sequence_no' \in Nat /\ pc' = "validate"
        /\ UNCHANGED <<adapter, swap_service, flattened>>
    BY <2>1, <1>a, <1>names, <1>types, EmitTyped, MintTyped
  <2> QED BY <2>1, <2>2, <1>names DEF RunnerTypeOK, OptionOf, Grows, wallet, record
<1>6. ASSUME NEW d, DecideFinish(d) PROVE TypeInv' /\ Grows
  <2>1. Grows
    BY <1>6, <1>a, FinishEvents
  <2> QED BY <1>6, <2>1, <1>names
      DEF DecideFinish, RunnerTypeOK, Grows, setup, memory, wallet, record
<1>7. ASSUME FatalError PROVE TypeInv' /\ Grows
  <2>1. /\ Emit("error", FALSE, None, AfterLoop) /\ action' = None
        /\ UNCHANGED <<iterations_used, toFlatten, completion, run_log_hash, wallet, record>>
    BY <1>7 DEF FatalError
  <2>2. /\ Grows /\ sequence_no' \in Nat /\ pc' = AfterLoop
        /\ UNCHANGED <<adapter, swap_service, flattened>>
    BY <2>1, <1>a, <1>names, <1>types, EmitTyped
  <2> QED BY <2>1, <2>2, <1>names DEF RunnerTypeOK, OptionOf, Grows, wallet, record
<1>8. ASSUME NEW b \in BOOLEAN, Validate(b) PROVE TypeInv' /\ Grows
  <2>1. /\ pc = "validate" /\ action \in Action
        /\ Emit("validate", b, MintOf(action), AfterValidation(b))
        /\ iterations_used' = UsedAfterValidation(b)
        /\ action' = IF pc' = "execute" THEN action ELSE None
        /\ UNCHANGED <<toFlatten, completion, run_log_hash, wallet, record>>
    BY <1>8 DEF Validate
  <2>2. AfterValidation(b) = (IF b THEN "execute" ELSE "observe") /\ AfterValidation(b) \in Steps
    BY StepNames, <1>names
  <2>3. /\ Grows /\ sequence_no' \in Nat /\ pc' = AfterValidation(b)
        /\ UNCHANGED <<adapter, swap_service, flattened>>
    BY <2>1, <2>2, <1>a, <1>types, EmitTyped, MintTyped
  <2>4. /\ iterations_used \in 0..IterationBudget /\ iterations_used < IterationBudget
        /\ iterations_used' \in 0..IterationBudget
        /\ b => iterations_used' = iterations_used
    BY <2>1 DEF RunnerTypeOK, UsedAfterValidation
  <2>5. action' \in OptionOf(Action) /\ (pc' = "execute" => action' \in Action)
    BY <2>1 DEF OptionOf
  <2>6. RunnerTypeOK'
    BY <2>1, <2>2, <2>3, <2>4, <2>5 DEF RunnerTypeOK, Grows, wallet, record
  <2> QED BY <2>2, <2>3, <2>4, <2>5, <2>6
<1>9. ASSUME NEW b \in BOOLEAN, Execute(b) PROVE TypeInv' /\ Grows
  <2>1. /\ pc = "execute" /\ action \in Action
        /\ Emit("execute", b, MintOf(action), "observe")
        /\ iterations_used' = iterations_used + 1
        /\ action' = None
        /\ UNCHANGED <<toFlatten, completion, run_log_hash, held, leftOver, record>>
    BY <1>9 DEF Execute
  <2>2. /\ Grows /\ sequence_no' \in Nat /\ pc' = "observe"
        /\ UNCHANGED <<adapter, swap_service, flattened>>
    BY <2>1, <1>a, <1>names, <1>types, EmitTyped, MintTyped
  <2>3. sent' \subseteq Transaction
    <3>1. ASSUME Prepares(action.quote)
          PROVE  [mint |-> action.quote.mint, buys |-> TRUE,
                  stale |-> ~Fresh(action.quote, 0)] \in Transaction
      <4>1. action.quote # None
        BY <3>1 DEF Prepares, OrcaPrepares, JupiterPrepares, Fresh
      <4>2. action.quote.mint \in Mints
        BY <2>1, <4>1 DEF Action, Quote, OptionOf
      <4>3. (~Fresh(action.quote, 0)) \in BOOLEAN
        BY DEF Fresh
      <4> QED BY <4>2, <4>3 DEF Transaction
    <3>2. sent \subseteq Transaction
      BY DEF RunnerTypeOK
    <3> QED BY <1>9, <3>1, <3>2 DEF Execute, Send
  <2>4. iterations_used' \in 0..IterationBudget
    BY <2>1 DEF RunnerTypeOK
  <2> QED BY <2>1, <2>2, <2>3, <2>4, <1>names DEF RunnerTypeOK, OptionOf, Grows, record
<1>10. ASSUME NEW balances \in SUBSET Mints, FlattenRead(balances) PROVE TypeInv' /\ Grows
  BY <1>10, <1>a, <1>names DEF FlattenRead, RunnerTypeOK, Grows, setup, wallet, record
<1>11. ASSUME FlattenReadFails PROVE TypeInv' /\ Grows
  <2>1. Emit("flatten", FALSE, None, "finalize") /\ UNCHANGED <<memory, wallet, record>>
    BY <1>11 DEF FlattenReadFails
  <2>2. /\ Grows /\ sequence_no' \in Nat /\ pc' = "finalize"
        /\ UNCHANGED <<adapter, swap_service, flattened>>
    BY <2>1, <1>a, <1>names, <1>types, EmitTyped
  <2> QED BY <2>1, <2>2, <1>names DEF RunnerTypeOK, Grows, memory, wallet, record
<1>12. ASSUME FlattenEnds PROVE TypeInv' /\ Grows
  BY <1>12, <1>a, <1>names
  DEF FlattenEnds, FlattenCount, RunnerTypeOK, Grows, setup, memory, wallet, record
<1>13. ASSUME NEW m \in Mints, NEW success \in BOOLEAN, Flatten(m, success)
       PROVE  TypeInv' /\ Grows
  <2>1. /\ toFlatten' = toFlatten \ {m}
        /\ Persist(sequence_no + flattened, "flatten", success, m)
        /\ flattened' = flattened + 1
        /\ pc = "flattening"
        /\ UNCHANGED <<setup, pc, sequence_no, action, iterations_used, completion,
                       run_log_hash, held, leftOver, record>>
    BY <1>13 DEF Flatten
  <2>2. sequence_no + flattened \in Nat
    BY DEF RunnerTypeOK
  <2>3. /\ events' \in Seq(Event) /\ Len(events') = Len(events) + 1
        /\ \A k \in 1..Len(events) : events'[k] = events[k]
    BY <2>1, <2>2, <1>a, <1>types, Persisted
  <2>4. Grows
    BY <2>3, <1>a DEF Grows
  <2>5. sent' \subseteq Transaction
    <3>1. [mint |-> m, buys |-> FALSE, stale |-> FALSE] \in Transaction
      BY DEF Transaction
    <3>2. sent \subseteq Transaction
      BY DEF RunnerTypeOK
    <3> QED BY <1>13, <3>1, <3>2 DEF Flatten, Send
  <2> QED BY <2>1, <2>4, <2>5 DEF RunnerTypeOK, Grows, setup, record
<1>14. ASSUME NEW balances \in SUBSET Mints, Finalize(balances) PROVE TypeInv' /\ Grows
  <2>1. /\ leftOver' = held
        /\ completion' = Evaluate(events, balances)
        /\ Emit("finalize", TRUE, None, "onchain")
        /\ UNCHANGED <<action, iterations_used, toFlatten, held, sent, record>>
    BY <1>14 DEF Finalize
  <2>2. /\ Grows /\ sequence_no' \in Nat /\ pc' = "onchain"
        /\ UNCHANGED <<adapter, swap_service, flattened>>
    BY <2>1, <1>a, <1>names, <1>types, EmitTyped
  <2>3. completion' \in OptionOf(CompletionStatuses)
    BY <2>1 DEF Evaluate, ValidateCompletion, CompletionStatuses, OptionOf
  <2> QED BY <2>1, <2>2, <2>3, <1>names DEF RunnerTypeOK, Grows, record
<1>15. ASSUME Onchain PROVE TypeInv' /\ Grows
  <2>1. UNCHANGED <<memory, wallet, row, evidence>>
    BY <1>15 DEF Onchain
  <2>2. chain'.status \in {"pending", "completed"}
    <3>1. FinalizedOnChain \/ UNCHANGED chain
      BY <1>15 DEF Onchain
    <3> QED BY <3>1 DEF FinalizedOnChain, RunnerTypeOK
  <2>3. /\ Grows /\ sequence_no' \in Nat /\ pc' = "commit"
        /\ UNCHANGED <<adapter, swap_service, flattened>>
    <3>1. CASE Emit("onchain_finalize", TRUE, None, "commit")
      BY <3>1, <1>a, <1>names, <1>types, EmitTyped
    <3>2. CASE Emit("onchain_error", TRUE, None, "commit")
      BY <3>2, <1>a, <1>names, <1>types, EmitTyped
    <3>3. CASE pc' = "commit" /\ UNCHANGED <<setup, sequence_no, flattened, events, chain>>
      BY <3>3, <1>a DEF RunnerTypeOK, Grows, setup
    <3> QED BY <1>15, <3>1, <3>2, <3>3 DEF Onchain
  <2> QED BY <2>1, <2>2, <2>3, <1>names DEF RunnerTypeOK, Grows, memory, wallet
<1>16. ASSUME Commit PROVE TypeInv' /\ Grows
  BY <1>16, <1>a, <1>names DEF Commit, RunnerTypeOK, Grows, setup, memory, wallet
<1>17. ASSUME EmitEvidence PROVE TypeInv' /\ Grows
  <2>1. evidence' \in BOOLEAN
    BY <1>17 DEF EmitEvidence
  <2> QED BY <1>17, <2>1, <1>a, <1>names
      DEF EmitEvidence, RunnerTypeOK, Grows, setup, memory, wallet
<1>18. ASSUME QuoteAges PROVE TypeInv' /\ Grows
  <2>1. action \in Action /\ action.quote # None /\ action.quote.age < Oldest
    BY <1>18 DEF QuoteAges
  <2>2. action.type = "EXECUTE_SWAP" /\ action.quote \in Quote
        /\ action = [type |-> "EXECUTE_SWAP", quote |-> action.quote]
    BY <2>1 DEF Action, OptionOf
  <2>3. [action.quote EXCEPT !.age = @ + 1] \in Quote
    BY <2>1, <2>2, QuoteAssumption DEF Quote, Oldest
  <2>4. action' = [type |-> "EXECUTE_SWAP", quote |-> [action.quote EXCEPT !.age = @ + 1]]
    BY <1>18, <2>2 DEF QuoteAges
  <2>5. action' \in Action
    BY <2>3, <2>4 DEF Action, OptionOf
  <2> QED BY <1>18, <2>5, <1>a DEF QuoteAges, RunnerTypeOK, OptionOf, Grows, setup, wallet, record
<1>19. ASSUME Crash PROVE TypeInv' /\ Grows
  BY <1>19, <1>a, <1>names DEF Crash, RunnerTypeOK, Grows, setup, memory, wallet, record
<1>20. ASSUME NEW t \in Transaction, Land(t) \/ Expire(t) PROVE TypeInv' /\ Grows
  BY <1>20, <1>a DEF Land, Expire, Transaction, RunnerTypeOK, Grows, setup, memory, record
<1>21. ASSUME UNCHANGED vars PROVE TypeInv' /\ Grows
  BY <1>21, <1>a DEF vars, RunnerTypeOK, Grows, setup, memory, wallet, record
<1> QED
  BY <1>1, <1>2, <1>3, <1>4, <1>5, <1>6, <1>7, <1>8, <1>9, <1>10, <1>11, <1>12, <1>13,
     <1>14, <1>15, <1>16, <1>17, <1>18, <1>19, <1>20, <1>21 DEF Next, Proceed, Cluster

-----------------------------------------------------------------------------
(* The numbers of the events.                                               *)

LEMMA Renumbered ==
  ASSUME RunnerTypeOK, EventsNumbered, Grows,
         \A k \in (Len(events) + 1)..Len(events') : events'[k].sequence_no = k - 1
  PROVE  EventsNumbered'
<1>1. /\ events \in Seq(Event) /\ events' \in Seq(Event)
      /\ \A k \in 1..Len(events) : events'[k] = events[k]
  BY DEF RunnerTypeOK, Grows
<1> QED BY <1>1 DEF EventsNumbered

LEMMA EmitNumbered ==
  ASSUME RunnerTypeOK, EventsNumbered, Len(events) = sequence_no,
         NEW type \in EventTypes, NEW ok \in BOOLEAN, NEW mint \in OptionOf(Mints),
         NEW next \in Steps \ {"flattening"}, next \in InLoop \cup {"flatten"} => flattened = 0,
         Emit(type, ok, mint, next)
  PROVE  NumberInv'
<1>1. /\ Grows /\ Len(events') = Len(events) + 1
      /\ events'[Len(events) + 1].sequence_no = sequence_no
      /\ sequence_no' = sequence_no + 1
      /\ pc' = next /\ flattened' = flattened
  <2>1. next \in Steps
    OBVIOUS
  <2>2. events'[Len(events) + 1] =
          [sequence_no |-> sequence_no, type |-> type, ok |-> ok, mint |-> mint]
    BY <2>1, EmitTyped
  <2> QED BY <2>1, <2>2, EmitTyped
<1>2. \A k \in (Len(events) + 1)..Len(events') : events'[k].sequence_no = k - 1
  BY <1>1 DEF RunnerTypeOK
<1>3. EventsNumbered'
  BY <1>1, <1>2, Renumbered
<1>4. CountsAgree'
  BY <1>1 DEF CountsAgree, RunnerTypeOK
<1> QED BY <1>3, <1>4 DEF NumberInv

LEMMA NumberStep ==
  ASSUME TypeInv, NumberInv, [Next]_vars
  PROVE  NumberInv'
<1>a. RunnerTypeOK /\ EventsNumbered /\ events \in Seq(Event)
      /\ sequence_no \in Nat /\ flattened \in Nat /\ Grows
  BY TypeStep DEF TypeInv, RunnerTypeOK, NumberInv
<1>b. /\ pc # "crashed" /\ pc # "flattening" => Len(events) = sequence_no
      /\ pc = "flattening" => Len(events) = sequence_no + flattened
      /\ pc \in InLoop \cup {"flatten"} => flattened = 0
  BY <1>a DEF NumberInv, CountsAgree
<1>c. /\ AfterLoop \in Steps \ {"flattening"}
      /\ {"observe", "budget", "decide", "validate", "execute", "finalize", "onchain",
          "commit"} \subseteq Steps \ {"flattening"}
      /\ InLoop = {"observe", "budget", "decide", "validate", "execute", "start"}
  BY StepNames DEF InLoop
<1>d. /\ None \in OptionOf(Mints)
      /\ {"observe", "budget_exceeded", "error", "decide", "finish", "validate", "execute",
          "flatten", "finalize", "onchain_finalize", "onchain_error"} \subseteq EventTypes
      /\ TRUE \in BOOLEAN /\ FALSE \in BOOLEAN
  BY DEF OptionOf, EventTypes
<1>1. ASSUME Start PROVE NumberInv'
  BY <1>1, <1>a, <1>b, <1>c DEF Start, NumberInv, EventsNumbered, CountsAgree
<1>2. ASSUME Observe PROVE NumberInv'
  <2>1. pc = "observe" /\ Emit("observe", TRUE, None, "budget")
    BY <1>2 DEF Observe
  <2> QED BY <2>1, <1>a, <1>b, <1>c, <1>d, EmitNumbered
<1>3. ASSUME CheckBudget PROVE NumberInv'
  <2>1. pc = "budget"
    BY <1>3 DEF CheckBudget
  <2>2. CASE Emit("budget_exceeded", TRUE, None, AfterLoop)
    BY <2>1, <2>2, <1>a, <1>b, <1>c, <1>d, EmitNumbered
  <2>3. CASE pc' = "decide" /\ UNCHANGED <<setup, sequence_no, flattened, events>>
    BY <2>1, <2>3, <1>a, <1>b, <1>c DEF NumberInv, EventsNumbered, CountsAgree
  <2> QED BY <1>3, <2>2, <2>3 DEF CheckBudget
<1>4. ASSUME NEW d, DecideFails(d) PROVE NumberInv'
  <2>1. pc = "decide" /\ Emit("error", TRUE, None, AfterLoop)
    BY <1>4 DEF DecideFails
  <2> QED BY <2>1, <1>a, <1>b, <1>c, <1>d, EmitNumbered
<1>5. ASSUME NEW d, Decide(d) PROVE NumberInv'
  <2>1. pc = "decide" /\ d \in Action /\ Emit("decide", TRUE, MintOf(d), "validate")
    BY <1>5 DEF Decide
  <2>2. MintOf(d) \in OptionOf(Mints)
    BY <2>1, MintTyped
  <2> QED BY <2>1, <2>2, <1>a, <1>b, <1>c, <1>d, EmitNumbered
<1>6. ASSUME NEW d, DecideFinish(d) PROVE NumberInv'
  <2>1. /\ pc = "decide" /\ pc' = AfterLoop
        /\ sequence_no' = sequence_no + 2 /\ flattened' = flattened
    BY <1>6 DEF DecideFinish
  <2>2. /\ Len(events') = Len(events) + 2
        /\ events'[Len(events) + 1].sequence_no = sequence_no
        /\ events'[Len(events) + 2].sequence_no = sequence_no + 1
    BY <1>6, <1>a, FinishEvents
  <2>3. Len(events) = sequence_no /\ flattened = 0
    BY <2>1, <1>b, <1>c
  <2>4. \A k \in (Len(events) + 1)..Len(events') : events'[k].sequence_no = k - 1
    <3> TAKE k \in (Len(events) + 1)..Len(events')
    <3>1. k = Len(events) + 1 \/ k = Len(events) + 2
      BY <2>2, <1>a
    <3> QED BY <3>1, <2>2, <2>3, <1>a
  <2>5. EventsNumbered'
    BY <2>4, <1>a, Renumbered
  <2>6. CountsAgree'
    BY <2>1, <2>2, <2>3, <1>a, <1>c DEF CountsAgree
  <2> QED BY <2>5, <2>6 DEF NumberInv
<1>7. ASSUME FatalError PROVE NumberInv'
  <2>1. pc = "validate" /\ Emit("error", FALSE, None, AfterLoop)
    BY <1>7 DEF FatalError
  <2> QED BY <2>1, <1>a, <1>b, <1>c, <1>d, EmitNumbered
<1>8. ASSUME NEW b \in BOOLEAN, Validate(b) PROVE NumberInv'
  <2>1. /\ pc = "validate" /\ action \in Action
        /\ Emit("validate", b, MintOf(action), AfterValidation(b))
    BY <1>8 DEF Validate, TypeInv, Turns
  <2>2. MintOf(action) \in OptionOf(Mints)
    BY <2>1, MintTyped
  <2>3. AfterValidation(b) \in {"execute", "observe"}
    BY StepNames
  <2> QED BY <2>1, <2>2, <2>3, <1>a, <1>b, <1>c, <1>d, EmitNumbered
<1>9. ASSUME NEW b \in BOOLEAN, Execute(b) PROVE NumberInv'
  <2>1. /\ pc = "execute" /\ action \in Action
        /\ Emit("execute", b, MintOf(action), "observe")
    BY <1>9 DEF Execute, TypeInv, Turns
  <2>2. MintOf(action) \in OptionOf(Mints)
    BY <2>1, MintTyped
  <2> QED BY <2>1, <2>2, <1>a, <1>b, <1>c, <1>d, EmitNumbered
<1>10. ASSUME NEW balances, FlattenRead(balances) PROVE NumberInv'
  BY <1>10, <1>a, <1>b, <1>c DEF FlattenRead, NumberInv, EventsNumbered, CountsAgree
<1>11. ASSUME FlattenReadFails PROVE NumberInv'
  <2>1. pc = "flatten" /\ Emit("flatten", FALSE, None, "finalize")
    BY <1>11 DEF FlattenReadFails
  <2> QED BY <2>1, <1>a, <1>b, <1>c, <1>d, EmitNumbered
<1>12. ASSUME FlattenEnds PROVE NumberInv'
  BY <1>12, <1>a, <1>b, <1>c
  DEF FlattenEnds, FlattenCount, NumberInv, EventsNumbered, CountsAgree
<1>13. ASSUME NEW m \in Mints, NEW success \in BOOLEAN, Flatten(m, success)
       PROVE  NumberInv'
  <2>1. /\ pc = "flattening" /\ pc' = pc
        /\ Persist(sequence_no + flattened, "flatten", success, m)
        /\ flattened' = flattened + 1 /\ sequence_no' = sequence_no
    BY <1>13 DEF Flatten
  <2>2. sequence_no + flattened \in Nat /\ m \in OptionOf(Mints)
    BY <1>a DEF OptionOf
  <2>3. /\ Len(events') = Len(events) + 1
        /\ events'[Len(events) + 1].sequence_no = sequence_no + flattened
    <3>1. "flatten" \in EventTypes
      BY <1>d
    <3>2. /\ Len(events') = Len(events) + 1
          /\ events'[Len(events) + 1] =
               [sequence_no |-> sequence_no + flattened, type |-> "flatten",
                ok |-> success, mint |-> m]
      BY <2>1, <2>2, <3>1, <1>a, Persisted
    <3> QED BY <3>2
  <2>4. Len(events) = sequence_no + flattened
    BY <2>1, <1>b
  <2>5. \A k \in (Len(events) + 1)..Len(events') : events'[k].sequence_no = k - 1
    BY <2>3, <2>4, <1>a
  <2>6. EventsNumbered'
    BY <2>5, <1>a, Renumbered
  <2>7. CountsAgree'
    BY <2>1, <2>3, <2>4, <1>a, <1>c DEF CountsAgree
  <2> QED BY <2>6, <2>7 DEF NumberInv
<1>14. ASSUME NEW balances, Finalize(balances) PROVE NumberInv'
  <2>1. pc = "finalize" /\ Emit("finalize", TRUE, None, "onchain")
    BY <1>14 DEF Finalize
  <2> QED BY <2>1, <1>a, <1>b, <1>c, <1>d, EmitNumbered
<1>15. ASSUME Onchain PROVE NumberInv'
  <2>1. pc = "onchain"
    BY <1>15 DEF Onchain
  <2>2. CASE Emit("onchain_finalize", TRUE, None, "commit")
    BY <2>1, <2>2, <1>a, <1>b, <1>c, <1>d, EmitNumbered
  <2>3. CASE Emit("onchain_error", TRUE, None, "commit")
    BY <2>1, <2>3, <1>a, <1>b, <1>c, <1>d, EmitNumbered
  <2>4. CASE pc' = "commit" /\ UNCHANGED <<setup, sequence_no, flattened, events, chain>>
    BY <2>1, <2>4, <1>a, <1>b, <1>c DEF NumberInv, EventsNumbered, CountsAgree
  <2> QED BY <1>15, <2>2, <2>3, <2>4 DEF Onchain
<1>16. ASSUME Commit \/ EmitEvidence \/ Crash PROVE NumberInv'
  BY <1>16, <1>a, <1>b, <1>c
  DEF Commit, EmitEvidence, Crash, NumberInv, EventsNumbered, CountsAgree
<1>17. ASSUME QuoteAges \/ UNCHANGED vars \/ \E t \in Transaction : Land(t) \/ Expire(t)
       PROVE  NumberInv'
  <2>1. UNCHANGED <<pc, sequence_no, flattened, events>>
    BY <1>17 DEF QuoteAges, Land, Expire, vars
  <2> QED BY <2>1 DEF NumberInv, EventsNumbered, CountsAgree
<1> QED
  BY <1>1, <1>2, <1>3, <1>4, <1>5, <1>6, <1>7, <1>8, <1>9, <1>10, <1>11, <1>12, <1>13,
     <1>14, <1>15, <1>16, <1>17 DEF Next, Proceed, Cluster

-----------------------------------------------------------------------------
(* What is traded.                                                          *)

LEMMA StaysValidated ==
  ASSUME RunnerTypeOK, Grows, NEW m, Validated(m)
  PROVE  Validated(m)'
<1>1. PICK k \in DOMAIN events :
        events[k].type = "validate" /\ events[k].ok /\ events[k].mint = m
  BY DEF Validated
<1>2. k \in DOMAIN events' /\ events'[k] = events[k]
  BY <1>1 DEF RunnerTypeOK, Grows
<1> QED BY <1>1, <1>2 DEF Validated

(* Most steps buy and sell nothing.                                         *)
LEMMA NoTrade ==
  ASSUME RunnerTypeOK, Grows, TradeInv,
         UNCHANGED <<held, sent, toFlatten, swap_service>>, pc' # "execute"
  PROVE  TradeInv'
BY StaysValidated DEF TradeInv, OnlyValidatedBuys, TradesValidated, Validated

LEMMA TradeStep ==
  ASSUME TypeInv, TradeInv, [Next]_vars
  PROVE  TradeInv'
<1>a. RunnerTypeOK /\ Grows /\ events \in Seq(Event)
  BY TypeStep DEF TypeInv, RunnerTypeOK
<1>b. /\ \A m \in held \cup {t.mint : t \in sent} : Validated(m)
      /\ \A m \in toFlatten : Validated(m)
      /\ \A t \in sent : t.stale => swap_service = "orca"
      /\ pc = "execute" => Validated(MintOf(action))
  BY DEF TradeInv, OnlyValidatedBuys, TradesValidated, Validated
<1>c. ASSUME \A m \in (held \cup {t.mint : t \in sent} \cup toFlatten)' : Validated(m),
             \A t \in sent' : t.stale => swap_service' = "orca",
             pc' # "execute"
      PROVE  TradeInv'
  BY <1>c, <1>a, StaysValidated DEF TradeInv, OnlyValidatedBuys, TradesValidated, Validated
<1>d. AfterLoop # "execute"
  BY StepNames
<1>1. ASSUME Start \/ Observe \/ CheckBudget \/ FatalError
             \/ \E d : DecideFails(d) \/ Decide(d) \/ DecideFinish(d)
      PROVE  TradeInv'
  <2>1. UNCHANGED <<held, sent, toFlatten, swap_service>> /\ pc' # "execute"
    BY <1>1, <1>d DEF Start, Observe, CheckBudget, FatalError, DecideFails, Decide,
         DecideFinish, Emit, setup, memory, wallet
  <2> QED BY <2>1, <1>a, NoTrade
<1>2. ASSUME FlattenReadFails \/ FlattenEnds \/ Onchain \/ Commit \/ EmitEvidence \/ Crash
             \/ \E balances : Finalize(balances)
      PROVE  TradeInv'
  <2>1. UNCHANGED <<held, sent, toFlatten, swap_service>> /\ pc' # "execute"
    BY <1>2 DEF FlattenReadFails, FlattenEnds, Onchain, Commit, EmitEvidence, Crash,
         Finalize, Emit, setup, memory, wallet
  <2> QED BY <2>1, <1>a, NoTrade
<1>3. ASSUME NEW b \in BOOLEAN, Validate(b) PROVE TradeInv'
  <2>1. UNCHANGED <<held, sent, toFlatten, swap_service>>
    BY <1>3 DEF Validate, Emit, setup, wallet
  <2>2. CASE pc' # "execute"
    BY <2>1, <2>2, <1>a, NoTrade
  <2>3. CASE pc' = "execute"
    <3>1. /\ pc = "validate" /\ action \in Action /\ action' = action
          /\ Emit("validate", b, MintOf(action), AfterValidation(b))
      BY <1>3, <2>3 DEF Validate, TypeInv, Turns
    <3>2. b /\ AfterValidation(b) \in Steps
      BY <3>1, <2>3, StepNames DEF Emit
    <3>3. /\ Len(events') = Len(events) + 1 /\ events' \in Seq(Event)
          /\ events'[Len(events) + 1] =
               [sequence_no |-> sequence_no, type |-> "validate", ok |-> b,
                mint |-> MintOf(action)]
      <4>1. "validate" \in EventTypes /\ MintOf(action) \in OptionOf(Mints)
        BY <3>1, MintTyped DEF EventTypes
      <4> QED BY <3>1, <3>2, <4>1, <1>a, EmitTyped, ZenonT(30) DEF Grows
    <3>4. Len(events) + 1 \in DOMAIN events'
      BY <3>3, <1>a
    <3>5. Validated(MintOf(action))'
      BY <3>1, <3>2, <3>3, <3>4 DEF Validated, MintOf
    <3>6. /\ \A m \in (held \cup {t.mint : t \in sent} \cup toFlatten)' : Validated(m)'
          /\ \A t \in sent' : t.stale => swap_service' = "orca"
      BY <2>1, <1>a, <1>b, StaysValidated
    <3> QED BY <3>5, <3>6 DEF TradeInv, OnlyValidatedBuys, TradesValidated, Validated
  <2> QED BY <2>2, <2>3
<1>4. ASSUME NEW b \in BOOLEAN, Execute(b) PROVE TradeInv'
  <2>1. /\ pc = "execute" /\ pc' = "observe" /\ action \in Action
        /\ UNCHANGED <<held, toFlatten, swap_service>>
    BY <1>4 DEF Execute, Emit, setup, TypeInv, Turns
  <2>2. CASE sent' = sent
    BY <2>1, <2>2, <1>a, NoTrade
  <2>3. CASE /\ Prepares(action.quote)
             /\ sent' = sent \cup {[mint |-> action.quote.mint, buys |-> TRUE,
                                    stale |-> ~Fresh(action.quote, 0)]}
    <3>1. action.quote # None
      BY <2>3 DEF Prepares, OrcaPrepares, JupiterPrepares, Fresh
    <3>2. Validated(action.quote.mint)
      BY <2>1, <3>1, <1>b DEF MintOf
    <3>3. swap_service # "orca" => Fresh(action.quote, 0)
      BY <2>3 DEF Prepares, JupiterPrepares
    <3>4. \A m \in (held \cup {t.mint : t \in sent} \cup toFlatten)' : Validated(m)
      BY <2>1, <2>3, <3>2, <1>b
    <3>5. ASSUME NEW t \in sent', t.stale PROVE swap_service' = "orca"
      <4>1. CASE t \in sent
        BY <4>1, <3>5, <2>1, <1>b
      <4>2. CASE t = [mint |-> action.quote.mint, buys |-> TRUE,
                      stale |-> ~Fresh(action.quote, 0)]
        <5>1. t.stale = ~Fresh(action.quote, 0)
          BY <4>2
        <5>2. ~Fresh(action.quote, 0)
          BY <5>1, <3>5
        <5> QED BY <5>2, <3>3, <2>1
      <4> QED BY <2>3, <4>1, <4>2
    <3> QED BY <2>1, <3>4, <3>5, <1>c
  <2> QED BY <1>4, <2>2, <2>3 DEF Execute, Send
<1>5. ASSUME NEW balances \in SUBSET Mints, FlattenRead(balances) PROVE TradeInv'
  <2>1. /\ pc' = "flattening" /\ toFlatten' \subseteq held
        /\ UNCHANGED <<held, sent, swap_service>>
    BY <1>5 DEF FlattenRead, BalancesRead, setup, wallet
  <2> QED BY <2>1, <1>b, <1>c
<1>6. ASSUME NEW m \in Mints, NEW success \in BOOLEAN, Flatten(m, success) PROVE TradeInv'
  <2>1. /\ pc = "flattening" /\ pc' = pc /\ m \in toFlatten /\ toFlatten' \subseteq toFlatten
        /\ UNCHANGED <<held, swap_service>>
    BY <1>6 DEF Flatten, setup
  <2>2. sent' = sent \/ sent' = sent \cup {[mint |-> m, buys |-> FALSE, stale |-> FALSE]}
    BY <1>6 DEF Flatten, Send
  <2> QED BY <2>1, <2>2, <1>b, <1>c
<1>7. ASSUME QuoteAges PROVE TradeInv'
  <2>1. /\ action \in Action /\ action.quote # None
        /\ action' = [action EXCEPT !.quote.age = @ + 1]
        /\ UNCHANGED <<pc, events, held, sent, toFlatten, swap_service>>
    BY <1>7 DEF QuoteAges, TypeInv, Turns, setup, wallet
  <2>2. action.quote \in Quote
    BY <2>1 DEF Action, OptionOf
  <2>3. action'.quote = [action.quote EXCEPT !.age = @ + 1]
    BY <2>1 DEF Action
  <2>4. action'.quote.mint = action.quote.mint
    BY <2>2, <2>3 DEF Quote
  <2>5. MintOf(action') = MintOf(action) \/ action'.quote = None
    BY <2>1, <2>4 DEF MintOf
  <2>6. action'.quote # None
    <3>1. action.quote.age < Oldest
      BY <1>7 DEF QuoteAges
    <3>2. action'.quote \in Quote
      BY <3>1, <2>2, <2>3, QuoteAssumption DEF Quote, Oldest
    <3> QED BY <3>2, QuoteOptionAssumption
  <2> QED BY <2>1, <2>5, <2>6 DEF TradeInv, OnlyValidatedBuys, TradesValidated, Validated, MintOf
<1>8. ASSUME NEW t \in Transaction, Land(t) \/ Expire(t) PROVE TradeInv'
  <2>1. /\ t \in sent /\ sent' \subseteq sent /\ held' \subseteq held \cup {t.mint}
        /\ UNCHANGED <<pc, events, action, toFlatten, swap_service>>
    BY <1>8 DEF Land, Expire, setup, memory
  <2>2. \A m \in held' \cup {u.mint : u \in sent'} : Validated(m)
    BY <2>1, <1>b
  <2> QED BY <2>1, <2>2, <1>b DEF TradeInv, OnlyValidatedBuys, TradesValidated, Validated, MintOf
<1>9. ASSUME UNCHANGED vars PROVE TradeInv'
  BY <1>9 DEF vars, setup, memory, wallet, TradeInv, OnlyValidatedBuys, TradesValidated,
     Validated, MintOf
<1> QED
  BY <1>1, <1>2, <1>3, <1>4, <1>5, <1>6, <1>7, <1>8, <1>9 DEF Next, Proceed, Cluster

-----------------------------------------------------------------------------
(* The verdict.                                                             *)

LEMMA MarksFinite ==
  ASSUME NEW list \in Seq(Event), NEW type, NEW ok
  PROVE  /\ IsFiniteSet({k \in DOMAIN list : list[k].type = type /\ list[k].ok = ok})
         /\ Count(list, type, ok) \in Nat
<1> DEFINE marks == {k \in DOMAIN list : list[k].type = type /\ list[k].ok = ok}
<1>1. IsFiniteSet(1..Len(list))
  BY FS_Interval
<1>2. marks \subseteq 1..Len(list)
  OBVIOUS
<1>3. IsFiniteSet(marks)
  BY <1>1, <1>2, FS_Subset
<1> QED BY <1>3, FS_CardinalityType DEF Count

LEMMA CountedOnce ==
  ASSUME NEW list \in Seq(Event), NEW type, NEW ok,
         Count(list, type, ok) > 0,
         \A j, k \in DOMAIN list : list[j].type = type /\ list[k].type = type => j = k
  PROVE  Count(list, type, ok) = 1
<1> DEFINE marks == {k \in DOMAIN list : list[k].type = type /\ list[k].ok = ok}
<1>1. Cardinality(marks) > 0
  BY DEF Count
<1>2. marks # {}
  <2>1. Cardinality({}) = 0
    BY FS_EmptySet
  <2>2. ASSUME marks = {} PROVE FALSE
    <3>1. Cardinality(marks) = 0
      BY <2>1, <2>2
    <3> HIDE DEF marks
    <3> QED BY <1>1, <3>1
  <2> QED BY <2>2
<1>3. PICK k \in marks : TRUE
  BY <1>2
<1>4. marks = {k}
  BY <1>3
<1>5. Cardinality({k}) = 1
  BY FS_Singleton
<1> QED BY <1>4, <1>5 DEF Count

(* Events of other types change no count and no list of what was bought.    *)
LEMMA CountKept ==
  ASSUME NEW list \in Seq(Event), NEW longer \in Seq(Event), Len(list) <= Len(longer),
         \A k \in 1..Len(list) : longer[k] = list[k],
         NEW type, NEW ok,
         \A k \in (Len(list) + 1)..Len(longer) : longer[k].type # type
  PROVE  Count(longer, type, ok) = Count(list, type, ok)
<1> DEFINE Marks(l) == {k \in DOMAIN l : l[k].type = type /\ l[k].ok = ok}
<1>1. \A k \in DOMAIN longer :
        k \in DOMAIN list \/ k \in (Len(list) + 1)..Len(longer)
  OBVIOUS
<1>2. Marks(longer) = Marks(list)
  BY <1>1
<1> QED BY <1>2 DEF Count

LEMMA BoughtKept ==
  ASSUME NEW list \in Seq(Event), NEW longer \in Seq(Event), Len(list) <= Len(longer),
         \A k \in 1..Len(list) : longer[k] = list[k],
         \A k \in (Len(list) + 1)..Len(longer) : longer[k].type # "execute"
  PROVE  Bought(longer) = Bought(list)
<1>1. \A k \in DOMAIN longer :
        k \in DOMAIN list \/ k \in (Len(list) + 1)..Len(longer)
  OBVIOUS
<1>2. {j \in DOMAIN longer : longer[j].type = "execute" /\ longer[j].ok}
        = {j \in DOMAIN list : list[j].type = "execute" /\ list[j].ok}
  BY <1>1
<1> QED BY <1>2 DEF Bought

(* What CompleteIsEarned asks of the events.                                *)
Earned(list) ==
  /\ Count(list, "error", FALSE) = 0
  /\ Count(list, "budget_exceeded", TRUE) = 0
  /\ Count(list, "validate", FALSE) <= MaxInvalid
  /\ IF adapter = "swap_execution"
     THEN Required \subseteq Bought(list) ELSE Count(list, "finish", TRUE) = 1

LEMMA VerdictEarned ==
  ASSUME RunnerTypeOK, FinishesOnce, NEW balances, Evaluate(events, balances) = "complete"
  PROVE  Earned(events)
<1>1. events \in Seq(Event) /\ adapter \in {"swap_execution", "rebalance_execution"}
  BY DEF RunnerTypeOK, Adapters
<1>2. /\ Count(events, "error", FALSE) \in Nat
      /\ Count(events, "budget_exceeded", TRUE) \in Nat
      /\ Count(events, "validate", FALSE) \in Nat
  BY <1>1, MarksFinite
<1>3. /\ ~TooManyInvalid(events) /\ ~Fatal(events)
      /\ ~(Count(events, "budget_exceeded", TRUE) > 0)
      /\ ValidateCompletion(events, balances) = "complete"
  BY DEF Evaluate
<1>4. /\ Count(events, "error", FALSE) = 0
      /\ Count(events, "budget_exceeded", TRUE) = 0
      /\ Count(events, "validate", FALSE) <= MaxInvalid
  <2>1. \A m, n \in Nat : ~(n > m) => n <= m /\ (m = 0 => n = 0)
    OBVIOUS
  <2>2. /\ ~(Count(events, "validate", FALSE) > MaxInvalid)
        /\ ~(Count(events, "error", FALSE) > 0)
    BY <1>3 DEF TooManyInvalid, Fatal
  <2>3. 0 \in Nat /\ MaxInvalid \in Nat
    BY BudgetAssumption
  <2> QED BY <1>2, <1>3, <2>1, <2>2, <2>3, Zenon
<1>5. \/ adapter = "swap_execution" /\ Required \subseteq Bought(events)
      \/ adapter = "rebalance_execution" /\ Count(events, "finish", TRUE) > 0
  BY <1>3 DEF ValidateCompletion
<1>6. adapter = "rebalance_execution" => Count(events, "finish", TRUE) = 1
  BY <1>1, <1>5, CountedOnce DEF FinishesOnce
<1> QED BY <1>4, <1>5, <1>6 DEF Earned

(* The events around and after the finalization.                            *)
Closing == {"finalize", "onchain_finalize", "onchain_error"}

LEMMA EarnedKept ==
  ASSUME RunnerTypeOK, Grows, Earned(events), adapter' = adapter,
         \A k \in (Len(events) + 1)..Len(events') : events'[k].type \in Closing
  PROVE  Earned(events)'
<1>1. /\ events \in Seq(Event) /\ events' \in Seq(Event) /\ Len(events) <= Len(events')
      /\ \A k \in 1..Len(events) : events'[k] = events[k]
  BY DEF RunnerTypeOK, Grows
<1>2. \A k \in (Len(events) + 1)..Len(events') :
        events'[k].type \notin {"error", "budget_exceeded", "validate", "execute", "finish"}
  BY DEF Closing
<1>3. /\ Count(events', "error", FALSE) = Count(events, "error", FALSE)
      /\ Count(events', "budget_exceeded", TRUE) = Count(events, "budget_exceeded", TRUE)
      /\ Count(events', "validate", FALSE) = Count(events, "validate", FALSE)
      /\ Count(events', "finish", TRUE) = Count(events, "finish", TRUE)
  <2>1. \A type \in {"error", "budget_exceeded", "validate", "finish"} :
          \A k \in (Len(events) + 1)..Len(events') : events'[k].type # type
    BY <1>2
  <2>2. ASSUME NEW type \in {"error", "budget_exceeded", "validate", "finish"}, NEW ok
        PROVE  Count(events', type, ok) = Count(events, type, ok)
    BY <1>1, <2>1, CountKept
  <2> QED BY <2>2, Zenon
<1>4. Bought(events') = Bought(events)
  BY <1>1, <1>2, BoughtKept
<1> QED BY <1>3, <1>4 DEF Earned

(* A step of the loop or of the flattening: no verdict yet, and events that *)
(* neither finish nor are from after the finalization.                      *)
LoopMoves ==
  /\ pc \in BeforeVerdict /\ pc' \in BeforeVerdict
  /\ pc' \in InLoop => pc \in InLoop
  /\ UNCHANGED <<adapter, completion, run_log_hash, chain, evidence>>
  /\ row' = row \/ row'.status = "running"
  /\ \A k \in (Len(events) + 1)..Len(events') :
       events'[k].type \in EventTypes \ {"finish", "onchain_finalize", "onchain_error"}

LEMMA LoopKeepsVerdict ==
  ASSUME RunnerTypeOK, Grows, VerdictInv, LoopMoves
  PROVE  VerdictInv'
<1>1. /\ events \in Seq(Event) /\ events' \in Seq(Event) /\ Len(events) <= Len(events')
      /\ \A k \in 1..Len(events) : events'[k] = events[k]
  BY DEF RunnerTypeOK, Grows
<1>2. \A k \in DOMAIN events' :
        \/ k \in DOMAIN events /\ events'[k] = events[k]
        \/ events'[k].type \in EventTypes \ {"finish", "onchain_finalize", "onchain_error"}
  BY <1>1 DEF LoopMoves
<1>3. /\ completion' = None /\ chain' = chain /\ chain.status = "pending"
      /\ row.status # "completed" /\ ~evidence /\ evidence' = evidence
      /\ \A k \in DOMAIN events : IsEvidence(events[k])
  BY DEF VerdictInv, VerdictsAgree, LoopMoves
<1>4. CompleteIsEarned'
  BY <1>3, StatusAssumption DEF CompleteIsEarned, CompletionStatuses
<1>5. FinishesOnce'
  <2>1. FinishesOnce
    BY DEF VerdictInv
  <2> QED BY <1>2, <2>1 DEF FinishesOnce, LoopMoves
<1>6. VerdictsAgree'
  <2>1. row'.status # "completed"
    BY <1>3 DEF LoopMoves
  <2>2. \A k \in DOMAIN events' : IsEvidence(events'[k])
    BY <1>2, <1>3 DEF IsEvidence
  <2>3. pc' \notin {"onchain", "commit", "emit_evidence", "done"}
    BY DEF LoopMoves, BeforeVerdict, InLoop, LoopSteps
  <2> QED BY <1>3, <2>1, <2>2, <2>3 DEF VerdictsAgree, LoopMoves
<1> QED BY <1>4, <1>5, <1>6 DEF VerdictInv

LEMMA EmitsInLoop ==
  ASSUME RunnerTypeOK, pc \in BeforeVerdict,
         UNCHANGED <<completion, run_log_hash, record>>,
         NEW type \in EventTypes \ {"finish", "onchain_finalize", "onchain_error"},
         NEW ok \in BOOLEAN, NEW mint \in OptionOf(Mints),
         NEW next \in BeforeVerdict, next \in InLoop => pc \in InLoop,
         Emit(type, ok, mint, next)
  PROVE  LoopMoves
<1>1. next \in Steps /\ type \in EventTypes
  BY StepNames DEF BeforeVerdict, InLoop, LoopSteps
<1>2. /\ Len(events') = Len(events) + 1 /\ pc' = next /\ adapter' = adapter
      /\ events'[Len(events) + 1] =
           [sequence_no |-> sequence_no, type |-> type, ok |-> ok, mint |-> mint]
  BY <1>1, EmitTyped
<1>3. \A k \in (Len(events) + 1)..Len(events') : k = Len(events) + 1
  BY <1>2 DEF RunnerTypeOK
<1> QED BY <1>2, <1>3 DEF LoopMoves, record

LEMMA VerdictStep ==
  ASSUME TypeInv, NumberInv, VerdictInv, [Next]_vars
  PROVE  VerdictInv'
<1>a. RunnerTypeOK /\ Grows /\ events \in Seq(Event)
  BY TypeStep DEF TypeInv, RunnerTypeOK
<1>b. /\ InLoop = {"observe", "budget", "decide", "validate", "execute", "start"}
      /\ BeforeVerdict = InLoop \cup {"flatten", "flattening", "finalize"}
      /\ AfterLoop \in {"flatten", "finalize"}
  BY StepNames DEF InLoop, BeforeVerdict
<1>c. /\ None \in OptionOf(Mints)
      /\ {"observe", "budget_exceeded", "error", "decide", "validate", "execute", "flatten",
          "finalize"} = EventTypes \ {"finish", "onchain_finalize", "onchain_error"}
      /\ TRUE \in BOOLEAN /\ FALSE \in BOOLEAN
  BY DEF OptionOf, EventTypes
<1>d. LoopMoves => VerdictInv'
  BY <1>a, LoopKeepsVerdict
<1>1. ASSUME Start PROVE VerdictInv'
  <2>1. LoopMoves
    BY <1>1, <1>a, <1>b DEF Start, LoopMoves, setup, memory, RunnerTypeOK
  <2> QED BY <2>1, <1>d
<1>2. ASSUME Observe PROVE VerdictInv'
  <2>1. /\ pc = "observe" /\ Emit("observe", TRUE, None, "budget")
        /\ UNCHANGED <<completion, run_log_hash, record>>
    BY <1>2 DEF Observe, memory
  <2> QED BY <2>1, <1>a, <1>b, <1>c, <1>d, EmitsInLoop
<1>3. ASSUME CheckBudget PROVE VerdictInv'
  <2>1. pc = "budget" /\ UNCHANGED <<completion, run_log_hash, record>>
    BY <1>3 DEF CheckBudget, memory
  <2>2. CASE Emit("budget_exceeded", TRUE, None, AfterLoop)
    BY <2>1, <2>2, <1>a, <1>b, <1>c, <1>d, EmitsInLoop
  <2>3. CASE pc' = "decide" /\ UNCHANGED <<setup, sequence_no, flattened, events>>
    <3>1. LoopMoves
      BY <2>1, <2>3, <1>a, <1>b DEF LoopMoves, setup, record
    <3> QED BY <3>1, <1>d
  <2> QED BY <1>3, <2>2, <2>3 DEF CheckBudget
<1>4. ASSUME NEW d, DecideFails(d) PROVE VerdictInv'
  <2>1. /\ pc = "decide" /\ Emit("error", TRUE, None, AfterLoop)
        /\ UNCHANGED <<completion, run_log_hash, record>>
    BY <1>4 DEF DecideFails, memory
  <2> QED BY <2>1, <1>a, <1>b, <1>c, <1>d, EmitsInLoop
<1>5. ASSUME NEW d, Decide(d) PROVE VerdictInv'
  <2>1. /\ pc = "decide" /\ d \in Action /\ Emit("decide", TRUE, MintOf(d), "validate")
        /\ UNCHANGED <<completion, run_log_hash, record>>
    BY <1>5 DEF Decide
  <2>2. MintOf(d) \in OptionOf(Mints)
    BY <2>1, MintTyped
  <2> QED BY <2>1, <2>2, <1>a, <1>b, <1>c, <1>d, EmitsInLoop
<1>6. ASSUME NEW d, DecideFinish(d) PROVE VerdictInv'
  <2>1. /\ pc = "decide" /\ pc' = AfterLoop
        /\ UNCHANGED <<setup, completion, run_log_hash, row, chain, evidence>>
    BY <1>6 DEF DecideFinish, memory, record
  <2>2. /\ events' \in Seq(Event) /\ Len(events') = Len(events) + 2
        /\ \A k \in 1..Len(events) : events'[k] = events[k]
        /\ events'[Len(events) + 1].type = "decide"
        /\ events'[Len(events) + 2].type = "finish"
    BY <1>6, <1>a, FinishEvents DEF Grows
  <2>3. /\ \A k \in DOMAIN events : events[k].type # "finish" /\ IsEvidence(events[k])
        /\ completion = None /\ chain.status = "pending" /\ row.status # "completed"
        /\ ~evidence
    BY <2>1, <1>b DEF VerdictInv, FinishesOnce, VerdictsAgree
  <2>4. \A k \in DOMAIN events' :
          \/ k \in DOMAIN events /\ events'[k] = events[k]
          \/ k = Len(events) + 1
          \/ k = Len(events) + 2
    BY <2>2, <1>a
  <2>5. CompleteIsEarned'
    BY <2>1, <2>3, StatusAssumption DEF CompleteIsEarned, CompletionStatuses
  <2>6. FinishesOnce'
    <3>1. \A k \in DOMAIN events' : events'[k].type = "finish" => k = Len(events) + 2
      BY <2>2, <2>3, <2>4
    <3> QED BY <3>1, <2>1, <1>b DEF FinishesOnce
  <2>7. VerdictsAgree'
    <3>1. \A k \in DOMAIN events' : IsEvidence(events'[k])
      BY <2>2, <2>3, <2>4 DEF IsEvidence
    <3> QED BY <3>1, <2>1, <2>3, <1>b DEF VerdictsAgree
  <2> QED BY <2>5, <2>6, <2>7 DEF VerdictInv
<1>7. ASSUME FatalError PROVE VerdictInv'
  <2>1. /\ pc = "validate" /\ Emit("error", FALSE, None, AfterLoop)
        /\ UNCHANGED <<completion, run_log_hash, record>>
    BY <1>7 DEF FatalError
  <2> QED BY <2>1, <1>a, <1>b, <1>c, <1>d, EmitsInLoop
<1>8. ASSUME NEW b \in BOOLEAN, Validate(b) PROVE VerdictInv'
  <2>1. /\ pc = "validate" /\ action \in Action
        /\ Emit("validate", b, MintOf(action), AfterValidation(b))
        /\ UNCHANGED <<completion, run_log_hash, record>>
    BY <1>8 DEF Validate, TypeInv, Turns
  <2>2. MintOf(action) \in OptionOf(Mints) /\ AfterValidation(b) \in {"execute", "observe"}
    BY <2>1, MintTyped, StepNames
  <2> QED BY <2>1, <2>2, <1>a, <1>b, <1>c, <1>d, EmitsInLoop
<1>9. ASSUME NEW b \in BOOLEAN, Execute(b) PROVE VerdictInv'
  <2>1. /\ pc = "execute" /\ action \in Action
        /\ Emit("execute", b, MintOf(action), "observe")
        /\ UNCHANGED <<completion, run_log_hash, record>>
    BY <1>9 DEF Execute, TypeInv, Turns
  <2>2. MintOf(action) \in OptionOf(Mints)
    BY <2>1, MintTyped
  <2> QED BY <2>1, <2>2, <1>a, <1>b, <1>c, <1>d, EmitsInLoop
<1>10. ASSUME (\E balances : FlattenRead(balances)) \/ FlattenEnds PROVE VerdictInv'
  <2>1. LoopMoves
    BY <1>10, <1>a, <1>b DEF FlattenRead, FlattenEnds, LoopMoves, setup, memory, record
  <2> QED BY <2>1, <1>d
<1>11. ASSUME FlattenReadFails PROVE VerdictInv'
  <2>1. /\ pc = "flatten" /\ Emit("flatten", FALSE, None, "finalize")
        /\ UNCHANGED <<completion, run_log_hash, record>>
    BY <1>11 DEF FlattenReadFails, memory
  <2> QED BY <2>1, <1>a, <1>b, <1>c, <1>d, EmitsInLoop
<1>12. ASSUME NEW m \in Mints, NEW success \in BOOLEAN, Flatten(m, success)
       PROVE  VerdictInv'
  <2>1. /\ pc = "flattening" /\ Persist(sequence_no + flattened, "flatten", success, m)
        /\ UNCHANGED <<setup, pc, completion, run_log_hash, record>>
    BY <1>12 DEF Flatten
  <2>2. /\ sequence_no + flattened \in Nat /\ m \in OptionOf(Mints)
        /\ "flatten" \in EventTypes
    BY <1>a, <1>c DEF RunnerTypeOK, OptionOf
  <2>3. /\ Len(events') = Len(events) + 1
        /\ events'[Len(events) + 1] =
             [sequence_no |-> sequence_no + flattened, type |-> "flatten",
              ok |-> success, mint |-> m]
    BY <2>1, <2>2, <1>a, Persisted
  <2>4. \A k \in (Len(events) + 1)..Len(events') : events'[k].type = "flatten"
    BY <2>3, <1>a
  <2>5. LoopMoves
    BY <2>1, <2>4, <1>b, <1>c DEF LoopMoves, setup, record
  <2> QED BY <2>5, <1>d
<1>13. ASSUME NEW balances, Finalize(balances) PROVE VerdictInv'
  <2>1. /\ pc = "finalize" /\ completion' = Evaluate(events, balances)
        /\ Emit("finalize", TRUE, None, "onchain")
        /\ run_log_hash' = Hash(events')
        /\ UNCHANGED <<setup, row, chain, evidence>>
    BY <1>13 DEF Finalize, Emit, record
  <2>2. /\ pc' = "onchain" /\ Len(events') = Len(events) + 1
        /\ events'[Len(events) + 1] =
             [sequence_no |-> sequence_no, type |-> "finalize", ok |-> TRUE, mint |-> None]
    <3>1. "finalize" \in EventTypes /\ "onchain" \in Steps
      BY StepNames DEF EventTypes
    <3> QED BY <2>1, <3>1, <1>a, <1>c, EmitTyped
  <2>3. /\ FinishesOnce /\ chain.status = "pending" /\ row.status # "completed" /\ ~evidence
        /\ \A k \in DOMAIN events : IsEvidence(events[k])
    BY <2>1, <1>b DEF VerdictInv, VerdictsAgree
  <2>4. /\ \A k \in (Len(events) + 1)..Len(events') : k = Len(events) + 1
        /\ \A k \in DOMAIN events' :
             k = Len(events) + 1 \/ (k \in DOMAIN events /\ events'[k] = events[k])
    <3>1. /\ events' \in Seq(Event) /\ Len(events') = Len(events) + 1
          /\ \A k \in 1..Len(events) : events'[k] = events[k]
      BY <2>2, <1>a DEF Grows
    <3>2. \A k \in (Len(events) + 1)..Len(events') : k = Len(events) + 1
      BY <3>1, <1>a
    <3>3. \A k \in DOMAIN events' : k = Len(events) + 1 \/ k \in 1..Len(events)
      BY <3>1, <1>a
    <3>4. ASSUME NEW k \in DOMAIN events'
          PROVE  k = Len(events) + 1 \/ (k \in DOMAIN events /\ events'[k] = events[k])
      <4>1. DOMAIN events = 1..Len(events)
        BY <1>a
      <4> QED BY <3>1, <3>3, <4>1
    <3> QED BY <3>2, <3>4
  <2>5. CompleteIsEarned'
    <3>1. ASSUME completion' = "complete" PROVE Earned(events)'
      <4>1. Earned(events)
        BY <3>1, <2>1, <2>3, <1>a, VerdictEarned
      <4>2. \A k \in (Len(events) + 1)..Len(events') : events'[k].type \in Closing
        BY <2>2, <2>4 DEF Closing
      <4> QED BY <4>1, <4>2, <2>1, <1>a, EarnedKept DEF setup
    <3> QED BY <3>1 DEF CompleteIsEarned, Earned
  <2>6. FinishesOnce'
    <3>1. \A k \in DOMAIN events' :
            events'[k].type = "finish" => k \in DOMAIN events /\ events'[k] = events[k]
      BY <2>2, <2>4
    <3>2. pc' \notin InLoop
      BY <2>2, <1>b
    <3> QED BY <3>1, <3>2, <2>3 DEF FinishesOnce
  <2>7. LogOf(run_log_hash, events)'
    <3>1. \A k \in DOMAIN events' : IsEvidence(events'[k])
      BY <2>2, <2>3, <2>4 DEF IsEvidence
    <3>2. run_log_hash' = {e \in Hash(events') : IsEvidence(e)}
      BY <3>1, <2>1 DEF Hash
    <3>3. Len(events) + 1 \in DOMAIN events'
      BY <2>2, <1>a DEF Grows
    <3>4. events'[Len(events) + 1] \in run_log_hash'
      BY <3>3, <2>1 DEF Hash
    <3>5. \A k \in DOMAIN events' : events'[k].sequence_no <= events'[Len(events) + 1].sequence_no
      <4>1. EventsNumbered'
        BY NumberStep DEF NumberInv
      <4> QED BY <4>1, <2>2, <1>a DEF EventsNumbered, Grows
    <3>6. \A other \in run_log_hash' :
            other.sequence_no <= events'[Len(events) + 1].sequence_no
      BY <3>5, <2>1 DEF Hash
    <3> QED BY <3>2, <3>4, <3>6, <2>2 DEF LogOf
  <2>8. VerdictsAgree'
    <3>1. \A k \in DOMAIN events' : IsEvidence(events'[k])
      BY <2>2, <2>3, <2>4 DEF IsEvidence
    <3> QED BY <3>1, <2>1, <2>2, <2>3, <2>7, <1>b DEF VerdictsAgree
  <2> QED BY <2>5, <2>6, <2>8 DEF VerdictInv
<1>14. ASSUME Onchain PROVE VerdictInv'
  <2>1. /\ pc = "onchain" /\ pc' = "commit"
        /\ UNCHANGED <<setup, completion, run_log_hash, row, evidence>>
        /\ FinalizedOnChain \/ UNCHANGED chain
    BY <1>14 DEF Onchain, Emit, memory
  <2>2. /\ FinishesOnce /\ chain.status = "pending" /\ row.status # "completed" /\ ~evidence
        /\ CompleteIsEarned /\ LogOf(run_log_hash, events)
    BY <2>1 DEF VerdictInv, VerdictsAgree
  <2>3. \A k \in (Len(events) + 1)..Len(events') :
          events'[k].type \in {"onchain_finalize", "onchain_error"}
    <3>1. ASSUME NEW type \in {"onchain_finalize", "onchain_error"},
                 Emit(type, TRUE, None, "commit")
          PROVE  \A k \in (Len(events) + 1)..Len(events') :
                   events'[k].type \in {"onchain_finalize", "onchain_error"}
      <4>1. type \in EventTypes /\ "commit" \in Steps
        BY StepNames DEF EventTypes
      <4>2. /\ Len(events') = Len(events) + 1
            /\ events'[Len(events) + 1] =
                 [sequence_no |-> sequence_no, type |-> type, ok |-> TRUE, mint |-> None]
        BY <3>1, <4>1, <1>a, <1>c, EmitTyped
      <4> QED BY <4>2, <1>a
    <3>2. CASE UNCHANGED events
      BY <3>2, <1>a
    <3> QED BY <1>14, <3>1, <3>2 DEF Onchain
  <2>4. \A k \in DOMAIN events' :
          \/ k \in DOMAIN events /\ events'[k] = events[k]
          \/ events'[k].type \in {"onchain_finalize", "onchain_error"}
    BY <2>3, <1>a DEF Grows
  <2>5. CompleteIsEarned'
    <3>1. ASSUME completion' = "complete" PROVE Earned(events)'
      <4>1. Earned(events)
        BY <3>1, <2>1, <2>2 DEF CompleteIsEarned, Earned
      <4>2. \A k \in (Len(events) + 1)..Len(events') : events'[k].type \in Closing
        BY <2>3 DEF Closing
      <4> QED BY <4>1, <4>2, <2>1, <1>a, EarnedKept DEF setup
    <3> QED BY <3>1 DEF CompleteIsEarned, Earned
  <2>6. FinishesOnce'
    <3>1. pc' \notin InLoop
      BY <2>1, <1>b
    <3> QED BY <3>1, <2>2, <2>4 DEF FinishesOnce
  <2>7. LogOf(run_log_hash, events)'
    <3>1. \A k \in DOMAIN events : k \in DOMAIN events' /\ events'[k] = events[k]
      BY <1>a DEF Grows
    <3>2. {e \in Hash(events') : IsEvidence(e)} = {e \in Hash(events) : IsEvidence(e)}
      BY <3>1, <2>4 DEF Hash, IsEvidence
    <3> QED BY <3>2, <2>1, <2>2 DEF LogOf
  <2>8. VerdictsAgree'
    BY <2>1, <2>2, <2>7, <1>b DEF VerdictsAgree, FinalizedOnChain
  <2> QED BY <2>5, <2>6, <2>8 DEF VerdictInv
<1>15. ASSUME Commit PROVE VerdictInv'
  <2>1. /\ pc = "commit" /\ pc' = "emit_evidence"
        /\ row' = [status |-> "completed", completion |-> completion,
                   log |-> run_log_hash, events |-> events]
        /\ UNCHANGED <<adapter, events, completion, run_log_hash, chain, evidence>>
    BY <1>15 DEF Commit, setup, memory
  <2> QED BY <2>1, <1>b
      DEF VerdictInv, CompleteIsEarned, FinishesOnce, VerdictsAgree, Bought
<1>16. ASSUME EmitEvidence PROVE VerdictInv'
  <2>1. /\ pc = "emit_evidence" /\ pc' = "done"
        /\ UNCHANGED <<adapter, events, completion, run_log_hash, row, chain>>
    BY <1>16 DEF EmitEvidence, setup, memory
  <2> QED BY <2>1, <1>b
      DEF VerdictInv, CompleteIsEarned, FinishesOnce, VerdictsAgree, Bought
<1>17. ASSUME Crash PROVE VerdictInv'
  <2>1. /\ pc' = "crashed"
        /\ UNCHANGED <<adapter, events, completion, run_log_hash, row, chain, evidence>>
    BY <1>17 DEF Crash, setup, memory, record
  <2> QED BY <2>1, <1>b
      DEF VerdictInv, CompleteIsEarned, FinishesOnce, VerdictsAgree, Bought
<1>18. ASSUME QuoteAges \/ UNCHANGED vars \/ \E t \in Transaction : Land(t) \/ Expire(t)
       PROVE  VerdictInv'
  <2>1. UNCHANGED <<adapter, pc, events, completion, run_log_hash, row, chain, evidence>>
    BY <1>18 DEF QuoteAges, Land, Expire, vars, setup, memory, record
  <2> QED BY <2>1
      DEF VerdictInv, CompleteIsEarned, FinishesOnce, VerdictsAgree, Bought
<1> QED
  BY <1>1, <1>2, <1>3, <1>4, <1>5, <1>6, <1>7, <1>8, <1>9, <1>10, <1>11, <1>12, <1>13,
     <1>14, <1>15, <1>16, <1>17, <1>18 DEF Next, Proceed, Cluster

-----------------------------------------------------------------------------
LEMMA InvariantInit == Init => IInv
<1> SUFFICES ASSUME Init PROVE IInv
  OBVIOUS
<1>a. /\ "start" \in Steps /\ 0 \in Nat /\ 0 \in 0..IterationBudget
      /\ "start" \in InLoop /\ "start" \in BeforeVerdict
      /\ "start" \notin {"decide", "validate", "execute", "onchain", "commit",
                         "emit_evidence", "done", "flattening"}
  BY StepNames, BudgetAssumption DEF InLoop, BeforeVerdict
<1>b. events = <<>> /\ events \in Seq(Event) /\ Len(events) = 0 /\ DOMAIN events = {}
  BY DEF Init
<1>1. TypeInv
  BY <1>a, <1>b DEF Init, TypeInv, RunnerTypeOK, Turns, OptionOf
<1>2. NumberInv
  BY <1>a, <1>b DEF Init, NumberInv, EventsNumbered, CountsAgree
<1>3. TradeInv
  BY <1>a, <1>b DEF Init, TradeInv, OnlyValidatedBuys, TradesValidated
<1>4. CompleteIsEarned
  BY StatusAssumption DEF Init, CompleteIsEarned, CompletionStatuses
<1>5. FinishesOnce
  BY <1>b DEF FinishesOnce
<1>6. VerdictsAgree
  BY <1>a, <1>b DEF Init, VerdictsAgree
<1> QED BY <1>1, <1>2, <1>3, <1>4, <1>5, <1>6 DEF IInv, VerdictInv

(* The inductive invariant, for any set of mints, any budgets and limits:   *)
(* where execute_run is tells what it has counted, validated and decided.   *)
THEOREM RunnerInvariant == Spec => []IInv
<1>1. IInv /\ [Next]_vars => IInv'
  BY TypeStep, NumberStep, TradeStep, VerdictStep DEF IInv
<1> QED BY <1>1, InvariantInit, PTL DEF Spec

(* The state of a run stays of its types, and no turn is counted past the   *)
(* budget.                                                                  *)
THEOREM RunnerTypeCorrect == Spec => []RunnerTypeOK
BY RunnerInvariant, PTL DEF IInv, TypeInv

(* Loop, flattening and finalization number the events without a gap or a   *)
(* repetition.                                                              *)
THEOREM EventsAreNumbered == Spec => []EventsNumbered
BY RunnerInvariant, PTL DEF IInv, NumberInv

(* Nothing reaches the wallet that the validator did not let through, and   *)
(* no stale swap is sent but through Orca's service.                        *)
THEOREM BuysAreValidated == Spec => []OnlyValidatedBuys
BY RunnerInvariant, PTL DEF IInv, TradeInv

(* A verdict of "complete" is backed by the events of the run.              *)
THEOREM CompleteEarned == Spec => []CompleteIsEarned
BY RunnerInvariant, PTL DEF IInv, VerdictInv

(* The auditor finds the hash of the committed row, and the chain's, in the *)
(* committed events.                                                        *)
THEOREM AuditPasses == Spec => []AuditAgrees
<1>1. IInv => AuditAgrees
  <2> SUFFICES ASSUME IInv PROVE AuditAgrees
    OBVIOUS
  <2>1. VerdictsAgree
    BY DEF IInv, VerdictInv
  <2> QED BY <2>1 DEF VerdictsAgree, LogOf, AuditAgrees
<1> QED BY <1>1, RunnerInvariant, PTL

(* No step rewrites or takes back a flushed event.                          *)
THEOREM EventsKept == Spec => [][Grows]_vars
<1>1. IInv /\ [Next]_vars => [Grows]_vars
  BY TypeStep DEF IInv
<1> QED BY <1>1, RunnerInvariant, PTL DEF Spec

-----------------------------------------------------------------------------
(* Why a run ends: a bound on the steps execute_run has left, which every step *)
(* of its own lowers, whatever is refused, fails or raises, and no          *)
(* transaction that lands late and no quote that ages raises.               *)
StepsLeft ==
  LET turns  == 5 * (IterationBudget - iterations_used)
      ending == Cardinality(Mints) + 6
  IN CASE pc = "start"         -> ending + turns + 6
       [] pc = "observe"       -> ending + turns + 5
       [] pc = "budget"        -> ending + turns + 4
       [] pc = "decide"        -> ending + turns + 3
       [] pc = "validate"      -> ending + turns + 2
       [] pc = "execute"       -> ending + turns + 1
       [] pc = "flatten"       -> ending
       [] pc = "flattening"    -> Cardinality(toFlatten) + 5
       [] pc = "finalize"      -> 4
       [] pc = "onchain"       -> 3
       [] pc = "commit"        -> 2
       [] pc = "emit_evidence" -> 1
       [] OTHER                -> 0
EveryStepCounts ==
  [][IF Proceed THEN StepsLeft' < StepsLeft ELSE StepsLeft' <= StepsLeft]_vars

(* The steps left, place by place.                                          *)
LEMMA StepsLeftAt ==
  LET turns  == 5 * (IterationBudget - iterations_used)
      ending == Cardinality(Mints) + 6
  IN /\ pc = "start"         => StepsLeft = ending + turns + 6
     /\ pc = "observe"       => StepsLeft = ending + turns + 5
     /\ pc = "budget"        => StepsLeft = ending + turns + 4
     /\ pc = "decide"        => StepsLeft = ending + turns + 3
     /\ pc = "validate"      => StepsLeft = ending + turns + 2
     /\ pc = "execute"       => StepsLeft = ending + turns + 1
     /\ pc = "flatten"       => StepsLeft = ending
     /\ pc = "flattening"    => StepsLeft = Cardinality(toFlatten) + 5
     /\ pc = "finalize"      => StepsLeft = 4
     /\ pc = "onchain"       => StepsLeft = 3
     /\ pc = "commit"        => StepsLeft = 2
     /\ pc = "emit_evidence" => StepsLeft = 1
     /\ pc \in {"done", "crashed"} => StepsLeft = 0
BY DEF StepsLeft

LEMMA StepsLeftThen ==
  LET turns  == 5 * (IterationBudget - iterations_used')
      ending == Cardinality(Mints) + 6
  IN /\ pc' = "start"         => StepsLeft' = ending + turns + 6
     /\ pc' = "observe"       => StepsLeft' = ending + turns + 5
     /\ pc' = "budget"        => StepsLeft' = ending + turns + 4
     /\ pc' = "decide"        => StepsLeft' = ending + turns + 3
     /\ pc' = "validate"      => StepsLeft' = ending + turns + 2
     /\ pc' = "execute"       => StepsLeft' = ending + turns + 1
     /\ pc' = "flatten"       => StepsLeft' = ending
     /\ pc' = "flattening"    => StepsLeft' = Cardinality(toFlatten') + 5
     /\ pc' = "finalize"      => StepsLeft' = 4
     /\ pc' = "onchain"       => StepsLeft' = 3
     /\ pc' = "commit"        => StepsLeft' = 2
     /\ pc' = "emit_evidence" => StepsLeft' = 1
     /\ pc' \in {"done", "crashed"} => StepsLeft' = 0
BY DEF StepsLeft

(* What the comparisons below are made of.                                  *)
LEMMA Sizes ==
  ASSUME RunnerTypeOK
  PROVE  /\ Cardinality(Mints) \in Nat
         /\ IterationBudget \in Nat /\ iterations_used \in Nat
         /\ iterations_used <= IterationBudget
         /\ \A s \in SUBSET Mints :
              IsFiniteSet(s) /\ Cardinality(s) \in Nat
              /\ Cardinality(s) <= Cardinality(Mints)
         /\ \A s \in SUBSET Mints : \A m \in s : Cardinality(s \ {m}) = Cardinality(s) - 1
<1>1. IsFiniteSet(Mints) /\ Cardinality(Mints) \in Nat
  BY MintsAssumption, FS_CardinalityType
<1>2. ASSUME NEW s \in SUBSET Mints
      PROVE  IsFiniteSet(s) /\ Cardinality(s) \in Nat /\ Cardinality(s) <= Cardinality(Mints)
  BY <1>1, FS_Subset, FS_CardinalityType
<1>3. ASSUME NEW s \in SUBSET Mints, NEW m \in s
      PROVE  Cardinality(s \ {m}) = Cardinality(s) - 1
  BY <1>2, FS_RemoveElement
<1>4. /\ IterationBudget \in Nat /\ iterations_used \in Nat
      /\ iterations_used <= IterationBudget
  BY BudgetAssumption DEF RunnerTypeOK
<1> QED BY <1>1, <1>2, <1>3, <1>4

(* Every step of execute_run itself.                                        *)
LEMMA StepCounts ==
  ASSUME TypeInv, Proceed
  PROVE  StepsLeft' < StepsLeft
<1> DEFINE n == Cardinality(Mints)
<1>a. /\ n \in Nat /\ IterationBudget \in Nat /\ iterations_used \in Nat
      /\ iterations_used <= IterationBudget
      /\ RunnerTypeOK /\ toFlatten \subseteq Mints
  BY Sizes DEF TypeInv, RunnerTypeOK
<1>b. AfterLoop \in {"flatten", "finalize"}
  BY StepNames
<1>c. ASSUME pc \in InLoop, pc' \in {"flatten", "finalize"} PROVE StepsLeft' < StepsLeft
  BY <1>a, <1>c, StepsLeftAt, StepsLeftThen DEF InLoop, LoopSteps
<1>1. ASSUME Start PROVE StepsLeft' < StepsLeft
  BY <1>a, <1>1, StepsLeftAt, StepsLeftThen DEF Start, memory
<1>2. ASSUME Observe PROVE StepsLeft' < StepsLeft
  BY <1>a, <1>2, StepsLeftAt, StepsLeftThen DEF Observe, Emit, memory
<1>3. ASSUME CheckBudget PROVE StepsLeft' < StepsLeft
  <2>1. pc = "budget" /\ (pc' = AfterLoop \/ pc' = "decide") /\ UNCHANGED iterations_used
    BY <1>3 DEF CheckBudget, Emit, memory
  <2> QED BY <1>a, <1>b, <1>c, <2>1, StepsLeftAt, StepsLeftThen DEF InLoop, LoopSteps
<1>4. ASSUME NEW d, DecideFails(d) \/ DecideFinish(d) PROVE StepsLeft' < StepsLeft
  <2>1. pc = "decide" /\ pc' = AfterLoop
    BY <1>4 DEF DecideFails, DecideFinish, Emit
  <2> QED BY <1>b, <1>c, <2>1 DEF InLoop, LoopSteps
<1>5. ASSUME NEW d, Decide(d) PROVE StepsLeft' < StepsLeft
  BY <1>a, <1>5, StepsLeftAt, StepsLeftThen DEF Decide, Emit
<1>6. ASSUME FatalError PROVE StepsLeft' < StepsLeft
  <2>1. pc = "validate" /\ pc' = AfterLoop
    BY <1>6 DEF FatalError, Emit
  <2> QED BY <1>b, <1>c, <2>1 DEF InLoop, LoopSteps
<1>7. ASSUME NEW valid \in BOOLEAN, Validate(valid) PROVE StepsLeft' < StepsLeft
  <2>1. /\ pc = "validate" /\ pc' = (IF valid THEN "execute" ELSE "observe")
        /\ iterations_used' = (IF valid THEN iterations_used ELSE iterations_used + 1)
    BY <1>7 DEF Validate, Emit, AfterValidation, UsedAfterValidation
  <2> QED BY <1>a, <2>1, StepsLeftAt, StepsLeftThen
<1>8. ASSUME NEW executed \in BOOLEAN, Execute(executed) PROVE StepsLeft' < StepsLeft
  <2>1. pc = "execute" /\ pc' = "observe" /\ iterations_used' = iterations_used + 1
    BY <1>8 DEF Execute, Emit
  <2> QED BY <1>a, <2>1, StepsLeftAt, StepsLeftThen
<1>9. ASSUME NEW balances \in SUBSET Mints, FlattenRead(balances) PROVE StepsLeft' < StepsLeft
  <2>1. pc = "flatten" /\ pc' = "flattening" /\ toFlatten' = balances
    BY <1>9 DEF FlattenRead
  <2>2. Cardinality(balances) \in Nat /\ Cardinality(balances) <= n
    BY <1>a, Sizes
  <2> QED BY <1>a, <2>1, <2>2, StepsLeftAt, StepsLeftThen
<1>10. ASSUME FlattenReadFails PROVE StepsLeft' < StepsLeft
  BY <1>a, <1>10, StepsLeftAt, StepsLeftThen DEF FlattenReadFails, Emit
<1>11. ASSUME NEW m \in Mints, NEW success \in BOOLEAN, Flatten(m, success)
       PROVE  StepsLeft' < StepsLeft
  <2>1. pc = "flattening" /\ pc' = pc /\ m \in toFlatten /\ toFlatten' = toFlatten \ {m}
    BY <1>11 DEF Flatten
  <2>2. /\ Cardinality(toFlatten) \in Nat
        /\ Cardinality(toFlatten \ {m}) = Cardinality(toFlatten) - 1
    BY <1>a, <2>1, Sizes
  <2> QED BY <2>1, <2>2, StepsLeftAt, StepsLeftThen
<1>12. ASSUME FlattenEnds PROVE StepsLeft' < StepsLeft
  <2>1. pc = "flattening" /\ pc' = "finalize" /\ Cardinality(toFlatten) \in Nat
    BY <1>a, <1>12, Sizes DEF FlattenEnds
  <2> QED BY <2>1, StepsLeftAt, StepsLeftThen
<1>13. ASSUME NEW balances \in SUBSET Mints, Finalize(balances) PROVE StepsLeft' < StepsLeft
  BY <1>13, StepsLeftAt, StepsLeftThen DEF Finalize, Emit
<1>14. ASSUME Onchain PROVE StepsLeft' < StepsLeft
  <2>1. pc = "onchain" /\ pc' = "commit"
    BY <1>14 DEF Onchain, Emit
  <2> QED BY <2>1, StepsLeftAt, StepsLeftThen
<1>15. ASSUME Commit PROVE StepsLeft' < StepsLeft
  BY <1>15, StepsLeftAt, StepsLeftThen DEF Commit
<1>16. ASSUME EmitEvidence PROVE StepsLeft' < StepsLeft
  BY <1>16, StepsLeftAt, StepsLeftThen DEF EmitEvidence
<1> QED
  BY <1>1, <1>2, <1>3, <1>4, <1>5, <1>6, <1>7, <1>8, <1>9, <1>10, <1>11, <1>12, <1>13,
     <1>14, <1>15, <1>16 DEF Proceed

(* A run of any budget over any number of tokens has so many steps left and *)
(* no more, as every step of its own takes one away and nothing else adds   *)
(* any: whatever it runs into, it ends if it goes on.                       *)
THEOREM StepsRunOut == Spec => EveryStepCounts
<1>1. ASSUME IInv, [Next]_vars
      PROVE  [IF Proceed THEN StepsLeft' < StepsLeft ELSE StepsLeft' <= StepsLeft]_vars
  <2>1. TypeInv /\ RunnerTypeOK
    BY <1>1 DEF IInv, TypeInv
  <2>2. StepsLeft \in Nat
    <3>1. /\ Cardinality(Mints) \in Nat /\ Cardinality(toFlatten) \in Nat
          /\ IterationBudget - iterations_used \in Nat
      BY <2>1, Sizes DEF RunnerTypeOK
    <3>2. pc \in Steps
      BY <2>1 DEF RunnerTypeOK
    <3> QED BY <3>1, <3>2, StepsLeftAt DEF Steps, LoopSteps
  <2>3. CASE Proceed
    BY <2>1, <2>3, StepCounts
  <2>4. CASE Crash
    <3>1. pc' = "crashed"
      BY <2>4 DEF Crash
    <3> QED BY <2>1, <2>2, <2>3, <3>1, StepCounts, StepsLeftThen
  <2>5. CASE QuoteAges \/ Cluster
    <3>1. UNCHANGED <<pc, iterations_used, toFlatten>>
      BY <2>5 DEF QuoteAges, Cluster, Land, Expire, memory
    <3>2. StepsLeft' = StepsLeft
      BY <3>1 DEF StepsLeft
    <3> QED BY <2>1, <2>2, <2>3, <3>2, StepCounts
  <2> QED BY <1>1, <2>3, <2>4, <2>5 DEF Next
<1> QED BY <1>1, RunnerInvariant, PTL DEF Spec, EveryStepCounts
=============================================================================
