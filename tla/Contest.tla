------------------------------ MODULE Contest -------------------------------
(***************************************************************************)
(* What a challenge promises, without accounts, statuses, counters or the   *)
(* lists a caller passes: a contest is opened for a number of contestants,  *)
(* each contestant's result is recorded once, and when all results are in   *)
(* it is decided once, for the best of them.                                *)
(***************************************************************************)
EXTENDS SettlementRule, FiniteSets

CONSTANTS
  Contests,      \* contest identifiers
  Contestants    \* contestant identifiers

VARIABLES
  quota,    \* number of results a contest waits for, 0 while it is not open
  result,   \* result of each contest and contestant, None until recorded
  decision  \* the set holding the contest's winner, empty until it is decided

contestVars == <<quota, result, decision>>

Submitted(c) == {a \in Contestants : result[c][a] # None}

(* The winner is an eligible result no other one beats; there is none only  *)
(* when no result is eligible.                                              *)
BestOf(c, w) ==
  \/ w = None /\ \A a \in Submitted(c) : ~Eligible(result[c][a])
  \/ /\ w \in Submitted(c)
     /\ Eligible(result[c][w])
     /\ \A a \in Submitted(c) :
          Eligible(result[c][a]) => ~Beats(result[c][a], result[c][w])

ContestInit ==
  /\ quota = [c \in Contests |-> 0]
  /\ result = [c \in Contests |-> [a \in Contestants |-> None]]
  /\ decision = [c \in Contests |-> {}]

(* Any positive number of contestants.                                      *)
Open(c) ==
  /\ quota[c] = 0
  /\ quota'[c] \in Nat \ {0}
  /\ quota' = [quota EXCEPT ![c] = quota'[c]]
  /\ UNCHANGED <<result, decision>>

(* Any result.                                                              *)
Submit(c, a) ==
  /\ result[c][a] = None
  /\ Cardinality(Submitted(c)) < quota[c]
  /\ result'[c][a] \in Result
  /\ result' = [result EXCEPT ![c][a] = result'[c][a]]
  /\ UNCHANGED <<quota, decision>>

Decide(c, w) ==
  /\ quota[c] > 0
  /\ decision[c] = {}
  /\ Cardinality(Submitted(c)) = quota[c]
  /\ BestOf(c, w)
  /\ decision' = [decision EXCEPT ![c] = {w}]
  /\ UNCHANGED <<quota, result>>

ContestNext ==
  \E c \in Contests :
    \/ Open(c)
    \/ \E a \in Contestants : Submit(c, a)
    \/ \E w \in OptionOf(Contestants) : Decide(c, w)

ContestSpec == ContestInit /\ [][ContestNext]_contestVars
=============================================================================
