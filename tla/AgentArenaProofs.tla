-------------------------- MODULE AgentArenaProofs --------------------------
(***************************************************************************)
(* What the on-chain program guarantees for any signers, challenges, agents *)
(* and limit on contestants, by one inductive invariant.                    *)
(***************************************************************************)
EXTENDS AgentArena, FiniteSetTheorems, FunctionTheorems, TLAPS

(* A run account carries its own agent id, and its three optional fields    *)
(* are set together, by finalize_run.                                       *)
RunShape(r, a) ==
  /\ r.agent_id = a
  /\ r.status = "completed" =>
       r.completion # None /\ r.ending_usdc # None /\ r.ended_at # None
  /\ r.status # "completed" =>
       r.completion = None /\ r.ending_usdc = None /\ r.ended_at = None

RunShapes == \A c \in Challenges, a \in AgentIds : RunShape(run[c][a], a)

(* The status of a challenge against its counters.                          *)
StatusShape(ch) ==
  /\ ch.status = "absent" => ch = NoChallenge
  /\ ch.status # "absent" => ch.num_contestants > 0 /\ ch.authority \in Signers
  /\ ch.status = "active" => ch.num_enrolled = ch.num_contestants
  /\ ch.status \in {"pending", "active"} => ch.num_finalized < ch.num_contestants
  /\ ch.status \in {"settling", "completed"} => ch.num_finalized = ch.num_contestants

StatusShapes == \A c \in Challenges : StatusShape(challenge[c])

(* CountersMatchRuns and WinnerIsBest, for one challenge.                   *)
CountersOf(c) ==
  /\ IsFiniteSet(Enrolled(c))
  /\ challenge[c].num_enrolled = Cardinality(Enrolled(c))
  /\ challenge[c].num_finalized = Cardinality(Finalized(c))
  /\ challenge[c].num_enrolled <= challenge[c].num_contestants
  /\ challenge[c].num_contestants <= MaxContestants

WinnerOf(c) ==
  LET w == challenge[c].winner_agent_id
  IN challenge[c].status = "completed" =>
       \/ /\ w = None
          /\ \A a \in Enrolled(c) : ~Eligible(run[c][a])
       \/ /\ w \in Enrolled(c) /\ Eligible(run[c][w])
          /\ \A a \in Enrolled(c) :
               Eligible(run[c][a]) => ~Beats(run[c][a], run[c][w])

IInv ==
  /\ TypeOK
  /\ RunShapes
  /\ StatusShapes
  /\ CountersMatchRuns
  /\ WinnerIsBest

-----------------------------------------------------------------------------
(* Type correctness.                                                        *)

LEMMA InitType == Init => TypeOK
<1> SUFFICES ASSUME Init PROVE TypeOK
  OBVIOUS
<1>1. NoChallenge \in ChallengeAccount
  BY DEF NoChallenge, ChallengeAccount, ChallengeStatuses, OptionOf
<1>2. \A a \in AgentIds : RunWithStatus("absent", a) \in RunAccount
  BY DEF RunWithStatus, RunAccount, RunStatuses, OptionOf
<1> QED
  BY <1>1, <1>2 DEF Init, TypeOK, RegistryInit, RegistryTypeOK, OptionOf

LEMMA NextType == TypeOK /\ [Next]_vars => TypeOK'
<1> SUFFICES ASSUME TypeOK, [Next]_vars PROVE TypeOK'
  OBVIOUS
<1> USE DEF TypeOK
<1>1. CASE RegistryNext /\ UNCHANGED <<challenge, run, now>>
  <2>1. ASSUME NEW s \in Signers, Initialize(s) PROVE RegistryTypeOK'
    BY <2>1 DEF Initialize, RegistryTypeOK, OptionOf
  <2>2. ASSUME NEW s \in Signers, NEW a \in AgentIds, RegisterStrategy(s, a)
        PROVE  RegistryTypeOK'
    <3>1. <<s, a>> \in Signers \X AgentIds
      OBVIOUS
    <3> QED BY <2>2, <3>1 DEF RegisterStrategy, RegistryTypeOK
  <2>3. RegistryTypeOK'
    BY <1>1, <2>1, <2>2 DEF RegistryNext
  <2> QED BY <1>1, <2>3
<1>2. ASSUME NEW s \in Signers, NEW c \in Challenges, NEW n \in 1..MaxContestants,
             CreateChallenge(s, c, n)
      PROVE  TypeOK'
  <2>1. [NoChallenge EXCEPT !.authority = s, !.status = "pending",
                            !.num_contestants = n] \in ChallengeAccount
    <3>1. NoChallenge \in ChallengeAccount
      BY DEF NoChallenge, ChallengeAccount, ChallengeStatuses, OptionOf
    <3>2. n \in Nat
      BY LimitAssumption
    <3> QED BY <3>1, <3>2 DEF ChallengeAccount, ChallengeStatuses, OptionOf
  <2> QED BY <1>2, <2>1 DEF CreateChallenge, RegistryTypeOK
<1>3. ASSUME NEW s \in Signers, NEW c \in Challenges, NEW a \in AgentIds,
             CreateRun(s, c, a)
      PROVE  TypeOK'
  <2>1. RunWithStatus("pending", a) \in RunAccount
    BY DEF RunWithStatus, RunAccount, RunStatuses, OptionOf
  <2>2. [challenge[c] EXCEPT !.num_enrolled = @ + 1] \in ChallengeAccount
    BY DEF ChallengeAccount
  <2> QED BY <1>3, <2>1, <2>2 DEF CreateRun, RegistryTypeOK
<1>4. ASSUME NEW s \in Signers, NEW c \in Challenges, StartChallenge(s, c)
      PROVE  TypeOK'
  <2>1. [challenge[c] EXCEPT !.status = "active", !.started_at = now] \in ChallengeAccount
    BY DEF ChallengeAccount, ChallengeStatuses, OptionOf
  <2> QED BY <1>4, <2>1 DEF StartChallenge, RegistryTypeOK
<1>5. ASSUME NEW s \in Signers, NEW c \in Challenges, NEW a \in AgentIds,
             NEW usdc \in Balances, NEW completion \in Completions,
             FinalizeRun(s, c, a, usdc, completion)
      PROVE  TypeOK'
  <2> DEFINE r == [status |-> "completed", agent_id |-> a, completion |-> completion,
                   ending_usdc |-> usdc, ended_at |-> now]
             ch == [challenge[c] EXCEPT !.num_finalized = @ + 1]
             ch2 == [ch EXCEPT !.status = StatusAfterFinalize(ch)]
  <2>1. r \in RunAccount
    BY BalancesAssumption, CompletionsAssumption DEF RunAccount, RunStatuses, OptionOf
  <2>2. ch \in ChallengeAccount
    BY DEF ChallengeAccount
  <2>3. ch2 \in ChallengeAccount
    BY <2>2 DEF ChallengeAccount, ChallengeStatuses, StatusAfterFinalize
  <2> QED BY <1>5, <2>1, <2>3 DEF FinalizeRun, RegistryTypeOK
<1>6. ASSUME NEW s \in Signers, NEW c \in Challenges, NEW accounts \in AccountLists,
             NEW w \in AgentIds \cup {None}, SettleChallenge(s, c, accounts, w)
      PROVE  TypeOK'
  <2>1. [challenge[c] EXCEPT !.winner_agent_id = w, !.status = "completed",
                             !.ended_at = now] \in ChallengeAccount
    <3>1. /\ challenge[c] \in ChallengeAccount
          /\ w \in OptionOf(AgentIds) /\ "completed" \in ChallengeStatuses
          /\ now \in OptionOf(Nat)
      BY DEF ChallengeStatuses, OptionOf
    <3> QED BY <3>1 DEF ChallengeAccount
  <2> QED BY <1>6, <2>1 DEF SettleChallenge, Settleable, RegistryTypeOK
<1>7. CASE Tick
  BY <1>7 DEF Tick, RegistryTypeOK
<1>8. CASE UNCHANGED vars
  BY <1>8 DEF vars, RegistryTypeOK
<1> QED
  BY <1>1, <1>2, <1>3, <1>4, <1>5, <1>6, <1>7, <1>8 DEF Next, OptionOf

(* Every account stays well formed.                                         *)
THEOREM TypeCorrect == Spec => []TypeOK
BY InitType, NextType, PTL DEF Spec

-----------------------------------------------------------------------------
(* Facts about one challenge.                                               *)

LEMMA FinalizedWithinEnrolled ==
  ASSUME IInv, NEW c \in Challenges
  PROVE  /\ Finalized(c) \subseteq Enrolled(c)
         /\ IsFiniteSet(Finalized(c))
         /\ challenge[c].num_finalized <= challenge[c].num_enrolled
<1>1. Finalized(c) \subseteq Enrolled(c)
  BY DEF Finalized, Enrolled
<1>2. IsFiniteSet(Enrolled(c))
  BY DEF IInv, CountersMatchRuns
<1>3. IsFiniteSet(Finalized(c)) /\ Cardinality(Finalized(c)) <= Cardinality(Enrolled(c))
  BY <1>1, <1>2, FS_Subset
<1> QED BY <1>1, <1>3 DEF IInv, CountersMatchRuns

(* Once as many runs are finalized as contestants were declared, none is    *)
(* left.                                                                    *)
LEMMA AllInWhenQuotaMet ==
  ASSUME IInv, NEW c \in Challenges,
         challenge[c].num_finalized = challenge[c].num_contestants
  PROVE  /\ Finalized(c) = Enrolled(c)
         /\ challenge[c].num_enrolled = challenge[c].num_contestants
<1>1. /\ Finalized(c) \subseteq Enrolled(c)
      /\ challenge[c].num_finalized <= challenge[c].num_enrolled
  BY FinalizedWithinEnrolled
<1>2. challenge[c] \in ChallengeAccount
  BY DEF IInv, TypeOK
<1>3. challenge[c].num_enrolled = challenge[c].num_finalized
  BY <1>1, <1>2 DEF IInv, CountersMatchRuns, ChallengeAccount
<1>4. IsFiniteSet(Enrolled(c)) /\ Cardinality(Enrolled(c)) = Cardinality(Finalized(c))
  BY <1>3 DEF IInv, CountersMatchRuns
<1> QED BY <1>1, <1>3, <1>4, FS_Subset

LEMMA SettlingFromInvariant == IInv => SettlingMeansAllIn
<1> SUFFICES ASSUME IInv, NEW c \in Challenges
             PROVE  challenge[c].status \in {"settling", "completed"} <=>
                      /\ challenge[c].status # "absent"
                      /\ Cardinality(Finalized(c)) = challenge[c].num_contestants
                      /\ Finalized(c) = Enrolled(c)
  BY DEF SettlingMeansAllIn
<1>1. /\ challenge[c] \in ChallengeAccount
      /\ StatusShape(challenge[c])
      /\ challenge[c].num_finalized = Cardinality(Finalized(c))
  BY DEF IInv, TypeOK, StatusShapes, CountersMatchRuns
<1>2. challenge[c].status \in {"settling", "completed"} =>
        /\ Cardinality(Finalized(c)) = challenge[c].num_contestants
        /\ Finalized(c) = Enrolled(c)
  BY <1>1, AllInWhenQuotaMet DEF StatusShape
<1>3. /\ challenge[c].status # "absent"
      /\ Cardinality(Finalized(c)) = challenge[c].num_contestants
      => challenge[c].status \in {"settling", "completed"}
  BY <1>1 DEF StatusShape, ChallengeAccount, ChallengeStatuses
<1> QED BY <1>2, <1>3

(* A list settle_challenge admits holds every run of the challenge.         *)
LEMMA AdmissibleListsAll ==
  ASSUME IInv, NEW c \in Challenges, NEW accounts \in AccountLists,
         Admissible(c, accounts)
  PROVE  {accounts[k][2] : k \in DOMAIN accounts} = Enrolled(c)
<1> DEFINE n == Len(accounts)
           T == {accounts[k][2] : k \in 1..n}
           f == [k \in 1..n |-> accounts[k][2]]
<1>1. /\ accounts \in Seq(Challenges \X AgentIds)
      /\ n \in Nat /\ DOMAIN accounts = 1..n
  BY LimitAssumption DEF AccountLists
<1>2. T \subseteq Enrolled(c)
  BY <1>1 DEF Admissible, Enrolled
<1>3. \A k, m \in 1..n : accounts[k][2] = accounts[m][2] => k = m
  <2>1. SUFFICES ASSUME NEW k \in 1..n, NEW m \in 1..n, k # m
                 PROVE  accounts[k][2] # accounts[m][2]
    OBVIOUS
  <2>2. k < m \/ m < k
    BY <2>1
  <2> QED BY <1>1, <2>2 DEF Admissible
<1>4. f \in Bijection(1..n, T)
  BY <1>3, Fun_IsBij
<1>5. IsFiniteSet(1..n) /\ Cardinality(1..n) = n
  BY <1>1, FS_Interval
<1>6. Cardinality(T) = n
  BY <1>4, <1>5, FS_Bijection DEF ExistsBijection
<1>7. IsFiniteSet(Enrolled(c)) /\ Cardinality(Enrolled(c)) = n
  BY DEF IInv, CountersMatchRuns, Admissible
<1> HIDE DEF T, n
<1>8. T = Enrolled(c)
  BY <1>2, <1>6, <1>7, FS_Subset
<1> QED BY <1>1, <1>8 DEF T

-----------------------------------------------------------------------------
(* The invariant, one challenge at a time.                                  *)

ChallengeInv(c) ==
  /\ \A a \in AgentIds : RunShape(run[c][a], a)
  /\ StatusShape(challenge[c])
  /\ CountersOf(c)
  /\ WinnerOf(c)

LEMMA InvariantByChallenge == IInv <=> TypeOK /\ \A c \in Challenges : ChallengeInv(c)
BY DEF IInv, RunShapes, StatusShapes, CountersMatchRuns, WinnerIsBest,
       ChallengeInv, CountersOf, WinnerOf

LEMMA NextInvariantByChallenge ==
  ASSUME TypeOK', \A c \in Challenges : ChallengeInv(c)'
  PROVE  IInv'
BY DEF IInv, RunShapes, StatusShapes, CountersMatchRuns, WinnerIsBest,
       ChallengeInv, CountersOf, WinnerOf

LEMMA UntouchedChallenge ==
  ASSUME NEW d \in Challenges, ChallengeInv(d),
         challenge'[d] = challenge[d], run'[d] = run[d]
  PROVE  ChallengeInv(d)'
<1>1. Enrolled(d)' = Enrolled(d) /\ Finalized(d)' = Finalized(d)
  BY DEF Enrolled, Finalized
<1> QED BY <1>1 DEF ChallengeInv, CountersOf, WinnerOf

(* No challenge was created yet, whoever registered what.                   *)
LEMMA FreshInvariant ==
  ASSUME RegistryTypeOK, challenge = [c \in Challenges |-> NoChallenge],
         run = [c \in Challenges |-> [a \in AgentIds |-> RunWithStatus("absent", a)]],
         now = 0
  PROVE  IInv
<1>1. TypeOK
  <2>1. NoChallenge \in ChallengeAccount
    BY DEF NoChallenge, ChallengeAccount, ChallengeStatuses, OptionOf
  <2>2. \A a \in AgentIds : RunWithStatus("absent", a) \in RunAccount
    BY DEF RunWithStatus, RunAccount, RunStatuses, OptionOf
  <2> QED BY <2>1, <2>2 DEF TypeOK
<1>2. ASSUME NEW c \in Challenges PROVE ChallengeInv(c)
  <2>1. challenge[c] = NoChallenge
    OBVIOUS
  <2>2. \A a \in AgentIds : run[c][a] = RunWithStatus("absent", a)
    OBVIOUS
  <2>3. \A a \in AgentIds :
           /\ run[c][a].status = "absent" /\ run[c][a].agent_id = a
           /\ run[c][a].completion = None /\ run[c][a].ending_usdc = None
           /\ run[c][a].ended_at = None
    <3>1. SUFFICES ASSUME NEW a \in AgentIds
                   PROVE  /\ run[c][a].status = "absent" /\ run[c][a].agent_id = a
                          /\ run[c][a].completion = None /\ run[c][a].ending_usdc = None
                          /\ run[c][a].ended_at = None
      OBVIOUS
    <3> DEFINE r == RunWithStatus("absent", a)
    <3>2. /\ r.status = "absent" /\ r.agent_id = a
          /\ r.completion = None /\ r.ending_usdc = None /\ r.ended_at = None
      BY DEF RunWithStatus
    <3>3. run[c][a] = r
      BY <2>2
    <3> HIDE DEF r
    <3> QED BY <3>2, <3>3
  <2>4. Enrolled(c) = {} /\ Finalized(c) = {}
    BY <2>3 DEF Enrolled, Finalized
  <2>5. CountersOf(c)
    BY <2>1, <2>4, FS_EmptySet, LimitAssumption DEF CountersOf, NoChallenge
  <2>6. \A a \in AgentIds : RunShape(run[c][a], a)
    BY <2>3 DEF RunShape
  <2> QED BY <2>1, <2>5, <2>6 DEF ChallengeInv, StatusShape, WinnerOf, NoChallenge
<1> QED BY <1>1, <1>2, InvariantByChallenge

LEMMA InitInvariant == Init => IInv
<1> SUFFICES ASSUME Init PROVE IInv
  OBVIOUS
<1>1. RegistryTypeOK
  BY DEF Init, RegistryInit, RegistryTypeOK, OptionOf
<1> QED BY <1>1, FreshInvariant DEF Init

LEMMA CreateChallengeInvariant ==
  ASSUME IInv, TypeOK', NEW s \in Signers, NEW c \in Challenges,
         NEW n \in 1..MaxContestants, CreateChallenge(s, c, n)
  PROVE  IInv'
<1>1. ASSUME NEW d \in Challenges, d # c PROVE ChallengeInv(d)'
  BY <1>1, UntouchedChallenge, InvariantByChallenge DEF CreateChallenge, IInv, TypeOK
<1>2. ChallengeInv(c)
  BY InvariantByChallenge
<1>3. /\ challenge'[c].status = "pending" /\ challenge'[c].authority = s
      /\ challenge'[c].num_contestants = n /\ n \in Nat /\ n > 0 /\ n <= MaxContestants
      /\ challenge'[c].num_enrolled = 0 /\ challenge'[c].num_finalized = 0
      /\ run' = run
      /\ challenge[c] = NoChallenge
  BY <1>2, LimitAssumption
     DEF CreateChallenge, NoChallenge, IInv, TypeOK, ChallengeInv, StatusShape
<1>4. Enrolled(c)' = Enrolled(c) /\ Finalized(c)' = Finalized(c)
  BY <1>3 DEF Enrolled, Finalized
<1>5. CountersOf(c)'
  BY <1>2, <1>3, <1>4 DEF ChallengeInv, CountersOf, NoChallenge
<1>6. ChallengeInv(c)'
  BY <1>2, <1>3, <1>5 DEF ChallengeInv, StatusShape, WinnerOf
<1>7. \A d \in Challenges : ChallengeInv(d)'
  BY <1>1, <1>6
<1> QED BY <1>7, NextInvariantByChallenge

LEMMA CreateRunInvariant ==
  ASSUME IInv, TypeOK', NEW s \in Signers, NEW c \in Challenges,
         NEW a \in AgentIds, CreateRun(s, c, a)
  PROVE  IInv'
<1>1. ASSUME NEW d \in Challenges, d # c PROVE ChallengeInv(d)'
  BY <1>1, UntouchedChallenge, InvariantByChallenge DEF CreateRun, IInv, TypeOK
<1>2. ChallengeInv(c) /\ challenge[c] \in ChallengeAccount
  BY InvariantByChallenge DEF IInv, TypeOK
<1>3. challenge'[c] = [challenge[c] EXCEPT !.num_enrolled = @ + 1]
  BY DEF CreateRun, IInv, TypeOK
<1>4. run'[c] = [run[c] EXCEPT ![a] = RunWithStatus("pending", a)]
      /\ run[c] \in [AgentIds -> RunAccount]
  BY DEF CreateRun, IInv, TypeOK
<1>5. /\ challenge'[c].status = challenge[c].status
      /\ challenge'[c].authority = challenge[c].authority
      /\ challenge'[c].num_contestants = challenge[c].num_contestants
      /\ challenge'[c].num_enrolled = challenge[c].num_enrolled + 1
      /\ challenge'[c].num_finalized = challenge[c].num_finalized
  BY <1>2, <1>3 DEF ChallengeAccount
<1>6. /\ challenge[c].status \in {"pending", "active"}
      /\ challenge[c].num_enrolled < challenge[c].num_contestants
      /\ run[c][a].status = "absent"
  BY DEF CreateRun, CanEnroll
<1>7. /\ Enrolled(c)' = Enrolled(c) \cup {a} /\ a \notin Enrolled(c)
      /\ Finalized(c)' = Finalized(c)
  BY <1>4, <1>6 DEF Enrolled, Finalized, RunWithStatus
<1>8. IsFiniteSet(Enrolled(c)') /\ Cardinality(Enrolled(c)') = Cardinality(Enrolled(c)) + 1
  BY <1>2, <1>7, FS_AddElement DEF ChallengeInv, CountersOf
<1>9. CountersOf(c)'
  BY <1>2, <1>5, <1>6, <1>7, <1>8, LimitAssumption
     DEF ChallengeInv, CountersOf, ChallengeAccount
<1>10. \A b \in AgentIds : RunShape(run'[c][b], b)
  BY <1>2, <1>4 DEF ChallengeInv, RunShape, RunWithStatus
<1>11. StatusShape(challenge'[c])
  <2>1. challenge[c].status # "active"
    BY <1>2, <1>6 DEF ChallengeInv, StatusShape, ChallengeAccount
  <2> QED BY <1>2, <1>5, <1>6, <2>1 DEF ChallengeInv, StatusShape
<1>12. WinnerOf(c)'
  BY <1>5, <1>6 DEF WinnerOf
<1>13. ChallengeInv(c)'
  BY <1>9, <1>10, <1>11, <1>12 DEF ChallengeInv
<1>14. \A d \in Challenges : ChallengeInv(d)'
  BY <1>1, <1>13
<1> QED BY <1>14, NextInvariantByChallenge

LEMMA StartChallengeInvariant ==
  ASSUME IInv, TypeOK', NEW s \in Signers, NEW c \in Challenges,
         StartChallenge(s, c)
  PROVE  IInv'
<1>1. ASSUME NEW d \in Challenges, d # c PROVE ChallengeInv(d)'
  BY <1>1, UntouchedChallenge, InvariantByChallenge DEF StartChallenge, IInv, TypeOK
<1>2. ChallengeInv(c) /\ challenge[c] \in ChallengeAccount
  BY InvariantByChallenge DEF IInv, TypeOK
<1>3. /\ challenge'[c].status = "active" /\ challenge[c].status = "pending"
      /\ challenge[c].num_enrolled = challenge[c].num_contestants
      /\ challenge'[c].authority = challenge[c].authority
      /\ challenge'[c].num_contestants = challenge[c].num_contestants
      /\ challenge'[c].num_enrolled = challenge[c].num_enrolled
      /\ challenge'[c].num_finalized = challenge[c].num_finalized
      /\ run' = run
  BY <1>2 DEF StartChallenge, IInv, TypeOK, ChallengeAccount
<1>4. Enrolled(c)' = Enrolled(c) /\ Finalized(c)' = Finalized(c)
  BY <1>3 DEF Enrolled, Finalized
<1>5. CountersOf(c)'
  BY <1>2, <1>3, <1>4 DEF ChallengeInv, CountersOf
<1>6. ChallengeInv(c)'
  BY <1>2, <1>3, <1>5 DEF ChallengeInv, StatusShape, WinnerOf
<1>7. \A d \in Challenges : ChallengeInv(d)'
  BY <1>1, <1>6
<1> QED BY <1>7, NextInvariantByChallenge

(* The last run finalized moves the challenge to settling; no earlier one   *)
(* does, and none can be finalized after.                                   *)
LEMMA FinalizeRunInvariant ==
  ASSUME IInv, TypeOK', NEW s \in Signers, NEW c \in Challenges, NEW a \in AgentIds,
         NEW usdc \in Balances, NEW completion \in Completions,
         FinalizeRun(s, c, a, usdc, completion)
  PROVE  IInv'
<1> DEFINE r == [status |-> "completed", agent_id |-> a, completion |-> completion,
                 ending_usdc |-> usdc, ended_at |-> now]
           ch == [challenge[c] EXCEPT !.num_finalized = @ + 1]
<1>1. ASSUME NEW d \in Challenges, d # c PROVE ChallengeInv(d)'
  BY <1>1, UntouchedChallenge, InvariantByChallenge DEF FinalizeRun, IInv, TypeOK
<1>2. ChallengeInv(c) /\ challenge[c] \in ChallengeAccount
  BY InvariantByChallenge DEF IInv, TypeOK
<1>3. challenge'[c] = [ch EXCEPT !.status = StatusAfterFinalize(ch)]
  BY DEF FinalizeRun, IInv, TypeOK
<1>4. run'[c] = [run[c] EXCEPT ![a] = r] /\ run[c] \in [AgentIds -> RunAccount]
  BY DEF FinalizeRun, IInv, TypeOK
<1>5. /\ ch \in ChallengeAccount
      /\ ch.num_finalized = challenge[c].num_finalized + 1
      /\ ch.num_contestants = challenge[c].num_contestants
      /\ ch.status = challenge[c].status /\ ch.authority = challenge[c].authority
      /\ ch.num_enrolled = challenge[c].num_enrolled
  BY <1>2 DEF ChallengeAccount
<1>6. /\ challenge'[c].status = StatusAfterFinalize(ch)
      /\ challenge'[c].authority = challenge[c].authority
      /\ challenge'[c].num_contestants = challenge[c].num_contestants
      /\ challenge'[c].num_enrolled = challenge[c].num_enrolled
      /\ challenge'[c].num_finalized = challenge[c].num_finalized + 1
  BY <1>3, <1>5 DEF ChallengeAccount
<1>7. run[c][a].status = "pending" /\ challenge[c].authority # None
  BY SignersAssumption DEF FinalizeRun, Finalizable
<1>8. a \in Enrolled(c) /\ a \notin Finalized(c)
  BY <1>7 DEF Enrolled, Finalized
<1>9. challenge[c].status \in {"pending", "active"}
  <2>1. challenge[c].status \notin {"settling", "completed"}
    BY <1>2, <1>8, AllInWhenQuotaMet DEF ChallengeInv, StatusShape
  <2>2. challenge[c].status # "absent"
    BY <1>2, <1>7 DEF ChallengeInv, StatusShape, NoChallenge
  <2> QED BY <1>2, <2>1, <2>2 DEF ChallengeAccount, ChallengeStatuses
<1>10. /\ Enrolled(c)' = Enrolled(c)
       /\ Finalized(c)' = Finalized(c) \cup {a}
  BY <1>4, <1>8 DEF Enrolled, Finalized
<1>11. Cardinality(Finalized(c)') = Cardinality(Finalized(c)) + 1
  BY <1>8, <1>10, FinalizedWithinEnrolled, FS_AddElement
<1>12. CountersOf(c)'
  BY <1>2, <1>6, <1>10, <1>11 DEF ChallengeInv, CountersOf
<1>13. \A b \in AgentIds : RunShape(run'[c][b], b)
  <2>1. completion # None /\ usdc # None /\ now # None
    BY NoneAssumption, BalancesAssumption, CompletionsAssumption, NoneNotAStatus
       DEF IInv, TypeOK
  <2>2. RunShape(r, a)
    BY <2>1 DEF RunShape
  <2>3. \A b \in AgentIds : b # a => run'[c][b] = run[c][b]
    BY <1>4
  <2>4. run'[c][a] = r
    BY <1>4
  <2> QED BY <1>2, <2>2, <2>3, <2>4 DEF ChallengeInv
<1>14. StatusShape(challenge'[c])
  <2>1. challenge[c].num_finalized < challenge[c].num_contestants
    BY <1>2, <1>9 DEF ChallengeInv, StatusShape
  <2>2. CASE ch.num_finalized = ch.num_contestants
    BY <1>2, <1>5, <1>6, <1>9, <2>2
       DEF StatusAfterFinalize, StatusShape, ChallengeInv, ChallengeAccount
  <2>3. CASE ch.num_finalized # ch.num_contestants
    BY <1>2, <1>5, <1>6, <1>9, <2>1, <2>3
       DEF StatusAfterFinalize, StatusShape, ChallengeInv, ChallengeAccount
  <2> QED BY <2>2, <2>3
<1>15. WinnerOf(c)'
  BY <1>5, <1>6, <1>9 DEF WinnerOf, StatusAfterFinalize
<1>16. ChallengeInv(c)'
  BY <1>12, <1>13, <1>14, <1>15 DEF ChallengeInv
<1>17. \A d \in Challenges : ChallengeInv(d)'
  BY <1>1, <1>16
<1> QED BY <1>17, NextInvariantByChallenge

(* Every run is in the list, so the best of the list is the best of all.    *)
LEMMA SettleChallengeInvariant ==
  ASSUME IInv, TypeOK', NEW s \in Signers, NEW c \in Challenges,
         NEW accounts \in AccountLists, NEW w \in OptionOf(AgentIds),
         SettleChallenge(s, c, accounts, w)
  PROVE  IInv'
<1>1. ASSUME NEW d \in Challenges, d # c PROVE ChallengeInv(d)'
  BY <1>1, UntouchedChallenge, InvariantByChallenge DEF SettleChallenge, Settleable, IInv, TypeOK
<1>2. ChallengeInv(c) /\ challenge[c] \in ChallengeAccount
  BY InvariantByChallenge DEF IInv, TypeOK
<1>3. /\ challenge'[c].status = "completed" /\ challenge[c].status = "settling"
      /\ challenge'[c].winner_agent_id = w
      /\ challenge'[c].authority = challenge[c].authority
      /\ challenge'[c].num_contestants = challenge[c].num_contestants
      /\ challenge'[c].num_enrolled = challenge[c].num_enrolled
      /\ challenge'[c].num_finalized = challenge[c].num_finalized
      /\ run' = run
  BY <1>2 DEF SettleChallenge, Settleable, IInv, TypeOK, ChallengeAccount
<1>4. Enrolled(c)' = Enrolled(c) /\ Finalized(c)' = Finalized(c)
  BY <1>3 DEF Enrolled, Finalized
<1>5. CountersOf(c)'
  BY <1>2, <1>3, <1>4 DEF ChallengeInv, CountersOf
<1> DEFINE list == RunsListed(accounts)
<1>6. /\ DOMAIN list = DOMAIN accounts
      /\ \A k \in DOMAIN accounts : list[k] = run[c][accounts[k][2]]
      /\ IsWinner(list, w)
  BY DEF RunsListed, SettleChallenge, Settleable, Admissible
<1>7. Enrolled(c) = {accounts[k][2] : k \in DOMAIN accounts}
  BY AdmissibleListsAll DEF SettleChallenge, Settleable
<1>8. WinnerOf(c)'
  <2> HIDE DEF list
  <2>1. CASE w = None /\ \A k \in DOMAIN list : ~Eligible(list[k])
    <3>1. \A a \in Enrolled(c) : ~Eligible(run[c][a])
      BY <1>6, <1>7, <2>1
    <3> QED BY <1>3, <1>4, <2>1, <3>1 DEF WinnerOf
  <2>2. CASE \E k \in DOMAIN list : WinsAt(list, k) /\ w = list[k].agent_id
    <3>1. PICK k \in DOMAIN list : WinsAt(list, k) /\ w = list[k].agent_id
      BY <2>2
    <3>2. accounts[k][2] \in Enrolled(c) /\ accounts[k][2] \in AgentIds
      BY <1>6, <1>7, <3>1 DEF Enrolled
    <3>3. w = accounts[k][2] /\ list[k] = run[c][w]
      BY <1>2, <1>6, <3>1, <3>2 DEF ChallengeInv, RunShape
    <3>4. Eligible(run[c][w])
      BY <3>1, <3>3 DEF WinsAt
    <3>5. \A a \in Enrolled(c) : Eligible(run[c][a]) => ~Beats(run[c][a], run[c][w])
      <4>1. SUFFICES ASSUME NEW a \in Enrolled(c), Eligible(run[c][a])
                     PROVE  ~Beats(run[c][a], run[c][w])
        OBVIOUS
      <4>2. PICK m \in DOMAIN list : list[m] = run[c][a]
        BY <1>6, <1>7
      <4> QED BY <3>1, <3>3, <4>1, <4>2 DEF WinsAt
    <3> QED BY <1>3, <1>4, <3>2, <3>3, <3>4, <3>5 DEF WinnerOf
  <2> QED BY <1>6, <2>1, <2>2 DEF IsWinner
<1>9. ChallengeInv(c)'
  BY <1>2, <1>3, <1>5, <1>8 DEF ChallengeInv, StatusShape
<1>10. \A d \in Challenges : ChallengeInv(d)'
  BY <1>1, <1>9
<1> QED BY <1>10, NextInvariantByChallenge

LEMMA StepInvariant == IInv /\ [Next]_vars => IInv'
<1> SUFFICES ASSUME IInv, [Next]_vars PROVE IInv'
  OBVIOUS
<1>1. TypeOK'
  BY NextType DEF IInv
<1>2. CASE UNCHANGED <<challenge, run>>
  <2>1. \A d \in Challenges : ChallengeInv(d)'
    BY <1>2, UntouchedChallenge, InvariantByChallenge
  <2> QED BY <1>1, <2>1, NextInvariantByChallenge
<1>3. CASE \/ Tick
           \/ RegistryNext /\ UNCHANGED <<challenge, run, now>>
           \/ UNCHANGED vars
  BY <1>2, <1>3 DEF Tick, vars
<1>4. CASE \E s \in Signers, c \in Challenges :
             \/ \E n \in 1..MaxContestants : CreateChallenge(s, c, n)
             \/ StartChallenge(s, c)
  BY <1>1, <1>4, CreateChallengeInvariant, StartChallengeInvariant
<1>5. CASE \E s \in Signers, c \in Challenges, a \in AgentIds :
             \/ CreateRun(s, c, a)
             \/ \E usdc \in Balances, completion \in Completions :
                  FinalizeRun(s, c, a, usdc, completion)
  BY <1>1, <1>5, CreateRunInvariant, FinalizeRunInvariant
<1>6. CASE \E s \in Signers, c \in Challenges, accounts \in AccountLists,
             w \in OptionOf(AgentIds) : SettleChallenge(s, c, accounts, w)
  BY <1>1, <1>6, SettleChallengeInvariant
<1> QED BY <1>3, <1>4, <1>5, <1>6 DEF Next

THEOREM Invariant == Spec => []IInv
BY InitInvariant, StepInvariant, PTL DEF Spec

(* The counters of a challenge count its runs, for any number of them up to *)
(* the limit: no checked_add of the program can overflow.                   *)
THEOREM CountersCorrect == Spec => []CountersMatchRuns
<1>1. IInv => CountersMatchRuns
  BY DEF IInv
<1> QED BY <1>1, Invariant, PTL

(* A challenge reaches settlement exactly when every declared contestant    *)
(* was enrolled and finalized.                                              *)
THEOREM SettlesWhenAllIn == Spec => []SettlingMeansAllIn
BY SettlingFromInvariant, Invariant, PTL

(* The winner recorded is the best of all the runs of the challenge.        *)
THEOREM WinnerCorrect == Spec => []WinnerIsBest
<1>1. IInv => WinnerIsBest
  BY DEF IInv
<1> QED BY <1>1, Invariant, PTL

-----------------------------------------------------------------------------
(* What a step may never do.                                                *)

Frozen ==
  \A c \in Challenges :
    /\ challenge[c].status = "completed" =>
         challenge'[c] = challenge[c] /\ run'[c] = run[c]
    /\ \A a \in AgentIds :
         run[c][a].status = "completed" => run'[c][a] = run[c][a]

LEMMA StepFrozen == IInv /\ [Next]_vars => Frozen
<1> SUFFICES ASSUME IInv, [Next]_vars PROVE Frozen
  OBVIOUS
<1> USE DEF Frozen
<1>1. CASE UNCHANGED <<challenge, run>>
  BY <1>1
<1>2. CASE \/ Tick
           \/ RegistryNext /\ UNCHANGED <<challenge, run, now>>
           \/ UNCHANGED vars
  BY <1>1, <1>2 DEF Tick, vars
<1>3. CASE \E s \in Signers, c \in Challenges :
             \/ \E n \in 1..MaxContestants : CreateChallenge(s, c, n)
             \/ StartChallenge(s, c)
  BY <1>3 DEF IInv, TypeOK, CreateChallenge, StartChallenge
<1>4. ASSUME NEW s \in Signers, NEW c \in Challenges, NEW a \in AgentIds,
             CreateRun(s, c, a)
      PROVE  Frozen
  BY <1>4 DEF IInv, TypeOK, CreateRun, CanEnroll
<1>5. ASSUME NEW s \in Signers, NEW c \in Challenges, NEW a \in AgentIds,
             NEW usdc \in Balances, NEW completion \in Completions,
             FinalizeRun(s, c, a, usdc, completion)
      PROVE  Frozen
  <2>1. challenge[c].status # "completed"
    <3>1. run[c][a].status = "pending"
      BY <1>5 DEF FinalizeRun, Finalizable
    <3>2. a \in Enrolled(c) /\ a \notin Finalized(c)
      BY <3>1 DEF Enrolled, Finalized
    <3> QED BY <3>2, SettlingFromInvariant DEF SettlingMeansAllIn
  <2> QED BY <1>5, <2>1 DEF IInv, TypeOK, FinalizeRun, Finalizable
<1>6. CASE \E s \in Signers, c \in Challenges, accounts \in AccountLists,
             w \in OptionOf(AgentIds) : SettleChallenge(s, c, accounts, w)
  BY <1>6 DEF IInv, TypeOK, SettleChallenge, Settleable
<1> QED BY <1>2, <1>3, <1>4, <1>5, <1>6 DEF Next

(* Whatever any signer sends, a settled challenge and a finalized run keep  *)
(* what was recorded.                                                       *)
THEOREM SettlementStands == Spec => SettlementIsFinal
<1>1. IInv /\ [Next]_vars => [Frozen]_vars
  BY StepFrozen
<1>2. Spec => [][Frozen]_vars
  BY <1>1, Invariant, PTL DEF Spec
<1> QED BY <1>2 DEF SettlementIsFinal, Frozen

-----------------------------------------------------------------------------
(* The program implements the abstract contest: initial states map to       *)
(* initial states and every instruction to a step of the contest or to a    *)
(* stutter.                                                                 *)

(* The contest's copies of the operators it shares with the program.        *)
LEMMA SharedOperators ==
  /\ \A S : Contest!Cardinality(S) = Cardinality(S)
  /\ \A S : Contest!OptionOf(S) = OptionOf(S)
  /\ Contest!Result = Result
  /\ \A x : Contest!Eligible(x) <=> Eligible(x)
  /\ \A x, y : Contest!Beats(x, y) <=> Beats(x, y)
<1>1. \A S : Contest!Cardinality(S) = Cardinality(S)
  BY DEF Contest!Cardinality, Cardinality
<1>2. \A S : Contest!OptionOf(S) = OptionOf(S)
  BY DEF Contest!OptionOf, OptionOf
<1>3. Contest!Result = Result
  BY DEF Contest!Result, Result, Contest!CompletionStatuses, CompletionStatuses
<1>4. \A x : Contest!Eligible(x) <=> Eligible(x)
  BY DEF Contest!Eligible, Eligible
<1>5. \A x, y : Contest!Beats(x, y) <=> Beats(x, y)
  BY DEF Contest!Beats, Beats
<1> QED BY <1>1, <1>2, <1>3, <1>4, <1>5

(* The result of a run under the mapping, and when it exists.               *)
LEMMA ResultMapping ==
  ASSUME IInv, NEW c \in Challenges, NEW a \in AgentIds
  PROVE  /\ resultBar[c][a] = ResultOf(run[c][a])
         /\ run[c][a].status # "completed" => resultBar[c][a] = None
         /\ run[c][a].status = "completed" =>
              /\ resultBar[c][a] \in Result
              /\ resultBar[c][a] # None
              /\ resultBar[c][a].completion = run[c][a].completion
              /\ resultBar[c][a].ending_usdc = run[c][a].ending_usdc
              /\ resultBar[c][a].ended_at = run[c][a].ended_at
<1> DEFINE r == run[c][a]
<1>1. r \in RunAccount /\ RunShape(r, a)
  BY DEF IInv, TypeOK, RunShapes
<1>2. resultBar[c][a] = ResultOf(r)
  BY DEF resultBar
<1> HIDE DEF r
<1>3. r.status # "completed" => ResultOf(r) = None
  BY DEF ResultOf
<1>4. ASSUME r.status = "completed"
      PROVE  /\ ResultOf(r) \in Result
             /\ ResultOf(r).completion = r.completion
             /\ ResultOf(r).ending_usdc = r.ending_usdc
             /\ ResultOf(r).ended_at = r.ended_at
  <2>1. /\ r.completion \in CompletionStatuses
        /\ r.ending_usdc \in Nat /\ r.ended_at \in Nat
    BY <1>1, <1>4 DEF RunAccount, OptionOf, RunShape
  <2>2. ResultOf(r) = [completion |-> r.completion, ending_usdc |-> r.ending_usdc,
                       ended_at |-> r.ended_at]
    BY <1>4 DEF ResultOf
  <2> QED BY <2>1, <2>2 DEF Result
<1> QED BY <1>2, <1>3, <1>4, NoneNotAResult DEF r

LEMMA SubmittedIsFinalized ==
  ASSUME IInv, NEW c \in Challenges
  PROVE  Contest!Submitted(c) = Finalized(c)
BY ResultMapping DEF Contest!Submitted, Finalized

LEMMA InitRefines == Init => Contest!ContestInit
<1> SUFFICES ASSUME Init PROVE Contest!ContestInit
  OBVIOUS
<1>1. quotaBar = [c \in Challenges |-> 0] /\ decisionBar = [c \in Challenges |-> {}]
  BY DEF Init, quotaBar, decisionBar, NoChallenge
<1>2. \A c \in Challenges, a \in AgentIds : resultBar[c][a] = None
  <2>1. SUFFICES ASSUME NEW c \in Challenges, NEW a \in AgentIds
                 PROVE  resultBar[c][a] = None
    OBVIOUS
  <2>2. resultBar[c][a] = ResultOf(run[c][a])
    BY DEF resultBar
  <2> DEFINE r == RunWithStatus("absent", a)
  <2>3. run[c][a] = r
    BY DEF Init
  <2>4. r.status = "absent"
    BY DEF RunWithStatus
  <2> HIDE DEF r
  <2> QED BY <2>2, <2>3, <2>4 DEF ResultOf
<1>3. resultBar = [c \in Challenges |-> [a \in AgentIds |-> None]]
  BY <1>2 DEF resultBar
<1> QED BY <1>1, <1>3 DEF Contest!ContestInit

(* Instructions that open, enrol or start leave results and decisions.      *)
LEMMA CreateChallengeOpens ==
  ASSUME IInv, NEW s \in Signers, NEW c \in Challenges,
         NEW n \in 1..MaxContestants, CreateChallenge(s, c, n)
  PROVE  Contest!Open(c)
<1>1. /\ challenge[c] = NoChallenge /\ run' = run
      /\ \A d \in Challenges : d # c => challenge'[d] = challenge[d]
      /\ challenge'[c].status = "pending" /\ challenge'[c].num_contestants = n
  BY DEF CreateChallenge, IInv, TypeOK, StatusShapes, StatusShape, NoChallenge
<1>2. quotaBar[c] = 0 /\ quotaBar'[c] = n /\ n \in Nat \ {0}
  BY <1>1, LimitAssumption DEF quotaBar, NoChallenge
<1>3. quotaBar' = [quotaBar EXCEPT ![c] = quotaBar'[c]]
  BY <1>1 DEF quotaBar
<1>4. resultBar' = resultBar
  BY <1>1 DEF resultBar
<1>5. decisionBar' = decisionBar
  BY <1>1 DEF decisionBar, NoChallenge
<1> QED BY <1>2, <1>3, <1>4, <1>5 DEF Contest!Open

LEMMA CreateRunStutters ==
  ASSUME IInv, NEW s \in Signers, NEW c \in Challenges, NEW a \in AgentIds,
         CreateRun(s, c, a)
  PROVE  UNCHANGED <<quotaBar, resultBar, decisionBar>>
<1>1. /\ \A d \in Challenges :
           /\ challenge'[d].status = challenge[d].status
           /\ challenge'[d].num_contestants = challenge[d].num_contestants
           /\ challenge'[d].winner_agent_id = challenge[d].winner_agent_id
  BY DEF CreateRun, IInv, TypeOK, ChallengeAccount
<1>2. \A d \in Challenges, b \in AgentIds : ResultOf(run'[d][b]) = ResultOf(run[d][b])
  <2>1. SUFFICES ASSUME NEW d \in Challenges, NEW b \in AgentIds
                 PROVE  ResultOf(run'[d][b]) = ResultOf(run[d][b])
    OBVIOUS
  <2>2. CASE d = c /\ b = a
    <3> DEFINE r == RunWithStatus("pending", a)
    <3>1. run[c][a].status = "absent" /\ run'[c][a] = r
      BY DEF CreateRun, IInv, TypeOK
    <3>2. r.status = "pending"
      BY DEF RunWithStatus
    <3> HIDE DEF r
    <3> QED BY <2>2, <3>1, <3>2 DEF ResultOf
  <2>3. CASE ~(d = c /\ b = a)
    <3>1. run'[d][b] = run[d][b]
      BY <2>3 DEF CreateRun, IInv, TypeOK
    <3> QED BY <3>1
  <2> QED BY <2>2, <2>3
<1> QED BY <1>1, <1>2 DEF quotaBar, resultBar, decisionBar

LEMMA StartChallengeStutters ==
  ASSUME IInv, NEW s \in Signers, NEW c \in Challenges, StartChallenge(s, c)
  PROVE  UNCHANGED <<quotaBar, resultBar, decisionBar>>
<1>1. /\ \A d \in Challenges :
           /\ (challenge'[d].status = "completed") <=> (challenge[d].status = "completed")
           /\ challenge'[d].num_contestants = challenge[d].num_contestants
           /\ challenge'[d].winner_agent_id = challenge[d].winner_agent_id
      /\ run' = run
  BY DEF StartChallenge, IInv, TypeOK, ChallengeAccount
<1> QED BY <1>1 DEF quotaBar, resultBar, decisionBar

(* A run pending, so one result short of the quota: finalizing it records   *)
(* a result that was not there.                                             *)
LEMMA FinalizeRunSubmits ==
  ASSUME IInv, IInv', NEW s \in Signers, NEW c \in Challenges, NEW a \in AgentIds,
         NEW usdc \in Balances, NEW completion \in Completions,
         FinalizeRun(s, c, a, usdc, completion)
  PROVE  Contest!Submit(c, a)
<1>1. /\ run[c][a].status = "pending"
      /\ run'[c][a].status = "completed"
      /\ \A d \in Challenges, b \in AgentIds :
           ~(d = c /\ b = a) => run'[d][b] = run[d][b]
  BY DEF FinalizeRun, Finalizable, IInv, TypeOK
<1>2. a \in Enrolled(c) /\ a \notin Finalized(c)
  BY <1>1 DEF Enrolled, Finalized
<1>3. challenge[c].status \notin {"settling", "completed"}
  BY <1>2, SettlingFromInvariant DEF SettlingMeansAllIn
<1>4. /\ challenge[c] \in ChallengeAccount
      /\ StatusShape(challenge[c])
      /\ challenge[c].authority # None
      /\ challenge[c].num_finalized = Cardinality(Finalized(c))
  BY SignersAssumption DEF IInv, TypeOK, StatusShapes, CountersMatchRuns, FinalizeRun
<1>5. challenge[c].status \in {"pending", "active"}
  BY <1>3, <1>4 DEF StatusShape, NoChallenge, ChallengeAccount, ChallengeStatuses
<1>6. Cardinality(Contest!Submitted(c)) < quotaBar[c]
  BY <1>4, <1>5, SubmittedIsFinalized, SharedOperators DEF StatusShape, quotaBar
<1>7. resultBar[c][a] = None
  BY <1>1, ResultMapping
<1>8. resultBar'[c][a] \in Result
  <2> DEFINE r == run'[c][a]
  <2>1. r \in RunAccount /\ RunShape(r, a) /\ r.status = "completed"
    BY <1>1 DEF IInv, TypeOK, RunShapes
  <2>2. resultBar'[c][a] = ResultOf(r)
    BY DEF resultBar
  <2> HIDE DEF r
  <2>3. /\ r.completion \in CompletionStatuses
        /\ r.ending_usdc \in Nat /\ r.ended_at \in Nat
    BY <2>1 DEF RunAccount, OptionOf, RunShape
  <2> QED BY <2>1, <2>2, <2>3 DEF ResultOf, Result
<1>9. resultBar' = [resultBar EXCEPT ![c][a] = resultBar'[c][a]]
  <2>1. \A d \in Challenges, b \in AgentIds :
           ~(d = c /\ b = a) => resultBar'[d][b] = resultBar[d][b]
    BY <1>1 DEF resultBar
  <2>2. /\ resultBar = [d \in Challenges |-> [b \in AgentIds |-> resultBar[d][b]]]
        /\ resultBar' = [d \in Challenges |-> [b \in AgentIds |-> resultBar'[d][b]]]
    BY DEF resultBar
  <2> QED BY <2>1, <2>2
<1>10. \A d \in Challenges :
         /\ (challenge'[d].status = "completed") <=> (challenge[d].status = "completed")
         /\ challenge'[d].num_contestants = challenge[d].num_contestants
         /\ challenge'[d].winner_agent_id = challenge[d].winner_agent_id
  <2>1. SUFFICES ASSUME NEW d \in Challenges
                 PROVE  /\ (challenge'[d].status = "completed") <=>
                              (challenge[d].status = "completed")
                        /\ challenge'[d].num_contestants = challenge[d].num_contestants
                        /\ challenge'[d].winner_agent_id = challenge[d].winner_agent_id
    OBVIOUS
  <2>2. CASE d # c
    BY <2>2 DEF FinalizeRun, IInv, TypeOK
  <2>3. CASE d = c
    <3> DEFINE ch == [challenge[c] EXCEPT !.num_finalized = @ + 1]
    <3>1. challenge'[c] = [ch EXCEPT !.status = StatusAfterFinalize(ch)]
      BY DEF FinalizeRun, IInv, TypeOK
    <3> QED BY <1>4, <1>5, <2>3, <3>1 DEF ChallengeAccount, StatusAfterFinalize
  <2> QED BY <2>2, <2>3
<1>11. UNCHANGED <<quotaBar, decisionBar>>
  BY <1>10 DEF quotaBar, decisionBar
<1> QED BY <1>6, <1>7, <1>8, <1>9, <1>11, SharedOperators DEF Contest!Submit

(* Settlement is a decision: all results are in, and the winner recorded is *)
(* the best of them.                                                        *)
LEMMA SettleChallengeDecides ==
  ASSUME IInv, IInv', NEW s \in Signers, NEW c \in Challenges,
         NEW accounts \in AccountLists, NEW w \in OptionOf(AgentIds),
         SettleChallenge(s, c, accounts, w)
  PROVE  Contest!Decide(c, w)
<1>1. /\ challenge[c] \in ChallengeAccount
      /\ challenge[c].status = "settling"
      /\ challenge'[c].status = "completed" /\ challenge'[c].winner_agent_id = w
      /\ challenge'[c].num_contestants = challenge[c].num_contestants
      /\ \A d \in Challenges : d # c => challenge'[d] = challenge[d]
      /\ run' = run
  BY DEF SettleChallenge, Settleable, IInv, TypeOK, ChallengeAccount
<1>2. /\ Cardinality(Finalized(c)) = challenge[c].num_contestants
      /\ Finalized(c) = Enrolled(c)
  BY <1>1, SettlingFromInvariant DEF SettlingMeansAllIn
<1>3. Contest!Submitted(c) = Enrolled(c) /\ Enrolled(c)' = Enrolled(c)
  BY <1>1, <1>2, SubmittedIsFinalized DEF Enrolled
<1>4. quotaBar[c] > 0 /\ Cardinality(Contest!Submitted(c)) = quotaBar[c]
  <2>1. challenge[c].num_contestants > 0
    BY <1>1 DEF IInv, StatusShapes, StatusShape
  <2> QED BY <1>2, <1>3, <2>1, SharedOperators DEF quotaBar
<1>5. decisionBar[c] = {}
  BY <1>1 DEF decisionBar
<1>6. \A a \in Enrolled(c) :
        /\ a \in AgentIds
        /\ resultBar[c][a] = ResultOf(run[c][a])
        /\ run[c][a].status = "completed"
        /\ resultBar[c][a].completion = run[c][a].completion
        /\ resultBar[c][a].ending_usdc = run[c][a].ending_usdc
        /\ resultBar[c][a].ended_at = run[c][a].ended_at
  BY <1>2, ResultMapping DEF Finalized
<1>7. /\ \A a \in Enrolled(c) : Eligible(resultBar[c][a]) <=> Eligible(run[c][a])
      /\ \A a, b \in Enrolled(c) :
           Beats(resultBar[c][a], resultBar[c][b]) <=> Beats(run[c][a], run[c][b])
  BY <1>6 DEF Eligible, Beats
<1>8. \/ /\ w = None
         /\ \A a \in Enrolled(c) : ~Eligible(run[c][a])
      \/ /\ w \in Enrolled(c) /\ Eligible(run[c][w])
         /\ \A a \in Enrolled(c) :
              Eligible(run[c][a]) => ~Beats(run[c][a], run[c][w])
  BY <1>1, <1>3 DEF IInv, WinnerIsBest
<1>9. Contest!BestOf(c, w)
  BY <1>3, <1>7, <1>8, SharedOperators DEF Contest!BestOf
<1>10. decisionBar' = [decisionBar EXCEPT ![c] = {w}]
  BY <1>1 DEF decisionBar
<1>11. UNCHANGED <<quotaBar, resultBar>>
  BY <1>1 DEF quotaBar, resultBar
<1> QED BY <1>4, <1>5, <1>9, <1>10, <1>11, SharedOperators DEF Contest!Decide

(* Every step of the program is a step of the contest or leaves it alone.   *)
LEMMA StepRefines ==
  IInv /\ IInv' /\ [Next]_vars => [Contest!ContestNext]_(Contest!contestVars)
<1> SUFFICES ASSUME IInv, IInv', [Next]_vars
             PROVE  Contest!ContestNext \/ UNCHANGED <<quotaBar, resultBar, decisionBar>>
  BY DEF Contest!contestVars
<1>1. CASE UNCHANGED <<challenge, run>>
  BY <1>1 DEF quotaBar, resultBar, decisionBar
<1>2. CASE \/ Tick
           \/ RegistryNext /\ UNCHANGED <<challenge, run, now>>
           \/ UNCHANGED vars
  BY <1>1, <1>2 DEF Tick, vars
<1>3. ASSUME NEW s \in Signers, NEW c \in Challenges, NEW n \in 1..MaxContestants,
             CreateChallenge(s, c, n)
      PROVE  Contest!ContestNext
  BY <1>3, CreateChallengeOpens DEF Contest!ContestNext
<1>4. ASSUME NEW s \in Signers, NEW c \in Challenges, NEW a \in AgentIds,
             NEW usdc \in Balances, NEW completion \in Completions,
             FinalizeRun(s, c, a, usdc, completion)
      PROVE  Contest!ContestNext
  BY <1>4, FinalizeRunSubmits DEF Contest!ContestNext
<1>5. ASSUME NEW s \in Signers, NEW c \in Challenges, NEW accounts \in AccountLists,
             NEW w \in OptionOf(AgentIds), SettleChallenge(s, c, accounts, w)
      PROVE  Contest!ContestNext
  BY <1>5, SettleChallengeDecides, SharedOperators DEF Contest!ContestNext
<1>6. ASSUME NEW s \in Signers, NEW c \in Challenges, StartChallenge(s, c)
      PROVE  UNCHANGED <<quotaBar, resultBar, decisionBar>>
  BY <1>6, StartChallengeStutters
<1>7. ASSUME NEW s \in Signers, NEW c \in Challenges, NEW a \in AgentIds,
             CreateRun(s, c, a)
      PROVE  UNCHANGED <<quotaBar, resultBar, decisionBar>>
  BY <1>7, CreateRunStutters
<1> QED BY <1>2, <1>3, <1>4, <1>5, <1>6, <1>7 DEF Next

(* The program implements the contest: whatever the signers send, results   *)
(* are write-once and each challenge is decided at most once, after all its *)
(* results are in, for the best of them.                                    *)
THEOREM Refinement == Spec => ImplementsContest
<1>1. Init => Contest!ContestInit
  BY InitRefines
<1>2. Spec => []IInv
  BY Invariant
<1>3. IInv /\ IInv' /\ [Next]_vars => [Contest!ContestNext]_(Contest!contestVars)
  BY StepRefines
<1> QED BY <1>1, <1>2, <1>3, PTL DEF Spec, ImplementsContest, Contest!ContestSpec

-----------------------------------------------------------------------------
(* A challenge that was started can always go on.                           *)

LEMMA SmallestSubset ==
  ASSUME NEW D, IsFiniteSet(D), NEW Bad, Bad \subseteq SUBSET D, Bad # {}
  PROVE  \E s \in Bad : \A t \in SUBSET s : t # s => t \notin Bad
<1>1. Bad \subseteq FiniteSubsetsOf(D)
  BY FS_FiniteSubsetsOfFinite
<1>2. \E s \in Bad : \A t \in Bad : ~ (<<t, s>> \in StrictSubsetOrdering(D))
  <2>1. IsWellFoundedOn(StrictSubsetOrdering(D), FiniteSubsetsOf(D))
    BY FS_StrictSubsetOrderingWellFounded
  <2> QED BY <1>1, <2>1, WFMin
<1>3. PICK s \in Bad : \A t \in Bad : ~ (<<t, s>> \in StrictSubsetOrdering(D))
  BY <1>2
<1>4. ASSUME NEW t \in SUBSET s, t # s, t \in Bad PROVE FALSE
  <2>1. <<t, s>> \in StrictSubsetOrdering(D)
    BY <1>4 DEF StrictSubsetOrdering
  <2> QED BY <1>3, <1>4, <2>1
<1> QED BY <1>4

(* Position i of the list comes before position j: it beats it, or ties     *)
(* with it and is listed first.                                             *)
Before(list, i, j) ==
  \/ Beats(list[i], list[j])
  \/ ~Beats(list[j], list[i]) /\ i < j

FirstOf(list, s, i) == i \in s /\ \A j \in s \ {i} : Before(list, i, j)

(* Of finitely many positions with a balance and an end time, one comes     *)
(* before all the others.                                                   *)
LEMMA SomeComesFirst ==
  ASSUME NEW list, NEW D \in SUBSET Nat, IsFiniteSet(D), D # {},
         \A i \in D : list[i].ending_usdc \in Nat /\ list[i].ended_at \in Nat
  PROVE  \E i \in D : FirstOf(list, D, i)
<1> DEFINE Bad == {s \in SUBSET D : s # {} /\ ~ \E i \in s : FirstOf(list, s, i)}
<1> SUFFICES ASSUME Bad # {} PROVE FALSE
  OBVIOUS
<1>1. \E s \in Bad : \A t \in SUBSET s : t # s => t \notin Bad
  <2>1. Bad \subseteq SUBSET D
    OBVIOUS
  <2> HIDE DEF Bad
  <2> QED BY <2>1, SmallestSubset
<1>2. PICK s \in Bad : \A t \in SUBSET s : t # s => t \notin Bad
  BY <1>1
<1>3. PICK x \in s : TRUE
  OBVIOUS
<1>4. CASE s \ {x} = {}
  BY <1>3, <1>4 DEF FirstOf
<1>5. CASE s \ {x} # {}
  <2>1. s \ {x} \in SUBSET s /\ s \ {x} # s /\ s \ {x} \in SUBSET D
    BY <1>3
  <2>2. PICK b \in s \ {x} : FirstOf(list, s \ {x}, b)
    BY <1>2, <1>5, <2>1
  <2>3. CASE Before(list, b, x)
    BY <2>2, <2>3 DEF FirstOf
  <2>4. CASE ~Before(list, b, x)
    <3>1. Before(list, x, b)
      BY <2>2, <2>4 DEF Before, Beats
    <3>2. ASSUME NEW j \in s \ {x} PROVE Before(list, x, j)
      <4>1. CASE j = b
        BY <3>1, <4>1
      <4>2. CASE j # b
        <5>1. Before(list, b, j)
          BY <2>2, <4>2 DEF FirstOf
        <5>2. /\ list[x].ending_usdc \in Nat /\ list[x].ended_at \in Nat /\ x \in Nat
              /\ list[b].ending_usdc \in Nat /\ list[b].ended_at \in Nat /\ b \in Nat
              /\ list[j].ending_usdc \in Nat /\ list[j].ended_at \in Nat /\ j \in Nat
          BY <1>3
        <5> QED BY <3>1, <5>1, <5>2 DEF Before, Beats
      <4> QED BY <4>1, <4>2
    <3> QED BY <1>3, <3>2 DEF FirstOf
  <2> QED BY <2>3, <2>4
<1> QED BY <1>4, <1>5

(* Every list of runs has a winner, or rightly none.                        *)
LEMMA ListHasWinner ==
  ASSUME NEW n \in Nat, NEW list \in [1..n -> RunAccount]
  PROVE  \E w \in OptionOf(AgentIds) : IsWinner(list, w)
<1> DEFINE E == {i \in 1..n : Eligible(list[i])}
<1>1. CASE E = {}
  <2>1. IsWinner(list, None)
    BY <1>1 DEF IsWinner
  <2> QED BY <2>1 DEF OptionOf
<1>2. CASE E # {}
  <2>1. IsFiniteSet(E) /\ E \in SUBSET Nat
    BY FS_Interval, FS_Subset
  <2>2. \A i \in E : list[i].ending_usdc \in Nat /\ list[i].ended_at \in Nat
    BY DEF RunAccount, OptionOf, Eligible
  <2>3. \E i \in E : FirstOf(list, E, i)
    <3> HIDE DEF E
    <3> QED BY <1>2, <2>1, <2>2, SomeComesFirst
  <2>4. PICK i \in E : FirstOf(list, E, i)
    BY <2>3
  <2>5. ASSUME NEW j \in 1..n, Eligible(list[j])
        PROVE  ~Beats(list[j], list[i]) /\ (j < i => Beats(list[i], list[j]))
    <3>1. j \in E /\ i \in Nat /\ j \in Nat
      BY <2>5
    <3>2. j = i \/ Before(list, i, j)
      BY <2>4, <3>1 DEF FirstOf
    <3>3. /\ list[i].ending_usdc \in Nat /\ list[i].ended_at \in Nat
          /\ list[j].ending_usdc \in Nat /\ list[j].ended_at \in Nat
      BY <2>2, <3>1
    <3> QED BY <3>1, <3>2, <3>3 DEF Before, Beats
  <2>6. WinsAt(list, i)
    BY <2>5 DEF WinsAt
  <2>7. list[i].agent_id \in AgentIds
    BY DEF RunAccount
  <2> QED BY <2>6, <2>7 DEF IsWinner, OptionOf
<1> QED BY <1>1, <1>2

(* Once all runs are in, the list of them settles the challenge.            *)
LEMMA SettlingCanSettle ==
  ASSUME IInv, NEW c \in Challenges, challenge[c].status = "settling"
  PROVE  \E s \in Signers, accounts \in AccountLists, w \in OptionOf(AgentIds) :
           Settleable(s, c, accounts, w)
<1> DEFINE n == challenge[c].num_enrolled
<1>1. /\ challenge[c].authority \in Signers
      /\ IsFiniteSet(Enrolled(c)) /\ n = Cardinality(Enrolled(c))
      /\ n \in 0..MaxContestants
  <2>1. /\ challenge[c] \in ChallengeAccount /\ StatusShape(challenge[c])
        /\ CountersMatchRuns
    BY DEF IInv, TypeOK, StatusShapes
  <2> QED BY <2>1, LimitAssumption DEF StatusShape, ChallengeAccount, CountersMatchRuns
<1>2. \E f : f \in Bijection(1..n, Enrolled(c))
  BY <1>1, FS_CardinalityType DEF ExistsBijection
<1>3. PICK f : f \in Bijection(1..n, Enrolled(c))
  BY <1>2
<1>4. /\ \A i \in 1..n : f[i] \in Enrolled(c)
      /\ \A i, j \in 1..n : f[i] = f[j] => i = j
  BY <1>3 DEF Bijection, Injection, Surjection, IsInjective
<1> DEFINE accounts == [i \in 1..n |-> <<c, f[i]>>]
           list == RunsListed(accounts)
<1> HIDE DEF n
<1>5. accounts \in [1..n -> Challenges \X AgentIds]
  BY <1>4 DEF Enrolled
<1>6. accounts \in AccountLists
  BY <1>1, <1>5 DEF AccountLists
<1>7. Admissible(c, accounts)
  <2>1. ASSUME NEW i \in 1..n
        PROVE  /\ run[accounts[i][1]][accounts[i][2]].status # "absent"
               /\ accounts[i][1] = c
               /\ \A j \in 1..n : j < i => accounts[j][2] # accounts[i][2]
    BY <1>1, <1>4 DEF Enrolled
  <2>2. n \in Nat
    BY <1>1
  <2>3. DOMAIN accounts = 1..n /\ Len(accounts) = n
    BY <1>5, <2>2
  <2> HIDE DEF accounts
  <2> QED BY <2>1, <2>3 DEF Admissible, n
<1>8. list \in [1..n -> RunAccount]
  BY <1>5 DEF RunsListed, IInv, TypeOK
<1>9. \E w \in OptionOf(AgentIds) : IsWinner(list, w)
  <2>1. n \in Nat
    BY <1>1
  <2> HIDE DEF list
  <2> QED BY <1>8, <2>1, ListHasWinner
<1> HIDE DEF accounts
<1> QED BY <1>1, <1>6, <1>7, <1>9 DEF Settleable

(* An active challenge is full and not all of its runs are in.              *)
LEMMA ActiveCanFinalize ==
  ASSUME IInv, NEW c \in Challenges, challenge[c].status = "active"
  PROVE  \E a \in AgentIds : Finalizable(run[c][a])
<1>1. /\ challenge[c] \in ChallengeAccount /\ StatusShape(challenge[c])
      /\ challenge[c].num_enrolled = Cardinality(Enrolled(c))
      /\ challenge[c].num_finalized = Cardinality(Finalized(c))
  BY DEF IInv, TypeOK, StatusShapes, CountersMatchRuns
<1>2. Cardinality(Finalized(c)) # Cardinality(Enrolled(c))
  BY <1>1 DEF StatusShape, ChallengeAccount
<1>3. PICK a \in Enrolled(c) : a \notin Finalized(c)
  BY <1>2, FinalizedWithinEnrolled
<1>4. a \in AgentIds /\ run[c][a].status \in RunStatuses
  BY DEF Enrolled, IInv, TypeOK, RunAccount
<1>5. run[c][a].status = "pending"
  BY <1>3, <1>4 DEF Enrolled, Finalized, RunStatuses
<1> QED BY <1>4, <1>5 DEF Finalizable

LEMMA StrandedFromInvariant == IInv => NeverStranded
BY SettlingCanSettle, ActiveCanFinalize DEF NeverStranded

(* No order of enrolments, starts and finalizations leaves a challenge that *)
(* was started without a run to finalize or a list that settles it, for any *)
(* number of contestants.                                                   *)
THEOREM NoneStranded == Spec => []NeverStranded
BY StrandedFromInvariant, Invariant, PTL
=============================================================================
