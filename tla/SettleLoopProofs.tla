-------------------------- MODULE SettleLoopProofs --------------------------
(***************************************************************************)
(* The loop of settle_challenge computes SettlementRule, for every list of  *)
(* accounts and every number of enrolled runs.                              *)
(***************************************************************************)
EXTENDS SettleLoop, TLAPS

TypeOK ==
  /\ accounts \in Seq(Account)
  /\ num_enrolled \in 0..Capacity
  /\ i \in Nat
  /\ winner \in Nat
  /\ seen_count \in Nat
  /\ verdict \in {"looping", "rejected", "settled"}

IInv == TypeOK /\ LoopInvariant /\ SettledByRule /\ RejectsOnlyBadLists

(* The order on eligible runs is transitive ...                             *)
LEMMA BeatsTransitive ==
  ASSUME NEW r \in Account, NEW s \in Account, NEW t \in Account,
         Eligible(r), Eligible(s), Eligible(t),
         Beats(r, s), Beats(s, t) \/ ~Beats(t, s)
  PROVE  Beats(r, t)
BY DEF Beats, Eligible, Account, OptionOf

(* ... and its negation too.                                                *)
LEMMA NotBeatsTransitive ==
  ASSUME NEW r \in Account, NEW s \in Account, NEW t \in Account,
         Eligible(r), Eligible(s), Eligible(t),
         ~Beats(r, s), Beats(t, s)
  PROVE  ~Beats(r, t)
BY DEF Beats, Eligible, Account, OptionOf

LEMMA NotBeatsSelf ==
  ASSUME NEW r \in Account, Eligible(r)
  PROVE  ~Beats(r, r)
BY DEF Beats, Eligible, Account, OptionOf

LEMMA InitInvariant == Init => IInv
<1> SUFFICES ASSUME Init PROVE IInv
  OBVIOUS
<1>1. TypeOK
  BY InputsAssumption, CountsAssumption DEF Init, TypeOK
<1>2. Len(accounts) \in Nat
  BY <1>1 DEF TypeOK
<1>3. 1..i = {}
  BY DEF Init
<1>4. seen_agents = {accounts[k].agent_id : k \in 1..i}
  BY <1>3 DEF Init
<1>5. LoopInvariant
  BY <1>2, <1>3, <1>4 DEF Init, LoopInvariant
<1>6. SettledByRule /\ RejectsOnlyBadLists
  BY DEF Init, SettledByRule, RejectsOnlyBadLists
<1> QED BY <1>1, <1>5, <1>6 DEF IInv

(* One more account: the winner kept is still best of those examined.       *)
LEMMA ExamineInvariant == IInv /\ Examine => IInv'
<1> SUFFICES ASSUME IInv, Examine PROVE IInv'
  OBVIOUS
<1> USE DEF IInv
<1> DEFINE r == accounts[i + 1]
<1>1. /\ i + 1 \in DOMAIN accounts
      /\ r \in Account
      /\ \A k \in 1..i : accounts[k] \in Account
      /\ i \in 0..Len(accounts) /\ i + 1 <= Len(accounts)
      /\ winner \in 0..i
  BY DEF TypeOK, Examine, LoopInvariant
<1>2. TypeOK'
  BY <1>1 DEF TypeOK, Examine
<1>3. /\ verdict' = "looping" /\ accounts' = accounts /\ i' = i + 1
      /\ seen_count' = seen_count + 1
      /\ seen_agents' = seen_agents \cup {r.agent_id}
      /\ r.owned /\ r.challenge_id = ThisChallenge
      /\ r.agent_id \notin seen_agents
  BY DEF Examine, Acceptable, Current
<1>4. 1..(i + 1) = (1..i) \cup {i + 1}
  BY <1>1
<1>5. (i \in 0..Len(accounts) /\ seen_count = i /\ winner \in 0..i)'
  BY <1>1, <1>3 DEF LoopInvariant, TypeOK, Examine
<1>6. (seen_agents = {accounts[k].agent_id : k \in 1..i})'
  BY <1>3, <1>4 DEF LoopInvariant
<1>7. (\A k \in 1..i :
         accounts[k].owned /\ accounts[k].challenge_id = ThisChallenge)'
  BY <1>3, <1>4 DEF LoopInvariant
<1>8. (\A k, m \in 1..i : accounts[k].agent_id = accounts[m].agent_id => k = m)'
  BY <1>3, <1>4 DEF LoopInvariant
<1>9. CASE Eligible(r) /\ Better(r)
  <2>1. winner' = i + 1 /\ winner' # 0
    BY <1>1, <1>9 DEF Examine, Current
  <2>2. \A k \in 1..i : Eligible(accounts[k]) => ~Beats(accounts[k], r)
                                                 /\ Beats(r, accounts[k])
    <3>1. CASE winner = 0
      BY <3>1 DEF LoopInvariant
    <3>2. CASE winner # 0
      <4>1. SUFFICES ASSUME NEW k \in 1..i, Eligible(accounts[k])
                     PROVE  ~Beats(accounts[k], r) /\ Beats(r, accounts[k])
        OBVIOUS
      <4> DEFINE w == accounts[winner]
      <4>2. /\ w \in Account /\ Eligible(w) /\ Beats(r, w)
            /\ ~Beats(accounts[k], w) /\ accounts[k] \in Account
        BY <1>1, <1>9, <3>2, <4>1 DEF LoopInvariant, Better
      <4>3. ~Beats(accounts[k], r)
        BY <1>1, <1>9, <4>1, <4>2, NotBeatsTransitive
      <4>4. Beats(r, accounts[k])
        BY <1>1, <1>9, <4>1, <4>2, BeatsTransitive
      <4> QED BY <4>3, <4>4
    <3> QED BY <3>1, <3>2
  <2>3. ~Beats(r, r)
    BY <1>1, <1>9, NotBeatsSelf
  <2>4. (winner # 0 =>
           /\ Eligible(accounts[winner])
           /\ \A k \in 1..i :
                Eligible(accounts[k]) =>
                  /\ ~Beats(accounts[k], accounts[winner])
                  /\ k < winner => Beats(accounts[winner], accounts[k]))'
    BY <1>1, <1>3, <1>4, <1>9, <2>1, <2>2, <2>3
  <2>5. LoopInvariant'
    BY <1>5, <1>6, <1>7, <1>8, <2>1, <2>4 DEF LoopInvariant
  <2> QED BY <1>2, <1>3, <2>5 DEF SettledByRule, RejectsOnlyBadLists
<1>10. CASE ~(Eligible(r) /\ Better(r))
  <2>1. winner' = winner
    BY <1>10 DEF Examine, Current
  <2>2. winner = 0 => ~Eligible(r)
    BY <1>10 DEF Better
  <2>3. winner # 0 /\ Eligible(r) => ~Beats(r, accounts[winner])
    BY <1>10 DEF Better
  <2>4. (winner = 0 => \A k \in 1..i : ~Eligible(accounts[k]))'
    BY <1>3, <1>4, <2>1, <2>2 DEF LoopInvariant
  <2>5. (winner # 0 =>
           /\ Eligible(accounts[winner])
           /\ \A k \in 1..i :
                Eligible(accounts[k]) =>
                  /\ ~Beats(accounts[k], accounts[winner])
                  /\ k < winner => Beats(accounts[winner], accounts[k]))'
    BY <1>1, <1>3, <1>4, <2>1, <2>3 DEF LoopInvariant
  <2>6. LoopInvariant'
    BY <1>5, <1>6, <1>7, <1>8, <2>4, <2>5 DEF LoopInvariant
  <2> QED BY <1>2, <1>3, <2>6 DEF SettledByRule, RejectsOnlyBadLists
<1> QED BY <1>9, <1>10

LEMMA RejectAccountInvariant == IInv /\ RejectAccount => IInv'
<1> SUFFICES ASSUME IInv, RejectAccount PROVE IInv'
  OBVIOUS
<1> USE DEF IInv
<1>1. i + 1 \in DOMAIN accounts /\ 1..i \subseteq DOMAIN accounts
      /\ i \in Nat /\ seen_count = i
  BY DEF TypeOK, RejectAccount, LoopInvariant
<1>2. ~ListOK
  <2>1. SUFFICES ASSUME ListOK PROVE FALSE
    OBVIOUS
  <2>2. Current.owned /\ Current.challenge_id = ThisChallenge
    BY <1>1, <2>1 DEF ListOK, Current
  <2>3. Current.agent_id \notin seen_agents
    <3>1. SUFFICES ASSUME NEW k \in 1..i, accounts[k].agent_id = Current.agent_id
                   PROVE  FALSE
      BY DEF LoopInvariant
    <3>2. k \in DOMAIN accounts /\ k # i + 1
      BY <1>1, <3>1
    <3> QED BY <1>1, <2>1, <3>1, <3>2 DEF ListOK, Current
  <2>4. seen_count < Capacity
    BY <1>1, <2>1, CapacityAssumption DEF ListOK, TypeOK, RejectAccount
  <2> QED BY <2>2, <2>3, <2>4 DEF RejectAccount, Acceptable
<1>3. ListOK' = ListOK /\ LoopInvariant' = LoopInvariant
  BY DEF RejectAccount, ListOK, LoopInvariant
<1>4. TypeOK'
  BY DEF TypeOK, RejectAccount
<1> QED BY <1>2, <1>3, <1>4 DEF RejectAccount, SettledByRule, RejectsOnlyBadLists

LEMMA RejectCountInvariant == IInv /\ RejectCount => IInv'
<1> SUFFICES ASSUME IInv, RejectCount PROVE IInv'
  OBVIOUS
<1> USE DEF IInv
<1>1. ~ListOK
  BY DEF RejectCount, ListOK, LoopInvariant
<1>2. ListOK' = ListOK /\ LoopInvariant' = LoopInvariant
  BY DEF RejectCount, ListOK, LoopInvariant
<1>3. TypeOK'
  BY DEF TypeOK, RejectCount
<1> QED BY <1>1, <1>2, <1>3 DEF RejectCount, SettledByRule, RejectsOnlyBadLists

(* At the end of the list the winner kept is the winner of the list.        *)
LEMMA SettleInvariant == IInv /\ Settle => IInv'
<1> SUFFICES ASSUME IInv, Settle PROVE IInv'
  OBVIOUS
<1> USE DEF IInv
<1>1. DOMAIN accounts = 1..i /\ i = Len(accounts)
  BY DEF Settle, TypeOK
<1>2. ListOK
  BY <1>1 DEF ListOK, LoopInvariant, Settle
<1>3. IsWinner(accounts, result')
  <2>1. CASE winner = 0
    BY <1>1, <2>1 DEF Settle, IsWinner, LoopInvariant
  <2>2. CASE winner # 0
    <3>1. winner \in DOMAIN accounts
      BY <1>1, <2>2 DEF LoopInvariant
    <3>2. WinsAt(accounts, winner)
      BY <1>1, <2>2 DEF WinsAt, LoopInvariant
    <3>3. result' = accounts[winner].agent_id
      BY <2>2 DEF Settle
    <3> QED BY <3>1, <3>2, <3>3 DEF IsWinner
  <2> QED BY <2>1, <2>2
<1>4. ListOK' = ListOK /\ LoopInvariant' = LoopInvariant /\ accounts' = accounts
  BY DEF Settle, ListOK, LoopInvariant
<1>5. TypeOK'
  BY DEF TypeOK, Settle
<1>6. SettledByRule' /\ RejectsOnlyBadLists'
  BY <1>2, <1>3, <1>4 DEF SettledByRule, RejectsOnlyBadLists, Settle
<1> QED BY <1>4, <1>5, <1>6

LEMMA StepInvariant == IInv /\ [Next]_vars => IInv'
<1> SUFFICES ASSUME IInv, [Next]_vars PROVE IInv'
  OBVIOUS
<1>1. CASE Next
  BY <1>1, ExamineInvariant, RejectAccountInvariant, RejectCountInvariant,
     SettleInvariant DEF Next
<1>2. CASE UNCHANGED vars
  BY <1>2 DEF vars, IInv, TypeOK, LoopInvariant, SettledByRule,
     RejectsOnlyBadLists, ListOK
<1> QED BY <1>1, <1>2

(* At every turn of the loop of settle_challenge its variables summarize    *)
(* the accounts examined so far, and the winner kept is their best.         *)
THEOREM LoopSummarizes == Spec => []LoopInvariant
<1>1. IInv => LoopInvariant
  BY DEF IInv
<1> QED BY <1>1, InitInvariant, StepInvariant, PTL DEF Spec

(* For every list of accounts: settle_challenge settles only a list with    *)
(* every enrolled run once, and records the winner SettlementRule defines.  *)
THEOREM LoopComputesRule == Spec => []SettledByRule
<1>1. IInv => SettledByRule
  BY DEF IInv
<1> QED BY <1>1, InitInvariant, StepInvariant, PTL DEF Spec

(* For every list of accounts: a list that should be settled is not         *)
(* rejected.                                                                *)
THEOREM LoopRejectsOnlyBadLists == Spec => []RejectsOnlyBadLists
<1>1. IInv => RejectsOnlyBadLists
  BY DEF IInv
<1> QED BY <1>1, InitInvariant, StepInvariant, PTL DEF Spec
=============================================================================
