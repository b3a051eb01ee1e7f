--------------------------- MODULE SettlementRule ---------------------------
(***************************************************************************)
(* Who wins a challenge: the comparison inside settle_challenge::handler    *)
(* (programs/agent_arena/src/instructions/settle_challenge.rs), stated as a *)
(* predicate on the list of run accounts the instruction is given.  The     *)
(* on-chain program (AgentArena) settles by this predicate; SettleLoop runs *)
(* the handler's loop one account at a time and shows that it computes it.  *)
(*                                                                          *)
(* An Option<T> of the source is None or a value.                           *)
(***************************************************************************)
EXTENDS Option, Sequences

CompletionStatuses == {"complete", "incomplete", "invalid"}

ASSUME NoneNotAStatus == None \notin CompletionStatuses

(* What finalizing a run records.                                           *)
Result == [completion : CompletionStatuses, ending_usdc : Nat, ended_at : Nat]

ASSUME NoneNotAResult == None \notin Result

(* Only runs finalized as Complete, with an ending balance and an end time, *)
(* compete; the others are counted and skipped.                             *)
Eligible(r) ==
  /\ r.completion = "complete"
  /\ r.ending_usdc # None
  /\ r.ended_at # None

(* Highest ending balance first, then the earliest end time.                *)
Beats(r, s) ==
  \/ r.ending_usdc > s.ending_usdc
  \/ r.ending_usdc = s.ending_usdc /\ r.ended_at < s.ended_at

(* Entry i wins list: no eligible entry beats it and, of entries that tie   *)
(* in both balance and time, it comes first.                                *)
WinsAt(list, i) ==
  /\ Eligible(list[i])
  /\ \A j \in DOMAIN list :
       Eligible(list[j]) =>
         /\ ~Beats(list[j], list[i])
         /\ j < i => Beats(list[i], list[j])

IsWinner(list, w) ==
  \/ /\ w = None
     /\ \A i \in DOMAIN list : ~Eligible(list[i])
  \/ \E i \in DOMAIN list : WinsAt(list, i) /\ w = list[i].agent_id
=============================================================================
