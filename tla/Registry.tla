------------------------------ MODULE Registry ------------------------------
(***************************************************************************)
(* The part of the Anchor program programs/agent_arena that every other     *)
(* instruction reads: the program config with its admin (initialize.rs) and *)
(* the strategies registered by their owners (register_strategy.rs).        *)
(*                                                                          *)
(* A Solana transaction is atomic and a failed one leaves no trace, so an   *)
(* instruction is one action whose conjuncts are its account constraints    *)
(* and require!s.  Any signer may send any instruction, in any order, with  *)
(* any accounts and arguments.                                              *)
(***************************************************************************)
EXTENDS Option

CONSTANTS
  Signers,   \* keys that may sign a transaction
  AgentIds   \* agent identifiers (u64)

ASSUME AgentIdsAssumption == AgentIds \subseteq Nat
ASSUME SignersAssumption == None \notin Signers

VARIABLES
  admin,      \* ConfigAccount.admin, None while the config PDA does not exist
  strategies  \* the (owner, agent_id) pairs with an active StrategyAccount

registryVars == <<admin, strategies>>

RegistryTypeOK ==
  /\ admin \in OptionOf(Signers)
  /\ strategies \subseteq Signers \X AgentIds

RegistryInit ==
  /\ admin = None
  /\ strategies = {}

(* The config PDA can be created once; its creator is the admin.            *)
Initialize(s) ==
  /\ admin = None
  /\ admin' = s
  /\ UNCHANGED strategies

(* The PDA is seeded by owner and agent id: two owners may register the     *)
(* same agent id.  No instruction clears is_active.                         *)
RegisterStrategy(s, a) ==
  /\ <<s, a>> \notin strategies
  /\ strategies' = strategies \cup {<<s, a>>}
  /\ UNCHANGED admin

RegistryNext ==
  \E s \in Signers :
    \/ Initialize(s)
    \/ \E a \in AgentIds : RegisterStrategy(s, a)

(* The constraint of the admin-only instructions: the config exists and the *)
(* signer is the admin it names.                                            *)
IsAdmin(s) == admin # None /\ admin = s

(* The constraint on a strategy account passed for an agent.                *)
Registered(o, a) == <<o, a>> \in strategies
=============================================================================
