----------------------------- MODULE HostedRuns -----------------------------
(***************************************************************************)
(* The flagship and its benchmark runs: services/flagship_service.py, the   *)
(* hosted half of services/challenge_service.py and the tick of             *)
(* scripts/flagship_cron.py, driven by processes on several hosts.          *)
(*                                                                          *)
(* A process bootstraps the canonical agent, deploys the flagship, or runs  *)
(* one tick of the cron.  It has one database session, whose rows are read  *)
(* once and kept, and is cut at its commits.  Rows bear the name of the     *)
(* process that inserts them.  The deploy saga and the run itself are those *)
(* of DeploySaga and Runner, here with their outcomes only.                 *)
(***************************************************************************)
EXTENDS Option, FiniteSets

CONSTANTS
  Processes,    \* processes, and the rows they insert
  Hosts,        \* machines, each with a lock file of its own
  Challenges    \* challenges the cron is pointed at

ASSUME ProcessesAssumption == None \notin Processes

VARIABLES
  subject,      \* the template's benchmark_subject_agent_id
  canonical,    \* committed canonical_template agents
  instance,     \* committed agent_instances rows owned by platform:flagship
  agent,        \* customized_instance agents: the instance each stands for
  inserted,     \* those of them whose transaction is still open
  run,          \* committed runs rows
  lock,         \* holder of the flock on each host's lock file
  process       \* progress of each process

vars == <<subject, canonical, instance, agent, inserted, run, lock, process>>
rows == <<subject, canonical, instance, agent, inserted, run>>

Instance ==
  [status      : {"absent", "live", "failed", "torn_down"},
   benchmarked : BOOLEAN,    \* trust_label = benchmarked_canonical_template
   superseded  : BOOLEAN]

CompletionStatuses == {"complete", "incomplete", "invalid"}

Run ==
  [status            : {"absent", "pending", "running", "completed"},
   completion_status : OptionOf(CompletionStatuses),
   challenge         : OptionOf(Challenges),
   agent             : OptionOf(Processes),    \* agent_id
   wallet            : OptionOf(Processes)]    \* benchmark_wallet_*, an instance's

NoRun ==
  [status |-> "absent", completion_status |-> None, challenge |-> None,
   agent |-> None, wallet |-> None]

TickSteps ==
  {"resolve", "find_agent", "insert_agent", "commit_run", "start_run",
   "execute", "release"}
Steps ==
  TickSteps \cup {"idle", "bootstrap_commit", "deploy", "promote", "done"}

Process ==
  [pc : Steps, host : OptionOf(Hosts), challenge : OptionOf(Challenges),
   flagship : OptionOf(Processes), agent : OptionOf(Processes)]

At(p, pc) == process[p].pc = pc
Going(p, pc) == process' = [process EXCEPT ![p].pc = pc]
Committed(a) == agent[a] # None /\ a \notin inserted

Init ==
  /\ subject = None
  /\ canonical = {}
  /\ instance = [p \in Processes |->
       [status |-> "absent", benchmarked |-> FALSE, superseded |-> FALSE]]
  /\ agent = [p \in Processes |-> None]
  /\ inserted = {}
  /\ run = [p \in Processes |-> NoRun]
  /\ lock = [h \in Hosts |-> None]
  /\ process = [p \in Processes |->
       [pc |-> "idle", host |-> None, challenge |-> None, flagship |-> None,
        agent |-> None]]

-----------------------------------------------------------------------------
(* bootstrap_flagship on a template that is not linked yet.  One that is    *)
(* returns its agent and changes nothing.                                   *)
Bootstrap(p) ==
  /\ At(p, "idle") /\ subject = None
  /\ Going(p, "bootstrap_commit")
  /\ UNCHANGED <<rows, lock>>

BootstrapCommit(p) ==
  /\ At(p, "bootstrap_commit")
  /\ canonical' = canonical \cup {p}
  /\ subject' = p
  /\ Going(p, "done")
  /\ UNCHANGED <<instance, agent, inserted, run, lock>>

(* get_flagship_instance, whose rows also pass _get_instance: the session   *)
(* hands that method the row it holds.                                      *)
Flagships ==
  {i \in Processes : instance[i].benchmarked /\ instance[i].status = "live"
                     /\ ~instance[i].superseded}

MayDeploy == subject # None /\ Flagships = {}

(* deploy_flagship_instance: with a flagship in place it returns that one.  *)
DeployFlagship(p) ==
  /\ At(p, "idle") /\ MayDeploy
  /\ Going(p, "deploy")
  /\ UNCHANGED <<rows, lock>>

(* Mutant: whatever row the saga returns is promoted.                       *)
PromotesAnyRow(status) == TRUE

Promotes(status) == status = "live"

(* The saga raises and leaves no row, or commits a live or a failed one.    *)
Deploy(p) ==
  /\ At(p, "deploy")
  /\ \/ Going(p, "done") /\ UNCHANGED instance
     \/ \E status \in {"live", "failed"} :
          /\ instance' = [instance EXCEPT ![p].status = status]
          /\ Going(p, IF Promotes(status) THEN "promote" ELSE "done")
  /\ UNCHANGED <<subject, canonical, agent, inserted, run, lock>>

(* The label has a commit of its own.                                       *)
Promote(p) ==
  /\ At(p, "promote")
  /\ instance' = [instance EXCEPT ![p].benchmarked = TRUE]
  /\ Going(p, "done")
  /\ UNCHANGED <<subject, canonical, agent, inserted, run, lock>>

(* What operators do to instances meanwhile: DeploySaga's TeardownCommit,   *)
(* RetryCommit and Supersede, each on a row of its own.  The retry may have *)
(* read a failed row before it was torn down; a row with the label was live *)
(* from the start, so that no retry ever read it as failed.                 *)
OperateOn(i) ==
  /\ \/ /\ instance[i].status \in {"live", "failed"}
        /\ instance' = [instance EXCEPT ![i].status = "torn_down"]
     \/ /\ \/ instance[i].status = "failed"
           \/ instance[i].status = "torn_down" /\ ~instance[i].benchmarked
        /\ instance' = [instance EXCEPT ![i].status = "live"]
     \/ /\ instance[i].status # "absent" /\ ~instance[i].superseded
        /\ instance' = [instance EXCEPT ![i].superseded = TRUE]
  /\ UNCHANGED <<subject, canonical, agent, inserted, run, lock, process>>

-----------------------------------------------------------------------------
(* The cron.  A process that finds its host's lock taken exits with 0.      *)
Tick(p, h, c) ==
  /\ At(p, "idle") /\ lock[h] = None
  /\ lock' = [lock EXCEPT ![h] = p]
  /\ process' = [process EXCEPT ![p].pc = "resolve", ![p].host = h, ![p].challenge = c]
  /\ UNCHANGED rows

(* Of several flagships the newest is taken; here, any.                     *)
Resolve(p) ==
  /\ At(p, "resolve")
  /\ IF Flagships = {}
     THEN Going(p, "release")
     ELSE \E i \in Flagships :
            process' = [process EXCEPT ![p].pc = "find_agent", ![p].flagship = i]
  /\ UNCHANGED <<rows, lock>>

AgentsOf(i) == {a \in Processes : Committed(a) /\ agent[a] = i}
Uses(p, a) == process' = [process EXCEPT ![p].pc = "commit_run", ![p].agent = a]

(* The first read of _get_or_create_instance_agent.                         *)
FindAgent(p) ==
  /\ At(p, "find_agent")
  /\ IF AgentsOf(process[p].flagship) = {}
     THEN Going(p, "insert_agent")
     ELSE \E a \in AgentsOf(process[p].flagship) : Uses(p, a)
  /\ UNCHANGED <<rows, lock>>

(* Mutants: no unique index on the synthetic key; after the savepoint is    *)
(* rolled back the object that was to be inserted is used.                  *)
KeyTakenNever(i) == FALSE
UsesOwnAgent(p, i) == Uses(p, p)

(* uq_agents_privy_user_id_customized_instance: an insert of a key another  *)
(* open transaction has inserted waits for its end, hence the guard.        *)
KeyTaken(i) == AgentsOf(i) # {}
UsesWinner(p, i) == \E a \in AgentsOf(i) : Uses(p, a)

InsertAgent(p) ==
  LET i == process[p].flagship
  IN /\ At(p, "insert_agent")
     /\ \A a \in inserted : agent[a] # i
     /\ IF KeyTaken(i)
        THEN UsesWinner(p, i) /\ UNCHANGED <<agent, inserted>>
        ELSE /\ agent' = [agent EXCEPT ![p] = i]
             /\ inserted' = inserted \cup {p}
             /\ Uses(p, p)
     /\ UNCHANGED <<subject, canonical, instance, run, lock>>

(* uq_runs_challenge_agent.                                                 *)
Duplicate(p) ==
  \E r \in Processes : run[r].status # "absent"
                       /\ run[r].challenge = process[p].challenge
                       /\ run[r].agent = process[p].agent

(* The commit of create_run_for_instance, agent and run together, or the    *)
(* rollback of both.                                                        *)
CommitRun(p) ==
  /\ At(p, "commit_run")
  /\ inserted' = inserted \ {p}
  /\ IF Duplicate(p)
     THEN /\ agent' = IF p \in inserted THEN [agent EXCEPT ![p] = None] ELSE agent
          /\ Going(p, "release")
          /\ UNCHANGED run
     ELSE /\ run' = [run EXCEPT ![p] =
               [NoRun EXCEPT !.status = "pending", !.challenge = process[p].challenge,
                             !.agent = process[p].agent, !.wallet = process[p].flagship]]
          /\ Going(p, "start_run")
          /\ UNCHANGED agent
  /\ UNCHANGED <<subject, canonical, instance, lock>>

(* execute_run up to its first commit, or an exception before it.           *)
StartRun(p) ==
  /\ At(p, "start_run")
  /\ \/ /\ run' = [run EXCEPT ![p].status = "running"]
        /\ Going(p, "execute")
     \/ Going(p, "release") /\ UNCHANGED run
  /\ UNCHANGED <<subject, canonical, instance, agent, inserted, lock>>

(* Mutant: the completion status is written in the place of the status.     *)
FinishedAs(r, s) == [r EXCEPT !.status = s]

Finished(r, s) == [r EXCEPT !.status = "completed", !.completion_status = s]

(* The rest of it: its final commit, or an exception that leaves the row    *)
(* running.  No code writes "failed" or "timeout".                          *)
ExecuteRun(p) ==
  /\ At(p, "execute")
  /\ \/ UNCHANGED run
     \/ \E s \in CompletionStatuses : run' = [run EXCEPT ![p] = Finished(@, s)]
  /\ Going(p, "release")
  /\ UNCHANGED <<subject, canonical, instance, agent, inserted, lock>>

Unlocked(p) == [h \in Hosts |-> IF lock[h] = p THEN None ELSE lock[h]]

(* The finally of main.                                                     *)
Release(p) ==
  /\ At(p, "release")
  /\ lock' = Unlocked(p)
  /\ Going(p, "done")
  /\ UNCHANGED rows

(* Mutant: a lock that outlives its process, as a file that merely exists.  *)
LockKept(p) == lock

LockAfterCrash(p) == Unlocked(p)

(* The process dies: its open transaction is rolled back and the kernel     *)
(* drops its flock.                                                         *)
Crash(p) ==
  /\ process[p].pc \notin {"idle", "done"}
  /\ agent' = IF p \in inserted THEN [agent EXCEPT ![p] = None] ELSE agent
  /\ inserted' = inserted \ {p}
  /\ lock' = LockAfterCrash(p)
  /\ Going(p, "done")
  /\ UNCHANGED <<subject, canonical, instance, run>>

TickStep(p) ==
  \/ Resolve(p) \/ FindAgent(p) \/ InsertAgent(p) \/ CommitRun(p)
  \/ StartRun(p) \/ ExecuteRun(p) \/ Release(p)

Next ==
  \E p \in Processes :
    \/ Bootstrap(p) \/ BootstrapCommit(p)
    \/ DeployFlagship(p) \/ Deploy(p) \/ Promote(p)
    \/ OperateOn(p)
    \/ \E h \in Hosts, c \in Challenges : Tick(p, h, c)
    \/ TickStep(p)
    \/ Crash(p)

(* A tick that lives goes on: its calls return or raise, and execute_run    *)
(* ends (Runner's RunEnds).                                                 *)
Spec == Init /\ [][Next]_vars /\ \A p \in Processes : WF_vars(TickStep(p))

-----------------------------------------------------------------------------
(* Properties.                                                              *)

TypeOK ==
  /\ subject \in OptionOf(Processes)
  /\ canonical \subseteq Processes
  /\ instance \in [Processes -> Instance]
  /\ agent \in [Processes -> OptionOf(Processes)]
  /\ inserted \subseteq Processes
  /\ run \in [Processes -> Run]
  /\ lock \in [Hosts -> OptionOf(Processes)]
  /\ process \in [Processes -> Process]

Runs == {r \in Processes : run[r].status # "absent"}

(* An instance runs a challenge at most once, whichever hosts race: the     *)
(* unique index speaks of agents, so this also needs one agent an instance. *)
OneRunPerInstance ==
  \A r, s \in Runs :
    run[r].challenge = run[s].challenge /\ run[r].wallet = run[s].wallet => r = s

(* A run hangs on a committed agent, and that agent stands for the instance *)
(* whose wallet the run spends, though the agent may come from another      *)
(* process's transaction.                                                   *)
RunsAttached == \A r \in Runs : run[r].agent \in AgentsOf(run[r].wallet)

(* Only an instance whose deploy came through live bears the flagship's     *)
(* label, and only under a template linked to an agent that exists: no      *)
(* later repair puts the label on a row that had failed.                    *)
LabelEarned ==
  \A i \in Processes :
    instance[i].benchmarked =>
      instance[i].status \in {"live", "torn_down"} /\ subject \in canonical

(* A host's lock is always let go again, by the tick's end or its death;    *)
(* the cron is never shut out for good.                                     *)
LockFreed ==
  \A h \in Hosts, p \in Processes : lock[h] = p ~> lock[h] # p
=============================================================================
