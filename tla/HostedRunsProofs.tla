--------------------------- MODULE HostedRunsProofs ---------------------------
(***************************************************************************)
(* The safety invariants of HostedRuns, for any number of processes, hosts  *)
(* and challenges.                                                          *)
(***************************************************************************)
EXTENDS HostedRuns, TLAPS

BeforeAgent ==
  {"idle", "bootstrap_commit", "deploy", "promote", "resolve", "find_agent",
   "insert_agent"}

(* What a process has written and what it has read, by how far it got: its  *)
(* agent and its run are still to come or in place, the agent it will hang  *)
(* the run on stands for its flagship and is committed or its own, and only *)
(* one that waits for its commit has an open transaction.                   *)
Progress(p) ==
  LET pc == process[p].pc
      i  == process[p].flagship
      a  == process[p].agent
  IN /\ pc \in BeforeAgent => agent[p] = None
     /\ pc \in BeforeAgent \cup {"commit_run"} => run[p].status = "absent"
     /\ pc \in {"start_run", "execute"} => run[p].status # "absent"
     /\ pc \in {"find_agent", "insert_agent", "commit_run"} => i \in Processes
     /\ pc = "commit_run" =>
          a \in Processes /\ agent[a] = i /\ (a \in inserted => a = p)
     /\ p \in inserted => pc = "commit_run" /\ a = p

InProgress == \A p \in Processes : Progress(p)

OneAgentPerInstance ==
  \A a, b \in Processes : agent[a] # None /\ agent[a] = agent[b] => a = b

(* The way of a row to its label.                                           *)
Labelling(p) ==
  LET pc == process[p].pc
  IN /\ pc \in {"deploy", "promote"} => subject # None
     /\ pc = "promote" => instance[p].status \in {"live", "torn_down"}
     /\ instance[p].benchmarked =>
          pc = "done" /\ instance[p].status \in {"live", "torn_down"} /\ subject # None

Labels ==
  /\ subject # None => subject \in canonical
  /\ \A p \in Processes : Labelling(p)

RunInv ==
  /\ TypeOK
  /\ InProgress
  /\ OneAgentPerInstance
  /\ RunsAttached
  /\ OneRunPerInstance

IInv == RunInv /\ Labels

-----------------------------------------------------------------------------
(* Types.                                                                   *)

LEMMA OptionsWritten ==
  ASSUME NEW D, NEW S, NEW f \in [D -> OptionOf(S)], NEW d \in D, NEW s \in S
  PROVE  /\ [f EXCEPT ![d] = s] \in [D -> OptionOf(S)]
         /\ [f EXCEPT ![d] = None] \in [D -> OptionOf(S)]
BY DEF OptionOf

LEMMA Unlocks ==
  ASSUME lock \in [Hosts -> OptionOf(Processes)], NEW p \in Processes
  PROVE  Unlocked(p) \in [Hosts -> OptionOf(Processes)]
BY DEF Unlocked, OptionOf

(* What Uses, Resolve and Tick write.                                       *)
LEMMA ProcessWritten ==
  ASSUME NEW r \in Process, NEW pc \in Steps
  PROVE  /\ \A i \in Processes : [r EXCEPT !.pc = pc, !.agent = i] \in Process
         /\ \A i \in Processes : [r EXCEPT !.pc = pc, !.flagship = i] \in Process
         /\ \A h \in Hosts, c \in Challenges :
              [r EXCEPT !.pc = pc, !.host = h, !.challenge = c] \in Process
BY DEF Process, OptionOf

LEMMA ProcessesStepped ==
  ASSUME NEW f \in [Processes -> Process], NEW p \in Processes, NEW pc \in Steps
  PROVE  /\ \A i \in Processes :
              [f EXCEPT ![p].pc = pc, ![p].agent = i] \in [Processes -> Process]
         /\ \A i \in Processes :
              [f EXCEPT ![p].pc = pc, ![p].flagship = i] \in [Processes -> Process]
         /\ \A h \in Hosts, c \in Challenges :
              [f EXCEPT ![p].pc = pc, ![p].host = h, ![p].challenge = c]
                \in [Processes -> Process]
BY ProcessWritten

LEMMA GoingTyped ==
  ASSUME TypeOK, NEW p \in Processes, NEW pc \in Steps, Going(p, pc)
  PROVE  process' \in [Processes -> Process]
BY DEF Going, TypeOK, Process

LEMMA UsesTyped ==
  ASSUME TypeOK, NEW p \in Processes, NEW a \in Processes, Uses(p, a)
  PROVE  process' \in [Processes -> Process]
<1>1. /\ process \in [Processes -> Process]
      /\ process' = [process EXCEPT ![p].pc = "commit_run", ![p].agent = a]
  BY DEF Uses, TypeOK
<1>2. "commit_run" \in Steps
  BY DEF Steps, TickSteps
<1> QED BY <1>1, <1>2, ProcessesStepped

LEMMA RunWritten ==
  ASSUME TypeOK, NEW p \in Processes,
         process[p].agent \in Processes, process[p].flagship \in Processes
  PROVE  [run EXCEPT ![p] =
            [NoRun EXCEPT !.status = "pending", !.challenge = process[p].challenge,
                          !.agent = process[p].agent, !.wallet = process[p].flagship]]
           \in [Processes -> Run]
<1>1. process[p] \in Process
  BY DEF TypeOK
<1> QED BY <1>1 DEF TypeOK, Process, Run, NoRun, OptionOf

LEMMA TypeStep ==
  ASSUME TypeOK, InProgress, Next
  PROVE  TypeOK'
<1> USE DEF TypeOK, rows
<1> PICK p \in Processes :
      \/ Bootstrap(p) \/ BootstrapCommit(p)
      \/ DeployFlagship(p) \/ Deploy(p) \/ Promote(p)
      \/ OperateOn(p)
      \/ \E h \in Hosts, c \in Challenges : Tick(p, h, c)
      \/ TickStep(p)
      \/ Crash(p)
  BY DEF Next
<1>steps. /\ TickSteps \subseteq Steps
          /\ {"idle", "bootstrap_commit", "deploy", "promote", "done"} \subseteq Steps
          /\ {"resolve", "find_agent", "insert_agent", "commit_run", "start_run",
              "execute", "release"} = TickSteps
  BY DEF Steps, TickSteps
<1>1. CASE Bootstrap(p)
  BY <1>1, <1>steps, GoingTyped DEF Bootstrap
<1>2. CASE BootstrapCommit(p)
  BY <1>2, <1>steps, GoingTyped DEF BootstrapCommit, OptionOf
<1>3. CASE DeployFlagship(p)
  BY <1>3, <1>steps, GoingTyped DEF DeployFlagship
<1>4. CASE Deploy(p)
  <2>1. process' \in [Processes -> Process]
    BY <1>4, <1>steps, GoingTyped DEF Deploy, Promotes
  <2>2. instance' \in [Processes -> Instance]
    <3>1. \/ UNCHANGED instance
          \/ instance' = [instance EXCEPT ![p].status = "live"]
          \/ instance' = [instance EXCEPT ![p].status = "failed"]
      BY <1>4 DEF Deploy
    <3>2. instance[p] \in Instance
      OBVIOUS
    <3>3. /\ [instance[p] EXCEPT !.status = "live"] \in Instance
          /\ [instance[p] EXCEPT !.status = "failed"] \in Instance
      BY <3>2 DEF Instance
    <3> QED BY <3>1, <3>3
  <2> QED BY <1>4, <2>1, <2>2 DEF Deploy
<1>5. CASE Promote(p)
  <2>1. instance' \in [Processes -> Instance]
    BY <1>5 DEF Promote, Instance
  <2> QED BY <1>5, <1>steps, <2>1, GoingTyped DEF Promote
<1>6. CASE OperateOn(p)
  <2>1. \/ instance' = [instance EXCEPT ![p].status = "torn_down"]
        \/ instance' = [instance EXCEPT ![p].status = "live"]
        \/ instance' = [instance EXCEPT ![p].superseded = TRUE]
    BY <1>6 DEF OperateOn
  <2>2. instance' \in [Processes -> Instance]
    <3>1. instance[p] \in Instance
      OBVIOUS
    <3>2. /\ [instance[p] EXCEPT !.status = "torn_down"] \in Instance
          /\ [instance[p] EXCEPT !.status = "live"] \in Instance
          /\ [instance[p] EXCEPT !.superseded = TRUE] \in Instance
      BY <3>1 DEF Instance
    <3> QED BY <2>1, <3>2
  <2> QED BY <1>6, <2>2 DEF OperateOn
<1>7. ASSUME NEW h \in Hosts, NEW c \in Challenges, Tick(p, h, c)
      PROVE  TypeOK'
  <2>1. process' \in [Processes -> Process]
    BY <1>7, <1>steps, ProcessesStepped DEF Tick
  <2>2. lock' \in [Hosts -> OptionOf(Processes)]
    BY <1>7, OptionsWritten DEF Tick
  <2> QED BY <1>7, <2>1, <2>2 DEF Tick
<1>8. CASE TickStep(p)
  <2>1. CASE Resolve(p)
    <3>1. ASSUME NEW i \in Flagships,
                 process' = [process EXCEPT ![p].pc = "find_agent", ![p].flagship = i]
          PROVE  process' \in [Processes -> Process]
      BY <3>1, <1>steps, ProcessesStepped DEF Flagships
    <3>2. process' \in [Processes -> Process]
      BY <2>1, <3>1, <1>steps, GoingTyped DEF Resolve
    <3> QED BY <2>1, <3>2 DEF Resolve
  <2>2. CASE FindAgent(p)
    <3>1. process' \in [Processes -> Process]
      BY <2>2, <1>steps, GoingTyped, UsesTyped DEF FindAgent, AgentsOf
    <3> QED BY <2>2, <3>1 DEF FindAgent
  <2>3. CASE InsertAgent(p)
    <3>1. process' \in [Processes -> Process]
      BY <2>3, UsesTyped DEF InsertAgent, UsesWinner, AgentsOf
    <3>2. process[p].flagship \in Processes
      BY <2>3 DEF InsertAgent, InProgress, Progress, At
    <3>3. agent' \in [Processes -> OptionOf(Processes)]
      BY <2>3, <3>2, OptionsWritten DEF InsertAgent
    <3> QED BY <2>3, <3>1, <3>3 DEF InsertAgent
  <2>4. CASE CommitRun(p)
    <3>1. process' \in [Processes -> Process]
      BY <2>4, <1>steps, GoingTyped DEF CommitRun
    <3>2. agent' \in [Processes -> OptionOf(Processes)]
      BY <2>4 DEF CommitRun, OptionOf
    <3>3. process[p].agent \in Processes /\ process[p].flagship \in Processes
      BY <2>4 DEF CommitRun, InProgress, Progress, At
    <3>4. run' \in [Processes -> Run]
      BY <2>4, <3>3, RunWritten DEF CommitRun
    <3> QED BY <2>4, <3>1, <3>2, <3>4 DEF CommitRun
  <2>5. CASE StartRun(p)
    <3>1. process' \in [Processes -> Process]
      BY <2>5, <1>steps, GoingTyped DEF StartRun
    <3>2. run' \in [Processes -> Run]
      BY <2>5 DEF StartRun, Run
    <3> QED BY <2>5, <3>1, <3>2 DEF StartRun
  <2>6. CASE ExecuteRun(p)
    <3>1. process' \in [Processes -> Process]
      BY <2>6, <1>steps, GoingTyped DEF ExecuteRun
    <3>2. run' \in [Processes -> Run]
      <4>1. ASSUME NEW c \in CompletionStatuses, NEW r \in Run
            PROVE  Finished(r, c) \in Run
        BY DEF Finished, Run, OptionOf
      <4> QED BY <2>6, <4>1 DEF ExecuteRun
    <3> QED BY <2>6, <3>1, <3>2 DEF ExecuteRun
  <2>7. CASE Release(p)
    BY <2>7, <1>steps, GoingTyped, Unlocks DEF Release
  <2> QED BY <1>8, <2>1, <2>2, <2>3, <2>4, <2>5, <2>6, <2>7 DEF TickStep
<1>9. CASE Crash(p)
  <2>1. process' \in [Processes -> Process]
    BY <1>9, <1>steps, GoingTyped DEF Crash
  <2>2. agent' \in [Processes -> OptionOf(Processes)]
    BY <1>9 DEF Crash, OptionOf
  <2>3. lock' \in [Hosts -> OptionOf(Processes)]
    BY <1>9, Unlocks DEF Crash, LockAfterCrash
  <2> QED BY <1>9, <2>1, <2>2, <2>3 DEF Crash
<1> QED BY <1>1, <1>2, <1>3, <1>4, <1>5, <1>6, <1>7, <1>8, <1>9

-----------------------------------------------------------------------------
(* The agents and runs.  Most actions leave them alone and only move a      *)
(* process along.                                                           *)

RowsKept == UNCHANGED <<agent, inserted, run>>

LEMMA RowsKeptStep ==
  ASSUME RunInv, TypeOK', RowsKept, NEW p \in Processes,
         \A q \in Processes \ {p} : process'[q] = process[q],
         Progress(p)'
  PROVE  RunInv'
<1>1. InProgress'
  BY DEF RunInv, InProgress, Progress, RowsKept
<1> QED
  BY <1>1 DEF RunInv, RowsKept, OneAgentPerInstance, RunsAttached, OneRunPerInstance,
              Runs, AgentsOf, Committed

(* A run is changed in place: it keeps its challenge, agent and wallet.     *)
LEMMA RunMovesStep ==
  ASSUME RunInv, TypeOK', UNCHANGED <<agent, inserted>>, NEW p \in Processes,
         \A q \in Processes \ {p} : process'[q] = process[q] /\ run'[q] = run[q],
         run[p].status # "absent",
         /\ run'[p].challenge = run[p].challenge
         /\ run'[p].agent = run[p].agent /\ run'[p].wallet = run[p].wallet,
         Progress(p)'
  PROVE  RunInv'
<1>1. InProgress'
  BY DEF RunInv, InProgress, Progress
<1>2. \A q \in Processes : /\ run'[q].challenge = run[q].challenge
                           /\ run'[q].agent = run[q].agent
                           /\ run'[q].wallet = run[q].wallet
  OBVIOUS
<1>3. \A q \in Runs' : q \in Runs
  BY DEF Runs
<1>4. RunsAttached'
  BY <1>2, <1>3 DEF RunInv, RunsAttached, AgentsOf, Committed, Runs
<1>5. OneRunPerInstance'
  BY <1>2, <1>3 DEF RunInv, OneRunPerInstance, Runs
<1> QED BY <1>1, <1>4, <1>5 DEF RunInv, OneAgentPerInstance

(* The open transaction of a process ends without a commit.                 *)
LEMMA RollbackStep ==
  ASSUME RunInv, TypeOK', NEW p \in Processes,
         agent' = IF p \in inserted THEN [agent EXCEPT ![p] = None] ELSE agent,
         inserted' = inserted \ {p}, UNCHANGED run,
         \A q \in Processes \ {p} : process'[q] = process[q],
         process'[p].pc \in {"release", "done"}
  PROVE  RunInv'
<1> USE DEF RunInv
<1>1. \A q \in Processes \ {p} : agent'[q] = agent[q]
  BY DEF TypeOK
<1>2. ASSUME NEW q \in Processes \ {p} PROVE Progress(q)'
  <2>1. Progress(q)
    BY DEF InProgress
  <2>2. process[q].pc = "commit_run" =>
          process[q].agent # p \/ p \notin inserted
    BY <2>1 DEF Progress
  <2> QED BY <1>1, <2>1, <2>2 DEF Progress
<1>3. Progress(p)'
  BY DEF Progress, BeforeAgent
<1>4. OneAgentPerInstance'
  BY <1>1 DEF OneAgentPerInstance, TypeOK
<1>5. RunsAttached'
  BY <1>1 DEF RunsAttached, AgentsOf, Committed, Runs, TypeOK
<1>6. OneRunPerInstance'
  BY DEF OneRunPerInstance, Runs
<1> QED BY <1>2, <1>3, <1>4, <1>5, <1>6 DEF InProgress

(* The commit of the agent, if it is the process's own, and the run.        *)
LEMMA CommitStep ==
  ASSUME RunInv, TypeOK', NEW p \in Processes, CommitRun(p), ~Duplicate(p)
  PROVE  RunInv'
<1> USE DEF RunInv
<1>1. /\ process[p].flagship \in Processes /\ process[p].agent \in Processes
      /\ agent[process[p].agent] = process[p].flagship
      /\ process[p].agent \in inserted => process[p].agent = p
      /\ run[p].status = "absent"
  BY DEF CommitRun, InProgress, Progress, At
<1>2. /\ UNCHANGED agent
      /\ inserted' = inserted \ {p}
      /\ \A q \in Processes \ {p} : process'[q] = process[q] /\ run'[q] = run[q]
      /\ process'[p].pc = "start_run"
  <2>1. /\ UNCHANGED agent
        /\ inserted' = inserted \ {p}
        /\ process' = [process EXCEPT ![p].pc = "start_run"]
        /\ \A q \in Processes \ {p} : run'[q] = run[q]
    BY DEF CommitRun, Going, TypeOK
  <2>2. process \in [Processes -> Process] /\ process[p] \in Process
    BY DEF TypeOK
  <2> QED BY <2>1, <2>2 DEF Process
<1>3. /\ run'[p].status = "pending"
      /\ run'[p].challenge = process[p].challenge
      /\ run'[p].agent = process[p].agent
      /\ run'[p].wallet = process[p].flagship
  <2>1. run' = [run EXCEPT ![p] =
          [NoRun EXCEPT !.status = "pending", !.challenge = process[p].challenge,
                        !.agent = process[p].agent, !.wallet = process[p].flagship]]
    BY DEF CommitRun
  <2>2. run \in [Processes -> Run]
    BY DEF TypeOK
  <2> QED BY <2>1, <2>2 DEF NoRun
<1>4. Runs' = Runs \cup {p}
  BY <1>2, <1>3 DEF Runs
<1>5. InProgress'
  <2>1. ASSUME NEW q \in Processes \ {p} PROVE Progress(q)'
    BY <1>2 DEF InProgress, Progress
  <2>2. Progress(p)'
    BY <1>2, <1>3 DEF Progress, BeforeAgent
  <2> QED BY <2>1, <2>2 DEF InProgress
<1>6. RunsAttached'
  <2>1. ASSUME NEW r \in Runs, r # p
        PROVE  (run[r].agent \in AgentsOf(run[r].wallet))'
    BY <1>2, <2>1 DEF RunsAttached, AgentsOf, Committed, Runs
  <2>2. (run[p].agent \in AgentsOf(run[p].wallet))'
    BY <1>1, <1>2, <1>3, ProcessesAssumption DEF AgentsOf, Committed
  <2> QED BY <1>4, <2>1, <2>2 DEF RunsAttached
<1>7. OneRunPerInstance'
  <2>1. ASSUME NEW r \in Runs, r # p,
               run[r].challenge = process[p].challenge,
               run[r].wallet = process[p].flagship
        PROVE  FALSE
    <3>1. r \in Processes /\ run[r].status # "absent"
      BY DEF Runs
    <3>2. agent[run[r].agent] = process[p].flagship /\ run[r].agent \in Processes
      BY <2>1 DEF RunsAttached, AgentsOf
    <3>3. run[r].agent = process[p].agent
      BY <3>2, <1>1, ProcessesAssumption DEF OneAgentPerInstance
    <3> QED BY <2>1, <3>1, <3>3 DEF Duplicate
  <2> QED BY <1>2, <1>3, <1>4, <2>1 DEF OneRunPerInstance, Runs
<1> QED BY <1>2, <1>5, <1>6, <1>7 DEF OneAgentPerInstance

(* A new agent: its process had none and the key was free.                  *)
LEMMA InsertStep ==
  ASSUME RunInv, TypeOK', NEW p \in Processes, InsertAgent(p),
         ~KeyTaken(process[p].flagship)
  PROVE  RunInv'
<1> USE DEF RunInv
<1> DEFINE i == process[p].flagship
<1>1. i \in Processes /\ agent[p] = None /\ p \notin inserted /\ run[p].status = "absent"
  BY DEF InsertAgent, InProgress, Progress, At, BeforeAgent
<1>2. /\ agent' = [agent EXCEPT ![p] = i]
      /\ inserted' = inserted \cup {p}
      /\ UNCHANGED run
      /\ process' = [process EXCEPT ![p].pc = "commit_run", ![p].agent = p]
  BY DEF InsertAgent, Uses
<1>3. \A a \in Processes : agent[a] # i
  BY <1>1, ProcessesAssumption DEF InsertAgent, KeyTaken, AgentsOf, Committed
<1>4. \A a \in Processes \ {p} : agent'[a] = agent[a] /\ process'[a] = process[a]
  BY <1>2 DEF TypeOK
<1>5. agent'[p] = i
  BY <1>2 DEF TypeOK
<1>6. process'[p].pc = "commit_run" /\ process'[p].agent = p /\ process'[p].flagship = i
  BY <1>2 DEF TypeOK, Process
<1>7. InProgress'
  <2>1. ASSUME NEW q \in Processes \ {p} PROVE Progress(q)'
    <3>1. Progress(q) /\ i # None
      BY <1>1, ProcessesAssumption DEF InProgress
    <3>2. process[q].pc = "commit_run" => process[q].agent # p
      BY <3>1, <1>1, ProcessesAssumption DEF Progress
    <3>3. /\ process'[q] = process[q] /\ agent'[q] = agent[q] /\ run'[q] = run[q]
          /\ q \in inserted' => q \in inserted
          /\ \A a \in Processes \ {p} :
               agent'[a] = agent[a] /\ (a \in inserted' => a \in inserted)
      BY <1>2, <1>4
    <3> QED BY <3>1, <3>2, <3>3 DEF Progress
  <2>2. Progress(p)'
    BY <1>1, <1>2, <1>5, <1>6 DEF Progress, BeforeAgent
  <2> QED BY <2>1, <2>2 DEF InProgress
<1>8. OneAgentPerInstance'
  BY <1>3, <1>4, <1>5 DEF OneAgentPerInstance
<1>9. RunsAttached'
  BY <1>1, <1>2, <1>4 DEF RunsAttached, AgentsOf, Committed, Runs
<1>10. OneRunPerInstance'
  BY <1>2 DEF OneRunPerInstance, Runs
<1> QED BY <1>7, <1>8, <1>9, <1>10

LEMMA RunInvStep ==
  ASSUME RunInv, [Next]_vars
  PROVE  RunInv'
<1> USE DEF RunInv
<1>1. CASE UNCHANGED vars
  BY <1>1 DEF vars, TypeOK, InProgress, Progress, OneAgentPerInstance, RunsAttached,
              OneRunPerInstance, Runs, AgentsOf, Committed
<1>2. CASE Next
  <2>1. TypeOK'
    BY <1>2, TypeStep
  <2> PICK p \in Processes :
        \/ Bootstrap(p) \/ BootstrapCommit(p)
        \/ DeployFlagship(p) \/ Deploy(p) \/ Promote(p)
        \/ OperateOn(p)
        \/ \E h \in Hosts, c \in Challenges : Tick(p, h, c)
        \/ TickStep(p)
        \/ Crash(p)
    BY <1>2 DEF Next
  <2>2. Progress(p) /\ process[p] \in Process /\ process \in [Processes -> Process]
    BY DEF InProgress, TypeOK
  <2>3. ASSUME NEW pc, Going(p, pc)
        PROVE  /\ process'[p] = [process[p] EXCEPT !.pc = pc]
               /\ process'[p].pc = pc
               /\ \A q \in Processes \ {p} : process'[q] = process[q]
    BY <2>2, <2>3 DEF Going, Process
  <2>4. CASE Bootstrap(p) \/ BootstrapCommit(p) \/ DeployFlagship(p) \/ Deploy(p)
             \/ Promote(p)
    <3>1. /\ process[p].pc \in BeforeAgent \ {"find_agent", "insert_agent"}
          /\ \E pc \in {"bootstrap_commit", "deploy", "promote", "done"} : Going(p, pc)
          /\ RowsKept
      BY <2>4 DEF Bootstrap, BootstrapCommit, DeployFlagship, Deploy, Promote, At,
                  BeforeAgent, RowsKept, rows
    <3>2. PICK pc \in {"bootstrap_commit", "deploy", "promote", "done"} : Going(p, pc)
      BY <3>1
    <3>3. Progress(p)'
      BY <2>2, <2>3, <3>1, <3>2 DEF Progress, BeforeAgent, RowsKept
    <3> QED BY <2>1, <2>3, <3>1, <3>2, <3>3, RowsKeptStep
  <2>5. CASE OperateOn(p)
    <3>1. UNCHANGED process /\ RowsKept
      BY <2>5 DEF OperateOn, RowsKept
    <3>2. Progress(p)'
      BY <2>2, <3>1 DEF Progress, RowsKept
    <3> QED BY <2>1, <3>1, <3>2, RowsKeptStep
  <2>6. ASSUME NEW h \in Hosts, NEW c \in Challenges, Tick(p, h, c)
        PROVE  RunInv'
    <3>1. /\ process[p].pc = "idle" /\ process'[p].pc = "resolve"
          /\ \A q \in Processes \ {p} : process'[q] = process[q]
          /\ RowsKept
      BY <2>2, <2>6 DEF Tick, At, RowsKept, rows, Process
    <3>2. Progress(p)'
      BY <2>2, <3>1 DEF Progress, BeforeAgent, RowsKept
    <3> QED BY <2>1, <3>1, <3>2, RowsKeptStep
  <2>7. CASE Resolve(p)
    <3>1. RowsKept /\ process[p].pc = "resolve"
      BY <2>7 DEF Resolve, At, RowsKept, rows
    <3>2. CASE Going(p, "release")
      <4>1. process'[p].pc = "release"
        BY <2>3, <3>2
      <4>2. Progress(p)'
        BY <2>2, <3>1, <4>1 DEF Progress, BeforeAgent, RowsKept
      <4> QED BY <2>1, <2>3, <3>1, <3>2, <4>2, RowsKeptStep
    <3>3. ASSUME NEW i \in Flagships,
                 process' = [process EXCEPT ![p].pc = "find_agent", ![p].flagship = i]
          PROVE  RunInv'
      <4>1. /\ process'[p].pc = "find_agent" /\ process'[p].flagship = i
            /\ \A q \in Processes \ {p} : process'[q] = process[q]
            /\ i \in Processes
        BY <2>2, <3>3 DEF Process, Flagships
      <4>2. Progress(p)'
        BY <2>2, <3>1, <4>1 DEF Progress, BeforeAgent, RowsKept
      <4> QED BY <2>1, <3>1, <4>1, <4>2, RowsKeptStep
    <3> QED BY <2>7, <3>2, <3>3 DEF Resolve
  <2>8. ASSUME NEW a \in AgentsOf(process[p].flagship), Uses(p, a), RowsKept,
               process[p].pc \in {"find_agent", "insert_agent"}
        PROVE  RunInv'
    <3>1. /\ process'[p].pc = "commit_run" /\ process'[p].agent = a
          /\ process'[p].flagship = process[p].flagship
          /\ \A q \in Processes \ {p} : process'[q] = process[q]
      BY <2>2, <2>8 DEF Uses, Process
    <3>2. Progress(p)'
      BY <2>2, <2>8, <3>1 DEF Progress, BeforeAgent, RowsKept, AgentsOf, Committed
    <3> QED BY <2>1, <2>8, <3>1, <3>2, RowsKeptStep
  <2>9. CASE FindAgent(p)
    <3>1. CASE AgentsOf(process[p].flagship) = {}
      <4>1. RowsKept /\ process[p].pc = "find_agent" /\ Going(p, "insert_agent")
        BY <2>9, <3>1 DEF FindAgent, At, RowsKept, rows
      <4>2. process'[p].flagship = process[p].flagship /\ process'[p].pc = "insert_agent"
        BY <2>2, <2>3, <4>1 DEF Process
      <4>3. Progress(p)'
        BY <2>2, <4>1, <4>2 DEF Progress, BeforeAgent, RowsKept
      <4> QED BY <2>1, <2>3, <4>1, <4>3, RowsKeptStep
    <3>2. CASE AgentsOf(process[p].flagship) # {}
      BY <2>8, <2>9, <3>2 DEF FindAgent, At, RowsKept, rows
    <3> QED BY <3>1, <3>2
  <2>10. CASE InsertAgent(p)
    <3>1. CASE KeyTaken(process[p].flagship)
      BY <2>8, <2>10, <3>1 DEF InsertAgent, UsesWinner, At, RowsKept
    <3> QED BY <2>1, <2>10, <3>1, InsertStep
  <2>11. CASE CommitRun(p)
    <3>1. CASE Duplicate(p)
      <4>1. /\ agent' = IF p \in inserted THEN [agent EXCEPT ![p] = None] ELSE agent
            /\ inserted' = inserted \ {p} /\ UNCHANGED run /\ Going(p, "release")
        BY <2>11, <3>1 DEF CommitRun
      <4> QED BY <2>1, <2>3, <4>1, RollbackStep
    <3> QED BY <2>1, <2>11, <3>1, CommitStep
  <2>12. ASSUME NEW pc \in {"execute", "release"}, Going(p, pc),
                process[p].pc \in {"start_run", "execute"}, UNCHANGED <<agent, inserted>>,
                run'[p].status # "absent",
                /\ run'[p].challenge = run[p].challenge
                /\ run'[p].agent = run[p].agent /\ run'[p].wallet = run[p].wallet,
                \A q \in Processes \ {p} : run'[q] = run[q]
         PROVE  RunInv'
    <3>1. run[p].status # "absent" /\ p \notin inserted
      BY <2>2, <2>12 DEF Progress
    <3>2. Progress(p)'
      BY <2>3, <2>12, <3>1 DEF Progress, BeforeAgent
    <3> QED BY <2>1, <2>3, <2>12, <3>1, <3>2, RunMovesStep
  <2>13. run \in [Processes -> Run] /\ run[p] \in Run
    BY DEF TypeOK
  <2>14. CASE StartRun(p)
    <3>1. process[p].pc = "start_run" /\ run[p].status # "absent"
      BY <2>2, <2>14 DEF StartRun, At, Progress
    <3>2. CASE Going(p, "release") /\ UNCHANGED run
      BY <2>12, <2>14, <3>1, <3>2 DEF StartRun
    <3>3. CASE run' = [run EXCEPT ![p].status = "running"] /\ Going(p, "execute")
      <4>1. /\ run'[p].status = "running"
            /\ run'[p].challenge = run[p].challenge
            /\ run'[p].agent = run[p].agent /\ run'[p].wallet = run[p].wallet
            /\ \A q \in Processes \ {p} : run'[q] = run[q]
        BY <2>13, <3>3 DEF Run
      <4> QED BY <2>12, <2>14, <3>1, <3>3, <4>1 DEF StartRun
    <3> QED BY <2>14, <3>2, <3>3 DEF StartRun
  <2>15. CASE ExecuteRun(p)
    <3>1. process[p].pc = "execute" /\ run[p].status # "absent" /\ Going(p, "release")
      BY <2>2, <2>15 DEF ExecuteRun, At, Progress
    <3>2. CASE UNCHANGED run
      BY <2>12, <2>15, <3>1, <3>2 DEF ExecuteRun
    <3>3. ASSUME NEW s \in CompletionStatuses, run' = [run EXCEPT ![p] = Finished(@, s)]
          PROVE  RunInv'
      <4>1. /\ run'[p].status = "completed"
            /\ run'[p].challenge = run[p].challenge
            /\ run'[p].agent = run[p].agent /\ run'[p].wallet = run[p].wallet
            /\ \A q \in Processes \ {p} : run'[q] = run[q]
        BY <2>13, <3>3 DEF Run, Finished
      <4> QED BY <2>12, <2>15, <3>1, <4>1 DEF ExecuteRun
    <3> QED BY <2>15, <3>2, <3>3 DEF ExecuteRun
  <2>16. CASE Release(p)
    <3>1. process[p].pc = "release" /\ Going(p, "done") /\ RowsKept
      BY <2>16 DEF Release, At, RowsKept, rows
    <3>2. process'[p].pc = "done"
      BY <2>3, <3>1
    <3>3. Progress(p)'
      BY <2>2, <3>1, <3>2 DEF Progress, BeforeAgent, RowsKept
    <3> QED BY <2>1, <2>3, <3>1, <3>3, RowsKeptStep
  <2>17. CASE Crash(p)
    BY <2>1, <2>3, <2>17, RollbackStep DEF Crash
  <2> QED BY <2>4, <2>5, <2>6, <2>7, <2>9, <2>10, <2>11, <2>14, <2>15, <2>16, <2>17
             DEF TickStep
<1> QED BY <1>1, <1>2

-----------------------------------------------------------------------------
(* The label.                                                               *)

LEMMA LabelsStep ==
  ASSUME TypeOK, Labels, [Next]_vars
  PROVE  Labels'
<1>1. CASE UNCHANGED vars
  BY <1>1 DEF vars, Labels, Labelling
<1>2. CASE Next
  <2> PICK p \in Processes :
        \/ Bootstrap(p) \/ BootstrapCommit(p)
        \/ DeployFlagship(p) \/ Deploy(p) \/ Promote(p)
        \/ OperateOn(p)
        \/ \E h \in Hosts, c \in Challenges : Tick(p, h, c)
        \/ TickStep(p)
        \/ Crash(p)
    BY <1>2 DEF Next
  <2>1. /\ Labelling(p) /\ process[p] \in Process /\ instance[p] \in Instance
        /\ process \in [Processes -> Process] /\ instance \in [Processes -> Instance]
    BY DEF Labels, TypeOK
  <2>2. ASSUME NEW pc, Going(p, pc)
        PROVE  /\ process'[p].pc = pc
               /\ \A q \in Processes \ {p} : process'[q] = process[q]
    BY <2>1, <2>2 DEF Going, Process
  <2>3. ASSUME UNCHANGED <<subject, canonical>>, Labelling(p)',
               \A q \in Processes \ {p} :
                 process'[q] = process[q] /\ instance'[q] = instance[q]
        PROVE  Labels'
    BY <2>3 DEF Labels, Labelling
  <2>4. CASE Bootstrap(p)
    <3>1. process[p].pc = "idle" /\ UNCHANGED instance /\ Going(p, "bootstrap_commit")
      BY <2>4 DEF Bootstrap, At, rows
    <3>2. Labelling(p)'
      BY <2>1, <2>2, <3>1 DEF Labelling
    <3> QED BY <2>2, <2>3, <2>4, <3>1, <3>2 DEF Bootstrap, rows
  <2>5. CASE BootstrapCommit(p)
    <3>1. /\ subject' = p /\ subject' \in canonical' /\ UNCHANGED instance
          /\ Going(p, "done") /\ process[p].pc = "bootstrap_commit"
      BY <2>5 DEF BootstrapCommit, At
    <3>2. \A q \in Processes : Labelling(q)'
      BY <2>1, <2>2, <3>1, ProcessesAssumption DEF Labels, Labelling
    <3> QED BY <3>1, <3>2 DEF Labels
  <2>6. CASE DeployFlagship(p)
    <3>1. /\ process[p].pc = "idle" /\ subject # None
          /\ UNCHANGED <<subject, canonical, instance>> /\ Going(p, "deploy")
      BY <2>6 DEF DeployFlagship, MayDeploy, At, rows
    <3>2. Labelling(p)'
      BY <2>1, <2>2, <3>1 DEF Labelling
    <3> QED BY <2>2, <2>3, <3>1, <3>2
  <2>7. CASE Deploy(p)
    <3>1. process[p].pc = "deploy" /\ UNCHANGED <<subject, canonical>>
      BY <2>7 DEF Deploy, At
    <3>2. CASE Going(p, "done") /\ UNCHANGED instance
      BY <2>1, <2>2, <2>3, <3>1, <3>2 DEF Labelling
    <3>3. ASSUME NEW status \in {"live", "failed"},
                 instance' = [instance EXCEPT ![p].status = status],
                 Going(p, IF Promotes(status) THEN "promote" ELSE "done")
          PROVE  Labels'
      <4>1. /\ instance'[p].status = status
            /\ instance'[p].benchmarked = instance[p].benchmarked
            /\ \A q \in Processes \ {p} : instance'[q] = instance[q]
        BY <2>1, <3>3 DEF Instance
      <4>2. Labelling(p)'
        BY <2>1, <2>2, <3>1, <3>3, <4>1 DEF Labelling, Promotes
      <4> QED BY <2>2, <2>3, <3>1, <3>3, <4>1, <4>2
    <3> QED BY <2>7, <3>2, <3>3 DEF Deploy
  <2>8. CASE Promote(p)
    <3>1. /\ process[p].pc = "promote" /\ UNCHANGED <<subject, canonical>>
          /\ Going(p, "done")
      BY <2>8 DEF Promote, At
    <3>2. /\ instance'[p].status = instance[p].status
          /\ \A q \in Processes \ {p} : instance'[q] = instance[q]
      BY <2>1, <2>8 DEF Promote, Instance
    <3>3. Labelling(p)'
      BY <2>1, <2>2, <3>1, <3>2 DEF Labelling
    <3> QED BY <2>2, <2>3, <3>1, <3>2, <3>3
  <2>9. CASE OperateOn(p)
    <3>1. UNCHANGED <<subject, canonical, process>>
      BY <2>9 DEF OperateOn
    <3>2. /\ instance'[p].benchmarked = instance[p].benchmarked
          /\ instance'[p].status \in {"live", "torn_down", instance[p].status}
          /\ \A q \in Processes \ {p} : instance'[q] = instance[q]
      BY <2>1, <2>9 DEF OperateOn, Instance
    <3>3. Labelling(p)'
      BY <2>1, <3>1, <3>2 DEF Labelling
    <3> QED BY <2>3, <3>1, <3>2, <3>3
  <2>10. ASSUME NEW h \in Hosts, NEW c \in Challenges, Tick(p, h, c)
         PROVE  Labels'
    <3>1. /\ process[p].pc = "idle" /\ process'[p].pc = "resolve"
          /\ \A q \in Processes \ {p} : process'[q] = process[q]
          /\ UNCHANGED <<subject, canonical, instance>>
      BY <2>1, <2>10 DEF Tick, At, rows, Process
    <3>2. Labelling(p)'
      BY <2>1, <3>1 DEF Labelling
    <3> QED BY <2>3, <3>1, <3>2
  <2>11. CASE TickStep(p)
    <3>1. /\ process[p].pc \in TickSteps /\ process'[p].pc \in TickSteps \cup {"done"}
          /\ \A q \in Processes \ {p} : process'[q] = process[q]
      <4>1. CASE Resolve(p)
        BY <2>1, <2>2, <4>1 DEF Resolve, At, TickSteps, Process
      <4>2. CASE FindAgent(p)
        BY <2>1, <2>2, <4>2 DEF FindAgent, Uses, At, TickSteps, Process
      <4>3. CASE InsertAgent(p)
        BY <2>1, <4>3 DEF InsertAgent, UsesWinner, Uses, At, TickSteps, Process
      <4>4. CASE CommitRun(p)
        BY <2>2, <4>4 DEF CommitRun, At, TickSteps
      <4>5. CASE StartRun(p)
        BY <2>2, <4>5 DEF StartRun, At, TickSteps
      <4>6. CASE ExecuteRun(p)
        BY <2>2, <4>6 DEF ExecuteRun, At, TickSteps
      <4>7. CASE Release(p)
        BY <2>2, <4>7 DEF Release, At, TickSteps
      <4> QED BY <2>11, <4>1, <4>2, <4>3, <4>4, <4>5, <4>6, <4>7 DEF TickStep
    <3>2. UNCHANGED <<subject, canonical, instance>>
      BY <2>11 DEF TickStep, Resolve, FindAgent, InsertAgent, CommitRun, StartRun,
                   ExecuteRun, Release, rows
    <3>3. Labelling(p)'
      BY <2>1, <3>1, <3>2 DEF Labelling, TickSteps
    <3> QED BY <2>3, <3>1, <3>2, <3>3
  <2>12. CASE Crash(p)
    <3>1. UNCHANGED <<subject, canonical, instance>> /\ Going(p, "done")
      BY <2>12 DEF Crash
    <3>2. Labelling(p)'
      BY <2>1, <2>2, <3>1 DEF Labelling
    <3> QED BY <2>2, <2>3, <3>1, <3>2
  <2> QED BY <2>4, <2>5, <2>6, <2>7, <2>8, <2>9, <2>10, <2>11, <2>12
<1> QED BY <1>1, <1>2

-----------------------------------------------------------------------------
LEMMA InvariantInit == Init => IInv
<1> SUFFICES ASSUME Init PROVE IInv
  OBVIOUS
<1>1. TypeOK
  BY DEF Init, TypeOK, Instance, Run, NoRun, Process, Steps, OptionOf
<1>2. InProgress
  BY DEF Init, InProgress, Progress, BeforeAgent, NoRun
<1>3. OneAgentPerInstance /\ Runs = {}
  BY DEF Init, OneAgentPerInstance, Runs, NoRun
<1>4. Labels
  BY DEF Init, Labels, Labelling
<1> QED BY <1>1, <1>2, <1>3, <1>4 DEF IInv, RunInv, RunsAttached, OneRunPerInstance

THEOREM HostedInvariant == Spec => []IInv
<1>1. IInv /\ [Next]_vars => IInv'
  BY RunInvStep, LabelsStep DEF IInv, RunInv
<1> QED BY <1>1, InvariantInit, PTL DEF Spec

(* Rows, locks and processes stay of their types.                           *)
THEOREM HostedTypeCorrect == Spec => []TypeOK
BY HostedInvariant, PTL DEF IInv, RunInv

(* However many hosts tick at once, an instance runs a challenge at most    *)
(* once.                                                                    *)
THEOREM OneRun == Spec => []OneRunPerInstance
BY HostedInvariant, PTL DEF IInv, RunInv

(* Every run hangs on the one committed agent of the instance whose wallet  *)
(* it spends, whoever inserted that agent.                                  *)
THEOREM RunsAreAttached == Spec => []RunsAttached
BY HostedInvariant, PTL DEF IInv, RunInv

(* The flagship's label is only on rows whose deploy came through live,     *)
(* under a template linked to a canonical agent.                            *)
THEOREM LabelIsEarned == Spec => []LabelEarned
<1>1. IInv => LabelEarned
  BY DEF IInv, Labels, Labelling, LabelEarned
<1> QED BY <1>1, HostedInvariant, PTL
=============================================================================
