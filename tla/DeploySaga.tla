----------------------------- MODULE DeploySaga -----------------------------
(***************************************************************************)
(* Hosted agent instances of the backend: the deploy saga and the versioned *)
(* config update of services/instance_service.py, and the operator          *)
(* endpoints retry-consent and teardown of api/instances_operator.py.       *)
(*                                                                          *)
(* Requests run concurrently in one asyncio process, each with a database   *)
(* session of its own; a request is cut at its awaits.  A row is read once, *)
(* without a lock, kept by the session (expire_on_commit=False) and written *)
(* back, changed columns only, by a later commit.  Wallets (Privy) and      *)
(* sessions (AgentOS) live outside the database.                            *)
(*                                                                          *)
(* A request creates at most one row, one wallet and one session, which     *)
(* bear its name.  The process may be killed between any two steps, and any  *)
(* flush or commit may fail: what was not committed is then lost.           *)
(***************************************************************************)
EXTENDS Option, FiniteSets

CONSTANTS
  Requests,      \* requests, and the rows, wallets and sessions they create
  MaxInFlight    \* bound on the requests served at once

ASSUME RequestsAssumption == None \notin Requests
ASSUME NoneNotABoolean == None \notin BOOLEAN
ASSUME InFlightAssumption == MaxInFlight \in Nat \ {0}

VARIABLES
  row,        \* committed agent_instances row of each request
  wallets,    \* hosted wallets that exist
  sessions,   \* AgentOS sessions that exist
  request     \* progress of each request

vars == <<row, wallets, sessions, request>>

FailedStatuses == {"wallet_created_runtime_failed", "runtime_live_consent_failed"}

(* provisioning_failed and paused are never written, and provisioning is    *)
(* never committed.                                                         *)
RowStatuses == {"absent", "live", "torn_down"} \cup FailedStatuses

Row ==
  [status                    : RowStatuses,
   last_failure_reason       : OptionOf(FailedStatuses),
   consent_artifact          : BOOLEAN,
   runtime_handle            : BOOLEAN,
   superseded_by_instance_id : OptionOf(Requests)]

AbsentRow ==
  [status |-> "absent", last_failure_reason |-> None, consent_artifact |-> FALSE,
   runtime_handle |-> FALSE, superseded_by_instance_id |-> None]

SagaSteps == {"create_wallet", "insert_row", "runtime_deploy", "record_consent"}
Steps ==
  SagaSteps \cup {"idle", "supersede", "retry_commit", "runtime_teardown",
                  "teardown_commit", "done", "failed", "crashed"}

(* cleanup_ok is the runtime_cleanup_ok a teardown answers with, from where *)
(* it is known.                                                             *)
Request ==
  [pc : Steps, target : OptionOf(Requests), cleanup_ok : OptionOf(BOOLEAN)]

Exists(i) == row[i].status # "absent"
At(q, pc) == request[q].pc = pc
Going(q, pc) == request' = [request EXCEPT ![q].pc = pc]
InFlight == {q \in Requests : request[q].pc \notin {"idle", "done", "failed", "crashed"}}

Arrives(q) == At(q, "idle") /\ Cardinality(InFlight) < MaxInFlight

-----------------------------------------------------------------------------
Init ==
  /\ row = [q \in Requests |-> AbsentRow]
  /\ wallets = {}
  /\ sessions = {}
  /\ request = [q \in Requests |-> [pc |-> "idle", target |-> None, cleanup_ok |-> None]]

(* deploy_instance: a spec outside the envelope or a policy that cannot be  *)
(* built leaves no trace, so only specs that pass arrive.                   *)
Deploy(q) ==
  /\ Arrives(q)
  /\ Going(q, "create_wallet")
  /\ UNCHANGED <<row, wallets, sessions>>

(* update_instance_config: the checks on the old row, then the saga.  An    *)
(* unchanged config returns the old row.                                    *)
Update(q, i) ==
  /\ Arrives(q)
  /\ Exists(i)
  /\ row[i].superseded_by_instance_id = None
  /\ request' = [request EXCEPT ![q].pc = "create_wallet", ![q].target = i]
  /\ UNCHANGED <<row, wallets, sessions>>

(* A failed call ends the saga; the answer of one that made the wallet may  *)
(* be lost.                                                                 *)
CreateWallet(q) ==
  /\ At(q, "create_wallet")
  /\ \/ wallets' = wallets \cup {q} /\ Going(q, "insert_row")
     \/ wallets' \in {wallets, wallets \cup {q}} /\ Going(q, "done")
  /\ UNCHANGED <<row, sessions>>

(* An unknown or undeployable template ends the saga after the wallet was   *)
(* created.                                                                 *)
InsertRow(q) ==
  /\ At(q, "insert_row")
  /\ Going(q, "runtime_deploy") \/ Going(q, "done")
  /\ UNCHANGED <<row, wallets, sessions>>

(* Mutant: the failure reason is written in words of its own.               *)
FailedRowInWords(status, handle) ==
  [AbsentRow EXCEPT !.status = status, !.last_failure_reason = "failed",
                    !.runtime_handle = handle]

FailedRow(status, handle) ==
  [AbsentRow EXCEPT !.status = status, !.last_failure_reason = status,
                    !.runtime_handle = handle]

RuntimeDeploys(q) ==
  /\ At(q, "runtime_deploy")
  /\ sessions' = sessions \cup {q}
  /\ Going(q, "record_consent")
  /\ UNCHANGED <<row, wallets>>

(* Any exception of the call, also one raised after the session was made.   *)
(* The row that says so is committed, unless that commit fails.             *)
RuntimeDeployFails(q) ==
  /\ At(q, "runtime_deploy")
  /\ sessions' \in {sessions, sessions \cup {q}}
  /\ \/ /\ row' = [row EXCEPT ![q] = FailedRow("wallet_created_runtime_failed", FALSE)]
        /\ Going(q, "done")
     \/ UNCHANGED row /\ Going(q, "failed")
  /\ UNCHANGED wallets

(* Mutants: a failed saga supersedes too; a rejected consent is raised and  *)
(* nothing committed.                                                       *)
SupersedesAnyway(r) == TRUE
NoRowWithoutConsent(recorded) ==
  IF recorded
  THEN [AbsentRow EXCEPT !.status = "live", !.consent_artifact = TRUE,
                         !.runtime_handle = TRUE]
  ELSE AbsentRow

RowAfterConsent(recorded) ==
  IF recorded
  THEN [AbsentRow EXCEPT !.status = "live", !.consent_artifact = TRUE,
                         !.runtime_handle = TRUE]
  ELSE FailedRow("runtime_live_consent_failed", TRUE)

Supersedes(r) == r.status = "live"

(* Step 6 and its commit.  record_consent records or rejects, and the row   *)
(* is committed as live or as failed; an update then goes on to the old     *)
(* row.  If the flush of the artifact fails, the handler sets the failed    *)
(* status, but the transaction is over: the commit raises and the row is    *)
(* lost, as it is when the commit itself fails.                             *)
RecordConsent(q) ==
  /\ At(q, "record_consent")
  /\ \/ \E recorded \in BOOLEAN :
          LET r == RowAfterConsent(recorded)
          IN /\ row' = [row EXCEPT ![q] = r]
             /\ IF request[q].target # None /\ Supersedes(r)
                THEN Going(q, "supersede")
                ELSE Going(q, "done")
     \/ UNCHANGED row /\ Going(q, "failed")
  /\ UNCHANGED <<wallets, sessions>>

(* The second commit of update_instance_config.                             *)
Supersede(q) ==
  /\ At(q, "supersede")
  /\ row' = [row EXCEPT ![request[q].target].superseded_by_instance_id = q]
  /\ Going(q, "done")
  /\ UNCHANGED <<wallets, sessions>>

(* Mutant: any failed row can be promoted.                                  *)
RetryAnyFailed(r) == r.status \in FailedStatuses

RetryAllowed(r) == r.status = "runtime_live_consent_failed"

(* retry_consent: the row is read and checked, the artifact flushed, ...    *)
RetryConsent(q, i) ==
  /\ Arrives(q)
  /\ Exists(i) /\ RetryAllowed(row[i])
  /\ request' = [request EXCEPT ![q].pc = "retry_commit", ![q].target = i]
  /\ UNCHANGED <<row, wallets, sessions>>

(* ... and the row written back whatever became of it since.                *)
RetryCommit(q) ==
  /\ At(q, "retry_commit")
  /\ row' = [row EXCEPT ![request[q].target].status = "live",
                        ![request[q].target].last_failure_reason = None,
                        ![request[q].target].consent_artifact = TRUE]
  /\ Going(q, "done")
  /\ UNCHANGED <<wallets, sessions>>

(* teardown_instance.  A row that is torn down is answered as cleaned up,   *)
(* whatever became of its session; so is, once committed, one without a     *)
(* handle.                                                                  *)
Teardown(q, i) ==
  LET Goes(pc, ok) ==
        request' = [request EXCEPT ![q] = [pc |-> pc, target |-> i, cleanup_ok |-> ok]]
  IN /\ Arrives(q)
     /\ Exists(i)
     /\ \/ row[i].status = "torn_down" /\ Goes("done", TRUE)
        \/ /\ row[i].status # "torn_down"
           /\ IF row[i].runtime_handle THEN Goes("runtime_teardown", None)
                                       ELSE Goes("teardown_commit", TRUE)
     /\ UNCHANGED <<row, wallets, sessions>>

(* Mutant: a cleanup that failed is reported as done.                       *)
ReportAlwaysOk(ok) == TRUE

Report(ok) == ok

(* runtime.teardown: deleted (or already gone), or an exception, which may  *)
(* come after the deletion.  The endpoint goes on either way.               *)
RuntimeTeardown(q) ==
  /\ At(q, "runtime_teardown")
  /\ \E ok \in BOOLEAN :
       /\ sessions' \in {sessions \ {request[q].target}} \cup (IF ok THEN {} ELSE {sessions})
       /\ request' = [request EXCEPT ![q].pc = "teardown_commit",
                                     ![q].cleanup_ok = Report(ok)]
  /\ UNCHANGED <<row, wallets>>

(* Mutant: the failure reason outlives the failed state.                    *)
TornDownWithReason(r) == [r EXCEPT !.status = "torn_down"]

TornDown(r) == [r EXCEPT !.status = "torn_down", !.last_failure_reason = None]

TeardownCommit(q) ==
  /\ At(q, "teardown_commit")
  /\ row' = [row EXCEPT ![request[q].target] = TornDown(@)]
  /\ Going(q, "done")
  /\ UNCHANGED <<wallets, sessions>>

(* A flush or commit fails, and ends the request with its exception.        *)
DatabaseFails(q) ==
  /\ request[q].pc \in {"insert_row", "supersede", "retry_commit", "teardown_commit"}
  /\ Going(q, "failed")
  /\ UNCHANGED <<row, wallets, sessions>>

(* The process dies, or the client's disconnect cancels the request.        *)
Crash(q) ==
  /\ q \in InFlight
  /\ Going(q, "crashed")
  /\ UNCHANGED <<row, wallets, sessions>>

Next ==
  \E q \in Requests :
    \/ Deploy(q) \/ CreateWallet(q) \/ InsertRow(q)
    \/ RuntimeDeploys(q) \/ RuntimeDeployFails(q)
    \/ RecordConsent(q) \/ Supersede(q)
    \/ RetryCommit(q) \/ RuntimeTeardown(q) \/ TeardownCommit(q)
    \/ \E i \in Requests : Update(q, i) \/ RetryConsent(q, i) \/ Teardown(q, i)
    \/ DatabaseFails(q) \/ Crash(q)

Spec == Init /\ [][Next]_vars

-----------------------------------------------------------------------------
(* Properties.                                                              *)

SagaTypeOK ==
  /\ row \in [Requests -> Row]
  /\ wallets \subseteq Requests
  /\ sessions \subseteq Requests
  /\ request \in [Requests -> Request]

(* models.py:568: last_failure_reason is populated exactly while the status *)
(* is one of the failed saga states, and names it, through every            *)
(* interleaving of retries and teardowns on stale reads.                    *)
FailureReasonMatches ==
  \A i \in Requests :
    row[i].last_failure_reason =
      IF row[i].status \in FailedStatuses THEN row[i].status ELSE None

(* An instance that is live has all that its saga was to provide: a wallet, *)
(* a runtime handle and a consent on record, however it became live.        *)
LiveIsComplete ==
  \A i \in Requests :
    row[i].status = "live" =>
      i \in wallets /\ row[i].runtime_handle /\ row[i].consent_artifact

(* A saga that ran to its end leaves its session to a row that names it, or *)
(* that records that the deploy call failed (and so an answer may have been *)
(* lost).  A session without such a row is of a saga at its last step, or   *)
(* of one whose process died or whose database failed after the session was *)
(* made; rejected consents and failed calls leave none.                     *)
SessionsOwned ==
  \A q \in sessions :
    \/ request[q].pc \in {"record_consent", "failed", "crashed"}
    \/ row[q].runtime_handle
    \/ row[q].status \in {"wallet_created_runtime_failed", "torn_down"}

(* A teardown of the row has answered the boolean as runtime_cleanup_ok, or *)
(* would if it were not interrupted.                                        *)
CleanupIs(i, ok) ==
  \E q \in Requests : request[q].target = i /\ request[q].cleanup_ok = ok

CleanupReported(i) ==
  \E q \in Requests :
    request[q].target = i /\ request[q].cleanup_ok = FALSE /\ At(q, "done")

(* No session is left behind in silence: if the handle of a row names a     *)
(* session that still exists although the row is torn down, or although a   *)
(* teardown answered runtime_cleanup_ok=true, as a repeated one does, then  *)
(* another teardown of the row has answered false; however teardowns,       *)
(* retries, failures and deaths interleave.                                 *)
CleanupHonest ==
  \A i \in sessions :
    row[i].runtime_handle /\ (row[i].status = "torn_down" \/ CleanupIs(i, TRUE)) =>
      CleanupReported(i)

(* A superseded row points to a row that exists and is not in a failed      *)
(* state, the one an update of it created.                                  *)
LinksToUpdates ==
  \A i \in Requests :
    LET n == row[i].superseded_by_instance_id
    IN n # None =>
         /\ Exists(n) /\ row[n].status \notin FailedStatuses
         /\ request[n].target = i

(* No rows supersede one another in a circle.                               *)
LinksEnd ==
  \A S \in SUBSET Requests :
    S # {} /\ IsFiniteSet(S) =>
      \E i \in S : row[i].superseded_by_instance_id \notin S

(* A row is superseded only by one whose own saga completed, and who        *)
(* follows the links (instances/[id]/page has them) comes to an instance    *)
(* that is not superseded, although a row may be superseded twice.          *)
SupersessionSound == LinksToUpdates /\ LinksEnd

(* models.py:564 says of the status "torn_down -> (terminal)".              *)
TornDownIsTerminal ==
  [][\A i \in Requests :
       row[i].status = "torn_down" => row'[i].status = "torn_down"]_vars
=============================================================================
