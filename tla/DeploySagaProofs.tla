--------------------------- MODULE DeploySagaProofs ---------------------------
(***************************************************************************)
(* The safety invariants of DeploySaga, for every set of requests and every *)
(* bound on the requests in flight.                                         *)
(***************************************************************************)
EXTENDS DeploySaga, FiniteSetTheorems, TLAPS

(* What a request knows of the store it left behind: a saga in progress has *)
(* no row yet and, from its second step on, a wallet; a request that works  *)
(* on a row found it there; a row that can be retried has what its saga     *)
(* made before the consent failed.                                          *)
Progress(q) ==
  LET pc == request[q].pc
      t  == request[q].target
  IN /\ pc \in SagaSteps \cup {"idle"} => row[q].status = "absent"
     /\ pc \in {"insert_row", "runtime_deploy", "record_consent"} => q \in wallets
     /\ pc = "supersede" =>
          t \in Requests /\ row[q].status \in {"live", "torn_down"}
     /\ pc = "retry_commit" =>
          t \in Requests /\ Exists(t) /\ row[t].runtime_handle /\ t \in wallets
     /\ pc \in {"runtime_teardown", "teardown_commit"} => t \in Requests /\ Exists(t)
     /\ pc = "teardown_commit" => request[q].cleanup_ok # None
     /\ request[q].cleanup_ok # None =>
          /\ pc \in {"teardown_commit", "done", "failed", "crashed"}
          /\ t \in Requests /\ Exists(t)
     /\ row[q].status = "runtime_live_consent_failed" =>
          row[q].runtime_handle /\ q \in wallets

InProgress == \A q \in Requests : Progress(q)

IInv ==
  /\ SagaTypeOK
  /\ InProgress
  /\ FailureReasonMatches
  /\ LiveIsComplete
  /\ SessionsOwned
  /\ CleanupHonest
  /\ LinksToUpdates

(* What the actions write is of the right type.                             *)
LEMMA RequestsWritten ==
  ASSUME NEW r \in Request, NEW pc \in Steps, NEW t \in Requests, NEW ok \in BOOLEAN
  PROVE  /\ [r EXCEPT !.pc = pc] \in Request
         /\ [r EXCEPT !.pc = pc, !.target = t] \in Request
         /\ [r EXCEPT !.pc = pc, !.cleanup_ok = ok] \in Request
         /\ \A answer \in OptionOf(BOOLEAN) :
              [pc |-> pc, target |-> t, cleanup_ok |-> answer] \in Request
BY DEF Request, OptionOf

LEMMA RequestsStepped ==
  ASSUME NEW f \in [Requests -> Request], NEW q \in Requests,
         NEW pc \in Steps, NEW ok \in BOOLEAN
  PROVE  /\ [f EXCEPT ![q].pc = pc] \in [Requests -> Request]
         /\ [f EXCEPT ![q].pc = pc, ![q].cleanup_ok = ok] \in [Requests -> Request]
BY RequestsWritten

LEMMA RowsWritten ==
  ASSUME NEW r \in Row, NEW q \in Requests, NEW b \in BOOLEAN
  PROVE  /\ FailedRow("wallet_created_runtime_failed", FALSE) \in Row
         /\ RowAfterConsent(b) \in Row
         /\ TornDown(r) \in Row
         /\ [r EXCEPT !.superseded_by_instance_id = q] \in Row
         /\ [r EXCEPT !.status = "live", !.last_failure_reason = None,
                      !.consent_artifact = TRUE] \in Row
BY DEF Row, RowStatuses, FailedStatuses, FailedRow, RowAfterConsent, TornDown,
       AbsentRow, OptionOf

(* A step of the program counter alone.                                     *)
LEMMA GoingWrites ==
  ASSUME request \in [Requests -> Request], NEW q \in Requests, NEW pc, Going(q, pc)
  PROVE  /\ \A p \in Requests \ {q} : request'[p] = request[p]
         /\ request'[q].pc = pc
         /\ request'[q].target = request[q].target
         /\ request'[q].cleanup_ok = request[q].cleanup_ok
BY DEF Going, Request

(* Every step keeps the types; those that work on a row work on one that is *)
(* there (InProgress).                                                      *)
LEMMA TypeStep == SagaTypeOK /\ InProgress /\ [Next]_vars => SagaTypeOK'
<1> SUFFICES ASSUME SagaTypeOK, InProgress, [Next]_vars PROVE SagaTypeOK'
  OBVIOUS
<1> USE DEF SagaTypeOK, At, Going, Arrives, Steps, SagaSteps
<1>1. ASSUME NEW q \in Requests, NEW i \in Requests, Deploy(q) PROVE SagaTypeOK'
  BY <1>1, RequestsWritten, RowsWritten DEF Deploy
<1>2. ASSUME NEW q \in Requests, NEW i \in Requests, Update(q, i) PROVE SagaTypeOK'
  BY <1>2, RequestsWritten, RowsWritten DEF Update
<1>3. ASSUME NEW q \in Requests, NEW i \in Requests, CreateWallet(q) PROVE SagaTypeOK'
  <2>1. \A pc \in Steps : [request EXCEPT ![q].pc = pc] \in [Requests -> Request]
    BY RequestsStepped
  <2> QED BY <1>3, <2>1 DEF CreateWallet
<1>4. ASSUME NEW q \in Requests, NEW i \in Requests, InsertRow(q) PROVE SagaTypeOK'
  <2>1. \A pc \in Steps : [request EXCEPT ![q].pc = pc] \in [Requests -> Request]
    BY RequestsStepped
  <2> QED BY <1>4, <2>1 DEF InsertRow
<1>5. ASSUME NEW q \in Requests, NEW i \in Requests, RuntimeDeploys(q) PROVE SagaTypeOK'
  BY <1>5, RequestsWritten, RowsWritten DEF RuntimeDeploys
<1>6. ASSUME NEW q \in Requests, NEW i \in Requests, RuntimeDeployFails(q) PROVE SagaTypeOK'
  <2>1. \A pc \in Steps : [request EXCEPT ![q].pc = pc] \in [Requests -> Request]
    BY RequestsStepped
  <2>2. row' \in [Requests -> Row]
    <3>1. \A r \in Row : FailedRow("wallet_created_runtime_failed", FALSE) \in Row
      BY RowsWritten
    <3>2. row[q] \in Row /\ row \in [Requests -> Row]
      OBVIOUS
    <3> HIDE DEF SagaTypeOK
    <3> QED BY <1>6, <3>1, <3>2 DEF RuntimeDeployFails
  <2>3. sessions' \subseteq Requests /\ wallets' = wallets
    BY <1>6 DEF RuntimeDeployFails
  <2>4. request' \in [Requests -> Request]
    <3>1. Going(q, "done") \/ Going(q, "failed")
      BY <1>6, Zenon DEF RuntimeDeployFails
    <3> QED BY <2>1, <3>1
  <2> QED BY <2>2, <2>3, <2>4
<1>7. ASSUME NEW q \in Requests, NEW i \in Requests, RecordConsent(q) PROVE SagaTypeOK'
  <2>1. \A pc \in Steps : [request EXCEPT ![q].pc = pc] \in [Requests -> Request]
    BY RequestsStepped
  <2>2. row' \in [Requests -> Row]
    <3>1. \A recorded \in BOOLEAN : RowAfterConsent(recorded) \in Row
      BY RowsWritten
    <3>2. \/ UNCHANGED row
          \/ \E recorded \in BOOLEAN : row' = [row EXCEPT ![q] = RowAfterConsent(recorded)]
      BY <1>7 DEF RecordConsent
    <3> QED BY <3>1, <3>2
  <2> QED BY <1>7, <2>1, <2>2 DEF RecordConsent
<1>8. ASSUME NEW q \in Requests, NEW i \in Requests, Supersede(q) PROVE SagaTypeOK'
  BY <1>8, RequestsWritten, RowsWritten DEF Supersede, InProgress, Progress
<1>9. ASSUME NEW q \in Requests, NEW i \in Requests, RetryConsent(q, i) PROVE SagaTypeOK'
  BY <1>9, RequestsWritten, RowsWritten DEF RetryConsent
<1>10. ASSUME NEW q \in Requests, NEW i \in Requests, RetryCommit(q) PROVE SagaTypeOK'
  BY <1>10, RequestsWritten, RowsWritten DEF RetryCommit, InProgress, Progress
<1>11. ASSUME NEW q \in Requests, NEW i \in Requests, Teardown(q, i) PROVE SagaTypeOK'
  <2>1. \E pc \in Steps, ok \in OptionOf(BOOLEAN) : request' =
          [request EXCEPT ![q] = [pc |-> pc, target |-> i, cleanup_ok |-> ok]]
    BY <1>11 DEF Teardown, OptionOf
  <2>2. request' \in [Requests -> Request]
    <3> PICK pc \in Steps, ok \in OptionOf(BOOLEAN) : request' =
          [request EXCEPT ![q] = [pc |-> pc, target |-> i, cleanup_ok |-> ok]]
      BY <2>1
    <3>1. [pc |-> pc, target |-> i, cleanup_ok |-> ok] \in Request
      BY DEF Request, OptionOf
    <3> QED BY <3>1
  <2> QED BY <1>11, <2>2 DEF Teardown
<1>12. ASSUME NEW q \in Requests, NEW i \in Requests, RuntimeTeardown(q) PROVE SagaTypeOK'
  <2>1. PICK ok \in BOOLEAN :
          /\ sessions' \in {sessions \ {request[q].target}, sessions}
          /\ request' = [request EXCEPT ![q].pc = "teardown_commit",
                                        ![q].cleanup_ok = ok]
    BY <1>12 DEF RuntimeTeardown, Report
  <2>2. request' \in [Requests -> Request]
    BY <2>1, RequestsStepped
  <2> QED BY <1>12, <2>1, <2>2 DEF RuntimeTeardown
<1>13. ASSUME NEW q \in Requests, NEW i \in Requests, TeardownCommit(q) PROVE SagaTypeOK'
  BY <1>13, RequestsWritten, RowsWritten DEF TeardownCommit, InProgress, Progress
<1>14. ASSUME NEW q \in Requests, NEW i \in Requests, Crash(q) PROVE SagaTypeOK'
  BY <1>14, RequestsWritten, RowsWritten DEF Crash
<1>15. ASSUME NEW q \in Requests, NEW i \in Requests, DatabaseFails(q) PROVE SagaTypeOK'
  BY <1>15, RequestsWritten, RowsWritten DEF DatabaseFails
<1>16. CASE UNCHANGED vars
  BY <1>16 DEF vars
<1> QED
  BY <1>1, <1>2, <1>3, <1>4, <1>5, <1>6, <1>7, <1>8, <1>9, <1>10, <1>11, <1>12,
     <1>13, <1>14, <1>15, <1>16 DEF Next

(* A step of a request that is under way keeps the cleanup answers honest   *)
(* if it gives none itself, and if the rows and sessions it makes are new.  *)
LEMMA CleanupKept ==
  ASSUME IInv, NEW q \in Requests, ~At(q, "done"),
         \A p \in Requests \ {q} : request'[p] = request[p],
         request'[q].cleanup_ok = TRUE =>
           request[q].cleanup_ok = TRUE /\ request'[q].target = request[q].target,
         \A i \in sessions' :
           \/ /\ i \in sessions /\ row'[i].runtime_handle = row[i].runtime_handle
              /\ row'[i].status = "torn_down" => row[i].status = "torn_down"
           \/ ~Exists(i) /\ row'[i].status # "torn_down"
  PROVE  CleanupHonest'
<1> SUFFICES ASSUME NEW i \in sessions', row'[i].runtime_handle,
                    row'[i].status = "torn_down" \/ CleanupIs(i, TRUE)'
             PROVE  CleanupReported(i)'
  BY DEF CleanupHonest
<1>1. CleanupReported(i) => CleanupReported(i)'
  BY DEF CleanupReported, At
<1>2. CleanupIs(i, TRUE)' => CleanupIs(i, TRUE) /\ Exists(i)
  <2>1. ASSUME NEW p \in Requests, request'[p].target = i, request'[p].cleanup_ok = TRUE
        PROVE  request[p].target = i /\ request[p].cleanup_ok = TRUE /\ Exists(i)
    <3>1. request[p].target = i /\ request[p].cleanup_ok = TRUE
      BY <2>1
    <3> QED BY <3>1, NoneNotABoolean DEF IInv, InProgress, Progress
  <2> QED BY <2>1 DEF CleanupIs
<1>3. /\ i \in sessions /\ row'[i].runtime_handle = row[i].runtime_handle
      /\ row'[i].status = "torn_down" => row[i].status = "torn_down"
  BY <1>2
<1> QED BY <1>1, <1>2, <1>3 DEF IInv, CleanupHonest

(* The end of a saga, after its session may have been made: it commits the  *)
(* row of the saga's outcome, or its database fails and there is none.      *)
LEMMA SagaEnds ==
  ASSUME IInv, NEW q \in Requests,
         request[q].pc \in {"runtime_deploy", "record_consent"},
         \A p \in Requests \ {q} : request'[p] = request[p] /\ row'[p] = row[p],
         request'[q].target = request[q].target,
         request'[q].cleanup_ok = request[q].cleanup_ok,
         wallets' = wallets,
         sessions' \subseteq sessions \cup {q},
         \/ request'[q].pc = "failed" /\ row'[q] = row[q]
         \/ /\ request'[q].pc = "done"
            /\ row'[q] \in {FailedRow("wallet_created_runtime_failed", FALSE),
                            RowAfterConsent(FALSE), RowAfterConsent(TRUE)}
         \/ /\ request'[q].pc = "supersede" /\ request[q].target \in Requests
            /\ row'[q] = RowAfterConsent(TRUE)
  PROVE  /\ InProgress' /\ FailureReasonMatches' /\ LiveIsComplete'
         /\ SessionsOwned' /\ CleanupHonest' /\ LinksToUpdates'
<1> USE DEF FailedRow, RowAfterConsent, AbsentRow, FailedStatuses
<1>1. /\ row[q].status = "absent" /\ q \in wallets /\ request[q].cleanup_ok = None
      /\ \A p \in Requests : Progress(p)
  BY DEF IInv, InProgress, Progress, SagaSteps
<1>2. /\ ~Exists(q)
      /\ \A i \in Requests : Exists(i) => i # q /\ Exists(i)' /\ row'[i] = row[i]
  BY <1>1 DEF Exists
<1>3. InProgress'
  <2> SUFFICES ASSUME NEW p \in Requests PROVE Progress(p)'
    BY DEF InProgress
  <2>1. CASE p = q
    BY <1>1, <1>2, <2>1 DEF Progress, SagaSteps
  <2>2. CASE p # q
    BY <1>1, <1>2, <2>2 DEF Progress, SagaSteps
  <2> QED BY <2>1, <2>2
<1>4. FailureReasonMatches'
  <2> SUFFICES ASSUME NEW j \in Requests
               PROVE  row'[j].last_failure_reason =
                        IF row'[j].status \in FailedStatuses THEN row'[j].status ELSE None
    BY DEF FailureReasonMatches
  <2>1. CASE row'[j] = row[j]
    BY <2>1 DEF IInv, FailureReasonMatches
  <2>2. CASE j = q /\ row'[q] # row[q]
    BY <2>2
  <2> QED BY <2>1, <2>2
<1>5. LiveIsComplete'
  BY <1>1 DEF IInv, LiveIsComplete
<1>6. SessionsOwned'
  <2>1. /\ sessions \subseteq Requests
        /\ \A p \in sessions :
             \/ request[p].pc \in {"record_consent", "failed", "crashed"}
             \/ row[p].runtime_handle
             \/ row[p].status \in {"wallet_created_runtime_failed", "torn_down"}
    BY DEF IInv, SagaTypeOK, SessionsOwned
  <2>2. \/ request'[q].pc = "failed"
        \/ row'[q].runtime_handle
        \/ row'[q].status = "wallet_created_runtime_failed"
    OBVIOUS
  <2> QED BY <2>1, <2>2 DEF SessionsOwned
<1>7. CleanupHonest'
  <2>1. ~At(q, "done")
    BY DEF At
  <2>2. request'[q].cleanup_ok # TRUE
    BY <1>1, NoneNotABoolean
  <2>3. row'[q].status # "torn_down"
    BY <1>1
  <2>4. \A i \in sessions' :
          \/ i \in sessions /\ row'[i] = row[i]
          \/ ~Exists(i) /\ row'[i].status # "torn_down"
    BY <1>2, <2>3 DEF IInv, SagaTypeOK
  <2> QED BY <2>1, <2>2, <2>4, CleanupKept
<1>8. LinksToUpdates'
  <2> SUFFICES ASSUME NEW j \in Requests,
                      NEW n, n = row'[j].superseded_by_instance_id, n # None
               PROVE  /\ Exists(n)' /\ row'[n].status \notin FailedStatuses
                      /\ request'[n].target = j
    BY DEF LinksToUpdates
  <2>1. n = row[j].superseded_by_instance_id
    OBVIOUS
  <2>2. n \in Requests
    <3>1. row[j] \in Row
      BY DEF IInv, SagaTypeOK
    <3> QED BY <2>1, <3>1 DEF Row, OptionOf
  <2>3. Exists(n) /\ row[n].status \notin FailedStatuses /\ request[n].target = j
    BY <2>1 DEF IInv, LinksToUpdates
  <2> QED BY <1>2, <2>2, <2>3
<1> QED BY <1>3, <1>4, <1>5, <1>6, <1>7, <1>8

(* The invariant is inductive: one step per action, and under it one per    *)
(* conjunct.                                                                *)
LEMMA InvariantStep == IInv /\ [Next]_vars => IInv'
<1> SUFFICES ASSUME IInv, [Next]_vars PROVE IInv'
  OBVIOUS
<1> USE RequestsAssumption, NoneNotABoolean
<1> USE DEF OptionOf, Exists, At, Going, Arrives, Row, Request, Steps, SagaSteps,
            RowStatuses, FailedStatuses
<1> USE DEF AbsentRow, FailedRow, TornDown, RowAfterConsent, Supersedes, RetryAllowed, Report
<1>1. ASSUME NEW q \in Requests, NEW i \in Requests, Deploy(q) PROVE IInv'
  <2>2. InProgress'
    BY <1>1 DEF IInv, Deploy, SagaTypeOK, InProgress, Progress
  <2>3. FailureReasonMatches'
    BY <1>1 DEF IInv, Deploy, SagaTypeOK, FailureReasonMatches
  <2>4. LiveIsComplete'
    BY <1>1 DEF IInv, Deploy, SagaTypeOK, InProgress, Progress, LiveIsComplete
  <2>5. SessionsOwned'
    BY <1>1 DEF IInv, Deploy, SagaTypeOK, InProgress, Progress, SessionsOwned
  <2>6. CleanupHonest'
    <3>1. request \in [Requests -> Request]
      BY DEF IInv, SagaTypeOK
    <3> QED BY <1>1, <3>1, CleanupKept DEF Deploy
  <2>7. LinksToUpdates'
    BY <1>1 DEF IInv, Deploy, SagaTypeOK, InProgress, Progress, LinksToUpdates
  <2> QED BY TypeStep, <2>2, <2>3, <2>4, <2>5, <2>6, <2>7 DEF IInv
<1>2. ASSUME NEW q \in Requests, NEW i \in Requests, Update(q, i) PROVE IInv'
  <2>2. InProgress'
    BY <1>2 DEF IInv, Update, SagaTypeOK, InProgress, Progress
  <2>3. FailureReasonMatches'
    BY <1>2 DEF IInv, Update, SagaTypeOK, FailureReasonMatches
  <2>4. LiveIsComplete'
    BY <1>2 DEF IInv, Update, SagaTypeOK, InProgress, Progress, LiveIsComplete
  <2>5. SessionsOwned'
    BY <1>2 DEF IInv, Update, SagaTypeOK, InProgress, Progress, SessionsOwned
  <2>6. CleanupHonest'
    <3>1. request \in [Requests -> Request] /\ Progress(q)
      BY DEF IInv, SagaTypeOK, InProgress
    <3>2. request'[q].cleanup_ok = None
      BY <1>2, <3>1 DEF Update, Progress
    <3> QED BY <1>2, <3>1, <3>2, CleanupKept DEF Update
  <2>7. LinksToUpdates'
    BY <1>2 DEF IInv, Update, SagaTypeOK, InProgress, Progress, LinksToUpdates
  <2> QED BY TypeStep, <2>2, <2>3, <2>4, <2>5, <2>6, <2>7 DEF IInv
<1>3. ASSUME NEW q \in Requests, NEW i \in Requests, CreateWallet(q) PROVE IInv'
  <2>2. InProgress'
    BY <1>3 DEF IInv, CreateWallet, SagaTypeOK, InProgress, Progress
  <2>3. FailureReasonMatches'
    BY <1>3 DEF IInv, CreateWallet, SagaTypeOK, FailureReasonMatches
  <2>4. LiveIsComplete'
    BY <1>3 DEF IInv, CreateWallet, SagaTypeOK, InProgress, Progress, LiveIsComplete
  <2>5. SessionsOwned'
    BY <1>3 DEF IInv, CreateWallet, SagaTypeOK, InProgress, Progress, SessionsOwned
  <2>6. CleanupHonest'
    <3>1. request \in [Requests -> Request]
      BY DEF IInv, SagaTypeOK
    <3>2. At(q, "create_wallet") /\ UNCHANGED <<row, sessions>>
      BY <1>3 DEF CreateWallet
    <3>3. Going(q, "insert_row") \/ Going(q, "done")
      BY <1>3 DEF CreateWallet
    <3> HIDE DEF Going
    <3> QED BY <3>1, <3>2, <3>3, GoingWrites, CleanupKept
  <2>7. LinksToUpdates'
    BY <1>3 DEF IInv, CreateWallet, SagaTypeOK, InProgress, Progress, LinksToUpdates
  <2> QED BY TypeStep, <2>2, <2>3, <2>4, <2>5, <2>6, <2>7 DEF IInv
<1>4. ASSUME NEW q \in Requests, NEW i \in Requests, InsertRow(q) PROVE IInv'
  <2>2. InProgress'
    BY <1>4 DEF IInv, InsertRow, SagaTypeOK, InProgress, Progress
  <2>3. FailureReasonMatches'
    BY <1>4 DEF IInv, InsertRow, SagaTypeOK, FailureReasonMatches
  <2>4. LiveIsComplete'
    BY <1>4 DEF IInv, InsertRow, SagaTypeOK, InProgress, Progress, LiveIsComplete
  <2>5. SessionsOwned'
    BY <1>4 DEF IInv, InsertRow, SagaTypeOK, InProgress, Progress, SessionsOwned
  <2>6. CleanupHonest'
    <3>1. request \in [Requests -> Request]
      BY DEF IInv, SagaTypeOK
    <3>2. At(q, "insert_row") /\ UNCHANGED <<row, sessions>>
      BY <1>4 DEF InsertRow
    <3>3. Going(q, "runtime_deploy") \/ Going(q, "done")
      BY <1>4 DEF InsertRow
    <3> HIDE DEF Going
    <3> QED BY <3>1, <3>2, <3>3, GoingWrites, CleanupKept
  <2>7. LinksToUpdates'
    BY <1>4 DEF IInv, InsertRow, SagaTypeOK, InProgress, Progress, LinksToUpdates
  <2> QED BY TypeStep, <2>2, <2>3, <2>4, <2>5, <2>6, <2>7 DEF IInv
<1>5. ASSUME NEW q \in Requests, NEW i \in Requests, RuntimeDeploys(q) PROVE IInv'
  <2>2. InProgress'
    BY <1>5 DEF IInv, RuntimeDeploys, SagaTypeOK, InProgress, Progress
  <2>3. FailureReasonMatches'
    BY <1>5 DEF IInv, RuntimeDeploys, SagaTypeOK, FailureReasonMatches
  <2>4. LiveIsComplete'
    BY <1>5 DEF IInv, RuntimeDeploys, SagaTypeOK, InProgress, Progress, LiveIsComplete
  <2>5. SessionsOwned'
    BY <1>5 DEF IInv, RuntimeDeploys, SagaTypeOK, InProgress, Progress, SessionsOwned
  <2>6. CleanupHonest'
    <3>1. request \in [Requests -> Request]
      BY DEF IInv, SagaTypeOK
    <3>2. row[q].status = "absent"
      BY <1>5 DEF RuntimeDeploys, IInv, InProgress, Progress
    <3> QED BY <1>5, <3>1, <3>2, CleanupKept DEF RuntimeDeploys
  <2>7. LinksToUpdates'
    BY <1>5 DEF IInv, RuntimeDeploys, SagaTypeOK, InProgress, Progress, LinksToUpdates
  <2> QED BY TypeStep, <2>2, <2>3, <2>4, <2>5, <2>6, <2>7 DEF IInv
<1>6. ASSUME NEW q \in Requests, NEW i \in Requests, RuntimeDeployFails(q) PROVE IInv'
  <2>1. row \in [Requests -> Row] /\ request \in [Requests -> Request]
    BY DEF IInv, SagaTypeOK
  <2>2. /\ request[q].pc = "runtime_deploy" /\ wallets' = wallets
        /\ sessions' \subseteq sessions \cup {q}
        /\ \A p \in Requests \ {q} : request'[p] = request[p] /\ row'[p] = row[p]
        /\ request'[q].target = request[q].target
        /\ request'[q].cleanup_ok = request[q].cleanup_ok
    BY <1>6, <2>1 DEF RuntimeDeployFails
  <2>3. \/ request'[q].pc = "failed" /\ row'[q] = row[q]
        \/ /\ request'[q].pc = "done"
           /\ row'[q] = FailedRow("wallet_created_runtime_failed", FALSE)
    BY <1>6, <2>1 DEF RuntimeDeployFails
  <2> QED BY <2>2, <2>3, SagaEnds, TypeStep DEF IInv
<1>7. ASSUME NEW q \in Requests, NEW i \in Requests, RecordConsent(q) PROVE IInv'
  <2>1. row \in [Requests -> Row] /\ request \in [Requests -> Request]
    BY DEF IInv, SagaTypeOK
  <2>2. /\ request[q].pc = "record_consent" /\ UNCHANGED <<wallets, sessions>>
        /\ \/ UNCHANGED row /\ Going(q, "failed")
           \/ \E recorded \in BOOLEAN :
                /\ row' = [row EXCEPT ![q] = RowAfterConsent(recorded)]
                /\ \/ Going(q, "done")
                   \/ recorded /\ request[q].target # None /\ Going(q, "supersede")
    <3>1. RowAfterConsent(FALSE).status # "live"
      OBVIOUS
    <3> HIDE DEF RowAfterConsent, Going
    <3>2. \/ UNCHANGED row /\ Going(q, "failed")
          \/ \E recorded \in BOOLEAN :
               /\ row' = [row EXCEPT ![q] = RowAfterConsent(recorded)]
               /\ \/ Going(q, "done")
                  \/ /\ RowAfterConsent(recorded).status = "live"
                     /\ request[q].target # None /\ Going(q, "supersede")
      BY <1>7, Zenon DEF RecordConsent
    <3>3. \A recorded \in BOOLEAN : RowAfterConsent(recorded).status = "live" => recorded
      BY <3>1
    <3>4. request[q].pc = "record_consent" /\ UNCHANGED <<wallets, sessions>>
      BY <1>7 DEF RecordConsent
    <3> QED BY <3>2, <3>3, <3>4
  <2>3. /\ \A p \in Requests \ {q} : request'[p] = request[p] /\ row'[p] = row[p]
        /\ request'[q].target = request[q].target
        /\ request'[q].cleanup_ok = request[q].cleanup_ok
    <3> HIDE DEF RowAfterConsent, Going
    <3> QED BY <2>1, <2>2, GoingWrites
  <2>4. request[q].target # None => request[q].target \in Requests
    BY <2>1
  <2>5. \/ request'[q].pc = "failed" /\ row'[q] = row[q]
        \/ /\ request'[q].pc = "done"
           /\ row'[q] \in {RowAfterConsent(FALSE), RowAfterConsent(TRUE)}
        \/ /\ request'[q].pc = "supersede" /\ request[q].target \in Requests
           /\ row'[q] = RowAfterConsent(TRUE)
    <3> HIDE DEF RowAfterConsent, Going
    <3>1. CASE UNCHANGED row /\ Going(q, "failed")
      BY <2>1, <3>1, GoingWrites
    <3>2. ASSUME NEW recorded \in BOOLEAN,
                 row' = [row EXCEPT ![q] = RowAfterConsent(recorded)]
          PROVE  /\ row'[q] = RowAfterConsent(recorded)
                 /\ Going(q, "done") => request'[q].pc = "done"
                 /\ Going(q, "supersede") => request'[q].pc = "supersede"
      BY <2>1, <3>2, GoingWrites
    <3> QED BY <2>2, <2>4, <3>1, <3>2
  <2> QED BY <2>2, <2>3, <2>5, SagaEnds, TypeStep DEF IInv
<1>8. ASSUME NEW q \in Requests, NEW i \in Requests, Supersede(q) PROVE IInv'
  <2>2. InProgress'
    BY <1>8 DEF IInv, Supersede, SagaTypeOK, InProgress, Progress
  <2>3. FailureReasonMatches'
    BY <1>8 DEF IInv, Supersede, SagaTypeOK, FailureReasonMatches
  <2>4. LiveIsComplete'
    BY <1>8 DEF IInv, Supersede, SagaTypeOK, InProgress, Progress, LiveIsComplete
  <2>5. SessionsOwned'
    BY <1>8 DEF IInv, Supersede, SagaTypeOK, InProgress, Progress, SessionsOwned
  <2>6. CleanupHonest'
    <3>1. request \in [Requests -> Request] /\ row \in [Requests -> Row]
      BY DEF IInv, SagaTypeOK
    <3>2. \A j \in Requests : /\ row'[j].status = row[j].status
                              /\ row'[j].runtime_handle = row[j].runtime_handle
      BY <1>8, <3>1 DEF Supersede
    <3> QED BY <1>8, <3>1, <3>2, CleanupKept DEF Supersede, IInv, SagaTypeOK
  <2>7. LinksToUpdates'
    BY <1>8 DEF IInv, Supersede, SagaTypeOK, InProgress, Progress, LinksToUpdates
  <2> QED BY TypeStep, <2>2, <2>3, <2>4, <2>5, <2>6, <2>7 DEF IInv
<1>9. ASSUME NEW q \in Requests, NEW i \in Requests, RetryConsent(q, i) PROVE IInv'
  <2>2. InProgress'
    BY <1>9 DEF IInv, RetryConsent, SagaTypeOK, InProgress, Progress
  <2>3. FailureReasonMatches'
    BY <1>9 DEF IInv, RetryConsent, SagaTypeOK, FailureReasonMatches
  <2>4. LiveIsComplete'
    BY <1>9 DEF IInv, RetryConsent, SagaTypeOK, InProgress, Progress, LiveIsComplete
  <2>5. SessionsOwned'
    BY <1>9 DEF IInv, RetryConsent, SagaTypeOK, InProgress, Progress, SessionsOwned
  <2>6. CleanupHonest'
    <3>1. request \in [Requests -> Request] /\ Progress(q)
      BY DEF IInv, SagaTypeOK, InProgress
    <3>2. request'[q].cleanup_ok = None
      BY <1>9, <3>1 DEF RetryConsent, Progress
    <3> QED BY <1>9, <3>1, <3>2, CleanupKept DEF RetryConsent
  <2>7. LinksToUpdates'
    BY <1>9 DEF IInv, RetryConsent, SagaTypeOK, InProgress, Progress, LinksToUpdates
  <2> QED BY TypeStep, <2>2, <2>3, <2>4, <2>5, <2>6, <2>7 DEF IInv
<1>10. ASSUME NEW q \in Requests, NEW i \in Requests, RetryCommit(q) PROVE IInv'
  <2> DEFINE t == request[q].target
  <2>1. /\ t \in Requests /\ Exists(t) /\ row[t].runtime_handle /\ t \in wallets
        /\ request[q].pc = "retry_commit"
    BY <1>10 DEF IInv, InProgress, Progress, RetryCommit, At
  <2>2. /\ \A j \in Requests \ {t} : row'[j] = row[j]
        /\ row'[t] = [row[t] EXCEPT !.status = "live", !.last_failure_reason = None,
                                   !.consent_artifact = TRUE]
        /\ row[t] \in Row
    <3>1. row \in [Requests -> Row]
      BY DEF IInv, SagaTypeOK
    <3> QED BY <1>10, <2>1, <3>1 DEF RetryCommit
  <2>3. /\ \A j \in Requests \ {t} : row'[j] = row[j]
        /\ row'[t].status = "live" /\ row'[t].last_failure_reason = None
        /\ row'[t].consent_artifact
        /\ row'[t].runtime_handle = row[t].runtime_handle
        /\ row'[t].superseded_by_instance_id = row[t].superseded_by_instance_id
    BY <2>2 DEF Row
  <2>4. /\ \A p \in Requests \ {q} : request'[p] = request[p]
        /\ request'[q].pc = "done"
        /\ request'[q].target = request[q].target
        /\ request'[q].cleanup_ok = request[q].cleanup_ok
        /\ UNCHANGED <<wallets, sessions>>
    <3>1. request \in [Requests -> Request] /\ request[q] \in Request
      BY DEF IInv, SagaTypeOK
    <3>2. request' = [request EXCEPT ![q].pc = "done"] /\ UNCHANGED <<wallets, sessions>>
      BY <1>10 DEF RetryCommit, Going
    <3> QED BY <3>1, <3>2 DEF Request
  <2> HIDE DEF t
  <2>5. \A j \in Requests :
          /\ Exists(j)' <=> Exists(j)
          /\ row'[j].runtime_handle = row[j].runtime_handle
          /\ row'[j].superseded_by_instance_id = row[j].superseded_by_instance_id
          /\ row'[j].status = IF j = t THEN "live" ELSE row[j].status
          /\ request'[j].target = request[j].target
          /\ request'[j].cleanup_ok = request[j].cleanup_ok
    BY <2>1, <2>3, <2>4 DEF Exists
  <2>6. InProgress'
    <3> SUFFICES ASSUME NEW p \in Requests PROVE Progress(p)'
      BY DEF InProgress
    <3>1. Progress(p) /\ Progress(q)
      BY DEF IInv, InProgress
    <3>2. CASE p = q
      BY <3>1, <3>2, <2>1, <2>4, <2>5, TypeStep DEF IInv, Progress
    <3>3. CASE p # q
      BY <3>1, <3>3, <2>1, <2>4, <2>5 DEF Progress
    <3> QED BY <3>2, <3>3
  <2>7. FailureReasonMatches'
    <3> SUFFICES ASSUME NEW j \in Requests
                 PROVE  row'[j].last_failure_reason =
                          IF row'[j].status \in FailedStatuses
                          THEN row'[j].status ELSE None
      BY DEF FailureReasonMatches
    <3>1. "live" \notin FailedStatuses
      BY DEF FailedStatuses
    <3>2. CASE j = t
      BY <3>1, <3>2, <2>3
    <3>3. CASE j # t
      BY <3>3, <2>3 DEF IInv, FailureReasonMatches
    <3> QED BY <3>2, <3>3
  <2>8. LiveIsComplete'
    <3> SUFFICES ASSUME NEW j \in Requests, row'[j].status = "live"
                 PROVE  j \in wallets' /\ row'[j].runtime_handle /\ row'[j].consent_artifact
      BY DEF LiveIsComplete
    <3>1. CASE j = t
      BY <3>1, <2>1, <2>3, <2>4
    <3>2. CASE j # t
      BY <3>2, <2>3, <2>4 DEF IInv, LiveIsComplete
    <3> QED BY <3>1, <3>2
  <2>9. SessionsOwned'
    BY <1>10 DEF IInv, RetryCommit, SagaTypeOK, InProgress, Progress, SessionsOwned
  <2>10. CleanupHonest'
    <3>1. ~At(q, "done")
      BY <2>1
    <3> QED BY <2>4, <2>5, <3>1, CleanupKept DEF IInv, SagaTypeOK
  <2>11. LinksToUpdates'
    <3> SUFFICES ASSUME NEW j \in Requests,
                        NEW n, n = row'[j].superseded_by_instance_id, n # None
                 PROVE  /\ Exists(n)' /\ row'[n].status \notin FailedStatuses
                        /\ request'[n].target = j
      BY DEF LinksToUpdates
    <3>1. n = row[j].superseded_by_instance_id
      BY <2>5
    <3>2. /\ Exists(n) /\ row[n].status \notin FailedStatuses /\ request[n].target = j
      BY <3>1 DEF IInv, LinksToUpdates
    <3>3. n \in Requests
      <4>1. row[j] \in Row
        BY DEF IInv, SagaTypeOK
      <4> QED BY <3>1, <4>1 DEF Row, OptionOf
    <3> QED BY <3>2, <3>3, <2>5 DEF FailedStatuses
  <2> QED BY TypeStep, <2>6, <2>7, <2>8, <2>9, <2>10, <2>11 DEF IInv
<1>11. ASSUME NEW q \in Requests, NEW i \in Requests, Teardown(q, i) PROVE IInv'
  <2>1. /\ \A p \in Requests \ {q} : request'[p] = request[p]
        /\ request[q].pc = "idle" /\ Exists(i) /\ request'[q].target = i
        /\ \/ /\ request'[q].pc = "done" /\ request'[q].cleanup_ok = TRUE
              /\ row[i].status = "torn_down"
           \/ /\ request'[q].pc = "teardown_commit" /\ request'[q].cleanup_ok = TRUE
              /\ ~row[i].runtime_handle
           \/ /\ request'[q].pc = "runtime_teardown" /\ request'[q].cleanup_ok = None
    <3>1. request \in [Requests -> Request]
      BY DEF IInv, SagaTypeOK
    <3> QED BY <1>11, <3>1 DEF Teardown
  <2>2. InProgress'
    <3> SUFFICES ASSUME NEW p \in Requests PROVE Progress(p)'
      BY DEF InProgress
    <3>1. Progress(p) /\ Progress(q) /\ UNCHANGED <<row, wallets>>
      BY <1>11 DEF IInv, InProgress, Teardown
    <3>2. CASE p = q
      BY <3>1, <3>2, <2>1 DEF Progress
    <3>3. CASE p # q
      BY <3>1, <3>3, <2>1 DEF Progress
    <3> QED BY <3>2, <3>3
  <2>3. FailureReasonMatches'
    BY <1>11 DEF IInv, Teardown, SagaTypeOK, FailureReasonMatches
  <2>4. LiveIsComplete'
    BY <1>11 DEF IInv, Teardown, SagaTypeOK, InProgress, Progress, LiveIsComplete
  <2>5. SessionsOwned'
    BY <1>11 DEF IInv, Teardown, SagaTypeOK, InProgress, Progress, SessionsOwned
  <2>6. CleanupHonest'
    <3>1. UNCHANGED <<row, sessions>>
      BY <1>11 DEF Teardown
    <3> SUFFICES ASSUME NEW j \in sessions, row[j].runtime_handle,
                        row[j].status = "torn_down" \/ CleanupIs(j, TRUE)'
                 PROVE  CleanupReported(j)'
      BY <3>1 DEF CleanupHonest
    <3>2. CleanupReported(j) => CleanupReported(j)'
      BY <2>1 DEF CleanupReported
    <3>3. CleanupIs(j, TRUE)' => CleanupIs(j, TRUE) \/ row[j].status = "torn_down"
      BY <2>1, NoneNotABoolean DEF CleanupIs
    <3> QED BY <3>2, <3>3 DEF IInv, CleanupHonest
  <2>7. LinksToUpdates'
    BY <1>11 DEF IInv, Teardown, SagaTypeOK, InProgress, Progress, LinksToUpdates
  <2> QED BY TypeStep, <2>2, <2>3, <2>4, <2>5, <2>6, <2>7 DEF IInv
<1>12. ASSUME NEW q \in Requests, NEW i \in Requests, RuntimeTeardown(q) PROVE IInv'
  <2>2. InProgress'
    BY <1>12 DEF IInv, RuntimeTeardown, SagaTypeOK, InProgress, Progress
  <2>3. FailureReasonMatches'
    BY <1>12 DEF IInv, RuntimeTeardown, SagaTypeOK, FailureReasonMatches
  <2>4. LiveIsComplete'
    BY <1>12 DEF IInv, RuntimeTeardown, SagaTypeOK, InProgress, Progress, LiveIsComplete
  <2>5. SessionsOwned'
    BY <1>12 DEF IInv, RuntimeTeardown, SagaTypeOK, InProgress, Progress, SessionsOwned
  <2>6. CleanupHonest'
    BY <1>12 DEF IInv, RuntimeTeardown, SagaTypeOK, InProgress, Progress, CleanupHonest
  <2>7. LinksToUpdates'
    BY <1>12 DEF IInv, RuntimeTeardown, SagaTypeOK, InProgress, Progress, LinksToUpdates
  <2> QED BY TypeStep, <2>2, <2>3, <2>4, <2>5, <2>6, <2>7 DEF IInv
<1>13. ASSUME NEW q \in Requests, NEW i \in Requests, TeardownCommit(q) PROVE IInv'
  <2>2. InProgress'
    BY <1>13 DEF IInv, TeardownCommit, SagaTypeOK, InProgress, Progress
  <2>3. FailureReasonMatches'
    BY <1>13 DEF IInv, TeardownCommit, SagaTypeOK, FailureReasonMatches
  <2>4. LiveIsComplete'
    BY <1>13 DEF IInv, TeardownCommit, SagaTypeOK, InProgress, Progress, LiveIsComplete
  <2>5. SessionsOwned'
    BY <1>13 DEF IInv, TeardownCommit, SagaTypeOK, InProgress, Progress, SessionsOwned
  <2>6. CleanupHonest'
    <3> DEFINE t == request[q].target
    <3>1. /\ request \in [Requests -> Request] /\ row \in [Requests -> Row]
          /\ Progress(q) /\ At(q, "teardown_commit") /\ sessions' = sessions
      BY <1>13 DEF IInv, InProgress, SagaTypeOK, TeardownCommit
    <3>2. t \in Requests /\ request[q].cleanup_ok \in BOOLEAN
      BY <3>1 DEF Progress
    <3>3. /\ \A p \in Requests \ {q} : request'[p] = request[p]
          /\ request'[q].pc = "done" /\ request'[q].target = t
          /\ request'[q].cleanup_ok = request[q].cleanup_ok
      BY <1>13, <3>1, GoingWrites DEF TeardownCommit
    <3>4. /\ \A j \in Requests \ {t} : row'[j] = row[j]
          /\ row'[t].runtime_handle = row[t].runtime_handle
      BY <1>13, <3>1, <3>2 DEF TeardownCommit
    <3> HIDE DEF t
    <3> SUFFICES ASSUME NEW j \in sessions, row'[j].runtime_handle,
                        row'[j].status = "torn_down" \/ CleanupIs(j, TRUE)'
                 PROVE  CleanupReported(j)'
      BY <3>1 DEF CleanupHonest
    <3>5. CleanupReported(j) => CleanupReported(j)'
      BY <3>1, <3>3 DEF CleanupReported
    <3>6. CleanupIs(j, TRUE)' => CleanupIs(j, TRUE)
      BY <3>3 DEF CleanupIs, t
    <3>7. j \in Requests /\ row[j].runtime_handle
      BY <3>4 DEF IInv, SagaTypeOK
    <3>8. CASE j # t
      BY <3>4, <3>5, <3>6, <3>7, <3>8 DEF IInv, CleanupHonest
    <3>9. CASE j = t /\ request[q].cleanup_ok = TRUE
      <4>1. CleanupIs(j, TRUE)
        BY <3>9 DEF CleanupIs, t
      <4> QED BY <3>5, <3>7, <4>1 DEF IInv, CleanupHonest
    <3>10. CASE j = t /\ request[q].cleanup_ok = FALSE
      BY <3>3, <3>10 DEF CleanupReported
    <3> QED BY <3>2, <3>8, <3>9, <3>10
  <2>7. LinksToUpdates'
    BY <1>13, SMTT(40) DEF IInv, TeardownCommit, SagaTypeOK, InProgress, Progress, LinksToUpdates
  <2> QED BY TypeStep, <2>2, <2>3, <2>4, <2>5, <2>6, <2>7 DEF IInv
<1>14. ASSUME NEW q \in Requests, NEW i \in Requests, Crash(q) PROVE IInv'
  <2>2. InProgress'
    BY <1>14 DEF IInv, Crash, SagaTypeOK, InProgress, Progress
  <2>3. FailureReasonMatches'
    BY <1>14 DEF IInv, Crash, SagaTypeOK, FailureReasonMatches
  <2>4. LiveIsComplete'
    BY <1>14 DEF IInv, Crash, SagaTypeOK, InProgress, Progress, LiveIsComplete
  <2>5. SessionsOwned'
    BY <1>14 DEF IInv, Crash, SagaTypeOK, InProgress, Progress, SessionsOwned
  <2>6. CleanupHonest'
    <3>1. request \in [Requests -> Request]
      BY DEF IInv, SagaTypeOK
    <3> QED BY <1>14, <3>1, CleanupKept DEF Crash, InFlight
  <2>7. LinksToUpdates'
    BY <1>14 DEF IInv, Crash, SagaTypeOK, InProgress, Progress, LinksToUpdates
  <2> QED BY TypeStep, <2>2, <2>3, <2>4, <2>5, <2>6, <2>7 DEF IInv
<1>15. ASSUME NEW q \in Requests, NEW i \in Requests, DatabaseFails(q) PROVE IInv'
  <2>2. InProgress'
    BY <1>15 DEF IInv, DatabaseFails, SagaTypeOK, InProgress, Progress
  <2>3. FailureReasonMatches'
    BY <1>15 DEF IInv, DatabaseFails, SagaTypeOK, FailureReasonMatches
  <2>4. LiveIsComplete'
    BY <1>15 DEF IInv, DatabaseFails, SagaTypeOK, InProgress, Progress, LiveIsComplete
  <2>5. SessionsOwned'
    BY <1>15 DEF IInv, DatabaseFails, SagaTypeOK, InProgress, Progress, SessionsOwned
  <2>6. CleanupHonest'
    <3>1. request \in [Requests -> Request]
      BY DEF IInv, SagaTypeOK
    <3> QED BY <1>15, <3>1, CleanupKept DEF DatabaseFails
  <2>7. LinksToUpdates'
    BY <1>15 DEF IInv, DatabaseFails, SagaTypeOK, InProgress, Progress, LinksToUpdates
  <2> QED BY TypeStep, <2>2, <2>3, <2>4, <2>5, <2>6, <2>7 DEF IInv
<1>16. CASE UNCHANGED vars
  BY <1>16 DEF vars, IInv, SagaTypeOK, InProgress, Progress, FailureReasonMatches,
               LiveIsComplete, SessionsOwned, CleanupHonest, CleanupIs, CleanupReported,
               LinksToUpdates
<1> QED
  BY <1>1, <1>2, <1>3, <1>4, <1>5, <1>6, <1>7, <1>8, <1>9, <1>10, <1>11, <1>12,
     <1>13, <1>14, <1>15, <1>16 DEF Next

LEMMA InvariantInit == Init => IInv
BY NoneNotABoolean, RequestsAssumption
   DEF Init, IInv, SagaTypeOK, InProgress, Progress, FailureReasonMatches,
       LiveIsComplete, SessionsOwned, CleanupHonest, LinksToUpdates, Row, Request,
       Steps, SagaSteps, RowStatuses, FailedStatuses, OptionOf, AbsentRow, Exists

THEOREM SagaInvariant == Spec => []IInv
BY InvariantInit, InvariantStep, PTL DEF Spec

(* Rows, requests, wallets and sessions stay of their types.                *)
THEOREM SagaTypeCorrect == Spec => []SagaTypeOK
BY SagaInvariant, PTL DEF IInv

(* The failure reason of a row names its failed state, and no other row has *)
(* one (models.py:568), through every interleaving of requests.             *)
THEOREM FailureReasonCorrect == Spec => []FailureReasonMatches
BY SagaInvariant, PTL DEF IInv

(* An instance is live only with its wallet, its runtime handle and its     *)
(* consent, whether deploy or retry-consent made it live.                   *)
THEOREM LiveComplete == Spec => []LiveIsComplete
BY SagaInvariant, PTL DEF IInv

(* A saga that comes to its end leaves its session to a row: only one that  *)
(* was killed, or whose database failed after the session was made, leaves  *)
(* a session that no row names or hints at.                                 *)
THEOREM SessionsAreOwned == Spec => []SessionsOwned
BY SagaInvariant, PTL DEF IInv

(* The session a row names is released for good once a teardown reported    *)
(* its cleanup done, a repeated one included, or else another teardown of   *)
(* the row reported that it was not.                                        *)
THEOREM CleanupIsHonest == Spec => []CleanupHonest
BY SagaInvariant, PTL DEF IInv

-----------------------------------------------------------------------------
(* Rows are made for, and by, requests about older rows: whatever a request *)
(* is about existed before it came.                                         *)
TargetsExist ==
  \A q \in Requests : request[q].target \in Requests => Exists(request[q].target)

TargetsEnd ==
  \A S \in SUBSET Requests : S # {} => \E q \in S : request[q].target \notin S

(* A request is given what it is about once, when it comes.                 *)
Targeted(q, i) ==
  /\ row[q].status = "absent" /\ Exists(i)
  /\ request'[q].target = i
  /\ \A p \in Requests \ {q} : request'[p].target = request[p].target

LEMMA TargetStep ==
  ASSUME IInv, [Next]_vars
  PROVE  \/ \A p \in Requests : request'[p].target = request[p].target
         \/ \E q, i \in Requests : Targeted(q, i)
<1>1. /\ request \in [Requests -> Request] /\ row \in [Requests -> Row]
      /\ \A q \in Requests : request[q].pc = "idle" => row[q].status = "absent"
  BY DEF IInv, SagaTypeOK, InProgress, Progress
<1>2. \A q \in Requests : \A pc : Going(q, pc) =>
        \A p \in Requests : request'[p].target = request[p].target
  BY <1>1 DEF Going, Request
<1>3. ASSUME NEW q \in Requests, NEW i \in Requests,
             Update(q, i) \/ RetryConsent(q, i) \/ Teardown(q, i)
      PROVE  Targeted(q, i)
  <2>1. /\ row[q].status = "absent" /\ Exists(i)
        /\ \/ \E pc : request' = [request EXCEPT ![q].pc = pc, ![q].target = i]
           \/ \E pc, ok : request' = [request EXCEPT ![q] =
                           [pc |-> pc, target |-> i, cleanup_ok |-> ok]]
    BY <1>1, <1>3 DEF Update, RetryConsent, Teardown, Arrives, At
  <2>2. CASE \E pc : request' = [request EXCEPT ![q].pc = pc, ![q].target = i]
    BY <1>1, <2>1, <2>2 DEF Targeted, Request
  <2>3. CASE \E pc, ok : request' = [request EXCEPT ![q] =
               [pc |-> pc, target |-> i, cleanup_ok |-> ok]]
    <3>1. PICK pc, ok : request' = [request EXCEPT ![q] =
                          [pc |-> pc, target |-> i, cleanup_ok |-> ok]]
      BY <2>3
    <3>2. request'[q] = [pc |-> pc, target |-> i, cleanup_ok |-> ok]
      BY <1>1, <3>1
    <3>3. \A p \in Requests \ {q} : request'[p] = request[p]
      BY <1>1, <3>1
    <3> QED BY <2>1, <3>2, <3>3 DEF Targeted
  <2> QED BY <2>1, <2>2, <2>3
<1>4. ASSUME NEW q \in Requests, RuntimeTeardown(q)
      PROVE  \A p \in Requests : request'[p].target = request[p].target
  BY <1>1, <1>4 DEF RuntimeTeardown, Request
<1>5. ASSUME NEW q \in Requests, RecordConsent(q) PROVE \E pc : Going(q, pc)
  BY <1>5, Zenon DEF RecordConsent
<1>6. ASSUME NEW q \in Requests,
             \/ Deploy(q) \/ CreateWallet(q) \/ InsertRow(q) \/ RuntimeDeploys(q)
             \/ RuntimeDeployFails(q) \/ Supersede(q) \/ RetryCommit(q)
             \/ TeardownCommit(q) \/ DatabaseFails(q) \/ Crash(q)
      PROVE  \E pc : Going(q, pc)
  BY <1>6, Zenon DEF Deploy, CreateWallet, InsertRow, RuntimeDeploys, RuntimeDeployFails,
     Supersede, RetryCommit, TeardownCommit, DatabaseFails, Crash
<1>7. CASE UNCHANGED vars
  BY <1>7 DEF vars
<1> QED BY <1>2, <1>3, <1>4, <1>5, <1>6, <1>7 DEF Next

(* A row stays.                                                             *)
LEMMA RowsStay ==
  ASSUME IInv, [Next]_vars, NEW i \in Requests, Exists(i)
  PROVE  Exists(i)'
<1>1. row \in [Requests -> Row] /\ row[i].status # "absent"
  BY DEF IInv, SagaTypeOK, Exists
<1>2. CASE UNCHANGED row
  BY <1>1, <1>2 DEF Exists
<1>3. ASSUME NEW q \in Requests, RuntimeDeployFails(q) PROVE Exists(i)'
  BY <1>1, <1>3 DEF RuntimeDeployFails, Exists, FailedRow, AbsentRow
<1>4. ASSUME NEW q \in Requests, RecordConsent(q) PROVE Exists(i)'
  <2>1. \/ UNCHANGED row
        \/ \E recorded \in BOOLEAN : row' = [row EXCEPT ![q] = RowAfterConsent(recorded)]
    BY <1>4 DEF RecordConsent
  <2>2. \A recorded \in BOOLEAN : RowAfterConsent(recorded).status # "absent"
    BY DEF RowAfterConsent, FailedRow, AbsentRow
  <2> QED BY <1>1, <2>1, <2>2 DEF Exists
<1>5. ASSUME NEW q \in Requests, Supersede(q) PROVE Exists(i)'
  BY <1>1, <1>5 DEF Supersede, Exists, Row
<1>6. ASSUME NEW q \in Requests, RetryCommit(q) PROVE Exists(i)'
  BY <1>1, <1>6 DEF RetryCommit, Exists, Row
<1>7. ASSUME NEW q \in Requests, TeardownCommit(q) PROVE Exists(i)'
  BY <1>1, <1>7 DEF TeardownCommit, TornDown, Exists, Row
<1> QED
  BY <1>2, <1>3, <1>4, <1>5, <1>6, <1>7
     DEF Next, vars, Deploy, CreateWallet, InsertRow, RuntimeDeploys, Update,
         RetryConsent, Teardown, RuntimeTeardown, DatabaseFails, Crash

LEMMA TargetsStep ==
  ASSUME IInv, TargetsExist, TargetsEnd, [Next]_vars
  PROVE  TargetsExist' /\ TargetsEnd'
<1>1. CASE \A p \in Requests : request'[p].target = request[p].target
  <2>1. TargetsExist'
    BY <1>1, RowsStay DEF TargetsExist
  <2>2. TargetsEnd'
    BY <1>1 DEF TargetsEnd
  <2> QED BY <2>1, <2>2
<1>2. ASSUME NEW q \in Requests, NEW i \in Requests, Targeted(q, i)
      PROVE  TargetsExist' /\ TargetsEnd'
  <2>1. TargetsExist'
    BY <1>2, RowsStay DEF Targeted, TargetsExist
  <2>2. q # i /\ \A p \in Requests : request[p].target # q
    BY <1>2 DEF Targeted, Exists, TargetsExist
  <2>3. ASSUME NEW S \in SUBSET Requests, S # {},
               \A p \in S : request'[p].target \in S
        PROVE  FALSE
    <3>1. S \ {q} # {}
      BY <1>2, <2>2, <2>3 DEF Targeted
    <3>2. \A p \in S \ {q} : request[p].target \in S \ {q}
      BY <1>2, <2>2, <2>3 DEF Targeted
    <3> QED BY <3>1, <3>2 DEF TargetsEnd
  <2> QED BY <2>1, <2>3 DEF TargetsEnd
<1> QED BY <1>1, <1>2, TargetStep

(* The links of rows in a circle would lead to each of them, as there are   *)
(* finitely many and no two link to the same; each would then be what the   *)
(* next was made for.                                                       *)
LEMMA NoCircle ==
  ASSUME LinksToUpdates, TargetsEnd
  PROVE  LinksEnd
<1> SUFFICES ASSUME NEW S \in SUBSET Requests, S # {}, IsFiniteSet(S),
                    \A i \in S : row[i].superseded_by_instance_id \in S
             PROVE  FALSE
  BY DEF LinksEnd
<1> DEFINE link == [i \in S |-> row[i].superseded_by_instance_id]
<1>1. \A i \in S : link[i] \in S /\ request[link[i]].target = i
  BY RequestsAssumption DEF LinksToUpdates
<1>2. link \in Injection(S, S)
  BY <1>1 DEF Injection, IsInjective
<1>3. link \in Surjection(S, S)
  BY <1>2, FS_Injection
<1>4. \A q \in S : \E i \in S : link[i] = q
  BY <1>3 DEF Surjection
<1>5. \A q \in S : request[q].target \in S
  BY <1>1, <1>4
<1> QED BY <1>5 DEF TargetsEnd

(* A superseded row points to the row an update of it created, and there    *)
(* is no circle of them, for any number of requests, however updates race.  *)
THEOREM SupersessionIsSound == Spec => []SupersessionSound
<1>1. Init => TargetsExist /\ TargetsEnd
  BY RequestsAssumption DEF Init, TargetsExist, TargetsEnd
<1>2. Spec => [](TargetsExist /\ TargetsEnd)
  BY <1>1, TargetsStep, SagaInvariant, PTL DEF Spec
<1>3. IInv /\ TargetsEnd => SupersessionSound
  BY NoCircle DEF IInv, SupersessionSound
<1> QED BY <1>2, <1>3, SagaInvariant, PTL
=============================================================================
