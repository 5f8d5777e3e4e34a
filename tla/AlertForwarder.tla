--------------------------- MODULE AlertForwarder ---------------------------
(***************************************************************************)
(* internal/log_analysis/alert_forwarder: the Lambda that reads the stream *)
(* of the alert-dedup table in order, one batch at a time, keeps the alert *)
(* table and puts new alerts on the delivery queue.                        *)
(*                                                                         *)
(* The stream is a sequence that grows at its end; cursor is how much of   *)
(* it the service has checkpointed.  A batch that fails is handed to the   *)
(* Lambda again from the cursor, and can then be cut differently.          *)
(***************************************************************************)
EXTENDS Naturals, Sequences

CONSTANTS
    Keys, AlertNumbers,
    BatchSize,    \* records in one invocation (10 in the deployment)
    MaxFailures   \* bound: failed invocations

VARIABLES
    stream,         \* <<[key, old, new], ...>>, images of the dedup table
    cursor,         \* records checkpointed
    batchEnd,       \* last record of the running invocation
    pos,            \* the record it is at
    step,           \* "idle", "record" or "notify"
    alerts,         \* the alert table, by generateAlertID
    notifications,  \* messages put on the delivery queue for each alert
    failures        \* invocations that failed

AlertIds == Keys \X AlertNumbers
NoAlert == [stored |-> "nothing"]

\* A whole item, as storeNewAlert writes it, and the item an update creates
\* where there was none: without the severity, the title and the rule.
WholeAlert(row) == [stored |-> "alert", image |-> row]
BareUpdate(row) == [stored |-> "update", image |-> row]

Init ==
    /\ cursor = 0 /\ batchEnd = 0 /\ pos = 1
    /\ step = "idle"
    /\ alerts = [a \in AlertIds |-> NoAlert]
    /\ notifications = [a \in AlertIds |-> 0]
    /\ failures = 0

\* generateAlertID: the rule, the dedup string and the alert count.
generateAlertID(record) == <<record.key, record.new.alertCount>>

\* Mutant of needToCreateNewAlert: the first image of a row is not told apart.
needToCreateNewAlert_NotFirst(record) ==
    record.old.alertCount # 0 /\ record.old.alertCount # record.new.alertCount

\* There was no old image (its alertCount reads 0), or it was of another alert.
needToCreateNewAlert(record) ==
    record.old.alertCount = 0 \/ record.old.alertCount # record.new.alertCount

-----------------------------------------------------------------------------
\* The Lambda is invoked with the next records of the stream.
StartBatch ==
    /\ step = "idle"
    /\ \E n \in 1..BatchSize :
        /\ cursor + n <= Len(stream)
        /\ batchEnd' = cursor + n
    /\ pos' = cursor + 1
    /\ step' = "record"
    /\ UNCHANGED <<stream, cursor, alerts, notifications, failures>>

\* handleNewAlert: getRuleInfo succeeds and storeNewAlert puts the item.
storeNewAlert ==
    /\ step = "record" /\ pos <= batchEnd
    /\ needToCreateNewAlert(stream[pos])
    /\ alerts' = [alerts EXCEPT ![generateAlertID(stream[pos])] =
                                    WholeAlert(stream[pos].new)]
    /\ step' = "notify"
    /\ UNCHANGED <<stream, cursor, batchEnd, pos, notifications, failures>>

\* handleNewAlert goes on: the alert is put on the delivery queue.
sendAlertNotification ==
    /\ step = "notify"
    /\ notifications' = [notifications EXCEPT ![generateAlertID(stream[pos])] = @ + 1]
    /\ pos' = pos + 1
    /\ step' = "record"
    /\ UNCHANGED <<stream, cursor, batchEnd, alerts, failures>>

\* Mutant of UpdatedAlert: the event count is left as it was.
UpdatedAlert_OldCount(old, row) ==
    IF old = NoAlert THEN BareUpdate(row)
    ELSE [old EXCEPT !.image.logTypes = row.logTypes,
                     !.image.alertUpdateTime = row.alertUpdateTime]

\* The attributes the update sets, in an item that may be missing.
UpdatedAlert(old, row) ==
    IF old = NoAlert THEN BareUpdate(row)
    ELSE [old EXCEPT !.image.eventCount = row.eventCount,
                     !.image.logTypes = row.logTypes,
                     !.image.alertUpdateTime = row.alertUpdateTime]

updateExistingAlert ==
    LET id == generateAlertID(stream[pos])
    IN  /\ step = "record" /\ pos <= batchEnd
        /\ ~needToCreateNewAlert(stream[pos])
        /\ alerts' = [alerts EXCEPT ![id] = UpdatedAlert(@, stream[pos].new)]
        /\ pos' = pos + 1
        /\ UNCHANGED <<stream, cursor, batchEnd, step, notifications, failures>>

\* The handler returns nil and the service checkpoints the batch.
FinishBatch ==
    /\ step = "record" /\ pos > batchEnd
    /\ cursor' = batchEnd
    /\ step' = "idle"
    /\ UNCHANGED <<stream, batchEnd, pos, alerts, notifications, failures>>

\* Mutant of FailBatch: the service checkpoints a batch that failed.
FailBatch_Checkpoints ==
    /\ step # "idle" /\ failures < MaxFailures
    /\ failures' = failures + 1
    /\ cursor' = batchEnd
    /\ step' = "idle"
    /\ UNCHANGED <<stream, batchEnd, pos, alerts, notifications>>

\* getRuleInfo, the table or the queue returns an error, or the Lambda dies:
\* the whole batch will be retried.
FailBatch ==
    /\ step # "idle" /\ failures < MaxFailures
    /\ failures' = failures + 1
    /\ step' = "idle"
    /\ UNCHANGED <<stream, cursor, batchEnd, pos, alerts, notifications>>

Advance ==
    \/ StartBatch \/ storeNewAlert \/ sendAlertNotification
    \/ updateExistingAlert \/ FinishBatch

Next == Advance \/ FailBatch
=============================================================================
