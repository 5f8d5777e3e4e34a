---------------------------- MODULE AlertPipeline ----------------------------
(***************************************************************************)
(* The rules engine and the alert forwarder together: from a batch of      *)
(* matches to the alert table and the delivery queue.                      *)
(***************************************************************************)
EXTENDS AlertDedup

CONSTANTS BatchSize, MaxFailures

VARIABLES cursor, batchEnd, pos, step, alerts, notifications, failures

Forwarder == INSTANCE AlertForwarder

forwarderVars == <<cursor, batchEnd, pos, step, alerts, notifications, failures>>
rulesEngineVars == <<now, receives, finished, worker, table, stored>>
pipelineVars == <<rulesEngineVars, stream, forwarderVars>>

PipelineInit == Init /\ Forwarder!Init

RulesEngineStep == Next /\ UNCHANGED forwarderVars
ForwarderStep == Forwarder!Next /\ UNCHANGED rulesEngineVars
PipelineNext == RulesEngineStep \/ ForwarderStep

\* The queue and the rules engine as in AlertDedup; the service keeps invoking
\* the forwarder while its stream has records.
PipelineFairness ==
    Fairness /\ WF_pipelineVars(Forwarder!Advance /\ UNCHANGED rulesEngineVars)

PipelineSpec == PipelineInit /\ [][PipelineNext]_pipelineVars /\ PipelineFairness

-----------------------------------------------------------------------------
\* The alert the last record of the stream for id describes.
LastImage(id) ==
    LET records == {a \in DOMAIN stream : Forwarder!generateAlertID(stream[a]) = id}
    IN  stream[Max(records)].new
KnownAlerts == {Forwarder!generateAlertID(stream[a]) : a \in DOMAIN stream}

Drained == cursor = Len(stream) /\ step = "idle"

\* Once the forwarder has caught up, the alert table holds exactly the alerts
\* of the dedup table with their latest counts, log types and times: replaying
\* a batch, which first puts an older image back, converges.  At no time has
\* updateExistingAlert written to an alert that storeNewAlert did not store: an
\* item has its severity, title and rule from the start.
AlertTableCatchesUp ==
    \A id \in Forwarder!AlertIds :
        /\ alerts[id].stored # "update"
        /\ Drained =>
            alerts[id] = IF id \in KnownAlerts THEN Forwarder!WholeAlert(LastImage(id))
                         ELSE Forwarder!NoAlert

\* Every checkpointed alert has been put on the delivery queue, once per
\* alert unless an invocation failed; and never before it is in the table.
NotificationsMatchAlerts ==
    \A id \in Forwarder!AlertIds :
        /\ notifications[id] > 0 => alerts[id].stored = "alert"
        /\ failures = 0 => notifications[id] <= 1
        /\ (\E a \in 1..cursor : Forwarder!generateAlertID(stream[a]) = id)
                => notifications[id] >= 1

\* Every batch of the rules engine is finished or dead-lettered, and each alert
\* of the dedup table is notified at last, as long as failures of the forwarder
\* are transient.
PipelineSettles ==
    /\ BatchesSettle
    /\ \A id \in Forwarder!AlertIds :
        (id \in KnownAlerts) ~> (notifications[id] > 0)
=============================================================================
