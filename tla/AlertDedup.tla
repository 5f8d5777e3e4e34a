----------------------------- MODULE AlertDedup -----------------------------
(***************************************************************************)
(* internal/log_analysis/rules_engine: matched events are grouped, merged  *)
(* into alerts through the alert-dedup table, and stored in S3 under the   *)
(* alert they were merged into.                                            *)
(*                                                                         *)
(* A worker is one Lambda invocation of the rules engine.  A message is a  *)
(* batch of its SQS queue; Matches says how many events of each group it   *)
(* makes the rules match.  A group is what OutputGroupingKey holds: a      *)
(* dedup key (rule and dedup string) and a log type.  Two groups of one    *)
(* key share a row of the table.  Every write to the table appends its old *)
(* and new images to the table's stream.                                   *)
(***************************************************************************)
EXTENDS Integers, Sequences, FiniteSets, FiniteSetsExt

CONSTANTS
    Workers,      \* concurrent invocations of the rules engine
    Messages,     \* batches of the rules engine's queue
    Keys,         \* _generate_dedup_key(rule_id, dedup)
    LogTypes,
    Matches,      \* what the rules match: [Messages -> [Groups -> Nat]]
    Period,       \* dedup_period_mins, in ticks of the clock
    MaxInMemory,  \* _MAX_BYTES_IN_MEMORY, in matches
    MaxReceives,  \* bound: maxReceiveCount of the queue (10 in the deployment)
    MaxTime       \* bound: the clock stops here

Groups == [key : Keys, logType : LogTypes]

ASSUME DedupAssumption ==
    /\ Matches \in [Messages -> [Groups -> Nat]]
    /\ Messages # {} /\ Keys # {} /\ LogTypes # {}
    /\ IsFiniteSet(Workers) /\ IsFiniteSet(Messages) /\ IsFiniteSet(LogTypes)
    /\ Period \in Nat /\ MaxInMemory \in Nat
    /\ MaxReceives \in Nat /\ MaxTime \in Nat

VARIABLES
    now,       \* the clock, in seconds
    receives,  \* how often each message has been received
    finished,  \* the messages whose invocation returned without an error
    worker,    \* the local state of each invocation
    table,     \* alert-dedup: a row for each key, alertCount 0 when absent
    stream,    \* the table's stream: <<[key, old, new], ...>>
    stored     \* events in S3 by the p_alert_id they carry

vars == <<now, receives, finished, worker, table, stream, stored>>

AlertNumbers == 1..(MaxTime + 1)
Rows == [alertCount : Nat, alertCreationTime : 0..MaxTime,
         alertUpdateTime : 0..MaxTime, eventCount : Nat, logTypes : SUBSET LogTypes]
NoRow == [alertCount |-> 0, alertCreationTime |-> 0, alertUpdateTime |-> 0,
          eventCount |-> 0, logTypes |-> {}]
Steps == {"idle", "analyze", "flush", "conditional", "merge", "put", "publish"}
NoMatches == [g \in Groups |-> 0]
WorkerStates == [pc : Steps, msg : Messages, todo : [Groups -> Nat],
                 data : [Groups -> Nat], group : Groups, time : 0..MaxTime,
                 flushing : BOOLEAN, alert : AlertNumbers]
StreamRecords == [key : Keys, old : Rows, new : Rows]

TypeOK ==
    /\ now \in 0..MaxTime
    /\ receives \in [Messages -> Nat]
    /\ finished \subseteq Messages
    /\ worker \in [Workers -> WorkerStates]
    /\ table \in [Keys -> Rows]
    /\ stream \in Seq(StreamRecords)
    /\ stored \in [Keys \X AlertNumbers \X LogTypes -> Nat]

IdleWorker ==
    [pc |-> "idle", msg |-> CHOOSE m \in Messages : TRUE, todo |-> NoMatches,
     data |-> NoMatches, group |-> CHOOSE g \in Groups : TRUE, time |-> 0,
     flushing |-> FALSE, alert |-> 1]

Init ==
    /\ now = 0
    /\ receives = [m \in Messages |-> 0]
    /\ finished = {}
    /\ worker = [w \in Workers |-> IdleWorker]
    /\ table = [k \in Keys |-> NoRow]
    /\ stream = <<>>
    /\ stored = [a \in Keys \X AlertNumbers \X LogTypes |-> 0]

-----------------------------------------------------------------------------
(* The queue and the analysis loop.                                        *)

Held(m) == \E w \in Workers : worker[w].pc # "idle" /\ worker[w].msg = m

\* lambda_handler is invoked with a batch that is visible in the queue.
Receive(w, m) ==
    /\ worker[w].pc = "idle"
    /\ m \notin finished /\ ~Held(m) /\ receives[m] < MaxReceives
    /\ receives' = [receives EXCEPT ![m] = @ + 1]
    /\ worker' = [worker EXCEPT ![w] = [IdleWorker EXCEPT !.pc = "analyze", !.msg = m,
                                                          !.todo = Matches[m]]]
    /\ UNCHANGED <<now, finished, table, stream, stored>>

Buffered(data) == SumFunction(data)
Biggest(data) == {g \in Groups : \A h \in Groups : data[h] <= data[g]}

\* MatchedEventsBuffer.add_event: past the memory limit the biggest group is
\* written at once, with a time of its own.
AddEvent(w, g) ==
    LET data == [worker[w].data EXCEPT ![g] = @ + 1]
        added == [worker[w] EXCEPT !.todo[g] = @ - 1, !.data = data]
    IN  /\ worker[w].pc = "analyze"
        /\ worker[w].todo[g] > 0
        /\ \/ /\ Buffered(data) <= MaxInMemory
              /\ worker' = [worker EXCEPT ![w] = added]
           \/ /\ Buffered(data) > MaxInMemory
              /\ \E b \in Biggest(data) :
                    worker' = [worker EXCEPT ![w] =
                        [added EXCEPT !.pc = "conditional", !.group = b,
                                      !.time = now, !.flushing = FALSE]]
        /\ UNCHANGED <<now, receives, finished, table, stream, stored>>

\* flush: one current_time for all the groups that are left.
StartFlush(w) ==
    /\ worker[w].pc = "analyze"
    /\ worker[w].todo = NoMatches
    /\ worker' = [worker EXCEPT ![w].pc = "flush", ![w].time = now, ![w].flushing = TRUE]
    /\ UNCHANGED <<now, receives, finished, table, stream, stored>>

FlushGroup(w, g) ==
    /\ worker[w].pc = "flush"
    /\ worker[w].data[g] > 0
    /\ worker' = [worker EXCEPT ![w].pc = "conditional", ![w].group = g]
    /\ UNCHANGED <<now, receives, finished, table, stream, stored>>

FinishInvocation(w) ==
    /\ worker[w].pc = "flush"
    /\ worker[w].data = NoMatches
    /\ finished' = finished \cup {worker[w].msg}
    /\ worker' = [worker EXCEPT ![w] = IdleWorker]
    /\ UNCHANGED <<now, receives, table, stream, stored>>

-----------------------------------------------------------------------------
(* _write_to_s3: the alert of the group, then the object, then the         *)
(* notification.                                                           *)

\* Mutant of NeedsNewAlert: the dedup period is left out of the condition.
NeedsNewAlert_NoPeriod(row, time) ==
    row.alertCount = 0 \/ row.alertCreationTime < time

\* The condition of _update_get_conditional.
NeedsNewAlert(row, time) ==
    row.alertCount = 0 \/ row.alertCreationTime < time - Period

\* The update of _update_get_conditional.
NewAlertRow(row, u) ==
    [alertCount |-> row.alertCount + 1, alertCreationTime |-> u.time,
     alertUpdateTime |-> u.time, eventCount |-> u.data[u.group],
     logTypes |-> {u.group.logType}]

\* Mutant of MergedRow: SET instead of ADD.
MergedRow_Overwrites(row, u) ==
    [row EXCEPT !.alertUpdateTime = u.time, !.eventCount = u.data[u.group],
                !.logTypes = @ \cup {u.group.logType}]

\* Mutant of MergedRow: the log type of the merged events is not added.
MergedRow_OldLogTypes(row, u) ==
    [row EXCEPT !.alertUpdateTime = u.time, !.eventCount = @ + u.data[u.group]]

\* The update of _update_get.
MergedRow(row, u) ==
    [row EXCEPT !.alertUpdateTime = u.time, !.eventCount = @ + u.data[u.group],
                !.logTypes = @ \cup {u.group.logType}]

\* One update_item on the table.  The worker goes on with the alertCount of
\* the new image.
WriteRow(w, row) ==
    LET k == worker[w].group.key
    IN  /\ table' = [table EXCEPT ![k] = row]
        /\ stream' = Append(stream, [key |-> k, old |-> table[k], new |-> row])
        /\ worker' = [worker EXCEPT ![w].pc = "put", ![w].alert = row.alertCount]
        /\ UNCHANGED <<now, receives, finished, stored>>

CreateAlert(w) ==
    /\ worker[w].pc = "conditional"
    /\ NeedsNewAlert(table[worker[w].group.key], worker[w].time)
    /\ WriteRow(w, NewAlertRow(table[worker[w].group.key], worker[w]))

\* ConditionalCheckFailedException: the events need to be merged, in a second
\* call on the table.
ConditionFails(w) ==
    /\ worker[w].pc = "conditional"
    /\ ~NeedsNewAlert(table[worker[w].group.key], worker[w].time)
    /\ worker' = [worker EXCEPT ![w].pc = "merge"]
    /\ UNCHANGED <<now, receives, finished, table, stream, stored>>

MergeIntoAlert(w) ==
    /\ worker[w].pc = "merge"
    /\ WriteRow(w, MergedRow(table[worker[w].group.key], worker[w]))

PutObject(w) ==
    LET u == worker[w]
    IN  /\ u.pc = "put"
        /\ stored' = [stored EXCEPT ![<<u.group.key, u.alert, u.group.logType>>] =
                                        @ + u.data[u.group]]
        /\ worker' = [worker EXCEPT ![w].pc = "publish"]
        /\ UNCHANGED <<now, receives, finished, table, stream>>

\* The group is done: flush goes to the next one, add_event to the next event.
Publish(w) ==
    /\ worker[w].pc = "publish"
    /\ worker' = [worker EXCEPT
            ![w].pc = IF worker[w].flushing THEN "flush" ELSE "analyze",
            ![w].data[worker[w].group] = 0]
    /\ UNCHANGED <<now, receives, finished, table, stream, stored>>

\* Mutant of Fail: the batch is deleted from the queue all the same.
Fail_DeletesBatch(w) ==
    /\ worker[w].pc # "idle"
    /\ finished' = finished \cup {worker[w].msg}
    /\ worker' = [worker EXCEPT ![w] = IdleWorker]
    /\ UNCHANGED <<now, receives, table, stream, stored>>

\* Any call can raise, and the Lambda can time out: the invocation ends and
\* the whole batch becomes visible again.
Fail(w) ==
    /\ worker[w].pc # "idle"
    /\ worker' = [worker EXCEPT ![w] = IdleWorker]
    /\ UNCHANGED <<now, receives, finished, table, stream, stored>>

Tick ==
    /\ now < MaxTime
    /\ now' = now + 1
    /\ UNCHANGED <<receives, finished, worker, table, stream, stored>>

Advance(w) ==
    \/ \E g \in Groups : AddEvent(w, g) \/ FlushGroup(w, g)
    \/ StartFlush(w) \/ FinishInvocation(w)
    \/ CreateAlert(w) \/ ConditionFails(w) \/ MergeIntoAlert(w)
    \/ PutObject(w) \/ Publish(w)

Next ==
    \/ \E w \in Workers : (\E m \in Messages : Receive(w, m)) \/ Advance(w) \/ Fail(w)
    \/ Tick

Spec == Init /\ [][Next]_vars

\* A running Lambda goes on running, and the queue keeps offering visible
\* batches.
Fairness ==
    /\ \A w \in Workers : WF_vars(Advance(w))
    /\ WF_vars(\E w \in Workers, m \in Messages : Receive(w, m))

FairSpec == Spec /\ Fairness

-----------------------------------------------------------------------------
\* The stream records of one key number its alerts upwards, and an alert is
\* created more than the dedup period after the one before it, whichever
\* workers raced for the row and however late they came with the time they
\* had read.
AlertSpacing ==
    \A a, b \in DOMAIN stream :
        (a < b /\ stream[a].key = stream[b].key) =>
            \/ /\ stream[a].new.alertCount = stream[b].new.alertCount
               /\ stream[a].new.alertCreationTime = stream[b].new.alertCreationTime
            \/ /\ stream[a].new.alertCount < stream[b].new.alertCount
               /\ stream[a].new.alertCreationTime + Period < stream[b].new.alertCreationTime

\* The images the stream holds of alert n of key k.
ImagesOf(k, n) ==
    {stream[a].new : a \in {b \in DOMAIN stream :
                              stream[b].key = k /\ stream[b].new.alertCount = n}}

EventsOf(k, n) == Max({0} \cup {row.eventCount : row \in ImagesOf(k, n)})
StoredUnder(k, n) == SumFunction([t \in LogTypes |-> stored[<<k, n, t>>]])

\* An alert never claims fewer events than S3 holds under its identifier, and
\* lists the log type of each of them: _write_to_s3 counts before it stores,
\* under the alert number of the very image it wrote.
StoredIsCounted ==
    \A k \in Keys, n \in AlertNumbers :
        /\ StoredUnder(k, n) <= EventsOf(k, n)
        /\ \A t \in LogTypes :
             stored[<<k, n, t>>] > 0 => \E row \in ImagesOf(k, n) : t \in row.logTypes

\* Every event that a finished batch made a rule match is in S3.
FinishedIsStored ==
    \A g \in Groups :
        SumFunction([n \in AlertNumbers |-> stored[<<g.key, n, g.logType>>]])
            >= SumFunction([m \in finished |-> Matches[m][g]])

\* Without a redelivery each match is counted in exactly one alert: no update
\* of a row is lost between the workers that merge into it.
CountsExact ==
    (\A m \in Messages : receives[m] = 1 /\ m \in finished) =>
        \A k \in Keys :
            SumFunction([n \in AlertNumbers |-> EventsOf(k, n)]) =
            SumFunction([m \in Messages |->
                SumFunction([t \in LogTypes |-> Matches[m][[key |-> k, logType |-> t]]])])

\* Every batch of the queue is analyzed to its end, or is received as often as
\* the queue allows and goes to the dead-letter queue.
BatchesSettle ==
    \A m \in Messages :
        <>(m \in finished \/ (receives[m] = MaxReceives /\ ~Held(m)))
=============================================================================
