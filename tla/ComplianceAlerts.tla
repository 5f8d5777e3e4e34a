-------------------------- MODULE ComplianceAlerts --------------------------
(***************************************************************************)
(* internal/compliance: from the analysis of resources to the alert of a   *)
(* policy and its remediation, for one policy (the table of recent alerts  *)
(* is keyed by the policy, and no step looks at two policies).             *)
(*                                                                         *)
(* An analyzer is an invocation of resource_processor: it evaluates the    *)
(* policy on the resources of its batch, looks up their status, stores the *)
(* new status and sends a notification for every resource that fails.  A   *)
(* reporter is an invocation of alert_processor: it handles one            *)
(* notification.  The conditional update of the recent alerts table is     *)
(* what makes an alert: the table's stream feeds alert_forwarder, which    *)
(* puts the alert on the delivery queue.                                   *)
(***************************************************************************)
EXTENDS Integers, Sequences, FiniteSets

CONSTANTS
    Analyzers,
    Reporters,
    Resources,
    Verdicts,       \* what the policy engine says: PASS, FAIL, ERROR
    Remediable,     \* the policy has an AutoRemediationID
    Period,         \* alertSuppressPeriod
    Timeout,        \* of alert_processor: no invocation is longer
    MaxUpdates,     \* bound: batches the analyzers are invoked with
    MaxSuppress,    \* bound: changes of the policy's suppressions
    MaxFailures,    \* bound: failed invocations of all Lambdas
    MaxReceives,    \* maxReceiveCount of the two queues
    MaxTime         \* bound: the clock stops here

ASSUME ComplianceAssumption ==
    /\ Verdicts \subseteq {"PASS", "FAIL", "ERROR"} /\ Remediable \in BOOLEAN
    /\ {Period, Timeout, MaxUpdates, MaxSuppress, MaxFailures, MaxTime} \subseteq Nat
    /\ MaxReceives \in Nat \ {0}

VARIABLES
    now,
    failures,     \* failed invocations so far
    suppressed,   \* resources the policy suppresses now
    suppressions, \* <<resources suppressed at some time, changes made>>
    status,       \* compliance-api: the status of each resource, NONE when absent
    batches,      \* of the resources queue: <<[results, state, receives], ...>>
    analyzer,     \* [pc, batch, todo, notes]
    notes,        \* notifications: <<[resource, shouldAlert, state, receives], ...>>
    reporter,     \* [pc, note, time]
    lastUpdated,  \* the row of the recent alerts table, -1 when absent
    stream,       \* the table's stream: <<[image, valid, time, resource], ...>>
    forwarder,    \* [checkpoint, next, failed]: the records done, those handled in
                  \* this invocation as well, and the invocations that failed
    forwarded,    \* the delivery queue: numbers of records, in the order sent
    remediated,   \* resources of the calls to remediation-api
    hazards       \* [halfDone, overlapped]: resources the two known races met

vars == <<now, failures, suppressed, suppressions, status, batches, analyzer, notes,
          reporter, lastUpdated, stream, forwarder, forwarded, remediated, hazards>>
users == <<suppressed, suppressions>>
analysis == <<status, batches, analyzer, hazards>>
alerting == <<reporter, lastUpdated, remediated>>
forwarding == <<forwarder, forwarded>>

Results == UNION {[rs -> Verdicts] : rs \in (SUBSET Resources) \ {{}}}
MessageStates == {"queued", "held", "done", "dlq"}
Notes == [resource : Resources, shouldAlert : BOOLEAN]

TypeOK ==
    /\ now \in 0..MaxTime /\ failures \in 0..MaxFailures
    /\ suppressed \subseteq Resources
    /\ suppressions \in (SUBSET Resources) \X (0..MaxSuppress)
    /\ status \in [Resources -> Verdicts \cup {"NONE"}]
    /\ batches \in Seq([results : Results, state : MessageStates, receives : 0..MaxReceives])
    /\ analyzer \in [Analyzers -> [pc : {"idle", "check", "set", "notify"}, batch : Nat,
                                   todo : SUBSET Resources, notes : SUBSET Notes]]
    /\ notes \in Seq([resource : Resources, shouldAlert : BOOLEAN, state : MessageStates,
                      receives : 0..MaxReceives])
    /\ reporter \in [Reporters -> [pc : {"idle", "check", "update", "remediate"},
                                   note : Nat, time : 0..MaxTime]]
    /\ lastUpdated \in -1..MaxTime
    /\ stream \in Seq([image : BOOLEAN, valid : BOOLEAN, time : 0..MaxTime,
                       resource : Resources])
    /\ forwarder \in [checkpoint : Nat, next : Nat, failed : Nat]
    /\ 0 <= forwarder.checkpoint /\ forwarder.checkpoint <= forwarder.next
    /\ forwarder.next <= Len(stream)
    /\ forwarded \in Seq(1..Len(stream))
    /\ remediated \in Seq(Resources)
    /\ hazards \in [halfDone : SUBSET Resources, overlapped : SUBSET Resources]

IdleAnalyzer == [pc |-> "idle", batch |-> 0, todo |-> {}, notes |-> {}]
IdleReporter == [pc |-> "idle", note |-> 0, time |-> 0]

Init ==
    /\ now = 0 /\ failures = 0 /\ suppressed = {} /\ suppressions = <<{}, 0>>
    /\ status = [r \in Resources |-> "NONE"]
    /\ batches = <<>> /\ analyzer = [w \in Analyzers |-> IdleAnalyzer]
    /\ notes = <<>> /\ reporter = [p \in Reporters |-> IdleReporter]
    /\ lastUpdated = -1 /\ stream = <<>>
    /\ forwarder = [checkpoint |-> 0, next |-> 0, failed |-> 0]
    /\ forwarded = <<>> /\ remediated = <<>>
    /\ hazards = [halfDone |-> {}, overlapped |-> {}]

-----------------------------------------------------------------------------
(* The queues.                                                             *)

Take(queue, m) == [queue EXCEPT ![m].state = "held", ![m].receives = @ + 1]
Delete(queue, m) == [queue EXCEPT ![m].state = "done"]
GiveBack(queue, m) ==
    [queue EXCEPT ![m].state = IF queue[m].receives = MaxReceives THEN "dlq" ELSE "queued"]

\* Resources or the policy changed: a batch of messages to be analyzed.
Change(results) ==
    /\ Len(batches) < MaxUpdates
    /\ batches' = Append(batches, [results |-> results, state |-> "queued", receives |-> 0])
    /\ UNCHANGED <<now, failures, users, status, analyzer, hazards, notes, alerting, stream, forwarding>>

\* The users edit the suppressions of the policy.
ChangeSuppression(r) ==
    /\ suppressions[2] < MaxSuppress
    /\ suppressed' = IF r \in suppressed THEN suppressed \ {r} ELSE suppressed \cup {r}
    /\ suppressions' = <<suppressions[1] \cup {r}, suppressions[2] + 1>>
    /\ UNCHANGED <<now, failures, analysis, notes, alerting, stream, forwarding>>

-----------------------------------------------------------------------------
(* resource_processor.                                                     *)

ResultsOf(w) == batches[analyzer[w].batch].results
Failing(results) == {r \in DOMAIN results : results[r] = "FAIL"}

\* Handle: the policy engine evaluates the batch.  The resources that fail and
\* are not suppressed have their status looked up.
Analyze(w, m) ==
    LET results == batches[m].results
        todo == Failing(results) \ suppressed
        others == UNION {DOMAIN ResultsOf(v) : v \in {u \in Analyzers : analyzer[u].pc # "idle"}}
    IN  /\ analyzer[w].pc = "idle" /\ batches[m].state = "queued"
        /\ batches' = Take(batches, m)
        /\ analyzer' = [analyzer EXCEPT ![w] = [pc |-> IF todo = {} THEN "set" ELSE "check",
                                                batch |-> m, todo |-> todo, notes |-> {}]]
        /\ hazards' = [hazards EXCEPT !.overlapped = @ \cup (DOMAIN results \cap others)]
        /\ UNCHANGED <<now, failures, users, status, notes, alerting, stream, forwarding>>

\* Mutant of CheckStatus: a resource without a status is not newly failing.
CheckStatus_OnlyPassed(w, r) ==
    LET note == [resource |-> r, shouldAlert |-> status[r] = "PASS"]
    IN  /\ analyzer[w].pc = "check" /\ r \in analyzer[w].todo
        /\ analyzer' = [analyzer EXCEPT
              ![w].todo = @ \ {r}, ![w].notes = @ \cup {note},
              ![w].pc = IF analyzer[w].todo = {r} THEN "set" ELSE "check"]
        /\ UNCHANGED <<now, failures, users, status, batches, hazards, notes, alerting, stream,
                       forwarding>>

\* GetStatus: an alert is asked for when the status is not FAIL already.
CheckStatus(w, r) ==
    LET note == [resource |-> r, shouldAlert |-> status[r] # "FAIL"]
    IN  /\ analyzer[w].pc = "check" /\ r \in analyzer[w].todo
        /\ analyzer' = [analyzer EXCEPT
              ![w].todo = @ \ {r}, ![w].notes = @ \cup {note},
              ![w].pc = IF analyzer[w].todo = {r} THEN "set" ELSE "check"]
        /\ UNCHANGED <<now, failures, users, status, batches, hazards, notes, alerting, stream,
                       forwarding>>

\* deliver: SetStatus with the entries of the whole batch.
SetStatus(w) ==
    LET results == ResultsOf(w)
        empty == analyzer[w].notes = {}
    IN  /\ analyzer[w].pc = "set"
        /\ status' = [r \in Resources |-> IF r \in DOMAIN results THEN results[r] ELSE status[r]]
        /\ analyzer' = [analyzer EXCEPT ![w] = IF empty THEN IdleAnalyzer ELSE [@ EXCEPT !.pc = "notify"]]
        /\ batches' = IF empty THEN Delete(batches, analyzer[w].batch) ELSE batches
        /\ UNCHANGED <<now, failures, users, hazards, notes, alerting, stream, forwarding>>

\* The notifications put on the queue, in any order.
Sent(new) ==
    {notes \o [i \in DOMAIN s |-> [resource |-> s[i].resource, shouldAlert |-> s[i].shouldAlert,
                                   state |-> "queued", receives |-> 0]] :
        s \in {t \in [1..Cardinality(new) -> new] : {t[i] : i \in DOMAIN t} = new}}

\* deliver: SendMessageBatch with all the notifications.
Notify(w) ==
    /\ analyzer[w].pc = "notify"
    /\ notes' \in Sent(analyzer[w].notes)
    /\ batches' = Delete(batches, analyzer[w].batch)
    /\ analyzer' = [analyzer EXCEPT ![w] = IdleAnalyzer]
    /\ UNCHANGED <<now, failures, users, status, hazards, alerting, stream, forwarding>>

\* Any call can fail, and the batch is analyzed again.  SetStatus may have
\* written some of the entries by then, SendMessageBatch may have sent some of
\* the notifications.
AnalyzerFails(w, written, sent) ==
    LET u == analyzer[w]
        asked == {n.resource : n \in u.notes}
        dropped == {n.resource : n \in u.notes \ sent}
    IN  /\ u.pc # "idle" /\ failures < MaxFailures
        /\ u.pc # "set" => written = {}
        /\ u.pc # "notify" => sent = {}
        /\ status' = [r \in Resources |-> IF r \in written THEN ResultsOf(w)[r] ELSE status[r]]
        /\ notes' \in Sent(sent)
        /\ hazards' = [hazards EXCEPT !.halfDone = @ \cup (written \cap asked)
              \cup (IF u.pc = "notify" THEN dropped ELSE {})]
        /\ failures' = failures + 1
        /\ batches' = GiveBack(batches, u.batch)
        /\ analyzer' = [analyzer EXCEPT ![w] = IdleAnalyzer]
        /\ UNCHANGED <<now, users, alerting, stream, forwarding>>

-----------------------------------------------------------------------------
(* alert_processor.                                                        *)

NoteOf(p) == notes[reporter[p].note]

\* Handle is invoked with a notification.
TakeNote(p, n) ==
    /\ reporter[p].pc = "idle" /\ notes[n].state = "queued"
    /\ notes' = Take(notes, n)
    /\ reporter' = [reporter EXCEPT ![p] = [pc |-> "check", note |-> n, time |-> 0]]
    /\ UNCHANGED <<now, failures, users, analysis, lastUpdated, remediated, stream, forwarding>>

\* Handle returns nil.
FinishNote(p) ==
    /\ notes' = Delete(notes, reporter[p].note)
    /\ reporter' = [reporter EXCEPT ![p] = IdleReporter]

\* shouldTriggerActions, and the start of triggerAlert: nothing is done unless
\* the resource fails now and an alert was asked for.  Then the time is read.
CheckFailing(p) ==
    LET go == status[NoteOf(p).resource] = "FAIL" /\ NoteOf(p).shouldAlert
    IN  /\ reporter[p].pc = "check"
        /\ \/ ~go /\ FinishNote(p)
           \/ /\ go
              /\ reporter' = [reporter EXCEPT ![p].pc = "update", ![p].time = now]
              /\ UNCHANGED notes
        /\ UNCHANGED <<now, failures, users, analysis, lastUpdated, remediated, stream, forwarding>>

\* Mutant of CanAlert: the period is not taken off the time.
CanAlert_NoPeriod(time) == lastUpdated = -1 \/ lastUpdated < time

\* The condition on the recent alerts table.
CanAlert(time) == lastUpdated = -1 \/ lastUpdated < time - Period

\* The conditional update succeeds: this is the alert.  The forwarder requires a
\* time of creation and a severity, which are taken as they come: from the
\* notification and from analysis-api.  valid tells whether they are there.
TriggerAlert(p, valid) ==
    /\ reporter[p].pc = "update" /\ CanAlert(reporter[p].time)
    /\ lastUpdated' = reporter[p].time
    /\ stream' = Append(stream, [image |-> TRUE, valid |-> valid, time |-> reporter[p].time,
                                 resource |-> NoteOf(p).resource])
    /\ reporter' = [reporter EXCEPT ![p].pc = "remediate"]
    /\ UNCHANGED <<now, failures, users, analysis, notes, remediated, forwarding>>

\* Mutant of AlertSuppressed: remediation is triggered all the same.
AlertSuppressed_Remediates(p) ==
    /\ reporter[p].pc = "update" /\ ~CanAlert(reporter[p].time)
    /\ reporter' = [reporter EXCEPT ![p].pc = "remediate"]
    /\ UNCHANGED <<now, failures, users, analysis, notes, lastUpdated, remediated, stream, forwarding>>

\* The condition fails: neither an alert nor a remediation.
AlertSuppressed(p) ==
    /\ reporter[p].pc = "update" /\ ~CanAlert(reporter[p].time)
    /\ FinishNote(p)
    /\ UNCHANGED <<now, failures, users, analysis, lastUpdated, remediated, stream, forwarding>>

\* remediation-api is called when the policy has a remediation.
TriggerRemediation(p) ==
    /\ reporter[p].pc = "remediate"
    /\ remediated' = IF Remediable THEN Append(remediated, NoteOf(p).resource) ELSE remediated
    /\ FinishNote(p)
    /\ UNCHANGED <<now, failures, users, analysis, lastUpdated, stream, forwarding>>

\* A call fails (the remediation may have been accepted by then), and the
\* notification is handled again.
ReporterFails(p, accepted) ==
    /\ reporter[p].pc # "idle" /\ failures < MaxFailures
    /\ failures' = failures + 1
    /\ accepted => Remediable /\ reporter[p].pc = "remediate"
    /\ remediated' = IF accepted THEN Append(remediated, NoteOf(p).resource) ELSE remediated
    /\ notes' = GiveBack(notes, reporter[p].note)
    /\ reporter' = [reporter EXCEPT ![p] = IdleReporter]
    /\ UNCHANGED <<now, users, analysis, lastUpdated, stream, forwarding>>

ExpiresAt == lastUpdated + Period

\* DynamoDB deletes the row some time after it expired.
ExpireRow ==
    /\ lastUpdated # -1 /\ ExpiresAt < now
    /\ stream' = Append(stream, [image |-> FALSE, valid |-> FALSE, time |-> now,
                                 resource |-> CHOOSE r \in Resources : TRUE])
    /\ lastUpdated' = -1
    /\ UNCHANGED <<now, failures, users, analysis, notes, reporter, remediated, forwarding>>

-----------------------------------------------------------------------------
(* alert_forwarder: the records of the stream in order.                    *)

\* The record holds an alert that can be sent.
Deliverable(i) == stream[i].image /\ stream[i].valid

\* Mutant of Forward: a record without a new image fails the invocation.
Forward_NeedsImage ==
    /\ forwarder.next < Len(stream) /\ stream[forwarder.next + 1].image
    /\ forwarder' = [forwarder EXCEPT !.next = @ + 1]
    /\ forwarded' = IF Deliverable(forwarder.next + 1)
                    THEN Append(forwarded, forwarder.next + 1) ELSE forwarded
    /\ UNCHANGED <<now, failures, users, analysis, notes, alerting, stream>>

\* A record without a new image, or with an alert that cannot be unmarshalled or
\* is not valid, is skipped; the others are sent.
Forward ==
    /\ forwarder.next < Len(stream)
    /\ forwarder' = [forwarder EXCEPT !.next = @ + 1]
    /\ forwarded' = IF Deliverable(forwarder.next + 1)
                    THEN Append(forwarded, forwarder.next + 1) ELSE forwarded
    /\ UNCHANGED <<now, failures, users, analysis, notes, alerting, stream>>

\* Mutants of FinishForwarding: records that arrived meanwhile are passed over;
\* the handler returns the err that a skipped last record left behind.
FinishForwarding_WholeStream ==
    /\ forwarder.checkpoint < forwarder.next
    /\ forwarder' = [forwarder EXCEPT !.checkpoint = Len(stream)]
    /\ UNCHANGED <<now, failures, users, analysis, notes, alerting, stream, forwarded>>
FinishForwarding_ReturnsErr ==
    /\ forwarder.checkpoint < forwarder.next
    /\ forwarder' = IF stream[forwarder.next].image => stream[forwarder.next].valid
                    THEN [forwarder EXCEPT !.checkpoint = forwarder.next]
                    ELSE [forwarder EXCEPT !.next = forwarder.checkpoint]
    /\ UNCHANGED <<now, failures, users, analysis, notes, alerting, stream, forwarded>>

\* The batch ends, and the handler returns nil: the stream does not show its
\* records again.
FinishForwarding ==
    /\ forwarder.checkpoint < forwarder.next
    /\ forwarder' = [forwarder EXCEPT !.checkpoint = forwarder.next]
    /\ UNCHANGED <<now, failures, users, analysis, notes, alerting, stream, forwarded>>

\* SendMessage (its message may be on the queue all the same) or the Lambda
\* fails: the whole batch is retried.
ForwarderFails ==
    /\ forwarder.checkpoint < Len(stream) /\ failures < MaxFailures
    /\ failures' = failures + 1
    /\ forwarder' = [forwarder EXCEPT !.next = forwarder.checkpoint, !.failed = @ + 1]
    /\ UNCHANGED <<now, users, analysis, notes, alerting, stream, forwarded>>

-----------------------------------------------------------------------------
\* A reporter that has read the time is done before the Lambda's timeout.
Tick ==
    /\ now < MaxTime
    /\ \A p \in Reporters : reporter[p].pc = "update" => now < reporter[p].time + Timeout
    /\ now' = now + 1
    /\ UNCHANGED <<failures, users, analysis, notes, alerting, stream, forwarding>>

Advance(w) ==
    (\E r \in Resources : CheckStatus(w, r)) \/ SetStatus(w) \/ Notify(w)
Report(p) ==
    \/ CheckFailing(p) \/ AlertSuppressed(p) \/ TriggerRemediation(p)
    \/ \E valid \in BOOLEAN : TriggerAlert(p, valid)

Next ==
    \/ \E results \in Results : Change(results)
    \/ \E r \in Resources : ChangeSuppression(r)
    \/ \E w \in Analyzers :
          \/ \E m \in DOMAIN batches : Analyze(w, m)
          \/ Advance(w)
          \/ \E sent \in SUBSET analyzer[w].notes, written \in SUBSET Resources :
                analyzer[w].pc # "idle" /\ written \subseteq DOMAIN ResultsOf(w)
                  /\ AnalyzerFails(w, written, sent)
    \/ \E p \in Reporters :
          \/ \E n \in DOMAIN notes : TakeNote(p, n)
          \/ Report(p)
          \/ \E accepted \in BOOLEAN : ReporterFails(p, accepted)
    \/ ExpireRow \/ Forward \/ FinishForwarding \/ ForwarderFails \/ Tick

Spec == Init /\ [][Next]_vars

\* Running Lambdas go on, and the queues and the stream keep invoking them.
FairSpec ==
    /\ Spec
    /\ \A w \in Analyzers : WF_vars(Advance(w))
    /\ \A p \in Reporters : WF_vars(Report(p))
    /\ WF_vars(\E w \in Analyzers, m \in DOMAIN batches : Analyze(w, m))
    /\ WF_vars(\E p \in Reporters, n \in DOMAIN notes : TakeNote(p, n))
    /\ WF_vars(Forward)

-----------------------------------------------------------------------------
IsAlert(i) == stream[i].image

\* Alerts of the policy are spaced by the suppress period, less the time one
\* invocation can hold on to the time it read: an expired row that is deleted
\* under a slow reporter is all that can bring two alerts closer together.
AlertsSpaced ==
    \A i, j \in DOMAIN stream :
        (i < j /\ IsAlert(i) /\ IsAlert(j)) => stream[i].time + Period < stream[j].time + Timeout

\* A remediation is called for once per alert at most, however often the
\* notification is handled again after a failure.
RemediationsCovered == Len(remediated) <= Cardinality({i \in DOMAIN stream : IsAlert(i)})

\* Nothing is left to be done and nothing went to a dead-letter queue.
Quiescent ==
    /\ \A m \in DOMAIN batches : batches[m].state = "done"
    /\ \A n \in DOMAIN notes : notes[n].state = "done"
NewlyFailing(r) == status[r] = "FAIL" /\ r \notin suppressions[1]

\* A resource that fails has had its policy alerted on, once the queues are
\* empty, unless two analyzers worked on it at once or one failed between the
\* status and the notification.
FailingIsAlerted ==
    Quiescent => \A r \in Resources \ (hazards.halfDone \cup hazards.overlapped) :
        NewlyFailing(r) => \E i \in DOMAIN stream : IsAlert(i)

Copies(i) == Cardinality({k \in DOMAIN forwarded : forwarded[k] = i})

\* The delivery queue gets an alert at most once more than invocations of the
\* forwarder failed, although a failure repeats the records before it and
\* although invalid alerts and expired rows are among them, and at least once
\* before the stream stops showing it.  Nothing else gets there.
ForwardedPerFailure ==
    \A i \in DOMAIN stream :
        /\ Copies(i) <= 1 + forwarder.failed
        /\ Copies(i) > 0 => Deliverable(i)
        /\ i <= forwarder.checkpoint /\ Deliverable(i) => Copies(i) > 0

\* Every batch and every notification is handled or goes to its dead-letter
\* queue, and every alert that can be sent reaches the delivery queue.
EverythingSettles ==
    /\ <>[](\A m \in DOMAIN batches : batches[m].state \in {"done", "dlq"})
    /\ <>[](\A n \in DOMAIN notes : notes[n].state \in {"done", "dlq"})
    /\ <>[](\A i \in DOMAIN stream : Deliverable(i) => Copies(i) > 0)
=============================================================================
