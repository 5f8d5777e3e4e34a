# Panther in TLA+

Panther collects logs and cloud resources, runs Python rules and policies over
them, and alerts. It is a set of AWS Lambda functions that share no memory: they
meet in SQS queues, DynamoDB tables and their streams, S3 and SNS. Every queue
and stream delivers at least once, a Lambda can stop between any two of its
calls, and several invocations of one function run at a time. The modules here
model the functions where that matters most, with TLC runs on small instances and
TLAPS proofs for all instances.

## Inventory

| Part | State | Operations | What is hard |
|---|---|---|---|
| `pkg/awsbatch/sqsbatch` | one call | paging, sending, backoff | page limits, partial refusals, oversized messages |
| other helpers of `pkg/awsbatch` | one call | paging, sending, backoff | partial refusals, errors of a page hidden by the next |
| `log_analysis/log_processor` | channels and buffers of one invocation; the parser queue | read, classify, aggregate, upload | four goroutines, memory thresholds, errors while draining, a heap that is taken apart for each line |
| `log_analysis/rules_engine` | matched events; the alert-dedup table | analyze, conditional update, merge, store | racing invocations, stale times, redelivered batches |
| `log_analysis/alert_forwarder` | the alert table | store, notify, update | replayed stream batches |
| `core/alert_delivery` | the outputs cache; messages | dispatch, retry, expire | partial failures, duplicates, stale caches |
| `compliance/resource_processor`, `alert_processor`, `alert_forwarder`, `compliance_api` | compliance status; recent alerts | analyze, set status, alert, remediate, forward | read-then-write between Lambdas, time to live, lost notifications |
| `compliance/aws_event_processor`, `resources_api`, `snapshot_*` | change map, event cache; resources, scan status | merge changes, delete, poll, write, queue, schedule | write-then-queue, reordered events, stale caches, stuck scans |
| `core/analysis_api` with `compliance_api` | policies; compliance rows | create, modify, suppress, delete; set, delete, rewrite status | rows in line with a policy under unlocked calls |
| `core/source_api` | integrations, a queue policy | put, delete, update | check-then-act, read-modify-write, undo of half-done calls |
| `core/outputs_api`, `users_api`, `organization_api` | one table each | create, update, delete | check-then-act |
| `policy_engine`, `remediation_*`, `alerts_api`, `datacatalog_updater`, parsers, pollers, `tools`, `web` | none, or one external service | | I/O and data conversion |

The path of a log alert is S3 object → `log_processor` → S3 and SNS →
`rules_engine` → alert-dedup table → its stream → log `alert_forwarder` → alert
queue → `alert_delivery`. The path of a compliance alert is a changed resource or
policy → `resource_processor` → compliance status and the alert processor's queue
→ `alert_processor` → recent alerts table → its stream → compliance
`alert_forwarder` → the same alert queue. A resource comes to be analyzed in this
way: CloudTrail event → `aws_event_processor` → scan request (or a delete) →
`snapshot_poller` → `resources_api` → resources table and the queue of
`resource_processor`; the scheduler asks for a scan of everything once a day, for
each integration in the table of `source_api`.

`PROJECT.json` lists every part with its status, and the hazards at their lines.

## Modules

| Module | Models | State and actions |
|---|---|---|
| `SqsBatch` | `send_message_batch.go` | One behaviour is one call. `PackOversized` and `PackEntry` are one turn of the inner loop, `SendSucceeds`, `SendPartlyFails`, `SendGivesUp`, `SendErrors` the outcomes of `request.send` under the backoff, `ReturnAfterLoop` the two returns after the loop. A message is its index and its length. |
| `AlertDedup` | `main.py`, `output.py`, `alert_merger.py` of the rules engine | A worker is an invocation. `AddEvent` with the eviction of the biggest group, `StartFlush`, `FlushGroup`; then `CreateAlert` or `ConditionFails` and `MergeIntoAlert` (one action for each call on DynamoDB), `PutObject`, `Publish`. `Fail` may come anywhere. |
| `AlertForwarder` | the log `alert_forwarder` | `StartBatch` from the checkpoint, `storeNewAlert`, `sendAlertNotification`, `updateExistingAlert`, `FinishBatch`, `FailBatch`. |
| `AlertPipeline` | both | `AlertDedup` and `AlertForwarder`, which share the variable `stream`. |
| `S3Destination` | `destinations/s3.go` and the goroutines of `processor.go` | The caller of `process`, `SendEvents` and its sender as three processes. What a goroutine does between two channel operations is one step. |
| `Classifier` | `classifier.go`, `parser_queue.go` | Operators: the binary heap (`Up`, `Down`, `Push`, `Pop`), `TryParsers` in the order of the penalties and `PutBack` of those that failed. A line is the set of parsers that accept it. |
| `LogProcessor` | `process` and `processLogLine` | `S3Destination` with the lines it is fed by: `ReadLines` classifies a line and puts its event on the channel, `NextStream` starts with a new classifier. |
| `PagedBatch` | `BatchWriteItem`, `PutRecords`, `DeleteObjects` | One call of one of the three: `TakePage`, and the outcomes of a request, `SendAll`, `SendSome`, `SendUnavailable`, `SendFails`. |
| `BatchCall` | | What callers rely on, abstractly: the call works off its items, returns once, and returns nil only when all are done. `SqsBatch` and `PagedBatch` implement it. |
| `AddResources` | `add_resources.go` | `PagedBatch` for the rows, then `SqsBatch` for the messages, then `handleBigMessages`, whose own call is a `BatchCall`. |
| `SourceIntegration` | `source_api`, the scheduler | A caller is one call of the API; each request to DynamoDB or SQS is a step that can fail (`RequestFails`, `StoreFails`, `UndoFails`, `DropFails`), also after it took effect (`StoreUnanswered`, `DropUnanswered`), and a call can be `Killed` anywhere. A scan is one page, eventually consistent: `Put` is shown any part of the rows, `SiblingsMisled` is a delete that is shown the wrong ones. The policy is the set of accounts it names. `PollAndIssueNewScans` is the scheduler. |
| `ResourceChanges` | `aws_event_processor`, the poller, `AddResources` and `DeleteResources` | One resource; its state is the number of the last change. `Receive` handles a batch (`HandleRecord`, `Merge`); `DeleteRow` and `DeleteStatus` delete, `SendScan` asks for a scan, and what is left for the other resources of the batch goes well or not (`Succeed`, `Fail`); `ReceiveScan`, `PollResource`, `AddResource`, `QueueResource` are the poller's. |
| `PolicyStatus` | `analysis_api` and `compliance_api`, the analyzers as their writers | One policy. `WriteItem` and `PutItem` with `updateComplianceStatus`, `Suppress`, `DeletePolicies`; `QueryDeletes`/`DeleteStatus` and `QueryUpdates`/`UpdateMetadata` as read and write, where the read goes to an index that may lag (`IndexLags`) and a write of several rows may fail half way; `Evaluate` and `SetStatus` of an analyzer, from the queue or the cache. |
| `AlertDelivery` | `core/alert_delivery` | A container is a Lambda environment with its outputs cache. `Receive`, `FetchOutputs`, `Dispatch`, one `Send...` action for what a goroutine reports, `FinishInvocation` with `retry`, `Crash`; the users' `ChangeOutput`. |
| `ComplianceAlerts` | `resource_processor`, `alert_processor`, the compliance `alert_forwarder`, and `SetStatus` and `GetStatus` of `compliance_api` | One policy. `Analyze`, `CheckStatus`, `SetStatus`, `Notify` of an analyzer; `TakeNote`, `CheckFailing`, `TriggerAlert`, `AlertSuppressed`, `TriggerRemediation` of a reporter; `ExpireRow` for the time to live; `Forward`, which skips records without an image and invalid alerts, and `FinishForwarding`; a failure action for each Lambda. |
| `MC...` | | The values the configurations give to the constants. |
| `...Proofs` | | Theorems about the module of that name. `AddResourcesProofs` has those about `SqsBatch` and `PagedBatch` too, `AlertPipelineProofs` those about `AlertDedup`; `AlertRetriesProofs` builds on `AlertDeliveryProofs`. |
| `FiniteSums` | | Lemmas about sums over finite sets, on which the proofs about counts and sizes rest. |

Operators whose name has a suffix after an underscore (`BatchFull_OffByOne`) are
mutants: a plausible mistake in the code that a property has to notice.
`PROJECT.json` says which.

Two abstractions are common to the modules. SQS is taken to hide a message while
an invocation holds it, and to show it again after a failure, up to the queue's
`maxReceiveCount` (then it is in the dead-letter queue); two invocations with one
message at the same time are not modelled. Time is a small counter that any step
can find advanced (in `PolicyStatus` the age of a row in days), except where the Lambda's timeout bounds how long a value can
be held (`Timeout` in `AlertDelivery` and `ComplianceAlerts`).

## Runs

| Run | Shows |
|---|---|
| `AddResources` | All requests of up to 4 resources with messages of 4 sizes. A request holds what was paged and not acknowledged, within its limits; no message is sent twice; both helpers implement `BatchCall`, so that nil means that all items were taken. 201 means that each consumed resource is stored and has a message or a lookup, not both; nothing is queued that is not stored; the handler returns. |
| `SqsBatchTooLong` | Violation, see Findings. |
| `AlertDedup` | Two invocations, two batches received up to twice, one key with two log types. Alerts are spaced by the dedup period; S3 never holds more under an alert than it counts; a finished batch is stored; without redelivery the counts are exact. |
| `AlertPipeline` | The alert table converges on the dedup table in spite of replays, an update never comes before its alert, each alert is notified, and each batch is finished or dead-lettered. |
| `LogProcessor` | Three lines in two streams, four parsers, two partitions. nil means that the event of each line which some parser accepts is in an announced object; nothing is stored twice; the memory total is right and below the threshold; the parser queue stays a heap of all parsers; `process` always returns (or panics, see Known behaviour). |
| `AlertDelivery` | Two environments, two outputs, one change of the outputs. A transient failure is never forgotten, except for the stated reasons; a retry never repeats a delivery that the output confirmed; a deleted output is used for the refresh interval and one timeout at most. |
| `AlertDeliveryBatch` | A valid and an invalid message in one batch, in both orders. All messages settle. |
| `ComplianceAlerts` | Two analyzers, two reporters, one resource, three changes and one failure. Alerts are spaced by the suppress period less one timeout; no more remediations than alerts; a failing resource is alerted on outside the two races named below; the delivery queue gets each valid alert of the stream, at most once more than the forwarder failed, and nothing else. |
| `ComplianceSettles` | A batch of two resources with partial writes and sends, a suppression and an `ERROR` verdict. Everything is handled or dead-lettered, and each alert that can be sent is forwarded. |
| `SourceIntegration` | Two concurrent calls, two accounts, two labels, two integrations. The queue policy names an account exactly while it has a log source, sources stay distinct, and each integration is scanned again and again, each with its exceptions named in the property. |
| `ResourceChanges` | A resource that is stored, not yet stored or not there, and two changes of it with their events, through both ways of delivery, batches of two, one failure. When all is done the table shows the resource as it is; whatever went wrong, scheduled scans repair it. |
| `PolicyStatus` | Two calls, one analyzer, two resources of two types, four versions of the policy, one fault. Calls one at a time leave exactly the rows the policy asks for; after overlapping calls, failures, stale caches and reads the rows come to be those of the policy. |

**Bounds.** `AddResources`: a page of either helper holds 2 items, one of
messages 4 bytes, so 4 resources give pages cut by count and by size, an oversized message before, between and after
others, and a second page. `AlertDedup`: the clock runs to 3 with a period of 1, so
a row can have two alerts and a worker can be late by more than the period; the
buffer holds 2 matches and a batch has 3, so that it evicts. `AlertPipeline`: two
batches received twice write up to four stream records, and a failed invocation of
two records is replayed. `LogProcessor`: with sizes 1 and 2, a threshold of 3 for
one buffer and 4 for all, three events reach both thresholds, and the ejection with
the largest buffer another than the current one; the channel holds one event, so
the caller blocks; four parsers are the fewest whose heap an append instead of
a push can break, lines of one, both and no parser reorder it, and the second stream
starts over. `AlertDelivery`: the clock runs past the refresh interval and
the retry duration, and a retry is retried. `ComplianceAlerts`: the clock runs to 3
with a period of 2, so a row expires and is deleted under a slow reporter; three
changes let two analyzers overlap before and after a status exists.
`SourceIntegration`: two integrations can share an account's statement, conflict, or
belong to two accounts; two callers give every overlap of two calls; a source can be
given the label of another (`Renames`). All sources of a
behaviour have one type (`kind`), since sources of different types never meet.
`ResourceChanges`: change 1 is in the past, its events are done and its row is stored,
or a scan is about to find it; the two that follow are any two of create, modify and
delete in an order the account can make them; a batch of two can merge their events or deliver them in two batches. `PolicyStatus`: the four versions differ in each field that
`updateComplianceStatus` compares, rows live 2 days, and two calls give each pair of
an old and a new item, or an overlap.

**Deadlock** is not checked: all models are of bounded work, after which the system
rests. That they do not rest too early is what the liveness properties say.

**Symmetry** is used in `AlertDedup` (workers) and `ComplianceAlerts` (analyzers and
reporters), both without liveness properties.

**Fairness** is weak, with two exceptions in `PolicyStatus`: a running Lambda goes on (its failure is a
step that needs no fairness), a queue or stream goes on offering what is visible, Go
runs a goroutine that can run, and the scheduler's timer fires. In `AddResources` the
retries of one page end since `MaxElapsedTime` is set on the backoff: the outcomes
other than a retry are fair as a disjunction. In `SourceIntegration` and
`ResourceChanges` the scheduler's own request is made some time, and in the former the
page it lists has every integration in the end. In `PolicyStatus`
two steps are strongly fair: the expiry of a row, since the row can be renewed before
DynamoDB deletes it, and the analysis of a queued policy, since the analyzer may take
a resource first each time; scans are lost and requests fail a bounded number of times
(`MaxFaults`). In `AlertPipeline` and `ComplianceSettles` the failures of the stream's
consumer are bounded: the deployment retries stream batches until they succeed. No
run assumes that a given call succeeds.

**Types.** The runs check the type invariants of `LogProcessor`, `AlertDelivery`,
`ComplianceAlerts`, `ResourceChanges` and `PolicyStatus`; those of `SqsBatch`,
`PagedBatch`, `AlertDedup`, `S3Destination`, `AlertDelivery`, `ComplianceAlerts` and
`SourceIntegration` are proved.

## Findings

`SqsBatchTooLong` shows that the code does not do what its comment says: a page of
oversized messages only ends the paging loop, and the messages behind it are neither
sent nor returned (`send_message_batch.go:135`). For `AddResources` it means a 201
for resources that are stored but not queued: `CreatedMeansQueued` therefore speaks of
the messages that the loop consumed.

## Known behaviour

What the modules do because the code does it, and what the properties say about it.

- Past the memory threshold the largest buffer is removed and another one is sent
  (`s3.go:194`). The dropped events are never taken for stored: the buffer that was
  sent is still in the set, so that a later event or the final flush uses its cleared
  writer and the invocation panics. That is why `AcceptedLinesStored`
  holds.
- The error of the last record decides for a batch of alerts
  (`alert_delivery/main/lambda.go:51`), so an invalid message can be deleted.
  `RetriesKept` exempts alerts that `retry` could not put back on the queue, an error
  it only logs.
- The FAIL status is stored before the notification is sent
  (`resource_processor/processor/handler.go:397`), so a retry after a failure in
  between asks for no alert. `FailingIsAlerted` exempts this, and two analyzers that
  overlap on one resource. Remediation follows the alert: `triggerAlert` returns
  `canRemediate = false` when no alert is asked for or the policy was alerted on
  within the period.
- The entries `SendMessageBatch` returns with an error other than
  `BatchRequestTooLong` are a slice by count (`FailureEntries`), which are the unsent
  ones only if the accepted ones come first; no caller looks at them.
- `PermissionMatches` exempts an account after its calls overlapped, its statement
  was overwritten, an undo failed, a call was killed, a delete was shown an incomplete or
  outdated page of the table (`scan.go:54`), or a row was written or deleted by a request
  that reported an error (the undo then takes the statement from a source that exists, or
  gives it to none), until the next call succeeds that adds a source of it or deletes its
  last one. `SourcesAreDistinct` exempts accounts with overlapping puts, a put that was
  not shown the row it conflicts with, or a changed label (`update_integration.go:67` has
  no check). An update that comes
  after a delete leaves a row without a type, on which the next put panics.
- An integration whose first scan never ends is not scanned again (`schedule.go:88`);
  `ScansRecur` names it as its exception.
- An output may take an alert although its client reports a network error
  (`post.go:53`), which is retried. `DeliveredOnce` counts the deliveries that were
  confirmed; it does not bound how often such an output sees the alert.
- `TableMatches` exempts events dropped for the CloudWatch Events cache, failed polls,
  two changes in one second, and overlapping or reordered batches. A batch that is
  repeated after it was done in part is not exempt. `ScansRepair` covers resources that exist: a
  scan does not report a deleted one, so that a row which a slow poller brought back
  stays.
- `maxBackoffSeconds` of the event processor is 30 nanoseconds, so that a partial
  refusal fails the batch at once; the batch is repeated.
- Narrowing a policy from all types to some leaves the rows of the others
  (`compliance.go:146`), and suppressions are matched by two functions that differ for
  a star over a slash. `StatusAtRest` excepts both; the daily scan and the expiry of
  rows put them right (`StatusConverges`).

The exemptions are history variables (`suspect`, `raced`, `excused`) that record the
cause (calls that overlap, a request that fails), never the wrong state itself.

## Proofs

Each theorem holds for every value of the constants that satisfies the named
assumption of its module. What the assumptions ask for, the code has: limits that
are positive, sizes and times that are natural numbers, and finite sets of
invocations, batches and log types where something is added up over them.

`FiniteSums`: the sum of a function over a finite set, as the community modules
define it, is a number, depends on nothing else, loses an element's value with the
element, can be exchanged, and is 0 for no elements. The definition recurses over
sets; the proof takes a smallest set for which the claim fails (`WFMin` on
cardinalities). The other modules cite the lemmas wherever counts or sizes are
added up.

`AddResourcesProofs`, first about `SqsBatch`, from `LimitsAssumption` and
`SizesAssumption`: `TypeCorrect`, `NilCorrect`, `TooLongCorrect` and
`NoDuplicateCorrect`, for calls of any length. `NilMeansAllAccepted` is not
inductive: nothing in it says what a state before the return must be like. The
inductive invariant `SplitInv` adds that the consumed messages `1..i` are at all
times split, without overlap, between the accepted ones, the request in hand and
the oversized ones, and that the loop is left with an empty request and, if no
message was oversized, with nothing unconsumed. From the same invariant
`SendKeepsPromise`: every step is one of `BatchCall` or a stutter. `RequestCorrect`
needs `FitInv`: while the packing loop goes on there is room for the next message,
and the loop's count of bytes is never less than what the request holds (after a
partial refusal it can be more).

Then about `PagedBatch`, from `PageAssumption` (a page holds at least one item):
`PagesCorrect` and the refinement `PagedKeepsPromise`, for any number of items and
any page size. `PageInv` says that the service has taken each paged item that is not
in the request (it may have taken some that are), and that the count is the number
of the paged items less those in the request. And about the handler:
`CreatedCorrect`, from `HandlerInv`, which joins the invariants of the two calls:
nothing is queued before the rows are written, the lookups are for what
`SendMessageBatch` returned, and the response was given on what is still the case.

`AlertPipelineProofs`, first about `AlertDedup`, from `DedupAssumption`, for any
number of invocations, batches, keys and log types and any dedup period. `AlertSpacing` speaks of pairs of stream
records, and a new record has to be compared with all older ones. The inductive
invariant `SpacingInv` compares them with the row instead: each image of a key
precedes (`Precedes`, which is transitive) the row that the key has now, so that an
update has to be compared with that row only (`SpacingCorrect`, `TypeCorrect`).
`StoredCorrect`: what is stored under an alert and what its writers have counted and
not yet stored (`Claimed`) is counted in the row as long as the row is of that alert,
and in one of its images for ever (`ClaimInv`). `FinishedCorrect`: what a batch
matched is in the buffer of its invocation, on the way to S3 or in S3 (`WorkInv`,
`BatchInv`), whatever the buffer evicted. `CountsCorrect`: the events of all alerts
of a key are those the invocations have counted, so that without a redelivery no
match is lost between two that merge into one row (`CountInv`).

Then about the forwarder: `AlertTableCorrect` and `NotificationsCorrect`, however the
stream is cut into batches and however often a batch is replayed. `ChainInv` says
that the old image of a record is the new image of the one before it; with the
spacing of alerts, only the first record of an alert asks for a new one.
`ReplayInv` says which record an item reflects while a failed batch is replayed over
it, and `NoticeInv` which alerts were notified.

`AlertDeliveryProofs` and `AlertRetriesProofs`, from `DeliveryAssumption`, for any
number of environments, alerts and outputs, any batch size, delay, refresh interval
and timeout: `TypeCorrect` and the three safety invariants. `Sound` joins the types
with what an invocation looks like at each of its steps (`ShapeInv`: the outputs still
to be answered belong to the first alert, an invocation with retries started before
the retry duration was over) and how old what it knows can be (`CacheInv`: an output in the
cache existed at most one timeout before the cache was stamped).
`DeletedOutputsExpireHolds` follows, since a cache is used for the refresh interval.
`RetriesKept` is not inductive: it says nothing of where an alert is between the
failure and the message that retries it. `HeldInv` says that an invocation holds its
messages, that no other does, and that what it carries is covered by one of them, so
that a crash gives back all that was in hand; with it `TransientInv` follows each
failed pair of alert and output from the batch to the list of retries and back to the
queue (`RetriesKeptHolds`). For `DeliveredOnceHolds` the invariant `OnceInv` adds up what
was delivered of an alert to an output and what may still be: the messages in the
queue, the places in the batches (`Owed`) and the retries (`ToRetry`). The sum is at
most 1 and one more for each message that became visible again, and each step moves
an amount from one place to another (`Pays`): a retry takes the place of the attempt
that failed, and never asks for an output that succeeded.

`S3DestinationProofs`, from `DestinationAssumption`: `TypeCorrect`,
`StoredOnceCorrect`, `MemoryCorrect` and `NilCorrect`, for any partitions, events,
streams, channel capacity and thresholds. An event is in one buffer at most, of its
own key (`EventsInv`), and a buffer is uploaded once, after it was read and can no
longer change (`StoreInv`). For `MemoryBounded` the invariant `MemoryInv` says that
the total was below the threshold before the last event and that the event's buffer
is at least as large as the event: the largest buffer therefore makes up for it.
`NilCorrect` (a call that returns nil has stored and announced each event) rests on
`CoverInv`: while nothing failed, each settled event is covered by an announced
object or by a buffer that will still be sent, or there is a buffer that the sender
is bound to panic on (`Doomed`), which is what becomes of the buffer sent in place
of another.

`SourceIntegrationProofs`, from `SourceAssumption`: `TypeCorrect`, `DistinctCorrect`
and `PermissionCorrect`, for any callers, accounts, labels and number of
integrations, and with every failure. A put checks the table long before it stores
its row. The inductive invariant `IInv` says that, unless it was not shown a row it
conflicts with, what it found still holds when it stores: a put in progress conflicts with no row, unless its account is in `raced`
(`PendingIsNew`); two puts in progress for one account put it there (`PutsRace`); the
ID of a put in progress belongs to no row and no other call (`IdsFresh`); and a row is
only ever changed by calls for its own account (`UpdateOwner`, `RowsOwned`). For the
queue policy `AccountsInv` follows each account that is not suspect: at most one call
works on it, and that call is at a step where the policy and the table are apart by
exactly what it has yet to do. A call that is misled by a scan or not told that its
write took effect makes its account suspect and stops vouching for it (`DoubtPerm`).

`ComplianceAlertsProofs`, from `ComplianceAssumption`, for any number of analyzers,
reporters and resources: `TypeCorrect` and four invariants. `AlertsSpaced` speaks of
pairs of stream records. The inductive invariant `SpacedInv` compares each record
with the row and the clock: an alert whose period is not over is the one the row
remembers, since the row is deleted only after it expired (`OldAlertsExpired`), and a
reporter comes to the row at most one timeout after it read the time
(`TimeIsRecent`). `RemediationsCoveredCorrect` counts the reporters about to
remediate, each of which has an alert to its credit (`CreditInv`).
`FailingIsAlertedCorrect` follows a failing resource from the analyzer that found it
to the note, the reporter and the alert (`AnalysisInv`, `PendingInv`).
`ForwardedPerFailure` does not say how many copies a record may have before an
invocation comes to it; `CopiesInv` adds that a record ahead of the invocation has at
most one copy for each one that failed, so that the step past the record, which adds
one copy at most, keeps the bound.

Only model-checked: all liveness properties, since the prover has no `ENABLED`; what
the recursive operators of `Classifier` compute, and with them the properties of
`LogProcessor`, which the prover cannot reach through a `RECURSIVE` operator (its
`StoredOnce` and `MemoryBounded` are those proved of `S3Destination`);
and, so far, the invariants of `ResourceChanges` and `PolicyStatus`. `StatusAtRest` holds for one fault, as in the run, and is not a theorem for any number
of them.

## Not modelled

- In the modelled parts: `direct_analysis` and the cache of rules of the rules
  engine; titles and display names of alerts; the clients of the outputs; failed
  resource lookups and double results in one batch of `resource_processor`; in
  `ComplianceAlerts`, the life time of compliance entries (an entry that expires makes
  its resource newly failing); a notification batch of more than one (the deployment
  has `BatchSize: 1` for the alert processor); the cache of registered accounts of the
  event processor; rules and globals of `analysis_api`; `BatchGetItem`.
- The bulk of the repository has no state of its own: some fifty log parsers, the
  pollers and event classifiers of the single AWS services, the clients of the
  outputs, the generated API clients, the deployment tools and the web application.
  They convert data or call one service; a model of them would be a
  transliteration. `PROJECT.json` lists these parts with the reason.

## Plan

In this order:

1. The whole alert path: `AlertPipeline` and `AlertDelivery` as implementations of an
   abstract "every alert reaches its outputs at least once" specification.
2. The rest of `analysis_api` (rules, globals and the layer), and `outputs_api` and
   `users_api` with their checks before a write.
3. Proofs: `TableMatches` of `ResourceChanges`, and `StatusAtRest` of `PolicyStatus` with
   the faults it excepts made explicit.
