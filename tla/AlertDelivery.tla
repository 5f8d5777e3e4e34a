--------------------------- MODULE AlertDelivery ---------------------------
(***************************************************************************)
(* internal/core/alert_delivery: alerts are taken from the alert queue in  *)
(* batches and sent to their outputs; what failed for now is put back on   *)
(* the queue with a random delay.                                          *)
(*                                                                         *)
(* A container is a Lambda environment with its own cache of the outputs;  *)
(* it runs one invocation at a time.  The users add and delete outputs     *)
(* meanwhile.  All alerts are created at time 0 and one severity is        *)
(* enough: DefaultOutputs are the outputs that are the default for it.     *)
(***************************************************************************)
EXTENDS Integers, Sequences, FiniteSets, FiniteSetsExt

CONSTANTS
    Containers,
    Alerts,
    Invalid,         \* the alerts whose message does not decode or validate
    Outputs,
    OutputIDs,       \* of each alert: {} when it has none of its own
    DefaultOutputs,
    RetryDuration,   \* ALERT_RETRY_DURATION_MINS
    MinDelay,        \* MIN_RETRY_DELAY_SECS
    MaxDelay,        \* MAX_RETRY_DELAY_SECS, not itself drawn
    RefreshInterval,
    Timeout,         \* of the Lambda: no invocation is longer
    BatchSize,
    MaxReceives,     \* bound: maxReceiveCount of the queue (10 in the deployment)
    MaxChanges,      \* bound: changes the users make to the outputs
    MaxTime          \* bound: the clock stops here

ASSUME DeliveryAssumption ==
    /\ IsFiniteSet(Containers) /\ IsFiniteSet(Alerts)
    /\ Invalid \subseteq Alerts /\ DefaultOutputs \subseteq Outputs
    /\ OutputIDs \in [Alerts -> SUBSET Outputs]
    /\ {RetryDuration, RefreshInterval, Timeout, MaxChanges, MaxTime} \subseteq Nat
    /\ {MinDelay, BatchSize, MaxReceives} \subseteq Nat \ {0}
    /\ MaxDelay \in Nat /\ MinDelay < MaxDelay

VARIABLES
    now,
    outputs,       \* the outputs that are configured
    lastExisted,   \* when each output was last configured, -1 for never
    changes,       \* how often the users changed them
    messages,      \* every message of the queue: <<[alert, ids, at, receives, state], ...>>
    container,     \* [pc, started, batch, todo, pending, again, failed, cache, at]
    delivered,     \* how often each output confirmed that it took each alert
    redelivered,   \* how often a message of each alert became visible again
    transient,     \* alert and output whose last attempt is to be retried
    expired,       \* alerts given up for their age
    unconfigured,  \* alert and output given up since the cache lacked the output
    unsent         \* alerts that could not be put back on the queue

vars == <<now, outputs, lastExisted, changes, messages, container, delivered,
          redelivered, transient, expired, unconfigured, unsent>>
config == <<outputs, lastExisted, changes>>
history == <<delivered, redelivered, transient, expired, unconfigured, unsent>>

Pairs == Alerts \X Outputs
MessageRecords ==
    [alert : Alerts, ids : SUBSET Outputs, at : 0..(RetryDuration + Timeout + MaxDelay - 1),
     receives : 0..MaxReceives,
     state : {"queued", "held", "deleted", "dlq"}]
Dispatches == [alert : Alerts, ids : SUBSET Outputs]
Caches == [filled : BOOLEAN, outputs : SUBSET Outputs, at : 0..MaxTime]
NoCache == [filled |-> FALSE, outputs |-> {}, at |-> 0]
Idle(cache) ==
    [pc |-> "idle", started |-> 0, batch |-> <<>>, todo |-> <<>>, pending |-> {}, again |-> {},
     failed |-> <<>>, cache |-> cache, at |-> 0]

TypeOK ==
    /\ now \in 0..MaxTime
    /\ outputs \subseteq Outputs
    /\ lastExisted \in [Outputs -> -1..MaxTime]
    /\ changes \in 0..MaxChanges
    /\ messages \in Seq(MessageRecords)
    /\ container \in [Containers ->
          [pc : {"idle", "dispatch", "fetched", "send", "retry"}, started : 0..MaxTime, batch : Seq(Nat),
           todo : Seq(Dispatches), pending : SUBSET Outputs, again : SUBSET Outputs,
           failed : Seq(Dispatches), cache : Caches, at : 0..MaxTime]]
    /\ delivered \in [Pairs -> Nat]
    /\ redelivered \in [Alerts -> Nat]
    /\ transient \subseteq Pairs
    /\ expired \subseteq Alerts
    /\ unconfigured \subseteq Pairs
    /\ unsent \subseteq Alerts

Arrivals == CHOOSE s \in [1..Cardinality(Alerts) -> Alerts] :
                \A a \in Alerts : \E m \in DOMAIN s : s[m] = a
Message(d, at) == [alert |-> d.alert, ids |-> d.ids, at |-> at, receives |-> 0, state |-> "queued"]

Init ==
    /\ now = 0 /\ outputs = Outputs /\ lastExisted = [o \in Outputs |-> 0] /\ changes = 0
    /\ messages = [m \in DOMAIN Arrivals |->
                     Message([alert |-> Arrivals[m], ids |-> OutputIDs[Arrivals[m]]], 0)]
    /\ container = [c \in Containers |-> Idle(NoCache)]
    /\ delivered = [p \in Pairs |-> 0] /\ redelivered = [a \in Alerts |-> 0]
    /\ transient = {} /\ expired = {} /\ unconfigured = {} /\ unsent = {}

-----------------------------------------------------------------------------
(* The queue and lambdaHandler.                                            *)

Visible(m) == messages[m].state = "queued" /\ messages[m].at <= now
               /\ messages[m].receives < MaxReceives

\* The element of a set of numbers that j - 1 others are below.
Nth(S, j) == CHOOSE i \in S : Cardinality({k \in S : k <= i}) = j

\* The alerts that decode and validate, in the order of the batch.
ValidAlerts(batch) ==
    LET valid == {i \in DOMAIN batch : messages[batch[i]].alert \notin Invalid}
        record(j) == messages[batch[Nth(valid, j)]]
    IN  [j \in 1..Cardinality(valid) |-> [alert |-> record(j).alert, ids |-> record(j).ids]]

\* The loop over the alerts goes on with the next, or retries what failed.
Following(todo) == IF todo = <<>> THEN "retry" ELSE "dispatch"

\* An invocation starts with a batch of visible messages in any order.
Receive(c, batch) ==
    LET todo == ValidAlerts(batch)
    IN  /\ container[c].pc = "idle"
        /\ \A i \in DOMAIN batch : Visible(batch[i])
        /\ \A i, j \in DOMAIN batch : batch[i] = batch[j] => i = j
        /\ messages' = [m \in DOMAIN messages |->
                          IF \E i \in DOMAIN batch : batch[i] = m
                          THEN [messages[m] EXCEPT !.state = "held", !.receives = @ + 1]
                          ELSE messages[m]]
        /\ container' = [container EXCEPT ![c] =
                          [Idle(@.cache) EXCEPT !.pc = Following(todo), !.started = now,
                                                !.batch = batch, !.todo = todo]]
        /\ UNCHANGED <<now, config, history>>

\* The messages of a failed invocation are visible again, or go to the
\* dead-letter queue.
GiveBack(c) ==
    LET held == {container[c].batch[i] : i \in DOMAIN container[c].batch}
    IN  /\ messages' = [m \in DOMAIN messages |->
                          IF m \in held
                          THEN [messages[m] EXCEPT
                                  !.state = IF messages[m].receives = MaxReceives THEN "dlq" ELSE "queued"]
                          ELSE messages[m]]
        /\ redelivered' = [a \in Alerts |->
              redelivered[a] + Cardinality({m \in held : messages[m].alert = a})]

\* The Lambda times out or panics.  Its next environment has no cache.
Crash(c) ==
    /\ container[c].pc # "idle"
    /\ GiveBack(c)
    /\ container' = [container EXCEPT ![c] = Idle(NoCache)]
    /\ UNCHANGED <<now, config, delivered, transient, expired, unconfigured, unsent>>

-----------------------------------------------------------------------------
(* HandleAlerts and dispatch.                                              *)

\* Mutant of Stale: the outputs are fetched once for each environment.
Stale_Never(cache) == ~cache.filled

Stale(cache) == ~cache.filled \/ now - cache.at > RefreshInterval

\* getAlertOutputs: the outputs of the alert that the cache holds.
Wanted(d) == IF d.ids = {} THEN DefaultOutputs ELSE d.ids
AlertOutputs(d, cache) == cache.outputs \cap Wanted(d)

\* Mutant of NeedsRetry: the outputs of the alert stay as they were.
NeedsRetry_AllOutputs(d, again) == d

\* alert.OutputIDs is replaced by the outputs that failed.
NeedsRetry(d, again) == [d EXCEPT !.ids = again]

\* Mutant of FinishAlert: an alert is retried whatever its age.
FinishAlert_NeverExpires(c, k, done, d) ==
    LET u == container[c]
        rest == Tail(u.todo)
    IN  /\ container' = [container EXCEPT ![c] =
              [u EXCEPT !.pc = Following(rest), !.todo = rest, !.cache = k,
                        !.pending = {}, !.again = {},
                        !.failed = IF done THEN @ ELSE Append(@, d)]]
        /\ UNCHANGED expired

\* dispatch returned: the alert is done, or it is retried unless it is too old.
FinishAlert(c, k, done, d) ==
    LET u == container[c]
        rest == Tail(u.todo)
        retried == ~done /\ now <= RetryDuration
    IN  /\ container' = [container EXCEPT ![c] =
              [u EXCEPT !.pc = Following(rest), !.todo = rest, !.cache = k,
                        !.pending = {}, !.again = {},
                        !.failed = IF retried THEN Append(@, d) ELSE @]]
        /\ expired' = IF ~done /\ ~retried THEN expired \cup {d.alert} ELSE expired

\* A stale cache is replaced: the outputs API is invoked.
FetchOutputs(c) ==
    /\ container[c].pc = "dispatch" /\ Stale(container[c].cache)
    /\ container' = [container EXCEPT ![c].pc = "fetched",
                                      ![c].cache = [NoCache EXCEPT !.outputs = outputs]]
    /\ UNCHANGED <<now, config, messages, history>>

\* The cache is stamped with the time of the answer and the outputs are looked
\* up in it; a goroutine for each of them is started.
Dispatch(c) ==
    LET u == container[c]
        d == Head(u.todo)
        k == IF u.pc = "fetched" THEN [u.cache EXCEPT !.filled = TRUE, !.at = now] ELSE u.cache
        targets == AlertOutputs(d, k)
    IN  /\ u.pc = "fetched" \/ (u.pc = "dispatch" /\ ~Stale(u.cache))
        /\ \/ /\ targets # {}
              /\ container' = [container EXCEPT ![c] =
                    [u EXCEPT !.pc = "send", !.pending = targets, !.cache = k, !.at = now]]
              /\ UNCHANGED expired
           \/ targets = {} /\ FinishAlert(c, k, TRUE, d)
        /\ unconfigured' = unconfigured \cup {<<d.alert, o>> : o \in Wanted(d) \ targets}
        /\ UNCHANGED <<now, config, messages, delivered, redelivered, transient, unsent>>

\* The outputs API cannot be invoked.
DispatchFails(c) ==
    /\ container[c].pc = "dispatch" /\ Stale(container[c].cache)
    /\ FinishAlert(c, container[c].cache, FALSE, Head(container[c].todo))
    /\ UNCHANGED <<now, config, messages, delivered, redelivered, transient, unconfigured, unsent>>

\* One goroutine reports what became of its output.  After the last one
\* dispatch returns.
Status(c, o, again) ==
    LET u == container[c]
        d == Head(u.todo)
    IN  /\ u.pc = "send" /\ o \in u.pending
        /\ \/ /\ u.pending # {o}
              /\ container' = [container EXCEPT ![c].pending = @ \ {o}, ![c].again = again]
              /\ UNCHANGED expired
           \/ /\ u.pending = {o}
              /\ FinishAlert(c, u.cache, again = {},
                             IF again = {} THEN d ELSE NeedsRetry(d, again))
        /\ UNCHANGED <<now, config, messages, redelivered, unconfigured, unsent>>

SendSucceeds(c, o) ==
    LET p == <<Head(container[c].todo).alert, o>>
    IN  /\ Status(c, o, container[c].again)
        /\ delivered' = [delivered EXCEPT ![p] = @ + 1]
        /\ transient' = transient \ {p}

\* A permanent error, an unsupported type or a panic: no retry.
SendFailsForGood(c, o) ==
    /\ Status(c, o, container[c].again)
    /\ transient' = transient \ {<<Head(container[c].todo).alert, o>>}
    /\ UNCHANGED delivered

\* Mutant of SendFailsForNow: needsRetry is taken for Permanent.
SendFailsForNow_NoRetry(c, o) ==
    /\ Status(c, o, container[c].again)
    /\ transient' = transient \cup {<<Head(container[c].todo).alert, o>>}
    /\ UNCHANGED delivered

\* A transient error.  The output may have taken the alert although its client
\* got no answer: that is not confirmed, and the retry sends the alert again.
SendFailsForNow(c, o) ==
    /\ Status(c, o, container[c].again \cup {o})
    /\ transient' = transient \cup {<<Head(container[c].todo).alert, o>>}
    /\ UNCHANGED delivered

-----------------------------------------------------------------------------
(* retry and the end of the invocation.                                    *)

\* The error of lambdaHandler is the one of the last record.
Fails(batch) == messages[batch[Len(batch)]].alert \in Invalid

\* retry puts the failed alerts on the queue, each with its own delay.  When
\* SendMessageBatch fails, some of them may be there and the rest are not;
\* the error is logged.  Then the invocation returns.
FinishInvocation(c, accepted, delay) ==
    LET u == container[c]
        returned == {u.batch[i] : i \in DOMAIN u.batch}
        retries == [j \in 1..Cardinality(accepted) |->
            LET i == Nth(accepted, j) IN Message(u.failed[i], now + delay[i])]
        settled == [m \in DOMAIN messages |->
            IF m \notin returned THEN messages[m]
            ELSE [messages[m] EXCEPT !.state =
                    CASE ~Fails(u.batch) -> "deleted"
                      [] Fails(u.batch) /\ messages[m].receives = MaxReceives -> "dlq"
                      [] OTHER -> "queued"]]
    IN  /\ u.pc = "retry"
        /\ messages' = settled \o retries
        /\ redelivered' = [a \in Alerts |-> redelivered[a] +
              IF Fails(u.batch) THEN Cardinality({m \in returned : messages[m].alert = a}) ELSE 0]
        /\ unsent' = unsent \cup {u.failed[i].alert : i \in DOMAIN u.failed \ accepted}
        /\ container' = [container EXCEPT ![c] = Idle(u.cache)]
        /\ UNCHANGED <<now, config, delivered, transient, expired, unconfigured>>

-----------------------------------------------------------------------------
ChangeOutput(o) ==
    /\ changes < MaxChanges
    /\ outputs' = IF o \in outputs THEN outputs \ {o} ELSE outputs \cup {o}
    /\ lastExisted' = [lastExisted EXCEPT ![o] = now]
    /\ changes' = changes + 1
    /\ UNCHANGED <<now, messages, container, history>>

Tick ==
    /\ now < MaxTime
    /\ \A c \in Containers : container[c].pc # "idle" => now < container[c].started + Timeout
    /\ now' = now + 1
    /\ lastExisted' = [o \in Outputs |-> IF o \in outputs THEN now + 1 ELSE lastExisted[o]]
    /\ UNCHANGED <<outputs, changes, messages, container, history>>

Batches == UNION {[1..n -> DOMAIN messages] : n \in 1..BatchSize}

Advance(c) ==
    \/ FetchOutputs(c) \/ Dispatch(c) \/ DispatchFails(c)
    \/ \E o \in Outputs : SendSucceeds(c, o) \/ SendFailsForGood(c, o) \/ SendFailsForNow(c, o)
    \/ \E accepted \in SUBSET (DOMAIN container[c].failed) :
          \E delay \in [accepted -> MinDelay..(MaxDelay - 1)] : FinishInvocation(c, accepted, delay)

Next ==
    \/ \E c \in Containers : (\E batch \in Batches : Receive(c, batch)) \/ Advance(c) \/ Crash(c)
    \/ \E o \in Outputs : ChangeOutput(o)
    \/ Tick

Spec == Init /\ [][Next]_vars

\* A running Lambda goes on running, the queue offers what is visible, and
\* time passes.
FairSpec ==
    /\ Spec
    /\ \A c \in Containers : WF_vars(Advance(c))
    /\ WF_vars(\E c \in Containers, batch \in Batches : Receive(c, batch))
    /\ WF_vars(Tick)

-----------------------------------------------------------------------------
\* The alert and output a message or an invocation still has to serve.
InQueue(a, o) ==
    \E m \in DOMAIN messages :
        /\ messages[m].alert = a /\ messages[m].state # "deleted"
        /\ messages[m].ids = {} \/ o \in messages[m].ids
InFlight(a, o) ==
    \E c \in Containers : \E i \in DOMAIN container[c].failed :
        container[c].failed[i].alert = a
          /\ (container[c].failed[i].ids = {} \/ o \in container[c].failed[i].ids)

\* A delivery that failed for now is not forgotten: the alert is in the queue
\* for that output, or the alert was given up for its age, or the output left
\* the cache, or the retry could not be sent.
RetriesKept ==
    \A a \in Alerts, o \in Outputs :
        <<a, o>> \in transient =>
            \/ InQueue(a, o) \/ InFlight(a, o)
            \/ a \in expired \/ <<a, o>> \in unconfigured \/ a \in unsent

\* An output confirms an alert once, and once more for each time a message of the
\* alert became visible again: retries by themselves never repeat a delivery
\* that is known to have succeeded.  (One that arrived and was reported as a
\* transient error is repeated, since needsRetry sees the error only.)
DeliveredOnce == \A a \in Alerts, o \in Outputs : delivered[<<a, o>>] <= 1 + redelivered[a]

\* An output that was deleted gets no alert dispatched later than the refresh
\* interval, whichever environment dispatches it, and the time the outputs API
\* took to answer: the cache is stamped after the answer.
DeletedOutputsExpire ==
    \A c \in Containers : \A o \in container[c].pending :
        container[c].at - lastExisted[o] <= RefreshInterval + Timeout

\* Every message is deleted or ends in the dead-letter queue in the end: the
\* retries of an alert come to an end.
MessagesSettle ==
    <>[](\A m \in DOMAIN messages : messages[m].state \in {"deleted", "dlq"})
=============================================================================
