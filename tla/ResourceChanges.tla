-------------------------- MODULE ResourceChanges --------------------------
(***************************************************************************)
(* How a change in a monitored account gets into the resources table:      *)
(* internal/compliance/aws_event_processor turns CloudTrail events into    *)
(* deletes and scan requests, snapshot_poller reads the resource, and      *)
(* resources_api stores it, queues it for analysis or marks it deleted.    *)
(*                                                                         *)
(* One resource of one registered account is modelled: the change map, the *)
(* rows and the status entries of two resources never meet.  Its state is  *)
(* the number of the last change made to it.  The event of a change comes  *)
(* at once through CloudWatch Events (CWE), while the account has it set   *)
(* up, and later in an S3 object of the log processor.  Events that do not *)
(* touch the resource, failed ones and malformed records change nothing.   *)
(***************************************************************************)
EXTENDS Naturals, Sequences, FiniteSets, SequencesExt

CONSTANTS
    Containers,  \* Lambda containers of the event processor, with their caches
    Pollers,     \* concurrent invocations of the poller
    MaxChanges,  \* bound: the number of the last change made to the resource
    MaxBatch,    \* bound: records in one batch of the event processor
    MaxScans,    \* bound: scan requests waiting at a time
    MaxFaults    \* bound: requests that fail

ASSUME ChangesAssumption == {MaxChanges, MaxBatch, MaxScans, MaxFaults} \subseteq Nat

VARIABLES
    world,       \* the resource in the account: [exists, ver, time]
    cweOn,       \* the account sends CloudWatch Events
    queue,       \* the event processor's queue: a set of events
    proc,        \* the event processor: [pc, batch, change, cwe] of each container
    scans,       \* requests in the pollers' queue
    poll,        \* the pollers: [pc, ver]
    row,         \* resources table: [ver, deleted], ver 0 for no row
    analyses,    \* the resource is queued for the resource processor
    status,      \* the resource has entries in the compliance status table
    faults,      \* requests that have failed
    newest,      \* history: the newest change of the batches that are done
    excused      \* history: something happened that can leave the table wrong

vars == <<world, cweOn, queue, proc, scans, poll, row, analyses,
          status, faults, newest, excused>>

Changes == 0..MaxChanges
\* time: eventTime, in seconds; twin: there is a CWE event of the same change.
Events == [ver : Changes, time : Changes, delete : BOOLEAN, s3 : BOOLEAN, twin : BOOLEAN]
NoChange == [ver |-> 0, time |-> 0, delete |-> FALSE, s3 |-> FALSE, twin |-> FALSE]

TypeOK ==
    /\ world \in [exists : BOOLEAN, ver : Changes, time : Changes]
    /\ cweOn \in BOOLEAN
    /\ queue \subseteq Events
    /\ proc \in [Containers -> [pc : {"idle", "delete", "status", "send"},
                                batch : SUBSET Events, change : Events,
                                cwe : BOOLEAN]]
    /\ \A c \in Containers :
          proc[c].pc = "idle" => proc[c].batch = {} /\ proc[c].change = NoChange
    /\ scans \in 0..MaxScans
    /\ poll \in [Pollers -> [pc : {"idle", "poll", "add", "enqueue"}, ver : Changes]]
    /\ row \in [ver : Changes, deleted : BOOLEAN]
    /\ analyses \in BOOLEAN /\ status \in BOOLEAN
    /\ faults \in 0..MaxFaults
    /\ newest \in Changes /\ excused \in BOOLEAN

Init ==
    /\ cweOn \in BOOLEAN
    /\ \E exists, stored \in BOOLEAN :
          /\ world = [exists |-> exists, ver |-> 1, time |-> 1]
          /\ row = [ver |-> IF exists /\ stored THEN 1 ELSE 0, deleted |-> FALSE]
          /\ status = (exists /\ stored)
          /\ scans = IF exists /\ ~stored THEN 1 ELSE 0
    /\ queue = {}
    /\ proc = [c \in Containers |-> [pc |-> "idle", batch |-> {}, change |-> NoChange,
                                     cwe |-> FALSE]]
    /\ poll = [p \in Pollers |-> [pc |-> "idle", ver |-> 0]]
    /\ analyses = FALSE
    /\ faults = 0 /\ newest = 0 /\ excused = FALSE

-----------------------------------------------------------------------------
(* The account.                                                            *)

\* The resource is created, modified or deleted.  Two changes can fall into one
\* second.  The CWE event is queued at once.
Change(exists) ==
    /\ world.ver < MaxChanges /\ (exists \/ world.exists)
    /\ \E t \in {world.time, world.time + 1} :
          LET new == [exists |-> exists, ver |-> world.ver + 1, time |-> t]
              event(s3) == [ver |-> new.ver, time |-> t, delete |-> ~exists,
                            s3 |-> s3, twin |-> cweOn]
          IN  /\ world' = new
              /\ queue' = queue \cup {event(TRUE)} \cup {e \in {event(FALSE)} : cweOn}
    /\ UNCHANGED <<cweOn, proc, scans, poll, row, analyses, status,
                   faults, newest, excused>>

\* The account's CWE configuration is removed.
CweRemoved ==
    /\ cweOn /\ cweOn' = FALSE
    /\ UNCHANGED <<world, queue, proc, scans, poll, row, analyses,
                   status, faults, newest, excused>>

\* Mutant of ScheduledScan: an account is scanned once.
ScheduledScan_Once ==
    /\ scans = 0 /\ row.ver = 0
    /\ scans' = 1
    /\ UNCHANGED <<world, cweOn, queue, proc, poll, row, analyses, status, faults,
                   newest, excused>>

\* The snapshot scheduler asks for a scan of everything.
ScheduledScan ==
    /\ scans = 0
    /\ scans' = 1
    /\ UNCHANGED <<world, cweOn, queue, proc, poll, row, analyses,
                   status, faults, newest, excused>>

-----------------------------------------------------------------------------
(* aws_event_processor: Handle.                                            *)

\* Mutant of Merge: the last record of the batch wins.
Merge_LastWins(entry, e) == e

\* "the newest event for this resource we've seen so far"
Merge(entry, e) == IF entry = NoChange \/ e.time > entry.time THEN e ELSE entry

\* One record of an account in the cache.  handleCloudTrail remembers that the
\* account sends CWE, handleS3Download skips what should have come that way.
HandleRecord(p, e) ==
    [p EXCEPT !.cwe = @ \/ ~e.s3, !.change = IF e.s3 /\ p.cwe THEN @ ELSE Merge(@, e)]

\* One record of an account that is not: it is dropped.
DropRecord(p, e) == [p EXCEPT !.cwe = @ \/ ~e.s3]

\* The records that are not skipped for CWE.
Handled(records, cwe) ==
    {records[i] : i \in {n \in DOMAIN records :
        records[n].s3 => ~cwe /\ \A m \in 1..n : records[m].s3}}

\* The order of the changes is lost: two of them in one second, a batch of older
\* ones after one that is done, or two batches at a time.
Reordered(handled) ==
    \/ \E e, f \in handled : e.ver # f.ver /\ e.time = f.time
    \/ handled # {} /\ \A e \in handled : e.ver < newest
    \/ \E d \in Containers : proc[d].pc # "idle"

\* The step that follows the last record.
Submit(p) ==
    [p EXCEPT !.pc = IF p.change = NoChange THEN "idle"
                     ELSE IF p.change.delete THEN "delete" ELSE "send",
              !.batch = IF p.change = NoChange THEN {} ELSE @]

\* The records are handled in their order.  The account is in the cache, unless
\* it was added within refreshInterval of the last refreshAccounts.  An event
\* that is skipped for CWE, or dropped, may have come no other way.
Receive(c, records) ==
    LET batch == ToSet(records)
        handled == Handled(records, proc[c].cwe)
    IN  /\ proc[c].pc = "idle"
        /\ \E cached \in BOOLEAN :
              LET start == [proc[c] EXCEPT !.batch = batch]
                  end == IF cached THEN FoldLeft(HandleRecord, start, records)
                         ELSE FoldLeft(DropRecord, start, records)
                  missed == ~cached \/ \E e \in batch \ handled : ~e.twin
              IN  /\ proc' = [proc EXCEPT ![c] = Submit(end)]
                  /\ excused' = (excused \/ missed \/ Reordered(handled))
        /\ queue' = queue \ batch
        /\ newest' = IF excused' THEN 0 ELSE newest
        /\ UNCHANGED <<world, cweOn, scans, poll, row, analyses, status, faults>>

\* cweAccountTimeout passes, or the container is replaced by a new one.
CacheExpires(c) ==
    /\ proc[c].pc = "idle"
    /\ proc[c].cwe
    /\ proc' = [proc EXCEPT ![c].cwe = FALSE]
    /\ UNCHANGED <<world, cweOn, queue, scans, poll, row, analyses,
                   status, faults, newest, excused>>

\* Mutant of Finished: the map of changes outlives the invocation.
Finished_KeepsChanges(c) == [proc[c] EXCEPT !.pc = "idle", !.batch = {}]

Finished(c) == [proc[c] EXCEPT !.pc = "idle", !.batch = {}, !.change = NoChange]

\* submitChanges returns, with nothing left to send or with the error of a
\* request: then the whole batch is received again.
Succeed(c) ==
    /\ proc' = [proc EXCEPT ![c] = Finished(c)]
    /\ newest' = IF excused' THEN 0 ELSE Max({newest, proc[c].change.ver})
    /\ UNCHANGED <<queue, faults>>
Fail(c) ==
    /\ faults < MaxFaults /\ faults' = faults + 1
    /\ proc' = [proc EXCEPT ![c] = Finished(c)]
    /\ queue' = queue \cup proc[c].batch
    /\ UNCHANGED newest

\* The request for this resource fails.
SubmitFails(c) ==
    /\ proc[c].pc # "idle"
    /\ Fail(c)
    /\ UNCHANGED <<world, cweOn, scans, poll, row, analyses, status, excused>>

\* The scan request is sent.  Those of the other resources, in the same call,
\* may fail.
SendScan(c) ==
    /\ proc[c].pc = "send" /\ scans < MaxScans
    /\ scans' = scans + 1
    /\ UNCHANGED <<world, cweOn, poll, row, analyses, status, excused>>
    /\ Succeed(c) \/ Fail(c)

-----------------------------------------------------------------------------
(* resources_api: DeleteResources.                                         *)

\* What has been read of the resource and is still to be stored or analysed.
Underway == analyses \/ \E p \in Pollers : poll[p].pc \in {"add", "enqueue"}

\* doUpdate marks the row, if there is one.
DeleteRow(c) ==
    /\ proc[c].pc = "delete"
    /\ row' = [row EXCEPT !.deleted = row.ver # 0]
    /\ proc' = [proc EXCEPT ![c].pc = "status"]
    /\ excused' = (excused \/ Underway)
    /\ UNCHANGED <<world, cweOn, queue, scans, poll, analyses, status,
                   faults, newest>>

\* The compliance API deletes the status entries of the resource.  The scan
\* requests of the other resources, which come after the deletes, may fail.
DeleteStatus(c) ==
    /\ proc[c].pc = "status"
    /\ status' = FALSE
    /\ excused' = (excused \/ Underway)
    /\ UNCHANGED <<world, cweOn, scans, poll, row, analyses>>
    /\ Succeed(c) \/ Fail(c)

-----------------------------------------------------------------------------
(* snapshot_poller: Handle, and resources_api: AddResources.               *)

ReceiveScan(p) ==
    /\ poll[p].pc = "idle" /\ scans > 0
    /\ scans' = scans - 1
    /\ poll' = [poll EXCEPT ![p].pc = "poll"]
    /\ UNCHANGED <<world, cweOn, queue, proc, row, analyses, status,
                   faults, newest, excused>>

\* Poll reads the resource, alone or with all of its type.  One that does not
\* exist gives nothing to store.
PollResource(p) ==
    /\ poll[p].pc = "poll"
    /\ poll' = [poll EXCEPT ![p] = IF world.exists THEN [pc |-> "add", ver |-> world.ver]
                                   ELSE [pc |-> "idle", ver |-> 0]]
    /\ excused' = (excused \/ Underway
                      \/ \E c \in Containers : proc[c].pc \in {"delete", "status"})
    /\ UNCHANGED <<world, cweOn, queue, proc, scans, row, analyses,
                   status, faults, newest>>

\* "poll failed" is logged, or Poll finds no region to scan and returns nothing:
\* the request is gone with its message.
PollFails(p) ==
    /\ poll[p].pc = "poll" /\ faults < MaxFaults
    /\ poll' = [poll EXCEPT ![p] = [pc |-> "idle", ver |-> 0]]
    /\ excused' = TRUE
    /\ faults' = faults + 1
    /\ UNCHANGED <<world, cweOn, queue, proc, scans, row, analyses,
                   status, newest>>

\* AddResources: BatchWriteItem replaces the row, whatever it was.
AddResource(p) ==
    /\ poll[p].pc = "add"
    /\ row' = [ver |-> poll[p].ver, deleted |-> FALSE]
    /\ poll' = [poll EXCEPT ![p].pc = "enqueue"]
    /\ UNCHANGED <<world, cweOn, queue, proc, scans, analyses, status,
                   faults, newest, excused>>

\* AddResources: SendMessageBatch queues the resource for analysis.
QueueResource(p) ==
    /\ poll[p].pc = "enqueue"
    /\ analyses' = TRUE
    /\ poll' = [poll EXCEPT ![p] = [pc |-> "idle", ver |-> 0]]
    /\ UNCHANGED <<world, cweOn, queue, proc, scans, row, status,
                   faults, newest, excused>>

\* Either request of AddResources fails: the message is received again.
AddFails(p) ==
    /\ poll[p].pc \in {"add", "enqueue"} /\ faults < MaxFaults /\ scans < MaxScans
    /\ scans' = scans + 1
    /\ poll' = [poll EXCEPT ![p] = [pc |-> "idle", ver |-> 0]]
    /\ faults' = faults + 1
    /\ UNCHANGED <<world, cweOn, queue, proc, row, analyses, status,
                   newest, excused>>

\* The resource processor evaluates the resource it was sent, and sets its
\* status.
Analyse ==
    /\ analyses /\ analyses' = FALSE
    /\ status' = TRUE
    /\ UNCHANGED <<world, cweOn, queue, proc, scans, poll, row, faults,
                   newest, excused>>

-----------------------------------------------------------------------------
Batches == UNION {[1..n -> queue] : n \in 1..MaxBatch}
EventProcessor(c) ==
    \/ proc[c].pc = "idle" /\ \E records \in Batches : Receive(c, records)
    \/ DeleteRow(c) \/ DeleteStatus(c) \/ SendScan(c)
Poller(p) == ReceiveScan(p) \/ PollResource(p) \/ AddResource(p) \/ QueueResource(p)

Next ==
    \/ \E exists \in BOOLEAN : Change(exists)
    \/ CweRemoved \/ ScheduledScan
    \/ \E c \in Containers : EventProcessor(c) \/ CacheExpires(c) \/ SubmitFails(c)
    \/ \E p \in Pollers : Poller(p) \/ PollFails(p) \/ AddFails(p)
    \/ Analyse

Spec == Init /\ [][Next]_vars

\* The queues deliver their messages, the scheduler runs daily, and only some
\* requests fail.
FairSpec ==
    /\ Spec
    /\ WF_vars(ScheduledScan)
    /\ \A c \in Containers : WF_vars(EventProcessor(c))
    /\ \A p \in Pollers : WF_vars(Poller(p))
    /\ WF_vars(Analyse)

-----------------------------------------------------------------------------
Settled ==
    /\ queue = {} /\ scans = 0 /\ ~analyses
    /\ \A c \in Containers : proc[c].pc = "idle"
    /\ \A p \in Pollers : poll[p].pc = "idle"
Current == row = [ver |-> world.ver, deleted |-> FALSE] /\ status

\* When every event, scan request and analysis is done, the table shows the
\* resource as it is, and a deleted resource is marked and has no status left,
\* though requests failed and batches were repeated that had deleted or scanned
\* the resource already.  Excused are an event dropped for a stale cache, a poll
\* that failed, work on two changes that overlapped, a batch of changes older
\* than those of one that is done, and two changes in one second in one batch.
TableMatches ==
    Settled /\ ~excused =>
        IF world.exists THEN Current ELSE (row.ver = 0 \/ row.deleted) /\ ~status

\* Whatever went wrong, the scheduled scans bring a resource that exists back to
\* its true state, row and status, once its account stops changing it.
ScansRepair == <>[](world.exists => Current)
=============================================================================
