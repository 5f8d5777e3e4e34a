------------------------- MODULE SourceIntegration -------------------------
(***************************************************************************)
(* internal/core/source_api: the table of source integrations and the      *)
(* policy of the log processor's queue, under concurrent calls of          *)
(* PutIntegration, DeleteIntegration and UpdateIntegrationSettings; and    *)
(* internal/compliance/snapshot_scheduler, which asks for the scans of the *)
(* accounts in the table.                                                  *)
(*                                                                         *)
(* Every request to DynamoDB or SQS is a step of its own, and can fail; a  *)
(* write that fails for the caller may have taken effect.  Scans ask for   *)
(* one page and for eventual consistency: they may lack rows, or show ones *)
(* that are gone.  A GetItem that returns an older row is one that ran     *)
(* earlier: the call then overlaps the one that changed the row.           *)
(* The queue policy is the set of accounts it has a statement for: the Sid *)
(* of a statement names its account, and none is appended twice.  Inputs   *)
(* that are refused before anything is written change nothing.             *)
(***************************************************************************)
EXTENDS Naturals, FiniteSets

CONSTANTS
    Callers,   \* concurrent invocations of the API
    Accounts,
    Labels,
    Sources,   \* what the callers put: <<type, account, label>>
    Renames,   \* the labels they give to sources afterwards
    MaxIds     \* bound: integrations ever put

Types == {"aws-s3", "aws-scan"}

ASSUME SourceAssumption ==
    /\ Sources \subseteq Types \X Accounts \X Labels /\ Renames \subseteq Labels
    /\ MaxIds \in Nat /\ "none" \notin Accounts \cup Labels

VARIABLES
    kind,     \* the type the sources of this behaviour have: the sources of two
              \* types have nothing to do with one another
    table,    \* the rows, by integration ID
    policy,   \* the accounts that may send to the log processor's queue
    puts,     \* IDs given out
    call,     \* what each caller is doing
    requests, \* integrations with scan requests in the pollers' queue
    suspect,  \* history: accounts that overlapping calls, a failed undo, a
              \* killed call, a lost write of the policy, an incomplete scan or
              \* a write that took effect unanswered may have left wrong
    raced     \* history: accounts two puts of which overlapped, a put of which
              \* was not shown a row it conflicts with, or a source of which got
              \* another label

vars == <<kind, table, policy, puts, call, requests, suspect, raced>>
history == <<suspect, raced>>

Ids == 1..MaxIds
NoRow == [type |-> "none", account |-> "none", label |-> "none",
          status |-> "none", ended |-> "never"]

\* An item of the table.  "bare" is one that has none of the attributes of a
\* put.  ScanStatus and LastScanEndTime: never, within the interval, or before.
Rows == [type : Types \cup {"bare", "none"}, account : Accounts \cup {"none"},
         label : Labels \cup {"none"}, status : {"none", "scanning", "ok"},
         ended : {"never", "recent", "old"}]

\* alone (history): no other call for the account overlapped this one so far.
Idle == [op |-> "none", pc |-> "idle", id |-> 0, type |-> "none", account |-> "none",
         label |-> "none", seen |-> {}, added |-> FALSE, alone |-> FALSE]

TypeOK ==
    /\ kind \in Types
    /\ table \in [Ids -> Rows]
    /\ policy \subseteq Accounts
    /\ puts \in 0..MaxIds
    /\ call \in [Callers ->
          [op : {"none", "put", "delete", "update"},
           pc : {"idle", "add", "addSet", "addAgain", "store", "scan",
                 "siblings", "remove", "removeSet", "drop", "update"},
           id : Ids \cup {0}, type : Types \cup {"none"},
           account : Accounts \cup {"none"}, label : Labels \cup {"none"},
           seen : SUBSET Accounts, added : BOOLEAN, alone : BOOLEAN]]
    /\ requests \subseteq Ids
    /\ suspect \subseteq Accounts /\ raced \subseteq Accounts

Init ==
    /\ kind \in Types
    /\ table = [id \in Ids |-> NoRow]
    /\ policy = {} /\ puts = 0 /\ requests = {}
    /\ call = [c \in Callers |-> Idle]
    /\ suspect = {} /\ raced = {}

-----------------------------------------------------------------------------
Stored == {id \in Ids : table[id] # NoRow}
LogSources(a) == {id \in Stored : table[id].type = "aws-s3" /\ table[id].account = a}
Busy(a) == {c \in Callers : call[c].account = a}

\* A call for an account starts, beside those that are under way.
Begin(c, new) ==
    LET others == Busy(new.account)
    IN  /\ call[c] = Idle
        /\ call' = [d \in Callers |->
              IF d = c THEN [new EXCEPT !.alone = others = {}]
              ELSE IF d \in others THEN [call[d] EXCEPT !.alone = FALSE] ELSE call[d]]
        /\ suspect' = suspect \cup {a \in {new.account} : others # {}}

\* A call goes on, or returns.
Continue(c, next) == call' = [call EXCEPT ![c] = next]
At(c, pc) == [call[c] EXCEPT !.pc = pc]

\* A call goes on with something it did not learn: nobody vouches for its
\* account any more.
Doubt(c, pc) ==
    /\ Continue(c, [At(c, pc) EXCEPT !.alone = FALSE])
    /\ suspect' = suspect \cup {call[c].account}

\* A call that no other one overlapped has done all it had to do: whatever
\* happened to its account before is repaired.
Repaired(c) == {a \in {call[c].account} : call[c].alone}

-----------------------------------------------------------------------------
(* PutIntegration.                                                         *)

\* Two sources the code does not allow to exist together.
Conflict(r, type, account, label) ==
    /\ r.type = type /\ r.account = account
    /\ type = "aws-scan" \/ r.label = label

\* Mutant of AlreadyExists: labels are compared for every type.
AlreadyExists_LabelOnly(listed, type, account, label) ==
    \E id \in listed : /\ table[id].type = type /\ table[id].account = account
                       /\ table[id].label = label

\* integrationAlreadyExists, over the rows that the scan lists.
AlreadyExists(listed, type, account, label) ==
    \E id \in listed : Conflict(table[id], type, account, label)

\* A row without type and account: its nil pointers are dereferenced.
ListPanics(listed) == \E id \in listed : table[id].type = "bare"

\* The input was evaluated and is not among the rows listed.  (Rows that are
\* listed though they are gone only refuse more inputs.)
Put(c, type, account, label, listed) ==
    /\ ~ListPanics(listed) /\ ~AlreadyExists(listed, type, account, label)
    /\ Begin(c, [Idle EXCEPT !.op = "put", !.type = type, !.account = account,
                             !.label = label,
                             !.pc = IF type = "aws-s3" THEN "add" ELSE "store"])
    /\ raced' = raced \cup {a \in {account} :
          \/ \E d \in Busy(a) : call[d].op = "put"
          \/ \E id \in Stored \ listed : Conflict(table[id], type, a, label)}
    /\ UNCHANGED <<table, policy, puts, requests>>

\* db.PutSourceIntegration writes a row with a new ID.
PutItem(c) ==
    /\ call[c].pc = "store" /\ puts < MaxIds
    /\ puts' = puts + 1
    /\ table' = [table EXCEPT ![puts + 1] =
          [NoRow EXCEPT !.type = call[c].type, !.account = call[c].account,
                        !.label = call[c].label]]

\* A scan is asked for next, unless the source is an aws-s3 one or SkipScanQueue
\* is set.
Store(c) ==
    /\ PutItem(c)
    /\ \/ /\ call[c].type = "aws-scan"
          /\ Continue(c, [At(c, "scan") EXCEPT !.id = puts + 1])
       \/ Continue(c, Idle)
    /\ suspect' = suspect \ Repaired(c)
    /\ UNCHANGED <<policy, requests, raced>>

\* The row cannot be written: the deferred function takes the statement back
\* if this call added it.
StoreFails(c) ==
    /\ call[c].pc = "store"
    /\ Continue(c, IF call[c].added THEN At(c, "remove") ELSE Idle)
    /\ UNCHANGED <<table, policy, puts, requests, history>>

\* The row was written, but the answer was an error: the deferred function takes
\* away the statement that the new source needs.  (A call that did not add the
\* statement just returns, as in Store.)
StoreUnanswered(c) ==
    /\ PutItem(c) /\ call[c].added
    /\ Doubt(c, "remove")
    /\ UNCHANGED <<policy, requests, raced>>

\* ScanAllResources for the new integration.  When it fails the caller is told
\* that the source was not added; the row stays.
ScanNew(c) ==
    /\ call[c].pc = "scan"
    /\ requests' \in {requests, requests \cup {call[c].id}}
    /\ Continue(c, Idle)
    /\ UNCHANGED <<table, policy, puts, history>>

-----------------------------------------------------------------------------
(* AddPermissionToLogProcessorQueue: for PutIntegration, and to undo what  *)
(* DeleteIntegration removed.                                              *)

\* Where AddPermission returns to.
AfterAdd(p, err) ==
    IF p.op = "delete" THEN Idle
    ELSE IF ~err THEN [p EXCEPT !.pc = "store", !.seen = {}]
    ELSE IF p.added THEN [p EXCEPT !.pc = "remove", !.seen = {}] ELSE Idle

\* An undo fails: "SQS is missing permissions that have to be added manually",
\* or has additional ones.
UndoFails(c, undo) == suspect \cup {a \in {call[c].account} : call[c].op = undo}

\* getQueuePolicy, and the search for the account's statement.
AddGet(c) ==
    /\ call[c].pc = "add"
    /\ \/ /\ Continue(c, IF call[c].account \in policy THEN AfterAdd(call[c], FALSE)
                         ELSE [At(c, "addSet") EXCEPT !.seen = policy])
          /\ UNCHANGED suspect
       \/ /\ Continue(c, AfterAdd(call[c], TRUE))
          /\ suspect' = UndoFails(c, "delete")
    /\ UNCHANGED <<table, policy, puts, requests, raced>>

\* setQueuePolicy replaces the whole policy: what other calls wrote since this
\* one read it is lost.
SetPolicy(c, new, next) ==
    LET lost == ((policy \ call[c].seen) \cup (call[c].seen \ policy)) \ {call[c].account}
    IN  /\ policy' = new
        /\ suspect' = suspect \cup lost
        /\ call' = [d \in Callers |->
              IF d = c THEN next
              ELSE IF call[d].account \in lost THEN [call[d] EXCEPT !.alone = FALSE]
              ELSE call[d]]

\* The first of two identical requests.  Its error is only logged.
AddSet(c) ==
    LET new == call[c].seen \cup {call[c].account}
        next == [At(c, "addAgain") EXCEPT !.added = TRUE]
    IN  /\ call[c].pc = "addSet"
        /\ \/ SetPolicy(c, new, [next EXCEPT !.seen = new])
           \/ Continue(c, next) /\ UNCHANGED <<policy, suspect>>
        /\ UNCHANGED <<table, puts, requests, raced>>

\* The second one, whose error AddPermission returns.
AddAgain(c) ==
    /\ call[c].pc = "addAgain"
    /\ \/ SetPolicy(c, call[c].seen \cup {call[c].account}, AfterAdd(call[c], FALSE))
       \/ /\ Continue(c, AfterAdd(call[c], TRUE))
          /\ suspect' = UndoFails(c, "delete")
          /\ UNCHANGED policy
    /\ UNCHANGED <<table, puts, requests, raced>>

-----------------------------------------------------------------------------
(* RemovePermissionFromLogProcessorQueue: for DeleteIntegration, and to    *)
(* undo what PutIntegration added.                                         *)

\* Where RemovePermission returns to.  added: the deferred function of this
\* call has something to undo.
AfterRemove(p, err) ==
    IF p.op = "put" \/ err THEN Idle ELSE [p EXCEPT !.pc = "drop", !.added = TRUE, !.seen = {}]

\* getQueuePolicy, and the search for the account's statement.
RemoveGet(c) ==
    /\ call[c].pc = "remove"
    /\ \/ /\ Continue(c, IF call[c].account \notin policy THEN AfterRemove(call[c], FALSE)
                         ELSE [At(c, "removeSet") EXCEPT !.seen = policy])
          /\ UNCHANGED suspect
       \/ /\ Continue(c, AfterRemove(call[c], TRUE))
          /\ suspect' = UndoFails(c, "put")
    /\ UNCHANGED <<table, policy, puts, requests, raced>>

RemoveSet(c) ==
    /\ call[c].pc = "removeSet"
    /\ \/ SetPolicy(c, call[c].seen \ {call[c].account}, AfterRemove(call[c], FALSE))
       \/ /\ Continue(c, AfterRemove(call[c], TRUE))
          /\ suspect' = UndoFails(c, "put")
          /\ UNCHANGED policy
    /\ UNCHANGED <<table, puts, requests, raced>>

-----------------------------------------------------------------------------
(* DeleteIntegration.                                                      *)

\* GetIntegration.  A row that does not exist is refused, one without a type
\* ends the call in a panic.
Delete(c, id) ==
    /\ table[id].type \in Types
    /\ Begin(c, [Idle EXCEPT !.op = "delete", !.id = id, !.account = table[id].account,
                             !.pc = IF table[id].type = "aws-s3" THEN "siblings" ELSE "drop"])
    /\ UNCHANGED <<table, policy, puts, requests, raced>>

LastSource(c) == LogSources(call[c].account) \ {call[c].id} = {}

\* Mutant of Siblings: the sources of the account are not looked for.
Siblings_Skipped(c) ==
    /\ call[c].pc = "siblings"
    /\ Continue(c, At(c, "remove"))
    /\ UNCHANGED <<table, policy, puts, requests, history>>

\* The account keeps its statement while it has another source of logs.
Siblings(c) ==
    /\ call[c].pc = "siblings"
    /\ Continue(c, At(c, IF LastSource(c) THEN "remove" ELSE "drop"))
    /\ UNCHANGED <<table, policy, puts, requests, history>>

\* The scan lacks the account's other sources, or shows one that is gone.
SiblingsMisled(c) ==
    /\ call[c].pc = "siblings"
    /\ Doubt(c, IF LastSource(c) THEN "drop" ELSE "remove")
    /\ UNCHANGED <<table, policy, puts, requests, raced>>

\* DeleteIntegrationItem, on condition that the row exists.
DeleteItem(c) ==
    /\ call[c].pc = "drop" /\ call[c].id \in Stored
    /\ table' = [table EXCEPT ![call[c].id] = NoRow]

Drop(c) ==
    /\ DeleteItem(c)
    /\ Continue(c, Idle)
    /\ suspect' = suspect \ {a \in Repaired(c) : call[c].added}
    /\ UNCHANGED <<policy, puts, requests, raced>>

\* The request fails, or its condition does: the statement is put back if this
\* call saw it removed.
DropFails(c) ==
    /\ call[c].pc = "drop"
    /\ Continue(c, IF call[c].added THEN At(c, "add") ELSE Idle)
    /\ UNCHANGED <<table, policy, puts, requests, history>>

\* The row was deleted, but the answer was an error (or the client's retry found
\* no row): the statement is put back for a source that is gone.
DropUnanswered(c) ==
    /\ DeleteItem(c) /\ call[c].added
    /\ Doubt(c, "add")
    /\ UNCHANGED <<policy, puts, requests, raced>>

-----------------------------------------------------------------------------
(* UpdateIntegrationSettings.                                              *)

\* GetIntegration and the evaluation of the new settings.  A row that does not
\* exist, or has no account, ends the call in a panic.
Update(c, id, label) ==
    /\ table[id].type \in Types
    /\ Begin(c, [Idle EXCEPT !.op = "update", !.id = id, !.pc = "update",
                             !.account = table[id].account, !.label = label])
    /\ UNCHANGED <<table, policy, puts, requests, raced>>

\* UpdateItem has no condition: the attributes are written to a row that is no
\* longer there as well.
Upsert(row, new) == IF row = NoRow THEN [new EXCEPT !.type = "bare"] ELSE new

UpdateItem(c) ==
    LET id == call[c].id
    IN  /\ call[c].pc = "update"
        /\ table' = [table EXCEPT ![id] = Upsert(@, [@ EXCEPT !.label = call[c].label])]
        /\ raced' = raced \cup {call[c].account}
        /\ Continue(c, Idle)
        /\ UNCHANGED <<policy, puts, requests, suspect>>

\* The scan of DeleteIntegration or the update fails: the call returns.
RequestFails(c) ==
    /\ call[c].pc \in {"siblings", "update"}
    /\ Continue(c, Idle)
    /\ UNCHANGED <<table, policy, puts, requests, history>>

\* The invocation is killed: deferred functions do not run.
Killed(c) ==
    /\ call[c] # Idle
    /\ Continue(c, Idle)
    /\ suspect' = suspect \cup {call[c].account}
    /\ UNCHANGED <<table, policy, puts, requests, raced>>

-----------------------------------------------------------------------------
(* The snapshot scheduler, and the scans it asks for.                      *)

ScanSources == {id \in Stored : table[id].type = "aws-scan"}

ScanIntervalElapsed(r) == r.ended \in {"never", "old"}
ScanIsNotOngoing(r) == r.status # "scanning"

\* Mutant of ScanIsStuck: a scan that was started is never given up.
ScanIsStuck_Never(r) == FALSE

ScanIsStuck(r) == r.ended # "never" /\ r.status = "scanning" /\ ScanIntervalElapsed(r)

ToScan == {id \in ScanSources :
              \/ ScanIntervalElapsed(table[id]) /\ ScanIsNotOngoing(table[id])
              \/ ScanIsStuck(table[id])}

\* PollAndIssueNewScans.  When ScanAllResources fails, some of the requests may
\* have been sent.
PollAndIssueNewScans ==
    /\ ToScan # {}
    /\ requests' = requests \cup ToScan
    /\ UNCHANGED <<table, policy, puts, call, history>>
PollFails ==
    /\ \E sent \in SUBSET ToScan : requests' = requests \cup sent
    /\ UNCHANGED <<table, policy, puts, call, history>>

\* UpdateIntegrationLastScanStart and UpdateIntegrationLastScanEnd, called by
\* whoever scans an integration that was asked for.
LastScanStart(id) ==
    /\ id \in requests
    /\ requests' = requests \ {id}
    /\ table' = [table EXCEPT ![id] = Upsert(@, [@ EXCEPT !.status = "scanning"])]
    /\ UNCHANGED <<policy, puts, call, history>>
LastScanEnd(id) ==
    /\ table[id].status = "scanning"
    /\ table' = [table EXCEPT ![id].status = "ok", ![id].ended = "recent"]
    /\ UNCHANGED <<policy, puts, call, requests, history>>

\* ScanIntervalMins pass.
IntervalElapses(id) ==
    /\ table[id].ended = "recent"
    /\ table' = [table EXCEPT ![id].ended = "old"]
    /\ UNCHANGED <<policy, puts, call, requests, history>>

-----------------------------------------------------------------------------
CallStep(c) ==
    \/ Store(c) \/ StoreFails(c) \/ StoreUnanswered(c) \/ ScanNew(c)
    \/ AddGet(c) \/ AddSet(c) \/ AddAgain(c) \/ RemoveGet(c) \/ RemoveSet(c)
    \/ Siblings(c) \/ SiblingsMisled(c) \/ Drop(c) \/ DropFails(c) \/ DropUnanswered(c)
    \/ UpdateItem(c) \/ RequestFails(c)

Next ==
    /\ kind' = kind
    /\ \/ \E c \in Callers :
            \/ \E s \in Sources, listed \in SUBSET Stored :
                 s[1] = kind /\ Put(c, s[1], s[2], s[3], listed)
            \/ \E id \in Ids : Delete(c, id) \/ \E l \in Renames : Update(c, id, l)
            \/ CallStep(c) \/ Killed(c)
       \/ PollAndIssueNewScans \/ PollFails
       \/ \E id \in Ids : LastScanStart(id) \/ LastScanEnd(id) \/ IntervalElapses(id)

Spec == Init /\ [][Next]_vars

\* The scheduler runs on a timer, its requests are not refused for ever and the
\* one page it lists has the integrations in it in the end; time passes.
FairSpec ==
    /\ Spec
    /\ WF_vars(PollAndIssueNewScans /\ kind' = kind)
    /\ \A id \in Ids : WF_vars(IntervalElapses(id) /\ kind' = kind)

-----------------------------------------------------------------------------
\* The log processor's queue accepts notifications of an account exactly while
\* it has a source of logs: however the requests of a call are refused,
\* PutIntegration and DeleteIntegration undo what they did to the queue policy.
\* Only calls for one account that overlap, a policy written over a newer one, a
\* failed undo, a killed call, a scan that is not up to date, and a row written
\* or deleted by a request that reports an error can leave an account otherwise,
\* and only until the next call that adds a source of it, or deletes its last
\* one, succeeds.
PermissionMatches ==
    \A a \in Accounts \ suspect :
        Busy(a) = {} => (a \in policy <=> LogSources(a) # {})

\* "We can only have one cloudsec integration for each account" and "Log
\* sources for same account need to have different labels": so it is unless two
\* puts for the account overlapped, a put of it was not shown the row it
\* conflicts with, or a source of it got another label.
SourcesAreDistinct ==
    \A id1, id2 \in Stored :
        /\ table[id1].type \in Types /\ table[id1].account \notin raced /\ id1 # id2
        => ~Conflict(table[id1], table[id2].type, table[id2].account, table[id2].label)

\* An integration is asked to be scanned again and again, though PutIntegration
\* or the scheduler failed to ask, or a scan never reported its end; except that
\* nobody asks for it again when its very first scan never ends.
FirstScanHangs(id) == table[id].status = "scanning" /\ table[id].ended = "never"
ScansRecur ==
    \A id \in Ids : (id \in ScanSources) ~>
        (id \in requests \/ id \notin ScanSources \/ FirstScanHangs(id))
=============================================================================
