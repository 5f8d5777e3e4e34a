---------------------------- MODULE PolicyStatus ----------------------------
(***************************************************************************)
(* internal/core/analysis_api and internal/compliance/compliance_api: one  *)
(* policy and its compliance status, one row for each resource.            *)
(*                                                                         *)
(* Callers create, modify, upload, suppress and delete the policy.  Each   *)
(* call first changes the policy's item and then brings the status into    *)
(* line: it deletes rows, rewrites their metadata or queues the policy for *)
(* analysis.  Analyzers (resource_processor) write the rows, from the      *)
(* queued copy of the policy or, in the daily scan of a resource, from     *)
(* their cache of the enabled policies.  No call locks anything: what the  *)
(* calls and the analyzers leave behind when they overlap or fail is       *)
(* repaired by the daily scan and by the expiry of rows.                   *)
(*                                                                         *)
(* Severity takes the same path as the suppressions and is left out; what  *)
(* a policy says of a resource is stood for by the body that said it.  The *)
(* analyzers and compliance-api match suppression patterns differently.    *)
(***************************************************************************)
EXTENDS Naturals, FiniteSets, TLC

CONSTANTS
    Analyzers,
    TypeOf,       \* the type of each resource
    Patterns,     \* suppression patterns
    Matches,      \* <<pattern, resource>>: a * of the pattern is any text
    PathMatches,  \* <<pattern, resource>>: a * of the pattern ends at a slash
    Versions,     \* what the users write: items of the policy
    MaxCalls,     \* bound: calls of the API
    MaxFaults     \* bound: failures, lost scans and stale reads

Callers == 1..MaxCalls
Resources == DOMAIN TypeOf
Types == {TypeOf[r] : r \in Resources}
Lifetime == 2     \* statusLifetime (50 hours) in days

\* tableItem: no resource types stand for all of them; body 0 for no item.
Items == [enabled : BOOLEAN, body : Nat, types : SUBSET Types, suppressions : SUBSET Patterns]
NoItem == [enabled |-> FALSE, body |-> 0, types |-> {}, suppressions |-> {}]
Verdicts == [body : Nat, suppressed : BOOLEAN]
Rows == [body : Nat, suppressed : BOOLEAN, age : 0..Lifetime]
ForSome(f, S) == DOMAIN f \subseteq Resources /\ \A r \in DOMAIN f : f[r] \in S

ASSUME StatusAssumption ==
    /\ Versions \subseteq Items /\ NoItem \notin Versions
    /\ Matches \cup PathMatches \subseteq Patterns \X Resources
    /\ {MaxCalls, MaxFaults} \subseteq Nat

VARIABLES
    policy,    \* the item of the policy in the analysis table
    rows,      \* compliance table: the rows of the policy by resource
    lag,       \* the rows before the last write, which the index may still show
    queue,     \* policies in the resources queue
    scanned,   \* resources whose scan of the day is over
    cache,     \* policyCache of the analyzers: {} or the item it was loaded from
    caller,    \* [pc, old, new, types, seen]
    analyzer,  \* [pc, source, entries]
    calls,     \* the calls made so far: 1..calls
    faults,
    suspect    \* history: calls overlapped, something failed or was stale

vars == <<policy, rows, lag, queue, scanned, cache, caller, analyzer, calls, faults, suspect>>

Idle == [pc |-> "idle", old |-> NoItem, new |-> NoItem, types |-> {}, seen |-> << >>]
Waiting == [pc |-> "idle", source |-> {}, entries |-> << >>]
Busy == (\E c \in Callers : caller[c].pc # "idle") \/ (\E w \in Analyzers : analyzer[w].pc # "idle")
AtRest == ~Busy /\ queue = {}

TypeOK ==
    /\ policy \in Items /\ ForSome(rows, Rows) /\ ForSome(lag, Rows)
    /\ queue \subseteq Versions /\ scanned \subseteq Resources
    /\ cache \subseteq Items /\ Cardinality(cache) <= 1
    /\ \A c \in Callers :
        /\ caller[c].pc \in {"idle", "write", "delete", "deleting", "queue", "metadata", "rewriting"}
        /\ caller[c].old \in Items /\ caller[c].new \in Items
        /\ caller[c].types \subseteq Types /\ ForSome(caller[c].seen, Rows)
    /\ \A w \in Analyzers :
        /\ analyzer[w].pc \in {"idle", "policy", "resource"}
        /\ ForSome(analyzer[w].entries, Verdicts)
    /\ calls \in 0..MaxCalls /\ faults \in 0..MaxFaults /\ suspect \in BOOLEAN

-----------------------------------------------------------------------------
(* The status a policy asks for.                                           *)

Applies(p, r) == p.enabled /\ (p.types = {} \/ TypeOf[r] \in p.types)
isSuppressed(r, p) == \E s \in p.suppressions : <<s, r>> \in Matches
isIgnored(r, p) == \E s \in p.suppressions : <<s, r>> \in PathMatches
buildStatus(p, r) == [body |-> p.body, suppressed |-> isSuppressed(r, p)]
Analysis(p, rs) == [r \in {r \in rs : Applies(p, r)} |-> buildStatus(p, r)]
Restrict(f, S) == [x \in DOMAIN f \cap S |-> f[x]]

\* The index may still show what a write replaces, as long as a stale read is
\* left.
IndexLags ==
    lag' = IF faults' = MaxFaults THEN << >> ELSE IF rows' = rows THEN lag ELSE rows

\* The rows are those of the policy as it is.
Consistent ==
    [r \in DOMAIN rows |-> [body |-> rows[r].body, suppressed |-> rows[r].suppressed]]
        = Analysis(policy, Resources)

-----------------------------------------------------------------------------
(* analysis-api.  writeItem reads the item, uploads the body, puts the     *)
(* item, and then updates the status from what it read.                    *)

\* The call goes on at pc with its new item, or returns.
At(call, pc) == IF pc = "idle" THEN Idle ELSE [Idle EXCEPT !.pc = pc, !.new = call.new]
Return(c) == caller' = [caller EXCEPT ![c] = Idle]

Begin(c, record) ==
    /\ c = calls + 1
    /\ calls' = c
    /\ suspect' = (suspect \/ ~AtRest)
    /\ caller' = [caller EXCEPT ![c] = record]

\* writeItem up to s3Upload, for CreatePolicy (exists = {FALSE}), ModifyPolicy
\* ({TRUE}) and BulkUpload (either).
WriteItem(c, new, exists) ==
    /\ (policy # NoItem) \in exists
    /\ Begin(c, [Idle EXCEPT !.pc = "write", !.old = policy, !.new = new])
    /\ UNCHANGED <<policy, rows, lag, queue, scanned, cache, analyzer, faults>>

\* The resource types whose rows go: none when the policy now applies to all.
DeletedTypes(old, new) ==
    IF old # NoItem /\ new.types # {} THEN old.types \ new.types ELSE {}

\* Mutant: only another body is taken for a change of the verdicts.
Requeue_BodyOnly(old, new) == old.body # new.body

\* The verdicts may change: newly enabled, another body or more types.
Requeue(old, new) ==
    \/ ~old.enabled
    \/ old.body # new.body
    \/ old.types # {} /\ new.types = {}
    \/ new.types \ old.types # {}

\* What is left of updateComplianceStatus after rows were deleted.
AfterDelete(old, new) ==
    CASE ~new.enabled -> "idle"
      [] new.enabled /\ Requeue(old, new) -> "queue"
      [] OTHER -> IF old.suppressions # new.suppressions THEN "metadata" ELSE "idle"

updateComplianceStatus(old, new) ==
    IF (~new.enabled /\ old.enabled) \/ (new.enabled /\ DeletedTypes(old, new) # {})
    THEN "delete" ELSE AfterDelete(old, new)

\* dynamoPut, which replaces whatever is there, and the choice of the update.
\* Rows of types the policy no longer applies to stay when it applied to all.
PutItem(c) ==
    LET old == caller[c].old
        new == caller[c].new
        pc == updateComplianceStatus(old, new) IN
    /\ caller[c].pc = "write"
    /\ policy' = new
    /\ caller' = [caller EXCEPT ![c] =
                    IF pc # "delete" THEN At(@, pc)
                    ELSE [@ EXCEPT !.pc = pc,
                                   !.types = IF new.enabled THEN DeletedTypes(old, new) ELSE {}]]
    /\ suspect' = (suspect \/ (old.enabled /\ new.enabled /\ old.types = {} /\ new.types # {}))
    /\ UNCHANGED <<rows, lag, queue, scanned, cache, analyzer, calls, faults>>

\* addSuppressions: a conditional ADD, then UpdateMetadata with the new item.
Suppress(c, s) ==
    LET new == [policy EXCEPT !.suppressions = @ \cup {s}] IN
    /\ Begin(c, IF policy = NoItem THEN Idle ELSE [Idle EXCEPT !.pc = "metadata", !.new = new])
    /\ policy' = IF policy = NoItem THEN NoItem ELSE new
    /\ UNCHANGED <<rows, lag, queue, scanned, cache, analyzer, faults>>

\* DeletePolicies: the item, then (after the S3 object) the status.
DeletePolicies(c) ==
    /\ Begin(c, [Idle EXCEPT !.pc = "delete"])
    /\ policy' = NoItem
    /\ UNCHANGED <<rows, lag, queue, scanned, cache, analyzer, faults>>

\* queuePolicy.
QueuePolicy(c) ==
    /\ caller[c].pc = "queue"
    /\ queue' = queue \cup {caller[c].new}
    /\ Return(c)
    /\ UNCHANGED <<policy, rows, lag, scanned, cache, analyzer, calls, faults, suspect>>

-----------------------------------------------------------------------------
(* compliance-api.  The rows of a policy are found through a global index, *)
(* which may lag behind the table; no types stand for all of them.         *)

OfTypes(table, types) == {r \in DOMAIN table : types = {} \/ TypeOf[r] \in types}

\* What the index shows when it lags for the resources in stale: rows may be
\* missing, have their old contents or be deleted already.
Index(stale) == Restrict(lag, stale) @@ Restrict(rows, Resources \ stale)

Query(c, shown, result, pc, mismatch) ==
    /\ shown = rows \/ faults < MaxFaults
    /\ faults' = IF shown = rows THEN faults ELSE faults + 1
    /\ suspect' = (suspect \/ shown # rows \/ mismatch)
    /\ caller' = [caller EXCEPT ![c] = [@ EXCEPT !.pc = pc, !.seen = result]]
    /\ UNCHANGED <<policy, rows, queue, scanned, cache, analyzer, calls>>
    /\ IndexLags

\* policyDeleteEntries reads the keys of the rows.
Key == [body |-> 0, suppressed |-> FALSE, age |-> 0]
QueryDeletes(c, stale) ==
    LET shown == Index(stale) IN
    /\ caller[c].pc = "delete"
    /\ Query(c, shown, [r \in OfTypes(shown, caller[c].types) |-> Key], "deleting", FALSE)

\* The rows rs of the batch are deleted.
Deleted(rs) == Restrict(rows, Resources \ rs)

\* DeleteStatus writes the batch; the caller goes on with what is left.
DeleteStatus(c) ==
    /\ caller[c].pc = "deleting"
    /\ rows' = Deleted(DOMAIN caller[c].seen)
    /\ caller' = [caller EXCEPT ![c] = At(@, AfterDelete(@.old, @.new))]
    /\ UNCHANGED <<policy, queue, scanned, cache, analyzer, calls, faults, suspect>>
    /\ IndexLags

\* itemsToUpdate: the rows whose suppression differs from the caller's item.
ItemsToUpdate(c, table) ==
    {r \in DOMAIN table : table[r].suppressed # isIgnored(r, caller[c].new)}
QueryUpdates(c, stale) ==
    LET shown == Index(stale) IN
    /\ caller[c].pc = "metadata"
    /\ Query(c, shown, Restrict(shown, ItemsToUpdate(c, shown)), "rewriting",
             \E r \in DOMAIN rows : isIgnored(r, caller[c].new) # isSuppressed(r, caller[c].new))

\* Mutant: the rows are put with the fields of the request only.
Rewritten_FieldsOnly(c, rs) ==
    [r \in rs |-> [suppressed |-> ~caller[c].seen[r].suppressed, age |-> 0]] @@ rows

\* The rows rs of the batch are put: whole, as they were read, over whatever is
\* there by now.
Rewritten(c, rs) == [r \in rs |-> [caller[c].seen[r] EXCEPT !.suppressed = ~@]] @@ rows

UpdateMetadata(c) ==
    /\ caller[c].pc = "rewriting"
    /\ rows' = Rewritten(c, DOMAIN caller[c].seen)
    /\ Return(c)
    /\ UNCHANGED <<policy, queue, scanned, cache, analyzer, calls, faults, suspect>>
    /\ IndexLags

\* A request fails or the call's Lambda is stopped, after some pages of a batch
\* write: after the put of the item this is logged or returned, and nothing is
\* undone.
CallFails(c, rs) ==
    /\ caller[c].pc # "idle" /\ faults < MaxFaults
    /\ rs \subseteq DOMAIN caller[c].seen
    /\ faults' = faults + 1 /\ suspect' = TRUE
    /\ rows' = IF caller[c].pc = "rewriting" THEN Rewritten(c, rs) ELSE Deleted(rs)
    /\ Return(c)
    /\ UNCHANGED <<policy, queue, scanned, cache, analyzer, calls>>
    /\ IndexLags

-----------------------------------------------------------------------------
(* resource_processor.                                                     *)

Evaluate(w, pc, source, entries, stale) ==
    /\ analyzer[w].pc = "idle"
    /\ analyzer' = [analyzer EXCEPT ![w] = [pc |-> pc, source |-> source, entries |-> entries]]
    /\ suspect' = (suspect \/ Busy \/ stale)
    /\ UNCHANGED <<policy, rows, lag, queue, scanned, caller, calls, faults>>

\* A queued policy is evaluated as it was queued.
analyzeUpdatedPolicy(w, p) ==
    /\ p \in queue
    /\ Evaluate(w, "policy", {p}, Analysis(p, Resources), FALSE)
    /\ UNCHANGED cache

\* getPolicies: the cached policies while the cache entry lives.
getPolicies == IF cache = {} THEN policy ELSE CHOOSE p \in cache : TRUE

\* The daily scan of a resource, analyzed with the policies of getPolicies.
AnalyzeResource(w, r) ==
    /\ r \notin scanned
    /\ Evaluate(w, "resource", {r}, Analysis(getPolicies, {r}), getPolicies # policy)
    /\ cache' = {getPolicies}

\* deliver: SetStatus writes rows and renews their expiry.
Written(a, rs) ==
    [r \in rs |-> [body |-> a.entries[r].body, suppressed |-> a.entries[r].suppressed, age |-> 0]]
        @@ rows

\* All rows are written, and the message is deleted.
SetStatus(w) ==
    LET a == analyzer[w] IN
    /\ a.pc # "idle"
    /\ rows' = Written(a, DOMAIN a.entries)
    /\ queue' = IF a.pc = "policy" THEN queue \ a.source ELSE queue
    /\ scanned' = IF a.pc = "resource" THEN scanned \cup a.source ELSE scanned
    /\ analyzer' = [analyzer EXCEPT ![w] = Waiting]
    /\ UNCHANGED <<policy, cache, caller, calls, faults, suspect>>
    /\ IndexLags

\* The analysis, a page of SetStatus or the alerts that follow it fail: the rows
\* rs are written, and the message returns to the queue.
AnalysisFails(w, rs) ==
    /\ analyzer[w].pc # "idle" /\ faults < MaxFaults
    /\ rs \subseteq DOMAIN analyzer[w].entries
    /\ faults' = faults + 1
    /\ rows' = Written(analyzer[w], rs)
    /\ analyzer' = [analyzer EXCEPT ![w] = Waiting]
    /\ UNCHANGED <<policy, queue, scanned, cache, caller, calls, suspect>>
    /\ IndexLags

\* Mutant: the cache is kept once it is filled.
CacheExpires_Kept == FALSE

\* cacheDuration is over.
CacheExpires ==
    /\ cache # {}
    /\ cache' = {}
    /\ UNCHANGED <<policy, rows, lag, queue, scanned, caller, analyzer, calls, faults, suspect>>

-----------------------------------------------------------------------------
(* Time.  A day is longer than a call or an invocation, not than the wait  *)
(* of a message in the queue.                                              *)

\* The scan of the day of a resource is lost (its poll fails).
LoseScan(r) ==
    /\ r \notin scanned /\ faults < MaxFaults
    /\ \A w \in Analyzers : analyzer[w].pc = "resource" => r \notin analyzer[w].source
    /\ faults' = faults + 1
    /\ scanned' = scanned \cup {r}
    /\ UNCHANGED <<policy, rows, queue, cache, caller, analyzer, calls, suspect>>
    /\ IndexLags

\* By the next day the index shows the table.
NewDay ==
    /\ scanned = Resources /\ ~Busy
    /\ scanned' = {}
    /\ rows' = [r \in DOMAIN rows |-> [rows[r] EXCEPT !.age = IF @ < Lifetime THEN @ + 1 ELSE @]]
    /\ UNCHANGED <<policy, queue, cache, caller, analyzer, calls, faults, suspect>>
    /\ lag' = IF faults = MaxFaults THEN << >> ELSE rows'

\* DynamoDB deletes a row two hours into its third day: by then the scan of
\* that day is over.
ExpireRow(r) ==
    /\ r \in DOMAIN rows /\ rows[r].age = Lifetime /\ r \in scanned
    /\ rows' = Restrict(rows, Resources \ {r})
    /\ UNCHANGED <<policy, queue, scanned, cache, caller, analyzer, calls, faults, suspect>>
    /\ IndexLags

-----------------------------------------------------------------------------
Init ==
    /\ policy \in Versions \cup {NoItem}
    /\ rows = [r \in DOMAIN Analysis(policy, Resources) |->
                [body |-> policy.body, suppressed |-> isSuppressed(r, policy), age |-> 0]]
    /\ lag = rows /\ queue = {} /\ scanned = {} /\ cache = {}
    /\ caller = [c \in Callers |-> Idle] /\ analyzer = [w \in Analyzers |-> Waiting]
    /\ calls = 0 /\ faults = 0 /\ suspect = FALSE

Request(c) ==
    \/ \E new \in Versions, exists \in {{TRUE}, {FALSE}, BOOLEAN} : WriteItem(c, new, exists)
    \/ \E s \in Patterns : Suppress(c, s)
    \/ DeletePolicies(c)

Advance(c) ==
    \/ PutItem(c) \/ QueuePolicy(c) \/ DeleteStatus(c) \/ UpdateMetadata(c)
    \/ \E stale \in SUBSET Resources : QueryDeletes(c, stale) \/ QueryUpdates(c, stale)

Analyze(w) == (\E p \in queue : analyzeUpdatedPolicy(w, p)) \/ (\E r \in Resources : AnalyzeResource(w, r))

Next ==
    \/ \E c \in Callers : Request(c) \/ Advance(c)
    \/ \E w \in Analyzers : Analyze(w) \/ SetStatus(w)
    \/ \E c \in Callers, rs \in SUBSET Resources : CallFails(c, rs)
    \/ \E w \in Analyzers, rs \in SUBSET Resources : AnalysisFails(w, rs)
    \/ \E r \in Resources : LoseScan(r) \/ ExpireRow(r)
    \/ CacheExpires \/ NewDay

Spec == Init /\ [][Next]_vars

\* Invocations run to their end, resources are scanned daily, and the cache
\* expires.  Queued policies do not wait for ever behind the scans, and
\* DynamoDB deletes expired rows on one of the days that follow.
FairSpec ==
    /\ Spec
    /\ WF_vars(\E c \in Callers : Advance(c))
    /\ WF_vars(\E w \in Analyzers : SetStatus(w))
    /\ SF_vars(\E w \in Analyzers, p \in Versions : analyzeUpdatedPolicy(w, p))
    /\ WF_vars(\E w \in Analyzers, r \in Resources : AnalyzeResource(w, r))
    /\ SF_vars(\E r \in Resources : ExpireRow(r))
    /\ WF_vars(CacheExpires)
    /\ WF_vars(NewDay)

-----------------------------------------------------------------------------
\* Calls one at a time, each followed by the analysis it asked for, with
\* nothing failing and no stale cache, leave exactly the rows the policy asks
\* for, whatever the old and the new item are, and expiry takes none of them
\* although a scan was lost.  Two cases are excepted: rows stay behind when a
\* policy that applied to all types is narrowed to some (PutItem), and a
\* pattern that isIgnored and isSuppressed take differently (QueryUpdates).
StatusAtRest == AtRest /\ ~suspect => Consistent

\* However calls and analyses overlapped or failed, the status is that of the
\* policy in the end ("handles edge cases where deleted policies/resources
\* aren't fully cleared", "will still be updated on the next daily scan").
StatusConverges == <>[]Consistent
=============================================================================
