----------------------------- MODULE PagedBatch -----------------------------
(***************************************************************************)
(* pkg/awsbatch: one call of dynamodbbatch.BatchWriteItem,                 *)
(* kinesisbatch.PutRecords or s3batch.DeleteObjects.  The three cut their  *)
(* items into pages of a fixed number and send each page with backoff,     *)
(* retrying what the service refused.  They differ in the page's limit and *)
(* in the errors they retry: DeleteObjects retries none.                   *)
(*                                                                         *)
(* An item is its index in the call.                                       *)
(***************************************************************************)
EXTENDS Naturals, FiniteSets

CONSTANTS
    maxItems,   \* maxBatchWriteItems (25), maxRecords (500) or maxObjects (1000)
    MaxTotal    \* bound: the most items of a call

ASSUME PageAssumption == maxItems \in Nat \ {0} /\ MaxTotal \in Nat

VARIABLES
    kind,        \* the function called
    total,       \* how many items it is given
    next,        \* how many of them went into pages so far
    request,     \* the items of the request being sent
    count,       \* successCount (deleted in s3batch)
    stored,      \* the items the service has taken
    step,        \* "page", "send" or "returned"
    outcome      \* "running", "nil" or "error"

pagedVars == <<kind, total, next, request, count, stored, step, outcome>>

Kinds == {"BatchWriteItem", "PutRecords", "DeleteObjects"}
Items == 1..total

PagedTypeOK ==
    /\ kind \in Kinds /\ total \in Nat /\ next \in 0..total
    /\ request \subseteq Items /\ stored \subseteq Items /\ count \in Nat
    /\ step \in {"page", "send", "returned"}
    /\ outcome \in {"running", "nil", "error"}

PagedInit ==
    /\ kind \in Kinds /\ total \in 0..MaxTotal
    /\ next = 0 /\ request = {} /\ count = 0 /\ stored = {}
    /\ step = "page" /\ outcome = "running"

-----------------------------------------------------------------------------
\* Mutant of PageEnd: the page takes one item too many.
PageEnd_OffByOne == IF next + maxItems + 1 >= total THEN total ELSE next + maxItems + 1

\* Where the next page ends: whatever is left, or a full page.
PageEnd == IF next + maxItems >= total THEN total ELSE next + maxItems

\* The loop over the items cuts a page.
TakePage ==
    /\ step = "page" /\ next < total
    /\ next' = PageEnd
    /\ request' = (next + 1)..PageEnd
    /\ step' = "send"
    /\ UNCHANGED <<kind, total, count, stored, outcome>>

\* No item is left.
ReturnNil ==
    /\ step = "page" /\ next = total
    /\ step' = "returned" /\ outcome' = "nil"
    /\ UNCHANGED <<kind, total, next, request, count, stored>>

\* Every item of the request is taken.
SendAll ==
    /\ step = "send"
    /\ stored' = stored \cup request
    /\ count' = count + Cardinality(request)
    /\ request' = {} /\ step' = "page"
    /\ UNCHANGED <<kind, total, next, outcome>>

\* Mutant of RetryOrGiveUp: the error of the last attempt is shadowed.
RetryOrGiveUp_Shadowed ==
    \/ step' = "send" /\ outcome' = outcome
    \/ step' = "returned" /\ outcome' = "nil"

\* backoff.Retry after an attempt that failed: again, or give up when
\* maxElapsedTime is over.
RetryOrGiveUp ==
    \/ step' = "send" /\ outcome' = outcome
    \/ step' = "returned" /\ outcome' = "error"

\* What send() leaves in the input: the items the response names as failed.
Unprocessed(failed) == {j \in request : j \in failed}

\* The response names some items as failed: the others are counted.
SendSome ==
    /\ step = "send"
    /\ \E failed \in (SUBSET request) \ {{}} :
        /\ stored' = stored \cup (request \ failed)
        /\ count' = (count + Cardinality(request)) - Cardinality(failed)
        /\ request' = Unprocessed(failed)
    /\ RetryOrGiveUp
    /\ UNCHANGED <<kind, total, next>>

\* A service error that is retried as it is: the table is unavailable or the
\* throughput exceeded.  The service may have taken some items all the same.
SendUnavailable ==
    /\ step = "send" /\ kind # "DeleteObjects"
    /\ \E taken \in SUBSET request : stored' = stored \cup taken
    /\ RetryOrGiveUp
    /\ UNCHANGED <<kind, total, next, request, count>>

\* Any other error is permanent.
SendFails ==
    /\ step = "send"
    /\ \E taken \in SUBSET request : stored' = stored \cup taken
    /\ step' = "returned" /\ outcome' = "error"
    /\ UNCHANGED <<kind, total, next, request, count>>

PagedNext ==
    \/ TakePage \/ ReturnNil
    \/ SendAll \/ SendSome \/ SendUnavailable \/ SendFails

PagedSpec == PagedInit /\ [][PagedNext]_pagedVars

-----------------------------------------------------------------------------
\* A request has at least one item and no more than the service takes, and
\* none that a response has already acknowledged: what the pages took so far
\* and is not in the request is exactly what was counted.
PagesAreExact ==
    step = "send" =>
        /\ request # {} /\ Cardinality(request) <= maxItems
        /\ request \subseteq 1..next
        /\ count = next - Cardinality(request)

\* The callers' view of the call.
Call == INSTANCE BatchCall WITH items <- Items, done <- stored

\* The call keeps what BatchCall promises: items are taken while it runs, it
\* returns once, and nil means that the service has taken every item,
\* whatever pages were cut, refused, retried and lost on the way.
KeepsPromise == Call!Spec
=============================================================================
