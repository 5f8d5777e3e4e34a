------------------------------ MODULE SqsBatch ------------------------------
(***************************************************************************)
(* pkg/awsbatch/sqsbatch: SendMessageBatch, the paging and retrying sender *)
(* every producer of the system puts its SQS messages through.             *)
(*                                                                         *)
(* One behaviour is one call.  A message is its index in allEntries, and   *)
(* all that is kept of it is the length of its body.  The entries of a     *)
(* request, the oversized messages and the returned entries are sets of    *)
(* indices: every caller gives its entries distinct IDs.                   *)
(***************************************************************************)
EXTENDS Naturals, Sequences, FiniteSets, FiniteSetsExt

CONSTANTS
    maxMessages,      \* messages in one request (10 in the code)
    maxMessageBytes,  \* bytes in one request (260000 in the code)
    MessageSizes,     \* the body lengths the caller's messages can have
    MaxEntries        \* bound: the most messages in one call

ASSUME LimitsAssumption == maxMessages \in Nat \ {0} /\ maxMessageBytes \in Nat \ {0}
ASSUME SizesAssumption == MessageSizes \subseteq Nat /\ MaxEntries \in Nat

VARIABLES
    allEntries,        \* the caller's messages (their sizes)
    i,                 \* how many of them the packing loop has consumed
    entries,           \* input.Entries: the request being packed or sent
    currentBatchSize,  \* bytes packed into that request
    bigMessages,       \* messages set aside as oversized
    successCount,      \* request.successCount
    accepted,          \* the messages SQS has accepted (the queue's side)
    pc,                \* "pack", "send", "finish" or "returned"
    result             \* what the call returned: an error kind and entries

vars == <<allEntries, i, entries, currentBatchSize, bigMessages, successCount,
          accepted, pc, result>>

Calls == UNION {[1..n -> MessageSizes] : n \in 0..MaxEntries}
Messages == 1..Len(allEntries)
NoResult == [err |-> "none", entries |-> {}]

TypeOK ==
    /\ allEntries \in Calls
    /\ i \in 0..Len(allEntries)
    /\ entries \subseteq Messages
    /\ currentBatchSize \in Nat
    /\ bigMessages \subseteq Messages
    /\ successCount \in Nat
    /\ accepted \subseteq Messages
    /\ pc \in {"pack", "send", "finish", "returned"}
    /\ result \in [err : {"none", "nil", "BatchRequestTooLong", "failed"},
                   entries : SUBSET Messages]

Init ==
    /\ allEntries \in Calls
    /\ i = 0
    /\ entries = {}
    /\ currentBatchSize = 0
    /\ bigMessages = {}
    /\ successCount = 0
    /\ accepted = {}
    /\ pc = IF Len(allEntries) = 0 THEN "finish" ELSE "pack"
    /\ result = NoResult

-----------------------------------------------------------------------------
Oversized(j) == allEntries[j] > maxMessageBytes

\* Mutant of BatchFull: one message too many before the page is cut.
BatchFull_OffByOne(count, size, next) ==
    count > maxMessages \/ size + next >= maxMessageBytes

\* No room for the next message: the page is cut here.
BatchFull(count, size, next) ==
    count = maxMessages \/ size + next >= maxMessageBytes

\* Where the packing loop goes once it has consumed message j and the request
\* holds packed: another message, a request, or out of both loops when
\* nothing was packed.
AfterPacking(j, packed, size) ==
    IF /\ j < Len(allEntries)
       /\ ~BatchFull(Cardinality(packed), size, allEntries[j + 1])
    THEN "pack"
    ELSE IF packed = {} THEN "finish" ELSE "send"

\* Mutant of PackOversized: the loop continues before it advances i.
PackOversized_NoAdvance ==
    /\ pc = "pack"
    /\ Oversized(i + 1)
    /\ bigMessages' = bigMessages \cup {i + 1}
    /\ UNCHANGED <<allEntries, i, entries, currentBatchSize, successCount,
                   accepted, pc, result>>

\* One turn of the packing loop on a message too long to be sent at all.
PackOversized ==
    /\ pc = "pack"
    /\ Oversized(i + 1)
    /\ i' = i + 1
    /\ bigMessages' = bigMessages \cup {i + 1}
    /\ pc' = AfterPacking(i + 1, entries, currentBatchSize)
    /\ UNCHANGED <<allEntries, entries, currentBatchSize, successCount,
                   accepted, result>>

\* One turn of the packing loop on any other message.
PackEntry ==
    /\ pc = "pack"
    /\ ~Oversized(i + 1)
    /\ i' = i + 1
    /\ entries' = entries \cup {i + 1}
    /\ currentBatchSize' = currentBatchSize + allEntries[i + 1]
    /\ pc' = AfterPacking(i + 1, entries', currentBatchSize')
    /\ UNCHANGED <<allEntries, bigMessages, successCount, accepted, result>>

\* Mutant of RetryEntries: the whole request is sent again.
RetryEntries_All(failed) == entries

\* The entries send() leaves in the input for its next attempt.
RetryEntries(failed) == {j \in entries : j \in failed}

\* SQS takes every entry of the request: the next page starts, or the loop
\* ends.
SendSucceeds ==
    /\ pc = "send"
    /\ accepted' = accepted \cup entries
    /\ successCount' = successCount + Cardinality(entries)
    /\ entries' = {}
    /\ currentBatchSize' = 0
    /\ pc' = IF i < Len(allEntries) THEN "pack" ELSE "finish"
    /\ UNCHANGED <<allEntries, i, bigMessages, result>>

\* What the call returns when a page cannot be sent: the entries after the
\* first successCount ones, and the oversized messages set aside so far.
FailureEntries(count) == {j \in Messages : j > count} \cup bigMessages

\* SQS accepts the entries of the request except failed.
AcceptAllBut(failed) ==
    /\ accepted' = accepted \cup (entries \ failed)
    /\ successCount' = successCount + Cardinality(entries \ failed)
    /\ entries' = RetryEntries(failed)
    /\ UNCHANGED <<allEntries, i, currentBatchSize, bigMessages>>

\* SQS refuses some entries and the backoff tries those again.
SendPartlyFails ==
    /\ pc = "send"
    /\ \E failed \in (SUBSET entries) \ {{}} : AcceptAllBut(failed)
    /\ UNCHANGED <<pc, result>>

\* SQS refuses some entries and the backoff has run for maxElapsedTime.
SendGivesUp ==
    /\ pc = "send"
    /\ \E failed \in (SUBSET entries) \ {{}} : AcceptAllBut(failed)
    /\ pc' = "returned"
    /\ result' = [err |-> "failed", entries |-> FailureEntries(successCount')]

\* Mutant of SendErrors: the error is reported and the loop goes on.
SendErrors_GoesOn ==
    /\ pc = "send"
    /\ result' = [err |-> "failed", entries |-> FailureEntries(successCount)]
    /\ UNCHANGED <<allEntries, i, entries, currentBatchSize, bigMessages,
                   successCount, accepted, pc>>

\* The client call itself returns an error, which is permanent; the queue may
\* still have taken some of the entries.
SendErrors ==
    /\ pc = "send"
    /\ \E taken \in SUBSET entries : accepted' = accepted \cup taken
    /\ pc' = "returned"
    /\ result' = [err |-> "failed", entries |-> FailureEntries(successCount)]
    /\ UNCHANGED <<allEntries, i, entries, currentBatchSize, bigMessages, successCount>>

\* The two returns after the loop.
ReturnAfterLoop ==
    /\ pc = "finish"
    /\ pc' = "returned"
    /\ result' = IF bigMessages = {}
                 THEN [err |-> "nil", entries |-> {}]
                 ELSE [err |-> "BatchRequestTooLong", entries |-> bigMessages]
    /\ UNCHANGED <<allEntries, i, entries, currentBatchSize, bigMessages,
                   successCount, accepted>>

Next ==
    \/ PackOversized \/ PackEntry
    \/ SendSucceeds \/ SendPartlyFails \/ SendGivesUp \/ SendErrors
    \/ ReturnAfterLoop

Spec == Init /\ [][Next]_vars

-----------------------------------------------------------------------------
\* SendMessageBatch returns no error only if SQS accepted every message of the
\* call, whatever pages were cut and whatever was refused and retried on the
\* way.
NilMeansAllAccepted == result.err = "nil" => accepted = Messages

\* When the call reports BatchRequestTooLong, each message the packing loop
\* consumed was either accepted or is returned, and never both: add_resources
\* sends a lookup for exactly the returned ones.
TooLongSplitsConsumed ==
    result.err = "BatchRequestTooLong" =>
        /\ accepted \cup result.entries = 1..i
        /\ accepted \cap result.entries = {}

\* A request is never offered a message SQS has already accepted: retries of a
\* partly refused page do not duplicate messages.
NoDuplicateSend == pc = "send" => entries \cap accepted = {}

\* Every request is within both limits of the service.
RequestWithinLimits ==
    pc = "send" =>
        /\ entries # {}
        /\ Cardinality(entries) <= maxMessages
        /\ SumFunctionOnSet(allEntries, entries) <= maxMessageBytes

\* The callers' view of the call: BatchRequestTooLong is an error to it.
Outcome ==
    IF result.err = "none" THEN "running" ELSE IF result.err = "nil" THEN "nil" ELSE "error"
Promise == INSTANCE BatchCall WITH items <- Messages, done <- accepted, outcome <- Outcome

\* SendMessageBatch keeps what BatchCall promises of every batch call.
KeepsSendPromise == Promise!Spec

\* "In this case, don't even try and just return the over sized message to the
\* requester": after BatchRequestTooLong each message that was not sent is
\* returned.
TooLongReturnsUnsent ==
    result.err = "BatchRequestTooLong" =>
        \A j \in Messages \ accepted : j \in result.entries
=============================================================================
