---------------------------- MODULE AddResources ----------------------------
(***************************************************************************)
(* internal/compliance/resources_api: AddResources stores the resources of *)
(* a request with BatchWriteItem, then queues them for analysis with       *)
(* SendMessageBatch, and queues a lookup for those too long for a message. *)
(*                                                                         *)
(* The first two calls are those of PagedBatch and SqsBatch in full; the   *)
(* lookups, all of them short, are sent by a call of which only the        *)
(* promise of BatchCall is used.  Calls of the other two functions of      *)
(* PagedBatch are taken along and end with their own part.                 *)
(***************************************************************************)
EXTENDS PagedBatch, SqsBatch

VARIABLES
    lookups,      \* resources handleBigMessages sends a lookup for
    lookedUp,     \* those whose lookup is queued
    answer,       \* of that call: "none" before it, else as in BatchCall
    status        \* the HTTP response: "none", "created" or "error"

handlerVars == <<lookups, lookedUp, answer, status>>
allVars == <<pagedVars, vars, handlerVars>>

Lookup == INSTANCE BatchCall WITH items <- lookups, done <- lookedUp, outcome <- answer

Resources == 1..total
Queued == accepted \cup lookedUp

AddResourcesInit ==
    /\ PagedInit /\ Init
    /\ total = Len(allEntries)
    /\ lookups = {} /\ lookedUp = {} /\ answer = "none" /\ status = "none"

-----------------------------------------------------------------------------
\* The rows are written first.
WriteResources ==
    /\ PagedNext
    /\ UNCHANGED <<vars, handlerVars>>

\* The messages follow when every row is written.
QueueResources ==
    /\ kind = "BatchWriteItem" /\ outcome = "nil"
    /\ Next
    /\ UNCHANGED <<pagedVars, handlerVars>>

\* Mutant of BigMessages: the IDs are taken for positions in what is returned.
BigMessages_Position == 1..Cardinality(result.entries)

\* The resources of the returned messages, by the IDs of the messages.
BigMessages == result.entries

\* handleBigMessages starts.
StartLookups ==
    /\ result.err = "BatchRequestTooLong" /\ answer = "none"
    /\ lookups' = BigMessages
    /\ answer' = "running"
    /\ UNCHANGED <<pagedVars, vars, lookedUp, status>>

\* Its SendMessageBatch.
SendLookups ==
    /\ Lookup!Next
    /\ UNCHANGED <<pagedVars, vars, status>>

Failed == outcome = "error" \/ result.err = "failed" \/ answer = "error"
Succeeded == result.err = "nil" \/ answer = "nil"

Respond ==
    /\ kind = "BatchWriteItem" /\ status = "none"
    /\ Failed \/ Succeeded
    /\ status' = IF Failed THEN "error" ELSE "created"
    /\ UNCHANGED <<pagedVars, vars, lookups, lookedUp, answer>>

AddResourcesNext ==
    WriteResources \/ QueueResources \/ StartLookups \/ SendLookups \/ Respond

\* The handler goes on, and backoff.Retry gives up after maxElapsedTime.
AddResourcesSpec ==
    /\ AddResourcesInit
    /\ [][AddResourcesNext]_allVars
    /\ WF_allVars(WriteResources /\ (TakePage \/ ReturnNil))
    /\ WF_allVars(WriteResources /\ (SendAll \/ SendFails))
    /\ WF_allVars(QueueResources /\ (PackOversized \/ PackEntry \/ ReturnAfterLoop))
    /\ WF_allVars(QueueResources /\ (SendSucceeds \/ SendGivesUp \/ SendErrors))
    /\ WF_allVars(StartLookups \/ Respond)
    /\ WF_allVars(SendLookups /\ Lookup!Return)

-----------------------------------------------------------------------------
\* 201 means that every resource is stored and has a message or a lookup in
\* the queue, never both.  The exception is what the packing loop of
\* SendMessageBatch never reached, behind a page of oversized messages.  At any
\* time a queued resource is stored: the analyzer that looks it up finds it.
CreatedMeansQueued ==
    /\ Queued # {} => stored = Resources
    /\ status = "created" =>
        /\ stored = Resources
        /\ Queued = 1..i
        /\ accepted \cap lookedUp = {}

\* Every batch call returns, and so does the handler: the packing loop
\* consumes a message in each turn, and no page is retried for ever.
HandlerReturns == <>(status # "none" \/ (kind # "BatchWriteItem" /\ outcome # "running"))
=============================================================================
