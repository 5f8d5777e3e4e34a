------------------------- MODULE AddResourcesProofs -------------------------
(***************************************************************************)
(* The batch calls and the handler that makes them, for calls of any       *)
(* length and every value of the limits: what SendMessageBatch's results   *)
(* mean and what its requests hold, that BatchWriteItem, PutRecords and    *)
(* DeleteObjects keep the promise of a batch call, and, from the           *)
(* invariants of the two calls, what the response of AddResources means.   *)
(***************************************************************************)
EXTENDS AddResources, FiniteSums

(***************************************************************************)
(* SendMessageBatch.                                                       *)
(***************************************************************************)

\* The consumed messages are split between the accepted ones, the request in
\* hand and the oversized ones, until the call returns.
ConsumedSplit ==
    /\ accepted \cup entries \cup bigMessages = 1..i
    /\ accepted \cap entries = {}
    /\ accepted \cap bigMessages = {}
    /\ entries \cap bigMessages = {}

\* The inductive invariant.  The loop leaves with an empty request, and it
\* leaves messages unconsumed only when it has set an oversized one aside.
SplitInv ==
    /\ TypeOK
    /\ pc # "returned" => ConsumedSplit /\ result = NoResult
    /\ pc = "pack" => i < Len(allEntries)
    /\ pc = "finish" => entries = {} /\ (bigMessages = {} => i = Len(allEntries))
    /\ NilMeansAllAccepted
    /\ TooLongSplitsConsumed

-----------------------------------------------------------------------------
\* A call is a sequence of sizes.
LEMMA CallsAreSequences ==
    ASSUME NEW c \in Calls
    PROVE  c \in Seq(MessageSizes) /\ Len(c) \in Nat
<1>1. PICK n \in 0..MaxEntries : c \in [1..n -> MessageSizes]
  BY DEF Calls
<1>2. n \in Nat /\ c \in Seq(MessageSizes) /\ Len(c) = n
  BY <1>1, SizesAssumption
<1> QED
  BY <1>2

\* The number of messages in a request is a natural number.
LEMMA RequestCount ==
    ASSUME NEW n \in Nat, NEW S \in SUBSET (1..n)
    PROVE  IsFiniteSet(S) /\ Cardinality(S) \in Nat
<1>1. IsFiniteSet(1..n)
  BY FS_Interval
<1>2. IsFiniteSet(S)
  BY Zenon, <1>1, FS_Subset
<1> QED
  BY <1>2, FS_CardinalityType

\* The packing loop starts in a state of the invariant.
LEMMA InitSplit == Init => SplitInv
<1> SUFFICES ASSUME Init PROVE SplitInv
  OBVIOUS
<1>1. Len(allEntries) \in Nat
  BY CallsAreSequences DEF Init
<1>2. TypeOK
  BY <1>1 DEF Init, TypeOK, NoResult, Messages
<1>3. ConsumedSplit /\ result = NoResult
  BY DEF Init, ConsumedSplit
<1> QED
  BY <1>1, <1>2, <1>3 DEF Init, SplitInv, NoResult, NilMeansAllAccepted, TooLongSplitsConsumed

\* Each turn of the packing loop, each attempt to send and the two returns
\* keep the split of the consumed messages.
LEMMA NextSplit == SplitInv /\ [Next]_vars => SplitInv'
<1> SUFFICES ASSUME SplitInv, [Next]_vars PROVE SplitInv'
  OBVIOUS
<1>0. /\ allEntries \in Calls
      /\ Len(allEntries) \in Nat
      /\ i \in 0..Len(allEntries)
  BY CallsAreSequences DEF SplitInv, TypeOK
<1>1. CASE PackOversized
  <2>1. pc = "pack" /\ i' = i + 1 /\ i + 1 \in 1..Len(allEntries) /\ allEntries' = allEntries
    BY <1>0, <1>1 DEF PackOversized, SplitInv
  <2>2. ConsumedSplit'
    BY <1>0, <1>1, <2>1 DEF PackOversized, SplitInv, ConsumedSplit
  <2>3. pc' \in {"pack", "send", "finish"}
    BY <1>1 DEF PackOversized, AfterPacking
  <2>4. /\ pc' = "pack" => i' < Len(allEntries')
        /\ pc' = "finish" => entries' = {}
    BY <1>0, <1>1, <2>1 DEF PackOversized, AfterPacking
  <2>5. bigMessages' # {} /\ result' = NoResult
    BY <1>1, <2>1 DEF PackOversized, SplitInv
  <2>6. TypeOK'
    BY <1>0, <1>1, <2>1, <2>3, <2>5 DEF PackOversized, SplitInv, TypeOK, Messages
  <2> QED
    BY <2>2, <2>3, <2>4, <2>5, <2>6
    DEF SplitInv, NoResult, NilMeansAllAccepted, TooLongSplitsConsumed
<1>2. CASE PackEntry
  <2>1. pc = "pack" /\ i' = i + 1 /\ i + 1 \in 1..Len(allEntries) /\ allEntries' = allEntries
    BY <1>0, <1>2 DEF PackEntry, SplitInv
  <2>2. ConsumedSplit'
    BY <1>0, <1>2, <2>1 DEF PackEntry, SplitInv, ConsumedSplit
  <2>3. pc' \in {"pack", "send"}
    BY <1>2 DEF PackEntry, AfterPacking
  <2>4. pc' = "pack" => i' < Len(allEntries')
    BY <1>0, <1>2, <2>1 DEF PackEntry, AfterPacking
  <2>5. result' = NoResult
    BY <1>2, <2>1 DEF PackEntry, SplitInv
  <2>6. TypeOK'
    <3>1. allEntries[i + 1] \in Nat
      <4>1. allEntries \in Seq(MessageSizes)
        BY <1>0, CallsAreSequences
      <4>2. allEntries[i + 1] \in MessageSizes
        BY <2>1, <4>1
      <4> QED
        BY Zenon, <4>2, SizesAssumption
    <3> QED
      BY <1>0, <1>2, <2>1, <2>3, <2>5, <3>1 DEF PackEntry, SplitInv, TypeOK, Messages
  <2> QED
    BY <2>2, <2>3, <2>4, <2>5, <2>6
    DEF SplitInv, NoResult, NilMeansAllAccepted, TooLongSplitsConsumed
<1>3. CASE SendSucceeds
  <2>1. /\ pc = "send" /\ allEntries' = allEntries /\ i' = i
        /\ result' = NoResult /\ entries' = {}
    BY <1>3 DEF SendSucceeds, SplitInv
  <2>2. ConsumedSplit'
    BY <1>3, <2>1 DEF SendSucceeds, SplitInv, ConsumedSplit
  <2>3. Cardinality(entries) \in Nat
    BY Zenon, <1>0, RequestCount DEF SplitInv, TypeOK, Messages
  <2>4. TypeOK'
    BY <1>0, <1>3, <2>1, <2>3 DEF SendSucceeds, SplitInv, TypeOK, Messages
  <2>5. pc' = IF i < Len(allEntries) THEN "pack" ELSE "finish"
    BY <1>3 DEF SendSucceeds
  <2>6. /\ pc' = "pack" => i' < Len(allEntries')
        /\ pc' = "finish" => entries' = {} /\ i' = Len(allEntries')
        /\ pc' \in {"pack", "finish"}
    BY <1>0, <2>1, <2>5
  <2>7. NilMeansAllAccepted' /\ TooLongSplitsConsumed'
    BY <2>1 DEF NoResult, NilMeansAllAccepted, TooLongSplitsConsumed
  <2> QED
    BY <2>1, <2>2, <2>4, <2>6, <2>7 DEF SplitInv
<1>4. ASSUME pc = "send", NEW failed \in SUBSET entries, AcceptAllBut(failed)
      PROVE  /\ ConsumedSplit'
             /\ UNCHANGED <<allEntries, i, bigMessages, currentBatchSize>>
             /\ entries' \subseteq Messages'
             /\ accepted' \subseteq Messages'
             /\ successCount' \in Nat
  <2>1. UNCHANGED <<allEntries, i, bigMessages, currentBatchSize>>
    BY <1>4 DEF AcceptAllBut
  <2>2. ConsumedSplit'
    BY <1>4, <2>1 DEF AcceptAllBut, RetryEntries, SplitInv, ConsumedSplit
  <2>3. Cardinality(entries \ failed) \in Nat
    BY Zenon, <1>0, RequestCount DEF SplitInv, TypeOK, Messages
  <2>4. entries' \subseteq Messages' /\ accepted' \subseteq Messages'
    BY Zenon, <1>4, <2>1 DEF AcceptAllBut, RetryEntries, SplitInv, TypeOK, Messages
  <2>5. successCount' \in Nat
    BY <1>4, <2>3 DEF AcceptAllBut, SplitInv, TypeOK
  <2> QED
    BY <2>1, <2>2, <2>4, <2>5
<1>5. CASE SendPartlyFails
  <2>1. PICK failed \in SUBSET entries : AcceptAllBut(failed)
    BY <1>5 DEF SendPartlyFails
  <2>2. pc = "send" /\ pc' = "send" /\ result' = NoResult
    BY <1>5 DEF SendPartlyFails, SplitInv
  <2>3. TypeOK'
    BY Zenon, <1>4, <2>1, <2>2 DEF SplitInv, TypeOK, Messages, NoResult
  <2> QED
    BY <1>4, <2>1, <2>2, <2>3
    DEF SplitInv, NoResult, NilMeansAllAccepted, TooLongSplitsConsumed
<1>6. CASE SendGivesUp
  <2>1. PICK failed \in SUBSET entries : AcceptAllBut(failed)
    BY <1>6 DEF SendGivesUp
  <2>2. /\ pc = "send" /\ pc' = "returned"
        /\ result' = [err |-> "failed", entries |-> FailureEntries(successCount')]
    BY <1>6 DEF SendGivesUp
  <2>3. FailureEntries(successCount') \subseteq Messages'
    BY Zenon, <1>4, <2>1, <2>2 DEF FailureEntries, SplitInv, TypeOK, Messages
  <2>4. TypeOK'
    BY Zenon, <1>4, <2>1, <2>2, <2>3 DEF SplitInv, TypeOK, Messages
  <2> QED
    BY <2>2, <2>4 DEF SplitInv, NilMeansAllAccepted, TooLongSplitsConsumed
<1>7. CASE SendErrors
  <2>1. /\ pc' = "returned"
        /\ result' = [err |-> "failed", entries |-> FailureEntries(successCount)]
        /\ UNCHANGED <<allEntries, i, entries, currentBatchSize, bigMessages, successCount>>
    BY <1>7 DEF SendErrors
  <2>2. FailureEntries(successCount) \subseteq Messages' /\ accepted' \subseteq Messages'
    BY Zenon, <1>7, <2>1 DEF SendErrors, FailureEntries, SplitInv, TypeOK, Messages
  <2>3. TypeOK'
    BY <2>1, <2>2 DEF SplitInv, TypeOK, Messages
  <2> QED
    BY <2>1, <2>3 DEF SplitInv, NilMeansAllAccepted, TooLongSplitsConsumed
<1>8. CASE ReturnAfterLoop
  <2>1. /\ pc = "finish" /\ pc' = "returned"
        /\ UNCHANGED <<allEntries, i, entries, currentBatchSize, bigMessages, successCount, accepted>>
    BY <1>8 DEF ReturnAfterLoop
  <2>2. accepted \cup bigMessages = 1..i /\ accepted \cap bigMessages = {}
    BY <2>1 DEF SplitInv, ConsumedSplit
  <2>3. CASE bigMessages = {}
    <3>1. result' = [err |-> "nil", entries |-> {}] /\ accepted = 1..Len(allEntries)
      BY <1>8, <2>1, <2>2, <2>3 DEF ReturnAfterLoop, SplitInv
    <3> QED
      BY <2>1, <3>1 DEF SplitInv, TypeOK, Messages, NilMeansAllAccepted, TooLongSplitsConsumed
  <2>4. CASE bigMessages # {}
    <3>1. result' = [err |-> "BatchRequestTooLong", entries |-> bigMessages]
      BY <1>8, <2>4 DEF ReturnAfterLoop
    <3> QED
      BY <2>1, <2>2, <3>1 DEF SplitInv, TypeOK, Messages, NilMeansAllAccepted, TooLongSplitsConsumed
  <2> QED
    BY <2>3, <2>4
<1>9. CASE UNCHANGED vars
  BY <1>9 DEF vars, SplitInv, TypeOK, Messages, ConsumedSplit, NilMeansAllAccepted, TooLongSplitsConsumed
<1> QED
  BY <1>1, <1>2, <1>3, <1>5, <1>6, <1>7, <1>8, <1>9 DEF Next

\* The inductive invariant holds of every call.
THEOREM SplitCorrect == Spec => []SplitInv
BY InitSplit, NextSplit, PTL DEF Spec

\* SendMessageBatch keeps its state well typed.
THEOREM TypeCorrect == Spec => []TypeOK
<1>1. SplitInv => TypeOK
  BY DEF SplitInv
<1> QED
  BY <1>1, SplitCorrect, PTL

\* A nil error means that SQS accepted every message of the call.
THEOREM NilCorrect == Spec => []NilMeansAllAccepted
<1>1. SplitInv => NilMeansAllAccepted
  BY DEF SplitInv
<1> QED
  BY <1>1, SplitCorrect, PTL

\* BatchRequestTooLong splits the consumed messages exactly into the accepted
\* and the returned ones.
THEOREM TooLongCorrect == Spec => []TooLongSplitsConsumed
<1>1. SplitInv => TooLongSplitsConsumed
  BY DEF SplitInv
<1> QED
  BY <1>1, SplitCorrect, PTL

\* No attempt offers SQS a message it has already accepted.
THEOREM NoDuplicateCorrect == Spec => []NoDuplicateSend
<1>1. SplitInv => NoDuplicateSend
  BY DEF SplitInv, ConsumedSplit, NoDuplicateSend
<1> QED
  BY <1>1, SplitCorrect, PTL

\* SendMessageBatch implements BatchCall: what SQS accepts is Work, what
\* returns is Return, and packing changes nothing the caller can see.
THEOREM SendKeepsPromise == Spec => KeepsSendPromise
<1>1. Init => Promise!Init
  BY DEF Init, NoResult, Outcome, Promise!Init
<1>2. SplitInv /\ SplitInv' /\ [Next]_vars => [Promise!Next]_(Promise!vars)
  <2> SUFFICES ASSUME SplitInv, SplitInv', [Next]_vars
               PROVE  [Promise!Next]_(Promise!vars)
    OBVIOUS
  <2>0. entries \subseteq Messages /\ (pc # "returned" => Outcome = "running")
    BY DEF SplitInv, TypeOK, NoResult, Outcome
  <2>1. CASE PackOversized \/ PackEntry
    BY <2>1 DEF PackOversized, PackEntry, Promise!vars, Messages, Outcome
  <2>2. CASE SendSucceeds \/ SendPartlyFails
    <3>1. Messages' = Messages /\ Outcome' = Outcome /\ Outcome = "running"
      BY Zenon, <2>0, <2>2 DEF SendSucceeds, SendPartlyFails, AcceptAllBut, Messages, Outcome
    <3>2. PICK more \in SUBSET Messages : accepted' = accepted \cup more
      BY Zenon, <2>0, <2>2 DEF SendSucceeds, SendPartlyFails, AcceptAllBut
    <3> QED
      BY <3>1, <3>2 DEF Promise!Next, Promise!Work
  <2>3. CASE SendGivesUp \/ SendErrors
    <3>1. pc = "send" /\ allEntries' = allEntries
      BY Zenon, <2>3 DEF SendGivesUp, SendErrors, AcceptAllBut
    <3>2. \E rest : result' = [err |-> "failed", entries |-> rest]
      BY <2>3, Zenon DEF SendGivesUp, SendErrors
    <3>3. result'.err = "failed" /\ pc = "send" /\ allEntries' = allEntries
      BY <3>1, <3>2
    <3>4. Messages' = Messages /\ Outcome' = "error" /\ Outcome = "running"
      BY <2>0, <3>3 DEF Messages, Outcome
    <3>5. PICK more \in SUBSET Messages : accepted' = accepted \cup more
      BY Zenon, <2>0, <2>3 DEF SendGivesUp, SendErrors, AcceptAllBut
    <3> QED
      BY <3>4, <3>5 DEF Promise!Next, Promise!Return
  <2>4. CASE ReturnAfterLoop
    <3>1. /\ Messages' = Messages /\ Outcome = "running" /\ accepted' = accepted
          /\ Outcome' \in {"nil", "error"}
      BY <2>0, <2>4 DEF ReturnAfterLoop, Messages, Outcome
    <3>2. Outcome' = "nil" => accepted' = Messages
      BY <3>1 DEF SplitInv, NilMeansAllAccepted, Outcome
    <3>3. accepted' = accepted \cup {} /\ {} \in SUBSET Messages
      BY <3>1
    <3> QED
      BY Zenon, <3>1, <3>2, <3>3 DEF Promise!Next, Promise!Return
  <2>5. CASE UNCHANGED vars
    BY <2>5 DEF vars, Promise!vars, Messages, Outcome
  <2> QED
    BY <2>1, <2>2, <2>3, <2>4, <2>5 DEF Next
<1> QED
  BY <1>1, <1>2, SplitCorrect, PTL DEF Spec, KeepsSendPromise, Promise!Spec

-----------------------------------------------------------------------------
\* The limits, as the packing loop keeps them: while it goes on there is room for
\* the next message, unless that one is the first.  The loop's count of the bytes
\* is never less than what the request holds; after a retry it can be more.
FitInv ==
    /\ pc = "send" => entries # {}
    /\ Cardinality(entries) <= maxMessages
    /\ pc = "pack" => Cardinality(entries) < maxMessages
    /\ SumFunctionOnSet(allEntries, entries) <= currentBatchSize
    /\ currentBatchSize <= maxMessageBytes
    /\ pc = "pack" => \/ currentBatchSize = 0
                      \/ currentBatchSize + allEntries[i + 1] < maxMessageBytes

\* The sizes of the messages of a call are natural numbers.
LEMMA SizesAreNumbers ==
    ASSUME SplitInv, NEW j \in 1..Len(allEntries)
    PROVE  allEntries[j] \in Nat
<1>1. allEntries \in Seq(MessageSizes)
  BY CallsAreSequences DEF SplitInv, TypeOK
<1>2. allEntries[j] \in MessageSizes
  BY <1>1
<1> QED
  BY Zenon, <1>2, SizesAssumption

\* The end of a turn of the packing loop.
LEMMA PackedFits ==
    ASSUME SplitInv, SplitInv', allEntries' = allEntries,
           pc' = AfterPacking(i', entries', currentBatchSize'),
           Cardinality(entries') \in Nat, Cardinality(entries') <= maxMessages,
           currentBatchSize' \in Nat, currentBatchSize' <= maxMessageBytes,
           SumFunctionOnSet(allEntries', entries') <= currentBatchSize'
    PROVE  FitInv'
<1>1. pc' = "send" => entries' # {}
  BY DEF AfterPacking
<1>2. ASSUME pc' = "pack"
      PROVE  /\ Cardinality(entries') < maxMessages
             /\ currentBatchSize' + allEntries[i' + 1] < maxMessageBytes
  <2>1. ~BatchFull(Cardinality(entries'), currentBatchSize', allEntries[i' + 1])
    BY <1>2 DEF AfterPacking
  <2>2. i' + 1 \in 1..Len(allEntries)
    <3>1. Len(allEntries) \in Nat
      BY CallsAreSequences DEF SplitInv, TypeOK
    <3>2. i' \in 0..Len(allEntries) /\ i' < Len(allEntries)
      BY <1>2 DEF SplitInv, TypeOK
    <3>3. \A n \in Nat : \A k \in 0..n : k < n => k + 1 \in 1..n
      OBVIOUS
    <3> QED
      BY Zenon, <3>1, <3>2, <3>3
  <2>3. allEntries[i' + 1] \in Nat
    BY <2>2, SizesAreNumbers
  <2> QED
    BY <2>1, <2>3, LimitsAssumption DEF BatchFull
<1> QED
  BY <1>1, <1>2 DEF FitInv

\* Every step keeps the limits.
LEMMA NextFits == SplitInv /\ SplitInv' /\ FitInv /\ [Next]_vars => FitInv'
<1> SUFFICES ASSUME SplitInv, SplitInv', FitInv, [Next]_vars PROVE FitInv'
  OBVIOUS
<1>0. /\ Len(allEntries) \in Nat /\ entries \in SUBSET (1..Len(allEntries))
      /\ IsFiniteSet(entries) /\ Cardinality(entries) \in Nat /\ currentBatchSize \in Nat
      /\ \A j \in entries : allEntries[j] \in Nat
  <2>1. Len(allEntries) \in Nat /\ entries \in SUBSET (1..Len(allEntries))
    BY CallsAreSequences DEF SplitInv, TypeOK, Messages
  <2>2. IsFiniteSet(entries) /\ Cardinality(entries) \in Nat
    BY Zenon, <2>1, RequestCount
  <2>3. \A j \in entries : allEntries[j] \in Nat
    BY <2>1, SizesAreNumbers
  <2> QED
    BY <2>1, <2>2, <2>3 DEF SplitInv, TypeOK
<1>1. CASE PackOversized
  <2>1. /\ allEntries' = allEntries /\ entries' = entries /\ currentBatchSize' = currentBatchSize
        /\ pc' = AfterPacking(i', entries', currentBatchSize')
    BY <1>1 DEF PackOversized
  <2> QED
    BY <1>0, <2>1, PackedFits DEF FitInv
<1>2. CASE PackEntry
  <2>1. /\ allEntries' = allEntries /\ entries' = entries \cup {i + 1}
        /\ currentBatchSize' = currentBatchSize + allEntries[i + 1]
        /\ i' = i + 1 /\ pc = "pack" /\ ~(allEntries[i + 1] > maxMessageBytes)
    BY <1>2 DEF PackEntry, Oversized
  <2>2. pc' = AfterPacking(i', entries', currentBatchSize')
    BY <1>2 DEF PackEntry
  <2>3. allEntries[i + 1] \in Nat
    <3>1. i + 1 \in 1..Len(allEntries)
      BY <1>0, <2>1 DEF SplitInv, TypeOK
    <3> QED
      BY <3>1, SizesAreNumbers
  <2>4. Cardinality(entries') \in Nat /\ Cardinality(entries') <= Cardinality(entries) + 1
    <3>1. Cardinality(entries \cup {i + 1}) \in {Cardinality(entries), Cardinality(entries) + 1}
      BY <1>0, FS_AddElement
    <3> QED
      BY <1>0, <2>1, <3>1
  <2>5. Cardinality(entries') <= maxMessages
    BY <1>0, <2>1, <2>4, LimitsAssumption DEF FitInv
  <2>6. currentBatchSize' \in Nat /\ currentBatchSize' <= maxMessageBytes
    BY <1>0, <2>1, <2>3, LimitsAssumption DEF FitInv
  <2>7. SumFunctionOnSet(allEntries', entries') <= currentBatchSize'
    <3>0. \A j \in entries : allEntries[j] \in Int
      BY <1>0
    <3>1. i + 1 \notin entries
      BY <1>0, <2>1 DEF SplitInv, ConsumedSplit, TypeOK
    <3>2. SumFunctionOnSet(allEntries, entries \cup {i + 1}) =
              SumFunctionOnSet(allEntries, entries) + allEntries[i + 1]
      <4>1. IsFiniteSet(entries) /\ allEntries[i + 1] \in Int
        BY <1>0, <2>3
      <4> QED
        BY <3>0, <3>1, <4>1, SumAdd
    <3>3. SumFunctionOnSet(allEntries, entries) \in Int
      BY Zenon, <1>0, <3>0, SumType
    <3> QED
      BY <1>0, <2>1, <2>3, <3>2, <3>3 DEF FitInv
  <2> QED
    BY <2>1, <2>2, <2>4, <2>5, <2>6, <2>7, PackedFits
<1>3. CASE SendSucceeds
  <2>1. entries' = {} /\ currentBatchSize' = 0 /\ pc' # "send"
    BY <1>3 DEF SendSucceeds
  <2>2. Cardinality(entries') = 0 /\ SumFunctionOnSet(allEntries', entries') = 0
    BY <2>1, FS_EmptySet, SumEmpty
  <2> QED
    BY <2>1, <2>2, LimitsAssumption DEF FitInv
<1>4. CASE SendPartlyFails \/ SendGivesUp
  <2>1. PICK failed \in (SUBSET entries) \ {{}} : AcceptAllBut(failed)
    BY <1>4 DEF SendPartlyFails, SendGivesUp
  <2>2. entries' = failed /\ currentBatchSize' = currentBatchSize /\ allEntries' = allEntries
    BY <2>1 DEF AcceptAllBut, RetryEntries
  <2>3. pc' # "pack"
    BY <1>4 DEF SendPartlyFails, SendGivesUp
  <2>4. Cardinality(failed) \in Nat /\ Cardinality(failed) <= Cardinality(entries)
    BY Zenon, <1>0, <2>1, FS_Subset, FS_CardinalityType
  <2>5. SumFunctionOnSet(allEntries', entries') <= currentBatchSize'
    <3>1. SumFunctionOnSet(allEntries, failed) <= SumFunctionOnSet(allEntries, entries)
      BY Zenon, <1>0, <2>1, SumSubset
    <3>2. /\ SumFunctionOnSet(allEntries, failed) \in Nat
          /\ SumFunctionOnSet(allEntries, entries) \in Nat
      BY Zenon, <1>0, <2>1, FS_Subset, SumOfNaturals
    <3> QED
      BY <1>0, <2>2, <3>1, <3>2 DEF FitInv
  <2> QED
    BY <1>0, <2>1, <2>2, <2>3, <2>4, <2>5, LimitsAssumption DEF FitInv
<1>5. CASE SendErrors \/ ReturnAfterLoop
  BY <1>5 DEF SendErrors, ReturnAfterLoop, FitInv
<1>6. CASE UNCHANGED vars
  BY <1>6 DEF vars, FitInv
<1> QED
  BY <1>1, <1>2, <1>3, <1>4, <1>5, <1>6 DEF Next

\* No request is empty, has more messages than the service takes, or more
\* bytes.
THEOREM RequestCorrect == Spec => []RequestWithinLimits
<1>1. Init => FitInv
  <2> SUFFICES ASSUME Init PROVE FitInv
    OBVIOUS
  <2>1. Cardinality(entries) = 0 /\ SumFunctionOnSet(allEntries, entries) = 0
    BY FS_EmptySet, SumEmpty DEF Init
  <2> QED
    BY <2>1, LimitsAssumption DEF Init, FitInv
<1>2. SplitInv /\ FitInv => RequestWithinLimits
  <2> SUFFICES ASSUME SplitInv, FitInv PROVE RequestWithinLimits
    OBVIOUS
  <2>1. /\ Len(allEntries) \in Nat /\ entries \in SUBSET (1..Len(allEntries))
        /\ currentBatchSize \in Nat
    BY CallsAreSequences DEF SplitInv, TypeOK, Messages
  <2>2. IsFiniteSet(entries) /\ \A j \in entries : allEntries[j] \in Nat
    BY Zenon, <2>1, RequestCount, SizesAreNumbers
  <2>3. SumFunctionOnSet(allEntries, entries) \in Nat
    BY <2>2, SumOfNaturals
  <2> QED
    BY <2>1, <2>3, LimitsAssumption DEF FitInv, RequestWithinLimits
<1> QED
  BY <1>1, <1>2, NextFits, SplitCorrect, PTL DEF Spec

(***************************************************************************)
(* The calls that go through their items in pages.                         *)
(***************************************************************************)

\* The inductive invariant.  Items of earlier pages that are not in the
\* request are stored, and the counter has counted exactly those.
PageInv ==
    /\ PagedTypeOK
    /\ step # "returned" => outcome = "running" /\ (1..next) \ request \subseteq stored
    /\ step = "page" => request = {} /\ count = next
    /\ PagesAreExact
    /\ outcome = "nil" => stored = Items

-----------------------------------------------------------------------------
\* The size of a part of the call's items.
LEMMA PartSize ==
    ASSUME NEW n \in Nat, NEW S \in SUBSET (1..n), NEW T \in SUBSET S
    PROVE  /\ Cardinality(S) \in Nat /\ Cardinality(T) \in Nat
           /\ Cardinality(T) <= Cardinality(S)
<1>1. IsFiniteSet(1..n)
  BY FS_Interval
<1>2. IsFiniteSet(S)
  BY Zenon, <1>1, FS_Subset
<1>3. IsFiniteSet(T) /\ Cardinality(T) <= Cardinality(S)
  BY Zenon, <1>2, FS_Subset
<1> QED
  BY <1>2, <1>3, FS_CardinalityType

\* The call starts in a state of the invariant.
LEMMA InitPage == PagedInit => PageInv
BY PageAssumption DEF PagedInit, PageInv, PagedTypeOK, PagesAreExact, Items

\* The page that TakePage cuts has at least one item and at most maxItems.
LEMMA PageSize ==
    ASSUME PageInv, TakePage
    PROVE  /\ next' \in (next + 1)..total /\ total \in Nat /\ next \in Nat
           /\ request' = (next + 1)..next'
           /\ Cardinality(request') = next' - next
           /\ next' - next <= maxItems
<1>1. /\ total \in Nat /\ next \in 0..total /\ next < total
      /\ maxItems \in Nat \ {0}
      /\ next' = IF next + maxItems >= total THEN total ELSE next + maxItems
      /\ request' = (next + 1)..next'
  BY PageAssumption DEF PageInv, PagedTypeOK, TakePage, PageEnd
<1>2. next' \in (next + 1)..total /\ next' - next <= maxItems
  BY <1>1
<1>3. Cardinality((next + 1)..next') = next' - next
  BY SMTT(30), <1>1, <1>2, FS_Interval
<1> QED
  BY <1>1, <1>2, <1>3

\* Cutting a page, each attempt to send and the return keep the invariant.
LEMMA NextPage == PageInv /\ [PagedNext]_pagedVars => PageInv'
<1> SUFFICES ASSUME PageInv, [PagedNext]_pagedVars PROVE PageInv'
  OBVIOUS
<1>0. /\ total \in Nat /\ next \in Nat /\ next <= total
      /\ request \in SUBSET (1..total) /\ count \in Nat
  BY DEF PageInv, PagedTypeOK, Items
<1>1. CASE TakePage
  <2>1. /\ next' \in (next + 1)..total /\ total \in Nat /\ next \in Nat
        /\ request' = (next + 1)..next'
        /\ Cardinality(request') = next' - next
        /\ next' - next <= maxItems
    BY <1>1, PageSize
  <2>2. /\ step = "page" /\ step' = "send" /\ total' = total /\ kind' = kind
        /\ stored' = stored /\ count' = count /\ outcome' = outcome
        /\ request = {} /\ count = next /\ outcome = "running"
        /\ 1..next \subseteq stored
    BY <1>1 DEF TakePage, PageInv
  <2>3. PagedTypeOK'
    BY <2>1, <2>2 DEF PageInv, PagedTypeOK, Items
  <2>4. PagesAreExact'
    BY <2>1, <2>2 DEF PagesAreExact
  <2>5. ((1..next) \ request \subseteq stored)'
    BY <2>1, <2>2
  <2> QED
    BY <2>2, <2>3, <2>4, <2>5 DEF PageInv
<1>2. CASE ReturnNil
  BY Zenon, <1>0, <1>2 DEF ReturnNil, PageInv, PagedTypeOK, PagesAreExact, Items
<1>3. CASE SendAll
  <2>1. /\ Cardinality(request) \in Nat
        /\ count = next - Cardinality(request) /\ request \subseteq 1..next
    BY Zenon, <1>0, <1>3, PartSize DEF SendAll, PageInv, PagesAreExact
  <2>2. count' = next
    BY <1>0, <1>3, <2>1 DEF SendAll
  <2> QED
    BY <1>0, <1>3, <2>1, <2>2 DEF SendAll, PageInv, PagedTypeOK, PagesAreExact, Items
<1>4. CASE SendSome
  <2>1. PICK failed \in (SUBSET request) \ {{}} :
          /\ stored' = stored \cup (request \ failed)
          /\ count' = (count + Cardinality(request)) - Cardinality(failed)
          /\ request' = Unprocessed(failed)
    BY <1>4 DEF SendSome
  <2>2. /\ step = "send" /\ total' = total /\ next' = next /\ kind' = kind
        /\ RetryOrGiveUp
    BY <1>4 DEF SendSome
  <2>3. request' = failed
    BY <2>1 DEF Unprocessed
  <2>4. /\ Cardinality(request) \in Nat /\ Cardinality(failed) \in Nat
        /\ Cardinality(failed) <= Cardinality(request)
    BY Zenon, <1>0, <2>1, PartSize
  <2>5. /\ count = next - Cardinality(request) /\ request \subseteq 1..next
        /\ Cardinality(request) <= maxItems /\ outcome = "running"
        /\ (1..next) \ request \subseteq stored
    BY <2>2 DEF PageInv, PagesAreExact
  <2>6. count' = next - Cardinality(failed) /\ count' \in Nat
    BY <1>0, <2>1, <2>4, <2>5
  <2>7. PagedTypeOK'
    BY <2>1, <2>2, <2>3, <2>5, <2>6 DEF RetryOrGiveUp, PageInv, PagedTypeOK, Items
  <2>8. PagesAreExact'
    BY <2>1, <2>2, <2>3, <2>4, <2>5, <2>6, PageAssumption DEF PagesAreExact
  <2>9. ((1..next) \ request \subseteq stored)'
    BY <2>1, <2>2, <2>3, <2>5
  <2> QED
    BY <2>2, <2>5, <2>7, <2>8, <2>9 DEF RetryOrGiveUp, PageInv
<1>5. CASE SendUnavailable
  BY <1>0, <1>5 DEF SendUnavailable, RetryOrGiveUp, PageInv, PagedTypeOK, PagesAreExact, Items
<1>6. CASE SendFails
  BY <1>0, <1>6 DEF SendFails, PageInv, PagedTypeOK, PagesAreExact, Items
<1>7. CASE UNCHANGED pagedVars
  BY <1>7 DEF pagedVars, PageInv, PagedTypeOK, PagesAreExact, Items
<1> QED
  BY <1>1, <1>2, <1>3, <1>4, <1>5, <1>6, <1>7 DEF PagedNext

\* The inductive invariant holds of every call.
THEOREM PageCorrect == PagedSpec => []PageInv
BY InitPage, NextPage, PTL DEF PagedSpec

\* Every request is within the limit and offers nothing that a response has
\* acknowledged before.
THEOREM PagesCorrect == PagedSpec => []PagesAreExact
<1>1. PageInv => PagesAreExact
  BY DEF PageInv
<1> QED
  BY <1>1, PageCorrect, PTL

\* BatchWriteItem, PutRecords and DeleteObjects implement BatchCall: a step
\* that takes or loses items is Work, the two ways out are Return, and the
\* rest changes nothing the caller can see.
THEOREM PagedKeepsPromise == PagedSpec => KeepsPromise
<1>1. PagedInit => Call!Init
  BY DEF PagedInit, Call!Init
<1>2. PageInv /\ PageInv' /\ [PagedNext]_pagedVars => [Call!Next]_(Call!vars)
  <2> SUFFICES ASSUME PageInv, PageInv', [PagedNext]_pagedVars
               PROVE  [Call!Next]_(Call!vars)
    OBVIOUS
  <2>0. request \subseteq Items /\ stored \subseteq Items
    BY DEF PageInv, PagedTypeOK
  <2>1. CASE TakePage
    BY <2>1 DEF TakePage, Call!vars, Items
  <2>2. CASE ReturnNil
    <3>1. outcome = "running" /\ outcome' = "nil" /\ stored' = stored /\ Items' = Items
      BY <2>2 DEF ReturnNil, PageInv, Items
    <3>2. stored' = Items
      BY <3>1 DEF PageInv
    <3> QED
      BY <3>1, <3>2 DEF Call!Next, Call!Return
  <2>3. CASE SendAll
    <3>1. /\ outcome = "running" /\ outcome' = outcome /\ Items' = Items
          /\ request \in SUBSET Items /\ stored' = stored \cup request
      BY <2>0, <2>3 DEF SendAll, PageInv, Items
    <3> QED
      BY <3>1 DEF Call!Next, Call!Work
  <2>4. CASE SendSome \/ SendUnavailable \/ SendFails
    <3>1. outcome = "running" /\ Items' = Items /\ outcome' \in {outcome, "error"}
      BY <2>4 DEF SendSome, SendUnavailable, SendFails, RetryOrGiveUp, PageInv, Items
    <3>2. PICK more \in SUBSET Items : stored' = stored \cup more
      BY <2>0, <2>4 DEF SendSome, SendUnavailable, SendFails
    <3> QED
      BY <3>1, <3>2 DEF Call!Next, Call!Work, Call!Return
  <2>5. CASE UNCHANGED pagedVars
    BY <2>5 DEF pagedVars, Call!vars, Items
  <2> QED
    BY <2>1, <2>2, <2>3, <2>4, <2>5 DEF PagedNext
<1> QED
  BY <1>1, <1>2, PageCorrect, PTL DEF PagedSpec, KeepsPromise, Call!Spec

(***************************************************************************)
(* AddResources: each of its two calls begins when the one before is over. *)
(***************************************************************************)

\* Every row was written.
RowsWritten == kind = "BatchWriteItem" /\ outcome = "nil"

\* The inductive invariant: nothing is queued before the rows are written, the
\* lookups are for what SendMessageBatch returned, and a response was given on
\* what is still the case.
HandlerInv ==
    /\ PageInv /\ SplitInv /\ total = Len(allEntries)
    /\ ~RowsWritten => accepted = {} /\ result = NoResult
    /\ result.err = "nil" => i = Len(allEntries)
    /\ lookedUp \subseteq lookups
    /\ answer = "none" => lookups = {}
    /\ answer # "none" => result.err = "BatchRequestTooLong" /\ lookups = result.entries
    /\ answer = "nil" => lookedUp = lookups
    /\ status = "created" => Succeeded /\ ~Failed

-----------------------------------------------------------------------------
\* BatchWriteItem that has returned takes no further step, and neither does
\* SendMessageBatch.
LEMMA CallsEnd ==
    ASSUME PageInv, SplitInv
    PROVE  /\ outcome # "running" => ~PagedNext
           /\ result.err # "none" => ~Next
<1>1. ASSUME outcome # "running", PagedNext
      PROVE  FALSE
  BY <1>1 DEF PageInv, PagedNext, TakePage, ReturnNil, SendAll, SendSome, SendUnavailable, SendFails
<1>2. ASSUME result.err # "none", Next
      PROVE  FALSE
  <2>1. pc # "returned"
    BY <1>2 DEF Next, PackOversized, PackEntry, SendSucceeds, SendPartlyFails, SendGivesUp,
                SendErrors, ReturnAfterLoop
  <2> QED
    BY <1>2, <2>1 DEF SplitInv, NoResult
<1> QED
  BY <1>1, <1>2

\* SendMessageBatch returns nil only at the end of its loop.
LEMMA NilAtTheEnd ==
    ASSUME SplitInv, SplitInv', Next, result'.err = "nil"
    PROVE  i' = Len(allEntries')
<1>1. pc' = "returned"
  BY DEF SplitInv, NoResult
<1>2. ~SendGivesUp /\ ~SendErrors
  <2>1. ASSUME SendGivesUp \/ SendErrors
        PROVE  \E rest : result' = [err |-> "failed", entries |-> rest]
    BY <2>1 DEF SendGivesUp, SendErrors
  <2> QED
    BY <2>1
<1>3. ReturnAfterLoop
  BY <1>1, <1>2 DEF Next, PackOversized, PackEntry, SendSucceeds, SendPartlyFails, AfterPacking
<1> QED
  BY SMTT(30), <1>3 DEF ReturnAfterLoop, SplitInv

\* A SendMessageBatch that has not begun, and one under way, have sent no lookup.
LEMMA NoLookupYet ==
    ASSUME HandlerInv, result.err # "BatchRequestTooLong"
    PROVE  answer = "none" /\ lookups = {} /\ lookedUp = {}
BY DEF HandlerInv

\* The calls and the handler begin in a state of the invariant.
LEMMA HandlerInit == AddResourcesInit => HandlerInv
<1> SUFFICES ASSUME AddResourcesInit PROVE HandlerInv
  OBVIOUS
<1>1. PageInv /\ SplitInv
  BY InitPage, InitSplit DEF AddResourcesInit
<1>2. accepted = {} /\ result = NoResult
  BY DEF AddResourcesInit, Init
<1> QED
  BY <1>1, <1>2 DEF AddResourcesInit, HandlerInv, NoResult

\* Every step of the handler keeps the invariant.
LEMMA HandlerNext == HandlerInv /\ [AddResourcesNext]_allVars => HandlerInv'
<1> SUFFICES ASSUME HandlerInv, [AddResourcesNext]_allVars PROVE HandlerInv'
  OBVIOUS
<1>1. CASE WriteResources
  <2>1. PagedNext /\ UNCHANGED vars /\ UNCHANGED handlerVars
    BY <1>1 DEF WriteResources
  <2>2. PageInv' /\ SplitInv'
    BY <2>1, NextPage, NextSplit DEF HandlerInv
  <2>3. outcome = "running" /\ total' = total /\ kind' = kind
    BY Zenon, <2>1, CallsEnd DEF HandlerInv, PagedNext, TakePage, ReturnNil, SendAll, SendSome,
                          SendUnavailable, SendFails
  <2>4. result = NoResult /\ accepted = {}
    BY <2>3 DEF HandlerInv, RowsWritten
  <2>5. answer = "none" /\ lookups = {} /\ lookedUp = {} /\ status # "created"
    BY SMTT(30), <2>4, NoLookupYet DEF HandlerInv, NoResult, Succeeded
  <2>6. UNCHANGED <<allEntries, i, accepted, result, lookups, lookedUp, answer, status>>
    BY <2>1 DEF vars, handlerVars
  <2> QED
    BY <2>2, <2>3, <2>4, <2>5, <2>6 DEF HandlerInv, RowsWritten
<1>2. CASE QueueResources
  <2>1. RowsWritten /\ Next /\ UNCHANGED pagedVars /\ UNCHANGED handlerVars
    BY <1>2 DEF QueueResources, RowsWritten
  <2>2. PageInv' /\ SplitInv'
    BY <2>1, NextPage, NextSplit DEF HandlerInv
  <2>3. result.err = "none" /\ allEntries' = allEntries
    <3>1. result.err = "none"
      BY <2>1, CallsEnd DEF HandlerInv
    <3>2. allEntries' = allEntries
      BY Zenon, <2>1 DEF Next, PackOversized, PackEntry, SendSucceeds, SendPartlyFails, SendGivesUp,
                  SendErrors, ReturnAfterLoop, AcceptAllBut
    <3> QED
      BY <3>1, <3>2
  <2>4. answer = "none" /\ lookups = {} /\ lookedUp = {} /\ status # "created"
    BY <2>3, NoLookupYet DEF HandlerInv, Succeeded
  <2>5. UNCHANGED <<kind, outcome, total, lookups, lookedUp, answer, status>>
    BY <2>1 DEF pagedVars, handlerVars
  <2>6. RowsWritten'
    BY <2>1, <2>5 DEF RowsWritten
  <2>7. result'.err = "nil" => i' = Len(allEntries')
    BY <2>1, <2>2, NilAtTheEnd DEF HandlerInv
  <2> QED
    BY SMTT(30), <2>2, <2>3, <2>4, <2>5, <2>6, <2>7 DEF HandlerInv
<1>3. CASE StartLookups \/ SendLookups \/ Respond \/ UNCHANGED allVars
  <2>1. UNCHANGED pagedVars /\ UNCHANGED vars
    BY <1>3 DEF StartLookups, SendLookups, Respond, allVars
  <2>2. PageInv' /\ SplitInv'
    BY <2>1, NextPage, NextSplit DEF HandlerInv
  <2>3. UNCHANGED <<kind, outcome, total, allEntries, i, accepted, result>>
    BY <2>1 DEF pagedVars, vars
  <2>4. /\ (total = Len(allEntries))'
        /\ (~RowsWritten => accepted = {} /\ result = NoResult)'
        /\ (result.err = "nil" => i = Len(allEntries))'
    BY <2>3 DEF HandlerInv, RowsWritten
  <2>5. CASE StartLookups
    <3>1. /\ result.err = "BatchRequestTooLong" /\ answer = "none" /\ answer' = "running"
          /\ lookups' = result.entries /\ lookedUp' = lookedUp /\ status' = status
      BY <2>5 DEF StartLookups, BigMessages
    <3>2. lookedUp = {} /\ status # "created"
      BY <3>1 DEF HandlerInv, Succeeded
    <3> QED
      BY <2>2, <2>3, <2>4, <3>1, <3>2 DEF HandlerInv
  <2>6. CASE SendLookups
    <3>1. /\ answer = "running" /\ answer' \in {"running", "nil", "error"}
          /\ lookups' = lookups /\ status' = status
          /\ answer' = "nil" => lookedUp' = lookups
      BY <2>6 DEF SendLookups, Lookup!Next, Lookup!Work, Lookup!Return
    <3>2. PICK more \in SUBSET lookups : lookedUp' = lookedUp \cup more
      BY <2>6 DEF SendLookups, Lookup!Next, Lookup!Work, Lookup!Return
    <3>3. status # "created"
      BY <3>1 DEF HandlerInv, Succeeded
    <3> QED
      BY <2>2, <2>3, <2>4, <3>1, <3>2, <3>3 DEF HandlerInv
  <2>7. CASE Respond
    <3>1. /\ status' = (IF Failed THEN "error" ELSE "created") /\ (Failed \/ Succeeded)
          /\ UNCHANGED <<lookups, lookedUp, answer>>
      BY <2>7 DEF Respond
    <3>2. (status = "created" => Succeeded /\ ~Failed)'
      BY <2>3, <3>1 DEF Succeeded, Failed
    <3> QED
      BY <2>2, <2>3, <2>4, <3>1, <3>2 DEF HandlerInv
  <2>8. CASE UNCHANGED allVars
    BY <2>2, <2>3, <2>4, <2>8 DEF allVars, handlerVars, HandlerInv, Succeeded, Failed
  <2> QED
    BY <1>3, <2>5, <2>6, <2>7, <2>8
<1> QED
  BY <1>1, <1>2, <1>3 DEF AddResourcesNext

\* For requests of any length: 201 means that every resource is stored and is
\* either in the queue or looked up, save what SendMessageBatch did not reach,
\* and at no time is a resource queued that is not stored.
THEOREM CreatedCorrect == AddResourcesSpec => []CreatedMeansQueued
<1>1. HandlerInv => CreatedMeansQueued
  <2> SUFFICES ASSUME HandlerInv PROVE CreatedMeansQueued
    OBVIOUS
  <2>1. RowsWritten => stored = Resources
    BY DEF HandlerInv, PageInv, RowsWritten, Items, Resources
  <2>2. Queued # {} => stored = Resources
    BY SMTT(30), <2>1, NoLookupYet DEF HandlerInv, Queued, NoResult
  <2>3. ASSUME status = "created"
        PROVE  stored = Resources /\ Queued = 1..i /\ accepted \cap lookedUp = {}
    <3>1. result.err \in {"nil", "BatchRequestTooLong"}
      BY <2>3 DEF HandlerInv, Succeeded
    <3>2. stored = Resources
      BY <2>1, <3>1 DEF HandlerInv, NoResult
    <3>3. CASE result.err = "nil"
      <4>1. lookedUp = {} /\ accepted = Messages /\ Messages = 1..i
        BY <3>3, NoLookupYet DEF HandlerInv, SplitInv, NilMeansAllAccepted, Messages
      <4> QED
        BY <3>2, <4>1 DEF Queued
    <3>4. CASE result.err = "BatchRequestTooLong"
      <4>1. answer = "nil" /\ lookedUp = result.entries
        BY <2>3, <3>4 DEF HandlerInv, Succeeded
      <4>2. accepted \cup result.entries = 1..i /\ accepted \cap result.entries = {}
        BY <3>4 DEF HandlerInv, SplitInv, TooLongSplitsConsumed
      <4> QED
        BY <3>2, <4>1, <4>2 DEF Queued
    <3> QED
      BY <3>1, <3>3, <3>4
  <2> QED
    BY <2>2, <2>3 DEF CreatedMeansQueued
<1> QED
  BY <1>1, HandlerInit, HandlerNext, PTL DEF AddResourcesSpec
=============================================================================
