------------------------- MODULE AlertPipelineProofs -------------------------
(***************************************************************************)
(* The rules engine and the alert forwarder, for any number of workers,    *)
(* batches, keys and log types and for every dedup period.                 *)
(*                                                                         *)
(* Spacing: alerts of one dedup key are numbered upwards and created more  *)
(* than the dedup period apart.                                            *)
(*                                                                         *)
(* Forwarding: the alert forwarder keeps the alert table and the delivery  *)
(* queue in step with the dedup table whatever the rules engine writes,    *)
(* however the stream is cut into batches and however often a batch is     *)
(* replayed.  ChainInv says what the stream looks like: the old image of a *)
(* record is the new image of the record before it for the same key.  With *)
(* the spacing of alerts it follows that the first record of an alert, and *)
(* no other, asks for a new alert (NewIsFirst).  ReplayInv then says which *)
(* record of its alert an item reflects while a batch that failed is being *)
(* replayed over it.                                                       *)
(*                                                                         *)
(* Counting: what S3 holds under an alert is counted in it; what a         *)
(* finished batch matched is in S3; and without a redelivery the alerts    *)
(* count every match exactly once.                                         *)
(***************************************************************************)
EXTENDS AlertPipeline, FiniteSums

\* Image r came before row in the life of one key: it is of the same alert, or
\* of one created more than the period earlier.
Precedes(r, row) ==
    \/ /\ r.alertCount = row.alertCount
       /\ r.alertCreationTime = row.alertCreationTime
    \/ /\ r.alertCount < row.alertCount
       /\ r.alertCreationTime + Period < row.alertCreationTime

\* Every image of the stream precedes the row its key has now.
StreamBehindTable ==
    \A a \in DOMAIN stream : Precedes(stream[a].new, table[stream[a].key])

\* The alert number of a row is bounded by the clock.
NumbersBounded == \A k \in Keys : table[k].alertCount <= table[k].alertCreationTime + 1

\* A worker merges only into a row that exists: rows are never deleted.
MergesIntoRow ==
    \A w \in Workers : worker[w].pc = "merge" => table[worker[w].group.key].alertCount > 0

\* An image was written for an alert, never for an absent row.
ImagesAreAlerts == \A a \in DOMAIN stream : stream[a].new.alertCount > 0

\* The inductive invariant.
SpacingInv ==
    /\ TypeOK
    /\ StreamBehindTable
    /\ NumbersBounded
    /\ MergesIntoRow
    /\ ImagesAreAlerts
    /\ AlertSpacing

-----------------------------------------------------------------------------
\* An idle worker is a worker state.
LEMMA IdleWorkerType == IdleWorker \in WorkerStates
<1>1. NoMatches \in [Groups -> Nat]
  BY DEF NoMatches
<1>2. (CHOOSE m \in Messages : TRUE) \in Messages
  BY DedupAssumption
<1>3. Groups # {}
  <2>1. PICK k \in Keys, t \in LogTypes : TRUE
    BY DedupAssumption
  <2>2. [key |-> k, logType |-> t] \in Groups
    BY <2>1 DEF Groups
  <2> QED
    BY <2>2
<1>4. (CHOOSE g \in Groups : TRUE) \in Groups
  BY <1>3
<1> QED
  BY <1>1, <1>2, <1>4, DedupAssumption DEF IdleWorker, WorkerStates, Steps, AlertNumbers

\* Precedence is transitive, so an image stays behind every later row.
LEMMA PrecedesTransitive ==
    ASSUME NEW r \in Rows, NEW s \in Rows, NEW t \in Rows, Precedes(r, s), Precedes(s, t)
    PROVE  Precedes(r, t)
<1>1. /\ r.alertCount \in Nat /\ s.alertCount \in Nat /\ t.alertCount \in Nat
      /\ r.alertCreationTime \in 0..MaxTime /\ s.alertCreationTime \in 0..MaxTime
      /\ t.alertCreationTime \in 0..MaxTime
  BY DEF Rows
<1> QED
  BY <1>1, DedupAssumption DEF Precedes

\* No alert exists at the start.
LEMMA InitSpacing == Init => SpacingInv
<1> SUFFICES ASSUME Init PROVE SpacingInv
  OBVIOUS
<1>1. NoRow \in Rows
  BY DedupAssumption DEF NoRow, Rows
<1>2. TypeOK
  BY <1>1, IdleWorkerType, DedupAssumption DEF Init, TypeOK
<1>3. NumbersBounded
  BY DEF Init, NumbersBounded, NoRow
<1>4. MergesIntoRow
  BY DEF Init, MergesIntoRow, IdleWorker
<1>5. StreamBehindTable /\ ImagesAreAlerts /\ AlertSpacing
  BY DEF Init, StreamBehindTable, ImagesAreAlerts, AlertSpacing
<1> QED
  BY <1>2, <1>3, <1>4, <1>5 DEF SpacingInv

\* A step that leaves the table and its stream alone keeps the invariant when
\* it takes its worker to a worker state and merges only what it may.
LEMMA LocalStep ==
    ASSUME SpacingInv, TypeOK', UNCHANGED <<table, stream>>,
           \A w \in Workers : worker'[w].pc = "merge" =>
               table[worker'[w].group.key].alertCount > 0
    PROVE  SpacingInv'
<1>1. StreamBehindTable'
  BY DEF SpacingInv, StreamBehindTable, Precedes
<1>2. NumbersBounded' /\ MergesIntoRow' /\ ImagesAreAlerts'
  BY DEF SpacingInv, NumbersBounded, MergesIntoRow, ImagesAreAlerts
<1>3. AlertSpacing'
  BY DEF SpacingInv, AlertSpacing
<1> QED
  BY <1>1, <1>2, <1>3 DEF SpacingInv

\* One update_item: the row written follows the row it replaces.
LEMMA WriteStep ==
    ASSUME SpacingInv, NEW w \in Workers, NEW row \in Rows, WriteRow(w, row),
           row.alertCount \in AlertNumbers,
           row.alertCount <= row.alertCreationTime + 1,
           \/ table[worker[w].group.key].alertCount = 0
           \/ Precedes(table[worker[w].group.key], row)
    PROVE  SpacingInv'
<1> DEFINE k == worker[w].group.key
           record == [key |-> k, old |-> table[k], new |-> row]
<1>1. /\ worker[w] \in WorkerStates /\ k \in Keys /\ table[k] \in Rows
      /\ table \in [Keys -> Rows] /\ stream \in Seq(StreamRecords)
      /\ Period \in Nat
  BY Zenon, DedupAssumption DEF SpacingInv, TypeOK, WorkerStates, Groups
<1>2. record \in StreamRecords
  BY <1>1 DEF StreamRecords
<1>3. /\ table' = [table EXCEPT ![k] = row]
      /\ stream' = Append(stream, record)
      /\ worker' = [worker EXCEPT ![w].pc = "put", ![w].alert = row.alertCount]
      /\ UNCHANGED <<now, receives, finished, stored>>
  BY DEF WriteRow
<1>4. TypeOK'
  <2>1. table' \in [Keys -> Rows] /\ stream' \in Seq(StreamRecords)
    BY <1>1, <1>2, <1>3
  <2>2. worker' \in [Workers -> WorkerStates]
    BY Zenon, <1>3 DEF SpacingInv, TypeOK, WorkerStates, Steps
  <2> QED
    BY <1>3, <2>1, <2>2 DEF SpacingInv, TypeOK
<1>5. NumbersBounded'
  BY <1>1, <1>3 DEF SpacingInv, NumbersBounded
<1>6. row.alertCount > 0
  BY DedupAssumption DEF AlertNumbers
<1>7. MergesIntoRow'
  <2>1. \A v \in Workers : worker'[v].group = worker[v].group
    BY Zenon, <1>3 DEF SpacingInv, TypeOK, WorkerStates
  <2>2. \A v \in Workers : worker'[v].pc = "merge" => worker[v].pc = "merge"
    BY <1>3 DEF SpacingInv, TypeOK, WorkerStates
  <2>3. \A v \in Workers : worker[v].group.key \in Keys
    BY DEF SpacingInv, TypeOK, WorkerStates, Groups
  <2> QED
    BY Zenon, <1>1, <1>3, <1>6, <2>1, <2>2, <2>3 DEF SpacingInv, MergesIntoRow
<1>8. /\ Len(stream') = Len(stream) + 1 /\ Len(stream) \in Nat
      /\ DOMAIN stream' = 1..Len(stream') /\ DOMAIN stream = 1..Len(stream)
      /\ \A a \in DOMAIN stream : stream'[a] = stream[a] /\ stream[a] \in StreamRecords
      /\ stream'[Len(stream')] = record
  BY <1>1, <1>2, <1>3
<1>9. ImagesAreAlerts'
  BY <1>6, <1>8 DEF SpacingInv, ImagesAreAlerts
<1>10. \A a \in DOMAIN stream : stream[a].key = k => Precedes(stream[a].new, row)
  <2> SUFFICES ASSUME NEW a \in DOMAIN stream, stream[a].key = k
               PROVE  Precedes(stream[a].new, row)
    OBVIOUS
  <2>1. Precedes(stream[a].new, table[k]) /\ stream[a].new.alertCount > 0
    BY DEF SpacingInv, StreamBehindTable, ImagesAreAlerts
  <2>2. stream[a].new \in Rows
    BY Zenon, <1>8 DEF StreamRecords
  <2>3. table[k].alertCount # 0
    BY SMTT(30), SMTT(60), <1>1, <2>1, <2>2 DEF Precedes, Rows
  <2>4. Precedes(table[k], row)
    BY SMTT(30), SMTT(60), <2>3
  <2> QED
    BY <1>1, <2>1, <2>2, <2>4, PrecedesTransitive
<1>11. StreamBehindTable'
  <2> SUFFICES ASSUME NEW a \in DOMAIN stream'
               PROVE  Precedes(stream'[a].new, table'[stream'[a].key])
    BY DEF StreamBehindTable, Precedes
  <2>1. CASE a = Len(stream')
    BY SMTT(30), <1>1, <1>3, <1>8, <2>1 DEF Precedes
  <2>2. CASE a # Len(stream')
    <3>1. a \in DOMAIN stream /\ stream'[a] = stream[a] /\ stream[a].key \in Keys
      BY <1>8, <2>2 DEF StreamRecords
    <3>2. CASE stream[a].key = k
      BY <1>1, <1>3, <1>10, <3>1, <3>2
    <3>3. CASE stream[a].key # k
      BY <1>1, <1>3, <3>1, <3>3 DEF SpacingInv, StreamBehindTable
    <3> QED
      BY <3>2, <3>3
  <2> QED
    BY <2>1, <2>2
<1>12. AlertSpacing'
  <2> SUFFICES ASSUME NEW a \in DOMAIN stream', NEW b \in DOMAIN stream',
                      a < b, stream'[a].key = stream'[b].key
               PROVE  Precedes(stream'[a].new, stream'[b].new)
    BY DEF AlertSpacing, Precedes
  <2>1. a \in DOMAIN stream /\ stream'[a] = stream[a]
    BY <1>8
  <2>2. CASE b = Len(stream')
    BY <1>8, <1>10, <2>1, <2>2
  <2>3. CASE b # Len(stream')
    <3>1. b \in DOMAIN stream /\ stream'[b] = stream[b]
      BY <1>8, <2>3
    <3> QED
      BY <2>1, <3>1 DEF SpacingInv, AlertSpacing, Precedes
  <2> QED
    BY <2>2, <2>3
<1> QED
  BY <1>4, <1>5, <1>7, <1>9, <1>11, <1>12 DEF SpacingInv

\* A worker changes only its own state, into a worker state that is not about
\* to merge, and nothing else that SpacingInv reads.
LEMMA WorkerStep ==
    ASSUME SpacingInv, NEW w \in Workers, NEW u \in WorkerStates,
           worker' = [worker EXCEPT ![w] = u], u.pc # "merge",
           UNCHANGED <<now, table, stream>>,
           receives' \in [Messages -> Nat], finished' \subseteq Messages,
           stored' \in [Keys \X AlertNumbers \X LogTypes -> Nat]
    PROVE  SpacingInv'
<1>1. worker' \in [Workers -> WorkerStates]
  BY DEF SpacingInv, TypeOK
<1>2. TypeOK'
  BY <1>1 DEF SpacingInv, TypeOK
<1>3. \A v \in Workers : worker'[v].pc = "merge" =>
          table[worker'[v].group.key].alertCount > 0
  BY DEF SpacingInv, TypeOK, MergesIntoRow
<1> QED
  BY <1>2, <1>3, LocalStep

\* Merging keeps the number and the creation time of the alert.
LEMMA MergedRowType ==
    ASSUME NEW old \in Rows, NEW u, u.time \in 0..MaxTime, u.data[u.group] \in Nat,
           u.group.logType \in LogTypes
    PROVE  /\ MergedRow(old, u) \in Rows
           /\ MergedRow(old, u).alertCount = old.alertCount
           /\ MergedRow(old, u).alertCreationTime = old.alertCreationTime
<1>1. old.eventCount + u.data[u.group] \in Nat
      /\ old.logTypes \cup {u.group.logType} \in SUBSET LogTypes
  BY DEF Rows
<1> QED
  BY Zenon, <1>1 DEF MergedRow, Rows

\* Every step of a worker, of the queue and of the clock keeps the invariant.
LEMMA NextSpacing == SpacingInv /\ [Next]_vars => SpacingInv'
<1> SUFFICES ASSUME SpacingInv, [Next]_vars PROVE SpacingInv'
  OBVIOUS
<1>0. /\ TypeOK
      /\ worker \in [Workers -> WorkerStates] /\ table \in [Keys -> Rows]
      /\ receives \in [Messages -> Nat] /\ finished \subseteq Messages
      /\ stored \in [Keys \X AlertNumbers \X LogTypes -> Nat] /\ now \in 0..MaxTime
      /\ NoMatches \in [Groups -> Nat]
  BY DEF SpacingInv, TypeOK, NoMatches
<1>1. ASSUME NEW w \in Workers, NEW m \in Messages, Receive(w, m) PROVE SpacingInv'
  <2> DEFINE u == [IdleWorker EXCEPT !.pc = "analyze", !.msg = m, !.todo = Matches[m]]
  <2>1. Matches[m] \in [Groups -> Nat]
    BY DedupAssumption
  <2>2. u \in WorkerStates /\ u.pc # "merge"
    BY Zenon, <2>1, IdleWorkerType DEF WorkerStates, Steps
  <2>3. worker' = [worker EXCEPT ![w] = u] /\ receives' \in [Messages -> Nat]
    BY <1>0, <1>1 DEF Receive
  <2> QED
    BY Zenon, <1>0, <1>1, <2>2, <2>3, WorkerStep DEF Receive
<1>2. ASSUME NEW w \in Workers, NEW g \in Groups, AddEvent(w, g) PROVE SpacingInv'
  <2> DEFINE data == [worker[w].data EXCEPT ![g] = @ + 1]
             added == [worker[w] EXCEPT !.todo[g] = @ - 1, !.data = data]
  <2>a. worker[w] \in WorkerStates
    BY <1>0
  <2>b. /\ worker[w].data \in [Groups -> Nat] /\ worker[w].todo \in [Groups -> Nat]
        /\ worker[w].pc = "analyze" /\ worker[w].todo[g] > 0
    BY Zenon, <1>2, <2>a DEF WorkerStates, AddEvent
  <2>c. data \in [Groups -> Nat]
    BY <2>b
  <2>1. [worker[w].todo EXCEPT ![g] = @ - 1] \in [Groups -> Nat]
    BY <2>b
  <2>2. added \in WorkerStates /\ added.pc = "analyze"
    <3> HIDE DEF data
    <3> QED
      BY Zenon, <2>a, <2>b, <2>c, <2>1 DEF WorkerStates
  <2>3. CASE worker' = [worker EXCEPT ![w] = added]
    BY Zenon, <1>0, <1>2, <2>2, <2>3, WorkerStep DEF AddEvent
  <2>4. ASSUME NEW b \in Biggest(data),
               worker' = [worker EXCEPT ![w] =
                   [added EXCEPT !.pc = "conditional", !.group = b,
                                 !.time = now, !.flushing = FALSE]]
        PROVE  SpacingInv'
    <3> DEFINE u == [added EXCEPT !.pc = "conditional", !.group = b,
                                  !.time = now, !.flushing = FALSE]
    <3>1. u \in WorkerStates /\ u.pc # "merge"
      BY Zenon, <1>0, <2>2 DEF WorkerStates, Steps, Biggest
    <3>2. worker' = [worker EXCEPT ![w] = u]
      BY <2>4
    <3> HIDE DEF u
    <3> QED
      BY Zenon, <1>0, <1>2, <3>1, <3>2, WorkerStep DEF AddEvent
  <2> QED
    BY Zenon, <1>2, <2>3, <2>4 DEF AddEvent
<1>3. ASSUME NEW w \in Workers, StartFlush(w) PROVE SpacingInv'
  <2> DEFINE u == [worker[w] EXCEPT !.pc = "flush", !.time = now, !.flushing = TRUE]
  <2>1. u \in WorkerStates /\ u.pc # "merge"
    BY Zenon, <1>0 DEF WorkerStates, Steps
  <2>2. worker' = [worker EXCEPT ![w] = u]
    BY Zenon, <1>0, <1>3 DEF StartFlush
  <2> QED
    BY Zenon, <1>0, <1>3, <2>1, <2>2, WorkerStep DEF StartFlush
<1>4. ASSUME NEW w \in Workers, NEW g \in Groups, FlushGroup(w, g) PROVE SpacingInv'
  <2> DEFINE u == [worker[w] EXCEPT !.pc = "conditional", !.group = g]
  <2>1. u \in WorkerStates /\ u.pc # "merge"
    BY Zenon, <1>0 DEF WorkerStates, Steps
  <2>2. worker' = [worker EXCEPT ![w] = u]
    BY Zenon, <1>0, <1>4 DEF FlushGroup
  <2> QED
    BY Zenon, <1>0, <1>4, <2>1, <2>2, WorkerStep DEF FlushGroup
<1>5. ASSUME NEW w \in Workers, FinishInvocation(w) PROVE SpacingInv'
  <2>1. worker[w].msg \in Messages /\ IdleWorker.pc # "merge"
    BY <1>0 DEF WorkerStates, IdleWorker
  <2> QED
    BY Zenon, <1>0, <1>5, <2>1, IdleWorkerType, WorkerStep DEF FinishInvocation
<1>6. ASSUME NEW w \in Workers, CreateAlert(w) PROVE SpacingInv'
  <2> DEFINE u == worker[w]
             old == table[u.group.key]
             row == NewAlertRow(old, u)
  <2>1. u \in WorkerStates /\ old \in Rows /\ u.group.key \in Keys
    BY Zenon, <1>0 DEF WorkerStates, Groups
  <2>2. u.time \in 0..MaxTime /\ u.data[u.group] \in Nat /\ u.group.logType \in LogTypes
    BY Zenon, <2>1 DEF WorkerStates, Groups
  <2>3. /\ old.alertCount \in Nat /\ old.alertCreationTime \in 0..MaxTime
        /\ old.alertCount <= old.alertCreationTime + 1
    BY <2>1 DEF Rows, SpacingInv, NumbersBounded
  <2>4. old.alertCount = 0 \/ old.alertCreationTime < u.time - Period
    BY <1>6 DEF CreateAlert, NeedsNewAlert
  <2>5. old.alertCount + 1 <= u.time + 1
    BY <2>2, <2>3, <2>4, DedupAssumption
  <2>6. /\ row.alertCount = old.alertCount + 1 /\ row.alertCreationTime = u.time
        /\ row \in Rows
    BY SMTT(30), <2>2, <2>3 DEF NewAlertRow, Rows
  <2>7. row.alertCount \in AlertNumbers /\ row.alertCount <= row.alertCreationTime + 1
    BY SMTT(30), SMTT(60), <2>2, <2>3, <2>5, <2>6, DedupAssumption DEF AlertNumbers
  <2>8. old.alertCount = 0 \/ Precedes(old, row)
    BY SMTT(30), <2>2, <2>3, <2>4, <2>6, DedupAssumption DEF Precedes
  <2>9. WriteRow(w, row)
    BY <1>6 DEF CreateAlert
  <2> HIDE DEF row
  <2> QED
    BY SMTT(30), <2>6, <2>7, <2>8, <2>9, WriteStep
<1>7. ASSUME NEW w \in Workers, ConditionFails(w) PROVE SpacingInv'
  <2> DEFINE u == [worker[w] EXCEPT !.pc = "merge"]
  <2>1. worker' = [worker EXCEPT ![w] = u] /\ u \in WorkerStates /\ u.group = worker[w].group
    BY Zenon, <1>0, <1>7 DEF ConditionFails, WorkerStates, Steps
  <2>2. TypeOK'
    BY <1>0, <1>7, <2>1 DEF ConditionFails, TypeOK
  <2>3. worker[w].group.key \in Keys
    BY <1>0 DEF WorkerStates, Groups
  <2>4. table[worker[w].group.key].alertCount > 0
    BY <1>0, <1>7, <2>3 DEF ConditionFails, NeedsNewAlert, Rows
  <2>5. \A v \in Workers : worker'[v].pc = "merge" =>
            table[worker'[v].group.key].alertCount > 0
    BY Zenon, <1>0, <2>1, <2>4 DEF SpacingInv, MergesIntoRow
  <2> QED
    BY <1>7, <2>2, <2>5, LocalStep DEF ConditionFails
<1>8. ASSUME NEW w \in Workers, MergeIntoAlert(w) PROVE SpacingInv'
  <2> DEFINE u == worker[w]
             old == table[u.group.key]
             row == MergedRow(old, u)
  <2>1. u \in WorkerStates /\ old \in Rows /\ u.group.key \in Keys /\ u.pc = "merge"
    BY Zenon, <1>0, <1>8 DEF WorkerStates, Groups, MergeIntoAlert
  <2>2. u.time \in 0..MaxTime /\ u.data[u.group] \in Nat /\ u.group.logType \in LogTypes
    BY Zenon, <2>1 DEF WorkerStates, Groups
  <2>3. /\ old.alertCount \in Nat /\ old.alertCreationTime \in 0..MaxTime
        /\ old.alertCount <= old.alertCreationTime + 1 /\ old.alertCount > 0
    BY SMTT(30), <2>1 DEF Rows, SpacingInv, NumbersBounded, MergesIntoRow
  <2>4. /\ row.alertCount = old.alertCount
        /\ row.alertCreationTime = old.alertCreationTime
        /\ row \in Rows
    BY Zenon, <2>1, <2>2, MergedRowType
  <2>5. row.alertCount \in AlertNumbers /\ row.alertCount <= row.alertCreationTime + 1
    BY SMTT(30), <2>3, <2>4, DedupAssumption DEF AlertNumbers
  <2>6. Precedes(old, row)
    BY SMTT(30), <2>4 DEF Precedes
  <2>7. WriteRow(w, row)
    BY <1>8 DEF MergeIntoAlert
  <2> HIDE DEF row
  <2> QED
    BY SMTT(30), <2>4, <2>5, <2>6, <2>7, WriteStep
<1>9. ASSUME NEW w \in Workers, PutObject(w) PROVE SpacingInv'
  <2> DEFINE u == [worker[w] EXCEPT !.pc = "publish"]
             a == <<worker[w].group.key, worker[w].alert, worker[w].group.logType>>
  <2>1. u \in WorkerStates /\ u.pc # "merge" /\ worker' = [worker EXCEPT ![w] = u]
    BY Zenon, <1>0, <1>9 DEF WorkerStates, Steps, PutObject
  <2>2. worker[w].group \in Groups /\ worker[w].alert \in AlertNumbers
        /\ worker[w].data[worker[w].group] \in Nat
    BY <1>0 DEF WorkerStates
  <2>3. a \in Keys \X AlertNumbers \X LogTypes
    BY <2>2 DEF Groups
  <2>4. stored' = [stored EXCEPT ![a] = @ + worker[w].data[worker[w].group]]
    BY <1>9 DEF PutObject
  <2> HIDE DEF a
  <2>5. stored' \in [Keys \X AlertNumbers \X LogTypes -> Nat]
    BY <1>0, <2>2, <2>3, <2>4
  <2> QED
    BY Zenon, <1>0, <1>9, <2>1, <2>5, WorkerStep DEF PutObject
<1>10. ASSUME NEW w \in Workers, Publish(w) PROVE SpacingInv'
  <2> DEFINE u == [worker[w] EXCEPT !.pc = IF worker[w].flushing THEN "flush" ELSE "analyze",
                                    !.data[worker[w].group] = 0]
  <2>1. u \in WorkerStates /\ u.pc # "merge"
    BY Zenon, <1>0 DEF WorkerStates, Steps
  <2>2. worker' = [worker EXCEPT ![w] = u]
    BY Zenon, <1>0, <1>10 DEF Publish
  <2> QED
    BY Zenon, <1>0, <1>10, <2>1, <2>2, WorkerStep DEF Publish
<1>11. ASSUME NEW w \in Workers, Fail(w) PROVE SpacingInv'
  <2>1. IdleWorker.pc # "merge"
    BY DEF IdleWorker
  <2> QED
    BY Zenon, <1>0, <1>11, <2>1, IdleWorkerType, WorkerStep DEF Fail
<1>12. CASE Tick
  <2>1. TypeOK'
    BY <1>0, <1>12, DedupAssumption DEF Tick, TypeOK
  <2> QED
    BY <1>12, <2>1, LocalStep DEF Tick, SpacingInv, MergesIntoRow
<1>13. CASE UNCHANGED vars
  <2>1. TypeOK'
    BY <1>0, <1>13 DEF vars, TypeOK
  <2> QED
    BY <1>13, <2>1, LocalStep DEF vars, SpacingInv, MergesIntoRow
<1> QED
  BY <1>1, <1>2, <1>3, <1>4, <1>5, <1>6, <1>7, <1>8, <1>9, <1>10, <1>11, <1>12, <1>13
  DEF Next, Advance

\* The inductive invariant holds in every reachable state.
THEOREM SpacingInvariant == Spec => []SpacingInv
BY InitSpacing, NextSpacing, PTL DEF Spec

\* The rules engine keeps its state well typed; in particular the number of an
\* alert never outruns the clock.
THEOREM TypeCorrect == Spec => []TypeOK
<1>1. SpacingInv => TypeOK
  BY DEF SpacingInv
<1> QED
  BY <1>1, SpacingInvariant, PTL

\* Alerts of one dedup key are created more than the dedup period apart.
THEOREM SpacingCorrect == Spec => []AlertSpacing
<1>1. SpacingInv => AlertSpacing
  BY DEF SpacingInv
<1> QED
  BY <1>1, SpacingInvariant, PTL

-----------------------------------------------------------------------------
\* The row of an alert is one of its images and the one with the most events.
RowIsImage ==
    \A k \in Keys :
        /\ table[k].alertCount > 0 =>
               \E a \in DOMAIN stream : stream[a].key = k /\ stream[a].new = table[k]
        /\ \A a \in DOMAIN stream :
               stream[a].key = k /\ stream[a].new.alertCount = table[k].alertCount =>
                   stream[a].new.eventCount <= table[k].eventCount

\* The events a worker has counted in alert n of key k and not yet put in S3.
Unstored(w, k, n) ==
    IF worker[w].pc = "put" /\ worker[w].group.key = k /\ worker[w].alert = n
    THEN worker[w].data[worker[w].group] ELSE 0
UnstoredUnder(k, n) == SumFunction([w \in Workers |-> Unstored(w, k, n)])
Claimed(k, n) == StoredUnder(k, n) + UnstoredUnder(k, n)

\* An image of alert n of key k counts e events.
Counts(k, n, e) ==
    \E a \in DOMAIN stream : /\ stream[a].key = k
                             /\ stream[a].new.alertCount = n
                             /\ e <= stream[a].new.eventCount

\* What is stored under an alert, or about to be, is counted in the row as long
\* as it is of that alert, and in one of its images for ever.
ClaimInv ==
    \A k \in Keys, n \in AlertNumbers :
        /\ n > table[k].alertCount => Claimed(k, n) = 0
        /\ n = table[k].alertCount => Claimed(k, n) <= table[k].eventCount
        /\ Claimed(k, n) = 0 \/ Counts(k, n, Claimed(k, n))

\* Some image of alert n of key k lists log type t.
Labelled(k, n, t) ==
    \E a \in DOMAIN stream : /\ stream[a].key = k
                             /\ stream[a].new.alertCount = n
                             /\ t \in stream[a].new.logTypes
LabelInv ==
    /\ \A w \in Workers : worker[w].pc = "put" =>
           Labelled(worker[w].group.key, worker[w].alert, worker[w].group.logType)
    /\ \A k \in Keys, n \in AlertNumbers, t \in LogTypes :
           stored[<<k, n, t>>] > 0 => Labelled(k, n, t)

StoredCountedInv == RowIsImage /\ ClaimInv /\ LabelInv

-----------------------------------------------------------------------------
\* The types of what the workers hold, and of what the table and S3 have.
HeldOK ==
    /\ IsFiniteSet(Workers) /\ IsFiniteSet(LogTypes)
    /\ Len(stream) \in Nat /\ DOMAIN stream = 1..Len(stream)
    /\ \A a \in DOMAIN stream :
          /\ stream[a].key \in Keys
          /\ stream[a].new.alertCount \in Nat /\ stream[a].new.eventCount \in Nat
    /\ \A k \in Keys : table[k].alertCount \in Nat /\ table[k].eventCount \in Nat
    /\ \A w \in Workers :
          /\ worker[w].group \in Groups /\ worker[w].group.key \in Keys
          /\ worker[w].group.logType \in LogTypes
          /\ worker[w].alert \in AlertNumbers
          /\ worker[w].data \in [Groups -> Nat]
          /\ worker[w].todo \in [Groups -> Nat]
          /\ worker[w].data[worker[w].group] \in Nat
          /\ worker[w].msg \in Messages
    /\ \A k \in Keys, n \in AlertNumbers, t \in LogTypes : stored[<<k, n, t>>] \in Nat

\* What is stored under an alert, or about to be, is a number of events.
ClaimedOK ==
    \A k \in Keys, n \in AlertNumbers :
        /\ StoredUnder(k, n) \in Nat /\ UnstoredUnder(k, n) \in Nat
        /\ [w \in Workers |-> Unstored(w, k, n)] \in [Workers -> Int]
        /\ \A w \in Workers : Unstored(w, k, n) \in Nat
        /\ [t \in LogTypes |-> stored[<<k, n, t>>]] \in [LogTypes -> Int]

\* The types of the invariant, split up.
LEMMA HeldTypes == SpacingInv => HeldOK
<1> SUFFICES ASSUME SpacingInv PROVE HeldOK
  OBVIOUS
<1>0. TypeOK
  BY DEF SpacingInv
<1>1. IsFiniteSet(Workers) /\ IsFiniteSet(LogTypes)
  BY DedupAssumption
<1>2. stream \in Seq(StreamRecords)
  BY <1>0 DEF TypeOK
<1>3. Len(stream) \in Nat /\ DOMAIN stream = 1..Len(stream)
      /\ \A a \in DOMAIN stream : stream[a] \in StreamRecords
  BY <1>2
<1>4. \A r \in StreamRecords : /\ r.key \in Keys
                               /\ r.new.alertCount \in Nat /\ r.new.eventCount \in Nat
  BY DEF StreamRecords, Rows
<1>5. \A k \in Keys : table[k].alertCount \in Nat /\ table[k].eventCount \in Nat
  BY <1>0 DEF TypeOK, Rows
<1>6. ASSUME NEW w \in Workers
      PROVE  /\ worker[w].group \in Groups /\ worker[w].group.key \in Keys
             /\ worker[w].group.logType \in LogTypes
             /\ worker[w].alert \in AlertNumbers
             /\ worker[w].data \in [Groups -> Nat]
             /\ worker[w].todo \in [Groups -> Nat]
             /\ worker[w].data[worker[w].group] \in Nat
             /\ worker[w].msg \in Messages
  <2>1. worker[w] \in WorkerStates
    BY <1>0 DEF TypeOK
  <2>2. /\ worker[w].group \in Groups /\ worker[w].alert \in AlertNumbers
        /\ worker[w].data \in [Groups -> Nat] /\ worker[w].todo \in [Groups -> Nat]
        /\ worker[w].msg \in Messages
    BY Zenon, <2>1 DEF WorkerStates
  <2> QED
    BY Zenon, <2>2 DEF Groups
<1>7. \A k \in Keys, n \in AlertNumbers, t \in LogTypes : stored[<<k, n, t>>] \in Nat
  BY <1>0 DEF TypeOK
<1> QED
  BY <1>1, <1>3, <1>4, <1>5, <1>6, <1>7 DEF HeldOK

\* Sums of numbers of events are numbers of events.
LEMMA ClaimedTypes == SpacingInv => ClaimedOK
<1> SUFFICES ASSUME SpacingInv, NEW k \in Keys, NEW n \in AlertNumbers
             PROVE  /\ StoredUnder(k, n) \in Nat /\ UnstoredUnder(k, n) \in Nat
                    /\ [w \in Workers |-> Unstored(w, k, n)] \in [Workers -> Int]
                    /\ \A w \in Workers : Unstored(w, k, n) \in Nat
                    /\ [t \in LogTypes |-> stored[<<k, n, t>>]] \in [LogTypes -> Int]
  BY DEF ClaimedOK
<1>1. \A w \in Workers : Unstored(w, k, n) \in Nat
  BY HeldTypes DEF HeldOK, Unstored
<1>2. \A t \in LogTypes : stored[<<k, n, t>>] \in Nat
  BY HeldTypes DEF HeldOK
<1> DEFINE f == [w \in Workers |-> Unstored(w, k, n)]
           g == [t \in LogTypes |-> stored[<<k, n, t>>]]
<1>3. f \in [Workers -> Int] /\ \A w \in Workers : f[w] \in Nat
  BY <1>1
<1>4. g \in [LogTypes -> Int] /\ \A t \in LogTypes : g[t] \in Nat
  BY <1>2
<1> HIDE DEF f, g
<1>5. SumFunction(f) \in Nat /\ SumFunction(g) \in Nat
  BY <1>3, <1>4, HeldTypes, SumOfFunction DEF HeldOK
<1> QED
  BY <1>1, <1>3, <1>4, <1>5 DEF f, g, UnstoredUnder, StoredUnder

\* The same after a step.
LEMMA TypesNext == SpacingInv' => HeldOK' /\ ClaimedOK'
BY HeldTypes, ClaimedTypes, PTL

-----------------------------------------------------------------------------
\* The row an update_item writes in place of old: the next alert with the
\* events of the group, or the same alert with the events added.
Follows(old, row, u) ==
    /\ u.group.logType \in row.logTypes
    /\ row.alertCount \in AlertNumbers
    /\ row.eventCount \in Nat
    /\ \/ /\ row.alertCount = old.alertCount + 1
          /\ row.eventCount = u.data[u.group]
       \/ /\ row.alertCount = old.alertCount
          /\ row.eventCount = old.eventCount + u.data[u.group]

\* A step that neither writes the table nor S3, and takes no worker to "put".
Quiet ==
    /\ UNCHANGED <<table, stream, stored>>
    /\ \A v \in Workers : worker'[v].pc # "put" \/ worker'[v] = worker[v]

\* A worker other than the one that takes the step keeps its state.
LEMMA QuietWorker ==
    ASSUME SpacingInv, NEW w \in Workers, NEW u, u.pc # "put",
           worker' = [worker EXCEPT ![w] = u], UNCHANGED <<table, stream, stored>>
    PROVE  Quiet
BY DEF Quiet, SpacingInv, TypeOK

\* update_or_create: whichever of the two calls wrote the row, it follows the
\* row it replaces.
LEMMA AlertWritten ==
    ASSUME SpacingInv, NEW w \in Workers, CreateAlert(w) \/ MergeIntoAlert(w)
    PROVE  \E row \in Rows : /\ worker[w].pc \in {"conditional", "merge"} /\ WriteRow(w, row)
                             /\ Follows(table[worker[w].group.key], row, worker[w])
<1> DEFINE u == worker[w]
           old == table[u.group.key]
<1>1. u \in WorkerStates /\ old \in Rows /\ u.group.key \in Keys
  BY Zenon DEF SpacingInv, TypeOK, WorkerStates, Groups
<1>2. u.time \in 0..MaxTime /\ u.data[u.group] \in Nat /\ u.group.logType \in LogTypes
  BY Zenon, <1>1 DEF WorkerStates, Groups
<1>3. /\ old.alertCount \in Nat /\ old.alertCreationTime \in 0..MaxTime
      /\ old.alertCount <= old.alertCreationTime + 1 /\ old.eventCount \in Nat
  BY Zenon, <1>1 DEF Rows, SpacingInv, NumbersBounded
<1>4. CASE CreateAlert(w)
  <2> DEFINE row == NewAlertRow(old, u)
  <2>1. u.pc = "conditional" /\ WriteRow(w, row)
    BY Zenon, <1>4 DEF CreateAlert
  <2>2. old.alertCount = 0 \/ old.alertCreationTime < u.time - Period
    BY Zenon, <1>4 DEF CreateAlert, NeedsNewAlert
  <2>3. old.alertCount + 1 \in AlertNumbers
    BY SMTT(30), <1>2, <1>3, <2>2, DedupAssumption DEF AlertNumbers
  <2>4. /\ row.alertCount = old.alertCount + 1 /\ row.eventCount = u.data[u.group]
        /\ row.logTypes = {u.group.logType} /\ row \in Rows
    BY SMTT(30), <1>2, <1>3 DEF NewAlertRow, Rows
  <2>5. Follows(old, row, u)
    <3> HIDE DEF row
    <3> QED
      BY Zenon, <1>2, <2>3, <2>4 DEF Follows
  <2> QED
    BY SMTT(30), SMTT(60), <2>1, <2>4, <2>5
<1>5. CASE MergeIntoAlert(w)
  <2> DEFINE row == MergedRow(old, u)
  <2>1. u.pc = "merge" /\ WriteRow(w, row)
    BY <1>5 DEF MergeIntoAlert
  <2>2. old.alertCount > 0
    BY Zenon, <2>1 DEF SpacingInv, MergesIntoRow
  <2>3. old.alertCount \in AlertNumbers
    BY <1>3, <2>2, DedupAssumption DEF AlertNumbers
  <2>4. row.alertCount = old.alertCount /\ row \in Rows
    BY <1>1, <1>2, MergedRowType
  <2>5. /\ row.eventCount = old.eventCount + u.data[u.group]
        /\ row.logTypes = old.logTypes \cup {u.group.logType}
    BY Zenon, <1>1 DEF MergedRow, Rows
  <2>6. Follows(old, row, u)
    <3> HIDE DEF row
    <3> QED
      BY SMTT(30), SMTT(60), <1>2, <1>3, <2>3, <2>4, <2>5 DEF Follows
  <2> QED
    BY <2>1, <2>4, <2>6
<1> QED
  BY <1>4, <1>5

\* What a step can do to the table, to S3 and to the workers that are about
\* to put an object.
LEMMA StepKinds ==
    ASSUME SpacingInv, [Next]_vars
    PROVE  \/ Quiet
           \/ \E w \in Workers : PutObject(w)
           \/ \E w \in Workers, row \in Rows :
                 /\ worker[w].pc # "put" /\ WriteRow(w, row)
                 /\ Follows(table[worker[w].group.key], row, worker[w])
<1>0. /\ worker \in [Workers -> WorkerStates] /\ table \in [Keys -> Rows]
      /\ IdleWorker.pc = "idle" /\ \A w \in Workers : worker[w] \in WorkerStates
  BY DEF SpacingInv, TypeOK, IdleWorker
<1>1. ASSUME NEW w \in Workers, NEW m \in Messages, Receive(w, m) PROVE Quiet
  <2> DEFINE u == [IdleWorker EXCEPT !.pc = "analyze", !.msg = m, !.todo = Matches[m]]
  <2>1. u.pc # "put"
    BY DEF IdleWorker
  <2>2. worker' = [worker EXCEPT ![w] = u] /\ UNCHANGED <<table, stream, stored>>
    BY <1>1 DEF Receive
  <2> HIDE DEF u
  <2> QED
    BY Zenon, <2>1, <2>2, QuietWorker
<1>2. ASSUME NEW w \in Workers, NEW g \in Groups, AddEvent(w, g) PROVE Quiet
  <2> DEFINE data == [worker[w].data EXCEPT ![g] = @ + 1]
             added == [worker[w] EXCEPT !.todo[g] = @ - 1, !.data = data]
  <2>1. PICK u : /\ worker' = [worker EXCEPT ![w] = u]
                 /\ \/ u = added
                    \/ \E b \in Biggest(data) :
                          u = [added EXCEPT !.pc = "conditional", !.group = b,
                                            !.time = now, !.flushing = FALSE]
    BY Zenon, <1>2 DEF AddEvent
  <2>2. worker[w].pc = "analyze" /\ UNCHANGED <<table, stream, stored>>
    BY Zenon, <1>2 DEF AddEvent
  <2>3. added.pc = "analyze" /\ \A b : [added EXCEPT !.pc = "conditional", !.group = b,
                                            !.time = now, !.flushing = FALSE].pc = "conditional"
    <3> HIDE DEF data
    <3> QED
      BY Zenon, <1>0, <2>2 DEF WorkerStates
  <2>4. u.pc # "put"
    BY Zenon, <2>1, <2>3
  <2> QED
    BY Zenon, <2>1, <2>2, <2>4, QuietWorker
<1>3. ASSUME NEW w \in Workers,
             StartFlush(w) \/ (\E g \in Groups : FlushGroup(w, g)) \/ ConditionFails(w)
                 \/ Publish(w) \/ FinishInvocation(w) \/ Fail(w)
      PROVE  Quiet
  <2>1. UNCHANGED <<table, stream, stored>>
    BY Zenon, <1>3 DEF StartFlush, FlushGroup, ConditionFails, Publish, FinishInvocation, Fail
  <2>2. \A v \in Workers \ {w} : worker'[v] = worker[v]
    BY <1>0, <1>3
    DEF StartFlush, FlushGroup, ConditionFails, Publish, FinishInvocation, Fail
  <2>3. worker'[w].pc # "put"
    BY <1>0, <1>3
    DEF StartFlush, FlushGroup, ConditionFails, Publish, FinishInvocation, Fail, WorkerStates
  <2> QED
    BY <2>1, <2>2, <2>3 DEF Quiet
<1>4. CASE Tick \/ UNCHANGED vars
  BY <1>4 DEF Quiet, Tick, vars
<1>5. ASSUME NEW w \in Workers, CreateAlert(w) \/ MergeIntoAlert(w)
      PROVE  \E row \in Rows : /\ worker[w].pc # "put" /\ WriteRow(w, row)
                               /\ Follows(table[worker[w].group.key], row, worker[w])
  BY <1>5, AlertWritten
<1> QED
  BY Zenon, <1>1, <1>2, <1>3, <1>4, <1>5 DEF Next, Advance

-----------------------------------------------------------------------------
\* A quiet step claims nothing new.
LEMMA QuietClaims ==
    ASSUME SpacingInv, SpacingInv', Quiet, NEW k \in Keys, NEW n \in AlertNumbers
    PROVE  Claimed(k, n)' <= Claimed(k, n) /\ Claimed(k, n)' \in Nat /\ Claimed(k, n) \in Nat
<1> DEFINE f == [w \in Workers |-> Unstored(w, k, n)]
           g == [w \in Workers |-> Unstored(w, k, n)']
<1>1. /\ f \in [Workers -> Int] /\ g \in [Workers -> Int] /\ IsFiniteSet(Workers)
      /\ StoredUnder(k, n) \in Nat /\ StoredUnder(k, n)' \in Nat
      /\ UnstoredUnder(k, n) \in Nat /\ UnstoredUnder(k, n)' \in Nat
  BY SMTT(30), ClaimedTypes, HeldTypes, TypesNext DEF ClaimedOK, HeldOK
<1>2. StoredUnder(k, n)' = StoredUnder(k, n)
  BY DEF Quiet, StoredUnder
<1>3. \A w \in Workers : Unstored(w, k, n)' <= Unstored(w, k, n)
  <2> SUFFICES ASSUME NEW w \in Workers PROVE Unstored(w, k, n)' <= Unstored(w, k, n)
    OBVIOUS
  <2>1. Unstored(w, k, n) \in Nat /\ Unstored(w, k, n)' \in Nat
    BY ClaimedTypes, TypesNext DEF ClaimedOK
  <2>2. CASE worker'[w].pc # "put"
    <3>1. Unstored(w, k, n)' = 0
      BY <2>2 DEF Unstored
    <3> QED
      BY <2>1, <3>1
  <2>3. CASE worker'[w] = worker[w]
    BY <2>1, <2>3 DEF Unstored
  <2> QED
    BY <2>2, <2>3 DEF Quiet
<1>4. \A w \in Workers : g[w] <= f[w]
  BY <1>3
<1>5. UnstoredUnder(k, n)' = SumFunction(g) /\ UnstoredUnder(k, n) = SumFunction(f)
  BY DEF UnstoredUnder
<1> HIDE DEF f, g
<1>6. SumFunction(g) <= SumFunction(f)
  BY <1>1, <1>4, SumOfGreater
<1> QED
  BY <1>1, <1>2, <1>5, <1>6 DEF Claimed

\* What the worker that takes the step has put aside changes by its own share.
LEMMA UnstoredChange ==
    ASSUME SpacingInv, SpacingInv', NEW k \in Keys, NEW n \in AlertNumbers,
           NEW w \in Workers, \A v \in Workers \ {w} : worker'[v] = worker[v]
    PROVE  UnstoredUnder(k, n)' =
               UnstoredUnder(k, n) - Unstored(w, k, n) + Unstored(w, k, n)'
<1> DEFINE f == [v \in Workers |-> Unstored(v, k, n)]
           g == [v \in Workers |-> Unstored(v, k, n)']
<1>1. f \in [Workers -> Int] /\ g \in [Workers -> Int] /\ IsFiniteSet(Workers)
  BY Zenon, ClaimedTypes, HeldTypes, TypesNext DEF ClaimedOK, HeldOK
<1>2. \A v \in Workers \ {w} : g[v] = f[v]
  BY Zenon DEF Unstored
<1>3. f[w] = Unstored(w, k, n) /\ g[w] = Unstored(w, k, n)'
  OBVIOUS
<1>4. UnstoredUnder(k, n)' = SumFunction(g) /\ UnstoredUnder(k, n) = SumFunction(f)
  BY DEF UnstoredUnder
<1> HIDE DEF f, g
<1>5. SumFunction(g) = SumFunction(f) - f[w] + g[w]
  BY <1>1, <1>2, SumOfUpdate
<1> QED
  BY Zenon, <1>3, <1>4, <1>5

\* Putting the object moves events from what is put aside to what is stored.
LEMMA PutClaims ==
    ASSUME SpacingInv, SpacingInv', NEW k \in Keys, NEW n \in AlertNumbers,
           NEW w \in Workers, PutObject(w)
    PROVE  Claimed(k, n)' = Claimed(k, n) /\ Claimed(k, n) \in Nat
<1>1. /\ worker[w].pc = "put" /\ worker'[w].pc = "publish"
      /\ \A v \in Workers \ {w} : worker'[v] = worker[v]
  BY DEF PutObject, SpacingInv, TypeOK, WorkerStates
<1>2. UnstoredUnder(k, n)' =
          UnstoredUnder(k, n) - Unstored(w, k, n) + Unstored(w, k, n)'
  BY <1>1, UnstoredChange
<1>3. Unstored(w, k, n)' = 0
  BY <1>1 DEF Unstored
<1> DEFINE d == worker[w].data[worker[w].group]
           c == worker[w].group.logType
           f == [t \in LogTypes |-> stored[<<k, n, t>>]]
           g == [t \in LogTypes |-> stored'[<<k, n, t>>]]
<1>4. /\ f \in [LogTypes -> Int] /\ g \in [LogTypes -> Int] /\ IsFiniteSet(LogTypes)
      /\ c \in LogTypes /\ d \in Nat /\ worker[w].group.key \in Keys
      /\ worker[w].alert \in AlertNumbers
      /\ StoredUnder(k, n) \in Nat /\ UnstoredUnder(k, n) \in Nat
  BY Zenon, ClaimedTypes, HeldTypes, TypesNext DEF ClaimedOK, HeldOK
<1>5. StoredUnder(k, n) = SumFunction(f) /\ StoredUnder(k, n)' = SumFunction(g)
  BY DEF StoredUnder
<1>6. /\ stored \in [Keys \X AlertNumbers \X LogTypes -> Nat]
      /\ stored' = [stored EXCEPT ![<<worker[w].group.key, worker[w].alert, c>>] = @ + d]
  BY DEF PutObject, SpacingInv, TypeOK
<1> HIDE DEF c, d
<1>7. CASE worker[w].group.key = k /\ worker[w].alert = n
  <2>1. Unstored(w, k, n) = d
    BY Zenon, <1>1, <1>7 DEF Unstored, d
  <2>2. g[c] = f[c] + d /\ f[c] \in Int
    BY <1>4, <1>6, <1>7
  <2>3. \A t \in LogTypes \ {c} : g[t] = f[t]
    BY <1>4, <1>6, <1>7
  <2> HIDE DEF f, g
  <2>4. SumFunction(g) = SumFunction(f) - f[c] + g[c]
    BY <1>4, <2>3, SumOfUpdate
  <2> QED
    BY <1>2, <1>3, <1>4, <1>5, <2>1, <2>2, <2>4 DEF Claimed
<1>8. CASE ~(worker[w].group.key = k /\ worker[w].alert = n)
  <2>1. Unstored(w, k, n) = 0
    BY Zenon, <1>8 DEF Unstored
  <2>2. \A t \in LogTypes : stored'[<<k, n, t>>] = stored[<<k, n, t>>]
    BY Zenon, <1>4, <1>6, <1>8
  <2>3. f = g
    BY Zenon, <2>2
  <2> HIDE DEF f, g
  <2> QED
    BY <1>2, <1>3, <1>4, <1>5, <2>1, <2>3 DEF Claimed
<1> QED
  BY Zenon, <1>7, <1>8

\* Writing the row puts the events of the group aside for its alert.
LEMMA WriteClaims ==
    ASSUME SpacingInv, SpacingInv', NEW k \in Keys, NEW n \in AlertNumbers,
           NEW w \in Workers, NEW row, worker[w].pc # "put", WriteRow(w, row)
    PROVE  /\ Claimed(k, n) \in Nat
           /\ Claimed(k, n)' = Claimed(k, n)
                 + (IF k = worker[w].group.key /\ n = row.alertCount
                    THEN worker[w].data[worker[w].group] ELSE 0)
<1>1. /\ worker'[w].pc = "put" /\ worker'[w].alert = row.alertCount
      /\ worker'[w].group = worker[w].group /\ worker'[w].data = worker[w].data
      /\ \A v \in Workers \ {w} : worker'[v] = worker[v]
  BY SMTT(30) DEF WriteRow, SpacingInv, TypeOK, WorkerStates
<1>2. UnstoredUnder(k, n)' =
          UnstoredUnder(k, n) - Unstored(w, k, n) + Unstored(w, k, n)'
  BY <1>1, UnstoredChange
<1>3. Unstored(w, k, n) = 0
  BY DEF Unstored
<1>4. Unstored(w, k, n)' = IF k = worker[w].group.key /\ n = row.alertCount
                           THEN worker[w].data[worker[w].group] ELSE 0
  BY <1>1 DEF Unstored
<1>5. StoredUnder(k, n)' = StoredUnder(k, n)
  BY Zenon DEF WriteRow, StoredUnder
<1>6. /\ StoredUnder(k, n) \in Nat /\ UnstoredUnder(k, n) \in Nat
      /\ worker[w].data[worker[w].group] \in Nat
  BY Zenon, ClaimedTypes, HeldTypes DEF ClaimedOK, HeldOK
<1> QED
  BY <1>2, <1>3, <1>4, <1>5, <1>6 DEF Claimed

\* An update_item replaces one row and adds one image, the row it wrote.
LEMMA WriteImages ==
    ASSUME SpacingInv, NEW w \in Workers, NEW row, WriteRow(w, row)
    PROVE  /\ worker[w].group.key \in Keys
           /\ table'[worker[w].group.key] = row
           /\ \A k \in Keys \ {worker[w].group.key} : table'[k] = table[k]
           /\ DOMAIN stream' = 1..(Len(stream) + 1)
           /\ \A a \in DOMAIN stream : a \in DOMAIN stream' /\ stream'[a] = stream[a]
           /\ \A a \in DOMAIN stream' : a \in DOMAIN stream \/ a = Len(stream) + 1
           /\ Len(stream) + 1 \in DOMAIN stream'
           /\ stream'[Len(stream) + 1].key = worker[w].group.key
           /\ stream'[Len(stream) + 1].new = row
<1> DEFINE k == worker[w].group.key
           record == [key |-> k, old |-> table[k], new |-> row]
<1>1. k \in Keys /\ table \in [Keys -> Rows] /\ stream \in Seq(StreamRecords)
  BY HeldTypes DEF HeldOK, SpacingInv, TypeOK
<1>2. table' = [table EXCEPT ![k] = row] /\ stream' = Append(stream, record)
  BY DEF WriteRow
<1>3. record.key = k /\ record.new = row
  OBVIOUS
<1> HIDE DEF record
<1>4. /\ DOMAIN stream' = 1..(Len(stream) + 1) /\ Len(stream) \in Nat
      /\ DOMAIN stream = 1..Len(stream)
      /\ \A a \in DOMAIN stream : stream'[a] = stream[a]
      /\ stream'[Len(stream) + 1] = record
  BY <1>1, <1>2
<1> QED
  BY <1>1, <1>2, <1>3, <1>4

\* An alert that an image counts, or lists a log type of, stays so.
LEMMA ImagesStay ==
    ASSUME \A a \in DOMAIN stream : a \in DOMAIN stream' /\ stream'[a] = stream[a],
           NEW k, NEW n, NEW e
    PROVE  (Counts(k, n, e) => Counts(k, n, e)') /\ (Labelled(k, n, e) => Labelled(k, n, e)')
BY DEF Counts, Labelled

\* No alert has a claim at the start.
LEMMA InitStoredCounted == Init => StoredCountedInv
<1> SUFFICES ASSUME Init PROVE StoredCountedInv
  OBVIOUS
<1>1. RowIsImage
  BY DEF Init, RowIsImage, NoRow
<1>2. LabelInv
  BY DEF Init, LabelInv, IdleWorker
<1>3. ASSUME NEW k \in Keys, NEW n \in AlertNumbers PROVE Claimed(k, n) = 0
  <2> DEFINE f == [w \in Workers |-> Unstored(w, k, n)]
             g == [t \in LogTypes |-> stored[<<k, n, t>>]]
  <2>1. f \in [Workers -> Int] /\ \A w \in Workers : f[w] = 0
    BY DEF Init, Unstored, IdleWorker
  <2>2. g \in [LogTypes -> Int] /\ \A t \in LogTypes : g[t] = 0
    BY DEF Init
  <2> HIDE DEF f, g
  <2>3. SumFunction(f) = 0 /\ SumFunction(g) = 0
    BY Zenon, <2>1, <2>2, SumOfZeros, DedupAssumption
  <2> QED
    BY <2>3 DEF f, g, Claimed, StoredUnder, UnstoredUnder
<1>4. ClaimInv
  <2>1. \A k \in Keys : table[k].eventCount = 0
    BY Zenon DEF Init, NoRow
  <2> QED
    BY <1>3, <2>1 DEF ClaimInv
<1> QED
  BY Zenon, <1>1, <1>2, <1>4 DEF StoredCountedInv

\* Every step keeps what is claimed counted.
LEMMA NextStoredCounted ==
    SpacingInv /\ SpacingInv' /\ StoredCountedInv /\ [Next]_vars => StoredCountedInv'
<1> SUFFICES ASSUME SpacingInv, SpacingInv', StoredCountedInv, [Next]_vars
             PROVE  StoredCountedInv'
  OBVIOUS
<1>0. RowIsImage /\ ClaimInv /\ LabelInv /\ HeldOK
  BY HeldTypes DEF StoredCountedInv
<1>1. CASE Quiet
  <2>0. UNCHANGED <<table, stream, stored>>
    BY Zenon, <1>1 DEF Quiet
  <2>1. RowIsImage'
    BY Zenon, <1>0, <2>0 DEF RowIsImage
  <2>2. ClaimInv'
    <3> SUFFICES ASSUME NEW k \in Keys, NEW n \in AlertNumbers
                 PROVE  /\ n > table[k].alertCount => Claimed(k, n)' = 0
                        /\ n = table[k].alertCount => Claimed(k, n)' <= table[k].eventCount
                        /\ Claimed(k, n)' = 0 \/ Counts(k, n, Claimed(k, n)')
      BY <2>0 DEF ClaimInv, Counts
    <3>1. Claimed(k, n)' <= Claimed(k, n) /\ Claimed(k, n)' \in Nat /\ Claimed(k, n) \in Nat
      BY Zenon, <1>1, QuietClaims
    <3>2. /\ n > table[k].alertCount => Claimed(k, n) = 0
          /\ n = table[k].alertCount => Claimed(k, n) <= table[k].eventCount
          /\ Claimed(k, n) = 0 \/ Counts(k, n, Claimed(k, n))
      BY Zenon, <1>0 DEF ClaimInv
    <3>3. table[k].eventCount \in Nat
      BY Zenon, <1>0 DEF HeldOK
    <3>4. \A c, d \in Nat : c <= d /\ Counts(k, n, d) => Counts(k, n, c)
      BY SMTT(30), <1>0 DEF Counts, HeldOK
    <3> QED
      BY <3>1, <3>2, <3>3, <3>4
  <2>3. LabelInv'
    BY <1>0, <1>1, <2>0 DEF LabelInv, Labelled, Quiet
  <2> QED
    BY <2>1, <2>2, <2>3 DEF StoredCountedInv
<1>2. ASSUME NEW w \in Workers, PutObject(w) PROVE StoredCountedInv'
  <2>0. UNCHANGED <<table, stream>>
    BY Zenon, <1>2 DEF PutObject
  <2>1. RowIsImage'
    BY Zenon, <1>0, <2>0 DEF RowIsImage
  <2>2. ClaimInv'
    <3>1. \A k \in Keys, n \in AlertNumbers : Claimed(k, n)' = Claimed(k, n)
      BY Zenon, <1>2, PutClaims
    <3> QED
      BY <1>0, <2>0, <3>1 DEF ClaimInv, Counts
  <2>3. LabelInv'
    <3>1. /\ worker[w].pc = "put" /\ worker'[w].pc = "publish"
          /\ \A v \in Workers \ {w} : worker'[v] = worker[v]
      BY <1>2 DEF PutObject, SpacingInv, TypeOK, WorkerStates
    <3>2. \A v \in Workers : worker'[v].pc = "put" =>
              Labelled(worker'[v].group.key, worker'[v].alert, worker'[v].group.logType)
      BY Zenon, <1>0, <3>1 DEF LabelInv
    <3>3. \A k \in Keys, n \in AlertNumbers, t \in LogTypes :
              \/ stored'[<<k, n, t>>] = stored[<<k, n, t>>]
              \/ k = worker[w].group.key /\ n = worker[w].alert /\ t = worker[w].group.logType
      BY Zenon, <1>2 DEF PutObject, SpacingInv, TypeOK
    <3>4. \A k \in Keys, n \in AlertNumbers, t \in LogTypes :
              stored'[<<k, n, t>>] > 0 => Labelled(k, n, t)
      BY <1>0, <3>1, <3>3 DEF LabelInv
    <3> QED
      BY <2>0, <3>2, <3>4 DEF LabelInv, Labelled
  <2> QED
    BY <2>1, <2>2, <2>3 DEF StoredCountedInv
<1>3. ASSUME NEW w \in Workers, NEW row \in Rows, worker[w].pc # "put", WriteRow(w, row),
             Follows(table[worker[w].group.key], row, worker[w])
      PROVE  StoredCountedInv'
  <2> DEFINE j == worker[w].group.key
             d == worker[w].data[worker[w].group]
  <2>0. /\ j \in Keys /\ d \in Nat /\ row.alertCount \in AlertNumbers
        /\ row.alertCount \in Nat /\ row.eventCount \in Nat
        /\ table[j].alertCount \in Nat /\ table[j].eventCount \in Nat
        /\ table'[j] = row /\ \A k \in Keys \ {j} : table'[k] = table[k]
        /\ worker[w].group.logType \in row.logTypes
        /\ \/ row.alertCount = table[j].alertCount + 1 /\ row.eventCount = d
           \/ row.alertCount = table[j].alertCount /\ row.eventCount = table[j].eventCount + d
    BY Zenon, <1>0, <1>3, WriteImages DEF Follows, HeldOK, Rows
  <2>1. /\ \A a \in DOMAIN stream : a \in DOMAIN stream' /\ stream'[a] = stream[a]
        /\ \A a \in DOMAIN stream' : a \in DOMAIN stream \/ a = Len(stream) + 1
        /\ Len(stream) + 1 \in DOMAIN stream'
        /\ stream'[Len(stream) + 1].key = j /\ stream'[Len(stream) + 1].new = row
    BY Zenon, <1>3, WriteImages
  <2> HIDE DEF d, j
  <2>2. \A a \in DOMAIN stream : stream[a].key = j => stream[a].new.alertCount <= table[j].alertCount
    BY SMTT(30), SMTT(60), <1>0, <2>0 DEF SpacingInv, StreamBehindTable, Precedes, HeldOK
  <2>3. RowIsImage'
    <3> SUFFICES ASSUME NEW k \in Keys
                 PROVE  /\ table'[k].alertCount > 0 =>
                               \E a \in DOMAIN stream' :
                                   stream'[a].key = k /\ stream'[a].new = table'[k]
                        /\ \A a \in DOMAIN stream' :
                               stream'[a].key = k /\ stream'[a].new.alertCount = table'[k].alertCount =>
                                   stream'[a].new.eventCount <= table'[k].eventCount
      BY Zenon DEF RowIsImage
    <3>1. CASE k = j
      <4>1. ASSUME NEW a \in DOMAIN stream, stream[a].key = j,
                   stream[a].new.alertCount = row.alertCount
            PROVE  stream[a].new.eventCount <= row.eventCount
        <5>1. row.alertCount = table[j].alertCount /\ row.eventCount = table[j].eventCount + d
          BY <2>0, <2>2, <4>1
        <5>2. stream[a].new.eventCount <= table[j].eventCount /\ stream[a].new.eventCount \in Nat
          BY Zenon, <1>0, <2>0, <4>1, <5>1 DEF RowIsImage, HeldOK
        <5> QED
          BY SMTT(30), <2>0, <5>1, <5>2
      <4> QED
        BY SMTT(30), <2>0, <2>1, <3>1, <4>1
    <3>2. CASE k # j
      BY SMTT(30), <1>0, <2>0, <2>1, <3>2 DEF RowIsImage
    <3> QED
      BY Zenon, <3>1, <3>2
  <2>4. ClaimInv'
    <3> SUFFICES ASSUME NEW k \in Keys, NEW n \in AlertNumbers
                 PROVE  /\ n > table'[k].alertCount => Claimed(k, n)' = 0
                        /\ n = table'[k].alertCount => Claimed(k, n)' <= table'[k].eventCount
                        /\ Claimed(k, n)' = 0 \/ Counts(k, n, Claimed(k, n))'
      BY Zenon DEF ClaimInv
    <3>1. /\ Claimed(k, n) \in Nat
          /\ Claimed(k, n)' = Claimed(k, n) + (IF k = j /\ n = row.alertCount THEN d ELSE 0)
      BY Zenon, <1>3, WriteClaims DEF j, d
    <3>2. /\ n > table[k].alertCount => Claimed(k, n) = 0
          /\ n = table[k].alertCount => Claimed(k, n) <= table[k].eventCount
          /\ Claimed(k, n) = 0 \/ Counts(k, n, Claimed(k, n))
      BY <1>0 DEF ClaimInv
    <3>3. n \in Nat
      BY DEF AlertNumbers
    <3>4. CASE k = j /\ n = row.alertCount
      <4>1. Claimed(k, n)' <= row.eventCount
        BY <2>0, <3>1, <3>2, <3>4
      <4>2. Counts(k, n, Claimed(k, n))'
        BY Zenon, <2>1, <3>4, <4>1 DEF Counts
      <4> QED
        BY <2>0, <3>3, <3>4, <4>1, <4>2
    <3>5. CASE ~(k = j /\ n = row.alertCount)
      <4>1. Claimed(k, n)' = Claimed(k, n)
        BY <3>1, <3>5
      <4>2. Counts(k, n, Claimed(k, n)) => Counts(k, n, Claimed(k, n))'
        BY Zenon, <2>1, <4>1 DEF Counts
      <4>3. /\ n > table'[k].alertCount => n > table[k].alertCount
            /\ n = table'[k].alertCount => table'[k] = table[k]
        BY <2>0, <3>3, <3>5
      <4> QED
        BY Zenon, <3>2, <4>1, <4>2, <4>3
    <3> QED
      BY <3>4, <3>5
  <2>5. LabelInv'
    <3>1. \A k, n, t : Labelled(k, n, t) => Labelled(k, n, t)'
      BY <2>1 DEF Labelled
    <3>2. stored' = stored
      BY <1>3 DEF WriteRow
    <3>3. \A v \in Workers \ {w} : worker'[v] = worker[v]
      BY <1>3 DEF WriteRow, SpacingInv, TypeOK
    <3>4. worker'[w].alert = row.alertCount /\ worker'[w].group = worker[w].group
      BY SMTT(30), <1>3 DEF WriteRow, SpacingInv, TypeOK, WorkerStates
    <3>5. \A i, n, t : i = j /\ n = row.alertCount /\ t = worker[w].group.logType =>
                          Labelled(i, n, t)'
      BY Zenon, <2>0, <2>1 DEF Labelled
    <3>6. ASSUME NEW v \in Workers, worker'[v].pc = "put"
          PROVE  Labelled(worker[v].group.key, worker[v].alert, worker[v].group.logType)'
      <4>1. PICK i, n, t : /\ i = worker'[v].group.key /\ n = worker'[v].alert
                           /\ t = worker'[v].group.logType
        BY Zenon
      <4>2. Labelled(i, n, t)'
        <5>1. CASE v = w
          BY Zenon, <3>4, <3>5, <4>1, <5>1 DEF j
        <5>2. CASE v # w
          BY Zenon, <1>0, <3>1, <3>3, <3>6, <4>1, <5>2 DEF LabelInv
        <5> QED
          BY <5>1, <5>2
      <4> QED
        BY <4>1, <4>2 DEF Labelled
    <3> QED
      BY Zenon, <1>0, <3>1, <3>2, <3>6 DEF LabelInv
  <2> QED
    BY <2>3, <2>4, <2>5 DEF StoredCountedInv
<1> QED
  BY <1>1, <1>2, <1>3, StepKinds

\* The images of an alert are finitely many, so that EventsOf is the largest of
\* their counts.
LEMMA EventsOfImages ==
    ASSUME HeldOK, NEW k, NEW n
    PROVE  /\ EventsOf(k, n) \in Nat
           /\ \A row \in ImagesOf(k, n) : row.eventCount <= EventsOf(k, n)
           /\ EventsOf(k, n) = 0 \/ \E row \in ImagesOf(k, n) : row.eventCount = EventsOf(k, n)
<1> DEFINE I == {b \in DOMAIN stream : stream[b].key = k /\ stream[b].new.alertCount = n}
           C == {row.eventCount : row \in ImagesOf(k, n)}
           S == {0} \cup C
<1>1. IsFiniteSet(DOMAIN stream)
  BY SMTT(30), FS_Interval DEF HeldOK
<1>2. IsFiniteSet(I)
  BY <1>1, FS_Subset
<1>3. ImagesOf(k, n) = {stream[a].new : a \in I}
  BY Zenon DEF ImagesOf
<1>4. IsFiniteSet({stream[a].new : a \in I})
  <2> DEFINE f == [a \in I |-> stream[a].new]
  <2> HIDE DEF I
  <2>1. {f[a] : a \in I} = {stream[a].new : a \in I}
    OBVIOUS
  <2>2. f \in Surjection(I, {f[a] : a \in I})
    BY DEF Surjection
  <2> HIDE DEF f
  <2> QED
    BY Zenon, <1>2, <2>1, <2>2, FS_Surjection
<1>5. IsFiniteSet(ImagesOf(k, n))
  BY Zenon, <1>3, <1>4
<1>6. IsFiniteSet(C)
  <2> DEFINE I2 == ImagesOf(k, n)
             f == [row \in I2 |-> row.eventCount]
  <2> HIDE DEF I2
  <2>1. f \in Surjection(I2, {f[row] : row \in I2})
    BY DEF Surjection
  <2>2. {f[row] : row \in I2} = C
    BY DEF I2
  <2> HIDE DEF f
  <2> QED
    BY Zenon, <1>5, <2>1, <2>2, FS_Surjection DEF I2
<1>7. IsFiniteSet(S)
  BY Zenon, <1>6, FS_Singleton, FS_Union
<1>8. \A row \in ImagesOf(k, n) : row.eventCount \in Nat
  BY DEF ImagesOf, HeldOK
<1>9. S \in SUBSET Int /\ S # {} /\ \A x \in S : x \in Nat
  BY <1>8
<1>10. EventsOf(k, n) = Max(S)
  BY DEF EventsOf
<1>11. \A x \in S : x = 0 \/ \E row \in ImagesOf(k, n) : row.eventCount = x
  OBVIOUS
<1>12. \A row \in ImagesOf(k, n) : row.eventCount \in S
  OBVIOUS
<1> HIDE DEF S
<1>13. Max(S) \in S /\ \A x \in S : x <= Max(S)
  BY Zenon, <1>7, <1>9, MaxOfFinite
<1> QED
  BY Zenon, <1>9, <1>10, <1>11, <1>12, <1>13

\* What S3 holds under an alert is counted in an image of it.
LEMMA ClaimsAreCounted == SpacingInv /\ StoredCountedInv => StoredIsCounted
<1> SUFFICES ASSUME SpacingInv, StoredCountedInv, NEW k \in Keys, NEW n \in AlertNumbers
             PROVE  /\ StoredUnder(k, n) <= EventsOf(k, n)
                    /\ \A t \in LogTypes : stored[<<k, n, t>>] > 0 =>
                           \E row \in ImagesOf(k, n) : t \in row.logTypes
  BY DEF StoredIsCounted
<1>1. HeldOK /\ ClaimedOK /\ ClaimInv /\ LabelInv
  BY Zenon, HeldTypes, ClaimedTypes DEF StoredCountedInv
<1>2. StoredUnder(k, n) \in Nat /\ UnstoredUnder(k, n) \in Nat
  BY <1>1 DEF ClaimedOK
<1>3. Claimed(k, n) = 0 \/ Counts(k, n, Claimed(k, n))
  BY <1>1 DEF ClaimInv
<1>4. /\ EventsOf(k, n) \in Nat
      /\ \A row \in ImagesOf(k, n) : row.eventCount <= EventsOf(k, n)
  BY Zenon, <1>1, EventsOfImages
<1>5. \A a \in DOMAIN stream : stream[a].key = k /\ stream[a].new.alertCount = n =>
          stream[a].new \in ImagesOf(k, n) /\ stream[a].new.eventCount \in Nat
  BY Zenon, <1>1 DEF ImagesOf, HeldOK
<1>6. Claimed(k, n) <= EventsOf(k, n)
  BY <1>2, <1>3, <1>4, <1>5 DEF Counts, Claimed
<1>7. StoredUnder(k, n) <= EventsOf(k, n)
  BY <1>2, <1>4, <1>6 DEF Claimed
<1>8. \A t \in LogTypes : stored[<<k, n, t>>] > 0 =>
          \E row \in ImagesOf(k, n) : t \in row.logTypes
  BY <1>1, <1>5 DEF LabelInv, Labelled
<1> QED
  BY Zenon, <1>7, <1>8

\* An alert never claims fewer events than S3 holds under its identifier, and
\* lists the log type of each of them.
THEOREM StoredCorrect == Spec => []StoredIsCounted
<1>1. Init => SpacingInv /\ StoredCountedInv
  BY InitSpacing, InitStoredCounted
<1>2. SpacingInv /\ StoredCountedInv /\ [Next]_vars => (SpacingInv /\ StoredCountedInv)'
  BY NextSpacing, NextStoredCounted
<1> QED
  BY <1>1, <1>2, ClaimsAreCounted, PTL DEF Spec

-----------------------------------------------------------------------------
\* What a worker with state u has done of group g of its batch: the events it
\* has matched, without those that it still has in its buffer.  The events of
\* the group it is writing count as done at the program counters done.
Part(u, g, done) ==
    IF u.pc = "idle" THEN 0
    ELSE Matches[u.msg][g] - u.todo[g]
             - (IF u.pc \in done /\ u.group = g THEN 0 ELSE u.data[g])
AfterPut == {"publish"}
AfterWrite == {"put", "publish"}

\* A batch is matched at most once by a worker, and flush starts when all of
\* it has been matched.
WorkOK(u) ==
    u.pc # "idle" =>
        /\ \A g \in Groups : u.todo[g] + u.data[g] <= Matches[u.msg][g]
        /\ u.pc = "flush" => u.flushing
        /\ u.flushing => u.todo = NoMatches
WorkInv == \A w \in Workers : WorkOK(worker[w])

\* The worker goes on with its batch and no part of it is done or undone.
GoesOn(u, v) ==
    /\ u.pc # "idle" /\ v.pc # "idle" /\ v.msg = u.msg
    /\ \A g \in Groups : /\ Part(v, g, AfterPut) = Part(u, g, AfterPut)
                         /\ Part(v, g, AfterWrite) = Part(u, g, AfterWrite)
    /\ WorkOK(v)

\* A worker that keeps its batch, its matches and its buffer, outside the
\* write of a group, goes on.
LEMMA GoesOnUnchanged ==
    ASSUME NEW u \in WorkerStates, NEW v \in WorkerStates, WorkOK(u),
           u.pc \in {"analyze", "flush", "conditional"},
           v.pc \in {"flush", "conditional", "merge"},
           v.msg = u.msg, v.todo = u.todo, v.data = u.data,
           v.pc = "flush" => v.flushing, v.flushing => v.todo = NoMatches
    PROVE  GoesOn(u, v)
<1>1. \A g \in Groups : /\ Part(v, g, AfterPut) = Part(u, g, AfterPut)
                        /\ Part(v, g, AfterWrite) = Part(u, g, AfterWrite)
  BY DEF Part, AfterPut, AfterWrite
<1>2. WorkOK(v)
  BY Zenon DEF WorkOK
<1> QED
  BY Zenon, <1>1, <1>2 DEF GoesOn

\* A matched event goes from the batch to the buffer.
LEMMA GoesOnAdd ==
    ASSUME NEW u \in WorkerStates, NEW v, NEW g \in Groups, WorkOK(u),
           u.pc = "analyze", u.todo[g] > 0, v.pc \in {"analyze", "conditional"},
           v.msg = u.msg, v.todo = [u.todo EXCEPT ![g] = @ - 1],
           v.data = [u.data EXCEPT ![g] = @ + 1],
           v.flushing = FALSE \/ v.flushing = u.flushing
    PROVE  GoesOn(u, v)
<1>0. /\ u.todo \in [Groups -> Nat] /\ u.data \in [Groups -> Nat] /\ u.msg \in Messages
      /\ Matches[u.msg] \in [Groups -> Nat]
  BY Zenon, DedupAssumption DEF WorkerStates
<1>1. \A h \in Groups : /\ v.todo[h] + v.data[h] = u.todo[h] + u.data[h]
                        /\ v.todo[h] \in Int /\ v.data[h] \in Int
                        /\ u.todo[h] \in Int /\ u.data[h] \in Int /\ Matches[u.msg][h] \in Int
  BY <1>0
<1>2. \A h \in Groups : /\ Part(v, h, AfterPut) = Part(u, h, AfterPut)
                        /\ Part(v, h, AfterWrite) = Part(u, h, AfterWrite)
  <2> SUFFICES ASSUME NEW h \in Groups
               PROVE  /\ Part(v, h, AfterPut) = Part(u, h, AfterPut)
                      /\ Part(v, h, AfterWrite) = Part(u, h, AfterWrite)
    BY Zenon
  <2>1. /\ Part(u, h, AfterPut) = Matches[u.msg][h] - u.todo[h] - u.data[h]
        /\ Part(u, h, AfterWrite) = Matches[u.msg][h] - u.todo[h] - u.data[h]
    BY Zenon DEF Part, AfterPut, AfterWrite
  <2>2. /\ Part(v, h, AfterPut) = Matches[u.msg][h] - v.todo[h] - v.data[h]
        /\ Part(v, h, AfterWrite) = Matches[u.msg][h] - v.todo[h] - v.data[h]
    BY Zenon DEF Part, AfterPut, AfterWrite
  <2> QED
    BY SMTT(30), <1>1, <2>1, <2>2
<1>3. u.todo # NoMatches
  BY <1>0 DEF NoMatches
<1>4. ~u.flushing
  BY Zenon, <1>3 DEF WorkOK
<1>5. WorkOK(v)
  BY Zenon, <1>1, <1>4 DEF WorkOK
<1> QED
  BY Zenon, <1>2, <1>5 DEF GoesOn

\* Publish empties the buffer of the group that was written.
LEMMA GoesOnPublish ==
    ASSUME NEW u \in WorkerStates, NEW v, WorkOK(u), u.pc = "publish",
           v.pc = IF u.flushing THEN "flush" ELSE "analyze",
           v.msg = u.msg, v.todo = u.todo, v.flushing = u.flushing,
           v.data = [u.data EXCEPT ![u.group] = 0]
    PROVE  GoesOn(u, v)
<1>0. /\ u.todo \in [Groups -> Nat] /\ u.data \in [Groups -> Nat] /\ u.msg \in Messages
      /\ Matches[u.msg] \in [Groups -> Nat] /\ u.group \in Groups
      /\ u.flushing \in BOOLEAN
  BY SMTT(30), DedupAssumption DEF WorkerStates
<1>1. \A h \in Groups : v.data[h] = IF u.group = h THEN 0 ELSE u.data[h]
  BY Zenon, <1>0
<1>2. \A h \in Groups : /\ Part(v, h, AfterPut) = Part(u, h, AfterPut)
                        /\ Part(v, h, AfterWrite) = Part(u, h, AfterWrite)
  BY Zenon, <1>1 DEF Part, AfterPut, AfterWrite
<1>3. \A g \in Groups : v.todo[g] + v.data[g] <= Matches[v.msg][g]
  BY SMTT(30), <1>0, <1>1 DEF WorkOK
<1>4. WorkOK(v)
  BY <1>0, <1>3 DEF WorkOK
<1> QED
  BY Zenon, <1>2, <1>4 DEF GoesOn

-----------------------------------------------------------------------------
\* What a step can do to the work of the batches.
LEMMA BatchSteps ==
    ASSUME SpacingInv, WorkInv, [Next]_vars
    PROVE  \/ \E w \in Workers, m \in Messages : Receive(w, m)
           \/ \E w \in Workers, u \in WorkerStates :
                 /\ worker' = [worker EXCEPT ![w] = u] /\ GoesOn(worker[w], u)
                 /\ UNCHANGED <<receives, finished, table, stream, stored>>
           \/ \E w \in Workers, row \in Rows :
                 /\ worker[w].pc \in {"conditional", "merge"} /\ WriteRow(w, row)
                 /\ Follows(table[worker[w].group.key], row, worker[w])
           \/ \E w \in Workers : PutObject(w) \/ FinishInvocation(w) \/ Fail(w)
           \/ UNCHANGED <<receives, finished, worker, table, stream, stored>>
<1> DEFINE Goes(w) ==
               \E u \in WorkerStates :
                   /\ worker' = [worker EXCEPT ![w] = u] /\ GoesOn(worker[w], u)
                   /\ UNCHANGED <<receives, finished, table, stream, stored>>
<1>0. /\ worker \in [Workers -> WorkerStates] /\ now \in 0..MaxTime
      /\ \A w \in Workers : worker[w] \in WorkerStates /\ WorkOK(worker[w])
  BY DEF SpacingInv, TypeOK, WorkInv
<1>1. ASSUME NEW w \in Workers, NEW g \in Groups, AddEvent(w, g) PROVE Goes(w)
  <2> DEFINE data == [worker[w].data EXCEPT ![g] = @ + 1]
             added == [worker[w] EXCEPT !.todo[g] = @ - 1, !.data = data]
             Full(b) == [added EXCEPT !.pc = "conditional", !.group = b,
                                      !.time = now, !.flushing = FALSE]
  <2>1. PICK u : /\ worker' = [worker EXCEPT ![w] = u]
                 /\ u = added \/ \E b \in Biggest(data) : u = Full(b)
    BY Zenon, <1>1 DEF AddEvent
  <2>2. /\ worker[w].pc = "analyze" /\ worker[w].todo[g] > 0
        /\ UNCHANGED <<receives, finished, table, stream, stored>>
    BY Zenon, <1>1 DEF AddEvent
  <2>3. /\ worker[w].todo \in [Groups -> Nat] /\ worker[w].data \in [Groups -> Nat]
        /\ worker[w] \in WorkerStates
    BY Zenon, <1>0 DEF WorkerStates
  <2>4. [worker[w].todo EXCEPT ![g] = @ - 1] \in [Groups -> Nat] /\ data \in [Groups -> Nat]
    BY SMTT(30), <2>2, <2>3
  <2> HIDE DEF data
  <2>5. /\ added \in WorkerStates /\ added.pc = "analyze" /\ added.msg = worker[w].msg
        /\ added.todo = [worker[w].todo EXCEPT ![g] = @ - 1] /\ added.data = data
        /\ added.flushing = worker[w].flushing
    BY Zenon, <2>2, <2>3, <2>4 DEF WorkerStates
  <2> HIDE DEF added
  <2>6. ASSUME NEW b \in Biggest(data)
        PROVE  /\ Full(b) \in WorkerStates /\ Full(b).pc = "conditional"
               /\ Full(b).msg = added.msg /\ Full(b).todo = added.todo
               /\ Full(b).data = added.data /\ Full(b).flushing = FALSE
    <3>1. b \in Groups
      BY <2>6 DEF Biggest
    <3>2. now \in 0..MaxTime /\ "conditional" \in Steps
      BY Zenon, <1>0 DEF Steps
    <3> QED
      BY Zenon, <2>5, <3>1, <3>2 DEF WorkerStates
  <2> HIDE DEF Full
  <2>7. /\ u \in WorkerStates /\ u.pc \in {"analyze", "conditional"}
        /\ u.msg = worker[w].msg /\ u.todo = [worker[w].todo EXCEPT ![g] = @ - 1]
        /\ u.data = data /\ (u.flushing = FALSE \/ u.flushing = worker[w].flushing)
    BY Zenon, <2>1, <2>5, <2>6
  <2>8. GoesOn(worker[w], u)
    BY Zenon, <1>0, <2>2, <2>3, <2>7, GoesOnAdd DEF data
  <2> QED
    BY Zenon, <2>1, <2>2, <2>7, <2>8
<1>2. ASSUME NEW w \in Workers, StartFlush(w) PROVE Goes(w)
  <2> DEFINE u == [worker[w] EXCEPT !.pc = "flush", !.time = now, !.flushing = TRUE]
  <2>1. /\ u \in WorkerStates /\ worker' = [worker EXCEPT ![w] = u]
        /\ UNCHANGED <<receives, finished, table, stream, stored>>
    BY Zenon, <1>0, <1>2 DEF WorkerStates, Steps, StartFlush
  <2>2. /\ u.pc = "flush" /\ u.flushing = TRUE /\ u.msg = worker[w].msg
        /\ u.todo = worker[w].todo /\ u.data = worker[w].data
    BY Zenon, <1>0 DEF WorkerStates
  <2>3. worker[w].pc = "analyze" /\ worker[w].todo = NoMatches
    BY Zenon, <1>2 DEF StartFlush
  <2> HIDE DEF u
  <2>4. GoesOn(worker[w], u)
    BY Zenon, <1>0, <2>1, <2>2, <2>3, GoesOnUnchanged
  <2> QED
    BY Zenon, <2>1, <2>4
<1>3. ASSUME NEW w \in Workers, NEW g \in Groups, FlushGroup(w, g) PROVE Goes(w)
  <2> DEFINE u == [worker[w] EXCEPT !.pc = "conditional", !.group = g]
  <2>1. /\ u \in WorkerStates /\ worker' = [worker EXCEPT ![w] = u]
        /\ UNCHANGED <<receives, finished, table, stream, stored>>
    BY Zenon, <1>0, <1>3 DEF WorkerStates, Steps, FlushGroup
  <2>2. /\ u.pc = "conditional" /\ u.flushing = worker[w].flushing /\ u.msg = worker[w].msg
        /\ u.todo = worker[w].todo /\ u.data = worker[w].data
    BY Zenon, <1>0 DEF WorkerStates
  <2>3. worker[w].pc = "flush" /\ (worker[w].flushing => worker[w].todo = NoMatches)
    BY <1>0, <1>3 DEF FlushGroup, WorkOK
  <2> HIDE DEF u
  <2>4. GoesOn(worker[w], u)
    BY Zenon, <1>0, <2>1, <2>2, <2>3, GoesOnUnchanged
  <2> QED
    BY Zenon, <2>1, <2>4
<1>4. ASSUME NEW w \in Workers, ConditionFails(w) PROVE Goes(w)
  <2> DEFINE u == [worker[w] EXCEPT !.pc = "merge"]
  <2>1. /\ u \in WorkerStates /\ worker' = [worker EXCEPT ![w] = u]
        /\ UNCHANGED <<receives, finished, table, stream, stored>>
    BY Zenon, <1>0, <1>4 DEF WorkerStates, Steps, ConditionFails
  <2>2. /\ u.pc = "merge" /\ u.flushing = worker[w].flushing /\ u.msg = worker[w].msg
        /\ u.todo = worker[w].todo /\ u.data = worker[w].data
    BY Zenon, <1>0 DEF WorkerStates
  <2>3. worker[w].pc = "conditional" /\ (worker[w].flushing => worker[w].todo = NoMatches)
    BY <1>0, <1>4 DEF ConditionFails, WorkOK
  <2> HIDE DEF u
  <2>4. GoesOn(worker[w], u)
    BY Zenon, <1>0, <2>1, <2>2, <2>3, GoesOnUnchanged
  <2> QED
    BY Zenon, <2>1, <2>4
<1>5. ASSUME NEW w \in Workers, Publish(w) PROVE Goes(w)
  <2> DEFINE u == [worker[w] EXCEPT !.pc = IF worker[w].flushing THEN "flush" ELSE "analyze",
                                    !.data[worker[w].group] = 0]
  <2>1. /\ u \in WorkerStates /\ worker' = [worker EXCEPT ![w] = u]
        /\ UNCHANGED <<receives, finished, table, stream, stored>>
    BY Zenon, <1>0, <1>5 DEF WorkerStates, Steps, Publish
  <2>2. /\ u.pc = IF worker[w].flushing THEN "flush" ELSE "analyze"
        /\ u.flushing = worker[w].flushing /\ u.msg = worker[w].msg
        /\ u.todo = worker[w].todo
        /\ u.data = [worker[w].data EXCEPT ![worker[w].group] = 0]
    BY Zenon, <1>0 DEF WorkerStates
  <2>3. worker[w].pc = "publish"
    BY Zenon, <1>5 DEF Publish
  <2> HIDE DEF u
  <2>4. GoesOn(worker[w], u)
    BY Zenon, <1>0, <2>1, <2>2, <2>3, GoesOnPublish
  <2> QED
    BY Zenon, <2>1, <2>4
<1>6. Tick \/ UNCHANGED vars => UNCHANGED <<receives, finished, worker, table, stream, stored>>
  BY Zenon DEF Tick, vars
<1>7. ASSUME NEW w \in Workers, CreateAlert(w) \/ MergeIntoAlert(w)
      PROVE  \E row \in Rows : /\ worker[w].pc \in {"conditional", "merge"} /\ WriteRow(w, row)
                               /\ Follows(table[worker[w].group.key], row, worker[w])
  BY SMTT(30), <1>7, AlertWritten
<1> HIDE DEF Goes
<1>8. \/ \E w \in Workers, m \in Messages : Receive(w, m)
      \/ \E w \in Workers : Goes(w)
      \/ \E w \in Workers, row \in Rows :
            /\ worker[w].pc \in {"conditional", "merge"} /\ WriteRow(w, row)
            /\ Follows(table[worker[w].group.key], row, worker[w])
      \/ \E w \in Workers : PutObject(w) \/ FinishInvocation(w) \/ Fail(w)
      \/ UNCHANGED <<receives, finished, worker, table, stream, stored>>
  BY Zenon, <1>1, <1>2, <1>3, <1>4, <1>5, <1>6, <1>7 DEF Next, Advance
<1> QED
  BY Zenon, <1>8 DEF Goes

\* Every worker keeps to its batch.
LEMMA NextWork == SpacingInv /\ WorkInv /\ [Next]_vars => WorkInv'
<1> SUFFICES ASSUME SpacingInv, WorkInv, [Next]_vars PROVE WorkInv'
  OBVIOUS
<1>0. /\ worker \in [Workers -> WorkerStates]
      /\ \A w \in Workers : worker[w] \in WorkerStates /\ WorkOK(worker[w])
  BY Zenon DEF SpacingInv, TypeOK, WorkInv
<1> SUFFICES \A w \in Workers : WorkOK(worker'[w])
  BY SMTT(30) DEF WorkInv, WorkOK
<1>1. ASSUME NEW w \in Workers, NEW u, worker' = [worker EXCEPT ![w] = u], WorkOK(u)
      PROVE  \A v \in Workers : WorkOK(worker'[v])
  BY SMTT(30), <1>0, <1>1
<1>2. ASSUME NEW w \in Workers, NEW m \in Messages, Receive(w, m)
      PROVE  \A v \in Workers : WorkOK(worker'[v])
  <2> DEFINE u == [IdleWorker EXCEPT !.pc = "analyze", !.msg = m, !.todo = Matches[m]]
  <2>1. worker' = [worker EXCEPT ![w] = u]
    BY <1>2 DEF Receive
  <2>2. u.pc = "analyze" /\ u.msg = m /\ u.todo = Matches[m] /\ u.data = NoMatches
        /\ u.flushing = FALSE
    BY DEF IdleWorker
  <2> HIDE DEF u
  <2>3. Matches[m] \in [Groups -> Nat]
    BY SMTT(30), DedupAssumption
  <2>4. WorkOK(u)
    BY SMTT(30), <2>2, <2>3 DEF WorkOK, NoMatches
  <2> QED
    BY Zenon, <1>1, <2>1, <2>4
<1>3. ASSUME NEW w \in Workers, NEW row, WriteRow(w, row),
             worker[w].pc \in {"conditional", "merge"}
      PROVE  \A v \in Workers : WorkOK(worker'[v])
  <2> DEFINE u == [worker[w] EXCEPT !.pc = "put", !.alert = row.alertCount]
  <2>1. worker' = [worker EXCEPT ![w] = u]
    BY Zenon, <1>0, <1>3 DEF WriteRow
  <2>2. u.pc = "put" /\ u.msg = worker[w].msg /\ u.todo = worker[w].todo
        /\ u.data = worker[w].data /\ u.flushing = worker[w].flushing
    BY Zenon, <1>0 DEF WorkerStates
  <2> HIDE DEF u
  <2>3. WorkOK(u)
    BY SMTT(30), <1>0, <1>3, <2>2 DEF WorkOK
  <2> QED
    BY Zenon, <1>1, <2>1, <2>3
<1>4. ASSUME NEW w \in Workers, PutObject(w) PROVE \A v \in Workers : WorkOK(worker'[v])
  <2> DEFINE u == [worker[w] EXCEPT !.pc = "publish"]
  <2>1. worker' = [worker EXCEPT ![w] = u] /\ worker[w].pc = "put"
    BY Zenon, <1>0, <1>4 DEF PutObject
  <2>2. u.pc = "publish" /\ u.msg = worker[w].msg /\ u.todo = worker[w].todo
        /\ u.data = worker[w].data /\ u.flushing = worker[w].flushing
    BY Zenon, <1>0 DEF WorkerStates
  <2> HIDE DEF u
  <2>3. WorkOK(u)
    BY SMTT(30), <1>0, <2>1, <2>2 DEF WorkOK
  <2> QED
    BY Zenon, <1>1, <2>1, <2>3
<1>5. ASSUME NEW w \in Workers, FinishInvocation(w) \/ Fail(w)
      PROVE  \A v \in Workers : WorkOK(worker'[v])
  <2>1. worker' = [worker EXCEPT ![w] = IdleWorker]
    BY SMTT(30), <1>5 DEF FinishInvocation, Fail
  <2>2. WorkOK(IdleWorker)
    BY Zenon DEF WorkOK, IdleWorker
  <2> QED
    BY Zenon, <1>1, <2>1, <2>2
<1>6. ASSUME NEW w \in Workers, NEW u, worker' = [worker EXCEPT ![w] = u],
             GoesOn(worker[w], u)
      PROVE  \A v \in Workers : WorkOK(worker'[v])
  BY Zenon, <1>1, <1>6 DEF GoesOn
<1>7. CASE worker' = worker
  BY Zenon, <1>0, <1>7
<1> QED
  BY Zenon, <1>2, <1>3, <1>4, <1>5, <1>6, <1>7, BatchSteps

-----------------------------------------------------------------------------
\* The events of a group in S3, those of the finished batches, and those that
\* the running workers have put.
StoredOf(g) == SumFunction([n \in AlertNumbers |-> stored[<<g.key, n, g.logType>>]])
FinishedOf(g) == SumFunction([m \in finished |-> Matches[m][g]])
DoneOf(g) == SumFunction([w \in Workers |-> Part(worker[w], g, AfterPut)])

\* S3 holds what the finished batches and the running workers have put there.
\* It may hold more: an invocation that failed has left objects behind.
BatchInv == \A g \in Groups : StoredOf(g) >= FinishedOf(g) + DoneOf(g)

\* What a worker has done of a group is a number of events.
LEMMA PartType ==
    ASSUME NEW u \in WorkerStates, WorkOK(u), NEW g \in Groups, NEW done
    PROVE  Part(u, g, done) \in Nat
<1>1. /\ u.todo[g] \in Nat /\ u.data[g] \in Nat /\ Matches[u.msg][g] \in Nat
  BY Zenon, DedupAssumption DEF WorkerStates
<1>2. u.pc # "idle" => u.todo[g] + u.data[g] <= Matches[u.msg][g]
  BY SMTT(30) DEF WorkOK
<1> QED
  BY SMTT(30), <1>1, <1>2 DEF Part

\* The three sums are over finite sets.
SumsOK ==
    \A g \in Groups :
        /\ [n \in AlertNumbers |-> stored[<<g.key, n, g.logType>>]] \in [AlertNumbers -> Int]
        /\ [m \in finished |-> Matches[m][g]] \in [finished -> Int]
        /\ [w \in Workers |-> Part(worker[w], g, AfterPut)] \in [Workers -> Int]
        /\ StoredOf(g) \in Int /\ FinishedOf(g) \in Int /\ DoneOf(g) \in Int
        /\ g.key \in Keys /\ g.logType \in LogTypes

\* The sets summed over are finite.
LEMMA FiniteIndexes ==
    SpacingInv => /\ IsFiniteSet(AlertNumbers) /\ IsFiniteSet(finished) /\ IsFiniteSet(Workers)
                  /\ IsFiniteSet(LogTypes) /\ IsFiniteSet(Messages)
<1> SUFFICES ASSUME SpacingInv
             PROVE  /\ IsFiniteSet(AlertNumbers) /\ IsFiniteSet(finished) /\ IsFiniteSet(Workers)
                    /\ IsFiniteSet(LogTypes) /\ IsFiniteSet(Messages)
  OBVIOUS
<1>1. MaxTime + 1 \in Int
  BY SMTT(30), DedupAssumption
<1>2. IsFiniteSet(AlertNumbers)
  BY SMTT(30), <1>1, FS_Interval DEF AlertNumbers
<1>3. IsFiniteSet(finished)
  BY SMTT(30), DedupAssumption, FS_Subset DEF SpacingInv, TypeOK
<1> QED
  BY Zenon, <1>2, <1>3, DedupAssumption

\* Their sums are numbers.
LEMMA SumTypes == SpacingInv /\ WorkInv => SumsOK
<1> SUFFICES ASSUME SpacingInv, WorkInv, NEW g \in Groups
             PROVE  /\ [n \in AlertNumbers |-> stored[<<g.key, n, g.logType>>]] \in [AlertNumbers -> Int]
                    /\ [m \in finished |-> Matches[m][g]] \in [finished -> Int]
                    /\ [w \in Workers |-> Part(worker[w], g, AfterPut)] \in [Workers -> Int]
                    /\ StoredOf(g) \in Int /\ FinishedOf(g) \in Int /\ DoneOf(g) \in Int
                    /\ g.key \in Keys /\ g.logType \in LogTypes
  BY SMTT(30) DEF SumsOK
<1> DEFINE a == [n \in AlertNumbers |-> stored[<<g.key, n, g.logType>>]]
           b == [m \in finished |-> Matches[m][g]]
           c == [w \in Workers |-> Part(worker[w], g, AfterPut)]
<1>1. g.key \in Keys /\ g.logType \in LogTypes
  BY Zenon DEF Groups
<1>2. a \in [AlertNumbers -> Int]
  BY SMTT(30), <1>1 DEF SpacingInv, TypeOK
<1>3. b \in [finished -> Int]
  BY SMTT(30), DedupAssumption DEF SpacingInv, TypeOK
<1>4. c \in [Workers -> Int]
  <2>1. \A w \in Workers : Part(worker[w], g, AfterPut) \in Nat
    BY SMTT(30), PartType DEF SpacingInv, TypeOK, WorkInv
  <2> QED
    BY SMTT(30), <2>1
<1> HIDE DEF a, b, c
<1>5. SumFunction(a) \in Int /\ SumFunction(b) \in Int /\ SumFunction(c) \in Int
  BY Zenon, <1>2, <1>3, <1>4, FiniteIndexes, SumOfFunction
<1> QED
  BY Zenon, <1>1, <1>2, <1>3, <1>4, <1>5 DEF a, b, c, StoredOf, FinishedOf, DoneOf

\* The same after a step.
LEMMA SumTypesNext == (SpacingInv /\ WorkInv)' => SumsOK'
BY SumTypes, PTL

\* A step of one worker changes the sum by what that worker did.
LEMMA DoneChange ==
    ASSUME SpacingInv, SumsOK, SumsOK', NEW g \in Groups, NEW w \in Workers,
           \A v \in Workers \ {w} : worker'[v] = worker[v]
    PROVE  DoneOf(g)' = DoneOf(g) - Part(worker[w], g, AfterPut) + Part(worker'[w], g, AfterPut)
<1> DEFINE f == [v \in Workers |-> Part(worker[v], g, AfterPut)]
           h == [v \in Workers |-> Part(worker'[v], g, AfterPut)]
<1>1. f \in [Workers -> Int] /\ h \in [Workers -> Int] /\ IsFiniteSet(Workers)
  <2>1. h = [v \in Workers |-> Part(worker[v], g, AfterPut)]'
    BY Zenon DEF Part, AfterPut
  <2> QED
    BY Zenon, <2>1, FiniteIndexes DEF SumsOK
<1>2. \A v \in Workers \ {w} : h[v] = f[v]
  BY SMTT(30)
<1>3. f[w] = Part(worker[w], g, AfterPut) /\ h[w] = Part(worker'[w], g, AfterPut)
  BY Zenon
<1>4. DoneOf(g) = SumFunction(f) /\ DoneOf(g)' = SumFunction(h)
  BY Zenon DEF DoneOf, Part, AfterPut
<1> HIDE DEF f, h
<1>5. SumFunction(h) = SumFunction(f) - f[w] + h[w]
  BY SMTT(30), <1>1, <1>2, SumOfUpdate
<1> QED
  BY Zenon, <1>3, <1>4, <1>5

\* Putting the object of a group stores what the worker has then done of it.
LEMMA PutStores ==
    ASSUME SpacingInv, SpacingInv', WorkInv, WorkInv', NEW g \in Groups, NEW w \in Workers,
           PutObject(w)
    PROVE  StoredOf(g)' - StoredOf(g) =
               Part(worker'[w], g, AfterPut) - Part(worker[w], g, AfterPut)
<1> DEFINE u == worker[w]
           d == u.data[u.group]
           f == [n \in AlertNumbers |-> stored[<<g.key, n, g.logType>>]]
           h == [n \in AlertNumbers |-> stored'[<<g.key, n, g.logType>>]]
<1>1. /\ u.pc = "put" /\ worker'[w].pc = "publish" /\ worker'[w].group = u.group
      /\ worker'[w].msg = u.msg /\ worker'[w].todo = u.todo /\ worker'[w].data = u.data
  BY SMTT(30) DEF PutObject, SpacingInv, TypeOK, WorkerStates
<1>2. /\ u.group \in Groups /\ u.group.key \in Keys /\ u.group.logType \in LogTypes
      /\ u.alert \in AlertNumbers /\ d \in Nat
      /\ Matches[u.msg][g] \in Nat /\ u.todo[g] \in Nat /\ u.data[g] \in Nat
  BY Zenon, HeldTypes, DedupAssumption DEF HeldOK
<1>3. Part(u, g, AfterPut) = Matches[u.msg][g] - u.todo[g] - u.data[g]
  BY Zenon, <1>1 DEF Part, AfterPut
<1>4. Part(worker'[w], g, AfterPut) =
          Matches[u.msg][g] - u.todo[g] - (IF u.group = g THEN 0 ELSE u.data[g])
  BY Zenon, <1>1 DEF Part, AfterPut
<1>5. /\ stored \in [Keys \X AlertNumbers \X LogTypes -> Nat]
      /\ stored' = [stored EXCEPT ![<<u.group.key, u.alert, u.group.logType>>] = @ + d]
  BY SMTT(30) DEF PutObject, SpacingInv, TypeOK
<1>6. /\ f \in [AlertNumbers -> Int] /\ h \in [AlertNumbers -> Int]
      /\ IsFiniteSet(AlertNumbers) /\ SumFunction(f) \in Int /\ SumFunction(h) \in Int
      /\ StoredOf(g) = SumFunction(f) /\ StoredOf(g)' = SumFunction(h)
      /\ g.key \in Keys /\ g.logType \in LogTypes
  BY Zenon, SumTypes, SumTypesNext, FiniteIndexes DEF SumsOK, StoredOf
<1>7. CASE u.group = g
  <2>1. h[u.alert] = f[u.alert] + d /\ f[u.alert] \in Int
    BY Zenon, <1>2, <1>5, <1>6, <1>7
  <2>2. \A n \in AlertNumbers \ {u.alert} : h[n] = f[n]
    BY Zenon, <1>2, <1>5, <1>6, <1>7
  <2> HIDE DEF f, h
  <2>3. SumFunction(h) = SumFunction(f) - f[u.alert] + h[u.alert]
    BY Zenon, <1>2, <1>6, <2>2, SumOfUpdate
  <2> QED
    <3>1. /\ Matches[u.msg][g] \in Nat /\ u.todo[g] \in Nat /\ d = u.data[g] /\ d \in Nat
          /\ SumFunction(f) \in Int /\ SumFunction(h) \in Int
      BY Zenon, <1>2, <1>6, <1>7
    <3> HIDE DEF d, u
    <3>2. SumFunction(h) - SumFunction(f) =
              (Matches[u.msg][g] - u.todo[g] - 0) - (Matches[u.msg][g] - u.todo[g] - d)
      BY <2>1, <2>3, <3>1
    <3> QED
      BY Zenon, <1>3, <1>4, <1>6, <1>7, <3>1, <3>2 DEF u
<1>8. CASE u.group # g
  <2>1. u.group.key # g.key \/ u.group.logType # g.logType
    BY SMTT(30), <1>2, <1>8 DEF Groups
  <2>2. \A n \in AlertNumbers : stored'[<<g.key, n, g.logType>>] = stored[<<g.key, n, g.logType>>]
    BY Zenon, <1>2, <1>5, <1>6, <2>1
  <2>3. f = h
    BY Zenon, <2>2
  <2>4. SumFunction(h) = SumFunction(f)
    BY Zenon, <2>3
  <2> HIDE DEF f, h
  <2>5. SumFunction(h) - SumFunction(f) =
            (Matches[u.msg][g] - u.todo[g] - u.data[g]) - (Matches[u.msg][g] - u.todo[g] - u.data[g])
    <3>1. /\ Matches[u.msg][g] \in Nat /\ u.todo[g] \in Nat /\ u.data[g] \in Nat
          /\ SumFunction(f) \in Int
      BY Zenon, <1>2, <1>6
    <3> HIDE DEF u
    <3> QED
      BY <2>4, <3>1
  <2> QED
    BY Zenon, <1>3, <1>4, <1>6, <1>8, <2>5
<1> QED
  BY Zenon, <1>7, <1>8

\* A finished batch adds its matches at most once.
LEMMA FinishAdds ==
    ASSUME SpacingInv, SpacingInv', WorkInv, WorkInv', NEW g \in Groups, NEW w \in Workers,
           FinishInvocation(w)
    PROVE  FinishedOf(g)' <= FinishedOf(g) + Matches[worker[w].msg][g]
<1> DEFINE m == worker[w].msg
           f == [x \in finished |-> Matches[x][g]]
           h == [x \in finished \cup {m} |-> Matches[x][g]]
<1>1. finished' = finished \cup {m} /\ m \in Messages /\ Matches[m][g] \in Nat
  BY Zenon, HeldTypes, DedupAssumption DEF HeldOK, FinishInvocation
<1>2. FinishedOf(g) = SumFunction(f) /\ FinishedOf(g)' = SumFunction(h)
  BY SMTT(30), <1>1 DEF FinishedOf
<1>3. /\ f \in [finished -> Int] /\ IsFiniteSet(finished)
      /\ SumFunction(f) \in Int /\ SumFunction(h) \in Int
  BY Zenon, <1>2, SumTypes, SumTypesNext, FiniteIndexes DEF SumsOK
<1>4. CASE m \in finished
  <2>1. f = h
    BY Zenon, <1>4
  <2> HIDE DEF f, h
  <2> QED
    BY SMTT(30), <1>1, <1>2, <1>3, <2>1
<1>5. CASE m \notin finished
  <2>1. h \in [finished' -> Int] /\ h[m] = Matches[m][g] /\ \A x \in finished : h[x] = f[x]
    BY SMTT(30), <1>1, <1>3
  <2> HIDE DEF f, h, m
  <2>2. SumFunction(h) = SumFunction(f) + h[m]
    BY SMTT(30), <1>1, <1>3, <1>5, <2>1, SumOfExtension
  <2> QED
    BY SMTT(30), <1>1, <1>2, <1>3, <2>1, <2>2 DEF m
<1> QED
  BY SMTT(30), <1>4, <1>5

\* Every step keeps the account of S3.
LEMMA NextBatch ==
    SpacingInv /\ SpacingInv' /\ WorkInv /\ WorkInv' /\ BatchInv /\ [Next]_vars => BatchInv'
<1> SUFFICES ASSUME SpacingInv, SpacingInv', WorkInv, WorkInv', BatchInv, [Next]_vars,
                    NEW g \in Groups
             PROVE  StoredOf(g)' >= FinishedOf(g)' + DoneOf(g)'
  BY SMTT(30) DEF BatchInv
<1>0. /\ SumsOK /\ SumsOK' /\ StoredOf(g) >= FinishedOf(g) + DoneOf(g)
      /\ StoredOf(g) \in Int /\ FinishedOf(g) \in Int /\ DoneOf(g) \in Int
      /\ StoredOf(g)' \in Int /\ FinishedOf(g)' \in Int /\ DoneOf(g)' \in Int
      /\ worker \in [Workers -> WorkerStates]
  BY Zenon, SumTypes, SumTypesNext DEF SumsOK, BatchInv, SpacingInv, TypeOK
<1>1. stored' = stored => StoredOf(g)' = StoredOf(g)
  BY SMTT(30) DEF StoredOf
<1>2. finished' = finished => FinishedOf(g)' = FinishedOf(g)
  BY SMTT(30) DEF FinishedOf
<1>3. ASSUME NEW w \in Workers
      PROVE  Part(worker[w], g, AfterPut) \in Nat /\ Part(worker'[w], g, AfterPut) \in Nat
  <2>1. worker[w] \in WorkerStates /\ WorkOK(worker[w])
    BY SMTT(30) DEF SpacingInv, TypeOK, WorkInv
  <2>2. worker'[w] \in WorkerStates /\ WorkOK(worker'[w])
    BY Zenon DEF SpacingInv, TypeOK, WorkInv, WorkOK
  <2> QED
    BY Zenon, <2>1, <2>2, PartType
<1>4. ASSUME NEW w \in Workers, NEW u, worker' = [worker EXCEPT ![w] = u]
      PROVE  DoneOf(g)' = DoneOf(g) - Part(worker[w], g, AfterPut) + Part(u, g, AfterPut)
             /\ worker'[w] = u
  BY Zenon, <1>0, <1>4, DoneChange
<1>5. ASSUME NEW w \in Workers, NEW m \in Messages, Receive(w, m)
      PROVE  StoredOf(g)' >= FinishedOf(g)' + DoneOf(g)'
  <2> DEFINE u == [IdleWorker EXCEPT !.pc = "analyze", !.msg = m, !.todo = Matches[m]]
  <2>1. /\ worker' = [worker EXCEPT ![w] = u] /\ worker[w].pc = "idle"
        /\ stored' = stored /\ finished' = finished
    BY SMTT(30), <1>5 DEF Receive
  <2>2. u.pc = "analyze" /\ u.msg = m /\ u.todo = Matches[m] /\ u.data = NoMatches
    BY SMTT(30) DEF IdleWorker
  <2> HIDE DEF u
  <2>3. Matches[m][g] \in Nat
    BY Zenon, DedupAssumption
  <2>4. Part(u, g, AfterPut) = 0 /\ Part(worker[w], g, AfterPut) = 0
    BY SMTT(30), <2>1, <2>2, <2>3 DEF Part, AfterPut, NoMatches
  <2>5. DoneOf(g)' = DoneOf(g) - Part(worker[w], g, AfterPut) + Part(u, g, AfterPut)
    BY Zenon, <1>4, <2>1
  <2> QED
    BY SMTT(30), <1>0, <1>1, <1>2, <2>1, <2>4, <2>5
<1>6. ASSUME NEW w \in Workers, NEW u, worker' = [worker EXCEPT ![w] = u],
             GoesOn(worker[w], u), stored' = stored, finished' = finished
      PROVE  StoredOf(g)' >= FinishedOf(g)' + DoneOf(g)'
  <2>1. Part(u, g, AfterPut) = Part(worker[w], g, AfterPut)
    BY SMTT(30), <1>6 DEF GoesOn
  <2>2. DoneOf(g)' = DoneOf(g) - Part(worker[w], g, AfterPut) + Part(u, g, AfterPut)
    BY Zenon, <1>4, <1>6
  <2>3. DoneOf(g)' = DoneOf(g)
    BY SMTT(30), <1>0, <1>3, <2>1, <2>2
  <2> QED
    BY Zenon, <1>0, <1>1, <1>2, <1>6, <2>3
<1>7. ASSUME NEW w \in Workers, NEW row, worker[w].pc \in {"conditional", "merge"},
             WriteRow(w, row)
      PROVE  StoredOf(g)' >= FinishedOf(g)' + DoneOf(g)'
  <2> DEFINE u == [worker[w] EXCEPT !.pc = "put", !.alert = row.alertCount]
  <2>1. worker' = [worker EXCEPT ![w] = u] /\ stored' = stored /\ finished' = finished
    BY Zenon, <1>0, <1>7 DEF WriteRow
  <2>2. u.pc = "put" /\ u.msg = worker[w].msg /\ u.todo = worker[w].todo
        /\ u.data = worker[w].data
    BY Zenon, <1>0 DEF WorkerStates
  <2> HIDE DEF u
  <2>3. Part(u, g, AfterPut) = Part(worker[w], g, AfterPut)
    BY SMTT(30), SMTT(60), <1>7, <2>2 DEF Part, AfterPut
  <2>4. DoneOf(g)' = DoneOf(g) - Part(worker[w], g, AfterPut) + Part(u, g, AfterPut)
    BY Zenon, <1>4, <2>1
  <2>5. DoneOf(g)' = DoneOf(g)
    BY SMTT(30), <1>0, <1>3, <2>3, <2>4
  <2> QED
    BY Zenon, <1>0, <1>1, <1>2, <2>1, <2>5
<1>8. ASSUME NEW w \in Workers, PutObject(w)
      PROVE  StoredOf(g)' >= FinishedOf(g)' + DoneOf(g)'
  <2>1. finished' = finished /\ \A v \in Workers \ {w} : worker'[v] = worker[v]
    BY SMTT(30), <1>0, <1>8 DEF PutObject
  <2>2. StoredOf(g)' - StoredOf(g) = Part(worker'[w], g, AfterPut) - Part(worker[w], g, AfterPut)
    BY Zenon, <1>8, PutStores
  <2>3. DoneOf(g)' = DoneOf(g) - Part(worker[w], g, AfterPut) + Part(worker'[w], g, AfterPut)
    BY Zenon, <1>0, <2>1, DoneChange
  <2> QED
    BY SMTT(30), <1>0, <1>2, <1>3, <2>1, <2>2, <2>3
<1>9. ASSUME NEW w \in Workers, FinishInvocation(w)
      PROVE  StoredOf(g)' >= FinishedOf(g)' + DoneOf(g)'
  <2>1. /\ worker' = [worker EXCEPT ![w] = IdleWorker] /\ stored' = stored
        /\ worker[w].pc = "flush" /\ worker[w].data = NoMatches /\ worker[w].todo = NoMatches
    BY SMTT(30), <1>9 DEF FinishInvocation, WorkInv, WorkOK
  <2>2. Matches[worker[w].msg][g] \in Nat
    BY Zenon, HeldTypes, DedupAssumption DEF HeldOK
  <2>3. Part(worker[w], g, AfterPut) = Matches[worker[w].msg][g]
    BY SMTT(30), <2>1, <2>2 DEF Part, AfterPut, NoMatches
  <2>4. Part(IdleWorker, g, AfterPut) = 0
    BY Zenon DEF Part, IdleWorker
  <2>5. DoneOf(g)' = DoneOf(g) - Part(worker[w], g, AfterPut) + Part(IdleWorker, g, AfterPut)
    BY Zenon, <1>4, <2>1
  <2>6. FinishedOf(g)' <= FinishedOf(g) + Matches[worker[w].msg][g]
    BY Zenon, <1>9, FinishAdds
  <2> QED
    BY SMTT(30), SMTT(60), <1>0, <1>1, <2>1, <2>2, <2>3, <2>4, <2>5, <2>6
<1>10. ASSUME NEW w \in Workers, Fail(w)
       PROVE  StoredOf(g)' >= FinishedOf(g)' + DoneOf(g)'
  <2>1. /\ worker' = [worker EXCEPT ![w] = IdleWorker] /\ stored' = stored
        /\ finished' = finished
    BY SMTT(30), <1>10 DEF Fail
  <2>2. Part(IdleWorker, g, AfterPut) = 0
    BY Zenon DEF Part, IdleWorker
  <2>3. DoneOf(g)' = DoneOf(g) - Part(worker[w], g, AfterPut) + Part(IdleWorker, g, AfterPut)
    BY Zenon, <1>4, <2>1
  <2>4. DoneOf(g)' <= DoneOf(g)
    BY SMTT(30), <1>0, <1>3, <2>2, <2>3
  <2> QED
    BY SMTT(30), <1>0, <1>1, <1>2, <2>1, <2>4
<1>11. CASE UNCHANGED <<finished, worker, stored>>
  <2>1. DoneOf(g)' = DoneOf(g)
    BY SMTT(30), <1>11 DEF DoneOf, Part, AfterPut
  <2> QED
    BY Zenon, <1>0, <1>1, <1>2, <1>11, <2>1
<1>12. ASSUME NEW w \in Workers, NEW u \in WorkerStates, worker' = [worker EXCEPT ![w] = u],
              GoesOn(worker[w], u), UNCHANGED <<receives, finished, table, stream, stored>>
       PROVE  StoredOf(g)' >= FinishedOf(g)' + DoneOf(g)'
  <2>1. stored' = stored /\ finished' = finished
    BY <1>12
  <2> QED
    BY Zenon, <1>6, <1>12, <2>1
<1>13. CASE UNCHANGED <<receives, finished, worker, table, stream, stored>>
  <2>1. UNCHANGED <<finished, worker, stored>>
    BY <1>13
  <2> QED
    BY Zenon, <1>11, <2>1
<1>14. CASE \E w \in Workers, m \in Messages : Receive(w, m)
  BY Zenon, <1>5, <1>14
<1>15. CASE \E w \in Workers, u \in WorkerStates :
                /\ worker' = [worker EXCEPT ![w] = u] /\ GoesOn(worker[w], u)
                /\ UNCHANGED <<receives, finished, table, stream, stored>>
  BY Zenon, <1>12, <1>15
<1>16. CASE \E w \in Workers, row \in Rows :
                /\ worker[w].pc \in {"conditional", "merge"} /\ WriteRow(w, row)
                /\ Follows(table[worker[w].group.key], row, worker[w])
  BY <1>7, <1>16
<1>17. CASE \E w \in Workers : PutObject(w) \/ FinishInvocation(w) \/ Fail(w)
  BY Zenon, <1>8, <1>9, <1>10, <1>17
<1> QED
  BY Zenon, <1>13, <1>14, <1>15, <1>16, <1>17, BatchSteps

\* Nothing is matched, stored or finished at the start.
LEMMA InitBatch == Init => WorkInv /\ BatchInv
<1> SUFFICES ASSUME Init PROVE WorkInv /\ BatchInv
  OBVIOUS
<1>1. SpacingInv
  BY InitSpacing
<1>2. WorkInv
  BY Zenon DEF Init, WorkInv, WorkOK, IdleWorker
<1>3. ASSUME NEW g \in Groups PROVE StoredOf(g) = 0 /\ FinishedOf(g) = 0 /\ DoneOf(g) = 0
  <2> DEFINE a == [n \in AlertNumbers |-> stored[<<g.key, n, g.logType>>]]
             b == [m \in finished |-> Matches[m][g]]
             c == [w \in Workers |-> Part(worker[w], g, AfterPut)]
  <2>0. g.key \in Keys /\ g.logType \in LogTypes
    BY DEF Groups
  <2>1. a \in [AlertNumbers -> Int] /\ \A n \in AlertNumbers : a[n] = 0
    BY SMTT(30), <2>0 DEF Init
  <2>2. b \in [finished -> Int] /\ \A m \in finished : b[m] = 0
    BY Zenon DEF Init
  <2>3. c \in [Workers -> Int] /\ \A w \in Workers : c[w] = 0
    <3>1. \A w \in Workers : worker[w].pc = "idle"
      BY Zenon DEF Init, IdleWorker
    <3> QED
      BY SMTT(30), <3>1 DEF Part
  <2> HIDE DEF a, b, c
  <2>4. SumFunction(a) = 0 /\ SumFunction(b) = 0 /\ SumFunction(c) = 0
    BY Zenon, <1>1, <2>1, <2>2, <2>3, FiniteIndexes, SumOfZeros
  <2> QED
    BY SMTT(30), <2>4 DEF a, b, c, StoredOf, FinishedOf, DoneOf
<1>4. BatchInv
  BY SMTT(30), <1>3 DEF BatchInv
<1> QED
  BY <1>2, <1>4

\* The running workers have put no less than nothing.
LEMMA BatchIsStored == SpacingInv /\ WorkInv /\ BatchInv => FinishedIsStored
<1> SUFFICES ASSUME SpacingInv, WorkInv, BatchInv, NEW g \in Groups
             PROVE  StoredOf(g) >= FinishedOf(g)
  BY SMTT(30) DEF FinishedIsStored, StoredOf, FinishedOf
<1>1. SumsOK /\ StoredOf(g) >= FinishedOf(g) + DoneOf(g)
  BY Zenon, SumTypes DEF BatchInv
<1> DEFINE c == [w \in Workers |-> Part(worker[w], g, AfterPut)]
<1>2. c \in [Workers -> Int] /\ DoneOf(g) = SumFunction(c)
  BY Zenon, <1>1 DEF SumsOK, DoneOf
<1>3. \A w \in Workers : c[w] \in Nat
  BY SMTT(30), PartType DEF SpacingInv, TypeOK, WorkInv
<1> HIDE DEF c
<1>4. SumFunction(c) \in Nat
  BY SMTT(30), <1>2, <1>3, FiniteIndexes, SumOfFunction
<1> QED
  BY SMTT(30), <1>1, <1>2, <1>4 DEF SumsOK

\* Every event that a finished batch made a rule match is in S3.
THEOREM FinishedCorrect == Spec => []FinishedIsStored
<1>1. Init => SpacingInv /\ WorkInv /\ BatchInv
  BY InitSpacing, InitBatch
<1>2. SpacingInv /\ WorkInv /\ BatchInv /\ [Next]_vars => (SpacingInv /\ WorkInv /\ BatchInv)'
  BY Zenon, NextSpacing, NextWork, NextBatch
<1> QED
  BY <1>1, <1>2, BatchIsStored, PTL DEF Spec

-----------------------------------------------------------------------------
\* A batch is worked on by one worker at a time, and not again once finished.
HeldInv ==
    /\ \A w \in Workers : worker[w].pc # "idle" =>
           /\ worker[w].msg \notin finished /\ receives[worker[w].msg] > 0
           /\ \A v \in Workers : v # w /\ worker[v].pc # "idle" => worker[v].msg # worker[w].msg
    /\ \A m \in finished : receives[m] > 0

\* No batch has been received twice or given up.
Clean ==
    \A m \in Messages : receives[m] <= 1 /\ (receives[m] = 1 => m \in finished \/ Held(m))

\* The events that the alerts of a key count, those that a batch makes the
\* rules match for it, and those that a worker with state u has counted.
AlertEvents(k) == SumFunction([n \in AlertNumbers |-> EventsOf(k, n)])
MatchesOf(m, k) == SumFunction([t \in LogTypes |-> Matches[m][[key |-> k, logType |-> t]]])
Tally(u, k) == SumFunction([t \in LogTypes |-> Part(u, [key |-> k, logType |-> t], AfterWrite)])
FinishedMatches(k) == SumFunction([m \in finished |-> MatchesOf(m, k)])
Tallies(k) == SumFunction([w \in Workers |-> Tally(worker[w], k)])

\* As long as no batch has been given up, the alerts of a key count exactly
\* what the finished batches and the running workers have written.
CountInv == Clean => \A k \in Keys : AlertEvents(k) = FinishedMatches(k) + Tallies(k)

-----------------------------------------------------------------------------
\* What a step does to the batches that the workers hold.
LEMMA HoldKinds ==
    ASSUME SpacingInv, WorkInv, [Next]_vars
    PROVE  \/ \E w \in Workers, m \in Messages : Receive(w, m)
           \/ \E w \in Workers : FinishInvocation(w) \/ Fail(w)
           \/ /\ UNCHANGED <<receives, finished>>
              /\ \A w \in Workers : /\ worker'[w].pc = "idle" <=> worker[w].pc = "idle"
                                    /\ worker[w].pc # "idle" => worker'[w].msg = worker[w].msg
<1>0. worker \in [Workers -> WorkerStates]
  BY SMTT(30) DEF SpacingInv, TypeOK
<1> DEFINE Keeps == /\ UNCHANGED <<receives, finished>>
                    /\ \A w \in Workers :
                          /\ worker'[w].pc = "idle" <=> worker[w].pc = "idle"
                          /\ worker[w].pc # "idle" => worker'[w].msg = worker[w].msg
<1>1. ASSUME NEW w \in Workers, NEW u, worker' = [worker EXCEPT ![w] = u],
             worker[w].pc # "idle", u.pc # "idle", u.msg = worker[w].msg,
             UNCHANGED <<receives, finished>>
      PROVE  Keeps
  BY Zenon, <1>0, <1>1
<1>2. ASSUME NEW w \in Workers, NEW u, worker' = [worker EXCEPT ![w] = u],
             GoesOn(worker[w], u), UNCHANGED <<receives, finished>>
      PROVE  Keeps
  BY Zenon, <1>1, <1>2 DEF GoesOn
<1>3. ASSUME NEW w \in Workers, NEW row, worker[w].pc \in {"conditional", "merge"},
             WriteRow(w, row)
      PROVE  Keeps
  <2> DEFINE u == [worker[w] EXCEPT !.pc = "put", !.alert = row.alertCount]
  <2>1. worker' = [worker EXCEPT ![w] = u] /\ UNCHANGED <<receives, finished>>
    BY Zenon, <1>0, <1>3 DEF WriteRow
  <2>2. u.pc = "put" /\ u.msg = worker[w].msg
    BY Zenon, <1>0 DEF WorkerStates
  <2> HIDE DEF u
  <2> QED
    BY Zenon, <1>1, <1>3, <2>1, <2>2
<1>4. ASSUME NEW w \in Workers, PutObject(w) PROVE Keeps
  <2> DEFINE u == [worker[w] EXCEPT !.pc = "publish"]
  <2>1. worker' = [worker EXCEPT ![w] = u] /\ UNCHANGED <<receives, finished>>
        /\ worker[w].pc = "put"
    BY Zenon, <1>0, <1>4 DEF PutObject
  <2>2. u.pc = "publish" /\ u.msg = worker[w].msg
    BY Zenon, <1>0 DEF WorkerStates
  <2> HIDE DEF u
  <2> QED
    BY Zenon, <1>1, <2>1, <2>2
<1>5. UNCHANGED <<receives, finished, worker>> => Keeps
  BY Zenon
<1> HIDE DEF Keeps
<1>6. \/ \E w \in Workers, m \in Messages : Receive(w, m)
      \/ \E w \in Workers : FinishInvocation(w) \/ Fail(w)
      \/ Keeps
  BY SMTT(30), SMTT(60), <1>2, <1>3, <1>4, <1>5, BatchSteps
<1> QED
  BY Zenon, <1>6 DEF Keeps

\* A batch is received only when it is visible and not finished.
LEMMA NextHeld == SpacingInv /\ WorkInv /\ HeldInv /\ [Next]_vars => HeldInv'
<1> SUFFICES ASSUME SpacingInv, WorkInv, HeldInv, [Next]_vars PROVE HeldInv'
  BY SMTT(30)
<1>0. /\ worker \in [Workers -> WorkerStates] /\ receives \in [Messages -> Nat]
      /\ \A w \in Workers : worker[w].msg \in Messages
      /\ finished \subseteq Messages /\ IdleWorker.pc = "idle"
  BY Zenon, HeldTypes DEF HeldOK, SpacingInv, TypeOK, IdleWorker
<1>1. ASSUME NEW w \in Workers, NEW m \in Messages, Receive(w, m) PROVE HeldInv'
  <2>1. /\ worker'[w].pc = "analyze" /\ worker'[w].msg = m
        /\ \A v \in Workers \ {w} : worker'[v] = worker[v]
    BY <1>0, <1>1 DEF Receive, IdleWorker
  <2>2. /\ finished' = finished /\ m \notin finished
        /\ receives'[m] > 0 /\ \A x \in Messages \ {m} : receives'[x] = receives[x]
        /\ \A v \in Workers : worker[v].pc # "idle" => worker[v].msg # m
    BY <1>0, <1>1 DEF Receive, Held
  <2> QED
    BY SMTT(30), <1>0, <2>1, <2>2 DEF HeldInv
<1>2. ASSUME NEW w \in Workers, FinishInvocation(w) PROVE HeldInv'
  <2>1. /\ worker'[w].pc = "idle" /\ \A v \in Workers \ {w} : worker'[v] = worker[v]
        /\ finished' = finished \cup {worker[w].msg} /\ receives' = receives
        /\ worker[w].pc # "idle"
    BY Zenon, <1>0, <1>2 DEF FinishInvocation
  <2> QED
    BY Zenon, <1>0, <2>1 DEF HeldInv
<1>3. ASSUME NEW w \in Workers, Fail(w) PROVE HeldInv'
  <2>1. /\ worker'[w].pc = "idle" /\ \A v \in Workers \ {w} : worker'[v] = worker[v]
        /\ finished' = finished /\ receives' = receives
    BY Zenon, <1>0, <1>3 DEF Fail
  <2> QED
    BY Zenon, <1>0, <2>1 DEF HeldInv
<1>4. CASE /\ UNCHANGED <<receives, finished>>
           /\ \A w \in Workers : /\ worker'[w].pc = "idle" <=> worker[w].pc = "idle"
                                 /\ worker[w].pc # "idle" => worker'[w].msg = worker[w].msg
  BY SMTT(30), <1>4 DEF HeldInv
<1> QED
  BY Zenon, <1>1, <1>2, <1>3, <1>4, HoldKinds

\* A batch that has been given up stays so, and a failed invocation gives its
\* batch up.
LEMMA CleanBack ==
    ASSUME SpacingInv, WorkInv, HeldInv, [Next]_vars, Clean'
    PROVE  Clean /\ \A w \in Workers : ~Fail(w)
<1>0. /\ worker \in [Workers -> WorkerStates] /\ receives \in [Messages -> Nat]
      /\ \A w \in Workers : worker[w].msg \in Messages
      /\ finished \subseteq Messages /\ IdleWorker.pc = "idle"
  BY Zenon, HeldTypes DEF HeldOK, SpacingInv, TypeOK, IdleWorker
<1>1. ASSUME NEW w \in Workers, Fail(w) PROVE FALSE
  <2>1. /\ worker[w].pc # "idle" /\ worker'[w].pc = "idle"
        /\ \A v \in Workers \ {w} : worker'[v] = worker[v]
        /\ finished' = finished /\ receives' = receives
    BY SMTT(30), <1>0, <1>1 DEF Fail
  <2>2. PICK m \in Messages : m = worker[w].msg
    BY Zenon, <1>0
  <2>3. receives[m] > 0 /\ m \notin finished
        /\ \A v \in Workers \ {w} : worker[v].pc # "idle" => worker[v].msg # m
    BY Zenon, <2>1, <2>2 DEF HeldInv
  <2>4. receives[m] = 1 /\ ~Held(m)'
    BY SMTT(30), <1>0, <2>1, <2>3 DEF Clean, Held
  <2> QED
    BY Zenon, <2>1, <2>3, <2>4 DEF Clean
<1>2. ASSUME \A m \in Messages : /\ receives'[m] = receives[m]
                                 /\ m \in finished' \/ Held(m)' => m \in finished \/ Held(m)
      PROVE  Clean
  BY Zenon, <1>2 DEF Clean
<1>3. ASSUME NEW w \in Workers, FinishInvocation(w) PROVE Clean
  <2>1. /\ worker[w].pc # "idle" /\ worker'[w].pc = "idle"
        /\ \A v \in Workers \ {w} : worker'[v] = worker[v]
        /\ finished' = finished \cup {worker[w].msg} /\ receives' = receives
    BY Zenon, <1>0, <1>3 DEF FinishInvocation
  <2> QED
    BY Zenon, <1>2, <2>1 DEF Held
<1>4. ASSUME NEW w \in Workers, NEW m \in Messages, Receive(w, m) PROVE Clean
  <2>1. /\ worker'[w].msg = m /\ \A v \in Workers \ {w} : worker'[v] = worker[v]
        /\ finished' = finished /\ receives'[m] = receives[m] + 1
        /\ \A x \in Messages \ {m} : receives'[x] = receives[x]
    BY Zenon, <1>0, <1>4 DEF Receive, IdleWorker
  <2>2. \A x \in Messages \ {m} : Held(x)' => Held(x)
    BY Zenon, <2>1 DEF Held
  <2>3. receives[m] = 0
    BY SMTT(30), <1>0, <2>1 DEF Clean
  <2> QED
    BY SMTT(30), <2>1, <2>2, <2>3 DEF Clean
<1>5. CASE /\ UNCHANGED <<receives, finished>>
           /\ \A w \in Workers : /\ worker'[w].pc = "idle" <=> worker[w].pc = "idle"
                                 /\ worker[w].pc # "idle" => worker'[w].msg = worker[w].msg
  <2>1. \A m \in Messages : Held(m)' => Held(m)
    BY Zenon, <1>5 DEF Held
  <2>2. Clean
    BY Zenon, <1>2, <1>5, <2>1
  <2> QED
    BY Zenon, <1>1, <2>2
<1> QED
  BY Zenon, <1>1, <1>3, <1>4, <1>5, HoldKinds

-----------------------------------------------------------------------------
\* e is the largest count of the images of alert n of key k.
MostEvents(k, n, e) ==
    /\ \A a \in DOMAIN stream : stream[a].key = k /\ stream[a].new.alertCount = n =>
           stream[a].new.eventCount <= e
    /\ e = 0 \/ \E a \in DOMAIN stream : /\ stream[a].key = k
                                         /\ stream[a].new.alertCount = n
                                         /\ stream[a].new.eventCount = e
EventsAreMost ==
    \A k \in Keys, n \in AlertNumbers :
        /\ EventsOf(k, n) \in Nat
        /\ MostEvents(k, n, EventsOf(k, n))
        /\ \A e \in Nat : MostEvents(k, n, e) => EventsOf(k, n) = e

\* EventsOf is the count of an image that no other image of the alert exceeds.
LEMMA EventsOfIs == SpacingInv => EventsAreMost
<1> SUFFICES ASSUME SpacingInv, NEW k \in Keys, NEW n \in AlertNumbers
             PROVE  /\ EventsOf(k, n) \in Nat
                    /\ MostEvents(k, n, EventsOf(k, n))
                    /\ \A e \in Nat : MostEvents(k, n, e) => EventsOf(k, n) = e
  BY SMTT(30) DEF EventsAreMost
<1>1. /\ EventsOf(k, n) \in Nat
      /\ \A row \in ImagesOf(k, n) : row.eventCount <= EventsOf(k, n)
      /\ EventsOf(k, n) = 0 \/ \E row \in ImagesOf(k, n) : row.eventCount = EventsOf(k, n)
  BY Zenon, HeldTypes, EventsOfImages
<1>2. MostEvents(k, n, EventsOf(k, n))
  BY Zenon, <1>1 DEF MostEvents, ImagesOf
<1>3. \A a \in DOMAIN stream : stream[a].new.eventCount \in Nat
  BY Zenon, HeldTypes DEF HeldOK
<1>4. \A e \in Nat : MostEvents(k, n, e) => EventsOf(k, n) = e
  BY SMTT(30), <1>1, <1>2, <1>3 DEF MostEvents
<1> QED
  BY Zenon, <1>1, <1>2, <1>4

\* The same after a step.
LEMMA EventsOfNext == SpacingInv' => EventsAreMost'
BY EventsOfIs, PTL

\* An update_item adds the events of its group to the alert it writes, and to
\* no other.
LEMMA WriteEvents ==
    ASSUME SpacingInv, SpacingInv', RowIsImage, NEW w \in Workers, NEW row \in Rows,
           WriteRow(w, row), Follows(table[worker[w].group.key], row, worker[w]),
           NEW k \in Keys, NEW n \in AlertNumbers
    PROVE  EventsOf(k, n)' = EventsOf(k, n)
               + (IF k = worker[w].group.key /\ n = row.alertCount
                  THEN worker[w].data[worker[w].group] ELSE 0)
<1> DEFINE j == worker[w].group.key
           d == worker[w].data[worker[w].group]
<1>0. /\ j \in Keys /\ d \in Nat /\ row.alertCount \in Nat /\ row.eventCount \in Nat
      /\ row.alertCount > 0
      /\ table[j].alertCount \in Nat /\ table[j].eventCount \in Nat
      /\ \/ row.alertCount = table[j].alertCount + 1 /\ row.eventCount = d
         \/ row.alertCount = table[j].alertCount /\ row.eventCount = table[j].eventCount + d
      /\ \A a \in DOMAIN stream : stream[a].new.alertCount \in Nat /\ stream[a].new.eventCount \in Nat
  <2>1. /\ j \in Keys /\ d \in Nat
        /\ table[j].alertCount \in Nat /\ table[j].eventCount \in Nat
        /\ \A a \in DOMAIN stream : /\ stream[a].new.alertCount \in Nat
                                    /\ stream[a].new.eventCount \in Nat
    BY Zenon, HeldTypes DEF HeldOK
  <2>2. /\ row.eventCount \in Nat /\ row.alertCount \in AlertNumbers
        /\ \/ row.alertCount = table[j].alertCount + 1 /\ row.eventCount = d
           \/ row.alertCount = table[j].alertCount /\ row.eventCount = table[j].eventCount + d
    BY Zenon DEF Follows
  <2>3. row.alertCount \in Nat /\ row.alertCount > 0
    BY SMTT(30), SMTT(60), <2>2 DEF AlertNumbers
  <2> QED
    BY Zenon, <2>1, <2>2, <2>3
<1>1. /\ \A a \in DOMAIN stream : a \in DOMAIN stream' /\ stream'[a] = stream[a]
      /\ \A a \in DOMAIN stream' : a \in DOMAIN stream \/ a = Len(stream) + 1
      /\ Len(stream) + 1 \in DOMAIN stream'
      /\ stream'[Len(stream) + 1].key = j /\ stream'[Len(stream) + 1].new = row
  BY SMTT(30), SMTT(60), WriteImages
<1>2. /\ EventsOf(k, n) \in Nat /\ MostEvents(k, n, EventsOf(k, n))
      /\ \A e \in Nat : MostEvents(k, n, e) => EventsOf(k, n) = e
      /\ \A e \in Nat : MostEvents(k, n, e)' => EventsOf(k, n)' = e
  BY Zenon, EventsOfIs, EventsOfNext DEF EventsAreMost
<1>3. \A a \in DOMAIN stream : stream[a].key = j => stream[a].new.alertCount <= table[j].alertCount
  <2>1. ASSUME NEW a \in DOMAIN stream, stream[a].key = j
        PROVE  stream[a].new.alertCount <= table[j].alertCount
    <3>1. Precedes(stream[a].new, table[j])
      BY Zenon, <2>1 DEF SpacingInv, StreamBehindTable
    <3>2. stream[a].new.alertCount \in Nat /\ table[j].alertCount \in Nat
      BY Zenon, <1>0
    <3> QED
      BY SMTT(30), SMTT(60), <3>1, <3>2 DEF Precedes
  <2> QED
    BY Zenon, <2>1
<1> HIDE DEF d, j
<1>4. CASE k = j /\ n = row.alertCount
  <2>1. CASE row.alertCount = table[j].alertCount + 1 /\ row.eventCount = d
    <3>1. \A a \in DOMAIN stream : ~(stream[a].key = k /\ stream[a].new.alertCount = n)
      BY SMTT(30), SMTT(60), <1>0, <1>3, <1>4, <2>1
    <3>2. MostEvents(k, n, 0)
      BY SMTT(30), <3>1 DEF MostEvents
    <3>3. EventsOf(k, n) = 0
      BY Zenon, <1>2, <3>2
    <3>4. \A e : e = row.eventCount => MostEvents(k, n, e)'
      <4>1. row.eventCount <= row.eventCount
        BY <1>0
      <4>2. \A a \in DOMAIN stream' : stream'[a].key = k /\ stream'[a].new.alertCount = n =>
                stream'[a].new.eventCount <= row.eventCount
        BY Zenon, <1>1, <3>1, <4>1
      <4>3. \E a \in DOMAIN stream' : /\ stream'[a].key = k
                                      /\ stream'[a].new.alertCount = n
                                      /\ stream'[a].new.eventCount = row.eventCount
        BY Zenon, <1>1, <1>4
      <4> QED
        BY Zenon, <4>2, <4>3 DEF MostEvents
    <3>5. EventsOf(k, n)' = row.eventCount
      BY Zenon, <1>0, <1>2, <3>4
    <3>6. row.eventCount = 0 + d
      <4>1. d \in Nat
        BY Zenon, <1>0
      <4>2. 0 + d = d
        BY <4>1
      <4> QED
        BY Zenon, <2>1, <4>2
    <3> QED
      BY Zenon, <1>4, <3>3, <3>5, <3>6 DEF j, d
  <2>2. CASE row.alertCount = table[j].alertCount /\ row.eventCount = table[j].eventCount + d
    <3>1. MostEvents(k, n, table[j].eventCount)
      BY SMTT(30), <1>0, <1>4, <2>2 DEF MostEvents, RowIsImage
    <3>2. EventsOf(k, n) = table[j].eventCount
      BY Zenon, <1>0, <1>2, <3>1
    <3>3. \A a \in DOMAIN stream : stream[a].key = k /\ stream[a].new.alertCount = n =>
              stream[a].new.eventCount <= row.eventCount
      BY SMTT(30), SMTT(60), <1>0, <2>2, <3>1 DEF MostEvents
    <3>4. \A e : e = row.eventCount => MostEvents(k, n, e)'
      <4>1. row.eventCount <= row.eventCount
        BY <1>0
      <4>2. \A a \in DOMAIN stream' : stream'[a].key = k /\ stream'[a].new.alertCount = n =>
                stream'[a].new.eventCount <= row.eventCount
        BY Zenon, <1>1, <3>3, <4>1
      <4>3. \E a \in DOMAIN stream' : /\ stream'[a].key = k
                                      /\ stream'[a].new.alertCount = n
                                      /\ stream'[a].new.eventCount = row.eventCount
        BY Zenon, <1>1, <1>4
      <4> QED
        BY Zenon, <4>2, <4>3 DEF MostEvents
    <3>5. EventsOf(k, n)' = row.eventCount
      BY Zenon, <1>0, <1>2, <3>4
    <3> QED
      BY Zenon, <1>0, <1>4, <2>2, <3>2, <3>5 DEF j, d
  <2> QED
    BY Zenon, <1>0, <2>1, <2>2
<1>5. CASE ~(k = j /\ n = row.alertCount)
  <2>1. \A e : e = EventsOf(k, n) => MostEvents(k, n, e)'
    BY Zenon, <1>1, <1>2, <1>5 DEF MostEvents
  <2>2. EventsOf(k, n)' = EventsOf(k, n)
    BY Zenon, <1>2, <2>1
  <2> QED
    BY SMTT(30), <1>2, <1>5, <2>2 DEF j
<1> QED
  BY Zenon, <1>4, <1>5

-----------------------------------------------------------------------------
\* The groups of a key, one for each log type.
LEMMA GroupOf ==
    ASSUME NEW k \in Keys, NEW t \in LogTypes
    PROVE  /\ [key |-> k, logType |-> t] \in Groups
           /\ \A g \in Groups : g = [key |-> k, logType |-> t] <=> g.key = k /\ g.logType = t
BY SMTT(30) DEF Groups

\* What a worker has counted of a key is a number of events.
LEMMA TallyType ==
    ASSUME NEW u \in WorkerStates, WorkOK(u), NEW k \in Keys
    PROVE  /\ [t \in LogTypes |-> Part(u, [key |-> k, logType |-> t], AfterWrite)] \in [LogTypes -> Int]
           /\ Tally(u, k) \in Int
<1> DEFINE f == [t \in LogTypes |-> Part(u, [key |-> k, logType |-> t], AfterWrite)]
<1>1. \A t \in LogTypes : Part(u, [key |-> k, logType |-> t], AfterWrite) \in Nat
  BY Zenon, PartType, GroupOf
<1>2. f \in [LogTypes -> Int]
  BY SMTT(30), <1>1
<1>3. Tally(u, k) = SumFunction(f)
  BY SMTT(30) DEF Tally
<1> HIDE DEF f
<1>4. SumFunction(f) \in Int
  BY SMTT(30), <1>2, SumOfFunction, DedupAssumption
<1> QED
  BY Zenon, <1>2, <1>3, <1>4 DEF f

\* A worker that has done the same of every group has counted the same.
LEMMA TallySame ==
    ASSUME NEW u, NEW v, NEW k \in Keys,
           \A g \in Groups : Part(v, g, AfterWrite) = Part(u, g, AfterWrite)
    PROVE  Tally(v, k) = Tally(u, k)
<1>1. \A t \in LogTypes : Part(v, [key |-> k, logType |-> t], AfterWrite)
                            = Part(u, [key |-> k, logType |-> t], AfterWrite)
  BY Zenon, GroupOf
<1>2. [t \in LogTypes |-> Part(v, [key |-> k, logType |-> t], AfterWrite)]
      = [t \in LogTypes |-> Part(u, [key |-> k, logType |-> t], AfterWrite)]
  BY Zenon, <1>1
<1> QED
  BY Zenon, <1>2 DEF Tally

\* An idle worker has counted nothing.
LEMMA TallyIdle ==
    ASSUME NEW u, NEW k \in Keys, u.pc = "idle"
    PROVE  Tally(u, k) = 0
<1> DEFINE f == [t \in LogTypes |-> Part(u, [key |-> k, logType |-> t], AfterWrite)]
<1>1. f \in [LogTypes -> Int] /\ \A t \in LogTypes : f[t] = 0
  BY SMTT(30) DEF Part
<1>2. Tally(u, k) = SumFunction(f)
  BY SMTT(30) DEF Tally
<1> HIDE DEF f
<1> QED
  BY Zenon, <1>1, <1>2, SumOfZeros, DedupAssumption

\* A worker that has matched its whole batch and has nothing in its buffer has
\* counted all of its matches.
LEMMA TallyAll ==
    ASSUME NEW u \in WorkerStates, NEW k \in Keys, u.pc = "flush",
           u.todo = NoMatches, u.data = NoMatches
    PROVE  Tally(u, k) = MatchesOf(u.msg, k)
<1>1. \A g \in Groups : Part(u, g, AfterWrite) = Matches[u.msg][g]
  <2>1. \A g \in Groups : Matches[u.msg][g] \in Nat
    BY SMTT(30), DedupAssumption DEF WorkerStates
  <2> QED
    BY SMTT(30), <2>1 DEF Part, AfterWrite, NoMatches
<1>2. \A t \in LogTypes : Part(u, [key |-> k, logType |-> t], AfterWrite)
                            = Matches[u.msg][[key |-> k, logType |-> t]]
  BY Zenon, <1>1, GroupOf
<1>3. [t \in LogTypes |-> Part(u, [key |-> k, logType |-> t], AfterWrite)]
      = [t \in LogTypes |-> Matches[u.msg][[key |-> k, logType |-> t]]]
  BY Zenon, <1>2
<1> QED
  BY Zenon, <1>3 DEF Tally, MatchesOf

\* Writing the row of a group counts its events.
LEMMA TallyWrite ==
    ASSUME NEW u \in WorkerStates, NEW v \in WorkerStates, WorkOK(u), WorkOK(v),
           NEW k \in Keys, u.pc \in {"conditional", "merge"}, v.pc = "put",
           v.msg = u.msg, v.todo = u.todo, v.data = u.data, v.group = u.group
    PROVE  Tally(v, k) = Tally(u, k) + (IF k = u.group.key THEN u.data[u.group] ELSE 0)
<1> DEFINE f == [t \in LogTypes |-> Part(u, [key |-> k, logType |-> t], AfterWrite)]
           h == [t \in LogTypes |-> Part(v, [key |-> k, logType |-> t], AfterWrite)]
<1>0. /\ u.group \in Groups /\ u.group.key \in Keys /\ u.group.logType \in LogTypes
      /\ \A g \in Groups : u.data[g] \in Nat /\ u.todo[g] \in Nat /\ Matches[u.msg][g] \in Nat
  <2>1. u.group \in Groups
        /\ \A g \in Groups : u.data[g] \in Nat /\ u.todo[g] \in Nat /\ Matches[u.msg][g] \in Nat
    BY Zenon, DedupAssumption DEF WorkerStates
  <2> QED
    BY Zenon, <2>1 DEF Groups
<1>1. \A g \in Groups : Part(v, g, AfterWrite) =
          Part(u, g, AfterWrite) + (IF g = u.group THEN u.data[g] ELSE 0)
  BY SMTT(30), <1>0 DEF Part, AfterWrite
<1>2. /\ f \in [LogTypes -> Int] /\ h \in [LogTypes -> Int] /\ IsFiniteSet(LogTypes)
      /\ Tally(u, k) = SumFunction(f) /\ Tally(v, k) = SumFunction(h)
      /\ SumFunction(f) \in Int /\ SumFunction(h) \in Int
  BY Zenon, TallyType, DedupAssumption DEF Tally
<1>3. CASE k = u.group.key
  <2> DEFINE c == u.group.logType
  <2>1. u.group = [key |-> k, logType |-> c]
    BY Zenon, <1>0, <1>3, GroupOf
  <2>2. h[c] = f[c] + u.data[u.group]
    BY Zenon, <1>0, <1>1, <2>1
  <2>3. ASSUME NEW t \in LogTypes \ {c} PROVE h[t] = f[t]
    <3> DEFINE g == [key |-> k, logType |-> t]
    <3>1. g \in Groups /\ g # u.group
      BY SMTT(30), SMTT(60), <1>0, <2>3, GroupOf
    <3>2. Part(u, g, AfterWrite) \in Int
      BY SMTT(30), <3>1, PartType
    <3> HIDE DEF g
    <3>3. Part(v, g, AfterWrite) = Part(u, g, AfterWrite)
      BY SMTT(30), <1>1, <3>1, <3>2
    <3> QED
      BY Zenon, <3>3 DEF g
  <2> HIDE DEF f, h, c
  <2>4. c \in LogTypes /\ f[c] \in Int
    BY Zenon, <1>0, <1>2 DEF c
  <2>5. SumFunction(h) = SumFunction(f) - f[c] + h[c]
    BY Zenon, <1>2, <2>3, <2>4, SumOfUpdate
  <2> QED
    BY SMTT(30), SMTT(60), <1>0, <1>2, <1>3, <2>2, <2>4, <2>5
<1>4. CASE k # u.group.key
  <2>1. ASSUME NEW t \in LogTypes PROVE h[t] = f[t]
    <3> DEFINE g == [key |-> k, logType |-> t]
    <3>1. g \in Groups /\ g # u.group
      BY SMTT(30), <1>0, <1>4, GroupOf
    <3>2. Part(u, g, AfterWrite) \in Int
      BY SMTT(30), <3>1, PartType
    <3> HIDE DEF g
    <3>3. Part(v, g, AfterWrite) = Part(u, g, AfterWrite)
      BY SMTT(30), <1>1, <3>1, <3>2
    <3> QED
      BY Zenon, <3>3 DEF g
  <2>2. h = f
    BY Zenon, <2>1
  <2> HIDE DEF f, h
  <2> QED
    BY SMTT(30), <1>2, <1>4, <2>2
<1> QED
  BY Zenon, <1>3, <1>4

-----------------------------------------------------------------------------
\* The sums of the account are over finite sets of numbers.
CountsOK ==
    \A k \in Keys :
        /\ [n \in AlertNumbers |-> EventsOf(k, n)] \in [AlertNumbers -> Int]
        /\ [m \in finished |-> MatchesOf(m, k)] \in [finished -> Int]
        /\ [w \in Workers |-> Tally(worker[w], k)] \in [Workers -> Int]
        /\ AlertEvents(k) \in Int /\ FinishedMatches(k) \in Int /\ Tallies(k) \in Int

\* A batch makes the rules match a number of events.
LEMMA MatchesType ==
    ASSUME NEW m \in Messages, NEW k \in Keys
    PROVE  MatchesOf(m, k) \in Int
<1> DEFINE f == [t \in LogTypes |-> Matches[m][[key |-> k, logType |-> t]]]
<1>1. \A g \in Groups : Matches[m][g] \in Int
  BY SMTT(30), DedupAssumption
<1>2. f \in [LogTypes -> Int]
  BY SMTT(30), <1>1, GroupOf
<1>3. MatchesOf(m, k) = SumFunction(f)
  BY Zenon DEF MatchesOf
<1> HIDE DEF f
<1> QED
  BY Zenon, <1>2, <1>3, SumOfFunction, DedupAssumption

\* So their sums are numbers.
LEMMA CountTypes == SpacingInv /\ WorkInv => CountsOK
<1> SUFFICES ASSUME SpacingInv, WorkInv, NEW k \in Keys
             PROVE  /\ [n \in AlertNumbers |-> EventsOf(k, n)] \in [AlertNumbers -> Int]
                    /\ [m \in finished |-> MatchesOf(m, k)] \in [finished -> Int]
                    /\ [w \in Workers |-> Tally(worker[w], k)] \in [Workers -> Int]
                    /\ AlertEvents(k) \in Int /\ FinishedMatches(k) \in Int /\ Tallies(k) \in Int
  BY SMTT(30) DEF CountsOK
<1> DEFINE a == [n \in AlertNumbers |-> EventsOf(k, n)]
           b == [m \in finished |-> MatchesOf(m, k)]
           c == [w \in Workers |-> Tally(worker[w], k)]
<1>1. a \in [AlertNumbers -> Int]
  BY SMTT(30), EventsOfIs DEF EventsAreMost
<1>2. b \in [finished -> Int]
  BY Zenon, MatchesType DEF SpacingInv, TypeOK
<1>3. c \in [Workers -> Int]
  BY Zenon, TallyType DEF SpacingInv, TypeOK, WorkInv
<1>4. AlertEvents(k) = SumFunction(a) /\ FinishedMatches(k) = SumFunction(b)
      /\ Tallies(k) = SumFunction(c)
  BY SMTT(30) DEF AlertEvents, FinishedMatches, Tallies
<1> HIDE DEF a, b, c
<1>5. SumFunction(a) \in Int /\ SumFunction(b) \in Int /\ SumFunction(c) \in Int
  BY Zenon, <1>1, <1>2, <1>3, FiniteIndexes, SumOfFunction
<1> QED
  BY Zenon, <1>1, <1>2, <1>3, <1>4, <1>5 DEF a, b, c

\* The same after a step.
LEMMA CountTypesNext == (SpacingInv /\ WorkInv)' => CountsOK'
BY CountTypes, PTL

\* A step of one worker changes the tallies by what that worker counted.
LEMMA TalliesChange ==
    ASSUME SpacingInv, CountsOK, CountsOK', NEW k \in Keys, NEW w \in Workers,
           \A v \in Workers \ {w} : worker'[v] = worker[v]
    PROVE  Tallies(k)' = Tallies(k) - Tally(worker[w], k) + Tally(worker'[w], k)
<1> DEFINE f == [v \in Workers |-> Tally(worker[v], k)]
           h == [v \in Workers |-> Tally(worker'[v], k)]
<1>1. f \in [Workers -> Int] /\ h \in [Workers -> Int] /\ IsFiniteSet(Workers)
  <2>1. h = [v \in Workers |-> Tally(worker[v], k)]'
    BY Zenon DEF Tally, Part, AfterWrite
  <2> QED
    BY Zenon, <2>1, FiniteIndexes DEF CountsOK
<1>2. \A v \in Workers \ {w} : h[v] = f[v]
  BY Zenon
<1>3. f[w] = Tally(worker[w], k) /\ h[w] = Tally(worker'[w], k)
  BY SMTT(30)
<1>4. Tallies(k) = SumFunction(f) /\ Tallies(k)' = SumFunction(h)
  BY Zenon DEF Tallies, Tally, Part, AfterWrite
<1> HIDE DEF f, h
<1>5. SumFunction(h) = SumFunction(f) - f[w] + h[w]
  BY SMTT(30), SMTT(60), <1>1, <1>2, SumOfUpdate
<1> QED
  BY Zenon, <1>3, <1>4, <1>5

\* Writing a row adds the events of the group to those the alerts count.
LEMMA AlertEventsWritten ==
    ASSUME SpacingInv, SpacingInv', CountsOK, CountsOK', RowIsImage, NEW w \in Workers,
           NEW row \in Rows, WriteRow(w, row),
           Follows(table[worker[w].group.key], row, worker[w]), NEW k \in Keys
    PROVE  AlertEvents(k)' = AlertEvents(k)
               + (IF k = worker[w].group.key THEN worker[w].data[worker[w].group] ELSE 0)
<1> DEFINE f == [n \in AlertNumbers |-> EventsOf(k, n)]
           h == [n \in AlertNumbers |-> EventsOf(k, n)']
           r == row.alertCount
           d == worker[w].data[worker[w].group]
<1>1. /\ f \in [AlertNumbers -> Int] /\ h \in [AlertNumbers -> Int]
      /\ IsFiniteSet(AlertNumbers) /\ r \in AlertNumbers /\ d \in Nat
      /\ AlertEvents(k) = SumFunction(f) /\ AlertEvents(k)' = SumFunction(h)
      /\ AlertEvents(k) \in Int /\ AlertEvents(k)' \in Int
  BY Zenon, FiniteIndexes, HeldTypes DEF CountsOK, HeldOK, Follows, AlertEvents
<1>2. \A n \in AlertNumbers : EventsOf(k, n)' = EventsOf(k, n)
          + (IF k = worker[w].group.key /\ n = r THEN d ELSE 0)
  BY Zenon, WriteEvents
<1>3. \A n \in AlertNumbers : EventsOf(k, n) \in Int
  <2>1. \A n \in AlertNumbers : EventsOf(k, n) \in Nat
    BY Zenon, EventsOfIs DEF EventsAreMost
  <2> QED
    BY SMTT(30), SMTT(60), <2>1
<1>4. /\ \A n \in AlertNumbers \ {r} : h[n] = f[n]
      /\ h[r] = f[r] + (IF k = worker[w].group.key THEN d ELSE 0) /\ f[r] \in Int
  <2>1. /\ \A n \in AlertNumbers : f[n] = EventsOf(k, n) /\ h[n] = EventsOf(k, n)'
        /\ \A n \in AlertNumbers : f[n] \in Int
    BY Zenon, <1>3
  <2> HIDE DEF f, h, r, d
  <2>2. \A n \in AlertNumbers : h[n] = f[n] + (IF k = worker[w].group.key /\ n = r THEN d ELSE 0)
    BY Zenon, <1>2, <2>1
  <2>3. \A n \in AlertNumbers : f[n] + 0 = f[n]
    BY <2>1
  <2>4. \A n \in AlertNumbers \ {r} : h[n] = f[n]
    BY Zenon, <2>2, <2>3
  <2> QED
    BY Zenon, <1>1, <2>1, <2>2, <2>4
<1> HIDE DEF f, h, r, d
<1>5. SumFunction(h) = SumFunction(f) - f[r] + h[r]
  BY Zenon, <1>1, <1>4, SumOfUpdate
<1> QED
  BY SMTT(30), SMTT(60), <1>1, <1>4, <1>5 DEF d

\* A batch that finishes for the first time adds its matches.
LEMMA FinishMatches ==
    ASSUME SpacingInv, CountsOK, CountsOK', NEW k \in Keys, NEW m \in Messages,
           m \notin finished, finished' = finished \cup {m}
    PROVE  FinishedMatches(k)' = FinishedMatches(k) + MatchesOf(m, k)
<1> DEFINE f == [x \in finished |-> MatchesOf(x, k)]
           h == [x \in finished' |-> MatchesOf(x, k)]
<1>1. /\ f \in [finished -> Int] /\ h \in [finished' -> Int] /\ IsFiniteSet(finished)
      /\ FinishedMatches(k) = SumFunction(f) /\ FinishedMatches(k)' = SumFunction(h)
  BY Zenon, FiniteIndexes DEF CountsOK, FinishedMatches, MatchesOf
<1>2. h[m] = MatchesOf(m, k) /\ \A x \in finished : h[x] = f[x]
  BY Zenon
<1> HIDE DEF f, h
<1>3. SumFunction(h) = SumFunction(f) + h[m]
  BY SMTT(30), <1>1, <1>2, SumOfExtension
<1> QED
  BY Zenon, <1>1, <1>2, <1>3

\* Every step that gives no batch up keeps the account of the alerts.
LEMMA NextCount ==
    /\ SpacingInv /\ SpacingInv' /\ WorkInv /\ WorkInv' /\ RowIsImage /\ HeldInv
    /\ CountInv /\ [Next]_vars
    => CountInv'
<1> SUFFICES ASSUME SpacingInv, SpacingInv', WorkInv, WorkInv', RowIsImage, HeldInv,
                    CountInv, [Next]_vars, Clean', NEW k \in Keys
             PROVE  AlertEvents(k)' = FinishedMatches(k)' + Tallies(k)'
  BY SMTT(30) DEF CountInv
<1>0. /\ CountsOK /\ CountsOK' /\ AlertEvents(k) = FinishedMatches(k) + Tallies(k)
      /\ AlertEvents(k) \in Int /\ FinishedMatches(k) \in Int /\ Tallies(k) \in Int
      /\ worker \in [Workers -> WorkerStates]
      /\ \A w \in Workers : worker[w] \in WorkerStates /\ WorkOK(worker[w])
      /\ \A w \in Workers : Tally(worker[w], k) \in Int
  <2>1. AlertEvents(k) = FinishedMatches(k) + Tallies(k)
    BY Zenon, CleanBack DEF CountInv
  <2>2. \A w \in Workers : worker[w] \in WorkerStates /\ WorkOK(worker[w])
    BY Zenon DEF SpacingInv, TypeOK, WorkInv
  <2> QED
    BY Zenon, <2>1, <2>2, CountTypes, CountTypesNext, TallyType DEF CountsOK, SpacingInv, TypeOK
<1>1. stream' = stream => AlertEvents(k)' = AlertEvents(k)
  BY SMTT(30) DEF AlertEvents, EventsOf, ImagesOf
<1>2. finished' = finished => FinishedMatches(k)' = FinishedMatches(k)
  BY Zenon DEF FinishedMatches, MatchesOf
<1>3. ASSUME NEW w \in Workers, NEW u, worker' = [worker EXCEPT ![w] = u]
      PROVE  Tallies(k)' = Tallies(k) - Tally(worker[w], k) + Tally(u, k)
  <2>1. worker'[w] = u /\ \A v \in Workers \ {w} : worker'[v] = worker[v]
    BY SMTT(30), <1>0, <1>3
  <2> QED
    BY Zenon, <1>0, <2>1, TalliesChange
<1>4. ASSUME NEW w \in Workers, NEW u, worker' = [worker EXCEPT ![w] = u],
             Tally(u, k) = Tally(worker[w], k), stream' = stream, finished' = finished
      PROVE  AlertEvents(k)' = FinishedMatches(k)' + Tallies(k)'
  <2>1. Tallies(k)' = Tallies(k) - Tally(worker[w], k) + Tally(u, k)
    BY Zenon, <1>3, <1>4
  <2>2. Tallies(k)' = Tallies(k)
    BY SMTT(30), <1>0, <1>4, <2>1
  <2> QED
    BY Zenon, <1>0, <1>1, <1>2, <1>4, <2>2
<1>5. ASSUME NEW w \in Workers, NEW m \in Messages, Receive(w, m)
      PROVE  AlertEvents(k)' = FinishedMatches(k)' + Tallies(k)'
  <2> DEFINE u == [IdleWorker EXCEPT !.pc = "analyze", !.msg = m, !.todo = Matches[m]]
  <2>1. /\ worker' = [worker EXCEPT ![w] = u] /\ worker[w].pc = "idle"
        /\ stream' = stream /\ finished' = finished
    BY SMTT(30), <1>5 DEF Receive
  <2>2. u.pc = "analyze" /\ u.msg = m /\ u.todo = Matches[m] /\ u.data = NoMatches
    BY SMTT(30) DEF IdleWorker
  <2> HIDE DEF u
  <2>3. \A g \in Groups : Matches[m][g] \in Nat
    BY Zenon, DedupAssumption
  <2>4. \A g \in Groups : Part(u, g, AfterWrite) = 0 /\ Part(worker[w], g, AfterWrite) = 0
    BY SMTT(30), <2>1, <2>2, <2>3 DEF Part, AfterWrite, NoMatches
  <2>5. Tally(u, k) = Tally(worker[w], k)
    BY SMTT(30), <2>4, TallySame
  <2> QED
    BY Zenon, <1>4, <2>1, <2>5
<1>6. ASSUME NEW w \in Workers, NEW u, worker' = [worker EXCEPT ![w] = u],
             GoesOn(worker[w], u), stream' = stream, finished' = finished
      PROVE  AlertEvents(k)' = FinishedMatches(k)' + Tallies(k)'
  <2>1. Tally(u, k) = Tally(worker[w], k)
    BY Zenon, <1>6, TallySame DEF GoesOn
  <2> QED
    BY Zenon, <1>4, <1>6, <2>1
<1>7. ASSUME NEW w \in Workers, NEW row \in Rows, worker[w].pc \in {"conditional", "merge"},
             WriteRow(w, row), Follows(table[worker[w].group.key], row, worker[w])
      PROVE  AlertEvents(k)' = FinishedMatches(k)' + Tallies(k)'
  <2> DEFINE u == [worker[w] EXCEPT !.pc = "put", !.alert = row.alertCount]
             c == IF k = worker[w].group.key THEN worker[w].data[worker[w].group] ELSE 0
  <2>1. worker' = [worker EXCEPT ![w] = u] /\ finished' = finished
    BY Zenon, <1>0, <1>7 DEF WriteRow
  <2>2. /\ u.pc = "put" /\ u.msg = worker[w].msg /\ u.todo = worker[w].todo
        /\ u.data = worker[w].data /\ u.group = worker[w].group
    BY Zenon, <1>0 DEF WorkerStates
  <2> HIDE DEF u
  <2>3. worker'[w] = u /\ worker'[w] \in WorkerStates
    BY Zenon, <1>0, <2>1 DEF SpacingInv, TypeOK
  <2>4. WorkOK(worker'[w])
    BY Zenon DEF WorkInv, WorkOK
  <2>5. Tally(u, k) = Tally(worker[w], k) + c
    BY Zenon, <1>0, <1>7, <2>2, <2>3, <2>4, TallyWrite
  <2>6. Tallies(k)' = Tallies(k) - Tally(worker[w], k) + Tally(u, k)
    BY Zenon, <1>3, <2>1
  <2>7. AlertEvents(k)' = AlertEvents(k) + c
    BY Zenon, <1>0, <1>7, AlertEventsWritten
  <2>8. c \in Int /\ FinishedMatches(k)' = FinishedMatches(k)
    BY SMTT(30), SMTT(60), <1>2, <2>1, HeldTypes DEF HeldOK
  <2> HIDE DEF c
  <2> QED
    BY SMTT(30), <1>0, <2>5, <2>6, <2>7, <2>8
<1>8. ASSUME NEW w \in Workers, PutObject(w)
      PROVE  AlertEvents(k)' = FinishedMatches(k)' + Tallies(k)'
  <2> DEFINE u == [worker[w] EXCEPT !.pc = "publish"]
  <2>1. /\ worker' = [worker EXCEPT ![w] = u] /\ stream' = stream /\ finished' = finished
        /\ worker[w].pc = "put"
    BY Zenon, <1>0, <1>8 DEF PutObject
  <2>2. /\ u.pc = "publish" /\ u.msg = worker[w].msg /\ u.todo = worker[w].todo
        /\ u.data = worker[w].data /\ u.group = worker[w].group
    BY Zenon, <1>0 DEF WorkerStates
  <2> HIDE DEF u
  <2>3. \A g \in Groups : Part(u, g, AfterWrite) = Part(worker[w], g, AfterWrite)
    BY Zenon, <2>1, <2>2 DEF Part, AfterWrite
  <2>4. Tally(u, k) = Tally(worker[w], k)
    BY Zenon, <2>3, TallySame
  <2> QED
    BY Zenon, <1>4, <2>1, <2>4
<1>9. ASSUME NEW w \in Workers, FinishInvocation(w)
      PROVE  AlertEvents(k)' = FinishedMatches(k)' + Tallies(k)'
  <2>1. /\ worker' = [worker EXCEPT ![w] = IdleWorker] /\ stream' = stream
        /\ finished' = finished \cup {worker[w].msg}
        /\ worker[w].pc = "flush" /\ worker[w].data = NoMatches /\ worker[w].todo = NoMatches
    BY Zenon, <1>9 DEF FinishInvocation, WorkInv, WorkOK
  <2>2. PICK m \in Messages : m = worker[w].msg
    BY Zenon, HeldTypes DEF HeldOK
  <2>3. m \notin finished
    BY Zenon, <2>1, <2>2 DEF HeldInv
  <2>4. FinishedMatches(k)' = FinishedMatches(k) + MatchesOf(m, k) /\ MatchesOf(m, k) \in Int
    BY Zenon, <1>0, <2>1, <2>2, <2>3, FinishMatches, MatchesType
  <2>5. Tally(worker[w], k) = MatchesOf(m, k)
    BY Zenon, <1>0, <2>1, <2>2, TallyAll
  <2>6. Tally(IdleWorker, k) = 0
    BY SMTT(30), TallyIdle DEF IdleWorker
  <2>7. Tallies(k)' = Tallies(k) - Tally(worker[w], k) + Tally(IdleWorker, k)
    BY Zenon, <1>3, <2>1
  <2> QED
    <3>1. /\ AlertEvents(k)' = FinishedMatches(k) + Tallies(k)
          /\ FinishedMatches(k)' = FinishedMatches(k) + MatchesOf(m, k)
          /\ Tallies(k)' = Tallies(k) - MatchesOf(m, k) + 0
      BY Zenon, <1>0, <1>1, <2>1, <2>4, <2>5, <2>6, <2>7
    <3>2. FinishedMatches(k) \in Int /\ Tallies(k) \in Int /\ MatchesOf(m, k) \in Int
      BY Zenon, <1>0, <2>4
    <3> QED
      BY SMTT(30), SMTT(60), <3>1, <3>2
<1>10. ASSUME NEW w \in Workers, Fail(w) PROVE FALSE
  BY Zenon, <1>10, CleanBack
<1>11. CASE UNCHANGED <<finished, worker, stream>>
  <2>1. Tallies(k)' = Tallies(k)
    BY Zenon, <1>11 DEF Tallies, Tally, Part, AfterWrite
  <2> QED
    BY Zenon, <1>0, <1>1, <1>2, <1>11, <2>1
<1> QED
  BY Zenon, <1>5, <1>6, <1>7, <1>8, <1>9, <1>10, <1>11, BatchSteps

\* Nothing is counted at the start.
LEMMA InitCount == Init => HeldInv /\ CountInv
<1> SUFFICES ASSUME Init PROVE HeldInv /\ CountInv
  OBVIOUS
<1>1. SpacingInv
  BY InitSpacing
<1>2. HeldInv
  BY Zenon DEF Init, HeldInv, IdleWorker
<1>3. ASSUME NEW k \in Keys
      PROVE  AlertEvents(k) = 0 /\ FinishedMatches(k) = 0 /\ Tallies(k) = 0
  <2> DEFINE a == [n \in AlertNumbers |-> EventsOf(k, n)]
             b == [m \in finished |-> MatchesOf(m, k)]
             c == [w \in Workers |-> Tally(worker[w], k)]
  <2>1. \A n \in AlertNumbers : MostEvents(k, n, 0)
    BY SMTT(30) DEF Init, MostEvents
  <2>2. \A n \in AlertNumbers : EventsOf(k, n) = 0
    BY Zenon, <1>1, <2>1, EventsOfIs DEF EventsAreMost
  <2>3. a \in [AlertNumbers -> Int] /\ \A n \in AlertNumbers : a[n] = 0
    BY SMTT(30), <2>2
  <2>4. b \in [finished -> Int] /\ \A m \in finished : b[m] = 0
    BY Zenon DEF Init
  <2>5. \A w \in Workers : Tally(worker[w], k) = 0
    BY Zenon, TallyIdle DEF Init, IdleWorker
  <2>6. c \in [Workers -> Int] /\ \A w \in Workers : c[w] = 0
    BY SMTT(30), <2>5
  <2> HIDE DEF a, b, c
  <2>7. SumFunction(a) = 0 /\ SumFunction(b) = 0 /\ SumFunction(c) = 0
    BY Zenon, <1>1, <2>3, <2>4, <2>6, FiniteIndexes, SumOfZeros
  <2> QED
    BY Zenon, <2>7 DEF a, b, c, AlertEvents, FinishedMatches, Tallies
<1>4. CountInv
  BY SMTT(30), <1>3 DEF CountInv
<1> QED
  BY <1>2, <1>4

\* When every batch is finished, no worker has anything left.
LEMMA CountIsExact == SpacingInv /\ WorkInv /\ HeldInv /\ CountInv => CountsExact
<1> SUFFICES ASSUME SpacingInv, WorkInv, HeldInv, CountInv,
                    \A m \in Messages : receives[m] = 1 /\ m \in finished,
                    NEW k \in Keys
             PROVE  AlertEvents(k) = SumFunction([m \in Messages |-> MatchesOf(m, k)])
  BY Zenon DEF CountsExact, AlertEvents, MatchesOf
<1>1. finished = Messages /\ Clean
  <2>1. finished = Messages
    BY Zenon DEF SpacingInv, TypeOK
  <2>2. Clean
    BY SMTT(30) DEF Clean
  <2> QED
    BY SMTT(30), <2>1, <2>2
<1>2. \A w \in Workers : worker[w].pc = "idle"
  BY Zenon, <1>1, HeldTypes DEF HeldInv, HeldOK
<1> DEFINE c == [w \in Workers |-> Tally(worker[w], k)]
<1>3. \A w \in Workers : Tally(worker[w], k) = 0
  BY Zenon, <1>2, TallyIdle
<1>4. c \in [Workers -> Int] /\ (\A w \in Workers : c[w] = 0) /\ Tallies(k) = SumFunction(c)
  BY SMTT(30), <1>3 DEF Tallies
<1> HIDE DEF c
<1>5. Tallies(k) = 0
  BY Zenon, <1>4, FiniteIndexes, SumOfZeros
<1>6. AlertEvents(k) = FinishedMatches(k) + Tallies(k) /\ FinishedMatches(k) \in Int
  BY Zenon, <1>1, CountTypes DEF CountInv, CountsOK
<1>7. FinishedMatches(k) = SumFunction([m \in Messages |-> MatchesOf(m, k)])
  BY SMTT(30), <1>1 DEF FinishedMatches
<1> QED
  BY SMTT(30), <1>5, <1>6, <1>7

\* Without a redelivery each match is counted in exactly one alert.
THEOREM CountsCorrect == Spec => []CountsExact
<1> DEFINE I == SpacingInv /\ StoredCountedInv /\ WorkInv /\ HeldInv /\ CountInv
<1>1. Init => I
  BY Zenon, InitSpacing, InitStoredCounted, InitBatch, InitCount
<1>2. I /\ [Next]_vars => I'
  BY Zenon, NextSpacing, NextStoredCounted, NextWork, NextHeld, NextCount DEF StoredCountedInv
<1>3. I => CountsExact
  BY Zenon, CountIsExact
<1> QED
  BY <1>1, <1>2, <1>3, PTL DEF Spec

-----------------------------------------------------------------------------
IdOf(a) == Forwarder!generateAlertID(stream[a])

\* Record c is the last one of key k among the first n.
LastOf(k, n, c) ==
    /\ c \in 1..n
    /\ stream[c].key = k
    /\ \A b \in 1..n : stream[b].key = k => b <= c

\* update_item writes the old and the new image: the records of one key form a
\* chain that ends in the row the table has now.
OldImages ==
    \A a \in DOMAIN stream :
        \/ stream[a].old.alertCount = 0 /\ \A b \in 1..(a - 1) : stream[b].key # stream[a].key
        \/ \E c \in 1..(a - 1) :
              LastOf(stream[a].key, a - 1, c) /\ stream[c].new = stream[a].old
RowIsLast ==
    \A k \in Keys :
        \/ table[k].alertCount = 0 /\ \A b \in DOMAIN stream : stream[b].key # k
        \/ \E c \in DOMAIN stream : LastOf(k, Len(stream), c) /\ stream[c].new = table[k]
ChainInv == OldImages /\ RowIsLast

\* Of the running invocation, the records written to the alert table and the
\* records it is done with; the checkpointed ones between invocations.
Written == IF step = "idle" THEN cursor ELSE IF step = "notify" THEN pos ELSE pos - 1
Done == IF step = "idle" THEN cursor ELSE pos - 1

Items == {Forwarder!NoAlert} \cup {Forwarder!WholeAlert(row) : row \in Rows}

ForwarderTypeOK ==
    /\ step \in {"idle", "record", "notify"}
    /\ cursor \in 0..Len(stream)
    /\ step # "idle" => /\ batchEnd \in cursor..Len(stream)
                        /\ pos \in (cursor + 1)..(batchEnd + 1)
    /\ step = "notify" => /\ pos <= batchEnd
                          /\ Forwarder!needToCreateNewAlert(stream[pos])
    /\ alerts \in [Forwarder!AlertIds -> Items]
    /\ notifications \in [Forwarder!AlertIds -> Nat]
    /\ failures \in Nat

\* The item of alert id was written from record x, which no record written in
\* this invocation or checkpointed is younger than; and once this invocation
\* has written the alert, x is not one that a failed invocation left behind.
Reflects(id, x) ==
    /\ x \in DOMAIN stream
    /\ IdOf(x) = id
    /\ alerts[id] = Forwarder!WholeAlert(stream[x].new)
    /\ \A y \in 1..Written : IdOf(y) = id => y <= x
    /\ (\E y \in (cursor + 1)..Written : IdOf(y) = id) => x <= Written
ReplayInv ==
    \A id \in Forwarder!AlertIds :
        \/ alerts[id] = Forwarder!NoAlert /\ \A y \in 1..Written : IdOf(y) # id
        \/ \E x \in DOMAIN stream : Reflects(id, x)

\* A notification is sent for the first record of an alert, once as long as no
\* batch is replayed.
NoticeInv ==
    \A id \in Forwarder!AlertIds :
        /\ notifications[id] > 0 => alerts[id] # Forwarder!NoAlert
        /\ (\E a \in 1..Done : IdOf(a) = id) => notifications[id] >= 1
        /\ failures = 0 => /\ notifications[id] <= 1
                           /\ (\A a \in 1..Done : IdOf(a) # id) => notifications[id] = 0

ForwarderInv == ForwarderTypeOK /\ ReplayInv /\ NoticeInv

\* The inductive invariant of the pipeline.
PipelineInv == SpacingInv /\ ChainInv /\ ForwarderInv

-----------------------------------------------------------------------------
(* The stream.                                                             *)

\* The types of what the records hold.
LEMMA RecordTypes ==
    ASSUME SpacingInv
    PROVE  /\ Len(stream) \in Nat /\ DOMAIN stream = 1..Len(stream)
           /\ \A a \in DOMAIN stream : /\ stream[a] \in StreamRecords
                                       /\ stream[a].key \in Keys
                                       /\ stream[a].new \in Rows /\ stream[a].old \in Rows
                                       /\ stream[a].new.alertCount \in Nat
                                       /\ stream[a].old.alertCount \in Nat
                                       /\ stream[a].new.alertCount > 0
<1>1. stream \in Seq(StreamRecords)
  BY Zenon DEF SpacingInv, TypeOK
<1>2. Len(stream) \in Nat /\ DOMAIN stream = 1..Len(stream)
      /\ \A a \in DOMAIN stream : stream[a] \in StreamRecords
  BY <1>1
<1>3. \A r \in StreamRecords : /\ r.key \in Keys /\ r.new \in Rows /\ r.old \in Rows
                               /\ r.new.alertCount \in Nat /\ r.old.alertCount \in Nat
  BY DEF StreamRecords, Rows
<1> QED
  BY Zenon, <1>2, <1>3 DEF SpacingInv, ImagesAreAlerts

\* generateAlertID gives every record of the stream an alert the forwarder's
\* table is indexed by.
LEMMA IdsOfRecords ==
    ASSUME SpacingInv
    PROVE  \A a \in DOMAIN stream : IdOf(a) \in Forwarder!AlertIds
<1> SUFFICES ASSUME NEW a \in DOMAIN stream PROVE IdOf(a) \in Forwarder!AlertIds
  OBVIOUS
<1> DEFINE r == stream[a].new
           row == table[stream[a].key]
<1>1. stream[a].key \in Keys /\ r.alertCount \in Nat /\ r.alertCount > 0
  BY Zenon, RecordTypes
<1>2. row \in Rows /\ row.alertCount <= row.alertCreationTime + 1
  BY Zenon, <1>1 DEF SpacingInv, TypeOK, NumbersBounded
<1>3. row.alertCount \in Nat /\ row.alertCreationTime \in 0..MaxTime
  BY Zenon, <1>2 DEF Rows
<1>4. Precedes(r, row)
  BY Zenon DEF SpacingInv, StreamBehindTable
<1>5. r.alertCount <= row.alertCount
  BY SMTT(30), SMTT(60), <1>1, <1>3, <1>4 DEF Precedes
<1>6. r.alertCount \in AlertNumbers
  BY SMTT(30), SMTT(60), <1>1, <1>2, <1>3, <1>5, DedupAssumption DEF AlertNumbers
<1> QED
  BY Zenon, <1>1, <1>6 DEF IdOf, Forwarder!generateAlertID, Forwarder!AlertIds

\* A record that does not ask for a new alert follows another of its alert,
\* and one that asks for it is the first of its alert: needToCreateNewAlert
\* compares the two images and finds out about the whole stream.
LEMMA NewIsFirst ==
    ASSUME SpacingInv, ChainInv, NEW a \in DOMAIN stream
    PROVE  Forwarder!needToCreateNewAlert(stream[a])
               <=> \A b \in 1..(a - 1) : IdOf(b) # IdOf(a)
<1>0. /\ Len(stream) \in Nat /\ DOMAIN stream = 1..Len(stream) /\ a \in Nat
      /\ 1..(a - 1) \subseteq DOMAIN stream
  BY RecordTypes
<1>1. CASE stream[a].old.alertCount = 0
           /\ \A b \in 1..(a - 1) : stream[b].key # stream[a].key
  BY Zenon, <1>1 DEF Forwarder!needToCreateNewAlert, IdOf, Forwarder!generateAlertID
<1>2. ASSUME NEW c \in 1..(a - 1), LastOf(stream[a].key, a - 1, c),
             stream[c].new = stream[a].old
      PROVE  Forwarder!needToCreateNewAlert(stream[a])
                 <=> \A b \in 1..(a - 1) : IdOf(b) # IdOf(a)
  <2>1. c \in DOMAIN stream /\ stream[c].key = stream[a].key
    BY Zenon, <1>0, <1>2 DEF LastOf
  <2>2. stream[a].old.alertCount \in Nat /\ stream[a].old.alertCount > 0
    BY Zenon, <1>2, <2>1, RecordTypes
  <2>3. Forwarder!needToCreateNewAlert(stream[a])
            <=> stream[c].new.alertCount # stream[a].new.alertCount
    BY <1>2, <2>2 DEF Forwarder!needToCreateNewAlert
  <2>4. ASSUME NEW b \in 1..(a - 1), IdOf(b) = IdOf(a)
        PROVE  stream[c].new.alertCount = stream[a].new.alertCount
    <3>1. /\ stream[b].key = stream[a].key
          /\ stream[b].new.alertCount = stream[a].new.alertCount
      BY Zenon, <2>4 DEF IdOf, Forwarder!generateAlertID
    <3>2. b <= c /\ b \in DOMAIN stream
      BY Zenon, <1>0, <1>2, <3>1 DEF LastOf
    <3>3. CASE b = c
      BY Zenon, <3>1, <3>3
    <3>4. CASE b # c
      <4>1. /\ stream[b].new.alertCount <= stream[c].new.alertCount
            /\ stream[c].new.alertCount <= stream[a].new.alertCount
        BY SMTT(30), SMTT(60), <1>0, <2>1, <3>1, <3>2, <3>4, RecordTypes DEF SpacingInv, AlertSpacing
      <4>2. stream[c].new.alertCount \in Nat /\ stream[a].new.alertCount \in Nat
        BY Zenon, <2>1, RecordTypes
      <4> QED
        BY SMTT(30), SMTT(60), <3>1, <4>1, <4>2
    <3> QED
      BY Zenon, <3>3, <3>4
  <2>5. IdOf(c) = IdOf(a) <=> stream[c].new.alertCount = stream[a].new.alertCount
    BY Zenon, <2>1 DEF IdOf, Forwarder!generateAlertID
  <2> QED
    BY Zenon, <2>3, <2>4, <2>5
<1> QED
  BY Zenon, <1>1, <1>2 DEF ChainInv, OldImages

\* The images of one alert agree on its number and on its creation time.
LEMMA SameAlert ==
    ASSUME SpacingInv, NEW a \in DOMAIN stream, NEW b \in DOMAIN stream, IdOf(a) = IdOf(b)
    PROVE  /\ stream[a].new.alertCount = stream[b].new.alertCount
           /\ stream[a].new.alertCreationTime = stream[b].new.alertCreationTime
<1>1. /\ stream[a].key = stream[b].key
      /\ stream[a].new.alertCount = stream[b].new.alertCount
  BY Zenon DEF IdOf, Forwarder!generateAlertID
<1>2. a \in Nat /\ b \in Nat /\ stream[a].new.alertCount \in Nat
  BY RecordTypes
<1>3. CASE a = b
  BY Zenon, <1>3
<1>4. CASE a < b
  BY <1>1, <1>2, <1>4 DEF SpacingInv, AlertSpacing
<1>5. CASE b < a
  BY <1>1, <1>2, <1>5 DEF SpacingInv, AlertSpacing
<1> QED
  BY <1>1, <1>2, <1>3, <1>4, <1>5

\* A step of the rules engine leaves the dedup table and its stream alone, or
\* writes one row and appends its images.
LEMMA EngineStep ==
    ASSUME [Next]_vars
    PROVE  \/ UNCHANGED <<table, stream>>
           \/ \E w \in Workers : \E row : WriteRow(w, row)
<1>1. ASSUME NEW w \in Workers, NEW g \in Groups, AddEvent(w, g) \/ FlushGroup(w, g)
      PROVE  UNCHANGED <<table, stream>>
  BY Zenon, <1>1 DEF AddEvent, FlushGroup
<1>2. ASSUME NEW w \in Workers, NEW m \in Messages, Receive(w, m)
      PROVE  UNCHANGED <<table, stream>>
  BY Zenon, <1>2 DEF Receive
<1>3. ASSUME NEW w \in Workers,
             \/ StartFlush(w) \/ FinishInvocation(w) \/ ConditionFails(w)
             \/ PutObject(w) \/ Publish(w) \/ Fail(w)
      PROVE  UNCHANGED <<table, stream>>
  BY Zenon, <1>3 DEF StartFlush, FinishInvocation, ConditionFails, PutObject, Publish, Fail
<1>4. ASSUME NEW w \in Workers, CreateAlert(w) \/ MergeIntoAlert(w)
      PROVE  \E row : WriteRow(w, row)
  BY Zenon, <1>4 DEF CreateAlert, MergeIntoAlert
<1>5. CASE Tick \/ UNCHANGED vars
  BY <1>5 DEF Tick, vars
<1> QED
  BY Zenon, <1>1, <1>2, <1>3, <1>4, <1>5 DEF Next, Advance

\* What a step of the rules engine does to the stream: it grows at its end, and
\* the chain of images stays one.
LEMMA StreamGrows ==
    ASSUME SpacingInv, SpacingInv', ChainInv, [Next]_vars
    PROVE  /\ Len(stream) <= Len(stream')
           /\ \A a \in DOMAIN stream : a \in DOMAIN stream' /\ stream'[a] = stream[a]
           /\ ChainInv'
<1>0. Len(stream) \in Nat /\ DOMAIN stream = 1..Len(stream) /\ stream \in Seq(StreamRecords)
  BY Zenon, RecordTypes DEF SpacingInv, TypeOK
<1>1. CASE UNCHANGED <<table, stream>>
  <2>1. ChainInv' <=> ChainInv
    BY Zenon, <1>1 DEF ChainInv, OldImages, RowIsLast, LastOf
  <2>2. Len(stream) <= Len(stream)
    BY <1>0
  <2> QED
    BY Zenon, <1>1, <2>1, <2>2
<1>2. ASSUME NEW w \in Workers, NEW row, WriteRow(w, row)
      PROVE  /\ Len(stream) <= Len(stream')
             /\ \A a \in DOMAIN stream : a \in DOMAIN stream' /\ stream'[a] = stream[a]
             /\ ChainInv'
  <2>1. PICK k : k = worker[w].group.key
    OBVIOUS
  <2>2. PICK old : old = table[k]
    BY Zenon
  <2>3. k \in Keys /\ table \in [Keys -> Rows]
    BY Zenon, <2>1 DEF SpacingInv, TypeOK, WorkerStates, Groups
  <2> DEFINE record == [key |-> k, old |-> old, new |-> row]
             n == Len(stream)
  <2>4. table' = [table EXCEPT ![k] = row] /\ stream' = Append(stream, record)
    BY Zenon, <1>2, <2>1, <2>2 DEF WriteRow
  <2>5. /\ Len(stream') = n + 1 /\ DOMAIN stream' = 1..(n + 1)
        /\ \A a \in 1..n : stream'[a] = stream[a]
        /\ stream'[n + 1] = record
    BY <1>0, <2>4
  <2>6. record.key = k /\ record.old = old /\ record.new = row
    BY Zenon
  <2> HIDE DEF record
  <2>7. \/ old.alertCount = 0 /\ \A b \in 1..n : stream[b].key # k
        \/ \E c \in 1..n : LastOf(k, n, c) /\ stream[c].new = old
    BY Zenon, <1>0, <2>2, <2>3 DEF ChainInv, RowIsLast
  <2>8. OldImages'
    <3> SUFFICES ASSUME NEW a \in 1..(n + 1)
                 PROVE  \/ /\ stream'[a].old.alertCount = 0
                           /\ \A b \in 1..(a - 1) : stream'[b].key # stream'[a].key
                        \/ \E c \in 1..(a - 1) :
                              LastOf(stream[a].key, a - 1, c)' /\ stream'[c].new = stream'[a].old
      BY Zenon, <2>5 DEF OldImages
    <3>1. CASE a = n + 1
      BY <1>0, <2>5, <2>6, <2>7, <3>1 DEF LastOf
    <3>2. CASE a \in 1..n
      <4>1. /\ stream'[a] = stream[a] /\ a \in DOMAIN stream
            /\ \A b \in 1..(a - 1) : stream'[b] = stream[b]
        BY <1>0, <2>5, <3>2
      <4>2. \A c \in 1..(a - 1) :
                LastOf(stream[a].key, a - 1, c) => LastOf(stream[a].key, a - 1, c)'
        BY Zenon, <4>1 DEF LastOf
      <4> QED
        BY Zenon, <4>1, <4>2 DEF ChainInv, OldImages
    <3> QED
      BY <1>0, <3>1, <3>2
  <2>9. RowIsLast'
    <3> SUFFICES ASSUME NEW h \in Keys
                 PROVE  \/ /\ table'[h].alertCount = 0
                           /\ \A b \in 1..(n + 1) : stream'[b].key # h
                        \/ \E c \in 1..(n + 1) : LastOf(h, Len(stream), c)'
                                                 /\ stream'[c].new = table'[h]
      BY Zenon, <2>5 DEF RowIsLast
    <3>1. CASE h = k
      BY <1>0, <2>3, <2>4, <2>5, <2>6, <3>1 DEF LastOf
    <3>2. CASE h # k
      BY SMTT(30), <1>0, <2>3, <2>4, <2>5, <2>6, <3>2 DEF ChainInv, RowIsLast, LastOf
    <3> QED
      BY Zenon, <3>1, <3>2
  <2> QED
    BY <1>0, <2>5, <2>8, <2>9 DEF ChainInv
<1> QED
  BY Zenon, <1>1, <1>2, EngineStep

-----------------------------------------------------------------------------
(* The forwarder.                                                          *)

\* The attributes the update sets make the item of one image of an alert the
\* item of another: the ones it leaves alone are the same in both.
LEMMA UpdateIsWhole ==
    ASSUME NEW r \in Rows, NEW s \in Rows, r.alertCount = s.alertCount,
           r.alertCreationTime = s.alertCreationTime
    PROVE  Forwarder!UpdatedAlert(Forwarder!WholeAlert(r), s) = Forwarder!WholeAlert(s)
<1>1. Forwarder!WholeAlert(r) # Forwarder!NoAlert
  BY Zenon DEF Forwarder!WholeAlert, Forwarder!NoAlert
<1>2. /\ r = [alertCount |-> r.alertCount, alertCreationTime |-> r.alertCreationTime,
              alertUpdateTime |-> r.alertUpdateTime, eventCount |-> r.eventCount,
              logTypes |-> r.logTypes]
      /\ s = [alertCount |-> s.alertCount, alertCreationTime |-> s.alertCreationTime,
              alertUpdateTime |-> s.alertUpdateTime, eventCount |-> s.eventCount,
              logTypes |-> s.logTypes]
  BY DEF Rows
<1>3. [r EXCEPT !.eventCount = s.eventCount, !.logTypes = s.logTypes,
                !.alertUpdateTime = s.alertUpdateTime] = s
  BY Zenon, <1>2
<1>4. Forwarder!UpdatedAlert(Forwarder!WholeAlert(r), s)
        = [stored |-> "alert",
           image |-> [r EXCEPT !.eventCount = s.eventCount, !.logTypes = s.logTypes,
                               !.alertUpdateTime = s.alertUpdateTime]]
  BY Zenon, <1>1 DEF Forwarder!UpdatedAlert, Forwarder!WholeAlert
<1> QED
  BY Zenon, <1>3, <1>4 DEF Forwarder!WholeAlert

\* An item stored for an alert is never the absent one.
LEMMA WholeIsStored ==
    \A row : /\ Forwarder!WholeAlert(row) # Forwarder!NoAlert
             /\ Forwarder!WholeAlert(row).stored = "alert"
             /\ Forwarder!NoAlert.stored = "nothing"
BY Zenon DEF Forwarder!WholeAlert, Forwarder!NoAlert

\* Where the running invocation is.
LEMMA Positions ==
    ASSUME SpacingInv, ForwarderTypeOK
    PROVE  /\ Len(stream) \in Nat /\ DOMAIN stream = 1..Len(stream)
           /\ cursor \in Nat /\ Done \in cursor..Len(stream)
           /\ Written \in cursor..Len(stream)
           /\ step # "idle" => pos \in Nat /\ batchEnd \in Nat /\ cursor < pos
           /\ step = "notify" => Written = pos /\ Done = pos - 1 /\ pos \in DOMAIN stream
           /\ step = "record" => Written = pos - 1 /\ Done = pos - 1
           /\ step = "record" /\ pos <= batchEnd => pos \in DOMAIN stream
           /\ step = "idle" => Written = cursor /\ Done = cursor
BY RecordTypes DEF ForwarderTypeOK, Written, Done

\* The forwarder does not see a stream that grows past its batch.
LEMMA GrowthKeeps ==
    ASSUME SpacingInv, SpacingInv', ForwarderInv, UNCHANGED forwarderVars,
           Len(stream) <= Len(stream'),
           \A a \in DOMAIN stream : a \in DOMAIN stream' /\ stream'[a] = stream[a]
    PROVE  ForwarderInv'
<1>0. /\ ForwarderTypeOK /\ Len(stream) \in Nat /\ DOMAIN stream = 1..Len(stream)
      /\ Len(stream') \in Nat /\ cursor \in Nat
      /\ Done \in cursor..Len(stream) /\ Written \in cursor..Len(stream)
  BY SMTT(30), SMTT(60), Positions, RecordTypes DEF ForwarderInv, SpacingInv, TypeOK
<1>1. /\ cursor' = cursor /\ alerts' = alerts /\ notifications' = notifications
      /\ failures' = failures /\ Written' = Written /\ Done' = Done
  BY Zenon DEF forwarderVars, Written, Done
<1>2. \A a \in 1..Len(stream) : IdOf(a)' = IdOf(a)
  BY Zenon, <1>0 DEF IdOf
<1>3. ForwarderTypeOK'
  <2>1. /\ step' = step /\ batchEnd' = batchEnd /\ pos' = pos /\ 0..Len(stream) \subseteq 0..Len(stream')
        /\ cursor..Len(stream) \subseteq cursor..Len(stream')
    <3>1. Len(stream) \in Nat /\ Len(stream') \in Nat /\ cursor \in Nat
      BY Zenon, <1>0
    <3>2. 0..Len(stream) \subseteq 0..Len(stream') /\ cursor..Len(stream) \subseteq cursor..Len(stream')
      BY <3>1
    <3> QED
      BY Zenon, <3>2 DEF forwarderVars
  <2>2. step = "notify" => stream'[pos] = stream[pos]
    BY Zenon, Positions DEF ForwarderInv
  <2> QED
    BY Zenon, <1>0, <1>1, <2>1, <2>2 DEF ForwarderTypeOK, Items, Forwarder!AlertIds, Forwarder!NoAlert,
       Forwarder!WholeAlert, Forwarder!needToCreateNewAlert
<1>4. ReplayInv'
  <2> SUFFICES ASSUME NEW id \in Forwarder!AlertIds
               PROVE  \/ alerts'[id] = Forwarder!NoAlert /\ \A y \in 1..Written' : IdOf(y)' # id
                      \/ \E x \in DOMAIN stream' : Reflects(id, x)'
    BY Zenon DEF ReplayInv
  <2>1. CASE alerts[id] = Forwarder!NoAlert /\ \A y \in 1..Written : IdOf(y) # id
    BY SMTT(30), SMTT(60), <1>0, <1>1, <1>2, <2>1
  <2>2. ASSUME NEW x \in DOMAIN stream, Reflects(id, x) PROVE Reflects(id, x)'
    BY SMTT(30), SMTT(60), <1>0, <1>1, <1>2, <2>2 DEF Reflects
  <2> QED
    BY Zenon, <2>1, <2>2 DEF ForwarderInv, ReplayInv
<1>5. NoticeInv'
  BY <1>0, <1>1, <1>2 DEF ForwarderInv, NoticeInv
<1> QED
  BY Zenon, <1>3, <1>4, <1>5 DEF ForwarderInv

\* A record written to the alert table: its item reflects that record, and no
\* other item changes.
LEMMA ItemWritten ==
    ASSUME SpacingInv, ForwarderInv, step = "record", pos <= batchEnd,
           alerts' = [alerts EXCEPT ![IdOf(pos)] = Forwarder!WholeAlert(stream[pos].new)],
           stream' = stream, cursor' = cursor, Written' = pos
    PROVE  /\ ReplayInv'
           /\ alerts' \in [Forwarder!AlertIds -> Items]
           /\ \A id \in Forwarder!AlertIds :
                 alerts[id] # Forwarder!NoAlert => alerts'[id] # Forwarder!NoAlert
<1>0. /\ ForwarderTypeOK /\ cursor \in Nat /\ pos \in Nat /\ cursor < pos /\ pos \in DOMAIN stream
      /\ Written = pos - 1 /\ Len(stream) \in Nat /\ DOMAIN stream = 1..Len(stream)
  BY Zenon, Positions DEF ForwarderInv
<1>1. /\ stream[pos].new \in Rows /\ IdOf(pos) \in Forwarder!AlertIds
      /\ alerts \in [Forwarder!AlertIds -> Items]
  BY Zenon, <1>0, RecordTypes, IdsOfRecords DEF ForwarderTypeOK
<1>2. \A a : IdOf(a)' = IdOf(a)
  BY DEF IdOf
<1>3. alerts' \in [Forwarder!AlertIds -> Items]
  BY Zenon, <1>1 DEF Items
<1>4. /\ alerts'[IdOf(pos)] = Forwarder!WholeAlert(stream[pos].new)
      /\ \A id \in Forwarder!AlertIds : id # IdOf(pos) => alerts'[id] = alerts[id]
  BY Zenon, <1>1
<1>5. ReplayInv'
  <2> SUFFICES ASSUME NEW id \in Forwarder!AlertIds
               PROVE  \/ alerts'[id] = Forwarder!NoAlert /\ \A y \in 1..pos : IdOf(y) # id
                      \/ \E x \in DOMAIN stream : Reflects(id, x)'
    BY Zenon, <1>2 DEF ReplayInv
  <2>1. CASE id = IdOf(pos)
    <3>1. PICK n : n = pos
      BY Zenon
    <3>2. Reflects(id, n)'
      BY <1>0, <1>2, <1>4, <2>1, <3>1 DEF Reflects
    <3> QED
      BY Zenon, <1>0, <3>1, <3>2
  <2>2. CASE id # IdOf(pos)
    <3>1. CASE alerts[id] = Forwarder!NoAlert /\ \A y \in 1..Written : IdOf(y) # id
      BY <1>0, <1>4, <2>2, <3>1
    <3>2. ASSUME NEW x \in DOMAIN stream, Reflects(id, x) PROVE Reflects(id, x)'
      BY <1>0, <1>2, <1>4, <2>2, <3>2 DEF Reflects
    <3> QED
      BY Zenon, <3>1, <3>2 DEF ForwarderInv, ReplayInv
  <2> QED
    BY Zenon, <2>1, <2>2
<1>6. \A id \in Forwarder!AlertIds :
          alerts[id] # Forwarder!NoAlert => alerts'[id] # Forwarder!NoAlert
  BY Zenon, <1>4, WholeIsStored
<1> QED
  BY Zenon, <1>3, <1>5, <1>6

\* A step that writes no item and moves the invocation back or the checkpoint
\* on to what was written.
LEMMA NothingWritten ==
    ASSUME SpacingInv, ForwarderInv, UNCHANGED <<stream, alerts>>,
           \/ cursor' = cursor /\ Written' = Written
           \/ cursor' = cursor /\ Written' = cursor
           \/ cursor' = Written /\ Written' = Written
    PROVE  ReplayInv'
<1>0. /\ ForwarderTypeOK /\ cursor \in Nat /\ Written \in cursor..Len(stream)
      /\ Len(stream) \in Nat /\ DOMAIN stream = 1..Len(stream)
  BY Zenon, Positions DEF ForwarderInv
<1>1. \A a : IdOf(a)' = IdOf(a)
  BY DEF IdOf
<1> SUFFICES ASSUME NEW id \in Forwarder!AlertIds
             PROVE  \/ alerts[id] = Forwarder!NoAlert /\ \A y \in 1..Written' : IdOf(y) # id
                    \/ \E x \in DOMAIN stream : Reflects(id, x)'
  BY Zenon, <1>1 DEF ReplayInv
<1>2. CASE alerts[id] = Forwarder!NoAlert /\ \A y \in 1..Written : IdOf(y) # id
  BY <1>0, <1>2
<1>3. ASSUME NEW x \in DOMAIN stream, Reflects(id, x) PROVE Reflects(id, x)'
  BY <1>0, <1>1, <1>3 DEF Reflects
<1> QED
  BY Zenon, <1>2, <1>3 DEF ForwarderInv, ReplayInv

\* The forwarder has stored nothing and sent nothing at the start.
LEMMA InitPipeline == PipelineInit => PipelineInv
<1> SUFFICES ASSUME PipelineInit PROVE PipelineInv
  OBVIOUS
<1>1. SpacingInv
  BY InitSpacing DEF PipelineInit
<1>2. stream = <<>> /\ table = [k \in Keys |-> NoRow]
  BY Zenon DEF PipelineInit, Init
<1>3. ChainInv
  BY <1>2 DEF ChainInv, OldImages, RowIsLast, NoRow
<1>4. /\ Written = 0 /\ Done = 0
  BY DEF PipelineInit, Forwarder!Init, Written, Done
<1>5. ForwarderTypeOK
  BY <1>2 DEF PipelineInit, Forwarder!Init, ForwarderTypeOK, Items
<1>6. ReplayInv
  BY <1>4 DEF PipelineInit, Forwarder!Init, ReplayInv
<1>7. NoticeInv
  BY <1>4 DEF PipelineInit, Forwarder!Init, NoticeInv
<1> QED
  BY Zenon, <1>1, <1>3, <1>5, <1>6, <1>7 DEF PipelineInv, ForwarderInv

\* Every step of the forwarder keeps its invariant.
LEMMA ForwarderNext ==
    ASSUME SpacingInv, ChainInv, ForwarderInv, Forwarder!Next
    PROVE  ForwarderInv'
<1>0. /\ ForwarderTypeOK /\ ReplayInv /\ NoticeInv
      /\ Len(stream) \in Nat /\ DOMAIN stream = 1..Len(stream)
      /\ cursor \in Nat /\ Done \in cursor..Len(stream) /\ Written \in cursor..Len(stream)
      /\ \A a \in DOMAIN stream : IdOf(a) \in Forwarder!AlertIds
  BY Zenon, Positions, IdsOfRecords DEF ForwarderInv
<1>1. stream' = stream
  BY SMTT(30), SMTT(60) DEF Forwarder!Next, Forwarder!Advance, Forwarder!StartBatch, Forwarder!storeNewAlert,
         Forwarder!sendAlertNotification, Forwarder!updateExistingAlert,
         Forwarder!FinishBatch, Forwarder!FailBatch
<1>2. \A a : IdOf(a)' = IdOf(a)
  BY Zenon, <1>1 DEF IdOf
<1>3. CASE Forwarder!StartBatch
  <2>1. /\ step = "idle" /\ step' = "record" /\ pos' = cursor + 1
        /\ batchEnd' \in cursor..Len(stream)
        /\ UNCHANGED <<cursor, alerts, notifications, failures>>
    BY <1>0, <1>3 DEF Forwarder!StartBatch
  <2>2. Written' = Written /\ Done' = Done
    BY <1>0, <2>1 DEF Written, Done
  <2>3. ForwarderTypeOK'
    <3>1. \A c \in Nat, n \in Nat : \A e \in c..n : c + 1 \in (c + 1)..(e + 1)
      OBVIOUS
    <3>2. pos' \in (cursor' + 1)..(batchEnd' + 1) /\ batchEnd' \in cursor'..Len(stream')
      BY Zenon, <1>0, <1>1, <2>1, <3>1
    <3> QED
      BY Zenon, <1>0, <1>1, <2>1, <3>2 DEF ForwarderTypeOK, Items, Forwarder!AlertIds
  <2>4. NoticeInv'
    BY Zenon, <1>0, <1>2, <2>1, <2>2 DEF NoticeInv
  <2> QED
    BY Zenon, <1>1, <2>1, <2>2, <2>3, <2>4, NothingWritten DEF ForwarderInv
<1>4. CASE Forwarder!storeNewAlert
  <2>1. /\ step = "record" /\ pos <= batchEnd /\ step' = "notify"
        /\ Forwarder!needToCreateNewAlert(stream[pos])
        /\ alerts' = [alerts EXCEPT ![IdOf(pos)] = Forwarder!WholeAlert(stream[pos].new)]
        /\ UNCHANGED <<cursor, batchEnd, pos, notifications, failures>>
    BY Zenon, <1>4 DEF Forwarder!storeNewAlert, IdOf
  <2>2. Written' = pos /\ Done' = Done
    BY Zenon, <2>1 DEF Written, Done
  <2>3. /\ ReplayInv' /\ alerts' \in [Forwarder!AlertIds -> Items]
        /\ \A id \in Forwarder!AlertIds :
               alerts[id] # Forwarder!NoAlert => alerts'[id] # Forwarder!NoAlert
    BY Zenon, <1>1, <2>1, <2>2, ItemWritten
  <2>4. ForwarderTypeOK'
    <3>1. Forwarder!needToCreateNewAlert(stream[pos])'
      BY Zenon, <1>1, <2>1 DEF Forwarder!needToCreateNewAlert
    <3> QED
      BY Zenon, <1>0, <1>1, <2>1, <2>3, <3>1 DEF ForwarderTypeOK, Items, Forwarder!AlertIds
  <2>5. NoticeInv'
    BY Zenon, <1>0, <1>2, <2>1, <2>2, <2>3 DEF NoticeInv
  <2> QED
    BY Zenon, <2>3, <2>4, <2>5 DEF ForwarderInv
<1>5. CASE Forwarder!sendAlertNotification
  <2>1. /\ step = "notify" /\ step' = "record" /\ pos' = pos + 1
        /\ notifications' = [notifications EXCEPT ![IdOf(pos)] = @ + 1]
        /\ UNCHANGED <<cursor, batchEnd, alerts, failures>>
    BY Zenon, <1>5 DEF Forwarder!sendAlertNotification, IdOf
  <2>2. Written = pos /\ Done = pos - 1 /\ pos \in DOMAIN stream /\ pos \in Nat /\ cursor < pos
    BY Zenon, <1>0, <2>1, Positions
  <2>3. Written' = Written /\ Done' = pos
    BY <2>1, <2>2 DEF Written, Done
  <2>4. IdOf(pos) \in Forwarder!AlertIds /\ notifications \in [Forwarder!AlertIds -> Nat]
    BY Zenon, <1>0, <2>2 DEF ForwarderTypeOK
  <2>5. ForwarderTypeOK'
    <3>1. pos' \in (cursor' + 1)..(batchEnd' + 1)
      BY <1>0, <2>1, <2>2 DEF ForwarderTypeOK
    <3>2. notifications' \in [Forwarder!AlertIds -> Nat]
      BY <2>1, <2>4
    <3> QED
      BY Zenon, <1>0, <1>1, <2>1, <3>1, <3>2 DEF ForwarderTypeOK, Items, Forwarder!AlertIds
  <2>6. NoticeInv'
    <3> SUFFICES ASSUME NEW id \in Forwarder!AlertIds
                 PROVE  /\ notifications'[id] > 0 => alerts[id] # Forwarder!NoAlert
                        /\ (\E a \in 1..pos : IdOf(a) = id) => notifications'[id] >= 1
                        /\ failures = 0 =>
                              /\ notifications'[id] <= 1
                              /\ (\A a \in 1..pos : IdOf(a) # id) => notifications'[id] = 0
      BY Zenon, <1>2, <2>1, <2>3 DEF NoticeInv
    <3>1. CASE id # IdOf(pos)
      BY <1>0, <2>1, <2>2, <2>4, <3>1 DEF NoticeInv
    <3>2. CASE id = IdOf(pos)
      <4>1. notifications'[id] = notifications[id] + 1 /\ notifications[id] \in Nat
        BY Zenon, <2>1, <2>4, <3>2
      <4>2. alerts[id] # Forwarder!NoAlert
        <5>1. ~(\A y \in 1..Written : IdOf(y) # id)
          BY <1>0, <2>2, <3>2
        <5> QED
          BY <1>0, <5>1, WholeIsStored DEF ReplayInv, Reflects
      <4>3. \A b \in 1..Done : IdOf(b) # id
        BY Zenon, <1>0, <2>1, <2>2, <3>2, NewIsFirst DEF ForwarderTypeOK
      <4>4. failures = 0 => notifications[id] = 0
        BY Zenon, <4>3, <1>0 DEF NoticeInv
      <4>5. pos \in 1..pos
        BY <1>0, <2>2
      <4> QED
        BY <3>2, <4>1, <4>2, <4>4, <4>5
    <3> QED
      BY Zenon, <3>1, <3>2
  <2> QED
    BY Zenon, <1>1, <2>1, <2>3, <2>5, <2>6, NothingWritten DEF ForwarderInv
<1>6. CASE Forwarder!updateExistingAlert
  <2>1. /\ step = "record" /\ pos <= batchEnd /\ step' = step /\ pos' = pos + 1
        /\ ~Forwarder!needToCreateNewAlert(stream[pos])
        /\ alerts' = [alerts EXCEPT ![IdOf(pos)] =
                          Forwarder!UpdatedAlert(alerts[IdOf(pos)], stream[pos].new)]
        /\ UNCHANGED <<cursor, batchEnd, notifications, failures>>
    BY Zenon, <1>6 DEF Forwarder!updateExistingAlert, IdOf
  <2>2. Written = pos - 1 /\ Done = pos - 1 /\ pos \in DOMAIN stream /\ pos \in Nat
    BY Zenon, <1>0, <2>1, Positions
  <2>3. Written' = pos /\ Done' = pos
    BY <2>1, <2>2 DEF Written, Done
  <2>4. PICK b \in 1..(pos - 1) : IdOf(b) = IdOf(pos)
    BY Zenon, <2>1, <2>2, NewIsFirst
  <2>5. PICK x \in DOMAIN stream : Reflects(IdOf(pos), x)
    BY Zenon, <1>0, <2>2, <2>4 DEF ReplayInv
  <2>6. Forwarder!UpdatedAlert(alerts[IdOf(pos)], stream[pos].new)
            = Forwarder!WholeAlert(stream[pos].new)
    <3>1. /\ IdOf(x) = IdOf(pos)
          /\ alerts[IdOf(pos)] = Forwarder!WholeAlert(stream[x].new)
      BY Zenon, <2>5 DEF Reflects
    <3>2. /\ stream[x].new.alertCount = stream[pos].new.alertCount
          /\ stream[x].new.alertCreationTime = stream[pos].new.alertCreationTime
      BY Zenon, <2>2, <3>1, SameAlert
    <3>3. stream[x].new \in Rows /\ stream[pos].new \in Rows
      BY Zenon, <2>2, RecordTypes
    <3> QED
      BY Zenon, <3>1, <3>2, <3>3, UpdateIsWhole
  <2>7. /\ ReplayInv' /\ alerts' \in [Forwarder!AlertIds -> Items]
        /\ \A id \in Forwarder!AlertIds :
               alerts[id] # Forwarder!NoAlert => alerts'[id] # Forwarder!NoAlert
    BY Zenon, <1>1, <2>1, <2>3, <2>6, ItemWritten
  <2>8. ForwarderTypeOK'
    <3>1. pos' \in (cursor' + 1)..(batchEnd' + 1)
      BY SMTT(30), <1>0, <2>1, <2>2 DEF ForwarderTypeOK
    <3> QED
      BY Zenon, <1>0, <1>1, <2>1, <2>7, <3>1 DEF ForwarderTypeOK, Items, Forwarder!AlertIds
  <2>9. NoticeInv'
    <3>1. \A id : (\E a \in 1..pos : IdOf(a) = id) <=> (\E a \in 1..Done : IdOf(a) = id)
      BY <2>2, <2>4
    <3> QED
      BY Zenon, <1>0, <1>2, <2>1, <2>3, <2>7, <3>1 DEF NoticeInv
  <2> QED
    BY Zenon, <2>7, <2>8, <2>9 DEF ForwarderInv
<1>7. CASE Forwarder!FinishBatch
  <2>1. /\ step = "record" /\ pos > batchEnd /\ cursor' = batchEnd /\ step' = "idle"
        /\ UNCHANGED <<batchEnd, pos, alerts, notifications, failures>>
    BY Zenon, <1>7 DEF Forwarder!FinishBatch
  <2>2. /\ cursor' = Written /\ Written' = Written /\ Done' = Done
        /\ cursor' \in 0..Len(stream)
    BY <1>0, <2>1 DEF ForwarderTypeOK, Written, Done
  <2>3. ForwarderTypeOK'
    BY Zenon, <1>0, <1>1, <2>1, <2>2 DEF ForwarderTypeOK, Items, Forwarder!AlertIds
  <2>4. NoticeInv'
    BY Zenon, <1>0, <1>2, <2>1, <2>2 DEF NoticeInv
  <2> QED
    BY Zenon, <1>1, <2>1, <2>2, <2>3, <2>4, NothingWritten DEF ForwarderInv
<1>8. CASE Forwarder!FailBatch
  <2>1. /\ step' = "idle" /\ failures' = failures + 1
        /\ UNCHANGED <<cursor, batchEnd, pos, alerts, notifications>>
    BY Zenon, <1>8 DEF Forwarder!FailBatch
  <2>2. Written' = cursor /\ Done' = cursor /\ failures \in Nat
    BY Zenon, <1>0, <2>1 DEF Written, Done, ForwarderTypeOK
  <2>3. ForwarderTypeOK'
    BY <1>0, <1>1, <2>1, <2>2 DEF ForwarderTypeOK, Items, Forwarder!AlertIds
  <2>4. NoticeInv'
    BY <1>0, <1>2, <2>1, <2>2 DEF NoticeInv
  <2> QED
    BY Zenon, <1>1, <2>1, <2>2, <2>3, <2>4, NothingWritten DEF ForwarderInv
<1> QED
  BY Zenon, <1>3, <1>4, <1>5, <1>6, <1>7, <1>8 DEF Forwarder!Next, Forwarder!Advance

\* The invariant of the pipeline is kept by the rules engine and the forwarder.
LEMMA NextPipeline == PipelineInv /\ [PipelineNext]_pipelineVars => PipelineInv'
<1> SUFFICES ASSUME PipelineInv, [PipelineNext]_pipelineVars PROVE PipelineInv'
  OBVIOUS
<1>1. CASE RulesEngineStep \/ UNCHANGED pipelineVars
  <2>1. [Next]_vars /\ UNCHANGED forwarderVars
    BY <1>1 DEF RulesEngineStep, pipelineVars, rulesEngineVars, vars
  <2>2. SpacingInv'
    BY Zenon, <2>1, NextSpacing DEF PipelineInv
  <2> QED
    BY Zenon, <2>1, <2>2, StreamGrows, GrowthKeeps DEF PipelineInv
<1>2. CASE ForwarderStep
  <2>1. stream' = stream /\ UNCHANGED rulesEngineVars /\ Forwarder!Next
    <3>1. UNCHANGED rulesEngineVars /\ Forwarder!Next
      BY Zenon, <1>2 DEF ForwarderStep
    <3>2. stream' = stream
      BY Zenon, <3>1 DEF Forwarder!Next, Forwarder!Advance, Forwarder!StartBatch,
         Forwarder!storeNewAlert, Forwarder!sendAlertNotification,
         Forwarder!updateExistingAlert, Forwarder!FinishBatch, Forwarder!FailBatch
    <3> QED
      BY Zenon, <3>1, <3>2
  <2>2. [Next]_vars
    BY Zenon, <2>1 DEF rulesEngineVars, vars
  <2>3. SpacingInv'
    BY Zenon, <2>2, NextSpacing DEF PipelineInv
  <2> QED
    BY Zenon, <2>1, <2>2, <2>3, StreamGrows, ForwarderNext DEF PipelineInv
<1> QED
  BY Zenon, <1>1, <1>2 DEF PipelineNext

\* The inductive invariant holds in every reachable state of the pipeline.
THEOREM PipelineInvariant == PipelineSpec => []PipelineInv
BY InitPipeline, NextPipeline, PTL DEF PipelineSpec

\* A drained forwarder has every alert of the stream in its table with its
\* latest image, and no item was ever created by an update.
THEOREM AlertTableCorrect == PipelineSpec => []AlertTableCatchesUp
<1>1. PipelineInv => AlertTableCatchesUp
  <2> SUFFICES ASSUME PipelineInv, NEW id \in Forwarder!AlertIds
               PROVE  /\ alerts[id].stored # "update"
                      /\ Drained =>
                          alerts[id] = IF id \in KnownAlerts
                                       THEN Forwarder!WholeAlert(LastImage(id))
                                       ELSE Forwarder!NoAlert
    BY Zenon DEF AlertTableCatchesUp
  <2>0. Len(stream) \in Nat /\ DOMAIN stream = 1..Len(stream)
    BY Zenon, RecordTypes DEF PipelineInv
  <2>1. CASE alerts[id] = Forwarder!NoAlert /\ \A y \in 1..Written : IdOf(y) # id
    <3>1. Drained => id \notin KnownAlerts
      BY Zenon, <2>0, <2>1 DEF Drained, Written, KnownAlerts, IdOf
    <3> QED
      BY Zenon, <2>1, <3>1, WholeIsStored
  <2>2. ASSUME NEW x \in DOMAIN stream, Reflects(id, x)
        PROVE  /\ alerts[id].stored # "update"
               /\ Drained => id \in KnownAlerts
                             /\ alerts[id] = Forwarder!WholeAlert(LastImage(id))
    <3> DEFINE records == {a \in DOMAIN stream : Forwarder!generateAlertID(stream[a]) = id}
    <3>1. x \in records /\ alerts[id] = Forwarder!WholeAlert(stream[x].new)
      BY Zenon, <2>2 DEF Reflects, IdOf
    <3>2. ASSUME Drained PROVE Max(records) = x
      <4>1. \A y \in records : x >= y
        BY Zenon, <2>0, <2>2, <3>2 DEF Reflects, Drained, Written, IdOf
      <4>2. Max(records) \in records /\ \A y \in records : Max(records) >= y
        BY Zenon, <3>1, <4>1 DEF Max
      <4>3. x \in Nat /\ Max(records) \in Nat
        BY <2>0, <4>2
      <4>4. x >= Max(records) /\ Max(records) >= x
        BY Zenon, <3>1, <4>1, <4>2
      <4> QED
        BY <4>3, <4>4
    <3> QED
      BY Zenon, <3>1, <3>2, WholeIsStored DEF KnownAlerts, LastImage
  <2> QED
    <3>1. \/ alerts[id] = Forwarder!NoAlert /\ \A y \in 1..Written : IdOf(y) # id
          \/ \E x \in DOMAIN stream : Reflects(id, x)
      BY Zenon DEF PipelineInv, ForwarderInv, ReplayInv
    <3> QED
      BY Zenon, <2>1, <2>2, <3>1
<1> QED
  BY <1>1, PipelineInvariant, PTL

\* Every checkpointed alert was put on the delivery queue, once unless an
\* invocation failed, and never before its item was stored.
THEOREM NotificationsCorrect == PipelineSpec => []NotificationsMatchAlerts
<1>1. PipelineInv => NotificationsMatchAlerts
  <2> SUFFICES ASSUME PipelineInv PROVE NotificationsMatchAlerts
    OBVIOUS
  <2>0. NoticeInv /\ ReplayInv /\ cursor \in Nat /\ Done \in cursor..Len(stream)
        /\ Len(stream) \in Nat
    BY Zenon, Positions DEF PipelineInv, ForwarderInv
  <2>1. \A id \in Forwarder!AlertIds :
            alerts[id] # Forwarder!NoAlert => alerts[id].stored = "alert"
    BY <2>0, WholeIsStored DEF ReplayInv, Reflects
  <2>2. 1..cursor \subseteq 1..Done
    BY <2>0
  <2> QED
    BY Zenon, <2>0, <2>1, <2>2 DEF NotificationsMatchAlerts, NoticeInv, IdOf
<1> QED
  BY <1>1, PipelineInvariant, PTL
=============================================================================
