----------------------- MODULE ComplianceAlertsProofs -----------------------
(***************************************************************************)
(* The invariants of ComplianceAlerts, for any number of analyzers,        *)
(* reporters and resources, for every period and timeout and for every     *)
(* bound on the length of a behaviour.                                     *)
(*                                                                         *)
(* Alerts of a policy are spaced: an alert whose period is not over is the *)
(* one the row of the recent alerts table remembers, since the row goes    *)
(* only after it has expired; and a reporter comes to the row at most      *)
(* Timeout after it read the time.                                         *)
(*                                                                         *)
(* Remediations are covered: a reporter that has made its alert holds the  *)
(* credit for one remediation, and gives it up whether it goes on or fails.*)
(*                                                                         *)
(* A failing resource is alerted on: whoever writes FAIL has looked the    *)
(* status up before and holds a note for it; the note asks for an alert or *)
(* the status was FAIL already, and then the evidence of an alert was      *)
(* there before.  The evidence is handed from the analyzer to the          *)
(* notification and from it to the alert.                                  *)
(*                                                                         *)
(* Alerts are forwarded once per failure: the records an invocation has    *)
(* not come to yet have at most one copy for each invocation that failed   *)
(* before it, and the step past a record adds one copy at most.            *)
(***************************************************************************)
EXTENDS ComplianceAlerts, FiniteSetTheorems, TLAPS

\* The part of the type invariant that the argument needs.
ReporterStates(N) == [pc : {"idle", "check", "update", "remediate"}, note : N, time : Nat]
ClockType ==
    /\ now \in Nat
    /\ \E N : reporter \in [Reporters -> ReporterStates(N)]
    /\ lastUpdated \in Int /\ -1 <= lastUpdated
    /\ \E S : stream \in Seq(S)
    /\ \A i \in DOMAIN stream : stream[i].time \in Nat

\* A reporter about to update the table read the time within the timeout.
TimeIsRecent ==
    \A p \in Reporters : reporter[p].pc = "update" =>
        reporter[p].time <= now /\ now <= reporter[p].time + Timeout

\* An alert is the one the row remembers, or its period is over.
OldAlertsExpired ==
    \A i \in DOMAIN stream : stream[i].image =>
        stream[i].time = lastUpdated \/ stream[i].time + Period < now

\* The inductive invariant.
SpacedInv == ClockType /\ TimeIsRecent /\ OldAlertsExpired /\ AlertsSpaced

-----------------------------------------------------------------------------
\* A step that leaves the clock, the table and the stream alone, and has no
\* reporter start an update with a time other than now.
LEMMA QuietStep ==
    ASSUME SpacedInv, UNCHANGED <<now, lastUpdated, stream>>, ClockType',
           \A p \in Reporters : reporter'[p].pc = "update" =>
               reporter'[p] = reporter[p] \/ reporter'[p].time = now
    PROVE  SpacedInv'
<1>1. TimeIsRecent'
  <2>1. now \in Nat /\ Timeout \in Nat
    BY ComplianceAssumption DEF SpacedInv, ClockType
  <2> QED
    BY <2>1 DEF SpacedInv, TimeIsRecent
<1>2. OldAlertsExpired' /\ AlertsSpaced'
  BY DEF SpacedInv, OldAlertsExpired, AlertsSpaced, IsAlert
<1> QED
  BY <1>1, <1>2 DEF SpacedInv

\* A reporter changes only its own state.
LEMMA ReporterType ==
    ASSUME ClockType, NEW p \in Reporters, NEW M, NEW u \in ReporterStates(M),
           reporter' = [reporter EXCEPT ![p] = u], UNCHANGED <<now, lastUpdated, stream>>
    PROVE  ClockType' /\ reporter'[p] = u /\ \A q \in Reporters : q # p => reporter'[q] = reporter[q]
<1>1. PICK N : reporter \in [Reporters -> ReporterStates(N)]
  BY DEF ClockType
<1>2. u \in ReporterStates(N \cup M)
  BY DEF ReporterStates
<1>3. reporter \in [Reporters -> ReporterStates(N \cup M)]
  BY <1>1 DEF ReporterStates
<1>4. reporter' \in [Reporters -> ReporterStates(N \cup M)]
  BY <1>2, <1>3
<1>5. \E K : reporter' \in [Reporters -> ReporterStates(K)]
  BY <1>4
<1>6. /\ now' \in Nat /\ lastUpdated' \in Int /\ -1 <= lastUpdated' /\ \E S : stream' \in Seq(S)
      /\ \A i \in DOMAIN stream' : stream'[i].time \in Nat
  BY DEF ClockType
<1> QED
  BY <1>1, <1>5, <1>6 DEF ClockType

\* A finished reporter is idle.
LEMMA FinishedQuiet ==
    ASSUME SpacedInv, NEW p \in Reporters, reporter' = [reporter EXCEPT ![p] = IdleReporter],
           UNCHANGED <<now, lastUpdated, stream>>
    PROVE  SpacedInv'
<1>1. IdleReporter \in ReporterStates(Nat) /\ IdleReporter.pc = "idle"
  BY DEF IdleReporter, ReporterStates
<1>2. ClockType' /\ reporter'[p] = IdleReporter
      /\ \A q \in Reporters : q # p => reporter'[q] = reporter[q]
  BY Zenon, <1>1, ReporterType DEF SpacedInv
<1>3. \A q \in Reporters : reporter'[q].pc = "update" => reporter'[q] = reporter[q]
  BY <1>1, <1>2
<1> QED
  BY <1>2, <1>3, QuietStep

\* No alert at the start.
LEMMA InitSpaced == Init => SpacedInv
<1> SUFFICES ASSUME Init PROVE SpacedInv
  OBVIOUS
<1>1. ClockType
  <2>1. reporter \in [Reporters -> ReporterStates(Nat)]
    BY DEF Init, IdleReporter, ReporterStates
  <2>2. stream \in Seq({}) /\ DOMAIN stream = {}
    BY DEF Init
  <2> QED
    BY <2>1, <2>2 DEF Init, ClockType
<1>2. TimeIsRecent
  BY DEF Init, TimeIsRecent, IdleReporter
<1>3. OldAlertsExpired /\ AlertsSpaced
  BY DEF Init, OldAlertsExpired, AlertsSpaced
<1> QED
  BY <1>1, <1>2, <1>3 DEF SpacedInv

\* What Append does to a sequence.
LEMMA AppendOne ==
    ASSUME NEW S, NEW s \in Seq(S), NEW e
    PROVE  /\ Append(s, e) \in Seq(S \cup {e})
           /\ Len(Append(s, e)) = Len(s) + 1 /\ Append(s, e)[Len(s) + 1] = e
           /\ \A i \in 1..Len(s) : Append(s, e)[i] = s[i]
           /\ DOMAIN s = 1..Len(s) /\ DOMAIN Append(s, e) = 1..(Len(s) + 1)
           /\ Len(s) \in Nat
<1>1. s \in Seq(S \cup {e}) /\ e \in S \cup {e}
  OBVIOUS
<1>2. Append(s, e) \in Seq(S \cup {e})
  BY <1>1
<1> QED
  BY <1>1, <1>2

\* An element of the same set.
LEMMA AppendTyped ==
    ASSUME NEW S, NEW s \in Seq(S), NEW e \in S
    PROVE  Append(s, e) \in Seq(S)
OBVIOUS

\* The conditional update succeeds for a reporter with a recent time.
LEMMA TriggerStep ==
    ASSUME SpacedInv, NEW p \in Reporters, NEW valid \in BOOLEAN, TriggerAlert(p, valid)
    PROVE  SpacedInv'
<1> DEFINE t == reporter[p].time
           record == [image |-> TRUE, valid |-> valid, time |-> t, resource |-> NoteOf(p).resource]
<1>1. /\ t \in Nat /\ now \in Nat /\ Period \in Nat /\ Timeout \in Nat /\ lastUpdated \in Int
      /\ t <= now /\ now <= t + Timeout /\ now' = now /\ lastUpdated' = t
  <2>1. PICK N : reporter \in [Reporters -> ReporterStates(N)]
    BY DEF SpacedInv, ClockType
  <2>2. t \in Nat
    BY <2>1 DEF ReporterStates
  <2>3. t <= now /\ now <= t + Timeout /\ now' = now /\ lastUpdated' = t
    BY DEF SpacedInv, TimeIsRecent, TriggerAlert
  <2> QED
    BY <2>2, <2>3, ComplianceAssumption DEF SpacedInv, ClockType
<1>2. lastUpdated = -1 \/ lastUpdated < t - Period
  BY DEF CanAlert, TriggerAlert
<1>3. record.image /\ record.time = t
  OBVIOUS
<1>a. stream' = Append(stream, record) /\ \E S : stream \in Seq(S)
  BY DEF TriggerAlert, SpacedInv, ClockType
<1> HIDE DEF t, record
<1>4. /\ Len(stream') = Len(stream) + 1 /\ stream'[Len(stream) + 1] = record
      /\ \A i \in 1..Len(stream) : stream'[i] = stream[i]
      /\ \E S : stream' \in Seq(S)
      /\ DOMAIN stream = 1..Len(stream) /\ DOMAIN stream' = 1..Len(stream')
      /\ Len(stream) \in Nat
  <2>1. PICK S : stream \in Seq(S)
    BY <1>a
  <2>2. stream' \in Seq(S \cup {record})
    BY <1>a, <2>1, AppendOne
  <2> QED
    BY <1>a, <2>1, <2>2
<1>5. ClockType'
  <2>1. \E N : reporter' \in [Reporters -> ReporterStates(N)]
    <3>1. PICK N : reporter \in [Reporters -> ReporterStates(N)]
      BY DEF SpacedInv, ClockType
    <3>2. reporter' \in [Reporters -> ReporterStates(N)]
      BY <3>1 DEF TriggerAlert, ReporterStates
    <3> QED
      BY <3>2
  <2>2. \A i \in DOMAIN stream' : stream'[i].time \in Nat
    BY <1>1, <1>3, <1>4 DEF SpacedInv, ClockType
  <2> QED
    BY <1>1, <1>4, <2>1, <2>2 DEF ClockType
<1>6. TimeIsRecent'
  <2>1. PICK N : reporter \in [Reporters -> ReporterStates(N)]
    BY DEF SpacedInv, ClockType
  <2>2. \A q \in Reporters : reporter'[q].pc = "update" => reporter'[q] = reporter[q]
    BY <2>1 DEF TriggerAlert, ReporterStates
  <2> QED
    BY <1>1, <2>2 DEF SpacedInv, TimeIsRecent
<1>7. \A i \in 1..Len(stream) : stream[i].image =>
          stream[i].time \in Nat /\ stream[i].time + Period < t + Timeout
             /\ stream[i].time + Period < now + 1
  <2> SUFFICES ASSUME NEW i \in 1..Len(stream), stream[i].image
               PROVE  stream[i].time \in Nat /\ stream[i].time + Period < t + Timeout
                         /\ stream[i].time + Period < now + 1
    OBVIOUS
  <2>1. stream[i].time \in Nat
    BY <1>4 DEF SpacedInv, ClockType
  <2>2. stream[i].time = lastUpdated \/ stream[i].time + Period < now
    BY <1>4 DEF SpacedInv, OldAlertsExpired
  <2> QED
    BY <1>1, <1>2, <2>1, <2>2
<1>8. OldAlertsExpired'
  <2> SUFFICES ASSUME NEW i \in DOMAIN stream', stream'[i].image
               PROVE  stream'[i].time = lastUpdated' \/ stream'[i].time + Period < now'
    BY DEF OldAlertsExpired
  <2>1. CASE i = Len(stream) + 1
    BY <1>1, <1>3, <1>4, <2>1
  <2>2. CASE i \in 1..Len(stream)
    <3>1. stream'[i] = stream[i] /\ stream[i].image /\ stream[i].time \in Nat
      BY <1>4, <1>7, <2>2
    <3>2. stream[i].time = lastUpdated \/ stream[i].time + Period < now
      BY <1>4, <2>2, <3>1 DEF SpacedInv, OldAlertsExpired
    <3> QED
      BY <1>1, <1>2, <3>1, <3>2
  <2> QED
    BY <1>4, <2>1, <2>2
<1>9. AlertsSpaced'
  <2> SUFFICES ASSUME NEW i \in DOMAIN stream', NEW j \in DOMAIN stream', i < j,
                      stream'[i].image, stream'[j].image
               PROVE  stream'[i].time + Period < stream'[j].time + Timeout
    BY DEF AlertsSpaced, IsAlert
  <2>1. i \in 1..Len(stream) /\ stream'[i] = stream[i]
    BY <1>4
  <2>2. CASE j = Len(stream) + 1
    BY <1>3, <1>4, <1>7, <2>1, <2>2
  <2>3. CASE j \in 1..Len(stream)
    BY <1>4, <2>1, <2>3 DEF SpacedInv, AlertsSpaced, IsAlert
  <2> QED
    BY <1>4, <2>2, <2>3
<1> QED
  BY <1>5, <1>6, <1>8, <1>9 DEF SpacedInv

\* The row is deleted when the period of its alert is over.
LEMMA ExpireStep ==
    ASSUME SpacedInv, ExpireRow
    PROVE  SpacedInv'
<1> DEFINE record == [image |-> FALSE, valid |-> FALSE, time |-> now,
                      resource |-> CHOOSE r \in Resources : TRUE]
<1>1. /\ now \in Nat /\ Period \in Nat /\ lastUpdated \in Int /\ lastUpdated + Period < now
      /\ now' = now /\ lastUpdated' = -1 /\ reporter' = reporter
  BY ComplianceAssumption DEF SpacedInv, ClockType, ExpireRow, ExpiresAt
<1>2. stream' = Append(stream, record) /\ ~record.image /\ record.time = now
  BY DEF ExpireRow
<1> HIDE DEF record
<1>3. /\ Len(stream') = Len(stream) + 1 /\ stream'[Len(stream) + 1] = record
      /\ \A i \in 1..Len(stream) : stream'[i] = stream[i]
      /\ \E S : stream' \in Seq(S)
      /\ DOMAIN stream = 1..Len(stream) /\ DOMAIN stream' = 1..Len(stream')
      /\ Len(stream) \in Nat
  <2>1. PICK S : stream \in Seq(S)
    BY DEF SpacedInv, ClockType
  <2>2. stream' \in Seq(S \cup {record})
    BY <1>2, <2>1, AppendOne
  <2> QED
    BY <1>2, <2>1, <2>2
<1>4. ClockType'
  <2>1. \A i \in DOMAIN stream' : stream'[i].time \in Nat
    BY <1>1, <1>2, <1>3 DEF SpacedInv, ClockType
  <2> QED
    BY <1>1, <1>3, <2>1 DEF SpacedInv, ClockType
<1>5. TimeIsRecent'
  BY <1>1 DEF SpacedInv, TimeIsRecent
<1>6. \A i \in DOMAIN stream' : stream'[i].image => i \in DOMAIN stream /\ stream'[i] = stream[i]
  BY <1>2, <1>3
<1>7. OldAlertsExpired'
  BY <1>1, <1>6 DEF SpacedInv, OldAlertsExpired
<1>8. AlertsSpaced'
  BY <1>6 DEF SpacedInv, AlertsSpaced, IsAlert
<1> QED
  BY <1>4, <1>5, <1>7, <1>8 DEF SpacedInv

\* Time does not pass the timeout of a reporter that has read it.
LEMMA TickStep ==
    ASSUME SpacedInv, Tick
    PROVE  SpacedInv'
<1>1. /\ now \in Nat /\ Period \in Nat /\ Timeout \in Nat /\ now' = now + 1
      /\ UNCHANGED <<reporter, lastUpdated, stream>>
  BY ComplianceAssumption DEF SpacedInv, ClockType, Tick, alerting
<1>2. ClockType'
  BY <1>1 DEF SpacedInv, ClockType
<1>3. TimeIsRecent'
  <2>1. \A p \in Reporters : reporter[p].time \in Nat
    BY DEF SpacedInv, ClockType, ReporterStates
  <2> QED
    BY <1>1, <2>1 DEF SpacedInv, TimeIsRecent, Tick
<1>4. OldAlertsExpired'
  BY <1>1 DEF SpacedInv, ClockType, OldAlertsExpired
<1>5. AlertsSpaced'
  BY <1>1 DEF SpacedInv, AlertsSpaced, IsAlert
<1> QED
  BY <1>2, <1>3, <1>4, <1>5 DEF SpacedInv

\* The steps of a reporter.
LEMMA ReporterStep ==
    ASSUME SpacedInv, NEW p \in Reporters,
           \/ \E n \in DOMAIN notes : TakeNote(p, n)
           \/ Report(p)
           \/ \E accepted \in BOOLEAN : ReporterFails(p, accepted)
    PROVE  SpacedInv'
<1>0. PICK N : reporter \in [Reporters -> ReporterStates(N)] /\ now \in Nat
  BY DEF SpacedInv, ClockType
<1>1. ASSUME NEW n, TakeNote(p, n)
      PROVE  SpacedInv'
  <2>1. /\ reporter' = [reporter EXCEPT ![p] = [pc |-> "check", note |-> n, time |-> 0]]
        /\ UNCHANGED <<now, lastUpdated, stream>>
    BY <1>1 DEF TakeNote
  <2>2. [pc |-> "check", note |-> n, time |-> 0] \in ReporterStates({n})
    BY DEF ReporterStates
  <2>3. /\ ClockType' /\ reporter'[p] = [pc |-> "check", note |-> n, time |-> 0]
        /\ \A q \in Reporters : q # p => reporter'[q] = reporter[q]
    BY Zenon, <2>1, <2>2, ReporterType DEF SpacedInv
  <2> QED
    BY <2>1, <2>3, QuietStep
<1>2. CASE CheckFailing(p)
  <2>1. UNCHANGED <<now, lastUpdated, stream>>
    BY <1>2 DEF CheckFailing
  <2>2. CASE FinishNote(p)
    BY Zenon, <2>1, <2>2, FinishedQuiet DEF FinishNote
  <2>3. CASE reporter' = [reporter EXCEPT ![p].pc = "update", ![p].time = now]
    <3> DEFINE u == [reporter[p] EXCEPT !.pc = "update", !.time = now]
    <3>1. u \in ReporterStates(N) /\ u.time = now
      BY Zenon, <1>0 DEF ReporterStates
    <3>2. reporter' = [reporter EXCEPT ![p] = u]
      BY Zenon, <1>0, <2>3
    <3> HIDE DEF u
    <3>3. /\ ClockType' /\ reporter'[p] = u
          /\ \A q \in Reporters : q # p => reporter'[q] = reporter[q]
      BY Zenon, <2>1, <3>1, <3>2, ReporterType DEF SpacedInv
    <3> QED
      BY <2>1, <3>1, <3>3, QuietStep
  <2> QED
    BY <1>2, <2>2, <2>3 DEF CheckFailing
<1>3. CASE AlertSuppressed(p) \/ TriggerRemediation(p)
  BY <1>3, FinishedQuiet DEF AlertSuppressed, TriggerRemediation, FinishNote
<1>4. ASSUME NEW accepted \in BOOLEAN, ReporterFails(p, accepted)
      PROVE  SpacedInv'
  BY Zenon, <1>4, FinishedQuiet DEF ReporterFails
<1> QED
  BY <1>1, <1>2, <1>3, <1>4, TriggerStep DEF Report

-----------------------------------------------------------------------------
\* For any number of analyzers and reporters, and however their invocations
\* fail: two alerts on the policy are further apart than the suppress period
\* less the time an invocation may take.
THEOREM AlertsSpacedCorrect == Spec => []AlertsSpaced
<1>1. SpacedInv /\ [Next]_vars => SpacedInv'
  <2> SUFFICES ASSUME SpacedInv, [Next]_vars PROVE SpacedInv'
    OBVIOUS
  <2>1. ASSUME UNCHANGED <<now, reporter, lastUpdated, stream>>
        PROVE  SpacedInv'
    BY <2>1, QuietStep DEF SpacedInv, ClockType
  <2>2. CASE \/ \E results \in Results : Change(results)
             \/ \E r \in Resources : ChangeSuppression(r)
    BY Zenon, <2>1, <2>2 DEF Change, ChangeSuppression, alerting
  <2>3. ASSUME NEW w \in Analyzers,
               \/ \E m \in DOMAIN batches : Analyze(w, m)
               \/ Advance(w)
               \/ \E sent \in SUBSET analyzer[w].notes, written \in SUBSET Resources :
                     AnalyzerFails(w, written, sent)
        PROVE  SpacedInv'
    BY Zenon, <2>1, <2>3 DEF Analyze, Advance, CheckStatus, SetStatus, Notify, AnalyzerFails, alerting
  <2>4. CASE Forward \/ FinishForwarding \/ ForwarderFails
    BY <2>1, <2>4 DEF Forward, FinishForwarding, ForwarderFails, alerting
  <2>5. CASE UNCHANGED vars
    BY <2>1, <2>5 DEF vars
  <2> QED
    BY <2>2, <2>3, <2>4, <2>5, ReporterStep, ExpireStep, TickStep DEF Next
<1>2. SpacedInv => AlertsSpaced
  BY DEF SpacedInv
<1> QED
  BY <1>1, <1>2, InitSpaced, PTL DEF Spec

-----------------------------------------------------------------------------
(* Types.                                                                  *)

BatchRecords == [results : Results, state : MessageStates, receives : 0..MaxReceives]
NoteRecords == [resource : Resources, shouldAlert : BOOLEAN, state : MessageStates,
                receives : 0..MaxReceives]
AnalyzerRecords == [pc : {"idle", "check", "set", "notify"}, batch : Nat,
                    todo : SUBSET Resources, notes : SUBSET Notes]
ReporterRecords == [pc : {"idle", "check", "update", "remediate"}, note : Nat, time : 0..MaxTime]
StreamRecords == [image : BOOLEAN, valid : BOOLEAN, time : 0..MaxTime, resource : Resources]

\* Some alert has been made.
Alerted == \E i \in DOMAIN stream : IsAlert(i)

\* A message that can be received has receives left.
Bounded(queue) ==
    \A m \in DOMAIN queue : queue[m].state = "queued" => queue[m].receives < MaxReceives

\* The inductive invariant of the types, by the part of the state.
ClockOK == now \in 0..MaxTime /\ failures \in 0..MaxFailures
UsersOK ==
    /\ suppressed \subseteq Resources
    /\ suppressions \in (SUBSET Resources) \X (0..MaxSuppress)
BatchesOK == batches \in Seq(BatchRecords) /\ Bounded(batches)
AnalyzersOK ==
    /\ analyzer \in [Analyzers -> AnalyzerRecords]
    /\ \A w \in Analyzers :
        IsFiniteSet(analyzer[w].notes) /\ (analyzer[w].pc # "idle" => analyzer[w].batch \in DOMAIN batches)
StatusOK ==
    /\ status \in [Resources -> Verdicts \cup {"NONE"}]
    /\ hazards \in [halfDone : SUBSET Resources, overlapped : SUBSET Resources]
NotesOK == notes \in Seq(NoteRecords) /\ Bounded(notes)
ReportersOK ==
    /\ reporter \in [Reporters -> ReporterRecords]
    /\ \A p \in Reporters : reporter[p].pc # "idle" => reporter[p].note \in DOMAIN notes
TableOK ==
    /\ lastUpdated \in -1..MaxTime /\ (lastUpdated # -1 => Alerted)
    /\ stream \in Seq(StreamRecords)
ForwarderOK ==
    /\ forwarder \in [checkpoint : Nat, next : Nat, failed : Nat]
    /\ forwarder.checkpoint <= forwarder.next /\ forwarder.next <= Len(stream)
    /\ forwarded \in Seq(1..Len(stream))
RemediatedOK == remediated \in Seq(Resources)

TypeInv ==
    /\ ClockOK /\ UsersOK /\ StatusOK /\ BatchesOK /\ AnalyzersOK /\ NotesOK /\ ReportersOK
    /\ TableOK /\ ForwarderOK /\ RemediatedOK

\* The inductive invariant gives the type invariant the runs check.
LEMMA TypeInvTypes == TypeInv => TypeOK
BY DEF TypeInv, TypeOK, ClockOK, UsersOK, StatusOK, BatchesOK, AnalyzersOK, NotesOK, ReportersOK,
       TableOK, ForwarderOK, RemediatedOK, BatchRecords, NoteRecords, AnalyzerRecords,
       ReporterRecords, StreamRecords

-----------------------------------------------------------------------------
\* The queues: a message changes its state and its receives, the others stay.
SameBatches(q, r, m) ==
    /\ r \in Seq(BatchRecords) /\ DOMAIN r = DOMAIN q
    /\ \A k \in DOMAIN q : r[k].results = q[k].results /\ (k # m => r[k] = q[k])
SameNotes(q, r, m) ==
    /\ r \in Seq(NoteRecords) /\ DOMAIN r = DOMAIN q
    /\ \A k \in DOMAIN q : r[k].resource = q[k].resource /\ r[k].shouldAlert = q[k].shouldAlert
                             /\ (k # m => r[k] = q[k])

\* A batch is received: it has a receive left and keeps its results.
LEMMA BatchTaken ==
    ASSUME NEW q \in Seq(BatchRecords), NEW m \in DOMAIN q, q[m].receives < MaxReceives
    PROVE  SameBatches(q, Take(q, m), m) /\ Take(q, m)[m].state = "held"
<1> DEFINE e == [q[m] EXCEPT !.state = "held", !.receives = @ + 1]
<1>1. q[m] \in BatchRecords
  OBVIOUS
<1>2. q[m].receives + 1 \in 0..MaxReceives
  BY <1>1, ComplianceAssumption DEF BatchRecords
<1>3. e \in BatchRecords /\ e.results = q[m].results /\ e.state = "held"
  BY Zenon, <1>1, <1>2 DEF BatchRecords, MessageStates
<1>4. Take(q, m) = [q EXCEPT ![m] = e]
  BY Zenon DEF Take
<1> HIDE DEF e
<1> QED
  BY <1>3, <1>4 DEF SameBatches

\* A batch is deleted when its invocation returns nil.
LEMMA BatchDeleted ==
    ASSUME NEW q \in Seq(BatchRecords), NEW m \in DOMAIN q
    PROVE  SameBatches(q, Delete(q, m), m) /\ Delete(q, m)[m].state = "done"
<1> DEFINE e == [q[m] EXCEPT !.state = "done"]
<1>1. q[m] \in BatchRecords
  OBVIOUS
<1>2. e \in BatchRecords /\ e.results = q[m].results /\ e.state = "done"
  BY <1>1 DEF BatchRecords, MessageStates
<1>3. Delete(q, m) = [q EXCEPT ![m] = e]
  BY DEF Delete
<1> HIDE DEF e
<1> QED
  BY <1>2, <1>3 DEF SameBatches

\* A batch comes back after a failure, or goes to the dead-letter queue after
\* its last receive.
LEMMA BatchGivenBack ==
    ASSUME NEW q \in Seq(BatchRecords), NEW m \in DOMAIN q
    PROVE  /\ SameBatches(q, GiveBack(q, m), m)
           /\ GiveBack(q, m)[m].state \in {"queued", "dlq"}
           /\ GiveBack(q, m)[m].state = "queued" => GiveBack(q, m)[m].receives < MaxReceives
<1> DEFINE s == IF q[m].receives = MaxReceives THEN "dlq" ELSE "queued"
           e == [q[m] EXCEPT !.state = s]
<1>0. q[m] \in BatchRecords
  OBVIOUS
<1>1. q[m] \in BatchRecords /\ q[m].receives \in 0..MaxReceives /\ MaxReceives \in Nat
  BY <1>0, ComplianceAssumption DEF BatchRecords
<1>2. s \in {"queued", "dlq"} /\ (s = "queued" => q[m].receives < MaxReceives)
  BY <1>1
<1>3. GiveBack(q, m) = [q EXCEPT ![m] = e]
  BY DEF GiveBack
<1> HIDE DEF s
<1>4. e \in BatchRecords /\ e.results = q[m].results /\ e.state = s /\ e.receives = q[m].receives
  BY <1>1, <1>2 DEF BatchRecords, MessageStates
<1> HIDE DEF e
<1> QED
  BY <1>2, <1>3, <1>4 DEF SameBatches

\* The same for a notification: received,
LEMMA NoteTaken ==
    ASSUME NEW q \in Seq(NoteRecords), NEW m \in DOMAIN q, q[m].receives < MaxReceives
    PROVE  SameNotes(q, Take(q, m), m) /\ Take(q, m)[m].state = "held"
<1> DEFINE e == [q[m] EXCEPT !.state = "held", !.receives = @ + 1]
<1>1. q[m] \in NoteRecords
  OBVIOUS
<1>2. q[m].receives + 1 \in 0..MaxReceives
  BY <1>1, ComplianceAssumption DEF NoteRecords
<1>3. e \in NoteRecords /\ e.resource = q[m].resource /\ e.shouldAlert = q[m].shouldAlert
      /\ e.state = "held"
  BY Zenon, <1>1, <1>2 DEF NoteRecords, MessageStates
<1>4. Take(q, m) = [q EXCEPT ![m] = e]
  BY Zenon DEF Take
<1> HIDE DEF e
<1> QED
  BY <1>3, <1>4 DEF SameNotes

\* deleted,
LEMMA NoteDeleted ==
    ASSUME NEW q \in Seq(NoteRecords), NEW m \in DOMAIN q
    PROVE  SameNotes(q, Delete(q, m), m) /\ Delete(q, m)[m].state = "done"
<1> DEFINE e == [q[m] EXCEPT !.state = "done"]
<1>1. q[m] \in NoteRecords
  OBVIOUS
<1>2. e \in NoteRecords /\ e.resource = q[m].resource /\ e.shouldAlert = q[m].shouldAlert
      /\ e.state = "done"
  BY <1>1 DEF NoteRecords, MessageStates
<1>3. Delete(q, m) = [q EXCEPT ![m] = e]
  BY DEF Delete
<1> HIDE DEF e
<1> QED
  BY <1>2, <1>3 DEF SameNotes

\* and given back.
LEMMA NoteGivenBack ==
    ASSUME NEW q \in Seq(NoteRecords), NEW m \in DOMAIN q
    PROVE  /\ SameNotes(q, GiveBack(q, m), m)
           /\ GiveBack(q, m)[m].state \in {"queued", "dlq"}
           /\ GiveBack(q, m)[m].state = "queued" => GiveBack(q, m)[m].receives < MaxReceives
<1> DEFINE s == IF q[m].receives = MaxReceives THEN "dlq" ELSE "queued"
           e == [q[m] EXCEPT !.state = s]
<1>0. q[m] \in NoteRecords
  OBVIOUS
<1>1. q[m] \in NoteRecords /\ q[m].receives \in 0..MaxReceives /\ MaxReceives \in Nat
  BY <1>0, ComplianceAssumption DEF NoteRecords
<1>2. s \in {"queued", "dlq"} /\ (s = "queued" => q[m].receives < MaxReceives)
  BY <1>1
<1>3. GiveBack(q, m) = [q EXCEPT ![m] = e]
  BY DEF GiveBack
<1> HIDE DEF s
<1>4. /\ e \in NoteRecords /\ e.resource = q[m].resource /\ e.shouldAlert = q[m].shouldAlert
      /\ e.state = s /\ e.receives = q[m].receives
  BY <1>1, <1>2 DEF NoteRecords, MessageStates
<1> HIDE DEF e
<1> QED
  BY <1>2, <1>3, <1>4 DEF SameNotes

\* What the policy engine says, of which resources.
LEMMA ResultType ==
    ASSUME NEW f \in Results
    PROVE  DOMAIN f \subseteq Resources /\ \A r \in DOMAIN f : f[r] \in Verdicts
<1>1. PICK rs \in (SUBSET Resources) \ {{}} : f \in [rs -> Verdicts]
  BY DEF Results
<1> QED
  BY <1>1

\* The notifications are put at the end of the queue, every one of them.
LEMMA SentNotes ==
    ASSUME notes \in Seq(NoteRecords), NEW new \in SUBSET Notes, IsFiniteSet(new),
           NEW q \in Sent(new)
    PROVE  /\ q \in Seq(NoteRecords) /\ DOMAIN notes \subseteq DOMAIN q
           /\ \A k \in DOMAIN notes : q[k] = notes[k]
           /\ \A k \in DOMAIN q \ DOMAIN notes : q[k].state = "queued" /\ q[k].receives = 0
           /\ \A n \in new : \E k \in DOMAIN q :
                 q[k].resource = n.resource /\ q[k].shouldAlert = n.shouldAlert
                   /\ q[k].state = "queued"
<1> DEFINE c == Cardinality(new)
           msg(n) == [resource |-> n.resource, shouldAlert |-> n.shouldAlert,
                      state |-> "queued", receives |-> 0]
<1>1. c \in Nat
  BY FS_CardinalityType
<1>2. PICK t \in [1..c -> new] :
         /\ {t[i] : i \in DOMAIN t} = new
         /\ q = notes \o [i \in DOMAIN t |-> msg(t[i])]
  BY Zenon DEF Sent
<1> DEFINE tail == [i \in 1..c |-> msg(t[i])]
<1>3. \A n \in new : msg(n) \in NoteRecords
  BY ComplianceAssumption DEF Notes, NoteRecords, MessageStates
<1>4. \A n \in new : /\ msg(n).resource = n.resource /\ msg(n).shouldAlert = n.shouldAlert
                     /\ msg(n).state = "queued" /\ msg(n).receives = 0
  OBVIOUS
<1> HIDE DEF c, msg
<1>5. tail \in Seq(NoteRecords) /\ Len(tail) = c /\ q = notes \o tail
  <2>1. tail \in [1..c -> NoteRecords]
    BY <1>2, <1>3
  <2>2. tail \in Seq(NoteRecords) /\ Len(tail) = c
    BY <1>1, <2>1
  <2>3. q = notes \o tail
    BY Zenon, <1>2
  <2> QED
    BY Zenon, <2>2, <2>3
<1>a. \A k \in 1..c : tail[k] = msg(t[k])
  OBVIOUS
<1> HIDE DEF tail
<1>6. /\ q \in Seq(NoteRecords)
      /\ \A k \in 1..Len(notes) : q[k] = notes[k]
      /\ \A k \in 1..c : q[Len(notes) + k] = tail[k]
      /\ Len(notes) \in Nat /\ DOMAIN notes = 1..Len(notes) /\ DOMAIN q = 1..(Len(notes) + c)
  <2>1. /\ q \in Seq(NoteRecords) /\ Len(q) = Len(notes) + c
        /\ \A k \in 1..(Len(notes) + c) : q[k] = IF k <= Len(notes) THEN notes[k] ELSE tail[k - Len(notes)]
    BY <1>5
  <2>2. Len(notes) \in Nat /\ DOMAIN notes = 1..Len(notes) /\ DOMAIN q = 1..(Len(notes) + c)
    BY <2>1
  <2>3. \A k \in 1..Len(notes) : q[k] = notes[k]
    BY <1>1, <2>1, <2>2
  <2>4. ASSUME NEW k \in 1..c
        PROVE  q[Len(notes) + k] = tail[k]
    <3>1. Len(notes) + k \in 1..(Len(notes) + c) /\ ~(Len(notes) + k <= Len(notes))
          /\ (Len(notes) + k) - Len(notes) = k
      BY <1>1, <2>2
    <3> QED
      BY <2>1, <3>1
  <2> QED
    BY <2>1, <2>2, <2>3, <2>4
<1>7. \A k \in 1..c : q[Len(notes) + k] = msg(t[k]) /\ t[k] \in new
  BY Zenon, <1>2, <1>6, <1>a
<1>8. ASSUME NEW k \in DOMAIN q \ DOMAIN notes
      PROVE  q[k].state = "queued" /\ q[k].receives = 0
  <2>1. k - Len(notes) \in 1..c /\ Len(notes) + (k - Len(notes)) = k
    BY <1>1, <1>6
  <2> QED
    BY <1>4, <1>7, <2>1
<1>9. ASSUME NEW n \in new
      PROVE  \E k \in DOMAIN q : q[k].resource = n.resource /\ q[k].shouldAlert = n.shouldAlert
                                   /\ q[k].state = "queued"
  <2>1. PICK i \in 1..c : t[i] = n
    BY <1>2
  <2>2. Len(notes) + i \in DOMAIN q
    BY <1>1, <1>6
  <2> QED
    BY <1>4, <1>7, <2>1, <2>2
<1> QED
  BY <1>1, <1>6, <1>8, <1>9

\* The types at the start.
LEMMA InitTypes == Init => TypeInv
<1> SUFFICES ASSUME Init PROVE TypeInv
  OBVIOUS
<1> USE ComplianceAssumption
<1>1. ClockOK /\ UsersOK /\ StatusOK
  BY DEF Init, ClockOK, UsersOK, StatusOK
<1>2. BatchesOK /\ NotesOK
  BY DEF Init, BatchesOK, NotesOK, Bounded
<1>3. AnalyzersOK
  <2>1. IdleAnalyzer \in AnalyzerRecords /\ IdleAnalyzer.pc = "idle" /\ IdleAnalyzer.notes = {}
    BY DEF IdleAnalyzer, AnalyzerRecords
  <2>2. IsFiniteSet({})
    BY FS_EmptySet
  <2> QED
    BY Zenon, <2>1, <2>2 DEF Init, AnalyzersOK
<1>4. ReportersOK
  <2>1. IdleReporter \in ReporterRecords /\ IdleReporter.pc = "idle"
    BY DEF IdleReporter, ReporterRecords
  <2> QED
    BY <2>1 DEF Init, ReportersOK
<1>5. TableOK /\ ForwarderOK /\ RemediatedOK
  BY DEF Init, TableOK, ForwarderOK, RemediatedOK
<1> QED
  BY <1>1, <1>2, <1>3, <1>4, <1>5 DEF TypeInv

\* An idle analyzer, and what an update of one analyzer keeps.
LEMMA AnalyzerSet ==
    ASSUME AnalyzersOK, NEW w \in Analyzers, NEW u \in AnalyzerRecords, IsFiniteSet(u.notes),
           analyzer' = [analyzer EXCEPT ![w] = u], DOMAIN batches' = DOMAIN batches,
           u.pc # "idle" => u.batch \in DOMAIN batches
    PROVE  AnalyzersOK'
BY DEF AnalyzersOK

\* An invocation of resource_processor ends.
LEMMA AnalyzerIdle ==
    ASSUME AnalyzersOK, NEW w \in Analyzers, analyzer' = [analyzer EXCEPT ![w] = IdleAnalyzer],
           DOMAIN batches' = DOMAIN batches
    PROVE  AnalyzersOK'
<1>1. IdleAnalyzer \in AnalyzerRecords /\ IdleAnalyzer.pc = "idle" /\ IdleAnalyzer.notes = {}
  BY DEF IdleAnalyzer, AnalyzerRecords
<1>2. IsFiniteSet({})
  BY FS_EmptySet
<1> QED
  BY Zenon, <1>1, <1>2, AnalyzerSet

\* The queue of resources after one of its messages changed.
LEMMA BatchesKept ==
    ASSUME BatchesOK, NEW m \in DOMAIN batches, SameBatches(batches, batches', m),
           batches'[m].state = "queued" => batches'[m].receives < MaxReceives
    PROVE  BatchesOK'
BY DEF BatchesOK, Bounded, SameBatches

\* The queue of notifications after one of its messages changed,
LEMMA NotesKept ==
    ASSUME NotesOK, NEW n \in DOMAIN notes, SameNotes(notes, notes', n),
           notes'[n].state = "queued" => notes'[n].receives < MaxReceives
    PROVE  NotesOK'
BY DEF NotesOK, Bounded, SameNotes

\* and after new ones were sent: the reporters still find theirs.
LEMMA NotesSent ==
    ASSUME NotesOK, ReportersOK, UNCHANGED reporter,
           NEW new \in SUBSET Notes, IsFiniteSet(new), notes' \in Sent(new)
    PROVE  NotesOK' /\ ReportersOK'
<1>1. /\ notes' \in Seq(NoteRecords) /\ DOMAIN notes \subseteq DOMAIN notes'
      /\ \A k \in DOMAIN notes : notes'[k] = notes[k]
      /\ \A k \in DOMAIN notes' \ DOMAIN notes : notes'[k].state = "queued" /\ notes'[k].receives = 0
  BY SentNotes DEF NotesOK
<1>2. 0 < MaxReceives
  BY ComplianceAssumption
<1>3. NotesOK'
  BY <1>1, <1>2 DEF NotesOK, Bounded
<1>4. ReportersOK'
  BY <1>1 DEF ReportersOK
<1> QED
  BY <1>3, <1>4

\* The users and the analyzers keep the types.
LEMMA ChangeTypes ==
    ASSUME TypeInv, NEW results \in Results, Change(results)
    PROVE  TypeInv'
<1> DEFINE b == [results |-> results, state |-> "queued", receives |-> 0]
<1>1. batches' = Append(batches, b)
      /\ UNCHANGED <<now, failures, users, status, analyzer, hazards, notes, alerting, stream, forwarding>>
  BY DEF Change
<1>2. b \in BatchRecords /\ b.state = "queued" /\ b.receives = 0 /\ 0 < MaxReceives
  BY ComplianceAssumption DEF BatchRecords, MessageStates
<1> HIDE DEF b
<1>3. /\ batches' \in Seq(BatchRecords)
      /\ \A i \in 1..Len(batches) : batches'[i] = batches[i]
      /\ batches'[Len(batches) + 1] = b
      /\ DOMAIN batches = 1..Len(batches) /\ DOMAIN batches' = 1..(Len(batches) + 1)
      /\ Len(batches) \in Nat
  BY <1>1, <1>2 DEF TypeInv, BatchesOK
<1>4. BatchesOK'
  BY <1>2, <1>3 DEF TypeInv, BatchesOK, Bounded
<1>5. AnalyzersOK'
  BY <1>1, <1>3 DEF TypeInv, AnalyzersOK
<1> QED
  BY <1>1, <1>4, <1>5 DEF TypeInv, users, alerting, forwarding, ClockOK, UsersOK, StatusOK,
     NotesOK, Bounded, ReportersOK, TableOK, Alerted, IsAlert, ForwarderOK, RemediatedOK

\* A user edits the suppressions.
LEMMA SuppressionTypes ==
    ASSUME TypeInv, NEW r \in Resources, ChangeSuppression(r)
    PROVE  TypeInv'
<1>1. UsersOK'
  <2>1. PICK S \in SUBSET Resources, n \in 0..MaxSuppress : suppressions = <<S, n>>
    BY DEF TypeInv, UsersOK
  <2>2. n + 1 \in 0..MaxSuppress /\ suppressions' = <<S \cup {r}, n + 1>>
    BY <2>1, ComplianceAssumption DEF ChangeSuppression
  <2>3. suppressed' \subseteq Resources
    BY SMTT(30) DEF ChangeSuppression, TypeInv, UsersOK
  <2> QED
    BY <2>2, <2>3 DEF UsersOK
<1> QED
  BY <1>1 DEF ChangeSuppression, TypeInv, analysis, alerting, forwarding, ClockOK, StatusOK, BatchesOK,
     AnalyzersOK, NotesOK, Bounded, ReportersOK, TableOK, Alerted, IsAlert, ForwarderOK, RemediatedOK

\* Handle of resource_processor: the batch is taken.
LEMMA AnalyzeTypes ==
    ASSUME TypeInv, NEW w \in Analyzers, NEW m \in DOMAIN batches, Analyze(w, m)
    PROVE  TypeInv'
<1> DEFINE todo == Failing(batches[m].results) \ suppressed
           u == [pc |-> IF todo = {} THEN "set" ELSE "check", batch |-> m, todo |-> todo, notes |-> {}]
           others == UNION {DOMAIN ResultsOf(v) : v \in {x \in Analyzers : analyzer[x].pc # "idle"}}
<1>1. /\ batches[m].state = "queued" /\ batches' = Take(batches, m)
      /\ analyzer' = [analyzer EXCEPT ![w] = u]
      /\ hazards' = [hazards EXCEPT !.overlapped = @ \cup (DOMAIN batches[m].results \cap others)]
      /\ UNCHANGED <<now, failures, users, status, notes, alerting, stream, forwarding>>
  BY DEF Analyze
<1>2. batches \in Seq(BatchRecords) /\ batches[m] \in BatchRecords /\ m \in Nat
  BY DEF TypeInv, BatchesOK
<1>3. DOMAIN batches[m].results \subseteq Resources
  BY <1>2, ResultType DEF BatchRecords
<1>4. SameBatches(batches, batches', m) /\ batches'[m].state = "held"
  BY <1>1, <1>2, BatchTaken DEF TypeInv, BatchesOK, Bounded
<1>5. BatchesOK' /\ DOMAIN batches' = DOMAIN batches
  BY Zenon, <1>4, BatchesKept DEF TypeInv, SameBatches
<1>6. u \in AnalyzerRecords /\ u.notes = {} /\ u.batch = m
  BY SMTT(30), <1>2, <1>3 DEF AnalyzerRecords, Failing
<1> HIDE DEF u
<1>7. AnalyzersOK'
  BY Zenon, <1>1, <1>5, <1>6, FS_EmptySet, AnalyzerSet DEF TypeInv
<1>8. StatusOK'
  <2>1. hazards.overlapped \cup (DOMAIN batches[m].results \cap others) \in SUBSET Resources
    BY <1>3 DEF TypeInv, StatusOK
  <2> HIDE DEF others
  <2> QED
    BY <1>1, <2>1 DEF TypeInv, StatusOK
<1> QED
  BY <1>1, <1>5, <1>7, <1>8 DEF TypeInv, users, alerting, forwarding, ClockOK, UsersOK,
     NotesOK, Bounded, ReportersOK, TableOK, Alerted, IsAlert, ForwarderOK, RemediatedOK

\* GetStatus of one resource.
LEMMA CheckStatusTypes ==
    ASSUME TypeInv, NEW w \in Analyzers, NEW r \in Resources, CheckStatus(w, r)
    PROVE  TypeInv'
<1> DEFINE note == [resource |-> r, shouldAlert |-> status[r] # "FAIL"]
           pc == IF analyzer[w].todo = {r} THEN "set" ELSE "check"
           u == [analyzer[w] EXCEPT !.todo = @ \ {r}, !.notes = @ \cup {note}, !.pc = pc]
<1>1. /\ analyzer[w].pc = "check"
      /\ UNCHANGED <<now, failures, users, status, batches, hazards, notes, alerting, stream, forwarding>>
  BY DEF CheckStatus
<1>2. analyzer[w] \in AnalyzerRecords
  BY DEF TypeInv, AnalyzersOK
<1>3. analyzer' = [analyzer EXCEPT ![w] = u]
  BY Zenon DEF CheckStatus, TypeInv, AnalyzersOK
<1>4. note \in Notes
  BY DEF Notes
<1>5. pc \in {"set", "check"}
  OBVIOUS
<1> HIDE DEF note, pc
<1>6. analyzer[w].todo \ {r} \in SUBSET Resources /\ analyzer[w].notes \cup {note} \in SUBSET Notes
  BY <1>2, <1>4 DEF AnalyzerRecords
<1>7. u \in AnalyzerRecords /\ u.notes = analyzer[w].notes \cup {note} /\ u.batch = analyzer[w].batch
  BY Zenon, <1>2, <1>5, <1>6 DEF AnalyzerRecords
<1>8. IsFiniteSet(analyzer[w].notes \cup {note})
  BY FS_AddElement DEF TypeInv, AnalyzersOK
<1> HIDE DEF u
<1>9. AnalyzersOK'
  BY Zenon, <1>1, <1>3, <1>7, <1>8, AnalyzerSet DEF TypeInv, AnalyzersOK
<1> QED
  BY SMTT(30), <1>1, <1>9 DEF TypeInv, users, alerting, forwarding, ClockOK, UsersOK, StatusOK, BatchesOK,
     NotesOK, Bounded, ReportersOK, TableOK, Alerted, IsAlert, ForwarderOK, RemediatedOK

\* SetStatus writes verdicts of the batch, and only of its resources.
LEMMA SetStatusTypes ==
    ASSUME TypeInv, NEW w \in Analyzers, SetStatus(w)
    PROVE  TypeInv'
<1> DEFINE m == analyzer[w].batch
           results == ResultsOf(w)
<1>1. /\ analyzer[w].pc = "set"
      /\ status' = [r \in Resources |-> IF r \in DOMAIN results THEN results[r] ELSE status[r]]
      /\ UNCHANGED <<now, failures, users, hazards, notes, alerting, stream, forwarding>>
  BY Zenon DEF SetStatus
<1>2. /\ batches \in Seq(BatchRecords) /\ m \in DOMAIN batches /\ batches[m] \in BatchRecords
      /\ analyzer[w] \in AnalyzerRecords
  BY <1>1 DEF TypeInv, BatchesOK, AnalyzersOK
<1>3. StatusOK'
  <2>1. \A r \in DOMAIN results : results[r] \in Verdicts
    BY <1>2, ResultType DEF ResultsOf, BatchRecords
  <2> QED
    BY SMTT(30), <1>1, <2>1 DEF TypeInv, StatusOK
<1>4. BatchesOK' /\ AnalyzersOK'
  <2>1. CASE analyzer[w].notes = {}
    <3>1. batches' = Delete(batches, m) /\ analyzer' = [analyzer EXCEPT ![w] = IdleAnalyzer]
      BY <2>1 DEF SetStatus
    <3>2. SameBatches(batches, batches', m) /\ batches'[m].state = "done"
      BY <1>2, <3>1, BatchDeleted
    <3>3. BatchesOK' /\ DOMAIN batches' = DOMAIN batches
      BY <1>2, <3>2, BatchesKept DEF TypeInv, SameBatches
    <3> QED
      BY Zenon, <3>1, <3>3, AnalyzerIdle DEF TypeInv
  <2>2. CASE analyzer[w].notes # {}
    <3> DEFINE u == [analyzer[w] EXCEPT !.pc = "notify"]
    <3>1. batches' = batches /\ analyzer' = [analyzer EXCEPT ![w] = u]
      BY Zenon, <2>2 DEF SetStatus, TypeInv, AnalyzersOK
    <3>2. u \in AnalyzerRecords /\ u.notes = analyzer[w].notes /\ u.batch = m
      BY <1>2 DEF AnalyzerRecords
    <3> HIDE DEF u
    <3>3. AnalyzersOK'
      BY Zenon, <1>2, <3>1, <3>2, AnalyzerSet DEF TypeInv, AnalyzersOK
    <3> QED
      BY <3>1, <3>3 DEF TypeInv, BatchesOK, Bounded
  <2> QED
    BY <2>1, <2>2
<1> QED
  BY SMTT(30), <1>1, <1>3, <1>4 DEF TypeInv, users, alerting, forwarding, ClockOK, UsersOK,
     NotesOK, Bounded, ReportersOK, TableOK, Alerted, IsAlert, ForwarderOK, RemediatedOK

\* SendMessageBatch sends every note of the analyzer.
LEMMA NotifyTypes ==
    ASSUME TypeInv, NEW w \in Analyzers, Notify(w)
    PROVE  TypeInv'
<1> DEFINE m == analyzer[w].batch
<1>1. /\ analyzer[w].pc = "notify" /\ notes' \in Sent(analyzer[w].notes)
      /\ batches' = Delete(batches, m) /\ analyzer' = [analyzer EXCEPT ![w] = IdleAnalyzer]
      /\ UNCHANGED <<now, failures, users, status, hazards, alerting, stream, forwarding>>
  BY DEF Notify
<1>2. /\ batches \in Seq(BatchRecords) /\ m \in DOMAIN batches
      /\ analyzer[w].notes \in SUBSET Notes /\ IsFiniteSet(analyzer[w].notes)
  BY <1>1 DEF TypeInv, BatchesOK, AnalyzersOK, AnalyzerRecords
<1>3. NotesOK' /\ ReportersOK'
  BY Zenon, <1>1, <1>2, NotesSent DEF TypeInv, alerting
<1>4. SameBatches(batches, batches', m) /\ batches'[m].state = "done"
  BY Zenon, <1>1, <1>2, BatchDeleted
<1>5. BatchesOK' /\ DOMAIN batches' = DOMAIN batches
  BY <1>2, <1>4, BatchesKept DEF TypeInv, SameBatches
<1>6. AnalyzersOK'
  BY Zenon, <1>1, <1>5, AnalyzerIdle DEF TypeInv
<1> QED
  BY SMTT(30), <1>1, <1>3, <1>5, <1>6 DEF TypeInv, users, alerting, forwarding, ClockOK, UsersOK, StatusOK,
     TableOK, Alerted, IsAlert, ForwarderOK, RemediatedOK

\* resource_processor fails after some of its writes.
LEMMA AnalyzerFailsTypes ==
    ASSUME TypeInv, NEW w \in Analyzers, NEW sent \in SUBSET analyzer[w].notes,
           NEW written \in SUBSET Resources, written \subseteq DOMAIN ResultsOf(w),
           AnalyzerFails(w, written, sent)
    PROVE  TypeInv'
<1> DEFINE m == analyzer[w].batch
           asked == {n.resource : n \in analyzer[w].notes}
           dropped == {n.resource : n \in analyzer[w].notes \ sent}
           half == (written \cap asked) \cup (IF analyzer[w].pc = "notify" THEN dropped ELSE {})
<1>1. /\ analyzer[w].pc # "idle" /\ failures < MaxFailures /\ failures' = failures + 1
      /\ notes' \in Sent(sent)
      /\ status' = [r \in Resources |-> IF r \in written THEN ResultsOf(w)[r] ELSE status[r]]
      /\ batches' = GiveBack(batches, m) /\ analyzer' = [analyzer EXCEPT ![w] = IdleAnalyzer]
      /\ UNCHANGED <<now, users, alerting, stream, forwarding>>
  BY DEF AnalyzerFails
<1>2. hazards' = [hazards EXCEPT !.halfDone = @ \cup half]
  BY Zenon DEF AnalyzerFails
<1>3. /\ batches \in Seq(BatchRecords) /\ m \in DOMAIN batches /\ batches[m] \in BatchRecords
      /\ analyzer[w].notes \in SUBSET Notes /\ IsFiniteSet(analyzer[w].notes)
  BY SMTT(30), SMTT(60), <1>1 DEF TypeInv, BatchesOK, AnalyzersOK, AnalyzerRecords
<1>4. NotesOK' /\ ReportersOK'
  <2>1. IsFiniteSet(sent) /\ sent \in SUBSET Notes
    BY Zenon, <1>3, FS_Subset
  <2> QED
    BY SMTT(30), SMTT(60), <1>1, <2>1, NotesSent DEF TypeInv, alerting
<1>5. SameBatches(batches, batches', m) /\ (batches'[m].state = "queued" => batches'[m].receives < MaxReceives)
  BY Zenon, <1>1, <1>3, BatchGivenBack
<1>6. BatchesOK' /\ DOMAIN batches' = DOMAIN batches
  BY SMTT(30), SMTT(60), <1>3, <1>5, BatchesKept DEF TypeInv, SameBatches
<1>7. AnalyzersOK'
  BY Zenon, <1>1, <1>6, AnalyzerIdle DEF TypeInv
<1>8. StatusOK'
  <2>1. \A r \in written : ResultsOf(w)[r] \in Verdicts
    BY Zenon, <1>3, ResultType DEF ResultsOf, BatchRecords
  <2>2. half \subseteq Resources
    BY SMTT(30), <1>3 DEF Notes
  <2> HIDE DEF half
  <2>3. hazards' \in [halfDone : SUBSET Resources, overlapped : SUBSET Resources]
    BY Zenon, <1>2, <2>2 DEF TypeInv, StatusOK
  <2> QED
    BY Zenon, <1>1, <2>1, <2>3 DEF TypeInv, StatusOK
<1>9. ClockOK'
  BY <1>1, ComplianceAssumption DEF TypeInv, ClockOK
<1> QED
  BY SMTT(30), SMTT(60), <1>1, <1>4, <1>6, <1>7, <1>8, <1>9 DEF TypeInv, users, alerting, forwarding, UsersOK,
     TableOK, Alerted, IsAlert, ForwarderOK, RemediatedOK

\* The stream grows at its end.
LEMMA StreamGrows ==
    ASSUME stream \in Seq(StreamRecords), NEW e \in StreamRecords, stream' = Append(stream, e)
    PROVE  /\ stream' \in Seq(StreamRecords) /\ Len(stream) \in Nat
           /\ DOMAIN stream = 1..Len(stream) /\ DOMAIN stream' = 1..(Len(stream) + 1)
           /\ \A i \in 1..Len(stream) : stream'[i] = stream[i]
           /\ stream'[Len(stream) + 1] = e
           /\ Alerted \/ e.image => Alerted'
           /\ ForwarderOK /\ UNCHANGED forwarding => ForwarderOK'
<1>1. /\ stream' \in Seq(StreamRecords) /\ Len(stream) \in Nat /\ Len(stream') = Len(stream) + 1
      /\ DOMAIN stream = 1..Len(stream) /\ DOMAIN stream' = 1..(Len(stream) + 1)
      /\ \A i \in 1..Len(stream) : stream'[i] = stream[i]
      /\ stream'[Len(stream) + 1] = e
  OBVIOUS
<1>2. Alerted \/ e.image => Alerted'
  BY <1>1 DEF Alerted, IsAlert
<1>3. ForwarderOK /\ UNCHANGED forwarding => ForwarderOK'
  <2>1. 1..Len(stream) \subseteq 1..Len(stream')
    BY <1>1
  <2>2. forwarded \in Seq(1..Len(stream)) => forwarded \in Seq(1..Len(stream'))
    BY <2>1
  <2> QED
    BY <1>1, <2>2 DEF ForwarderOK, forwarding
<1> QED
  BY Zenon, <1>1, <1>2, <1>3

\* An update of one reporter.
LEMMA ReporterSet ==
    ASSUME ReportersOK, NEW p \in Reporters, NEW u \in ReporterRecords,
           reporter' = [reporter EXCEPT ![p] = u], DOMAIN notes' = DOMAIN notes,
           u.pc # "idle" => u.note \in DOMAIN notes
    PROVE  ReportersOK'
BY DEF ReportersOK

\* An invocation of alert_processor ends.
LEMMA ReporterIdle ==
    ASSUME ReportersOK, NEW p \in Reporters, reporter' = [reporter EXCEPT ![p] = IdleReporter],
           DOMAIN notes' = DOMAIN notes
    PROVE  ReportersOK'
<1>1. IdleReporter \in ReporterRecords /\ IdleReporter.pc = "idle"
  BY ComplianceAssumption DEF IdleReporter, ReporterRecords
<1> QED
  BY Zenon, <1>1, ReporterSet

\* The reporters keep the types.
LEMMA TakeNoteTypes ==
    ASSUME TypeInv, NEW p \in Reporters, NEW n \in DOMAIN notes, TakeNote(p, n)
    PROVE  TypeInv'
<1> DEFINE u == [pc |-> "check", note |-> n, time |-> 0]
<1>1. /\ notes[n].state = "queued" /\ notes' = Take(notes, n)
      /\ reporter' = [reporter EXCEPT ![p] = u]
      /\ UNCHANGED <<now, failures, users, analysis, lastUpdated, remediated, stream, forwarding>>
  BY SMTT(30) DEF TakeNote
<1>2. notes \in Seq(NoteRecords) /\ n \in Nat /\ notes[n].receives < MaxReceives
  BY <1>1 DEF TypeInv, NotesOK, Bounded
<1>3. SameNotes(notes, notes', n) /\ notes'[n].state = "held"
  BY <1>1, <1>2, NoteTaken
<1>4. NotesOK' /\ DOMAIN notes' = DOMAIN notes
  BY Zenon, <1>3, NotesKept DEF TypeInv, SameNotes
<1>5. u \in ReporterRecords /\ u.note = n
  BY SMTT(30), <1>2, ComplianceAssumption DEF ReporterRecords
<1> HIDE DEF u
<1>6. ReportersOK'
  BY Zenon, <1>1, <1>4, <1>5, ReporterSet DEF TypeInv
<1> QED
  BY Zenon, <1>1, <1>4, <1>6 DEF TypeInv, users, analysis, forwarding, ClockOK, UsersOK, StatusOK, BatchesOK,
     Bounded, AnalyzersOK, TableOK, Alerted, IsAlert, ForwarderOK, RemediatedOK

\* The notification a reporter is busy with.
LEMMA NoteInHand ==
    ASSUME TypeInv, NEW p \in Reporters, reporter[p].pc # "idle"
    PROVE  reporter[p].note \in DOMAIN notes /\ NoteOf(p) \in NoteRecords /\ NoteOf(p).resource \in Resources
<1>1. reporter[p].note \in DOMAIN notes /\ NoteOf(p) \in NoteRecords
  BY DEF TypeInv, NoteOf, NotesOK, ReportersOK
<1> QED
  BY <1>1 DEF NoteRecords

\* A notification that a reporter is done with.
LEMMA FinishTypes ==
    ASSUME TypeInv, NEW p \in Reporters, reporter[p].pc # "idle", FinishNote(p)
    PROVE  NotesOK' /\ ReportersOK'
<1> DEFINE n == reporter[p].note
<1>1. notes' = Delete(notes, n) /\ reporter' = [reporter EXCEPT ![p] = IdleReporter]
  BY DEF FinishNote
<1>2. notes \in Seq(NoteRecords) /\ n \in DOMAIN notes
  BY DEF TypeInv, NotesOK, ReportersOK
<1>3. SameNotes(notes, notes', n) /\ notes'[n].state = "done"
  BY Zenon, <1>1, <1>2, NoteDeleted
<1>4. NotesOK' /\ DOMAIN notes' = DOMAIN notes
  BY <1>2, <1>3, NotesKept DEF TypeInv, SameNotes
<1> QED
  BY Zenon, <1>1, <1>4, ReporterIdle DEF TypeInv

\* The steps of alert_processor that may make an alert.
LEMMA ReportTypes ==
    ASSUME TypeInv, NEW p \in Reporters, Report(p)
    PROVE  TypeInv'
<1> USE DEF TypeInv
<1>0. reporter[p] \in ReporterRecords
  BY Zenon DEF ReportersOK
<1>1. CASE CheckFailing(p)
  <2>1. /\ reporter[p].pc = "check"
        /\ UNCHANGED <<now, failures, users, analysis, lastUpdated, remediated, stream, forwarding>>
    BY <1>1 DEF CheckFailing
  <2>2. NotesOK' /\ ReportersOK'
    <3>1. CASE FinishNote(p)
      BY <2>1, <3>1, FinishTypes
    <3>2. CASE notes' = notes /\ reporter' = [reporter EXCEPT ![p].pc = "update", ![p].time = now]
      <4> DEFINE u == [reporter[p] EXCEPT !.pc = "update", !.time = now]
      <4>1. reporter' = [reporter EXCEPT ![p] = u]
        BY Zenon, <3>2 DEF ReportersOK
      <4>2. u \in ReporterRecords /\ u.note = reporter[p].note
        BY Zenon, <1>0 DEF ReporterRecords, ClockOK
      <4> HIDE DEF u
      <4>3. ReportersOK'
        BY Zenon, <2>1, <3>2, <4>1, <4>2, ReporterSet DEF ReportersOK
      <4> QED
        BY <3>2, <4>3 DEF NotesOK, Bounded
    <3> QED
      BY <1>1, <3>1, <3>2 DEF CheckFailing
  <2> QED
    BY SMTT(30), <2>1, <2>2 DEF users, analysis, forwarding, ClockOK, UsersOK, StatusOK, BatchesOK,
       Bounded, AnalyzersOK, TableOK, Alerted, IsAlert, ForwarderOK, RemediatedOK
<1>2. ASSUME NEW valid \in BOOLEAN, TriggerAlert(p, valid)
      PROVE  TypeInv'
  <2> DEFINE u == [reporter[p] EXCEPT !.pc = "remediate"]
             e == [image |-> TRUE, valid |-> valid, time |-> reporter[p].time,
                   resource |-> NoteOf(p).resource]
  <2>1. /\ reporter[p].pc = "update" /\ lastUpdated' = reporter[p].time
        /\ stream' = Append(stream, e)
        /\ UNCHANGED <<now, failures, users, analysis, notes, remediated, forwarding>>
    BY <1>2 DEF TriggerAlert
  <2>2. reporter' = [reporter EXCEPT ![p] = u]
    BY <1>2 DEF TriggerAlert, ReportersOK
  <2>3. u \in ReporterRecords /\ u.note = reporter[p].note
    BY Zenon, <1>0 DEF ReporterRecords
  <2>4. e \in StreamRecords /\ e.image
    <3>1. NoteOf(p).resource \in Resources
      BY Zenon, <2>1, NoteInHand
    <3> QED
      BY Zenon, <1>0, <3>1 DEF StreamRecords, ReporterRecords
  <2> HIDE DEF u, e
  <2>5. ReportersOK'
    BY Zenon, <2>1, <2>2, <2>3, ReporterSet DEF ReportersOK
  <2>6. stream' \in Seq(StreamRecords) /\ Alerted' /\ ForwarderOK'
    BY SMTT(30), SMTT(60), <2>1, <2>4, StreamGrows DEF TableOK
  <2>7. TableOK'
    BY SMTT(30), SMTT(60), <1>0, <2>1, <2>6, ComplianceAssumption DEF TableOK, ReporterRecords
  <2> QED
    BY SMTT(30), <2>1, <2>5, <2>6, <2>7 DEF users, analysis, ClockOK, UsersOK, StatusOK, BatchesOK,
       Bounded, AnalyzersOK, NotesOK, RemediatedOK
<1>3. CASE AlertSuppressed(p)
  <2>1. /\ reporter[p].pc # "idle" /\ FinishNote(p)
        /\ UNCHANGED <<now, failures, users, analysis, lastUpdated, remediated, stream, forwarding>>
    BY Zenon, <1>3 DEF AlertSuppressed
  <2>2. RemediatedOK'
    BY Zenon, <2>1 DEF RemediatedOK, TypeInv
  <2> QED
    BY Zenon, <2>1, <2>2, FinishTypes DEF users, analysis, forwarding, ClockOK, UsersOK, StatusOK, BatchesOK,
       Bounded, AnalyzersOK, TableOK, Alerted, IsAlert, ForwarderOK
<1>4. CASE TriggerRemediation(p)
  <2>1. /\ reporter[p].pc # "idle" /\ FinishNote(p)
        /\ UNCHANGED <<now, failures, users, analysis, lastUpdated, stream, forwarding>>
    BY SMTT(30), SMTT(60), <1>4 DEF TriggerRemediation
  <2>2. NoteOf(p).resource \in Resources
    BY Zenon, <2>1, NoteInHand
  <2>3. RemediatedOK'
    <3>1. /\ remediated \in Seq(Resources)
          /\ remediated' = remediated \/ remediated' = Append(remediated, NoteOf(p).resource)
      BY Zenon, <1>4 DEF TriggerRemediation, RemediatedOK, TypeInv
    <3> QED
      BY <2>2, <3>1 DEF RemediatedOK
  <2> QED
    BY Zenon, <2>1, <2>3, FinishTypes DEF users, analysis, forwarding, ClockOK, UsersOK, StatusOK, BatchesOK,
       Bounded, AnalyzersOK, TableOK, Alerted, IsAlert, ForwarderOK
<1> QED
  BY Zenon, <1>1, <1>2, <1>3, <1>4 DEF Report

\* alert_processor fails, before or after the remediation was accepted.
LEMMA ReporterFailsTypes ==
    ASSUME TypeInv, NEW p \in Reporters, NEW accepted \in BOOLEAN, ReporterFails(p, accepted)
    PROVE  TypeInv'
<1> DEFINE n == reporter[p].note
<1>1. /\ reporter[p].pc # "idle" /\ failures < MaxFailures /\ failures' = failures + 1
      /\ notes' = GiveBack(notes, n) /\ reporter' = [reporter EXCEPT ![p] = IdleReporter]
      /\ remediated' = IF accepted THEN Append(remediated, NoteOf(p).resource) ELSE remediated
      /\ UNCHANGED <<now, users, analysis, lastUpdated, stream, forwarding>>
  BY DEF ReporterFails
<1>2. notes \in Seq(NoteRecords) /\ n \in DOMAIN notes /\ NoteOf(p).resource \in Resources
  BY Zenon, <1>1, NoteInHand DEF TypeInv, NotesOK
<1>3. SameNotes(notes, notes', n) /\ (notes'[n].state = "queued" => notes'[n].receives < MaxReceives)
  BY Zenon, <1>1, <1>2, NoteGivenBack
<1>4. NotesOK' /\ DOMAIN notes' = DOMAIN notes
  BY SMTT(30), <1>2, <1>3, NotesKept DEF TypeInv, SameNotes
<1>5. ReportersOK'
  BY Zenon, <1>1, <1>4, ReporterIdle DEF TypeInv
<1>6. ClockOK' /\ RemediatedOK'
  BY SMTT(30), SMTT(60), <1>1, <1>2, ComplianceAssumption DEF TypeInv, ClockOK, RemediatedOK
<1> QED
  BY Zenon, <1>1, <1>4, <1>5, <1>6 DEF TypeInv, users, analysis, forwarding, UsersOK, StatusOK, BatchesOK,
     Bounded, AnalyzersOK, TableOK, Alerted, IsAlert, ForwarderOK

\* The table, the forwarder and the clock.
LEMMA OtherTypes ==
    ASSUME TypeInv, ExpireRow \/ Forward \/ FinishForwarding \/ ForwarderFails \/ Tick
    PROVE  TypeInv'
<1> USE DEF TypeInv
<1>1. CASE ExpireRow
  <2> DEFINE e == [image |-> FALSE, valid |-> FALSE, time |-> now,
                   resource |-> CHOOSE r \in Resources : TRUE]
  <2>1. /\ lastUpdated # -1 /\ lastUpdated' = -1 /\ stream' = Append(stream, e)
        /\ UNCHANGED <<now, failures, users, analysis, notes, reporter, remediated, forwarding>>
    BY Zenon, <1>1 DEF ExpireRow
  <2>2. e \in StreamRecords
    <3>1. PICK i \in DOMAIN stream : IsAlert(i)
      BY <2>1 DEF TableOK, Alerted
    <3>2. stream[i] \in StreamRecords
      BY <3>1 DEF TableOK
    <3>3. stream[i].resource \in Resources
      BY <3>2 DEF StreamRecords
    <3>4. (CHOOSE r \in Resources : TRUE) \in Resources
      BY <3>3
    <3> QED
      BY SMTT(30), <3>4 DEF StreamRecords, ClockOK
  <2> HIDE DEF e
  <2>3. stream' \in Seq(StreamRecords) /\ ForwarderOK'
    BY <2>1, <2>2, StreamGrows DEF TableOK
  <2>4. TableOK'
    BY <2>1, <2>3, ComplianceAssumption DEF TableOK
  <2> QED
    BY SMTT(30), <2>1, <2>3, <2>4 DEF users, analysis, ClockOK, UsersOK, StatusOK, BatchesOK,
       Bounded, AnalyzersOK, NotesOK, ReportersOK, RemediatedOK
<1>2. CASE Forward \/ FinishForwarding \/ ForwarderFails
  <2>1. UNCHANGED <<now, users, analysis, notes, alerting, stream>>
    BY <1>2 DEF Forward, FinishForwarding, ForwarderFails
  <2>2. ClockOK'
    BY <1>2, ComplianceAssumption DEF Forward, FinishForwarding, ForwarderFails, ClockOK
  <2>3. ForwarderOK'
    <3>1. Len(stream) \in Nat /\ DOMAIN stream = 1..Len(stream) /\ stream' = stream
      BY <2>1 DEF TableOK
    <3>2. CASE Forward
      <4>1. /\ forwarder \in [checkpoint : Nat, next : Nat, failed : Nat]
            /\ forwarder.checkpoint <= forwarder.next /\ forwarder.next < Len(stream)
            /\ forwarded \in Seq(1..Len(stream)) /\ forwarder' = [forwarder EXCEPT !.next = @ + 1]
            /\ forwarded' = forwarded \/ forwarded' = Append(forwarded, forwarder.next + 1)
        BY <3>2 DEF Forward, ForwarderOK
      <4>2. forwarder.next + 1 \in 1..Len(stream)
        BY <3>1, <4>1
      <4>3. forwarded' \in Seq(1..Len(stream))
        BY Zenon, <4>1, <4>2, AppendTyped
      <4> QED
        BY <3>1, <4>1, <4>2, <4>3 DEF ForwarderOK
    <3>3. CASE FinishForwarding \/ ForwarderFails
      <4>1. /\ forwarder \in [checkpoint : Nat, next : Nat, failed : Nat]
            /\ forwarder.checkpoint <= forwarder.next /\ forwarder.next <= Len(stream)
            /\ \/ forwarder' = [forwarder EXCEPT !.checkpoint = forwarder.next]
               \/ forwarder' = [forwarder EXCEPT !.next = forwarder.checkpoint, !.failed = @ + 1]
        BY Zenon, <3>1, <3>3 DEF FinishForwarding, ForwarderFails, ForwarderOK
      <4>2. forwarded' \in Seq(1..Len(stream'))
        BY Zenon, <3>1, <3>3 DEF FinishForwarding, ForwarderFails, ForwarderOK
      <4>3. /\ forwarder' \in [checkpoint : Nat, next : Nat, failed : Nat]
            /\ forwarder'.checkpoint <= forwarder'.next /\ forwarder'.next <= Len(stream)
        <5>1. CASE forwarder' = [forwarder EXCEPT !.checkpoint = forwarder.next]
          BY <3>1, <4>1, <5>1
        <5>2. CASE forwarder' = [forwarder EXCEPT !.next = forwarder.checkpoint, !.failed = @ + 1]
          <6>1. forwarder.failed + 1 \in Nat /\ forwarder.checkpoint \in Nat
            BY <4>1
          <6>2. /\ forwarder' \in [checkpoint : Nat, next : Nat, failed : Nat]
                /\ forwarder'.checkpoint = forwarder.checkpoint /\ forwarder'.next = forwarder.checkpoint
            BY Zenon, <4>1, <5>2, <6>1
          <6>3. forwarder.checkpoint <= Len(stream) /\ forwarder.checkpoint <= forwarder.checkpoint
            BY <3>1, <4>1
          <6> QED
            BY Zenon, <6>2, <6>3
        <5> QED
          BY Zenon, <4>1, <5>1, <5>2
      <4> QED
        BY Zenon, <3>1, <4>2, <4>3 DEF ForwarderOK
    <3> QED
      BY <1>2, <3>2, <3>3
  <2> QED
    BY SMTT(30), <2>1, <2>2, <2>3 DEF users, analysis, alerting, UsersOK, StatusOK, BatchesOK,
       Bounded, AnalyzersOK, NotesOK, ReportersOK, TableOK, Alerted, IsAlert, RemediatedOK
<1>3. CASE Tick
  <2>1. now' \in 0..MaxTime /\ UNCHANGED <<failures, users, analysis, notes, alerting, stream, forwarding>>
    BY SMTT(30), <1>3, ComplianceAssumption DEF Tick, ClockOK
  <2> QED
    BY Zenon, <2>1 DEF users, analysis, alerting, forwarding, ClockOK, UsersOK, StatusOK, BatchesOK,
       Bounded, AnalyzersOK, NotesOK, ReportersOK, TableOK, Alerted, IsAlert, ForwarderOK, RemediatedOK
<1> QED
  BY Zenon, <1>1, <1>2, <1>3

\* Every step keeps the types.
LEMMA NextTypes == TypeInv /\ [Next]_vars => TypeInv'
<1> SUFFICES ASSUME TypeInv, [Next]_vars PROVE TypeInv'
  OBVIOUS
<1>1. CASE UNCHANGED vars
  BY SMTT(30), <1>1 DEF vars, TypeInv, ClockOK, UsersOK, StatusOK, BatchesOK, Bounded, AnalyzersOK, NotesOK,
     ReportersOK, TableOK, Alerted, IsAlert, ForwarderOK, RemediatedOK
<1>2. ASSUME NEW w \in Analyzers, Advance(w)
      PROVE  TypeInv'
  BY <1>2, CheckStatusTypes, SetStatusTypes, NotifyTypes DEF Advance
<1> QED
  BY Zenon, <1>1, <1>2, ChangeTypes, SuppressionTypes, AnalyzeTypes, AnalyzerFailsTypes, TakeNoteTypes,
     ReportTypes, ReporterFailsTypes, OtherTypes DEF Next

\* The state stays well typed.
THEOREM TypeCorrect == Spec => []TypeOK
BY InitTypes, NextTypes, TypeInvTypes, PTL DEF Spec

\* The inductive invariant of the types, for the theorems below.
LEMMA TypesHold == Spec => []TypeInv
BY InitTypes, NextTypes, PTL DEF Spec

-----------------------------------------------------------------------------

\* The copies of an alert on the delivery queue: one of the running batch and one
\* of each invocation that failed.
Positions(i) == {k \in DOMAIN forwarded : forwarded[k] = i}
CopiesInv ==
    \A i \in DOMAIN stream :
        /\ Copies(i) <= forwarder.failed + (IF i <= forwarder.next THEN 1 ELSE 0)
        /\ Copies(i) > 0 => Deliverable(i)
        /\ i <= forwarder.next /\ Deliverable(i) => Copies(i) > 0

\* The copies of a record can be counted.
LEMMA CopiesCounted ==
    ASSUME TypeInv, NEW i
    PROVE  IsFiniteSet(Positions(i)) /\ Copies(i) = Cardinality(Positions(i)) /\ Copies(i) \in Nat
<1>1. Len(forwarded) \in Nat /\ DOMAIN forwarded = 1..Len(forwarded)
  BY DEF TypeInv, ForwarderOK
<1>2. IsFiniteSet(1..Len(forwarded))
  BY <1>1, FS_Interval
<1>3. IsFiniteSet(Positions(i))
  BY <1>1, <1>2, FS_Subset DEF Positions
<1> QED
  BY Zenon, <1>3, FS_CardinalityType DEF Copies, Positions

\* A record is sent: it has one copy more, the others have as many as before.
LEMMA CopyAdded ==
    ASSUME TypeInv, NEW j \in 1..Len(stream), forwarded' = Append(forwarded, j)
    PROVE  Copies(j)' = Copies(j) + 1 /\ \A i : i # j => Copies(i)' = Copies(i)
<1> DEFINE k == Len(forwarded) + 1
<1>1. /\ forwarded \in Seq(1..Len(stream)) /\ Len(forwarded) \in Nat
      /\ DOMAIN forwarded = 1..Len(forwarded)
  BY DEF TypeInv, ForwarderOK
<1>2. /\ DOMAIN forwarded' = 1..k /\ forwarded'[k] = j
      /\ \A m \in 1..Len(forwarded) : forwarded'[m] = forwarded[m]
  BY <1>1
<1>3. Positions(j)' = Positions(j) \cup {k} /\ k \notin Positions(j)
  BY <1>1, <1>2 DEF Positions
<1>4. ASSUME NEW i, i # j PROVE Positions(i)' = Positions(i)
  BY <1>1, <1>2, <1>4 DEF Positions
<1>5. Cardinality(Positions(j)') = Cardinality(Positions(j)) + 1
  BY Zenon, <1>3, CopiesCounted, FS_AddElement
<1>6. \A i : Copies(i)' = Cardinality(Positions(i)') /\ Copies(i) = Cardinality(Positions(i))
  BY Zenon DEF Copies, Positions
<1> QED
  BY Zenon, <1>4, <1>5, <1>6

\* A record that is not in the stream has no copy.
LEMMA NoCopyAhead ==
    ASSUME TypeInv, NEW i, i \notin 1..Len(stream)
    PROVE  Copies(i) = 0
<1>1. Positions(i) = {}
  BY DEF TypeInv, ForwarderOK, Positions
<1> QED
  BY Zenon, <1>1, FS_EmptySet DEF Copies, Positions

\* The forwarder's steps, and whatever is appended to the stream meanwhile.
LEMMA CopiesStep ==
    ASSUME TypeInv, CopiesInv, [Next]_vars
    PROVE  CopiesInv'
<1>0. /\ Len(stream) \in Nat /\ DOMAIN stream = 1..Len(stream) /\ stream \in Seq(StreamRecords)
      /\ forwarder \in [checkpoint : Nat, next : Nat, failed : Nat]
      /\ forwarder.checkpoint <= forwarder.next /\ forwarder.next <= Len(stream)
  BY DEF TypeInv, TableOK, ForwarderOK
<1>1. ASSUME UNCHANGED forwarded, NEW i PROVE Copies(i)' = Copies(i) /\ Copies(i) \in Nat
  BY Zenon, <1>1, CopiesCounted DEF Copies
<1>2. CASE UNCHANGED <<stream, forwarder, forwarded>>
  BY Zenon, <1>2 DEF CopiesInv, Copies, Deliverable
<1>3. ASSUME NEW e, stream' = Append(stream, e), UNCHANGED forwarding
      PROVE  CopiesInv'
  <2>1. /\ \A i \in 1..Len(stream) : stream'[i] = stream[i]
        /\ DOMAIN stream' = 1..(Len(stream) + 1)
        /\ forwarder' = forwarder /\ forwarded' = forwarded
    BY <1>0, <1>3, AppendOne DEF forwarding
  <2> SUFFICES ASSUME NEW i \in DOMAIN stream'
               PROVE  /\ Copies(i)' <= forwarder'.failed + (IF i <= forwarder'.next THEN 1 ELSE 0)
                      /\ Copies(i)' > 0 => Deliverable(i)'
                      /\ i <= forwarder'.next /\ Deliverable(i)' => Copies(i)' > 0
    BY Zenon DEF CopiesInv
  <2>2. Copies(i)' = Copies(i) /\ Copies(i) \in Nat
    BY Zenon, <1>1, <2>1
  <2>3. CASE i \in 1..Len(stream)
    <3>1. Deliverable(i)' = Deliverable(i)
      BY Zenon, <2>1, <2>3 DEF Deliverable
    <3> QED
      BY Zenon, <1>0, <2>1, <2>2, <2>3, <3>1 DEF CopiesInv
  <2>4. CASE i = Len(stream) + 1
    <3>1. i \notin 1..Len(stream) /\ ~(i <= forwarder.next)
      BY <1>0, <2>4
    <3>2. Copies(i) = 0
      BY Zenon, <3>1, NoCopyAhead
    <3> QED
      BY SMTT(30), SMTT(60), <1>0, <2>1, <2>2, <3>1, <3>2
  <2> QED
    BY <1>0, <2>1, <2>3, <2>4
<1>4. ASSUME NEW p \in Reporters, NEW valid \in BOOLEAN, TriggerAlert(p, valid)
      PROVE  CopiesInv'
  BY Zenon, <1>3, <1>4 DEF TriggerAlert
<1>5. CASE ExpireRow
  BY Zenon, <1>3, <1>5 DEF ExpireRow
<1>6. CASE Forward
  <2>0. PICK next \in 1..Len(stream) : next = forwarder.next + 1
    BY <1>0, <1>6 DEF Forward
  <2>1. /\ forwarder'.next = next /\ forwarder'.failed = forwarder.failed /\ stream' = stream
        /\ forwarded' = IF Deliverable(next) THEN Append(forwarded, next) ELSE forwarded
    BY <1>0, <1>6, <2>0 DEF Forward
  <2>2. /\ Copies(next)' = IF Deliverable(next) THEN Copies(next) + 1 ELSE Copies(next)
        /\ \A i : i # next => Copies(i)' = Copies(i)
    <3>1. CASE Deliverable(next)
      BY Zenon, <2>1, <3>1, CopyAdded
    <3>2. CASE ~Deliverable(next)
      BY Zenon, <1>1, <2>1, <3>2
    <3> QED
      BY Zenon, <3>1, <3>2
  <2> SUFFICES ASSUME NEW i \in 1..Len(stream)
               PROVE  /\ Copies(i)' <= forwarder'.failed + (IF i <= forwarder'.next THEN 1 ELSE 0)
                      /\ Copies(i)' > 0 => Deliverable(i)'
                      /\ i <= forwarder'.next /\ Deliverable(i)' => Copies(i)' > 0
    BY Zenon, <1>0, <2>1 DEF CopiesInv
  <2>3. /\ Copies(i) \in Nat /\ Deliverable(i)' = Deliverable(i)
        /\ Copies(i) <= forwarder.failed + (IF i <= forwarder.next THEN 1 ELSE 0)
        /\ Copies(i) > 0 => Deliverable(i)
        /\ i <= forwarder.next /\ Deliverable(i) => Copies(i) > 0
    BY Zenon, <1>0, <2>1, CopiesCounted DEF CopiesInv, Deliverable
  <2>4. forwarder.failed \in Nat /\ forwarder.next \in Nat
    BY <1>0
  <2>5. CASE i = next
    <3>1. Copies(i)' = IF Deliverable(i) THEN Copies(i) + 1 ELSE Copies(i)
      BY <2>2, <2>5
    <3> QED
      BY <2>0, <2>1, <2>3, <2>4, <2>5, <3>1
  <2>6. CASE i # next
    <3>1. Copies(i)' = Copies(i)
      BY Zenon, <2>2, <2>6
    <3> QED
      BY <2>0, <2>1, <2>3, <2>4, <2>6, <3>1
  <2> QED
    BY <2>5, <2>6
<1>7. CASE FinishForwarding
  <2>1. forwarder'.next = forwarder.next /\ forwarder'.failed = forwarder.failed /\ UNCHANGED <<stream, forwarded>>
    BY <1>0, <1>7 DEF FinishForwarding
  <2> QED
    BY Zenon, <2>1 DEF CopiesInv, Copies, Deliverable
<1>8. CASE ForwarderFails
  <2>1. /\ forwarder'.next = forwarder.checkpoint /\ forwarder'.failed = forwarder.failed + 1
        /\ UNCHANGED <<stream, forwarded>>
    BY <1>0, <1>8 DEF ForwarderFails
  <2> SUFFICES ASSUME NEW i \in 1..Len(stream)
               PROVE  /\ Copies(i)' <= forwarder'.failed + (IF i <= forwarder'.next THEN 1 ELSE 0)
                      /\ Copies(i)' > 0 => Deliverable(i)'
                      /\ i <= forwarder'.next /\ Deliverable(i)' => Copies(i)' > 0
    BY Zenon, <1>0, <2>1 DEF CopiesInv
  <2>2. /\ Copies(i) \in Nat /\ Copies(i)' = Copies(i) /\ Deliverable(i)' = Deliverable(i)
        /\ Copies(i) <= forwarder.failed + (IF i <= forwarder.next THEN 1 ELSE 0)
        /\ Copies(i) > 0 => Deliverable(i)
        /\ i <= forwarder.next /\ Deliverable(i) => Copies(i) > 0
    BY Zenon, <1>0, <1>1, <2>1 DEF CopiesInv, Deliverable
  <2> QED
    BY <1>0, <2>1, <2>2
<1>9. ASSUME NEW w \in Analyzers, (\E m \in DOMAIN batches : Analyze(w, m)) \/ Advance(w)
      PROVE  UNCHANGED <<stream, forwarder, forwarded>>
  BY Zenon, <1>9 DEF Analyze, Advance, CheckStatus, SetStatus, Notify, forwarding
<1>10. ASSUME NEW w \in Analyzers,
              \E sent \in SUBSET analyzer[w].notes, written \in SUBSET Resources :
                 analyzer[w].pc # "idle" /\ written \subseteq DOMAIN ResultsOf(w)
                   /\ AnalyzerFails(w, written, sent)
       PROVE  UNCHANGED <<stream, forwarder, forwarded>>
  BY <1>10 DEF AnalyzerFails, forwarding
<1>11. ASSUME NEW p \in Reporters,
              \/ \E n \in DOMAIN notes : TakeNote(p, n)
              \/ CheckFailing(p) \/ AlertSuppressed(p) \/ TriggerRemediation(p)
              \/ \E accepted \in BOOLEAN : ReporterFails(p, accepted)
       PROVE  UNCHANGED <<stream, forwarder, forwarded>>
  BY <1>11 DEF TakeNote, CheckFailing, AlertSuppressed, TriggerRemediation, ReporterFails, forwarding
<1>12. CASE \/ \E results \in Results : Change(results)
            \/ \E r \in Resources : ChangeSuppression(r)
            \/ Tick
            \/ UNCHANGED vars
  <2>1. UNCHANGED <<stream, forwarder, forwarded>>
    BY Zenon, <1>12 DEF Change, ChangeSuppression, Tick, vars, forwarding
  <2> QED
    BY <1>2, <2>1
<1> QED
  BY Zenon, <1>2, <1>4, <1>5, <1>6, <1>7, <1>8, <1>9, <1>10, <1>11, <1>12 DEF Next, Report

\* For any bounds: an alert is on the delivery queue at most once more than
\* invocations of the forwarder failed, at least once when the stream does not
\* show it any more, and never when it is invalid or has no image.
THEOREM ForwardedPerFailureCorrect == Spec => []ForwardedPerFailure
<1>1. Init => CopiesInv
  BY DEF Init, CopiesInv
<1>2. TypeInv /\ CopiesInv /\ [Next]_vars => CopiesInv'
  BY CopiesStep
<1>3. TypeInv /\ CopiesInv => ForwardedPerFailure
  <2> SUFFICES ASSUME TypeInv, CopiesInv, NEW i \in DOMAIN stream
               PROVE  /\ Copies(i) <= 1 + forwarder.failed
                      /\ Copies(i) > 0 => Deliverable(i)
                      /\ i <= forwarder.checkpoint /\ Deliverable(i) => Copies(i) > 0
    BY Zenon DEF ForwardedPerFailure
  <2>1. /\ i \in Nat /\ forwarder.failed \in Nat /\ forwarder.next \in Nat
        /\ forwarder.checkpoint \in Nat /\ forwarder.checkpoint <= forwarder.next
    BY DEF TypeInv, TableOK, ForwarderOK
  <2>2. /\ Copies(i) \in Nat /\ Copies(i) <= forwarder.failed + (IF i <= forwarder.next THEN 1 ELSE 0)
        /\ Copies(i) > 0 => Deliverable(i)
        /\ i <= forwarder.next /\ Deliverable(i) => Copies(i) > 0
    BY Zenon, CopiesCounted DEF CopiesInv
  <2> QED
    BY <2>1, <2>2
<1> QED
  BY <1>1, <1>2, <1>3, TypesHold, PTL DEF Spec

-----------------------------------------------------------------------------
\* The reporters that have made their alert and not yet called for its
\* remediation: each of them has an alert to its credit.
Remediating == {p \in Reporters : reporter[p].pc = "remediate"}
AlertIds == {i \in DOMAIN stream : IsAlert(i)}
CreditInv ==
    /\ IsFiniteSet(Remediating)
    /\ Len(remediated) + Cardinality(Remediating) <= Cardinality(AlertIds)

\* The alerts of the stream can be counted.
LEMMA AlertIdsFinite ==
    ASSUME TypeInv
    PROVE  IsFiniteSet(AlertIds) /\ Cardinality(AlertIds) \in Nat
<1>1. Len(stream) \in Nat /\ DOMAIN stream = 1..Len(stream)
  BY DEF TypeInv, TableOK
<1>2. IsFiniteSet(1..Len(stream))
  BY <1>1, FS_Interval
<1>3. IsFiniteSet(AlertIds)
  BY <1>1, <1>2, FS_Subset DEF AlertIds
<1> QED
  BY <1>3, FS_CardinalityType

\* No reporter goes to "remediate" and nothing is remediated.
LEMMA CreditQuiet ==
    ASSUME TypeInv, CreditInv, UNCHANGED remediated, AlertIds' = AlertIds,
           \A p \in Reporters : reporter'[p].pc = "remediate" => reporter[p].pc = "remediate"
    PROVE  CreditInv'
<1>1. Remediating' \subseteq Remediating
  BY DEF Remediating
<1>2. /\ IsFiniteSet(Remediating') /\ Cardinality(Remediating') <= Cardinality(Remediating)
      /\ Cardinality(Remediating') \in Nat /\ Cardinality(Remediating) \in Nat
  BY <1>1, FS_Subset, FS_CardinalityType DEF CreditInv
<1>3. Len(remediated) \in Nat /\ Cardinality(AlertIds) \in Nat
  BY AlertIdsFinite DEF TypeInv, RemediatedOK
<1> QED
  BY <1>2, <1>3 DEF CreditInv

\* A reporter uses up its credit, with a remediation or without.
LEMMA CreditUsed ==
    ASSUME TypeInv, CreditInv, NEW p \in Reporters, reporter[p].pc = "remediate",
           reporter' = [reporter EXCEPT ![p] = IdleReporter], stream' = stream,
           remediated' = remediated \/ \E r : remediated' = Append(remediated, r)
    PROVE  CreditInv'
<1>1. Remediating' = Remediating \ {p} /\ p \in Remediating
  BY DEF Remediating, TypeInv, ReportersOK, IdleReporter
<1>2. /\ IsFiniteSet(Remediating') /\ Cardinality(Remediating') = Cardinality(Remediating) - 1
      /\ Cardinality(Remediating) \in Nat
  BY <1>1, FS_RemoveElement, FS_CardinalityType DEF CreditInv
<1>3. AlertIds' = AlertIds /\ Cardinality(AlertIds) \in Nat
  BY AlertIdsFinite DEF AlertIds, IsAlert
<1>4. Len(remediated) \in Nat /\ Len(remediated') \in {Len(remediated), Len(remediated) + 1}
  BY DEF TypeInv, RemediatedOK
<1> QED
  BY <1>2, <1>3, <1>4 DEF CreditInv

\* The alert is made and the reporter gets its credit.
LEMMA CreditGained ==
    ASSUME TypeInv, TypeInv', CreditInv, NEW p \in Reporters, NEW valid \in BOOLEAN,
           TriggerAlert(p, valid)
    PROVE  CreditInv'
<1> DEFINE e == [image |-> TRUE, valid |-> valid, time |-> reporter[p].time,
                 resource |-> NoteOf(p).resource]
           k == Len(stream) + 1
<1>1. /\ reporter[p].pc = "update" /\ stream' = Append(stream, e) /\ e.image
      /\ reporter' = [reporter EXCEPT ![p].pc = "remediate"] /\ remediated' = remediated
  BY DEF TriggerAlert
<1> HIDE DEF e
<1>2. /\ DOMAIN stream = 1..Len(stream) /\ DOMAIN stream' = 1..k /\ Len(stream) \in Nat
      /\ \A i \in 1..Len(stream) : stream'[i] = stream[i]
      /\ stream'[k] = e
  BY <1>1, AppendOne DEF TypeInv, TableOK
<1>3. AlertIds' = AlertIds \cup {k} /\ k \notin AlertIds
  BY <1>1, <1>2 DEF AlertIds, IsAlert
<1>4. Cardinality(AlertIds') = Cardinality(AlertIds) + 1 /\ Cardinality(AlertIds) \in Nat
  BY Zenon, <1>3, AlertIdsFinite, FS_AddElement
<1>5. Remediating' = Remediating \cup {p} /\ p \notin Remediating
  BY <1>1 DEF Remediating, TypeInv, ReportersOK, ReporterRecords
<1>6. /\ IsFiniteSet(Remediating') /\ Cardinality(Remediating') = Cardinality(Remediating) + 1
      /\ Cardinality(Remediating) \in Nat
  BY <1>5, FS_AddElement, FS_CardinalityType DEF CreditInv
<1>7. Len(remediated) \in Nat
  BY DEF TypeInv, RemediatedOK
<1> QED
  BY <1>1, <1>4, <1>6, <1>7 DEF CreditInv

\* Every step keeps the credit: only TriggerAlert adds a reporter with credit,
\* only a reporter with credit calls for a remediation.
LEMMA CreditStep ==
    ASSUME TypeInv, TypeInv', CreditInv, [Next]_vars
    PROVE  CreditInv'
<1>1. ASSUME UNCHANGED <<stream, reporter, remediated>>
      PROVE  CreditInv'
  BY <1>1, CreditQuiet DEF AlertIds, IsAlert
<1>2. ASSUME NEW p \in Reporters,
             \/ \E n \in DOMAIN notes : TakeNote(p, n)
             \/ Report(p)
             \/ \E accepted \in BOOLEAN : ReporterFails(p, accepted)
      PROVE  CreditInv'
  <2>1. ASSUME UNCHANGED <<stream, remediated>>, NEW u, u.pc # "remediate",
               reporter' = [reporter EXCEPT ![p] = u]
        PROVE  CreditInv'
    <3>1. \A q \in Reporters : reporter'[q].pc = "remediate" => reporter[q].pc = "remediate"
      BY <2>1 DEF TypeInv, ReportersOK
    <3> QED
      BY Zenon, <2>1, <3>1, CreditQuiet DEF AlertIds, IsAlert
  <2>2. IdleReporter.pc # "remediate"
    BY DEF IdleReporter
  <2>3. ASSUME NEW n \in DOMAIN notes, TakeNote(p, n) PROVE CreditInv'
    BY Zenon, <2>1, <2>3 DEF TakeNote
  <2>4. CASE CheckFailing(p)
    <3>1. UNCHANGED <<stream, remediated>>
      BY <2>4 DEF CheckFailing
    <3>2. CASE FinishNote(p)
      BY Zenon, <2>1, <2>2, <3>1, <3>2 DEF FinishNote
    <3>3. CASE reporter' = [reporter EXCEPT ![p].pc = "update", ![p].time = now]
      <4>1. \A q \in Reporters : reporter'[q].pc = "remediate" => reporter[q].pc = "remediate"
        BY <3>3 DEF TypeInv, ReportersOK, ReporterRecords
      <4> QED
        BY <3>1, <4>1, CreditQuiet DEF AlertIds, IsAlert
    <3> QED
      BY <2>4, <3>2, <3>3 DEF CheckFailing
  <2>5. CASE AlertSuppressed(p)
    BY Zenon, <2>1, <2>2, <2>5 DEF AlertSuppressed, FinishNote
  <2>6. CASE TriggerRemediation(p)
    BY Zenon, <2>6, CreditUsed DEF TriggerRemediation, FinishNote
  <2>7. ASSUME NEW accepted \in BOOLEAN, ReporterFails(p, accepted) PROVE CreditInv'
    <3>1. CASE accepted
      BY Zenon, <2>7, <3>1, CreditUsed DEF ReporterFails
    <3>2. CASE ~accepted
      BY Zenon, <2>1, <2>2, <2>7, <3>2 DEF ReporterFails
    <3> QED
      BY <3>1, <3>2
  <2> QED
    BY Zenon, <1>2, <2>3, <2>4, <2>5, <2>6, <2>7, CreditGained DEF Report
<1>3. CASE ExpireRow
  <2> DEFINE e == [image |-> FALSE, valid |-> FALSE, time |-> now,
                   resource |-> CHOOSE r \in Resources : TRUE]
             k == Len(stream) + 1
  <2>1. stream' = Append(stream, e) /\ ~e.image /\ UNCHANGED <<reporter, remediated>>
    BY <1>3 DEF ExpireRow
  <2> HIDE DEF e
  <2>2. /\ DOMAIN stream = 1..Len(stream) /\ DOMAIN stream' = 1..k /\ Len(stream) \in Nat
        /\ \A i \in 1..Len(stream) : stream'[i] = stream[i]
        /\ stream'[k] = e
    BY <2>1, AppendOne DEF TypeInv, TableOK
  <2>3. AlertIds' = AlertIds
    BY <2>1, <2>2 DEF AlertIds, IsAlert
  <2> QED
    BY <2>1, <2>3, CreditQuiet
<1>4. ASSUME NEW w \in Analyzers, (\E m \in DOMAIN batches : Analyze(w, m)) \/ Advance(w)
      PROVE  UNCHANGED <<stream, reporter, remediated>>
  BY Zenon, <1>4 DEF Analyze, Advance, CheckStatus, SetStatus, Notify, alerting
<1>5. ASSUME NEW w \in Analyzers,
             \E sent \in SUBSET analyzer[w].notes, written \in SUBSET Resources :
                analyzer[w].pc # "idle" /\ written \subseteq DOMAIN ResultsOf(w)
                  /\ AnalyzerFails(w, written, sent)
      PROVE  UNCHANGED <<stream, reporter, remediated>>
  BY <1>5 DEF AnalyzerFails, alerting
<1>6. CASE \/ \E results \in Results : Change(results)
           \/ \E r \in Resources : ChangeSuppression(r)
           \/ Forward \/ FinishForwarding \/ ForwarderFails \/ Tick
           \/ UNCHANGED vars
  <2>1. UNCHANGED <<stream, reporter, remediated>>
    BY Zenon, <1>6 DEF Change, ChangeSuppression, Forward, FinishForwarding, ForwarderFails, Tick, vars, alerting
  <2> QED
    BY <1>1, <2>1
<1> QED
  BY Zenon, <1>1, <1>2, <1>3, <1>4, <1>5, <1>6 DEF Next

\* However often a notification is handled again after a failure, no more
\* remediations are called for than alerts were made.
THEOREM RemediationsCoveredCorrect == Spec => []RemediationsCovered
<1>1. Init => CreditInv
  <2> SUFFICES ASSUME Init PROVE CreditInv
    OBVIOUS
  <2>1. Remediating = {} /\ AlertIds = {} /\ Len(remediated) = 0
    BY DEF Init, Remediating, AlertIds, IdleReporter
  <2> QED
    BY <2>1, FS_EmptySet DEF CreditInv
<1>2. TypeInv /\ TypeInv' /\ CreditInv /\ [Next]_vars => CreditInv'
  BY CreditStep
<1>3. TypeInv /\ CreditInv => RemediationsCovered
  <2> SUFFICES ASSUME TypeInv, CreditInv PROVE RemediationsCovered
    OBVIOUS
  <2>1. /\ Len(remediated) \in Nat /\ Cardinality(Remediating) \in Nat /\ Cardinality(AlertIds) \in Nat
        /\ Len(remediated) + Cardinality(Remediating) <= Cardinality(AlertIds)
    BY AlertIdsFinite, FS_CardinalityType DEF CreditInv, TypeInv, RemediatedOK
  <2>2. Len(remediated) <= Cardinality(AlertIds)
    BY <2>1
  <2> QED
    BY <2>2 DEF RemediationsCovered, AlertIds
<1> QED
  BY <1>1, <1>2, <1>3, TypesHold, PTL DEF Spec

-----------------------------------------------------------------------------
(* A failing resource has an alert, or something that will bring one.      *)

\* The analyzers' side.  Two analyzers meet on overlapped resources only.  A
\* resource that fails is still to be looked up or has its note; a note that
\* asks for no alert found the status FAIL, and until the analyzer has written
\* its results nobody else touches that status.
Working(w) == analyzer[w].pc # "idle"
Asked(w) == {n.resource : n \in analyzer[w].notes}
SuppressionsSeen == suppressed \subseteq suppressions[1]
OverlapSeen ==
    \A v, w \in Analyzers : v # w /\ Working(v) /\ Working(w) =>
        DOMAIN ResultsOf(v) \cap DOMAIN ResultsOf(w) \subseteq hazards.overlapped
AllAsked ==
    \A w \in Analyzers : Working(w) =>
        /\ Failing(ResultsOf(w)) \ suppressions[1] \subseteq analyzer[w].todo \cup Asked(w)
        /\ analyzer[w].pc # "check" => analyzer[w].todo = {}
        /\ analyzer[w].todo \cup Asked(w) \subseteq DOMAIN ResultsOf(w)
KnownFailing ==
    \A w \in Analyzers : analyzer[w].pc \in {"check", "set"} =>
        \A n \in analyzer[w].notes :
            ~n.shouldAlert /\ n.resource \notin hazards.overlapped => status[n.resource] = "FAIL"
AnalysisInv == SuppressionsSeen /\ OverlapSeen /\ AllAsked /\ KnownFailing

\* What can still bring the alert of a resource: the alert itself, a
\* notification on its way, an analyzer about to send one.
Evidence(r) ==
    \/ Alerted
    \/ \E n \in DOMAIN notes : notes[n].resource = r /\ notes[n].shouldAlert /\ notes[n].state # "done"
    \/ \E w \in Analyzers : analyzer[w].pc = "notify"
                              /\ [resource |-> r, shouldAlert |-> TRUE] \in analyzer[w].notes
Excused == hazards.halfDone \cup hazards.overlapped \cup suppressions[1]
FailingPending == \A r \in Resources \ Excused : status[r] = "FAIL" => Evidence(r)
RemediateAlerted == \A p \in Reporters : reporter[p].pc = "remediate" => Alerted
PendingInv == RemediateAlerted /\ FailingPending

\* An analyzer has done with the statuses of its resources: it stops, or goes
\* on to its notifications.  Only those statuses may have changed.
LEMMA AnalyzerLeaves ==
    ASSUME TypeInv, AnalysisInv, NEW w \in Analyzers, Working(w), UNCHANGED users,
           \/ analyzer' = [analyzer EXCEPT ![w] = IdleAnalyzer]
           \/ /\ analyzer[w].todo = {}
              /\ analyzer' = [analyzer EXCEPT ![w] = [@ EXCEPT !.pc = "notify"]],
           DOMAIN batches' = DOMAIN batches,
           \A m \in DOMAIN batches : batches'[m].results = batches[m].results,
           \A r \in Resources \ DOMAIN ResultsOf(w) : status'[r] = status[r],
           hazards'.overlapped = hazards.overlapped
    PROVE  AnalysisInv'
<1>1. \A v \in Analyzers : analyzer[v] \in AnalyzerRecords
  BY DEF TypeInv, AnalyzersOK
<1>2. /\ \A v \in Analyzers \ {w} : analyzer'[v] = analyzer[v]
      /\ \/ analyzer'[w] = IdleAnalyzer
         \/ analyzer[w].todo = {} /\ analyzer'[w] = [analyzer[w] EXCEPT !.pc = "notify"]
  BY DEF TypeInv, AnalyzersOK
<1>3. /\ analyzer'[w].pc \in {"idle", "notify"}
      /\ analyzer'[w].pc = "notify" =>
            /\ analyzer'[w].batch = analyzer[w].batch
            /\ analyzer'[w].todo = {} /\ analyzer[w].todo = {}
            /\ analyzer'[w].notes = analyzer[w].notes
  BY <1>1, <1>2 DEF IdleAnalyzer, AnalyzerRecords
<1>4. ASSUME NEW v \in Analyzers, Working(v)'
      PROVE  Working(v) /\ ResultsOf(v)' = ResultsOf(v) /\ Asked(v)' = Asked(v)
               /\ analyzer'[v].todo = analyzer[v].todo
  <2>1. Working(v) /\ analyzer'[v].batch = analyzer[v].batch /\ analyzer'[v].notes = analyzer[v].notes
        /\ analyzer'[v].todo = analyzer[v].todo
    BY Zenon, <1>2, <1>3, <1>4 DEF Working
  <2>2. analyzer[v].batch \in DOMAIN batches
    BY <2>1 DEF TypeInv, AnalyzersOK, Working
  <2> QED
    BY <2>1, <2>2 DEF ResultsOf, Asked
<1>5. SuppressionsSeen'
  BY DEF AnalysisInv, SuppressionsSeen, users
<1>6. OverlapSeen'
  BY <1>4 DEF AnalysisInv, OverlapSeen
<1>7. AllAsked'
  <2> SUFFICES ASSUME NEW v \in Analyzers, Working(v)'
               PROVE  /\ Failing(ResultsOf(v)') \ suppressions'[1] \subseteq analyzer'[v].todo \cup Asked(v)'
                      /\ analyzer'[v].pc # "check" => analyzer'[v].todo = {}
                      /\ analyzer'[v].todo \cup Asked(v)' \subseteq DOMAIN ResultsOf(v)'
    BY DEF AllAsked, Failing
  <2>1. suppressions' = suppressions
    BY DEF users
  <2>2. analyzer'[v].pc # "check" => analyzer'[v].todo = {}
    BY <1>2, <1>3, <1>4 DEF AnalysisInv, AllAsked, Working
  <2> QED
    BY <1>4, <2>1, <2>2 DEF AnalysisInv, AllAsked
<1>8. KnownFailing'
  <2> SUFFICES ASSUME NEW v \in Analyzers, analyzer'[v].pc \in {"check", "set"},
                      NEW n \in analyzer'[v].notes, ~n.shouldAlert,
                      n.resource \notin hazards'.overlapped
               PROVE  status'[n.resource] = "FAIL"
    BY DEF KnownFailing
  <2>1. v # w /\ analyzer'[v] = analyzer[v] /\ Working(v)
    BY <1>2, <1>3 DEF Working
  <2>2. n \in analyzer[v].notes /\ n \in Notes
    BY <1>1, <2>1 DEF AnalyzerRecords
  <2>3. n.resource \in DOMAIN ResultsOf(v) /\ n.resource \in Resources
    BY <2>1, <2>2 DEF AnalysisInv, AllAsked, Asked, Notes
  <2>4. n.resource \notin DOMAIN ResultsOf(w)
    BY <2>1, <2>3 DEF AnalysisInv, OverlapSeen
  <2>5. status[n.resource] = "FAIL"
    BY <2>1, <2>2 DEF AnalysisInv, KnownFailing
  <2> QED
    BY <2>3, <2>4, <2>5
<1> QED
  BY <1>5, <1>6, <1>7, <1>8 DEF AnalysisInv

\* An analyzer starts on a batch: the resources it shares with the others are
\* recorded, the failing ones are to be looked up.
LEMMA AnalysisOnAnalyze ==
    ASSUME TypeInv, AnalysisInv, NEW w \in Analyzers, NEW m \in DOMAIN batches, Analyze(w, m)
    PROVE  AnalysisInv'
<1> DEFINE results == batches[m].results
           todo == Failing(results) \ suppressed
           others == UNION {DOMAIN ResultsOf(v) : v \in {u \in Analyzers : analyzer[u].pc # "idle"}}
           u == [pc |-> IF todo = {} THEN "set" ELSE "check", batch |-> m, todo |-> todo, notes |-> {}]
<1>1. /\ analyzer[w].pc = "idle" /\ batches[m].state = "queued" /\ batches' = Take(batches, m)
      /\ analyzer' = [analyzer EXCEPT ![w] = u]
      /\ hazards' = [hazards EXCEPT !.overlapped = @ \cup (DOMAIN results \cap others)]
      /\ UNCHANGED <<users, status>>
  BY DEF Analyze
<1>2. /\ u.batch = m /\ u.todo = todo /\ u.notes = {} /\ u.pc \in {"set", "check"}
      /\ (u.pc # "check" => todo = {})
  BY SMTT(30)
<1> HIDE DEF u
<1>3. analyzer'[w] = u /\ \A v \in Analyzers \ {w} : analyzer'[v] = analyzer[v]
  BY <1>1 DEF TypeInv, AnalyzersOK
<1>4. DOMAIN batches' = DOMAIN batches /\ \A k \in DOMAIN batches : batches'[k].results = batches[k].results
  BY <1>1, BatchTaken DEF TypeInv, BatchesOK, Bounded, SameBatches
<1>5. hazards'.overlapped = hazards.overlapped \cup (DOMAIN results \cap others)
  BY Zenon, <1>1 DEF TypeInv, StatusOK
<1>6. ResultsOf(w)' = results /\ Asked(w)' = {}
  BY SMTT(30), SMTT(60), <1>2, <1>3, <1>4 DEF ResultsOf, Asked
<1>7. ASSUME NEW v \in Analyzers \ {w}, Working(v)'
      PROVE  Working(v) /\ ResultsOf(v)' = ResultsOf(v) /\ Asked(v)' = Asked(v)
               /\ DOMAIN ResultsOf(v) \subseteq others
  <2>1. Working(v)
    BY Zenon, <1>3, <1>7 DEF Working
  <2>2. analyzer[v].batch \in DOMAIN batches
    BY SMTT(30), SMTT(60), <2>1 DEF TypeInv, AnalyzersOK, Working
  <2>3. ResultsOf(v)' = ResultsOf(v) /\ Asked(v)' = Asked(v)
    BY <1>3, <1>4, <2>2 DEF ResultsOf, Asked
  <2>4. DOMAIN ResultsOf(v) \subseteq others
    BY <2>1 DEF Working
  <2> QED
    BY Zenon, <2>1, <2>3, <2>4
<1>8. SuppressionsSeen'
  BY <1>1 DEF AnalysisInv, SuppressionsSeen, users
<1> HIDE DEF others
<1>9. OverlapSeen'
  BY Zenon, <1>5, <1>6, <1>7 DEF AnalysisInv, OverlapSeen
<1>10. AllAsked'
  <2> SUFFICES ASSUME NEW v \in Analyzers, Working(v)'
               PROVE  /\ Failing(ResultsOf(v)') \ suppressions'[1] \subseteq analyzer'[v].todo \cup Asked(v)'
                      /\ analyzer'[v].pc # "check" => analyzer'[v].todo = {}
                      /\ analyzer'[v].todo \cup Asked(v)' \subseteq DOMAIN ResultsOf(v)'
    BY SMTT(30) DEF AllAsked, Failing
  <2>1. CASE v = w
    <3>1. Failing(results) \ suppressions[1] \subseteq todo /\ todo \subseteq DOMAIN results
      BY DEF AnalysisInv, SuppressionsSeen, Failing
    <3> QED
      BY Zenon, <1>1, <1>2, <1>3, <1>6, <2>1, <3>1 DEF users
  <2>2. CASE v # w
    BY <1>1, <1>3, <1>7, <2>2 DEF AnalysisInv, AllAsked, users
  <2> QED
    BY Zenon, <2>1, <2>2
<1>11. KnownFailing'
  BY <1>1, <1>2, <1>3, <1>5 DEF AnalysisInv, KnownFailing
<1> QED
  BY <1>8, <1>9, <1>10, <1>11 DEF AnalysisInv

\* A status is looked up: it is FAIL, or an alert is asked for.
LEMMA AnalysisOnCheck ==
    ASSUME TypeInv, AnalysisInv, NEW w \in Analyzers, NEW r \in Resources, CheckStatus(w, r)
    PROVE  AnalysisInv'
<1> DEFINE note == [resource |-> r, shouldAlert |-> status[r] # "FAIL"]
           u == [analyzer[w] EXCEPT !.todo = @ \ {r}, !.notes = @ \cup {note},
                                    !.pc = IF analyzer[w].todo = {r} THEN "set" ELSE "check"]
<1>1. /\ analyzer[w].pc = "check" /\ r \in analyzer[w].todo
      /\ analyzer' = [analyzer EXCEPT ![w] = u] /\ UNCHANGED <<users, status, batches, hazards>>
  BY Zenon DEF CheckStatus
<1>2. analyzer[w] \in AnalyzerRecords
  BY DEF TypeInv, AnalyzersOK
<1>3. /\ u.batch = analyzer[w].batch /\ u.todo = analyzer[w].todo \ {r}
      /\ u.notes = analyzer[w].notes \cup {note}
      /\ u.pc \in {"set", "check"} /\ (u.pc # "check" => u.todo = {})
  BY <1>2 DEF AnalyzerRecords
<1>4. note.resource = r /\ (~note.shouldAlert => status[r] = "FAIL")
  BY Zenon
<1> HIDE DEF u, note
<1>5. analyzer'[w] = u /\ \A v \in Analyzers \ {w} : analyzer'[v] = analyzer[v]
  BY Zenon, <1>1 DEF TypeInv, AnalyzersOK
<1>6. /\ ResultsOf(w)' = ResultsOf(w) /\ Asked(w)' = Asked(w) \cup {r} /\ Working(w)
  BY SMTT(30), SMTT(60), <1>1, <1>3, <1>4, <1>5 DEF ResultsOf, Asked, Working
<1>7. \A v \in Analyzers \ {w} : ResultsOf(v)' = ResultsOf(v) /\ Asked(v)' = Asked(v)
                                   /\ (Working(v)' <=> Working(v))
  BY SMTT(30), SMTT(60), <1>1, <1>5 DEF ResultsOf, Asked, Working
<1>8. SuppressionsSeen'
  BY Zenon, <1>1 DEF AnalysisInv, SuppressionsSeen, users
<1>9. OverlapSeen'
  BY Zenon, <1>1, <1>6, <1>7 DEF AnalysisInv, OverlapSeen
<1>10. AllAsked'
  <2> SUFFICES ASSUME NEW v \in Analyzers, Working(v)'
               PROVE  /\ Failing(ResultsOf(v)') \ suppressions'[1] \subseteq analyzer'[v].todo \cup Asked(v)'
                      /\ analyzer'[v].pc # "check" => analyzer'[v].todo = {}
                      /\ analyzer'[v].todo \cup Asked(v)' \subseteq DOMAIN ResultsOf(v)'
    BY Zenon DEF AllAsked, Failing
  <2>1. CASE v = w
    <3>1. /\ Failing(ResultsOf(w)) \ suppressions[1] \subseteq analyzer[w].todo \cup Asked(w)
          /\ analyzer[w].todo \cup Asked(w) \subseteq DOMAIN ResultsOf(w)
      BY Zenon, <1>6 DEF AnalysisInv, AllAsked
    <3> QED
      BY Zenon, <1>1, <1>3, <1>5, <1>6, <2>1, <3>1 DEF users
  <2>2. CASE v # w
    BY Zenon, <1>1, <1>5, <1>7, <2>2 DEF AnalysisInv, AllAsked, users
  <2> QED
    BY Zenon, <2>1, <2>2
<1>11. KnownFailing'
  BY SMTT(30), <1>1, <1>3, <1>4, <1>5 DEF AnalysisInv, KnownFailing
<1> QED
  BY <1>8, <1>9, <1>10, <1>11 DEF AnalysisInv

\* What SetStatus writes.
LEMMA AnalysisOnSet ==
    ASSUME TypeInv, AnalysisInv, NEW w \in Analyzers, SetStatus(w)
    PROVE  AnalysisInv'
<1>1. /\ Working(w) /\ UNCHANGED <<users, hazards>> /\ analyzer[w].batch \in DOMAIN batches
      /\ analyzer[w].pc = "set"
      /\ \A r \in Resources \ DOMAIN ResultsOf(w) : status'[r] = status[r]
  BY Zenon DEF SetStatus, Working, TypeInv, AnalyzersOK
<1>2. analyzer[w].todo = {}
  BY SMTT(30), SMTT(60), <1>1 DEF AnalysisInv, AllAsked
<1>3. \/ analyzer' = [analyzer EXCEPT ![w] = IdleAnalyzer]
      \/ analyzer' = [analyzer EXCEPT ![w] = [@ EXCEPT !.pc = "notify"]]
  BY Zenon DEF SetStatus
<1>4. /\ DOMAIN batches' = DOMAIN batches
      /\ \A m \in DOMAIN batches : batches'[m].results = batches[m].results
  <2>1. /\ batches \in Seq(BatchRecords)
        /\ batches' = batches \/ batches' = Delete(batches, analyzer[w].batch)
    BY Zenon DEF SetStatus, TypeInv, BatchesOK
  <2>2. batches' = batches \/ SameBatches(batches, batches', analyzer[w].batch)
    BY Zenon, <1>1, <2>1, BatchDeleted
  <2> QED
    BY Zenon, <2>2 DEF SameBatches
<1> QED
  BY Zenon, <1>1, <1>2, <1>3, <1>4, AnalyzerLeaves

\* The analyzer has sent its notifications and stops.
LEMMA AnalysisOnNotify ==
    ASSUME TypeInv, AnalysisInv, NEW w \in Analyzers, Notify(w)
    PROVE  AnalysisInv'
<1>1. /\ Working(w) /\ UNCHANGED <<users, hazards, status>> /\ analyzer[w].batch \in DOMAIN batches
      /\ analyzer' = [analyzer EXCEPT ![w] = IdleAnalyzer]
  BY Zenon DEF Notify, Working, TypeInv, AnalyzersOK
<1>2. /\ DOMAIN batches' = DOMAIN batches
      /\ \A m \in DOMAIN batches : batches'[m].results = batches[m].results
  <2>1. batches \in Seq(BatchRecords) /\ batches' = Delete(batches, analyzer[w].batch)
    BY Zenon DEF Notify, TypeInv, BatchesOK
  <2>2. SameBatches(batches, batches', analyzer[w].batch)
    BY Zenon, <1>1, <2>1, BatchDeleted
  <2> QED
    BY Zenon, <2>2 DEF SameBatches
<1> QED
  BY Zenon, <1>1, <1>2, AnalyzerLeaves

\* The analyzer fails and stops, after some writes of its own resources.
LEMMA AnalysisOnFailure ==
    ASSUME TypeInv, AnalysisInv, NEW w \in Analyzers, NEW written \in SUBSET Resources, NEW sent,
           written \subseteq DOMAIN ResultsOf(w), AnalyzerFails(w, written, sent)
    PROVE  AnalysisInv'
<1>1. /\ Working(w) /\ UNCHANGED users /\ analyzer[w].batch \in DOMAIN batches
      /\ analyzer' = [analyzer EXCEPT ![w] = IdleAnalyzer]
      /\ \A r \in Resources \ DOMAIN ResultsOf(w) : status'[r] = status[r]
  BY DEF AnalyzerFails, Working, TypeInv, AnalyzersOK
<1>2. hazards'.overlapped = hazards.overlapped
  BY DEF AnalyzerFails, TypeInv, StatusOK
<1>3. /\ DOMAIN batches' = DOMAIN batches
      /\ \A m \in DOMAIN batches : batches'[m].results = batches[m].results
  BY <1>1, BatchGivenBack DEF AnalyzerFails, TypeInv, BatchesOK, SameBatches
<1> QED
  BY Zenon, <1>1, <1>2, <1>3, AnalyzerLeaves

\* New batches, new suppressions.
LEMMA AnalysisOnUsers ==
    ASSUME TypeInv, AnalysisInv, UNCHANGED <<analyzer, status, hazards>>,
           DOMAIN batches \subseteq DOMAIN batches',
           \A m \in DOMAIN batches : batches'[m].results = batches[m].results,
           suppressions[1] \subseteq suppressions'[1], suppressed' \subseteq suppressions'[1]
    PROVE  AnalysisInv'
<1>1. \A w \in Analyzers : /\ Asked(w)' = Asked(w) /\ (Working(w)' <=> Working(w))
                           /\ (Working(w) => ResultsOf(w)' = ResultsOf(w))
  BY SMTT(30) DEF Asked, Working, ResultsOf, TypeInv, AnalyzersOK
<1>2. SuppressionsSeen' /\ KnownFailing'
  BY Zenon DEF AnalysisInv, SuppressionsSeen, KnownFailing
<1>3. OverlapSeen'
  BY Zenon, <1>1 DEF AnalysisInv, OverlapSeen
<1>4. AllAsked'
  <2> SUFFICES ASSUME NEW v \in Analyzers, Working(v)'
               PROVE  /\ Failing(ResultsOf(v)') \ suppressions'[1] \subseteq analyzer'[v].todo \cup Asked(v)'
                      /\ analyzer'[v].pc # "check" => analyzer'[v].todo = {}
                      /\ analyzer'[v].todo \cup Asked(v)' \subseteq DOMAIN ResultsOf(v)'
    BY Zenon DEF AllAsked, Failing
  <2> QED
    BY Zenon, <1>1 DEF AnalysisInv, AllAsked
<1> QED
  BY Zenon, <1>2, <1>3, <1>4 DEF AnalysisInv

\* Every step keeps the analyzers' side.
LEMMA AnalysisStep ==
    ASSUME TypeInv, AnalysisInv, [Next]_vars
    PROVE  AnalysisInv'
<1>1. ASSUME UNCHANGED <<users, analysis>> PROVE AnalysisInv'
  BY Zenon, <1>1, AnalysisOnUsers DEF users, analysis, AnalysisInv, SuppressionsSeen
<1>2. ASSUME NEW results \in Results, Change(results) PROVE AnalysisInv'
  <2> DEFINE e == [results |-> results, state |-> "queued", receives |-> 0]
  <2>1. batches' = Append(batches, e) /\ UNCHANGED <<users, status, analyzer, hazards>>
    BY <1>2 DEF Change
  <2> HIDE DEF e
  <2>2. /\ DOMAIN batches \subseteq DOMAIN batches'
        /\ \A m \in DOMAIN batches : batches'[m].results = batches[m].results
    BY <2>1, AppendOne DEF TypeInv, BatchesOK
  <2> QED
    BY Zenon, <2>1, <2>2, AnalysisOnUsers DEF users, AnalysisInv, SuppressionsSeen
<1>3. ASSUME NEW r \in Resources, ChangeSuppression(r) PROVE AnalysisInv'
  <2>1. /\ suppressions'[1] = suppressions[1] \cup {r}
        /\ suppressed' \subseteq suppressed \cup {r} /\ UNCHANGED analysis
    BY Zenon, <1>3 DEF ChangeSuppression
  <2> QED
    BY Zenon, <2>1, AnalysisOnUsers DEF analysis, AnalysisInv, SuppressionsSeen
<1>4. ASSUME NEW w \in Analyzers,
             \/ \E m \in DOMAIN batches : Analyze(w, m)
             \/ Advance(w)
             \/ \E sent \in SUBSET analyzer[w].notes, written \in SUBSET Resources :
                   analyzer[w].pc # "idle" /\ written \subseteq DOMAIN ResultsOf(w)
                     /\ AnalyzerFails(w, written, sent)
      PROVE  AnalysisInv'
  <2>1. CASE Advance(w)
    BY Zenon, <2>1, AnalysisOnCheck, AnalysisOnSet, AnalysisOnNotify DEF Advance
  <2> QED
    BY Zenon, <1>4, <2>1, AnalysisOnAnalyze, AnalysisOnFailure
<1>5. ASSUME NEW p \in Reporters,
             \/ \E n \in DOMAIN notes : TakeNote(p, n)
             \/ Report(p)
             \/ \E accepted \in BOOLEAN : ReporterFails(p, accepted)
      PROVE  UNCHANGED <<users, analysis>>
  BY <1>5 DEF TakeNote, Report, CheckFailing, TriggerAlert, AlertSuppressed, TriggerRemediation,
              ReporterFails
<1>6. CASE ExpireRow \/ Forward \/ FinishForwarding \/ ForwarderFails \/ Tick \/ UNCHANGED vars
  <2>1. UNCHANGED <<users, analysis>>
    BY <1>6 DEF ExpireRow, Forward, FinishForwarding, ForwarderFails, Tick, vars, users, analysis
  <2> QED
    BY <1>1, <2>1
<1> QED
  BY Zenon, <1>1, <1>2, <1>3, <1>4, <1>5, <1>6 DEF Next

\* An alert is never taken back.
LEMMA AlertedStays ==
    ASSUME TypeInv, Alerted, stream' = stream \/ \E e : stream' = Append(stream, e)
    PROVE  Alerted'
<1>1. CASE stream' = stream
  BY <1>1 DEF Alerted, IsAlert
<1>2. ASSUME NEW e, stream' = Append(stream, e) PROVE Alerted'
  <2>1. DOMAIN stream \subseteq DOMAIN stream' /\ \A i \in DOMAIN stream : stream'[i] = stream[i]
    BY <1>2, AppendOne DEF TypeInv, TableOK
  <2> QED
    BY <2>1 DEF Alerted, IsAlert
<1> QED
  BY <1>1, <1>2

\* Steps that leave the statuses alone and what is pending at least as it was.
LEMMA PendingQuiet ==
    ASSUME TypeInv, PendingInv, UNCHANGED <<status, reporter>>, Excused \subseteq Excused',
           stream' = stream \/ \E e : stream' = Append(stream, e),
           DOMAIN notes \subseteq DOMAIN notes', \A n \in DOMAIN notes : notes'[n] = notes[n],
           \A w \in Analyzers : analyzer[w].pc = "notify" => analyzer'[w] = analyzer[w]
    PROVE  PendingInv'
<1>1. \A r \in Resources : Evidence(r) => Evidence(r)'
  BY Zenon, AlertedStays DEF Evidence
<1>2. FailingPending'
  BY Zenon, <1>1 DEF PendingInv, FailingPending
<1>3. RemediateAlerted'
  BY AlertedStays DEF PendingInv, RemediateAlerted
<1> QED
  BY <1>2, <1>3 DEF PendingInv

\* The analyzer stores its results: what fails was asked for, or failed before.
LEMMA PendingOnSet ==
    ASSUME TypeInv, AnalysisInv, PendingInv, NEW w \in Analyzers, SetStatus(w)
    PROVE  PendingInv'
<1> DEFINE results == ResultsOf(w)
           empty == analyzer[w].notes = {}
<1>1. /\ analyzer[w].pc = "set" /\ Working(w)
      /\ \A r \in Resources : status'[r] = IF r \in DOMAIN results THEN results[r] ELSE status[r]
      /\ analyzer' = [analyzer EXCEPT ![w] = IF empty THEN IdleAnalyzer ELSE [@ EXCEPT !.pc = "notify"]]
      /\ UNCHANGED <<users, hazards, notes, alerting, stream>>
  BY DEF SetStatus, Working
<1>2. analyzer \in [Analyzers -> AnalyzerRecords] /\ analyzer[w] \in AnalyzerRecords
  BY DEF TypeInv, AnalyzersOK
<1>3. /\ \A v \in Analyzers \ {w} : analyzer'[v] = analyzer[v]
      /\ ~empty => analyzer'[w].pc = "notify" /\ analyzer'[w].notes = analyzer[w].notes
  BY <1>1, <1>2 DEF AnalyzerRecords
<1>4. ASSUME NEW r \in Resources, Evidence(r)
      PROVE  Evidence(r)'
  <2>1. \A v \in Analyzers : analyzer[v].pc = "notify" => v # w
    BY <1>1
  <2> QED
    BY Zenon, <1>1, <1>3, <1>4, <2>1 DEF Evidence, Alerted, IsAlert
<1>5. ASSUME NEW r \in Resources \ Excused, status'[r] = "FAIL"
      PROVE  Evidence(r)'
  <2>1. CASE r \notin DOMAIN results
    BY Zenon, <1>1, <1>4, <1>5, <2>1 DEF PendingInv, FailingPending
  <2>2. CASE r \in DOMAIN results
    <3>1. r \in Failing(results) \ suppressions[1]
      BY <1>1, <1>5, <2>2 DEF Failing, Excused
    <3>2. r \in Asked(w)
      BY <1>1, <3>1 DEF AnalysisInv, AllAsked
    <3>3. PICK n \in analyzer[w].notes : n.resource = r
      BY <3>2 DEF Asked
    <3>4. n \in Notes
      BY <1>2 DEF AnalyzerRecords
    <3>5. CASE n.shouldAlert
      <4>1. n = [resource |-> r, shouldAlert |-> TRUE]
        BY Zenon, <3>3, <3>4, <3>5 DEF Notes
      <4>2. analyzer'[w].pc = "notify" /\ n \in analyzer'[w].notes
        BY Zenon, <1>3, <3>3
      <4> QED
        BY Zenon, <4>1, <4>2 DEF Evidence
    <3>6. CASE ~n.shouldAlert
      <4>1. status[r] = "FAIL"
        BY <1>1, <1>5, <3>3, <3>6 DEF AnalysisInv, KnownFailing, Excused
      <4> QED
        BY SMTT(30), <1>4, <4>1 DEF PendingInv, FailingPending
    <3> QED
      BY <3>5, <3>6
  <2> QED
    BY <2>1, <2>2
<1>6. Excused' = Excused
  BY <1>1 DEF Excused, users
<1>7. FailingPending'
  BY <1>5, <1>6 DEF FailingPending
<1>8. RemediateAlerted'
  BY <1>1 DEF PendingInv, RemediateAlerted, Alerted, IsAlert, alerting
<1> QED
  BY <1>7, <1>8 DEF PendingInv

\* The notifications are sent: those of an alert are now on their way.
LEMMA PendingOnNotify ==
    ASSUME TypeInv, PendingInv, NEW w \in Analyzers, Notify(w)
    PROVE  PendingInv'
<1>1. /\ notes' \in Sent(analyzer[w].notes) /\ analyzer' = [analyzer EXCEPT ![w] = IdleAnalyzer]
      /\ UNCHANGED <<users, status, hazards, alerting, stream>>
  BY DEF Notify
<1>2. analyzer[w] \in AnalyzerRecords /\ IsFiniteSet(analyzer[w].notes)
  BY DEF TypeInv, AnalyzersOK
<1>3. analyzer[w].notes \in SUBSET Notes
  BY Zenon, <1>2 DEF AnalyzerRecords
<1>4. /\ DOMAIN notes \subseteq DOMAIN notes' /\ \A k \in DOMAIN notes : notes'[k] = notes[k]
      /\ \A n \in analyzer[w].notes : \E k \in DOMAIN notes' :
            notes'[k].resource = n.resource /\ notes'[k].shouldAlert = n.shouldAlert
              /\ notes'[k].state = "queued"
  BY Zenon, <1>1, <1>2, <1>3, SentNotes DEF TypeInv, NotesOK
<1>5. \A v \in Analyzers \ {w} : analyzer'[v] = analyzer[v]
  BY SMTT(30), SMTT(60), <1>1 DEF TypeInv, AnalyzersOK
<1>6. ASSUME NEW r \in Resources, Evidence(r)
      PROVE  Evidence(r)'
  <2>1. CASE Alerted
    BY Zenon, <1>1, <2>1 DEF Evidence, Alerted, IsAlert
  <2>2. CASE \E n \in DOMAIN notes : notes[n].resource = r /\ notes[n].shouldAlert /\ notes[n].state # "done"
    BY SMTT(30), SMTT(60), <1>4, <2>2 DEF Evidence
  <2>3. ASSUME NEW v \in Analyzers, analyzer[v].pc = "notify",
               [resource |-> r, shouldAlert |-> TRUE] \in analyzer[v].notes
        PROVE  Evidence(r)'
    <3>1. CASE v = w
      <4>1. PICK k \in DOMAIN notes' : notes'[k].resource = r /\ notes'[k].shouldAlert = TRUE
                                         /\ notes'[k].state = "queued"
        BY SMTT(30), <1>4, <2>3, <3>1
      <4> QED
        BY Zenon, <4>1 DEF Evidence
    <3>2. CASE v # w
      BY Zenon, <1>5, <2>3, <3>2 DEF Evidence
    <3> QED
      BY <3>1, <3>2
  <2> QED
    BY Zenon, <1>6, <2>1, <2>2, <2>3 DEF Evidence
<1>7. FailingPending'
  BY Zenon, <1>1, <1>6 DEF PendingInv, FailingPending, Excused, users
<1>8. RemediateAlerted'
  BY <1>1 DEF PendingInv, RemediateAlerted, Alerted, IsAlert, alerting
<1> QED
  BY <1>7, <1>8 DEF PendingInv

\* The analyzer fails: what it wrote and did not ask for, or did not send, is
\* half done, the rest of its alerts is on its way.
LEMMA PendingOnFailure ==
    ASSUME TypeInv, AnalysisInv, PendingInv, NEW w \in Analyzers,
           NEW sent \in SUBSET analyzer[w].notes, NEW written \in SUBSET Resources,
           written \subseteq DOMAIN ResultsOf(w), AnalyzerFails(w, written, sent)
    PROVE  PendingInv'
<1> DEFINE asked == {n.resource : n \in analyzer[w].notes}
           dropped == {n.resource : n \in analyzer[w].notes \ sent}
<1>1. /\ Working(w) /\ (analyzer[w].pc # "set" => written = {})
      /\ \A r \in Resources : status'[r] = IF r \in written THEN ResultsOf(w)[r] ELSE status[r]
      /\ notes' \in Sent(sent) /\ analyzer' = [analyzer EXCEPT ![w] = IdleAnalyzer]
      /\ UNCHANGED <<users, alerting, stream>>
  BY DEF AnalyzerFails, Working
<1>2. /\ hazards'.overlapped = hazards.overlapped
      /\ hazards.halfDone \cup (written \cap asked) \subseteq hazards'.halfDone
      /\ analyzer[w].pc = "notify" => dropped \subseteq hazards'.halfDone
  BY DEF AnalyzerFails, TypeInv, StatusOK
<1>3. analyzer[w] \in AnalyzerRecords /\ IsFiniteSet(analyzer[w].notes)
  BY Zenon DEF TypeInv, AnalyzersOK
<1>4. sent \in SUBSET Notes /\ IsFiniteSet(sent)
  BY SMTT(30), <1>3, FS_Subset DEF AnalyzerRecords
<1>5. /\ DOMAIN notes \subseteq DOMAIN notes' /\ \A k \in DOMAIN notes : notes'[k] = notes[k]
      /\ \A n \in sent : \E k \in DOMAIN notes' :
            notes'[k].resource = n.resource /\ notes'[k].shouldAlert = n.shouldAlert
              /\ notes'[k].state = "queued"
  BY Zenon, <1>1, <1>4, SentNotes DEF TypeInv, NotesOK
<1>6. \A v \in Analyzers \ {w} : analyzer'[v] = analyzer[v]
  BY Zenon, <1>1 DEF TypeInv, AnalyzersOK
<1>7. Excused \subseteq Excused' /\ written \cap asked \subseteq Excused'
      /\ (analyzer[w].pc = "notify" => dropped \subseteq Excused')
  BY Zenon, <1>1, <1>2 DEF Excused, users
<1>8. ASSUME NEW r \in Resources \ Excused', Evidence(r)
      PROVE  Evidence(r)'
  <2>1. CASE Alerted
    BY Zenon, <1>1, <2>1 DEF Evidence, Alerted, IsAlert
  <2>2. CASE \E n \in DOMAIN notes : notes[n].resource = r /\ notes[n].shouldAlert /\ notes[n].state # "done"
    BY Zenon, <1>5, <2>2 DEF Evidence
  <2>3. ASSUME NEW v \in Analyzers, analyzer[v].pc = "notify",
               [resource |-> r, shouldAlert |-> TRUE] \in analyzer[v].notes
        PROVE  Evidence(r)'
    <3>1. CASE v = w
      <4>1. [resource |-> r, shouldAlert |-> TRUE] \in sent
        BY SMTT(30), SMTT(60), <1>7, <1>8, <2>3, <3>1
      <4>2. PICK k \in DOMAIN notes' : notes'[k].resource = r /\ notes'[k].shouldAlert = TRUE
                                         /\ notes'[k].state = "queued"
        BY SMTT(30), SMTT(60), <1>5, <4>1
      <4> QED
        BY Zenon, <4>2 DEF Evidence
    <3>2. CASE v # w
      BY Zenon, <1>6, <2>3, <3>2 DEF Evidence
    <3> QED
      BY Zenon, <3>1, <3>2
  <2> QED
    BY Zenon, <1>8, <2>1, <2>2, <2>3 DEF Evidence
<1>9. ASSUME NEW r \in Resources \ Excused', status'[r] = "FAIL"
      PROVE  r \notin written
  <2>1. SUFFICES ASSUME r \in written PROVE FALSE
    BY Zenon
  <2>2. r \notin Excused
    BY Zenon, <1>7, <1>9
  <2>3. analyzer[w].pc = "set" /\ r \in DOMAIN ResultsOf(w) /\ status'[r] = ResultsOf(w)[r]
    BY Zenon, <1>1, <2>1
  <2>4. r \in Failing(ResultsOf(w))
    BY Zenon, <1>9, <2>3 DEF Failing
  <2>5. r \in Asked(w)
    BY Zenon, <1>1, <2>2, <2>3, <2>4 DEF AnalysisInv, AllAsked, Excused
  <2> QED
    BY Zenon, <1>7, <1>9, <2>1, <2>5 DEF Asked
<1>10. FailingPending'
  BY Zenon, <1>1, <1>7, <1>8, <1>9 DEF PendingInv, FailingPending
<1>11. RemediateAlerted'
  BY Zenon, <1>1 DEF PendingInv, RemediateAlerted, Alerted, IsAlert, alerting
<1> QED
  BY <1>10, <1>11 DEF PendingInv

\* A reporter has a notification in hand: as long as it is not done it stays
\* evidence, and it is done without an alert only when it is void or an alert
\* exists.
LEMMA PendingOnNote ==
    ASSUME TypeInv, PendingInv, NEW m \in DOMAIN notes, SameNotes(notes, notes', m),
           UNCHANGED <<users, analysis, stream>>,
           notes'[m].state # "done" \/ Alerted
             \/ ~(status[notes[m].resource] = "FAIL" /\ notes[m].shouldAlert)
    PROVE  FailingPending'
<1>1. /\ DOMAIN notes' = DOMAIN notes
      /\ \A k \in DOMAIN notes : /\ notes'[k].resource = notes[k].resource
                                 /\ notes'[k].shouldAlert = notes[k].shouldAlert
                                 /\ (k # m => notes'[k] = notes[k])
  BY Zenon DEF SameNotes
<1>2. /\ status' = status /\ analyzer' = analyzer /\ Excused' = Excused /\ (Alerted' <=> Alerted)
  BY SMTT(30), SMTT(60) DEF users, analysis, Excused, Alerted, IsAlert
<1>3. ASSUME NEW r \in Resources, status[r] = "FAIL", Evidence(r)
      PROVE  Evidence(r)'
  <2>1. CASE Alerted
    BY Zenon, <1>2, <2>1 DEF Evidence
  <2>2. ASSUME NEW n \in DOMAIN notes, notes[n].resource = r, notes[n].shouldAlert,
               notes[n].state # "done", ~Alerted
        PROVE  Evidence(r)'
    BY SMTT(30), SMTT(60), <1>1, <1>3, <2>2 DEF Evidence
  <2>3. CASE \E w \in Analyzers : analyzer[w].pc = "notify"
                              /\ [resource |-> r, shouldAlert |-> TRUE] \in analyzer[w].notes
    BY Zenon, <1>2, <2>3 DEF Evidence
  <2> QED
    BY Zenon, <1>3, <2>1, <2>2, <2>3 DEF Evidence
<1> QED
  BY Zenon, <1>2, <1>3 DEF PendingInv, FailingPending

\* The steps of alert_processor keep the evidence: a notification is dropped
\* only when it is void or an alert exists.
LEMMA PendingOnReporter ==
    ASSUME TypeInv, PendingInv, NEW p \in Reporters,
           \/ \E n \in DOMAIN notes : TakeNote(p, n)
           \/ Report(p)
           \/ \E accepted \in BOOLEAN : ReporterFails(p, accepted)
    PROVE  PendingInv'
<1>0. notes \in Seq(NoteRecords) /\ reporter \in [Reporters -> ReporterRecords]
      /\ (reporter[p].pc # "idle" => reporter[p].note \in DOMAIN notes)
  BY SMTT(30) DEF TypeInv, NotesOK, ReportersOK
<1>1. IdleReporter.pc # "remediate"
  BY SMTT(30), SMTT(60) DEF IdleReporter
<1>2. ASSUME NEW u, u.pc # "remediate" \/ Alerted', Alerted => Alerted',
             reporter' = [reporter EXCEPT ![p] = u]
      PROVE  RemediateAlerted'
  BY SMTT(30), SMTT(60), <1>0, <1>2 DEF PendingInv, RemediateAlerted
<1>3. stream' = stream => (Alerted' <=> Alerted)
  BY DEF Alerted, IsAlert
<1>4. ASSUME NEW n \in DOMAIN notes, TakeNote(p, n) PROVE PendingInv'
  <2>1. notes[n].receives < MaxReceives
    BY Zenon, <1>4 DEF TakeNote, TypeInv, NotesOK, Bounded
  <2>2. FailingPending'
    BY Zenon, <1>0, <1>4, <2>1, NoteTaken, PendingOnNote DEF TakeNote
  <2>3. RemediateAlerted'
    BY Zenon, <1>2, <1>3, <1>4 DEF TakeNote
  <2> QED
    BY <2>2, <2>3 DEF PendingInv
<1>5. ASSUME reporter[p].pc # "idle", FinishNote(p), UNCHANGED <<users, analysis, stream>>,
             Alerted \/ ~(status[NoteOf(p).resource] = "FAIL" /\ NoteOf(p).shouldAlert)
      PROVE  PendingInv'
  <2>1. FailingPending'
    BY Zenon, <1>0, <1>5, NoteDeleted, PendingOnNote DEF FinishNote, NoteOf
  <2>2. RemediateAlerted'
    BY Zenon, <1>1, <1>2, <1>3, <1>5 DEF FinishNote
  <2> QED
    BY <2>1, <2>2 DEF PendingInv
<1>6. CASE CheckFailing(p)
  <2>1. reporter[p].pc = "check" /\ UNCHANGED <<users, analysis, stream>>
    BY <1>6 DEF CheckFailing
  <2>2. CASE /\ reporter' = [reporter EXCEPT ![p].pc = "update", ![p].time = now]
             /\ UNCHANGED notes
    <3>1. FailingPending'
      BY Zenon, <2>1, <2>2, <1>3 DEF PendingInv, FailingPending, Excused, Evidence, users, analysis
    <3>2. RemediateAlerted'
      BY <1>0, <1>3, <2>1, <2>2 DEF PendingInv, RemediateAlerted, ReporterRecords
    <3> QED
      BY <3>1, <3>2 DEF PendingInv
  <2> QED
    BY <1>5, <1>6, <2>1, <2>2 DEF CheckFailing
<1>7. ASSUME NEW valid \in BOOLEAN, TriggerAlert(p, valid)
      PROVE  PendingInv'
  <2> DEFINE e == [image |-> TRUE, valid |-> valid, time |-> reporter[p].time,
                   resource |-> NoteOf(p).resource]
  <2>1. stream' = Append(stream, e) /\ e.image
    BY <1>7 DEF TriggerAlert
  <2> HIDE DEF e
  <2>2. Alerted'
    BY SMTT(30), <2>1, AppendOne DEF Alerted, IsAlert, TypeInv, TableOK
  <2> QED
    BY Zenon, <2>2 DEF PendingInv, RemediateAlerted, FailingPending, Evidence
<1>8. CASE AlertSuppressed(p)
  <2>1. Alerted
    BY Zenon, <1>8 DEF AlertSuppressed, CanAlert, TypeInv, TableOK
  <2> QED
    BY Zenon, <1>5, <1>8, <2>1 DEF AlertSuppressed
<1>9. CASE TriggerRemediation(p)
  <2>1. Alerted
    BY SMTT(30), <1>9 DEF TriggerRemediation, PendingInv, RemediateAlerted
  <2> QED
    BY Zenon, <1>5, <1>9, <2>1 DEF TriggerRemediation
<1>10. ASSUME NEW accepted \in BOOLEAN, ReporterFails(p, accepted) PROVE PendingInv'
  <2>1. FailingPending'
    BY Zenon, <1>0, <1>10, NoteGivenBack, PendingOnNote DEF ReporterFails
  <2>2. RemediateAlerted'
    BY Zenon, <1>1, <1>2, <1>3, <1>10 DEF ReporterFails
  <2> QED
    BY <2>1, <2>2 DEF PendingInv
<1> QED
  BY Zenon, <1>4, <1>6, <1>7, <1>8, <1>9, <1>10 DEF Report

\* Every step keeps the evidence of what fails.
LEMMA PendingStep ==
    ASSUME TypeInv, AnalysisInv, PendingInv, [Next]_vars
    PROVE  PendingInv'
<1>1. ASSUME NEW w \in Analyzers, NEW m \in DOMAIN batches, Analyze(w, m) PROVE PendingInv'
  <2>1. /\ analyzer[w].pc = "idle" /\ UNCHANGED <<users, status, notes, alerting, stream>>
        /\ \A v \in Analyzers \ {w} : analyzer'[v] = analyzer[v]
    BY <1>1 DEF Analyze, TypeInv, AnalyzersOK
  <2>2. Excused \subseteq Excused'
    BY Zenon, <1>1, <2>1 DEF Analyze, Excused, users, TypeInv, StatusOK
  <2> QED
    BY SMTT(30), <2>1, <2>2, PendingQuiet DEF alerting
<1>2. ASSUME NEW w \in Analyzers, NEW r \in Resources, CheckStatus(w, r) PROVE PendingInv'
  <2>1. /\ analyzer[w].pc = "check" /\ UNCHANGED <<users, hazards, status, notes, alerting, stream>>
        /\ \A v \in Analyzers \ {w} : analyzer'[v] = analyzer[v]
    BY <1>2 DEF CheckStatus, TypeInv, AnalyzersOK
  <2>2. Excused' = Excused
    BY Zenon, <2>1 DEF Excused, users
  <2> QED
    BY <2>1, <2>2, PendingQuiet DEF alerting
<1>3. ASSUME NEW w \in Analyzers,
             \/ \E m \in DOMAIN batches : Analyze(w, m)
             \/ Advance(w)
             \/ \E sent \in SUBSET analyzer[w].notes, written \in SUBSET Resources :
                   analyzer[w].pc # "idle" /\ written \subseteq DOMAIN ResultsOf(w)
                     /\ AnalyzerFails(w, written, sent)
      PROVE  PendingInv'
  <2>1. CASE Advance(w)
    BY <1>2, <2>1, PendingOnSet, PendingOnNotify DEF Advance
  <2> QED
    BY Zenon, <1>1, <1>3, <2>1, PendingOnFailure
<1>4. ASSUME NEW r \in Resources, ChangeSuppression(r) PROVE PendingInv'
  <2>1. Excused \subseteq Excused' /\ UNCHANGED <<analysis, notes, alerting, stream>>
    BY Zenon, <1>4 DEF ChangeSuppression, Excused, analysis
  <2> QED
    BY Zenon, <2>1, PendingQuiet DEF alerting, analysis
<1>5. CASE \/ \E results \in Results : Change(results)
           \/ ExpireRow \/ Forward \/ FinishForwarding \/ ForwarderFails \/ Tick \/ UNCHANGED vars
  <2>1. /\ UNCHANGED <<users, status, analyzer, hazards, notes, reporter>>
        /\ stream' = stream \/ \E e : stream' = Append(stream, e)
    BY Zenon, <1>5 DEF Change, ExpireRow, Forward, FinishForwarding, ForwarderFails, Tick, vars,
                users, analysis, alerting
  <2>2. Excused' = Excused
    BY Zenon, <2>1 DEF Excused, users
  <2> QED
    BY Zenon, <2>1, <2>2, PendingQuiet
<1> QED
  BY Zenon, <1>3, <1>4, <1>5, PendingOnReporter DEF Next

\* A working analyzer holds its batch, alone.
BatchesHeld ==
    /\ \A w \in Analyzers : Working(w) => batches[analyzer[w].batch].state = "held"
    /\ \A v, w \in Analyzers : v # w /\ Working(v) /\ Working(w) => analyzer[v].batch # analyzer[w].batch

\* A batch leaves the hands of its analyzer.
LEMMA HeldByOthers ==
    ASSUME TypeInv, BatchesHeld, NEW w \in Analyzers, Working(w),
           analyzer' = [analyzer EXCEPT ![w] = IdleAnalyzer],
           SameBatches(batches, batches', analyzer[w].batch)
    PROVE  BatchesHeld'
<1>1. /\ analyzer'[w].pc = "idle" /\ \A v \in Analyzers \ {w} : analyzer'[v] = analyzer[v]
  BY Zenon DEF TypeInv, AnalyzersOK, IdleAnalyzer
<1>2. ASSUME NEW v \in Analyzers, Working(v)'
      PROVE  v # w /\ analyzer'[v] = analyzer[v] /\ Working(v)
               /\ analyzer[v].batch \in DOMAIN batches
  BY SMTT(30), SMTT(60), <1>1, <1>2 DEF Working, TypeInv, AnalyzersOK
<1> QED
  BY SMTT(30), SMTT(60), <1>2 DEF BatchesHeld, SameBatches

\* Every step keeps a batch in the hands of one analyzer at most.
LEMMA HeldStep ==
    ASSUME TypeInv, BatchesHeld, [Next]_vars
    PROVE  BatchesHeld'
<1>0. analyzer \in [Analyzers -> AnalyzerRecords] /\ batches \in Seq(BatchRecords)
      /\ \A w \in Analyzers : Working(w) => analyzer[w].batch \in DOMAIN batches
  BY Zenon DEF TypeInv, AnalyzersOK, BatchesOK, Working
<1>1. ASSUME NEW results \in Results, Change(results) PROVE BatchesHeld'
  <2> DEFINE e == [results |-> results, state |-> "queued", receives |-> 0]
  <2>1. batches' = Append(batches, e) /\ analyzer' = analyzer
    BY Zenon, <1>1 DEF Change
  <2> HIDE DEF e
  <2>2. \A m \in DOMAIN batches : batches'[m] = batches[m]
    BY SMTT(30), <1>0, <2>1, AppendOne
  <2> QED
    BY Zenon, <1>0, <2>1, <2>2 DEF BatchesHeld, Working
<1>2. ASSUME NEW w \in Analyzers, NEW m \in DOMAIN batches, Analyze(w, m) PROVE BatchesHeld'
  <2>1. analyzer'[w].batch = m /\ \A v \in Analyzers \ {w} : analyzer'[v] = analyzer[v]
    BY <1>0, <1>2 DEF Analyze
  <2>2. batches[m].state = "queued" /\ batches' = Take(batches, m)
    BY <1>2 DEF Analyze
  <2>3. batches'[m].state = "held" /\ \A k \in DOMAIN batches : k # m => batches'[k] = batches[k]
    BY Zenon, <1>0, <2>2, BatchTaken DEF SameBatches, TypeInv, BatchesOK, Bounded
  <2>4. \A v \in Analyzers \ {w} : Working(v)' =>
            Working(v) /\ analyzer[v].batch \in DOMAIN batches /\ analyzer[v].batch # m
    BY Zenon, <1>0, <2>1, <2>2 DEF BatchesHeld, Working
  <2> QED
    BY SMTT(30), <2>1, <2>3, <2>4 DEF BatchesHeld
<1>3. ASSUME NEW w \in Analyzers, NEW r \in Resources, CheckStatus(w, r) PROVE BatchesHeld'
  <2>1. analyzer[w].pc = "check" /\ UNCHANGED batches
    BY Zenon, <1>3 DEF CheckStatus
  <2>2. \A v \in Analyzers : analyzer'[v].batch = analyzer[v].batch /\ (Working(v)' => Working(v))
    <3>1. analyzer[w] \in AnalyzerRecords
      BY SMTT(30), <1>0
    <3>2. /\ analyzer'[w].batch = analyzer[w].batch
          /\ \A v \in Analyzers \ {w} : analyzer'[v] = analyzer[v]
      BY Zenon, <1>0, <1>3, <3>1 DEF CheckStatus, AnalyzerRecords
    <3> QED
      BY Zenon, <2>1, <3>2 DEF Working
  <2> QED
    BY SMTT(30), <2>1, <2>2 DEF BatchesHeld
<1>4. ASSUME NEW w \in Analyzers, SetStatus(w) PROVE BatchesHeld'
  <2>1. Working(w) /\ analyzer[w].batch \in DOMAIN batches
    BY <1>0, <1>4 DEF SetStatus, Working
  <2>2. CASE analyzer[w].notes = {}
    BY Zenon, <1>0, <1>4, <2>1, <2>2, BatchDeleted, HeldByOthers DEF SetStatus
  <2>3. CASE analyzer[w].notes # {}
    <3>1. UNCHANGED batches /\ analyzer' = [analyzer EXCEPT ![w] = [@ EXCEPT !.pc = "notify"]]
      BY Zenon, <1>4, <2>3 DEF SetStatus
    <3>2. analyzer[w] \in AnalyzerRecords
      BY SMTT(30), <1>0
    <3>3. \A v \in Analyzers : analyzer'[v].batch = analyzer[v].batch /\ (Working(v)' => Working(v))
      BY <1>0, <2>1, <3>1, <3>2 DEF Working, AnalyzerRecords
    <3> QED
      BY <3>1, <3>3 DEF BatchesHeld
  <2> QED
    BY SMTT(30), <2>2, <2>3
<1>5. ASSUME NEW w \in Analyzers, Notify(w) PROVE BatchesHeld'
  <2>1. Working(w) /\ analyzer[w].batch \in DOMAIN batches
    BY SMTT(30), <1>0, <1>5 DEF Notify, Working
  <2> QED
    BY Zenon, <1>0, <1>5, <2>1, BatchDeleted, HeldByOthers DEF Notify
<1>6. ASSUME NEW w \in Analyzers, NEW written, NEW sent, AnalyzerFails(w, written, sent)
      PROVE  BatchesHeld'
  <2>1. Working(w) /\ analyzer[w].batch \in DOMAIN batches
    BY <1>0, <1>6 DEF AnalyzerFails, Working
  <2> QED
    BY Zenon, <1>0, <1>6, <2>1, BatchGivenBack, HeldByOthers DEF AnalyzerFails
<1>7. ASSUME NEW p \in Reporters,
             \/ \E n \in DOMAIN notes : TakeNote(p, n)
             \/ Report(p)
             \/ \E accepted \in BOOLEAN : ReporterFails(p, accepted)
      PROVE  UNCHANGED <<batches, analyzer>>
  BY Zenon, <1>7 DEF TakeNote, Report, CheckFailing, TriggerAlert, AlertSuppressed, TriggerRemediation,
              ReporterFails, analysis
<1>8. CASE \/ \E r \in Resources : ChangeSuppression(r)
           \/ ExpireRow \/ Forward \/ FinishForwarding \/ ForwarderFails \/ Tick \/ UNCHANGED vars
  <2>1. UNCHANGED <<batches, analyzer>>
    BY Zenon, <1>8 DEF ChangeSuppression, ExpireRow, Forward, FinishForwarding, ForwarderFails, Tick, vars, analysis
  <2> QED
    BY SMTT(30), SMTT(60), <2>1 DEF BatchesHeld, Working
<1>9. ASSUME UNCHANGED <<batches, analyzer>> PROVE BatchesHeld'
  BY <1>9 DEF BatchesHeld, Working
<1> QED
  BY Zenon, <1>1, <1>2, <1>3, <1>4, <1>5, <1>6, <1>7, <1>8, <1>9 DEF Next, Advance

\* When every batch and every notification is done, a resource that fails has
\* had its policy alerted on, unless two analyzers worked on it at once, one
\* failed between the status and the notification, or a user suppressed it.
THEOREM FailingIsAlertedCorrect == Spec => []FailingIsAlerted
<1>1. Init => AnalysisInv /\ PendingInv /\ BatchesHeld
  <2> SUFFICES ASSUME Init PROVE AnalysisInv /\ PendingInv /\ BatchesHeld
    BY Zenon
  <2>1. /\ suppressed = {} /\ \A w \in Analyzers : analyzer[w].pc = "idle"
        /\ \A p \in Reporters : reporter[p].pc = "idle"
        /\ \A r \in Resources : status[r] # "FAIL"
    BY SMTT(30) DEF Init, IdleAnalyzer, IdleReporter
  <2> QED
    BY SMTT(30), SMTT(60), <2>1 DEF AnalysisInv, SuppressionsSeen, OverlapSeen, AllAsked, KnownFailing, Working,
                PendingInv, RemediateAlerted, FailingPending, BatchesHeld
<1>2. TypeInv /\ AnalysisInv /\ PendingInv /\ BatchesHeld /\ [Next]_vars
        => AnalysisInv' /\ PendingInv' /\ BatchesHeld'
  BY Zenon, AnalysisStep, PendingStep, HeldStep
<1>3. TypeInv /\ PendingInv /\ BatchesHeld => FailingIsAlerted
  <2> SUFFICES ASSUME TypeInv, PendingInv, BatchesHeld, Quiescent,
                      NEW r \in Resources \ (hazards.halfDone \cup hazards.overlapped), NewlyFailing(r)
               PROVE  Alerted
    BY DEF FailingIsAlerted, Alerted
  <2>1. Evidence(r)
    BY Zenon DEF PendingInv, FailingPending, Excused, NewlyFailing
  <2>2. \A w \in Analyzers : analyzer[w].pc # "notify"
    BY SMTT(30) DEF Quiescent, BatchesHeld, Working, TypeInv, AnalyzersOK
  <2> QED
    BY Zenon, <2>1, <2>2 DEF Evidence, Quiescent
<1> QED
  BY <1>1, <1>2, <1>3, TypesHold, PTL DEF Spec
=============================================================================
