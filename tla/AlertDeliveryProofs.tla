------------------------ MODULE AlertDeliveryProofs ------------------------
(***************************************************************************)
(* The invariants of AlertDelivery, for any number of containers, alerts   *)
(* and outputs, for every batch size, every delay and timeout, and for     *)
(* every bound on the length of a behaviour.                               *)
(***************************************************************************)
EXTENDS AlertDelivery, FiniteSums

-----------------------------------------------------------------------------
(* Sequences, and the order in which Nth lists a set.                      *)

\* What a sequence is.
LEMMA Elements ==
    ASSUME NEW S, NEW s \in Seq(S)
    PROVE  /\ Len(s) \in Nat /\ DOMAIN s = 1..Len(s) /\ IsFiniteSet(DOMAIN s)
           /\ \A i \in DOMAIN s : s[i] \in S
<1>1. Len(s) \in Nat /\ DOMAIN s = 1..Len(s) /\ \A i \in DOMAIN s : s[i] \in S
  OBVIOUS
<1> QED
  BY <1>1, FS_Interval

\* One sequence after another.
LEMMA Joint ==
    ASSUME NEW S, NEW s \in Seq(S), NEW t \in Seq(S)
    PROVE  /\ s \o t \in Seq(S) /\ Len(s \o t) = Len(s) + Len(t)
           /\ \A i \in 1..(Len(s) + Len(t)) :
                 (s \o t)[i] = IF i <= Len(s) THEN s[i] ELSE t[i - Len(s)]
  OBVIOUS

\* A function on an initial segment of the positive numbers is a sequence.
LEMMA Listed ==
    ASSUME NEW S, NEW n \in Nat, NEW t \in [1..n -> S]
    PROVE  t \in Seq(S) /\ Len(t) = n /\ DOMAIN t = 1..n
  OBVIOUS

\* Nth(S, 1), Nth(S, 2), ... are the elements of S, each of them once: the
\* alerts of a batch and the retries that were accepted are listed whole.
LEMMA Ranks ==
    ASSUME NEW n \in Nat, NEW S \in SUBSET (1..n)
    PROVE  /\ IsFiniteSet(S) /\ Cardinality(S) \in Nat
           /\ \A j \in 1..Cardinality(S) : Nth(S, j) \in S
           /\ \A i \in S : \E j \in 1..Cardinality(S) : Nth(S, j) = i
           /\ \A j, k \in 1..Cardinality(S) : Nth(S, j) = Nth(S, k) => j = k
<1> DEFINE Below(i) == {k \in S : k <= i}
           rank == [i \in S |-> Cardinality(Below(i))]
           N == Cardinality(S)
<1>1. IsFiniteSet(S) /\ N \in Nat
  <2>1. IsFiniteSet(1..n)
    BY FS_Interval
  <2>2. IsFiniteSet(S)
    BY Zenon, <2>1, FS_Subset
  <2> QED
    BY <2>2, FS_CardinalityType
<1>2. \A i \in S : /\ IsFiniteSet(Below(i)) /\ Cardinality(Below(i)) \in Nat
                   /\ Cardinality(Below(i)) <= N /\ Cardinality(Below(i)) # 0
  <2> TAKE i \in S
  <2>1. Below(i) \in SUBSET S /\ i \in Below(i)
    OBVIOUS
  <2>2. IsFiniteSet(Below(i)) /\ Cardinality(Below(i)) <= N
    BY <1>1, <2>1, FS_Subset
  <2>3. Cardinality(Below(i)) \in Nat
    BY <2>2, FS_CardinalityType
  <2>4. Cardinality(Below(i)) # 0
    BY <2>1, <2>2, FS_EmptySet
  <2> QED
    BY <2>2, <2>3, <2>4
<1>3. rank \in [S -> 1..N]
  BY <1>1, <1>2
<1>4. \A i, k \in S : i < k => Cardinality(Below(i)) # Cardinality(Below(k))
  <2> SUFFICES ASSUME NEW i \in S, NEW k \in S, i < k
               PROVE  Cardinality(Below(i)) # Cardinality(Below(k))
    OBVIOUS
  <2>1. Below(i) \in SUBSET Below(k) /\ k \in Below(k) /\ k \notin Below(i)
    <3>1. i \in Int /\ k \in Int /\ S \subseteq Int
      OBVIOUS
    <3>2. \A x \in S : x <= i => x <= k
      BY <3>1
    <3>3. k <= k /\ ~(k <= i)
      BY <3>1
    <3> QED
      BY Zenon, <3>2, <3>3
  <2>2. IsFiniteSet(Below(k))
    BY <1>2
  <2>3. Cardinality(Below(k)) = Cardinality(Below(i)) => Below(k) = Below(i)
    BY <2>1, <2>2, FS_Subset
  <2> QED
    BY <2>1, <2>3
<1>5. \A i, k \in S : rank[i] = rank[k] => i = k
  <2>1. \A i, k \in S : i < k \/ k < i \/ i = k
    OBVIOUS
  <2> QED
    BY <1>4, <2>1
<1> HIDE DEF Below, N
<1>6. \A j \in 1..N : \E i \in S : rank[i] = j
  <2>1. rank \in Injection(S, 1..N)
    BY <1>3, <1>5 DEF Injection, IsInjective
  <2>2. IsFiniteSet(1..N) /\ Cardinality(1..N) = N
    BY <1>1, FS_Interval
  <2>3. rank \in Surjection(S, 1..N)
    BY <2>1, <2>2, FS_Injection DEF N
  <2> QED
    BY Zenon, <2>3 DEF Surjection
<1>7. \A j \in 1..N : Nth(S, j) \in S /\ rank[Nth(S, j)] = j
  BY <1>6 DEF Nth, Below
<1> HIDE DEF rank
<1>8. \A i \in S : \E j \in 1..N : Nth(S, j) = i
  BY Zenon, <1>3, <1>5, <1>7
<1> QED
  BY <1>1, <1>7, <1>8 DEF N

\* A set that is mapped one-to-one into a finite set is no larger.
LEMMA Injects ==
    ASSUME NEW S, NEW T, IsFiniteSet(T), NEW f \in [S -> T],
           \A x, y \in S : f[x] = f[y] => x = y
    PROVE  /\ IsFiniteSet(S) /\ Cardinality(S) \in Nat /\ Cardinality(T) \in Nat
           /\ Cardinality(S) <= Cardinality(T)
<1>1. f \in Injection(S, T)
  BY DEF Injection, IsInjective
<1>2. IsFiniteSet(S) /\ Cardinality(S) <= Cardinality(T)
  BY <1>1, FS_Injection
<1> QED
  BY <1>2, FS_CardinalityType

\* The values of a sequence are finitely many.
LEMMA Values ==
    ASSUME NEW S, NEW s \in Seq(S)
    PROVE  IsFiniteSet({s[i] : i \in DOMAIN s})
<1> DEFINE V == {s[i] : i \in DOMAIN s}
<1>1. IsFiniteSet(DOMAIN s)
  BY Elements
<1>2. s \in Surjection(DOMAIN s, V)
  BY DEF Surjection
<1> QED
  BY <1>1, <1>2, FS_Surjection

-----------------------------------------------------------------------------
(* What the actions do to the containers.                                  *)

Phases == {"idle", "dispatch", "fetched", "send", "retry"}
ContainerRecords ==
    [pc : Phases, started : 0..MaxTime, batch : Seq(Nat),
     todo : Seq(Dispatches), pending : SUBSET Outputs, again : SUBSET Outputs,
     failed : Seq(Dispatches), cache : Caches, at : 0..MaxTime]

\* The containers other than c are left alone, and c goes on with its batch.
Same(c) == \A x \in Containers \ {c} : container'[x] = container[x]
GoesOn(c) ==
    /\ Same(c) /\ container' \in [Containers -> ContainerRecords]
    /\ container'[c].started = container[c].started /\ container'[c].batch = container[c].batch

\* The outputs that were fetched are not stamped yet.
Fetched(c) ==
    /\ GoesOn(c)
    /\ container'[c].pc = "fetched" /\ container'[c].todo = container[c].todo
    /\ container'[c].pending = container[c].pending /\ container'[c].again = container[c].again
    /\ container'[c].failed = container[c].failed /\ container'[c].at = container[c].at
    /\ container'[c].cache.filled = FALSE /\ container'[c].cache.outputs = outputs
    /\ container'[c].cache.at = 0

\* The goroutines of dispatch are started for the outputs in targets.
Sent(c, k, targets) ==
    /\ GoesOn(c)
    /\ container'[c].pc = "send" /\ container'[c].todo = container[c].todo
    /\ container'[c].pending = targets /\ container'[c].again = container[c].again
    /\ container'[c].failed = container[c].failed
    /\ container'[c].cache = k /\ container'[c].at = now

\* One of several goroutines has reported.
Reported(c, o, again) ==
    /\ GoesOn(c)
    /\ container'[c].pc = "send" /\ container'[c].todo = container[c].todo
    /\ container'[c].pending = container[c].pending \ {o} /\ container'[c].again = again
    /\ container'[c].failed = container[c].failed
    /\ container'[c].cache = container[c].cache /\ container'[c].at = container[c].at

\* HandleAlerts is done with the first alert, which is to be retried as d or not.
Ended(c, k, d, retried) ==
    /\ GoesOn(c)
    /\ container'[c].pc = Following(Tail(container[c].todo))
    /\ container'[c].todo = Tail(container[c].todo)
    /\ container'[c].pending = {} /\ container'[c].again = {}
    /\ container'[c].failed = IF retried THEN Append(container[c].failed, d) ELSE container[c].failed
    /\ container'[c].cache = k /\ container'[c].at = container[c].at

\* An alert that is dropped from the batch, and one that is to be retried
\* unless it is too old.
Done(c, k, d) == Ended(c, k, d, FALSE) /\ expired' = expired
Retried(c, k, d) ==
    \/ now <= RetryDuration /\ Ended(c, k, d, TRUE) /\ expired' = expired
    \/ ~(now <= RetryDuration) /\ Ended(c, k, d, FALSE) /\ expired' = expired \cup {d.alert}

\* Dispatch uses the cache k for the alert d and finds the outputs in targets.
Dispatched(c, k, targets, d) ==
    /\ container[c].pc \in {"fetched", "dispatch"} /\ container[c].todo # <<>>
    /\ k.filled = TRUE /\ k.outputs = container[c].cache.outputs
    /\ \/ container[c].pc = "fetched" /\ k.at = now
       \/ container[c].pc = "dispatch" /\ k = container[c].cache /\ ~(now - k.at > RefreshInterval)
    /\ d = Head(container[c].todo) /\ targets = k.outputs \cap Wanted(d)
    /\ (targets # {} /\ Sent(c, k, targets) /\ expired' = expired) \/ (targets = {} /\ Done(c, k, d))
    /\ unconfigured' = unconfigured \cup {<<d.alert, o>> : o \in Wanted(d) \ targets}

\* A goroutine of dispatch reports; the outputs in again are to be retried.
Answered(c, o, again) ==
    /\ container[c].pc = "send" /\ o \in container[c].pending /\ container[c].todo # <<>>
    /\ \/ container[c].pending # {o} /\ Reported(c, o, again) /\ expired' = expired
       \/ container[c].pending = {o} /\ again = {}
             /\ Done(c, container[c].cache, Head(container[c].todo))
       \/ container[c].pending = {o} /\ again # {}
             /\ \E d \in Dispatches : /\ d.alert = Head(container[c].todo).alert /\ d.ids = again
                                      /\ Retried(c, container[c].cache, d)

\* What an invocation that runs looks like: HandleAlerts has alerts left until
\* it retries, and dispatch waits for some of the outputs of the first.  An
\* alert failed only when the invocation started in time for a retry.
Shape(c) ==
    /\ container[c].pc = "idle" => container[c].batch = <<>> /\ container[c].failed = <<>>
    /\ container[c].pc \in {"idle", "retry"} <=> container[c].todo = <<>>
    /\ container[c].pc # "send" => container[c].pending = {} /\ container[c].again = {}
    /\ container[c].pc = "send" =>
          /\ container[c].pending # {}
          /\ container[c].pending \cup container[c].again \subseteq Wanted(Head(container[c].todo))
          /\ container[c].pending \cap container[c].again = {}
    /\ container[c].failed # <<>> => container[c].started <= RetryDuration
ShapeInv == \A c \in Containers : Shape(c)

\* When the parts of a container were stamped.  The outputs in the cache were
\* configured when the invocation that fetched them started, or later.
Fresh(c) ==
    /\ container[c].started <= now /\ container[c].at <= now /\ container[c].cache.at <= now
    /\ container[c].pc # "idle" => now <= container[c].started + Timeout
    /\ container[c].pc = "fetched" =>
          \A o \in container[c].cache.outputs : container[c].started <= lastExisted[o]
    /\ container[c].cache.filled = TRUE =>
          \A o \in container[c].cache.outputs : container[c].cache.at - lastExisted[o] <= Timeout
    /\ container[c].pending # {} =>
          /\ container[c].cache.filled = TRUE /\ container[c].pending \subseteq container[c].cache.outputs
          /\ container[c].at - container[c].cache.at <= RefreshInterval
CacheInv ==
    /\ \A o \in Outputs : lastExisted[o] <= now /\ (o \in outputs => lastExisted[o] = now)
    /\ \A c \in Containers : Fresh(c)

\* The fields of a container.
LEMMA Fields ==
    ASSUME TypeOK, NEW c \in Containers
    PROVE  /\ container[c] \in ContainerRecords
           /\ container[c].pc \in Phases /\ container[c].started \in 0..MaxTime
           /\ container[c].batch \in Seq(Nat) /\ container[c].todo \in Seq(Dispatches)
           /\ container[c].pending \in SUBSET Outputs /\ container[c].again \in SUBSET Outputs
           /\ container[c].failed \in Seq(Dispatches) /\ container[c].at \in 0..MaxTime
           /\ container[c].cache \in Caches /\ container[c].cache.filled \in BOOLEAN
           /\ container[c].cache.outputs \in SUBSET Outputs /\ container[c].cache.at \in 0..MaxTime
<1>1. container[c] \in ContainerRecords
  BY DEF TypeOK, ContainerRecords, Phases
<1>2. container[c].cache \in Caches
  BY <1>1 DEF ContainerRecords
<1> QED
  BY <1>1, <1>2 DEF ContainerRecords, Caches

\* The first of the alerts to dispatch and the others.
LEMMA FirstAlert ==
    ASSUME NEW s \in Seq(Dispatches), s # <<>>
    PROVE  /\ Head(s) = s[1] /\ Head(s) \in Dispatches /\ Tail(s) \in Seq(Dispatches)
           /\ Head(s).alert \in Alerts /\ Head(s).ids \in SUBSET Outputs
           /\ Len(s) \in Nat \ {0} /\ DOMAIN s = 1..Len(s)
           /\ Len(Tail(s)) = Len(s) - 1 /\ DOMAIN Tail(s) = 1..(Len(s) - 1)
           /\ \A i \in 1..(Len(s) - 1) : Tail(s)[i] = s[i + 1]
<1>1. /\ Head(s) = s[1] /\ Head(s) \in Dispatches /\ Tail(s) \in Seq(Dispatches)
      /\ Len(s) \in Nat \ {0} /\ DOMAIN s = 1..Len(s)
      /\ Len(Tail(s)) = Len(s) - 1 /\ DOMAIN Tail(s) = 1..(Len(s) - 1)
      /\ \A i \in 1..(Len(s) - 1) : Tail(s)[i] = s[i + 1]
  OBVIOUS
<1> QED
  BY <1>1 DEF Dispatches

\* The record of a container that is idle.
LEMMA IdleRecord ==
    ASSUME NEW k \in Caches
    PROVE  /\ Idle(k) \in ContainerRecords /\ Idle(k).pc = "idle" /\ Idle(k).started = 0
           /\ Idle(k).batch = <<>> /\ Idle(k).todo = <<>> /\ Idle(k).pending = {}
           /\ Idle(k).again = {} /\ Idle(k).failed = <<>> /\ Idle(k).cache = k /\ Idle(k).at = 0
<1>1. 0 \in 0..MaxTime
  BY DeliveryAssumption
<1>2. <<>> \in Seq(Nat) /\ <<>> \in Seq(Dispatches)
  OBVIOUS
<1> QED
  BY <1>1, <1>2 DEF ContainerRecords, Phases, Idle

\* A cache that was fetched but not stamped, and the empty one.
LEMMA CacheRecords ==
    ASSUME NEW P \in SUBSET Outputs, NEW k \in Caches, NEW t \in 0..MaxTime
    PROVE  /\ NoCache \in Caches
           /\ [NoCache EXCEPT !.outputs = P] \in Caches
           /\ [NoCache EXCEPT !.outputs = P].filled = FALSE
           /\ [NoCache EXCEPT !.outputs = P].outputs = P
           /\ [NoCache EXCEPT !.outputs = P].at = 0
           /\ [k EXCEPT !.filled = TRUE, !.at = t] \in Caches
           /\ [k EXCEPT !.filled = TRUE, !.at = t].filled = TRUE
           /\ [k EXCEPT !.filled = TRUE, !.at = t].outputs = k.outputs
           /\ [k EXCEPT !.filled = TRUE, !.at = t].at = t
<1>1. 0 \in 0..MaxTime
  BY DeliveryAssumption
<1> QED
  BY Zenon, <1>1 DEF NoCache, Caches

\* FetchOutputs.
LEMMA FetchEffect ==
    ASSUME TypeOK, NEW c \in Containers, FetchOutputs(c)
    PROVE  Fetched(c)
<1> DEFINE k == [NoCache EXCEPT !.outputs = outputs]
<1>1. k \in Caches /\ k.filled = FALSE /\ k.outputs = outputs /\ k.at = 0
  <2>1. outputs \in SUBSET Outputs /\ now \in 0..MaxTime
    BY DEF TypeOK
  <2> QED
    BY Zenon, <2>1, CacheRecords, Fields
<1>2. container' = [container EXCEPT ![c].pc = "fetched", ![c].cache = k]
  BY DEF FetchOutputs
<1> HIDE DEF k
<1>3. container \in [Containers -> ContainerRecords]
  BY DEF TypeOK, ContainerRecords, Phases
<1>4. PICK v : v = [container[c] EXCEPT !.pc = "fetched", !.cache = k]
  OBVIOUS
<1>5. container' = [container EXCEPT ![c] = v]
  BY Zenon, <1>2, <1>3, <1>4
<1>6. /\ v \in ContainerRecords /\ v.pc = "fetched" /\ v.started = container[c].started
      /\ v.batch = container[c].batch /\ v.todo = container[c].todo
      /\ v.pending = container[c].pending /\ v.again = container[c].again
      /\ v.failed = container[c].failed /\ v.cache = k /\ v.at = container[c].at
  BY Zenon, <1>1, <1>3, <1>4 DEF ContainerRecords, Phases
<1>7. Same(c) /\ container'[c] = v /\ container' \in [Containers -> ContainerRecords]
  BY <1>3, <1>5, <1>6 DEF Same
<1> QED
  BY <1>1, <1>6, <1>7 DEF Fetched, GoesOn

\* FinishAlert: an alert that is not done is retried or given up for its age.
LEMMA FinishAlertEffect ==
    ASSUME TypeOK, NEW c \in Containers, container[c].todo # <<>>,
           NEW k \in Caches, NEW done \in BOOLEAN, NEW d \in Dispatches, FinishAlert(c, k, done, d)
    PROVE  (done => Done(c, k, d)) /\ (~done => Retried(c, k, d))
<1> DEFINE retried == ~done /\ now <= RetryDuration
           f == IF retried THEN Append(container[c].failed, d) ELSE container[c].failed
           t == Tail(container[c].todo)
<1>1. container \in [Containers -> ContainerRecords] /\ container[c] \in ContainerRecords
  BY DEF TypeOK, ContainerRecords, Phases
<1>2. t \in Seq(Dispatches) /\ f \in Seq(Dispatches) /\ Following(t) \in Phases
  BY Fields, FirstAlert DEF Following, Phases
<1>3. PICK v : v = [container[c] EXCEPT !.pc = Following(t), !.todo = t, !.cache = k,
                                        !.pending = {}, !.again = {}, !.failed = f]
  OBVIOUS
<1>4. container' = [container EXCEPT ![c] = v]
  BY <1>3 DEF FinishAlert
<1>5. expired' = IF ~done /\ ~retried THEN expired \cup {d.alert} ELSE expired
  BY DEF FinishAlert
<1> HIDE DEF f, t
<1>6. /\ v \in ContainerRecords /\ v.pc = Following(t) /\ v.started = container[c].started
      /\ v.batch = container[c].batch /\ v.todo = t /\ v.pending = {} /\ v.again = {}
      /\ v.failed = f /\ v.cache = k /\ v.at = container[c].at
  <2>1. PICK u \in ContainerRecords : u = container[c]
    BY <1>1
  <2>2. PICK s \in Seq(Dispatches), g \in Seq(Dispatches) : s = t /\ g = f /\ Following(s) \in Phases
    BY <1>2
  <2>3. v = [u EXCEPT !.pc = Following(s), !.todo = s, !.cache = k,
                      !.pending = {}, !.again = {}, !.failed = g]
    BY <1>3, <2>1, <2>2
  <2>4. /\ v \in ContainerRecords /\ v.pc = Following(s) /\ v.started = u.started /\ v.batch = u.batch
        /\ v.todo = s /\ v.pending = {} /\ v.again = {} /\ v.failed = g /\ v.cache = k /\ v.at = u.at
    BY Zenon, <2>2, <2>3 DEF ContainerRecords
  <2> QED
    BY <2>1, <2>2, <2>4
<1>7. Same(c) /\ container'[c] = v /\ container' \in [Containers -> ContainerRecords]
  BY <1>1, <1>4, <1>6 DEF Same
<1>8. GoesOn(c)
  BY <1>6, <1>7 DEF GoesOn
<1>9. \A r \in BOOLEAN : (r <=> retried) => Ended(c, k, d, r)
  BY <1>6, <1>7, <1>8 DEF Ended, f, t
<1> QED
  BY Zenon, <1>5, <1>9 DEF Done, Retried

\* Dispatch: the cache it uses and the outputs it finds there.
LEMMA DispatchEffect ==
    ASSUME TypeOK, ShapeInv, NEW c \in Containers, Dispatch(c)
    PROVE  \E k \in Caches, T \in SUBSET Outputs, d \in Dispatches : Dispatched(c, k, T, d)
<1>1. container \in [Containers -> ContainerRecords] /\ container[c] \in ContainerRecords
  BY DEF TypeOK, ContainerRecords, Phases
<1>2. container[c].pc \in {"fetched", "dispatch"} /\ container[c].todo # <<>>
  BY DEF Dispatch, ShapeInv, Shape
<1>3. PICK k : k = IF container[c].pc = "fetched"
                   THEN [container[c].cache EXCEPT !.filled = TRUE, !.at = now]
                   ELSE container[c].cache
  OBVIOUS
<1>4. PICK d \in Dispatches : d = Head(container[c].todo)
  BY <1>2, Fields, FirstAlert
<1>5. /\ k \in Caches /\ k.filled = TRUE /\ k.outputs = container[c].cache.outputs
      /\ \/ container[c].pc = "fetched" /\ k.at = now
         \/ /\ container[c].pc = "dispatch" /\ k = container[c].cache
            /\ ~(now - k.at > RefreshInterval)
  <2>1. now \in 0..MaxTime /\ container[c].cache \in Caches /\ container[c].cache.filled \in BOOLEAN
    BY Zenon, Fields DEF TypeOK
  <2>2. CASE container[c].pc = "fetched"
    <3>1. PICK v \in Caches, t \in 0..MaxTime : v = container[c].cache /\ t = now
      BY Zenon, <2>1
    <3>2. k = [v EXCEPT !.filled = TRUE, !.at = t]
      BY Zenon, <1>3, <2>2, <3>1
    <3>3. k \in Caches /\ k.filled = TRUE /\ k.outputs = v.outputs /\ k.at = t
      BY Zenon, <3>2 DEF Caches
    <3> QED
      BY Zenon, <2>2, <3>1, <3>3
  <2>3. CASE container[c].pc # "fetched"
    <3>1. container[c].pc = "dispatch" /\ ~Stale(container[c].cache) /\ k = container[c].cache
      BY <1>3, <2>3 DEF Dispatch
    <3>2. k.filled = TRUE /\ ~(now - k.at > RefreshInterval)
      BY Zenon, <2>1, <3>1 DEF Stale
    <3> QED
      BY <2>1, <3>1, <3>2
  <2> QED
    BY Zenon, <2>2, <2>3
<1>6. PICK T \in SUBSET Outputs : T = k.outputs \cap Wanted(d)
  BY Zenon, <1>5, Fields
<1>7. /\ \/ /\ T # {} /\ expired' = expired
            /\ container' = [container EXCEPT ![c] =
                  [container[c] EXCEPT !.pc = "send", !.pending = T, !.cache = k, !.at = now]]
         \/ T = {} /\ FinishAlert(c, k, TRUE, d)
      /\ unconfigured' = unconfigured \cup {<<d.alert, o>> : o \in Wanted(d) \ T}
  BY <1>3, <1>4, <1>6 DEF Dispatch, AlertOutputs, FinishAlert
<1>8. ASSUME T # {}, container' = [container EXCEPT ![c] =
                 [container[c] EXCEPT !.pc = "send", !.pending = T, !.cache = k, !.at = now]]
      PROVE  Sent(c, k, T)
  <2>1. PICK v : v = [container[c] EXCEPT !.pc = "send", !.pending = T, !.cache = k, !.at = now]
    OBVIOUS
  <2>2. now \in 0..MaxTime
    BY DEF TypeOK
  <2>3. /\ v \in ContainerRecords /\ v.pc = "send" /\ v.started = container[c].started
        /\ v.batch = container[c].batch /\ v.todo = container[c].todo /\ v.pending = T
        /\ v.again = container[c].again /\ v.failed = container[c].failed /\ v.cache = k /\ v.at = now
    <3>1. PICK u \in ContainerRecords, n \in 0..MaxTime : u = container[c] /\ n = now
      BY <1>1, <2>2
    <3>2. v = [u EXCEPT !.pc = "send", !.pending = T, !.cache = k, !.at = n]
      BY <2>1, <3>1
    <3>3. /\ v \in ContainerRecords /\ v.pc = "send" /\ v.started = u.started /\ v.batch = u.batch
          /\ v.todo = u.todo /\ v.pending = T /\ v.again = u.again /\ v.failed = u.failed
          /\ v.cache = k /\ v.at = n
      BY Zenon, <1>5, <3>2 DEF ContainerRecords, Phases
    <3> QED
      BY <3>1, <3>3
  <2>4. Same(c) /\ container'[c] = v /\ container' \in [Containers -> ContainerRecords]
    BY <1>1, <1>8, <2>1, <2>3 DEF Same
  <2> QED
    BY <2>3, <2>4 DEF Sent, GoesOn
<1>9. ASSUME FinishAlert(c, k, TRUE, d)
      PROVE  Done(c, k, d)
  BY Zenon, <1>2, <1>5, <1>9, FinishAlertEffect
<1> QED
  <2>1. (T # {} /\ Sent(c, k, T) /\ expired' = expired) \/ (T = {} /\ Done(c, k, d))
    BY Zenon, <1>7, <1>8, <1>9
  <2>2. Dispatched(c, k, T, d)
    BY <1>2, <1>4, <1>5, <1>6, <1>7, <2>1 DEF Dispatched
  <2> QED
    BY <1>5, <2>2

\* DispatchFails: the alert is retried as it is.
LEMMA DispatchFailsEffect ==
    ASSUME TypeOK, ShapeInv, NEW c \in Containers, DispatchFails(c)
    PROVE  /\ container[c].pc = "dispatch" /\ container[c].todo # <<>>
           /\ \E d \in Dispatches : d = Head(container[c].todo) /\ Retried(c, container[c].cache, d)
<1>1. container[c].pc = "dispatch" /\ container[c].todo # <<>>
  BY DEF DispatchFails, ShapeInv, Shape
<1>2. PICK d \in Dispatches : d = Head(container[c].todo)
  BY <1>1, Fields, FirstAlert
<1>3. PICK k \in Caches : k = container[c].cache
  BY Fields
<1>4. FinishAlert(c, k, FALSE, d)
  BY Zenon, <1>2, <1>3 DEF DispatchFails
<1>5. Retried(c, k, d)
  BY Zenon, <1>1, <1>4, FinishAlertEffect
<1> QED
  BY <1>1, <1>2, <1>3, <1>5

\* Status: the last goroutine to report makes dispatch return.
LEMMA StatusEffect ==
    ASSUME TypeOK, ShapeInv, NEW c \in Containers, NEW o \in Outputs,
           NEW again \in SUBSET Outputs, Status(c, o, again)
    PROVE  Answered(c, o, again)
<1>1. container[c].pc = "send" /\ o \in container[c].pending /\ container[c].todo # <<>>
  BY DEF Status, ShapeInv, Shape
<1>2. PICK h \in Dispatches : h = Head(container[c].todo)
  BY <1>1, Fields, FirstAlert
<1>3. PICK k \in Caches : k = container[c].cache
  BY Fields
<1>4. ASSUME container[c].pending # {o} PROVE Reported(c, o, again) /\ expired' = expired
  <2>1. /\ container' = [container EXCEPT ![c].pending = @ \ {o}, ![c].again = again]
        /\ expired' = expired
    BY <1>4 DEF Status
  <2>2. container \in [Containers -> ContainerRecords] /\ container[c] \in ContainerRecords
    BY DEF TypeOK, ContainerRecords, Phases
  <2>3. PICK v : v = [container[c] EXCEPT !.pending = @ \ {o}, !.again = again]
    OBVIOUS
  <2>4. container' = [container EXCEPT ![c] = v]
    BY Zenon, <2>1, <2>2, <2>3
  <2>5. /\ v \in ContainerRecords /\ v.pc = container[c].pc /\ v.started = container[c].started
        /\ v.batch = container[c].batch /\ v.todo = container[c].todo
        /\ v.pending = container[c].pending \ {o} /\ v.again = again
        /\ v.failed = container[c].failed /\ v.cache = container[c].cache /\ v.at = container[c].at
    BY Zenon, <2>2, <2>3 DEF ContainerRecords
  <2>6. Same(c) /\ container'[c] = v /\ container' \in [Containers -> ContainerRecords]
    BY <2>2, <2>4, <2>5 DEF Same
  <2> QED
    BY <1>1, <2>1, <2>5, <2>6 DEF Reported, GoesOn
<1>5. ASSUME container[c].pending = {o}, again = {} PROVE Done(c, k, h)
  <2>1. FinishAlert(c, k, TRUE, h)
    BY Zenon, <1>2, <1>3, <1>5 DEF Status
  <2> QED
    BY Zenon, <1>1, <2>1, FinishAlertEffect
<1>6. ASSUME container[c].pending = {o}, again # {}
      PROVE  \E d \in Dispatches : d.alert = h.alert /\ d.ids = again /\ Retried(c, k, d)
  <2>1. PICK d : d = NeedsRetry(h, again)
    OBVIOUS
  <2>2. d \in Dispatches /\ d.alert = h.alert /\ d.ids = again
    BY <2>1 DEF NeedsRetry, Dispatches
  <2>3. FinishAlert(c, k, FALSE, d)
    BY Zenon, <1>2, <1>3, <1>6, <2>1 DEF Status
  <2>4. Retried(c, k, d)
    BY Zenon, <1>1, <2>2, <2>3, FinishAlertEffect
  <2> QED
    BY <2>2, <2>4
<1> QED
  BY Zenon, <1>1, <1>2, <1>3, <1>4, <1>5, <1>6 DEF Answered

-----------------------------------------------------------------------------
(* What the actions do to the queue.                                       *)

\* The messages that an invocation took.
Batch(c) == {container[c].batch[i] : i \in DOMAIN container[c].batch}

\* A container that is idle again, with the cache k.
Idled(c, k) ==
    /\ Same(c) /\ container' \in [Containers -> ContainerRecords]
    /\ container'[c].pc = "idle" /\ container'[c].started = 0 /\ container'[c].batch = <<>>
    /\ container'[c].todo = <<>> /\ container'[c].pending = {} /\ container'[c].again = {}
    /\ container'[c].failed = <<>> /\ container'[c].cache = k /\ container'[c].at = 0

\* Messages keep their alert and outputs whatever happens to them.
Kept ==
    /\ messages' \in Seq(MessageRecords) /\ DOMAIN messages \subseteq DOMAIN messages'
    /\ \A m \in DOMAIN messages :
          messages'[m].alert = messages[m].alert /\ messages'[m].ids = messages[m].ids

\* The messages of the batch are deleted, or become visible again.
Returned(c, failed) ==
    /\ Kept
    /\ \A m \in DOMAIN messages :
          IF m \in Batch(c)
          THEN messages'[m].state \in (IF failed THEN {"queued", "dlq"} ELSE {"deleted"})
          ELSE messages'[m].state = messages[m].state
    /\ redelivered' \in [Alerts -> Nat]
    /\ \A a \in Alerts :
          redelivered'[a] = redelivered[a] +
              IF failed THEN Cardinality({m \in Batch(c) : messages[m].alert = a}) ELSE 0

\* The retries that were accepted are at the end of the queue.
PutBack(c, accepted) ==
    /\ DOMAIN messages' = 1..(Len(messages) + Cardinality(accepted))
    /\ \A j \in 1..Cardinality(accepted) :
          /\ messages'[Len(messages) + j].alert = container[c].failed[Nth(accepted, j)].alert
          /\ messages'[Len(messages) + j].ids = container[c].failed[Nth(accepted, j)].ids
          /\ messages'[Len(messages) + j].state = "queued"

\* The alerts in todo are the valid ones of the batch; pos says where they are.
Reads(batch, todo, pos) ==
    /\ todo \in Seq(Dispatches) /\ pos \in [DOMAIN todo -> DOMAIN batch]
    /\ \A j \in DOMAIN todo :
          /\ todo[j].alert = messages[batch[pos[j]]].alert /\ todo[j].ids = messages[batch[pos[j]]].ids
          /\ todo[j].alert \notin Invalid
    /\ \A j, k \in DOMAIN todo : pos[j] = pos[k] => j = k
    /\ \A i \in DOMAIN batch :
          messages[batch[i]].alert \notin Invalid => \E j \in DOMAIN todo : pos[j] = i

\* An invocation starts with the batch.
Taken(c, batch, todo) ==
    /\ container[c].pc = "idle" /\ Same(c) /\ container' \in [Containers -> ContainerRecords]
    /\ container'[c].pc = Following(todo) /\ container'[c].started = now
    /\ container'[c].batch = batch /\ container'[c].todo = todo
    /\ container'[c].pending = {} /\ container'[c].again = {} /\ container'[c].failed = <<>>
    /\ container'[c].cache = container[c].cache /\ container'[c].at = 0
    /\ batch \in Seq(DOMAIN messages)
    /\ \A i \in DOMAIN batch : messages[batch[i]].state = "queued"
    /\ \A i, j \in DOMAIN batch : batch[i] = batch[j] => i = j
    /\ Kept /\ DOMAIN messages' = DOMAIN messages
    /\ \A m \in DOMAIN messages :
          IF \E i \in DOMAIN batch : batch[i] = m
          THEN messages'[m].state = "held" ELSE messages'[m].state = messages[m].state

\* The fields of a message.
LEMMA MessageFields ==
    ASSUME NEW r \in MessageRecords
    PROVE  /\ r.alert \in Alerts /\ r.ids \in SUBSET Outputs /\ r.receives \in 0..MaxReceives
           /\ r.state \in {"queued", "held", "deleted", "dlq"}
  BY DEF MessageRecords

\* The queue is a sequence of messages.
LEMMA Queue ==
    ASSUME TypeOK
    PROVE  /\ messages \in Seq(MessageRecords) /\ Len(messages) \in Nat
           /\ DOMAIN messages = 1..Len(messages)
           /\ \A m \in DOMAIN messages : messages[m] \in MessageRecords
<1>1. messages \in Seq(MessageRecords)
  BY DEF TypeOK
<1> QED
  BY <1>1, Elements

\* ValidAlerts lists the valid alerts of the batch, each message once.
LEMMA ValidAlertsListed ==
    ASSUME TypeOK, NEW n \in Nat, NEW batch \in [1..n -> DOMAIN messages]
    PROVE  \E pos : Reads(batch, ValidAlerts(batch), pos)
<1>1. PICK valid : valid = {i \in DOMAIN batch : messages[batch[i]].alert \notin Invalid}
  BY Zenon
<1>2. DOMAIN batch = 1..n /\ valid \in SUBSET (1..n)
  BY <1>1
<1>3. PICK N \in Nat : N = Cardinality(valid)
  BY Zenon, <1>2, Ranks
<1>4. /\ \A j \in 1..N : Nth(valid, j) \in valid
      /\ \A i \in valid : \E j \in 1..N : Nth(valid, j) = i
      /\ \A j, k \in 1..N : Nth(valid, j) = Nth(valid, k) => j = k
  BY Zenon, <1>2, <1>3, Ranks
<1>5. PICK pos : pos = [j \in 1..N |-> Nth(valid, j)]
  BY Zenon
<1>6. ValidAlerts(batch) = [j \in 1..N |-> [alert |-> messages[batch[pos[j]]].alert,
                                            ids |-> messages[batch[pos[j]]].ids]]
  BY <1>1, <1>3, <1>5 DEF ValidAlerts
<1>7. \A j \in 1..N : /\ pos[j] \in valid /\ pos[j] \in 1..n
                      /\ messages[batch[pos[j]]].alert \in Alerts \ Invalid
                      /\ messages[batch[pos[j]]].ids \in SUBSET Outputs
  <2> TAKE j \in 1..N
  <2>1. pos[j] \in valid /\ pos[j] \in 1..n
    BY Zenon, <1>2, <1>4, <1>5
  <2>2. messages[batch[pos[j]]] \in MessageRecords
    BY Zenon, <2>1, Queue
  <2> QED
    BY Zenon, <1>1, <2>1, <2>2, MessageFields
<1>8. ValidAlerts(batch) \in [1..N -> Dispatches]
  BY <1>6, <1>7 DEF Dispatches
<1>9. ValidAlerts(batch) \in Seq(Dispatches) /\ DOMAIN ValidAlerts(batch) = 1..N
  BY Zenon, <1>8, Listed
<1>10. \A j \in 1..N : /\ ValidAlerts(batch)[j].alert = messages[batch[pos[j]]].alert
                       /\ ValidAlerts(batch)[j].ids = messages[batch[pos[j]]].ids
  BY <1>6
<1>11. \A i \in valid : \E j \in 1..N : pos[j] = i
  BY <1>4, <1>5
<1>12. \A j, k \in 1..N : pos[j] = pos[k] => j = k
  BY <1>4, <1>5
<1>13. pos \in [1..N -> 1..n]
  BY <1>5, <1>7
<1>14. PICK todo : todo = ValidAlerts(batch)
  OBVIOUS
<1>15. todo \in Seq(Dispatches) /\ DOMAIN todo = 1..N /\ DOMAIN batch = 1..n
  BY <1>2, <1>9, <1>14
<1>16. \A j \in 1..N : /\ todo[j].alert = messages[batch[pos[j]]].alert
                       /\ todo[j].ids = messages[batch[pos[j]]].ids
                       /\ todo[j].alert \notin Invalid
  BY <1>7, <1>10, <1>14
<1>17. \A i \in 1..n : messages[batch[i]].alert \notin Invalid => \E j \in 1..N : pos[j] = i
  BY <1>1, <1>2, <1>11
<1>18. Reads(batch, todo, pos)
  BY Zenon, <1>12, <1>13, <1>15, <1>16, <1>17 DEF Reads
<1> QED
  BY <1>14, <1>18

\* Receive: the messages of the batch are held, and their valid alerts are to be
\* dispatched.
LEMMA ReceiveEffect ==
    ASSUME TypeOK, NEW c \in Containers, NEW batch \in Batches, Receive(c, batch)
    PROVE  \E todo, pos : Taken(c, batch, todo) /\ Reads(batch, todo, pos)
<1>1. PICK n \in Nat : batch \in [1..n -> DOMAIN messages]
  <2>1. \A n \in 1..BatchSize : n \in Nat
    BY DeliveryAssumption
  <2> QED
    BY <2>1 DEF Batches
<1>2. batch \in Seq(DOMAIN messages) /\ DOMAIN batch = 1..n
  BY <1>1, Listed
<1>3. batch \in Seq(Nat)
  <2>1. batch \in [1..n -> Nat]
    BY <1>1, Queue
  <2> QED
    BY <2>1, Listed
<1>4. PICK todo, pos : todo = ValidAlerts(batch) /\ Reads(batch, todo, pos)
  BY <1>1, ValidAlertsListed
<1>5. todo \in Seq(Dispatches)
  BY <1>4 DEF Reads
<1>6. \A i \in DOMAIN batch :
          /\ messages[batch[i]].state = "queued" /\ messages[batch[i]].receives < MaxReceives
  BY Zenon DEF Receive, Visible
<1>7. /\ Kept /\ DOMAIN messages' = DOMAIN messages
      /\ \A m \in DOMAIN messages :
            IF \E i \in DOMAIN batch : batch[i] = m
            THEN messages'[m].state = "held" ELSE messages'[m].state = messages[m].state
  <2>1. messages' = [m \in DOMAIN messages |->
                        IF \E i \in DOMAIN batch : batch[i] = m
                        THEN [messages[m] EXCEPT !.state = "held", !.receives = @ + 1]
                        ELSE messages[m]]
    BY Zenon DEF Receive
  <2>2. ASSUME NEW m \in DOMAIN messages
        PROVE  /\ messages'[m] \in MessageRecords
               /\ messages'[m].alert = messages[m].alert /\ messages'[m].ids = messages[m].ids
               /\ IF \E i \in DOMAIN batch : batch[i] = m
                  THEN messages'[m].state = "held" ELSE messages'[m].state = messages[m].state
    <3>1. PICK r \in MessageRecords : r = messages[m]
      BY Zenon, Queue
    <3>2. CASE \E i \in DOMAIN batch : batch[i] = m
      <4>1. r.receives < MaxReceives /\ r.receives \in 0..MaxReceives /\ MaxReceives \in Nat
        BY <1>6, <3>1, <3>2, MessageFields, DeliveryAssumption
      <4>2. r.receives + 1 \in 0..MaxReceives
        BY <4>1
      <4>3. PICK v : v = [r EXCEPT !.state = "held", !.receives = @ + 1]
        BY Zenon
      <4>4. v \in MessageRecords /\ v.alert = r.alert /\ v.ids = r.ids /\ v.state = "held"
        BY Zenon, <4>2, <4>3 DEF MessageRecords
      <4>5. messages'[m] = v
        BY Zenon, <2>1, <3>1, <3>2, <4>3
      <4> QED
        BY <3>1, <3>2, <4>4, <4>5
    <3>3. CASE ~(\E i \in DOMAIN batch : batch[i] = m)
      BY Zenon, <2>1, <3>1, <3>3
    <3> QED
      BY <3>2, <3>3
  <2>3. DOMAIN messages' = DOMAIN messages
    BY Zenon, <2>1
  <2>4. messages' \in Seq(MessageRecords)
    <3>1. PICK q : q = messages'
      BY Zenon
    <3>2. PICK l \in Nat : DOMAIN messages = 1..l
      BY Zenon, Queue
    <3>3. q \in [1..l -> MessageRecords]
      BY Zenon, <2>1, <2>2, <3>1, <3>2
    <3> QED
      BY <3>1, <3>3, Listed
  <2> QED
    BY Zenon, <2>2, <2>3, <2>4 DEF Kept
<1>8. PICK k \in Caches, t \in 0..MaxTime : k = container[c].cache /\ t = now
  BY Zenon, Fields DEF TypeOK
<1>9. PICK v : v = [Idle(k) EXCEPT !.pc = Following(todo), !.started = t, !.batch = batch, !.todo = todo]
  OBVIOUS
<1>10. Following(todo) \in Phases
  BY DEF Following, Phases
<1>11. /\ v \in ContainerRecords /\ v.pc = Following(todo) /\ v.started = t /\ v.batch = batch
       /\ v.todo = todo /\ v.pending = {} /\ v.again = {} /\ v.failed = <<>> /\ v.cache = k /\ v.at = 0
  <2>1. PICK u \in ContainerRecords :
            u = Idle(k) /\ u.pending = {} /\ u.again = {} /\ u.failed = <<>> /\ u.cache = k /\ u.at = 0
    BY IdleRecord
  <2>2. v = [u EXCEPT !.pc = Following(todo), !.started = t, !.batch = batch, !.todo = todo]
    BY <1>9, <2>1
  <2> QED
    BY Zenon, <1>3, <1>5, <1>10, <2>1, <2>2 DEF ContainerRecords
<1>12. container' = [container EXCEPT ![c] = v] /\ container[c].pc = "idle"
  BY Zenon, <1>4, <1>8, <1>9 DEF Receive
<1>13. Same(c) /\ container'[c] = v /\ container' \in [Containers -> ContainerRecords]
  <2>1. container \in [Containers -> ContainerRecords]
    BY Zenon DEF TypeOK, ContainerRecords, Phases
  <2> QED
    BY Zenon, <1>11, <1>12, <2>1 DEF Same
<1>14. \A i, j \in DOMAIN batch : batch[i] = batch[j] => i = j
  BY Zenon DEF Receive
<1>15. Taken(c, batch, todo)
  BY Zenon, <1>2, <1>6, <1>7, <1>8, <1>11, <1>12, <1>13, <1>14 DEF Taken
<1> QED
  BY <1>4, <1>5, <1>15

\* A container that gives its batch back.
LEMMA IdledEffect ==
    ASSUME TypeOK, NEW c \in Containers, NEW k \in Caches, container' = [container EXCEPT ![c] = Idle(k)]
    PROVE  Idled(c, k)
<1>1. container \in [Containers -> ContainerRecords]
  BY Zenon DEF TypeOK, ContainerRecords, Phases
<1>2. PICK v : v = Idle(k)
  OBVIOUS
<1>3. /\ v \in ContainerRecords /\ v.pc = "idle" /\ v.started = 0 /\ v.batch = <<>> /\ v.todo = <<>>
      /\ v.pending = {} /\ v.again = {} /\ v.failed = <<>> /\ v.cache = k /\ v.at = 0
  BY <1>2, IdleRecord
<1>4. Same(c) /\ container'[c] = v /\ container' \in [Containers -> ContainerRecords]
  BY <1>1, <1>2, <1>3 DEF Same
<1> QED
  BY Zenon, <1>3, <1>4 DEF Idled

\* The messages of the batch are counted when they become visible again.
LEMMA Recounted ==
    ASSUME TypeOK, NEW c \in Containers, NEW failed \in BOOLEAN,
           redelivered' = [a \in Alerts |-> redelivered[a] +
              IF failed THEN Cardinality({m \in Batch(c) : messages[m].alert = a}) ELSE 0]
    PROVE  /\ redelivered' \in [Alerts -> Nat]
           /\ \A a \in Alerts :
                 redelivered'[a] = redelivered[a] +
                     IF failed THEN Cardinality({m \in Batch(c) : messages[m].alert = a}) ELSE 0
<1>1. IsFiniteSet(Batch(c))
  <2>1. PICK b \in Seq(Nat) : b = container[c].batch
    BY Fields
  <2>2. IsFiniteSet({b[i] : i \in DOMAIN b})
    BY Values
  <2> QED
    BY Zenon, <2>1, <2>2 DEF Batch
<1>2. \A a \in Alerts : Cardinality({m \in Batch(c) : messages[m].alert = a}) \in Nat
  <2> TAKE a \in Alerts
  <2>1. {m \in Batch(c) : messages[m].alert = a} \in SUBSET Batch(c)
    OBVIOUS
  <2> QED
    BY <1>1, <2>1, FS_Subset, FS_CardinalityType
<1>3. redelivered \in [Alerts -> Nat]
  BY DEF TypeOK
<1> QED
  BY <1>2, <1>3

\* Crash: the messages are visible again or in the dead-letter queue.
LEMMA CrashEffect ==
    ASSUME TypeOK, NEW c \in Containers, Crash(c)
    PROVE  Idled(c, NoCache) /\ Returned(c, TRUE) /\ DOMAIN messages' = DOMAIN messages
<1>1. Idled(c, NoCache)
  <2>1. NoCache \in Caches
    BY Zenon, CacheRecords, Fields
  <2>2. container' = [container EXCEPT ![c] = Idle(NoCache)]
    BY DEF Crash
  <2> QED
    BY Zenon, <2>1, <2>2, IdledEffect
<1>2. messages' = [m \in DOMAIN messages |->
                     IF m \in Batch(c)
                     THEN [messages[m] EXCEPT
                             !.state = IF messages[m].receives = MaxReceives THEN "dlq" ELSE "queued"]
                     ELSE messages[m]]
  BY DEF Crash, GiveBack, Batch
<1>3. ASSUME NEW m \in DOMAIN messages
      PROVE  /\ messages'[m] \in MessageRecords
             /\ messages'[m].alert = messages[m].alert /\ messages'[m].ids = messages[m].ids
             /\ IF m \in Batch(c) THEN messages'[m].state \in {"queued", "dlq"}
                ELSE messages'[m].state = messages[m].state
  <2>1. PICK r \in MessageRecords : r = messages[m]
    BY Queue
  <2>2. CASE m \in Batch(c)
    <3>1. PICK s \in {"queued", "dlq"} : s = IF r.receives = MaxReceives THEN "dlq" ELSE "queued"
      OBVIOUS
    <3>2. PICK v : v = [r EXCEPT !.state = s]
      BY Zenon
    <3>3. v \in MessageRecords /\ v.alert = r.alert /\ v.ids = r.ids /\ v.state = s
      BY <3>1, <3>2 DEF MessageRecords
    <3>4. messages'[m] = v
      BY <1>2, <2>1, <2>2, <3>1, <3>2
    <3> QED
      BY Zenon, <2>1, <2>2, <3>1, <3>3, <3>4
  <2>3. CASE m \notin Batch(c)
    BY <1>2, <2>1, <2>3
  <2> QED
    BY <2>2, <2>3
<1>4. messages' \in Seq(MessageRecords) /\ DOMAIN messages' = DOMAIN messages
  <2>1. PICK q : q = messages'
    BY Zenon
  <2>2. PICK l \in Nat : DOMAIN messages = 1..l
    BY Zenon, Queue
  <2>3. q \in [1..l -> MessageRecords]
    BY SMTT(30), SMTT(60), <1>2, <1>3, <2>1, <2>2
  <2> QED
    BY Zenon, <2>1, <2>2, <2>3, Listed
<1>5. redelivered' = [a \in Alerts |-> redelivered[a] +
              IF TRUE THEN Cardinality({m \in Batch(c) : messages[m].alert = a}) ELSE 0]
  BY Zenon DEF Crash, GiveBack, Batch
<1>6. /\ redelivered' \in [Alerts -> Nat]
      /\ \A a \in Alerts :
            redelivered'[a] = redelivered[a] +
                IF TRUE THEN Cardinality({m \in Batch(c) : messages[m].alert = a}) ELSE 0
  BY Zenon, <1>5, Recounted
<1> QED
  BY Zenon, <1>1, <1>3, <1>4, <1>6 DEF Returned, Kept

\* A retry is a message of the queue: its delay ends within the time that a
\* retry may take.
LEMMA RetryRecord ==
    ASSUME TypeOK, NEW c \in Containers, Shape(c), Fresh(c), container[c].pc = "retry",
           NEW i \in DOMAIN container[c].failed, NEW t \in MinDelay..(MaxDelay - 1),
           NEW v, v = Message(container[c].failed[i], now + t)
    PROVE  /\ v \in MessageRecords /\ v.alert = container[c].failed[i].alert
           /\ v.ids = container[c].failed[i].ids /\ v.state = "queued"
<1>1. PICK d \in Dispatches : d = container[c].failed[i] /\ d.alert \in Alerts /\ d.ids \in SUBSET Outputs
  BY Zenon, Fields, Elements DEF Dispatches
<1>2. container[c].started <= RetryDuration /\ now <= container[c].started + Timeout
  BY SMTT(30), SMTT(60) DEF Shape, Fresh
<1>3. /\ {RetryDuration, Timeout, MinDelay, MaxDelay, MaxReceives, MaxTime} \subseteq Nat
      /\ container[c].started \in 0..MaxTime /\ now \in 0..MaxTime
  BY Zenon, Fields, DeliveryAssumption DEF TypeOK
<1>4. now + t \in 0..(RetryDuration + Timeout + MaxDelay - 1) /\ 0 \in 0..MaxReceives
  BY SMTT(30), SMTT(60), <1>2, <1>3
<1>5. v = [alert |-> d.alert, ids |-> d.ids, at |-> now + t, receives |-> 0, state |-> "queued"]
  BY SMTT(30), SMTT(60), <1>1 DEF Message
<1> QED
  BY <1>1, <1>4, <1>5 DEF MessageRecords

\* FinishInvocation: the batch is settled and the accepted retries are queued.
LEMMA FinishEffect ==
    ASSUME TypeOK, NEW c \in Containers, Shape(c), Fresh(c),
           NEW accepted \in SUBSET (DOMAIN container[c].failed),
           NEW delay \in [accepted -> MinDelay..(MaxDelay - 1)], FinishInvocation(c, accepted, delay)
    PROVE  /\ container[c].pc = "retry" /\ Idled(c, container[c].cache) /\ PutBack(c, accepted)
           /\ \E failed \in BOOLEAN : Returned(c, failed)
<1>1. container[c].pc = "retry"
  BY Zenon DEF FinishInvocation
<1>2. Idled(c, container[c].cache)
  <2>1. PICK k \in Caches : k = container[c].cache
    BY Zenon, Fields
  <2>2. container' = [container EXCEPT ![c] = Idle(k)]
    BY Zenon, <2>1 DEF FinishInvocation
  <2> QED
    BY Zenon, <2>1, <2>2, IdledEffect
<1>3. PICK n \in Nat : DOMAIN container[c].failed = 1..n
  BY Fields, Elements
<1>4. PICK N \in Nat : /\ N = Cardinality(accepted)
                       /\ \A j \in 1..N : Nth(accepted, j) \in accepted
  BY Zenon, <1>3, Ranks
<1>5. PICK failed \in BOOLEAN : failed <=> Fails(container[c].batch)
  BY Zenon
<1>6. PICK retries : retries = [j \in 1..N |-> Message(container[c].failed[Nth(accepted, j)],
                                                       now + delay[Nth(accepted, j)])]
  BY Zenon
<1>7. PICK settled : settled = [m \in DOMAIN messages |->
                        IF m \notin Batch(c) THEN messages[m]
                        ELSE [messages[m] EXCEPT !.state =
                                CASE ~failed -> "deleted"
                                  [] failed /\ messages[m].receives = MaxReceives -> "dlq"
                                  [] OTHER -> "queued"]]
  BY Zenon
<1>8. messages' = settled \o retries
  BY Zenon, <1>4, <1>5, <1>6, <1>7 DEF FinishInvocation, Batch
<1>9. ASSUME NEW j \in 1..N
      PROVE  /\ retries[j] \in MessageRecords
             /\ retries[j].alert = container[c].failed[Nth(accepted, j)].alert
             /\ retries[j].ids = container[c].failed[Nth(accepted, j)].ids /\ retries[j].state = "queued"
  <2>1. PICK i \in DOMAIN container[c].failed : i = Nth(accepted, j) /\ i \in accepted
    BY <1>4
  <2>2. PICK t \in MinDelay..(MaxDelay - 1) : t = delay[i]
    BY Zenon, <2>1
  <2>3. PICK v : v = Message(container[c].failed[i], now + t)
    OBVIOUS
  <2>4. retries[j] = v
    BY Zenon, <1>6, <2>1, <2>2, <2>3
  <2>5. /\ v \in MessageRecords /\ v.alert = container[c].failed[i].alert
        /\ v.ids = container[c].failed[i].ids /\ v.state = "queued"
    BY Zenon, <1>1, <2>3, RetryRecord
  <2> QED
    BY Zenon, <2>1, <2>4, <2>5
<1>10. ASSUME NEW m \in DOMAIN messages
       PROVE  /\ settled[m] \in MessageRecords
              /\ settled[m].alert = messages[m].alert /\ settled[m].ids = messages[m].ids
              /\ IF m \in Batch(c)
                 THEN settled[m].state \in (IF failed THEN {"queued", "dlq"} ELSE {"deleted"})
                 ELSE settled[m].state = messages[m].state
  <2>1. PICK r \in MessageRecords : r = messages[m]
    BY Queue
  <2>2. CASE m \in Batch(c)
    <3>1. PICK s : /\ s = CASE ~failed -> "deleted"
                            [] failed /\ r.receives = MaxReceives -> "dlq" [] OTHER -> "queued"
                   /\ s \in (IF failed THEN {"queued", "dlq"} ELSE {"deleted"})
      OBVIOUS
    <3>2. PICK v : v = [r EXCEPT !.state = s]
      BY Zenon
    <3>3. v \in MessageRecords /\ v.alert = r.alert /\ v.ids = r.ids /\ v.state = s
      BY <3>1, <3>2 DEF MessageRecords
    <3>4. settled[m] = v
      BY <1>7, <2>1, <2>2, <3>1, <3>2
    <3> QED
      BY Zenon, <2>1, <2>2, <3>1, <3>3, <3>4
  <2>3. CASE m \notin Batch(c)
    BY Zenon, <1>7, <2>1, <2>3
  <2> QED
    BY <2>2, <2>3
<1>11. PICK l \in Nat : l = Len(messages) /\ DOMAIN messages = 1..l
  BY Zenon, Queue
<1>12. settled \in Seq(MessageRecords) /\ Len(settled) = l
  <2>1. settled \in [1..l -> MessageRecords]
    BY Zenon, <1>7, <1>10, <1>11
  <2> QED
    BY <2>1, Listed
<1>13. retries \in Seq(MessageRecords) /\ Len(retries) = N
  <2>1. retries \in [1..N -> MessageRecords]
    BY Zenon, <1>6, <1>9
  <2> QED
    BY Zenon, <2>1, Listed
<1>14. /\ messages' \in Seq(MessageRecords) /\ DOMAIN messages' = 1..(l + N)
       /\ \A m \in 1..l : messages'[m] = settled[m]
       /\ \A j \in 1..N : messages'[l + j] = retries[j]
  <2>1. PICK q : q = settled \o retries
    BY Zenon
  <2>2. /\ q \in Seq(MessageRecords) /\ Len(q) = l + N
        /\ \A i \in 1..(l + N) : q[i] = IF i <= l THEN settled[i] ELSE retries[i - l]
    BY Zenon, <1>12, <1>13, <2>1, Joint
  <2>3. DOMAIN q = 1..(l + N)
    BY <2>2, Elements
  <2>4. \A m \in 1..l : m \in 1..(l + N) /\ m <= l
    OBVIOUS
  <2>5. \A j \in 1..N : l + j \in 1..(l + N) /\ ~(l + j <= l) /\ (l + j) - l = j
    OBVIOUS
  <2> QED
    BY Zenon, <1>8, <2>1, <2>2, <2>3, <2>4, <2>5
<1>15. DOMAIN messages \subseteq DOMAIN messages'
  BY <1>11, <1>14
<1>16. PutBack(c, accepted)
  BY Zenon, <1>4, <1>9, <1>11, <1>14 DEF PutBack
<1>17. redelivered' = [a \in Alerts |-> redelivered[a] +
              IF failed THEN Cardinality({m \in Batch(c) : messages[m].alert = a}) ELSE 0]
  BY Zenon, <1>5 DEF FinishInvocation, Batch
<1>18. /\ redelivered' \in [Alerts -> Nat]
       /\ \A a \in Alerts :
            redelivered'[a] = redelivered[a] +
                IF failed THEN Cardinality({m \in Batch(c) : messages[m].alert = a}) ELSE 0
  BY Zenon, <1>17, Recounted
<1>19. Returned(c, failed)
  BY Zenon, <1>10, <1>11, <1>14, <1>15, <1>18 DEF Returned, Kept
<1> QED
  BY Zenon, <1>1, <1>2, <1>16, <1>19

-----------------------------------------------------------------------------
(* Types.                                                                  *)

Untimed == now' = now /\ outputs' = outputs /\ lastExisted' = lastExisted /\ changes' = changes

\* What one goroutine reports: it leaves the queue alone, and it changes the
\* history of the first alert and its output only.
LEMMA SendEffect ==
    ASSUME TypeOK, ShapeInv, NEW c \in Containers, NEW o \in Outputs,
           SendSucceeds(c, o) \/ SendFailsForGood(c, o) \/ SendFailsForNow(c, o)
    PROVE  /\ Untimed /\ UNCHANGED <<messages, redelivered, unconfigured, unsent>>
           /\ \E p \in Pairs, again \in SUBSET Outputs :
                 /\ p = <<Head(container[c].todo).alert, o>>
                 /\ Answered(c, o, again)
                 /\ \/ /\ again = container[c].again /\ transient' = transient \ {p}
                       /\ delivered' = delivered \/ delivered' = [delivered EXCEPT ![p] = @ + 1]
                    \/ /\ again = container[c].again \cup {o} /\ transient' = transient \cup {p}
                       /\ delivered' = delivered
<1>1. PICK A \in SUBSET Outputs : A = container[c].again
  BY Fields
<1>2. A \cup {o} \in SUBSET Outputs
  BY Zenon
<1>3. Status(c, o, A) \/ Status(c, o, A \cup {o})
  BY SMTT(30), SMTT(60), <1>1 DEF SendSucceeds, SendFailsForGood, SendFailsForNow
<1>4. Untimed /\ UNCHANGED <<messages, redelivered, unconfigured, unsent>> /\ container[c].pc = "send"
  BY Zenon, <1>3 DEF Status, Untimed, config
<1>5. PICK p \in Pairs : p = <<Head(container[c].todo).alert, o>>
  <2>1. container[c].todo # <<>>
    BY Zenon, <1>4 DEF ShapeInv, Shape
  <2>2. Head(container[c].todo).alert \in Alerts
    BY <2>1, Fields, FirstAlert
  <2> QED
    BY Zenon, <2>2 DEF Pairs
<1>6. CASE SendSucceeds(c, o)
  <2>1. Answered(c, o, A)
    BY Zenon, <1>1, <1>6, StatusEffect DEF SendSucceeds
  <2>2. transient' = transient \ {p} /\ delivered' = [delivered EXCEPT ![p] = @ + 1]
    BY Zenon, <1>5, <1>6 DEF SendSucceeds
  <2> QED
    BY Zenon, <1>1, <1>4, <1>5, <2>1, <2>2
<1>7. CASE SendFailsForGood(c, o)
  <2>1. Answered(c, o, A)
    BY Zenon, <1>1, <1>7, StatusEffect DEF SendFailsForGood
  <2>2. transient' = transient \ {p} /\ delivered' = delivered
    BY Zenon, <1>5, <1>7 DEF SendFailsForGood
  <2> QED
    BY Zenon, <1>1, <1>4, <1>5, <2>1, <2>2
<1>8. CASE SendFailsForNow(c, o)
  <2>1. Answered(c, o, A \cup {o})
    BY Zenon, <1>1, <1>2, <1>8, StatusEffect DEF SendFailsForNow
  <2>2. transient' = transient \cup {p} /\ delivered' = delivered
    BY <1>5, <1>8 DEF SendFailsForNow
  <2> QED
    BY Zenon, <1>1, <1>2, <1>4, <1>5, <2>1, <2>2
<1> QED
  BY Zenon, <1>6, <1>7, <1>8

-----------------------------------------------------------------------------
(* The shape of an invocation and the age of what it knows.                *)

\* A sequence of alerts goes on with "retry" exactly when it is empty.
LEMMA FollowingPhase ==
    ASSUME NEW s
    PROVE  /\ Following(s) # "idle" /\ Following(s) # "fetched" /\ Following(s) # "send"
           /\ Following(s) \in {"idle", "retry"} <=> s = <<>>
  BY Zenon DEF Following

\* The cache k is not younger than it says.
Aged(k) ==
    /\ k.at <= now
    /\ k.filled = TRUE => \A o \in k.outputs : k.at - lastExisted[o] <= Timeout

-----------------------------------------------------------------------------
Sound == TypeOK /\ ShapeInv /\ CacheInv

\* The alerts arrive in a sequence that holds each of them once.
LEMMA ArrivalsListed ==
    /\ Arrivals \in [1..Cardinality(Alerts) -> Alerts] /\ Cardinality(Alerts) \in Nat
    /\ \A a \in Alerts : \E m \in DOMAIN Arrivals : Arrivals[m] = a
    /\ \A m, n \in DOMAIN Arrivals : Arrivals[m] = Arrivals[n] => m = n
<1>1. IsFiniteSet(Alerts) /\ Cardinality(Alerts) \in Nat
  BY DeliveryAssumption, FS_CardinalityType
<1>2. PICK N \in Nat : N = Cardinality(Alerts)
  BY <1>1
<1>3. IsFiniteSet(1..N) /\ Cardinality(1..N) = N
  BY FS_Interval
<1>4. \E s \in [1..N -> Alerts] : \A a \in Alerts : \E m \in DOMAIN s : s[m] = a
  <2>1. PICK s : s \in Bijection(1..N, Alerts)
    BY <1>1, <1>2, <1>3, FS_SameCardinalityBij DEF ExistsBijection
  <2>2. s \in [1..N -> Alerts] /\ \A a \in Alerts : \E m \in 1..N : s[m] = a
    BY <2>1 DEF Bijection, Surjection
  <2> QED
    BY <2>2
<1>5. Arrivals \in [1..N -> Alerts] /\ \A a \in Alerts : \E m \in DOMAIN Arrivals : Arrivals[m] = a
  BY Zenon, <1>2, <1>4 DEF Arrivals
<1>6. Arrivals \in Surjection(1..N, Alerts)
  BY <1>5 DEF Surjection
<1>7. Arrivals \in Injection(1..N, Alerts)
  BY Zenon, <1>2, <1>3, <1>6, FS_Surjection
<1>8. \A m, n \in DOMAIN Arrivals : Arrivals[m] = Arrivals[n] => m = n
  BY <1>5, <1>7 DEF Injection, IsInjective
<1> QED
  BY Zenon, <1>1, <1>2, <1>5, <1>8

\* The first messages: one for each alert, with the outputs of the alert.
LEMMA FirstMessages ==
    ASSUME Init
    PROVE  /\ messages \in Seq(MessageRecords) /\ DOMAIN messages = DOMAIN Arrivals
           /\ \A m \in DOMAIN messages :
                 /\ messages[m].alert = Arrivals[m] /\ messages[m].ids = OutputIDs[Arrivals[m]]
                 /\ messages[m].state = "queued"
<1>1. PICK N \in Nat : Arrivals \in [1..N -> Alerts]
  BY ArrivalsListed
<1>2. messages = [m \in 1..N |->
                    Message([alert |-> Arrivals[m], ids |-> OutputIDs[Arrivals[m]]], 0)]
  BY Zenon, <1>1 DEF Init
<1>3. ASSUME NEW m \in 1..N
      PROVE  /\ messages[m] \in MessageRecords /\ messages[m].alert = Arrivals[m]
             /\ messages[m].ids = OutputIDs[Arrivals[m]] /\ messages[m].state = "queued"
  <2>1. /\ Arrivals[m] \in Alerts /\ OutputIDs[Arrivals[m]] \in SUBSET Outputs
    BY <1>1, DeliveryAssumption
  <2>2. /\ 0 \in 0..(RetryDuration + Timeout + MaxDelay - 1) /\ 0 \in 0..MaxReceives
    BY DeliveryAssumption
  <2>3. messages[m] = [alert |-> Arrivals[m], ids |-> OutputIDs[Arrivals[m]], at |-> 0,
                       receives |-> 0, state |-> "queued"]
    BY <1>2 DEF Message
  <2> QED
    BY <2>1, <2>2, <2>3 DEF MessageRecords
<1>4. messages \in Seq(MessageRecords) /\ DOMAIN messages = 1..N
  <2>1. PICK q : q = messages
    BY Zenon
  <2>2. q \in [1..N -> MessageRecords]
    BY Zenon, <1>2, <1>3, <2>1
  <2> QED
    BY <2>1, <2>2, Listed
<1> QED
  BY <1>1, <1>3, <1>4

\* The containers are idle and have no cache.
LEMMA FirstContainers ==
    ASSUME Init, NEW c \in Containers
    PROVE  /\ container[c] \in ContainerRecords
           /\ container[c].pc = "idle" /\ container[c].started = 0 /\ container[c].batch = <<>>
           /\ container[c].todo = <<>> /\ container[c].pending = {} /\ container[c].again = {}
           /\ container[c].failed = <<>> /\ container[c].cache = NoCache /\ container[c].at = 0
<1>1. NoCache \in Caches
  <2>1. 0 \in 0..MaxTime
    BY DeliveryAssumption
  <2> QED
    BY <2>1 DEF NoCache, Caches
<1>2. container[c] = Idle(NoCache)
  BY DEF Init
<1> QED
  BY <1>1, <1>2, IdleRecord

\* What holds at first.
LEMMA SoundInit == Init => Sound
<1> SUFFICES ASSUME Init PROVE Sound
  OBVIOUS
<1>1. MaxTime \in Nat /\ MaxChanges \in Nat /\ Timeout \in Nat
  BY Zenon, DeliveryAssumption
<1>2. now = 0 /\ outputs = Outputs /\ lastExisted = [o \in Outputs |-> 0] /\ changes = 0
  BY DEF Init
<1>3. container \in [Containers -> ContainerRecords]
  <2>1. container = [c \in Containers |-> Idle(NoCache)]
    BY Zenon DEF Init
  <2> QED
    BY Zenon, <2>1, FirstContainers
<1>4. TypeOK
  <2>1. now \in 0..MaxTime /\ outputs \subseteq Outputs /\ changes \in 0..MaxChanges
    BY <1>1, <1>2
  <2>2. lastExisted \in [Outputs -> -1..MaxTime]
    BY <1>1, <1>2
  <2>3. messages \in Seq(MessageRecords)
    BY FirstMessages
  <2>4. /\ delivered \in [Pairs -> Nat] /\ redelivered \in [Alerts -> Nat] /\ transient \subseteq Pairs
        /\ expired \subseteq Alerts /\ unconfigured \subseteq Pairs /\ unsent \subseteq Alerts
    BY Zenon DEF Init
  <2> QED
    BY <1>3, <2>1, <2>2, <2>3, <2>4 DEF TypeOK, ContainerRecords, Phases
<1>5. ShapeInv
  BY FirstContainers DEF ShapeInv, Shape
<1>6. CacheInv
  <2>1. NoCache.filled = FALSE /\ NoCache.at = 0
    BY Zenon DEF NoCache
  <2>2. ASSUME NEW c \in Containers PROVE Fresh(c)
    BY <1>2, <2>1, FirstContainers DEF Fresh
  <2> QED
    BY <1>2, <2>2 DEF CacheInv
<1> QED
  BY Zenon, <1>4, <1>5, <1>6 DEF Sound

\* Every step keeps it.
LEMMA SoundStep ==
    ASSUME Sound, [Next]_vars
    PROVE  Sound'

\* A step of a container that keeps the types of what it changes.
<1>TypeFrom. ASSUME TypeOK, Untimed, container' \in [Containers -> ContainerRecords],
                    messages' \in Seq(MessageRecords), delivered' \in [Pairs -> Nat],
                    redelivered' \in [Alerts -> Nat], transient' \in SUBSET Pairs, expired' \in SUBSET Alerts,
                    unconfigured' \in SUBSET Pairs, unsent' \in SUBSET Alerts
             PROVE  TypeOK'
  BY Zenon, <1>TypeFrom DEF TypeOK, Untimed, ContainerRecords, Phases

\* The types of what a step of a container may change.
<1>HistoryTypes.
      ASSUME TypeOK
      PROVE  /\ messages \in Seq(MessageRecords) /\ delivered \in [Pairs -> Nat]
             /\ redelivered \in [Alerts -> Nat] /\ transient \in SUBSET Pairs
             /\ expired \in SUBSET Alerts /\ unconfigured \in SUBSET Pairs /\ unsent \in SUBSET Alerts
  BY Zenon, <1>HistoryTypes DEF TypeOK

\* The batch goes on, and only alerts are given up.
<1>RetriedTypes.
      ASSUME TypeOK, NEW c \in Containers, NEW k, NEW d \in Dispatches,
             Done(c, k, d) \/ Retried(c, k, d)
      PROVE  container' \in [Containers -> ContainerRecords] /\ expired' \in SUBSET Alerts
  <2> USE <1>RetriedTypes
  <2>1. d.alert \in Alerts /\ expired \in SUBSET Alerts
    BY DEF Dispatches, TypeOK
  <2> QED
    BY Zenon, <2>1 DEF Done, Retried, Ended, GoesOn

\* Receive keeps the types.
<1>ReceiveType.
      ASSUME TypeOK, NEW c \in Containers, NEW batch \in Batches, Receive(c, batch)
      PROVE  TypeOK'
  <2> USE <1>ReceiveType
  <2>1. PICK todo : Taken(c, batch, todo)
    BY ReceiveEffect
  <2>2. container' \in [Containers -> ContainerRecords] /\ messages' \in Seq(MessageRecords)
    BY Zenon, <2>1 DEF Taken, Kept
  <2>3. Untimed /\ UNCHANGED history
    BY Zenon DEF Receive, Untimed, config
  <2> QED
    BY <2>2, <2>3, <1>HistoryTypes, <1>TypeFrom DEF history

\* FetchOutputs keeps the types.
<1>FetchType. ASSUME TypeOK, NEW c \in Containers, FetchOutputs(c)
              PROVE  TypeOK'
  <2> USE <1>FetchType
  <2>1. container' \in [Containers -> ContainerRecords]
    BY Zenon, FetchEffect DEF Fetched, GoesOn
  <2>2. Untimed /\ UNCHANGED <<messages, history>>
    BY DEF FetchOutputs, Untimed, config
  <2> QED
    BY <2>1, <2>2, <1>HistoryTypes, <1>TypeFrom DEF history

\* Dispatch keeps the types.
<1>DispatchType.
      ASSUME TypeOK, ShapeInv, NEW c \in Containers, Dispatch(c)
      PROVE  TypeOK'
  <2> USE <1>DispatchType
  <2>1. PICK k \in Caches, T \in SUBSET Outputs, d \in Dispatches : Dispatched(c, k, T, d)
    BY Zenon, DispatchEffect
  <2>2. container' \in [Containers -> ContainerRecords] /\ expired' \in SUBSET Alerts
    <3>1. CASE Sent(c, k, T) /\ expired' = expired
      BY <3>1, <1>HistoryTypes DEF Sent, GoesOn
    <3>2. CASE Done(c, k, d)
      BY Zenon, <3>2, <1>RetriedTypes
    <3> QED
      BY Zenon, <2>1, <3>1, <3>2 DEF Dispatched
  <2>3. unconfigured' \in SUBSET Pairs
    <3>1. d.alert \in Alerts /\ Wanted(d) \in SUBSET Outputs
      BY Zenon, DeliveryAssumption DEF Dispatches, Wanted
    <3>2. unconfigured' = unconfigured \cup {<<d.alert, o>> : o \in Wanted(d) \ T}
      BY SMTT(30), SMTT(60), <2>1 DEF Dispatched
    <3> QED
      BY <3>1, <3>2, <1>HistoryTypes DEF Pairs
  <2>4. Untimed /\ UNCHANGED <<messages, delivered, redelivered, transient, unsent>>
    BY DEF Dispatch, Untimed, config
  <2> QED
    BY Zenon, <2>2, <2>3, <2>4, <1>HistoryTypes, <1>TypeFrom

\* DispatchFails keeps the types.
<1>DispatchFailsType.
      ASSUME TypeOK, ShapeInv, NEW c \in Containers, DispatchFails(c)
      PROVE  TypeOK'
  <2> USE <1>DispatchFailsType
  <2>1. container' \in [Containers -> ContainerRecords] /\ expired' \in SUBSET Alerts
    <3>1. PICK k : k = container[c].cache
      OBVIOUS
    <3>2. PICK d \in Dispatches : Retried(c, k, d)
      BY Zenon, <3>1, DispatchFailsEffect
    <3> QED
      BY <3>2, <1>RetriedTypes
  <2>2. Untimed /\ UNCHANGED <<messages, delivered, redelivered, transient, unconfigured, unsent>>
    BY Zenon DEF DispatchFails, Untimed, config
  <2> QED
    BY Zenon, <2>1, <2>2, <1>HistoryTypes, <1>TypeFrom

\* The report of a goroutine keeps the types.
<1>SendType. ASSUME TypeOK, ShapeInv, NEW c \in Containers, NEW o \in Outputs,
                    SendSucceeds(c, o) \/ SendFailsForGood(c, o) \/ SendFailsForNow(c, o)
             PROVE  TypeOK'
  <2> USE <1>SendType
  <2>1. PICK p \in Pairs, again \in SUBSET Outputs :
            /\ Answered(c, o, again)
            /\ transient' \in {transient \ {p}, transient \cup {p}}
            /\ delivered' = delivered \/ delivered' = [delivered EXCEPT ![p] = @ + 1]
    BY SendEffect
  <2>2. transient' \in SUBSET Pairs /\ delivered' \in [Pairs -> Nat]
    <3>1. delivered \in [Pairs -> Nat] /\ delivered[p] + 1 \in Nat
      BY <1>HistoryTypes
    <3> QED
      BY <2>1, <3>1, <1>HistoryTypes
  <2>3. container' \in [Containers -> ContainerRecords] /\ expired' \in SUBSET Alerts
    <3>1. PICK k : k = container[c].cache
      BY Zenon
    <3>2. CASE Reported(c, o, again) /\ expired' = expired
      BY Zenon, <3>2, <1>HistoryTypes DEF Reported, GoesOn
    <3>3. CASE \E d \in Dispatches : Done(c, k, d) \/ Retried(c, k, d)
      BY Zenon, <3>3, <1>RetriedTypes
    <3>4. container[c].todo # <<>> => Head(container[c].todo) \in Dispatches
      BY Zenon, Fields, FirstAlert
    <3> QED
      BY Zenon, <2>1, <3>1, <3>2, <3>3, <3>4 DEF Answered
  <2>4. Untimed /\ UNCHANGED <<messages, redelivered, unconfigured, unsent>>
    BY SendEffect
  <2> QED
    BY Zenon, <2>2, <2>3, <2>4, <1>HistoryTypes, <1>TypeFrom

\* FinishInvocation keeps the types.
<1>FinishType.
      ASSUME TypeOK, NEW c \in Containers, Shape(c), Fresh(c),
             NEW accepted \in SUBSET (DOMAIN container[c].failed),
             NEW delay \in [accepted -> MinDelay..(MaxDelay - 1)], FinishInvocation(c, accepted, delay)
      PROVE  TypeOK'
  <2> USE <1>FinishType
  <2>1. Idled(c, container[c].cache) /\ \E failed \in BOOLEAN : Returned(c, failed)
    BY Zenon, FinishEffect
  <2>2. /\ container' \in [Containers -> ContainerRecords] /\ messages' \in Seq(MessageRecords)
        /\ redelivered' \in [Alerts -> Nat]
    BY SMTT(30), SMTT(60), <2>1 DEF Idled, Returned, Kept
  <2>3. unsent' \in SUBSET Alerts
    <3>1. unsent' = unsent \cup {container[c].failed[i].alert : i \in DOMAIN container[c].failed \ accepted}
      BY SMTT(30), SMTT(60) DEF FinishInvocation
    <3>2. \A i \in DOMAIN container[c].failed : container[c].failed[i] \in Dispatches
      BY Zenon, Fields, Elements
    <3>3. \A i \in DOMAIN container[c].failed : container[c].failed[i].alert \in Alerts
      BY Zenon, <3>2 DEF Dispatches
    <3> QED
      BY Zenon, <3>1, <3>3, <1>HistoryTypes
  <2>4. Untimed /\ UNCHANGED <<delivered, transient, expired, unconfigured>>
    BY Zenon DEF FinishInvocation, Untimed, config
  <2> QED
    BY Zenon, <2>2, <2>3, <2>4, <1>HistoryTypes, <1>TypeFrom

\* Crash keeps the types.
<1>CrashType. ASSUME TypeOK, NEW c \in Containers, Crash(c)
              PROVE  TypeOK'
  <2> USE <1>CrashType
  <2>1. /\ container' \in [Containers -> ContainerRecords] /\ messages' \in Seq(MessageRecords)
        /\ redelivered' \in [Alerts -> Nat]
    BY CrashEffect DEF Idled, Returned, Kept
  <2>2. Untimed /\ UNCHANGED <<delivered, transient, expired, unconfigured, unsent>>
    BY DEF Crash, Untimed, config
  <2> QED
    BY <2>1, <2>2, <1>HistoryTypes, <1>TypeFrom

\* The users and the clock keep the types.
<1>OutsideType.
      ASSUME TypeOK, (\E o \in Outputs : ChangeOutput(o)) \/ Tick
      PROVE  TypeOK'
  <2> USE <1>OutsideType
  <2>1. MaxTime \in Nat /\ MaxChanges \in Nat
    BY DeliveryAssumption
  <2>2. ASSUME NEW o \in Outputs, ChangeOutput(o) PROVE TypeOK'
    <3>1. changes' \in 0..MaxChanges
      BY <2>1, <2>2 DEF ChangeOutput, TypeOK
    <3>2. outputs' \subseteq Outputs /\ now \in -1..MaxTime
      BY <2>1, <2>2 DEF ChangeOutput, TypeOK
    <3>3. lastExisted' \in [Outputs -> -1..MaxTime]
      BY Zenon, <2>2, <3>2 DEF ChangeOutput, TypeOK
    <3> QED
      BY Zenon, <2>2, <3>1, <3>2, <3>3 DEF ChangeOutput, TypeOK, history
  <2>3. ASSUME Tick PROVE TypeOK'
    <3>1. now' \in 0..MaxTime /\ now + 1 \in -1..MaxTime
      BY <2>1, <2>3 DEF Tick, TypeOK
    <3>2. lastExisted' \in [Outputs -> -1..MaxTime]
      BY <2>3, <3>1 DEF Tick, TypeOK
    <3> QED
      BY Zenon, <2>3, <3>1, <3>2 DEF Tick, TypeOK, history
  <2> QED
    BY Zenon, <2>2, <2>3

\* Only c moves.
<1>ShapeFrom. ASSUME ShapeInv, NEW c \in Containers, Same(c), Shape(c)'
              PROVE  ShapeInv'
  <2> USE <1>ShapeFrom
  <2>1. ASSUME NEW x \in Containers \ {c} PROVE Shape(x)'
    <3>1. container'[x] = container[x] /\ Shape(x)
      BY DEF Same, ShapeInv
    <3> QED
      BY Zenon, <3>1 DEF Shape
  <2> QED
    BY <2>1 DEF ShapeInv

\* Only c moves, and it does so at one moment.
<1>CacheFrom. ASSUME CacheInv, NEW c \in Containers, Untimed, Same(c), Fresh(c)'
              PROVE  CacheInv'
  <2> USE <1>CacheFrom
  <2>1. ASSUME NEW x \in Containers \ {c} PROVE Fresh(x)'
    <3>1. container'[x] = container[x] /\ now' = now /\ lastExisted' = lastExisted /\ Fresh(x)
      BY DEF Same, CacheInv, Untimed
    <3> QED
      BY Zenon, <3>1 DEF Fresh
  <2>2. \A o \in Outputs : lastExisted'[o] <= now' /\ (o \in outputs' => lastExisted'[o] = now')
    BY Zenon DEF CacheInv, Untimed
  <2> QED
    BY Zenon, <2>1, <2>2 DEF CacheInv

\* An invocation that is done with an alert.
<1>EndedShape.
      ASSUME TypeOK, NEW c \in Containers, Shape(c), Fresh(c), container[c].pc # "idle",
             NEW k, Aged(k), NEW d, Done(c, k, d) \/ Retried(c, k, d)
      PROVE  Same(c) /\ Shape(c)' /\ (Untimed => Fresh(c)')
  <2> USE <1>EndedShape
  <2>1. PICK r \in BOOLEAN : Ended(c, k, d, r) /\ (r => now <= RetryDuration)
    BY Zenon DEF Done, Retried
  <2>2. r => container[c].started <= RetryDuration
    <3>1. now \in Int /\ container[c].started \in Int /\ RetryDuration \in Int
      <4>1. /\ now \in 0..MaxTime /\ container[c].started \in 0..MaxTime
            /\ {RetryDuration, MaxTime} \subseteq Nat
        BY Zenon, Fields, DeliveryAssumption DEF TypeOK
      <4> HIDE <1>EndedShape
      <4> QED
        BY SMTT(30), SMTT(60), <4>1
    <3> QED
      <4>1. container[c].started <= now /\ (r => now <= RetryDuration)
        BY Zenon, <2>1 DEF Fresh
      <4> QED
        BY SMTT(30), SMTT(60), <3>1, <4>1
  <2>3. PICK f : f = Following(container'[c].todo)
    BY Zenon
  <2>4. /\ f # "idle" /\ f # "fetched" /\ f # "send"
        /\ f \in {"idle", "retry"} <=> container'[c].todo = <<>>
    BY Zenon, <2>3, FollowingPhase
  <2>5. /\ Same(c) /\ container'[c].started = container[c].started /\ container'[c].pc = f
        /\ container'[c].pending = {} /\ container'[c].again = {} /\ container'[c].at = container[c].at
        /\ container'[c].cache = k
        /\ container'[c].failed = container[c].failed \/ r
    <3>1. /\ Same(c) /\ container'[c].started = container[c].started
          /\ container'[c].pending = {} /\ container'[c].again = {}
          /\ container'[c].at = container[c].at /\ container'[c].cache = k
      BY Zenon, <2>1 DEF Ended, GoesOn
    <3>2. container'[c].pc = f
      BY Zenon, <2>1, <2>3 DEF Ended
    <3>3. container'[c].failed = container[c].failed \/ r
      BY Zenon, <2>1 DEF Ended
    <3> QED
      BY Zenon, <3>1, <3>2, <3>3
  <2>6. Shape(c)'
    BY Zenon, <2>2, <2>4, <2>5 DEF Shape
  <2>7. ASSUME Untimed PROVE Fresh(c)'
    BY Zenon, <2>4, <2>5, <2>7 DEF Fresh, Aged, Untimed
  <2> QED
    BY Zenon, <2>5, <2>6, <2>7

\* A step that leaves the container idle, with a cache that was in use or none.
<1>IdledShape.
      ASSUME TypeOK, NEW c \in Containers, NEW k, Aged(k), Idled(c, k)
      PROVE  Same(c) /\ Shape(c)' /\ (Untimed => Fresh(c)')
  <2> USE <1>IdledShape
  <2>1. Same(c) /\ Shape(c)'
    BY DEF Idled, Shape
  <2>2. 0 <= now
    BY DEF TypeOK
  <2>3. ASSUME Untimed PROVE Fresh(c)'
    <3>1. /\ container'[c].pc = "idle" /\ container'[c].started = 0 /\ container'[c].at = 0
          /\ container'[c].pending = {} /\ container'[c].cache = k
      BY Zenon DEF Idled
    <3>2. container'[c].pc # "fetched"
      BY Zenon, <3>1
    <3> QED
      BY Zenon, <2>2, <2>3, <3>1, <3>2 DEF Fresh, Aged, Untimed
  <2> QED
    BY Zenon, <2>1, <2>3

\* The cache of a container, and the empty one.
<1>CacheAged. ASSUME TypeOK, NEW c \in Containers, Fresh(c)
              PROVE  Aged(container[c].cache) /\ Aged(NoCache)
  <2> USE <1>CacheAged
  <2>1. 0 <= now
    BY DEF TypeOK
  <2> QED
    BY Zenon, <2>1 DEF Fresh, Aged, NoCache

\* The cache that Dispatch uses was filled no longer than Timeout ago.
<1>DispatchedCache.
      ASSUME TypeOK, NEW c \in Containers, Fresh(c), NEW k \in Caches, NEW T, NEW d,
             Dispatched(c, k, T, d)
      PROVE  Aged(k) /\ now - k.at <= RefreshInterval
  <2> USE <1>DispatchedCache
  <2>1. /\ now \in Int /\ Timeout \in Int /\ RefreshInterval \in Nat /\ k.at \in Int
        /\ container[c].started \in Int
    BY SMTT(30), SMTT(60), Fields, DeliveryAssumption DEF TypeOK, Caches
  <2>2. CASE container[c].pc = "fetched" /\ k.at = now
    <3>1. \A o \in k.outputs : /\ lastExisted[o] \in Int /\ container[c].started <= lastExisted[o]
      <4>1. k.outputs = container[c].cache.outputs
        BY Zenon DEF Dispatched
      <4>2. \A o \in Outputs : lastExisted[o] \in Int
        BY DEF TypeOK
      <4> QED
        BY Zenon, <2>2, <4>1, <4>2, Fields DEF Fresh
    <3>2. now <= container[c].started + Timeout
      BY Zenon, <2>2 DEF Fresh
    <3>3. \A o \in k.outputs : k.at - lastExisted[o] <= Timeout
      BY <2>1, <2>2, <3>1, <3>2
    <3>4. k.at <= now /\ now - k.at <= RefreshInterval
      BY <2>1, <2>2
    <3> QED
      BY Zenon, <3>3, <3>4 DEF Aged
  <2>3. CASE k = container[c].cache /\ ~(now - k.at > RefreshInterval)
    <3>1. now - k.at <= RefreshInterval
      BY <2>1, <2>3
    <3> QED
      BY Zenon, <2>3, <3>1, <1>CacheAged
  <2> QED
    BY Zenon, <2>2, <2>3 DEF Dispatched

\* Receive.
<1>ReceiveShape.
      ASSUME TypeOK, NEW c \in Containers, Fresh(c), NEW batch \in Batches, Receive(c, batch)
      PROVE  Same(c) /\ Shape(c)' /\ Untimed /\ Fresh(c)'
  <2> USE <1>ReceiveShape
  <2>1. PICK todo : Taken(c, batch, todo)
    BY ReceiveEffect
  <2>2. PICK f : f = Following(todo)
    OBVIOUS
  <2>3. /\ f # "idle" /\ f # "fetched" /\ f # "send"
        /\ f \in {"idle", "retry"} <=> todo = <<>>
    BY <2>2, FollowingPhase
  <2>4. Same(c) /\ Shape(c)'
    BY Zenon, <2>1, <2>2, <2>3 DEF Taken, Shape
  <2>5. Untimed
    BY Zenon DEF Receive, Untimed, config
  <2>6. now <= now /\ 0 <= now /\ now <= now + Timeout
    BY SMTT(30), SMTT(60), DeliveryAssumption DEF TypeOK
  <2>7. /\ container'[c].pc = f /\ container'[c].started = now /\ container'[c].pending = {}
        /\ container'[c].cache = container[c].cache /\ container'[c].at = 0
    BY SMTT(30), SMTT(60), <2>1, <2>2 DEF Taken
  <2>8. Fresh(c)'
    BY Zenon, <2>3, <2>5, <2>6, <2>7 DEF Fresh, Untimed
  <2> QED
    BY Zenon, <2>4, <2>5, <2>8

\* FetchOutputs: every output that is fetched is configured at that moment.
<1>FetchShape.
      ASSUME TypeOK, CacheInv, NEW c \in Containers, Shape(c), FetchOutputs(c)
      PROVE  Same(c) /\ Shape(c)' /\ Untimed /\ Fresh(c)'
  <2> USE <1>FetchShape
  <2>1. Fetched(c) /\ container[c].pc = "dispatch" /\ Untimed
    BY Zenon, FetchEffect DEF FetchOutputs, Untimed, config
  <2>2. Same(c) /\ Shape(c)'
    BY Zenon, <2>1 DEF Fetched, GoesOn, Shape
  <2>3. /\ container'[c].pc = "fetched" /\ container'[c].started = container[c].started
        /\ container'[c].pending = {} /\ container'[c].at = container[c].at
        /\ container'[c].cache.filled = FALSE /\ container'[c].cache.outputs = outputs
        /\ container'[c].cache.at = 0
    BY Zenon, <2>1 DEF Fetched, GoesOn, Shape
  <2>4. Fresh(c) /\ 0 <= now
    BY DEF TypeOK, CacheInv
  <2>5. \A o \in outputs : lastExisted[o] = now
    BY Zenon DEF TypeOK, CacheInv
  <2>6. container[c].started <= now /\ container[c].at <= now /\ now <= container[c].started + Timeout
    BY SMTT(30), SMTT(60), <2>1, <2>4 DEF Fresh
  <2>7. \A o \in outputs : container[c].started <= lastExisted[o]
    BY Zenon, <2>5, <2>6
  <2>8. Fresh(c)'
    BY Zenon, <2>1, <2>3, <2>4, <2>6, <2>7 DEF Fresh, Untimed
  <2> QED
    BY Zenon, <2>1, <2>2, <2>8

\* Dispatch.
<1>DispatchShape.
      ASSUME TypeOK, ShapeInv, CacheInv, NEW c \in Containers, Dispatch(c)
      PROVE  Same(c) /\ Shape(c)' /\ Untimed /\ Fresh(c)'
  <2> USE <1>DispatchShape
  <2>1. PICK k \in Caches, T \in SUBSET Outputs, d \in Dispatches : Dispatched(c, k, T, d)
    BY Zenon, DispatchEffect
  <2>2. Shape(c) /\ Fresh(c) /\ Untimed /\ container[c].pc \in {"fetched", "dispatch"}
    BY Zenon, <2>1 DEF ShapeInv, CacheInv, Dispatch, Untimed, config, Dispatched
  <2>3. Aged(k) /\ now - k.at <= RefreshInterval
    BY Zenon, <2>1, <2>2, <1>DispatchedCache
  <2>4. CASE T # {} /\ Sent(c, k, T)
    <3>1. /\ T \subseteq k.outputs /\ T \subseteq Wanted(Head(container[c].todo)) /\ k.filled = TRUE
          /\ container[c].todo # <<>>
      BY Zenon, <2>1 DEF Dispatched
    <3>2. Same(c) /\ Shape(c)'
      BY Zenon, <2>2, <2>4, <3>1 DEF Sent, GoesOn, Shape
    <3>3. /\ container'[c].pc = "send" /\ container'[c].started = container[c].started
          /\ container'[c].pending = T /\ container'[c].cache = k /\ container'[c].at = now
      BY Zenon, <2>4 DEF Sent, GoesOn
    <3>4. /\ container[c].started <= now /\ now <= container[c].started + Timeout /\ now <= now
      BY SMTT(30), SMTT(60), <2>2 DEF Fresh, TypeOK
    <3>5. container'[c].pc # "fetched"
      BY <3>3
    <3>6. Fresh(c)'
      BY Zenon, <2>2, <2>3, <3>1, <3>3, <3>4, <3>5 DEF Fresh, Aged, Untimed
    <3> QED
      BY Zenon, <2>2, <3>2, <3>6
  <2>5. CASE Done(c, k, d)
    <3>1. container[c].pc # "idle"
      BY Zenon, <2>2
    <3> QED
      BY Zenon, <2>2, <2>3, <2>5, <3>1, <1>EndedShape
  <2> QED
    BY Zenon, <2>1, <2>4, <2>5 DEF Dispatched

\* DispatchFails.
<1>DispatchFailsShape.
      ASSUME TypeOK, ShapeInv, CacheInv, NEW c \in Containers, DispatchFails(c)
      PROVE  Same(c) /\ Shape(c)' /\ Untimed /\ Fresh(c)'
  <2> USE <1>DispatchFailsShape
  <2>1. Shape(c) /\ Fresh(c) /\ Untimed
    BY Zenon DEF ShapeInv, CacheInv, DispatchFails, Untimed, config
  <2>2. PICK k : k = container[c].cache /\ Aged(k)
    BY SMTT(30), SMTT(60), <2>1, <1>CacheAged
  <2>3. container[c].pc # "idle" /\ \E d \in Dispatches : Retried(c, k, d)
    BY Zenon, <2>2, DispatchFailsEffect
  <2> QED
    BY Zenon, <2>1, <2>2, <2>3, <1>EndedShape

\* The report of a goroutine.
<1>SendShape. ASSUME TypeOK, ShapeInv, CacheInv, NEW c \in Containers, NEW o \in Outputs,
                     SendSucceeds(c, o) \/ SendFailsForGood(c, o) \/ SendFailsForNow(c, o)
              PROVE  Same(c) /\ Shape(c)' /\ Untimed /\ Fresh(c)'
  <2> USE <1>SendShape
  <2>1. PICK again \in SUBSET Outputs :
            /\ Answered(c, o, again)
            /\ again = container[c].again \/ again = container[c].again \cup {o}
    BY SendEffect
  <2>2. Shape(c) /\ Fresh(c) /\ Untimed
    BY SendEffect DEF ShapeInv, CacheInv
  <2>3. CASE container[c].pending # {o} /\ Reported(c, o, again)
    <3>1. container[c].pc = "send" /\ o \in container[c].pending /\ container[c].todo # <<>>
      BY SMTT(30), SMTT(60), <2>1 DEF Answered
    <3>2. container[c].pending \ {o} # {}
      BY Zenon, <2>3, <3>1
    <3>3. Same(c) /\ Shape(c)'
      BY Zenon, <2>1, <2>2, <2>3, <3>1, <3>2 DEF Reported, GoesOn, Shape
    <3>4. /\ container'[c].pc = "send" /\ container'[c].started = container[c].started
          /\ container'[c].pending \subseteq container[c].pending
          /\ container'[c].cache = container[c].cache /\ container'[c].at = container[c].at
      BY Zenon, <2>3 DEF Reported, GoesOn
    <3>5. Fresh(c)'
      BY Zenon, <2>2, <3>1, <3>4 DEF Fresh, Untimed
    <3> QED
      BY Zenon, <2>2, <3>3, <3>5
  <2>4. CASE \E d : Done(c, container[c].cache, d) \/ Retried(c, container[c].cache, d)
    <3>1. PICK k : k = container[c].cache /\ Aged(k)
      BY Zenon, <2>2, <1>CacheAged
    <3>2. container[c].pc # "idle" /\ \E d : Done(c, k, d) \/ Retried(c, k, d)
      BY Zenon, <2>1, <2>4, <3>1 DEF Answered
    <3> QED
      BY Zenon, <2>2, <3>1, <3>2, <1>EndedShape
  <2> QED
    BY Zenon, <2>1, <2>3, <2>4 DEF Answered

\* FinishInvocation and Crash.
<1>EndShape. ASSUME TypeOK, ShapeInv, CacheInv, NEW c \in Containers,
                    Crash(c) \/ \E accepted \in SUBSET (DOMAIN container[c].failed) :
                       \E delay \in [accepted -> MinDelay..(MaxDelay - 1)] : FinishInvocation(c, accepted, delay)
             PROVE  Same(c) /\ Shape(c)' /\ Untimed /\ Fresh(c)'
  <2> USE <1>EndShape
  <2>1. Shape(c) /\ Fresh(c) /\ Untimed
    BY Zenon DEF ShapeInv, CacheInv, Crash, FinishInvocation, Untimed, config
  <2>2. PICK k : Aged(k) /\ Idled(c, k)
    BY Zenon, <2>1, <1>CacheAged, CrashEffect, FinishEffect
  <2> QED
    BY Zenon, <2>1, <2>2, <1>IdledShape

\* The outputs change and time passes: what was known gets older, and
\* lastExisted is never set back.
<1>OutsideCache.
      ASSUME TypeOK, CacheInv, (\E o \in Outputs : ChangeOutput(o)) \/ Tick
      PROVE  CacheInv' /\ container' = container
  <2> USE <1>OutsideCache
  <2>1. /\ now \in Int /\ Timeout \in Int
        /\ \A o \in Outputs : lastExisted[o] \in Int /\ lastExisted[o] <= now
    BY DeliveryAssumption DEF TypeOK, CacheInv
  <2>2. /\ container' = container /\ now' \in Int /\ now <= now'
        /\ \A o \in Outputs : /\ lastExisted'[o] \in Int /\ lastExisted[o] <= lastExisted'[o]
                              /\ lastExisted'[o] <= now' /\ (o \in outputs' => lastExisted'[o] = now')
        /\ \A c \in Containers : container[c].pc # "idle" => now' <= container[c].started + Timeout
    <3>1. \A c \in Containers : Fresh(c) /\ container[c].started \in Int
      BY Fields DEF CacheInv
    <3>2. ASSUME NEW o \in Outputs, ChangeOutput(o)
          PROVE  /\ container' = container /\ now' \in Int /\ now <= now'
                 /\ \A x \in Outputs :
                       /\ lastExisted'[x] \in Int /\ lastExisted[x] <= lastExisted'[x]
                       /\ lastExisted'[x] <= now' /\ (x \in outputs' => lastExisted'[x] = now')
                 /\ \A c \in Containers : container[c].pc # "idle" => now' <= container[c].started + Timeout
      <4>1. container' = container /\ now' = now /\ lastExisted' = [lastExisted EXCEPT ![o] = now]
        BY <3>2 DEF ChangeOutput
      <4>2. \A x \in Outputs : lastExisted'[x] = IF x = o THEN now ELSE lastExisted[x]
        BY Zenon, <4>1 DEF TypeOK
      <4>3. \A x \in Outputs : x \in outputs' /\ x # o => x \in outputs
        BY <3>2 DEF ChangeOutput
      <4>4. \A x \in Outputs : x \in outputs => lastExisted[x] = now
        BY Zenon DEF CacheInv
      <4> QED
        BY <2>1, <3>1, <4>1, <4>2, <4>3, <4>4 DEF Fresh
    <3>3. ASSUME Tick
          PROVE  /\ container' = container /\ now' \in Int /\ now <= now'
                 /\ \A x \in Outputs :
                       /\ lastExisted'[x] \in Int /\ lastExisted[x] <= lastExisted'[x]
                       /\ lastExisted'[x] <= now' /\ (x \in outputs' => lastExisted'[x] = now')
                 /\ \A c \in Containers : container[c].pc # "idle" => now' <= container[c].started + Timeout
      <4>1. container' = container /\ now' = now + 1 /\ outputs' = outputs
        BY Zenon, <3>3 DEF Tick
      <4>2. \A x \in Outputs : lastExisted'[x] = IF x \in outputs THEN now + 1 ELSE lastExisted[x]
        BY <3>3 DEF Tick
      <4>3. \A c \in Containers : container[c].pc # "idle" => now < container[c].started + Timeout
        BY Zenon, <3>3 DEF Tick
      <4> QED
        BY <2>1, <3>1, <4>1, <4>2, <4>3
    <3> QED
      BY Zenon, <3>2, <3>3
  <2>3. ASSUME NEW c \in Containers PROVE Fresh(c)'
    <3>1. /\ container[c].started \in Int /\ container[c].at \in Int /\ container[c].cache.at \in Int
          /\ container[c].cache.outputs \in SUBSET Outputs
      BY Fields
    <3>2. Fresh(c)
      BY Zenon DEF CacheInv
    <3>3. /\ container[c].started <= now' /\ container[c].at <= now' /\ container[c].cache.at <= now'
      BY SMTT(30), SMTT(60), <2>1, <2>2, <3>1, <3>2 DEF Fresh
    <3>4. container[c].pc = "fetched" =>
              \A o \in container[c].cache.outputs : container[c].started <= lastExisted'[o]
      BY SMTT(30), SMTT(60), <2>1, <2>2, <3>1, <3>2 DEF Fresh
    <3>5. container[c].cache.filled = TRUE =>
              \A o \in container[c].cache.outputs : container[c].cache.at - lastExisted'[o] <= Timeout
      BY SMTT(30), SMTT(60), <2>1, <2>2, <3>1, <3>2 DEF Fresh
    <3> QED
      BY Zenon, <2>2, <3>2, <3>3, <3>4, <3>5 DEF Fresh
  <2> QED
    BY Zenon, <2>2, <2>3 DEF CacheInv
<1> USE DEF Sound
<1>1. ASSUME NEW c \in Containers, Same(c), Shape(c)', Untimed, Fresh(c)', TypeOK' PROVE Sound'
  BY Zenon, <1>1, <1>ShapeFrom, <1>CacheFrom
<1>2. ASSUME NEW c \in Containers, NEW batch \in Batches, Receive(c, batch) PROVE Sound'
  <2>1. Fresh(c)
    BY DEF CacheInv
  <2> QED
    BY Zenon, <1>1, <1>2, <2>1, <1>ReceiveType, <1>ReceiveShape
<1>3. ASSUME NEW c \in Containers, FetchOutputs(c) PROVE Sound'
  <2>1. Shape(c)
    BY Zenon DEF ShapeInv
  <2> QED
    BY Zenon, <1>1, <1>3, <2>1, <1>FetchType, <1>FetchShape
<1>4. ASSUME NEW c \in Containers, Dispatch(c) PROVE Sound'
  BY <1>1, <1>4, <1>DispatchType, <1>DispatchShape
<1>5. ASSUME NEW c \in Containers, DispatchFails(c) PROVE Sound'
  BY Zenon, <1>1, <1>5, <1>DispatchFailsType, <1>DispatchFailsShape
<1>6. ASSUME NEW c \in Containers, NEW o \in Outputs,
             SendSucceeds(c, o) \/ SendFailsForGood(c, o) \/ SendFailsForNow(c, o)
      PROVE  Sound'
  BY Zenon, <1>1, <1>6, <1>SendType, <1>SendShape
<1>7. ASSUME NEW c \in Containers, NEW accepted \in SUBSET (DOMAIN container[c].failed),
             NEW delay \in [accepted -> MinDelay..(MaxDelay - 1)], FinishInvocation(c, accepted, delay)
      PROVE  Sound'
  <2>1. Shape(c) /\ Fresh(c)
    BY DEF ShapeInv, CacheInv
  <2>2. TypeOK'
    BY Zenon, <1>7, <2>1, <1>FinishType
  <2> QED
    BY Zenon, <1>1, <1>7, <2>2, <1>EndShape
<1>8. ASSUME NEW c \in Containers, Crash(c) PROVE Sound'
  BY Zenon, <1>1, <1>8, <1>CrashType, <1>EndShape
<1>9. ASSUME (\E o \in Outputs : ChangeOutput(o)) \/ Tick PROVE Sound'
  <2>1. TypeOK' /\ CacheInv' /\ container' = container
    BY <1>9, <1>OutsideType, <1>OutsideCache
  <2> QED
    BY Zenon, <2>1 DEF ShapeInv, Shape
<1>10. ASSUME UNCHANGED vars PROVE Sound'
  <2>1. TypeOK'
    BY SMTT(30), SMTT(60), <1>10 DEF TypeOK, vars
  <2>2. container' = container /\ now' = now /\ outputs' = outputs /\ lastExisted' = lastExisted
    BY <1>10 DEF vars
  <2> QED
    BY Zenon, <2>1, <2>2 DEF ShapeInv, Shape, CacheInv, Fresh
<1> QED
  BY Zenon, <1>2, <1>3, <1>4, <1>5, <1>6, <1>7, <1>8, <1>9, <1>10 DEF Next, Advance

\* The values of the variables stay in their ranges: in particular a retry is
\* never put back with a time later than the retry duration, the timeout of the
\* invocation and the longest delay together.
THEOREM TypeCorrect == Spec => []TypeOK
<1>1. Sound /\ [Next]_vars => Sound'
  BY Zenon, SoundStep
<1>2. Sound => TypeOK
  BY DEF Sound
<1> QED
  BY <1>1, <1>2, SoundInit, PTL DEF Spec

\* An output that was deleted gets no alert dispatched later than the refresh
\* interval of the cache and the timeout of an invocation after its deletion.
THEOREM DeletedOutputsExpireHolds == Spec => []DeletedOutputsExpire

\* What the cache of a container means for the outputs it waits for.
<1>CacheSuffices. Sound => DeletedOutputsExpire
  <2> SUFFICES ASSUME Sound, NEW c \in Containers, NEW o \in container[c].pending
               PROVE  container[c].at - lastExisted[o] <= RefreshInterval + Timeout
    BY Zenon DEF DeletedOutputsExpire
  <2>1. Fresh(c) /\ o \in Outputs
    BY Zenon, Fields DEF Sound, CacheInv
  <2>2. /\ container[c].at \in Int /\ container[c].cache.at \in Int /\ lastExisted[o] \in Int
        /\ RefreshInterval \in Int /\ Timeout \in Int
    <3>1. TypeOK
      BY DEF Sound
    <3>2. container[c].at \in Int /\ container[c].cache.at \in Int
      BY <3>1, Fields
    <3>3. lastExisted[o] \in Int
      BY <2>1, <3>1 DEF TypeOK
    <3> QED
      BY <3>2, <3>3, DeliveryAssumption
  <2>3. /\ container[c].at - container[c].cache.at <= RefreshInterval
        /\ container[c].cache.at - lastExisted[o] <= Timeout
    BY <2>1 DEF Fresh
  <2> QED
    BY <2>2, <2>3
<1>1. Sound /\ [Next]_vars => Sound'
  BY SoundStep
<1> QED
  BY <1>1, SoundInit, <1>CacheSuffices, PTL DEF Spec
=============================================================================
