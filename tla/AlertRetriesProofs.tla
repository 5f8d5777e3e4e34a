------------------------- MODULE AlertRetriesProofs -------------------------
(***************************************************************************)
(* What AlertDelivery owes an output, for any number of containers, alerts *)
(* and outputs.  HeldInv says which messages the containers hold and that  *)
(* what they carry was asked for; TransientInv that an output whose last   *)
(* attempt failed transiently is owed a delivery by a message or by a      *)
(* container, or was given up; OnceInv that what was delivered of an alert *)
(* to an output and what may still be is one delivery, and one more for    *)
(* each time a message of the alert became visible again.                  *)
(***************************************************************************)
EXTENDS AlertDeliveryProofs

-----------------------------------------------------------------------------
(* What an invocation carries comes from the messages it holds.            *)

Covers(d, o) == d.ids = {} \/ o \in d.ids

\* The outputs that an alert is for, and a dispatch that is for no others.
Asked(a) == IF OutputIDs[a] = {} THEN DefaultOutputs ELSE OutputIDs[a]
Genuine(d) == (d.ids = {} => OutputIDs[d.alert] = {}) /\ Wanted(d) \subseteq Asked(d.alert)

\* A message of the batch is for the alert and outputs of d.
Backed(c, d) ==
    \E m \in Batch(c) :
        /\ messages[m].alert = d.alert
        /\ \A o \in Outputs : Covers(d, o) => Covers(messages[m], o)
Honest(c, d) == d.alert \notin Invalid /\ Backed(c, d) /\ Genuine(d)

\* The alerts an invocation has to dispatch or to retry.
Carried(c) ==
    {container[c].todo[i] : i \in DOMAIN container[c].todo}
       \cup {container[c].failed[i] : i \in DOMAIN container[c].failed}

\* An invocation holds its messages, no other invocation holds them, and all
\* that it carries is theirs.
Holds(c) == \A m \in Batch(c) : m \in DOMAIN messages /\ messages[m].state = "held"
Apart(c, x) == \A m \in Batch(c) : m \notin Batch(x)
HeldInv ==
    /\ \A c \in Containers : Holds(c) /\ \A d \in Carried(c) : Honest(c, d)
    /\ \A c, x \in Containers : c # x => Apart(c, x)
    /\ \A m \in DOMAIN messages : Genuine(messages[m])

\* The first alert is carried, and all of its outputs are backed.
LEMMA HeadHonest ==
    ASSUME TypeOK, HeldInv, NEW c \in Containers, container[c].todo # <<>>,
           NEW h \in Dispatches, h = Head(container[c].todo)
    PROVE  /\ Honest(c, h)
           /\ \A d \in Dispatches : d = h => Honest(c, d)
           /\ \A d \in Dispatches :
                 d.alert = h.alert /\ d.ids # {} /\ d.ids \subseteq Wanted(h) => Honest(c, d)
<1>1. Honest(c, h)
  <2>1. PICK s \in Seq(Dispatches) : s = container[c].todo /\ s # <<>>
    BY Zenon, Fields
  <2>2. h = s[1] /\ 1 \in DOMAIN s
    BY <2>1, FirstAlert
  <2>3. h \in Carried(c)
    BY Zenon, <2>1, <2>2 DEF Carried
  <2> QED
    BY Zenon, <2>3 DEF HeldInv
<1>2. ASSUME NEW d \in Dispatches, d.alert = h.alert, d.ids # {}, d.ids \subseteq Wanted(h)
      PROVE  Honest(c, d)
  <2>1. \A o \in Outputs : Covers(d, o) => Covers(h, o)
    BY Zenon, <1>2 DEF Covers, Wanted
  <2>2. Backed(c, d)
    BY Zenon, <1>1, <1>2, <2>1 DEF Honest, Backed
  <2>3. Genuine(d)
    BY Zenon, <1>1, <1>2 DEF Honest, Genuine, Wanted
  <2> QED
    BY Zenon, <1>1, <1>2, <2>2, <2>3 DEF Honest
<1> QED
  BY Zenon, <1>1, <1>2

\* The accepted retries are exactly the messages that FinishInvocation adds.
LEMMA NewMessages ==
    ASSUME TypeOK, NEW c \in Containers, NEW accepted \in SUBSET (DOMAIN container[c].failed),
           PutBack(c, accepted)
    PROVE  /\ \A m \in DOMAIN messages' \ DOMAIN messages :
                 \E j \in 1..Cardinality(accepted) : m = Len(messages) + j /\ Nth(accepted, j) \in accepted
           /\ \A i \in accepted : \E j \in 1..Cardinality(accepted) :
                 Nth(accepted, j) = i /\ Len(messages) + j \in DOMAIN messages' \ DOMAIN messages
           /\ \A j, k \in 1..Cardinality(accepted) : Nth(accepted, j) = Nth(accepted, k) => j = k
<1>1. PICK n \in Nat : DOMAIN container[c].failed = 1..n
  BY Zenon, Fields, Elements
<1>2. PICK N \in Nat : /\ N = Cardinality(accepted)
                       /\ \A j \in 1..N : Nth(accepted, j) \in accepted
                       /\ \A i \in accepted : \E j \in 1..N : Nth(accepted, j) = i
                       /\ \A j, k \in 1..N : Nth(accepted, j) = Nth(accepted, k) => j = k
  BY Zenon, <1>1, Ranks
<1>3. PICK l \in Nat : l = Len(messages) /\ DOMAIN messages = 1..l
  BY Zenon, Queue
<1>4. DOMAIN messages' = 1..(l + N)
  BY <1>2, <1>3 DEF PutBack
<1>5. \A m \in (1..(l + N)) \ (1..l) : m - l \in 1..N /\ m = l + (m - l)
  OBVIOUS
<1>6. \A j \in 1..N : l + j \in (1..(l + N)) \ (1..l)
  OBVIOUS
<1>7. \A m \in DOMAIN messages' \ DOMAIN messages : \E j \in 1..N : m = l + j
  BY Zenon, <1>3, <1>4, <1>5
<1>8. \A j \in 1..N : l + j \in DOMAIN messages' \ DOMAIN messages
  BY <1>3, <1>4, <1>6
<1> QED
  BY Zenon, <1>2, <1>3, <1>7, <1>8

-----------------------------------------------------------------------------
(* A delivery that failed for now is remembered.                           *)

\* A message waits in the queue, or in the dead-letter queue.
Waiting(a, o) ==
    \E m \in DOMAIN messages :
        messages[m].alert = a /\ messages[m].state \in {"queued", "dlq"} /\ Covers(messages[m], o)

\* The places in the batch and among the retries where the output o of the
\* alert a is still to be served.
Owed(c, a, o) ==
    {i \in DOMAIN container[c].todo :
        /\ container[c].todo[i].alert = a /\ Covers(container[c].todo[i], o)
        /\ i = 1 /\ container[c].pc = "send" => o \in container[c].pending \cup container[c].again}
ToRetry(c, a, o) ==
    {i \in DOMAIN container[c].failed :
        container[c].failed[i].alert = a /\ Covers(container[c].failed[i], o)}

\* It was given up for a reason that the code states.
Excused(a, o) == a \in expired \/ <<a, o>> \in unconfigured \/ a \in unsent
Remembered(a, o) ==
    \/ Waiting(a, o) \/ Excused(a, o)
    \/ \E c \in Containers : Owed(c, a, o) # {} \/ ToRetry(c, a, o) # {}
TransientInv ==
    \A a \in Alerts, o \in Outputs :
        <<a, o>> \in transient => a \notin Invalid /\ o \in Asked(a) /\ Remembered(a, o)

\* What is owed and to be retried when the first alert has ended: d is retried
\* if r.
Moved(c, d, r, a, o) ==
    /\ Owed(c, a, o)' = {i \in 1..(Len(container[c].todo) - 1) : i + 1 \in Owed(c, a, o)}
    /\ ToRetry(c, a, o)' = ToRetry(c, a, o) \cup (IF r /\ d.alert = a /\ Covers(d, o)
                                                  THEN {Len(container[c].failed) + 1} ELSE {})

\* An invocation that is done with the first alert owes what the others are
\* owed, and retries one more.
LEMMA EndedDebt ==
    ASSUME TypeOK, NEW c \in Containers, container[c].todo # <<>>, NEW k, NEW d \in Dispatches,
           NEW r \in BOOLEAN, Ended(c, k, d, r), NEW a, NEW o
    PROVE  /\ Len(container[c].todo) \in Nat \ {0} /\ Len(container[c].failed) \in Nat
           /\ DOMAIN container[c].todo = 1..Len(container[c].todo)
           /\ DOMAIN container[c].failed = 1..Len(container[c].failed)
           /\ Moved(c, d, r, a, o)
<1>1. PICK s \in Seq(Dispatches), f \in Seq(Dispatches) :
          s = container[c].todo /\ f = container[c].failed /\ s # <<>>
  BY Zenon, Fields
<1>2. /\ container'[c].todo = Tail(s) /\ container'[c].pc # "send"
      /\ container'[c].failed = IF r THEN Append(f, d) ELSE f
  BY Zenon, <1>1, FollowingPhase DEF Ended
<1>3. /\ Len(s) \in Nat \ {0} /\ DOMAIN s = 1..Len(s) /\ DOMAIN Tail(s) = 1..(Len(s) - 1)
      /\ \A i \in 1..(Len(s) - 1) : Tail(s)[i] = s[i + 1]
  BY <1>1, FirstAlert
<1>4. Len(f) \in Nat /\ DOMAIN f = 1..Len(f)
  BY Zenon, Elements
<1>5. \A i \in 1..(Len(s) - 1) : i + 1 \in 1..Len(s) /\ i + 1 # 1
  BY <1>3
<1>6. Owed(c, a, o)' = {i \in 1..(Len(s) - 1) : i + 1 \in Owed(c, a, o)}
  <2>1. Owed(c, a, o)' = {i \in 1..(Len(s) - 1) : s[i + 1].alert = a /\ Covers(s[i + 1], o)}
    BY Zenon, <1>2, <1>3 DEF Owed, Covers
  <2>2. \A i \in 1..(Len(s) - 1) :
            i + 1 \in Owed(c, a, o) <=> s[i + 1].alert = a /\ Covers(s[i + 1], o)
    BY Zenon, <1>1, <1>3, <1>5 DEF Owed
  <2> QED
    BY Zenon, <2>1, <2>2
<1>7. ToRetry(c, a, o)' = ToRetry(c, a, o) \cup (IF r /\ d.alert = a /\ Covers(d, o)
                                                 THEN {Len(f) + 1} ELSE {})
  <2>1. CASE ~r
    BY Zenon, <1>1, <1>2, <2>1 DEF ToRetry, Covers
  <2>2. CASE r
    <3>1. PICK g : g = Append(f, d)
      BY Zenon
    <3>2. /\ DOMAIN g = 1..Len(f) \cup {Len(f) + 1} /\ g[Len(f) + 1] = d
          /\ \A i \in 1..Len(f) : g[i] = f[i]
      BY <1>4, <3>1
    <3>3. ToRetry(c, a, o)' = {i \in DOMAIN g : g[i].alert = a /\ (g[i].ids = {} \/ o \in g[i].ids)}
      BY Zenon, <1>2, <2>2, <3>1 DEF ToRetry, Covers
    <3>4. ToRetry(c, a, o) = {i \in 1..Len(f) : f[i].alert = a /\ (f[i].ids = {} \/ o \in f[i].ids)}
      BY Zenon, <1>1, <1>4 DEF ToRetry, Covers
    <3> QED
      BY <2>2, <3>2, <3>3, <3>4 DEF Covers
  <2> QED
    BY Zenon, <2>1, <2>2
<1> QED
  BY Zenon, <1>1, <1>3, <1>4, <1>6, <1>7 DEF Moved

\* Every step keeps what is held honest.
LEMMA HeldStep ==
    ASSUME Sound, HeldInv, [Next]_vars
    PROVE  HeldInv'

\* Backed and Honest depend on the batch and on what its messages are for.
<1>StaysHonest.
      ASSUME NEW c \in Containers, HeldInv, Kept, container'[c].batch = container[c].batch,
             NEW d, Honest(c, d)
      PROVE  Honest(c, d)'
  <2> USE <1>StaysHonest
  <2>1. PICK m \in Batch(c) :
            /\ messages[m].alert = d.alert
            /\ \A o \in Outputs : Covers(d, o) => Covers(messages[m], o)
    BY Zenon DEF Honest, Backed
  <2>2. m \in DOMAIN messages
    BY Zenon, <2>1 DEF HeldInv, Holds
  <2>3. m \in Batch(c)' /\ messages'[m].alert = messages[m].alert /\ messages'[m].ids = messages[m].ids
    BY Zenon, <2>1, <2>2 DEF Kept, Batch
  <2>4. Backed(c, d)'
    BY Zenon, <2>1, <2>3 DEF Backed, Covers
  <2> QED
    BY Zenon, <2>4 DEF Honest

\* The containers that do not move still hold their messages.
<1>OthersHold.
      ASSUME NEW c \in Containers, HeldInv, Same(c), Kept,
             \A x \in Containers \ {c} : \A m \in Batch(x) : messages'[m].state = messages[m].state,
             NEW x \in Containers \ {c}
      PROVE  Holds(x)' /\ Batch(x)' = Batch(x) /\ \A d \in Carried(x)' : Honest(x, d)'
  <2> USE <1>OthersHold
  <2>1. container'[x] = container[x]
    BY DEF Same
  <2>2. Batch(x)' = Batch(x) /\ Carried(x)' = Carried(x)
    BY Zenon, <2>1 DEF Batch, Carried
  <2>3. Holds(x)'
    BY <2>2 DEF Holds, HeldInv, Kept
  <2>4. ASSUME NEW d \in Carried(x)' PROVE Honest(x, d)'
    <3>1. Honest(x, d)
      BY <2>2, <2>4 DEF HeldInv
    <3>2. container'[x].batch = container[x].batch
      BY Zenon, <2>1
    <3> QED
      BY Zenon, <3>1, <3>2, <1>StaysHonest
  <2> QED
    BY <2>2, <2>3, <2>4

\* A step that goes on with the batch.
<1>HeldFrom. ASSUME TypeOK, HeldInv, NEW c \in Containers, GoesOn(c), messages' = messages,
                    \A d \in Carried(c)' : Honest(c, d)
             PROVE  HeldInv'
  <2> USE <1>HeldFrom
  <2>1. Same(c) /\ container'[c].batch = container[c].batch /\ Kept
    BY Zenon, Queue DEF GoesOn, Kept
  <2>2. \A x \in Containers \ {c} :
            Holds(x)' /\ Batch(x)' = Batch(x) /\ \A d \in Carried(x)' : Honest(x, d)'
    BY <2>1, <1>OthersHold
  <2>3. Batch(c)' = Batch(c)
    BY Zenon, <2>1 DEF Batch
  <2>4. Holds(c)' /\ \A d \in Carried(c)' : Honest(c, d)'
    <3>1. Holds(c)'
      BY Zenon, <2>3 DEF Holds, HeldInv
    <3> QED
      BY Zenon, <2>1, <3>1, <1>StaysHonest
  <2>5. \A x \in Containers : Batch(x)' = Batch(x)
    BY <2>2, <2>3
  <2>6. \A x, y \in Containers : x # y => Apart(x, y)'
    BY <2>5 DEF HeldInv, Apart
  <2>7. \A m \in DOMAIN messages' : Genuine(messages[m])'
    BY Zenon DEF HeldInv
  <2>8. \A x \in Containers : Holds(x)' /\ \A d \in Carried(x)' : Honest(x, d)'
    BY Zenon, <2>2, <2>4
  <2> QED
    BY Zenon, <2>6, <2>7, <2>8 DEF HeldInv

\* What an invocation carries when it is done with the first alert.
<1>EndedCarries.
      ASSUME TypeOK, NEW c \in Containers, container[c].todo # <<>>, NEW k, NEW d \in Dispatches,
             Done(c, k, d) \/ Retried(c, k, d)
      PROVE  GoesOn(c) /\ Carried(c)' \subseteq Carried(c) \cup {d}
  <2> USE <1>EndedCarries
  <2>1. PICK r \in BOOLEAN : Ended(c, k, d, r)
    BY Zenon DEF Done, Retried
  <2>2. PICK s \in Seq(Dispatches), f \in Seq(Dispatches) :
            s = container[c].todo /\ f = container[c].failed /\ s # <<>>
    BY Zenon, Fields
  <2>3. GoesOn(c) /\ container'[c].todo = Tail(s)
        /\ container'[c].failed = IF r THEN Append(f, d) ELSE f
    BY Zenon, <2>1, <2>2 DEF Ended
  <2>4. \A i \in DOMAIN Tail(s) : \E j \in DOMAIN s : Tail(s)[i] = s[j]
    <3>1. /\ Len(s) \in Nat \ {0} /\ DOMAIN s = 1..Len(s) /\ DOMAIN Tail(s) = 1..(Len(s) - 1)
          /\ \A i \in 1..(Len(s) - 1) : Tail(s)[i] = s[i + 1]
      BY <2>2, FirstAlert
    <3>2. \A i \in 1..(Len(s) - 1) : i + 1 \in 1..Len(s)
      BY <3>1
    <3> QED
      BY Zenon, <3>1, <3>2
  <2>5. \A i \in DOMAIN Append(f, d) : Append(f, d)[i] = d \/ \E j \in DOMAIN f : Append(f, d)[i] = f[j]
    OBVIOUS
  <2>6. \A i \in DOMAIN container'[c].failed :
            container'[c].failed[i] = d \/ \E j \in DOMAIN f : container'[c].failed[i] = f[j]
    BY Zenon, <2>3, <2>5
  <2>7. Carried(c)' \subseteq Carried(c) \cup {d}
    BY <2>2, <2>3, <2>4, <2>6 DEF Carried
  <2> QED
    BY Zenon, <2>3, <2>7

\* Every step of an invocation before its end keeps what it carries honest.
<1>FetchHeld. ASSUME TypeOK, HeldInv, NEW c \in Containers, FetchOutputs(c)
              PROVE  HeldInv'
  <2> USE <1>FetchHeld
  <2>1. GoesOn(c) /\ Carried(c)' = Carried(c)
    BY Zenon, FetchEffect DEF Fetched, Carried
  <2>2. messages' = messages
    BY DEF FetchOutputs
  <2>3. \A d \in Carried(c)' : Honest(c, d)
    BY <2>1 DEF HeldInv
  <2> QED
    BY Zenon, <2>1, <2>2, <2>3, <1>HeldFrom

\* The same for Dispatch.
<1>DispatchHeld.
      ASSUME TypeOK, ShapeInv, HeldInv, NEW c \in Containers, Dispatch(c)
      PROVE  HeldInv'
  <2> USE <1>DispatchHeld
  <2>1. PICK k \in Caches, T \in SUBSET Outputs, d \in Dispatches : Dispatched(c, k, T, d)
    BY Zenon, DispatchEffect
  <2>2. messages' = messages
    BY Zenon DEF Dispatch
  <2>3. container[c].todo # <<>> /\ d = Head(container[c].todo)
    BY Zenon, <2>1 DEF Dispatched
  <2>4. Honest(c, d)
    BY Zenon, <2>3, HeadHonest
  <2>5. GoesOn(c) /\ Carried(c)' \subseteq Carried(c) \cup {d}
    <3>1. CASE Sent(c, k, T)
      BY Zenon, <3>1 DEF Sent, Carried
    <3>2. CASE Done(c, k, d)
      BY <2>3, <3>2, <1>EndedCarries
    <3> QED
      BY Zenon, <2>1, <3>1, <3>2 DEF Dispatched
  <2>6. \A x \in Carried(c)' : Honest(c, x)
    BY Zenon, <2>4, <2>5 DEF HeldInv
  <2> QED
    BY Zenon, <2>2, <2>5, <2>6, <1>HeldFrom

\* The same for DispatchFails.
<1>DispatchFailsHeld.
      ASSUME TypeOK, ShapeInv, HeldInv, NEW c \in Containers, DispatchFails(c)
      PROVE  HeldInv'
  <2> USE <1>DispatchFailsHeld
  <2>1. PICK k : k = container[c].cache
    BY Zenon
  <2>2. PICK d \in Dispatches : /\ container[c].todo # <<>> /\ d = Head(container[c].todo)
                                /\ Retried(c, k, d)
    BY <2>1, DispatchFailsEffect
  <2>3. messages' = messages
    BY Zenon DEF DispatchFails
  <2>4. Honest(c, d)
    BY Zenon, <2>2, HeadHonest
  <2>5. GoesOn(c) /\ Carried(c)' \subseteq Carried(c) \cup {d}
    BY <2>2, <1>EndedCarries
  <2>6. \A x \in Carried(c)' : Honest(c, x)
    BY Zenon, <2>4, <2>5 DEF HeldInv
  <2> QED
    BY Zenon, <2>3, <2>5, <2>6, <1>HeldFrom

\* The same for the report of a goroutine: what is retried are outputs of the alert.
<1>SendHeld. ASSUME TypeOK, ShapeInv, HeldInv, NEW c \in Containers, NEW o \in Outputs,
                    SendSucceeds(c, o) \/ SendFailsForGood(c, o) \/ SendFailsForNow(c, o)
             PROVE  HeldInv'
  <2> USE <1>SendHeld
  <2>1. PICK again \in SUBSET Outputs :
            /\ Answered(c, o, again)
            /\ again = container[c].again \/ again = container[c].again \cup {o}
    BY SendEffect
  <2>2. messages' = messages
    BY Zenon, SendEffect
  <2>3. container[c].todo # <<>> /\ container[c].pc = "send" /\ o \in container[c].pending
    BY Zenon, <2>1 DEF Answered
  <2>4. PICK h \in Dispatches : h = Head(container[c].todo)
    BY Zenon, <2>3, Fields, FirstAlert
  <2>5. again \subseteq Wanted(h)
    BY <2>1, <2>3, <2>4 DEF ShapeInv, Shape
  <2>6. PICK k : k = container[c].cache
    BY Zenon
  <2>7. CASE Reported(c, o, again)
    <3>1. GoesOn(c) /\ Carried(c)' = Carried(c)
      BY <2>7 DEF Reported, Carried
    <3>2. \A x \in Carried(c)' : Honest(c, x)
      BY Zenon, <3>1 DEF HeldInv
    <3> QED
      BY Zenon, <2>2, <3>1, <3>2, <1>HeldFrom
  <2>8. ASSUME NEW d \in Dispatches, d = h \/ (again # {} /\ d.alert = h.alert /\ d.ids = again),
               Done(c, k, d) \/ Retried(c, k, d)
        PROVE  HeldInv'
    <3>1. Honest(c, d)
      BY Zenon, <2>3, <2>4, <2>5, <2>8, HeadHonest
    <3>2. GoesOn(c) /\ Carried(c)' \subseteq Carried(c) \cup {d}
      BY Zenon, <2>3, <2>8, <1>EndedCarries
    <3>3. \A x \in Carried(c)' : Honest(c, x)
      BY Zenon, <3>1, <3>2 DEF HeldInv
    <3> QED
      BY Zenon, <2>2, <3>2, <3>3, <1>HeldFrom
  <2> QED
    BY Zenon, <2>1, <2>4, <2>6, <2>7, <2>8 DEF Answered

\* Being genuine is a matter of the alert and the outputs only.
<1>GenuineSame.
      ASSUME NEW d, NEW e, e.alert = d.alert, e.ids = d.ids, Genuine(d)
      PROVE  Genuine(e)
  BY Zenon, <1>GenuineSame DEF Genuine, Wanted

\* Messages that are kept stay genuine.
<1>KeptGenuine.
      ASSUME HeldInv, Kept, NEW m \in DOMAIN messages
      PROVE  Genuine(messages'[m])
  <2> USE <1>KeptGenuine
  <2>1. PICK d, e : d = messages[m] /\ e = messages'[m]
    BY Zenon
  <2>2. Genuine(d) /\ e.alert = d.alert /\ e.ids = d.ids
    BY Zenon, <2>1 DEF HeldInv, Kept
  <2> QED
    BY <2>1, <2>2, <1>GenuineSame

\* Receive: the messages were visible, so nobody held them.
<1>ReceiveHeld.
      ASSUME TypeOK, HeldInv, NEW c \in Containers, NEW batch \in Batches, Receive(c, batch)
      PROVE  HeldInv'
  <2> USE <1>ReceiveHeld
  <2>1. PICK todo, pos : Taken(c, batch, todo) /\ Reads(batch, todo, pos)
    BY Zenon, ReceiveEffect
  <2>2. Same(c) /\ Kept /\ DOMAIN messages' = DOMAIN messages
    BY Zenon, <2>1 DEF Taken
  <2>3. \A i \in DOMAIN batch : batch[i] \in DOMAIN messages /\ messages[batch[i]].state = "queued"
    <3>1. batch \in Seq(DOMAIN messages)
      BY <2>1 DEF Taken
    <3> QED
      BY Zenon, <2>1, <3>1, Elements DEF Taken
  <2>4. \A x \in Containers : \A m \in Batch(x) : ~(\E i \in DOMAIN batch : batch[i] = m)
    <3>1. "queued" # "held"
      BY Zenon
    <3> QED
      BY Zenon, <2>3, <3>1 DEF HeldInv, Holds
  <2>5. \A x \in Containers \ {c} : \A m \in Batch(x) : messages'[m].state = messages[m].state
    BY <2>1, <2>4 DEF Taken, HeldInv, Holds
  <2>6. \A x \in Containers \ {c} :
            Holds(x)' /\ Batch(x)' = Batch(x) /\ \A d \in Carried(x)' : Honest(x, d)'
    BY Zenon, <2>2, <2>5, <1>OthersHold
  <2>7. Batch(c)' = {batch[i] : i \in DOMAIN batch}
    BY <2>1 DEF Taken, Batch
  <2>8. Holds(c)'
    BY <2>1, <2>3, <2>7 DEF Taken, Holds
  <2>9. \A x, y \in Containers : x # y => Apart(x, y)'
    BY <2>4, <2>6, <2>7 DEF HeldInv, Apart
  <2>10. ASSUME NEW d \in Carried(c)' PROVE Honest(c, d)'
    <3>1. PICK j \in DOMAIN todo : d = todo[j]
      <4>1. container'[c].todo = todo /\ container'[c].failed = <<>> /\ DOMAIN <<>> = {}
        BY <2>1 DEF Taken
      <4> QED
        BY Zenon, <2>10, <4>1 DEF Carried
    <3>2. PICK m : m = batch[pos[j]]
      BY Zenon
    <3>3. /\ d.alert = messages[m].alert /\ d.ids = messages[m].ids /\ d.alert \notin Invalid
          /\ m \in Batch(c)' /\ m \in DOMAIN messages
      BY Zenon, <2>1, <2>3, <2>7, <3>1, <3>2 DEF Reads
    <3>4. PICK e : e = messages'[m]
      BY Zenon
    <3>5. e.alert = d.alert /\ e.ids = d.ids /\ Genuine(e)
      BY Zenon, <2>2, <3>3, <3>4, <1>KeptGenuine DEF Kept
    <3>6. Genuine(d)
      BY Zenon, <3>5, <1>GenuineSame
    <3>7. Backed(c, d)'
      BY Zenon, <3>3, <3>4, <3>5 DEF Backed, Covers
    <3> QED
      BY Zenon, <3>3, <3>6, <3>7 DEF Honest
  <2>11. \A m \in DOMAIN messages' : Genuine(messages'[m])
    BY <2>2, <1>KeptGenuine
  <2>12. \A x \in Containers : Holds(x)' /\ \A d \in Carried(x)' : Honest(x, d)'
    BY <2>6, <2>8, <2>10
  <2> QED
    BY Zenon, <2>9, <2>11, <2>12 DEF HeldInv

\* The end of an invocation: it holds no messages and carries no alerts.
<1>EndHeld. ASSUME TypeOK, HeldInv, NEW c \in Containers, NEW k, Idled(c, k), NEW failed, Returned(c, failed),
                   \A m \in DOMAIN messages' \ DOMAIN messages : Genuine(messages'[m])
            PROVE  HeldInv'
  <2> USE <1>EndHeld
  <2>1. Same(c) /\ Kept /\ DOMAIN <<>> = {}
    BY DEF Idled, Returned
  <2>2. \A x \in Containers \ {c} : \A m \in Batch(x) : messages'[m].state = messages[m].state
    BY Zenon DEF Returned, HeldInv, Holds, Apart
  <2>3. \A x \in Containers \ {c} :
            Holds(x)' /\ Batch(x)' = Batch(x) /\ \A d \in Carried(x)' : Honest(x, d)'
    BY Zenon, <2>1, <2>2, <1>OthersHold
  <2>4. Batch(c)' = {} /\ Carried(c)' = {}
    BY Zenon, <2>1 DEF Idled, Batch, Carried
  <2>5. \A x, y \in Containers : x # y => Apart(x, y)'
    BY <2>3, <2>4 DEF HeldInv, Apart
  <2>6. \A m \in DOMAIN messages' : Genuine(messages'[m])
    BY Zenon, <2>1, <1>KeptGenuine
  <2>7. \A x \in Containers : Holds(x)' /\ \A d \in Carried(x)' : Honest(x, d)'
    BY Zenon, <2>3, <2>4 DEF Holds
  <2> QED
    BY Zenon, <2>5, <2>6, <2>7 DEF HeldInv

\* FinishInvocation.
<1>FinishHeld.
      ASSUME TypeOK, HeldInv, NEW c \in Containers, Shape(c), Fresh(c),
             NEW accepted \in SUBSET (DOMAIN container[c].failed),
             NEW delay \in [accepted -> MinDelay..(MaxDelay - 1)], FinishInvocation(c, accepted, delay)
      PROVE  HeldInv'
  <2> USE <1>FinishHeld
  <2>1. PICK k, failed : Idled(c, k) /\ Returned(c, failed)
    BY FinishEffect
  <2>2. PutBack(c, accepted)
    BY Zenon, FinishEffect
  <2>3. ASSUME NEW m \in DOMAIN messages' \ DOMAIN messages PROVE Genuine(messages'[m])
    <3>1. PICK j \in 1..Cardinality(accepted) : m = Len(messages) + j /\ Nth(accepted, j) \in accepted
      BY Zenon, <2>2, NewMessages
    <3>2. PICK d, e : d = container[c].failed[Nth(accepted, j)] /\ e = messages'[m]
      BY Zenon
    <3>3. e.alert = d.alert /\ e.ids = d.ids
      BY Zenon, <2>2, <3>1, <3>2 DEF PutBack
    <3>4. d \in Carried(c)
      BY Zenon, <3>1, <3>2 DEF Carried
    <3>5. Genuine(d)
      BY <3>4 DEF HeldInv, Honest
    <3> QED
      BY <3>2, <3>3, <3>5, <1>GenuineSame
  <2> QED
    BY Zenon, <2>1, <2>3, <1>EndHeld

\* Crash.
<1>CrashHeld. ASSUME TypeOK, HeldInv, NEW c \in Containers, Crash(c)
              PROVE  HeldInv'
  <2> USE <1>CrashHeld
  <2>1. Idled(c, NoCache) /\ Returned(c, TRUE) /\ DOMAIN messages' = DOMAIN messages
    BY Zenon, CrashEffect
  <2>2. \A m \in DOMAIN messages' \ DOMAIN messages : Genuine(messages'[m])
    BY Zenon, <2>1
  <2> QED
    BY Zenon, <2>1, <2>2, <1>EndHeld
<1>1. TypeOK /\ ShapeInv /\ \A c \in Containers : Shape(c) /\ Fresh(c)
  BY DEF Sound, ShapeInv, CacheInv
<1>2. ASSUME NEW c \in Containers, NEW batch \in Batches, Receive(c, batch) PROVE HeldInv'
  BY <1>1, <1>2, <1>ReceiveHeld
<1>3. ASSUME NEW c \in Containers, FetchOutputs(c) PROVE HeldInv'
  BY <1>1, <1>3, <1>FetchHeld
<1>4. ASSUME NEW c \in Containers, Dispatch(c) PROVE HeldInv'
  BY <1>1, <1>4, <1>DispatchHeld
<1>5. ASSUME NEW c \in Containers, DispatchFails(c) PROVE HeldInv'
  BY <1>1, <1>5, <1>DispatchFailsHeld
<1>6. ASSUME NEW c \in Containers, NEW o \in Outputs,
             SendSucceeds(c, o) \/ SendFailsForGood(c, o) \/ SendFailsForNow(c, o)
      PROVE  HeldInv'
  BY <1>1, <1>6, <1>SendHeld
<1>7. ASSUME NEW c \in Containers, NEW accepted \in SUBSET (DOMAIN container[c].failed),
             NEW delay \in [accepted -> MinDelay..(MaxDelay - 1)], FinishInvocation(c, accepted, delay)
      PROVE  HeldInv'
  BY Zenon, <1>1, <1>7, <1>FinishHeld
<1>8. ASSUME NEW c \in Containers, Crash(c) PROVE HeldInv'
  BY <1>1, <1>8, <1>CrashHeld
<1>9. ASSUME (\E o \in Outputs : ChangeOutput(o)) \/ Tick \/ UNCHANGED vars PROVE HeldInv'
  <2>1. messages' = messages /\ container' = container
    BY <1>9 DEF ChangeOutput, Tick, vars
  <2> QED
    <3>1. \A c \in Containers : Batch(c)' = Batch(c) /\ Carried(c)' = Carried(c)
      BY <2>1 DEF Batch, Carried
    <3>2. \A c \in Containers : \A d : Honest(c, d) => Honest(c, d)'
      BY <2>1, <3>1 DEF Honest, Backed
    <3>3. \A m \in DOMAIN messages' : Genuine(messages[m])'
      BY Zenon, <2>1 DEF HeldInv
    <3> QED
      BY <2>1, <3>1, <3>2, <3>3 DEF HeldInv, Holds, Apart
<1> QED
  BY Zenon, <1>2, <1>3, <1>4, <1>5, <1>6, <1>7, <1>8, <1>9 DEF Next, Advance

\* Every step remembers what is to be retried.
LEMMA TransientStep ==
    ASSUME Sound, HeldInv, TransientInv, [Next]_vars
    PROVE  TransientInv'

\* What happens elsewhere is remembered: only what c owes can be lost.
<1>RememberedElsewhere.
      ASSUME NEW c \in Containers, Same(c), NEW a, NEW o, Remembered(a, o),
             Waiting(a, o) => Waiting(a, o)' \/ Owed(c, a, o)' # {},
             expired \subseteq expired', unconfigured \subseteq unconfigured', unsent \subseteq unsent',
             Owed(c, a, o) # {} \/ ToRetry(c, a, o) # {} =>
                 \/ Waiting(a, o)' \/ Excused(a, o)'
                 \/ Owed(c, a, o)' # {} \/ ToRetry(c, a, o)' # {}
      PROVE  Remembered(a, o)'
  <2> USE <1>RememberedElsewhere
  <2>1. CASE Waiting(a, o)
    BY Zenon, <2>1 DEF Remembered
  <2>2. CASE Excused(a, o)
    <3>1. Excused(a, o)'
      BY <2>2 DEF Excused
    <3> QED
      BY Zenon, <3>1 DEF Remembered
  <2>3. CASE \E x \in Containers : Owed(x, a, o) # {} \/ ToRetry(x, a, o) # {}
    <3>1. PICK x \in Containers : Owed(x, a, o) # {} \/ ToRetry(x, a, o) # {}
      BY Zenon, <2>3
    <3>2. CASE x = c
      BY Zenon, <3>1, <3>2 DEF Remembered
    <3>3. CASE x # c
      <4>1. container'[x] = container[x]
        BY <3>3 DEF Same
      <4>2. Owed(x, a, o)' = Owed(x, a, o) /\ ToRetry(x, a, o)' = ToRetry(x, a, o)
        BY Zenon, <4>1 DEF Owed, ToRetry, Covers
      <4> QED
        BY Zenon, <3>1, <4>2 DEF Remembered
    <3> QED
      BY Zenon, <3>2, <3>3
  <2> QED
    BY <2>1, <2>2, <2>3 DEF Remembered

\* The queue is unchanged, and so is what waits in it.
<1>WaitingSame.
      ASSUME messages' = messages, NEW a, NEW o
      PROVE  Waiting(a, o)' <=> Waiting(a, o)
  BY Zenon, <1>WaitingSame DEF Waiting, Covers

\* The end of an alert: of what c owed, only the first alert can be lost.
<1>RememberedEnded.
      ASSUME TypeOK, NEW c \in Containers, container[c].todo # <<>>, NEW k, NEW d \in Dispatches,
             Done(c, k, d) \/ Retried(c, k, d), messages' = messages, NEW a, NEW o, Remembered(a, o),
             unconfigured \subseteq unconfigured', unsent \subseteq unsent',
             1 \in Owed(c, a, o) =>
                 \/ <<a, o>> \in unconfigured'
                 \/ Retried(c, k, d) /\ d.alert = a /\ Covers(d, o)
      PROVE  Remembered(a, o)'
  <2> USE <1>RememberedEnded
  <2>1. PICK r \in BOOLEAN : Ended(c, k, d, r) /\ (Retried(c, k, d) => r \/ d.alert \in expired')
    BY Zenon DEF Done, Retried
  <2>2. Same(c) /\ expired \subseteq expired'
    BY SMTT(30), SMTT(60) DEF Done, Retried, Ended, GoesOn
  <2>3. /\ Len(container[c].todo) \in Nat \ {0}
        /\ DOMAIN container[c].todo = 1..Len(container[c].todo)
        /\ Owed(c, a, o)' = {i \in 1..(Len(container[c].todo) - 1) : i + 1 \in Owed(c, a, o)}
        /\ ToRetry(c, a, o)' = ToRetry(c, a, o) \cup (IF r /\ d.alert = a /\ Covers(d, o)
                                                      THEN {Len(container[c].failed) + 1} ELSE {})
    <3>1. Moved(c, d, r, a, o) /\ Len(container[c].todo) \in Nat \ {0}
          /\ DOMAIN container[c].todo = 1..Len(container[c].todo)
      BY Zenon, <2>1, EndedDebt
    <3> QED
      BY Zenon, <3>1 DEF Moved
  <2>4. CASE ToRetry(c, a, o) # {}
    <3>1. ToRetry(c, a, o)' # {}
      BY Zenon, <2>3, <2>4
    <3> QED
      BY Zenon, <2>2, <3>1, <1>WaitingSame, <1>RememberedElsewhere
  <2>5. CASE Owed(c, a, o) # {} /\ Owed(c, a, o) # {1}
    <3>1. PICK i \in Owed(c, a, o) : i # 1
      BY Zenon, <2>5
    <3>2. i \in 1..Len(container[c].todo)
      BY Zenon, <2>3, <3>1 DEF Owed
    <3>3. i - 1 \in 1..(Len(container[c].todo) - 1) /\ (i - 1) + 1 = i
      BY <2>3, <3>1, <3>2
    <3>4. Owed(c, a, o)' # {}
      BY Zenon, <2>3, <3>1, <3>3
    <3> QED
      BY Zenon, <2>2, <3>4, <1>WaitingSame, <1>RememberedElsewhere
  <2>6. CASE 1 \in Owed(c, a, o)
    <3>1. CASE <<a, o>> \in unconfigured'
      BY Zenon, <3>1 DEF Remembered, Excused
    <3>2. CASE Retried(c, k, d) /\ d.alert = a /\ Covers(d, o)
      <4>1. CASE r
        <5>1. ToRetry(c, a, o)' # {}
          BY Zenon, <2>3, <3>2, <4>1
        <5> QED
          BY Zenon, <5>1 DEF Remembered
      <4>2. CASE a \in expired'
        BY Zenon, <4>2 DEF Remembered, Excused
      <4> QED
        BY Zenon, <2>1, <3>2, <4>1, <4>2
    <3> QED
      BY Zenon, <2>6, <3>1, <3>2
  <2>7. CASE Owed(c, a, o) = {} /\ ToRetry(c, a, o) = {}
    BY Zenon, <2>2, <2>7, <1>WaitingSame, <1>RememberedElsewhere
  <2> QED
    BY Zenon, <2>4, <2>5, <2>6, <2>7

\* Receive: a message that waits is among the alerts to dispatch, if it is taken.
<1>ReceiveRemembers.
      ASSUME TypeOK, ShapeInv, NEW c \in Containers, NEW batch \in Batches, Receive(c, batch),
             NEW a \in Alerts \ Invalid, NEW o \in Outputs, Remembered(a, o)
      PROVE  Remembered(a, o)'
  <2> USE <1>ReceiveRemembers
  <2>1. PICK todo, pos : Taken(c, batch, todo) /\ Reads(batch, todo, pos)
    BY Zenon, ReceiveEffect
  <2>2. Same(c) /\ Kept /\ UNCHANGED history
    BY Zenon, <2>1 DEF Taken, Receive
  <2>3. container[c].todo = <<>> /\ container[c].failed = <<>> /\ DOMAIN <<>> = {}
    BY <2>1 DEF Taken, ShapeInv, Shape
  <2>4. Owed(c, a, o) = {} /\ ToRetry(c, a, o) = {}
    BY Zenon, <2>3 DEF Owed, ToRetry
  <2>5. ASSUME Waiting(a, o) PROVE Waiting(a, o)' \/ Owed(c, a, o)' # {}
    <3>1. PICK m \in DOMAIN messages :
              messages[m].alert = a /\ messages[m].state \in {"queued", "dlq"} /\ Covers(messages[m], o)
      BY <2>5 DEF Waiting
    <3>2. CASE \E i \in DOMAIN batch : batch[i] = m
      <4>1. PICK i \in DOMAIN batch : batch[i] = m
        BY Zenon, <3>2
      <4>2. PICK j \in DOMAIN todo : pos[j] = i
        BY <2>1, <3>1, <4>1 DEF Reads
      <4>3. todo[j].alert = a /\ Covers(todo[j], o)
        BY Zenon, <2>1, <3>1, <4>1, <4>2 DEF Reads, Covers
      <4>4. container'[c].todo = todo /\ container'[c].pc # "send"
        BY <2>1, FollowingPhase DEF Taken
      <4>5. j \in Owed(c, a, o)'
        BY Zenon, <4>3, <4>4 DEF Owed, Covers
      <4> QED
        BY <4>5
    <3>3. CASE ~(\E i \in DOMAIN batch : batch[i] = m)
      <4>1. /\ m \in DOMAIN messages' /\ messages'[m].alert = a
            /\ messages'[m].state \in {"queued", "dlq"} /\ messages'[m].ids = messages[m].ids
        BY Zenon, <2>1, <3>1, <3>3 DEF Taken, Kept
      <4> QED
        BY Zenon, <3>1, <4>1 DEF Waiting, Covers
    <3> QED
      BY <3>2, <3>3
  <2> QED
    BY Zenon, <2>2, <2>4, <2>5, <1>RememberedElsewhere DEF history

\* What waits in the queue is not what an invocation holds.
<1>EndWaiting.
      ASSUME HeldInv, NEW c \in Containers, NEW failed, Returned(c, failed), NEW a, NEW o, Waiting(a, o)
      PROVE  Waiting(a, o)'
  <2> USE <1>EndWaiting
  <2>1. PICK m \in DOMAIN messages :
            messages[m].alert = a /\ messages[m].state \in {"queued", "dlq"} /\ Covers(messages[m], o)
    BY DEF Waiting
  <2>2. m \notin Batch(c)
    <3>1. "held" \notin {"queued", "dlq"}
      BY Zenon
    <3> QED
      BY <2>1, <3>1 DEF HeldInv, Holds
  <2>3. /\ m \in DOMAIN messages' /\ messages'[m].alert = a
        /\ messages'[m].state \in {"queued", "dlq"} /\ messages'[m].ids = messages[m].ids
    BY Zenon, <2>1, <2>2 DEF Returned, Kept
  <2> QED
    BY Zenon, <2>1, <2>3 DEF Waiting, Covers

\* FinishInvocation: a retry is in the queue or could not be sent.
<1>FinishRemembers.
      ASSUME TypeOK, HeldInv, NEW c \in Containers, Shape(c), Fresh(c),
             NEW accepted \in SUBSET (DOMAIN container[c].failed),
             NEW delay \in [accepted -> MinDelay..(MaxDelay - 1)], FinishInvocation(c, accepted, delay),
             NEW a \in Alerts, NEW o \in Outputs, Remembered(a, o)
      PROVE  Remembered(a, o)'
  <2> USE <1>FinishRemembers
  <2>1. PICK k, failed : Idled(c, k) /\ Returned(c, failed)
    BY FinishEffect
  <2>2. PutBack(c, accepted) /\ container[c].pc = "retry"
    BY Zenon, FinishEffect
  <2>3. /\ Same(c) /\ expired' = expired /\ unconfigured' = unconfigured
        /\ unsent' = unsent \cup {container[c].failed[i].alert : i \in DOMAIN container[c].failed \ accepted}
    BY Zenon, <2>1 DEF Idled, FinishInvocation
  <2>4. Owed(c, a, o) = {}
    <3>1. container[c].todo = <<>> /\ DOMAIN <<>> = {}
      BY <2>2 DEF Shape
    <3> QED
      BY Zenon, <3>1 DEF Owed
  <2>5. ASSUME ToRetry(c, a, o) # {} PROVE Waiting(a, o)' \/ Excused(a, o)'
    <3>1. PICK i \in DOMAIN container[c].failed :
              container[c].failed[i].alert = a /\ Covers(container[c].failed[i], o)
      BY Zenon, <2>5 DEF ToRetry
    <3>2. CASE i \in accepted
      <4>1. PICK j \in 1..Cardinality(accepted) :
                Nth(accepted, j) = i /\ Len(messages) + j \in DOMAIN messages'
        BY Zenon, <2>2, <3>2, NewMessages
      <4>2. /\ messages'[Len(messages) + j].alert = a /\ messages'[Len(messages) + j].state = "queued"
            /\ messages'[Len(messages) + j].ids = container[c].failed[i].ids
        BY Zenon, <2>2, <3>1, <4>1 DEF PutBack
      <4> QED
        BY Zenon, <3>1, <4>1, <4>2 DEF Waiting, Covers
    <3>3. CASE i \notin accepted
      BY Zenon, <2>3, <3>1, <3>3 DEF Excused
    <3> QED
      BY <3>2, <3>3
  <2>6. Waiting(a, o) => Waiting(a, o)'
    BY Zenon, <2>1, <1>EndWaiting
  <2> QED
    BY Zenon, <2>3, <2>4, <2>5, <2>6, <1>RememberedElsewhere

\* Crash: the messages of the batch cover all that the invocation carried.
<1>CrashRemembers.
      ASSUME TypeOK, HeldInv, NEW c \in Containers, Crash(c),
             NEW a \in Alerts, NEW o \in Outputs, Remembered(a, o)
      PROVE  Remembered(a, o)'
  <2> USE <1>CrashRemembers
  <2>1. Idled(c, NoCache) /\ Returned(c, TRUE)
    BY Zenon, CrashEffect
  <2>2. Same(c) /\ expired' = expired /\ unconfigured' = unconfigured /\ unsent' = unsent
    BY Zenon, <2>1 DEF Idled, Crash
  <2>3. ASSUME Owed(c, a, o) # {} \/ ToRetry(c, a, o) # {} PROVE Waiting(a, o)'
    <3>1. PICK d \in Carried(c) : d.alert = a /\ Covers(d, o)
      BY Zenon, <2>3 DEF Owed, ToRetry, Carried
    <3>2. PICK m \in Batch(c) : messages[m].alert = a /\ Covers(messages[m], o)
      BY Zenon, <3>1 DEF HeldInv, Honest, Backed
    <3>3. m \in DOMAIN messages
      BY Zenon, <3>2 DEF HeldInv, Holds
    <3>4. /\ m \in DOMAIN messages' /\ messages'[m].alert = a
          /\ messages'[m].state \in {"queued", "dlq"} /\ messages'[m].ids = messages[m].ids
      BY <2>1, <3>2, <3>3 DEF Returned, Kept
    <3> QED
      BY Zenon, <3>2, <3>4 DEF Waiting, Covers
  <2>4. Waiting(a, o) => Waiting(a, o)'
    BY Zenon, <2>1, <1>EndWaiting
  <2> QED
    BY Zenon, <2>2, <2>3, <2>4, <1>RememberedElsewhere

\* FetchOutputs: nothing that is owed changes.
<1>FetchRemembers.
      ASSUME TypeOK, NEW c \in Containers, FetchOutputs(c), NEW a, NEW o, Remembered(a, o)
      PROVE  Remembered(a, o)'
  <2> USE <1>FetchRemembers
  <2>1. Fetched(c) /\ container[c].pc = "dispatch" /\ messages' = messages /\ UNCHANGED history
    BY Zenon, FetchEffect DEF FetchOutputs
  <2>2. /\ Same(c) /\ container'[c].todo = container[c].todo /\ container'[c].failed = container[c].failed
        /\ container'[c].pc # "send" /\ container[c].pc # "send"
    BY Zenon, <2>1 DEF Fetched, GoesOn
  <2>3. Owed(c, a, o)' = Owed(c, a, o) /\ ToRetry(c, a, o)' = ToRetry(c, a, o)
    BY Zenon, <2>2 DEF Owed, ToRetry, Covers
  <2> QED
    BY SMTT(30), SMTT(60), <2>1, <2>2, <2>3, <1>WaitingSame, <1>RememberedElsewhere DEF history

\* Dispatch: an output that the alert is for and that the cache lacks is noted.
<1>DispatchRemembers.
      ASSUME TypeOK, ShapeInv, HeldInv, NEW c \in Containers, Dispatch(c),
             NEW a \in Alerts, NEW o \in Outputs, o \in Asked(a), Remembered(a, o)
      PROVE  Remembered(a, o)'
  <2> USE <1>DispatchRemembers
  <2>1. PICK k \in Caches, T \in SUBSET Outputs, d \in Dispatches : Dispatched(c, k, T, d)
    BY Zenon, DispatchEffect
  <2>2. container[c].todo # <<>> /\ d = Head(container[c].todo) /\ d = container[c].todo[1]
    BY <2>1, Fields, FirstAlert DEF Dispatched
  <2>3. messages' = messages /\ unsent' = unsent
    BY Zenon DEF Dispatch
  <2>4. unconfigured' = unconfigured \cup {<<d.alert, x>> : x \in Wanted(d) \ T}
    BY Zenon, <2>1 DEF Dispatched
  <2>5. 1 \in Owed(c, a, o) => o \in T \/ <<a, o>> \in unconfigured'
    <3>1. ASSUME 1 \in Owed(c, a, o) PROVE d.alert = a /\ Covers(d, o)
      BY Zenon, <2>2, <3>1 DEF Owed
    <3>2. Genuine(d)
      BY Zenon, <2>2, HeadHonest DEF Honest
    <3>3. ASSUME 1 \in Owed(c, a, o) PROVE o \in Wanted(d)
      BY Zenon, <3>1, <3>2, <3>3 DEF Genuine, Asked, Wanted, Covers
    <3> QED
      BY Zenon, <2>4, <3>1, <3>3
  <2>6. CASE T # {} /\ Sent(c, k, T) /\ expired' = expired
    <3>1. /\ Same(c) /\ container'[c].todo = container[c].todo
          /\ container'[c].failed = container[c].failed /\ container'[c].pending = T
      BY Zenon, <2>6 DEF Sent, GoesOn
    <3>2. ToRetry(c, a, o)' = ToRetry(c, a, o)
      BY Zenon, <3>1 DEF ToRetry, Covers
    <3>3. \A i \in Owed(c, a, o) : i \in Owed(c, a, o)' \/ <<a, o>> \in unconfigured'
      <4>1. ASSUME NEW i \in Owed(c, a, o), i = 1 => o \in T PROVE i \in Owed(c, a, o)'
        BY Zenon, <3>1, <4>1 DEF Owed, Covers
      <4> QED
        BY Zenon, <2>5, <4>1
    <3>4. Owed(c, a, o) # {} => Owed(c, a, o)' # {} \/ Excused(a, o)'
      BY Zenon, <3>3 DEF Excused
    <3> QED
      BY Zenon, <2>3, <2>4, <2>6, <3>1, <3>2, <3>4, <1>WaitingSame, <1>RememberedElsewhere
  <2>7. CASE T = {} /\ Done(c, k, d)
    BY Zenon, <2>2, <2>3, <2>4, <2>5, <2>7, <1>RememberedEnded
  <2> QED
    BY Zenon, <2>1, <2>6, <2>7 DEF Dispatched

\* DispatchFails: the first alert is retried as it is.
<1>DispatchFailsRemembers.
      ASSUME TypeOK, ShapeInv, NEW c \in Containers, DispatchFails(c), NEW a, NEW o, Remembered(a, o)
      PROVE  Remembered(a, o)'
  <2> USE <1>DispatchFailsRemembers
  <2>1. PICK k : k = container[c].cache
    BY Zenon
  <2>2. PICK d \in Dispatches : /\ container[c].todo # <<>> /\ d = Head(container[c].todo)
                                /\ Retried(c, k, d)
    BY Zenon, <2>1, DispatchFailsEffect
  <2>3. d = container[c].todo[1]
    BY Zenon, <2>2, Fields, FirstAlert
  <2>4. messages' = messages /\ unconfigured' = unconfigured /\ unsent' = unsent
    BY Zenon DEF DispatchFails
  <2>5. 1 \in Owed(c, a, o) => d.alert = a /\ Covers(d, o)
    BY Zenon, <2>3 DEF Owed
  <2> QED
    BY Zenon, <2>2, <2>4, <2>5, <1>RememberedEnded

\* The report of a goroutine: what it reports is forgotten only when its output
\* is not to be retried.
<1>SendRemembers.
      ASSUME TypeOK, ShapeInv, NEW c \in Containers, NEW x \in Outputs, NEW again \in SUBSET Outputs,
             Answered(c, x, again), again = container[c].again \/ again = container[c].again \cup {x},
             messages' = messages, unconfigured' = unconfigured, unsent' = unsent,
             NEW a \in Alerts, NEW o \in Outputs, Remembered(a, o),
             <<a, o>> = <<Head(container[c].todo).alert, x>> => x \in again
      PROVE  Remembered(a, o)'
  <2> USE <1>SendRemembers
  <2>1. container[c].pc = "send" /\ x \in container[c].pending /\ container[c].todo # <<>>
    BY DEF Answered
  <2>2. PICK h \in Dispatches : h = Head(container[c].todo) /\ h = container[c].todo[1]
    BY Zenon, <2>1, Fields, FirstAlert
  <2>3. ASSUME 1 \in Owed(c, a, o)
        PROVE  /\ h.alert = a /\ Covers(h, o) /\ o \in container[c].pending \cup container[c].again
               /\ o \in again \/ (o # x /\ o \in container[c].pending)
    <3>1. h.alert = a /\ Covers(h, o) /\ o \in container[c].pending \cup container[c].again
      BY Zenon, <2>1, <2>2, <2>3 DEF Owed
    <3> QED
      BY Zenon, <2>2, <3>1
  <2>4. CASE Reported(c, x, again) /\ expired' = expired
    <3>1. /\ Same(c) /\ container'[c].todo = container[c].todo
          /\ container'[c].failed = container[c].failed
          /\ container'[c].pending = container[c].pending \ {x} /\ container'[c].again = again
      BY Zenon, <2>4 DEF Reported, GoesOn
    <3>2. ToRetry(c, a, o)' = ToRetry(c, a, o)
      BY Zenon, <3>1 DEF ToRetry, Covers
    <3>3. ASSUME NEW i \in Owed(c, a, o) PROVE i \in Owed(c, a, o)'
      <4>1. i = 1 => o \in container'[c].pending \cup container'[c].again
        BY Zenon, <2>3, <3>1, <3>3
      <4>2. i \in DOMAIN container[c].todo /\ container[c].todo[i].alert = a /\ Covers(container[c].todo[i], o)
        BY Zenon, <3>3 DEF Owed
      <4> QED
        BY Zenon, <3>1, <4>1, <4>2 DEF Owed, Covers
    <3>4. Owed(c, a, o) # {} => Owed(c, a, o)' # {}
      BY Zenon, <3>3
    <3> QED
      BY Zenon, <2>4, <3>1, <3>2, <3>4, <1>WaitingSame, <1>RememberedElsewhere
  <2>5. PICK k : k = container[c].cache
    OBVIOUS
  <2>6. CASE container[c].pending = {x} /\ again = {} /\ Done(c, k, h)
    <3>1. ~(1 \in Owed(c, a, o))
      BY <2>3, <2>6
    <3> QED
      BY Zenon, <2>1, <2>6, <3>1, <1>RememberedEnded
  <2>7. ASSUME container[c].pending = {x}, NEW d \in Dispatches, d.alert = h.alert, d.ids = again,
               Retried(c, k, d)
        PROVE  Remembered(a, o)'
    <3>1. 1 \in Owed(c, a, o) => d.alert = a /\ Covers(d, o)
      BY <2>3, <2>7 DEF Covers
    <3> QED
      BY Zenon, <2>1, <2>7, <3>1, <1>RememberedEnded
  <2> QED
    BY SMTT(30), SMTT(60), <2>2, <2>4, <2>5, <2>6, <2>7 DEF Answered

\* A goroutine that asks for a retry: the alert and the output are remembered.
<1>SendTransient.
      ASSUME Sound, HeldInv, TransientInv, NEW c \in Containers, NEW x \in Outputs,
             SendSucceeds(c, x) \/ SendFailsForGood(c, x) \/ SendFailsForNow(c, x)
      PROVE  TransientInv'
  <2> USE <1>SendTransient
  <2>1. TypeOK /\ ShapeInv
    BY Zenon DEF Sound
  <2>2. messages' = messages /\ unconfigured' = unconfigured /\ unsent' = unsent
    BY Zenon, <2>1, SendEffect
  <2>3. PICK p \in Pairs, again \in SUBSET Outputs :
            /\ p = <<Head(container[c].todo).alert, x>> /\ Answered(c, x, again)
            /\ \/ again = container[c].again /\ transient' = transient \ {p}
               \/ again = container[c].again \cup {x} /\ transient' = transient \cup {p}
    BY <2>1, SendEffect
  <2>4. container[c].pc = "send" /\ x \in container[c].pending /\ container[c].todo # <<>>
    BY Zenon, <2>3 DEF Answered
  <2>5. PICK h \in Dispatches : h = Head(container[c].todo) /\ h = container[c].todo[1]
    BY Zenon, <2>1, <2>4, Fields, FirstAlert
  <2>6. h.alert \in Alerts \ Invalid /\ x \in Asked(h.alert) /\ Remembered(h.alert, x)
    <3>1. Honest(c, h)
      BY Zenon, <2>1, <2>4, <2>5, HeadHonest
    <3>2. x \in Wanted(h)
      BY Zenon, <2>1, <2>4, <2>5 DEF ShapeInv, Shape
    <3>3. 1 \in DOMAIN container[c].todo
      BY <2>1, <2>4, Fields, FirstAlert
    <3>4. 1 \in Owed(c, h.alert, x)
      BY Zenon, <2>4, <2>5, <3>2, <3>3 DEF Owed, Covers, Wanted
    <3> QED
      BY Zenon, <3>1, <3>2, <3>4 DEF Dispatches, Honest, Genuine, Remembered
  <2>7. ASSUME NEW a \in Alerts, NEW o \in Outputs, <<a, o>> \in transient'
        PROVE  a \notin Invalid /\ o \in Asked(a) /\ Remembered(a, o)'
    <3>1. a \notin Invalid /\ o \in Asked(a) /\ Remembered(a, o)
      <4>1. CASE <<a, o>> \in transient
        BY Zenon, <4>1 DEF TransientInv
      <4>2. CASE <<a, o>> = p
        BY <2>3, <2>5, <2>6, <4>2
      <4> QED
        BY Zenon, <2>3, <2>7, <4>1, <4>2
    <3>2. <<a, o>> = <<Head(container[c].todo).alert, x>> => x \in again
      BY Zenon, <2>3, <2>7
    <3>3. again = container[c].again \/ again = container[c].again \cup {x}
      BY Zenon, <2>3
    <3>4. Remembered(a, o)'
      BY Zenon, <2>1, <2>2, <2>3, <3>1, <3>2, <3>3, <1>SendRemembers
    <3> QED
      BY Zenon, <3>1, <3>4
  <2> QED
    BY <2>7 DEF TransientInv
<1>1. TypeOK /\ ShapeInv /\ \A c \in Containers : Shape(c) /\ Fresh(c)
  BY DEF Sound, ShapeInv, CacheInv
<1>2. ASSUME transient' = transient,
             \A a \in Alerts \ Invalid, o \in Outputs :
                 o \in Asked(a) /\ Remembered(a, o) => Remembered(a, o)'
      PROVE  TransientInv'
  BY Zenon, <1>2 DEF TransientInv
<1>3. ASSUME NEW c \in Containers, NEW batch \in Batches, Receive(c, batch) PROVE TransientInv'
  <2>1. transient' = transient
    BY Zenon, <1>3 DEF Receive, history
  <2> QED
    BY Zenon, <1>1, <1>2, <1>3, <2>1, <1>ReceiveRemembers
<1>4. ASSUME NEW c \in Containers, FetchOutputs(c) PROVE TransientInv'
  <2>1. transient' = transient
    BY Zenon, <1>4 DEF FetchOutputs, history
  <2> QED
    BY Zenon, <1>1, <1>2, <1>4, <2>1, <1>FetchRemembers
<1>5. ASSUME NEW c \in Containers, Dispatch(c) PROVE TransientInv'
  <2>1. transient' = transient
    BY Zenon, <1>5 DEF Dispatch
  <2> QED
    BY Zenon, <1>1, <1>2, <1>5, <2>1, <1>DispatchRemembers
<1>6. ASSUME NEW c \in Containers, DispatchFails(c) PROVE TransientInv'
  <2>1. transient' = transient
    BY Zenon, <1>6 DEF DispatchFails
  <2> QED
    BY Zenon, <1>1, <1>2, <1>6, <2>1, <1>DispatchFailsRemembers
<1>7. ASSUME NEW c \in Containers, NEW accepted \in SUBSET (DOMAIN container[c].failed),
             NEW delay \in [accepted -> MinDelay..(MaxDelay - 1)], FinishInvocation(c, accepted, delay)
      PROVE  TransientInv'
  <2>1. transient' = transient
    BY Zenon, <1>7 DEF FinishInvocation
  <2> QED
    BY Zenon, <1>1, <1>2, <1>7, <2>1, <1>FinishRemembers
<1>8. ASSUME NEW c \in Containers, Crash(c) PROVE TransientInv'
  <2>1. transient' = transient
    BY <1>8 DEF Crash
  <2> QED
    BY Zenon, <1>1, <1>2, <1>8, <2>1, <1>CrashRemembers
<1>9. ASSUME (\E o \in Outputs : ChangeOutput(o)) \/ Tick \/ UNCHANGED vars PROVE TransientInv'
  <2>1. /\ messages' = messages /\ container' = container /\ transient' = transient
        /\ expired' = expired /\ unconfigured' = unconfigured /\ unsent' = unsent
    BY Zenon, <1>9 DEF ChangeOutput, Tick, vars, history
  <2> QED
    <3>1. ASSUME NEW a \in Alerts, NEW o \in Outputs, Remembered(a, o) PROVE Remembered(a, o)'
      <4>1. \A c \in Containers : Owed(c, a, o)' = Owed(c, a, o) /\ ToRetry(c, a, o)' = ToRetry(c, a, o)
        BY <2>1 DEF Owed, ToRetry
      <4>2. (Waiting(a, o) => Waiting(a, o)') /\ (Excused(a, o) => Excused(a, o)')
        BY Zenon, <2>1, <1>WaitingSame DEF Excused
      <4> QED
        BY Zenon, <3>1, <4>1, <4>2 DEF Remembered
    <3> QED
      BY <1>2, <2>1, <3>1
<1> QED
  BY Zenon, <1>SendTransient, <1>3, <1>4, <1>5, <1>6, <1>7, <1>8, <1>9 DEF Next, Advance

\* A delivery that failed for now is never forgotten: its alert is in the queue
\* for that output or among the retries of an invocation, unless it is too old,
\* the output left the cache, or the retry could not be sent.
THEOREM RetriesKeptHolds == Spec => []RetriesKept

\* No message is held and nothing has failed at first.
<1>HeldInit. Init => HeldInv /\ TransientInv
  <2> SUFFICES ASSUME Init PROVE HeldInv /\ TransientInv
    OBVIOUS
  <2>1. \A c \in Containers : Batch(c) = {} /\ Carried(c) = {}
    <3>1. DOMAIN <<>> = {}
      OBVIOUS
    <3> QED
      BY Zenon, <3>1, FirstContainers DEF Batch, Carried
  <2>2. ASSUME NEW m \in DOMAIN messages PROVE Genuine(messages[m])
    <3>1. messages[m].alert = Arrivals[m] /\ messages[m].ids = OutputIDs[Arrivals[m]]
      BY Zenon, FirstMessages
    <3> QED
      BY Zenon, <3>1 DEF Genuine, Wanted, Asked
  <2>3. transient = {}
    BY Zenon DEF Init
  <2> QED
    BY Zenon, <2>1, <2>2, <2>3 DEF HeldInv, Holds, Apart, TransientInv

\* What is remembered is in the queue, in flight or excused.
<1>RemembersSuffices. HeldInv /\ TransientInv => RetriesKept
  <2> SUFFICES ASSUME HeldInv, TransientInv, NEW a \in Alerts, NEW o \in Outputs, <<a, o>> \in transient
               PROVE  \/ InQueue(a, o) \/ InFlight(a, o)
                      \/ a \in expired \/ <<a, o>> \in unconfigured \/ a \in unsent
    BY Zenon DEF RetriesKept
  <2>1. Remembered(a, o)
    BY DEF TransientInv
  <2>2. CASE Waiting(a, o)
    <3>1. "deleted" \notin {"queued", "dlq"}
      OBVIOUS
    <3> QED
      BY <2>2, <3>1 DEF Waiting, InQueue, Covers
  <2>3. CASE Excused(a, o)
    BY Zenon, <2>3 DEF Excused
  <2>4. ASSUME NEW c \in Containers, ToRetry(c, a, o) # {} PROVE InFlight(a, o)
    BY <2>4 DEF ToRetry, InFlight, Covers
  <2>5. ASSUME NEW c \in Containers, Owed(c, a, o) # {} PROVE InQueue(a, o)
    <3>1. PICK d \in Carried(c) : d.alert = a /\ Covers(d, o)
      BY Zenon, <2>5 DEF Owed, Carried
    <3>2. PICK m \in Batch(c) : messages[m].alert = a /\ Covers(messages[m], o)
      BY Zenon, <3>1 DEF HeldInv, Honest, Backed
    <3>3. m \in DOMAIN messages /\ messages[m].state # "deleted"
      BY <3>2 DEF HeldInv, Holds
    <3> QED
      BY Zenon, <3>2, <3>3 DEF InQueue, Covers
  <2> QED
    BY Zenon, <2>1, <2>2, <2>3, <2>4, <2>5 DEF Remembered
<1>1. Sound /\ [Next]_vars => Sound'
  BY SoundStep
<1>2. Sound /\ HeldInv /\ [Next]_vars => HeldInv'
  BY HeldStep
<1>3. Sound /\ HeldInv /\ TransientInv /\ [Next]_vars => TransientInv'
  BY Zenon, TransientStep
<1> QED
  BY <1>1, <1>2, <1>3, SoundInit, <1>HeldInit, <1>RemembersSuffices, PTL DEF Spec

-----------------------------------------------------------------------------
(* A delivery is repeated only when a message is delivered again.          *)

\* The messages in the queue that are for the output o of the alert a, and
\* how much of it an invocation may still send or retry.
Queued(a, o) ==
    {m \in DOMAIN messages :
        messages[m].alert = a /\ messages[m].state = "queued" /\ Covers(messages[m], o)}
Debt(c, a, o) == Cardinality(Owed(c, a, o)) + Cardinality(ToRetry(c, a, o))
Total(a, o) == SumFunctionOnSet([c \in Containers |-> Debt(c, a, o)], Containers)

\* What was delivered and what may still be is one delivery, and one more for
\* each time a message became visible again.
Once(a, o) ==
    delivered[<<a, o>>] + Cardinality(Queued(a, o)) + Total(a, o) <= 1 + redelivered[a]
OnceInv == \A a \in Alerts, o \in Outputs : Once(a, o)

\* What a step of c adds on one side of Once it adds on the other.
Pays(c, a, o) ==
    delivered'[<<a, o>>] + Cardinality(Queued(a, o)') + Debt(c, a, o)' + redelivered[a]
        <= delivered[<<a, o>>] + Cardinality(Queued(a, o)) + Debt(c, a, o) + redelivered'[a]

\* Deliveries and redeliveries are counted in natural numbers.
LEMMA Amounts ==
    ASSUME TypeOK, NEW a \in Alerts, NEW o \in Outputs
    PROVE  delivered[<<a, o>>] \in Nat /\ redelivered[a] \in Nat
<1>1. <<a, o>> \in Pairs
  BY DEF Pairs
<1> QED
  BY Zenon, <1>1 DEF TypeOK

\* What is counted is finite.
Counted ==
    \A a, o :
        /\ IsFiniteSet(Queued(a, o)) /\ Cardinality(Queued(a, o)) \in Nat
        /\ \A c \in Containers :
              /\ IsFiniteSet(Owed(c, a, o)) /\ Cardinality(Owed(c, a, o)) \in Nat
              /\ IsFiniteSet(ToRetry(c, a, o)) /\ Cardinality(ToRetry(c, a, o)) \in Nat
              /\ Debt(c, a, o) \in Nat

\* The queue and the batches are sequences.
LEMMA Counts == TypeOK => Counted
<1> SUFFICES ASSUME TypeOK, NEW a, NEW o
             PROVE  /\ IsFiniteSet(Queued(a, o)) /\ Cardinality(Queued(a, o)) \in Nat
                    /\ \A c \in Containers :
                          /\ IsFiniteSet(Owed(c, a, o)) /\ Cardinality(Owed(c, a, o)) \in Nat
                          /\ IsFiniteSet(ToRetry(c, a, o)) /\ Cardinality(ToRetry(c, a, o)) \in Nat
                          /\ Debt(c, a, o) \in Nat
  BY Zenon DEF Counted
<1>1. ASSUME NEW D, IsFiniteSet(D), NEW S \in SUBSET D
      PROVE  IsFiniteSet(S) /\ Cardinality(S) \in Nat
  BY Zenon, <1>1, FS_Subset, FS_CardinalityType
<1>2. IsFiniteSet(Queued(a, o)) /\ Cardinality(Queued(a, o)) \in Nat
  <2>1. IsFiniteSet(DOMAIN messages) /\ Queued(a, o) \in SUBSET DOMAIN messages
    BY Zenon, Queue, Elements DEF Queued
  <2> QED
    BY <1>1, <2>1
<1>3. ASSUME NEW c \in Containers
      PROVE  /\ IsFiniteSet(Owed(c, a, o)) /\ Cardinality(Owed(c, a, o)) \in Nat
             /\ IsFiniteSet(ToRetry(c, a, o)) /\ Cardinality(ToRetry(c, a, o)) \in Nat
  <2>1. IsFiniteSet(DOMAIN container[c].todo) /\ IsFiniteSet(DOMAIN container[c].failed)
    BY Zenon, Fields, Elements
  <2>2. /\ Owed(c, a, o) \in SUBSET DOMAIN container[c].todo
        /\ ToRetry(c, a, o) \in SUBSET DOMAIN container[c].failed
    BY DEF Owed, ToRetry
  <2> QED
    BY <1>1, <2>1, <2>2
<1>4. \A c \in Containers : Debt(c, a, o) \in Nat
  BY <1>3 DEF Debt
<1> QED
  BY Zenon, <1>2, <1>3, <1>4

\* The same after a step.
LEMMA CountsNext == TypeOK' => Counted'
  BY Counts, PTL

\* Every step keeps it.
LEMMA OnceStep ==
    ASSUME Sound, OnceInv, [Next]_vars
    PROVE  OnceInv'

\* A part of two finite sets.
<1>Joined. ASSUME NEW S, IsFiniteSet(S), NEW T, IsFiniteSet(T), NEW R \in SUBSET (S \cup T)
           PROVE  /\ IsFiniteSet(R) /\ Cardinality(R) \in Nat /\ Cardinality(S) \in Nat /\ Cardinality(T) \in Nat
                  /\ Cardinality(R) <= Cardinality(S) + Cardinality(T)
  <2> USE <1>Joined
  <2>1. /\ IsFiniteSet(S \cup T)
        /\ Cardinality(S \cup T) = Cardinality(S) + Cardinality(T) - Cardinality(S \cap T)
    BY Zenon, FS_Union
  <2>2. IsFiniteSet(R) /\ Cardinality(R) <= Cardinality(S \cup T)
    BY <2>1, FS_Subset
  <2>3. S \cap T \in SUBSET S
    BY Zenon
  <2>4. IsFiniteSet(S \cap T)
    BY Zenon, <2>3, FS_Subset
  <2>5. /\ Cardinality(R) \in Nat /\ Cardinality(S) \in Nat /\ Cardinality(T) \in Nat
        /\ Cardinality(S \cap T) \in Nat /\ Cardinality(S \cup T) \in Nat
    BY Zenon, <2>1, <2>2, <2>4, FS_CardinalityType
  <2> QED
    BY <2>1, <2>2, <2>5

\* Two parts of a finite set that have nothing in common.
<1>Parted. ASSUME NEW S, IsFiniteSet(S), NEW A \in SUBSET S, NEW B \in SUBSET S, A \cap B = {}
           PROVE  /\ IsFiniteSet(A) /\ IsFiniteSet(B)
                  /\ Cardinality(A) \in Nat /\ Cardinality(B) \in Nat /\ Cardinality(S) \in Nat
                  /\ Cardinality(A) + Cardinality(B) <= Cardinality(S)
  <2> USE <1>Parted
  <2>1. IsFiniteSet(A) /\ IsFiniteSet(B)
    BY FS_Subset
  <2>2. /\ IsFiniteSet(A \cup B)
        /\ Cardinality(A \cup B) = Cardinality(A) + Cardinality(B) - Cardinality(A \cap B)
    BY <2>1, FS_Union
  <2>3. A \cup B \in SUBSET S /\ Cardinality(A \cap B) = 0
    BY FS_EmptySet
  <2>4. Cardinality(A \cup B) <= Cardinality(S)
    BY <2>3, FS_Subset
  <2>5. Cardinality(A) \in Nat /\ Cardinality(B) \in Nat /\ Cardinality(S) \in Nat
    BY Zenon, <2>1, FS_CardinalityType
  <2> QED
    BY <2>1, <2>2, <2>3, <2>4, <2>5

\* Only c moves and it pays for what it does.
<1>OnceFrom. ASSUME TypeOK, TypeOK', NEW c \in Containers, Same(c), NEW a \in Alerts, NEW o \in Outputs,
                    Once(a, o), Pays(c, a, o)
             PROVE  Once(a, o)'
  <2> USE <1>OnceFrom
  <2>1. PICK f, g : f = [x \in Containers |-> Debt(x, a, o)] /\ g = [x \in Containers |-> Debt(x, a, o)']
    BY Zenon
  <2>2. \A x \in Containers : f[x] \in Nat /\ g[x] \in Nat
    BY Zenon, <2>1, Counts, CountsNext DEF Counted
  <2>3. \A x \in Containers : f[x] \in Int
    BY <2>2
  <2>4. \A x \in Containers \ {c} : g[x] = f[x]
    <3> TAKE x \in Containers \ {c}
    <3>1. container'[x] = container[x]
      BY Zenon DEF Same
    <3>2. Owed(x, a, o)' = Owed(x, a, o) /\ ToRetry(x, a, o)' = ToRetry(x, a, o)
      BY Zenon, <3>1 DEF Owed, ToRetry, Covers
    <3> QED
      BY Zenon, <2>1, <3>2 DEF Debt
  <2>5. SumFunctionOnSet(g, Containers) = SumFunctionOnSet(f, Containers) - f[c] + g[c]
    <3>1. IsFiniteSet(Containers) /\ g[c] \in Int
      BY <2>2, DeliveryAssumption
    <3> QED
      BY <2>3, <2>4, <3>1, SumUpdate
  <2>6. SumFunctionOnSet(f, Containers) \in Int
    BY Zenon, <2>3, DeliveryAssumption, SumType
  <2>7. Total(a, o) = SumFunctionOnSet(f, Containers) /\ Total(a, o)' = SumFunctionOnSet(g, Containers)
    BY <2>1 DEF Total
  <2>8. f[c] = Debt(c, a, o) /\ g[c] = Debt(c, a, o)'
    BY Zenon, <2>1
  <2>9. Total(a, o)' = Total(a, o) - Debt(c, a, o) + Debt(c, a, o)' /\ Total(a, o) \in Int
    BY Zenon, <2>5, <2>6, <2>7, <2>8
  <2>10. /\ delivered[<<a, o>>] \in Int /\ delivered'[<<a, o>>] \in Int
         /\ redelivered[a] \in Int /\ redelivered'[a] \in Int
    BY DEF TypeOK, Pairs
  <2>11. /\ Cardinality(Queued(a, o)) \in Nat /\ Cardinality(Queued(a, o)') \in Nat
         /\ Debt(c, a, o) \in Nat /\ Debt(c, a, o)' \in Nat
    BY Zenon, Counts, CountsNext DEF Counted
  <2> HIDE DEF Total, Debt, Queued
  <2> QED
    BY <2>9, <2>10, <2>11 DEF Once, Pays

\* A step that leaves the queue alone pays for a delivery with a debt.
<1>MovePays. ASSUME TypeOK, TypeOK', NEW c \in Containers, NEW a \in Alerts, NEW o \in Outputs,
                    messages' = messages, redelivered' = redelivered, NEW n \in {0, 1},
                    delivered'[<<a, o>>] = delivered[<<a, o>>] + n, Debt(c, a, o)' + n <= Debt(c, a, o)
             PROVE  Pays(c, a, o)
  <2> USE <1>MovePays
  <2>1. Queued(a, o)' = Queued(a, o)
    BY Zenon DEF Queued, Covers
  <2>2. delivered[<<a, o>>] \in Int /\ redelivered[a] \in Int
    BY Amounts
  <2>3. Cardinality(Queued(a, o)) \in Nat /\ Debt(c, a, o) \in Nat /\ Debt(c, a, o)' \in Nat
    BY Zenon, Counts, CountsNext DEF Counted
  <2> QED
    BY SMTT(30), SMTT(60), <2>1, <2>2, <2>3 DEF Pays

\* Owing less is a smaller debt.
<1>LessDebt. ASSUME TypeOK, TypeOK', NEW c \in Containers, NEW a, NEW o, NEW n \in {0, 1},
                    Owed(c, a, o)' \subseteq Owed(c, a, o), n = 1 => 1 \in Owed(c, a, o) /\ 1 \notin Owed(c, a, o)',
                    container'[c].failed = container[c].failed
             PROVE  Debt(c, a, o)' + n <= Debt(c, a, o)
  <2> USE <1>LessDebt
  <2>1. ToRetry(c, a, o)' = ToRetry(c, a, o)
    BY Zenon DEF ToRetry, Covers
  <2>2. PICK S, T : S = Owed(c, a, o) /\ T = Owed(c, a, o)' /\ T \in SUBSET S
    BY Zenon
  <2>3. /\ IsFiniteSet(S) /\ Cardinality(S) \in Nat /\ Cardinality(T) \in Nat
        /\ Cardinality(ToRetry(c, a, o)) \in Nat
    BY Zenon, <2>2, Counts, CountsNext DEF Counted
  <2>4. Cardinality(T) + n <= Cardinality(S)
    <3>1. Cardinality(T) <= Cardinality(S)
      BY Zenon, <2>2, <2>3, FS_Subset
    <3>2. Cardinality(T) = Cardinality(S) => S = T
      BY Zenon, <2>2, <2>3, FS_Subset
    <3>3. n = 1 => Cardinality(T) # Cardinality(S)
      BY Zenon, <2>2, <3>2
    <3> QED
      BY <2>3, <3>1, <3>3
  <2> QED
    BY <2>1, <2>2, <2>3, <2>4 DEF Debt

\* The end of an alert: it is retried for an output that is owed it.
<1>EndedDebtFalls.
      ASSUME TypeOK, TypeOK', NEW c \in Containers, container[c].todo # <<>>, NEW k,
             NEW d \in Dispatches, NEW r \in BOOLEAN, Ended(c, k, d, r), NEW a, NEW o, NEW n \in {0, 1},
             n = 1 \/ (r /\ d.alert = a /\ Covers(d, o)) => 1 \in Owed(c, a, o),
             ~(n = 1 /\ r /\ d.alert = a /\ Covers(d, o))
      PROVE  Debt(c, a, o)' + n <= Debt(c, a, o)
  <2> USE <1>EndedDebtFalls
  <2>1. PICK l, e : l = Len(container[c].todo) /\ e = Len(container[c].failed) + 1
    BY Zenon
  <2> l \in Nat \ {0}
    <3>1. Len(container[c].todo) \in Nat \ {0}
      BY EndedDebt
    <3> QED
      BY <2>1, <3>1
  <2>2. PICK R : R = IF r /\ d.alert = a /\ Covers(d, o) THEN {e} ELSE {}
    BY Zenon
  <2>3. /\ Owed(c, a, o)' = {i \in 1..(l - 1) : i + 1 \in Owed(c, a, o)}
        /\ ToRetry(c, a, o)' = ToRetry(c, a, o) \cup R
    <3>1. Moved(c, d, r, a, o)
      BY Zenon, EndedDebt
    <3> QED
      BY Zenon, <2>1, <2>2, <3>1 DEF Moved
  <2>4. PICK S, T, U, V : /\ S = Owed(c, a, o) /\ T = Owed(c, a, o)'
                          /\ U = ToRetry(c, a, o) /\ V = ToRetry(c, a, o)'
    BY SMTT(30), SMTT(60)
  <2>5. /\ IsFiniteSet(S) /\ IsFiniteSet(U) /\ Cardinality(S) \in Nat /\ Cardinality(U) \in Nat
        /\ Cardinality(T) \in Nat /\ Cardinality(V) \in Nat
    BY Zenon, <2>4, Counts, CountsNext DEF Counted
  <2>6. Cardinality(T) <= Cardinality(S \ {1})
    <3>1. \A i \in T : i \in Nat \ {0} /\ i + 1 \in S \ {1}
      BY <2>1, <2>3, <2>4
    <3>2. PICK f : f = [i \in T |-> i + 1]
      BY Zenon
    <3>3. f \in [T -> S \ {1}] /\ \A i, j \in T : f[i] = f[j] => i = j
      BY <3>1, <3>2
    <3>4. IsFiniteSet(S \ {1})
      BY Zenon, <2>5, FS_RemoveElement
    <3> QED
      BY <3>3, <3>4, Injects
  <2>7. Cardinality(S \ {1}) = IF 1 \in S THEN Cardinality(S) - 1 ELSE Cardinality(S)
    BY Zenon, <2>5, FS_RemoveElement
  <2>8. Cardinality(V) <= Cardinality(U) + (IF r /\ d.alert = a /\ Covers(d, o) THEN 1 ELSE 0)
    <3>1. CASE r /\ d.alert = a /\ Covers(d, o)
      <4>1. V = U \cup {e}
        BY Zenon, <2>2, <2>3, <2>4, <3>1
      <4>2. Cardinality(V) = IF e \in U THEN Cardinality(U) ELSE Cardinality(U) + 1
        BY Zenon, <2>5, <4>1, FS_AddElement
      <4> QED
        BY <2>5, <3>1, <4>2
    <3>2. CASE ~(r /\ d.alert = a /\ Covers(d, o))
      <4>1. V = U
        BY Zenon, <2>2, <2>3, <2>4, <3>2
      <4> QED
        BY <2>5, <3>2, <4>1
    <3> QED
      BY Zenon, <3>1, <3>2
  <2>9. Cardinality(T) + Cardinality(V) + n <= Cardinality(S) + Cardinality(U)
    <3>1. CASE 1 \in S /\ r /\ d.alert = a /\ Covers(d, o)
      <4>1. n = 0
        BY Zenon, <3>1
      <4> QED
        BY <2>5, <2>6, <2>7, <2>8, <3>1, <4>1
    <3>2. CASE 1 \in S /\ ~(r /\ d.alert = a /\ Covers(d, o))
      BY <2>5, <2>6, <2>7, <2>8, <3>2
    <3>3. CASE 1 \notin S
      <4>1. n = 0 /\ ~(r /\ d.alert = a /\ Covers(d, o))
        BY Zenon, <2>4, <3>3
      <4> QED
        BY <2>5, <2>6, <2>7, <2>8, <3>3, <4>1
    <3> QED
      BY Zenon, <3>1, <3>2, <3>3
  <2> QED
    BY Zenon, <2>4, <2>5, <2>9 DEF Debt

\* FetchOutputs.
<1>FetchPays. ASSUME TypeOK, TypeOK', NEW c \in Containers, FetchOutputs(c), NEW a \in Alerts, NEW o \in Outputs
              PROVE  Same(c) /\ Pays(c, a, o)
  <2> USE <1>FetchPays
  <2>1. Fetched(c) /\ container[c].pc = "dispatch" /\ messages' = messages
        /\ delivered' = delivered /\ redelivered' = redelivered
    BY Zenon, FetchEffect DEF FetchOutputs, history
  <2>2. /\ Same(c) /\ container'[c].todo = container[c].todo /\ container'[c].failed = container[c].failed
        /\ container'[c].pc # "send" /\ container[c].pc # "send"
    BY Zenon, <2>1 DEF Fetched, GoesOn
  <2>3. Owed(c, a, o)' \subseteq Owed(c, a, o)
    BY SMTT(30), SMTT(60), <2>2 DEF Owed, Covers
  <2>4. PICK n \in {0, 1} : n = 0
    BY Zenon
  <2>5. Debt(c, a, o)' + n <= Debt(c, a, o)
    BY SMTT(30), SMTT(60), <2>2, <2>3, <2>4, <1>LessDebt
  <2>6. delivered'[<<a, o>>] = delivered[<<a, o>>] + n
    BY SMTT(30), SMTT(60), <2>1, <2>4, Amounts
  <2> QED
    BY Zenon, <2>1, <2>2, <2>5, <2>6, <1>MovePays

\* Dispatch.
<1>DispatchPays.
      ASSUME TypeOK, TypeOK', ShapeInv, NEW c \in Containers, Dispatch(c),
             NEW a \in Alerts, NEW o \in Outputs
      PROVE  Same(c) /\ Pays(c, a, o)
  <2> USE <1>DispatchPays
  <2>1. PICK k \in Caches, T \in SUBSET Outputs, d \in Dispatches : Dispatched(c, k, T, d)
    BY DispatchEffect
  <2>2. messages' = messages /\ delivered' = delivered /\ redelivered' = redelivered
    BY Zenon DEF Dispatch
  <2>3. container[c].todo # <<>> /\ container[c].pc # "send"
    BY SMTT(30), SMTT(60), <2>1 DEF Dispatched
  <2>4. PICK n \in {0, 1} : n = 0
    BY Zenon
  <2>5. Same(c) /\ Debt(c, a, o)' + n <= Debt(c, a, o)
    <3>1. CASE Sent(c, k, T)
      <4>1. /\ Same(c) /\ container'[c].todo = container[c].todo
            /\ container'[c].failed = container[c].failed
        BY Zenon, <3>1 DEF Sent, GoesOn
      <4>2. Owed(c, a, o)' \subseteq Owed(c, a, o)
        BY Zenon, <2>3, <4>1 DEF Owed, Covers
      <4> QED
        BY SMTT(30), SMTT(60), <2>4, <4>1, <4>2, <1>LessDebt
    <3>2. CASE Ended(c, k, d, FALSE)
      <4> PICK r \in BOOLEAN : r = FALSE
        BY Zenon
      <4>1. Ended(c, k, d, r)
        BY Zenon, <3>2
      <4>2. Debt(c, a, o)' + n <= Debt(c, a, o)
        BY SMTT(30), SMTT(60), <2>3, <2>4, <4>1, <1>EndedDebtFalls
      <4> QED
        BY SMTT(30), SMTT(60), <3>2, <4>2 DEF Ended, GoesOn
    <3> QED
      BY Zenon, <2>1, <3>1, <3>2 DEF Dispatched, Done
  <2>6. delivered'[<<a, o>>] = delivered[<<a, o>>] + n
    BY <2>2, <2>4, Amounts
  <2> QED
    BY Zenon, <2>2, <2>5, <2>6, <1>MovePays

\* DispatchFails.
<1>DispatchFailsPays.
      ASSUME TypeOK, TypeOK', ShapeInv, NEW c \in Containers, DispatchFails(c),
             NEW a \in Alerts, NEW o \in Outputs
      PROVE  Same(c) /\ Pays(c, a, o)
  <2> USE <1>DispatchFailsPays
  <2>1. PICK k : k = container[c].cache
    BY Zenon
  <2>2. PICK d \in Dispatches : /\ container[c].pc = "dispatch" /\ container[c].todo # <<>>
                                /\ d = Head(container[c].todo) /\ Retried(c, k, d)
    BY Zenon, <2>1, DispatchFailsEffect
  <2>3. d = container[c].todo[1] /\ 1 \in DOMAIN container[c].todo
    BY <2>2, Fields, FirstAlert
  <2>4. messages' = messages /\ delivered' = delivered /\ redelivered' = redelivered
    BY DEF DispatchFails
  <2>5. PICK n \in {0, 1} : n = 0
    BY Zenon
  <2>6. PICK r \in BOOLEAN : Ended(c, k, d, r)
    BY Zenon, <2>2 DEF Retried
  <2>7. d.alert = a /\ Covers(d, o) => 1 \in Owed(c, a, o)
    BY Zenon, <2>2, <2>3 DEF Owed
  <2>8. Debt(c, a, o)' + n <= Debt(c, a, o)
    BY SMTT(30), SMTT(60), <2>2, <2>5, <2>6, <2>7, <1>EndedDebtFalls
  <2>9. Same(c) /\ delivered'[<<a, o>>] = delivered[<<a, o>>] + n
    BY <2>4, <2>5, <2>6 DEF TypeOK, Pairs, Ended, GoesOn
  <2> QED
    BY Zenon, <2>4, <2>8, <2>9, <1>MovePays

\* The report of a goroutine: what it delivers is not retried.
<1>SendPays. ASSUME TypeOK, TypeOK', ShapeInv, NEW c \in Containers, NEW x \in Outputs,
                    SendSucceeds(c, x) \/ SendFailsForGood(c, x) \/ SendFailsForNow(c, x),
                    NEW a \in Alerts, NEW o \in Outputs
             PROVE  Same(c) /\ Pays(c, a, o)
  <2> USE <1>SendPays
  <2>1. messages' = messages /\ redelivered' = redelivered
    BY Zenon, SendEffect
  <2>2. PICK p \in Pairs, again \in SUBSET Outputs :
            /\ p = <<Head(container[c].todo).alert, x>> /\ Answered(c, x, again)
            /\ \/ /\ again = container[c].again
                  /\ delivered' = delivered \/ delivered' = [delivered EXCEPT ![p] = @ + 1]
               \/ again = container[c].again \cup {x} /\ delivered' = delivered
    <3>1. \E p \in Pairs, again \in SUBSET Outputs :
             /\ p = <<Head(container[c].todo).alert, x>>
             /\ Answered(c, x, again)
             /\ \/ /\ again = container[c].again /\ transient' = transient \ {p}
                   /\ delivered' = delivered \/ delivered' = [delivered EXCEPT ![p] = @ + 1]
                \/ /\ again = container[c].again \cup {x} /\ transient' = transient \cup {p}
                   /\ delivered' = delivered
      BY Zenon, SendEffect
    <3> HIDE <1>SendPays
    <3> QED
      BY SMTT(30), SMTT(60), <3>1
  <2>3. container[c].pc = "send" /\ x \in container[c].pending /\ container[c].todo # <<>>
    BY Zenon, <2>2 DEF Answered
  <2>4. PICK h \in Dispatches : /\ h = Head(container[c].todo) /\ h = container[c].todo[1]
                                /\ 1 \in DOMAIN container[c].todo
    <3>1. PICK t \in Seq(Dispatches) : t = container[c].todo /\ t # <<>>
      BY Zenon, <2>3, Fields
    <3>2. Head(t) = t[1] /\ Head(t) \in Dispatches /\ 1 \in DOMAIN t
      BY <3>1, FirstAlert
    <3> QED
      BY SMTT(30), SMTT(60), <3>1, <3>2
  <2>5. /\ container[c].pending \cup container[c].again \subseteq Wanted(h)
        /\ container[c].pending \cap container[c].again = {}
    BY Zenon, <2>3, <2>4 DEF ShapeInv, Shape
  <2>6. PICK n \in {0, 1} : /\ delivered'[<<a, o>>] = delivered[<<a, o>>] + n
                            /\ n = 1 => h.alert = a /\ o = x /\ again = container[c].again
    <3>1. CASE <<a, o>> = p /\ delivered' = [delivered EXCEPT ![p] = @ + 1] /\ again = container[c].again
      <4>1. delivered'[<<a, o>>] = delivered[<<a, o>>] + 1
        BY Zenon, <3>1 DEF TypeOK
      <4>2. h.alert = a /\ o = x
        BY SMTT(30), SMTT(60), <2>2, <2>4, <3>1
      <4> QED
        BY Zenon, <3>1, <4>1, <4>2
    <3>2. CASE delivered'[<<a, o>>] = delivered[<<a, o>>]
      <4>1. delivered[<<a, o>>] \in Nat
        BY Zenon DEF TypeOK, Pairs
      <4> QED
        BY <3>2, <4>1
    <3>3. delivered' = [delivered EXCEPT ![p] = @ + 1] /\ <<a, o>> # p
              => delivered'[<<a, o>>] = delivered[<<a, o>>]
      BY Zenon DEF TypeOK, Pairs
    <3> QED
      BY Zenon, <2>2, <3>1, <3>2, <3>3
  <2>7. ASSUME o \in container[c].pending \cup container[c].again, h.alert = a PROVE 1 \in Owed(c, a, o)
    <3>1. Covers(h, o)
      BY Zenon, <2>5, <2>7 DEF Covers, Wanted
    <3> QED
      BY Zenon, <2>4, <2>7, <3>1 DEF Owed
  <2>8. n = 1 => 1 \in Owed(c, a, o) /\ o \notin again /\ o = x
    BY Zenon, <2>3, <2>5, <2>6, <2>7
  <2>9. CASE Reported(c, x, again)
    <3>1. /\ Same(c) /\ container'[c].todo = container[c].todo /\ container'[c].pc = "send"
          /\ container'[c].failed = container[c].failed
          /\ container'[c].pending = container[c].pending \ {x} /\ container'[c].again = again
      BY Zenon, <2>9 DEF Reported, GoesOn
    <3>2. container'[c].pending \cup container'[c].again \subseteq container[c].pending \cup container[c].again
      BY Zenon, <2>2, <2>3, <3>1
    <3>3. Owed(c, a, o)' \subseteq Owed(c, a, o)
      BY Zenon, <2>3, <3>1, <3>2 DEF Owed, Covers
    <3>4. n = 1 => 1 \notin Owed(c, a, o)'
      BY Zenon, <2>8, <3>1 DEF Owed
    <3>5. Debt(c, a, o)' + n <= Debt(c, a, o)
      BY Zenon, <2>8, <3>1, <3>3, <3>4, <1>LessDebt
    <3> QED
      BY Zenon, <2>1, <2>6, <3>1, <3>5, <1>MovePays
  <2>10. ASSUME NEW k, NEW d \in Dispatches, NEW r \in BOOLEAN, Ended(c, k, d, r),
                r => again # {} /\ d.alert = h.alert /\ d.ids = again
         PROVE  Same(c) /\ Pays(c, a, o)
    <3>1. ASSUME r, d.alert = a, Covers(d, o) PROVE 1 \in Owed(c, a, o) /\ o \in again
      <4>1. o \in again /\ h.alert = a
        BY Zenon, <2>10, <3>1 DEF Covers
      <4> QED
        BY Zenon, <2>2, <2>3, <2>7, <4>1
    <3>2. Debt(c, a, o)' + n <= Debt(c, a, o)
      BY Zenon, <2>3, <2>8, <2>10, <3>1, <1>EndedDebtFalls
    <3>3. Same(c)
      BY Zenon, <2>10 DEF Ended, GoesOn
    <3> QED
      BY <2>1, <2>6, <3>2, <3>3, <1>MovePays
  <2>11. PICK k : k = container[c].cache
    OBVIOUS
  <2>12. CASE Done(c, k, h)
    BY Zenon, <2>10, <2>12 DEF Done
  <2>13. ASSUME again # {}, NEW d \in Dispatches, d.alert = h.alert, d.ids = again, Retried(c, k, d)
         PROVE  Same(c) /\ Pays(c, a, o)
    BY Zenon, <2>10, <2>13 DEF Retried
  <2> QED
    BY Zenon, <2>2, <2>4, <2>9, <2>11, <2>12, <2>13 DEF Answered

\* Receive: what an invocation owes it took from the queue.
<1>ReceivePays.
      ASSUME TypeOK, TypeOK', NEW c \in Containers, NEW batch \in Batches, Receive(c, batch),
             NEW a \in Alerts, NEW o \in Outputs
      PROVE  Same(c) /\ Pays(c, a, o)
  <2> USE <1>ReceivePays
  <2>1. PICK todo, pos : Taken(c, batch, todo) /\ Reads(batch, todo, pos)
    BY Zenon, ReceiveEffect
  <2>2. Same(c) /\ Kept /\ DOMAIN messages' = DOMAIN messages
    BY SMTT(30), SMTT(60), <2>1 DEF Taken
  <2>3. delivered' = delivered /\ redelivered' = redelivered
    BY Zenon DEF Receive, history
  <2>4. PICK B : B = {m \in Queued(a, o) : \E i \in DOMAIN batch : batch[i] = m}
    BY Zenon
  <2>5. PICK Q, R, D : Q = Queued(a, o) /\ R = Queued(a, o)' /\ D = Owed(c, a, o)'
    BY Zenon
  <2>6. /\ IsFiniteSet(Q) /\ Cardinality(Q) \in Nat /\ Debt(c, a, o) \in Nat
        /\ Cardinality(R) \in Nat /\ Cardinality(D) \in Nat
    BY Zenon, <2>5, Counts, CountsNext DEF Counted
  <2>7. R \subseteq Q \ B
    <3> SUFFICES ASSUME NEW m \in R PROVE m \in Q \ B
      BY Zenon
    <3>1. m \in DOMAIN messages /\ messages'[m].alert = a /\ messages'[m].state = "queued"
          /\ Covers(messages'[m], o)
      BY Zenon, <2>2, <2>5 DEF Queued
    <3>2. messages[m].alert = a /\ Covers(messages[m], o)
      BY Zenon, <2>2, <3>1 DEF Kept, Covers
    <3>3. messages[m].state = "queued" /\ ~(\E i \in DOMAIN batch : batch[i] = m)
      <4>1. "held" # "queued"
        BY Zenon
      <4> QED
        BY Zenon, <2>1, <3>1, <4>1 DEF Taken
    <3> QED
      BY Zenon, <2>4, <2>5, <3>1, <3>2, <3>3 DEF Queued
  <2>8. Cardinality(D) <= Cardinality(B)
    <3>1. container'[c].todo = todo
      BY Zenon, <2>1 DEF Taken
    <3>2. ASSUME NEW j \in D PROVE j \in DOMAIN todo /\ pos[j] \in DOMAIN batch /\ batch[pos[j]] \in B
      <4>1. j \in DOMAIN todo /\ todo[j].alert = a /\ Covers(todo[j], o)
        BY Zenon, <2>5, <3>1 DEF Owed
      <4>2. PICK m : m = batch[pos[j]]
        BY Zenon
      <4>3. pos[j] \in DOMAIN batch /\ todo[j].alert = messages[m].alert /\ todo[j].ids = messages[m].ids
        BY Zenon, <2>1, <4>1, <4>2 DEF Reads
      <4>4. m \in DOMAIN messages /\ messages[m].state = "queued"
        <5>1. batch \in Seq(DOMAIN messages)
          BY Zenon, <2>1 DEF Taken
        <5> QED
          BY Zenon, <2>1, <4>2, <4>3, <5>1, Elements DEF Taken
      <4>5. Covers(messages[m], o) /\ messages[m].alert = a
        BY Zenon, <4>1, <4>3 DEF Covers
      <4>6. m \in Queued(a, o)
        BY SMTT(30), SMTT(60), <4>4, <4>5 DEF Queued
      <4> QED
        BY SMTT(30), SMTT(60), <2>4, <4>1, <4>2, <4>3, <4>6
    <3>3. PICK f : f = [j \in D |-> batch[pos[j]]]
      BY Zenon
    <3>4. f \in [D -> B]
      BY Zenon, <3>2, <3>3
    <3>5. ASSUME NEW i \in D, NEW j \in D, f[i] = f[j] PROVE i = j
      <4>1. pos[i] = pos[j]
        BY SMTT(30), SMTT(60), <2>1, <3>2, <3>3, <3>5 DEF Taken
      <4> QED
        BY Zenon, <2>1, <3>2, <4>1 DEF Reads
    <3>6. IsFiniteSet(B)
      BY Zenon, <2>4, <2>5, <2>6, FS_Subset
    <3> QED
      BY Zenon, <3>4, <3>5, <3>6, Injects
  <2>9. Cardinality(R) <= Cardinality(Q \ B) /\ Cardinality(Q \ B) + Cardinality(B) <= Cardinality(Q)
    <3>1. Q \ B \in SUBSET Q /\ B \in SUBSET Q /\ (Q \ B) \cap B = {}
      BY Zenon, <2>4, <2>5
    <3>2. IsFiniteSet(Q \ B) /\ Cardinality(Q \ B) + Cardinality(B) <= Cardinality(Q)
      BY Zenon, <2>6, <3>1, <1>Parted
    <3> QED
      BY <2>7, <3>2, FS_Subset
  <2>10. Debt(c, a, o)' = Cardinality(D)
    <3>1. ToRetry(c, a, o)' = {}
      <4>1. container'[c].failed = <<>> /\ DOMAIN <<>> = {}
        BY SMTT(30), SMTT(60), <2>1 DEF Taken
      <4> QED
        BY Zenon, <4>1 DEF ToRetry
    <3> QED
      BY <2>5, <2>6, <3>1, FS_EmptySet DEF Debt
  <2>11. Cardinality(Q \ B) \in Nat /\ Cardinality(B) \in Nat
    <3>1. IsFiniteSet(Q \ B) /\ IsFiniteSet(B)
      BY Zenon, <2>4, <2>5, <2>6, FS_Subset
    <3> QED
      BY Zenon, <3>1, FS_CardinalityType
  <2>12. Cardinality(R) + Debt(c, a, o)' <= Cardinality(Q) + Debt(c, a, o)
    BY <2>6, <2>8, <2>9, <2>10, <2>11
  <2>13. delivered[<<a, o>>] \in Int /\ redelivered[a] \in Int /\ Debt(c, a, o)' \in Int
    <3>1. delivered[<<a, o>>] \in Nat /\ redelivered[a] \in Nat /\ Debt(c, a, o)' \in Nat
      BY Zenon, <2>6, <2>10, Amounts
    <3> QED
      BY SMTT(30), SMTT(60), <3>1
  <2> QED
    BY SMTT(30), SMTT(60), <2>2, <2>3, <2>5, <2>6, <2>12, <2>13 DEF Pays

\* The end of an invocation: what it puts in the queue was owed, what becomes
\* visible again is counted.
<1>EndPays. ASSUME TypeOK, TypeOK', NEW c \in Containers, NEW k, Idled(c, k), NEW failed \in BOOLEAN, Returned(c, failed),
                   delivered' = delivered, NEW a \in Alerts, NEW o \in Outputs, NEW new, IsFiniteSet(new),
                   \A m \in Queued(a, o)' \ DOMAIN messages : m \in new,
                   Cardinality(new) <= Cardinality(ToRetry(c, a, o))
            PROVE  Same(c) /\ Pays(c, a, o)
  <2> USE <1>EndPays
  <2>1. Same(c) /\ Kept
    <3>1. Same(c)
      BY Zenon DEF Idled
    <3>2. Kept
      BY Zenon DEF Returned
    <3> QED
      BY Zenon, <3>1, <3>2
  <2>2. PICK V : V = {m \in Batch(c) : messages[m].alert = a}
    BY Zenon
  <2>3. IsFiniteSet(V) /\ Cardinality(V) \in Nat
    <3>1. PICK b \in Seq(Nat) : b = container[c].batch
      BY Zenon, Fields
    <3>2. IsFiniteSet({b[i] : i \in DOMAIN b})
      BY Zenon, Values
    <3>3. IsFiniteSet(Batch(c)) /\ V \in SUBSET Batch(c)
      BY Zenon, <2>2, <3>1, <3>2 DEF Batch
    <3> QED
      BY Zenon, <3>3, FS_Subset, FS_CardinalityType
  <2>4. PICK W : W = IF failed THEN V ELSE {}
    BY Zenon
  <2>5. IsFiniteSet(W) /\ Cardinality(W) \in Nat /\ redelivered'[a] = redelivered[a] + Cardinality(W)
    <3>1. Cardinality({}) = 0 /\ IsFiniteSet({}) /\ 0 \in Nat
      BY FS_EmptySet
    <3>2. redelivered'[a] = redelivered[a] + IF failed THEN Cardinality(V) ELSE 0
      BY Zenon, <2>2 DEF Returned
    <3> QED
      BY Zenon, <2>3, <2>4, <3>1, <3>2
  <2>6. PICK Q, R : Q = Queued(a, o) /\ R = Queued(a, o)'
    BY Zenon
  <2>7. R \subseteq (Q \cup W) \cup new
    <3> SUFFICES ASSUME NEW m \in R, m \in DOMAIN messages PROVE m \in Q \cup W
      BY <2>6
    <3>1. messages'[m].alert = a /\ messages'[m].state = "queued" /\ Covers(messages'[m], o)
      BY Zenon, <2>6 DEF Queued
    <3>2. messages[m].alert = a /\ Covers(messages[m], o)
      BY Zenon, <2>1, <3>1 DEF Kept, Covers
    <3>3. CASE m \in Batch(c)
      <4>1. failed
        <5>1. "queued" # "deleted"
          BY Zenon
        <5> QED
          BY Zenon, <3>1, <3>3, <5>1 DEF Returned
      <4> QED
        BY Zenon, <2>2, <2>4, <3>2, <3>3, <4>1
    <3>4. CASE m \notin Batch(c)
      <4>1. messages[m].state = "queued"
        BY Zenon, <3>1, <3>4 DEF Returned
      <4> QED
        BY Zenon, <2>6, <3>2, <4>1 DEF Queued
    <3> QED
      BY Zenon, <3>3, <3>4
  <2>8. /\ IsFiniteSet(Q) /\ Cardinality(Q) \in Nat /\ Cardinality(R) \in Nat
        /\ Cardinality(Owed(c, a, o)) \in Nat /\ Cardinality(ToRetry(c, a, o)) \in Nat
    BY Zenon, <2>6, Counts, CountsNext DEF Counted
  <2>9. Cardinality(R) <= Cardinality(Q) + Cardinality(W) + Cardinality(new)
    <3>1. PICK U : U = Q \cup W
      BY Zenon
    <3>2. U \in SUBSET (Q \cup W) /\ R \in SUBSET (U \cup new)
      BY Zenon, <2>7, <3>1
    <3>3. /\ IsFiniteSet(U) /\ Cardinality(U) \in Nat
          /\ Cardinality(U) <= Cardinality(Q) + Cardinality(W)
      BY Zenon, <2>5, <2>8, <3>2, <1>Joined
    <3>4. Cardinality(R) <= Cardinality(U) + Cardinality(new) /\ Cardinality(new) \in Nat
      BY Zenon, <3>2, <3>3, <1>Joined
    <3>5. /\ Cardinality(Q) \in Nat /\ Cardinality(W) \in Nat /\ Cardinality(R) \in Nat
          /\ Cardinality(U) \in Nat
      BY Zenon, <2>5, <2>8, <3>3
    <3> HIDE <1>EndPays
    <3> QED
      BY SMTT(30), SMTT(60), <3>3, <3>4, <3>5
  <2>10. Debt(c, a, o)' = 0
    <3>1. container'[c].todo = <<>> /\ container'[c].failed = <<>> /\ DOMAIN <<>> = {}
      BY DEF Idled
    <3>2. Owed(c, a, o)' = {} /\ ToRetry(c, a, o)' = {}
      BY Zenon, <3>1 DEF Owed, ToRetry
    <3> QED
      BY <3>2, FS_EmptySet DEF Debt
  <2>11. PICK D, E, F, G, N \in Int : /\ D = Cardinality(Q) /\ E = Cardinality(Owed(c, a, o))
                           /\ F = Cardinality(ToRetry(c, a, o)) /\ G = Cardinality(W) /\ N = Cardinality(new)
    BY SMTT(30), SMTT(60), <2>5, <2>8, FS_CardinalityType
  <2>12. E >= 0 /\ N <= F /\ Debt(c, a, o) = E + F /\ Cardinality(R) <= D + G + N
    BY SMTT(30), SMTT(60), <2>8, <2>9, <2>11 DEF Debt
  <2>13. delivered[<<a, o>>] \in Int /\ redelivered[a] \in Int
    <3>1. delivered[<<a, o>>] \in Nat /\ redelivered[a] \in Nat
      BY Zenon, Amounts
    <3> HIDE <1>EndPays
    <3> QED
      BY <3>1
  <2> QED
    BY SMTT(30), SMTT(60), <2>1, <2>5, <2>6, <2>8, <2>10, <2>11, <2>12, <2>13 DEF Pays

\* FinishInvocation: each retry it sends was to be sent.
<1>FinishPays.
      ASSUME TypeOK, TypeOK', NEW c \in Containers, Shape(c), Fresh(c),
             NEW accepted \in SUBSET (DOMAIN container[c].failed),
             NEW delay \in [accepted -> MinDelay..(MaxDelay - 1)], FinishInvocation(c, accepted, delay),
             NEW a \in Alerts, NEW o \in Outputs
      PROVE  Same(c) /\ Pays(c, a, o)
  <2> USE <1>FinishPays
  <2> PICK k : k = container[c].cache
    BY Zenon
  <2>1. PICK failed \in BOOLEAN : Idled(c, k) /\ Returned(c, failed)
    BY Zenon, FinishEffect
  <2>2. PutBack(c, accepted)
    BY Zenon, FinishEffect
  <2>3. delivered' = delivered
    BY Zenon DEF FinishInvocation
  <2>4. PICK new : new = Queued(a, o)' \ DOMAIN messages
    BY Zenon
  <2>5. IsFiniteSet(ToRetry(c, a, o))
    BY Zenon, Counts DEF Counted
  <2>6. PICK l \in Nat : l = Len(messages)
    BY Zenon, Queue
  <2>7. ASSUME NEW m \in new
        PROVE  /\ m - l \in 1..Cardinality(accepted) /\ m = l + (m - l)
               /\ Nth(accepted, m - l) \in ToRetry(c, a, o)
    <3>1. /\ m \in DOMAIN messages' \ DOMAIN messages
          /\ messages'[m].alert = a /\ Covers(messages'[m], o)
      BY Zenon, <2>4, <2>7 DEF Queued
    <3>2. PICK j \in 1..Cardinality(accepted) : m = l + j /\ Nth(accepted, j) \in accepted
      BY Zenon, <2>2, <2>6, <3>1, NewMessages
    <3>3. m - l = j
      BY <3>2
    <3>4. /\ messages'[m].alert = container[c].failed[Nth(accepted, j)].alert
          /\ messages'[m].ids = container[c].failed[Nth(accepted, j)].ids
      BY Zenon, <2>2, <2>6, <3>2 DEF PutBack
    <3>5. /\ container[c].failed[Nth(accepted, j)].alert = a
          /\ Covers(container[c].failed[Nth(accepted, j)], o)
      BY Zenon, <3>1, <3>4 DEF Covers
    <3>6. Nth(accepted, j) \in ToRetry(c, a, o)
      BY Zenon, <3>2, <3>5 DEF ToRetry
    <3> QED
      BY Zenon, <3>2, <3>3, <3>6
  <2>8. PICK f : f = [m \in new |-> Nth(accepted, m - l)]
    BY Zenon
  <2>9. f \in [new -> ToRetry(c, a, o)]
    BY Zenon, <2>7, <2>8
  <2>10. ASSUME NEW m \in new, NEW n \in new, f[m] = f[n] PROVE m = n
    <3>1. m - l = n - l
      BY Zenon, <2>2, <2>7, <2>8, <2>10, NewMessages
    <3> QED
      BY Zenon, <2>7, <3>1
  <2>11. PICK T : T = ToRetry(c, a, o)
    BY Zenon
  <2>12. IsFiniteSet(new) /\ Cardinality(new) <= Cardinality(T)
    <3>1. f \in [new -> T] /\ IsFiniteSet(T)
      BY Zenon, <2>5, <2>9, <2>11
    <3> QED
      BY Zenon, <2>10, <3>1, Injects
  <2>13. Cardinality(new) <= Cardinality(ToRetry(c, a, o))
    BY Zenon, <2>11, <2>12
  <2> QED
    BY Zenon, <2>1, <2>3, <2>4, <2>12, <2>13, <1>EndPays

\* Crash.
<1>CrashPays. ASSUME TypeOK, TypeOK', NEW c \in Containers, Crash(c), NEW a \in Alerts, NEW o \in Outputs
              PROVE  Same(c) /\ Pays(c, a, o)
  <2> USE <1>CrashPays
  <2> PICK failed \in BOOLEAN : failed = TRUE
    BY Zenon
  <2>1. Idled(c, NoCache) /\ Returned(c, failed)
    BY Zenon, CrashEffect
  <2>2. delivered' = delivered
    BY DEF Crash
  <2>3. PICK new : new = {}
    BY Zenon
  <2>4. \A m \in Queued(a, o)' \ DOMAIN messages : m \in new
    BY Zenon, CrashEffect DEF Queued
  <2>5. IsFiniteSet(new) /\ Cardinality(new) <= Cardinality(ToRetry(c, a, o))
    <3>1. IsFiniteSet(new) /\ Cardinality(new) = 0
      BY Zenon, <2>3, FS_EmptySet
    <3>2. Cardinality(ToRetry(c, a, o)) \in Nat
      BY Zenon, Counts DEF Counted
    <3> QED
      BY <3>1, <3>2
  <2> QED
    BY Zenon, <2>1, <2>2, <2>4, <2>5, <1>EndPays
<1> SUFFICES ASSUME NEW a \in Alerts, NEW o \in Outputs PROVE Once(a, o)'
  BY Zenon DEF OnceInv
<1>1. TypeOK /\ ShapeInv /\ TypeOK' /\ \A c \in Containers : Shape(c) /\ Fresh(c)
  BY Zenon, SoundStep DEF Sound, ShapeInv, CacheInv
<1>2. ASSUME NEW c \in Containers, Same(c), Pays(c, a, o) PROVE Once(a, o)'
  <2>1. Once(a, o)
    BY Zenon DEF OnceInv
  <2> QED
    BY Zenon, <1>1, <1>2, <2>1, <1>OnceFrom
<1>3. ASSUME NEW c \in Containers, NEW batch \in Batches, Receive(c, batch) PROVE Once(a, o)'
  BY <1>1, <1>2, <1>3, <1>ReceivePays
<1>4. ASSUME NEW c \in Containers, FetchOutputs(c) PROVE Once(a, o)'
  BY Zenon, <1>1, <1>2, <1>4, <1>FetchPays
<1>5. ASSUME NEW c \in Containers, Dispatch(c) PROVE Once(a, o)'
  BY <1>1, <1>2, <1>5, <1>DispatchPays
<1>6. ASSUME NEW c \in Containers, DispatchFails(c) PROVE Once(a, o)'
  BY Zenon, <1>1, <1>2, <1>6, <1>DispatchFailsPays
<1>7. ASSUME NEW c \in Containers, NEW x \in Outputs,
             SendSucceeds(c, x) \/ SendFailsForGood(c, x) \/ SendFailsForNow(c, x)
      PROVE  Once(a, o)'
  BY <1>1, <1>2, <1>7, <1>SendPays
<1>8. ASSUME NEW c \in Containers, NEW accepted \in SUBSET (DOMAIN container[c].failed),
             NEW delay \in [accepted -> MinDelay..(MaxDelay - 1)], FinishInvocation(c, accepted, delay)
      PROVE  Once(a, o)'
  BY <1>1, <1>2, <1>8, <1>FinishPays
<1>9. ASSUME NEW c \in Containers, Crash(c) PROVE Once(a, o)'
  BY <1>1, <1>2, <1>9, <1>CrashPays
<1>10. ASSUME (\E x \in Outputs : ChangeOutput(x)) \/ Tick \/ UNCHANGED vars PROVE Once(a, o)'
  <2>1. /\ messages' = messages /\ container' = container
        /\ delivered' = delivered /\ redelivered' = redelivered
    BY <1>10 DEF ChangeOutput, Tick, vars, history
  <2>2. Queued(a, o)' = Queued(a, o)
    BY Zenon, <2>1 DEF Queued, Covers
  <2>3. Total(a, o)' = Total(a, o)
    <3>1. \A c \in Containers : Owed(c, a, o)' = Owed(c, a, o) /\ ToRetry(c, a, o)' = ToRetry(c, a, o)
      BY SMTT(30), SMTT(60), <2>1 DEF Owed, ToRetry
    <3>2. \A c \in Containers : Debt(c, a, o)' = Debt(c, a, o)
      BY Zenon, <3>1 DEF Debt
    <3>3. [c \in Containers |-> Debt(c, a, o)'] = [c \in Containers |-> Debt(c, a, o)]
      BY <3>2
    <3> QED
      BY Zenon, <3>3 DEF Total
  <2>4. Once(a, o)
    BY DEF OnceInv
  <2> QED
    BY Zenon, <2>1, <2>2, <2>3, <2>4 DEF Once
<1> QED
  BY Zenon, <1>3, <1>4, <1>5, <1>6, <1>7, <1>8, <1>9, <1>10 DEF Next, Advance

\* An output confirms an alert once, and once more at most for each time a message
\* of the alert became visible again: the retries of a delivery that failed for
\* now, whatever their number, repeat no delivery that was confirmed.
THEOREM DeliveredOnceHolds == Spec => []DeliveredOnce

\* One message for each alert at first.
<1>OnceInit. Init => OnceInv
  <2> SUFFICES ASSUME Init, NEW a \in Alerts, NEW o \in Outputs PROVE Once(a, o)
    BY DEF OnceInv
  <2>1. TypeOK
    BY Zenon, SoundInit DEF Sound
  <2>2. delivered[<<a, o>>] = 0 /\ redelivered[a] = 0
    BY Zenon DEF Init, Pairs
  <2>3. PICK Q : Q = Queued(a, o) /\ Cardinality(Q) \in Nat
    BY Zenon, <2>1, Counts DEF Counted
  <2>4. \A m, n \in Q : m = n
    <3>1. \A m \in Q : m \in DOMAIN Arrivals /\ Arrivals[m] = a
      BY Zenon, <2>3, FirstMessages DEF Queued
    <3> QED
      BY Zenon, <3>1, ArrivalsListed
  <2>5. Cardinality(Q) <= 1
    <3>1. PICK f : f = [m \in Q |-> a]
      BY Zenon
    <3>2. f \in [Q -> {a}] /\ \A m, n \in Q : f[m] = f[n] => m = n
      BY Zenon, <2>4, <3>1
    <3>3. IsFiniteSet({a}) /\ Cardinality({a}) = 1
      BY Zenon, FS_Singleton
    <3> QED
      BY <3>2, <3>3, Injects
  <2>6. \A c \in Containers : Debt(c, a, o) = 0
    <3> TAKE c \in Containers
    <3>1. container[c].todo = <<>> /\ container[c].failed = <<>> /\ DOMAIN <<>> = {}
      BY FirstContainers
    <3>2. Owed(c, a, o) = {} /\ ToRetry(c, a, o) = {}
      BY <3>1 DEF Owed, ToRetry
    <3> QED
      BY <3>2, FS_EmptySet DEF Debt
  <2>7. Total(a, o) = 0
    <3>1. PICK f : f = [c \in Containers |-> Debt(c, a, o)]
      BY Zenon
    <3>2. f \in [Containers -> Int] /\ \A c \in Containers : f[c] = 0
      BY <2>6, <3>1
    <3>3. SumFunction(f) = 0
      BY Zenon, <3>2, DeliveryAssumption, SumOfZeros
    <3>4. SumFunction(f) = SumFunctionOnSet(f, Containers)
      BY Zenon, <3>2 DEF SumFunction
    <3> QED
      BY Zenon, <3>1, <3>3, <3>4 DEF Total
  <2> QED
    BY <2>2, <2>3, <2>5, <2>7 DEF Once

\* What is still to come is never less than nothing.
<1>OnceSuffices. Sound /\ OnceInv => DeliveredOnce
  <2> SUFFICES ASSUME TypeOK, OnceInv, NEW a \in Alerts, NEW o \in Outputs
               PROVE  delivered[<<a, o>>] <= 1 + redelivered[a]
    BY DEF Sound, DeliveredOnce
  <2>1. Total(a, o) \in Nat
    <3>1. PICK f : f = [c \in Containers |-> Debt(c, a, o)]
      BY Zenon
    <3>2. \A c \in Containers : f[c] \in Nat
      BY Zenon, <3>1, Counts DEF Counted
    <3>3. SumFunctionOnSet(f, Containers) \in Nat
      BY Zenon, <3>2, DeliveryAssumption, SumOfNaturals
    <3> QED
      BY <3>1, <3>3 DEF Total
  <2>2. Cardinality(Queued(a, o)) \in Nat
    BY Counts DEF Counted
  <2>3. delivered[<<a, o>>] \in Int /\ redelivered[a] \in Int
    BY Amounts
  <2>4. delivered[<<a, o>>] + Cardinality(Queued(a, o)) + Total(a, o) <= 1 + redelivered[a]
    BY DEF OnceInv, Once
  <2> QED
    BY <2>1, <2>2, <2>3, <2>4
<1>1. Sound /\ OnceInv /\ [Next]_vars => Sound' /\ OnceInv'
  BY SoundStep, OnceStep
<1> QED
  BY <1>1, SoundInit, <1>OnceInit, <1>OnceSuffices, PTL DEF Spec

=============================================================================
