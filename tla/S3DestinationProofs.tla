------------------------ MODULE S3DestinationProofs ------------------------
(***************************************************************************)
(* What one call of process stores and keeps in memory, for any number of  *)
(* partitions and events and every value of the two thresholds: no event   *)
(* is stored twice or in another partition, the total is the size of the   *)
(* buffers and below its threshold whenever SendEvents waits, and a call   *)
(* that returns nil has stored and announced every event.                  *)
(***************************************************************************)
EXTENDS S3Destination, FiniteSums

\* The events taken from the channel, and those of them SendEvents is done
\* with: it works on the last one from the receive until it is added.
Taken == Len(emitted) - Len(channel)
Adding == agg.pc \in {"expire", "add"}
Settled == IF Adding THEN Taken - 1 ELSE Taken

\* The channel holds the events that were emitted last, in their order, and
\* SendEvents works on the one before them.
ChannelInv ==
    /\ Len(channel) <= Len(emitted)
    /\ \A i \in DOMAIN channel : channel[i] = Taken + i
    /\ Adding => agg.event = Taken
    /\ agg.pc \in {"expire", "add", "single", "total"} => agg.event \in DOMAIN emitted

\* The set finds the buffer of a key, and the buffers that SendEvents and the
\* sender work on exist.  No event makes two buffers.
SetInv ==
    /\ Len(buffers) <= Settled
    /\ \A k \in Keys : set[k] # 0 => set[k] \in DOMAIN buffers /\ buffers[set[k]].key = k
    /\ agg.pc = "expire" => agg.expired \subseteq Buffered
    /\ agg.pc \in {"single", "total"} => agg.buffer \in Buffered
    /\ sender.pc # "idle" => sender.buffer \in DOMAIN buffers

\* The total is what the set holds.  It is below the threshold until an event
\* is added, and the buffer of that event is at least as large as the event.
Sizes == [b \in DOMAIN buffers |-> buffers[b].bytes]
MemoryInv ==
    /\ total = SumFunctionOnSet(Sizes, Buffered)
    /\ agg.pc \in {"recv", "expire", "add"} => total < MaxBufferedMemBytes
    /\ agg.pc \in {"single", "total"} =>
          /\ total - emitted[agg.event].bytes < MaxBufferedMemBytes
          /\ emitted[agg.event].bytes <= buffers[agg.buffer].bytes

\* An event is in one buffer at most, of its own key.
EventsInv ==
    \A b \in DOMAIN buffers :
        /\ buffers[b].bytes = 0 => buffers[b].events = {}
        /\ \A e \in buffers[b].events :
              /\ e \in 1..Settled /\ emitted[e].key = buffers[b].key
              /\ \A c \in DOMAIN buffers : e \in buffers[c].events => c = b

\* The sender uploads a buffer once, after reading it; from then on the buffer
\* does not change.
Uploading(b) == sender.pc = "upload" /\ sender.buffer = b
StoreInv ==
    /\ sender.pc \in {"upload", "notify"} => buffers[sender.buffer].read
    /\ sender.pc = "notify" =>
          objects # <<>> /\ objects[Len(objects)].events = buffers[sender.buffer].events
    /\ \A o \in DOMAIN objects : \E b \in DOMAIN buffers :
          /\ buffers[b].read /\ ~Uploading(b)
          /\ objects[o].key = buffers[b].key /\ objects[o].events = buffers[b].events

\* Nothing is left to do when SendEvents has returned.
EndInv ==
    /\ agg.pc \in {"flush", "done"} => main # "run" /\ channel = <<>>
    /\ agg.pc = "done" => Buffered = {} /\ sender.pc = "idle"
    /\ agg.failed => err

\* An event of an announced object, or of a buffer that will still be sent.
Covered(e) ==
    \/ \E o \in announced : e \in objects[o].events
    \/ \E b \in DOMAIN buffers :
          e \in buffers[b].events /\ (b \in Buffered \/ (sender.pc # "idle" /\ sender.buffer = b))

\* A buffer that is in the set and was sent, or that is sent again after it was
\* read.  The sender panics on it in the end.
InHand(b) == sender.pc = "got" /\ sender.buffer = b
Doomed(b) ==
    /\ buffers[b].bytes > 0
    /\ \/ buffers[b].read /\ (b \in Buffered \/ InHand(b))
       \/ b \in Buffered /\ InHand(b)

\* While nothing failed, an event that is not covered was lost to a buffer that
\* makes the call panic.
CoverInv ==
    ~err /\ result = "none" =>
        \/ \E b \in DOMAIN buffers : Doomed(b)
        \/ \A e \in 1..Settled : Covered(e)

\* When process returns nil, every event that was parsed is in an object that
\* was announced.
NilMeansStored ==
    result = "nil" => \A e \in DOMAIN emitted : \E o \in announced : e \in objects[o].events

\* The buffer that AddEvent adds to, and what is in it before.
AddedKey == emitted[agg.event].key
AddedBytes == emitted[agg.event].bytes
AddedTo == GetBuffer(AddedKey)
EventsBefore == IF set[AddedKey] = 0 THEN {} ELSE buffers[AddedTo].events
BytesBefore == IF set[AddedKey] = 0 THEN 0 ELSE buffers[AddedTo].bytes
BufferRecords == [key : Keys, events : SUBSET Events, bytes : Nat, read : BOOLEAN]
AddTo(u, W, n) == [u EXCEPT !.events = @ \cup W, !.bytes = @ + n]

\* The steps that send a buffer: b leaves the set and s goes to the sender.
Removes(b, s) ==
    /\ b \in Buffered /\ s \in DOMAIN buffers /\ RemoveAndSend(b, s)
    /\ agg'.event = agg.event /\ agg'.buffer = agg.buffer /\ agg'.failed = agg.failed
    /\ \/ /\ agg.pc = "expire" /\ b = s /\ agg'.pc \in {"expire", "add"}
          /\ agg'.expired = agg.expired \ {b}
       \/ /\ agg.pc = "single" /\ b = s /\ b = agg.buffer
          /\ agg'.pc = IF total' >= MaxBufferedMemBytes THEN "total" ELSE "recv"
       \/ agg.pc = "total" /\ s = agg.buffer /\ b \in Largest /\ agg'.pc = "recv"
       \/ agg.pc = "flush" /\ b = s /\ agg'.pc = "flush"

\* The steps that leave the events, the buffers and the objects as they are.
Rests ==
    /\ UNCHANGED <<emitted, channel, set, total, buffers, sender, objects, announced>>
    /\ \/ agg' = agg
       \/ agg.pc = "recv" /\ channel = <<>> /\ main # "run" /\ agg' = [agg EXCEPT !.pc = "flush"]
       \/ agg.pc = "flush" /\ Buffered = {} /\ sender.pc = "idle" /\ agg' = [agg EXCEPT !.pc = "done"]

-----------------------------------------------------------------------------
\* What is known of a sequence, whatever its elements are.
LEMMA Elements ==
    ASSUME NEW S, NEW s \in Seq(S)
    PROVE  Len(s) \in Nat /\ DOMAIN s = 1..Len(s) /\ \A i \in DOMAIN s : s[i] \in S
  OBVIOUS

\* A sequence whose elements are replaced.
LEMMA Replaced ==
    ASSUME NEW S, NEW s \in Seq(S), NEW t \in [DOMAIN s -> S]
    PROVE  t \in Seq(S) /\ Len(t) = Len(s) /\ DOMAIN t = DOMAIN s
<1>1. Len(s) \in Nat /\ DOMAIN s = 1..Len(s)
  BY Elements
<1>2. t \in [1..Len(s) -> S]
  BY <1>1
<1> QED
  BY <1>1, <1>2

\* The record of a buffer that is written to.
LEMMA Grown ==
    ASSUME NEW u \in BufferRecords, NEW W \in SUBSET Events, NEW n \in Nat
    PROVE  /\ AddTo(u, W, n) \in BufferRecords
           /\ AddTo(u, W, n).key = u.key /\ AddTo(u, W, n).events = u.events \cup W
           /\ AddTo(u, W, n).bytes = u.bytes + n /\ AddTo(u, W, n).read = u.read
<1>1. /\ u.key \in Keys /\ u.events \in SUBSET Events /\ u.bytes \in Nat /\ u.read \in BOOLEAN
      /\ DOMAIN u = {"key", "events", "bytes", "read"}
  BY DEF BufferRecords
<1>2. /\ AddTo(u, W, n).key = u.key /\ AddTo(u, W, n).events = u.events \cup W
      /\ AddTo(u, W, n).bytes = u.bytes + n /\ AddTo(u, W, n).read = u.read
  BY DEF AddTo, BufferRecords
<1>3. u.events \cup W \in SUBSET Events /\ u.bytes + n \in Nat
  BY <1>1
<1>4. AddTo(u, W, n) \in BufferRecords
  BY Zenon, <1>3 DEF AddTo, BufferRecords
<1> QED
  BY <1>2, <1>4

\* The fields of the records that TypeOK describes.
LEMMA Fields ==
    ASSUME TypeOK
    PROVE  /\ Len(buffers) \in Nat /\ DOMAIN buffers = 1..Len(buffers)
           /\ \A b \in DOMAIN buffers :
                 /\ buffers[b].key \in Keys /\ buffers[b].events \in SUBSET Events
                 /\ buffers[b].bytes \in Nat /\ buffers[b].read \in BOOLEAN
                 /\ buffers[b] = [key |-> buffers[b].key, events |-> buffers[b].events,
                                  bytes |-> buffers[b].bytes, read |-> buffers[b].read]
           /\ Len(emitted) \in Nat /\ DOMAIN emitted = 1..Len(emitted)
           /\ \A e \in DOMAIN emitted :
                 emitted[e].key \in Keys /\ emitted[e].bytes \in Nat \ {0}
                   /\ emitted[e].bytes \in EventBytes
           /\ Len(channel) \in Nat /\ DOMAIN channel = 1..Len(channel)
           /\ Len(objects) \in Nat /\ DOMAIN objects = 1..Len(objects)
<1>1. buffers \in Seq([key : Keys, events : SUBSET Events, bytes : Nat, read : BOOLEAN])
  BY DEF TypeOK
<1>2. emitted \in Seq([key : Keys, bytes : EventBytes])
  BY DEF TypeOK
<1>3. \A b \in DOMAIN buffers :
         buffers[b] \in [key : Keys, events : SUBSET Events, bytes : Nat, read : BOOLEAN]
  BY Zenon, <1>1, Elements
<1>4. \A e \in DOMAIN emitted : emitted[e] \in [key : Keys, bytes : EventBytes]
  BY Zenon, <1>2, Elements
<1>5. Len(buffers) \in Nat /\ DOMAIN buffers = 1..Len(buffers)
  BY <1>1
<1>6. Len(emitted) \in Nat /\ DOMAIN emitted = 1..Len(emitted)
  BY <1>2
<1>7. Len(channel) \in Nat /\ DOMAIN channel = 1..Len(channel)
  BY DEF TypeOK
<1>8. Len(objects) \in Nat /\ DOMAIN objects = 1..Len(objects)
  BY DEF TypeOK
<1>9. \A b \in DOMAIN buffers :
         /\ buffers[b].key \in Keys /\ buffers[b].events \in SUBSET Events
         /\ buffers[b].bytes \in Nat /\ buffers[b].read \in BOOLEAN
         /\ buffers[b] = [key |-> buffers[b].key, events |-> buffers[b].events,
                          bytes |-> buffers[b].bytes, read |-> buffers[b].read]
  BY <1>3
<1>10. \A e \in DOMAIN emitted :
         emitted[e].key \in Keys /\ emitted[e].bytes \in Nat \ {0}
           /\ emitted[e].bytes \in EventBytes
  BY Zenon, <1>4, DestinationAssumption
<1> QED
  BY <1>5, <1>6, <1>7, <1>8, <1>9, <1>10

\* The set holds finitely many buffers, each under its key.
LEMMA SetFacts ==
    ASSUME TypeOK, SetInv
    PROVE  /\ Buffered \subseteq DOMAIN buffers
           /\ IsFiniteSet(Buffered)
           /\ \A b \in Buffered : set[buffers[b].key] = b /\ b # 0
           /\ set \in [Keys -> Nat]
<1>1. Buffered \subseteq DOMAIN buffers
  BY DEF SetInv, Buffered
<1>2. IsFiniteSet(1..Len(buffers))
  BY Fields, FS_Interval
<1>3. IsFiniteSet(Buffered)
  BY <1>1, <1>2, Fields, FS_Subset
<1>4. \A b \in Buffered : set[buffers[b].key] = b /\ b # 0
  BY DEF SetInv, Buffered
<1>5. set \in [Keys -> Nat]
  BY DestinationAssumption DEF TypeOK
<1> QED
  BY <1>1, <1>3, <1>4, <1>5

\* removeBuffer takes one buffer out of the set and the others stay in it.
LEMMA RemoveEffect ==
    ASSUME TypeOK, SetInv, NEW b \in Buffered, NEW s, RemoveAndSend(b, s)
    PROVE  /\ Buffered' = Buffered \ {b}
           /\ set' \in [Keys -> Nat]
           /\ \A k \in Keys : set'[k] = set[k] \/ set'[k] = 0
<1>1. set' = [set EXCEPT ![buffers[b].key] = 0] /\ buffers[b].key \in Keys
  BY SetFacts, Fields DEF RemoveAndSend
<1>2. \A k \in Keys : set'[k] = IF k = buffers[b].key THEN 0 ELSE set[k]
  BY <1>1, SetFacts
<1>3. \A k \in Keys : set[k] = b => k = buffers[b].key
  BY SetFacts DEF SetInv
<1>4. set[buffers[b].key] = b /\ b # 0
  BY SetFacts
<1>5. Buffered' = Buffered \ {b}
  BY <1>1, <1>2, <1>3, <1>4 DEF Buffered
<1> QED
  BY <1>1, <1>2, <1>5, SetFacts

\* getBuffer: the buffer in the set, or an empty one that is not.
LEMMA GetEffect ==
    ASSUME TypeOK, ChannelInv, SetInv, agg.pc = "add"
    PROVE  LET all == WithBuffer(AddedKey) IN
           /\ AddedKey \in Keys /\ AddedBytes \in Nat \ {0}
           /\ agg.event \in Events /\ agg.event = Settled + 1
           /\ AddedTo \in Nat \ {0}
           /\ set[AddedKey] = 0 => AddedTo = Len(buffers) + 1 /\ AddedTo \notin DOMAIN buffers
           /\ set[AddedKey] # 0 => AddedTo = set[AddedKey] /\ AddedTo \in Buffered
                                    /\ AddedTo \in DOMAIN buffers
           /\ all \in Seq(BufferRecords)
           /\ DOMAIN all = DOMAIN buffers \cup {AddedTo}
           /\ Len(all) = IF set[AddedKey] = 0 THEN Len(buffers) + 1 ELSE Len(buffers)
           /\ \A c \in DOMAIN buffers : all[c] = buffers[c]
           /\ all[AddedTo] = [key |-> AddedKey, events |-> EventsBefore, bytes |-> BytesBefore,
                              read |-> AlreadyRead]
<1> DEFINE all == WithBuffer(AddedKey)
<1>1. /\ agg.event \in DOMAIN emitted /\ agg.event = Taken
      /\ Settled = Taken - 1 /\ Taken \in Int
  BY Fields DEF ChannelInv, Adding, Settled, Taken
<1>2. AddedKey \in Keys /\ AddedBytes \in Nat \ {0} /\ agg.event \in Events /\ agg.event = Settled + 1
  <2>1. AddedKey \in Keys /\ AddedBytes \in Nat \ {0}
    BY <1>1, Fields DEF AddedKey, AddedBytes
  <2>2. agg.event \in Events
    BY SMTT(30), <1>1, Fields, DestinationAssumption DEF TypeOK, Events
  <2> QED
    BY <1>1, <2>1, <2>2
<1>3. set[AddedKey] \in Nat
  BY <1>2, SetFacts
<1>4. CASE set[AddedKey] = 0
  <2> DEFINE new == [key |-> AddedKey, events |-> {}, bytes |-> 0, read |-> FALSE]
  <2>1. AddedTo = Len(buffers) + 1 /\ all = Append(buffers, new)
    BY <1>4 DEF AddedTo, GetBuffer, WithBuffer
  <2>2. new \in BufferRecords
    BY <1>2 DEF BufferRecords
  <2>3. buffers \in Seq(BufferRecords)
    BY DEF TypeOK, BufferRecords
  <2>4. new = [key |-> AddedKey, events |-> EventsBefore, bytes |-> BytesBefore,
               read |-> AlreadyRead]
    BY Zenon, <1>4 DEF EventsBefore, BytesBefore, AlreadyRead, AddedKey
  <2> HIDE DEF new
  <2>5. /\ all \in Seq(BufferRecords) /\ Len(all) = Len(buffers) + 1
        /\ \A c \in 1..Len(buffers) : all[c] = buffers[c]
        /\ all[Len(buffers) + 1] = new
    BY <2>1, <2>2, <2>3
  <2>6. DOMAIN all = 1..(Len(buffers) + 1)
    BY <2>5, Elements
  <2> HIDE DEF all
  <2>7. DOMAIN all = DOMAIN buffers \cup {AddedTo} /\ AddedTo \notin DOMAIN buffers
    BY <2>1, <2>6, Fields
  <2> QED
    BY <1>2, <1>4, <2>1, <2>4, <2>5, <2>7, Fields DEF all
<1>5. CASE set[AddedKey] # 0
  <2>1. AddedTo = set[AddedKey] /\ all = buffers
    BY <1>5 DEF AddedTo, GetBuffer, WithBuffer
  <2>2. AddedTo \in Buffered /\ AddedTo \in DOMAIN buffers /\ buffers[AddedTo].key = AddedKey
    BY <1>2, <1>5, <2>1 DEF SetInv, Buffered
  <2>3. AlreadyRead = buffers[AddedTo].read
    BY <1>5, <2>1, <2>2, Fields DEF AlreadyRead, AddedKey
  <2>4. buffers[AddedTo] = [key |-> AddedKey, events |-> EventsBefore, bytes |-> BytesBefore,
                            read |-> AlreadyRead]
    BY <1>5, <2>2, <2>3, Fields DEF EventsBefore, BytesBefore
  <2>5. buffers \in Seq(BufferRecords)
    BY DEF TypeOK, BufferRecords
  <2> HIDE DEF all
  <2> QED
    BY <1>2, <1>3, <1>5, <2>1, <2>2, <2>4, <2>5, Fields DEF all
<1> QED
  BY <1>4, <1>5

\* The set after getBuffer.
LEMMA GetBuffered ==
    ASSUME TypeOK, ChannelInv, SetInv, agg.pc = "add",
           set' = [set EXCEPT ![AddedKey] = AddedTo]
    PROVE  /\ Buffered' = Buffered \cup {AddedTo}
           /\ \A k \in Keys : set'[k] = IF k = AddedKey THEN AddedTo ELSE set[k]
<1>1. AddedKey \in Keys /\ AddedTo # 0 /\ (set[AddedKey] # 0 => AddedTo = set[AddedKey])
  BY GetEffect
<1>2. \A k \in Keys : set'[k] = IF k = AddedKey THEN AddedTo ELSE set[k]
  BY <1>1, SetFacts
<1> HIDE DEF AddedTo, AddedKey
<1> QED
  BY <1>1, <1>2 DEF Buffered

\* addEvent: the event gets into its buffer, or gets lost in one that the
\* sender has in hand; the size is counted either way.
LEMMA AddEffect ==
    ASSUME TypeOK, ChannelInv, SetInv, AddEvent
    PROVE  /\ ~AlreadyRead
           /\ \E written \in {{agg.event}, {}} :
                 /\ written = {} => InHand(AddedTo)
                 /\ buffers'[AddedTo].events = EventsBefore \cup written
           /\ buffers'[AddedTo].key = AddedKey /\ buffers'[AddedTo].read = FALSE
           /\ buffers'[AddedTo].bytes = BytesBefore + AddedBytes
           /\ buffers' \in Seq(BufferRecords)
           /\ DOMAIN buffers' = DOMAIN buffers \cup {AddedTo}
           /\ Len(buffers') = IF set[AddedKey] = 0 THEN Len(buffers) + 1 ELSE Len(buffers)
           /\ \A c \in DOMAIN buffers \ {AddedTo} : buffers'[c] = buffers[c]
           /\ Buffered' = Buffered \cup {AddedTo}
           /\ \A k \in Keys : set'[k] = IF k = AddedKey THEN AddedTo ELSE set[k]
           /\ total' = total + AddedBytes
           /\ agg' = [agg EXCEPT !.buffer = AddedTo,
                                 !.pc = AfterAdd(buffers'[AddedTo].bytes, total')]
<1>1. PICK written \in {{agg.event}} \cup (IF InHand(AddedTo) THEN {{}} ELSE {}) :
         buffers' = [WithBuffer(AddedKey) EXCEPT
                        ![AddedTo].events = @ \cup written,
                        ![AddedTo].bytes = @ + AddedBytes]
  BY Zenon DEF AddEvent, AddedTo, AddedKey, AddedBytes, InHand
<1>2. written \in {{agg.event}, {}} /\ (written = {} => InHand(AddedTo))
  BY <1>1
<1>3. /\ ~AlreadyRead /\ agg.pc = "add"
      /\ set' = [set EXCEPT ![AddedKey] = AddedTo]
      /\ total' = total + AddedBytes
      /\ agg' = [agg EXCEPT !.buffer = AddedTo,
                            !.pc = AfterAdd(buffers'[AddedTo].bytes, total')]
  BY Zenon DEF AddEvent, AddedTo, AddedKey, AddedBytes
<1> DEFINE all == WithBuffer(AddedKey)
<1>4. /\ all \in Seq(BufferRecords)
      /\ DOMAIN all = DOMAIN buffers \cup {AddedTo}
      /\ Len(all) = IF set[AddedKey] = 0 THEN Len(buffers) + 1 ELSE Len(buffers)
      /\ \A c \in DOMAIN buffers : all[c] = buffers[c]
      /\ all[AddedTo] = [key |-> AddedKey, events |-> EventsBefore, bytes |-> BytesBefore,
                         read |-> FALSE]
      /\ AddedKey \in Keys /\ AddedBytes \in Nat /\ agg.event \in Events
  BY <1>3, GetEffect
<1>5. buffers' = [all EXCEPT ![AddedTo].events = @ \cup written,
                             ![AddedTo].bytes = @ + AddedBytes]
  BY <1>1
<1> HIDE DEF all
<1>6. PICK u \in BufferRecords, n \in Nat : u = all[AddedTo] /\ n = AddedBytes
  BY <1>4, Elements
<1> DEFINE new == AddTo(u, written, n)
<1>7. /\ new \in BufferRecords
      /\ new.key = AddedKey /\ new.events = EventsBefore \cup written
      /\ new.bytes = BytesBefore + AddedBytes /\ new.read = FALSE
  <2>1. written \in SUBSET Events
    BY <1>2, <1>4
  <2>2. u.key = AddedKey /\ u.events = EventsBefore /\ u.bytes = BytesBefore /\ u.read = FALSE
    BY <1>4, <1>6
  <2>3. /\ new \in BufferRecords
        /\ new.key = u.key /\ new.events = u.events \cup written
        /\ new.bytes = u.bytes + n /\ new.read = u.read
    BY <2>1, Grown
  <2> QED
    BY Zenon, <1>6, <2>2, <2>3
<1>8. all \in [DOMAIN all -> BufferRecords] /\ AddedTo \in DOMAIN all
  BY <1>4, Elements
<1>9. buffers' = [all EXCEPT ![AddedTo] = new]
  BY Zenon, <1>5, <1>8, <1>6 DEF AddTo
<1> HIDE DEF new
<1>10. /\ buffers' \in [DOMAIN all -> BufferRecords] /\ buffers'[AddedTo] = new
       /\ \A c \in DOMAIN all \ {AddedTo} : buffers'[c] = all[c]
  BY <1>7, <1>8, <1>9
<1>11. buffers' \in Seq(BufferRecords) /\ Len(buffers') = Len(all) /\ DOMAIN buffers' = DOMAIN all
  BY <1>4, <1>10, Replaced
<1>12. /\ Buffered' = Buffered \cup {AddedTo}
      /\ \A k \in Keys : set'[k] = IF k = AddedKey THEN AddedTo ELSE set[k]
  BY <1>3, GetBuffered
<1> QED
  BY Zenon, <1>2, <1>3, <1>4, <1>7, <1>10, <1>11, <1>12

\* Making a buffer, as AddFails may do.
LEMMA MakeEffect ==
    ASSUME TypeOK, ChannelInv, SetInv, agg.pc = "add", ~AlreadyRead,
           set' = [set EXCEPT ![AddedKey] = AddedTo], buffers' = WithBuffer(AddedKey)
    PROVE  /\ buffers'[AddedTo].events = EventsBefore
           /\ buffers'[AddedTo].key = AddedKey /\ buffers'[AddedTo].read = FALSE
           /\ buffers'[AddedTo].bytes = BytesBefore
           /\ buffers' \in Seq(BufferRecords)
           /\ DOMAIN buffers' = DOMAIN buffers \cup {AddedTo}
           /\ Len(buffers') = IF set[AddedKey] = 0 THEN Len(buffers) + 1 ELSE Len(buffers)
           /\ \A c \in DOMAIN buffers : buffers'[c] = buffers[c]
           /\ Buffered' = Buffered \cup {AddedTo}
           /\ \A k \in Keys : set'[k] = IF k = AddedKey THEN AddedTo ELSE set[k]
<1> DEFINE all == WithBuffer(AddedKey)
<1>1. /\ all \in Seq(BufferRecords)
      /\ DOMAIN all = DOMAIN buffers \cup {AddedTo}
      /\ Len(all) = IF set[AddedKey] = 0 THEN Len(buffers) + 1 ELSE Len(buffers)
      /\ \A c \in DOMAIN buffers : all[c] = buffers[c]
      /\ all[AddedTo] = [key |-> AddedKey, events |-> EventsBefore, bytes |-> BytesBefore,
                         read |-> FALSE]
  BY GetEffect
<1>2. /\ Buffered' = Buffered \cup {AddedTo}
      /\ \A k \in Keys : set'[k] = IF k = AddedKey THEN AddedTo ELSE set[k]
  BY GetBuffered
<1>3. buffers' = all
  OBVIOUS
<1> HIDE DEF all
<1> QED
  BY <1>1, <1>2, <1>3

\* The bound on the events is a bound on the buffers.
LEMMA Bounds ==
    ASSUME TypeOK, ChannelInv, SetInv
    PROVE  /\ Taken \in Nat /\ Settled \in Nat /\ Settled <= Taken /\ Taken <= Len(emitted)
           /\ Len(emitted) <= MaxEvents /\ MaxEvents \in Nat
           /\ DOMAIN buffers \subseteq Events /\ Buffered \subseteq Events
<1>1. Len(emitted) <= MaxEvents /\ MaxEvents \in Nat /\ Len(channel) <= Len(emitted)
  BY DestinationAssumption DEF TypeOK, ChannelInv
<1>2. Taken \in Nat /\ Taken <= Len(emitted)
  BY <1>1, Fields DEF Taken
<1>3. Adding => Taken >= 1
  BY Fields DEF ChannelInv, Adding
<1>4. Settled \in Nat /\ Settled <= Taken
  BY <1>2, <1>3 DEF Settled
<1>5. Len(buffers) <= MaxEvents
  BY <1>1, <1>2, <1>4, Fields DEF SetInv
<1> QED
  BY <1>1, <1>2, <1>4, <1>5, Fields, SetFacts DEF Events

\* The total covers each buffer.
LEMMA TotalCovers ==
    ASSUME TypeOK, SetInv, MemoryInv
    PROVE  \A b \in Buffered : buffers[b].bytes <= total
<1> DEFINE f == Sizes
<1>1. Buffered \subseteq DOMAIN buffers /\ IsFiniteSet(Buffered)
  BY SetFacts
<1>2. \A b \in Buffered : f[b] \in Nat /\ f[b] = buffers[b].bytes
  BY <1>1, Fields DEF Sizes
<1>3. total = SumFunctionOnSet(f, Buffered)
  BY DEF MemoryInv
<1> HIDE DEF f
<1>4. \A b \in Buffered : f[b] <= SumFunctionOnSet(f, Buffered)
  BY <1>1, <1>2, SumOfNaturals
<1> QED
  BY <1>2, <1>3, <1>4

\* What AddEvent goes on with.
LEMMA AfterAddCases ==
    ASSUME NEW n \in Nat, NEW s \in Nat
    PROVE  /\ AfterAdd(n, s) \in {"single", "total", "recv"}
           /\ AfterAdd(n, s) = "recv" => s < MaxBufferedMemBytes
  BY DestinationAssumption DEF AfterAdd

\* The fields of agg and of sender.
LEMMA Workers ==
    ASSUME TypeOK
    PROVE  /\ agg = [pc |-> agg.pc, failed |-> agg.failed, event |-> agg.event,
                     buffer |-> agg.buffer, expired |-> agg.expired]
           /\ agg.pc \in {"recv", "expire", "add", "single", "total", "flush", "done"}
           /\ agg.failed \in BOOLEAN /\ agg.event \in Nat
           /\ sender = [pc |-> sender.pc, buffer |-> sender.buffer]
           /\ sender.pc \in {"idle", "got", "upload", "notify"}
<1>1. agg \in [pc : {"recv", "expire", "add", "single", "total", "flush", "done"},
                failed : BOOLEAN, event : 0..MaxEvents, buffer : 0..MaxEvents,
                expired : SUBSET Events]
  BY DEF TypeOK
<1>2. sender \in [pc : {"idle", "got", "upload", "notify"}, buffer : 0..MaxEvents]
  BY DEF TypeOK
<1> QED
  BY <1>1, <1>2, DestinationAssumption

\* read: nothing but the mark of the buffer changes.
LEMMA ReadEffect ==
    ASSUME TypeOK, SetInv, Read
    PROVE  LET b == sender.buffer IN
           /\ b \in DOMAIN buffers
           /\ buffers' \in Seq(BufferRecords) /\ Len(buffers') = Len(buffers)
           /\ DOMAIN buffers' = DOMAIN buffers
           /\ \A c \in DOMAIN buffers :
                 /\ buffers'[c].key = buffers[c].key /\ buffers'[c].events = buffers[c].events
                 /\ buffers'[c].bytes = buffers[c].bytes
                 /\ c # b => buffers'[c].read = buffers[c].read
           /\ \/ buffers' = buffers /\ buffers[b].bytes = 0 /\ sender' = [sender EXCEPT !.pc = "idle"]
              \/ buffers' = buffers /\ sender' = sender /\ buffers[b].read /\ result' = "panic"
              \/ /\ buffers[b].bytes > 0 /\ ~buffers[b].read /\ buffers'[b].read
                 /\ sender' = [sender EXCEPT !.pc = "upload"]
<1> DEFINE b == sender.buffer
<1>1. b \in DOMAIN buffers
  BY DEF Read, SetInv
<1>2. buffers \in Seq(BufferRecords)
  BY DEF TypeOK, BufferRecords
<1>3. CASE \/ buffers' = buffers /\ buffers[b].bytes = 0 /\ sender' = [sender EXCEPT !.pc = "idle"]
           \/ buffers' = buffers /\ sender' = sender /\ buffers[b].read /\ result' = "panic"
  BY <1>1, <1>2, <1>3
<1>4. CASE /\ buffers[b].bytes > 0 /\ ~buffers[b].read
           /\ buffers' = [buffers EXCEPT ![b].read = TRUE]
           /\ sender' = [sender EXCEPT !.pc = "upload"]
  <2> DEFINE x == [buffers[b] EXCEPT !.read = TRUE]
  <2>1. buffers \in [DOMAIN buffers -> BufferRecords] /\ buffers[b] \in BufferRecords
    BY <1>1, <1>2, Elements
  <2>2. /\ x \in BufferRecords /\ x.key = buffers[b].key /\ x.events = buffers[b].events
        /\ x.bytes = buffers[b].bytes /\ x.read = TRUE
    BY Zenon, <2>1 DEF BufferRecords
  <2>3. buffers' = [buffers EXCEPT ![b] = x]
    BY <1>4, <2>1
  <2> HIDE DEF x
  <2>4. /\ buffers' \in [DOMAIN buffers -> BufferRecords] /\ buffers'[b] = x
        /\ \A c \in DOMAIN buffers \ {b} : buffers'[c] = buffers[c]
    BY <1>1, <2>1, <2>2, <2>3
  <2>5. buffers' \in Seq(BufferRecords) /\ Len(buffers') = Len(buffers) /\ DOMAIN buffers' = DOMAIN buffers
    BY <1>2, <2>4, Replaced
  <2>6. \A c \in DOMAIN buffers :
           /\ buffers'[c].key = buffers[c].key /\ buffers'[c].events = buffers[c].events
           /\ buffers'[c].bytes = buffers[c].bytes
           /\ c # b => buffers'[c].read = buffers[c].read
    BY <2>2, <2>4
  <2>7. buffers'[b].read
    BY <2>2, <2>4
  <2> QED
    BY Zenon, <1>1, <1>4, <2>5, <2>6, <2>7
<1> QED
  BY <1>3, <1>4 DEF Read

\* Upload adds one object.
LEMMA UploadEffect ==
    ASSUME TypeOK, SetInv, Upload
    PROVE  /\ sender.buffer \in DOMAIN buffers
           /\ objects' \in Seq([key : Keys, events : SUBSET Events])
           /\ Len(objects') = Len(objects) + 1
           /\ DOMAIN objects' = DOMAIN objects \cup {Len(objects) + 1}
           /\ \A o \in DOMAIN objects : objects'[o] = objects[o]
           /\ objects'[Len(objects) + 1].key = buffers[sender.buffer].key
           /\ objects'[Len(objects) + 1].events = buffers[sender.buffer].events
<1> DEFINE O == [key : Keys, events : SUBSET Events]
           x == [key |-> buffers[sender.buffer].key, events |-> buffers[sender.buffer].events]
<1>1. sender.buffer \in DOMAIN buffers
  BY DEF Upload, SetInv
<1>2. objects \in Seq(O) /\ objects' = Append(objects, x)
  BY DEF TypeOK, Upload
<1>3. x \in O /\ x.key = buffers[sender.buffer].key /\ x.events = buffers[sender.buffer].events
  BY <1>1, Fields
<1> HIDE DEF x, O
<1>4. /\ objects' \in Seq(O) /\ Len(objects') = Len(objects) + 1 /\ Len(objects) \in Nat
      /\ \A o \in 1..Len(objects) : objects'[o] = objects[o]
      /\ objects'[Len(objects) + 1] = x
  BY <1>2, <1>3
<1>5. DOMAIN objects' = 1..(Len(objects) + 1) /\ DOMAIN objects = 1..Len(objects)
  BY <1>2, <1>4, Elements
<1>6. DOMAIN objects' = DOMAIN objects \cup {Len(objects) + 1}
  BY <1>4, <1>5
<1> QED
  BY <1>1, <1>3, <1>4, <1>5, <1>6 DEF O

\* The sizes that AddEvent compares with the thresholds.
LEMMA AddedSizes ==
    ASSUME TypeOK, ChannelInv, SetInv, AddEvent
    PROVE  /\ total' \in Nat /\ buffers'[AddedTo].bytes \in Nat /\ BytesBefore \in Nat
           /\ AddedBytes \in Nat \ {0}
           /\ agg'.pc \in {"single", "total", "recv"}
           /\ agg'.pc = "recv" => total' < MaxBufferedMemBytes
           /\ agg'.buffer = AddedTo /\ agg'.event = agg.event /\ agg'.failed = agg.failed
<1>1. agg.pc = "add"
  BY Zenon DEF AddEvent
<1>2. AddedBytes \in Nat \ {0} /\ total \in Nat
  BY <1>1, GetEffect DEF TypeOK
<1>3. BytesBefore \in Nat
  BY <1>1, GetEffect, Fields DEF BytesBefore
<1>4. /\ total' = total + AddedBytes /\ buffers'[AddedTo].bytes = BytesBefore + AddedBytes
      /\ agg' = [agg EXCEPT !.buffer = AddedTo,
                            !.pc = AfterAdd(buffers'[AddedTo].bytes, total')]
  BY AddEffect
<1>5. total' \in Nat /\ buffers'[AddedTo].bytes \in Nat
  BY <1>2, <1>3, <1>4
<1>6. PICK n \in Nat, s \in Nat : n = buffers'[AddedTo].bytes /\ s = total'
  BY <1>5
<1>7. agg'.pc = AfterAdd(n, s) /\ agg'.buffer = AddedTo /\ agg'.event = agg.event
        /\ agg'.failed = agg.failed
  BY <1>4, <1>6, Workers
<1> QED
  BY <1>2, <1>3, <1>5, <1>6, <1>7, AfterAddCases

-----------------------------------------------------------------------------
\* An event that is emitted is the next number and the last in the channel.
LEMMA EmitEffect ==
    ASSUME TypeOK, NEW k \in Keys, NEW n \in EventBytes, EmitEvent(k, n)
    PROVE  /\ emitted' \in Seq([key : Keys, bytes : EventBytes])
           /\ Len(emitted') = Len(emitted) + 1 /\ Len(emitted') <= MaxEvents
           /\ \A e \in DOMAIN emitted : emitted'[e] = emitted[e]
           /\ channel' \in Seq(Events) /\ Len(channel') = Len(channel) + 1
           /\ Len(channel') <= ParsedEventBufferSize
           /\ \A i \in DOMAIN channel : channel'[i] = channel[i]
           /\ channel'[Len(channel) + 1] = Len(emitted) + 1
<1> DEFINE x == [key |-> k, bytes |-> n]
           E == [key : Keys, bytes : EventBytes]
<1>1. /\ emitted' = Append(emitted, x) /\ channel' = Append(channel, Len(emitted) + 1)
      /\ Len(emitted) < MaxEvents /\ Len(channel) < ParsedEventBufferSize
  BY DEF EmitEvent
<1>2. x \in E /\ emitted \in Seq(E)
  BY DEF TypeOK
<1> HIDE DEF x, E
<1>3. /\ emitted' \in Seq(E) /\ Len(emitted') = Len(emitted) + 1
      /\ \A e \in 1..Len(emitted) : emitted'[e] = emitted[e]
  BY <1>1, <1>2
<1>4. Len(emitted) + 1 \in Events
  BY <1>1, Fields, DestinationAssumption DEF Events
<1>5. channel \in Seq(Events)
  BY DEF TypeOK
<1>6. /\ channel' \in Seq(Events) /\ Len(channel') = Len(channel) + 1
      /\ \A i \in 1..Len(channel) : channel'[i] = channel[i]
      /\ channel'[Len(channel) + 1] = Len(emitted) + 1
  BY <1>1, <1>4, <1>5
<1> QED
  BY <1>1, <1>3, <1>6, Fields, DestinationAssumption DEF E

\* An event that is received leaves the ones behind it.
LEMMA ReceiveEffect ==
    ASSUME TypeOK, ChannelInv, Receive
    PROVE  /\ channel' \in Seq(Events) /\ Len(channel') = Len(channel) - 1 /\ Len(channel) > 0
           /\ \A i \in DOMAIN channel' : channel'[i] = channel[i + 1]
           /\ Head(channel) = Taken + 1 /\ Head(channel) \in Events
<1>1. channel \in Seq(Events) /\ channel # <<>> /\ channel' = Tail(channel)
  BY Zenon DEF TypeOK, Receive
<1>2. /\ channel' \in Seq(Events) /\ Len(channel') = Len(channel) - 1 /\ Len(channel) > 0
      /\ \A i \in 1..Len(channel') : channel'[i] = channel[i + 1]
      /\ Head(channel) = channel[1] /\ Head(channel) \in Events
  BY <1>1
<1>3. DOMAIN channel' = 1..Len(channel')
  BY <1>2, Elements
<1>4. channel[1] = Taken + 1
  BY <1>2, Fields DEF ChannelInv
<1> QED
  BY <1>2, <1>3, <1>4

\* Types: a step that sends a buffer.
LEMMA RemoveTypes ==
    ASSUME TypeOK, ChannelInv, SetInv, MemoryInv, NEW b \in Buffered, NEW s \in DOMAIN buffers,
           RemoveAndSend(b, s),
           agg' \in [pc : {"recv", "expire", "add", "single", "total", "flush", "done"},
                     failed : BOOLEAN, event : 0..MaxEvents, buffer : 0..MaxEvents,
                     expired : SUBSET Events]
    PROVE  TypeOK'
<1>1. set' \in [Keys -> 0..MaxEvents]
  <2>1. set \in [Keys -> 0..MaxEvents] /\ 0 \in 0..MaxEvents
    BY DestinationAssumption DEF TypeOK
  <2> QED
    BY Zenon, <2>1 DEF RemoveAndSend
<1>2. total' \in Nat
  <2>1. total' = total - buffers[b].bytes /\ total \in Nat
    BY DEF RemoveAndSend, TypeOK
  <2>2. buffers[b].bytes \in Nat /\ buffers[b].bytes <= total
    BY TotalCovers, SetFacts, Fields
  <2> QED
    BY <2>1, <2>2
<1>3. sender' \in [pc : {"idle", "got", "upload", "notify"}, buffer : 0..MaxEvents]
  <2>1. s \in 0..MaxEvents
    BY Bounds DEF Events
  <2> QED
    BY <2>1 DEF RemoveAndSend
<1> QED
  BY Zenon, <1>1, <1>2, <1>3 DEF RemoveAndSend, TypeOK, s3

\* Types are kept by every step.
LEMMA TypeStep ==
    ASSUME TypeOK, ChannelInv, SetInv, MemoryInv, StoreInv, Next
    PROVE  TypeOK'
<1> DEFINE Aggs == [pc : {"recv", "expire", "add", "single", "total", "flush", "done"},
                    failed : BOOLEAN, event : 0..MaxEvents, buffer : 0..MaxEvents,
                    expired : SUBSET Events]
           Senders == [pc : {"idle", "got", "upload", "notify"}, buffer : 0..MaxEvents]
<1>0. agg \in Aggs /\ sender \in Senders
  BY DEF TypeOK
<1>1. ASSUME NEW k \in Keys, NEW n \in EventBytes, EmitEvent(k, n) PROVE TypeOK'
  BY SMTT(30), <1>1, EmitEffect DEF EmitEvent, TypeOK, aggregate, s3
<1>2. CASE EndOfStream
  BY SMTT(30), <1>2, DestinationAssumption DEF EndOfStream, TypeOK, aggregate, s3
<1>3. CASE ReadError
  BY <1>3 DEF ReadError, TypeOK, aggregate, s3
<1>4. CASE Return
  BY <1>4 DEF Return, TypeOK, aggregate, s3
<1>5. CASE Receive
  <2>1. agg' \in Aggs
    <3>1. CASE agg' = agg
      BY <1>0, <3>1
    <3>2. ASSUME NEW newest,
                 LET expired == {b \in Buffered : b <= newest}
                 IN  agg' = [agg EXCEPT !.event = Head(channel), !.expired = expired,
                                        !.pc = IF expired = {} THEN "add" ELSE "expire"]
          PROVE  agg' \in Aggs
      <4>1. Head(channel) \in 0..MaxEvents
        BY <1>5, ReceiveEffect DEF Events
      <4>2. {b \in Buffered : b <= newest} \in SUBSET Events
        BY Bounds
      <4> QED
        BY Zenon, <1>0, <3>2, <4>1, <4>2
    <3> QED
      BY Zenon, <1>5, <3>1, <3>2 DEF Receive
  <2>2. channel' \in Seq(Events) /\ Len(channel') <= ParsedEventBufferSize
    BY SMTT(30), <1>5, ReceiveEffect, Fields, DestinationAssumption DEF TypeOK
  <2> QED
    BY Zenon, <1>5, <2>1, <2>2 DEF Receive, TypeOK, aggregate, s3
<1>6. CASE AddEvent
  <2>1. agg.pc = "add" /\ AddedTo \in Nat /\ AddedBytes \in Nat
    BY Zenon, <1>6, GetEffect DEF AddEvent
  <2>2. AddedTo \in 0..MaxEvents
    <3>1. CASE set[AddedKey] = 0
      <4>1. AddedTo = Len(buffers) + 1
        BY <2>1, <3>1, GetEffect
      <4>2. Len(buffers) + 1 <= Taken
        BY <2>1, Bounds, Fields DEF SetInv, Settled, Adding
      <4> QED
        BY <2>1, <4>1, <4>2, Bounds, Fields
    <3>2. CASE set[AddedKey] # 0
      BY <2>1, <3>2, GetEffect, Bounds DEF Events
    <3> QED
      BY <3>1, <3>2
  <2>3. set' \in [Keys -> 0..MaxEvents]
    BY Zenon, <1>6, <2>2 DEF AddEvent, TypeOK, AddedTo, AddedKey
  <2>4. buffers' \in Seq(BufferRecords) /\ total' \in Nat /\ buffers'[AddedTo].bytes \in Nat
    <3>1. /\ buffers' \in Seq(BufferRecords) /\ total' = total + AddedBytes
          /\ AddedTo \in DOMAIN buffers'
      BY <1>6, AddEffect
    <3>2. buffers'[AddedTo] \in BufferRecords
      BY <3>1, Elements
    <3> QED
      BY SMTT(30), <2>1, <3>1, <3>2 DEF BufferRecords, TypeOK
  <2>5. AfterAdd(buffers'[AddedTo].bytes, total') \in {"single", "total", "recv"}
    BY <2>4, AfterAddCases
  <2>6. agg' \in Aggs
    BY Zenon, <1>0, <1>6, <2>2, <2>5, AddEffect
  <2> QED
    BY Zenon, <1>6, <2>3, <2>4, <2>6 DEF AddEvent, TypeOK, s3, BufferRecords
<1>7. CASE AddFails
  <2>1. agg' \in Aggs
    BY Zenon, <1>0, <1>7 DEF AddFails
  <2>2. agg.pc = "add"
    BY <1>7 DEF AddFails
  <2>3. CASE UNCHANGED <<set, buffers>>
    BY Zenon, <1>7, <2>1, <2>3 DEF AddFails, TypeOK, s3
  <2>4. CASE ~AlreadyRead /\ set' = [set EXCEPT ![AddedKey] = AddedTo]
               /\ buffers' = WithBuffer(AddedKey)
    <3>1. AddedTo \in 0..MaxEvents
      <4>1. CASE set[AddedKey] = 0
        <5>1. AddedTo = Len(buffers) + 1
          BY <2>2, <4>1, GetEffect
        <5>2. Len(buffers) + 1 <= Taken
          BY <2>2, Bounds, Fields DEF SetInv, Settled, Adding
        <5> QED
          BY <5>1, <5>2, Bounds, Fields
      <4>2. CASE set[AddedKey] # 0
        BY <2>2, <4>2, GetEffect, Bounds DEF Events
      <4> QED
        BY <4>1, <4>2
    <3>2. set' \in [Keys -> 0..MaxEvents]
      BY Zenon, <2>4, <3>1 DEF TypeOK
    <3>3. buffers' \in Seq(BufferRecords)
      BY <2>2, <2>4, MakeEffect
    <3> QED
      BY <1>7, <2>1, <3>2, <3>3 DEF AddFails, TypeOK, s3, BufferRecords
  <2> QED
    BY <1>7, <2>3, <2>4 DEF AddFails, AddedTo, AddedKey
<1>8. CASE AddPanics
  BY <1>8 DEF AddPanics, TypeOK, aggregate, s3
<1>9. CASE SendSingle
  <2>1. agg.buffer \in Buffered /\ agg.buffer \in DOMAIN buffers
    BY <1>9, SetFacts DEF SendSingle, SetInv
  <2>2. agg' \in Aggs
    BY <1>0, <1>9 DEF SendSingle
  <2> QED
    BY <1>9, <2>1, <2>2, RemoveTypes DEF SendSingle
<1>10. CASE SendTotal
  <2>1. agg.buffer \in DOMAIN buffers
    BY <1>10, SetFacts DEF SendTotal, SetInv
  <2>2. PICK b \in Buffered : RemoveAndSend(b, agg.buffer)
    BY <1>10 DEF SendTotal, Largest
  <2>3. agg' \in Aggs
    BY <1>0, <1>10 DEF SendTotal
  <2> QED
    BY <2>1, <2>2, <2>3, RemoveTypes
<1>11. CASE ChannelClosed
  BY Zenon, <1>0, <1>11 DEF ChannelClosed, TypeOK, aggregate, s3
<1>12. CASE FinishSending
  BY Zenon, <1>0, <1>12 DEF FinishSending, TypeOK, aggregate, s3
<1>13. ASSUME NEW b \in DOMAIN buffers, SendExpired(b) PROVE TypeOK'
  <2>1. b \in Buffered
    BY <1>13 DEF SendExpired, SetInv
  <2>2. agg' \in Aggs
    BY Zenon, <1>0, <1>13 DEF SendExpired
  <2> QED
    BY Zenon, <1>13, <2>1, <2>2, RemoveTypes DEF SendExpired
<1>14. ASSUME NEW b \in DOMAIN buffers, FlushBuffer(b) PROVE TypeOK'
  <2>1. agg' \in Aggs
    BY <1>0, <1>14 DEF FlushBuffer
  <2> QED
    BY <1>14, <2>1, RemoveTypes DEF FlushBuffer
<1>15. CASE Read
  <2>1. sender' \in Senders
    BY <1>0, <1>15 DEF Read
  <2>2. buffers' \in Seq(BufferRecords)
    BY <1>15, ReadEffect
  <2>3. result' \in {"none", "nil", "error", "panic"}
    BY <1>15 DEF Read, TypeOK
  <2> QED
    BY Zenon, <1>15, <2>1, <2>2, <2>3 DEF Read, TypeOK, s3, BufferRecords
<1>16. CASE Upload
  <2>1. sender' \in Senders
    BY Zenon, <1>0, <1>16 DEF Upload
  <2>2. /\ objects' \in Seq([key : Keys, events : SUBSET Events])
        /\ DOMAIN objects' = DOMAIN objects \cup {Len(objects) + 1}
    BY Zenon, <1>16, UploadEffect
  <2>3. announced' \subseteq DOMAIN objects'
    BY <1>16, <2>2 DEF Upload, TypeOK
  <2> QED
    BY Zenon, <1>16, <2>1, <2>2, <2>3 DEF Upload, TypeOK, aggregate
<1>17. CASE Notify
  <2>1. sender' \in Senders
    BY Zenon, <1>0, <1>17 DEF Notify
  <2>2. Len(objects) \in DOMAIN objects
    BY <1>17, Fields DEF Notify, StoreInv, TypeOK
  <2> QED
    BY Zenon, <1>17, <2>1, <2>2 DEF Notify, TypeOK, aggregate
<1>18. CASE SendFails
  <2>1. sender' \in Senders
    BY <1>0, <1>18 DEF SendFails
  <2> QED
    BY Zenon, <1>18, <2>1 DEF SendFails, TypeOK, aggregate, s3
<1> QED
  BY Zenon, <1>1, <1>2, <1>3, <1>4, <1>5, <1>6, <1>7, <1>8, <1>9, <1>10, <1>11, <1>12, <1>13,
     <1>14, <1>15, <1>16, <1>17, <1>18 DEF Next, Main, SendEvents, Sender

\* The steps by what they do to the events and the buffers.
LEMMA Steps ==
    ASSUME TypeOK, SetInv, Next
    PROVE  \/ \E k \in Keys, n \in EventBytes : EmitEvent(k, n)
           \/ Receive \/ AddEvent \/ AddFails \/ Rests
           \/ \E b, s \in DOMAIN buffers : Removes(b, s)
           \/ Read \/ Upload \/ Notify \/ SendFails
<1>1. ASSUME NEW b, SendExpired(b) PROVE \E c, s \in DOMAIN buffers : Removes(c, s)
  <2>1. b \in Buffered /\ b \in DOMAIN buffers
    BY <1>1, SetFacts DEF SendExpired, SetInv
  <2>2. /\ agg'.event = agg.event /\ agg'.buffer = agg.buffer /\ agg'.failed = agg.failed
        /\ agg.pc = "expire" /\ agg'.pc \in {"expire", "add"} /\ agg'.expired = agg.expired \ {b}
    BY <1>1, Workers DEF SendExpired
  <2> QED
    BY <1>1, <2>1, <2>2 DEF SendExpired, Removes
<1>2. ASSUME NEW b, FlushBuffer(b) PROVE \E c, s \in DOMAIN buffers : Removes(c, s)
  BY <1>2, SetFacts DEF FlushBuffer, Removes
<1>3. ASSUME SendSingle PROVE \E c, s \in DOMAIN buffers : Removes(c, s)
  <2>1. agg.buffer \in Buffered /\ agg.buffer \in DOMAIN buffers
    BY <1>3, SetFacts DEF SendSingle, SetInv
  <2>2. /\ agg'.event = agg.event /\ agg'.buffer = agg.buffer /\ agg'.failed = agg.failed
        /\ agg.pc = "single" /\ agg'.pc = IF total' >= MaxBufferedMemBytes THEN "total" ELSE "recv"
    BY <1>3, Workers DEF SendSingle
  <2> QED
    BY <1>3, <2>1, <2>2 DEF SendSingle, Removes
<1>4. ASSUME SendTotal PROVE \E c, s \in DOMAIN buffers : Removes(c, s)
  <2>1. agg.buffer \in Buffered /\ agg.buffer \in DOMAIN buffers
    BY <1>4, SetFacts DEF SendTotal, SetInv
  <2>2. PICK b \in Largest : RemoveAndSend(b, agg.buffer)
    BY <1>4 DEF SendTotal
  <2>3. b \in Buffered /\ b \in DOMAIN buffers
    BY SetFacts DEF Largest
  <2>4. /\ agg'.event = agg.event /\ agg'.buffer = agg.buffer /\ agg'.failed = agg.failed
        /\ agg.pc = "total" /\ agg'.pc = "recv"
    BY <1>4, Workers DEF SendTotal
  <2> QED
    BY <2>1, <2>2, <2>3, <2>4 DEF Removes
<1>5. EndOfStream \/ ReadError \/ Return \/ AddPanics \/ ChannelClosed \/ FinishSending => Rests
  BY DEF EndOfStream, ReadError, Return, AddPanics, ChannelClosed, FinishSending, Rests, aggregate, s3
<1> QED
  BY <1>1, <1>2, <1>3, <1>4, <1>5 DEF Next, Main, SendEvents, Sender

\* AddFails leaves the buffers, or makes one.
LEMMA FailsEffect ==
    ASSUME TypeOK, AddFails
    PROVE  /\ agg.pc = "add" /\ agg'.pc = "recv" /\ agg'.failed = TRUE /\ agg'.event = agg.event
           /\ \/ UNCHANGED <<set, buffers>>
              \/ ~AlreadyRead /\ set' = [set EXCEPT ![AddedKey] = AddedTo]
                   /\ buffers' = WithBuffer(AddedKey)
           /\ UNCHANGED <<emitted, channel, total, sender, objects, announced>> /\ err' = TRUE
<1>1. agg.pc = "add" /\ agg'.pc = "recv" /\ agg'.failed = TRUE /\ agg'.event = agg.event
  BY Workers DEF AddFails
<1> QED
  BY <1>1 DEF AddFails, AddedKey, AddedTo, s3

\* Where SendEvents is, after it has received.
LEMMA ReceiveCases ==
    ASSUME TypeOK, Receive
    PROVE  /\ agg.pc = "recv"
           /\ UNCHANGED <<emitted, set, total, buffers, sender, objects, announced>>
           /\ \/ agg.failed /\ agg' = agg
              \/ /\ agg'.event = Head(channel) /\ agg'.pc \in {"expire", "add"}
                 /\ agg'.expired \subseteq Buffered /\ agg'.failed = FALSE /\ agg.failed = FALSE
<1>1. CASE agg.failed /\ agg' = agg
  BY <1>1 DEF Receive, aggregate, s3
<1>2. ASSUME NEW newest,
             LET expired == {b \in Buffered : b <= newest}
             IN  agg' = [agg EXCEPT !.event = Head(channel), !.expired = expired,
                                    !.pc = IF expired = {} THEN "add" ELSE "expire"],
             ~agg.failed
      PROVE  /\ agg'.event = Head(channel) /\ agg'.pc \in {"expire", "add"}
             /\ agg'.expired \subseteq Buffered /\ agg'.failed = FALSE /\ agg.failed = FALSE
  BY <1>2, Workers
<1> QED
  BY Zenon, <1>1, <1>2 DEF Receive, aggregate, s3

\* The events that SendEvents is done with, after each kind of step.
LEMMA Settling ==
    ASSUME TypeOK, ChannelInv, SetInv, Next
    PROVE  /\ Receive \/ Taken' = Taken
           /\ Settled' = Settled \/ (Settled' = Settled + 1 /\ (Receive \/ AddEvent \/ AddFails))
           /\ AddEvent \/ AddFails => Settled' = Settled + 1
<1>0. /\ Taken \in Nat /\ Len(emitted) \in Nat /\ Len(channel) \in Nat
      /\ Taken = Len(emitted) - Len(channel)
  BY Bounds, Fields DEF Taken
<1>1. ASSUME NEW k \in Keys, NEW n \in EventBytes, EmitEvent(k, n)
      PROVE  Taken' = Taken /\ Settled' = Settled
  <2>1. Len(emitted') = Len(emitted) + 1 /\ Len(channel') = Len(channel) + 1 /\ agg' = agg
    BY <1>1, EmitEffect DEF EmitEvent
  <2>2. Taken' = Taken /\ Adding' = Adding
    BY <1>0, <2>1 DEF Taken, Adding
  <2> QED
    BY <2>2 DEF Settled
<1>2. ASSUME Receive PROVE Settled' = Settled \/ Settled' = Settled + 1
  <2>1. Taken' = Taken + 1 /\ ~Adding
    BY <1>0, <1>2, ReceiveEffect, ReceiveCases DEF Taken, Adding
  <2> QED
    BY <1>0, <2>1 DEF Settled
<1>3. ASSUME AddEvent \/ AddFails PROVE Taken' = Taken /\ Settled' = Settled + 1
  <2>1. agg.pc = "add" /\ UNCHANGED <<emitted, channel>>
    BY Zenon, <1>3 DEF AddEvent, AddFails
  <2>2. ~Adding'
    <3>1. CASE AddFails
      BY <3>1, FailsEffect DEF Adding
    <3>2. CASE AddEvent
      BY <3>2, AddedSizes DEF Adding
    <3> QED
      BY <1>3, <3>1, <3>2
  <2> QED
    BY <1>0, <2>1, <2>2 DEF Settled, Taken, Adding
<1>4. ASSUME Rests PROVE Taken' = Taken /\ Settled' = Settled
  <2>1. Taken' = Taken
    BY <1>4 DEF Rests, Taken
  <2>2. Adding' = Adding
    BY <1>4, Workers DEF Rests, Adding
  <2> QED
    BY <2>1, <2>2 DEF Settled
<1>5. ASSUME NEW b, NEW s, Removes(b, s) PROVE Taken' = Taken /\ Settled' = Settled
  <2>1. Taken' = Taken
    BY <1>5 DEF Removes, RemoveAndSend, Taken
  <2>2. Adding' = Adding
    BY <1>5 DEF Removes, Adding
  <2> QED
    BY <2>1, <2>2 DEF Settled
<1>6. ASSUME Read \/ Upload \/ Notify \/ SendFails PROVE Taken' = Taken /\ Settled' = Settled
  <2>1. UNCHANGED <<emitted, channel, agg>>
    BY <1>6 DEF Read, Upload, Notify, SendFails
  <2> QED
    BY <2>1 DEF Settled, Taken, Adding
<1> QED
  BY Zenon, <1>1, <1>2, <1>3, <1>4, <1>5, <1>6, Steps

\* The channel holds the last events after every step.
LEMMA ChannelStep ==
    ASSUME TypeOK, ChannelInv, SetInv, Next
    PROVE  ChannelInv'
<1>0. /\ Taken \in Nat /\ Len(emitted) \in Nat /\ Len(channel) \in Nat
      /\ Taken = Len(emitted) - Len(channel)
      /\ DOMAIN emitted = 1..Len(emitted) /\ DOMAIN channel = 1..Len(channel)
  BY Zenon, Bounds, Fields DEF Taken
<1>1. ASSUME NEW k \in Keys, NEW n \in EventBytes, EmitEvent(k, n) PROVE ChannelInv'
  <2>1. /\ Len(emitted') = Len(emitted) + 1 /\ Len(channel') = Len(channel) + 1
        /\ \A i \in DOMAIN channel : channel'[i] = channel[i]
        /\ channel'[Len(channel) + 1] = Len(emitted) + 1
        /\ emitted' \in Seq([key : Keys, bytes : EventBytes]) /\ channel' \in Seq(Events)
    BY Zenon, <1>1, EmitEffect
  <2>2. DOMAIN emitted' = 1..Len(emitted') /\ DOMAIN channel' = 1..Len(channel')
    BY <2>1, Elements
  <2>3. agg' = agg
    BY <1>1 DEF EmitEvent
  <2>4. Taken' = Taken
    BY <1>0, <2>1 DEF Taken
  <2>5. \A i \in DOMAIN channel' : channel'[i] = Taken' + i
    BY <1>0, <2>1, <2>2, <2>4 DEF ChannelInv
  <2>6. DOMAIN emitted \subseteq DOMAIN emitted'
    BY <1>0, <2>1, <2>2
  <2> QED
    BY <1>0, <2>1, <2>3, <2>4, <2>5, <2>6 DEF ChannelInv, Adding
<1>2. ASSUME Receive PROVE ChannelInv'
  <2>1. /\ channel' \in Seq(Events) /\ Len(channel') = Len(channel) - 1 /\ Len(channel) > 0
        /\ \A i \in DOMAIN channel' : channel'[i] = channel[i + 1]
        /\ Head(channel) = Taken + 1
    BY <1>2, ReceiveEffect
  <2>2. DOMAIN channel' = 1..Len(channel')
    BY <2>1, Elements
  <2>3. /\ agg.pc = "recv" /\ emitted' = emitted
        /\ \/ agg' = agg
           \/ agg'.event = Head(channel) /\ agg'.pc \in {"expire", "add"}
    BY Zenon, <1>2, ReceiveCases
  <2>4. Taken' = Taken + 1
    BY <1>0, <2>1, <2>3 DEF Taken
  <2>5. \A i \in DOMAIN channel' : channel'[i] = Taken' + i
    <3>1. ASSUME NEW i \in DOMAIN channel' PROVE channel'[i] = Taken' + i
      <4>1. i \in Nat /\ i + 1 \in DOMAIN channel
        BY <1>0, <2>1, <2>2
      <4>2. channel[i + 1] = Taken + (i + 1)
        BY <4>1 DEF ChannelInv
      <4> QED
        BY <1>0, <2>1, <2>4, <4>1, <4>2
    <3> QED
      BY <3>1
  <2>6. Head(channel) = Taken' /\ Head(channel) \in DOMAIN emitted
    BY <1>0, <2>1, <2>4
  <2> QED
    BY <1>0, <2>1, <2>3, <2>5, <2>6 DEF ChannelInv, Adding
<1>3. ASSUME UNCHANGED <<emitted, channel>>, agg'.event = agg.event, Adding' => Adding,
             agg'.pc \in {"single", "total"} => agg.pc \in {"expire", "add", "single", "total"}
      PROVE  ChannelInv'
  <2>1. Taken' = Taken
    BY <1>3 DEF Taken
  <2> QED
    BY <1>3, <2>1 DEF ChannelInv, Adding
<1>4. ASSUME AddEvent PROVE ChannelInv'
  BY Zenon, <1>3, <1>4, AddedSizes DEF Adding, AddEvent
<1>5. ASSUME AddFails PROVE ChannelInv'
  BY <1>3, <1>5, FailsEffect DEF Adding
<1>6. ASSUME Rests PROVE ChannelInv'
  BY Zenon, <1>3, <1>6, Workers DEF Adding, Rests
<1>7. ASSUME NEW b, NEW s, Removes(b, s) PROVE ChannelInv'
  BY <1>3, <1>7 DEF Adding, Removes, RemoveAndSend
<1>8. ASSUME Read \/ Upload \/ Notify \/ SendFails PROVE ChannelInv'
  <2>1. UNCHANGED <<emitted, channel, agg>>
    BY <1>8 DEF Read, Upload, Notify, SendFails
  <2> QED
    BY Zenon, <1>3, <2>1 DEF Adding
<1> QED
  BY Zenon, <1>1, <1>2, <1>4, <1>5, <1>6, <1>7, <1>8, Steps

\* Sending the buffer that got the event is enough: without it the set is below
\* the threshold, as it was before the event.
LEMMA SingleEnough ==
    ASSUME TypeOK, ChannelInv, SetInv, MemoryInv, agg.pc \in {"single", "total"},
           NEW b \in Buffered, buffers[agg.buffer].bytes <= buffers[b].bytes,
           total' = total - buffers[b].bytes
    PROVE  total' \in Nat /\ ~(total' >= MaxBufferedMemBytes)
<1>1. /\ total - emitted[agg.event].bytes < MaxBufferedMemBytes
      /\ emitted[agg.event].bytes <= buffers[agg.buffer].bytes
  BY Zenon DEF MemoryInv
<1>2. agg.event \in DOMAIN emitted /\ agg.buffer \in DOMAIN buffers
  BY SetFacts DEF ChannelInv, SetInv
<1>3. emitted[agg.event].bytes \in Nat /\ buffers[agg.buffer].bytes \in Nat
  BY Zenon, <1>2, Fields
<1>4. buffers[b].bytes \in Nat /\ buffers[b].bytes <= total
  BY Zenon, SetFacts, Fields, TotalCovers
<1>5. total \in Nat /\ MaxBufferedMemBytes \in Nat
  BY DestinationAssumption DEF TypeOK
<1> QED
  BY <1>1, <1>3, <1>4, <1>5

\* The set finds the buffers after every step.
LEMMA SetStep ==
    ASSUME TypeOK, ChannelInv, SetInv, MemoryInv, Next
    PROVE  SetInv'
<1>0. /\ Settled \in Nat /\ Len(buffers) \in Nat /\ Len(buffers) <= Settled
      /\ Settled' = Settled \/ Settled' = Settled + 1
      /\ DOMAIN buffers = 1..Len(buffers) /\ Buffered \subseteq DOMAIN buffers
  BY Zenon, Bounds, Fields, Settling, SetFacts DEF SetInv
<1>1. ASSUME UNCHANGED <<set, buffers, sender>>, Buffered' = Buffered,
             agg'.pc = "expire" => agg'.expired \subseteq Buffered,
             agg'.pc \in {"single", "total"} => agg' = agg
      PROVE  SetInv'
  BY SMTT(30), SMTT(60), <1>0, <1>1 DEF SetInv
<1>2. ASSUME NEW k \in Keys, NEW n \in EventBytes, EmitEvent(k, n) PROVE SetInv'
  BY SMTT(30), SMTT(60), <1>1, <1>2 DEF EmitEvent, aggregate, Buffered, SetInv
<1>3. ASSUME Receive PROVE SetInv'
  BY Zenon, <1>1, <1>3, ReceiveCases DEF Buffered
<1>4. ASSUME NEW all, buffers' = all, DOMAIN all = DOMAIN buffers \cup {AddedTo},
             Len(all) = IF set[AddedKey] = 0 THEN Len(buffers) + 1 ELSE Len(buffers),
             \A c \in DOMAIN buffers \ {AddedTo} : all[c] = buffers[c],
             all[AddedTo].key = AddedKey,
             \A k \in Keys : set'[k] = IF k = AddedKey THEN AddedTo ELSE set[k],
             Settled' = Settled + 1, AddedKey \in Keys,
             AddedTo \in DOMAIN buffers => buffers[AddedTo].key = AddedKey
      PROVE  /\ Len(buffers') <= Settled'
             /\ \A k \in Keys : set'[k] # 0 =>
                   set'[k] \in DOMAIN buffers' /\ buffers'[set'[k]].key = k
             /\ DOMAIN buffers \subseteq DOMAIN buffers'
  <2>1. Len(buffers') <= Settled'
    BY SMTT(30), SMTT(60), <1>0, <1>4
  <2>2. \A k \in Keys : set[k] # 0 => set[k] \in DOMAIN buffers /\ buffers[set[k]].key = k
    BY DEF SetInv
  <2>3. ASSUME NEW k \in Keys, set'[k] # 0
        PROVE  set'[k] \in DOMAIN all /\ all[set'[k]].key = k
    BY <1>4, <2>2, <2>3
  <2> QED
    BY Zenon, <1>4, <2>1, <2>3
<1>5. ASSUME AddEvent PROVE SetInv'
  <2>1. /\ DOMAIN buffers' = DOMAIN buffers \cup {AddedTo}
        /\ Len(buffers') = IF set[AddedKey] = 0 THEN Len(buffers) + 1 ELSE Len(buffers)
        /\ \A c \in DOMAIN buffers \ {AddedTo} : buffers'[c] = buffers[c]
        /\ buffers'[AddedTo].key = AddedKey
        /\ \A k \in Keys : set'[k] = IF k = AddedKey THEN AddedTo ELSE set[k]
        /\ Buffered' = Buffered \cup {AddedTo}
    BY <1>5, AddEffect
  <2>2. agg.pc = "add" /\ sender' = sender /\ Settled' = Settled + 1
    BY Zenon, <1>5, Settling DEF AddEvent
  <2>3. AddedKey \in Keys /\ (AddedTo \in DOMAIN buffers => buffers[AddedTo].key = AddedKey)
    BY Zenon, <2>2, GetEffect DEF SetInv
  <2>4. agg'.pc \in {"single", "total", "recv"} /\ agg'.buffer = AddedTo
    BY <1>5, AddedSizes
  <2>5. /\ Len(buffers') <= Settled'
        /\ \A k \in Keys : set'[k] # 0 =>
              set'[k] \in DOMAIN buffers' /\ buffers'[set'[k]].key = k
        /\ DOMAIN buffers \subseteq DOMAIN buffers'
    BY Zenon, <1>4, <2>1, <2>2, <2>3
  <2>6. agg'.buffer \in Buffered'
    BY Zenon, <2>1, <2>4
  <2> QED
    BY Zenon, <2>2, <2>4, <2>5, <2>6 DEF SetInv
<1>6. ASSUME AddFails PROVE SetInv'
  <2>1. agg.pc = "add" /\ agg'.pc = "recv" /\ sender' = sender /\ Settled' = Settled + 1
    BY Zenon, <1>6, FailsEffect, Settling
  <2>2. CASE UNCHANGED <<set, buffers>>
    BY Zenon, <1>1, <2>1, <2>2 DEF Buffered
  <2>3. CASE ~AlreadyRead /\ set' = [set EXCEPT ![AddedKey] = AddedTo]
               /\ buffers' = WithBuffer(AddedKey)
    <3>1. /\ DOMAIN buffers' = DOMAIN buffers \cup {AddedTo}
          /\ Len(buffers') = IF set[AddedKey] = 0 THEN Len(buffers) + 1 ELSE Len(buffers)
          /\ \A c \in DOMAIN buffers : buffers'[c] = buffers[c]
          /\ buffers'[AddedTo].key = AddedKey
          /\ \A k \in Keys : set'[k] = IF k = AddedKey THEN AddedTo ELSE set[k]
      BY Zenon, <2>1, <2>3, MakeEffect
    <3>2. AddedKey \in Keys /\ (AddedTo \in DOMAIN buffers => buffers[AddedTo].key = AddedKey)
      BY <2>1, GetEffect DEF SetInv
    <3>3. /\ Len(buffers') <= Settled'
          /\ \A k \in Keys : set'[k] # 0 =>
                set'[k] \in DOMAIN buffers' /\ buffers'[set'[k]].key = k
          /\ DOMAIN buffers \subseteq DOMAIN buffers'
      BY Zenon, <1>4, <2>1, <3>1, <3>2
    <3> QED
      BY Zenon, <2>1, <3>3 DEF SetInv
  <2> QED
    BY Zenon, <1>6, <2>2, <2>3, FailsEffect
<1>7. ASSUME Rests PROVE SetInv'
  BY <1>1, <1>7, Workers DEF Rests, Buffered, SetInv
<1>8. ASSUME NEW b \in DOMAIN buffers, NEW s \in DOMAIN buffers, Removes(b, s) PROVE SetInv'
  <2>1. b \in Buffered /\ RemoveAndSend(b, s) /\ buffers' = buffers
    BY <1>8 DEF Removes, RemoveAndSend
  <2>2. Buffered' = Buffered \ {b} /\ \A k \in Keys : set'[k] = set[k] \/ set'[k] = 0
    BY <2>1, RemoveEffect
  <2>3. agg'.pc \notin {"single", "total"}
    <3>1. CASE agg.pc = "single"
      <4>1. /\ b = agg.buffer /\ agg'.pc = IF total' >= MaxBufferedMemBytes THEN "total" ELSE "recv"
            /\ total' = total - buffers[b].bytes
        BY Zenon, <1>8, <3>1 DEF Removes, RemoveAndSend
      <4>2. buffers[agg.buffer].bytes <= buffers[b].bytes
        BY <4>1, Fields
      <4>3. ~(total' >= MaxBufferedMemBytes)
        BY Zenon, <2>1, <3>1, <4>1, <4>2, SingleEnough
      <4> QED
        BY Zenon, <4>1, <4>3
    <3> QED
      BY <1>8, <3>1 DEF Removes
  <2>4. agg'.pc = "expire" => agg'.expired \subseteq Buffered'
    BY Zenon, <1>8, <2>2 DEF Removes, SetInv
  <2>5. sender'.buffer = s
    BY Zenon, <2>1 DEF RemoveAndSend
  <2> QED
    BY SMTT(30), <1>0, <2>1, <2>2, <2>3, <2>4, <2>5 DEF SetInv
<1>9. ASSUME Read PROVE SetInv'
  <2>1. /\ DOMAIN buffers' = DOMAIN buffers /\ Len(buffers') = Len(buffers)
        /\ \A c \in DOMAIN buffers : buffers'[c].key = buffers[c].key
        /\ sender.buffer \in DOMAIN buffers
    BY <1>9, ReadEffect
  <2>2. UNCHANGED <<set, agg>> /\ Buffered' = Buffered /\ sender'.buffer = sender.buffer
    BY Zenon, <1>9, Workers DEF Read, Buffered
  <2> QED
    BY <1>0, <2>1, <2>2 DEF SetInv
<1>10. ASSUME Upload \/ Notify \/ SendFails PROVE SetInv'
  <2>1. UNCHANGED <<set, agg, buffers>> /\ Buffered' = Buffered /\ sender.pc # "idle"
    BY <1>10 DEF Upload, Notify, SendFails, Buffered, aggregate
  <2>2. sender'.buffer = sender.buffer
    BY Zenon, <1>10, Workers DEF Upload, Notify, SendFails
  <2> QED
    BY <1>0, <2>1, <2>2 DEF SetInv
<1> QED
  BY Zenon, <1>2, <1>3, <1>5, <1>6, <1>7, <1>8, <1>9, <1>10, Steps

\* The sum over the set when the sizes of its buffers stay.
LEMMA SumStays ==
    ASSUME TypeOK, SetInv, Buffered' = Buffered,
           \A b \in Buffered : Sizes'[b] = buffers[b].bytes
    PROVE  SumFunctionOnSet(Sizes', Buffered') = SumFunctionOnSet(Sizes, Buffered)
<1>1. IsFiniteSet(Buffered) /\ \A b \in Buffered : Sizes[b] \in Int /\ Sizes[b] = buffers[b].bytes
  BY SMTT(30), SetFacts, Fields DEF Sizes
<1>2. PICK f, g : f = Sizes /\ g = Sizes'
  BY Zenon
<1>3. /\ \A b \in Buffered : f[b] \in Int
      /\ \A b \in Buffered : g[b] = f[b]
  BY Zenon, <1>1, <1>2
<1>4. SumFunctionOnSet(g, Buffered) = SumFunctionOnSet(f, Buffered)
  BY <1>1, <1>3, SumAgree
<1> QED
  BY Zenon, <1>2, <1>4

\* The sum over the set when getBuffer was called and n bytes were written.
LEMMA SumGrows ==
    ASSUME TypeOK, ChannelInv, SetInv, agg.pc = "add", NEW n \in Nat,
           Buffered' = Buffered \cup {AddedTo},
           \A b \in Buffered \ {AddedTo} : Sizes'[b] = buffers[b].bytes,
           Sizes'[AddedTo] = BytesBefore + n
    PROVE  SumFunctionOnSet(Sizes', Buffered') = SumFunctionOnSet(Sizes, Buffered) + n
<1>1. IsFiniteSet(Buffered) /\ \A b \in Buffered : Sizes[b] \in Int /\ Sizes[b] = buffers[b].bytes
  BY SetFacts, Fields DEF Sizes
<1>2. PICK f, g, x, S : f = Sizes /\ g = Sizes' /\ x = AddedTo /\ S = Buffered
  OBVIOUS
<1>3. /\ IsFiniteSet(S)
      /\ \A b \in S : f[b] \in Int
      /\ \A b \in S \ {x} : g[b] = f[b]
  BY Zenon, <1>1, <1>2
<1>4. SumFunctionOnSet(f, S) \in Int
  BY Zenon, <1>3, SumType
<1>5. SumFunctionOnSet(g, S \cup {x}) = SumFunctionOnSet(f, S) + n
  <2>1. CASE set[AddedKey] = 0
    <3>1. x \notin S /\ g[x] = n
      BY SMTT(30), <1>2, <2>1, GetEffect, SetFacts DEF BytesBefore
    <3>2. /\ \A b \in S : g[b] = f[b]
          /\ \A b \in S : g[b] \in Int
          /\ g[x] \in Int
      BY <1>3, <3>1
    <3>3. SumFunctionOnSet(g, S) = SumFunctionOnSet(f, S)
      BY Zenon, <1>3, <3>2, SumAgree
    <3>4. SumFunctionOnSet(g, S \cup {x}) = SumFunctionOnSet(g, S) + g[x]
      BY <1>3, <3>1, <3>2, SumAdd
    <3> QED
      BY Zenon, <3>1, <3>3, <3>4
  <2>2. CASE set[AddedKey] # 0
    <3>1. x \in S /\ g[x] = f[x] + n /\ f[x] \in Int
      BY Zenon, <1>1, <1>2, <2>2, GetEffect DEF BytesBefore
    <3>2. x \in S /\ g[x] \in Int
      BY <3>1
    <3>3. SumFunctionOnSet(g, S) = SumFunctionOnSet(f, S) - f[x] + g[x]
      BY <1>3, <3>2, SumUpdate
    <3>4. SumFunctionOnSet(g, S) = SumFunctionOnSet(f, S) + n
      BY <1>4, <3>1, <3>3
    <3>5. S \cup {x} = S
      BY Zenon, <3>1
    <3> QED
      BY Zenon, <3>4, <3>5
  <2> QED
    BY <2>1, <2>2
<1> QED
  BY Zenon, <1>2, <1>5

\* The sum over the set when a buffer is removed.
LEMMA SumShrinks ==
    ASSUME TypeOK, SetInv, NEW b \in Buffered, Buffered' = Buffered \ {b}, buffers' = buffers
    PROVE  SumFunctionOnSet(Sizes', Buffered') =
           SumFunctionOnSet(Sizes, Buffered) - buffers[b].bytes
<1>1. IsFiniteSet(Buffered) /\ \A c \in Buffered : Sizes[c] \in Int /\ Sizes[c] = buffers[c].bytes
  BY SMTT(30), SetFacts, Fields DEF Sizes
<1>2. Sizes' = Sizes
  BY DEF Sizes
<1>3. PICK f : f = Sizes
  OBVIOUS
<1>4. \A c \in Buffered : f[c] \in Int
  BY <1>1, <1>3
<1>5. SumFunctionOnSet(f, Buffered) = f[b] + SumFunctionOnSet(f, Buffered \ {b})
  BY <1>1, <1>4, SumRemove
<1>6. IsFiniteSet(Buffered \ {b}) /\ \A c \in Buffered \ {b} : f[c] \in Int
  BY <1>1, <1>4, FS_RemoveElement
<1>7. SumFunctionOnSet(f, Buffered \ {b}) \in Int
  BY <1>6, SumType
<1> QED
  BY <1>1, <1>2, <1>3, <1>4, <1>5, <1>7

\* The total is the size of the set, and below the threshold, after every step.
LEMMA MemoryStep ==
    ASSUME TypeOK, ChannelInv, SetInv, MemoryInv, Next
    PROVE  MemoryInv'
<1>0. /\ total = SumFunctionOnSet(Sizes, Buffered) /\ total \in Nat
      /\ agg.pc \in {"recv", "expire", "add"} => total < MaxBufferedMemBytes
      /\ MaxBufferedMemBytes \in Nat
  BY Zenon, DestinationAssumption DEF MemoryInv, TypeOK
<1>1. ASSUME UNCHANGED <<set, total>>,
             DOMAIN buffers' = DOMAIN buffers,
             \A b \in DOMAIN buffers : buffers'[b].bytes = buffers[b].bytes,
             agg'.pc \in {"recv", "expire", "add"} => agg.pc \in {"recv", "expire", "add"},
             agg'.pc \in {"single", "total"} =>
                agg' = agg /\ emitted'[agg.event] = emitted[agg.event]
      PROVE  MemoryInv'
  <2>1. Buffered' = Buffered
    BY Zenon, <1>1 DEF Buffered
  <2>2. \A b \in Buffered : Sizes'[b] = buffers[b].bytes
    BY Zenon, <1>1, SetFacts DEF Sizes
  <2>3. total' = SumFunctionOnSet(Sizes', Buffered')
    BY Zenon, <1>0, <1>1, <2>1, <2>2, SumStays
  <2>4. agg.pc \in {"single", "total"} => agg.buffer \in DOMAIN buffers
    BY SetFacts DEF SetInv
  <2> QED
    BY Zenon, <1>1, <2>3, <2>4 DEF MemoryInv
<1>2. ASSUME NEW k \in Keys, NEW n \in EventBytes, EmitEvent(k, n) PROVE MemoryInv'
  <2>1. UNCHANGED <<set, total, buffers, agg>>
    BY Zenon, <1>2 DEF EmitEvent, aggregate
  <2>2. agg.pc \in {"single", "total"} => emitted'[agg.event] = emitted[agg.event]
    BY <1>2, EmitEffect DEF ChannelInv
  <2> QED
    BY Zenon, <1>1, <2>1, <2>2
<1>3. ASSUME Receive PROVE MemoryInv'
  BY Zenon, <1>1, <1>3, ReceiveCases
<1>4. ASSUME AddEvent PROVE MemoryInv'
  <2>1. agg.pc = "add" /\ emitted' = emitted
    BY Zenon, <1>4 DEF AddEvent
  <2>2. /\ DOMAIN buffers' = DOMAIN buffers \cup {AddedTo}
        /\ \A c \in DOMAIN buffers \ {AddedTo} : buffers'[c] = buffers[c]
        /\ buffers'[AddedTo].bytes = BytesBefore + AddedBytes
        /\ Buffered' = Buffered \cup {AddedTo}
        /\ total' = total + AddedBytes
    BY Zenon, <1>4, AddEffect
  <2>3. /\ AddedBytes \in Nat /\ BytesBefore \in Nat
        /\ agg'.pc \in {"single", "total", "recv"}
        /\ agg'.pc = "recv" => total' < MaxBufferedMemBytes
        /\ agg'.buffer = AddedTo /\ agg'.event = agg.event
    BY Zenon, <1>4, AddedSizes
  <2>4. /\ \A b \in Buffered \ {AddedTo} : Sizes'[b] = buffers[b].bytes
        /\ Sizes'[AddedTo] = BytesBefore + AddedBytes
    BY Zenon, <2>2, SetFacts DEF Sizes
  <2>5. total' = SumFunctionOnSet(Sizes', Buffered')
    BY Zenon, <1>0, <2>1, <2>2, <2>3, <2>4, SumGrows
  <2>6. emitted'[agg'.event].bytes = AddedBytes
    BY Zenon, <2>1, <2>3 DEF AddedBytes
  <2>7. total' - AddedBytes < MaxBufferedMemBytes /\ AddedBytes <= buffers'[AddedTo].bytes
    BY <1>0, <2>1, <2>2, <2>3
  <2> QED
    BY Zenon, <2>3, <2>5, <2>6, <2>7 DEF MemoryInv
<1>5. ASSUME AddFails PROVE MemoryInv'
  <2>1. agg.pc = "add" /\ agg'.pc = "recv" /\ total' = total
    BY Zenon, <1>5, FailsEffect
  <2>2. CASE UNCHANGED <<set, buffers>>
    BY Zenon, <1>1, <2>1, <2>2
  <2>3. CASE ~AlreadyRead /\ set' = [set EXCEPT ![AddedKey] = AddedTo]
               /\ buffers' = WithBuffer(AddedKey)
    <3>1. /\ DOMAIN buffers' = DOMAIN buffers \cup {AddedTo}
          /\ \A c \in DOMAIN buffers : buffers'[c] = buffers[c]
          /\ buffers'[AddedTo].bytes = BytesBefore
          /\ Buffered' = Buffered \cup {AddedTo}
      BY Zenon, <2>1, <2>3, MakeEffect
    <3>2. BytesBefore \in Nat
      BY Zenon, <2>1, GetEffect, Fields DEF BytesBefore
    <3>3. /\ \A b \in Buffered \ {AddedTo} : Sizes'[b] = buffers[b].bytes
          /\ Sizes'[AddedTo] = BytesBefore + 0
      BY <3>1, <3>2, SetFacts DEF Sizes
    <3>4. SumFunctionOnSet(Sizes', Buffered') = SumFunctionOnSet(Sizes, Buffered) + 0
      BY Zenon, <2>1, <3>1, <3>3, SumGrows
    <3>5. total' = SumFunctionOnSet(Sizes', Buffered')
      BY <1>0, <2>1, <3>4
    <3> QED
      BY Zenon, <1>0, <2>1, <3>5 DEF MemoryInv
  <2> QED
    BY Zenon, <1>5, <2>2, <2>3, FailsEffect
<1>6. ASSUME Rests PROVE MemoryInv'
  BY Zenon, <1>1, <1>6, Workers DEF Rests
<1>7. ASSUME NEW b \in DOMAIN buffers, NEW s \in DOMAIN buffers, Removes(b, s) PROVE MemoryInv'
  <2>1. b \in Buffered /\ RemoveAndSend(b, s) /\ buffers' = buffers /\ emitted' = emitted
          /\ total' = total - buffers[b].bytes
    BY Zenon, <1>7 DEF Removes, RemoveAndSend
  <2>2. Buffered' = Buffered \ {b}
    BY <2>1, RemoveEffect
  <2>3. total' = SumFunctionOnSet(Sizes', Buffered')
    BY Zenon, <1>0, <2>1, <2>2, SumShrinks
  <2>4. buffers[b].bytes \in Nat
    BY Zenon, Fields
  <2>5. CASE agg.pc \in {"expire", "flush"}
    BY SMTT(30), SMTT(60), <1>0, <1>7, <2>1, <2>3, <2>4, <2>5 DEF MemoryInv, Removes
  <2>6. CASE agg.pc \in {"single", "total"}
    <3>1. agg.buffer \in Buffered /\ buffers[agg.buffer].bytes \in Nat
      BY Zenon, <2>6, SetFacts, Fields DEF SetInv
    <3>2. buffers[agg.buffer].bytes <= buffers[b].bytes
      BY <1>7, <2>4, <2>6, <3>1 DEF Removes, Largest
    <3>3. total' \in Nat /\ ~(total' >= MaxBufferedMemBytes)
      BY Zenon, <2>1, <2>6, <3>2, SingleEnough
    <3>4. agg'.pc = "recv"
      BY Zenon, <1>7, <2>6, <3>3 DEF Removes
    <3> QED
      BY <1>0, <2>3, <3>3, <3>4 DEF MemoryInv
  <2> QED
    BY Zenon, <1>7, <2>5, <2>6 DEF Removes
<1>8. ASSUME Read PROVE MemoryInv'
  BY Zenon, <1>1, <1>8, ReadEffect DEF Read
<1>9. ASSUME Upload \/ Notify \/ SendFails PROVE MemoryInv'
  BY Zenon, <1>1, <1>9 DEF Upload, Notify, SendFails, aggregate
<1> QED
  BY Zenon, <1>2, <1>3, <1>4, <1>5, <1>6, <1>7, <1>8, <1>9, Steps

\* An event is in one buffer after every step.
LEMMA EventsStep ==
    ASSUME TypeOK, ChannelInv, SetInv, EventsInv, Next
    PROVE  EventsInv'
<1>0. /\ Settled \in Nat /\ Settled' \in Nat /\ Settled <= Settled'
      /\ Settled <= Len(emitted) /\ Len(emitted) \in Nat
  BY Bounds, Fields, Settling
<1>1. ASSUME DOMAIN buffers' = DOMAIN buffers,
             \A b \in DOMAIN buffers :
                /\ buffers'[b].events = buffers[b].events /\ buffers'[b].key = buffers[b].key
                /\ buffers'[b].bytes = buffers[b].bytes,
             \A e \in 1..Settled : emitted'[e].key = emitted[e].key
      PROVE  EventsInv'
  <2>1. ASSUME NEW b \in DOMAIN buffers, NEW e \in buffers[b].events
        PROVE  e \in 1..Settled' /\ emitted'[e].key = buffers[b].key
    <3>1. e \in 1..Settled /\ emitted[e].key = buffers[b].key
      BY DEF EventsInv
    <3> QED
      BY <1>0, <1>1, <3>1
  <2> QED
    BY <1>1, <2>1 DEF EventsInv
<1>2. ASSUME NEW k \in Keys, NEW n \in EventBytes, EmitEvent(k, n) PROVE EventsInv'
  <2>1. buffers' = buffers
    BY Zenon, <1>2 DEF EmitEvent, aggregate
  <2>2. \A e \in 1..Settled : emitted'[e].key = emitted[e].key
    BY SMTT(30), <1>0, <1>2, EmitEffect, Fields
  <2> QED
    BY Zenon, <1>1, <2>1, <2>2
<1>3. ASSUME Receive PROVE EventsInv'
  BY <1>1, <1>3, ReceiveCases
<1>4. ASSUME AddEvent PROVE EventsInv'
  <2>0. agg.pc = "add" /\ emitted' = emitted /\ Settled' = Settled + 1
    BY Zenon, <1>4, Settling DEF AddEvent
  <2>1. /\ DOMAIN buffers' = DOMAIN buffers \cup {AddedTo}
        /\ \A c \in DOMAIN buffers \ {AddedTo} : buffers'[c] = buffers[c]
        /\ buffers'[AddedTo].key = AddedKey
        /\ buffers'[AddedTo].bytes = BytesBefore + AddedBytes
    BY <1>4, AddEffect
  <2>2. PICK written \in {{agg.event}, {}} : buffers'[AddedTo].events = EventsBefore \cup written
    BY Zenon, <1>4, AddEffect
  <2>3. /\ agg.event = Settled' /\ emitted[agg.event].key = AddedKey
        /\ buffers'[AddedTo].bytes # 0
    BY SMTT(30), SMTT(60), <1>0, <1>4, <2>0, <2>1, GetEffect, AddedSizes DEF AddedKey
  <2>4. \A e \in EventsBefore : AddedTo \in DOMAIN buffers /\ e \in buffers[AddedTo].events
    BY Zenon, <2>0, GetEffect DEF EventsBefore
  <2>5. /\ AddedTo \in DOMAIN buffers => buffers[AddedTo].key = AddedKey
    BY Zenon, <2>0, GetEffect DEF SetInv
  <2>6. ASSUME NEW b \in DOMAIN buffers', NEW e \in buffers'[b].events
        PROVE  \/ b \in DOMAIN buffers /\ e \in buffers[b].events
               \/ b = AddedTo /\ e = agg.event
    BY Zenon, <2>1, <2>2, <2>4
  <2>7. \A b \in DOMAIN buffers : buffers'[b].key = buffers[b].key
    BY Zenon, <2>1, <2>5
  <2>8. \A b \in DOMAIN buffers : \A e \in buffers[b].events :
           /\ e \in 1..Settled /\ e # agg.event /\ emitted[e].key = buffers[b].key
           /\ \A c \in DOMAIN buffers : e \in buffers[c].events => c = b
    BY <1>0, <2>0, <2>3 DEF EventsInv
  <2>9. ASSUME NEW b \in DOMAIN buffers', NEW e \in buffers'[b].events
        PROVE  /\ e \in 1..Settled' /\ emitted'[e].key = buffers'[b].key
               /\ \A c \in DOMAIN buffers' : e \in buffers'[c].events => c = b
    <3>1. CASE b \in DOMAIN buffers /\ e \in buffers[b].events
      <4>1. e \in 1..Settled /\ e # agg.event /\ emitted[e].key = buffers[b].key
        BY Zenon, <2>8, <3>1
      <4>2. \A c \in DOMAIN buffers' : e \in buffers'[c].events => c = b
        BY Zenon, <2>6, <2>8, <3>1, <4>1
      <4> QED
        BY <1>0, <2>0, <2>7, <3>1, <4>1, <4>2
    <3>2. CASE b = AddedTo /\ e = agg.event
      <4>1. \A c \in DOMAIN buffers' : e \in buffers'[c].events => c = b
        BY Zenon, <2>6, <2>8, <3>2
      <4>2. e \in 1..Settled'
        BY <1>0, <2>0, <2>3, <3>2
      <4> QED
        BY Zenon, <2>0, <2>1, <2>3, <3>2, <4>1, <4>2
    <3> QED
      BY Zenon, <2>6, <2>9, <3>1, <3>2
  <2>10. \A b \in DOMAIN buffers' : buffers'[b].bytes = 0 => buffers'[b].events = {}
    BY Zenon, <2>1, <2>3 DEF EventsInv
  <2> QED
    BY <2>9, <2>10 DEF EventsInv
<1>5. ASSUME AddFails PROVE EventsInv'
  <2>1. agg.pc = "add" /\ emitted' = emitted
    BY Zenon, <1>5, FailsEffect
  <2>2. CASE UNCHANGED <<set, buffers>>
    BY <1>1, <2>1, <2>2
  <2>3. CASE ~AlreadyRead /\ set' = [set EXCEPT ![AddedKey] = AddedTo]
               /\ buffers' = WithBuffer(AddedKey)
    <3>1. /\ DOMAIN buffers' = DOMAIN buffers \cup {AddedTo}
          /\ \A c \in DOMAIN buffers : buffers'[c] = buffers[c]
          /\ buffers'[AddedTo].events = EventsBefore
      BY Zenon, <2>1, <2>3, MakeEffect
    <3>2. AddedTo \notin DOMAIN buffers => EventsBefore = {}
      BY Zenon, <2>1, GetEffect DEF EventsBefore
    <3>3. CASE AddedTo \in DOMAIN buffers
      BY Zenon, <1>1, <2>1, <3>1, <3>3
    <3>4. CASE AddedTo \notin DOMAIN buffers
      <4>1. ASSUME NEW b \in DOMAIN buffers, NEW e \in buffers[b].events
            PROVE  e \in 1..Settled' /\ emitted'[e].key = buffers[b].key
        <5>1. e \in 1..Settled /\ emitted[e].key = buffers[b].key
          BY DEF EventsInv
        <5> QED
          BY <1>0, <2>1, <5>1
      <4> QED
        BY <3>1, <3>2, <3>4, <4>1 DEF EventsInv
    <3> QED
      BY Zenon, <3>3, <3>4
  <2> QED
    BY <1>5, <2>2, <2>3, FailsEffect
<1>6. ASSUME Rests PROVE EventsInv'
  BY Zenon, <1>1, <1>6 DEF Rests
<1>7. ASSUME NEW b, NEW s, Removes(b, s) PROVE EventsInv'
  BY Zenon, <1>1, <1>7 DEF Removes, RemoveAndSend
<1>8. ASSUME Read PROVE EventsInv'
  BY <1>1, <1>8, ReadEffect DEF Read
<1>9. ASSUME Upload \/ Notify \/ SendFails PROVE EventsInv'
  BY <1>1, <1>9 DEF Upload, Notify, SendFails, aggregate
<1> QED
  BY Zenon, <1>2, <1>3, <1>4, <1>5, <1>6, <1>7, <1>8, <1>9, Steps

\* A buffer that was read does not change.
LEMMA ReadStays ==
    ASSUME TypeOK, ChannelInv, SetInv, Next
    PROVE  \A b \in DOMAIN buffers : buffers[b].read =>
               /\ b \in DOMAIN buffers' /\ buffers'[b].read /\ buffers'[b].key = buffers[b].key
               /\ buffers'[b].events = buffers[b].events
<1>1. ASSUME AddEvent
      PROVE  \A b \in DOMAIN buffers : buffers[b].read =>
                 b \in DOMAIN buffers' /\ buffers'[b] = buffers[b]
  <2>1. agg.pc = "add" /\ ~AlreadyRead
    BY Zenon, <1>1 DEF AddEvent
  <2>2. AddedTo \in DOMAIN buffers => ~buffers[AddedTo].read
    BY SMTT(30), SMTT(60), <2>1, GetEffect DEF AlreadyRead, AddedKey
  <2> QED
    BY <1>1, <2>2, AddEffect
<1>2. ASSUME AddFails
      PROVE  \A b \in DOMAIN buffers : b \in DOMAIN buffers' /\ buffers'[b] = buffers[b]
  BY Zenon, <1>2, FailsEffect, MakeEffect
<1>3. ASSUME Read
      PROVE  \A b \in DOMAIN buffers : buffers[b].read =>
                 /\ b \in DOMAIN buffers' /\ buffers'[b].read /\ buffers'[b].key = buffers[b].key
                 /\ buffers'[b].events = buffers[b].events
  BY <1>3, ReadEffect
<1>4. \/ AddEvent \/ AddFails \/ Read \/ buffers' = buffers
  BY Zenon, Steps, ReceiveCases DEF EmitEvent, Rests, Removes, RemoveAndSend, Upload, Notify, SendFails, aggregate
<1> QED
  BY <1>1, <1>2, <1>3, <1>4

\* A buffer is uploaded once, after every step.
LEMMA StoreStep ==
    ASSUME TypeOK, ChannelInv, SetInv, StoreInv, Next
    PROVE  StoreInv'
<1> DEFINE From(b, o) == /\ buffers[b].read /\ ~Uploading(b)
                         /\ objects[o].key = buffers[b].key
                         /\ objects[o].events = buffers[b].events
<1>0. sender.pc # "idle" => sender.buffer \in DOMAIN buffers
  BY Zenon DEF SetInv
<1>1. ASSUME objects' = objects, sender' = sender PROVE StoreInv'
  <2>1. ASSUME NEW o \in DOMAIN objects
        PROVE  \E b \in DOMAIN buffers' : /\ buffers'[b].read /\ ~Uploading(b)'
                                          /\ objects'[o].key = buffers'[b].key
                                          /\ objects'[o].events = buffers'[b].events
    <3>1. PICK b \in DOMAIN buffers : From(b, o)
      BY Zenon DEF StoreInv
    <3> QED
      BY Zenon, <1>1, <3>1, ReadStays DEF Uploading
  <2> QED
    BY Zenon, <1>0, <1>1, <2>1, ReadStays DEF StoreInv
<1>2. ASSUME objects' = objects, buffers' = buffers, sender'.pc \in {"idle", "got"}
      PROVE  StoreInv'
  BY <1>2 DEF StoreInv, Uploading
<1>3. ASSUME Read PROVE StoreInv'
  <2>1. objects' = objects /\ sender.pc = "got"
    BY <1>3 DEF Read, s3
  <2>2. CASE buffers' = buffers /\ sender' = [sender EXCEPT !.pc = "idle"]
    BY Zenon, <1>2, <2>1, <2>2, Workers
  <2>3. CASE sender' = sender
    BY Zenon, <1>1, <2>1, <2>3
  <2>4. CASE /\ ~buffers[sender.buffer].read /\ buffers'[sender.buffer].read
             /\ sender' = [sender EXCEPT !.pc = "upload"]
    <3>1. sender'.pc = "upload" /\ sender'.buffer = sender.buffer
      BY Zenon, <2>4, Workers
    <3>2. ASSUME NEW o \in DOMAIN objects
          PROVE  \E b \in DOMAIN buffers' : /\ buffers'[b].read /\ ~Uploading(b)'
                                            /\ objects'[o].key = buffers'[b].key
                                            /\ objects'[o].events = buffers'[b].events
      <4>1. PICK b \in DOMAIN buffers : From(b, o)
        BY DEF StoreInv
      <4>2. b # sender.buffer
        BY Zenon, <2>4, <4>1
      <4> QED
        BY Zenon, <2>1, <3>1, <4>1, <4>2, ReadStays DEF Uploading
    <3> QED
      BY Zenon, <2>1, <2>4, <3>1, <3>2 DEF StoreInv
  <2> QED
    BY Zenon, <1>3, <2>2, <2>3, <2>4, ReadEffect
<1>4. ASSUME Upload PROVE StoreInv'
  <2>1. /\ sender.buffer \in DOMAIN buffers
        /\ objects' \in Seq([key : Keys, events : SUBSET Events])
        /\ Len(objects') = Len(objects) + 1 /\ Len(objects) \in Nat
        /\ DOMAIN objects' = DOMAIN objects \cup {Len(objects) + 1}
        /\ \A o \in DOMAIN objects : objects'[o] = objects[o]
        /\ objects'[Len(objects) + 1].key = buffers[sender.buffer].key
        /\ objects'[Len(objects) + 1].events = buffers[sender.buffer].events
    BY Zenon, <1>4, UploadEffect, Fields
  <2>2. /\ buffers' = buffers /\ sender'.pc = "notify" /\ sender'.buffer = sender.buffer
        /\ sender.pc = "upload"
    BY Zenon, <1>4, Workers DEF Upload, aggregate
  <2>3. buffers[sender.buffer].read
    BY Zenon, <2>2 DEF StoreInv
  <2>4. ASSUME NEW o \in DOMAIN objects'
        PROVE  \E b \in DOMAIN buffers' : /\ buffers'[b].read /\ ~Uploading(b)'
                                          /\ objects'[o].key = buffers'[b].key
                                          /\ objects'[o].events = buffers'[b].events
    <3>1. CASE o \in DOMAIN objects
      <4>1. PICK b \in DOMAIN buffers : From(b, o)
        BY Zenon, <3>1 DEF StoreInv
      <4> QED
        BY Zenon, <2>1, <2>2, <3>1, <4>1 DEF Uploading
    <3>2. CASE o = Len(objects) + 1
      BY Zenon, <2>1, <2>2, <2>3, <3>2 DEF Uploading
    <3> QED
      BY Zenon, <2>1, <3>1, <3>2
  <2>5. objects' # <<>>
    BY <2>1
  <2> QED
    BY Zenon, <2>1, <2>2, <2>3, <2>4, <2>5 DEF StoreInv
<1>5. ASSUME NEW b, NEW s, Removes(b, s) PROVE StoreInv'
  BY <1>2, <1>5 DEF Removes, RemoveAndSend, s3
<1>6. ASSUME Notify \/ SendFails PROVE StoreInv'
  BY Zenon, <1>2, <1>6, Workers DEF Notify, SendFails, aggregate, s3
<1> QED
  BY Zenon, <1>1, <1>3, <1>4, <1>5, <1>6, Steps, ReceiveCases, FailsEffect
     DEF EmitEvent, AddEvent, Rests, s3

\* An upload adds the events of one buffer, which no other object has.
LEMMA StoredOnceStep ==
    ASSUME TypeOK, ChannelInv, SetInv, EventsInv, StoreInv, StoredOnce, Next
    PROVE  StoredOnce'
<1>1. ASSUME NEW o \in DOMAIN objects
      PROVE  \E b \in DOMAIN buffers : ~Uploading(b) /\ objects[o].events = buffers[b].events
  BY DEF StoreInv
<1>2. ASSUME NEW o \in DOMAIN objects, NEW e \in objects[o].events
      PROVE  e \in DOMAIN emitted
  <2>1. PICK b \in DOMAIN buffers : objects[o].events = buffers[b].events
    BY Zenon, <1>1
  <2>2. e \in 1..Settled
    BY <2>1 DEF EventsInv
  <2> QED
    BY <2>2, Bounds, Fields
<1>3. CASE objects' = objects /\ emitted' = emitted
  BY Zenon, <1>3 DEF StoredOnce
<1>4. ASSUME NEW k \in Keys, NEW n \in EventBytes, EmitEvent(k, n) PROVE StoredOnce'
  <2>1. objects' = objects
    BY Zenon, <1>4 DEF EmitEvent, s3
  <2> QED
    BY <1>2, <1>4, <2>1, EmitEffect DEF StoredOnce
<1>5. CASE Upload
  <2> DEFINE last == Len(objects) + 1
  <2>1. /\ sender.buffer \in DOMAIN buffers
        /\ DOMAIN objects' = DOMAIN objects \cup {last} /\ last \notin DOMAIN objects
        /\ \A o \in DOMAIN objects : objects'[o] = objects[o]
        /\ objects'[last].key = buffers[sender.buffer].key
        /\ objects'[last].events = buffers[sender.buffer].events
    BY SMTT(30), <1>5, UploadEffect, Fields
  <2>2. Uploading(sender.buffer) /\ emitted' = emitted
    BY Zenon, <1>5 DEF Upload, Uploading
  <2>3. \A e \in buffers[sender.buffer].events :
           /\ emitted[e].key = buffers[sender.buffer].key
           /\ \A c \in DOMAIN buffers : e \in buffers[c].events => c = sender.buffer
    BY <2>1 DEF EventsInv
  <2>4. \A o \in DOMAIN objects : \A e \in objects[o].events : e \notin objects'[last].events
    BY Zenon, <1>1, <2>1, <2>2, <2>3
  <2> HIDE DEF last
  <2> QED
    BY <2>1, <2>2, <2>3, <2>4 DEF StoredOnce
<1> QED
  BY Zenon, <1>3, <1>4, <1>5, Steps, ReceiveCases, FailsEffect
     DEF AddEvent, Rests, Removes, RemoveAndSend, Read, Notify, SendFails, s3

\* What no step takes back, and what the last one is.
LEMMA Endings ==
    ASSUME TypeOK, Next
    PROVE  /\ main # "run" => main' # "run"
           /\ err = TRUE => err' = TRUE
           /\ result = "none"
           /\ result' \in {"none", "panic"} \/ Return
<1>1. result = "none"
  BY DEF Next
<1>2. CASE Return
  BY <1>1, <1>2 DEF Return
<1>3. CASE Main /\ ~Return
  BY Zenon, <1>1, <1>3 DEF Main, EmitEvent, EndOfStream, ReadError
<1>4. CASE SendEvents
  BY Zenon, <1>1, <1>4 DEF SendEvents, Receive, AddEvent, AddFails, AddPanics, SendSingle, SendTotal,
     ChannelClosed, FinishSending, SendExpired, FlushBuffer, RemoveAndSend
<1>5. CASE Sender
  BY <1>1, <1>5 DEF Sender, Read, Upload, Notify, SendFails
<1> QED
  BY Zenon, <1>2, <1>3, <1>4, <1>5 DEF Next

\* Adding an event never ends SendEvents.
LEMMA AfterAddPc ==
    ASSUME TypeOK, AddEvent
    PROVE  agg'.pc \notin {"flush", "done"}
  BY Zenon, Workers DEF AddEvent, AfterAdd

\* SendEvents returns with nothing left to do, after every step.
LEMMA EndStep ==
    ASSUME TypeOK, SetInv, EndInv, Next
    PROVE  EndInv'
<1>0. agg.failed => err
  BY DEF EndInv
<1>1. agg'.failed => err'
  <2>1. agg'.failed = agg.failed \/ AddFails \/ agg.failed
    BY Zenon, Steps, ReceiveCases, Workers DEF EmitEvent, AddEvent, Rests, Removes, Read, Upload, Notify, SendFails
  <2> QED
    BY Zenon, <1>0, <2>1, Endings, FailsEffect, Workers
<1>2. ASSUME agg'.pc \in {"flush", "done"} PROVE main' # "run" /\ channel' = <<>>
  <2>1. CASE agg.pc \in {"flush", "done"}
    <3>1. main # "run" /\ channel = <<>>
      BY <2>1 DEF EndInv
    <3>2. channel' = channel
      BY Zenon, <2>1, <3>1, Steps DEF EmitEvent, Receive, AddEvent, AddFails, Rests, Removes, RemoveAndSend,
         Read, Upload, Notify, SendFails
    <3> QED
      BY Zenon, <3>1, <3>2, Endings
  <2>2. CASE agg.pc \notin {"flush", "done"}
    <3>1. channel = <<>> /\ main # "run" /\ channel' = channel
      <4>1. ~AddEvent
        BY <1>2, AfterAddPc
      <4> QED
        BY Zenon, <1>2, <2>2, <4>1, Steps, ReceiveCases, FailsEffect, Workers
           DEF EmitEvent, Rests, Removes, Read, Upload, Notify, SendFails
    <3> QED
      BY <3>1, Endings
  <2> QED
    BY <2>1, <2>2
<1>3. ASSUME agg'.pc = "done" PROVE Buffered' = {} /\ sender'.pc = "idle"
  <2>1. Buffered = {} /\ sender.pc = "idle" /\ set' = set /\ sender' = sender
    <3>1. CASE agg.pc = "done"
      <4>1. Buffered = {} /\ sender.pc = "idle"
        BY <3>1 DEF EndInv
      <4> QED
        BY Zenon, <3>1, <4>1, Steps DEF EmitEvent, Receive, AddEvent, AddFails, Rests, Removes, RemoveAndSend,
           Read, Upload, Notify, SendFails, aggregate
    <3>2. CASE agg.pc # "done"
      <4>1. ~AddEvent
        BY Zenon, <1>3, AfterAddPc
      <4> QED
        BY Zenon, <1>3, <3>2, <4>1, Steps, ReceiveCases, FailsEffect, Workers
           DEF EmitEvent, Rests, Removes, Read, Upload, Notify, SendFails
    <3> QED
      BY <3>1, <3>2
  <2> QED
    BY <2>1 DEF Buffered
<1> QED
  BY Zenon, <1>1, <1>2, <1>3 DEF EndInv

\* SendTotal sends the buffer of the last event.  When it removed another one,
\* the buffer that was sent is still in the set.
LEMMA OtherRemoved ==
    ASSUME TypeOK, ChannelInv, SetInv, MemoryInv,
           NEW b, NEW s \in DOMAIN buffers, Removes(b, s), b # s
    PROVE  Doomed(s)'
<1>1. agg.pc = "total" /\ s = agg.buffer /\ b \in Buffered /\ RemoveAndSend(b, s)
  BY Zenon DEF Removes
<1>2. s \in Buffered /\ buffers[s].bytes > 0
  <2>1. s \in Buffered
    BY Zenon, <1>1 DEF SetInv
  <2>2. /\ emitted[agg.event].bytes <= buffers[s].bytes
        /\ emitted[agg.event].bytes \in Nat \ {0}
    BY Zenon, <1>1, Fields DEF MemoryInv, ChannelInv
  <2> QED
    BY SMTT(30), <2>1, <2>2, Fields
<1>3. s \in Buffered'
  BY Zenon, <1>1, <1>2, RemoveEffect
<1>4. buffers' = buffers /\ sender'.pc = "got" /\ sender'.buffer = s
  BY <1>1 DEF RemoveAndSend
<1> QED
  BY Zenon, <1>2, <1>3, <1>4 DEF Doomed, InHand

\* A buffer that the sender will panic on stays one until it does.
LEMMA DoomedStep ==
    ASSUME TypeOK, ChannelInv, SetInv, MemoryInv, Next, err' = FALSE, result' = "none",
           NEW b \in DOMAIN buffers, Doomed(b)
    PROVE  \E c \in DOMAIN buffers' : Doomed(c)'
<1>0. /\ buffers[b].bytes > 0 /\ buffers[b].bytes \in Nat
      /\ b \in Buffered \/ InHand(b)
      /\ ~InHand(b) => buffers[b].read /\ b \in Buffered
      /\ b \notin Buffered => buffers[b].read /\ InHand(b)
  BY Zenon, Fields DEF Doomed
<1>1. CASE UNCHANGED <<set, buffers, sender>>
  BY Zenon, <1>1 DEF Doomed, InHand, Buffered
<1>2. CASE AddEvent
  <2>1. b \in DOMAIN buffers' /\ sender' = sender /\ Buffered \subseteq Buffered'
    BY Zenon, <1>2, AddEffect DEF AddEvent
  <2>2. buffers[b].read => buffers'[b].read
    BY ReadStays
  <2>3. buffers'[b].bytes > 0
    <3>1. CASE b = AddedTo
      BY <1>2, <3>1, AddEffect, AddedSizes
    <3>2. CASE b # AddedTo
      BY Zenon, <1>0, <1>2, <3>2, AddEffect
    <3> QED
      BY <3>1, <3>2
  <2> QED
    BY <2>1, <2>2, <2>3 DEF Doomed, InHand
<1>3. ASSUME NEW c \in DOMAIN buffers, NEW s \in DOMAIN buffers, Removes(c, s)
      PROVE  \E d \in DOMAIN buffers' : Doomed(d)'
  <2>1. /\ buffers' = buffers /\ sender.pc = "idle" /\ sender'.pc = "got" /\ sender'.buffer = s
        /\ c \in Buffered /\ RemoveAndSend(c, s)
    BY Zenon, <1>3 DEF Removes, RemoveAndSend
  <2>2. buffers[b].read /\ b \in Buffered
    BY Zenon, <1>0, <2>1 DEF InHand
  <2>3. Buffered' = Buffered \ {c}
    BY Zenon, <2>1, RemoveEffect
  <2>4. CASE c # s
    BY Zenon, <1>3, <2>1, <2>4, OtherRemoved
  <2>5. CASE c = s
    BY Zenon, <1>0, <2>1, <2>2, <2>3, <2>5 DEF Doomed, InHand
  <2> QED
    BY Zenon, <2>4, <2>5
<1>4. CASE Read
  <2>1. set' = set /\ sender.pc = "got"
    BY <1>4 DEF Read
  <2>2. b \in DOMAIN buffers' /\ buffers'[b].bytes > 0
    BY <1>0, <1>4, ReadEffect
  <2>3. b \in Buffered
    <3>1. CASE InHand(b)
      BY <1>0, <1>4, <3>1, ReadEffect DEF InHand
    <3>2. CASE ~InHand(b)
      BY Zenon, <1>0, <3>2
    <3> QED
      BY <3>1, <3>2
  <2>4. buffers'[b].read
    <3>1. CASE buffers[b].read
      BY <3>1, ReadStays
    <3>2. CASE ~buffers[b].read
      BY <1>0, <1>4, <3>2, ReadEffect DEF InHand
    <3> QED
      BY Zenon, <3>1, <3>2
  <2> QED
    BY Zenon, <2>1, <2>2, <2>3, <2>4 DEF Doomed, Buffered
<1>5. CASE Upload \/ Notify
  <2>1. set' = set /\ buffers' = buffers /\ sender.pc # "got"
    BY <1>5 DEF Upload, Notify, aggregate
  <2> QED
    BY SMTT(30), <1>0, <2>1 DEF Doomed, InHand, Buffered
<1>6. ~AddFails /\ ~SendFails
  BY Zenon, FailsEffect DEF SendFails
<1> QED
  BY Zenon, <1>1, <1>2, <1>3, <1>4, <1>5, <1>6, Steps, ReceiveCases
     DEF EmitEvent, Rests, aggregate

\* A covered event stays covered, or there is a buffer the sender panics on.
LEMMA CoveredStep ==
    ASSUME TypeOK, ChannelInv, SetInv, MemoryInv, EventsInv, StoreInv, Next,
           err' = FALSE, result' = "none", NEW e, Covered(e)
    PROVE  Covered(e)' \/ \E c \in DOMAIN buffers' : Doomed(c)'
<1>0. /\ announced \subseteq DOMAIN objects
      /\ sender.pc # "idle" => sender.buffer \in DOMAIN buffers
  BY Zenon DEF TypeOK, SetInv
<1>1. CASE UNCHANGED <<set, buffers, sender, objects, announced>>
  BY Zenon, <1>1 DEF Covered, Buffered
<1>2. CASE AddEvent
  <2>1. /\ UNCHANGED <<sender, objects, announced>> /\ agg.pc = "add"
        /\ Buffered \subseteq Buffered' /\ DOMAIN buffers \subseteq DOMAIN buffers'
    BY Zenon, <1>2, AddEffect DEF AddEvent, s3
  <2>2. \A b \in DOMAIN buffers : buffers[b].events \subseteq buffers'[b].events
    <3>1. AddedTo \in DOMAIN buffers => EventsBefore = buffers[AddedTo].events
      BY Zenon, <2>1, GetEffect DEF EventsBefore
    <3> QED
      BY Zenon, <1>2, <3>1, AddEffect
  <2> QED
    BY <2>1, <2>2 DEF Covered
<1>3. ASSUME NEW b \in DOMAIN buffers, NEW s \in DOMAIN buffers, Removes(b, s)
      PROVE  Covered(e)' \/ \E d \in DOMAIN buffers' : Doomed(d)'
  <2>1. /\ buffers' = buffers /\ sender.pc = "idle" /\ sender'.pc = "got" /\ sender'.buffer = s
        /\ objects' = objects /\ announced' = announced
        /\ b \in Buffered /\ RemoveAndSend(b, s)
    BY Zenon, <1>3 DEF Removes, RemoveAndSend, s3
  <2>2. Buffered' = Buffered \ {b}
    BY Zenon, <2>1, RemoveEffect
  <2>3. CASE b # s
    BY Zenon, <1>3, <2>1, <2>3, OtherRemoved
  <2>4. CASE b = s
    BY <2>1, <2>2, <2>4 DEF Covered
  <2> QED
    BY Zenon, <2>3, <2>4
<1>4. CASE Read
  <2>1. set' = set /\ objects' = objects /\ announced' = announced /\ sender.pc = "got"
    BY <1>4 DEF Read, s3
  <2>2. /\ DOMAIN buffers' = DOMAIN buffers
        /\ \A b \in DOMAIN buffers : buffers'[b].events = buffers[b].events
    BY Zenon, <1>4, ReadEffect
  <2>3. CASE buffers[sender.buffer].bytes = 0
    <3>1. buffers[sender.buffer].events = {}
      BY Zenon, <1>0, <2>1, <2>3 DEF EventsInv
    <3> QED
      BY SMTT(30), SMTT(60), <2>1, <2>2, <3>1 DEF Covered, Buffered
  <2>4. CASE sender' = [sender EXCEPT !.pc = "upload"]
    <3>1. sender'.pc = "upload" /\ sender'.buffer = sender.buffer
      BY Zenon, <2>4, Workers
    <3> QED
      BY Zenon, <2>1, <2>2, <3>1 DEF Covered, Buffered
  <2> QED
    BY Zenon, <1>4, <2>3, <2>4, ReadEffect
<1>5. CASE Upload
  <2>1. /\ set' = set /\ buffers' = buffers /\ announced' = announced
        /\ sender.pc # "idle" /\ sender'.pc = "notify" /\ sender'.buffer = sender.buffer
    BY Zenon, <1>5, Workers DEF Upload, aggregate
  <2>2. \A o \in announced : objects'[o] = objects[o]
    BY Zenon, <1>0, <1>5, UploadEffect
  <2> QED
    BY <2>1, <2>2 DEF Covered, Buffered
<1>6. CASE Notify
  <2>1. /\ set' = set /\ buffers' = buffers /\ objects' = objects /\ sender.pc = "notify"
        /\ announced' = announced \cup {Len(objects)}
    BY Zenon, <1>6 DEF Notify, aggregate
  <2>2. objects[Len(objects)].events = buffers[sender.buffer].events
    BY SMTT(30), <2>1 DEF StoreInv
  <2> QED
    BY <2>1, <2>2 DEF Covered, Buffered
<1>7. ~AddFails /\ ~SendFails
  BY Zenon, FailsEffect DEF SendFails
<1> QED
  BY Zenon, <1>1, <1>2, <1>3, <1>4, <1>5, <1>6, <1>7, Steps, ReceiveCases
     DEF EmitEvent, Rests, aggregate, s3

\* An event that is added is covered, or it went to a buffer that was sent
\* while it was in the set.
LEMMA AddedIsCovered ==
    ASSUME TypeOK, ChannelInv, SetInv, AddEvent, NEW e, e = agg.event
    PROVE  Covered(e)' \/ \E c \in DOMAIN buffers' : Doomed(c)'
<1>1. AddedTo \in DOMAIN buffers' /\ AddedTo \in Buffered' /\ sender' = sender
  BY Zenon, AddEffect DEF AddEvent
<1>2. PICK b : b = AddedTo
  OBVIOUS
<1>3. CASE InHand(AddedTo)
  <2>1. buffers'[b].bytes > 0
    BY <1>2, AddEffect, AddedSizes
  <2> QED
    BY Zenon, <1>1, <1>2, <1>3, <2>1 DEF Doomed, InHand
<1>4. CASE e \in buffers'[AddedTo].events
  BY Zenon, <1>1, <1>2, <1>4 DEF Covered
<1> QED
  BY <1>3, <1>4, AddEffect

\* While nothing failed no event is lost, after every step.
LEMMA CoverStep ==
    ASSUME TypeOK, ChannelInv, SetInv, MemoryInv, EventsInv, StoreInv, EndInv, CoverInv, Next
    PROVE  CoverInv'
<1> SUFFICES ASSUME ~err', result' = "none", ~\E b \in DOMAIN buffers' : Doomed(b)'
             PROVE  \A e \in 1..Settled' : Covered(e)'
  BY Zenon DEF CoverInv
<1>0. err' = FALSE
  BY Zenon, TypeStep DEF TypeOK
<1>1. err = FALSE /\ result = "none"
  BY Zenon, <1>0, Endings DEF TypeOK
<1>2. \A e \in 1..Settled : Covered(e)'
  <2>1. \A e \in 1..Settled : Covered(e)
    BY Zenon, <1>0, <1>1, DoomedStep DEF CoverInv
  <2> QED
    BY Zenon, <1>0, <2>1, CoveredStep
<1>3. Settled \in Nat
  BY Bounds
<1>4. CASE Settled' = Settled
  BY <1>2, <1>4
<1>5. CASE Settled' = Settled + 1 /\ AddEvent
  <2>1. agg.event = Settled + 1
    BY Zenon, <1>5, GetEffect DEF AddEvent
  <2>2. \A e : e = agg.event => Covered(e)'
    BY <1>5, AddedIsCovered
  <2> QED
    BY <1>2, <1>3, <1>5, <2>1, <2>2
<1>6. CASE Receive
  <2>1. /\ Taken' = Taken + 1 /\ Taken \in Nat /\ agg.pc = "recv" /\ agg'.pc \in {"expire", "add"}
    <3>1. ~agg.failed
      BY <1>1 DEF EndInv
    <3>2. agg.pc = "recv" /\ agg'.pc \in {"expire", "add"} /\ emitted' = emitted
      BY Zenon, <1>6, <3>1, ReceiveCases
    <3>3. Taken \in Nat /\ Len(emitted) \in Nat /\ Len(channel) \in Nat
      BY Zenon, Bounds, Fields
    <3>4. Len(channel') = Len(channel) - 1
      BY Zenon, <1>6, ReceiveEffect
    <3> QED
      BY <3>2, <3>3, <3>4 DEF Taken
  <2>2. Settled' = Settled
    BY <2>1 DEF Settled, Adding
  <2> QED
    BY <1>2, <2>2
<1>7. ~AddFails
  BY Zenon, <1>0, FailsEffect
<1> QED
  BY Zenon, <1>4, <1>5, <1>6, <1>7, Settling

\* A call that returns nil has stored and announced every event, after every
\* step.
LEMMA NilStep ==
    ASSUME TypeOK, ChannelInv, SetInv, EndInv, CoverInv, NilMeansStored, Next
    PROVE  NilMeansStored'
<1> SUFFICES ASSUME result' = "nil"
             PROVE  \A e \in DOMAIN emitted' : \E o \in announced' : e \in objects'[o].events
  BY DEF NilMeansStored
<1>1. Return /\ result = "none"
  BY Endings
<1>2. ~err /\ agg.pc = "done" /\ UNCHANGED <<emitted, objects, announced>>
  BY <1>1 DEF Return, s3
<1>3. Buffered = {} /\ sender.pc = "idle" /\ channel = <<>>
  BY <1>2 DEF EndInv
<1>4. \A b \in DOMAIN buffers : ~Doomed(b)
  BY <1>3 DEF Doomed, InHand
<1>5. 1..Settled = DOMAIN emitted
  <2>1. Len(channel) = 0 /\ Len(emitted) \in Nat /\ DOMAIN emitted = 1..Len(emitted)
    BY <1>3, Fields
  <2> QED
    BY <1>2, <2>1 DEF Settled, Adding, Taken
<1>6. \A e \in DOMAIN emitted : Covered(e)
  BY Zenon, <1>1, <1>2, <1>4, <1>5 DEF CoverInv
<1> QED
  BY Zenon, <1>2, <1>3, <1>6 DEF Covered

-----------------------------------------------------------------------------
\* What every step keeps.
IInv ==
    /\ TypeOK /\ ChannelInv /\ SetInv /\ MemoryInv /\ EventsInv /\ StoreInv
    /\ EndInv /\ CoverInv /\ StoredOnce /\ NilMeansStored

\* A call of process starts with nothing emitted, buffered or stored.
LEMMA Start ==
    ASSUME Init
    PROVE  IInv
<1>1. /\ Keys # {} /\ 0 \in 0..MaxEvents /\ 0 \in 0..Streams
      /\ 0 < MaxBufferedMemBytes /\ 0 <= MaxEvents /\ 0 <= ParsedEventBufferSize
  BY DestinationAssumption
<1>2. /\ Len(emitted) = 0 /\ Len(channel) = 0 /\ Len(buffers) = 0 /\ Len(objects) = 0
      /\ DOMAIN emitted = {} /\ DOMAIN channel = {} /\ DOMAIN buffers = {} /\ DOMAIN objects = {}
  BY DEF Init
<1>3. Buffered = {}
  BY Zenon DEF Init, Buffered
<1>4. TypeOK
  <2>1. agg \in [pc : {"recv", "expire", "add", "single", "total", "flush", "done"},
                 failed : BOOLEAN, event : 0..MaxEvents, buffer : 0..MaxEvents,
                 expired : SUBSET Events]
    BY Zenon, <1>1 DEF Init
  <2>2. sender \in [pc : {"idle", "got", "upload", "notify"}, buffer : 0..MaxEvents]
    BY Zenon, <1>1 DEF Init
  <2>3. set \in [Keys -> 0..MaxEvents]
    BY Zenon, <1>1 DEF Init
  <2>4. /\ emitted \in Seq([key : Keys, bytes : EventBytes]) /\ channel \in Seq(Events)
        /\ buffers \in Seq([key : Keys, events : SUBSET Events, bytes : Nat, read : BOOLEAN])
        /\ objects \in Seq([key : Keys, events : SUBSET Events])
    BY DEF Init
  <2>5. /\ stream \in 0..Streams /\ total \in Nat /\ announced \subseteq DOMAIN objects
        /\ Len(emitted) <= MaxEvents /\ Len(channel) <= ParsedEventBufferSize
    BY <1>1, <1>2 DEF Init
  <2>6. /\ main \in {"run", "wait", "done"} /\ err \in BOOLEAN
        /\ result \in {"none", "nil", "error", "panic"}
    BY Zenon DEF Init
  <2> QED
    BY Zenon, <2>1, <2>2, <2>3, <2>4, <2>5, <2>6 DEF TypeOK
<1>5. Settled = 0 /\ agg.pc = "recv" /\ sender.pc = "idle"
  BY SMTT(30), <1>2 DEF Init, Settled, Adding, Taken
<1>6. ChannelInv
  BY <1>2, <1>5 DEF ChannelInv, Adding
<1>7. SetInv
  BY SMTT(30), <1>2, <1>5 DEF Init, SetInv
<1>8. MemoryInv
  <2>1. SumFunctionOnSet(Sizes, {}) = 0
    BY Zenon, SumEmpty
  <2> QED
    BY Zenon, <1>1, <1>3, <1>5, <2>1 DEF Init, MemoryInv
<1>9. EventsInv /\ StoreInv /\ StoredOnce /\ NilMeansStored
  BY Zenon, <1>2, <1>5 DEF Init, EventsInv, StoreInv, StoredOnce, NilMeansStored
<1>10. EndInv
  BY <1>5 DEF Init, EndInv
<1>11. CoverInv
  BY <1>5 DEF CoverInv
<1> QED
  BY Zenon, <1>4, <1>6, <1>7, <1>8, <1>9, <1>10, <1>11 DEF IInv

\* The invariant is inductive.
LEMMA Inductive ==
    ASSUME IInv, [Next]_vars
    PROVE  IInv'
<1>1. CASE Next
  <2>1. TypeOK' /\ ChannelInv' /\ SetInv' /\ MemoryInv'
    BY Zenon, <1>1, TypeStep, ChannelStep, SetStep, MemoryStep DEF IInv
  <2>2. EventsInv' /\ StoreInv' /\ StoredOnce'
    BY Zenon, <1>1, EventsStep, StoreStep, StoredOnceStep DEF IInv
  <2>3. EndInv' /\ CoverInv' /\ NilMeansStored'
    BY Zenon, <1>1, EndStep, CoverStep, NilStep DEF IInv
  <2> QED
    BY <2>1, <2>2, <2>3 DEF IInv
<1>2. CASE UNCHANGED vars
  <2>1. TypeOK' /\ ChannelInv' /\ SetInv'
    BY SMTT(30), SMTT(60), <1>2 DEF IInv, vars, TypeOK, ChannelInv, SetInv, Settled, Adding, Taken, Buffered
  <2>2. MemoryInv' /\ EventsInv' /\ StoreInv' /\ StoredOnce'
    BY SMTT(30), SMTT(60), <1>2 DEF IInv, vars, MemoryInv, EventsInv, StoreInv, StoredOnce, Settled, Adding, Taken,
       Buffered, Sizes, Uploading
  <2>3. EndInv' /\ CoverInv' /\ NilMeansStored'
    BY Zenon, <1>2 DEF IInv, vars, EndInv, CoverInv, NilMeansStored, Settled, Adding, Taken, Buffered,
       Doomed, Covered, InHand
  <2> QED
    BY Zenon, <2>1, <2>2, <2>3 DEF IInv
<1> QED
  BY <1>1, <1>2

\* A call of process keeps the invariant.
LEMMA Invariance == Spec => []IInv
<1>1. Init => IInv
  BY Start
<1>2. IInv /\ [Next]_vars => IInv'
  BY Inductive
<1> QED
  BY <1>1, <1>2, PTL DEF Spec

\* The variables keep their types: the channel stays within its capacity, the
\* total never becomes negative, and no event makes more than one buffer.
THEOREM TypeCorrect == Spec => []TypeOK
<1>1. IInv => TypeOK
  BY DEF IInv
<1> QED
  BY <1>1, Invariance, PTL

\* However the call ends, sendData stores no event twice or in another
\* partition, for any number of partitions, events and streams.
THEOREM StoredOnceCorrect == Spec => []StoredOnce
<1>1. IInv => StoredOnce
  BY DEF IInv
<1> QED
  BY <1>1, Invariance, PTL

\* totalBufferedMemBytes is the size of the buffers in the set and is below
\* maxBufferedMemBytes whenever SendEvents waits for an event: removing one
\* largest buffer is always enough, whatever the two thresholds are.
THEOREM MemoryCorrect == Spec => []MemoryBounded
<1>1. IInv => MemoryBounded
  BY Zenon DEF IInv, MemoryInv, SetInv, MemoryBounded, Sizes
<1> QED
  BY <1>1, Invariance, PTL

\* A call of process that returns nil has stored every event it parsed and
\* announced the object, although SendEvents can remove one buffer from the set
\* and send another: the buffer that is sent twice makes sendData panic.
THEOREM NilCorrect == Spec => []NilMeansStored
<1>1. IInv => NilMeansStored
  BY DEF IInv
<1> QED
  BY <1>1, Invariance, PTL
=============================================================================
