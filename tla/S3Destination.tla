--------------------------- MODULE S3Destination ---------------------------
(***************************************************************************)
(* internal/log_analysis/log_processor: one call of processor.process.     *)
(* Four goroutines cooperate: the caller reads the data streams and puts   *)
(* parsed events on parsedEventChannel; SendEvents aggregates them in      *)
(* buffers, one for each partition; a sender uploads one buffer at a time; *)
(* the last one drains errorChannel into the error that process returns.   *)
(*                                                                         *)
(* An event is the number of its emission; a key is the hour and log type  *)
(* that choose its buffer and its S3 partition.  An error sent on          *)
(* errorChannel is received at once, since its reader does nothing else.   *)
(* What SendEvents does between two channel operations is one step.        *)
(***************************************************************************)
EXTENDS Naturals, Sequences, FiniteSets, FiniteSetsExt

CONSTANTS
    Keys,                   \* partitions: hour and log type
    EventBytes,             \* sizes of a marshalled event with its newline
    Streams,                \* how many data streams the invocation has
    MaxEvents,              \* bound: events that can be parsed from them
    ParsedEventBufferSize,
    MaxS3BufferSizeBytes,   \* maxS3BufferSizeBytes
    MaxBufferedMemBytes     \* destination.maxBufferedMemBytes

ASSUME DestinationAssumption ==
    /\ Keys # {} /\ EventBytes \subseteq Nat \ {0} /\ EventBytes # {}
    /\ {Streams, MaxEvents, ParsedEventBufferSize, MaxS3BufferSizeBytes,
        MaxBufferedMemBytes} \subseteq Nat \ {0}

VARIABLES
    stream,     \* data streams read to their end
    main,       \* the caller: "run", "wait" (channel closed), "done"
    emitted,    \* the events parsed so far: <<[key, bytes], ...>>
    channel,    \* parsedEventChannel
    agg,        \* SendEvents: [pc, failed, event, buffer, expired]
    set,        \* bufferSet: the buffer of each key, 0 for none
    total,      \* totalBufferedMemBytes
    buffers,    \* every buffer made: <<[key, events, bytes, read], ...>>
    sender,     \* the sender: [pc, buffer]
    objects,    \* uploaded to S3: <<[key, events], ...>>
    announced,  \* the objects SNS was told of
    err,        \* an error was received from errorChannel
    result      \* of process: "none", "nil", "error" or "panic"

vars == <<stream, main, emitted, channel, agg, set, total, buffers, sender,
          objects, announced, err, result>>
aggregate == <<set, total, buffers>>
s3 == <<objects, announced>>

Events == 1..MaxEvents
TypeOK ==
    /\ stream \in 0..Streams
    /\ main \in {"run", "wait", "done"}
    /\ emitted \in Seq([key : Keys, bytes : EventBytes]) /\ Len(emitted) <= MaxEvents
    /\ channel \in Seq(Events) /\ Len(channel) <= ParsedEventBufferSize
    /\ agg \in [pc : {"recv", "expire", "add", "single", "total", "flush", "done"},
                failed : BOOLEAN, event : 0..MaxEvents, buffer : 0..MaxEvents,
                expired : SUBSET Events]
    /\ set \in [Keys -> 0..MaxEvents]
    /\ total \in Nat
    /\ buffers \in Seq([key : Keys, events : SUBSET Events, bytes : Nat, read : BOOLEAN])
    /\ sender \in [pc : {"idle", "got", "upload", "notify"}, buffer : 0..MaxEvents]
    /\ objects \in Seq([key : Keys, events : SUBSET Events])
    /\ announced \subseteq DOMAIN objects
    /\ err \in BOOLEAN
    /\ result \in {"none", "nil", "error", "panic"}

Init ==
    /\ stream = 0 /\ main = "run" /\ emitted = <<>> /\ channel = <<>>
    /\ agg = [pc |-> "recv", failed |-> FALSE, event |-> 0, buffer |-> 0, expired |-> {}]
    /\ set = [k \in Keys |-> 0] /\ total = 0 /\ buffers = <<>>
    /\ sender = [pc |-> "idle", buffer |-> 0]
    /\ objects = <<>> /\ announced = {}
    /\ err = FALSE /\ result = "none"

-----------------------------------------------------------------------------
(* The caller.                                                             *)

\* Mutant of EmitEvent: the caller does not block when the channel is full.
EmitEvent_NeverBlocks(k, n) ==
    /\ main = "run" /\ stream < Streams
    /\ Len(emitted) < MaxEvents
    /\ emitted' = Append(emitted, [key |-> k, bytes |-> n])
    /\ channel' = Append(channel, Len(emitted) + 1)
    /\ UNCHANGED <<stream, main, agg, aggregate, sender, s3, err, result>>

\* processLogLine sends an event, and blocks while the channel is full.
EmitEvent(k, n) ==
    /\ main = "run" /\ stream < Streams
    /\ Len(emitted) < MaxEvents /\ Len(channel) < ParsedEventBufferSize
    /\ emitted' = Append(emitted, [key |-> k, bytes |-> n])
    /\ channel' = Append(channel, Len(emitted) + 1)
    /\ UNCHANGED <<stream, main, agg, aggregate, sender, s3, err, result>>

\* Mutant of EndOfStream: parsedEventChannel is not closed.
EndOfStream_LeavesOpen ==
    /\ main = "run" /\ stream < Streams
    /\ stream' = stream + 1
    /\ UNCHANGED <<main, emitted, channel, agg, aggregate, sender, s3, err, result>>

\* io.EOF: the next stream, or the channel is closed after the last one.
EndOfStream ==
    /\ main = "run" /\ stream < Streams
    /\ stream' = stream + 1
    /\ main' = IF stream + 1 = Streams THEN "wait" ELSE "run"
    /\ UNCHANGED <<emitted, channel, agg, aggregate, sender, s3, err, result>>

\* ReadString fails: the error is sent, the streams that are left are not read.
ReadError ==
    /\ main = "run" /\ stream < Streams
    /\ err' = TRUE
    /\ main' = "wait"
    /\ UNCHANGED <<stream, emitted, channel, agg, aggregate, sender, s3, result>>

\* SendEvents has returned: errorChannel is closed and process returns.
Return ==
    /\ main = "wait" /\ agg.pc = "done"
    /\ main' = "done"
    /\ result' = IF err THEN "error" ELSE "nil"
    /\ UNCHANGED <<stream, emitted, channel, agg, aggregate, sender, s3, err>>

-----------------------------------------------------------------------------
(* SendEvents.                                                             *)

Buffered == {set[k] : k \in Keys} \ {0}

\* An event is taken from the channel.  When the ticker has fired, the buffers
\* that are old enough have expired: buffers are numbered as they are made, so
\* these are the ones up to some number.  After a failure events are drained.
Receive ==
    /\ agg.pc = "recv" /\ channel # <<>>
    /\ channel' = Tail(channel)
    /\ \/ agg.failed /\ UNCHANGED agg
       \/ /\ ~agg.failed
          /\ \E newest \in 0..Len(buffers) :
               LET expired == {b \in Buffered : b <= newest}
               IN  agg' = [agg EXCEPT !.event = Head(channel), !.expired = expired,
                                      !.pc = IF expired = {} THEN "add" ELSE "expire"]
    /\ UNCHANGED <<stream, main, emitted, aggregate, sender, s3, err, result>>

\* removeBuffer, followed by the send on the unbuffered sendChan, which is
\* received when the sender is back from the previous buffer.
RemoveAndSend(removed, sent) ==
    /\ sender.pc = "idle"
    /\ sender' = [pc |-> "got", buffer |-> sent]
    /\ set' = [set EXCEPT ![buffers[removed].key] = 0]
    /\ total' = total - buffers[removed].bytes
    /\ UNCHANGED <<stream, main, emitted, channel, buffers, s3, err, result>>

SendExpired(b) ==
    /\ agg.pc = "expire" /\ b \in agg.expired
    /\ RemoveAndSend(b, b)
    /\ agg' = [agg EXCEPT !.expired = @ \ {b},
                          !.pc = IF agg.expired = {b} THEN "add" ELSE "expire"]

\* The step after the thresholds are compared.
AfterAdd(bytes, sum) ==
    CASE bytes >= MaxS3BufferSizeBytes -> "single"
      [] bytes < MaxS3BufferSizeBytes /\ sum >= MaxBufferedMemBytes -> "total"
      [] OTHER -> "recv"

\* getBuffer: the buffer of the event's key, a new one when there is none.
GetBuffer(k) == IF set[k] = 0 THEN Len(buffers) + 1 ELSE set[k]
WithBuffer(k) ==
    IF set[k] = 0 THEN Append(buffers, [key |-> k, events |-> {}, bytes |-> 0, read |-> FALSE])
    ELSE buffers

\* The buffer of the event has been read by the sender already.
AlreadyRead == LET k == emitted[agg.event].key IN set[k] # 0 /\ buffers[set[k]].read

\* getBuffer and addEvent.  A buffer that the sender was given and has not read
\* yet is shared with it: the event gets in, or it is written to bytes that the
\* sender no longer looks at.
AddEvent ==
    LET event == emitted[agg.event]
        b == GetBuffer(event.key)
        shared == sender.pc = "got" /\ sender.buffer = b
    IN  /\ agg.pc = "add" /\ ~AlreadyRead
        /\ \E written \in {{agg.event}} \cup (IF shared THEN {{}} ELSE {}) :
              buffers' = [WithBuffer(event.key) EXCEPT
                             ![b].events = @ \cup written, ![b].bytes = @ + event.bytes]
        /\ set' = [set EXCEPT ![event.key] = b]
        /\ total' = total + event.bytes
        /\ agg' = [agg EXCEPT !.buffer = b, !.pc = AfterAdd(buffers'[b].bytes, total')]
        /\ UNCHANGED <<stream, main, emitted, channel, sender, s3, err, result>>

\* The event cannot be marshalled, or the buffer (which getBuffer may just have
\* made) cannot be written: the events that follow are drained.
AddFails ==
    LET k == emitted[agg.event].key
    IN  /\ agg.pc = "add"
        /\ \/ UNCHANGED <<set, buffers>>
           \/ /\ ~AlreadyRead
              /\ set' = [set EXCEPT ![k] = GetBuffer(k)]
              /\ buffers' = WithBuffer(k)
        /\ agg' = [agg EXCEPT !.pc = "recv", !.failed = TRUE]
        /\ err' = TRUE
        /\ UNCHANGED <<stream, main, emitted, channel, total, sender, s3, result>>

\* addEvent dereferences the writer that read() cleared.
AddPanics ==
    /\ agg.pc = "add" /\ AlreadyRead
    /\ result' = "panic"
    /\ UNCHANGED <<stream, main, emitted, channel, agg, aggregate, sender, s3, err>>

\* Mutant of SendSingle: the buffer is sent and its size stays in the total.
SendSingle_KeepsTotal ==
    /\ agg.pc = "single" /\ sender.pc = "idle"
    /\ sender' = [pc |-> "got", buffer |-> agg.buffer]
    /\ set' = [set EXCEPT ![buffers[agg.buffer].key] = 0]
    /\ agg' = [agg EXCEPT !.pc = IF total >= MaxBufferedMemBytes THEN "total" ELSE "recv"]
    /\ UNCHANGED <<stream, main, emitted, channel, total, buffers, s3, err, result>>

\* The event's buffer reached the threshold for one buffer.
SendSingle ==
    /\ agg.pc = "single"
    /\ RemoveAndSend(agg.buffer, agg.buffer)
    /\ agg' = [agg EXCEPT !.pc = IF total' >= MaxBufferedMemBytes THEN "total" ELSE "recv"]

\* largestBuffer: among buffers of one size, the first that the map yields.
Largest == {b \in Buffered : \A c \in Buffered : buffers[c].bytes <= buffers[b].bytes}

\* The set reached the threshold for all buffers.  The largest buffer is
\* removed from it, and the buffer of the last event is sent.
SendTotal ==
    /\ agg.pc = "total"
    /\ \E largest \in Largest : RemoveAndSend(largest, agg.buffer)
    /\ agg' = [agg EXCEPT !.pc = "recv"]

\* parsedEventChannel is closed and empty.
ChannelClosed ==
    /\ agg.pc = "recv" /\ channel = <<>> /\ main # "run"
    /\ agg' = [agg EXCEPT !.pc = "flush"]
    /\ UNCHANGED <<stream, main, emitted, channel, aggregate, sender, s3, err, result>>

\* The buffers that are left are sent, after a failure too.
FlushBuffer(b) ==
    /\ agg.pc = "flush" /\ b \in Buffered
    /\ RemoveAndSend(b, b)
    /\ UNCHANGED agg

\* Mutant of FinishSending: sendWaitGroup is not waited for.
FinishSending_NoWait ==
    /\ agg.pc = "flush" /\ Buffered = {}
    /\ agg' = [agg EXCEPT !.pc = "done"]
    /\ UNCHANGED <<stream, main, emitted, channel, aggregate, sender, s3, err, result>>

\* sendChan is closed and the sender has finished.
FinishSending ==
    /\ agg.pc = "flush" /\ Buffered = {} /\ sender.pc = "idle"
    /\ agg' = [agg EXCEPT !.pc = "done"]
    /\ UNCHANGED <<stream, main, emitted, channel, aggregate, sender, s3, err, result>>

-----------------------------------------------------------------------------
(* The sender: sendData.                                                   *)

\* Mutant of Read: the writer is left as it was, and can be read again.
Read_KeepsWriter ==
    /\ sender.pc = "got"
    /\ sender' = [sender EXCEPT !.pc = IF buffers[sender.buffer].events = {} THEN "idle" ELSE "upload"]
    /\ UNCHANGED <<stream, main, emitted, channel, agg, aggregate, s3, err, result>>

\* An empty buffer is skipped, a buffer that was read before has no writer.
Read ==
    LET b == sender.buffer
    IN  /\ sender.pc = "got"
        /\ \/ /\ buffers[b].bytes = 0
              /\ sender' = [sender EXCEPT !.pc = "idle"]
              /\ UNCHANGED <<buffers, result>>
           \/ /\ buffers[b].bytes > 0 /\ ~buffers[b].read
              /\ buffers' = [buffers EXCEPT ![b].read = TRUE]
              /\ sender' = [sender EXCEPT !.pc = "upload"]
              /\ UNCHANGED result
           \/ /\ buffers[b].bytes > 0 /\ buffers[b].read
              /\ result' = "panic"
              /\ UNCHANGED <<sender, buffers>>
        /\ UNCHANGED <<stream, main, emitted, channel, agg, set, total, s3, err>>

Upload ==
    LET b == buffers[sender.buffer]
    IN  /\ sender.pc = "upload"
        /\ objects' = Append(objects, [key |-> b.key, events |-> b.events])
        /\ sender' = [sender EXCEPT !.pc = "notify"]
        /\ UNCHANGED <<stream, main, emitted, channel, agg, aggregate, announced, err, result>>

Notify ==
    /\ sender.pc = "notify"
    /\ announced' = announced \cup {Len(objects)}
    /\ sender' = [sender EXCEPT !.pc = "idle"]
    /\ UNCHANGED <<stream, main, emitted, channel, agg, aggregate, objects, err, result>>

\* Reading, uploading or notifying fails.
SendFails ==
    /\ \/ sender.pc \in {"upload", "notify"}
       \/ /\ sender.pc = "got"
          /\ buffers[sender.buffer].bytes > 0 /\ ~buffers[sender.buffer].read
    /\ sender' = [sender EXCEPT !.pc = "idle"]
    /\ err' = TRUE
    /\ UNCHANGED <<stream, main, emitted, channel, agg, aggregate, s3, result>>

-----------------------------------------------------------------------------
Main == (\E k \in Keys, n \in EventBytes : EmitEvent(k, n)) \/ EndOfStream \/ ReadError \/ Return
SendEvents ==
    \/ Receive \/ AddEvent \/ AddFails \/ AddPanics \/ SendSingle \/ SendTotal
    \/ ChannelClosed \/ FinishSending
    \/ \E b \in DOMAIN buffers : SendExpired(b) \/ FlushBuffer(b)
Sender == Read \/ Upload \/ Notify \/ SendFails

Next == result = "none" /\ (Main \/ SendEvents \/ Sender)

Spec == Init /\ [][Next]_vars

-----------------------------------------------------------------------------
\* However the call ends, no event is stored twice or in another partition.
StoredOnce ==
    \A o \in DOMAIN objects : \A e \in objects[o].events :
        /\ objects[o].key = emitted[e].key
        /\ \A p \in DOMAIN objects : e \in objects[p].events => p = o

\* totalBufferedMemBytes is the size of the buffers in the set, and is below
\* the threshold whenever SendEvents waits for an event: ejecting one buffer
\* is always enough, and a set above the threshold has a largest buffer.
MemoryBounded ==
    /\ total = SumFunctionOnSet([b \in DOMAIN buffers |-> buffers[b].bytes], Buffered)
    /\ agg.pc = "recv" => total < MaxBufferedMemBytes
    /\ agg.pc = "total" => Buffered # {}

\* The goroutines never wait for one another for ever.
ProcessReturns == <>(result # "none")
=============================================================================
