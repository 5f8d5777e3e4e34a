---------------------------- MODULE LogProcessor ----------------------------
(***************************************************************************)
(* internal/log_analysis/log_processor/processor: process with the         *)
(* classifiers of its streams.  The lines of a stream are classified and   *)
(* the event of a classified line is put on parsedEventChannel, where      *)
(* S3Destination takes over; each stream has a classifier of its own.      *)
(*                                                                         *)
(* All events are of one hour, so that the partition of an event is its    *)
(* log type; a line has one event.                                         *)
(***************************************************************************)
EXTENDS S3Destination, Classifier

CONSTANTS
    Orders,     \* orders in which the registry lists the parsers
    Lines,      \* kinds of lines: the sets of parsers that accept them
    MaxLines    \* bound: lines of all streams

VARIABLES
    queue,      \* the parser queue of the stream's classifier
    lines       \* the lines read: <<[accepts, event], ...>>, event 0 for none

processorVars == <<queue, lines>>
allVars == <<vars, processorVars>>

ProcessInit ==
    /\ Init
    /\ \E order \in Orders : queue = Initialize(order)
    /\ lines = << >>

ProcessTypeOK ==
    /\ TypeOK
    /\ \A j \in DOMAIN queue : queue[j].penalty \in 0..(MaxLines + 1)
    /\ Len(lines) <= MaxLines
    /\ \A l \in DOMAIN lines : lines[l].accepts \in Lines /\ lines[l].event \in 0..Len(emitted)

\* processLogLine: a line that is not classified is passed over.
ProcessLogLine(line, n) ==
    LET classified == Classify(queue, line) IN
    /\ main = "run" /\ stream < Streams /\ Len(lines) < MaxLines
    /\ queue' = classified.queue
    /\ \/ /\ classified.logType = Unclassified
          /\ lines' = Append(lines, [accepts |-> line, event |-> 0])
          /\ UNCHANGED vars
       \/ /\ classified.logType # Unclassified
          /\ EmitEvent(classified.logType, n)
          /\ lines' = Append(lines, [accepts |-> line, event |-> Len(emitted) + 1])

\* The stream is at its end: the next one gets a new processor.
NextStream ==
    /\ EndOfStream
    /\ \E order \in Orders : queue' = Initialize(order)
    /\ UNCHANGED lines

ReadLines == (\E line \in Lines, n \in EventBytes : ProcessLogLine(line, n)) \/ NextStream
Finish == (ReadError \/ Return) /\ UNCHANGED processorVars
Store == (SendEvents \/ Sender) /\ UNCHANGED processorVars

ProcessNext == result = "none" /\ (ReadLines \/ Finish \/ Store)

\* Go runs the goroutines that can run, every call on a network returns and
\* every stream has an end: process does not stop while a step other than the
\* reading of a line is possible.
ProcessSpec ==
    /\ ProcessInit
    /\ [][ProcessNext]_allVars
    /\ WF_allVars(result = "none" /\ (NextStream \/ Finish \/ Store))

-----------------------------------------------------------------------------
\* The queue is a heap of all the parsers, whatever failed and succeeded: the
\* parser tried first is one with the least penalty, and none gets lost.
QueueIsHeap ==
    /\ \A j \in 2..Len(queue) : ~Less(queue, j, j \div 2)
    /\ \E order \in Orders : {queue[j].parser : j \in DOMAIN queue} = {order[j] : j \in DOMAIN order}
    /\ \A j, k \in DOMAIN queue : queue[j].parser = queue[k].parser => j = k

\* When process returns nil, all streams were read and each line that some
\* parser accepts is in an announced object, in the partition of a parser that
\* accepts it; no other line left an event.
AcceptedLinesStored ==
    result = "nil" => stream = Streams /\
        \A l \in DOMAIN lines :
            IF lines[l].accepts = {} THEN lines[l].event = 0
            ELSE \E o \in announced : /\ lines[l].event \in objects[o].events
                                      /\ objects[o].key \in lines[l].accepts
=============================================================================
