----------------------------- MODULE Classifier -----------------------------
(***************************************************************************)
(* internal/log_analysis/log_processor/classification: the queue of the    *)
(* parsers, a binary heap ordered by penalty, and Classify, which tries    *)
(* them in that order.  A log line is the set of parsers that accept it; a *)
(* parser stands for its log type.  Blank lines return before the queue is *)
(* touched, and the statistics are left out.                               *)
(***************************************************************************)
EXTENDS Naturals, Sequences

CONSTANT Unclassified   \* the nil LogType

Less(q, j, k) == q[j].penalty < q[k].penalty
Swap(q, j, k) == [q EXCEPT ![j] = q[k], ![k] = q[j]]

\* up and down of container/heap, with the root at position 1.
RECURSIVE Up(_, _)
Up(q, j) ==
    IF j = 1 \/ ~Less(q, j, j \div 2) THEN q ELSE Up(Swap(q, j, j \div 2), j \div 2)

RECURSIVE Down(_, _)
Down(q, j) ==
    LET left == 2 * j
        child == IF left + 1 <= Len(q) /\ Less(q, left + 1, left) THEN left + 1 ELSE left
    IN  IF left > Len(q) \/ ~Less(q, child, j) THEN q ELSE Down(Swap(q, child, j), child)

Push(q, item) == Up(Append(q, item), Len(q) + 1)
Pop(q) ==
    IF Len(q) = 1 THEN << >>
    ELSE Down(SubSeq(Swap(q, 1, Len(q)), 1, Len(q) - 1), 1)
Peek(q) == q[1]

\* initialize: all parsers have the same priority.
Initialize(order) == [j \in DOMAIN order |-> [parser |-> order[j], penalty |-> 1]]

\* Mutant of PutBack: the items are appended as they are.
PutBack_Appended(q, popped) == q \o popped

\* The popped parsers go back into the queue.
RECURSIVE PutBack(_, _)
PutBack(q, popped) ==
    IF popped = << >> THEN q ELSE PutBack(Push(q, Head(popped)), Tail(popped))

\* The loop of Classify: the parser in front is tried; one that fails is
\* taken out with its penalty raised, one that succeeds loses its penalty.
RECURSIVE TryParsers(_, _, _)
TryParsers(q, popped, line) ==
    IF q = << >> THEN [queue |-> PutBack(q, popped), logType |-> Unclassified]
    ELSE LET item == Peek(q) IN
         IF item.parser \in line
         THEN [queue |-> PutBack([q EXCEPT ![1].penalty = 0], popped), logType |-> item.parser]
         ELSE TryParsers(Pop(q), Append(popped, [item EXCEPT !.penalty = @ + 1]), line)

Classify(q, line) == TryParsers(q, << >>, line)
=============================================================================
