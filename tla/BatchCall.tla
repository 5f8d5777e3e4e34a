------------------------------ MODULE BatchCall ------------------------------
(***************************************************************************)
(* What the callers of pkg/awsbatch rely on, whatever the service and its  *)
(* limits: a call works off the items it was given, returns once, touches  *)
(* nothing afterwards, and returns nil only when every item was done.      *)
(***************************************************************************)
VARIABLES
    items,    \* the items of the call
    done,     \* the items the service has taken
    outcome   \* "running", "nil" or "error"

vars == <<items, done, outcome>>

Init ==
    /\ done = {}
    /\ outcome = "running"

\* The service takes some items, and the call goes on.
Work ==
    /\ outcome = "running"
    /\ \E more \in SUBSET items : done' = done \cup more
    /\ UNCHANGED <<items, outcome>>

\* The call returns; its last request may have taken items as well.
Return ==
    /\ outcome = "running"
    /\ \E more \in SUBSET items : done' = done \cup more
    /\ outcome' \in {"nil", "error"}
    /\ outcome' = "nil" => done' = items
    /\ UNCHANGED items

Next == Work \/ Return

Spec == Init /\ [][Next]_vars
=============================================================================
