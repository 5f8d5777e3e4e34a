--------------------------- MODULE MCAlertPipeline ---------------------------
(* Two batches of one match each for the same key, received up to twice by  *)
(* one invocation of the rules engine at a time, and a forwarder whose      *)
(* invocations take up to two records and can fail once.  A redelivered     *)
(* batch writes the row again, so the stream has up to four records; the    *)
(* clock allows two alerts.                                                 *)
EXTENDS AlertPipeline

CONSTANTS w1, m1, m2, k1, t1

MCMatches == [m \in Messages |-> [g \in Groups |-> 1]]
=============================================================================
