---------------------------- MODULE MCAlertDedup ----------------------------
(* Two invocations, two batches, one dedup key and two log types: both      *)
(* batches touch the same row, one of them twice and with more events than  *)
(* the buffer holds.                                                        *)
EXTENDS AlertDedup, TLC

CONSTANTS w1, w2, m1, m2, k1, t1, t2

MCMatches ==
    [m \in Messages |-> [g \in Groups |->
        CASE g.logType = t1 -> IF m = m1 THEN 2 ELSE 1
          [] OTHER -> IF m = m1 THEN 1 ELSE 0]]

WorkerSymmetry == Permutations(Workers)
=============================================================================
