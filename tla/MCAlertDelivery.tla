-------------------------- MODULE MCAlertDelivery --------------------------
(* The outputs are all defaults; MCOwn gives every alert outputs of its    *)
(* own, MCNone leaves it to the defaults.                                  *)
EXTENDS AlertDelivery, TLC

MCNone == [a \in Alerts |-> {}]
MCOwn == [a \in Alerts |-> Outputs]
=============================================================================
