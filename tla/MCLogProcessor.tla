--------------------------- MODULE MCLogProcessor ---------------------------
(* Four parsers, two of which accept no line: lines of either of the two   *)
(* others, of both and of none.  Events of two sizes.                      *)
EXTENDS LogProcessor

CONSTANTS p1, p2, p3, p4
MCOrders == {<<p1, p2, p3, p4>>, <<p4, p3, p2, p1>>}
MCLines == {{p1}, {p2}, {p1, p2}, {}}
MCEventBytes == {1, 2}
=============================================================================
