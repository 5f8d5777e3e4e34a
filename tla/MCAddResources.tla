--------------------------- MODULE MCAddResources ---------------------------
(* Pages of two items.  SQS requests of two messages and four bytes: three *)
(* bodies of one byte exceed the count alone, one and three bytes the size *)
(* alone, four bytes fill a page and five are oversized.                   *)
EXTENDS AddResources

MCMessageSizes == {1, 3, 4, 5}
=============================================================================
