----------------------------- MODULE MCSqsBatch -----------------------------
(* SqsBatch with limits of two messages and four bytes per request: three   *)
(* bodies of one byte exceed the count alone, one and three bytes the size  *)
(* alone, four bytes fill a page and five are oversized.                    *)
EXTENDS SqsBatch

MCMessageSizes == {1, 3, 4, 5}
=============================================================================
