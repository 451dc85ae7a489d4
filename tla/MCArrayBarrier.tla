--------------------------- MODULE MCArrayBarrier ---------------------------
(* The barrier on a small instance: three threads share three task nodes,  *)
(* two of one array and one of the next.                                   *)
EXTENDS ArrayBarrier

CONSTANTS t1, t2, t3

MCThreads == {t1, t2, t3}
MCSlotCount == 3
MCNodeCount == 3
MCArrayOf == <<1, 1, 2>>
MCPending == {1, 2, 3}
=============================================================================
