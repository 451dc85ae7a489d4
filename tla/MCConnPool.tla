------------------------------ MODULE MCConnPool ------------------------------
(* Constants for the runs of ConnPool.  A descriptor for each slot: one is   *)
(* free while the pool is full when a stale event has closed it.             *)
EXTENDS ConnPool

MCSlotCount == 3
MCFdCount == 3
FewSlots == 2
FewFds == 3
===============================================================================
