-------------------------------- MODULE Tenure --------------------------------
(***************************************************************************)
(* What the sync server and the authentication cache promise about one      *)
(* user, as long as nothing takes the account from a device that has it:    *)
(* one device at a time is let in; only it adds changes, and they become    *)
(* recorded in one step with a new anchor, the step that ends its stay; and *)
(* whoever hears of the end of a stay hears of the last anchor.  A stay may *)
(* also end without anybody hearing of it: then the account stays locked.   *)
(***************************************************************************)
EXTENDS Naturals

CONSTANTS Devices

VARIABLES
    locked,   \* the account is taken, or nobody was told that it is free
    inside,   \* the device that was let in, as a set: {} or {d}
    waiting,  \* its changes, to be recorded
    written,  \* the changes recorded
    anchor,   \* the last anchor
    cached    \* the anchor that is announced, 0 for none

vars == <<locked, inside, waiting, written, anchor, cached>>

Init ==
    /\ locked = FALSE /\ inside = {}
    /\ waiting = 0 /\ written = 0 /\ anchor = 0 /\ cached = 0

Enter(d) ==
    /\ ~locked
    /\ locked' = TRUE /\ inside' = {d}
    /\ UNCHANGED <<waiting, written, anchor, cached>>

\* A device was let in and does not know it.
Miss ==
    /\ ~locked
    /\ locked' = TRUE
    /\ UNCHANGED <<inside, waiting, written, anchor, cached>>

Act(d) ==
    /\ inside = {d}
    /\ waiting' = waiting + 1
    /\ UNCHANGED <<locked, inside, written, anchor, cached>>

\* The account is free and the last anchor announced; or nobody heard of it.
Told == locked' = FALSE /\ cached' = anchor'
Untold == UNCHANGED <<locked, cached>>

Success(d) ==
    /\ inside = {d} /\ inside' = {}
    /\ written' = written + waiting /\ waiting' = 0
    /\ anchor' = anchor + 1
    /\ Told \/ Untold

\* A device that ends its stay without recording drops what it changed.
Finish(d) ==
    /\ inside = {d} /\ inside' = {}
    /\ waiting' = 0 /\ UNCHANGED <<written, anchor>>
    /\ Told \/ Untold

\* The changes could not be recorded, or the anchor not be made.
Fail(d) ==
    /\ inside = {d} /\ inside' = {}
    /\ \/ UNCHANGED <<written, anchor>>
       \/ written' = written + waiting /\ anchor' \in {anchor, anchor + 1}
    /\ UNCHANGED <<locked, waiting, cached>>

\* The process that keeps the changes dies.
Crash ==
    /\ inside' = {} /\ waiting' = 0
    /\ UNCHANGED <<locked, written, anchor, cached>>

Erase ==
    /\ ~locked
    /\ cached' = 0
    /\ UNCHANGED <<locked, inside, waiting, written, anchor>>

Next ==
    \/ \E d \in Devices : Enter(d) \/ Act(d) \/ Success(d) \/ Finish(d) \/ Fail(d)
    \/ Miss \/ Crash \/ Erase

Spec == Init /\ [][Next]_vars
=============================================================================
