--------------------------- MODULE GroupSchedule ---------------------------
(* What the client's worker barrier promises the code that transmits task  *)
(* nodes: there is one array at a time whose nodes may be transmitted, any *)
(* number of threads may work on it together, and the turn passes to a     *)
(* later array only when nobody is working.                                *)
EXTENDS Naturals

CONSTANTS Threads

VARIABLES
    turn,   \* the array whose nodes may be transmitted, 0 before the first
    work    \* the array each thread is transmitting a node of, 0 for none

vars == <<turn, work>>

Init ==
    /\ turn = 0
    /\ work = [t \in Threads |-> 0]

Begin(t) ==
    /\ work[t] = 0
    /\ work' = [work EXCEPT ![t] = turn]
    /\ UNCHANGED turn

End(t) ==
    /\ work' = [work EXCEPT ![t] = 0]
    /\ UNCHANGED turn

Pass ==
    /\ \A t \in Threads : work[t] = 0
    /\ turn' \in Nat
    /\ turn' > turn
    /\ UNCHANGED work

Next == Pass \/ \E t \in Threads : Begin(t) \/ End(t)

Spec == Init /\ [][Next]_vars
=============================================================================
