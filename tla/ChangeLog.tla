------------------------------- MODULE ChangeLog -------------------------------
(***************************************************************************)
(* What the anchor files promise the devices of one user.  Actions are      *)
(* recorded only by a device that carried them out or learned of them;      *)
(* nothing recorded is taken back.  A device moves its anchor only when it  *)
(* knows all that is recorded, and only forward, to something recorded; or  *)
(* it gives the anchor up and compares everything.  When a file is damaged  *)
(* the anchors stand for nothing any more, and of what the devices know no  *)
(* more is promised than that it was carried out.                           *)
(***************************************************************************)
CONSTANTS Devices, Acts

VARIABLES
    done,   \* the actions carried out
    log,    \* those ever recorded
    knows,  \* those a device carried out or was told of
    seen,   \* what a device's anchor stands for
    lost    \* a file was lost, half cut or half written

vars == <<done, log, knows, seen, lost>>

Init ==
    /\ done = {} /\ log = {} /\ lost = FALSE
    /\ knows = [d \in Devices |-> {}]
    /\ seen = [d \in Devices |-> {}]

Act(d) ==
    /\ \E a \in Acts \ done :
         done' = done \cup {a} /\ knows' = [knows EXCEPT ![d] = @ \cup {a}]
    /\ UNCHANGED <<log, seen, lost>>

Records(d) == log \subseteq log' /\ log' \ log \subseteq knows[d]

\* A list is recorded, whole or in part, and nobody is told.
Record(d) ==
    /\ Records(d)
    /\ UNCHANGED <<done, knows, seen, lost>>

\* The device learns what it lacks, and may be told a new anchor.
Meet(d) ==
    /\ Records(d)
    /\ knows[d] \subseteq knows'[d] /\ knows'[d] \subseteq done
    /\ ~lost => /\ log' \subseteq knows'[d]
                /\ seen[d] \subseteq seen'[d] /\ seen'[d] \subseteq log'
    /\ knows' = [knows EXCEPT ![d] = knows'[d]]
    /\ seen' = [seen EXCEPT ![d] = IF lost THEN @ ELSE seen'[d]]
    /\ UNCHANGED <<done, lost>>

Forget(d) ==
    /\ seen' = [seen EXCEPT ![d] = {}]
    /\ UNCHANGED <<done, log, knows, lost>>

Lose ==
    /\ lost' = TRUE
    /\ seen' = [d \in Devices |-> {}]
    /\ UNCHANGED <<done, log, knows>>

Next ==
    \/ \E d \in Devices : Act(d) \/ Record(d) \/ Meet(d) \/ Forget(d)
    \/ Lose

Spec == Init /\ [][Next]_vars
=============================================================================
