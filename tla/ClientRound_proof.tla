-------------------------- MODULE ClientRound_proof --------------------------
(***************************************************************************)
(* Proofs about ClientRound, for any number of anchors and any number of    *)
(* times the server loses them: the types, what the recorded anchor stands  *)
(* for, how a round ends, and the statuses.                                 *)
(***************************************************************************)
EXTENDS ClientRound, TLAPS

(***************************************************************************)
(* What holds of handle_value while the thread is elsewhere, and what a     *)
(* round that went through its tasks leaves.                                *)
(***************************************************************************)
Outcome ==
    /\ pc \notin {"finish", "unlock", "settle"} => handle = "finish"
    /\ pc = "finish" /\ handle = "finish" => NoTasks
    /\ pc = "finish" /\ "have" \notin chan => NoTasks \/ partial
    /\ pc = "unlock" /\ final # "failed" => NoTasks \/ partial

(***************************************************************************)
(* In a session the server has the anchor the device was told, and what the *)
(* device does not have of it is among its tasks; a round that will record  *)
(* an anchor has all of it.                                                 *)
(***************************************************************************)
Pursued ==
    /\ InSession => sa = srv /\ anchor <= sa
    /\ InSession /\ ~partial /\ ~stale =>
         \A n \in 1..sa : n \in has \cup missed \cup down
    /\ pc = "unlock" /\ sa # 0 => anchor <= sa
    /\ pc = "unlock" /\ ~partial /\ ~stale /\ final \in {"success", "update"} =>
         \A n \in 1..sa : n \in has \cup missed

\* Caught, element by element.
Covered == anchor # 0 /\ ~stale => \A n \in 1..anchor : n \in has \cup missed

(***************************************************************************)
(* Between rounds neither status is RUNNING unless the last round was       *)
(* LOCKED; a worker that reported a stop had been asked; a thread that is   *)
(* in a round while it is to be paused has the user interface waiting.      *)
(***************************************************************************)
Steered ==
    /\ pc \in {"wait", "refuse", "check"} /\ (status = "running" \/ next = "running") =>
         locked
    /\ pc = "refuse" /\ seen = "running" => locked
    /\ handle \in {"paused", "stopped"} => next # "running"
    /\ pc \notin {"wait", "refuse"} /\ status = "running" /\ next = "paused" =>
         ui \in {"asked", "waits"}
    /\ status = "running" /\ handle = "paused" => ui \in {"asked", "waits"}

\* Every step keeps the types.
LEMMA TypeStep ==
    ASSUME TypeOK, Next \/ UNCHANGED vars
    PROVE  TypeOK'
<1> USE RoundAssumption
         DEF Anchors, Statuses, TypeOK, server, device, tasks, outcome, window
<1>1. CASE Other
  BY <1>1 DEF Other, InSession
<1>2. CASE Loss
  BY <1>2 DEF Loss, InSession
<1>3. CASE Refuse
  BY <1>3 DEF Refuse
<1>4. CASE Admit
  <2>1. srv' \in 0..MaxAnchor /\ losses' \in 0..MaxLosses
    BY <1>4 DEF Admit
  <2>2. has' \subseteq Anchors /\ missed' \subseteq Anchors /\ down' \subseteq Anchors
    BY <1>4 DEF Admit
  <2>3. anchor' \in 0..MaxAnchor /\ sa' \in 0..MaxAnchor
    BY <1>4 DEF Admit
  <2>4. own' \in BOOLEAN /\ upload' \in BOOLEAN /\ partial' \in BOOLEAN
    BY <1>4 DEF Admit
  <2>5. locked' \in BOOLEAN /\ stale' \in BOOLEAN
    BY <1>4 DEF Admit
  <2>6. chan' \subseteq {"have", "serv"}
    BY <1>4 DEF Admit
  <2>7. /\ handle' \in {"finish", "failed", "fault", "paused", "stopped"}
       /\ final' \in {"failed", "success", "update", "leave"}
       /\ pc' \in {"wait", "refuse", "check", "lock", "build", "verify", "handle",
                   "finish", "unlock", "settle", "pausing"}
       /\ next' \in Statuses /\ status' \in Statuses /\ old' \in Statuses
       /\ seen' \in Statuses
       /\ ui' \in {"idle", "asked", "waits", "dialog"}
    BY <1>4 DEF Admit
  <2> QED
    BY <2>1, <2>2, <2>3, <2>4, <2>5, <2>6, <2>7
<1>5. CASE NotNow
  BY <1>5 DEF NotNow
<1>6. CASE NoChange
  BY <1>6 DEF NoChange, Both
<1>7. CASE Start
  BY <1>7 DEF Start, Both
<1>8. CASE LockFails
  BY <1>8 DEF LockFails
<1>9. CASE Lock
  <2>1. srv' \in 0..MaxAnchor /\ losses' \in 0..MaxLosses
    BY <1>9 DEF Lock
  <2>2. has' \subseteq Anchors /\ missed' \subseteq Anchors /\ down' \subseteq Anchors
    BY <1>9 DEF Lock
  <2>3. anchor' \in 0..MaxAnchor /\ sa' \in 0..MaxAnchor
    BY <1>9 DEF Lock
  <2>4. own' \in BOOLEAN /\ upload' \in BOOLEAN /\ partial' \in BOOLEAN
    BY <1>9 DEF Lock
  <2>5. locked' \in BOOLEAN /\ stale' \in BOOLEAN
    BY <1>9 DEF Lock
  <2>6. chan' \subseteq {"have", "serv"}
    BY <1>9 DEF Lock
  <2>7. /\ handle' \in {"finish", "failed", "fault", "paused", "stopped"}
       /\ final' \in {"failed", "success", "update", "leave"}
       /\ pc' \in {"wait", "refuse", "check", "lock", "build", "verify", "handle",
                   "finish", "unlock", "settle", "pausing"}
       /\ next' \in Statuses /\ status' \in Statuses /\ old' \in Statuses
       /\ seen' \in Statuses
       /\ ui' \in {"idle", "asked", "waits", "dialog"}
    BY <1>9 DEF Lock
  <2> QED
    BY <2>1, <2>2, <2>3, <2>4, <2>5, <2>6, <2>7
<1>10. CASE ListFails
  BY <1>10 DEF ListFails, Both
<1>11. CASE BuildFast
  <2>1. srv' \in 0..MaxAnchor /\ losses' \in 0..MaxLosses
    BY <1>11 DEF BuildFast, Listed
  <2>2. has' \subseteq Anchors /\ missed' \subseteq Anchors /\ down' \subseteq Anchors
    BY <1>11 DEF BuildFast, Listed
  <2>3. anchor' \in 0..MaxAnchor /\ sa' \in 0..MaxAnchor
    BY <1>11 DEF BuildFast, Listed
  <2>4. own' \in BOOLEAN /\ upload' \in BOOLEAN /\ partial' \in BOOLEAN
    BY <1>11 DEF BuildFast, Listed
  <2>5. locked' \in BOOLEAN /\ stale' \in BOOLEAN
    BY <1>11 DEF BuildFast, Listed
  <2>6. chan' \subseteq {"have", "serv"}
    BY <1>11 DEF BuildFast, Listed
  <2>7. /\ handle' \in {"finish", "failed", "fault", "paused", "stopped"}
       /\ final' \in {"failed", "success", "update", "leave"}
       /\ pc' \in {"wait", "refuse", "check", "lock", "build", "verify", "handle",
                   "finish", "unlock", "settle", "pausing"}
       /\ next' \in Statuses /\ status' \in Statuses /\ old' \in Statuses
       /\ seen' \in Statuses
       /\ ui' \in {"idle", "asked", "waits", "dialog"}
    BY <1>11 DEF BuildFast, Listed
  <2> QED
    BY <2>1, <2>2, <2>3, <2>4, <2>5, <2>6, <2>7
<1>12. CASE BuildSlow
  <2>1. srv' \in 0..MaxAnchor /\ losses' \in 0..MaxLosses
    BY <1>12 DEF BuildSlow, Listed
  <2>2. has' \subseteq Anchors /\ missed' \subseteq Anchors /\ down' \subseteq Anchors
    BY <1>12 DEF BuildSlow, Listed
  <2>3. anchor' \in 0..MaxAnchor /\ sa' \in 0..MaxAnchor
    BY <1>12 DEF BuildSlow, Listed
  <2>4. own' \in BOOLEAN /\ upload' \in BOOLEAN /\ partial' \in BOOLEAN
    BY <1>12 DEF BuildSlow, Listed
  <2>5. locked' \in BOOLEAN /\ stale' \in BOOLEAN
    BY <1>12 DEF BuildSlow, Listed
  <2>6. chan' \subseteq {"have", "serv"}
    BY <1>12 DEF BuildSlow, Listed
  <2>7. /\ handle' \in {"finish", "failed", "fault", "paused", "stopped"}
       /\ final' \in {"failed", "success", "update", "leave"}
       /\ pc' \in {"wait", "refuse", "check", "lock", "build", "verify", "handle",
                   "finish", "unlock", "settle", "pausing"}
       /\ next' \in Statuses /\ status' \in Statuses /\ old' \in Statuses
       /\ seen' \in Statuses
       /\ ui' \in {"idle", "asked", "waits", "dialog"}
    BY <1>12 DEF BuildSlow, Listed
  <2> QED
    BY <2>1, <2>2, <2>3, <2>4, <2>5, <2>6, <2>7
<1>13. CASE Verify
  <2>1. srv' \in 0..MaxAnchor /\ losses' \in 0..MaxLosses
    BY <1>13 DEF Verify, Asked, NoTasks
  <2>2. has' \subseteq Anchors /\ missed' \subseteq Anchors /\ down' \subseteq Anchors
    BY <1>13 DEF Verify, Asked, NoTasks
  <2>3. anchor' \in 0..MaxAnchor /\ sa' \in 0..MaxAnchor
    BY <1>13 DEF Verify, Asked, NoTasks
  <2>4. own' \in BOOLEAN /\ upload' \in BOOLEAN /\ partial' \in BOOLEAN
    BY <1>13 DEF Verify, Asked, NoTasks
  <2>5. locked' \in BOOLEAN /\ stale' \in BOOLEAN
    BY <1>13 DEF Verify, Asked, NoTasks
  <2>6. chan' \subseteq {"have", "serv"}
    BY <1>13 DEF Verify, Asked, NoTasks
  <2>7. /\ handle' \in {"finish", "failed", "fault", "paused", "stopped"}
       /\ final' \in {"failed", "success", "update", "leave"}
       /\ pc' \in {"wait", "refuse", "check", "lock", "build", "verify", "handle",
                   "finish", "unlock", "settle", "pausing"}
       /\ next' \in Statuses /\ status' \in Statuses /\ old' \in Statuses
       /\ seen' \in Statuses
       /\ ui' \in {"idle", "asked", "waits", "dialog"}
    BY <1>13 DEF Verify, Asked, NoTasks
  <2> QED
    BY <2>1, <2>2, <2>3, <2>4, <2>5, <2>6, <2>7
<1>14. CASE Handle
  <2>1. srv' \in 0..MaxAnchor /\ losses' \in 0..MaxLosses
    BY <1>14 DEF Handle, Asked, NoTasks
  <2>2. has' \subseteq Anchors /\ missed' \subseteq Anchors /\ down' \subseteq Anchors
    BY <1>14 DEF Handle, Asked, NoTasks
  <2>3. anchor' \in 0..MaxAnchor /\ sa' \in 0..MaxAnchor
    BY <1>14 DEF Handle, Asked, NoTasks
  <2>4. own' \in BOOLEAN /\ upload' \in BOOLEAN /\ partial' \in BOOLEAN
    BY <1>14 DEF Handle, Asked, NoTasks
  <2>5. locked' \in BOOLEAN /\ stale' \in BOOLEAN
    BY <1>14 DEF Handle, Asked, NoTasks
  <2>6. chan' \subseteq {"have", "serv"}
    BY <1>14 DEF Handle, Asked, NoTasks
  <2>7. /\ handle' \in {"finish", "failed", "fault", "paused", "stopped"}
       /\ final' \in {"failed", "success", "update", "leave"}
       /\ pc' \in {"wait", "refuse", "check", "lock", "build", "verify", "handle",
                   "finish", "unlock", "settle", "pausing"}
       /\ next' \in Statuses /\ status' \in Statuses /\ old' \in Statuses
       /\ seen' \in Statuses
       /\ ui' \in {"idle", "asked", "waits", "dialog"}
    BY <1>14 DEF Handle, Asked, NoTasks
  <2> QED
    BY <2>1, <2>2, <2>3, <2>4, <2>5, <2>6, <2>7
<1>15. CASE HandleBreaks
  <2>1. srv' \in 0..MaxAnchor /\ losses' \in 0..MaxLosses
    BY <1>15 DEF HandleBreaks, Both
  <2>2. has' \subseteq Anchors /\ missed' \subseteq Anchors /\ down' \subseteq Anchors
    BY <1>15 DEF HandleBreaks, Both
  <2>3. anchor' \in 0..MaxAnchor /\ sa' \in 0..MaxAnchor
    BY <1>15 DEF HandleBreaks, Both
  <2>4. own' \in BOOLEAN /\ upload' \in BOOLEAN /\ partial' \in BOOLEAN
    BY <1>15 DEF HandleBreaks, Both
  <2>5. locked' \in BOOLEAN /\ stale' \in BOOLEAN
    BY <1>15 DEF HandleBreaks, Both
  <2>6. chan' \subseteq {"have", "serv"}
    BY <1>15 DEF HandleBreaks, Both
  <2>7. /\ handle' \in {"finish", "failed", "fault", "paused", "stopped"}
       /\ final' \in {"failed", "success", "update", "leave"}
       /\ pc' \in {"wait", "refuse", "check", "lock", "build", "verify", "handle",
                   "finish", "unlock", "settle", "pausing"}
       /\ next' \in Statuses /\ status' \in Statuses /\ old' \in Statuses
       /\ seen' \in Statuses
       /\ ui' \in {"idle", "asked", "waits", "dialog"}
    BY <1>15 DEF HandleBreaks, Both
  <2> QED
    BY <2>1, <2>2, <2>3, <2>4, <2>5, <2>6, <2>7
<1>16. CASE Finish
  <2>1. srv' \in 0..MaxAnchor /\ losses' \in 0..MaxLosses
    BY <1>16 DEF Finish, Choice
  <2>2. has' \subseteq Anchors /\ missed' \subseteq Anchors /\ down' \subseteq Anchors
    <3>1. missed' = missed /\ down' = down
      BY <1>16 DEF Finish
    <3>2. has' = has \/ (srv < MaxAnchor /\ has' = has \cup {srv + 1})
      BY <1>16 DEF Finish
    <3>3. srv < MaxAnchor => srv + 1 \in Anchors
      BY DEF TypeOK
    <3>4. QED
      BY <3>1, <3>2, <3>3
  <2>3. anchor' \in 0..MaxAnchor /\ sa' \in 0..MaxAnchor
    BY <1>16 DEF Finish, Choice
  <2>4. own' \in BOOLEAN /\ upload' \in BOOLEAN /\ partial' \in BOOLEAN
    BY <1>16 DEF Finish, Choice
  <2>5. locked' \in BOOLEAN /\ stale' \in BOOLEAN
    BY <1>16 DEF Finish, Choice
  <2>6. chan' \subseteq {"have", "serv"}
    BY <1>16 DEF Finish, Choice
  <2>7. /\ handle' \in {"finish", "failed", "fault", "paused", "stopped"}
       /\ final' \in {"failed", "success", "update", "leave"}
       /\ pc' \in {"wait", "refuse", "check", "lock", "build", "verify", "handle",
                   "finish", "unlock", "settle", "pausing"}
       /\ next' \in Statuses /\ status' \in Statuses /\ old' \in Statuses
       /\ seen' \in Statuses
       /\ ui' \in {"idle", "asked", "waits", "dialog"}
    BY <1>16 DEF Finish, Choice
  <2> QED
    BY <2>1, <2>2, <2>3, <2>4, <2>5, <2>6, <2>7
<1>17. CASE Unlock
  <2>1. srv' \in 0..MaxAnchor /\ losses' \in 0..MaxLosses
    BY <1>17 DEF Unlock
  <2>2. has' \subseteq Anchors /\ missed' \subseteq Anchors /\ down' \subseteq Anchors
    BY <1>17 DEF Unlock
  <2>3. anchor' \in 0..MaxAnchor /\ sa' \in 0..MaxAnchor
    BY <1>17 DEF Unlock
  <2>4. own' \in BOOLEAN /\ upload' \in BOOLEAN /\ partial' \in BOOLEAN
    BY <1>17 DEF Unlock
  <2>5. locked' \in BOOLEAN /\ stale' \in BOOLEAN
    BY <1>17 DEF Unlock
  <2>6. chan' \subseteq {"have", "serv"}
    BY <1>17 DEF Unlock
  <2>7. /\ handle' \in {"finish", "failed", "fault", "paused", "stopped"}
       /\ final' \in {"failed", "success", "update", "leave"}
       /\ pc' \in {"wait", "refuse", "check", "lock", "build", "verify", "handle",
                   "finish", "unlock", "settle", "pausing"}
       /\ next' \in Statuses /\ status' \in Statuses /\ old' \in Statuses
       /\ seen' \in Statuses
       /\ ui' \in {"idle", "asked", "waits", "dialog"}
    BY <1>17 DEF Unlock
  <2> QED
    BY <2>1, <2>2, <2>3, <2>4, <2>5, <2>6, <2>7
<1>18. CASE Settle
  BY <1>18 DEF Settle, Both
<1>19. CASE Pause
  BY <1>19 DEF Pause
<1>20. CASE Resume
  BY <1>20 DEF Resume, Both
<1>21. CASE Dialog
  BY <1>21 DEF Dialog
<1>22. CASE Paused
  BY <1>22 DEF Paused
<1>23. CASE Waited
  BY <1>23 DEF Waited
<1>24. CASE DialogEnds
  BY <1>24 DEF DialogEnds, Both
<1>25. CASE Refused
  BY <1>25 DEF Refused
<1>26. CASE UNCHANGED vars
  BY <1>26 DEF vars
<1>27. QED
  BY <1>1, <1>2, <1>3, <1>4, <1>5, <1>6, <1>7, <1>8, <1>9, <1>10, <1>11, <1>12,
     <1>13, <1>14, <1>15, <1>16, <1>17, <1>18, <1>19, <1>20, <1>21, <1>22,
     <1>23, <1>24, <1>25, <1>26
   DEF Next, Thread, Lists, Work, Window

\* A round that ends as finished has no task left.
LEMMA OutcomeStep ==
    ASSUME TypeOK, Outcome, Next \/ UNCHANGED vars
    PROVE  Outcome'
<1> USE RoundAssumption
         DEF Anchors, Statuses, TypeOK, Outcome, NoTasks, server, device, tasks, outcome,
             window
<1>1. CASE Other
  BY <1>1 DEF Other, InSession
<1>2. CASE Loss
  BY <1>2 DEF Loss, InSession
<1>3. CASE Refuse
  BY <1>3 DEF Refuse
<1>4. CASE Admit
  BY <1>4 DEF Admit
<1>5. CASE NotNow
  BY <1>5 DEF NotNow
<1>6. CASE NoChange
  BY <1>6 DEF NoChange, Both
<1>7. CASE Start
  BY <1>7 DEF Start, Both
<1>8. CASE LockFails
  BY <1>8 DEF LockFails
<1>9. CASE Lock
  BY <1>9 DEF Lock
<1>10. CASE ListFails
  BY <1>10 DEF ListFails, Both
<1>11. CASE BuildFast
  BY <1>11 DEF BuildFast, Listed
<1>12. CASE BuildSlow
  BY <1>12 DEF BuildSlow, Listed
<1>13. CASE Verify
  BY <1>13 DEF Verify, Asked
<1>14. CASE Handle
  <2>1. PICK undone \in SUBSET down, left \in {FALSE, upload} :
              /\ down' = undone /\ upload' = left
              /\ handle' \in IF undone = {} /\ ~left THEN {"finish"}
                             ELSE {"failed", "fault"} \cup Asked
    BY <1>14 DEF Handle
  <2>2. pc' = "finish"
    BY <1>14 DEF Handle
  <2>3. handle' = "finish" => NoTasks'
    BY <2>1 DEF Asked
  <2>4. NoTasks => NoTasks'
    BY <2>1
  <2>5. "have" \notin chan' => NoTasks
    BY <1>14 DEF Handle
  <2>6. QED
    BY <2>2, <2>3, <2>4, <2>5
<1>15. CASE HandleBreaks
  BY <1>15 DEF HandleBreaks, Both
<1>16. CASE Finish
  BY <1>16 DEF Finish, Choice
<1>17. CASE Unlock
  BY <1>17 DEF Unlock
<1>18. CASE Settle
  BY <1>18 DEF Settle, Both
<1>19. CASE Pause
  BY <1>19 DEF Pause
<1>20. CASE Resume
  BY <1>20 DEF Resume, Both
<1>21. CASE Dialog
  BY <1>21 DEF Dialog
<1>22. CASE Paused
  BY <1>22 DEF Paused
<1>23. CASE Waited
  BY <1>23 DEF Waited
<1>24. CASE DialogEnds
  BY <1>24 DEF DialogEnds, Both
<1>25. CASE Refused
  BY <1>25 DEF Refused
<1>26. CASE UNCHANGED vars
  BY <1>26 DEF vars
<1>27. QED
  BY <1>1, <1>2, <1>3, <1>4, <1>5, <1>6, <1>7, <1>8, <1>9, <1>10, <1>11, <1>12,
     <1>13, <1>14, <1>15, <1>16, <1>17, <1>18, <1>19, <1>20, <1>21, <1>22,
     <1>23, <1>24, <1>25, <1>26
   DEF Next, Thread, Lists, Work, Window

\* The statuses.
LEMMA SteeredStep ==
    ASSUME TypeOK, Outcome, Steered, Next \/ UNCHANGED vars
    PROVE  Steered'
<1> USE RoundAssumption
         DEF Anchors, Statuses, TypeOK, Steered, Outcome, server, device, tasks, outcome,
             window
<1>1. CASE Other
  BY <1>1 DEF Other, InSession
<1>2. CASE Loss
  BY <1>2 DEF Loss, InSession
<1>3. CASE Refuse
  BY <1>3 DEF Refuse
<1>4. CASE Admit
  BY <1>4 DEF Admit
<1>5. CASE NotNow
  BY <1>5 DEF NotNow
<1>6. CASE NoChange
  BY <1>6 DEF NoChange, Both
<1>7. CASE Start
  BY <1>7 DEF Start, Both
<1>8. CASE LockFails
  BY <1>8 DEF LockFails
<1>9. CASE Lock
  BY <1>9 DEF Lock
<1>10. CASE ListFails
  BY <1>10 DEF ListFails, Both
<1>11. CASE BuildFast
  BY <1>11 DEF BuildFast, Listed
<1>12. CASE BuildSlow
  BY <1>12 DEF BuildSlow, Listed
<1>13. CASE Verify
  BY <1>13 DEF Verify, Asked, NoTasks
<1>14. CASE Handle
  BY <1>14 DEF Handle, Asked, NoTasks
<1>15. CASE HandleBreaks
  BY <1>15 DEF HandleBreaks, Both
<1>16. CASE Finish
  BY <1>16 DEF Finish, Choice
<1>17. CASE Unlock
  BY <1>17 DEF Unlock
<1>18. CASE Settle
  BY <1>18 DEF Settle, Both
<1>19. CASE Pause
  BY <1>19 DEF Pause
<1>20. CASE Resume
  BY <1>20 DEF Resume, Both
<1>21. CASE Dialog
  BY <1>21 DEF Dialog
<1>22. CASE Paused
  BY <1>22 DEF Paused
<1>23. CASE Waited
  BY <1>23 DEF Waited
<1>24. CASE DialogEnds
  BY <1>24 DEF DialogEnds, Both
<1>25. CASE Refused
  BY <1>25 DEF Refused
<1>26. CASE UNCHANGED vars
  BY <1>26 DEF vars
<1>27. QED
  BY <1>1, <1>2, <1>3, <1>4, <1>5, <1>6, <1>7, <1>8, <1>9, <1>10, <1>11, <1>12,
     <1>13, <1>14, <1>15, <1>16, <1>17, <1>18, <1>19, <1>20, <1>21, <1>22,
     <1>23, <1>24, <1>25, <1>26
   DEF Next, Thread, Lists, Work, Window

\* A thread that waits to be paused goes on waiting.
LEMMA DeadlockStep ==
    ASSUME TypeOK, Steered, PauseDeadlock, Next \/ UNCHANGED vars
    PROVE  PauseDeadlock'
<1> USE RoundAssumption
         DEF Anchors, Statuses, TypeOK, Steered, PauseDeadlock, server, device, tasks,
             outcome, window
<1>1. CASE Other
  BY <1>1 DEF Other, InSession
<1>2. CASE Loss
  BY <1>2 DEF Loss, InSession
<1>3. CASE Refuse
  BY <1>3 DEF Refuse
<1>4. CASE Admit
  BY <1>4 DEF Admit
<1>5. CASE NotNow
  BY <1>5 DEF NotNow
<1>6. CASE NoChange
  BY <1>6 DEF NoChange, Both
<1>7. CASE Start
  BY <1>7 DEF Start, Both
<1>8. CASE LockFails
  BY <1>8 DEF LockFails
<1>9. CASE Lock
  BY <1>9 DEF Lock
<1>10. CASE ListFails
  BY <1>10 DEF ListFails, Both
<1>11. CASE BuildFast
  BY <1>11 DEF BuildFast, Listed
<1>12. CASE BuildSlow
  BY <1>12 DEF BuildSlow, Listed
<1>13. CASE Verify
  BY <1>13 DEF Verify, Asked, NoTasks
<1>14. CASE Handle
  BY <1>14 DEF Handle, Asked, NoTasks
<1>15. CASE HandleBreaks
  BY <1>15 DEF HandleBreaks, Both
<1>16. CASE Finish
  BY <1>16 DEF Finish, Choice
<1>17. CASE Unlock
  BY <1>17 DEF Unlock
<1>18. CASE Settle
  BY <1>18 DEF Settle, Both
<1>19. CASE Pause
  BY <1>19 DEF Pause
<1>20. CASE Resume
  BY <1>20 DEF Resume, Both
<1>21. CASE Dialog
  BY <1>21 DEF Dialog
<1>22. CASE Paused
  BY <1>22 DEF Paused
<1>23. CASE Waited
  BY <1>23 DEF Waited
<1>24. CASE DialogEnds
  BY <1>24 DEF DialogEnds, Both
<1>25. CASE Refused
  BY <1>25 DEF Refused
<1>26. CASE UNCHANGED vars
  BY <1>26 DEF vars
<1>27. QED
  BY <1>1, <1>2, <1>3, <1>4, <1>5, <1>6, <1>7, <1>8, <1>9, <1>10, <1>11, <1>12,
     <1>13, <1>14, <1>15, <1>16, <1>17, <1>18, <1>19, <1>20, <1>21, <1>22,
     <1>23, <1>24, <1>25, <1>26
   DEF Next, Thread, Lists, Work, Window

\* The list of a round and what is done of it.
LEMMA PursuedStep ==
    ASSUME TypeOK, Outcome, Covered, Pursued, Next \/ UNCHANGED vars
    PROVE  Pursued'
<1> USE RoundAssumption
         DEF Anchors, Statuses, TypeOK, Outcome, Pursued, Covered, InSession,
             NoTasks, server, device, tasks, outcome, window
<1>1. CASE Other
  BY <1>1 DEF Other
<1>2. CASE Loss
  BY <1>2 DEF Loss
<1>3. CASE Refuse
  BY <1>3 DEF Refuse
<1>4. CASE Admit
  BY <1>4 DEF Admit
<1>5. CASE NotNow
  BY <1>5 DEF NotNow
<1>6. CASE NoChange
  BY <1>6 DEF NoChange, Both
<1>7. CASE Start
  BY <1>7 DEF Start, Both
<1>8. CASE LockFails
  BY <1>8 DEF LockFails
<1>9. CASE Lock
  BY <1>9 DEF Lock
<1>10. CASE ListFails
  BY <1>10 DEF ListFails, Both
<1>11. CASE BuildFast
  <2>1. pc' = "verify" /\ sa' = srv /\ srv' = srv /\ has' = has /\ missed' = missed
    BY <1>11 DEF BuildFast
  <2>2. anchor # 0 /\ srv >= anchor /\ anchor' = anchor /\ stale' = stale
    BY <1>11 DEF BuildFast
  <2>3. ~partial' => down' = ((anchor + 1)..srv) \ has
    BY <1>11 DEF BuildFast, Listed
  <2>4. ASSUME ~partial', ~stale', NEW n \in 1..sa'
        PROVE  n \in has' \cup missed' \cup down'
    <3>1. CASE n \in (anchor + 1)..srv
      BY <2>1, <2>3, <2>4, <3>1
    <3>2. CASE n \notin (anchor + 1)..srv
      BY <2>1, <2>2, <2>4, <3>2
    <3>3. QED
      BY <3>1, <3>2
  <2>5. QED
    BY <2>1, <2>2, <2>4
<1>12. CASE BuildSlow
  <2>1. pc' = "verify" /\ sa' = srv /\ srv' = srv /\ has' = has /\ missed' = missed
    BY <1>12 DEF BuildSlow
  <2>2. anchor' = 0 /\ srv \in Nat
    BY <1>12 DEF BuildSlow
  <2>3. ~partial' => down' = ((1)..srv) \ has
    BY <1>12 DEF BuildSlow, Listed
  <2>4. ASSUME ~partial', ~stale', NEW n \in 1..sa'
        PROVE  n \in has' \cup missed' \cup down'
    <3>1. CASE n \in (1)..srv
      BY <2>1, <2>3, <2>4, <3>1
    <3>2. CASE n \notin (1)..srv
      BY <2>1, <2>2, <2>4, <3>2
    <3>3. QED
      BY <3>1, <3>2
  <2>5. QED
    BY <2>1, <2>2, <2>4
<1>13. CASE Verify
  BY <1>13 DEF Verify, Asked
<1>14. CASE Handle
  BY <1>14 DEF Handle, Asked
<1>15. CASE HandleBreaks
  BY <1>15 DEF HandleBreaks, Both
<1>16. CASE Finish
  BY <1>16 DEF Finish, Choice
<1>17. CASE Unlock
  BY <1>17 DEF Unlock
<1>18. CASE Settle
  BY <1>18 DEF Settle, Both
<1>19. CASE Pause
  BY <1>19 DEF Pause
<1>20. CASE Resume
  BY <1>20 DEF Resume, Both
<1>21. CASE Dialog
  BY <1>21 DEF Dialog
<1>22. CASE Paused
  BY <1>22 DEF Paused
<1>23. CASE Waited
  BY <1>23 DEF Waited
<1>24. CASE DialogEnds
  BY <1>24 DEF DialogEnds, Both
<1>25. CASE Refused
  BY <1>25 DEF Refused
<1>26. CASE UNCHANGED vars
  BY <1>26 DEF vars
<1>27. QED
  BY <1>1, <1>2, <1>3, <1>4, <1>5, <1>6, <1>7, <1>8, <1>9, <1>10, <1>11, <1>12,
     <1>13, <1>14, <1>15, <1>16, <1>17, <1>18, <1>19, <1>20, <1>21, <1>22,
     <1>23, <1>24, <1>25, <1>26
   DEF Next, Thread, Lists, Work, Window

\* The anchor.
LEMMA CoveredStep ==
    ASSUME TypeOK, Pursued, Covered, Next \/ UNCHANGED vars
    PROVE  Covered'
<1> USE RoundAssumption
         DEF Anchors, Statuses, TypeOK, Pursued, Covered, server, device, tasks, outcome,
             window
<1>1. CASE Other
  BY <1>1 DEF Other, InSession
<1>2. CASE Loss
  BY <1>2 DEF Loss, InSession
<1>3. CASE Refuse
  BY <1>3 DEF Refuse
<1>4. CASE Admit
  BY <1>4 DEF Admit
<1>5. CASE NotNow
  BY <1>5 DEF NotNow
<1>6. CASE NoChange
  BY <1>6 DEF NoChange, Both
<1>7. CASE Start
  BY <1>7 DEF Start, Both
<1>8. CASE LockFails
  BY <1>8 DEF LockFails
<1>9. CASE Lock
  BY <1>9 DEF Lock
<1>10. CASE ListFails
  BY <1>10 DEF ListFails, Both
<1>11. CASE BuildFast
  BY <1>11 DEF BuildFast, Listed
<1>12. CASE BuildSlow
  BY <1>12 DEF BuildSlow, Listed
<1>13. CASE Verify
  BY <1>13 DEF Verify, Asked, NoTasks
<1>14. CASE Handle
  BY <1>14 DEF Handle, Asked, NoTasks
<1>15. CASE HandleBreaks
  BY <1>15 DEF HandleBreaks, Both
<1>16. CASE Finish
  BY <1>16 DEF Finish, Choice
<1>17. CASE Unlock
  BY <1>17 DEF Unlock
<1>18. CASE Settle
  BY <1>18 DEF Settle, Both
<1>19. CASE Pause
  BY <1>19 DEF Pause
<1>20. CASE Resume
  BY <1>20 DEF Resume, Both
<1>21. CASE Dialog
  BY <1>21 DEF Dialog
<1>22. CASE Paused
  BY <1>22 DEF Paused
<1>23. CASE Waited
  BY <1>23 DEF Waited
<1>24. CASE DialogEnds
  BY <1>24 DEF DialogEnds, Both
<1>25. CASE Refused
  BY <1>25 DEF Refused
<1>26. CASE UNCHANGED vars
  BY <1>26 DEF vars
<1>27. QED
  BY <1>1, <1>2, <1>3, <1>4, <1>5, <1>6, <1>7, <1>8, <1>9, <1>10, <1>11, <1>12,
     <1>13, <1>14, <1>15, <1>16, <1>17, <1>18, <1>19, <1>20, <1>21, <1>22,
     <1>23, <1>24, <1>25, <1>26
   DEF Next, Thread, Lists, Work, Window

(***************************************************************************)
(* The inductive invariant.                                                 *)
(***************************************************************************)
IInv ==
    TypeOK /\ Outcome /\ Pursued /\ Covered /\ Steered /\ PauseDeadlock

LEMMA Start0 == Init => IInv
<1> SUFFICES ASSUME Init PROVE IInv
  OBVIOUS
<1>1. TypeOK
  <2>1. srv \in 0..MaxAnchor /\ losses \in 0..MaxLosses
    BY RoundAssumption DEF Init
  <2>2. /\ has \subseteq Anchors /\ missed \subseteq Anchors /\ down \subseteq Anchors
        /\ anchor \in 0..MaxAnchor /\ sa \in 0..MaxAnchor
        /\ chan \subseteq {"have", "serv"}
    BY RoundAssumption DEF Init
  <2>3. /\ own \in BOOLEAN /\ upload \in BOOLEAN /\ partial \in BOOLEAN
        /\ locked \in BOOLEAN /\ stale \in BOOLEAN
    BY DEF Init
  <2>4. QED
    BY <2>1, <2>2, <2>3 DEF Init, TypeOK, Statuses
<1>2. Outcome
  BY DEF Init, Outcome, NoTasks
<1>3. Pursued /\ Covered
  BY DEF Init, Pursued, InSession, Covered
<1>4. Steered /\ PauseDeadlock
  BY DEF Init, Steered, PauseDeadlock
<1>5. QED
  BY <1>1, <1>2, <1>3, <1>4 DEF IInv

LEMMA Step0 == IInv /\ [Next]_vars => IInv'
BY TypeStep, OutcomeStep, PursuedStep, CoveredStep, SteeredStep, DeadlockStep
   DEF IInv

LEMMA Invariance == Spec => []IInv
<1>1. Init => IInv
  BY Start0
<1>2. IInv /\ [Next]_vars => IInv'
  BY Step0
<1>3. QED
  BY <1>1, <1>2, PTL DEF Spec

(***************************************************************************)
(* Every reachable state is well typed, for any bounds.                     *)
(***************************************************************************)
THEOREM TypeCorrect == Spec => []TypeOK
<1>1. IInv => TypeOK
  BY DEF IInv
<1>2. QED
  BY <1>1, Invariance, PTL

(***************************************************************************)
(* ExecuteUtility.cpp:198-266 and LockAnchor.cpp:89-110: the anchor that is *)
(* recorded stands for what the device has, however the lists broke and the *)
(* workers ended, as long as the server keeps its anchors.                  *)
(***************************************************************************)
THEOREM CaughtCorrect == Spec => []Caught
<1>1. IInv => Caught
  BY DEF IInv, Covered, Caught
<1>2. QED
  BY <1>1, Invariance, PTL

(***************************************************************************)
(* LocalBzl.cpp:281-297 and TRANSThread.cpp:186-213: the statuses fit the   *)
(* thread between rounds, and (TRANSThread.cpp:191) a thread that waits to  *)
(* be paused is waited for.                                                 *)
(***************************************************************************)
THEOREM StatusCorrect == Spec => []StatusFits
<1>1. IInv => StatusFits
  BY DEF IInv, Steered, StatusSettled, StatusFits
<1>2. QED
  BY <1>1, Invariance, PTL

(***************************************************************************)
(* BuildTasksBzl.cpp:324-359: a server that has lost its anchors never      *)
(* makes the device take an earlier one for its own.                        *)
(***************************************************************************)
THEOREM ForwardCorrect == Spec => AnchorForward
<1>1. IInv /\ [Next]_vars => [anchor' > anchor \/ anchor' = anchor \/ anchor' = 0]_anchor
  <2> SUFFICES ASSUME IInv, Next
               PROVE  anchor' > anchor \/ anchor' = anchor \/ anchor' = 0
    BY DEF vars
  <2>1. CASE Unlock
    <3>1. sa # 0 => anchor <= sa
      BY <2>1 DEF Unlock, IInv, Pursued
    <3>2. QED
      BY <2>1, <3>1 DEF Unlock, IInv, TypeOK
  <2>2. CASE BuildSlow
    BY <2>2 DEF BuildSlow
  <2>3. CASE ~(Unlock \/ BuildSlow)
    BY <2>3 DEF Next, Thread, Lists, Work, Window, Other, Loss, Refuse, Refused,
                Admit, NotNow, NoChange, Start, LockFails, Lock, ListFails, BuildFast,
                Verify, Handle, HandleBreaks, Finish, Settle, Pause, Resume, Dialog,
                Paused, Waited,
                DialogEnds, server, device, tasks, outcome, window
  <2>4. QED
    BY <2>1, <2>2, <2>3
<1>2. QED
  BY <1>1, Invariance, PTL DEF Spec, AnchorForward

(***************************************************************************)
(* ExecuteUtility.cpp:198-266 and LockAnchor.cpp:89-110: the vector of the   *)
(* user's actions is not dropped before they are done, but for the slow     *)
(* list and the rounds whose tasks were incomplete or not verified.         *)
(***************************************************************************)
THEOREM SentCorrect == Spec => OwnSent
<1>1. IInv /\ [Next]_vars =>
        [own /\ ~own' => pc = "build" \/ ~upload \/ partial]_own
  <2> SUFFICES ASSUME IInv, Next, own, ~own'
               PROVE  pc = "build" \/ ~upload \/ partial
    BY DEF vars
  <2>1. CASE Unlock
    <3>1. pc = "unlock" /\ final # "failed"
      BY <2>1 DEF Unlock
    <3>2. QED
      BY <3>1 DEF IInv, Outcome, NoTasks
  <2>2. CASE BuildSlow
    BY <2>2 DEF BuildSlow
  <2>3. CASE ~(Unlock \/ BuildSlow)
    BY <2>3 DEF Next, Thread, Lists, Work, Window, Other, Loss, Refuse, Refused, Admit,
                NotNow, NoChange, Start, LockFails, Lock, ListFails, BuildFast, Verify,
                Handle, HandleBreaks, Finish, Settle, Pause, Resume, Dialog, Paused,
                Waited,
                DialogEnds, server, device, tasks, outcome, window
  <2>4. QED
    BY <2>1, <2>2, <2>3
<1>2. QED
  BY <1>1, Invariance, PTL DEF Spec, OwnSent
=============================================================================
