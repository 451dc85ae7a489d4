---------------------------- MODULE ClientRound ----------------------------
(***************************************************************************)
(* A round of synchronisation as the client sees it, and the process status *)
(* by which the user interface steers it.  The thread asks the server for   *)
(* its last anchor, gets the list of what others did after the device's     *)
(* own, builds tasks, verifies them, carries them out and, from what is     *)
(* left, chooses how to finish: that decides the anchor the device records. *)
(*                                                                          *)
(* An anchor stands for what was done in the session that made it; a device *)
(* has it when it has carried out, or done itself, what it stands for.      *)
(***************************************************************************)
EXTENDS Integers

CONSTANTS
    MaxAnchor, \* bound: anchors
    MaxLosses  \* bound: times the server loses its anchors

ASSUME RoundAssumption == MaxAnchor \in Nat \ {0} /\ MaxLosses \in Nat

VARIABLES
    srv,     \* the server's last anchor
    losses,  \* how often the server lost its anchors
    has,     \* the anchors this device has
    missed,  \* history: anchors it passed over after an incomplete list
    anchor,  \* m_dwLastAnchor
    own,     \* the vector of actions to send is not empty
    sa,      \* m_dwLastServAnchor
    down,    \* anchors whose tasks are not done
    upload,  \* the tasks of the own actions are not done
    partial, \* tasks are missing, or their verification was interrupted
    chan,    \* chanValue: tasks were found, tasks that change the server
    handle,  \* handle_value
    final,   \* dwLockAnchor
    pc,      \* where the thread is
    next,    \* m_dwNextStatus
    status,  \* m_dwCurrentStatus
    seen,    \* dwProcessStatus, the next status the thread has read
    ui,      \* what the user interface is doing
    old,     \* the status a dialog found
    locked,  \* history: the last round ended as LOCKED
    stale    \* history: the anchor is of a numbering the server has lost

vars == <<srv, losses, has, missed, anchor, own, sa, down, upload, partial, chan,
          handle, final, pc, next, status, seen, ui, old, locked, stale>>

server == <<srv, losses>>
device == <<has, missed, anchor, own, stale>>
tasks == <<down, upload, partial, chan>>
outcome == <<handle, final, sa>>
window == <<ui, old, seen>>

Anchors == 1..MaxAnchor
Statuses == {"fault", "running", "waiting", "paused", "stopped"}
NoTasks == down = {} /\ ~upload

Init ==
    /\ srv \in 0..1 /\ losses = 0
    /\ has = {} /\ missed = {} /\ anchor = 0 /\ own \in BOOLEAN
    /\ sa = 0 /\ down = {} /\ upload = FALSE /\ partial = FALSE /\ chan = {}
    /\ handle = "finish" /\ final = "failed"
    /\ pc = "wait" /\ next = "waiting" /\ status = "waiting"
    /\ seen = "waiting" /\ ui = "idle" /\ old = "waiting" /\ locked = FALSE /\ stale = FALSE

(***************************************************************************)
(* The other devices, while this one has no session; clear_backup or a      *)
(* restore takes the server's anchors back.                                 *)
(***************************************************************************)
InSession == pc \in {"verify", "handle", "finish"}

Other ==
    /\ ~InSession /\ srv < MaxAnchor
    /\ srv' = srv + 1
    /\ UNCHANGED <<losses, device, tasks, outcome, pc, next, status, window, locked>>

Loss ==
    /\ ~InSession /\ losses < MaxLosses
    /\ srv' = 0 /\ losses' = losses + 1
    /\ has' = {} /\ missed' = {} \* new numbers stand for something else
    /\ stale' = TRUE
    /\ UNCHANGED <<anchor, own, tasks, outcome, pc, next, status, window, locked>>

(***************************************************************************)
(* The thread between rounds.                                               *)
(***************************************************************************)
Both(s) == next' = s /\ status' = s

\* ValidateProcessFinished: the thread is not to run.  It has read the next
\* status, and then writes what it read; the user interface may be in between.
Refuse ==
    /\ pc = "wait" /\ next # "waiting"
    /\ seen' = next
    /\ pc' = "refuse"
    /\ UNCHANGED <<server, device, tasks, outcome, next, status, ui, old, locked>>

Refused ==
    /\ pc = "refuse"
    /\ status' = seen /\ seen' = "waiting"
    /\ pc' = "wait"
    /\ UNCHANGED <<server, device, tasks, outcome, next, ui, old, locked>>

\* The user's actions, if there are any, are prepared.
Admit ==
    /\ pc = "wait" /\ next = "waiting"
    /\ own' \in {own, TRUE}
    /\ pc' = "check"
    /\ UNCHANGED <<server, has, missed, anchor, stale, tasks, outcome, next, status,
                   window, locked>>

\* Not connected, or the pool is held by another device.
NotNow ==
    /\ pc = "check"
    /\ pc' = "wait"
    /\ UNCHANGED <<server, device, tasks, outcome, next, status, window, locked>>

\* CheckUserPoolChanged: the cache says the server's last anchor, or none.
Changed(cached) == (cached = 0 /\ anchor = 0) \/ cached # anchor \/ own

NoChange ==
    /\ pc = "check" /\ \E cached \in {srv, 0} : ~Changed(cached)
    /\ Both("waiting")
    /\ pc' = "wait"
    /\ UNCHANGED <<server, device, tasks, outcome, window, locked>>

\* StartTransmitProcess, whatever the user has asked for since.
Start ==
    /\ pc = "check" /\ \E cached \in {srv, 0} : Changed(cached)
    /\ Both("running")
    /\ pc' = "lock"
    /\ UNCHANGED <<server, device, tasks, outcome, window, locked>>

(***************************************************************************)
(* The round.                                                               *)
(***************************************************************************)
\* LockAnchorObject: the user keeps a file open.  TRANSThread.cpp:200 declares
\* TransmitLockedProcess instead of calling it.
LockFails ==
    /\ pc = "lock"
    /\ pc' = "wait" /\ locked' = TRUE
    /\ UNCHANGED <<server, device, tasks, outcome, next, status, window>>

Lock ==
    /\ pc = "lock"
    /\ pc' = "build" /\ locked' = FALSE
    /\ UNCHANGED <<server, device, tasks, outcome, next, status, window>>

\* Mutant: the statuses are left as they are.
ListFailsQuietly ==
    /\ pc = "build"
    /\ pc' = "wait"
    /\ UNCHANGED <<server, device, tasks, outcome, next, status, window, locked>>

\* FailedTransmitProcess, after a list that could not be had.
ListFails ==
    /\ pc = "build"
    /\ Both("waiting")
    /\ pc' = "wait"
    /\ UNCHANGED <<server, device, tasks, outcome, window, locked>>

\* The tasks: what others did, if it is listed, and what the device is to send.
\* The connection of the list may break and the part that came be used; what
\* CreateFastTasksList and CreateSlowTasksList return is not looked at.
Listed(wanted, mine) ==
    /\ \E some \in SUBSET wanted, sends \in {FALSE, mine} :
          /\ down' = some /\ upload' = sends
          /\ partial' = (some # wanted \/ sends # mine)
    /\ chan' = {}

\* Mutant: an anchor beyond the server's is used.
BuildFastAny ==
    /\ pc = "build" /\ anchor # 0
    /\ sa' = srv
    /\ Listed(((anchor + 1)..srv) \ has, own)
    /\ pc' = "verify"
    /\ UNCHANGED <<server, device, handle, final, next, status, window, locked>>

\* GetListHead, BulidFastListVector.
BuildFast ==
    /\ pc = "build" /\ anchor # 0 /\ srv >= anchor
    /\ sa' = srv
    /\ Listed(((anchor + 1)..srv) \ has, own)
    /\ pc' = "verify"
    /\ UNCHANGED <<server, device, handle, final, next, status, window, locked>>

\* Mutant: the number of no anchor is listed too.
BuildSlowZero ==
    /\ pc = "build"
    /\ sa' = srv
    /\ anchor' = 0 /\ own' = FALSE /\ stale' = FALSE
    /\ \E mine \in {own, TRUE} : Listed((0..srv) \ has, mine)
    /\ pc' = "verify"
    /\ UNCHANGED <<server, has, missed, handle, final, next, status, window, locked>>

\* The device's own anchor is erased and the whole pool compared; the server
\* may also not find the anchor.
BuildSlow ==
    /\ pc = "build"
    /\ sa' = srv
    /\ anchor' = 0 /\ own' = FALSE /\ stale' = FALSE
    /\ \E mine \in {own, TRUE} : Listed((1..srv) \ has, mine)
    /\ pc' = "verify"
    /\ UNCHANGED <<server, has, missed, handle, final, next, status, window, locked>>

\* What a worker thread that looks at the next status returns.
Asked == {s \in {"paused", "stopped"} : s = next}

\* TasksListVerifier.
Verify ==
    /\ pc = "verify"
    /\ \/ pc' = "handle" /\ handle' = "finish" /\ UNCHANGED partial
       \/ /\ pc' = "finish" /\ handle' \in {"failed", "fault"} \cup Asked
          /\ partial' = (partial \/ ~NoTasks)
    /\ UNCHANGED <<server, device, down, upload, chan, final, sa, next, status, window,
                   locked>>

\* Mutant: a round that was broken off counts as finished.
HandleAll ==
    /\ pc = "handle"
    /\ handle' = "finish"
    /\ chan' = (IF NoTasks THEN {} ELSE {"have"}) \cup (IF upload THEN {"serv"} ELSE {})
    /\ \E undone \in SUBSET down :
          /\ down' = undone /\ has' = has \cup (down \ undone)
    /\ upload' = FALSE
    /\ pc' = "finish"
    /\ UNCHANGED <<server, missed, anchor, own, stale, partial, final, sa, next, status,
                   window, locked>>

\* TasksListHandler, and the second pass over the exceptions with it.
Handle ==
    /\ pc = "handle"
    /\ chan' = (IF NoTasks THEN {} ELSE {"have"}) \cup (IF upload THEN {"serv"} ELSE {})
    /\ \E undone \in SUBSET down, left \in {FALSE, upload} :
          /\ down' = undone /\ upload' = left
          /\ has' = has \cup (down \ undone)
          /\ handle' \in IF undone = {} /\ ~left THEN {"finish"}
                         ELSE {"failed", "fault"} \cup Asked
    /\ pc' = "finish"
    /\ UNCHANGED <<server, missed, anchor, own, stale, partial, final, sa, next, status,
                   window, locked>>

\* TasksListProducerEXP fails: the round ends without a FINAL.
HandleBreaks ==
    /\ pc = "handle" /\ ~NoTasks
    /\ Both("waiting")
    /\ pc' = "wait" /\ down' = {} /\ upload' = FALSE /\ partial' = FALSE
    /\ handle' = "finish" /\ sa' = 0
    /\ UNCHANGED <<server, device, chan, final, window, locked>>

(***************************************************************************)
(* FinishTasksList and UnlockAnchorObject.                                  *)
(***************************************************************************)
\* Mutant: what the workers returned is not looked at.
ChoiceAny ==
    IF "have" \in chan
    THEN IF "serv" \in chan \/ anchor = sa THEN "success" ELSE "update"
    ELSE IF anchor # sa THEN "update"
         ELSE IF anchor # 0 THEN "leave" ELSE "success"

\* How the round is to end.
Choice ==
    IF "have" \in chan
    THEN IF handle # "finish" THEN "failed"
         ELSE IF "serv" \in chan \/ anchor = sa THEN "success" ELSE "update"
    ELSE IF anchor # sa THEN "update"
         ELSE IF anchor # 0 THEN "leave" ELSE "success"

Finish ==
    /\ pc = "finish"
    /\ \/ /\ final' = "failed"        \* no connection for the FINAL
          /\ UNCHANGED <<srv, sa, has>>
       \/ /\ final' = Choice /\ final' # "success"
          /\ UNCHANGED <<srv, sa, has>>
       \/ /\ final' = Choice /\ final' = "success" /\ srv < MaxAnchor
          /\ \/ srv' = srv + 1 /\ has' = has \cup {srv + 1} /\ sa' \in {srv + 1, 0}
             \/ UNCHANGED <<srv, has>> /\ sa' = 0  \* the request was lost
    /\ pc' = "unlock"
    /\ UNCHANGED <<losses, missed, anchor, own, stale, tasks, handle, next, status, window,
                   locked>>

Unlock ==
    /\ pc = "unlock"
    /\ own' = (own /\ final = "failed")
    /\ anchor' = IF final \in {"success", "update"} /\ sa # 0 THEN sa ELSE anchor
    /\ missed' = missed \cup IF partial THEN (1..anchor') \ has ELSE {}
    /\ down' = {} /\ upload' = FALSE /\ partial' = FALSE /\ chan' = {}
    /\ pc' = "settle"
    /\ UNCHANGED <<server, has, stale, outcome, next, status, window, locked>>

(***************************************************************************)
(* The statuses after the round.  PauseTransmitProcess, which the thread     *)
(* calls, is the function that waits for the thread to be paused: once      *)
(* "pausing" it goes on when the status is PAUSED, which never happens (see *)
(* PauseDeadlock).                                                          *)
(***************************************************************************)
\* Mutant: a case of the switch is missing.
SettleNoFault ==
    /\ pc = "settle"
    /\ handle # "fault" /\ Both("waiting") /\ pc' = "wait"
    /\ handle' = "finish" /\ final' = "failed" /\ sa' = 0
    /\ UNCHANGED <<server, device, tasks, window, locked>>

Settle ==
    /\ pc = "settle"
    /\ \/ handle \in {"finish", "failed"} /\ Both("waiting") /\ pc' = "wait"
       \/ handle = "fault" /\ Both("fault") /\ pc' = "wait"
       \/ handle = "stopped" /\ status' = "stopped" /\ UNCHANGED next /\ pc' = "wait"
       \/ /\ handle = "paused" /\ next' = "paused" /\ UNCHANGED status
          /\ pc' = IF status = "running" THEN "pausing" ELSE "wait"
    /\ handle' = "finish" /\ final' = "failed" /\ sa' = 0 \* not read again
    /\ UNCHANGED <<server, device, tasks, window, locked>>

(***************************************************************************)
(* The user interface.                                                      *)
(***************************************************************************)
\* PausedResumeTransmitProcess.
Pause ==
    /\ ui = "idle" /\ status \in {"running", "waiting"}
    /\ next' = "paused" /\ ui' = "asked"
    /\ UNCHANGED <<server, device, tasks, outcome, pc, status, old, seen, locked>>

Paused ==
    /\ ui = "asked"
    /\ IF status = "running" THEN ui' = "waits" /\ UNCHANGED status
                             ELSE ui' = "idle" /\ status' = "paused"
    /\ UNCHANGED <<server, device, tasks, outcome, pc, next, old, seen, locked>>

Waited ==
    /\ ui = "waits" /\ status = "paused"
    /\ ui' = "idle"
    /\ UNCHANGED <<server, device, tasks, outcome, pc, next, status, old, seen, locked>>

Resume ==
    /\ ui = "idle" /\ status = "paused"
    /\ Both("waiting")
    /\ UNCHANGED <<server, device, tasks, outcome, pc, window, locked>>

\* A dialog stops the synchronisation while it is open, and goes back to the
\* status it found.
Dialog ==
    /\ ui = "idle"
    /\ ui' = "dialog" /\ old' = status
    /\ next' = "stopped"
    /\ UNCHANGED <<server, device, tasks, outcome, pc, status, seen, locked>>

DialogEnds ==
    /\ ui = "dialog"
    /\ ui' = "idle" /\ old' = "waiting"
    /\ IF old = "fault" THEN UNCHANGED <<next, status>>
       ELSE Both(IF old = "running" THEN "waiting" ELSE old)
    /\ UNCHANGED <<server, device, tasks, outcome, pc, seen, locked>>

Lists == ListFails \/ BuildFast \/ BuildSlow
Work == Verify \/ Handle \/ HandleBreaks \/ Finish \/ Unlock \/ Settle
Thread == Refuse \/ Refused \/ Admit \/ NotNow \/ NoChange \/ Start \/ LockFails \/ Lock
          \/ Lists \/ Work
Window == Pause \/ Resume \/ Dialog

Next == Other \/ Loss \/ Thread \/ Window \/ Paused \/ Waited \/ DialogEnds

Spec == Init /\ [][Next]_vars

\* The thread and a user interface that has begun something go on.
FairSpec == Spec /\ WF_vars(Thread) /\ WF_vars(Paused) /\ WF_vars(Waited)
                 /\ WF_vars(DialogEnds)

(***************************************************************************)
(* Properties.                                                              *)
(***************************************************************************)
\* The types of the variables.
TypeOK ==
    /\ srv \in 0..MaxAnchor /\ losses \in 0..MaxLosses
    /\ has \subseteq Anchors /\ missed \subseteq Anchors /\ down \subseteq Anchors
    /\ anchor \in 0..MaxAnchor /\ sa \in 0..MaxAnchor
    /\ own \in BOOLEAN /\ upload \in BOOLEAN /\ partial \in BOOLEAN
    /\ locked \in BOOLEAN /\ stale \in BOOLEAN
    /\ chan \subseteq {"have", "serv"}
    /\ handle \in {"finish", "failed", "fault", "paused", "stopped"}
    /\ final \in {"failed", "success", "update", "leave"}
    /\ pc \in {"wait", "refuse", "check", "lock", "build", "verify", "handle", "finish",
               "unlock", "settle", "pausing"}
    /\ next \in Statuses /\ status \in Statuses /\ old \in Statuses /\ seen \in Statuses
    /\ ui \in {"idle", "asked", "waits", "dialog"}

(***************************************************************************)
(* The anchor the device records says what it has: everything up to it is   *)
(* on the device, but for what a round passed over whose list had come in   *)
(* part or whose verification was broken off.  An anchor from before the    *)
(* server lost its own means nothing, though the server may have a larger   *)
(* one again, until the whole pool has been compared.                       *)
(***************************************************************************)
Caught ==
    anchor # 0 /\ ~stale => 1..anchor \subseteq has \cup missed

(***************************************************************************)
(* The device never goes back to an earlier anchor without comparing the    *)
(* whole pool: a server that has lost its anchors does not make it take a   *)
(* smaller one for its own.                                                 *)
(***************************************************************************)
AnchorForward == [][anchor' > anchor \/ anchor' = anchor \/ anchor' = 0]_anchor

(***************************************************************************)
(* While the thread waits for the next round nothing says that a round is   *)
(* going on, unless the last one ended as LOCKED.                           *)
(***************************************************************************)
StatusSettled == pc = "wait" /\ status = "running" => locked

(***************************************************************************)
(* A pause that a worker thread notices stops both threads for good: a      *)
(* thread that waits to be told that it is paused is waited for by the user *)
(* interface, or about to be, and nobody tells either.                      *)
(***************************************************************************)
PauseDeadlock == pc = "pausing" => status = "running" /\ ui \in {"asked", "waits"}

\* Both: what the status word says of the thread, and of who waits for whom.
StatusFits == StatusSettled /\ PauseDeadlock

(***************************************************************************)
(* A round that has begun ends, whatever the user does meanwhile, or the    *)
(* thread waits to be told that it is paused.                               *)
(***************************************************************************)
RoundEnds == (pc = "lock") ~> (pc \in {"wait", "pausing"})

(***************************************************************************)
(* What the user did on this device leaves the vector only when its tasks   *)
(* are done, or to have the whole pool compared, or with a round whose tasks*)
(* had come in part or whose verification was broken off: FinishTasksList   *)
(* then takes the session for one with nothing to synchronise               *)
(* (ExecuteUtility.cpp:248) and UnlockAnchorObject drops the vector.        *)
(***************************************************************************)
OwnSent == [][own /\ ~own' => pc = "build" \/ ~upload \/ partial]_own
=============================================================================
