--------------------------- MODULE ClientJournal ---------------------------
(***************************************************************************)
(* What the user does to the files of the pool, on its way to the server.   *)
(* The watcher's thread writes an action to action_cache.acd and wakes the  *)
(* synchronisation thread; that one moves the actions to the lock file,     *)
(* marks those that are ready, inserts them in the picture of the disk      *)
(* (RiverFS) and in the vector of actions to send, flushes the vector to    *)
(* the tail of the anchor data file, and deletes the lock file.  A round of *)
(* synchronisation ends by recording an anchor, which empties the vector.   *)
(* The program may be killed between any two steps, and a write of the      *)
(* anchor files may fail: the code logs that and goes on.                   *)
(*                                                                          *)
(* Every action concerns a file of its own, so that none cancels another.   *)
(***************************************************************************)
EXTENDS Integers

CONSTANTS
    MaxActs,   \* bound: actions of the user
    MaxRetry,  \* bound: ALOCK_RETRY_TIMES
    MaxStops   \* bound: crashes and exits

ASSUME JournalAssumption ==
    /\ MaxActs \in Nat /\ MaxStops \in Nat
    /\ MaxRetry \in Nat \ {0}

VARIABLES
    acted,    \* actions of the user so far, numbered from 1
    cache,    \* action_cache.acd
    last,     \* m_dwLastActio: 0, or a tick count below or above 2^31
    quiet,    \* LOCK_OPERATION_DELAY has passed since the last action
    event,    \* m_hWaitingEvent is signalled
    raw,      \* the lock file: actions that are not marked LATT_FINISHED
    fin,      \* the lock file: actions that are
    vec,      \* the vector of actions to send, m_vActioCache
    tail,     \* the anchor data file after the last entry of the index
    river,    \* RiverFS: the actions the picture of the disk shows
    anchored, \* m_dwLastAnchor # 0
    filed,    \* the last entry of the anchor index has an anchor # 0
    pc,       \* where the synchronisation thread is
    call,     \* who called the preparation
    tries,    \* dwLockRetry
    lv,       \* lockValue
    pv,       \* dwPrepareValue # 0
    again,    \* dwPrevioOperati
    closed,   \* the next status is not PROCESS_STATUS_WAITING
    leaving,  \* bProcessStarted is FALSE
    up,       \* the actions the round sends
    stops,    \* crashes and exits so far
    unsaved,  \* history: actions that a failed write, or the erasure of the data
              \* before the index, left out of the anchor data file
    sent,     \* history: actions the server has
    gone,     \* history: actions dropped without being sent
    deaf      \* history: a wake-up came before there was an event

vars == <<acted, cache, last, quiet, event, raw, fin, vec, tail, river, anchored,
          filed, pc, call, tries, lv, pv, again, closed, leaving, up, stops, unsaved,
          sent, gone, deaf>>

watcher == <<acted, cache, last, quiet, deaf>>
lockfile == <<raw, fin>>
anchors == <<vec, tail, anchored, filed, unsaved>>
prepare == <<tries, lv, pv>>
user == <<closed, leaving, stops>>
history == <<sent, gone>>

Acts == 1..MaxActs
Starting == {"boot", "scan", "clear"}
Ticks == {"low", "high"}

Init ==
    /\ acted = 0 /\ cache = {} /\ last = "zero" /\ quiet = TRUE /\ event = FALSE
    /\ raw = {} /\ fin = {} /\ vec = {} /\ tail = {} /\ river = {}
    /\ filed \in BOOLEAN /\ anchored = FALSE
    /\ pc = "off" /\ call = "start" /\ tries = 0 /\ lv = 0 /\ pv = FALSE
    /\ again = FALSE /\ closed = FALSE /\ leaving = FALSE /\ up = {}
    /\ stops = 0 /\ unsaved = {} /\ sent = {} /\ gone = {} /\ deaf = FALSE

(***************************************************************************)
(* The watcher.                                                             *)
(***************************************************************************)
\* CTRANSObject::Initialize runs after LockedActionInitial.
HasEvent == ~(pc \in Starting \/ call = "start")

\* Mutant: the tick count is taken before it is looked at.
ActUnheard ==
    /\ pc # "off" /\ acted < MaxActs
    /\ acted' = acted + 1
    /\ cache' = cache \cup {acted + 1}
    /\ last' \in Ticks /\ quiet' = FALSE
    /\ UNCHANGED <<event, deaf, lockfile, anchors, river, pc, call, prepare, again,
                   user, up, history>>

\* On_FileAdded and the like: only the first action since the last copy wakes
\* the synchronisation thread.
Act ==
    /\ pc # "off" /\ acted < MaxActs
    /\ acted' = acted + 1
    /\ cache' = cache \cup {acted + 1}
    /\ event' = (event \/ (last = "zero" /\ HasEvent))
    /\ deaf' = (deaf \/ (last = "zero" /\ ~HasEvent))
    /\ last' \in Ticks /\ quiet' = FALSE
    /\ UNCHANGED <<lockfile, anchors, river, pc, call, prepare, again, user, up,
                   history>>

\* Six seconds pass without an action.
Quiet ==
    /\ ~quiet
    /\ quiet' = TRUE
    /\ UNCHANGED <<acted, cache, last, deaf, event, lockfile, anchors, river, pc,
                   call, prepare, again, user, up, history>>

(***************************************************************************)
(* The program starts: the vector and the anchor are loaded, the watcher    *)
(* begins; what the last run left behind is taken in.                       *)
(***************************************************************************)
Boot ==
    /\ pc = "off"
    /\ vec' = tail /\ anchored' = filed
    /\ pc' = "boot" /\ call' = "start"
    /\ UNCHANGED <<watcher, event, lockfile, tail, filed, unsaved, river, prepare,
                   again, user, up, history>>

\* NExecTransBzl::Initialize, as far as LockedActionInitial's first lines.
Initialize ==
    /\ pc = "boot"
    /\ \/ /\ cache = {} /\ raw \cup fin = {}
          /\ pc' = "wait" /\ call' = "loop"
       \/ /\ cache \cup raw \cup fin # {} \* the lock file cannot be opened
          /\ pc' = "wait" /\ call' = "loop"
       \/ /\ cache # {}
          /\ pc' = "scan" /\ UNCHANGED call
       \/ /\ cache = {} /\ raw \cup fin # {}
          /\ pc' = "ins" /\ UNCHANGED call
    /\ lv' = 0 /\ pv' = FALSE /\ UNCHANGED tries
    /\ UNCHANGED <<watcher, event, lockfile, anchors, river, again, user, up, history>>

\* PrepaActionCache: what is on the disk and not in its picture is finished.
Scan ==
    /\ pc = "scan"
    /\ fin' = fin \cup ((1..acted) \ river)
    /\ gone' = gone \cap river
    /\ pc' = "clear"
    /\ UNCHANGED <<watcher, event, raw, anchors, river, call, prepare, again, user,
                   up, sent>>

\* ClearActioCache; an action recorded since the walk is dropped with the rest.
Clear ==
    /\ pc = "clear"
    /\ cache' = {}
    /\ gone' = gone \cup (cache \ fin)
    /\ pc' = "ins"
    /\ UNCHANGED <<acted, last, quiet, deaf, event, lockfile, anchors, river, call,
                   prepare, again, user, up, sent>>

(***************************************************************************)
(* The synchronisation thread waits, and is let through or not.             *)
(***************************************************************************)
\* The end of the loop: bProcessStarted is looked at.
Loop == pc' = IF leaving THEN "open" ELSE "wait"
Caller == call' = IF leaving THEN "exit" ELSE "loop"

\* An exclusive option is on, or the next status is not WAITING: the event is
\* used up, and remembered only if it is the option that is in the way.
Refused ==
    /\ pc = "wait"
    /\ event' = FALSE
    /\ \/ again' = (again \/ event)
       \/ closed /\ UNCHANGED again
    /\ Loop /\ Caller
    /\ UNCHANGED <<watcher, lockfile, anchors, river, prepare, user, up, history>>

\* Mutant: a thread that was refused looks only at the event.
PassedForgets ==
    /\ pc = "wait" /\ ~closed
    /\ event' = FALSE
    /\ again' = FALSE
    /\ pc' = IF event THEN "open" ELSE "sync"
    /\ UNCHANGED <<watcher, lockfile, anchors, river, call, prepare, user, up, history>>

Passed ==
    /\ pc = "wait" /\ ~closed
    /\ event' = FALSE
    /\ pc' = IF event \/ again THEN "open" ELSE "sync"
    /\ UNCHANGED <<watcher, lockfile, anchors, river, call, prepare, again, user, up,
                   history>>

(***************************************************************************)
(* PrepareLockedAction.                                                     *)
(***************************************************************************)
\* What the caller makes of the answer: >0 finish, 0 nothing, <0 exception.
Answer(v) ==
    \/ /\ call = "start"
       /\ pc' = "wait" /\ call' = "loop" /\ UNCHANGED again
    \/ /\ call = "exit"
       /\ pc' = "stop" /\ UNCHANGED <<call, again>>
    \/ /\ call = "loop" /\ v > 0
       /\ pc' = "sync" /\ again' = FALSE /\ UNCHANGED call
    \/ /\ call = "loop" /\ v <= 0
       /\ again' = (v < 0) /\ Loop /\ Caller

\* LockActioIniti.
Open ==
    /\ pc = "open"
    /\ pc' = "copy" /\ tries' = 0 /\ lv' = 0 /\ pv' = FALSE
    /\ UNCHANGED <<watcher, event, lockfile, anchors, river, call, again, user, up,
                   history>>

OpenFails ==
    /\ pc = "open"
    /\ Answer(-1)
    /\ UNCHANGED <<watcher, event, lockfile, anchors, river, prepare, user, up, history>>

CanCopy == last # "zero" /\ quiet

\* CacheActioCopy: below zero while the user is busy, 0 when nothing was done,
\* else the tick count of the last action, read as a signed number.
CacheActioCopy ==
    \/ /\ last # "zero" /\ ~quiet
       /\ lv' = -1 /\ UNCHANGED <<last, deaf, cache, raw>>
    \/ /\ last = "zero"
       /\ lv' = 0 /\ UNCHANGED <<last, deaf, cache, raw>>
    \/ /\ CanCopy
       /\ raw' = raw \cup cache /\ cache' = {}
       /\ last' = "zero" /\ deaf' = FALSE
       /\ lv' = IF last = "low" THEN 1 ELSE -1

\* Mutant: the retries are not counted.
CopyEndless ==
    /\ pc = "copy"
    /\ CacheActioCopy
    /\ pc' = IF tries = 0 /\ lv' = 0 THEN "end" ELSE "try"
    /\ UNCHANGED <<acted, quiet, event, fin, anchors, river, call, tries, pv, again,
                   user, up, history>>

Copy ==
    /\ pc = "copy"
    /\ CacheActioCopy
    /\ pc' = IF (tries = 0 /\ lv' = 0) \/ tries >= MaxRetry THEN "end" ELSE "try"
    /\ UNCHANGED <<acted, quiet, event, fin, anchors, river, call, tries, pv, again,
                   user, up, history>>

\* ActioPrepaProcess: a file is locked, or its kind is not known yet.
Undone ==
    /\ pc = "try" /\ lv > 0 /\ raw # {}
    /\ pv' = TRUE /\ tries' = tries + 1 /\ pc' = "copy"
    /\ UNCHANGED <<watcher, event, lockfile, anchors, river, call, lv, again, user, up,
                   history>>

Pass ==
    /\ pc = "try" /\ lv > 0
    /\ fin' = fin \cup raw /\ raw' = {}
    /\ pv' = FALSE /\ pc' = "end"
    /\ UNCHANGED <<watcher, event, anchors, river, call, tries, lv, again, user, up,
                   history>>

\* The loop goes on; only a copy that brings something leads to Pass.
Retry ==
    /\ pc = "try" /\ lv <= 0
    /\ tries' = tries + 1 /\ pc' = "copy"
    /\ UNCHANGED <<watcher, event, lockfile, anchors, river, call, lv, pv, again, user,
                   up, history>>

\* LockActionConve begins, or fails on the attributes of a file.
End ==
    /\ pc = "end"
    /\ \/ lv > 0 /\ ~pv /\ pc' = "ins" /\ UNCHANGED lv
       \/ lv > 0 /\ ~pv /\ pc' = "final" /\ lv' = -1
       \/ ~(lv > 0 /\ ~pv) /\ pc' = "final" /\ UNCHANGED lv
    /\ UNCHANGED <<watcher, event, lockfile, anchors, river, call, tries, pv, again,
                   user, up, history>>

\* One action of InsAnchorAction.
Insert ==
    /\ pc = "ins"
    /\ \E a \in fin \ vec :
          /\ river' = river \cup {a}
          /\ vec' = vec \cup {a}
    /\ UNCHANGED <<watcher, event, lockfile, tail, anchored, filed, unsaved, pc, call,
                   prepare, again, user, up, history>>

\* FlushActioVec writes the vector over the tail, one action after the other,
\* and cuts the rest: all of the vector, or what a failed write leaves.
Parts == {part \in SUBSET (tail \cup vec) : tail \cap vec \subseteq part}
LeftOut(part) == (unsaved \cup tail \cup vec) \ part

\* Mutant: the vector is not written to the file.
FlushLate ==
    /\ pc = "ins" /\ fin \subseteq vec
    /\ lv' = 1 /\ pc' = "final"
    /\ UNCHANGED <<watcher, event, lockfile, anchors, river, call, tries, pv, again,
                   user, up, history>>

\* FlushActioVec, and OptimizeCached, which flushes again and answers whether
\* the vector holds anything.  A failed flush is logged, no more.
Flush ==
    /\ pc = "ins" /\ fin \subseteq vec
    /\ \E part \in Parts : tail' = part /\ unsaved' = LeftOut(part)
    /\ lv' = (IF vec = {} THEN 0 ELSE 1) /\ pc' = "final"
    /\ UNCHANGED <<watcher, event, lockfile, vec, anchored, filed, river, call, tries,
                   pv, again, user, up, history>>

\* FinalLockActio: the lock file is closed, and deleted unless the preprocessing
\* is undone; what was not inserted goes with it, also when the answer is
\* "nothing".
Final ==
    /\ pc = "final"
    /\ IF pv THEN UNCHANGED <<lockfile, gone>>
       ELSE /\ raw' = {} /\ fin' = {}
            /\ gone' = gone \cup ((raw \cup fin) \ vec)
    /\ Answer(IF pv THEN -1 ELSE lv)
    /\ UNCHANGED <<watcher, event, anchors, river, prepare, user, up, sent>>

(***************************************************************************)
(* A round of synchronisation, as far as the journal goes: ClientRound says *)
(* what leads to each outcome.                                              *)
(***************************************************************************)
\* Not connected, nothing changed, or the pool is locked.
NoRound ==
    /\ pc = "sync"
    /\ Loop /\ Caller
    /\ UNCHANGED <<watcher, event, lockfile, anchors, river, prepare, again, user, up,
                   history>>

BuildFast ==
    /\ pc = "sync" /\ anchored
    /\ up' = vec
    /\ pc' = "work"
    /\ UNCHANGED <<watcher, event, lockfile, anchors, river, call, prepare, again, user,
                   history>>

\* ClearAnchorEnviro, as the device has no anchor or the server has lost its
\* own; the whole disk will be walked.  EraseAnchor empties the data file first,
\* and leaves the index alone when that fails.
BuildSlow ==
    /\ pc = "sync"
    /\ \/ /\ tail' = {} /\ unsaved' = unsaved \cup tail
          /\ pc' = "erase" /\ UNCHANGED <<vec, anchored, up>>
       \/ /\ vec' = {} /\ anchored' = FALSE /\ up' = 1..acted
          /\ pc' = "work" /\ UNCHANGED <<tail, unsaved>>
    /\ UNCHANGED <<watcher, event, lockfile, filed, river, call, prepare, again, user,
                   history>>

\* Mutant: the vector is emptied and the anchor of this run kept.
EraseIndexKeeps ==
    /\ pc = "erase"
    /\ \/ filed' = FALSE /\ unsaved' = {}
       \/ UNCHANGED <<filed, unsaved>>
    /\ vec' = {} /\ up' = 1..acted
    /\ pc' = "work"
    /\ UNCHANGED <<watcher, event, lockfile, tail, anchored, river, call, prepare,
                   again, user, history>>

\* Then the index, unless that fails; ClearActioVec.
EraseIndex ==
    /\ pc = "erase"
    /\ \/ filed' = FALSE /\ unsaved' = {}
       \/ UNCHANGED <<filed, unsaved>>
    /\ vec' = {} /\ anchored' = FALSE /\ up' = 1..acted
    /\ pc' = "work"
    /\ UNCHANGED <<watcher, event, lockfile, tail, river, call, prepare, again, user,
                   history>>

\* CAnchorCache::AddNewAnchor, then CAnchor::AddNewAnchor appends to the index,
\* or fails to: the answer is not looked at.
Recorded(known) ==
    /\ vec' = {} /\ anchored' = (known \/ anchored)
    /\ \/ tail' = {} /\ filed' = known
       \/ tail' \in Parts /\ UNCHANGED filed

\* The tasks are done and AddNewAnchor records the anchor the server gave; it
\* is 0 when the server's answer was lost.
RoundDone ==
    /\ pc = "work"
    /\ \E known \in BOOLEAN : Recorded(known)
    /\ sent' = sent \cup up /\ gone' = gone \ up
    /\ unsaved' = unsaved \ up /\ up' = {}
    /\ Loop /\ Caller
    /\ UNCHANGED <<watcher, event, lockfile, river, prepare, again, user>>

\* The round ends well without its tasks: the verification was interrupted.
\* ANCHOR_FINISH_UPDATE records the server's anchor, ANCHOR_FINISH_LEAVE drops
\* the actions, from the file too unless that fails, and keeps the anchor.
RoundSkips ==
    /\ pc = "work"
    /\ \/ Recorded(TRUE)
       \/ vec' = {} /\ tail' \in {{}, tail} /\ UNCHANGED <<filed, anchored>>
    /\ gone' = gone \cup (up \ sent)
    /\ unsaved' = unsaved \ up /\ up' = {}
    /\ Loop /\ Caller
    /\ UNCHANGED <<watcher, event, lockfile, river, prepare, again, user, sent>>

RoundFails ==
    /\ pc = "work"
    /\ up' = {}
    /\ Loop /\ Caller
    /\ UNCHANGED <<watcher, event, lockfile, anchors, river, prepare, again, user,
                   history>>

(***************************************************************************)
(* The user stops, pauses and resumes; the program ends or is killed.       *)
(***************************************************************************)
Running == pc # "off" /\ call # "start"

Close ==
    /\ Running /\ ~closed
    /\ closed' = TRUE
    /\ UNCHANGED <<watcher, event, lockfile, anchors, river, pc, call, prepare, again,
                   leaving, up, stops, history>>

Resume ==
    /\ Running /\ closed
    /\ closed' = FALSE /\ event' = TRUE
    /\ UNCHANGED <<watcher, lockfile, anchors, river, pc, call, prepare, again,
                   leaving, up, stops, history>>

\* CTRANSThread::Finalize.
Leave ==
    /\ Running /\ ~leaving /\ stops < MaxStops
    /\ leaving' = TRUE /\ event' = TRUE /\ stops' = stops + 1
    /\ UNCHANGED <<watcher, lockfile, anchors, river, pc, call, prepare, again, closed,
                   up, history>>

\* What a process leaves when it ends; what is not in the data file is lost
\* with the vector, if the index still has an anchor.
Ended(lost) ==
    /\ pc' = "off" /\ call' = "start"
    /\ vec' = {} /\ anchored' = FALSE /\ unsaved' = {}
    /\ event' = FALSE /\ last' = "zero" /\ quiet' = TRUE /\ deaf' = FALSE
    /\ tries' = 0 /\ lv' = 0 /\ pv' = FALSE
    /\ again' = FALSE /\ closed' = FALSE /\ leaving' = FALSE /\ up' = {}
    /\ gone' = IF filed THEN gone \cup (lost \ (fin \cup sent)) ELSE gone
    /\ UNCHANGED <<acted, river, filed, sent>>

\* NAnchorBzl::Finalize flushes the vector once more.
Exit ==
    /\ pc = "stop"
    /\ \E part \in Parts : tail' = part /\ Ended(LeftOut(part))
    /\ UNCHANGED <<cache, lockfile, stops>>

\* A copy may have been written and not erased, a marking be half done.
Crash ==
    /\ pc # "off" /\ stops < MaxStops
    /\ stops' = stops + 1
    /\ \/ UNCHANGED lockfile
       \/ pc = "copy" /\ CanCopy /\ raw' = raw \cup cache /\ UNCHANGED fin
       \/ /\ pc = "try" /\ lv > 0
          /\ \E some \in SUBSET raw : raw' = raw \ some /\ fin' = fin \cup some
    /\ Ended(unsaved)
    /\ UNCHANGED <<cache, tail>>

Prepares == Open \/ OpenFails \/ Copy \/ Undone \/ Pass \/ Retry \/ End \/ Insert \/ Flush
            \/ Final
Rounds == NoRound \/ BuildFast \/ BuildSlow \/ EraseIndex \/ RoundDone \/ RoundSkips
          \/ RoundFails

\* The steps of the program itself.
Thread == Boot \/ Initialize \/ Scan \/ Clear \/ Refused \/ Passed \/ Prepares \/ Rounds
          \/ Exit

Next == Act \/ Quiet \/ Thread \/ Close \/ Resume \/ Leave \/ Crash

Spec == Init /\ [][Next]_vars

\* The thread goes on, six seconds pass, a file opens and is ready in the end,
\* and nobody keeps an exclusive option for ever.
FairSpec ==
    /\ Spec
    /\ WF_vars(Thread) /\ WF_vars(Quiet)
    /\ SF_vars(Passed) /\ SF_vars(Open) /\ SF_vars(Copy /\ CanCopy)

(***************************************************************************)
(* Properties.                                                              *)
(***************************************************************************)
Places == {"off", "boot", "scan", "clear", "ins", "final", "wait", "open", "copy", "try",
           "end", "sync", "erase", "work", "stop"}

\* The types of the variables.
TypeOK ==
    /\ acted \in 0..MaxActs
    /\ cache \subseteq Acts /\ raw \subseteq Acts /\ fin \subseteq Acts
    /\ vec \subseteq Acts /\ tail \subseteq Acts /\ river \subseteq Acts
    /\ up \subseteq Acts /\ unsaved \subseteq Acts
    /\ sent \subseteq Acts /\ gone \subseteq Acts
    /\ last \in {"zero"} \cup Ticks
    /\ quiet \in BOOLEAN /\ event \in BOOLEAN /\ deaf \in BOOLEAN
    /\ anchored \in BOOLEAN /\ filed \in BOOLEAN
    /\ pc \in Places /\ call \in {"start", "loop", "exit"}
    /\ tries \in 0..MaxRetry /\ lv \in {-1, 0, 1} /\ pv \in BOOLEAN
    /\ again \in BOOLEAN /\ closed \in BOOLEAN /\ leaving \in BOOLEAN
    /\ stops \in 0..MaxStops

\* The anchor of this run, or the one the next run will load.
Known == IF pc = "off" THEN filed ELSE anchored

(***************************************************************************)
(* Every action of the user is in the cache, in the lock file, in the       *)
(* vector, in the anchor data file or on the server, or is one that a round *)
(* or the preparation drops, or that was out of the file when the program   *)
(* ended (unsaved).  A device without an anchor is excused: its next round  *)
(* walks the whole disk.                                                    *)
(***************************************************************************)
Kept ==
    \A a \in 1..acted :
        \/ a \in cache \cup raw \cup fin \cup vec \cup tail \cup sent \cup gone
        \/ ~Known

(***************************************************************************)
(* What the picture of the disk shows will not be found again by the walk   *)
(* at the next start; so it is still in the lock file, or in the file of    *)
(* the anchors, whenever the program may be killed, unless the file could   *)
(* not be written, or is being erased and its index is not yet.             *)
(***************************************************************************)
RiverKept ==
    filed => river \subseteq fin \cup tail \cup sent \cup gone \cup unsaved

(***************************************************************************)
(* No wake-up is lost: while actions wait to be copied and the thread may   *)
(* run, it has an event or remembers one.  The exception is the event that  *)
(* came before there was an object to signal.                               *)
(***************************************************************************)
Woken ==
    pc = "wait" /\ last # "zero" => event \/ again \/ closed \/ deaf

(***************************************************************************)
(* What the watcher has reported is copied in the end, unless the program   *)
(* ends, the user keeps the synchronisation stopped, or the wake-up was     *)
(* lost when the program started.  (What a crash left in the cache waits    *)
(* for the next report when the lock file could not be opened at the start: *)
(* nothing wakes the thread for it.)                                        *)
(***************************************************************************)
Drains == (last # "zero") ~> (last = "zero" \/ pc = "off" \/ closed \/ deaf)
=============================================================================
