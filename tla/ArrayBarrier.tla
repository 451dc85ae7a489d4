---------------------------- MODULE ArrayBarrier ----------------------------
(***************************************************************************)
(* The desktop client's worker threads: NHandTasksBzl::BeginWorkerThread   *)
(* starts FIVE_TRANS_THREAD threads that share one vector of interlocked   *)
(* words, array_locked: one slot per thread and, last, ARRAY_VALUE, the    *)
(* array (group of task nodes of one file) that may be transmitted now.    *)
(*                                                                         *)
(* Every interlocked access is an action of its own, so the scans of       *)
(* WaitingThread and ValidArrayLocked interleave with the writes the other *)
(* threads make without taking gcsArrayLocked.                             *)
(***************************************************************************)
EXTENDS Integers, FiniteSets

CONSTANTS
    Threads,        \* the worker threads
    SlotCount,      \* FIVE_TRANS_THREAD, the slots of array_locked
    NodeCount,      \* task nodes in the list file
    ArrayOf,        \* node -> TaskNode.array_id, ids start at 1 and ascend
    Pending,        \* the nodes NodePrepare's filter does not skip
    MayStop,        \* may the user pause, stop or kill the transmission?
    MayFailConnect, \* may CreateWorker return NULL?
    MayFailRead,    \* may ReadNodeEx report an error?
    None            \* nobody holds gcsArrayLocked

INVALID == -1       \* INVALID_ARRAY_VALUE
Slots == 1..SlotCount

ASSUME ThreadAssumption ==
    /\ IsFiniteSet(Threads)
    /\ SlotCount \in Nat \ {0}
    /\ SlotCount = Cardinality(Threads)
    /\ None \notin Threads

ASSUME ListAssumption ==
    /\ NodeCount \in Nat
    /\ ArrayOf \in [1..NodeCount -> Nat \ {0}]
    /\ \A m, n \in 1..NodeCount : m <= n => ArrayOf[m] <= ArrayOf[n]
    /\ Pending \subseteq 1..NodeCount

ASSUME FaultAssumption ==
    {MayStop, MayFailConnect, MayFailRead} \subseteq BOOLEAN

VARIABLES
    slot,     \* array_locked[0..4]: 0 claimed, an array id, or INVALID
    run,      \* array_locked[ARRAY_VALUE]
    mine,     \* worker_locked: the slot a thread claimed, 0 before
    pc,       \* where each thread stands in WorkerThreadProcess
    scan,     \* thread_index of the loop a thread is in
    lmin,     \* lMinValue
    seen,     \* lRunValue as read under gcsArrayLocked
    node,     \* the task node a thread holds, 0 for none
    hand,     \* objTaskList.m_dwHandNode: the next node to read
    locker,   \* the thread inside gcsArrayLocked
    worker,   \* pTransWorker # NULL
    stopped   \* GetTransmitNextStatus() # PROCESS_STATUS_RUNNING

vars == <<slot, run, mine, pc, scan, lmin, seen, node, hand, locker, worker,
          stopped>>

Places == {"claim", "wait", "waitscan", "waitset", "create", "status",
           "prepare", "check", "publish", "lock", "scan", "advance",
           "worker", "transmit", "exit"}

\* The places where a thread holds a node it has not finished.
Holding == {"check", "publish", "lock", "scan", "advance", "worker",
            "transmit"}

Id(t) == ArrayOf[node[t]]
Goto(t, place) == pc' = [pc EXCEPT ![t] = place]
First(t) == scan' = [scan EXCEPT ![t] = 1]

Init ==
    /\ slot = [i \in Slots |-> INVALID]
    /\ run = INVALID
    /\ mine = [t \in Threads |-> 0]
    /\ pc = [t \in Threads |-> "claim"]
    /\ scan = [t \in Threads |-> 1]
    /\ lmin = [t \in Threads |-> 0]
    /\ seen = [t \in Threads |-> 0]
    /\ node = [t \in Threads |-> 0]
    /\ hand = 1
    /\ locker = None
    /\ worker = [t \in Threads |-> FALSE]
    /\ stopped = FALSE

----------------------------------------------------------------------------
(* Starting: claim a slot, then wait until every thread has one.           *)

\* InterlockedCompareExchange returns the old word; any non-zero one ends
\* the loop, whether or not it was INVALID and the exchange happened.
Claim(t) ==
    /\ pc[t] = "claim"
    /\ scan[t] \in Slots
    /\ LET i == scan[t] IN
       \/ /\ slot[i] # 0
          /\ slot' = IF slot[i] = INVALID THEN [slot EXCEPT ![i] = 0] ELSE slot
          /\ mine' = [mine EXCEPT ![t] = i]
          /\ Goto(t, "wait")
          /\ First(t)
       \/ /\ slot[i] = 0
          /\ scan' = [scan EXCEPT ![t] = i + 1]
          /\ UNCHANGED <<slot, mine, pc>>
    /\ UNCHANGED <<run, lmin, seen, node, hand, locker, worker, stopped>>

WaitRead(t) ==
    /\ pc[t] = "wait"
    /\ Goto(t, IF run = 0 THEN "create" ELSE "waitscan")
    /\ First(t)
    /\ UNCHANGED <<slot, run, mine, lmin, seen, node, hand, locker, worker,
                   stopped>>

\* MUTANT of WaitScan: the words are combined with AND, so one claimed slot
\* is enough.
WaitScanAny(t) ==
    /\ pc[t] = "waitscan"
    /\ \/ slot[scan[t]] = 0 /\ Goto(t, "waitset") /\ First(t)
       \/ /\ slot[scan[t]] # 0
          /\ IF scan[t] = SlotCount
             THEN Goto(t, "wait") /\ First(t)
             ELSE scan' = [scan EXCEPT ![t] = @ + 1] /\ UNCHANGED pc
    /\ UNCHANGED <<slot, run, mine, lmin, seen, node, hand, locker, worker,
                   stopped>>

\* One read of the OR over the slots. A non-zero word already decides the
\* result, so the thread goes back to sleep there.
WaitScan(t) ==
    /\ pc[t] = "waitscan"
    /\ \/ /\ slot[scan[t]] # 0
          /\ Goto(t, "wait")
          /\ First(t)
       \/ /\ slot[scan[t]] = 0
          /\ scan[t] < SlotCount
          /\ scan' = [scan EXCEPT ![t] = @ + 1]
          /\ UNCHANGED pc
       \/ /\ slot[scan[t]] = 0
          /\ scan[t] = SlotCount
          /\ Goto(t, "waitset")
          /\ First(t)
    /\ UNCHANGED <<slot, run, mine, lmin, seen, node, hand, locker, worker,
                   stopped>>

WaitSet(t) ==
    /\ pc[t] = "waitset"
    /\ run' = 0
    /\ Goto(t, "create")
    /\ UNCHANGED <<slot, mine, scan, lmin, seen, node, hand, locker, worker,
                   stopped>>

\* The outcomes of CreateWorker: a session with the server, or NULL.
Connects == IF MayFailConnect THEN BOOLEAN ELSE {TRUE}

Create(t) ==
    /\ pc[t] = "create"
    /\ \E w \in Connects : worker' = [worker EXCEPT ![t] = w]
    /\ Goto(t, "status")
    /\ UNCHANGED <<slot, run, mine, scan, lmin, seen, node, hand, locker,
                   stopped>>

----------------------------------------------------------------------------
(* The work loop.                                                          *)

\* A thread that finds the transmission stopped leaves its slot as it is.
CheckStatus(t) ==
    /\ pc[t] = "status"
    /\ Goto(t, IF stopped THEN "exit" ELSE "prepare")
    /\ UNCHANGED <<slot, run, mine, scan, lmin, seen, node, hand, locker,
                   worker, stopped>>

Rest == {n \in Pending : n >= hand}

\* MUTANT of Prepare: a thread that meets a read error keeps its slot.
PrepareKeeps(t) ==
    /\ pc[t] = "prepare"
    /\ \/ /\ Rest = {} \/ MayFailRead
          /\ slot' = [slot EXCEPT ![mine[t]] = IF Rest = {} THEN INVALID ELSE @]
          /\ Goto(t, "exit")
          /\ UNCHANGED <<node, hand>>
       \/ \E n \in Rest :
            /\ \A m \in Rest : n <= m
            /\ node' = [node EXCEPT ![t] = n]
            /\ hand' = n + 1
            /\ Goto(t, "check")
            /\ UNCHANGED slot
    /\ UNCHANGED <<run, mine, scan, lmin, seen, locker, worker, stopped>>

\* NodePrepare, whose critical section makes it one step: hand out the next
\* pending node, or at the end of the list release the slot; and so too on a
\* read error, at that node or at one before it that would be skipped. The
\* node that could not be read is not handed out again.
Prepare(t) ==
    /\ pc[t] = "prepare"
    /\ \/ \E n \in Rest :
            /\ \A m \in Rest : n <= m
            /\ node' = [node EXCEPT ![t] = n]
            /\ hand' = n + 1
            /\ Goto(t, "check")
            /\ UNCHANGED slot
       \/ /\ \/ Rest = {} /\ hand' = NodeCount + 1
             \/ /\ MayFailRead
                /\ \E n \in hand..NodeCount :
                     (\A m \in Rest : n <= m) /\ hand' = n + 1
          /\ slot' = [slot EXCEPT ![mine[t]] = INVALID]
          /\ Goto(t, "exit")
          /\ UNCHANGED node
    /\ UNCHANGED <<run, mine, scan, lmin, seen, locker, worker, stopped>>

\* The first, unlocked read of ARRAY_VALUE in ValidArrayLocked.
Check(t) ==
    /\ pc[t] = "check"
    /\ Goto(t, IF run = Id(t) THEN "worker" ELSE "publish")
    /\ UNCHANGED <<slot, run, mine, scan, lmin, seen, node, hand, locker,
                   worker, stopped>>

Publish(t) ==
    /\ pc[t] = "publish"
    /\ slot' = [slot EXCEPT ![mine[t]] = Id(t)]
    /\ Goto(t, "lock")
    /\ UNCHANGED <<run, mine, scan, lmin, seen, node, hand, locker, worker,
                   stopped>>

\* Enter gcsArrayLocked and read ARRAY_VALUE again.
Lock(t) ==
    /\ pc[t] = "lock"
    /\ locker = None
    /\ \/ /\ run = Id(t)
          /\ Goto(t, "worker")
          /\ UNCHANGED <<scan, lmin, seen, locker>>
       \/ /\ run # Id(t)
          /\ locker' = t
          /\ seen' = [seen EXCEPT ![t] = run]
          /\ lmin' = [lmin EXCEPT ![t] = Id(t)]
          /\ First(t)
          /\ Goto(t, "scan")
    /\ UNCHANGED <<slot, run, mine, node, hand, worker, stopped>>

\* Out of gcsArrayLocked, with the locals of the scan.
Unlock(t) ==
    /\ locker' = None
    /\ seen' = [seen EXCEPT ![t] = 0]
    /\ lmin' = [lmin EXCEPT ![t] = 0]
    /\ First(t)

\* MUTANT of Lower: the comparison is signed.
LowerSigned(v, w) == IF v < w THEN v ELSE w

\* The comparison is of unsigned values: INVALID is above every array id.
Lower(v, w) == IF v # INVALID /\ v < w THEN v ELSE w

\* MUTANT of Scan: a slot that shows the running array does not end the scan.
ScanUnbroken(t) ==
    /\ pc[t] = "scan"
    /\ LET v == slot[scan[t]] IN
       lmin' = [lmin EXCEPT ![t] = IF v = seen[t] THEN @ ELSE Lower(v, @)]
    /\ IF scan[t] = SlotCount
       THEN Goto(t, "advance") /\ UNCHANGED scan
       ELSE scan' = [scan EXCEPT ![t] = @ + 1] /\ UNCHANGED pc
    /\ UNCHANGED <<slot, run, mine, seen, node, hand, locker, worker, stopped>>

\* One slot read under the lock. A slot that still shows the running array
\* ends the scan: unlock, sleep and try again.
Scan(t) ==
    /\ pc[t] = "scan"
    /\ LET v == slot[scan[t]] IN
       \/ /\ v = seen[t]
          /\ Unlock(t)
          /\ Goto(t, "lock")
       \/ /\ v # seen[t]
          /\ lmin' = [lmin EXCEPT ![t] = Lower(v, @)]
          /\ IF scan[t] = SlotCount
             THEN Goto(t, "advance") /\ UNCHANGED scan
             ELSE scan' = [scan EXCEPT ![t] = @ + 1] /\ UNCHANGED pc
          /\ UNCHANGED <<locker, seen>>
    /\ UNCHANGED <<slot, run, mine, node, hand, worker, stopped>>

\* MUTANT of Advance: the thread goes on whatever array it moved to.
AdvanceGo(t) ==
    /\ pc[t] = "advance"
    /\ run' = lmin[t]
    /\ Unlock(t)
    /\ Goto(t, "worker")
    /\ UNCHANGED <<slot, mine, node, hand, worker, stopped>>

\* No slot shows the running array: move ARRAY_VALUE to the least one found,
\* unlock, and go on only if that is this thread's own array.
Advance(t) ==
    /\ pc[t] = "advance"
    /\ run' = lmin[t]
    /\ Unlock(t)
    /\ Goto(t, IF lmin[t] = Id(t) THEN "worker" ELSE "lock")
    /\ UNCHANGED <<slot, mine, node, hand, worker, stopped>>

\* Connect again if the connection was dropped; a failure ends the thread
\* with its slot as it is.
Reconnect(t) ==
    /\ pc[t] = "worker"
    /\ \E w \in IF worker[t] THEN {TRUE} ELSE Connects :
         /\ worker' = [worker EXCEPT ![t] = w]
         /\ Goto(t, IF w THEN "transmit" ELSE "exit")
         /\ node' = [node EXCEPT ![t] = IF w THEN @ ELSE 0]
    /\ UNCHANGED <<slot, run, mine, scan, lmin, seen, hand, locker, stopped>>

\* NodeTransmit and what follows it, whatever the outcome; a network error
\* drops the connection.
Transmit(t) ==
    /\ pc[t] = "transmit"
    /\ \E w \in IF MayFailConnect THEN BOOLEAN ELSE {TRUE} :
         worker' = [worker EXCEPT ![t] = w]
    /\ node' = [node EXCEPT ![t] = 0]
    /\ Goto(t, "status")
    /\ UNCHANGED <<slot, run, mine, scan, lmin, seen, hand, locker, stopped>>

\* SetTransmitNextStatus(PAUSED, FORCESTOP or KILLED) from the user interface.
Stop ==
    /\ MayStop
    /\ ~stopped
    /\ stopped' = TRUE
    /\ UNCHANGED <<slot, run, mine, pc, scan, lmin, seen, node, hand, locker,
                   worker>>

\* BeginWorkerThread's WaitForMultipleObjects is satisfied.
AllExited == \A t \in Threads : pc[t] = "exit"
Finished == AllExited /\ UNCHANGED vars

Step(t) ==
    \/ Claim(t) \/ WaitRead(t) \/ WaitScan(t) \/ WaitSet(t) \/ Create(t)
    \/ CheckStatus(t) \/ Prepare(t) \/ Check(t) \/ Publish(t) \/ Lock(t)
    \/ Scan(t) \/ Advance(t) \/ Reconnect(t) \/ Transmit(t)

Next == (\E t \in Threads : Step(t)) \/ Stop \/ Finished

Spec == Init /\ [][Next]_vars

\* Every thread is scheduled, and none is kept out of the critical section
\* for ever: a thread sleeps VALID_ARRAY_DELAY outside it after each try.
FairSpec ==
    Spec /\ \A t \in Threads : WF_vars(Step(t)) /\ SF_vars(Lock(t))

----------------------------------------------------------------------------
(* Properties.                                                             *)

TypeOK ==
    /\ slot \in [Slots -> Nat \cup {INVALID}]
    /\ run \in Nat \cup {INVALID}
    /\ mine \in [Threads -> 0..SlotCount]
    /\ pc \in [Threads -> Places]
    /\ scan \in [Threads -> 1..SlotCount + 1]
    /\ lmin \in [Threads -> Nat]
    /\ seen \in [Threads -> Nat \cup {INVALID}]
    /\ node \in [Threads -> 0..NodeCount]
    /\ \A t \in Threads : pc[t] \in Holding => node[t] # 0
    /\ hand \in 1..NodeCount + 1
    /\ locker \in Threads \cup {None}
    /\ worker \in [Threads -> BOOLEAN]
    /\ stopped \in BOOLEAN

Started(t) == pc[t] \notin {"claim", "wait", "waitscan", "waitset"}

\* The start barrier: no two threads share a slot word, no claim loop runs
\* off the end of the slots, and no thread starts working while another has
\* not claimed its slot yet - although the slots are read one by one while
\* they are being claimed, and a late thread may find array ids in them.
StartBarrier ==
    /\ \A t, u \in Threads : mine[t] = mine[u] /\ t # u => mine[t] = 0
    /\ \A t \in Threads : scan[t] \in Slots
    /\ \A t, u \in Threads : Started(t) => pc[u] # "claim"

\* Groups are transmitted one at a time and in ascending order: while a
\* thread transmits a node, no thread holds a node of an earlier array and
\* none transmits a node of another one (ValidArrayLocked).
GroupOrder ==
    \A t, u \in Threads :
        pc[t] = "transmit" /\ pc[u] \in Holding => Id(t) <= Id(u)

\* ARRAY_VALUE never goes back: neither the unsigned minimum over slots that
\* change during the scan nor a late WaitingThread may reset it.
RunAscends == [][run' >= run]_vars

\* The barrier implements GroupSchedule: a thread starts a node of the array
\* whose turn it is, and ARRAY_VALUE moves only while nobody transmits.
Schedule == INSTANCE GroupSchedule WITH
    turn <- IF run = INVALID THEN 0 ELSE run,
    work <- [t \in Threads |-> IF pc[t] = "transmit" THEN Id(t) ELSE 0]

ImplementsSchedule == Schedule!Spec

\* A worker that a stop or a failed connection ended leaves its slot as it was;
\* who holds a node of a later array than that slot shows waits for ever.
Left(u) == pc[u] = "exit" /\ (stopped \/ ~worker[u]) /\ slot[mine[u]] # INVALID
ShutOut(t) ==
    pc[t] \in Holding /\ \E u \in Threads : Left(u) /\ slot[mine[u]] < Id(t)

\* Nothing else keeps a worker: each comes to the end of its loop, whatever the
\* others read, skip or drop, unless a worker that left early shut it out. In
\* particular BeginWorkerThread returns if nobody stops the transmission and
\* every connection is made.
Termination == <>(\A t \in Threads : pc[t] = "exit" \/ ShutOut(t))

\* Once the user has paused, stopped or killed the transmission, every
\* worker ends and BeginWorkerThread returns to the retry loop, which is
\* what breaks out of it.
StopReturns == stopped ~> AllExited
=============================================================================
