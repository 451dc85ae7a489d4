------------------------- MODULE ArrayBarrier_proof -------------------------
(***************************************************************************)
(* Proofs about the worker barrier, for any number of threads and any task *)
(* list with ascending array ids.                                          *)
(*                                                                         *)
(* The invariant says what array_locked means at each place of a thread:   *)
(* a thread that is not waiting shows ARRAY_VALUE in its slot, a waiting   *)
(* one shows its own array, and a scan under the lock has seen only slots  *)
(* that can no longer come to show ARRAY_VALUE.                            *)
(***************************************************************************)
EXTENDS ArrayBarrier, FiniteSetTheorems, TLAPS

Ready == {"create", "status", "prepare", "check", "publish", "worker",
          "transmit"}
Waiting == {"lock", "scan", "advance"}
Scanning == {"scan", "advance"}

Owned(i) == \E t \in Threads : mine[t] = i

IOwn ==
    /\ \A t \in Threads : mine[t] = 0 <=> pc[t] = "claim"
    /\ \A t, u \in Threads : mine[t] = mine[u] /\ t # u => mine[t] = 0
    /\ \A i \in Slots : slot[i] = INVALID \/ Owned(i)

IStart ==
    /\ \A t \in Threads : scan[t] \in Slots
    /\ \A t \in Threads : pc[t] \in {"claim", "waitscan"} =>
           \A i \in Slots : i < scan[t] => Owned(i)
    /\ \A t \in Threads :
           run # INVALID \/ Started(t) \/ pc[t] = "waitset" =>
               \A u \in Threads : pc[u] # "claim"
    /\ \A t \in Threads :
           IF Started(t) THEN run # INVALID
           ELSE run \in {INVALID, 0} /\ (pc[t] # "claim" => slot[mine[t]] = 0)

ISlot ==
    /\ \A i \in Slots : slot[i] # INVALID => slot[i] >= run
    /\ \A t \in Threads :
         /\ pc[t] \in Ready => slot[mine[t]] = run
         /\ pc[t] \in Waiting => slot[mine[t]] = Id(t)
         /\ pc[t] = "exit" => slot[mine[t]] \in {INVALID, run}

IAhead ==
    /\ \A n \in 1..NodeCount : n >= hand => ArrayOf[n] >= run
    /\ \A t \in Threads : pc[t] \in Holding =>
         /\ node[t] < hand
         /\ Id(t) >= run
         /\ pc[t] \in Scanning \cup {"publish"} => Id(t) # run
         /\ pc[t] \in {"worker", "transmit"} => Id(t) = run

IScan ==
    \A t \in Threads :
      /\ pc[t] \in Scanning <=> locker = t
      /\ pc[t] \in Scanning =>
           /\ seen[t] = run
           /\ run < lmin[t]
           /\ lmin[t] <= Id(t)
           /\ \A i \in Slots : pc[t] = "advance" \/ i < scan[t] =>
                /\ slot[i] # run
                /\ slot[i] # INVALID => lmin[t] <= slot[i]

IInv == TypeOK /\ IOwn /\ IStart /\ ISlot /\ IAhead /\ IScan

----------------------------------------------------------------------------
(* Counting.                                                               *)

\* There are as many slots as threads, so when each slot has an owner no
\* thread is without one (the claim loop of WorkerThreadProcess).
LEMMA Pigeonhole ==
    ASSUME NEW f \in [Threads -> 0..SlotCount],
           \A i \in Slots : \E t \in Threads : f[t] = i,
           NEW u \in Threads
    PROVE  f[u] # 0
PROOF
<1>1. SUFFICES ASSUME f[u] = 0 PROVE FALSE
    OBVIOUS
<1> DEFINE Others == Threads \ {u}
           owner == [i \in Slots |-> CHOOSE t \in Threads : f[t] = i]
<1>2. \A i \in Slots : owner[i] \in Others /\ f[owner[i]] = i
    BY <1>1 DEF Slots
<1>3. IsFiniteSet(Slots) /\ Cardinality(Slots) = SlotCount
    BY ThreadAssumption, FS_Interval DEF Slots
<1>4. IsFiniteSet(Others) /\ Cardinality(Others) = Cardinality(Threads) - 1
    BY ThreadAssumption, FS_RemoveElement
<1>5. Cardinality(Others) < Cardinality(Slots)
    BY <1>3, <1>4, ThreadAssumption
<1>6. owner \in [Slots -> Others]
    BY <1>2
<1>7. \E x, y \in Slots : x # y /\ owner[x] = owner[y]
    <2> HIDE DEF Others, owner
    <2> QED BY <1>3, <1>4, <1>5, <1>6, FS_PigeonHole
<1> QED BY <1>2, <1>7

----------------------------------------------------------------------------
(* Type correctness.                                                       *)

(* The steps before a thread has started, and the steps after.              *)
LEMMA FirstSteps ==
    ASSUME NEW t \in Threads, Step(t), ~Started(t)
    PROVE  Claim(t) \/ WaitRead(t) \/ WaitScan(t) \/ WaitSet(t)
    BY DEF Step, Create, CheckStatus, Prepare, Check, Publish, Lock, Scan,
           Advance, Reconnect, Transmit, Started

LEMMA LaterSteps ==
    ASSUME NEW t \in Threads, Step(t), Started(t)
    PROVE  \/ Create(t) \/ CheckStatus(t) \/ Prepare(t) \/ Check(t)
           \/ Publish(t) \/ Lock(t) \/ Scan(t) \/ Advance(t)
           \/ Reconnect(t) \/ Transmit(t)
    BY DEF Step, Claim, WaitRead, WaitScan, WaitSet, Started

LEMMA CountTypes == SlotCount \in Nat \ {0} /\ NodeCount \in Nat
BY ThreadAssumption, ListAssumption

LEMMA InitType == Init => TypeOK
<1> SUFFICES ASSUME Init PROVE TypeOK
    OBVIOUS
<1> USE CountTypes DEF Init
<1>1. /\ slot \in [Slots -> Nat \cup {INVALID}]
      /\ run \in Nat \cup {INVALID}
    OBVIOUS
<1>2. mine \in [Threads -> 0..SlotCount] /\ node \in [Threads -> 0..NodeCount]
    OBVIOUS
<1>3. pc \in [Threads -> Places]
    BY DEF Places
<1>4. scan \in [Threads -> 1..SlotCount + 1] /\ hand \in 1..NodeCount + 1
    OBVIOUS
<1>5. lmin \in [Threads -> Nat] /\ seen \in [Threads -> Nat \cup {INVALID}]
    OBVIOUS
<1>6. /\ locker \in Threads \cup {None}
      /\ worker \in [Threads -> BOOLEAN]
      /\ stopped \in BOOLEAN
    OBVIOUS
<1>7. \A t \in Threads : pc[t] \notin Holding
    BY DEF Holding
<1> QED
    BY <1>1, <1>2, <1>3, <1>4, <1>5, <1>6, <1>7 DEF TypeOK

\* One step per variable: what the actions that write it store there.
\* One step per variable: what the actions that write it store there. The
\* loops over the slots stay inside them, which IStart adds.
ScanInSlots == \A t \in Threads : scan[t] \in Slots

LEMMA StepType == TypeOK /\ ScanInSlots /\ [Next]_vars => TypeOK'
<1> USE CountTypes
<1>1. ASSUME TypeOK, ScanInSlots, NEW t \in Threads, Step(t) PROVE TypeOK'
    <2> USE <1>1
    <2>1. slot' \in [Slots -> Nat \cup {INVALID}]
        <3>1. \/ UNCHANGED slot
              \/ \E i \in 0..SlotCount, v \in Nat \cup {INVALID} :
                     slot' = [slot EXCEPT ![i] = v]
            <4>1. CASE Claim(t)
                BY <4>1 DEF Claim, Slots
            <4>2. CASE Prepare(t)
                BY <4>2 DEF Prepare, TypeOK
            <4>3. CASE Publish(t)
                <5>1. Id(t) \in Nat
                    BY <4>3, ListAssumption DEF Publish, TypeOK, Id, Holding
                <5> QED
                    BY <4>3, <5>1 DEF Publish, TypeOK
            <4> QED
                BY <4>1, <4>2, <4>3
                   DEF Step, WaitRead, WaitScan, WaitSet, Create, CheckStatus,
                       Check, Lock, Scan, Advance, Reconnect, Transmit
        <3> QED
            BY <3>1 DEF TypeOK
    <2>2. pc' \in [Threads -> Places]
        <3>1. \/ UNCHANGED pc
              \/ \E p \in Places : pc' = [pc EXCEPT ![t] = p]
            BY DEF Step, Claim, WaitRead, WaitScan, WaitSet, Create,
                   CheckStatus, Prepare, Check, Publish, Lock, Scan, Advance,
                   Reconnect, Transmit, Goto, Places
        <3> QED
            BY <3>1 DEF TypeOK
    <2>3. run' \in Nat \cup {INVALID}
        <3>1. run' \in {run, 0, lmin[t]}
            BY DEF Step, Claim, WaitRead, WaitScan, WaitSet, Create,
                   CheckStatus, Prepare, Check, Publish, Lock, Scan, Advance,
                   Reconnect, Transmit
        <3> QED
            BY <3>1 DEF TypeOK
    <2>4. mine' \in [Threads -> 0..SlotCount]
        <3>1. \/ UNCHANGED mine
              \/ \E i \in Slots : mine' = [mine EXCEPT ![t] = i]
            BY DEF Step, Claim, WaitRead, WaitScan, WaitSet, Create,
                   CheckStatus, Prepare, Check, Publish, Lock, Scan, Advance,
                   Reconnect, Transmit
        <3>2. Slots \subseteq 0..SlotCount
            BY DEF Slots
        <3> QED
            BY <3>1, <3>2 DEF TypeOK
    <2>5. scan' \in [Threads -> 1..SlotCount + 1]
        <3>1. \/ UNCHANGED scan
              \/ \E i \in 1..SlotCount + 1 : scan' = [scan EXCEPT ![t] = i]
            <4>0. 1 \in 1..SlotCount + 1
                BY CountTypes
            <4>1. CASE Claim(t)
                BY <4>0, <4>1 DEF Claim, First, Slots
            <4>2. CASE WaitRead(t)
                BY <4>0, <4>2 DEF WaitRead, First
            <4>3. CASE WaitScan(t)
                BY <4>3 DEF WaitScan, First, ScanInSlots, Slots
            <4>4. CASE Lock(t)
                BY <4>4 DEF Lock, First
            <4>5. CASE Scan(t)
                BY <4>5 DEF Scan, Unlock, First, ScanInSlots, Slots
            <4>6. CASE Advance(t)
                BY <4>0, <4>6 DEF Advance, Unlock, First
            <4> QED
                BY <4>1, <4>2, <4>3, <4>4, <4>5, <4>6
                   DEF Step, WaitSet, Create, CheckStatus, Prepare, Check,
                       Publish, Reconnect, Transmit
        <3> QED
            BY <3>1 DEF TypeOK
    <2>6. lmin' \in [Threads -> Nat]
        <3>1. \/ UNCHANGED lmin
              \/ \E v \in Nat : lmin' = [lmin EXCEPT ![t] = v]
            <4>1. CASE Lock(t)
                <5>1. Id(t) \in Nat
                    BY <4>1, ListAssumption DEF Lock, TypeOK, Id, Holding
                <5> QED
                    BY <4>1, <5>1 DEF Lock
            <4>2. CASE Scan(t)
                <5>1. slot[scan[t]] \in Nat \cup {INVALID}
                    BY DEF TypeOK, ScanInSlots
                <5>2. Lower(slot[scan[t]], lmin[t]) \in Nat
                    BY <5>1 DEF Lower, TypeOK
                <5> QED
                    BY <4>2, <5>2 DEF Scan, Unlock
            <4>3. CASE Advance(t)
                BY <4>3 DEF Advance, Unlock
            <4> QED
                BY <4>1, <4>2, <4>3
                   DEF Step, Claim, WaitRead, WaitScan, WaitSet, Create,
                       CheckStatus, Prepare, Check, Publish, Reconnect, Transmit
        <3> QED
            BY <3>1 DEF TypeOK
    <2>7. seen' \in [Threads -> Nat \cup {INVALID}]
        <3>1. \/ UNCHANGED seen
              \/ \E v \in Nat \cup {INVALID} : seen' = [seen EXCEPT ![t] = v]
            <4>1. CASE Lock(t)
                BY <4>1 DEF Lock, TypeOK
            <4>2. CASE Scan(t) \/ Advance(t)
                BY <4>2 DEF Scan, Advance, Unlock
            <4> QED
                BY <4>1, <4>2
                   DEF Step, Claim, WaitRead, WaitScan, WaitSet, Create,
                       CheckStatus, Prepare, Check, Publish, Reconnect, Transmit
        <3> QED
            BY <3>1 DEF TypeOK
    <2>8. /\ node' \in [Threads -> 0..NodeCount]
          /\ hand' \in 1..NodeCount + 1
        <3>1. CASE Prepare(t)
            <4>1. \/ UNCHANGED node
                  \/ \E n \in 1..NodeCount : node' = [node EXCEPT ![t] = n]
                BY <3>1, ListAssumption DEF Prepare, Rest
            <4>2. \/ UNCHANGED hand
                  \/ \E n \in 1..NodeCount + 1 : hand' = n
                <5>1. hand \in 1..NodeCount + 1 /\ NodeCount \in Nat
                    BY ListAssumption DEF TypeOK
                <5>2. \A n \in Nat : 1 <= n /\ n <= NodeCount => n + 1 \in 1..NodeCount + 1
                    BY <5>1
                <5>3. NodeCount + 1 \in 1..NodeCount + 1
                    BY <5>1
                <5>4. \/ hand' = NodeCount + 1
                      \/ \E n \in 1..NodeCount : hand' = n + 1
                    BY <3>1, <5>1, ListAssumption DEF Prepare, Rest
                <5> QED
                    BY <5>2, <5>3, <5>4
            <4> QED
                BY <4>1, <4>2 DEF TypeOK
        <3>2. CASE Reconnect(t)
            BY <3>2 DEF Reconnect, TypeOK
        <3>3. CASE Transmit(t)
            BY <3>3 DEF Transmit, TypeOK
        <3> QED
            BY <3>1, <3>2, <3>3
               DEF Step, Claim, WaitRead, WaitScan, WaitSet, Create,
                   CheckStatus, Check, Publish, Lock, Scan, Advance, TypeOK
    <2>9. /\ locker' \in Threads \cup {None}
          /\ worker' \in [Threads -> BOOLEAN]
          /\ stopped' \in BOOLEAN
        BY FaultAssumption
           DEF Step, Claim, WaitRead, WaitScan, WaitSet, Create, CheckStatus,
               Prepare, Check, Publish, Lock, Scan, Advance, Unlock, Reconnect,
               Transmit, Connects, TypeOK
    <2>10. \A u \in Threads : pc'[u] \in Holding => node'[u] # 0
        <3> SUFFICES ASSUME NEW u \in Threads, pc'[u] \in Holding
                     PROVE  node'[u] # 0
            OBVIOUS
        <3>1. CASE Prepare(t)
            BY <3>1, ListAssumption, SMTT(30) DEF Prepare, Goto, Rest, TypeOK, Holding
        <3>2. CASE Reconnect(t) \/ Transmit(t)
            BY <3>2 DEF Reconnect, Transmit, Goto, TypeOK, Holding
        <3>3. CASE ~(Prepare(t) \/ Reconnect(t) \/ Transmit(t))
            <4>1. UNCHANGED node
                BY <3>3 DEF Step, Claim, WaitRead, WaitScan, WaitSet, Create,
                            CheckStatus, Check, Publish, Lock, Scan, Advance
            <4>2. pc[u] \in Holding
                BY <3>3
                   DEF Step, Claim, WaitRead, WaitScan, WaitSet, Create,
                       CheckStatus, Check, Publish, Lock, Scan, Advance, Goto,
                       TypeOK, Holding
            <4> QED
                BY <4>1, <4>2 DEF TypeOK
        <3> QED
            BY <3>1, <3>2, <3>3
    <2> QED
        BY <2>1, <2>2, <2>3, <2>4, <2>5, <2>6, <2>7, <2>8, <2>9, <2>10
           DEF TypeOK
<1>2. ASSUME TypeOK, Stop PROVE TypeOK'
    BY <1>2 DEF Stop, TypeOK
<1>3. ASSUME TypeOK, UNCHANGED vars PROVE TypeOK'
    BY <1>3 DEF vars, TypeOK
<1> QED
    BY <1>1, <1>2, <1>3 DEF Next, Finished

----------------------------------------------------------------------------
(* The invariant, one lemma per part.                                      *)

\* The actions other than Claim leave ownership alone, and write no slot but
\* their own thread's.
LEMMA OwnFrame ==
    ASSUME TypeOK, NEW t \in Threads, Step(t), pc[t] # "claim"
    PROVE  /\ UNCHANGED mine
           /\ \A u \in Threads : pc'[u] = "claim" <=> pc[u] = "claim"
           /\ \A u \in Threads \ {t} : pc'[u] = pc[u]
           /\ \A i \in Slots : i # mine[t] => slot'[i] = slot[i]
<1>1. UNCHANGED mine
    BY DEF Step, Claim, WaitRead, WaitScan, WaitSet, Create, CheckStatus,
           Prepare, Check, Publish, Lock, Scan, Advance, Reconnect, Transmit
<1>2. \/ UNCHANGED pc
      \/ \E p \in Places \ {"claim"} : pc' = [pc EXCEPT ![t] = p]
    BY DEF Step, Claim, WaitRead, WaitScan, WaitSet, Create, CheckStatus,
           Prepare, Check, Publish, Lock, Scan, Advance, Reconnect, Transmit,
           Goto, Places
<1>3. \/ UNCHANGED slot
      \/ \E v : slot' = [slot EXCEPT ![mine[t]] = v]
    BY DEF Step, Claim, WaitRead, WaitScan, WaitSet, Create, CheckStatus,
           Prepare, Check, Publish, Lock, Scan, Advance, Reconnect, Transmit
<1> QED
    BY <1>1, <1>2, <1>3 DEF TypeOK

\* A thread that is still claiming finds every claimed slot zero.
LEMMA ClaimedZero ==
    ASSUME IInv, NEW t \in Threads, pc[t] = "claim", NEW u \in Threads,
           mine[u] # 0
    PROVE  slot[mine[u]] = 0
BY DEF IInv, IOwn, IStart, Started

LEMMA ClaimStep ==
    ASSUME IInv, NEW t \in Threads, Claim(t)
    PROVE  \/ /\ ~Owned(scan[t])
              /\ scan[t] \in Slots
              /\ slot[scan[t]] = INVALID
              /\ slot' = [slot EXCEPT ![scan[t]] = 0]
              /\ mine' = [mine EXCEPT ![t] = scan[t]]
              /\ pc' = [pc EXCEPT ![t] = "wait"]
              /\ scan' = [scan EXCEPT ![t] = 1]
           \/ /\ Owned(scan[t])
              /\ scan[t] \in Slots
              /\ scan' = [scan EXCEPT ![t] = scan[t] + 1]
              /\ UNCHANGED <<slot, mine, pc>>
<1>1. CASE slot[scan[t]] # 0
    <2>1. ~Owned(scan[t])
        BY <1>1, ClaimedZero DEF Claim, Owned, Slots
    <2>2. slot[scan[t]] = INVALID
        BY <2>1 DEF IInv, IOwn, Claim
    <2> QED
        BY <1>1, <2>1, <2>2 DEF Claim, Goto, First
<1>2. CASE slot[scan[t]] = 0
    <2>1. Owned(scan[t])
        BY <1>2 DEF IInv, IOwn, Claim, INVALID
    <2> QED
        BY <1>2, <2>1 DEF Claim
<1> QED
    BY <1>1, <1>2

LEMMA ClaimOnly ==
    ASSUME NEW t \in Threads, Step(t), pc[t] = "claim"
    PROVE  Claim(t)
BY DEF Step, WaitRead, WaitScan, WaitSet, Create, CheckStatus, Prepare, Check,
       Publish, Lock, Scan, Advance, Reconnect, Transmit

LEMMA StepOwn == ASSUME IInv, [Next]_vars PROVE IOwn'
<1> USE DEF IOwn, Owned
<1>1. ASSUME NEW t \in Threads, Claim(t) PROVE IOwn'
    <2>1. CASE Owned(scan[t])
        BY <1>1, <2>1, ClaimStep DEF IInv
    <2>2. CASE ~Owned(scan[t])
        <3>1. \A u \in Threads : mine[u] # scan[t]
            BY <2>2
        <3>2. /\ scan[t] \in Slots
              /\ slot' = [slot EXCEPT ![scan[t]] = 0]
              /\ mine' = [mine EXCEPT ![t] = scan[t]]
              /\ pc' = [pc EXCEPT ![t] = "wait"]
              /\ mine[t] = 0
            BY <1>1, <2>2, ClaimStep DEF IInv, Claim
        <3> QED
            BY <3>1, <3>2, SMTT(30) DEF IInv, TypeOK, Slots
    <2> QED
        BY <2>1, <2>2
<1>2. ASSUME NEW t \in Threads, Step(t), pc[t] # "claim" PROVE IOwn'
    <2>1. mine[t] \in Slots
        BY <1>2 DEF IInv, TypeOK, Slots
    <2> QED
        BY <1>2, <2>1, OwnFrame DEF IInv
<1>3. CASE Stop \/ UNCHANGED vars
    BY <1>3 DEF Stop, vars, IInv
<1> QED
    BY <1>1, <1>2, <1>3, ClaimOnly DEF Next, Finished

LEMMA AllOwned ==
    ASSUME TypeOK, \A i \in Slots : Owned(i), NEW u \in Threads
    PROVE  mine[u] # 0
BY Pigeonhole DEF TypeOK, Owned

\* Once every slot has an owner, no thread is left claiming.
LEMMA StepStart == ASSUME IInv, [Next]_vars PROVE IStart'
<1> USE CountTypes DEF IStart, Owned
<1>1. ASSUME NEW t \in Threads, Claim(t) PROVE IStart'
    <2>1. pc[t] = "claim" /\ mine[t] = 0
        BY <1>1 DEF Claim, IInv, IOwn
    <2>2. /\ run = INVALID
          /\ \A u \in Threads : ~Started(u) /\ pc[u] # "waitset"
        BY <2>1 DEF IInv
    <2>3. CASE Owned(scan[t])
        <3>1. /\ scan[t] \in Slots
              /\ scan' = [scan EXCEPT ![t] = scan[t] + 1]
              /\ UNCHANGED <<slot, mine, pc, run>>
            BY <1>1, <2>3, ClaimStep DEF Claim
        <3>2. \A i \in Slots : i < scan[t] + 1 => Owned(i)
            BY <2>1, <2>3, <3>1 DEF IInv, Slots
        <3>3. scan[t] # SlotCount
            <4>1. SUFFICES ASSUME scan[t] = SlotCount PROVE FALSE
                OBVIOUS
            <4>2. \A i \in Slots : Owned(i)
                BY <3>2, <4>1 DEF Slots
            <4> QED
                BY <2>1, <4>2, AllOwned DEF IInv
        <3>4. scan[t] + 1 \in Slots
            BY <3>1, <3>3 DEF Slots
        <3> QED
            BY <3>1, <3>2, <3>4 DEF IInv, TypeOK, Started
    <2>4. CASE ~Owned(scan[t])
        <3>1. /\ scan[t] \in Slots
              /\ slot' = [slot EXCEPT ![scan[t]] = 0]
              /\ mine' = [mine EXCEPT ![t] = scan[t]]
              /\ pc' = [pc EXCEPT ![t] = "wait"]
              /\ scan' = [scan EXCEPT ![t] = 1]
              /\ UNCHANGED run
            BY <1>1, <2>4, ClaimStep DEF Claim
        <3>2. \A u \in Threads : ~Started(u)'
            BY <2>2, <3>1 DEF Started, IInv, TypeOK
        <3>3. \A i \in Slots : Owned(i) => Owned(i)'
            BY <2>1, <3>1 DEF IInv, TypeOK, Slots
        <3>4. \A u \in Threads : pc'[u] # "claim" => slot'[mine'[u]] = 0
            BY <2>2, <3>1, <2>4 DEF IInv, IOwn, TypeOK, Slots
        <3>5. 1 \in Slots
            BY DEF Slots
        <3>6. \A u \in Threads : pc'[u] # "wait" => pc'[u] = pc[u] /\ scan'[u] = scan[u]
            BY <3>1 DEF IInv, TypeOK
        <3>7. \A u \in Threads : scan'[u] \in Slots
            BY <3>1, <3>5 DEF IInv, TypeOK
        <3>8. \A u \in Threads : pc'[u] \in {"claim", "waitscan"} =>
                  \A i \in Slots : i < scan'[u] => Owned(i)'
            BY <3>3, <3>6 DEF IInv
        <3>9. \A u \in Threads : pc'[u] # "waitset"
            BY <2>2, <3>1 DEF IInv, TypeOK
        <3> QED
            BY <2>2, <3>1, <3>2, <3>4, <3>7, <3>8, <3>9 DEF IInv
    <2> QED
        BY <2>3, <2>4
<1>2. ASSUME NEW t \in Threads, WaitRead(t) PROVE IStart'
    <2>1. /\ UNCHANGED <<slot, run, mine>>
          /\ \/ run = 0 /\ pc' = [pc EXCEPT ![t] = "create"]
             \/ pc' = [pc EXCEPT ![t] = "waitscan"]
          /\ scan' = [scan EXCEPT ![t] = 1]
          /\ pc[t] = "wait"
        BY <1>2 DEF WaitRead, Goto, First
    <2>2. 1 \in Slots /\ \A i \in Slots : ~(i < 1)
        BY DEF Slots
    <2>3. \A u \in Threads : pc'[u] = "claim" <=> pc[u] = "claim"
        BY <2>1 DEF IInv, TypeOK
    <2>4. \A u \in Threads : Started(u)' => Started(u) \/ run = 0
        BY <2>1 DEF IInv, TypeOK, Started
    <2>5. \A u \in Threads : pc'[u] = "waitset" => pc[u] = "waitset"
        BY <2>1 DEF IInv, TypeOK
    <2>6. \A u \in Threads : pc'[u] \in {"claim", "waitscan"} =>
              scan'[u] = 1 \/ (pc[u] = pc'[u] /\ scan'[u] = scan[u])
        <3>1. scan'[t] = 1 /\ \A u \in Threads \ {t} :
                                pc'[u] = pc[u] /\ scan'[u] = scan[u]
            BY <2>1 DEF IInv, TypeOK
        <3> QED
            BY <3>1
    <2>7. \A u \in Threads : ~Started(u)' => ~Started(u)
        BY <2>1 DEF IInv, TypeOK, Started
    <2>8. \A u \in Threads : scan'[u] \in Slots
        BY <2>1, <2>2 DEF IInv, TypeOK
    <2>9. \A u \in Threads : pc'[u] \in {"claim", "waitscan"} =>
              \A i \in Slots : i < scan'[u] => Owned(i)'
        BY <2>1, <2>2, <2>6 DEF IInv
    <2> QED
        BY <2>1, <2>3, <2>4, <2>5, <2>7, <2>8, <2>9 DEF IInv, INVALID
<1>3. ASSUME NEW t \in Threads, WaitScan(t) PROVE IStart'
    <2>1. /\ pc[t] = "waitscan"
          /\ UNCHANGED <<slot, run, mine>>
          /\ scan[t] \in Slots
        BY <1>3 DEF WaitScan, IInv
    <2>0. 1 \in Slots
        BY DEF Slots
    <2>2. CASE pc' = [pc EXCEPT ![t] = "wait"] /\ scan' = [scan EXCEPT ![t] = 1]
        BY <2>0, <2>1, <2>2 DEF IInv, TypeOK, Started
    <2>3. CASE slot[scan[t]] = 0
        <3>1. \A i \in Slots : i <= scan[t] => Owned(i)
            BY <2>1, <2>3 DEF IInv, IOwn, INVALID, Slots
        <3>2. CASE scan[t] < SlotCount
            <4>1. /\ scan' = [scan EXCEPT ![t] = scan[t] + 1]
                  /\ pc' = pc
                BY <1>3, <2>3, <3>2 DEF WaitScan
            <4>2. scan[t] + 1 \in Slots
                BY <2>1, <3>2 DEF Slots
            <4>3. \A i \in Slots : i < scan[t] + 1 => Owned(i)
                BY <2>1, <3>1 DEF Slots
            <4> QED
                BY <2>1, <4>1, <4>2, <4>3 DEF IInv, TypeOK, Started
        <3>3. CASE scan[t] = SlotCount
            <4>1. /\ scan' = [scan EXCEPT ![t] = 1]
                  /\ pc' = [pc EXCEPT ![t] = "waitset"]
                BY <1>3, <2>3, <3>3 DEF WaitScan, Goto, First
            <4>2. \A u \in Threads : pc[u] # "claim"
                BY <3>1, <3>3, AllOwned DEF IInv, IOwn, Slots
            <4> QED
                BY <2>0, <2>1, <4>1, <4>2 DEF IInv, TypeOK, Started
        <3> QED
            BY <2>1, <3>2, <3>3 DEF Slots
    <2> QED
        BY <1>3, <2>2, <2>3 DEF WaitScan, Goto, First
<1>4. ASSUME NEW t \in Threads, WaitSet(t) PROVE IStart'
    <2>1. /\ pc[t] = "waitset"
          /\ UNCHANGED <<slot, mine, scan>>
          /\ run' = 0
          /\ pc' = [pc EXCEPT ![t] = "create"]
        BY <1>4 DEF WaitSet, Goto
    <2> QED
        BY <2>1 DEF IInv, TypeOK, Started, INVALID
<1>5. ASSUME NEW t \in Threads, Step(t), Started(t) PROVE IStart'
    <2>1. /\ \A u \in Threads : pc[u] # "claim" /\ pc'[u] # "claim"
          /\ \A u \in Threads : Started(u)' <=> Started(u)
          /\ \A u \in Threads : pc'[u] = "waitscan" <=> pc[u] = "waitscan"
        <3>1. \/ UNCHANGED pc
              \/ \E p \in Places \ {"claim", "wait", "waitscan", "waitset"} :
                    pc' = [pc EXCEPT ![t] = p]
            BY <1>5
               DEF Step, Claim, WaitRead, WaitScan, WaitSet, Create,
                   CheckStatus, Prepare, Check, Publish, Lock, Scan, Advance,
                   Reconnect, Transmit, Goto, Places, Started
        <3> QED
            BY <1>5, <3>1 DEF IInv, TypeOK, Started
    <2>0. 1 \in Slots
        BY DEF Slots
    <2>2. \/ UNCHANGED scan
          \/ \E i \in Slots : scan' = [scan EXCEPT ![t] = i]
        <3>1. CASE Lock(t)
            BY <3>1 DEF Lock, First, Slots
        <3>2. CASE Scan(t)
            BY <3>2 DEF Scan, Unlock, First, IInv, Slots
        <3>3. CASE Advance(t)
            BY <2>0, <3>3 DEF Advance, Unlock, First
        <3> QED
            BY <1>5, <3>1, <3>2, <3>3
               DEF Step, Claim, WaitRead, WaitScan, WaitSet, Create,
                   CheckStatus, Prepare, Check, Publish, Reconnect,
                   Transmit, Started
    <2>3. run' # INVALID
        <3>1. CASE Advance(t)
            BY <3>1 DEF Advance, IInv, TypeOK, INVALID
        <3> QED
            BY <1>5, <3>1
               DEF Step, Claim, WaitRead, WaitScan, WaitSet, Create,
                   CheckStatus, Prepare, Check, Publish, Lock, Scan,
                   Reconnect, Transmit, Started, IInv
    <2>4. ASSUME NEW u \in Threads, ~Started(u)
          PROVE  run' = 0 /\ slot'[mine'[u]] = 0
        <3>1. run = 0 /\ mine[u] \in Slots /\ slot[mine[u]] = 0
            BY <1>5, <2>1, <2>4, SMTT(30) DEF IInv, TypeOK, IOwn, Slots
        <3>2. run' = run
            <4>1. ~Advance(t)
                BY <3>1 DEF Advance, IInv, IScan, Scanning
            <4> QED
                BY <1>5, <4>1
                   DEF Step, Claim, WaitRead, WaitScan, WaitSet, Create,
                       CheckStatus, Prepare, Check, Publish, Lock, Scan,
                       Reconnect, Transmit, Started
        <3>3. u # t /\ mine[u] # mine[t] /\ mine[u] # 0
            BY <1>5, <2>1, <2>4 DEF IInv, IOwn
        <3> QED
            BY <1>5, <2>1, <3>1, <3>2, <3>3, OwnFrame DEF IInv
    <2>5. UNCHANGED mine
        BY <1>5, <2>1, OwnFrame DEF IInv
    <2>6. \A u \in Threads : scan'[u] \in Slots
        BY <2>2 DEF IInv, TypeOK
    <2>7. \A u \in Threads : pc'[u] = "waitscan" =>
              scan'[u] = scan[u] /\ pc[u] = "waitscan"
        BY <1>5, <2>1, <2>2 DEF IInv, TypeOK, Started
    <2> QED
        BY <2>1, <2>3, <2>4, <2>5, <2>6, <2>7 DEF IInv
<1>6. CASE Stop \/ UNCHANGED vars
    BY <1>6 DEF Stop, vars, IInv, Started
<1> QED
    BY <1>1, <1>2, <1>3, <1>4, <1>5, <1>6, FirstSteps DEF Next, Finished

\* The actions of a started thread: the others' places, nodes and slots stay
\* as they are, and ARRAY_VALUE moves in Advance only.
LEMMA StartedFrame ==
    ASSUME IInv, NEW t \in Threads, Step(t), Started(t)
    PROVE  /\ pc[t] # "claim"
           /\ mine[t] \in Slots
           /\ run # INVALID /\ run \in Nat
           /\ UNCHANGED mine
           /\ ~Advance(t) => UNCHANGED run
           /\ \A u \in Threads \ {t} :
                /\ pc'[u] = pc[u]
                /\ node'[u] = node[u]
                /\ mine[u] # mine[t]
                /\ mine[u] \in Slots
                /\ slot'[mine[u]] = slot[mine[u]]
<1>1. pc[t] # "claim" /\ run # INVALID /\ run \in Nat
    BY DEF Started, IInv, IStart, TypeOK
<1>2. \A u \in Threads : mine[u] \in Slots
    BY DEF IInv, IStart, IOwn, TypeOK, Slots
<1>3. ~Advance(t) => UNCHANGED run
    BY DEF Step, Claim, WaitRead, WaitScan, WaitSet, Create, CheckStatus,
           Prepare, Check, Publish, Lock, Scan, Reconnect, Transmit, Started
<1>4. UNCHANGED node \/ \E n : node' = [node EXCEPT ![t] = n]
    BY DEF Step, Claim, WaitRead, WaitScan, WaitSet, Create, CheckStatus,
           Prepare, Check, Publish, Lock, Scan, Advance, Reconnect, Transmit
<1>5. \A u \in Threads \ {t} : node'[u] = node[u]
    BY <1>4 DEF IInv, TypeOK
<1>6. \A u \in Threads \ {t} : mine[u] # mine[t]
    BY <1>2 DEF IInv, IOwn, Slots
<1> QED
    BY <1>1, <1>2, <1>3, <1>5, <1>6, OwnFrame DEF IInv

\* In a scan that ended without meeting ARRAY_VALUE, every other thread is
\* waiting for an array at or above the minimum found, or has released its
\* slot.
LEMMA AtAdvance ==
    ASSUME IInv, NEW t \in Threads, pc[t] = "advance"
    PROVE  /\ run < lmin[t] /\ lmin[t] <= Id(t) /\ lmin[t] \in Nat
           /\ \A i \in Slots : slot[i] # INVALID => lmin[t] <= slot[i]
           /\ \A u \in Threads :
                /\ Started(u)
                /\ pc[u] \notin Ready
                /\ pc[u] = "exit" => slot[mine[u]] = INVALID
                /\ pc[u] \in Waiting => lmin[t] <= Id(u)
<1>1. Started(t) /\ run # INVALID /\ run \in Nat
    BY DEF Started, IInv, IStart, TypeOK
<1>2. \A u \in Threads : mine[u] \in Slots
    BY <1>1 DEF IInv, IStart, IOwn, TypeOK, Slots
<1>3. \A i \in Slots : slot[i] # run /\ (slot[i] # INVALID => lmin[t] <= slot[i])
    BY DEF IInv, IScan, Scanning
<1>4. \A u \in Threads : Started(u)
    BY <1>1, <1>2, <1>3 DEF IInv, IStart
<1>5. \A u \in Threads : pc[u] \in Waiting => Id(u) # INVALID
    BY ListAssumption DEF IInv, TypeOK, Waiting, Holding, Id, INVALID
<1> QED
    BY <1>1, <1>2, <1>3, <1>4, <1>5
       DEF IInv, ISlot, IScan, Scanning, TypeOK

LEMMA StepSlot == ASSUME IInv, [Next]_vars PROVE ISlot'
<1> USE DEF ISlot
<1>1. ASSUME NEW t \in Threads, Claim(t) PROVE ISlot'
    <2>1. pc[t] = "claim" /\ run = INVALID /\ UNCHANGED run
        BY <1>1 DEF Claim, IInv, IStart
    <2>2. /\ \A u \in Threads : pc'[u] \notin Ready \cup Waiting \cup {"exit"}
          /\ slot' = slot \/ slot' = [slot EXCEPT ![scan[t]] = 0]
        <3>1. \A u \in Threads : pc[u] \notin Ready \cup Waiting \cup {"exit"}
            BY <2>1 DEF IInv, IStart, Started, Ready, Waiting
        <3>2. pc' = pc \/ pc' = [pc EXCEPT ![t] = "wait"]
            BY <1>1 DEF Claim, Goto
        <3> QED
            BY <1>1, <3>1, <3>2, ClaimStep DEF IInv, TypeOK, Ready, Waiting
    <2>3. \A i \in Slots : slot'[i] # INVALID => slot'[i] >= run'
        BY <2>1, <2>2 DEF IInv, TypeOK, INVALID
    <2> QED
        BY <2>2, <2>3
<1>2. ASSUME NEW t \in Threads, WaitRead(t) \/ WaitScan(t) \/ WaitSet(t)
      PROVE  ISlot'
    <2>1. /\ UNCHANGED <<slot, mine, node>>
          /\ ~Started(t) /\ pc[t] # "claim"
        BY <1>2 DEF WaitRead, WaitScan, WaitSet, Started
    <2>2. /\ slot[mine[t]] = 0
          /\ run \in {INVALID, 0}
          /\ run' \in {run, 0}
          /\ pc'[t] = "create" => run' = 0
          /\ pc'[t] \in {"create", "wait", "waitscan", "waitset"}
        BY <1>2, <2>1
           DEF WaitRead, WaitScan, WaitSet, Goto, IInv, IStart, TypeOK
    <2>3. ASSUME NEW u \in Threads \ {t}
          PROVE  pc'[u] = pc[u] /\ (Started(u) => run' = run)
        BY <1>2, <2>2
           DEF WaitRead, WaitScan, WaitSet, Goto, IInv, IStart, TypeOK
    <2>4. \A i \in Slots : slot'[i] # INVALID => slot'[i] >= run'
        BY <2>1, <2>2 DEF IInv, TypeOK, INVALID
    <2>5. ASSUME NEW u \in Threads \ {t}
          PROVE  /\ pc'[u] \in Ready => slot'[mine'[u]] = run'
                 /\ pc'[u] \in Waiting => slot'[mine'[u]] = Id(u)'
                 /\ pc'[u] = "exit" => slot'[mine'[u]] \in {INVALID, run'}
        BY <2>1, <2>3 DEF IInv, Started, Ready, Waiting, Id
    <2> QED
        BY <2>1, <2>2, <2>4, <2>5 DEF Ready, Waiting
<1>3. ASSUME NEW t \in Threads, Advance(t) PROVE ISlot'
    <2>1. /\ pc[t] = "advance" /\ Started(t)
          /\ UNCHANGED <<slot, mine, node>>
          /\ run' = lmin[t]
          /\ pc'[t] = IF lmin[t] = Id(t) THEN "worker" ELSE "lock"
          /\ \A u \in Threads \ {t} : pc'[u] = pc[u]
        BY <1>3 DEF Advance, Goto, Started, IInv, TypeOK
    <2>2. slot[mine[t]] = Id(t)
        BY <2>1 DEF IInv, Waiting
    <2>3. \A i \in Slots : slot'[i] # INVALID => slot'[i] >= run'
        BY <2>1, AtAdvance DEF IInv, TypeOK, INVALID
    <2>4. ASSUME NEW u \in Threads \ {t}
          PROVE  /\ pc'[u] \in Ready => slot'[mine'[u]] = run'
                 /\ pc'[u] \in Waiting => slot'[mine'[u]] = Id(u)'
                 /\ pc'[u] = "exit" => slot'[mine'[u]] \in {INVALID, run'}
        BY <2>1, AtAdvance DEF IInv, Id
    <2> QED
        BY <2>1, <2>2, <2>3, <2>4 DEF Ready, Waiting, Id
<1>4. ASSUME NEW t \in Threads, Step(t), Started(t), ~Advance(t) PROVE ISlot'
    <2>1. /\ mine[t] \in Slots
          /\ UNCHANGED <<run, mine>>
        BY <1>4, StartedFrame
    <2>2. ASSUME NEW u \in Threads \ {t}
          PROVE  /\ pc'[u] \in Ready => slot'[mine'[u]] = run'
                 /\ pc'[u] \in Waiting => slot'[mine'[u]] = Id(u)'
                 /\ pc'[u] = "exit" => slot'[mine'[u]] \in {INVALID, run'}
        BY <1>4, <2>1, StartedFrame DEF IInv, Id
    <2>3. /\ pc'[t] \in Ready => slot'[mine[t]] = run
          /\ pc'[t] \in Waiting => slot'[mine[t]] = Id(t)'
          /\ pc'[t] = "exit" => slot'[mine[t]] \in {INVALID, run}
          /\ slot'[mine[t]] # INVALID => slot'[mine[t]] >= run
        <3> USE <2>1
        <3>1. CASE Create(t) \/ CheckStatus(t) \/ Check(t)
            BY <3>1 DEF Create, CheckStatus, Check, Goto, IInv, TypeOK, Ready,
                        Waiting
        <3>2. CASE Prepare(t)
            BY <3>2 DEF Prepare, Goto, IInv, TypeOK, Ready, Waiting
        <3>3. CASE Publish(t)
            <4>1. Id(t) >= run
                BY <3>3 DEF Publish, IInv, IAhead, Holding
            <4> QED
                BY <3>3, <4>1
                   DEF Publish, Goto, IInv, TypeOK, Ready, Waiting, Id
        <3>4. CASE Lock(t)
            BY <3>4 DEF Lock, Goto, IInv, TypeOK, Ready, Waiting, Id
        <3>5. CASE Scan(t)
            <4>1. /\ UNCHANGED <<slot, node>>
                  /\ pc[t] = "scan"
                  /\ pc'[t] \in Waiting
                BY <3>5 DEF Scan, Goto, IInv, TypeOK, Waiting
            <4> QED
                BY <4>1 DEF IInv, Ready, Waiting, Id
        <3>6. CASE Reconnect(t) \/ Transmit(t)
            <4>1. /\ UNCHANGED slot
                  /\ pc[t] \in Ready
                  /\ pc'[t] \in {"transmit", "exit", "status"}
                BY <3>6 DEF Reconnect, Transmit, Goto, IInv, TypeOK, Ready
            <4> QED
                BY <4>1 DEF IInv, Ready, Waiting
        <3> QED
            BY <1>4, <3>1, <3>2, <3>3, <3>4, <3>5, <3>6
               DEF Step, Claim, WaitRead, WaitScan, WaitSet, Started
    <2>4. \A i \in Slots : i # mine[t] => slot'[i] = slot[i]
        BY <1>4, StartedFrame, OwnFrame DEF IInv
    <2> QED
        BY <2>1, <2>2, <2>3, <2>4 DEF IInv
<1>5. CASE Stop \/ UNCHANGED vars
    BY <1>5 DEF Stop, vars, IInv, Id
<1> QED
    BY <1>1, <1>2, <1>3, <1>4, <1>5, FirstSteps DEF Next, Finished

LEMMA StepAhead == ASSUME IInv, [Next]_vars PROVE IAhead'
<1> USE DEF IAhead
<1>1. ASSUME NEW t \in Threads, ~Started(t), Step(t) PROVE IAhead'
    <2>1. /\ UNCHANGED <<node, hand>>
          /\ run' = run \/ (run \in {INVALID, 0} /\ run' = 0)
          /\ \A u \in Threads : pc'[u] = pc[u] \/ pc'[u] \notin Holding
        <3>1. CASE Claim(t) \/ WaitRead(t) \/ WaitScan(t)
            BY <3>1 DEF Claim, WaitRead, WaitScan, Goto, Holding, IInv, TypeOK
        <3>2. CASE WaitSet(t)
            <4>1. run \in {INVALID, 0}
                BY <1>1 DEF IInv, IStart
            <4> QED
                BY <3>2, <4>1 DEF WaitSet, Goto, Holding, IInv, TypeOK
        <3> QED
            BY <1>1, <3>1, <3>2, FirstSteps
    <2>2. ASSUME NEW u \in Threads, pc[u] \in Holding
          PROVE  run' = run
        BY <2>1, <2>2 DEF IInv, IStart, Started, Holding
    <2>3. \A n \in 1..NodeCount : n >= hand => ArrayOf[n] >= run'
        BY <2>1, ListAssumption DEF IInv
    <2> QED
        BY <2>1, <2>2, <2>3 DEF IInv, Id, Holding, Scanning
<1>2. ASSUME NEW t \in Threads, Advance(t) PROVE IAhead'
    <2>1. /\ pc[t] = "advance" /\ Started(t)
          /\ UNCHANGED <<node, hand>>
          /\ run' = lmin[t]
          /\ pc'[t] = IF lmin[t] = Id(t) THEN "worker" ELSE "lock"
          /\ \A u \in Threads \ {t} : pc'[u] = pc[u]
        BY <1>2 DEF Advance, Goto, Started, IInv, TypeOK
    <2>2. \A n \in 1..NodeCount : n >= hand => ArrayOf[n] >= run'
        <3>1. node[t] \in 1..NodeCount /\ node[t] < hand /\ lmin[t] <= Id(t)
            BY <2>1, AtAdvance DEF IInv, TypeOK, Holding
        <3> QED
            BY <2>1, <3>1, ListAssumption DEF Id, IInv, TypeOK
    <2>3. ASSUME NEW u \in Threads \ {t}, pc'[u] \in Holding
          PROVE  /\ Id(u) >= run'
                 /\ pc'[u] \notin Ready \cup Scanning
        <3>1. pc[u] \in Waiting
            BY <2>1, <2>3, AtAdvance DEF Holding, Ready, Waiting
        <3>2. pc[u] \notin Scanning
            BY <2>1, <2>3 DEF IInv, IScan, Scanning
        <3> QED
            BY <2>1, <3>1, <3>2, AtAdvance DEF Ready, Waiting, IInv, TypeOK, Id
    <2>4. \A u \in Threads : pc'[u] \in Holding =>
              pc[u] \in Holding /\ Id(u)' = Id(u)
        BY <2>1 DEF Holding, Id
    <2>5. Id(t) >= run' /\ (pc'[t] = "worker" => Id(t) = run')
        BY <2>1, AtAdvance DEF IInv, TypeOK
    <2> QED
        BY <2>1, <2>2, <2>3, <2>4, <2>5 DEF IInv, Ready, Scanning
<1>3. ASSUME NEW t \in Threads, Step(t), Started(t), ~Advance(t) PROVE IAhead'
    <2>1. UNCHANGED run /\ run \in Nat
        BY <1>3, StartedFrame
    <2>2. /\ hand' >= hand /\ hand \in Nat /\ hand' \in Nat
          /\ \A n \in 1..NodeCount : n >= hand' => n >= hand
        <3>1. hand \in 1..NodeCount + 1 /\ NodeCount \in Nat
            BY ListAssumption DEF IInv, TypeOK
        <3>2. CASE Prepare(t)
            <4>1. \/ hand' = NodeCount + 1
                  \/ \E n \in Rest : hand' = n + 1
                  \/ \E n \in hand..NodeCount : hand' = n + 1
                BY <3>2 DEF Prepare
            <4>2. \A n \in Rest : n \in 1..NodeCount /\ n >= hand
                BY ListAssumption DEF Rest
            <4>3. CASE hand' = NodeCount + 1
                BY <3>1, <4>3
            <4>4. CASE \E n \in Rest : hand' = n + 1
                BY <3>1, <4>2, <4>4
            <4>5. CASE \E n \in hand..NodeCount : hand' = n + 1
                BY <3>1, <4>5
            <4> QED
                BY <4>1, <4>3, <4>4, <4>5
        <3>3. CASE ~Prepare(t)
            <4>1. UNCHANGED hand
                BY <1>3, <3>3
                   DEF Step, Claim, WaitRead, WaitScan, WaitSet, Create,
                       CheckStatus, Check, Publish, Lock, Scan, Reconnect,
                       Transmit
            <4> QED
                BY <3>1, <4>1
        <3> QED
            BY <3>2, <3>3
    <2>3. ASSUME NEW u \in Threads \ {t}, pc'[u] \in Holding
          PROVE  /\ node'[u] < hand'
                 /\ Id(u)' >= run'
                 /\ pc'[u] \in Scanning \cup {"publish"} => Id(u)' # run'
                 /\ pc'[u] \in {"worker", "transmit"} => Id(u)' = run'
        <3>1. pc'[u] = pc[u] /\ node'[u] = node[u] /\ node[u] \in Nat
            BY <1>3, StartedFrame DEF IInv, TypeOK
        <3> QED
            BY <2>1, <2>2, <2>3, <3>1 DEF IInv, Id
    <2>4. ASSUME pc'[t] \in Holding
          PROVE  /\ node'[t] < hand'
                 /\ Id(t)' >= run'
                 /\ pc'[t] \in Scanning \cup {"publish"} => Id(t)' # run'
                 /\ pc'[t] \in {"worker", "transmit"} => Id(t)' = run'
        <3> USE <2>4, <2>1, <2>2
        <3>1. CASE Prepare(t)
            <4>1. PICK n \in Rest : /\ node' = [node EXCEPT ![t] = n]
                                    /\ hand' = n + 1
                                    /\ pc' = [pc EXCEPT ![t] = "check"]
                BY <3>1 DEF Prepare, Goto, IInv, TypeOK, Holding
            <4>2. /\ n \in 1..NodeCount /\ n >= hand
                  /\ node'[t] = n /\ pc'[t] = "check"
                BY <4>1, ListAssumption DEF Rest, IInv, TypeOK
            <4>3. ArrayOf[n] >= run'
                BY <4>2 DEF IInv
            <4> QED
                BY <4>1, <4>2, <4>3 DEF Id, Scanning
        <3>2. CASE ~Prepare(t)
            <4>1. node'[t] = node[t] /\ pc[t] \in Holding
                <5>1. CASE Create(t) \/ CheckStatus(t)
                    BY <5>1 DEF Create, CheckStatus, Goto, Holding, IInv, TypeOK
                <5>2. CASE Check(t) \/ Publish(t) \/ Lock(t)
                    BY <5>2 DEF Check, Publish, Lock, Holding
                <5>3. CASE Scan(t) \/ Reconnect(t)
                    BY <5>3 DEF Scan, Reconnect, Holding, Goto, IInv, TypeOK
                <5>4. CASE Transmit(t)
                    BY <5>4 DEF Transmit, Holding, Goto, IInv, TypeOK
                <5> QED
                    BY <1>3, <3>2, <5>1, <5>2, <5>3, <5>4, LaterSteps
            <4>2. Id(t)' = Id(t) /\ Id(t) >= run' /\ node[t] < hand'
                BY <4>1 DEF Id, IInv, TypeOK
            <4>3. /\ pc'[t] \in Scanning \cup {"publish"} => Id(t) # run
                  /\ pc'[t] \in {"worker", "transmit"} => Id(t) = run
                <5> USE DEF IInv, TypeOK, Goto, Scanning
                <5>1. CASE Check(t)
                    BY <5>1 DEF Check
                <5>2. CASE Publish(t)
                    BY <5>2 DEF Publish
                <5>3. CASE Lock(t)
                    BY <5>3 DEF Lock
                <5>4. CASE Scan(t)
                    BY <5>4, <4>1 DEF Scan
                <5>5. CASE Reconnect(t) \/ Transmit(t)
                    BY <5>5, <4>1 DEF Reconnect, Transmit
                <5>6. CASE Create(t) \/ CheckStatus(t)
                    BY <5>6 DEF Create, CheckStatus
                <5> QED
                    BY <1>3, <3>2, <5>1, <5>2, <5>3, <5>4, <5>5, <5>6, LaterSteps
            <4> QED
                BY <4>1, <4>2, <4>3
        <3> QED
            BY <3>1, <3>2
    <2> QED
        BY <2>1, <2>2, <2>3, <2>4 DEF IInv
<1>4. CASE Stop \/ UNCHANGED vars
    BY <1>4 DEF Stop, vars, IInv, Id
<1> QED
    BY <1>1, <1>2, <1>3, <1>4 DEF Next, Finished

LEMMA StepScan == ASSUME IInv, [Next]_vars PROVE IScan'
<1> USE DEF IScan
<1>1. ASSUME NEW t \in Threads, ~Started(t), Step(t) PROVE IScan'
    <2>1. /\ UNCHANGED <<node, locker, lmin, seen>>
          /\ run' = run \/ run' = 0
          /\ pc[t] \notin Scanning /\ pc'[t] \notin Scanning
          /\ \A u \in Threads \ {t} : pc'[u] = pc[u] /\ scan'[u] = scan[u]
        BY <1>1, FirstSteps
           DEF Claim, WaitRead, WaitScan, WaitSet, First, Goto, Scanning, IInv, TypeOK
    <2>2. ASSUME NEW u \in Threads, pc[u] \in Scanning
          PROVE  UNCHANGED <<run, slot>>
        <3>1. Started(u) /\ run = 0 /\ pc[t] # "claim"
            BY <1>1, <2>2 DEF Started, Scanning, IInv, IStart
        <3> QED
            BY <1>1, <2>1, <3>1
               DEF Step, Claim, WaitRead, WaitScan, WaitSet, Create,
                   CheckStatus, Prepare, Check, Publish, Lock, Scan, Advance,
                   Reconnect, Transmit, Started
    <2> QED
        BY <2>1, <2>2 DEF IInv, Id
<1>2. ASSUME NEW t \in Threads, Step(t), Started(t), pc[t] \in Scanning
      PROVE  IScan'
    <2>1. locker = t /\ \A u \in Threads \ {t} : pc'[u] \notin Scanning
        BY <1>2, StartedFrame DEF IInv
    <2>2. CASE Advance(t)
        <3>1. locker' = None /\ pc'[t] \notin Scanning
            BY <2>2 DEF Advance, Unlock, Goto, Scanning, IInv, TypeOK
        <3> QED
            BY <2>1, <3>1, ThreadAssumption
    <2>3. CASE Scan(t) /\ slot[scan[t]] = seen[t]
        <3>1. locker' = None /\ pc'[t] = "lock"
            BY <2>3 DEF Scan, Unlock, Goto, IInv, TypeOK
        <3> QED
            BY <2>1, <3>1, ThreadAssumption DEF Scanning
    <2>4. CASE Scan(t) /\ slot[scan[t]] # seen[t]
        <3> DEFINE v == slot[scan[t]]
        <3>1. /\ pc[t] = "scan" /\ seen[t] = run /\ v # run
              /\ scan[t] \in Slots
              /\ UNCHANGED <<slot, run, seen, node, locker>>
              /\ lmin' = [lmin EXCEPT ![t] = Lower(v, lmin[t])]
              /\ \/ scan[t] = SlotCount /\ pc'[t] = "advance" /\ scan' = scan
                 \/ /\ scan[t] # SlotCount
                    /\ pc'[t] = "scan"
                    /\ scan' = [scan EXCEPT ![t] = scan[t] + 1]
            BY <2>4 DEF Scan, Goto, IInv, IStart, TypeOK, Scanning
        <3>2. /\ run < lmin[t] /\ lmin[t] <= Id(t)
              /\ \A i \in Slots : i < scan[t] =>
                    /\ slot[i] # run
                    /\ slot[i] # INVALID => lmin[t] <= slot[i]
            BY <3>1 DEF IInv, Scanning
        <3>3. /\ v \in Nat \cup {INVALID} /\ lmin[t] \in Nat
              /\ run \in Nat \cup {INVALID} /\ Id(t) \in Nat
              /\ v # INVALID => v > run
            BY <3>1, ListAssumption, SMTT(30)
               DEF IInv, TypeOK, ISlot, Id, Holding, INVALID
        <3>4. /\ lmin'[t] = Lower(v, lmin[t])
              /\ run < lmin'[t] /\ lmin'[t] <= lmin[t]
              /\ v # INVALID => lmin'[t] <= v
            <4>1. lmin'[t] = Lower(v, lmin[t])
                BY <3>1 DEF IInv, TypeOK
            <4> QED
                BY <3>2, <3>3, <4>1 DEF Lower, INVALID
        <3>5. \A i \in Slots : i < scan[t] \/ i = scan[t] =>
                    /\ slot[i] # run
                    /\ slot[i] # INVALID => lmin'[t] <= slot[i]
            <4>1. \A i \in Slots : slot[i] \in Nat \cup {INVALID}
                BY DEF IInv, TypeOK
            <4>2. lmin'[t] \in Nat
                BY <3>3, <3>4 DEF Lower
            <4> QED
                BY <3>1, <3>2, <3>3, <3>4, <4>1, <4>2 DEF INVALID
        <3>6. \A i \in Slots : pc'[t] = "advance" \/ i < scan'[t] =>
                                   i < scan[t] \/ i = scan[t]
            BY <3>1, CountTypes DEF Slots, IInv, TypeOK
        <3>7. lmin'[t] <= Id(t)
            BY <3>2, <3>3, <3>4 DEF Lower
        <3> QED
            BY <2>1, <3>1, <3>4, <3>5, <3>6, <3>7 DEF Id, Scanning
    <2> QED
        BY <1>2, <2>2, <2>3, <2>4
           DEF Step, Claim, WaitRead, WaitScan, WaitSet, Create, CheckStatus,
               Prepare, Check, Publish, Lock, Reconnect, Transmit, Scanning
<1>3. ASSUME NEW t \in Threads, Lock(t) PROVE IScan'
    <2>1. /\ locker = None /\ pc[t] = "lock" /\ Started(t)
          /\ UNCHANGED <<slot, run, node>>
          /\ \A u \in Threads : pc[u] \notin Scanning
          /\ \A u \in Threads \ {t} : pc'[u] \notin Scanning
        BY <1>3, ThreadAssumption DEF Lock, Goto, Started, IInv, TypeOK
    <2>2. CASE run = Id(t)
        BY <1>3, <2>1, <2>2, ThreadAssumption
           DEF Lock, Goto, Scanning, IInv, TypeOK
    <2>3. CASE run # Id(t)
        <3>1. /\ locker' = t /\ seen'[t] = run /\ lmin'[t] = Id(t)
              /\ scan'[t] = 1 /\ pc'[t] = "scan"
            BY <1>3, <2>3 DEF Lock, First, Goto, IInv, TypeOK
        <3>2. run < Id(t)
            <4>1. Id(t) >= run
                BY <2>1 DEF IInv, IAhead, Holding
            <4>2. Id(t) \in Nat /\ run \in Nat \cup {INVALID}
                BY <2>1, ListAssumption DEF IInv, TypeOK, Holding, Id
            <4> QED
                BY <2>3, <4>1, <4>2 DEF INVALID
        <3>3. Id(t) <= Id(t)
            BY <2>1, ListAssumption DEF IInv, TypeOK, Holding, Id
        <3>4. \A i \in Slots : ~(i < 1)
            BY DEF Slots
        <3> QED
            BY <2>1, <3>1, <3>2, <3>3, <3>4 DEF Id, Scanning
    <2> QED
        BY <2>2, <2>3
<1>4. ASSUME NEW t \in Threads, Step(t), Started(t), pc[t] \notin Scanning,
             ~Lock(t)
      PROVE  IScan'
    <2>1. /\ UNCHANGED <<run, locker, lmin, seen, scan>>
          /\ pc'[t] \notin Scanning
        <3> USE DEF Goto, Scanning, IInv, TypeOK
        <3>1. CASE Create(t) \/ CheckStatus(t) \/ Prepare(t)
            BY <3>1 DEF Create, CheckStatus, Prepare
        <3>2. CASE Check(t) \/ Publish(t)
            BY <3>2 DEF Check, Publish
        <3>3. CASE Reconnect(t) \/ Transmit(t)
            BY <3>3 DEF Reconnect, Transmit
        <3>4. ~Scan(t) /\ ~Advance(t)
            BY <1>4 DEF Scan, Advance
        <3> QED
            BY <1>4, <3>1, <3>2, <3>3, <3>4, LaterSteps
    <2>2. ASSUME NEW u \in Threads \ {t}, pc[u] \in Scanning, NEW i \in Slots,
                 pc[u] = "advance" \/ i < scan[u]
          PROVE  /\ slot'[i] # run
                 /\ slot'[i] # INVALID => lmin[u] <= slot'[i]
        <3>1. CASE i # mine[t]
            BY <1>4, <2>2, <3>1, OwnFrame, StartedFrame DEF IInv
        <3>2. CASE i = mine[t]
            <4>1. slot[i] # run
                BY <2>2 DEF IInv
            <4>2. pc[t] \notin Ready
                BY <3>2, <4>1 DEF IInv, ISlot
            <4>3. UNCHANGED slot
                BY <1>4, <4>2
                   DEF Step, Claim, WaitRead, WaitScan, WaitSet, Create,
                       CheckStatus, Prepare, Check, Publish, Lock, Scan,
                       Advance, Reconnect, Transmit, Ready, Started
            <4> QED
                BY <2>2, <4>3 DEF IInv
        <3> QED
            BY <3>1, <3>2
    <2>3. \A u \in Threads \ {t} : pc'[u] = pc[u] /\ Id(u)' = Id(u)
        BY <1>4, StartedFrame DEF Id
    <2> QED
        BY <1>4, <2>1, <2>2, <2>3 DEF IInv
<1>5. CASE Stop \/ UNCHANGED vars
    BY <1>5 DEF Stop, vars, IInv, Id
<1> QED
    BY <1>1, <1>2, <1>3, <1>4, <1>5 DEF Next, Finished

LEMMA InitInv == Init => IInv
<1> SUFFICES ASSUME Init PROVE IInv
    OBVIOUS
<1>1. TypeOK
    BY InitType
<1>2. IOwn
    BY DEF Init, IOwn, Slots
<1>3. IStart
    BY CountTypes DEF Init, IStart, Slots, Started
<1>4. ISlot
    BY DEF Init, ISlot, Ready, Waiting
<1>5. IAhead
    <2>1. \A n \in 1..NodeCount : ArrayOf[n] >= run
        BY ListAssumption DEF Init, INVALID
    <2> QED
        BY <2>1 DEF Init, IAhead, Holding
<1>6. IScan
    BY ThreadAssumption DEF Init, IScan, Scanning
<1> QED
    BY <1>1, <1>2, <1>3, <1>4, <1>5, <1>6 DEF IInv

\* The inductive invariant of the barrier.
THEOREM Invariance == Spec => []IInv
<1>1. IInv /\ [Next]_vars => IInv'
    <2> SUFFICES ASSUME IInv, [Next]_vars PROVE IInv'
        OBVIOUS
    <2>1. TypeOK'
        BY StepType DEF IInv, IStart, ScanInSlots
    <2> QED
        BY <2>1, StepOwn, StepStart, StepSlot, StepAhead, StepScan DEF IInv
<1> QED
    BY <1>1, InitInv, PTL DEF Spec

----------------------------------------------------------------------------
(* The properties the runs check.                                          *)

\* Every variable keeps its type, and a thread past NodePrepare holds a node.
THEOREM TypeCorrect == Spec => []TypeOK
<1>1. IInv => TypeOK
    BY DEF IInv
<1> QED
    BY <1>1, Invariance, PTL

\* Slots are owned one to one, every claim succeeds, and no thread works
\* before all have claimed (WorkerThreadProcess and WaitingThread).
THEOREM StartCorrect == Spec => []StartBarrier
<1>1. IInv => StartBarrier
    BY DEF IInv, IOwn, IStart, StartBarrier
<1> QED
    BY <1>1, Invariance, PTL

\* Whatever stops, reads or connections fail, the groups are transmitted one
\* at a time and in ascending order (ValidArrayLocked).
THEOREM GroupsInOrder == Spec => []GroupOrder
<1>1. IInv => GroupOrder
    BY DEF IInv, IAhead, GroupOrder, Holding
<1> QED
    BY <1>1, Invariance, PTL

\* ARRAY_VALUE only moves up.
THEOREM RunNeverFalls == Spec => RunAscends
<1>1. IInv /\ [Next]_vars => [run' >= run]_vars
    <2> SUFFICES ASSUME IInv, Next PROVE run' >= run
        BY DEF vars
    <2>1. run \in Nat \cup {INVALID} /\ run >= run
        BY DEF IInv, TypeOK, INVALID
    <2>2. ASSUME NEW t \in Threads, Advance(t) PROVE run' >= run
        BY <2>1, <2>2, AtAdvance DEF Advance, INVALID
    <2>3. ASSUME NEW t \in Threads, WaitSet(t) PROVE run' >= run
        BY <2>3 DEF WaitSet, IInv, IStart, Started, INVALID
    <2>4. ASSUME NEW t \in Threads, Step(t), ~Advance(t), ~WaitSet(t)
          PROVE  run' = run
        BY <2>4
           DEF Step, Claim, WaitRead, WaitScan, Create, CheckStatus, Prepare,
               Check, Publish, Lock, Scan, Reconnect, Transmit
    <2> QED
        BY <2>1, <2>2, <2>3, <2>4 DEF Next, Stop, Finished, vars
<1> QED
    BY <1>1, Invariance, PTL DEF Spec, RunAscends

----------------------------------------------------------------------------
(* Refinement of GroupSchedule.                                            *)

LEMMA InitSchedule == Init => Schedule!Init
BY DEF Init, Schedule!Init, INVALID

LEMMA StepSchedule ==
    ASSUME IInv, [Next]_vars
    PROVE  [Schedule!Next]_(Schedule!vars)
<1> DEFINE Work(t) == IF pc[t] = "transmit" THEN Id(t) ELSE 0
           Turn == IF run = INVALID THEN 0 ELSE run
           work == [t \in Threads |-> Work(t)]
<1>1. ASSUME NEW t \in Threads, Advance(t) PROVE Schedule!Next
    <2>1. pc[t] = "advance" /\ run' = lmin[t] /\ UNCHANGED node
        BY <1>1 DEF Advance
    <2>2. \A u \in Threads : pc[u] # "transmit" /\ pc'[u] # "transmit"
        BY <1>1, <2>1, AtAdvance DEF Advance, Goto, Ready, IInv, TypeOK
    <2>3. Turn \in Nat /\ Turn' \in Nat /\ Turn' > Turn
        <3>1. run \in Nat \cup {INVALID} /\ run # INVALID
            BY <2>1 DEF IInv, TypeOK, IStart, Started
        <3> QED
            BY <2>1, <3>1, AtAdvance DEF INVALID
    <2>4. work = [u \in Threads |-> 0] /\ work' = [u \in Threads |-> 0]
        BY <2>2
    <2> QED
        BY <2>3, <2>4 DEF Schedule!Next, Schedule!Pass
<1>2. ASSUME NEW t \in Threads, Step(t), ~Advance(t)
      PROVE  Turn' = Turn
    BY <1>2
       DEF Step, Claim, WaitRead, WaitScan, WaitSet, Create, CheckStatus,
           Prepare, Check, Publish, Lock, Scan, Reconnect, Transmit, IInv,
           IStart, Started, INVALID
<1>3. ASSUME NEW t \in Threads, Step(t), ~Advance(t)
      PROVE  work' = [work EXCEPT ![t] = Work(t)']
    <2>1. \A u \in Threads \ {t} : Work(u)' = Work(u)
        <3>1. CASE Started(t)
            BY <1>3, <3>1, StartedFrame DEF Id
        <3>2. CASE ~Started(t)
            <4>1. UNCHANGED node
                BY <1>3, <3>2
                   DEF Step, Claim, WaitRead, WaitScan, WaitSet, Create,
                       CheckStatus, Prepare, Check, Publish, Lock, Scan,
                       Reconnect, Transmit, Started
            <4>2. \A u \in Threads \ {t} : pc'[u] = pc[u]
                BY <1>3, <3>2
                   DEF Step, Claim, WaitRead, WaitScan, WaitSet, Create,
                       CheckStatus, Prepare, Check, Publish, Lock, Scan,
                       Reconnect, Transmit, Started, Goto, IInv, TypeOK
            <4> QED
                BY <4>1, <4>2 DEF Id
        <3> QED
            BY <3>1, <3>2
    <2> HIDE DEF Work
    <2> QED
        BY <2>1
<1>4. ASSUME NEW t \in Threads, Step(t), ~Advance(t)
      PROVE  \/ Work(t)' = Work(t)
             \/ Work(t)' = 0
             \/ Work(t) = 0 /\ Work(t)' = Turn
    <2>1. CASE Reconnect(t)
        <3>1. pc'[t] = "transmit" => node'[t] = node[t]
            BY <2>1 DEF Reconnect, Goto, IInv, TypeOK
        <3>2. pc[t] = "worker" /\ Id(t) = run /\ run # INVALID
            BY <2>1 DEF Reconnect, IInv, IAhead, IStart, Holding, Started
        <3> QED
            BY <3>1, <3>2 DEF Id
    <2>2. CASE ~Reconnect(t)
        <3>1. pc'[t] # "transmit"
            BY <1>4, <2>2
               DEF Step, Claim, WaitRead, WaitScan, WaitSet, Create,
                   CheckStatus, Prepare, Check, Publish, Lock, Scan,
                   Transmit, Goto, IInv, TypeOK
        <3> QED
            BY <3>1
    <2> QED
        BY <2>1, <2>2
<1>5. ASSUME NEW t \in Threads, Step(t), ~Advance(t)
      PROVE  [Schedule!Next]_(Schedule!vars)
    <2>1. work[t] = Work(t)
        OBVIOUS
    <2>2. CASE Work(t)' = Work(t)
        <3>1. work' = work
            BY <1>5, <1>3, <2>2
        <3> QED
            BY <1>5, <1>2, <3>1 DEF Schedule!vars
    <2>3. CASE Work(t)' = 0
        <3>1. work' = [work EXCEPT ![t] = 0] /\ Turn' = Turn
            BY <1>5, <1>2, <1>3, <2>3
        <3> QED
            BY <3>1 DEF Schedule!Next, Schedule!End
    <2>4. CASE Work(t) = 0 /\ Work(t)' = Turn
        <3>1. work' = [work EXCEPT ![t] = Turn] /\ Turn' = Turn /\ work[t] = 0
            BY <1>5, <1>2, <1>3, <2>1, <2>4
        <3> QED
            BY <3>1 DEF Schedule!Next, Schedule!Begin
    <2> QED
        BY <1>5, <1>4, <2>2, <2>3, <2>4
<1>6. CASE Stop \/ UNCHANGED vars
    <2>1. UNCHANGED <<run, pc, node>>
        BY <1>6 DEF Stop, vars
    <2> QED
        BY <2>1 DEF Schedule!vars, Id
<1> QED
    BY <1>1, <1>5, <1>6 DEF Next, Finished

\* Every behaviour of the barrier is one of GroupSchedule.
THEOREM Refinement == Spec => ImplementsSchedule
BY Invariance, InitSchedule, StepSchedule, PTL
   DEF Spec, ImplementsSchedule, Schedule!Spec
=============================================================================
