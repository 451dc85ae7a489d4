---------------------------- MODULE ConnPool_proof ----------------------------
(***************************************************************************)
(* Proofs about ConnPool, for any number of slots and descriptors and any   *)
(* window of the timer.  First what the list operations do to a list        *)
(* without duplicates, then the two invariants of the lists, then the       *)
(* descriptors.                                                             *)
(***************************************************************************)
EXTENDS ConnPool, TLAPS

(***************************************************************************)
(* A list of slots without duplicates, and what it holds after a deletion,  *)
(* an insertion at the head or the removal of the head.                     *)
(***************************************************************************)
IsList(q) == q \in Seq(Slots) /\ Distinct(q)

At(q, s) == CHOOSE i \in 1..Len(q) : q[i] = s

LEMMA AtFacts ==
    ASSUME NEW q, IsList(q), NEW s \in On(q)
    PROVE  At(q, s) \in 1..Len(q) /\ q[At(q, s)] = s
<1>1. \E i \in 1..Len(q) : q[i] = s
  BY DEF On
<1>2. QED
  BY <1>1 DEF At

LEMMA WithoutFacts ==
    ASSUME NEW q, IsList(q), NEW s \in On(q)
    PROVE  /\ IsList(Without(q, s))
           /\ On(Without(q, s)) = On(q) \ {s}
           /\ Len(Without(q, s)) = Len(q) - 1
<1> DEFINE at == At(q, s)
           n == Len(q)
           w == Without(q, s)
<1>1. /\ n \in Nat /\ \A i \in 1..n : q[i] \in Slots
      /\ at \in 1..n /\ q[at] = s
      /\ \A i, j \in 1..n : q[i] = q[j] => i = j
  BY AtFacts DEF IsList, Distinct
<1>2. w = [i \in 1..(n - 1) |-> q[IF i < at THEN i ELSE i + 1]]
  BY DEF Without, At
<1>3. /\ Len(w) = n - 1
      /\ \A i \in 1..(n - 1) : w[i] = q[IF i < at THEN i ELSE i + 1]
  BY <1>1, <1>2
<1>4. w \in Seq(Slots)
  BY <1>1, <1>2
<1> HIDE DEF at, n, w
<1>5. Distinct(w)
  <2>1. SUFFICES ASSUME NEW i \in 1..(n - 1), NEW j \in 1..(n - 1), w[i] = w[j]
                 PROVE  i = j
    BY <1>3 DEF Distinct
  <2> DEFINE up(k) == IF k < at THEN k ELSE k + 1
  <2>2. up(i) \in 1..n /\ up(j) \in 1..n
    BY <1>1
  <2>3. q[up(i)] = q[up(j)]
    BY <1>3, <2>1
  <2>4. up(i) = up(j)
    BY <1>1, <2>2, <2>3
  <2>5. QED
    BY <1>1, <2>4
<1>6. On(w) = On(q) \ {s}
  <2>1. ASSUME NEW x \in On(w)
        PROVE  x \in On(q) \ {s}
    <3>1. PICK i \in 1..(n - 1) : x = w[i]
      BY <1>3 DEF On
    <3> DEFINE k == IF i < at THEN i ELSE i + 1
    <3>2. k \in 1..n /\ k # at /\ x = q[k]
      BY <1>1, <1>3, <3>1
    <3> HIDE DEF k
    <3>3. x # s
      BY <1>1, <3>2
    <3>4. QED
      BY <3>2, <3>3 DEF On, n
  <2>2. ASSUME NEW x \in On(q), x # s
        PROVE  x \in On(w)
    <3>1. PICK k \in 1..n : x = q[k]
      BY DEF On, n
    <3>2. k # at
      BY <1>1, <2>2, <3>1
    <3> DEFINE i == IF k < at THEN k ELSE k - 1
    <3>3. i \in 1..(n - 1) /\ (IF i < at THEN i ELSE i + 1) = k
      BY <1>1, <3>2
    <3>4. w[i] = x
      BY <1>3, <3>1, <3>3
    <3> HIDE DEF i
    <3>5. QED
      BY <1>3, <3>3, <3>4 DEF On
  <2>3. QED
    BY <2>1, <2>2
<1>7. QED
  BY <1>3, <1>4, <1>5, <1>6 DEF IsList, w, n

LEMMA PushedFacts ==
    ASSUME NEW q, IsList(q), NEW s \in Slots, s \notin On(q)
    PROVE  IsList(Pushed(q, s)) /\ On(Pushed(q, s)) = On(q) \cup {s}
<1> DEFINE p == Pushed(q, s)
           n == Len(q)
<1>1. n \in Nat /\ q \in Seq(Slots) /\ \A i, j \in 1..n : q[i] = q[j] => i = j
  BY DEF IsList, Distinct
<1>2. /\ p \in Seq(Slots) /\ Len(p) = n + 1
      /\ p[1] = s /\ \A i \in 2..(n + 1) : p[i] = q[i - 1]
  BY <1>1 DEF Pushed
<1>3. \A i \in 1..n : q[i] # s
  BY DEF On
<1> HIDE DEF p
<1>4. Distinct(p)
  <2>1. SUFFICES ASSUME NEW i \in 1..(n + 1), NEW j \in 1..(n + 1), p[i] = p[j]
                 PROVE  i = j
    BY <1>2 DEF Distinct
  <2>2. CASE i = 1 /\ j # 1
    BY <1>1, <1>2, <1>3, <2>1, <2>2
  <2>3. CASE i # 1 /\ j = 1
    BY <1>1, <1>2, <1>3, <2>1, <2>3
  <2>4. CASE i # 1 /\ j # 1
    <3>1. i - 1 \in 1..n /\ j - 1 \in 1..n /\ q[i - 1] = q[j - 1]
      BY <1>1, <1>2, <2>1, <2>4
    <3>2. QED
      BY <1>1, <3>1
  <2>5. QED
    BY <2>2, <2>3, <2>4
<1>5. On(p) = On(q) \cup {s}
  <2>1. ASSUME NEW x \in On(p)
        PROVE  x \in On(q) \cup {s}
    <3>1. PICK i \in 1..(n + 1) : x = p[i]
      BY <1>2 DEF On
    <3>2. CASE i = 1
      BY <1>2, <3>1, <3>2
    <3>3. CASE i # 1
      <4>1. i - 1 \in 1..n /\ x = q[i - 1]
        BY <1>1, <1>2, <3>1, <3>3
      <4>2. QED
        BY <4>1 DEF On
    <3>4. QED
      BY <3>2, <3>3
  <2>2. s \in On(p)
    <3>1. 1 \in 1..Len(p)
      BY <1>1, <1>2
    <3>2. QED
      BY <1>2, <3>1 DEF On
  <2>3. ASSUME NEW x \in On(q)
        PROVE  x \in On(p)
    <3>1. PICK i \in 1..n : x = q[i]
      BY DEF On
    <3>2. i + 1 \in 1..(n + 1) /\ i + 1 # 1 /\ (i + 1) - 1 = i
      BY <1>1, <3>1
    <3>3. i + 1 \in 1..Len(p) /\ p[i + 1] = x
      BY <1>2, <3>1, <3>2
    <3>4. QED
      BY <3>3 DEF On
  <2>4. QED
    BY <2>1, <2>2, <2>3
<1>6. QED
  BY <1>2, <1>4, <1>5 DEF IsList, p

LEMMA TailFacts ==
    ASSUME NEW q, IsList(q), q # <<>>
    PROVE  /\ Head(q) \in On(q) /\ Head(q) \in Slots
           /\ IsList(Tail(q)) /\ On(Tail(q)) = On(q) \ {Head(q)}
<1> DEFINE t == Tail(q)
           n == Len(q)
<1>1. /\ n \in Nat /\ n > 0 /\ q \in Seq(Slots)
      /\ \A i, j \in 1..n : q[i] = q[j] => i = j
  BY DEF IsList, Distinct
<1>2. /\ t \in Seq(Slots) /\ Len(t) = n - 1
      /\ \A i \in 1..(n - 1) : t[i] = q[i + 1]
  BY <1>1
<1>3. Head(q) = q[1] /\ 1 \in 1..n
  BY <1>1
<1>4. q[1] \in Slots
  BY <1>1, <1>3
<1> HIDE DEF t
<1>5. Head(q) \in On(q)
  BY <1>3 DEF On
<1>6. Distinct(t)
  <2>1. SUFFICES ASSUME NEW i \in 1..(n - 1), NEW j \in 1..(n - 1), t[i] = t[j]
                 PROVE  i = j
    BY <1>2 DEF Distinct
  <2>2. i + 1 \in 1..n /\ j + 1 \in 1..n /\ q[i + 1] = q[j + 1]
    BY <1>1, <1>2, <2>1
  <2>3. i + 1 = j + 1
    BY <1>1, <2>2
  <2>4. QED
    BY <2>3
<1>7. On(t) = On(q) \ {Head(q)}
  <2>1. ASSUME NEW x \in On(t)
        PROVE  x \in On(q) /\ x # q[1]
    <3>1. PICK i \in 1..(n - 1) : x = t[i]
      BY <1>2 DEF On
    <3>2. i + 1 \in 1..n /\ i + 1 # 1 /\ x = q[i + 1]
      BY <1>1, <1>2, <3>1
    <3>3. QED
      BY <1>1, <1>3, <3>2 DEF On
  <2>2. ASSUME NEW x \in On(q), x # q[1]
        PROVE  x \in On(t)
    <3>1. PICK i \in 1..n : x = q[i]
      BY DEF On
    <3>2. i - 1 \in 1..(n - 1) /\ t[i - 1] = x
      BY <1>1, <1>2, <2>2, <3>1
    <3>3. QED
      BY <1>2, <3>2 DEF On
  <2>3. QED
    BY <1>3, <2>1, <2>2
<1>8. QED
  BY <1>2, <1>3, <1>4, <1>5, <1>6, <1>7 DEF IsList, t

\* The next entry is on the list, and another one unless it is alone.
LEMMA NextOfFacts ==
    ASSUME NEW q, IsList(q), NEW s \in On(q)
    PROVE  /\ NextOf(q, s) \in On(q)
           /\ Len(q) # 1 => NextOf(q, s) # s
<1> DEFINE at == At(q, s)
           n == Len(q)
<1>1. /\ n \in Nat /\ at \in 1..n /\ q[at] = s
      /\ \A i, j \in 1..n : q[i] = q[j] => i = j
  BY AtFacts DEF IsList, Distinct
<1>2. NextOf(q, s) = IF at = n THEN q[1] ELSE q[at + 1]
  BY DEF NextOf, At
<1> DEFINE to == IF at = n THEN 1 ELSE at + 1
<1> HIDE DEF at, n
<1>3. to \in 1..n /\ NextOf(q, s) = q[to] /\ (n # 1 => to # at)
  <2>1. CASE at = n
    BY <1>1, <1>2, <2>1
  <2>2. CASE at # n
    BY <1>1, <1>2, <2>2
  <2>3. QED
    BY <2>1, <2>2
<1> HIDE DEF to
<1>4. NextOf(q, s) \in On(q)
  BY <1>3 DEF On, n
<1>5. ASSUME n # 1, q[to] = q[at]
      PROVE  FALSE
  <2>1. to = at
    BY <1>1, <1>3, <1>5
  <2>2. QED
    BY <1>3, <1>5, <2>1
<1>6. QED
  BY <1>1, <1>3, <1>4, <1>5 DEF n

(***************************************************************************)
(* The lists.  The timer's walk is never at the entry it started from, so   *)
(* that a slot it puts to sleep is not the one it will stop at.             *)
(***************************************************************************)
Walk == Scanning => scan.first # scan.pos

\* Between two scans nothing is left of the last one.
ScanIdle == scan.pos = 0 => scan.first = 0

Lists == TypeOK /\ Partition /\ ChkposActive /\ Walk /\ ScanIdle

ListState == <<active, sleep, chkpos>>

LEMMA ListInit == Init => Lists
<1> SUFFICES ASSUME Init
             PROVE  Lists
  OBVIOUS
<1>1. /\ active = <<>> /\ On(active) = {} /\ active \in Seq(Slots)
      /\ Len(active) = 0
  BY DEF Init, On
<1>2. /\ sleep \in Seq(Slots) /\ Len(sleep) = SlotCount
      /\ \A i \in Slots : sleep[i] = SlotCount + 1 - i
  BY PoolAssumption DEF Init, Slots
<1>3. Distinct(sleep)
  BY <1>2, PoolAssumption DEF Distinct, Slots
<1>4. On(sleep) = Slots
  <2>1. ASSUME NEW s \in Slots
        PROVE  s \in On(sleep)
    <3>1. SlotCount + 1 - s \in Slots /\ SlotCount + 1 - (SlotCount + 1 - s) = s
      BY PoolAssumption DEF Slots
    <3>2. QED
      BY <1>2, <3>1 DEF On, Slots
  <2>2. \A i \in 1..Len(sleep) : sleep[i] \in Slots
    BY <1>2
  <2>3. QED
    BY <2>1, <2>2 DEF On
<1>5. Partition
  BY <1>1, <1>3, <1>4 DEF Partition, Distinct
<1>6. TypeOK
  BY <1>1, <1>2, PoolAssumption DEF TypeOK, Init, NoScan, Scanning, Slots, Fds,
     Closed, Leaked
<1>7. ChkposActive /\ Walk /\ ScanIdle
  BY <1>1 DEF ChkposActive, Walk, ScanIdle, Init, NoScan, Scanning
<1>8. QED
  BY <1>5, <1>6, <1>7 DEF Lists

\* What the timer may hold on to after a slot was put to sleep.
LEMMA UnlinksFacts ==
    ASSUME Lists, NEW s \in Slots, Unlinks(s)
    PROVE  /\ active' \in Seq(Slots) /\ sleep' \in Seq(Slots)
           /\ chkpos' \in Slots \cup {0}
           /\ Partition'
           /\ (chkpos' = 0) <=> (active' = <<>>)
           /\ chkpos' # 0 => chkpos' \in On(active')
           /\ On(active') = On(active) \ {s}
<1>1. IsList(active) /\ IsList(sleep)
  BY DEF Lists, Partition, TypeOK, IsList
<1>2. CASE s \notin On(active)
  BY <1>2 DEF Unlinks, Lists, TypeOK, Partition, ChkposActive
<1>3. CASE s \in On(active)
  <2>1. active' = Without(active, s) /\ sleep' = Pushed(sleep, s)
    BY <1>3 DEF Unlinks
  <2>2. IsList(active') /\ On(active') = On(active) \ {s} /\ Len(active') = Len(active) - 1
    BY <1>1, <1>3, <2>1, WithoutFacts
  <2>3. s \notin On(sleep)
    BY <1>3 DEF Lists, Partition
  <2>4. IsList(sleep') /\ On(sleep') = On(sleep) \cup {s}
    BY <1>1, <2>1, <2>3, PushedFacts
  <2>5. Partition'
    BY <1>3, <2>2, <2>4 DEF IsList, Partition, Lists
  <2>6. /\ (chkpos' = 0) <=> (active' = <<>>)
        /\ chkpos' # 0 => chkpos' \in On(active')
    <3>1. chkpos # 0 /\ chkpos \in On(active)
      <4>1. active # <<>>
        BY <1>3 DEF On
      <4>2. QED
        BY <4>1 DEF Lists, ChkposActive
    <3>2. CASE chkpos # s
      <4>1. chkpos' = chkpos /\ chkpos' \in On(active')
        BY <1>3, <2>2, <3>1, <3>2 DEF Unlinks
      <4>2. active' # <<>>
        BY <4>1 DEF On
      <4>3. QED
        BY <3>1, <4>1, <4>2
    <3>3. CASE chkpos = s /\ Len(active) = 1
      <4>1. chkpos' = 0 /\ Len(active') = 0
        BY <1>3, <2>2, <3>3 DEF Unlinks
      <4>2. active' = <<>>
        BY <2>2, <4>1 DEF IsList
      <4>3. QED
        BY <4>1, <4>2
    <3>4. CASE chkpos = s /\ Len(active) # 1
      <4>1. chkpos' = NextOf(active, s)
        BY <1>3, <3>4 DEF Unlinks
      <4>2. chkpos' \in On(active')
        BY <1>1, <1>3, <2>2, <3>4, <4>1, NextOfFacts
      <4>3. active' # <<>>
        BY <4>2 DEF On
      <4>4. chkpos' # 0
        BY <2>2, <4>2, PoolAssumption DEF IsList, On, Slots
      <4>5. QED
        BY <4>2, <4>3, <4>4
    <3>5. QED
      BY <3>2, <3>3, <3>4
  <2>7. chkpos' \in Slots \cup {0}
    BY <2>2, <2>6 DEF IsList, On
  <2>8. QED
    BY <2>2, <2>4, <2>5, <2>6, <2>7 DEF IsList
<1>4. QED
  BY <1>2, <1>3

\* EVENT_DEL on a slot leaves the descriptors well typed.
LEMMA ClosesFacts ==
    ASSUME TypeOK, NEW s \in Slots, Closes(s)
    PROVE  file' \in [Fds -> Slots \cup {Closed, Leaked}]
  BY DEF TypeOK, Closes

\* Steps that touch neither list.
LEMMA PartitionAlone ==
    ASSUME Partition, active' = active, sleep' = sleep
    PROVE  Partition'
<1>1. On(active)' = On(active) /\ On(sleep)' = On(sleep)
  BY DEF On
<1>2. Distinct(active)' /\ Distinct(sleep)'
  <2>1. Distinct(active) /\ Distinct(sleep)
    BY DEF Partition
  <2>2. QED
    BY <2>1 DEF Distinct
<1>3. QED
  BY <1>1, <1>2 DEF Partition

\* Steps that touch neither the lists nor the walk.
LEMMA ListsAlone ==
    ASSUME Lists, TypeOK', UNCHANGED ListState, UNCHANGED scan
    PROVE  Lists'
<1>1. active' = active /\ sleep' = sleep /\ chkpos' = chkpos /\ scan' = scan
  BY DEF ListState
<1>2. Partition'
  BY <1>1, PartitionAlone DEF Lists
<1>3. ChkposActive' /\ Walk' /\ ScanIdle'
  BY <1>1 DEF Lists, ChkposActive, Walk, ScanIdle, On, Scanning
<1>4. QED
  BY <1>2, <1>3 DEF Lists

LEMMA WaitStep == Lists /\ Wait => Lists'
<1> SUFFICES ASSUME Lists, Wait
             PROVE  Lists'
  OBVIOUS
<1>1. TypeOK'
  BY DEF Lists, TypeOK, Wait, Scanning
<1>2. QED
  BY <1>1, ListsAlone DEF Wait, ListState

LEMMA AcceptStep == Lists /\ Accept => Lists'
<1> SUFFICES ASSUME Lists, NEW f \in FreeFds, Admit(f) \/ Forget(f),
                    knock' \in BOOLEAN, UNCHANGED <<due, tick, scan, astray>>
             PROVE  Lists'
  BY DEF Accept
<1>1. f \in Fds
  BY DEF FreeFds
<1>2. CASE Forget(f)
  <2>1. TypeOK'
    BY <1>1, <1>2 DEF Lists, TypeOK, Forget, Scanning
  <2>2. QED
    BY <1>2, <2>1, ListsAlone DEF Forget, ListState
<1>3. CASE Admit(f)
  <2> DEFINE s == Head(sleep)
  <2>1. IsList(active) /\ IsList(sleep) /\ sleep # <<>>
    BY <1>3 DEF Lists, Partition, TypeOK, IsList, Admit
  <2>2. /\ s \in On(sleep) /\ s \in Slots /\ s # 0
        /\ IsList(sleep') /\ On(sleep') = On(sleep) \ {s}
    <3>1. s \in On(sleep) /\ s \in Slots /\ IsList(Tail(sleep))
          /\ On(Tail(sleep)) = On(sleep) \ {s}
      BY <2>1, TailFacts
    <3>2. sleep' = Tail(sleep)
      BY <1>3 DEF Admit
    <3>3. s # 0
      BY <3>1, PoolAssumption DEF Slots
    <3>4. QED
      BY <3>1, <3>2, <3>3
  <2>3. IsList(active') /\ On(active') = On(active) \cup {s}
    <3>1. s \notin On(active)
      BY <2>2 DEF Lists, Partition
    <3>2. active' = Pushed(active, s)
      BY <1>3 DEF Admit
    <3>3. QED
      BY <2>1, <2>2, <3>1, <3>2, PushedFacts
  <2>4. chkpos' = IF chkpos = 0 THEN s ELSE chkpos
    BY <1>3 DEF Admit
  <2>5. /\ sockfd' = [sockfd EXCEPT ![s] = f]
        /\ file' = [file EXCEPT ![f] = s]
        /\ silent' = [silent EXCEPT ![s] = FALSE]
    BY <1>3 DEF Admit
  <2> HIDE DEF s
  <2>6. Partition'
    BY <2>2, <2>3 DEF Lists, Partition, IsList
  <2>7. ChkposActive'
    <3>1. chkpos' # 0 /\ chkpos' \in On(active')
      BY <2>2, <2>3, <2>4 DEF Lists, ChkposActive
    <3>2. active' # <<>>
      BY <3>1 DEF On
    <3>3. \A t \in {scan'.pos, scan'.first} : t # 0 => t \in On(active')
      BY <2>3 DEF Lists, ChkposActive
    <3>4. QED
      BY <3>1, <3>2, <3>3 DEF ChkposActive
  <2>8. TypeOK'
    <3>1. active' \in Seq(Slots) /\ sleep' \in Seq(Slots)
      BY <2>2, <2>3 DEF IsList
    <3>2. chkpos' \in Slots \cup {0}
      BY <2>2, <2>4 DEF Lists, TypeOK
    <3>3. /\ sockfd' \in [Slots -> Fds \cup {0}]
          /\ file' \in [Fds -> Slots \cup {Closed, Leaked}]
          /\ silent' \in [Slots -> BOOLEAN]
      BY <1>1, <2>2, <2>5 DEF Lists, TypeOK
    <3>4. QED
      BY <3>1, <3>2, <3>3 DEF Lists, TypeOK, Scanning
  <2>9. Walk' /\ ScanIdle'
    BY DEF Lists, Walk, ScanIdle, Scanning
  <2>10. QED
    BY <2>6, <2>7, <2>8, <2>9 DEF Lists
<1>4. QED
  BY <1>2, <1>3

LEMMA AcceptFailsStep == Lists /\ AcceptFails => Lists'
<1> SUFFICES ASSUME Lists, AcceptFails
             PROVE  Lists'
  OBVIOUS
<1>1. TypeOK'
  BY DEF Lists, TypeOK, AcceptFails, Scanning
<1>2. QED
  BY <1>1, ListsAlone DEF AcceptFails, ListState

LEMMA AgeStep == ASSUME NEW s \in Slots PROVE Lists /\ Age(s) => Lists'
<1> SUFFICES ASSUME Lists, Age(s)
             PROVE  Lists'
  OBVIOUS
<1>1. TypeOK'
  BY DEF Lists, TypeOK, Age, Scanning
<1>2. QED
  BY <1>1, ListsAlone DEF Age, ListState

\* The event of a slot that was put to sleep meanwhile is harmless here.
LEMMA HandleStep == ASSUME NEW s \in Slots PROVE Lists /\ Handle(s) => Lists'
<1> SUFFICES ASSUME Lists, Handle(s)
             PROVE  Lists'
  OBVIOUS
<1>1. /\ Event(s) /\ due' \subseteq Slots /\ astray' \in BOOLEAN
      /\ sockfd' = sockfd /\ tick' = tick /\ knock' = knock /\ scan' = scan
  BY DEF Handle, Serve, Nothing, Close, Event, Lists, TypeOK
<1>2. CASE Serve(s) \/ Nothing(s)
  <2>1. UNCHANGED ListState /\ file' = file /\ silent' \in [Slots -> BOOLEAN]
    BY <1>2 DEF Serve, Nothing, ListState, Lists, TypeOK
  <2>2. TypeOK'
    BY <1>1, <2>1 DEF Lists, TypeOK, ListState, Scanning
  <2>3. QED
    BY <1>1, <2>1, <2>2, ListsAlone
<1>3. CASE Close(s)
  <2>1. Unlinks(s) /\ Closes(s) /\ silent' = silent /\ scan.pos = 0 /\ s \in due
    BY <1>3 DEF Close, Deleted, Event, Scanning
  <2>2. /\ active' \in Seq(Slots) /\ sleep' \in Seq(Slots)
        /\ chkpos' \in Slots \cup {0}
        /\ Partition'
        /\ (chkpos' = 0) <=> (active' = <<>>)
        /\ chkpos' # 0 => chkpos' \in On(active')
    BY <2>1, UnlinksFacts
  <2>3. TypeOK'
    BY <1>1, <2>1, <2>2, ClosesFacts DEF Lists, TypeOK, Scanning
  <2>4. scan.first = 0
    BY <2>1 DEF Lists, ScanIdle
  <2>5. QED
    BY <1>1, <2>1, <2>2, <2>3, <2>4 DEF Lists, ChkposActive, Walk, ScanIdle, Scanning
<1>4. QED
  BY <1>2, <1>3 DEF Handle

LEMMA TimerStep == Lists /\ Timer => Lists'
<1> SUFFICES ASSUME Lists, Timer
             PROVE  Lists'
  OBVIOUS
<1>1. /\ UNCHANGED ListState
      /\ scan' = [pos |-> IF CheckTotal = 0 THEN 0 ELSE chkpos, first |-> 0, count |-> 0]
  BY DEF Timer, ListState, NoScan
<1>2. TypeOK'
  <2>1. scan' \in [pos : Slots \cup {0}, first : Slots \cup {0}, count : Nat]
    BY <1>1 DEF Lists, TypeOK
  <2>2. scan'.pos # 0 => scan'.count < CheckTotal
    BY <1>1, PoolAssumption
  <2>3. tick' \in BOOLEAN /\ UNCHANGED <<sockfd, file, silent, due, knock, astray>>
    BY DEF Timer
  <2>4. QED
    BY <1>1, <2>1, <2>2, <2>3 DEF Lists, TypeOK, ListState, Scanning
<1>3. Partition'
  BY <1>1, PartitionAlone DEF Lists, ListState
<1>4. ChkposActive' /\ Walk' /\ ScanIdle'
  BY <1>1 DEF Lists, ChkposActive, Walk, ScanIdle, On, ListState, Scanning
<1>5. QED
  BY <1>2, <1>3, <1>4 DEF Lists

LEMMA CheckStep == Lists /\ Check => Lists'
<1> SUFFICES ASSUME Lists, Check
             PROVE  Lists'
  OBVIOUS
<1> DEFINE s == scan.pos
           nxt == IF NextOf(active, s) = s THEN 0 ELSE NextOf(active, s)
           first == IF ~silent[s] /\ scan.first = 0 THEN s ELSE scan.first
<1>1. /\ s \in On(active) /\ s \in Slots /\ s # 0
      /\ scan.first # s /\ scan.first \in Slots \cup {0}
      /\ scan.first # 0 => scan.first \in On(active)
      /\ silent[s] \in BOOLEAN
  BY DEF Check, Scanning, Lists, TypeOK, ChkposActive, Walk
<1>2. nxt # 0 => nxt # s /\ nxt \in On(active) /\ nxt \in Slots
  <2>1. IsList(active)
    BY DEF Lists, TypeOK, Partition, IsList
  <2>2. NextOf(active, s) \in On(active)
    BY <1>1, <2>1, NextOfFacts
  <2>3. NextOf(active, s) \in Slots
    BY <2>1, <2>2 DEF IsList, On
  <2>4. QED
    BY <2>2, <2>3
<1>3. /\ IF silent[s] THEN Deleted(s)
         ELSE UNCHANGED <<active, sleep, chkpos, file>>
      /\ scan' = IF More(scan.count) /\ After(nxt, first) # 0
                 THEN [pos |-> nxt, first |-> first, count |-> scan.count + 1]
                 ELSE NoScan
      /\ UNCHANGED <<sockfd, silent, due, tick, knock>>
      /\ astray' \in BOOLEAN
  BY Zenon DEF Check
<1> HIDE DEF s, nxt, first
<1>4. /\ active' \in Seq(Slots) /\ sleep' \in Seq(Slots)
      /\ chkpos' \in Slots \cup {0}
      /\ Partition'
      /\ (chkpos' = 0) <=> (active' = <<>>)
      /\ chkpos' # 0 => chkpos' \in On(active')
      /\ On(active') = IF silent[s] THEN On(active) \ {s} ELSE On(active)
      /\ file' \in [Fds -> Slots \cup {Closed, Leaked}]
  <2>1. CASE silent[s]
    BY <1>1, <1>3, <2>1, UnlinksFacts, ClosesFacts DEF Deleted, Lists
  <2>2. CASE ~silent[s]
    <3>1. active' = active /\ sleep' = sleep /\ chkpos' = chkpos /\ file' = file
      BY <1>3, <2>2
    <3>2. Partition'
      BY <3>1, PartitionAlone DEF Lists
    <3>3. On(active') = On(active)
      BY <3>1
    <3>4. QED
      BY <2>2, <3>1, <3>2, <3>3 DEF Lists, TypeOK, ChkposActive
  <2>3. QED
    BY <2>1, <2>2
<1>5. CASE scan' = NoScan
  <2>1. TypeOK'
    BY <1>3, <1>4, <1>5 DEF Lists, TypeOK, NoScan, Scanning
  <2>2. QED
    BY <1>4, <1>5, <2>1 DEF Lists, ChkposActive, Walk, ScanIdle, NoScan, Scanning
<1>6. CASE scan' # NoScan
  <2>1. /\ scan' = [pos |-> nxt, first |-> first, count |-> scan.count + 1]
        /\ scan.count + 1 < CheckTotal
        /\ nxt # 0 /\ nxt # first
    BY <1>3, <1>6 DEF More, After
  <2>2. /\ first \in Slots \cup {0}
        /\ first # 0 => first \in On(active')
    BY <1>1, <1>4 DEF first
  <2>3. nxt \in On(active')
    BY <1>2, <1>4, <2>1
  <2>4. TypeOK'
    <3>1. scan' \in [pos : Slots \cup {0}, first : Slots \cup {0}, count : Nat]
      BY <1>2, <2>1, <2>2 DEF Lists, TypeOK
    <3>2. QED
      BY <1>3, <1>4, <2>1, <3>1 DEF Lists, TypeOK, Scanning
  <2>5. ChkposActive' /\ Walk' /\ ScanIdle'
    BY <1>4, <2>1, <2>2, <2>3 DEF ChkposActive, Walk, ScanIdle, Scanning
  <2>6. QED
    BY <1>4, <2>4, <2>5 DEF Lists
<1>7. QED
  BY <1>5, <1>6

LEMMA ListStep == Lists /\ [Next]_vars => Lists'
<1> SUFFICES ASSUME Lists, [Next]_vars
             PROVE  Lists'
  OBVIOUS
<1>1. CASE UNCHANGED vars
  <2>1. TypeOK'
    BY <1>1 DEF Lists, TypeOK, vars, Scanning
  <2>2. QED
    BY <1>1, <2>1, ListsAlone DEF vars, ListState
<1>2. QED
  BY <1>1, WaitStep, AcceptStep, AcceptFailsStep, TimerStep, CheckStep, HandleStep,
     AgeStep DEF Next

LEMMA ListsCorrect == Spec => []Lists
  BY ListInit, ListStep, PTL DEF Spec

(***************************************************************************)
(* Every reachable state is well typed, and the timer looks at no more      *)
(* entries than its window.                                                 *)
(***************************************************************************)
THEOREM TypeCorrect == Spec => []TypeOK
<1>1. Lists => TypeOK
  BY DEF Lists
<1>2. QED
  BY <1>1, ListsCorrect, PTL

(***************************************************************************)
(* Every slot is on exactly one of the two lists, once, also when events    *)
(* reach slots that were closed; and chkpos, and the walk of the timer,     *)
(* never point to a sleeping slot.                                          *)
(***************************************************************************)
THEOREM LinkedCorrect == Spec => []Linked
<1>1. Lists => Linked
  BY DEF Lists, Linked
<1>2. QED
  BY <1>1, ListsCorrect, PTL

(***************************************************************************)
(* The descriptors.                                                         *)
(***************************************************************************)
LEMMA DescriptorInit == Init => OwnDescriptor
<1> SUFFICES ASSUME Init
             PROVE  OwnDescriptor
  OBVIOUS
<1>1. On(active) = {}
  BY DEF Init, On
<1>2. \A f \in Fds : file[f] \notin Slots
  BY DEF Init, Closed, Slots
<1>3. QED
  BY <1>1, <1>2 DEF OwnDescriptor

\* Steps that touch neither the active list nor the descriptors.
LEMMA DescriptorAlone ==
    ASSUME OwnDescriptor, UNCHANGED <<active, sockfd, file>>, ~astray' => ~astray
    PROVE  OwnDescriptor'
  BY DEF OwnDescriptor, Own, On

\* A slot that is put to sleep takes its own descriptor with it.
LEMMA DescriptorDeleted ==
    ASSUME Lists, OwnDescriptor, NEW s \in Slots, Deleted(s), UNCHANGED sockfd,
           ~astray' => ~astray /\ Own(s)
    PROVE  OwnDescriptor'
<1> SUFFICES ASSUME ~astray'
             PROVE  OwnDescriptor'
  BY DEF OwnDescriptor
<1> DEFINE f == sockfd[s]
<1>1. /\ f \in Fds /\ file[f] = s /\ file' = [file EXCEPT ![f] = Closed]
      /\ \A t \in On(active) : Own(t)
      /\ \A g \in Fds : file[g] \in Slots =>
           file[g] \in On(active) /\ sockfd[file[g]] = g
  BY DEF OwnDescriptor, Own, Deleted, Closes
<1>2. On(active') = On(active) \ {s}
  BY UnlinksFacts DEF Deleted
<1>3. file \in [Fds -> Slots \cup {Closed, Leaked}] /\ Closed \notin Slots
  BY DEF Lists, TypeOK, Closed, Slots
<1> HIDE DEF f
<1>4. ASSUME NEW t \in On(active')
      PROVE  Own(t)'
  <2>1. t \in On(active) /\ t # s /\ sockfd[t] \in Fds /\ file[sockfd[t]] = t
    BY <1>1, <1>2 DEF Own
  <2>2. sockfd[t] # f
    BY <1>1, <2>1
  <2>3. file'[sockfd[t]] = t
    BY <1>1, <1>3, <2>1, <2>2
  <2>4. QED
    BY <2>1, <2>3 DEF Own
<1>5. ASSUME NEW g \in Fds, file'[g] \in Slots
      PROVE  file'[g] \in On(active') /\ sockfd'[file'[g]] = g
  <2>1. g # f /\ file'[g] = file[g]
    BY <1>1, <1>3, <1>5
  <2>2. file[g] # s
    BY <1>1, <1>5, <2>1 DEF f
  <2>3. QED
    BY <1>1, <1>2, <1>5, <2>1, <2>2
<1>6. QED
  BY <1>4, <1>5 DEF OwnDescriptor

LEMMA DescriptorAdmit ==
    ASSUME Lists, OwnDescriptor, NEW f \in FreeFds, Admit(f), UNCHANGED astray
    PROVE  OwnDescriptor'
<1> SUFFICES ASSUME ~astray
             PROVE  OwnDescriptor'
  BY DEF OwnDescriptor
<1> DEFINE s == Head(sleep)
<1>1. f \in Fds /\ file[f] = Closed /\ Closed \notin Slots
  BY DEF FreeFds, Closed, Slots
<1>2. s \in On(sleep) /\ s \in Slots
  BY TailFacts DEF Admit, Lists, TypeOK, Partition, IsList
<1>3. s \notin On(active)
  BY <1>2 DEF Lists, Partition
<1>4. On(active') = On(active) \cup {s}
  BY <1>2, <1>3, PushedFacts DEF Admit, Lists, TypeOK, Partition, IsList
<1>5. /\ sockfd' = [sockfd EXCEPT ![s] = f]
      /\ file' = [file EXCEPT ![f] = s]
  BY DEF Admit
<1>6. /\ \A t \in On(active) : Own(t)
      /\ \A g \in Fds : file[g] \in Slots =>
           file[g] \in On(active) /\ sockfd[file[g]] = g
  BY DEF OwnDescriptor
<1>7. /\ file \in [Fds -> Slots \cup {Closed, Leaked}]
      /\ sockfd \in [Slots -> Fds \cup {0}]
      /\ On(active) \subseteq Slots
  BY DEF Lists, TypeOK, Partition
<1> HIDE DEF s
<1>8. ASSUME NEW t \in On(active')
      PROVE  Own(t)'
  <2>1. CASE t = s
    BY <1>1, <1>2, <1>5, <1>7, <2>1 DEF Own
  <2>2. CASE t # s
    <3>1. t \in On(active) /\ t \in Slots /\ sockfd[t] \in Fds /\ file[sockfd[t]] = t
      BY <1>4, <1>6, <1>7, <2>2 DEF Own
    <3>2. sockfd[t] # f
      BY <1>1, <3>1
    <3>3. sockfd'[t] = sockfd[t] /\ file'[sockfd[t]] = t
      BY <1>5, <1>7, <2>2, <3>1, <3>2
    <3>4. QED
      BY <3>1, <3>3 DEF Own
  <2>3. QED
    BY <2>1, <2>2
<1>9. ASSUME NEW g \in Fds, file'[g] \in Slots
      PROVE  file'[g] \in On(active') /\ sockfd'[file'[g]] = g
  <2>1. CASE g = f
    BY <1>1, <1>2, <1>4, <1>5, <1>7, <2>1
  <2>2. CASE g # f
    <3>1. file'[g] = file[g] /\ file[g] \in On(active) /\ sockfd[file[g]] = g
      BY <1>5, <1>6, <1>7, <1>9, <2>2
    <3>2. file[g] # s
      BY <1>3, <3>1
    <3>3. QED
      BY <1>4, <1>5, <1>7, <1>9, <3>1, <3>2
  <2>3. QED
    BY <2>1, <2>2
<1>10. QED
  BY <1>8, <1>9 DEF OwnDescriptor

LEMMA DescriptorForget ==
    ASSUME Lists, OwnDescriptor, NEW f \in FreeFds, Forget(f), UNCHANGED astray
    PROVE  OwnDescriptor'
<1> SUFFICES ASSUME ~astray
             PROVE  OwnDescriptor'
  BY DEF OwnDescriptor
<1>1. /\ f \in Fds /\ file[f] = Closed /\ Closed \notin Slots /\ Leaked \notin Slots
      /\ file \in [Fds -> Slots \cup {Closed, Leaked}]
  BY DEF FreeFds, Closed, Leaked, Slots, Lists, TypeOK
<1>2. /\ file' = [file EXCEPT ![f] = Leaked]
      /\ active' = active /\ sockfd' = sockfd
  BY DEF Forget
<1>3. /\ \A t \in On(active) : Own(t) /\ t \in Slots
      /\ \A g \in Fds : file[g] \in Slots =>
           file[g] \in On(active) /\ sockfd[file[g]] = g
  BY DEF OwnDescriptor, Lists, Partition
<1>4. ASSUME NEW t \in On(active')
      PROVE  Own(t)'
  <2>1. t \in On(active)
    BY <1>2 DEF On
  <2>2. t \in Slots /\ sockfd[t] \in Fds /\ file[sockfd[t]] = t
    BY <1>3, <2>1 DEF Own
  <2>3. sockfd[t] # f
    BY <1>1, <2>2
  <2>4. QED
    BY <1>1, <1>2, <2>2, <2>3 DEF Own
<1>5. ASSUME NEW g \in Fds, file'[g] \in Slots
      PROVE  file'[g] \in On(active') /\ sockfd'[file'[g]] = g
  <2>1. g # f /\ file'[g] = file[g]
    BY <1>1, <1>2, <1>5
  <2>2. file[g] \in On(active) /\ sockfd[file[g]] = g
    BY <1>3, <1>5, <2>1
  <2>3. QED
    BY <1>2, <2>1, <2>2 DEF On
<1>6. QED
  BY <1>4, <1>5 DEF OwnDescriptor

LEMMA DescriptorStep == Lists /\ OwnDescriptor /\ [Next]_vars => OwnDescriptor'
<1> SUFFICES ASSUME Lists, OwnDescriptor, [Next]_vars
             PROVE  OwnDescriptor'
  OBVIOUS
<1>1. CASE UNCHANGED vars \/ Wait \/ AcceptFails \/ Timer
  BY <1>1, DescriptorAlone DEF vars, Wait, AcceptFails, Timer
<1>2. CASE Accept
  BY <1>2, DescriptorAdmit, DescriptorForget DEF Accept
<1>3. CASE Check
  <2> DEFINE s == scan.pos
  <2>1. /\ s \in Slots
        /\ IF silent[s] THEN Deleted(s)
           ELSE UNCHANGED <<active, sleep, chkpos, file>>
        /\ astray' = (astray \/ (silent[s] /\ ~Own(s)))
        /\ UNCHANGED sockfd
    BY <1>3 DEF Check, Scanning, Lists, TypeOK
  <2> HIDE DEF s
  <2>2. CASE silent[s]
    BY <2>1, <2>2, DescriptorDeleted
  <2>3. CASE ~silent[s]
    BY <2>1, <2>3, DescriptorAlone
  <2>4. QED
    BY <2>2, <2>3
<1>4. ASSUME NEW s \in Slots, Age(s)
      PROVE  OwnDescriptor'
  BY <1>4, DescriptorAlone DEF Age
<1>5. ASSUME NEW s \in Slots, Handle(s)
      PROVE  OwnDescriptor'
  <2>1. astray' = (astray \/ ~Own(s)) /\ UNCHANGED sockfd
    BY <1>5 DEF Handle, Serve, Nothing, Close, Event
  <2>2. CASE Close(s)
    BY <2>1, <2>2, DescriptorDeleted DEF Close
  <2>3. CASE Serve(s) \/ Nothing(s)
    BY <2>1, <2>3, DescriptorAlone DEF Serve, Nothing
  <2>4. QED
    BY <1>5, <2>2, <2>3 DEF Handle
<1>6. QED
  BY <1>1, <1>2, <1>3, <1>4, <1>5 DEF Next

(***************************************************************************)
(* Until the first event reaches a slot that was closed under it, no two    *)
(* connections share a descriptor and none is served without one.           *)
(***************************************************************************)
THEOREM DescriptorCorrect == Spec => []OwnDescriptor
<1>1. Init => Lists /\ OwnDescriptor
  BY ListInit, DescriptorInit
<1>2. Lists /\ OwnDescriptor /\ [Next]_vars => (Lists /\ OwnDescriptor)'
  BY ListStep, DescriptorStep
<1>3. QED
  BY <1>1, <1>2, PTL DEF Spec
===============================================================================
