--------------------------- MODULE AnchorLog_proof ---------------------------
(***************************************************************************)
(* Proofs about AnchorLog, for any devices, any size of the index and any   *)
(* sizeof (struct idxent): the types; that search_anchor stays inside the   *)
(* index and never loses the anchor it looks for; and, as long as no file   *)
(* was damaged, that no device misses an action (NothingMissed), whatever   *)
(* breaks, dies, fails or is cut.  From these, that the files implement     *)
(* ChangeLog.                                                               *)
(***************************************************************************)
EXTENDS AnchorLog, SequenceTheorems, TLAPS

(***************************************************************************)
(* The operators on sequences and files.                                    *)
(***************************************************************************)
LEMMA AfterType ==
    ASSUME NEW S, NEW s \in Seq(S), NEW n \in Nat
    PROVE  After(s, n) \in Seq(S)
<1>1. \A i \in (n + 1)..Len(s) : s[i] \in S
  BY ElementOfSeq
<1>2. QED
  BY <1>1, SubSeqProperties DEF After

LEMMA FirstType ==
    ASSUME NEW S, NEW s \in Seq(S), NEW n \in 0..Len(s)
    PROVE  SubSeq(s, 1, n) \in Seq(S)
<1>1. \A i \in 1..n : s[i] \in S
  BY ElementOfSeq
<1>2. QED
  BY <1>1, SubSeqProperties

LEMMA ElementsType ==
    ASSUME NEW S, NEW s \in Seq(S)
    PROVE  Elements(s) \subseteq S
BY DEF Elements

Entries == [anchor : 1..MaxAnchor, oset : Int]

LEMMA LastType ==
    ASSUME NEW index \in Seq(Entries), MaxAnchor \in Nat
    PROVE  LastAnchor(index) \in 0..MaxAnchor
<1>1. CASE index = <<>>
  BY <1>1 DEF LastAnchor
<1>2. CASE index # <<>>
  <2>1. Len(index) \in 1..Len(index)
    BY <1>2
  <2>2. index[Len(index)] \in Entries
    BY <2>1, ElementOfSeq
  <2>3. QED
    BY <1>2, <2>2 DEF LastAnchor, Entries
<1>3. QED
  BY <1>1, <1>2

(***************************************************************************)
(* The steps of clear_backup that read what CutBegin found.                 *)
(***************************************************************************)
Cutting ==
    /\ cut.step # "none" => holder = Tool
    /\ cut.step = "index" => cut.first > 1 /\ ~cut.bad
    /\ cut.step = "nodata" => damaged

Typed == TypeOK /\ Cutting

(***************************************************************************)
(* A search that goes on: the account stays with the device it is for, and  *)
(* the tokens with the index.                                               *)
(***************************************************************************)
Ranged ==
    probe # NoProbe =>
        /\ holder \in Devices /\ dev[holder].step = "head"
        /\ 1 <= probe.min /\ probe.min <= probe.mid
        /\ probe.mid <= probe.max /\ probe.max <= Len(idx)

\* Facts about one device that every step of one uses.
DevType == [step : {"idle", "head", "work"}, anchor : 0..MaxAnchor,
            knows : SUBSET Acts, got : SUBSET Acts]

SeionType == [last : 0..MaxAnchor, cached : BOOLEAN, flag : BOOLEAN]

ProbeType == [min : Nat, mid : Nat, max : Nat]

CutType == [step : {"none", "index", "data", "noindex", "nodata", "end"},
            first : Nat, oset : Int, bad : BOOLEAN]

\* A list of actions is recorded whole or in part.
LEMMA FlushedType ==
    ASSUME NEW n \in 0..Len(list), Flushed(n),
           list \in Seq(Acts), acd \in Seq(Acts), log \subseteq Acts
    PROVE  acd' \in Seq(Acts) /\ log' \subseteq Acts
<1>1. SubSeq(list, 1, n) \in Seq(Acts)
  BY FirstType
<1>2. acd' \in Seq(Acts)
  BY <1>1, ConcatProperties DEF Flushed
<1>3. log' \subseteq Acts
  BY <1>1, ElementsType DEF Flushed
<1>4. QED
  BY <1>2, <1>3

\* A new anchor fits its type, and the index its own.
LEMMA AddiType ==
    ASSUME Addi, idx \in Seq(Entries), mark \in [1..MaxAnchor -> SUBSET Acts],
           acd' \in Seq(Acts), log' \subseteq Acts
    PROVE  idx' \in Seq(Entries) /\ mark' \in [1..MaxAnchor -> SUBSET Acts]
<1> DEFINE n == LastAnchor(idx) + 1
<1>1. n \in 1..MaxAnchor
  BY LastType, AnchorAssumption DEF Addi
<1>2. [anchor |-> n, oset |-> Len(acd')] \in Entries
  BY <1>1 DEF Entries
<1>3. idx' = Append(idx, [anchor |-> n, oset |-> Len(acd')])
  BY DEF Addi
<1> HIDE DEF n
<1>4. idx' \in Seq(Entries)
  BY <1>2, <1>3
<1>5. mark' \in [1..MaxAnchor -> SUBSET Acts]
  BY <1>1 DEF Addi
<1>6. QED
  BY <1>4, <1>5

(***************************************************************************)
(* Half of a distance, rounded down twice, is no more than the distance.    *)
(***************************************************************************)
LEMMA DivBounds ==
    ASSUME NEW n \in Nat, NEW k \in Nat \ {0}
    PROVE  n \div k \in 0..n
<1> DEFINE q == n \div k
           r == n % k
<1>1. q \in Int /\ r \in 0..(k - 1) /\ n = k * q + r
  OBVIOUS
<1> HIDE DEF q, r
<1>2. q >= 0
  <2>1. SUFFICES ASSUME q <= -1 PROVE FALSE
    BY <1>1
  <2>2. k * q <= -k
    BY <1>1, <2>1
  <2>3. QED
    BY <1>1, <2>2
<1>3. q <= n
  <2>1. k * q >= q
    BY <1>1, <1>2
  <2>2. QED
    BY <1>1, <2>1
<1>4. QED
  BY <1>1, <1>2, <1>3 DEF q

LEMMA HalfBounds ==
    ASSUME NEW from \in Nat, NEW to \in Nat, from <= to
    PROVE  Half(from, to) \in 0..(to - from)
<1> DEFINE a == (to - from) \div EntrySize
<1>1. a \in 0..(to - from)
  BY DivBounds, AnchorAssumption
<1>2. a \div 2 \in 0..a
  BY <1>1, DivBounds
<1>3. a \div 2 \in 0..(to - from)
  BY <1>1, <1>2
<1>4. QED
  BY <1>3 DEF Half

\* The tokens after a round that goes on.
LEMMA UpwardsBounds ==
    ASSUME NEW p \in ProbeType, p.mid <= p.max, p.mid # p.max
    PROVE  /\ Upwards(p) \in ProbeType
           /\ Upwards(p).min = p.mid /\ Upwards(p).max = p.max
           /\ p.mid <= Upwards(p).mid /\ Upwards(p).mid <= p.max
<1> DEFINE h == Half(p.mid, p.max)
<1>1. h \in 0..(p.max - p.mid)
  BY HalfBounds DEF ProbeType
<1> HIDE DEF h
<1>2. Upwards(p) = [min |-> p.mid, max |-> p.max, mid |-> p.mid + IF h = 0 THEN 1 ELSE h]
  BY DEF Upwards, h
<1>3. QED
  BY <1>1, <1>2 DEF ProbeType

LEMMA DownwardsBounds ==
    ASSUME NEW p \in ProbeType, p.min <= p.mid
    PROVE  /\ Downwards(p) \in ProbeType
           /\ Downwards(p).min = p.min /\ Downwards(p).max = p.mid
           /\ p.min <= Downwards(p).mid /\ Downwards(p).mid <= p.mid
<1> DEFINE h == Half(p.min, p.mid)
<1>1. h \in 0..(p.mid - p.min)
  BY HalfBounds DEF ProbeType
<1> HIDE DEF h
<1>2. Downwards(p) = [min |-> p.min, max |-> p.mid, mid |-> p.min + h]
  BY DEF Downwards, h
<1>3. QED
  BY <1>1, <1>2 DEF ProbeType

(***************************************************************************)
(* What ends a session, and what it does to the types.                      *)
(***************************************************************************)
LEMMA EndTypes ==
    ASSUME Typed, NEW d \in Devices, NEW a \in 0..MaxAnchor
    PROVE  /\ Idled(d) => dev' \in [Devices -> DevType]
           /\ Settled(d, a) => dev' \in [Devices -> DevType]
           /\ Slow(d) => dev' \in [Devices -> DevType]
<1>1. dev[d] \in DevType
  BY DEF Typed, TypeOK, DevType
<1>2. 0 \in 0..MaxAnchor /\ 1..pool \subseteq Acts
  BY AnchorAssumption DEF Typed, TypeOK, Acts
<1>3. dev \in [Devices -> DevType]
  BY DEF Typed, TypeOK, DevType
<1>4. ASSUME Idled(d) PROVE dev' \in [Devices -> DevType]
  BY <1>1, <1>3, <1>4 DEF Idled, DevType
<1>5. ASSUME Settled(d, a) PROVE dev' \in [Devices -> DevType]
  BY <1>1, <1>3, <1>5 DEF Settled, DevType
<1>6. ASSUME Slow(d) PROVE dev' \in [Devices -> DevType]
  BY <1>1, <1>2, <1>3, <1>6 DEF Slow, DevType
<1>7. QED
  BY <1>4, <1>5, <1>6

LEMMA ReturnedType ==
    ASSUME Typed, Returned
    PROVE  holder' = None /\ seion' \in SeionType /\ cached' \in 0..MaxAnchor
BY AnchorAssumption DEF Typed, TypeOK, Returned, SeionType, NoSeion

LEMMA ClearedType ==
    ASSUME Typed, Cleared
    PROVE  listing' = NoListing \/ listing' \subseteq Acts
BY DEF Typed, TypeOK, Cleared

LEMMA FinishType ==
    ASSUME Typed, Finish, holder # Tool, dev' \in [Devices -> DevType]
    PROVE  Typed'
<1>1. list' \in Seq(Acts)
  BY DEF Finish
<1>2. QED
  BY <1>1, ReturnedType, ClearedType
     DEF Finish, Typed, TypeOK, Cutting, files, SeionType, DevType

THEOREM InitTyped == Init => Typed
<1> SUFFICES ASSUME Init PROVE Typed
  OBVIOUS
<1>2. idx \in Seq(Entries)
  BY AnchorAssumption DEF Init, Entries
<1>3. acd \in Seq(Acts) /\ list \in Seq(Acts)
  BY DEF Init
<1>4. /\ cached \in 0..MaxAnchor
      /\ dev \in [Devices -> DevType]
      /\ mark \in [1..MaxAnchor -> SUBSET Acts] /\ log \subseteq Acts
  <2>1. \A n \in 0..Backlog : n \in 0..MaxAnchor
    BY AnchorAssumption
  <2>2. QED
    BY <2>1, AnchorAssumption DEF Init, DevType
<1>5. /\ seion \in SeionType /\ probe \in ProbeType
      /\ cut \in CutType
      /\ listing = NoListing /\ pool \in 0..MaxActs /\ holder = None
      /\ damaged \in BOOLEAN
  <2>1. 0 \in 0..MaxAnchor /\ 0 \in 0..MaxActs /\ 0 \in Nat /\ 0 \in Int
    BY AnchorAssumption
  <2>2. NoSeion \in SeionType
    BY <2>1 DEF NoSeion, SeionType
  <2>3. NoProbe \in ProbeType
    BY <2>1 DEF NoProbe, ProbeType
  <2>4. NoCut \in CutType
    BY <2>1 DEF NoCut, CutType
  <2>5. QED
    BY <2>1, <2>2, <2>3, <2>4 DEF Init
<1>6. Cutting
  BY DEF Init, Cutting, NoCut
<1>7. QED
  BY <1>2, <1>3, <1>4, <1>5, <1>6
     DEF Typed, TypeOK, Entries, DevType, SeionType, ProbeType, CutType

(***************************************************************************)
(* The types after a step of a device.                                      *)
(***************************************************************************)
LEMMA DeviceTyped ==
    ASSUME Typed, Ranged, NEW d \in Devices, Device(d)
    PROVE  Typed'
<1> USE AnchorAssumption
<1>0. /\ dev[d] \in DevType /\ dev \in [Devices -> DevType]
      /\ holder \in Devices => holder # Tool /\ cut.step = "none"
      /\ seion \in SeionType /\ probe \in ProbeType
  BY DEF Typed, TypeOK, Cutting, DevType, SeionType, ProbeType
<1> DEFINE Kept == /\ idx' = idx /\ acd' = acd /\ mark' = mark /\ log' = log
                   /\ damaged' = damaged /\ cut' = cut
<1>1. CASE Begin(d)
  <2>1. seion' \in SeionType
    BY <1>1, LastType DEF Begin, Typed, TypeOK, SeionType, Entries
  <2>2. dev' \in [Devices -> DevType]
    BY <1>0, <1>1 DEF Begin, DevType
  <2>3. QED
    BY <1>0, <1>1, <2>1, <2>2
       DEF Begin, files, Typed, TypeOK, Cutting, SeionType, DevType
<1>2. CASE HeadSlow(d)
  <2>1. dev' \in [Devices -> DevType]
    BY <1>2, EndTypes, 0 \in 0..MaxAnchor DEF HeadSlow
  <2>2. QED
    BY <1>2, <2>1 DEF HeadSlow, files, Typed, TypeOK, Cutting, DevType
<1>3. CASE HeadCached(d)
  <2>1. listing \subseteq Acts
    BY <1>3 DEF HeadCached, Typed, TypeOK
  <2>2. dev' \in [Devices -> DevType] /\ seion' \in SeionType
    BY <1>0, <1>3, <2>1 DEF HeadCached, DevType, SeionType
  <2>3. QED
    BY <1>3, <2>2 DEF HeadCached, files, Typed, TypeOK, Cutting, DevType, SeionType
<1>4. CASE HeadSearch(d)
  <2>1. dev' \in [Devices -> DevType]
    BY <1>0, <1>4, EndTypes, 0 \in 0..MaxAnchor DEF HeadSearch
  <2>2. Len(idx) \in Nat
    BY DEF Typed, TypeOK
  <2>3. probe' \in ProbeType
    BY <1>0, <1>4, <2>2 DEF HeadSearch, ProbeType
  <2>4. QED
    BY <1>4, <2>1, <2>3 DEF HeadSearch, files, Typed, TypeOK, Cutting, DevType, ProbeType
<1>5. CASE Search(d)
  <2>1. /\ probe # NoProbe /\ holder = d
        /\ probe.mid \in 1..Len(idx) /\ probe.mid <= probe.max
        /\ probe.min <= probe.mid
    BY <1>0, <1>5 DEF Search, Ranged, ProbeType
  <2>2. idx[probe.mid] \in Entries
    BY <2>1, ElementOfSeq DEF Typed, TypeOK, Entries
  <2>3. ASSUME NEW p \in ProbeType, Goes(d, p)
        PROVE  /\ probe' \in ProbeType /\ dev' \in [Devices -> DevType]
               /\ seion' = seion /\ listing' = listing
    BY <1>0, <2>3, EndTypes, 0 \in 0..MaxAnchor DEF Goes, ProbeType, NoProbe
  <2>4. CASE Goes(d, Upwards(probe)) \/ Goes(d, Downwards(probe))
    <3>1. CASE probe.mid # probe.max
      <4>1. Upwards(probe) \in ProbeType /\ Downwards(probe) \in ProbeType
        BY <1>0, <2>1, <3>1, UpwardsBounds, DownwardsBounds
      <4>2. QED
        BY <1>5, <2>3, <2>4, <4>1
           DEF Search, files, Typed, TypeOK, Cutting, DevType, ProbeType
    <3>2. CASE probe.mid = probe.max
      <4>1. Downwards(probe) \in ProbeType
        BY <1>0, <2>1, DownwardsBounds
      <4>2. CASE Goes(d, Upwards(probe))
        <5>1. Upwards(probe).min = Upwards(probe).max
          BY <3>2 DEF Upwards
        <5>2. probe' = NoProbe /\ Slow(d) /\ UNCHANGED <<seion, listing>>
          BY <4>2, <5>1 DEF Goes
        <5>3. dev' \in [Devices -> DevType] /\ probe' \in ProbeType
          BY <5>2, EndTypes, 0 \in 0..MaxAnchor DEF ProbeType, NoProbe
        <5>4. QED
          BY <1>5, <5>2, <5>3
             DEF Search, files, Typed, TypeOK, Cutting, DevType, ProbeType
      <4>3. CASE Goes(d, Downwards(probe))
        BY <1>5, <2>3, <4>1, <4>3
           DEF Search, files, Typed, TypeOK, Cutting, DevType, ProbeType
      <4>4. QED
        BY <2>4, <4>2, <4>3
    <3>3. QED
      BY <3>1, <3>2
  <2>5. CASE Found(d)
    <3> DEFINE oset == idx[probe.mid].oset
               got == Elements(After(acd, oset))
    <3>1. oset \in Int
      BY <2>2 DEF Entries
    <3>2. probe' \in ProbeType
      BY <2>5 DEF Found, ProbeType, NoProbe
    <3>3. CASE oset < 0
      BY <1>5, <2>5, <3>2, <3>3
         DEF Found, Search, files, Typed, TypeOK, Cutting, DevType, ProbeType
    <3>4. CASE oset >= 0
      <4>1. got \subseteq Acts
        <5>1. acd \in Seq(Acts)
          BY DEF Typed, TypeOK
        <5> HIDE DEF oset
        <5>2. oset \in Nat
          BY <3>1, <3>4
        <5>3. After(acd, oset) \in Seq(Acts)
          BY <5>1, <5>2, AfterType
        <5>4. QED
          BY <5>3, ElementsType
      <4>2. /\ listing' = got
            /\ dev' = [dev EXCEPT ![d].step = "work", ![d].got = got]
            /\ seion' = [seion EXCEPT !.flag = TRUE]
        BY <2>5, <3>1, <3>4 DEF Found
      <4> HIDE DEF got, oset
      <4>3. dev' \in [Devices -> DevType] /\ seion' \in SeionType
        BY <1>0, <4>1, <4>2 DEF DevType, SeionType
      <4>4. QED
        BY <1>5, <3>2, <4>1, <4>2, <4>3
           DEF Search, files, Typed, TypeOK, Cutting, DevType, SeionType, ProbeType
    <3>5. QED
      BY <3>1, <3>3, <3>4
  <2>6. QED
    BY <1>5, <2>4, <2>5 DEF Search
<1>6. CASE Act(d)
  <2>1. pool' \in 0..MaxActs /\ pool' = pool + 1 /\ pool + 1 \in Acts
    <3>1. pool \in 0..MaxActs /\ pool < MaxActs /\ pool' = pool + 1
      BY <1>6 DEF Act, Typed, TypeOK
    <3>2. QED
      BY <3>1 DEF Acts
  <2>2. list' \in Seq(Acts)
    BY <1>6, <2>1 DEF Act, Typed, TypeOK
  <2>3. dev' \in [Devices -> DevType]
    BY <1>0, <1>6, <2>1 DEF Act, DevType
  <2>4. QED
    BY <1>6, <2>1, <2>2, <2>3 DEF Act, files, Typed, TypeOK, Cutting, DevType
<1>7. CASE Again(d)
  <2>1. dev' \in [Devices -> DevType]
    BY <1>0, <1>7 DEF Again, DevType
  <2>2. QED
    BY <1>7, <2>1 DEF Again, files, Typed, TypeOK, Cutting, DevType
<1>8. CASE Success(d)
  <2>1. acd' \in Seq(Acts) /\ log' \subseteq Acts
    <3>1. Len(list) \in 0..Len(list)
      BY DEF Typed, TypeOK
    <3>2. QED
      BY <1>8, <3>1, FlushedType DEF Success, Typed, TypeOK
  <2>2. idx' \in Seq(Entries) /\ mark' \in [1..MaxAnchor -> SUBSET Acts]
    BY <1>8, <2>1, AddiType DEF Success, Typed, TypeOK, Entries
  <2>3. cached' \in 0..MaxAnchor
    BY <1>8, <2>2, LastType DEF Success
  <2>4. PICK told \in BOOLEAN : Settled(d, IF told THEN cached' ELSE dev[d].anchor)
    BY <1>8 DEF Success
  <2>5. dev' \in [Devices -> DevType]
    <3>1. (IF told THEN cached' ELSE dev[d].anchor) \in 0..MaxAnchor
      BY <1>0, <2>3 DEF DevType
    <3>2. QED
      BY <2>4, <3>1, EndTypes
  <2>6. /\ list' \in Seq(Acts) /\ holder' = None /\ seion' \in SeionType
        /\ listing' = NoListing \/ listing' \subseteq Acts
        /\ holder = d /\ UNCHANGED <<damaged, probe, cut, pool>>
    BY <1>8, ClearedType DEF Success, Work, SeionType, NoSeion
  <2>7. QED
    BY <1>0, <2>1, <2>2, <2>3, <2>5, <2>6
       DEF Typed, TypeOK, Cutting, Entries, DevType, SeionType
<1>9. CASE SuccessFails(d)
  <2>1. PICK n \in 0..Len(list) :
          /\ Flushed(n)
          /\ \/ UNCHANGED <<idx, mark>>
             \/ n = Len(list) /\ Addi
    BY <1>9 DEF SuccessFails
  <2>2. acd' \in Seq(Acts) /\ log' \subseteq Acts
    BY <2>1, FlushedType DEF Typed, TypeOK
  <2>3. idx' \in Seq(Entries) /\ mark' \in [1..MaxAnchor -> SUBSET Acts]
    BY <2>1, <2>2, AddiType DEF Typed, TypeOK, Entries
  <2>4. dev' \in [Devices -> DevType]
    BY <1>0, <1>9, EndTypes DEF SuccessFails, DevType
  <2>5. list' \in Seq(Acts) /\ seion' \in SeionType /\ holder' = Gone /\ holder = d
    BY <1>9 DEF SuccessFails, Work, SeionType, NoSeion
  <2>6. UNCHANGED <<cached, damaged, listing, probe, cut, pool>>
    BY <1>9 DEF SuccessFails
  <2>7. QED
    BY <1>0, <2>2, <2>3, <2>4, <2>5, <2>6
       DEF Typed, TypeOK, Cutting, Entries, DevType, SeionType
<1>10. CASE Update(d)
  <2>1. dev' \in [Devices -> DevType]
    BY <1>0, <1>10, EndTypes DEF Update, SeionType
  <2>2. QED
    BY <1>0, <1>10, <2>1, FinishType DEF Update, Work
<1>11. CASE Leave(d)
  <2>1. dev' \in [Devices -> DevType]
    BY <1>0, <1>11, EndTypes DEF Leave, DevType
  <2>2. QED
    BY <1>0, <1>11, <2>1, FinishType DEF Leave, Work
<1>12. CASE Fail(d)
  <2>1. dev' \in [Devices -> DevType]
    BY <1>0, <1>12, EndTypes, 0 \in 0..MaxAnchor DEF Fail
  <2>2. QED
    BY <1>0, <1>12, <2>1, FinishType DEF Fail
<1>13. CASE Break(d)
  <2>1. acd' \in Seq(Acts) /\ log' \subseteq Acts
    BY <1>13, FlushedType DEF Break, Typed, TypeOK
  <2>2. dev' \in [Devices -> DevType]
    BY <1>13, EndTypes, 0 \in 0..MaxAnchor DEF Break
  <2>3. /\ list' \in Seq(Acts) /\ holder = d
        /\ UNCHANGED <<idx, mark, damaged, probe, cut, pool>>
    BY <1>13 DEF Break
  <2>4. /\ holder' = None /\ seion' \in SeionType /\ cached' \in 0..MaxAnchor
        /\ listing' = NoListing \/ listing' \subseteq Acts
    BY <1>13, ReturnedType, ClearedType DEF Break
  <2>5. QED
    BY <1>0, <2>1, <2>2, <2>3, <2>4 DEF Typed, TypeOK, Cutting, DevType, SeionType
<1>14. CASE Die(d)
  <2>1. dev' \in [Devices -> DevType]
    BY <1>14, EndTypes, 0 \in 0..MaxAnchor DEF Die
  <2>2. list' \in Seq(Acts) /\ seion' \in SeionType /\ probe' \in ProbeType
    BY <1>14 DEF Die, SeionType, NoSeion, ProbeType, NoProbe
  <2>3. QED
    BY <1>0, <1>14, <2>1, <2>2
       DEF Die, files, Typed, TypeOK, Cutting, DevType, SeionType, ProbeType
<1>15. QED
  BY <1>1, <1>2, <1>3, <1>4, <1>5, <1>6, <1>7, <1>8, <1>9, <1>10, <1>11,
     <1>12, <1>13, <1>14 DEF Device

(***************************************************************************)
(* The types after a step of clear_backup or of the clock.                  *)
(***************************************************************************)
Cut ==
    \/ CutBegin \/ CutIndex \/ IndexFails \/ CutData \/ DataFails
    \/ UnlinkIndex \/ UnlinkData \/ CutKilled \/ CutEnd

\* The entries from one on, their offsets moved.
LEMMA MovedType ==
    ASSUME NEW k \in Seq(Entries), NEW oset \in Int
    PROVE  [i \in 1..Len(k) |-> [k[i] EXCEPT !.oset = @ - oset]] \in Seq(Entries)
<1>1. \A i \in 1..Len(k) : [k[i] EXCEPT !.oset = @ - oset] \in Entries
  <2>1. SUFFICES ASSUME NEW e \in Entries
                 PROVE  [e EXCEPT !.oset = @ - oset] \in Entries
    BY ElementOfSeq
  <2>2. e.oset - oset \in Int
    BY DEF Entries
  <2>3. QED
    BY <2>2 DEF Entries
<1>2. QED
  BY <1>1, IsASeq

LEMMA CutTyped ==
    ASSUME Typed, Cut
    PROVE  Typed'
<1>0. /\ cut \in CutType /\ idx \in Seq(Entries) /\ acd \in Seq(Acts)
      /\ cut.step # "none" => holder = Tool
      /\ cut.step = "index" => cut.first > 1 /\ ~cut.bad
      /\ Tool \notin Devices
  BY AnchorAssumption DEF Typed, TypeOK, Cutting, Entries, CutType
<1>1. CASE CutBegin
  <2>1. PICK first \in 2..Len(idx) :
          cut' = [step |-> "index", first |-> first, oset |-> idx[first].oset,
                  bad |-> FALSE]
    BY <1>1 DEF CutBegin
  <2>2. idx[first] \in Entries
    BY <1>0, <2>1, ElementOfSeq
  <2>3. cut' \in CutType /\ cut'.step = "index" /\ cut'.first > 1 /\ ~cut'.bad
    BY <2>1, <2>2 DEF Entries, CutType
  <2>4. QED
    BY <1>1, <2>3 DEF CutBegin, files, Typed, TypeOK, Cutting, CutType
<1>2. CASE CutIndex
  <2> DEFINE kept == After(idx, cut.first - 1)
  <2>1. cut.first - 1 \in Nat /\ cut.oset \in Int
    BY <1>0, <1>2 DEF CutIndex, CutType
  <2>2. kept \in Seq(Entries)
    BY <1>0, <2>1, AfterType
  <2>3. idx' = [i \in 1..Len(kept) |-> [kept[i] EXCEPT !.oset = @ - cut.oset]]
    BY <1>2 DEF CutIndex
  <2> HIDE DEF kept
  <2>4. idx' \in Seq(Entries)
    BY <2>1, <2>2, <2>3, MovedType
  <2>5. cut' \in CutType /\ cut'.step = "data" /\ holder = Tool
    BY <1>0, <1>2 DEF CutIndex, CutType
  <2>6. QED
    BY <1>2, <2>4, <2>5 DEF CutIndex, Typed, TypeOK, Cutting, Entries, CutType
<1>3. CASE CutData
  <2>1. acd' \in Seq(Acts)
    <3>1. cut.oset \in Nat
      BY <1>0, <1>3 DEF CutData, CutType
    <3>2. QED
      BY <1>0, <1>3, <3>1, AfterType DEF CutData
  <2>2. cut' \in CutType /\ cut'.step \in {"noindex", "end"} /\ holder = Tool
    BY <1>0, <1>3 DEF CutData, CutType
  <2>3. damaged' \in BOOLEAN
    BY <1>3 DEF CutData, Typed, TypeOK
  <2>4. UNCHANGED <<idx, mark, log, cached, holder, seion, list, listing, probe, dev, pool>>
    BY <1>3 DEF CutData
  <2>5. QED
    BY <2>1, <2>2, <2>3, <2>4 DEF Typed, TypeOK, Cutting, CutType
<1>4. CASE IndexFails \/ DataFails
  <2>1. cut' \in CutType /\ cut'.step \in {"data", "noindex"} /\ holder = Tool
    BY <1>0, <1>4 DEF IndexFails, DataFails, CutType
  <2>2. QED
    BY <1>4, <2>1 DEF IndexFails, DataFails, files, Typed, TypeOK, Cutting, CutType
<1>8. CASE UnlinkIndex \/ UnlinkData
  <2>1. cut' \in CutType /\ cut'.step \in {"nodata", "end"} /\ holder = Tool
    BY <1>0, <1>8 DEF UnlinkIndex, UnlinkData, CutType
  <2>2. idx' \in Seq(Entries) /\ acd' \in Seq(Acts) /\ damaged' \in BOOLEAN
    <3>1. <<>> \in Seq(Entries) /\ <<>> \in Seq(Acts) /\ damaged \in BOOLEAN
      BY DEF Typed, TypeOK
    <3>2. CASE UnlinkIndex
      BY <1>0, <3>1, <3>2 DEF UnlinkIndex
    <3>3. CASE UnlinkData
      BY <1>0, <3>1, <3>3 DEF UnlinkData
    <3>4. QED
      BY <1>8, <3>2, <3>3
  <2>3. UNCHANGED <<mark, log, cached, holder, seion, list, listing, probe, dev, pool>>
        /\ (cut'.step = "nodata" => damaged')
    BY <1>0, <1>8 DEF UnlinkIndex, UnlinkData, CutType
  <2>4. QED
    BY <2>1, <2>2, <2>3 DEF Typed, TypeOK, Cutting, Entries, CutType
<1>5. CASE CutKilled
  <2>1. cut' \in CutType /\ cut'.step = "none"
    BY <1>5 DEF CutKilled, NoCut, CutType
  <2>2. idx' \in Seq(Entries) /\ acd' \in Seq(Acts) /\ damaged' \in BOOLEAN
    <3>1. <<>> \in Seq(Entries) /\ <<>> \in Seq(Acts) /\ damaged \in BOOLEAN
      BY DEF Typed, TypeOK
    <3>2. /\ idx' = idx \/ idx' = <<>>
          /\ acd' = acd \/ acd' = <<>>
          /\ damaged' = damaged \/ damaged' = TRUE
      BY <1>5 DEF CutKilled
    <3>3. QED
      BY <1>0, <3>1, <3>2
  <2>3. QED
    BY <1>5, <2>1, <2>2 DEF CutKilled, Typed, TypeOK, Cutting, Entries, CutType
<1>6. CASE CutEnd
  <2>1. cut' \in CutType /\ cut'.step = "none"
    BY <1>6 DEF CutEnd, NoCut, CutType
  <2>2. QED
    BY <1>6, <2>1 DEF CutEnd, files, Typed, TypeOK, Cutting, CutType
<1>7. QED
  BY <1>1, <1>2, <1>3, <1>4, <1>5, <1>6, <1>8 DEF Cut

LEMMA ClockTyped ==
    ASSUME Typed, Stale \/ Lapse
    PROVE  Typed'
<1>1. holder = Gone => cut.step = "none"
  BY AnchorAssumption DEF Typed, Cutting
<1>2. QED
  BY <1>1 DEF Stale, Lapse, files, Typed, TypeOK, Cutting

\* A list written in part ends the search, and damages nothing else.
Torn == \E d \in Devices : FoundTorn(d)

LEMMA TornOffset ==
    ASSUME Typed, Ranged, NEW d \in Devices, FoundTorn(d)
    PROVE  idx[probe.mid].oset \in Nat
<1>1. probe.mid \in 1..Len(idx) /\ idx \in Seq(Entries)
  <2>1. idx \in Seq(Entries) /\ Len(idx) \in Nat /\ probe \in ProbeType
    BY DEF Typed, TypeOK, ProbeType, Entries
  <2>2. /\ 1 <= probe.min /\ probe.min <= probe.mid
        /\ probe.mid <= probe.max /\ probe.max <= Len(idx)
    BY DEF FoundTorn, Ranged
  <2>3. QED
    BY <2>1, <2>2 DEF ProbeType
<1>2. idx[probe.mid] \in Entries
  BY <1>1, ElementOfSeq
<1>3. QED
  BY <1>2 DEF FoundTorn, Entries

LEMMA TornTyped ==
    ASSUME Typed, Ranged, Torn
    PROVE  Typed' /\ Ranged'
<1>1. PICK d \in Devices : FoundTorn(d)
  BY DEF Torn
<1> DEFINE got == Elements(After(acd, idx[probe.mid].oset))
<1>2. PICK part \in SUBSET got :
        listing' = part /\ dev' = [dev EXCEPT ![d].step = "work", ![d].got = part]
  BY <1>1 DEF FoundTorn
<1>3. part \subseteq Acts
  <2>1. acd \in Seq(Acts) /\ idx[probe.mid].oset \in Nat
    BY <1>1, TornOffset DEF Typed, TypeOK
  <2>2. After(acd, idx[probe.mid].oset) \in Seq(Acts)
    BY <2>1, AfterType
  <2>3. QED
    BY <2>2, ElementsType
<1> HIDE DEF got
<1>4. dev \in [Devices -> DevType] /\ seion \in SeionType /\ cut \in CutType
  BY DEF Typed, TypeOK, DevType, SeionType, CutType
<1>5. dev' \in [Devices -> DevType]
  BY <1>2, <1>3, <1>4 DEF DevType
<1>6. seion' \in SeionType
  BY <1>1, <1>4 DEF FoundTorn, SeionType
<1>7. /\ probe' = NoProbe /\ damaged' = TRUE
      /\ UNCHANGED <<idx, acd, mark, log, cached, holder, list, cut, pool>>
  BY <1>1 DEF FoundTorn
<1>8. NoProbe \in ProbeType
  BY DEF NoProbe, ProbeType
<1>9. Typed'
  BY <1>2, <1>3, <1>5, <1>6, <1>7, <1>8
     DEF Typed, TypeOK, Cutting, DevType, SeionType, ProbeType
<1>10. QED
  BY <1>7, <1>9 DEF Ranged

(***************************************************************************)
(* The tokens stay in order and inside the index.                           *)
(***************************************************************************)
LEMMA DeviceRanged ==
    ASSUME Typed, Ranged, NEW d \in Devices, Device(d)
    PROVE  Ranged'
<1> USE AnchorAssumption
<1>0. /\ probe \in ProbeType /\ dev \in [Devices -> DevType]
      /\ idx \in Seq(Entries) /\ Len(idx) \in Nat
  BY DEF Typed, TypeOK, ProbeType, DevType, Entries
<1>1. Work(d) => probe = NoProbe
  BY DEF Work, Ranged
<1>2. CASE HeadSearch(d)
  <2>1. CASE idx = <<>>
    BY <1>2, <2>1 DEF HeadSearch, Asks, Ranged
  <2>2. CASE idx # <<>>
    <3>1. Len(idx) >= 1
      BY <1>0, <2>2
    <3>2. /\ probe' = [min |-> 1, mid |-> 1 + Len(idx) \div 2, max |-> Len(idx)]
          /\ dev' = dev /\ holder' = holder /\ idx' = idx
          /\ holder = d /\ dev[d].step = "head"
      BY <1>2, <2>2 DEF HeadSearch, Asks, files
    <3>3. 1 <= 1 + Len(idx) \div 2 /\ 1 + Len(idx) \div 2 <= Len(idx)
      BY <1>0, <3>1
    <3>4. QED
      BY <3>2, <3>3 DEF Ranged
  <2>3. QED
    BY <2>1, <2>2
<1>3. CASE Search(d)
  <2>1. /\ probe # NoProbe /\ holder = d /\ dev[d].step = "head"
        /\ 1 <= probe.min /\ probe.min <= probe.mid
        /\ probe.mid <= probe.max /\ probe.max <= Len(idx)
        /\ idx' = idx /\ holder' = holder
    BY <1>3 DEF Search, Ranged, files
  <2>2. CASE Goes(d, Upwards(probe))
    <3>1. CASE probe.mid = probe.max
      BY <2>2, <3>1 DEF Goes, Upwards, Ranged
    <3>2. CASE probe.mid # probe.max
      <4>1. /\ Upwards(probe) \in ProbeType
            /\ Upwards(probe).min = probe.mid /\ Upwards(probe).max = probe.max
            /\ probe.mid <= Upwards(probe).mid /\ Upwards(probe).mid <= probe.max
        BY <1>0, <2>1, <3>2, UpwardsBounds
      <4>2. probe' = NoProbe \/ (probe' = Upwards(probe) /\ dev' = dev)
        BY <2>2 DEF Goes
      <4>3. QED
        BY <1>0, <2>1, <4>1, <4>2 DEF Ranged, ProbeType
    <3>3. QED
      BY <3>1, <3>2
  <2>3. CASE Goes(d, Downwards(probe))
    <3>1. /\ Downwards(probe) \in ProbeType
          /\ Downwards(probe).min = probe.min /\ Downwards(probe).max = probe.mid
          /\ probe.min <= Downwards(probe).mid /\ Downwards(probe).mid <= probe.mid
      BY <1>0, <2>1, DownwardsBounds
    <3>2. probe' = NoProbe \/ (probe' = Downwards(probe) /\ dev' = dev)
      BY <2>3 DEF Goes
    <3>3. QED
      BY <1>0, <2>1, <3>1, <3>2 DEF Ranged, ProbeType
  <2>4. CASE Found(d)
    BY <2>4 DEF Found, Ranged
  <2>5. QED
    BY <1>3, <2>2, <2>3, <2>4 DEF Search
<1>4. CASE Begin(d) \/ HeadSlow(d) \/ HeadCached(d) \/ Act(d) \/ Again(d) \/ Success(d)
           \/ SuccessFails(d) \/ Update(d) \/ Leave(d) \/ Fail(d) \/ Break(d) \/ Die(d)
  <2>1. probe' = NoProbe
    BY <1>1, <1>4 DEF Begin, HeadSlow, HeadCached, Asks, Act, Again, Success,
         SuccessFails,
       Update, Leave, Fail, Finish, Break, Die, Ranged
  <2>2. QED
    BY <2>1 DEF Ranged
<1>5. QED
  BY <1>2, <1>3, <1>4 DEF Device

\* No search goes on while clear_backup works; the clock moves no token.
LEMMA OthersRanged ==
    ASSUME Typed, Ranged, Cut \/ Stale \/ Lapse
    PROVE  Ranged'
<1>1. CASE Cut
  <2>1. probe = NoProbe
    BY <1>1, AnchorAssumption DEF Cut, CutBegin, CutIndex, CutData, IndexFails,
         DataFails, UnlinkIndex, UnlinkData, CutKilled, CutEnd, Typed, Cutting, Ranged
  <2>2. probe' = probe
    BY <1>1 DEF Cut, CutBegin, CutIndex, CutData, IndexFails, DataFails, UnlinkIndex,
         UnlinkData, CutKilled, CutEnd
  <2>3. QED
    BY <2>1, <2>2 DEF Ranged
<1>2. CASE Stale \/ Lapse
  BY <1>2, AnchorAssumption DEF Stale, Lapse, files, Ranged
<1>3. QED
  BY <1>1, <1>2

(***************************************************************************)
(* The anchors of the index ascend, whatever was cut.                       *)
(***************************************************************************)
Ordered ==
    \A i, j \in 1..Len(idx) : i < j => idx[i].anchor < idx[j].anchor

LEMMA AddiOrdered ==
    ASSUME Addi, Ordered, idx \in Seq(Entries)
    PROVE  Ordered'
<1> DEFINE n == LastAnchor(idx) + 1
           e == [anchor |-> n, oset |-> Len(acd')]
           m == Len(idx)
<1>1. /\ idx' = Append(idx, e) /\ e.anchor = n /\ m \in Nat
      /\ \A i \in 1..m : idx[i] \in Entries
  BY ElementOfSeq DEF Addi
<1>2. \A i \in 1..m : idx[i].anchor < n
  <2>1. SUFFICES ASSUME NEW i \in 1..m PROVE idx[i].anchor < n
    OBVIOUS
  <2>2. m \in 1..m /\ LastAnchor(idx) = idx[m].anchor
    <3>1. m \in Nat
      BY <1>1
    <3> HIDE DEF n, e
    <3>2. m \in 1..m
      BY <2>1, <3>1
    <3> HIDE DEF m
    <3>3. m # 0
      BY <3>1, <3>2
    <3>4. idx # <<>>
      BY <3>3 DEF m
    <3>5. QED
      BY <3>2, <3>4 DEF LastAnchor, m
  <2>3. idx[i].anchor \in Int /\ idx[m].anchor \in Int
    <3> HIDE DEF n, e, m
    <3>1. idx[i] \in Entries /\ idx[m] \in Entries
      BY <1>1, <2>2
    <3>2. QED
      BY <3>1 DEF Entries
  <2>4. idx[i].anchor <= idx[m].anchor
    BY <1>1, <2>2, <2>3 DEF Ordered
  <2>5. QED
    BY <2>2, <2>3, <2>4
<1> HIDE DEF n, e, m
<1>3. /\ Len(idx') = m + 1
      /\ \A i \in 1..m : idx'[i] = idx[i]
      /\ idx'[m + 1] = e
  BY <1>1 DEF m
<1>4. \A i, j \in 1..(m + 1) : i < j => idx'[i].anchor < idx'[j].anchor
  <2>1. SUFFICES ASSUME NEW i \in 1..(m + 1), NEW j \in 1..(m + 1), i < j
                 PROVE  idx'[i].anchor < idx'[j].anchor
    OBVIOUS
  <2>2. i \in 1..m
    BY <1>1, <2>1
  <2>3. CASE j \in 1..m
    BY <1>3, <2>1, <2>2, <2>3 DEF Ordered, m
  <2>4. CASE j = m + 1
    BY <1>1, <1>2, <1>3, <2>2, <2>4
  <2>5. j \in 1..m \/ j = m + 1
    <3>1. m \in Nat
      BY <1>1
    <3>2. QED
      BY <3>1
  <2>6. QED
    BY <2>3, <2>4, <2>5
<1>5. QED
  BY <1>3, <1>4 DEF Ordered

LEMMA CutOrdered ==
    ASSUME CutIndex, Ordered, Typed
    PROVE  Ordered'
<1> DEFINE f == cut.first - 1
           kept == After(idx, f)
<1>1. /\ f \in Nat /\ idx \in Seq(Entries)
      /\ \A i \in (f + 1)..Len(idx) : idx[i] \in Entries
  <2>1. idx \in Seq(Entries) /\ cut.first \in Nat /\ cut.first > 1
    BY DEF CutIndex, Typed, TypeOK, Cutting, Entries
  <2>2. QED
    BY <2>1, ElementOfSeq
<1>2. /\ kept \in Seq(Entries)
      /\ Len(kept) = IF f + 1 <= Len(idx) THEN Len(idx) - f ELSE 0
      /\ \A i \in 1..Len(kept) : kept[i] = idx[f + i]
  <2> HIDE DEF f
  <2> DEFINE n == Len(idx)
  <2>1. f + 1 \in Int /\ n \in Int
    BY <1>1
  <2>2. \A i \in (f + 1)..n : idx[i] \in Entries
    BY <1>1
  <2>3. kept = SubSeq(idx, f + 1, n)
    BY DEF After
  <2> HIDE DEF n, kept
  <2>4. /\ kept \in Seq(Entries)
        /\ Len(kept) = IF f + 1 <= n THEN n - (f + 1) + 1 ELSE 0
        /\ \A i \in 1..(n - (f + 1) + 1) : kept[i] = idx[(f + 1) + i - 1]
    BY <2>1, <2>2, <2>3, SubSeqProperties
  <2>5. f \in Nat /\ n \in Nat
    BY <1>1, <2>1 DEF n
  <2>6. Len(kept) = IF f + 1 <= n THEN n - f ELSE 0
    BY <2>4, <2>5
  <2>7. ASSUME NEW i \in 1..Len(kept)
        PROVE  kept[i] = idx[f + i]
    <3>1. i \in 1..(n - (f + 1) + 1) /\ (f + 1) + i - 1 = f + i
      BY <2>5, <2>6
    <3>2. QED
      BY <2>4, <3>1
  <2>8. QED
    BY <2>4, <2>6, <2>7 DEF n
<1>3. idx' = [i \in 1..Len(kept) |-> [kept[i] EXCEPT !.oset = @ - cut.oset]]
  BY DEF CutIndex
<1> HIDE DEF kept, f
<1>4. Len(kept) \in Nat /\ Len(idx) \in Nat
  BY <1>1, <1>2
<1>5. /\ Len(idx') = Len(kept)
      /\ \A i \in 1..Len(kept) : idx'[i] = [kept[i] EXCEPT !.oset = @ - cut.oset]
  BY <1>3, <1>4
<1>6. ASSUME NEW i \in 1..Len(kept)
      PROVE  f + i \in 1..Len(idx) /\ idx'[i].anchor = idx[f + i].anchor
  <2>1. f + i \in 1..Len(idx) /\ f + i \in (f + 1)..Len(idx)
    BY <1>1, <1>2, <1>4
  <2>2. idx[f + i] \in Entries /\ kept[i] = idx[f + i]
    BY <1>1, <1>2, <2>1
  <2>3. QED
    BY <1>5, <2>1, <2>2 DEF Entries
<1>7. QED
  <2>1. SUFFICES ASSUME NEW i \in 1..Len(kept), NEW j \in 1..Len(kept), i < j
                 PROVE  idx'[i].anchor < idx'[j].anchor
    BY <1>5 DEF Ordered
  <2>2. f + i < f + j
    BY <1>1, <2>1
  <2>3. QED
    BY <1>6, <2>2 DEF Ordered

LEMMA StepOrdered ==
    ASSUME Typed, Ordered, Next
    PROVE  Ordered'
<1>1. idx \in Seq(Entries)
  BY DEF Typed, TypeOK, Entries
<1>2. ASSUME NEW d \in Devices, Device(d)
      PROVE  UNCHANGED idx \/ Addi
  BY <1>2 DEF Device, Begin, HeadSlow, HeadCached, HeadSearch, Search, Act, Again,
       Success,
     SuccessFails, Update, Leave, Fail, Finish, Break, Die, files
<1>3. ASSUME Cut PROVE UNCHANGED idx \/ CutIndex \/ idx' = <<>>
  BY <1>3 DEF Cut, CutBegin, CutData, IndexFails, DataFails, UnlinkIndex, UnlinkData,
       CutKilled, CutEnd, files
<1>4. ASSUME Stale \/ Lapse \/ Torn PROVE UNCHANGED idx
  BY <1>4 DEF Stale, Lapse, Torn, FoundTorn, files
<1>5. UNCHANGED idx \/ Addi \/ CutIndex \/ idx' = <<>>
  BY <1>2, <1>3, <1>4 DEF Next, Cut, Torn
<1>6. CASE UNCHANGED idx
  BY <1>6 DEF Ordered
<1>7. CASE idx' = <<>>
  BY <1>7 DEF Ordered
<1>8. QED
  BY <1>1, <1>5, <1>6, <1>7, AddiOrdered, CutOrdered

(***************************************************************************)
(* What the tokens have ruled out does not hold the anchor.                 *)
(***************************************************************************)
Bracket ==
    probe # NoProbe =>
        \A i \in 1..Len(idx) : idx[i].anchor = dev[holder].anchor =>
            probe.min <= i /\ i <= probe.max

LEMMA SearchBracket ==
    ASSUME Typed, Ranged, Ordered, Bracket, NEW d \in Devices, Search(d)
    PROVE  Bracket'
<1>1. /\ probe \in ProbeType /\ probe # NoProbe /\ holder = d
      /\ probe.mid \in 1..Len(idx)
      /\ idx' = idx /\ holder' = holder
  <2>1. probe \in ProbeType /\ idx \in Seq(Entries)
    BY DEF Typed, TypeOK, ProbeType, Entries
  <2>2. /\ probe # NoProbe /\ holder = d
        /\ idx' = idx /\ holder' = holder
    BY DEF Search, files
  <2>3. QED
    BY <2>1, <2>2 DEF Ranged, ProbeType
<1>2. \A i \in 1..Len(idx) : idx[i].anchor \in Int
  <2>1. \A i \in 1..Len(idx) : idx[i] \in Entries
    BY ElementOfSeq DEF Typed, TypeOK, Entries
  <2>2. QED
    BY <2>1 DEF Entries
<1>3. SUFFICES ASSUME probe' # NoProbe,
                      NEW i \in 1..Len(idx), idx[i].anchor = dev'[d].anchor
               PROVE  probe'.min <= i /\ i <= probe'.max
  BY <1>1 DEF Bracket
<1>4. CASE dev[d].anchor > idx[probe.mid].anchor /\ Goes(d, Upwards(probe))
  <2>1. probe' = Upwards(probe) /\ dev' = dev
    BY <1>3, <1>4 DEF Goes
  <2>2. probe'.min = probe.mid /\ probe'.max = probe.max
    BY <2>1 DEF Upwards
  <2>3. idx[i].anchor > idx[probe.mid].anchor
    BY <1>3, <1>4, <2>1
  <2>4. probe.mid <= i
    BY <1>1, <1>2, <2>3 DEF Ordered
  <2>5. i <= probe.max
    BY <1>1, <1>3, <2>1 DEF Bracket
  <2>6. QED
    BY <2>2, <2>4, <2>5
<1>5. CASE dev[d].anchor < idx[probe.mid].anchor /\ Goes(d, Downwards(probe))
  <2>1. probe' = Downwards(probe) /\ dev' = dev
    BY <1>3, <1>5 DEF Goes
  <2>2. probe'.min = probe.min /\ probe'.max = probe.mid
    BY <2>1 DEF Downwards
  <2>3. idx[i].anchor < idx[probe.mid].anchor
    BY <1>3, <1>5, <2>1
  <2>4. i <= probe.mid
    BY <1>1, <1>2, <2>3 DEF Ordered
  <2>5. probe.min <= i
    BY <1>1, <1>3, <2>1 DEF Bracket
  <2>6. QED
    BY <2>2, <2>4, <2>5
<1>6. CASE Found(d)
  BY <1>3, <1>6 DEF Found
<1>7. QED
  BY <1>4, <1>5, <1>6 DEF Search

LEMMA StepBracket ==
    ASSUME Typed, Ranged, Ordered, Bracket, Next
    PROVE  Bracket'
<1>1. ASSUME NEW d \in Devices, HeadSearch(d)
      PROVE  Bracket'
  <2>1. CASE idx = <<>>
    BY <1>1, <2>1 DEF HeadSearch, Asks, Bracket
  <2>2. CASE idx # <<>>
    <3>1. probe'.min = 1 /\ probe'.max = Len(idx) /\ idx' = idx
      BY <1>1, <2>2 DEF HeadSearch, files
    <3>2. QED
      BY <3>1 DEF Bracket
  <2>3. QED
    BY <2>1, <2>2
<1>2. ASSUME NEW d \in Devices, Device(d), ~HeadSearch(d), ~Search(d)
      PROVE  probe' = NoProbe
  <2>1. probe # NoProbe => holder \in Devices /\ dev[holder].step = "head"
    BY DEF Ranged
  <2>2. holder = None => probe = NoProbe
    BY <2>1, AnchorAssumption
  <2>3. Work(d) => probe = NoProbe
    BY <2>1 DEF Work
  <2>4. probe = NoProbe \/ Die(d)
    BY <1>2, <2>2, <2>3 DEF Device, Begin, HeadSlow, HeadCached, Asks, Act, Again,
         Success,
       SuccessFails, Update, Leave, Fail, Break
  <2>5. QED
    BY <1>2, <2>4 DEF Device, Begin, HeadSlow, HeadCached, Act, Again, Success,
       SuccessFails, Update, Leave, Fail, Finish, Break, Die
<1>3. ASSUME Stale \/ Lapse PROVE Bracket'
  BY <1>3, AnchorAssumption DEF Stale, Lapse, files, Ranged, Bracket
<1>4. ASSUME Cut PROVE probe' = NoProbe
  BY <1>4, AnchorAssumption DEF Cut, CutBegin, CutIndex, CutData, IndexFails,
       DataFails, UnlinkIndex, UnlinkData, CutKilled, CutEnd, Typed, Cutting, Ranged
<1>5. ASSUME Torn PROVE probe' = NoProbe
  BY <1>5 DEF Torn, FoundTorn
<1>6. QED
  BY <1>1, <1>2, <1>3, <1>4, <1>5, SearchBracket DEF Next, Cut, Torn, Bracket

(***************************************************************************)
(* The inductive invariant.                                                 *)
(***************************************************************************)
IInv == Typed /\ Ranged /\ Ordered /\ Bracket

LEMMA InitIInv == Init => IInv
<1> SUFFICES ASSUME Init PROVE IInv
  OBVIOUS
<1>1. Ranged /\ Bracket
  BY DEF Init, Ranged, Bracket
<1>2. Ordered
  BY AnchorAssumption DEF Init, Ordered
<1>3. QED
  BY <1>1, <1>2, InitTyped DEF IInv

LEMMA StepIInv == IInv /\ [Next]_vars => IInv'
<1> SUFFICES ASSUME IInv, [Next]_vars PROVE IInv'
  OBVIOUS
<1>1. CASE Next
  <2>1. Typed' /\ Ranged'
    BY <1>1, DeviceTyped, CutTyped, ClockTyped, TornTyped, DeviceRanged, OthersRanged
       DEF Next, Cut, Torn, IInv
  <2>2. QED
    BY <1>1, <2>1, StepOrdered, StepBracket DEF IInv
<1>2. CASE UNCHANGED vars
  BY <1>2 DEF vars, files, IInv, Typed, TypeOK, Cutting, Ranged, Ordered, Bracket
<1>3. QED
  BY <1>1, <1>2

LEMMA Inductive == Spec => []IInv
<1>1. QED
  BY InitIInv, StepIInv, PTL DEF Spec

(***************************************************************************)
(* Every reachable state is well typed: the offsets clear_backup moves, the *)
(* lists that are read from them and the anchors the devices are told.      *)
(***************************************************************************)
THEOREM TypeCorrect == Spec => []TypeOK
<1>1. IInv => TypeOK
  BY DEF IInv, Typed
<1>2. QED
  BY <1>1, Inductive, PTL

(***************************************************************************)
(* search_anchor, which halves a distance that was divided already, reads   *)
(* no entry outside the mapped index and never rules out the entry of the   *)
(* anchor it looks for, whatever sizeof (struct idxent) and however long    *)
(* the index.                                                               *)
(***************************************************************************)
THEOREM SearchCorrect == Spec => []SearchInside
<1>1. IInv => SearchInside
  <2>1. SUFFICES ASSUME IInv, probe # NoProbe
                 PROVE  {probe.min, probe.mid, probe.max} \subseteq 1..Len(idx)
    BY DEF IInv, SearchInside, Bracket
  <2>2. probe \in ProbeType /\ Len(idx) \in Nat
    <3>1. idx \in Seq(Entries)
      BY <2>1 DEF IInv, Typed, TypeOK, Entries
    <3>2. QED
      BY <2>1, <3>1 DEF IInv, Typed, TypeOK, ProbeType
  <2>3. QED
    BY <2>1, <2>2 DEF IInv, Ranged, ProbeType
<1>2. QED
  BY <1>1, Inductive, PTL

(***************************************************************************)
(* Who may have actions that are not recorded, and what is recorded.        *)
(***************************************************************************)
Owner ==
    /\ \A d \in Devices : dev[d].step # "idle" => holder = d
    /\ \A x \in Elements(list) : holder \in Devices /\ x \in dev[holder].knows
    /\ log \cup Elements(list) \subseteq 1..pool
    /\ \A n \in 1..MaxAnchor : mark[n] \subseteq log

\* A list on the disk was built by the session that holds the account, for
\* the anchor its device still has, or waits to become stale.
Built ==
    /\ probe # NoProbe => listing = NoListing /\ Usable(holder)
    /\ listing # NoListing =>
         \/ holder = Gone
         \/ holder \in Devices /\ seion.flag /\ Usable(holder)

(***************************************************************************)
(* The offsets: what was recorded after an anchor was made lies beyond its  *)
(* offset.  When the index is cut and the data file is not yet, every       *)
(* offset is short of what will be cut; killed there, it stays short, and   *)
(* a device is given more than it needs.                                    *)
(***************************************************************************)
Shift == IF cut.step = "data" /\ ~cut.bad THEN cut.oset ELSE 0
Beyond(s, n) == {s[j] : j \in {k \in 1..Len(s) : k > n}}
Covers(e) ==
    /\ 0 <= e.oset /\ e.oset + Shift <= Len(acd)
    /\ log \ mark[e.anchor] \subseteq Beyond(acd, e.oset + Shift)
Ascending == \A i, j \in 1..Len(idx) : i < j => idx[i].oset <= idx[j].oset
CutFound ==
    /\ cut.step = "index" => cut.first \in 2..Len(idx) /\ cut.oset = idx[cut.first].oset
    /\ cut.step = "data" => 0 <= cut.oset /\ cut.oset <= Len(acd)
Placed == (\A i \in 1..Len(idx) : Covers(idx[i])) /\ Ascending /\ CutFound

\* No anchor is in use that was not made.
Reached ==
    /\ \A d \in Devices : dev[d].anchor <= LastAnchor(idx)
    /\ cached <= LastAnchor(idx) /\ seion.last <= LastAnchor(idx)

\* A list on the disk is complete for the device that holds the account.
Listed ==
    holder \in Devices /\ listing # NoListing =>
        log \ mark[dev[holder].anchor] \subseteq listing

(***************************************************************************)
(* Elements of a part of a sequence.                                        *)
(***************************************************************************)
LEMMA AfterFields ==
    ASSUME NEW S, NEW s \in Seq(S), NEW n \in Nat
    PROVE  /\ Len(s) \in Nat
           /\ Len(After(s, n)) = IF n + 1 <= Len(s) THEN Len(s) - n ELSE 0
           /\ \A i \in 1..Len(After(s, n)) :
                n + i \in 1..Len(s) /\ n + i > n /\ After(s, n)[i] = s[n + i]
<1> DEFINE t == After(s, n)
           m == Len(s)
<1>1. m \in Nat /\ \A i \in (n + 1)..m : s[i] \in S
  BY ElementOfSeq
<1>2. /\ Len(t) = IF n + 1 <= m THEN m - (n + 1) + 1 ELSE 0
      /\ \A i \in 1..(m - (n + 1) + 1) : t[i] = s[(n + 1) + i - 1]
  <2>1. t = SubSeq(s, n + 1, m)
    BY DEF After
  <2> HIDE DEF t, m
  <2>2. n + 1 \in Int /\ m \in Int
    BY <1>1
  <2>3. QED
    BY <1>1, <2>1, <2>2, SubSeqProperties
<1> HIDE DEF t, m
<1>3. \A i \in 1..Len(t) : n + i \in 1..m /\ n + i > n /\ t[i] = s[n + i]
  <2> SUFFICES ASSUME NEW i \in 1..Len(t)
               PROVE  n + i \in 1..m /\ n + i > n /\ t[i] = s[n + i]
    OBVIOUS
  <2>1. i \in 1..(m - (n + 1) + 1) /\ (n + 1) + i - 1 = n + i
    BY <1>1, <1>2
  <2>2. t[i] = s[n + i]
    BY <1>2, <2>1
  <2>3. i \in Nat /\ 1 <= i /\ i <= m - n
    BY <1>1, <2>1
  <2>4. QED
    BY <1>1, <2>2, <2>3
<1>4. Len(t) = IF n + 1 <= m THEN m - n ELSE 0
  BY <1>1, <1>2
<1>5. QED
  BY <1>1, <1>3, <1>4 DEF t, m

LEMMA AfterReaches ==
    ASSUME NEW S, NEW s \in Seq(S), NEW n \in Nat, NEW j \in 1..Len(s), j > n
    PROVE  j - n \in 1..Len(After(s, n)) /\ After(s, n)[j - n] = s[j]
<1>1. Len(s) \in Nat /\ n + 1 <= Len(s) /\ n + (j - n) = j
  BY AfterFields
<1>2. j - n \in 1..Len(After(s, n))
  BY <1>1, AfterFields
<1>3. QED
  BY <1>1, <1>2, AfterFields

LEMMA ElementsAfter ==
    ASSUME NEW S, NEW s \in Seq(S), NEW n \in Nat
    PROVE  Elements(After(s, n)) = Beyond(s, n)
<1>1. ASSUME NEW i \in 1..Len(After(s, n))
      PROVE  After(s, n)[i] \in Beyond(s, n)
  BY AfterFields DEF Beyond
<1>2. ASSUME NEW j \in 1..Len(s), j > n
      PROVE  s[j] \in Elements(After(s, n))
  BY <1>2, AfterReaches DEF Elements
<1>3. QED
  BY <1>1, <1>2 DEF Elements, Beyond

\* What lies beyond a place is found where the cut moves it to.
LEMMA BeyondAfter ==
    ASSUME NEW S, NEW s \in Seq(S), NEW n \in 0..Len(s), NEW m \in Nat
    PROVE  /\ Len(After(s, n)) = Len(s) - n
           /\ Beyond(s, m + n) \subseteq Beyond(After(s, n), m)
<1>1. Len(s) \in Nat /\ n \in Nat
  OBVIOUS
<1>2. ASSUME NEW j \in 1..Len(s), j > m + n
      PROVE  s[j] \in Beyond(After(s, n), m)
  <2>1. j > n /\ j - n > m
    BY <1>1, <1>2
  <2>2. j - n \in 1..Len(After(s, n)) /\ After(s, n)[j - n] = s[j]
    BY <1>1, <2>1, AfterReaches
  <2>3. QED
    BY <2>1, <2>2 DEF Beyond
<1>3. Len(After(s, n)) = Len(s) - n
  BY <1>1, AfterFields
<1>4. Beyond(s, m + n) \subseteq Beyond(After(s, n), m)
  <2> DEFINE t == Beyond(After(s, n), m)
  <2>1. \A j \in 1..Len(s) : j > m + n => s[j] \in t
    BY <1>2
  <2> HIDE DEF t
  <2>2. QED
    BY <2>1 DEF Beyond, t
<1>5. QED
  BY <1>3, <1>4

LEMMA ElementsFirst ==
    ASSUME NEW S, NEW s \in Seq(S), NEW n \in 0..Len(s)
    PROVE  /\ Elements(SubSeq(s, 1, n)) \subseteq Elements(s)
           /\ n = Len(s) => Elements(SubSeq(s, 1, n)) = Elements(s)
           /\ Len(SubSeq(s, 1, n)) = n
<1> DEFINE t == SubSeq(s, 1, n)
<1>1. Len(s) \in Nat /\ n \in Nat /\ n <= Len(s) /\ \A i \in 1..n : s[i] \in S
  BY ElementOfSeq
<1>2. Len(t) = n /\ \A i \in 1..n : t[i] = s[i]
  <2>1. /\ Len(t) = IF 1 <= n THEN n - 1 + 1 ELSE 0
        /\ \A i \in 1..(n - 1 + 1) : t[i] = s[1 + i - 1]
    BY <1>1, SubSeqProperties
  <2>2. n - 1 + 1 = n /\ \A i \in 1..n : 1 + i - 1 = i
    BY <1>1
  <2> HIDE DEF t
  <2>3. QED
    BY <1>1, <2>1, <2>2
<1> HIDE DEF t
<1>3. QED
  <2>1. Elements(t) \subseteq Elements(s) /\ (n = Len(s) => Elements(t) = Elements(s))
    BY <1>1, <1>2 DEF Elements
  <2>2. QED
    BY <1>2, <2>1 DEF t

LEMMA ElementsAppend ==
    ASSUME NEW S, NEW s \in Seq(S), NEW x \in S
    PROVE  Elements(Append(s, x)) \subseteq Elements(s) \cup {x}
<1>1. /\ Len(Append(s, x)) = Len(s) + 1 /\ Len(s) \in Nat
      /\ \A i \in 1..Len(s) : Append(s, x)[i] = s[i]
      /\ Append(s, x)[Len(s) + 1] = x
  OBVIOUS
<1>2. QED
  BY <1>1 DEF Elements

(***************************************************************************)
(* What a session records: the data file grows, and log with it.            *)
(***************************************************************************)
LEMMA Recorded ==
    ASSUME Typed, NEW n \in 0..Len(list), Flushed(n)
    PROVE  /\ Len(acd') \in Nat /\ Len(acd) <= Len(acd')
           /\ log' \subseteq log \cup Elements(list) /\ log \subseteq log'
           /\ n = Len(list) => log' = log \cup Elements(list)
           /\ \A m \in Int : m <= Len(acd) =>
                 log' \ log \subseteq Beyond(acd', m) /\ Beyond(acd, m) \subseteq Beyond(acd', m)
<1> DEFINE t == SubSeq(list, 1, n)
<1>1. acd \in Seq(Acts) /\ list \in Seq(Acts) /\ t \in Seq(Acts)
  BY FirstType DEF Typed, TypeOK
<1>2. /\ Elements(t) \subseteq Elements(list)
      /\ n = Len(list) => Elements(t) = Elements(list)
  BY <1>1, ElementsFirst
<1>3. acd' = acd \o t /\ log' = log \cup Elements(t)
  BY DEF Flushed
<1> HIDE DEF t
<1>4. /\ Len(acd) \in Nat /\ Len(t) \in Nat /\ Len(acd') = Len(acd) + Len(t)
      /\ \A j \in 1..Len(acd') : acd'[j] = IF j <= Len(acd) THEN acd[j]
                                           ELSE t[j - Len(acd)]
  BY <1>1, <1>3, ConcatProperties
<1>5. ASSUME NEW m \in Int, m <= Len(acd)
      PROVE  log' \ log \subseteq Beyond(acd', m) /\ Beyond(acd, m) \subseteq Beyond(acd', m)
  <2>1. Beyond(acd', m) = {acd'[j] : j \in {k \in 1..Len(acd') : k > m}}
    BY DEF Beyond
  <2>2. ASSUME NEW x \in Elements(t) PROVE x \in Beyond(acd', m)
    <3>1. PICK i \in 1..Len(t) : x = t[i]
      BY DEF Elements
    <3>2. /\ Len(acd) + i \in 1..Len(acd') /\ Len(acd) + i > m
          /\ ~(Len(acd) + i <= Len(acd)) /\ (Len(acd) + i) - Len(acd) = i
      BY <1>4, <1>5, <3>1
    <3>3. QED
      BY <1>4, <2>1, <3>1, <3>2
  <2>3. ASSUME NEW j \in 1..Len(acd), j > m PROVE acd[j] \in Beyond(acd', m)
    <3>1. j \in 1..Len(acd') /\ acd'[j] = acd[j]
      BY <1>4, <2>3
    <3>2. QED
      BY <2>1, <2>3, <3>1
  <2>4. QED
    BY <1>3, <2>2, <2>3 DEF Beyond
<1>6. QED
  BY <1>2, <1>3, <1>4, <1>5

\* What the index becomes when an anchor is made.
LEMMA AddiFields ==
    ASSUME Typed, Addi
    PROVE  /\ LastAnchor(idx) \in Nat /\ LastAnchor(idx) + 1 \in 1..MaxAnchor
           /\ Len(idx) \in Nat /\ Len(idx') = Len(idx) + 1
           /\ \A i \in 1..Len(idx) : idx'[i] = idx[i]
           /\ idx'[Len(idx')] = [anchor |-> LastAnchor(idx) + 1, oset |-> Len(acd')]
           /\ LastAnchor(idx') = LastAnchor(idx) + 1
           /\ mark' = [mark EXCEPT ![LastAnchor(idx) + 1] = log']
<1> DEFINE e == [anchor |-> LastAnchor(idx) + 1, oset |-> Len(acd')]
<1>1. idx \in Seq(Entries) /\ idx' = Append(idx, e)
  BY DEF Typed, TypeOK, Entries, Addi
<1>2. LastAnchor(idx) \in Nat /\ LastAnchor(idx) + 1 \in 1..MaxAnchor
  BY <1>1, LastType, AnchorAssumption DEF Addi
<1>3. e.anchor = LastAnchor(idx) + 1
  OBVIOUS
<1> HIDE DEF e
<1>4. /\ Len(idx) \in Nat /\ Len(idx') = Len(idx) + 1 /\ idx'[Len(idx) + 1] = e
      /\ \A i \in 1..Len(idx) : idx'[i] = idx[i]
  BY <1>1
<1>5. idx' # <<>>
  BY <1>1
<1>6. LastAnchor(idx') = LastAnchor(idx) + 1
  BY <1>3, <1>4, <1>5 DEF LastAnchor
<1>7. QED
  BY <1>2, <1>4, <1>6 DEF Addi, e

\* And when it is cut.
LEMMA CutFields ==
    ASSUME Typed, CutIndex, CutFound
    PROVE  /\ cut.first \in 2..Len(idx) /\ cut.first \in Nat /\ Len(idx) \in Nat
           /\ Len(idx') = Len(idx) - (cut.first - 1)
           /\ \A i \in 1..Len(idx') :
                /\ cut.first - 1 + i \in 1..Len(idx)
                /\ idx[cut.first - 1 + i] \in Entries
                /\ idx'[i].anchor = idx[cut.first - 1 + i].anchor
                /\ idx'[i].oset = idx[cut.first - 1 + i].oset - cut.oset
<1> DEFINE f == cut.first - 1
           n == Len(idx)
           kept == After(idx, f)
<1>1. /\ cut.first \in 2..n /\ cut.first \in Nat /\ n \in Nat /\ f \in Nat /\ f + 1 <= n
      /\ f = cut.first - 1
  <2>1. cut.first \in 2..Len(idx)
    BY DEF CutIndex, CutFound
  <2>2. cut.first \in Nat
    BY DEF Typed, TypeOK
  <2>3. Len(idx) \in Nat
    BY DEF Typed, TypeOK
  <2>4. QED
    BY <2>1, <2>2, <2>3
<1>2. \A i \in 1..n : idx[i] \in Entries
  BY ElementOfSeq DEF Typed, TypeOK, Entries
<1>3. idx' = [i \in 1..Len(kept) |-> [kept[i] EXCEPT !.oset = @ - cut.oset]]
  BY DEF CutIndex
<1>4. kept = After(idx, f) /\ idx \in Seq(Entries)
  BY DEF Typed, TypeOK, Entries
<1> HIDE DEF n, f, kept
<1>5. /\ Len(kept) = n - f
      /\ \A i \in 1..(n - f) : kept[i] = idx[f + i]
  BY <1>1, <1>4, AfterFields DEF n
<1>6. /\ Len(idx') = n - f
      /\ \A i \in 1..(n - f) : idx'[i] = [kept[i] EXCEPT !.oset = @ - cut.oset]
  <2>1. n - f \in Nat
    BY <1>1
  <2>2. QED
    BY <1>3, <1>5, <2>1
<1>7. ASSUME NEW i \in 1..(n - f)
      PROVE  /\ f + i \in 1..n /\ idx[f + i] \in Entries
             /\ idx'[i].anchor = idx[f + i].anchor
             /\ idx'[i].oset = idx[f + i].oset - cut.oset
  <2>1. f + i \in 1..n
    BY <1>1, <1>7
  <2>2. idx[f + i] \in Entries /\ kept[i] = idx[f + i]
    BY <1>2, <1>5, <1>7, <2>1
  <2>3. QED
    BY <1>6, <1>7, <2>1, <2>2 DEF Entries
<1>8. QED
  BY <1>1, <1>6, <1>7 DEF n

(***************************************************************************)
(* The ways in which the files change.                                      *)
(***************************************************************************)
Same == UNCHANGED <<idx, acd, mark, log>>
Records == \E n \in 0..Len(list) : Flushed(n) /\ UNCHANGED <<idx, mark>>
Anchors == Flushed(Len(list)) /\ Addi

LEMMA DeviceFiles ==
    ASSUME Typed, NEW d \in Devices, Device(d)
    PROVE  /\ UNCHANGED <<cut, damaged>> /\ cut.step = "none"
           /\ Same \/ Records \/ Anchors
<1>1. holder \in Devices \cup {None} => holder # Tool
  BY AnchorAssumption
<1>2. cut.step \in {"none", "index", "data", "noindex", "nodata", "end"}
  BY DEF Typed, TypeOK
<1>3. CASE Begin(d) \/ HeadSlow(d) \/ HeadCached(d) \/ HeadSearch(d) \/ Search(d)
  BY <1>1, <1>2, <1>3 DEF Begin, HeadSlow, HeadCached, HeadSearch, Search, Asks, files,
     Same, Typed, Cutting
<1>4. CASE Act(d) \/ Again(d) \/ Die(d)
  BY <1>1, <1>2, <1>4 DEF Act, Again, Die, Work, files, Same, Typed, Cutting
<1>5. CASE Update(d) \/ Leave(d) \/ Fail(d)
  BY <1>1, <1>2, <1>5 DEF Update, Leave, Fail, Finish, Work, files, Same, Typed, Cutting
<1>6. CASE Success(d)
  BY <1>1, <1>2, <1>6 DEF Success, Work, Anchors, Typed, Cutting
<1>7. CASE SuccessFails(d)
  <2>1. PICK n \in 0..Len(list) :
          Flushed(n) /\ (UNCHANGED <<idx, mark>> \/ (n = Len(list) /\ Addi))
    BY <1>7 DEF SuccessFails
  <2>2. Records \/ Anchors
    BY <2>1 DEF Records, Anchors
  <2>3. QED
    BY <1>1, <1>2, <1>7, <2>2 DEF SuccessFails, Work, Typed, Cutting
<1>8. CASE Break(d)
  BY <1>1, <1>2, <1>8 DEF Break, Records, Typed, Cutting
<1>9. QED
  BY <1>3, <1>4, <1>5, <1>6, <1>7, <1>8 DEF Device

\* An entry that covers what was recorded still does when more is, or when
\* another anchor is made.
LEMMA CoversRecorded ==
    ASSUME Typed, NEW n \in 0..Len(list), Flushed(n), cut' = cut, Shift \in Int,
           NEW i \in 1..Len(idx), Covers(idx[i]), idx'[i] = idx[i],
           idx[i].oset \in Int, mark'[idx[i].anchor] = mark[idx[i].anchor]
    PROVE  Covers(idx[i])'
<1> DEFINE a == idx[i].anchor
           m == idx[i].oset + Shift
<1>1. /\ m \in Int /\ 0 <= idx[i].oset /\ m <= Len(acd)
      /\ log \ mark[a] \subseteq Beyond(acd, m)
  BY DEF Covers
<1>2. /\ idx'[i].oset + Shift' = m /\ idx'[i].oset = idx[i].oset
      /\ mark'[idx'[i].anchor] = mark[a]
  BY DEF Shift
<1> HIDE DEF a, m
<1>3. Len(acd) \in Nat /\ Len(acd') \in Nat /\ Len(acd) <= Len(acd')
  <2>1. Len(acd) \in Nat
    BY DEF Typed, TypeOK
  <2>2. Len(acd') \in Nat /\ Len(acd) <= Len(acd')
    BY Recorded
  <2>3. QED
    BY <2>1, <2>2
<1>4. log' \ log \subseteq Beyond(acd', m) /\ Beyond(acd, m) \subseteq Beyond(acd', m)
  BY <1>1, Recorded
<1>5. m <= Len(acd') /\ log' \ mark[a] \subseteq Beyond(acd', m)
  BY <1>1, <1>3, <1>4
<1>6. QED
  BY <1>1, <1>2, <1>5 DEF Covers

LEMMA PlacedDevice ==
    ASSUME Typed, Ordered, Owner, Placed, NEW d \in Devices, Device(d)
    PROVE  Placed'
<1>0. /\ cut' = cut /\ cut.step = "none" /\ Shift = 0 /\ Shift' = 0 /\ CutFound'
  BY DeviceFiles DEF Shift, CutFound
<1>1. /\ idx \in Seq(Entries) /\ Len(idx) \in Nat /\ Len(acd) \in Nat
      /\ \A i \in 1..Len(idx) : idx[i].oset \in Int /\ idx[i].anchor \in 1..MaxAnchor
  <2>1. idx \in Seq(Entries)
    BY DEF Typed, TypeOK, Entries
  <2>2. \A i \in 1..Len(idx) : idx[i] \in Entries
    BY <2>1, ElementOfSeq
  <2>3. Len(acd) \in Nat
    BY DEF Typed, TypeOK
  <2>4. QED
    BY <2>1, <2>2, <2>3 DEF Entries
<1>2. CASE Same
  BY <1>0, <1>2 DEF Same, Placed, Covers, Ascending
<1>3. CASE Records
  <2>1. PICK n \in 0..Len(list) : Flushed(n) /\ UNCHANGED <<idx, mark>>
    BY <1>3 DEF Records
  <2>2. \A i \in 1..Len(idx) : Covers(idx[i])'
    BY <1>0, <1>1, <2>1, CoversRecorded DEF Placed
  <2>3. QED
    BY <1>0, <2>1, <2>2 DEF Placed, Ascending
<1>4. CASE Anchors
  <2> DEFINE n == Len(idx)
             a == LastAnchor(idx) + 1
  <2>1. /\ Len(list) \in 0..Len(list) /\ Flushed(Len(list)) /\ Addi
    BY <1>4 DEF Anchors, Typed, TypeOK
  <2>2. /\ n \in Nat /\ Len(idx') = n + 1 /\ \A i \in 1..n : idx'[i] = idx[i]
        /\ idx'[n + 1] = [anchor |-> a, oset |-> Len(acd')]
        /\ mark' = [mark EXCEPT ![a] = log'] /\ a \in 1..MaxAnchor
        /\ LastAnchor(idx) \in Nat
    BY <2>1, AddiFields
  <2>3. \A i \in 1..n : idx[i].anchor < a
    <3> SUFFICES ASSUME NEW i \in 1..n PROVE idx[i].anchor < a
      OBVIOUS
    <3>1. n \in 1..n /\ idx # <<>>
      BY <1>1
    <3>2. LastAnchor(idx) = idx[n].anchor
      BY <3>1 DEF LastAnchor
    <3>3. idx[i].anchor <= idx[n].anchor
      BY <1>1, <3>1 DEF Ordered
    <3>4. QED
      BY <1>1, <3>1, <3>2, <3>3
  <2>4. ASSUME NEW i \in 1..n PROVE Covers(idx[i])'
    <3>1. idx[i].anchor \in 1..MaxAnchor /\ idx[i].anchor # a
      <4>1. idx[i].anchor \in 1..MaxAnchor /\ idx[i].anchor < a
        BY <1>1, <2>3
      <4>2. QED
        BY <2>2, <4>1
    <3>2. mark'[idx[i].anchor] = mark[idx[i].anchor]
      BY <2>2, <3>1 DEF Typed, TypeOK
    <3>3. QED
      BY <1>0, <1>1, <2>1, <2>2, <3>2, CoversRecorded DEF Placed
  <2>5. Len(acd') \in Nat /\ Len(acd) <= Len(acd')
    BY <2>1, Recorded
  <2>6. ASSUME NEW i \in {n + 1} PROVE Covers(idx[i])'
    <3>1. idx'[i].oset = Len(acd') /\ idx'[i].anchor = a
      BY <2>2
    <3>2. mark'[a] = log'
      BY <2>2 DEF Typed, TypeOK
    <3>3. QED
      BY <1>0, <2>5, <3>1, <3>2 DEF Covers
  <2>7. Ascending'
    <3> SUFFICES ASSUME NEW i \in 1..(n + 1), NEW j \in 1..(n + 1), i < j
                 PROVE  idx'[i].oset <= idx'[j].oset
      BY <2>2 DEF Ascending
    <3>1. i \in 1..n /\ (j \in 1..n \/ j = n + 1)
      BY <2>2
    <3>2. idx[i].oset <= Len(acd)
      BY <1>0, <1>1, <3>1 DEF Placed, Covers
    <3>3. CASE j \in 1..n
      BY <2>2, <3>1, <3>3 DEF Placed, Ascending
    <3>4. CASE j = n + 1
      BY <1>1, <2>2, <2>5, <3>1, <3>2, <3>4
    <3>5. QED
      BY <3>1, <3>3, <3>4
  <2>8. ASSUME NEW i \in 1..(n + 1) PROVE Covers(idx[i])'
    <3>1. i \in 1..n \/ i \in {n + 1}
      BY <2>2
    <3>2. QED
      BY <2>4, <2>6, <3>1
  <2>9. QED
    BY <1>0, <2>2, <2>7, <2>8 DEF Placed
<1>5. QED
  BY <1>2, <1>3, <1>4, DeviceFiles

(***************************************************************************)
(* clear_backup: the index is cut first, then the data file.                *)
(***************************************************************************)
LEMMA OffsetTypes ==
    ASSUME Typed
    PROVE  /\ Len(idx) \in Nat /\ Len(acd) \in Nat
           /\ \A i \in 1..Len(idx) : idx[i].oset \in Int /\ idx[i].anchor \in 1..MaxAnchor
           /\ cut.oset \in Int
<1>1. \A i \in 1..Len(idx) : idx[i] \in Entries
  BY ElementOfSeq DEF Typed, TypeOK, Entries
<1>2. Len(idx) \in Nat /\ Len(acd) \in Nat
  BY DEF Typed, TypeOK
<1>3. cut.oset \in Int
  BY DEF Typed, TypeOK
<1>4. QED
  BY <1>1, <1>2, <1>3 DEF Entries

LEMMA PlacedCutIndex ==
    ASSUME Typed, Placed, CutIndex
    PROVE  Placed'
<1> DEFINE f == cut.first - 1
           k == cut.oset
<1>1. /\ f + 1 = cut.first /\ f \in Nat
      /\ cut.first \in 1..Len(idx) /\ k = idx[cut.first].oset /\ k \in Int
      /\ Len(idx) \in Nat /\ Len(idx') = Len(idx) - f
      /\ \A i \in 1..Len(idx') :
           /\ f + i \in 1..Len(idx)
           /\ idx[f + i].oset \in Int
           /\ idx'[i].anchor = idx[f + i].anchor
           /\ idx'[i].oset = idx[f + i].oset - k
  <2>1. cut.first \in 2..Len(idx) /\ k = idx[cut.first].oset
    BY DEF Placed, CutFound, CutIndex
  <2>2. /\ cut.first \in Nat /\ Len(idx) \in Nat
        /\ Len(idx') = Len(idx) - (cut.first - 1)
        /\ \A i \in 1..Len(idx') :
             /\ cut.first - 1 + i \in 1..Len(idx)
             /\ idx'[i].anchor = idx[cut.first - 1 + i].anchor
             /\ idx'[i].oset = idx[cut.first - 1 + i].oset - k
    BY CutFields DEF Placed
  <2>3. cut.first - 1 \in Nat /\ cut.first - 1 + 1 = cut.first
        /\ cut.first \in 1..Len(idx)
    BY <2>1, <2>2
  <2>4. \A i \in 1..Len(idx') : idx[f + i].oset \in Int
    BY <2>2, OffsetTypes
  <2>5. QED
    BY <2>1, <2>2, <2>3, <2>4, OffsetTypes
<1>2. /\ Shift = 0 /\ Shift' = k /\ cut'.step = "data" /\ cut'.oset = k
      /\ UNCHANGED <<acd, mark, log>>
  BY DEF CutIndex, Shift, Typed, TypeOK, Cutting
<1> HIDE DEF f, k
<1>3. \A i \in 1..Len(idx) :
        /\ 0 <= idx[i].oset /\ idx[i].oset <= Len(acd)
        /\ log \ mark[idx[i].anchor] \subseteq Beyond(acd, idx[i].oset)
  BY <1>2, OffsetTypes DEF Placed, Covers
<1>4. ASSUME NEW i \in 1..Len(idx')
      PROVE  Covers(idx[i])'
  <2>1. cut.first <= f + i /\ f + i \in Nat
    BY <1>1
  <2>2. k <= idx[f + i].oset
    <3>1. cut.first \in 1..Len(idx) /\ f + i \in 1..Len(idx) /\ k = idx[cut.first].oset
      BY <1>1
    <3>2. CASE cut.first = f + i
      BY <1>1, <3>1, <3>2
    <3>3. CASE cut.first < f + i
      BY <3>1, <3>3 DEF Placed, Ascending
    <3>4. QED
      BY <1>1, <2>1, <3>2, <3>3
  <2>3. 0 <= idx'[i].oset /\ idx'[i].oset + Shift' = idx[f + i].oset
    <3>1. idx'[i].oset = idx[f + i].oset - k
      BY <1>1
    <3>2. idx[f + i].oset \in Int /\ k \in Int /\ Shift' = k
      BY <1>1, <1>2
    <3>3. QED
      BY <2>2, <3>1, <3>2
  <2>4. QED
    BY <1>1, <1>2, <1>3, <2>3 DEF Covers
<1>5. Ascending'
  <2> SUFFICES ASSUME NEW i \in 1..Len(idx'), NEW j \in 1..Len(idx'), i < j
               PROVE  idx'[i].oset <= idx'[j].oset
    BY DEF Ascending
  <2>1. f + i \in 1..Len(idx) /\ f + j \in 1..Len(idx) /\ f + i < f + j
    BY <1>1
  <2>2. idx[f + i].oset <= idx[f + j].oset
    BY <2>1 DEF Placed, Ascending
  <2>3. /\ idx'[i].oset = idx[f + i].oset - k /\ idx'[j].oset = idx[f + j].oset - k
        /\ idx[f + i].oset \in Int /\ idx[f + j].oset \in Int /\ k \in Int
    BY <1>1
  <2>4. QED
    BY <2>2, <2>3
<1>6. CutFound'
  BY <1>1, <1>2, <1>3 DEF CutFound
<1>7. QED
  BY <1>4, <1>5, <1>6 DEF Placed

LEMMA PlacedCutData ==
    ASSUME Typed, Placed, CutData, ~damaged'
    PROVE  Placed'
<1> DEFINE k == cut.oset
<1>0. ~cut.bad
  BY DEF CutData
<1>1. /\ acd \in Seq(Acts) /\ Len(acd) \in Nat /\ k \in 0..Len(acd)
  <2>1. 0 <= k /\ k <= Len(acd)
    BY DEF Placed, CutFound, CutData
  <2>2. acd \in Seq(Acts)
    BY DEF Typed, TypeOK
  <2>3. QED
    BY <2>1, <2>2, OffsetTypes
<1>2. /\ acd' = After(acd, k) /\ UNCHANGED <<idx, mark, log>>
      /\ Shift = k /\ Shift' = 0 /\ cut'.step = "end"
  BY <1>0 DEF CutData, Shift, Typed, TypeOK
<1> HIDE DEF k
<1>3. Len(acd') = Len(acd) - k
  BY <1>1, <1>2, BeyondAfter
<1>4. ASSUME NEW i \in 1..Len(idx)
      PROVE  Covers(idx[i])'
  <2> DEFINE o == idx[i].oset
  <2>1. /\ o \in Nat /\ o + k <= Len(acd)
        /\ log \ mark[idx[i].anchor] \subseteq Beyond(acd, o + k)
    BY <1>2, OffsetTypes DEF Placed, Covers
  <2>2. Beyond(acd, o + k) \subseteq Beyond(acd', o)
    <3> HIDE DEF o
    <3> QED
      BY <1>1, <1>2, <2>1, BeyondAfter
  <2>3. idx'[i].oset + Shift' = o /\ idx'[i].oset = o /\ o <= Len(acd')
    BY <1>1, <1>2, <1>3, <2>1
  <2>4. QED
    BY <1>2, <2>1, <2>2, <2>3 DEF Covers
<1>5. QED
  BY <1>2, <1>4 DEF Placed, Ascending, CutFound

\* Killed or failing before the data file is cut, it leaves the offsets short.
LEMMA PlacedShort ==
    ASSUME Typed, Placed, Shift' = 0, CutFound', UNCHANGED <<idx, acd, mark, log>>
    PROVE  Placed'
<1>2. Shift \in Int /\ 0 <= Shift
  BY OffsetTypes DEF Placed, CutFound, Shift
<1>3. ASSUME NEW i \in 1..Len(idx)
      PROVE  Covers(idx[i])'
  <2> DEFINE o == idx[i].oset
  <2>1. /\ o \in Int /\ 0 <= o /\ o + Shift <= Len(acd) /\ Len(acd) \in Nat
        /\ log \ mark[idx[i].anchor] \subseteq Beyond(acd, o + Shift)
    BY OffsetTypes DEF Placed, Covers
  <2>2. Beyond(acd, o + Shift) \subseteq Beyond(acd, o)
    <3> HIDE DEF o
    <3> QED
      BY <1>2, <2>1 DEF Beyond
  <2>3. idx'[i].oset + Shift' = o /\ idx'[i].oset = o /\ o <= Len(acd)
    BY <1>2, <2>1
  <2>4. QED
    BY <2>1, <2>2, <2>3 DEF Covers
<1>4. QED
  BY <1>3 DEF Placed, Ascending

LEMMA PlacedOthers ==
    ASSUME Typed, Placed, ~damaged', Cut \/ Stale \/ Lapse
    PROVE  Placed'
<1>1. CASE CutBegin
  <2>1. PICK first \in 2..Len(idx) :
          cut' = [step |-> "index", first |-> first, oset |-> idx[first].oset,
                  bad |-> FALSE]
    BY <1>1 DEF CutBegin
  <2>2. cut.step # "data"
    BY <1>1, AnchorAssumption DEF CutBegin, Typed, Cutting
  <2>3. UNCHANGED <<idx, acd, mark, log>> /\ Shift' = Shift /\ CutFound'
    BY <1>1, <2>1, <2>2 DEF CutBegin, files, Shift, CutFound
  <2>4. QED
    BY <2>3 DEF Placed, Covers, Ascending
<1>2. CASE CutEnd \/ Stale \/ Lapse
  <2>1. /\ UNCHANGED <<idx, acd, mark, log>> /\ Shift' = Shift
        /\ cut' = cut \/ cut'.step = "none"
    BY <1>2 DEF CutEnd, Stale, Lapse, files, Shift, NoCut
  <2>2. QED
    BY <2>1 DEF Placed, Covers, Ascending, CutFound
<1>3. CASE IndexFails
  <2>1. Shift = 0 /\ Shift' = 0 /\ cut.step = "index" /\ cut'.oset = cut.oset
    BY <1>3 DEF IndexFails, Shift, Typed, TypeOK
  <2>2. cut.first \in 1..Len(idx) /\ cut.oset = idx[cut.first].oset
    BY <2>1, OffsetTypes DEF Placed, CutFound
  <2>3. 0 <= idx[cut.first].oset /\ idx[cut.first].oset <= Len(acd)
    <3>1. Covers(idx[cut.first]) /\ idx[cut.first].oset \in Int
      BY <2>2, OffsetTypes DEF Placed
    <3>2. QED
      BY <2>1, <3>1, OffsetTypes DEF Covers
  <2>4. UNCHANGED <<idx, acd, mark, log>> /\ cut'.step = "data"
    BY <1>3 DEF IndexFails, files, Typed, TypeOK
  <2>5. CutFound'
    BY <2>1, <2>2, <2>3, <2>4 DEF CutFound
  <2>6. QED
    BY <2>1, <2>4, <2>5, PlacedShort
<1>4. CASE DataFails
  <2>1. /\ UNCHANGED <<idx, acd, mark, log>>
        /\ cut'.step = "noindex" /\ Shift' = 0
    BY <1>4 DEF DataFails, files, Shift, Typed, TypeOK
  <2>2. CutFound'
    BY <2>1 DEF CutFound
  <2>3. QED
    BY <2>1, <2>2, PlacedShort
<1>5. CASE CutKilled
  <2>1. UNCHANGED <<idx, acd, mark, log>> /\ cut'.step = "none" /\ Shift' = 0
    BY <1>5 DEF CutKilled, NoCut, Shift
  <2>2. CutFound'
    BY <2>1 DEF CutFound
  <2>3. QED
    BY <2>1, <2>2, PlacedShort
<1>6. ~UnlinkIndex /\ ~UnlinkData
  BY DEF UnlinkIndex, UnlinkData, Typed, Cutting
<1>7. QED
  BY <1>1, <1>2, <1>3, <1>4, <1>5, <1>6, PlacedCutIndex, PlacedCutData DEF Cut

(***************************************************************************)
(* The last anchor of the index only grows, and the anchors in use with it. *)
(***************************************************************************)
LEMMA LastNat ==
    ASSUME Typed
    PROVE  LastAnchor(idx) \in Nat
<1>1. idx \in Seq(Entries) /\ MaxAnchor \in Nat
  BY AnchorAssumption DEF Typed, TypeOK, Entries
<1>2. LastAnchor(idx) \in 0..MaxAnchor
  BY <1>1, LastType
<1>3. QED
  BY <1>1, <1>2

LEMMA LastDevice ==
    ASSUME Typed, Typed', Owner, NEW d \in Devices, Device(d)
    PROVE  /\ LastAnchor(idx') \in Nat /\ LastAnchor(idx) <= LastAnchor(idx')
           /\ \A a \in 1..MaxAnchor : a <= LastAnchor(idx) => mark'[a] = mark[a]
           /\ \A a \in 1..MaxAnchor : mark'[a] \subseteq log'
           /\ log' \subseteq log \cup Elements(list) /\ log \subseteq log'
<1>0. mark \in [1..MaxAnchor -> SUBSET Acts] /\ LastAnchor(idx) \in Nat
      /\ \A a \in 1..MaxAnchor : mark[a] \subseteq log
  BY LastNat DEF Typed, TypeOK, Owner
<1>1. CASE Same
  BY <1>0, <1>1 DEF Same
<1>2. CASE Records
  <2>1. PICK n \in 0..Len(list) : Flushed(n) /\ UNCHANGED <<idx, mark>>
    BY <1>2 DEF Records
  <2>2. log' \subseteq log \cup Elements(list) /\ log \subseteq log'
    BY <2>1, Recorded
  <2>3. QED
    BY <1>0, <2>1, <2>2
<1>3. CASE Anchors
  <2>1. Len(list) \in 0..Len(list) /\ Flushed(Len(list)) /\ Addi
    BY <1>3 DEF Anchors, Typed, TypeOK
  <2>2. log' \subseteq log \cup Elements(list) /\ log \subseteq log'
    BY <2>1, Recorded
  <2>3. /\ LastAnchor(idx') = LastAnchor(idx) + 1
        /\ mark' = [mark EXCEPT ![LastAnchor(idx) + 1] = log']
    BY <2>1, AddiFields
  <2>4. \A a \in 1..MaxAnchor : mark'[a] = IF a = LastAnchor(idx) + 1 THEN log'
                                           ELSE mark[a]
    BY <1>0, <2>3
  <2>5. QED
    BY <1>0, <2>2, <2>3, <2>4
<1>4. QED
  BY <1>1, <1>2, <1>3, DeviceFiles

LEMMA LastOthers ==
    ASSUME Typed, Placed, ~damaged', Cut \/ Stale \/ Lapse
    PROVE  LastAnchor(idx') = LastAnchor(idx)
<1>1. CASE CutIndex
  <2>1. /\ cut.first \in 2..Len(idx) /\ cut.first \in Nat /\ Len(idx) \in Nat
        /\ Len(idx') = Len(idx) - (cut.first - 1)
        /\ \A i \in 1..Len(idx') : idx'[i].anchor = idx[cut.first - 1 + i].anchor
    BY <1>1, CutFields DEF Placed
  <2>2. Len(idx') \in 1..Len(idx') /\ cut.first - 1 + Len(idx') = Len(idx)
    BY <2>1
  <2>3. idx'[Len(idx')].anchor = idx[Len(idx)].anchor
    BY <2>1, <2>2
  <2>4. idx # <<>> /\ idx' # <<>>
    BY <2>1, <2>2
  <2>5. QED
    BY <2>3, <2>4 DEF LastAnchor
<1>2. CASE ~CutIndex
  <2>1. UNCHANGED idx
    BY <1>2 DEF Cut, CutBegin, CutData, IndexFails, DataFails, UnlinkIndex, UnlinkData,
         CutKilled, CutEnd, Stale, Lapse, files
  <2>2. QED
    BY <2>1
<1>3. QED
  BY <1>1, <1>2

\* The anchors that a device's step puts to use.
LEMMA DeviceAnchors ==
    ASSUME Typed, NEW d \in Devices, Device(d)
    PROVE  /\ \A e \in Devices : dev'[e].anchor \in
                {dev[e].anchor, 0, seion.last, LastAnchor(idx')}
           /\ cached' \in {cached, seion.last, LastAnchor(idx')}
           /\ seion'.last \in {seion.last, 0, cached, LastAnchor(idx)}
<1>0. dev \in [Devices -> DevType] /\ seion \in SeionType
  BY DEF Typed, TypeOK, DevType, SeionType
<1> USE DEF DevType, SeionType
<1>1. CASE Begin(d)
  BY <1>0, <1>1 DEF Begin
<1>2. CASE HeadSlow(d) \/ HeadCached(d) \/ HeadSearch(d)
  <2>1. cached' = cached /\ seion'.last \in {seion.last, LastAnchor(idx)}
    BY <1>0, <1>2 DEF HeadSlow, HeadCached, HeadSearch
  <2>2. \/ dev' = dev \/ Slow(d)
        \/ dev' = [dev EXCEPT ![d].step = "work", ![d].got = listing]
    BY <1>2 DEF HeadSlow, HeadCached, HeadSearch
  <2>3. \A e \in Devices : dev'[e].anchor \in {dev[e].anchor, 0}
    BY <1>0, <2>2 DEF Slow
  <2>4. QED
    BY <2>1, <2>3
<1>3. CASE Search(d)
  <2>1. dev' = dev \/ Slow(d) \/ \E g : dev' = [dev EXCEPT ![d].step = "work", ![d].got = g]
    BY <1>3 DEF Search, Goes, Found
  <2>2. \A e \in Devices : dev'[e].anchor \in {dev[e].anchor, 0}
    BY <1>0, <2>1 DEF Slow
  <2>3. cached' = cached /\ seion'.last = seion.last
    BY <1>0, <1>3 DEF Search, Goes, Found
  <2>4. QED
    BY <2>2, <2>3
<1>4. CASE Act(d) \/ Again(d)
  <2>1. cached' = cached /\ seion' = seion
    BY <1>4 DEF Act, Again
  <2>2. \/ dev' = [dev EXCEPT ![d].knows = @ \cup {pool + 1}]
        \/ dev' = [dev EXCEPT ![d].step = "head", ![d].got = {}]
    BY <1>4 DEF Act, Again
  <2>3. \A e \in Devices : dev'[e].anchor = dev[e].anchor
    BY <1>0, <2>2
  <2>4. QED
    BY <2>1, <2>3
<1>5. CASE Success(d)
  <2>1. /\ cached' = LastAnchor(idx') /\ seion' = NoSeion
        /\ \E told \in BOOLEAN : Settled(d, IF told THEN cached' ELSE dev[d].anchor)
    BY <1>5 DEF Success
  <2>2. \A e \in Devices : dev'[e].anchor \in {dev[e].anchor, cached'}
    BY <1>0, <2>1 DEF Settled
  <2>3. QED
    BY <2>1, <2>2 DEF NoSeion
<1>6. CASE SuccessFails(d)
  BY <1>0, <1>6 DEF SuccessFails, Settled, NoSeion
<1>7. CASE Update(d) \/ Leave(d) \/ Fail(d)
  BY <1>0, <1>7 DEF Update, Leave, Fail, Finish, Returned, Settled, Idled, NoSeion
<1>8. CASE Break(d) \/ Die(d)
  BY <1>0, <1>8 DEF Break, Die, Returned, Idled, NoSeion
<1>9. QED
  BY <1>1, <1>2, <1>3, <1>4, <1>5, <1>6, <1>7, <1>8 DEF Device

LEMMA ReachedDevice ==
    ASSUME Typed, Typed', Owner, Reached, NEW d \in Devices, Device(d)
    PROVE  Reached'
<1> DEFINE l == LastAnchor(idx)
           m == LastAnchor(idx')
<1>1. l \in Nat /\ m \in Nat /\ l <= m
  BY LastNat, LastDevice
<1>2. /\ \A e \in Devices : dev[e].anchor \in Nat
      /\ cached \in Nat /\ seion.last \in Nat
  <2>1. dev \in [Devices -> DevType] /\ seion \in SeionType /\ cached \in 0..MaxAnchor
    BY DEF Typed, TypeOK, DevType, SeionType
  <2>2. QED
    BY <2>1, AnchorAssumption DEF DevType, SeionType
<1>3. /\ \A e \in Devices : dev[e].anchor <= l
      /\ cached <= l /\ seion.last <= l
  BY DEF Reached
<1>4. /\ \A e \in Devices : dev'[e].anchor \in {dev[e].anchor, 0, seion.last, m}
      /\ cached' \in {cached, seion.last, m}
      /\ seion'.last \in {seion.last, 0, cached, l}
  BY DeviceAnchors
<1> HIDE DEF l, m
<1>5. /\ \A e \in Devices : dev'[e].anchor <= m
      /\ cached' <= m /\ seion'.last <= m
  BY <1>1, <1>2, <1>3, <1>4
<1>6. QED
  BY <1>5 DEF Reached, m

LEMMA ReachedOthers ==
    ASSUME Typed, Placed, Reached, ~damaged', Cut \/ Stale \/ Lapse
    PROVE  Reached'
<1>1. UNCHANGED <<dev, cached, seion>>
  BY DEF Cut, CutBegin, CutIndex, CutData, IndexFails, DataFails, UnlinkIndex,
       UnlinkData, CutKilled, CutEnd, Stale, Lapse
<1>2. LastAnchor(idx') = LastAnchor(idx)
  BY LastOthers
<1>3. QED
  BY <1>1, <1>2 DEF Reached

(***************************************************************************)
(* A step of a device is its own.                                           *)
(***************************************************************************)
LEMMA DeviceOwn ==
    ASSUME Typed, Owner, NEW d \in Devices, Device(d)
    PROVE  /\ holder \in {None, d} /\ holder' \in {d, None, Gone}
           /\ \A e \in Devices : e # d => dev'[e] = dev[e] /\ dev[e].step = "idle"
           /\ dev[d].knows \subseteq dev'[d].knows
           /\ pool <= pool' /\ pool \in Nat /\ pool' \in Nat
           /\ holder' # d => dev'[d].step = "idle"
<1>0. dev \in [Devices -> DevType] /\ pool \in Nat
  BY AnchorAssumption DEF Typed, TypeOK, DevType
<1>1. holder \in {None, d}
  BY DEF Device, Begin, HeadSlow, HeadCached, HeadSearch, Asks, Search, Act, Again, Work,
     Success, SuccessFails, Update, Leave, Fail, Break, Die
<1>2. \A e \in Devices : e # d => dev[e].step = "idle"
  BY <1>1, AnchorAssumption DEF Owner
<1> DEFINE Goal == /\ holder' \in {d, None, Gone}
                   /\ \A e \in Devices : e # d => dev'[e] = dev[e]
                   /\ dev[d].knows \subseteq dev'[d].knows
                   /\ pool' \in {pool, pool + 1}
                   /\ holder' # d => dev'[d].step = "idle"
<1> USE DEF DevType
<1>3. ASSUME Begin(d) \/ HeadSlow(d) \/ HeadCached(d) \/ HeadSearch(d)
      PROVE  Goal
  BY <1>0, <1>3 DEF Begin, HeadSlow, HeadCached, HeadSearch, Asks, Slow
<1>4. ASSUME Search(d)
      PROVE  Goal
  <2>1. dev' = dev \/ Slow(d) \/ \E g : dev' = [dev EXCEPT ![d].step = "work", ![d].got = g]
    BY <1>4 DEF Search, Goes, Found
  <2>2. /\ \A e \in Devices : e # d => dev'[e] = dev[e]
        /\ dev'[d].knows = dev[d].knows
    BY <1>0, <2>1 DEF Slow
  <2>3. QED
    BY <1>4, <2>2 DEF Search
<1>5. ASSUME Act(d) \/ Again(d)
      PROVE  Goal
  BY <1>0, <1>5 DEF Act, Again, Work
<1>6. ASSUME Success(d)
      PROVE  Goal
  BY <1>0, <1>6 DEF Success, Settled
<1>7. ASSUME SuccessFails(d)
      PROVE  Goal
  BY <1>0, <1>7 DEF SuccessFails, Settled
<1>8. ASSUME Update(d) \/ Leave(d) \/ Fail(d)
      PROVE  Goal
  BY <1>0, <1>8 DEF Update, Leave, Fail, Finish, Returned, Settled, Idled
<1>9. ASSUME Break(d) \/ Die(d)
      PROVE  Goal
  BY <1>0, <1>9 DEF Break, Die, Returned, Idled
<1>10. Goal
  BY <1>3, <1>4, <1>5, <1>6, <1>7, <1>8, <1>9 DEF Device
<1>11. QED
  BY <1>0, <1>1, <1>2, <1>10

\* The list of actions: as it is, longer by the one carried out, or ended.
LEMMA DeviceList ==
    ASSUME Typed, NEW d \in Devices, Device(d)
    PROVE  \/ list' = list /\ holder' = holder
           \/ list' = list /\ holder = None
           \/ Act(d)
           \/ list' = <<>>
  BY DEF Device, Begin, HeadSlow, HeadCached, HeadSearch, Search, Again, Success,
     SuccessFails, Update, Leave, Fail, Finish, Break, Die

LEMMA OwnerDevice ==
    ASSUME Typed, Typed', Owner, NEW d \in Devices, Device(d)
    PROVE  Owner'
<1>1. /\ holder \in {None, d} /\ holder' \in {d, None, Gone}
      /\ \A e \in Devices : e # d => dev'[e] = dev[e] /\ dev[e].step = "idle"
      /\ dev[d].knows \subseteq dev'[d].knows
      /\ pool <= pool' /\ pool \in Nat /\ pool' \in Nat
      /\ holder' # d => dev'[d].step = "idle"
  BY DeviceOwn
<1>2. \A e \in Devices : dev'[e].step # "idle" => holder' = e
  BY <1>1
<1>3. log' \subseteq 1..pool' /\ \A n \in 1..MaxAnchor : mark'[n] \subseteq log'
  BY <1>1, LastDevice DEF Owner
<1>4. \A x \in Elements(list') : holder' \in Devices /\ x \in dev'[holder'].knows
                                 /\ x \in 1..pool'
  <2>1. CASE list' = <<>>
    BY <2>1 DEF Elements
  <2>2. CASE Act(d)
    <3>1. /\ holder = d /\ holder' = d /\ pool' = pool + 1
          /\ list' = Append(list, pool + 1) /\ pool + 1 \in dev'[d].knows
      BY <2>2 DEF Act, Work, Typed, TypeOK
    <3>2. list \in Seq(Acts) /\ pool + 1 \in Acts
      BY <1>1, <2>2 DEF Typed, TypeOK, Act, Acts
    <3>3. Elements(list') \subseteq Elements(list) \cup {pool + 1}
      BY <3>1, <3>2, ElementsAppend
    <3>4. QED
      BY <1>1, <3>1, <3>3 DEF Owner
  <2>3. CASE list' = list /\ holder = None
    BY <2>3, AnchorAssumption DEF Owner
  <2>4. CASE list' = list /\ holder' = holder
    BY <1>1, <2>4, AnchorAssumption DEF Owner
  <2>5. QED
    BY <2>1, <2>2, <2>3, <2>4, DeviceList
<1>5. QED
  BY <1>2, <1>3, <1>4 DEF Owner

\* Nobody is served while clear_backup works or the lease lapses.
LEMMA OwnerOthers ==
    ASSUME Typed, Owner, Cut \/ Stale \/ Lapse
    PROVE  Owner'
<1>1. UNCHANGED <<dev, list, log, mark, pool>>
  BY DEF Cut, CutBegin, CutIndex, CutData, IndexFails, DataFails, UnlinkIndex,
       UnlinkData, CutKilled, CutEnd, Stale, Lapse, files
<1>2. holder' = holder \/ holder \in {None, Tool, Gone}
  BY DEF Cut, CutBegin, CutIndex, CutData, IndexFails, DataFails, UnlinkIndex,
       UnlinkData, CutKilled, CutEnd, Stale, Lapse,
     Typed, Cutting
<1>3. CASE holder' = holder
  BY <1>1, <1>3 DEF Owner
<1>4. CASE holder \in {None, Tool, Gone}
  <2>1. holder \notin Devices
    BY <1>4, AnchorAssumption
  <2>2. QED
    BY <1>1, <2>1 DEF Owner
<1>5. QED
  BY <1>2, <1>3, <1>4

(***************************************************************************)
(* The list on the disk stays with the session that built it.               *)
(***************************************************************************)
LEMMA BuiltDevice ==
    ASSUME Typed, Ranged, Owner, Built, NEW d \in Devices, Device(d)
    PROVE  Built'
<1> USE AnchorAssumption
<1>0. /\ dev \in [Devices -> DevType] /\ seion \in SeionType
      /\ holder \in {None, d} /\ holder # Gone
      /\ holder = None => listing = NoListing /\ probe = NoProbe
      /\ listing # NoListing => holder = d /\ seion.flag /\ Usable(d)
  BY DeviceOwn DEF Typed, TypeOK, DevType, SeionType, Built, Ranged
<1>1. Work(d) => probe = NoProbe
  BY DEF Work, Ranged
<1> USE DEF DevType, SeionType
<1>2. CASE Begin(d)
  BY <1>0, <1>2 DEF Begin, Built
<1>3. CASE HeadSlow(d)
  BY <1>0, <1>3 DEF HeadSlow, Asks, Built
<1>4. CASE HeadCached(d)
  BY <1>0, <1>4 DEF HeadCached, Asks, Built, Usable
<1>5. CASE HeadSearch(d)
  <2>1. listing' = NoListing /\ holder' = d
    BY <1>5 DEF HeadSearch, Asks
  <2>2. CASE idx = <<>>
    BY <1>5, <2>1, <2>2 DEF HeadSearch, Asks, Built
  <2>3. CASE idx # <<>>
    <3>1. Usable(d)'
      BY <1>5, <2>3 DEF HeadSearch, Usable
    <3>2. QED
      BY <2>1, <3>1 DEF Built
  <2>4. QED
    BY <2>2, <2>3
<1>6. CASE Search(d)
  <2>1. listing = NoListing /\ Usable(d) /\ holder = d /\ holder' = d
    BY <1>6 DEF Search, Built
  <2>2. ASSUME NEW p, Goes(d, p) PROVE Built'
    <3>1. listing' = NoListing /\ (probe' = NoProbe \/ UNCHANGED <<dev, seion>>)
      BY <2>1, <2>2 DEF Goes
    <3>2. QED
      BY <2>1, <3>1 DEF Built, Usable
  <2>3. CASE Found(d)
    <3>1. probe' = NoProbe
      BY <2>3 DEF Found
    <3>2. CASE UNCHANGED listing
      BY <2>1, <3>1, <3>2 DEF Built
    <3>3. CASE ~UNCHANGED listing
      <4>1. /\ seion' = [seion EXCEPT !.flag = TRUE]
            /\ \E g : dev' = [dev EXCEPT ![d].step = "work", ![d].got = g]
        BY <2>3, <3>3 DEF Found
      <4>2. seion'.flag /\ seion'.last = seion.last /\ dev'[d].anchor = dev[d].anchor
        BY <1>0, <4>1
      <4>3. Usable(d)'
        BY <2>1, <4>2 DEF Usable
      <4>4. QED
        BY <2>1, <3>1, <4>2, <4>3 DEF Built
    <3>4. QED
      BY <3>2, <3>3
  <2>4. QED
    BY <1>6, <2>2, <2>3 DEF Search
<1>7. CASE Act(d) \/ Again(d)
  <2>1. UNCHANGED <<holder, seion, listing, probe>> /\ dev'[d].anchor = dev[d].anchor
    BY <1>0, <1>7 DEF Act, Again
  <2>2. QED
    BY <1>0, <1>1, <1>7, <2>1 DEF Act, Again, Built, Usable
<1>8. CASE Success(d) \/ Update(d) \/ Leave(d) \/ Fail(d) \/ Break(d)
  <2>1. probe' = NoProbe /\ Cleared
    BY <1>1, <1>8 DEF Success, Update, Leave, Fail, Finish, Break
  <2>2. listing' = NoListing
    BY <1>0, <2>1 DEF Cleared
  <2>3. QED
    BY <2>1, <2>2 DEF Built
<1>9. CASE SuccessFails(d) \/ Die(d)
  <2>1. probe' = NoProbe /\ holder' = Gone
    BY <1>1, <1>9 DEF SuccessFails, Die
  <2>2. QED
    BY <2>1 DEF Built
<1>10. QED
  BY <1>2, <1>3, <1>4, <1>5, <1>6, <1>7, <1>8, <1>9 DEF Device

LEMMA BuiltOthers ==
    ASSUME Typed, Ranged, Built, Cut \/ Stale \/ Lapse
    PROVE  Built'
<1> USE AnchorAssumption
<1>1. CASE Stale
  BY <1>1 DEF Stale, Built, Usable
<1>2. CASE Lapse
  BY <1>2 DEF Lapse, Built, Ranged
<1>3. CASE Cut
  <2>1. holder \in {None, Tool} /\ UNCHANGED <<listing, probe>>
    BY <1>3 DEF Cut, CutBegin, CutIndex, CutData, IndexFails, DataFails, UnlinkIndex,
         UnlinkData, CutKilled, CutEnd,
       Typed, Cutting
  <2>2. listing = NoListing /\ probe = NoProbe
    BY <2>1 DEF Built, Ranged
  <2>3. QED
    BY <2>1, <2>2 DEF Built
<1>4. QED
  BY <1>1, <1>2, <1>3

(***************************************************************************)
(* What a device knows and gets.                                            *)
(***************************************************************************)
Informed(d) ==
    /\ dev[d].anchor # 0 => mark[dev[d].anchor] \subseteq dev[d].knows
    /\ dev[d].step = "work" => log \subseteq dev[d].knows \cup dev[d].got

\* An anchor that is in use keeps what it stands for.
LEMMA MarkKept ==
    ASSUME Typed, Typed', Owner, Reached, NEW d \in Devices, Device(d),
           NEW a, a # 0, a = seion.last \/ \E e \in Devices : a = dev[e].anchor
    PROVE  a \in 1..MaxAnchor /\ mark'[a] = mark[a] /\ mark[a] \subseteq log
<1>1. a \in 0..MaxAnchor /\ a <= LastAnchor(idx)
  <2>1. dev \in [Devices -> DevType] /\ seion \in SeionType
    BY DEF Typed, TypeOK, DevType, SeionType
  <2>2. QED
    BY <2>1 DEF Reached, DevType, SeionType
<1>2. a \in 1..MaxAnchor
  BY <1>1, AnchorAssumption
<1>3. QED
  BY <1>1, <1>2, LastDevice DEF Owner

\* The others, and a device whose session ends as it began.
LEMMA InformedSame ==
    ASSUME Typed, Typed', Owner, Reached, NEW d \in Devices, Device(d),
           NEW e \in Devices, Informed(e),
           dev'[e].anchor \in {0, dev[e].anchor}, dev[e].knows \subseteq dev'[e].knows,
           dev'[e].step # "work"
    PROVE  Informed(e)'
<1>1. CASE dev'[e].anchor = 0
  BY <1>1 DEF Informed
<1>2. CASE dev'[e].anchor # 0
  <2>1. mark'[dev'[e].anchor] = mark[dev[e].anchor]
    BY <1>2, MarkKept
  <2>2. QED
    BY <1>2, <2>1 DEF Informed
<1>3. QED
  BY <1>1, <1>2

\* The device whose step it is begins, asks or searches.
LEMMA InformedAsks ==
    ASSUME Typed, Typed', Owner, Built, Ranged, Placed, Reached, Listed,
           NEW d \in Devices, Informed(d),
           HeadSlow(d) \/ HeadCached(d) \/ HeadSearch(d) \/ Search(d)
    PROVE  Informed(d)' /\ Listed'
<1>0. /\ dev \in [Devices -> DevType] /\ log \subseteq 1..pool
      /\ UNCHANGED <<mark, log>> /\ holder = d /\ holder' = d
      /\ mark \in [1..MaxAnchor -> SUBSET Acts]
  BY DEF Typed, TypeOK, DevType, Owner, HeadSlow, HeadCached, HeadSearch, Search, Asks,
     files
<1> USE DEF DevType
<1>1. Slow(d) => Informed(d)' /\ dev'[d].anchor = 0
  BY <1>0 DEF Slow, Informed
<1>2. dev' = dev /\ dev[d].step # "work" => Informed(d)'
  BY <1>0 DEF Informed
<1>3. CASE HeadSlow(d)
  <2>1. listing' = NoListing
    BY <1>0, <1>3, AnchorAssumption DEF HeadSlow, Built
  <2>2. QED
    BY <1>1, <1>3, <2>1 DEF HeadSlow, Listed
<1>4. CASE HeadCached(d)
  <2>1. /\ dev' = [dev EXCEPT ![d].step = "work", ![d].got = listing]
        /\ listing' = listing /\ listing # NoListing /\ dev[d].anchor # 0
    BY <1>4 DEF HeadCached, Usable
  <2>2. log \ mark[dev[d].anchor] \subseteq listing
    BY <1>0, <2>1 DEF Listed
  <2>3. /\ dev'[d].anchor = dev[d].anchor /\ dev'[d].knows = dev[d].knows
        /\ dev'[d].got = listing
    BY <1>0, <2>1
  <2>4. QED
    BY <1>0, <2>1, <2>2, <2>3 DEF Informed, Listed
<1>5. CASE HeadSearch(d)
  <2>1. listing' = NoListing /\ dev[d].step = "head" /\ (Slow(d) \/ dev' = dev)
    BY <1>5 DEF HeadSearch, Asks
  <2>2. QED
    BY <1>1, <1>2, <2>1 DEF Listed
<1>6. CASE Search(d)
  <2>1. /\ probe # NoProbe /\ listing = NoListing /\ Usable(d) /\ dev[d].step = "head"
        /\ probe.mid \in 1..Len(idx)
    <3>1. probe # NoProbe
      BY <1>6 DEF Search
    <3>2. probe \in ProbeType /\ Len(idx) \in Nat
      BY DEF Typed, TypeOK, ProbeType
    <3>3. QED
      BY <1>0, <3>1, <3>2 DEF Built, Ranged, ProbeType
  <2>2. ASSUME NEW p, Goes(d, p) PROVE Informed(d)' /\ Listed'
    <3>1. listing' = NoListing /\ (Slow(d) \/ dev' = dev)
      BY <2>1, <2>2 DEF Goes
    <3>2. QED
      BY <1>1, <1>2, <2>1, <3>1 DEF Listed
  <2>3. CASE dev[d].anchor = idx[probe.mid].anchor /\ Found(d)
    <3> DEFINE o == idx[probe.mid].oset
               got == Elements(After(acd, o))
    <3>1. /\ o \in Nat /\ log \ mark[dev[d].anchor] \subseteq Beyond(acd, o)
      <4>1. Shift = 0
        BY <1>0, AnchorAssumption DEF Shift, Typed, Cutting
      <4>2. o \in Int
        BY <2>1, OffsetTypes
      <4>3. QED
        BY <2>1, <2>3, <4>1, <4>2 DEF Placed, Covers
    <3>2. got = Beyond(acd, o)
      <4> HIDE DEF o
      <4>1. acd \in Seq(Acts)
        BY DEF Typed, TypeOK
      <4>2. QED
        BY <3>1, <4>1, ElementsAfter
    <3>3. /\ listing' = got
          /\ dev' = [dev EXCEPT ![d].step = "work", ![d].got = got]
      BY <2>3, <3>1 DEF Found
    <3> HIDE DEF got, o
    <3>4. /\ dev'[d].anchor = dev[d].anchor /\ dev'[d].knows = dev[d].knows
          /\ dev'[d].got = got
      BY <1>0, <3>3
    <3>5. dev[d].anchor # 0
      BY <2>1 DEF Usable
    <3>6. QED
      BY <1>0, <3>1, <3>2, <3>3, <3>4, <3>5 DEF Informed, Listed
  <2>4. QED
    BY <1>6, <2>2, <2>3 DEF Search
<1>7. QED
  BY <1>3, <1>4, <1>5, <1>6

\* It carries out an action, or asks again.
LEMMA InformedWorks ==
    ASSUME Typed, Listed, NEW d \in Devices, Informed(d), Act(d) \/ Again(d)
    PROVE  Informed(d)' /\ Listed'
<1>1. /\ dev \in [Devices -> DevType]
      /\ UNCHANGED <<mark, log, holder, listing>> /\ holder = d
  BY DEF Act, Again, Work, files, Typed, TypeOK, DevType
<1>2. /\ dev'[d].anchor = dev[d].anchor /\ dev[d].knows \subseteq dev'[d].knows
      /\ dev'[d].step = "work" => dev'[d].got = dev[d].got /\ dev[d].step = "work"
  BY <1>1 DEF Act, Again, Work, DevType
<1>3. QED
  BY <1>1, <1>2 DEF Informed, Listed

\* It ends its session, and the server tells it an anchor or not.
LEMMA InformedEnds ==
    ASSUME Typed, Typed', Owner, Reached, NEW d \in Devices, Informed(d),
           Success(d) \/ Update(d) \/ Leave(d) \/ SuccessFails(d)
    PROVE  Informed(d)' /\ Listed'
<1>0. /\ dev \in [Devices -> DevType] /\ Device(d) /\ holder = d
      /\ log \subseteq dev[d].knows \cup dev[d].got
      /\ \A x \in Elements(list) : x \in dev[d].knows
  BY DEF Typed, TypeOK, DevType, Device, Informed, Work, Success, Update, Leave,
     SuccessFails, Owner
<1>1. Listed'
  <2>1. holder' \in {None, Gone}
    BY DEF Success, Update, Leave, SuccessFails, Finish, Returned
  <2>2. QED
    BY <2>1, AnchorAssumption DEF Listed
<1>2. ASSUME NEW a, Settled(d, a)
      PROVE  /\ dev'[d].anchor = a /\ dev'[d].step = "idle"
             /\ dev'[d].knows = dev[d].knows \cup dev[d].got
  BY <1>0, <1>2 DEF Settled, DevType
<1>3. ASSUME Settled(d, dev[d].anchor)
      PROVE  Informed(d)'
  BY <1>0, <1>2, <1>3, InformedSame
<1>4. CASE Success(d)
  <2>1. cached' = LastAnchor(idx') /\ Flushed(Len(list)) /\ Addi
    BY <1>4 DEF Success
  <2>2. CASE Settled(d, dev[d].anchor)
    BY <1>1, <1>3, <2>2
  <2>3. CASE Settled(d, cached')
    <3>1. log' = log \cup Elements(list)
      <4>1. Len(list) \in 0..Len(list)
        BY DEF Typed, TypeOK
      <4>2. QED
        BY <2>1, <4>1, Recorded
    <3>2. mark'[cached'] \subseteq log'
      <4>1. cached' \in 1..MaxAnchor
        BY <2>1, AddiFields
      <4>2. QED
        BY <1>0, <4>1, LastDevice
    <3>3. QED
      BY <1>0, <1>1, <1>2, <2>3, <3>1, <3>2 DEF Informed
  <2>4. QED
    BY <1>4, <2>2, <2>3 DEF Success
<1>5. CASE Update(d)
  <2>1. Settled(d, seion.last)
    BY <1>5 DEF Update
  <2>2. dev'[d].anchor # 0 => mark'[dev'[d].anchor] \subseteq log
    BY <1>0, <1>2, <2>1, MarkKept
  <2>3. QED
    BY <1>0, <1>1, <1>2, <2>1, <2>2 DEF Informed
<1>6. CASE Leave(d) \/ SuccessFails(d)
  BY <1>1, <1>3, <1>6 DEF Leave, SuccessFails
<1>7. QED
  BY <1>1, <1>4, <1>5, <1>6

\* It begins a session, or one ends without an answer.
LEMMA InformedIdles ==
    ASSUME Typed, Typed', Owner, Built, Reached, NEW d \in Devices, Informed(d),
           Begin(d) \/ Fail(d) \/ Break(d) \/ Die(d)
    PROVE  Informed(d)' /\ Listed'
<1>0. dev \in [Devices -> DevType] /\ Device(d)
  BY DEF Typed, TypeOK, DevType, Device
<1>1. dev'[d].anchor = dev[d].anchor /\ dev'[d].knows = dev[d].knows
      /\ dev'[d].step # "work"
  BY <1>0 DEF Begin, Fail, Break, Die, Idled, DevType
<1>2. Informed(d)'
  BY <1>0, <1>1, InformedSame
<1>3. Listed'
  <2>1. CASE Begin(d)
    <3>1. listing' = NoListing
      BY <2>1, AnchorAssumption DEF Begin, Built
    <3>2. QED
      BY <3>1 DEF Listed
  <2>2. CASE Fail(d) \/ Break(d) \/ Die(d)
    <3>1. holder' \in {None, Gone}
      BY <2>2 DEF Fail, Finish, Break, Die, Returned
    <3>2. QED
      BY <3>1, AnchorAssumption DEF Listed
  <2>3. QED
    BY <2>1, <2>2
<1>4. QED
  BY <1>2, <1>3

LEMMA InformedDevice ==
    ASSUME Typed, Typed', Ranged, Owner, Built, Placed, Reached, Listed,
           \A e \in Devices : Informed(e), NEW d \in Devices, Device(d)
    PROVE  Listed' /\ \A e \in Devices : Informed(e)'
<1>1. Informed(d)' /\ Listed'
  BY InformedAsks, InformedWorks, InformedEnds, InformedIdles DEF Device
<1>2. ASSUME NEW e \in Devices, e # d PROVE Informed(e)'
  <2>1. dev'[e] = dev[e] /\ dev[e].step = "idle"
    BY <1>2, DeviceOwn
  <2>2. QED
    BY <2>1, InformedSame
<1>3. QED
  BY <1>1, <1>2

LEMMA InformedOthers ==
    ASSUME Listed, \A e \in Devices : Informed(e), Cut \/ Stale \/ Lapse
    PROVE  Listed' /\ \A e \in Devices : Informed(e)'
<1>1. UNCHANGED <<dev, mark, log>>
  BY DEF Cut, CutBegin, CutIndex, CutData, IndexFails, DataFails, UnlinkIndex,
       UnlinkData, CutKilled, CutEnd, Stale, Lapse, files
<1>2. \/ listing' = NoListing
      \/ holder' = holder /\ listing' = listing
      \/ holder' \in {None, Tool, Gone}
  BY DEF Cut, CutBegin, CutIndex, CutData, IndexFails, DataFails, UnlinkIndex,
       UnlinkData, CutKilled, CutEnd, Stale, Lapse, files
<1>3. Listed'
  BY <1>1, <1>2, AnchorAssumption DEF Listed
<1>4. QED
  BY <1>1, <1>3 DEF Informed

\* A list written in part is its session's, and nobody else's.
LEMMA TornOwned ==
    ASSUME Typed, Ranged, Owner, Built, Torn
    PROVE  Owner' /\ Built'
<1>1. PICK d \in Devices : FoundTorn(d)
  BY DEF Torn
<1>2. dev \in [Devices -> DevType] /\ seion \in SeionType
  BY DEF Typed, TypeOK, DevType, SeionType
<1>3. /\ holder = d /\ dev[d].step = "head" /\ probe' = NoProbe /\ Usable(d)
      /\ UNCHANGED <<log, mark, holder, list, pool>>
      /\ seion'.flag /\ seion'.last = seion.last
  BY <1>1, <1>2 DEF FoundTorn, Ranged, Built, SeionType
<1>4. PICK part : dev' = [dev EXCEPT ![d].step = "work", ![d].got = part]
  BY <1>1 DEF FoundTorn
<1>5. /\ dev'[d].anchor = dev[d].anchor
      /\ \A e \in Devices : e # d => dev'[e] = dev[e]
      /\ \A e \in Devices : dev'[e].knows = dev[e].knows
  BY <1>2, <1>4 DEF DevType
<1>6. Owner'
  BY <1>3, <1>5 DEF Owner
<1>7. Built'
  BY <1>3, <1>5 DEF Built, Usable
<1>8. QED
  BY <1>6, <1>7

(***************************************************************************)
(* The inductive invariant.                                                 *)
(***************************************************************************)
Kept == Placed /\ Reached /\ Listed /\ \A d \in Devices : Informed(d)
MInv == IInv /\ Owner /\ Built /\ (~damaged => Kept)

LEMMA InitMInv == Init => MInv
<1> SUFFICES ASSUME Init PROVE MInv
  OBVIOUS
<1> USE AnchorAssumption
<1>1. /\ \A d \in Devices : dev[d].step = "idle" /\ dev[d].anchor \in 0..Backlog
      /\ list = <<>> /\ log = {} /\ holder = None /\ acd = <<>> /\ cut.step = "none"
      /\ mark = [n \in 1..MaxAnchor |-> {}]
      /\ listing = NoListing /\ probe = NoProbe
      /\ cached \in 0..Backlog /\ seion.last = 0
      /\ idx = [i \in 1..Backlog |-> [anchor |-> i, oset |-> 0]]
  BY DEF Init, NoCut, NoSeion
<1>2. Owner /\ Built
  BY <1>1 DEF Owner, Built, Elements
<1>3. Len(idx) = Backlog /\ \A i \in 1..Backlog : idx[i].anchor = i /\ idx[i].oset = 0
  BY <1>1
<1>4. Placed
  BY <1>1, <1>3 DEF Placed, Covers, Shift, Ascending, CutFound
<1>5. LastAnchor(idx) = Backlog
  <2>1. CASE Backlog = 0
    BY <1>1, <2>1 DEF LastAnchor
  <2>2. CASE Backlog # 0
    <3>1. idx # <<>>
      BY <1>3, <2>2
    <3>2. Len(idx) \in 1..Backlog /\ idx[Len(idx)].anchor = Len(idx)
      BY <1>3, <2>2
    <3>3. QED
      BY <1>3, <3>1, <3>2 DEF LastAnchor
  <2>3. QED
    BY <2>1, <2>2
<1>6. Reached
  BY <1>1, <1>5 DEF Reached
<1>7. Listed /\ \A d \in Devices : Informed(d)
  <2>1. \A d \in Devices : dev[d].anchor # 0 => mark[dev[d].anchor] = {}
    BY <1>1
  <2>2. QED
    BY <1>1, <2>1 DEF Listed, Informed
<1>8. QED
  BY <1>2, <1>4, <1>6, <1>7, InitIInv DEF MInv, Kept

LEMMA StepMInv == MInv /\ [Next]_vars => MInv'
<1> SUFFICES ASSUME MInv, [Next]_vars PROVE MInv'
  OBVIOUS
<1>0. IInv' /\ Typed /\ Typed' /\ Ranged /\ Ordered
  BY StepIInv DEF MInv, IInv
<1>1. ASSUME NEW d \in Devices, Device(d)
      PROVE  MInv'
  <2>1. Owner' /\ Built'
    BY <1>0, <1>1, OwnerDevice, BuiltDevice DEF MInv
  <2>2. damaged' = damaged
    BY <1>0, <1>1, DeviceFiles
  <2>3. ASSUME ~damaged PROVE Kept'
    BY <1>0, <1>1, <2>3, PlacedDevice, ReachedDevice, InformedDevice DEF MInv, Kept
  <2>4. QED
    BY <1>0, <2>1, <2>2, <2>3 DEF MInv
<1>2. ASSUME Cut \/ Stale \/ Lapse
      PROVE  MInv'
  <2>1. Owner' /\ Built'
    BY <1>0, <1>2, OwnerOthers, BuiltOthers DEF MInv
  <2>2. ASSUME ~damaged' PROVE Kept'
    <3>1. ~damaged
      BY <1>2, <2>2 DEF Cut, CutBegin, CutIndex, CutData, IndexFails, DataFails,
           UnlinkIndex, UnlinkData, CutKilled, CutEnd,
         Stale, Lapse, files
    <3>2. QED
      BY <1>0, <1>2, <2>2, <3>1, PlacedOthers, ReachedOthers, InformedOthers
         DEF MInv, Kept
  <2>3. QED
    BY <1>0, <2>1, <2>2 DEF MInv
<1>3. CASE UNCHANGED vars
  <2>1. Owner' /\ Built'
    BY <1>3 DEF vars, files, MInv, Owner, Built, Usable
  <2>2. ~damaged' => Kept'
    BY <1>3 DEF vars, files, MInv, Kept, Placed, Covers, Shift, Ascending, CutFound,
       Reached, Listed, Informed
  <2>3. QED
    BY <1>0, <2>1, <2>2 DEF MInv
<1>4. ASSUME Torn
      PROVE  MInv'
  <2>1. Owner' /\ Built'
    BY <1>0, <1>4, TornOwned DEF MInv
  <2>2. damaged'
    BY <1>4 DEF Torn, FoundTorn
  <2>3. QED
    BY <1>0, <2>1, <2>2 DEF MInv
<1>5. QED
  BY <1>1, <1>2, <1>3, <1>4 DEF Next, Cut, Torn

(***************************************************************************)
(* As long as nothing was damaged, a device knows every action recorded     *)
(* before its anchor, and one that has its list will know all that was ever *)
(* recorded: the offset of an anchor is never beyond what came after it,    *)
(* also after clear_backup was killed between the index and the data file,  *)
(* and the list on the disk is only served to the session that built it or  *)
(* is stale before the lease lapses.  For any devices, any index and any    *)
(* number of anchors.                                                       *)
(***************************************************************************)
THEOREM NothingMissedCorrect == Spec => []NothingMissed
<1>1. MInv => NothingMissed
  BY DEF MInv, Kept, Informed, NothingMissed
<1>2. QED
  BY <1>1, InitMInv, StepMInv, PTL DEF Spec

(***************************************************************************)
(* Refinement of ChangeLog.  What a device is given was carried out, a file *)
(* damaged or not; and the anchors stand for more and more, as long as no   *)
(* file is damaged.                                                         *)
(***************************************************************************)
Sound ==
    /\ \A d \in Devices : dev[d].knows \cup dev[d].got \subseteq 1..pool
    /\ listing # NoListing => listing \subseteq 1..pool
    /\ Elements(acd) \subseteq log

Chained ==
    /\ \A m, n \in 1..MaxAnchor :
         m <= n /\ n <= LastAnchor(idx) => mark[m] \subseteq mark[n]
    /\ \A d \in Devices : dev[d].step = "work" => dev[d].anchor <= seion.last

RInv == MInv /\ Sound /\ (~damaged => Chained)

LEMMA ElementsConcat ==
    ASSUME NEW S, NEW s \in Seq(S), NEW t \in Seq(S)
    PROVE  Elements(s \o t) \subseteq Elements(s) \cup Elements(t)
<1>1. /\ Len(s) \in Nat /\ Len(t) \in Nat /\ Len(s \o t) = Len(s) + Len(t)
      /\ \A j \in 1..Len(s \o t) : (s \o t)[j] = IF j <= Len(s) THEN s[j]
                                                 ELSE t[j - Len(s)]
  BY ConcatProperties
<1>2. ASSUME NEW j \in 1..Len(s \o t)
      PROVE  (s \o t)[j] \in Elements(s) \cup Elements(t)
  <2>1. CASE j <= Len(s)
    <3>1. j \in 1..Len(s) /\ (s \o t)[j] = s[j]
      BY <1>1, <2>1
    <3>2. QED
      BY <3>1 DEF Elements
  <2>2. CASE ~(j <= Len(s))
    <3>1. j - Len(s) \in 1..Len(t) /\ (s \o t)[j] = t[j - Len(s)]
      BY <1>1, <2>2
    <3>2. QED
      BY <3>1 DEF Elements
  <2>3. QED
    BY <2>1, <2>2
<1>3. QED
  BY <1>2 DEF Elements

LEMMA ElementsRest ==
    ASSUME NEW S, NEW s \in Seq(S), NEW n \in Nat
    PROVE  Elements(After(s, n)) \subseteq Elements(s)
<1>1. Elements(After(s, n)) = Beyond(s, n)
  BY ElementsAfter
<1>2. QED
  BY <1>1 DEF Beyond, Elements

\* The data file holds what was recorded.
LEMMA DataDevice ==
    ASSUME Typed, Elements(acd) \subseteq log, NEW d \in Devices, Device(d)
    PROVE  Elements(acd') \subseteq log'
<1>1. CASE Same
  BY <1>1 DEF Same
<1>2. ASSUME NEW n \in 0..Len(list), Flushed(n)
      PROVE  Elements(acd') \subseteq log'
  <2> DEFINE part == SubSeq(list, 1, n)
  <2>1. acd \in Seq(Acts) /\ part \in Seq(Acts)
    BY FirstType DEF Typed, TypeOK
  <2>2. acd' = acd \o part /\ log' = log \cup Elements(part)
    BY <1>2 DEF Flushed
  <2> HIDE DEF part
  <2>3. QED
    BY <2>1, <2>2, ElementsConcat
<1>3. CASE Records
  BY <1>2, <1>3 DEF Records
<1>4. CASE Anchors
  <2>1. Len(list) \in 0..Len(list)
    BY DEF Typed, TypeOK
  <2>2. QED
    BY <1>2, <1>4, <2>1 DEF Anchors
<1>5. QED
  BY <1>1, <1>3, <1>4, DeviceFiles

\* What a device gets, or the list on the disk, is the list, or read from the
\* data file, or the whole pool.
LEMMA GivenDevice ==
    ASSUME Typed, Ranged, Owner, Sound, NEW d \in Devices, Device(d)
    PROVE  /\ dev'[d].knows \cup dev'[d].got \subseteq 1..pool'
           /\ listing' # NoListing => listing' \subseteq 1..pool'
<1>0. /\ dev \in [Devices -> DevType] /\ pool \in Nat /\ pool' \in Nat /\ pool <= pool'
      /\ dev[d].knows \subseteq 1..pool /\ dev[d].got \subseteq 1..pool
      /\ listing # NoListing => listing \subseteq 1..pool
  BY DeviceOwn DEF Typed, TypeOK, DevType, Sound
<1>1. 1..pool \subseteq 1..pool'
  BY <1>0
<1> USE DEF DevType
<1>2. CASE Begin(d)
  BY <1>0, <1>2 DEF Begin
<1>3. CASE HeadSlow(d) \/ HeadCached(d) \/ HeadSearch(d)
  <2>1. UNCHANGED <<pool, listing>> /\ (HeadCached(d) => listing # NoListing)
    BY <1>3 DEF HeadSlow, HeadCached, HeadSearch
  <2>2. \/ dev' = dev \/ Slow(d)
        \/ HeadCached(d) /\ dev' = [dev EXCEPT ![d].step = "work", ![d].got = listing]
    BY <1>3 DEF HeadSlow, HeadCached, HeadSearch
  <2>3. QED
    BY <1>0, <2>1, <2>2 DEF Slow
<1>4. CASE Search(d)
  <2>1. UNCHANGED pool /\ holder = d /\ probe # NoProbe
    BY <1>4 DEF Search
  <2>2. ASSUME NEW q, Goes(d, q)
        PROVE  /\ dev'[d].knows \cup dev'[d].got \subseteq 1..pool'
               /\ listing' # NoListing => listing' \subseteq 1..pool'
    BY <1>0, <2>1, <2>2 DEF Goes, Slow
  <2>3. CASE Found(d)
    <3> DEFINE o == idx[probe.mid].oset
               found == Elements(After(acd, o))
    <3>1. o \in Int
      <4>1. probe \in ProbeType /\ Len(idx) \in Nat
        BY DEF Typed, TypeOK, ProbeType
      <4>2. probe.mid \in 1..Len(idx)
        BY <2>1, <4>1 DEF Ranged, ProbeType
      <4>3. QED
        BY <4>2, OffsetTypes
    <3>2. o >= 0 => found \subseteq 1..pool
      <4>1. acd \in Seq(Acts) /\ Elements(acd) \subseteq 1..pool
        BY DEF Typed, TypeOK, Sound, Owner
      <4> HIDE DEF o
      <4>2. QED
        BY <3>1, <4>1, ElementsRest
    <3>3. \/ UNCHANGED <<listing, dev>>
          \/ /\ o >= 0 /\ listing' = found
             /\ dev' = [dev EXCEPT ![d].step = "work", ![d].got = found]
      BY <2>3, <3>1 DEF Found
    <3> HIDE DEF found, o
    <3>4. QED
      BY <1>0, <2>1, <3>2, <3>3
  <2>4. QED
    BY <1>4, <2>2, <2>3 DEF Search
<1>5. CASE Act(d) \/ Again(d)
  <2>1. UNCHANGED listing /\ pool + 1 \in 1..(pool + 1)
    BY <1>0, <1>5 DEF Act, Again
  <2>2. CASE Act(d)
    <3>1. dev'[d].knows = dev[d].knows \cup {pool + 1} /\ dev'[d].got = dev[d].got
          /\ pool' = pool + 1
      BY <1>0, <2>2 DEF Act
    <3>2. QED
      BY <1>0, <1>1, <2>1, <3>1
  <2>3. CASE Again(d)
    <3>1. dev'[d].knows = dev[d].knows /\ dev'[d].got = {}
      BY <1>0, <2>3 DEF Again
    <3>2. QED
      BY <1>0, <1>1, <2>1, <3>1
  <2>4. QED
    BY <1>5, <2>2, <2>3
<1>6. CASE Success(d) \/ SuccessFails(d) \/ Update(d) \/ Leave(d)
  <2>1. \E a : Settled(d, a)
    BY <1>6 DEF Success, SuccessFails, Update, Leave
  <2>2. UNCHANGED pool /\ listing' \in {listing, NoListing}
    BY <1>6 DEF Success, SuccessFails, Update, Leave, Finish, Cleared
  <2>3. QED
    BY <1>0, <2>1, <2>2 DEF Settled
<1>7. CASE Fail(d) \/ Break(d) \/ Die(d)
  <2>1. Idled(d) /\ UNCHANGED pool /\ listing' \in {listing, NoListing}
    BY <1>7 DEF Fail, Break, Die, Finish, Cleared
  <2>2. QED
    BY <1>0, <2>1 DEF Idled
<1>8. QED
  BY <1>2, <1>3, <1>4, <1>5, <1>6, <1>7 DEF Device

LEMMA SoundDevice ==
    ASSUME Typed, Ranged, Owner, Sound, NEW d \in Devices, Device(d)
    PROVE  Sound'
<1>1. \A e \in Devices : e # d => dev'[e].knows \cup dev'[e].got \subseteq 1..pool'
  <2>1. /\ \A e \in Devices : e # d => dev'[e] = dev[e]
        /\ pool <= pool' /\ pool \in Nat /\ pool' \in Nat
    BY DeviceOwn
  <2>2. 1..pool \subseteq 1..pool'
    BY <2>1
  <2>3. QED
    BY <2>1, <2>2 DEF Sound
<1>2. Elements(acd') \subseteq log'
  BY DataDevice DEF Sound
<1>3. QED
  BY <1>1, <1>2, GivenDevice DEF Sound

LEMMA SoundOthers ==
    ASSUME Typed, Sound, Cut \/ Stale \/ Lapse
    PROVE  Sound'
<1>1. /\ UNCHANGED <<dev, pool, log>> /\ listing' \in {listing, NoListing}
  BY DEF Cut, CutBegin, CutIndex, CutData, IndexFails, DataFails, UnlinkIndex,
       UnlinkData, CutKilled, CutEnd, Stale, Lapse, files
<1>2. acd' \in {acd, <<>>} \/ (CutData /\ acd' = After(acd, cut.oset))
  BY DEF Cut, CutBegin, CutIndex, CutData, IndexFails, DataFails, UnlinkIndex,
       UnlinkData, CutKilled, CutEnd, Stale, Lapse, files
<1>3. Elements(acd') \subseteq Elements(acd)
  <2>1. CASE acd' \in {acd, <<>>}
    BY <2>1 DEF Elements
  <2>2. CASE CutData /\ acd' = After(acd, cut.oset)
    <3>1. acd \in Seq(Acts) /\ cut.oset \in Nat
      BY <2>2, OffsetTypes DEF Typed, TypeOK, CutData
    <3>2. QED
      BY <2>2, <3>1, ElementsRest
  <2>3. QED
    BY <1>2, <2>1, <2>2
<1>4. QED
  BY <1>1, <1>3 DEF Sound

LEMMA TornSound ==
    ASSUME Typed, Ranged, Owner, Sound, Torn
    PROVE  Sound'
<1>1. PICK d \in Devices : FoundTorn(d)
  BY DEF Torn
<1> DEFINE got == Elements(After(acd, idx[probe.mid].oset))
<1>2. PICK part \in SUBSET got :
        listing' = part /\ dev' = [dev EXCEPT ![d].step = "work", ![d].got = part]
  BY <1>1 DEF FoundTorn
<1>3. part \subseteq 1..pool
  <2>1. got \subseteq Elements(acd)
    BY <1>1, TornOffset, ElementsRest DEF Typed, TypeOK
  <2>2. Elements(acd) \subseteq 1..pool
    BY DEF Sound, Owner
  <2>3. QED
    BY <2>1, <2>2
<1> HIDE DEF got
<1>4. UNCHANGED <<acd, log, pool>> /\ dev \in [Devices -> DevType]
  BY <1>1 DEF FoundTorn, Typed, TypeOK, DevType
<1>5. \A e \in Devices : dev'[e].knows = dev[e].knows /\ dev'[e].got \in {dev[e].got, part}
  BY <1>2, <1>4 DEF DevType
<1>6. QED
  BY <1>2, <1>3, <1>4, <1>5 DEF Sound

\* A device at work has an anchor that the session's covers.
LEMMA WorkDevice ==
    ASSUME Typed, Owner, Built, Ranged, NEW d \in Devices, Device(d),
           dev[d].step = "work" => dev[d].anchor <= seion.last
    PROVE  dev'[d].step = "work" => dev'[d].anchor <= seion'.last
<1> USE DEF DevType, SeionType
<1>0. /\ dev \in [Devices -> DevType] /\ seion \in SeionType
      /\ seion.last \in Nat /\ dev[d].anchor \in Nat
  BY AnchorAssumption DEF Typed, TypeOK
<1>1. CASE Begin(d)
  BY <1>0, <1>1 DEF Begin
<1>2. Slow(d) => dev'[d].anchor = 0
  BY <1>0 DEF Slow
<1>3. CASE HeadSlow(d)
  BY <1>0, <1>2, <1>3 DEF HeadSlow
<1>4. CASE HeadCached(d)
  <2>1. seion'.last = seion.last /\ dev'[d].anchor = dev[d].anchor
    BY <1>0, <1>4 DEF HeadCached
  <2>2. dev[d].anchor <= seion.last
    BY <1>0, <1>4 DEF HeadCached, Usable
  <2>3. QED
    BY <2>1, <2>2
<1>5. CASE HeadSearch(d)
  <2>1. seion' = seion /\ (Slow(d) \/ dev' = dev)
    BY <1>5 DEF HeadSearch
  <2>2. QED
    BY <1>0, <1>2, <2>1
<1>6. CASE Search(d)
  <2>1. dev[d].anchor <= seion.last
    BY <1>0, <1>6 DEF Search, Built, Usable
  <2>2. \/ Slow(d) \/ dev' = dev
        \/ \E g : dev' = [dev EXCEPT ![d].step = "work", ![d].got = g]
    BY <1>6 DEF Search, Goes, Found
  <2>3. dev'[d].anchor \in {0, dev[d].anchor}
    BY <1>0, <1>2, <2>2
  <2>4. seion'.last = seion.last
    BY <1>0, <1>6 DEF Search, Goes, Found
  <2>5. QED
    BY <1>0, <2>1, <2>3, <2>4
<1>7. CASE Act(d) \/ Again(d)
  <2>1. seion' = seion /\ dev'[d].anchor = dev[d].anchor /\ dev[d].step = "work"
    BY <1>0, <1>7 DEF Act, Again, Work
  <2>2. QED
    BY <2>1
<1>8. CASE Success(d) \/ SuccessFails(d) \/ Update(d) \/ Leave(d)
  <2>1. \E a : Settled(d, a)
    BY <1>8 DEF Success, SuccessFails, Update, Leave
  <2>2. QED
    BY <1>0, <2>1 DEF Settled
<1>9. CASE Fail(d) \/ Break(d) \/ Die(d)
  BY <1>0, <1>9 DEF Fail, Break, Die, Idled
<1>10. QED
  BY <1>1, <1>3, <1>4, <1>5, <1>6, <1>7, <1>8, <1>9 DEF Device

\* A new anchor stands for all that was recorded before it.
LEMMA ChainGrows ==
    ASSUME Typed, Typed', Owner, Chained, NEW d \in Devices, Device(d),
           NEW m \in 1..MaxAnchor, NEW n \in 1..MaxAnchor,
           m <= n, n <= LastAnchor(idx')
    PROVE  mark'[m] \subseteq mark'[n]
<1>0. /\ LastAnchor(idx) \in Nat /\ m \in Nat /\ n \in Nat
      /\ \A a \in 1..MaxAnchor : a <= LastAnchor(idx) => mark'[a] = mark[a]
      /\ \A a \in 1..MaxAnchor : mark'[a] \subseteq log'
  BY LastNat, LastDevice
<1>1. CASE n <= LastAnchor(idx)
  <2>1. m <= LastAnchor(idx)
    BY <1>0, <1>1
  <2>2. mark'[m] = mark[m] /\ mark'[n] = mark[n]
    BY <1>0, <1>1, <2>1
  <2>3. QED
    BY <1>1, <2>2 DEF Chained
<1>2. CASE ~(n <= LastAnchor(idx))
  <2>1. CASE Anchors
    <3>1. /\ LastAnchor(idx') = LastAnchor(idx) + 1
          /\ mark' = [mark EXCEPT ![LastAnchor(idx) + 1] = log']
      BY <2>1, AddiFields DEF Anchors
    <3>2. n = LastAnchor(idx) + 1
      BY <1>0, <1>2, <3>1
    <3>3. mark \in [1..MaxAnchor -> SUBSET Acts]
      BY DEF Typed, TypeOK
    <3>4. mark'[n] = log'
      BY <3>1, <3>2, <3>3
    <3>5. QED
      BY <1>0, <3>4
  <2>2. CASE ~Anchors
    <3>1. idx' = idx
      BY <2>2, DeviceFiles DEF Same, Records
    <3>2. QED
      BY <1>2, <3>1
  <2>3. QED
    BY <2>1, <2>2
<1>3. QED
  BY <1>1, <1>2

LEMMA ChainedDevice ==
    ASSUME Typed, Typed', Owner, Built, Ranged, Chained, NEW d \in Devices, Device(d)
    PROVE  Chained'
<1>1. dev'[d].step = "work" => dev'[d].anchor <= seion'.last
  BY WorkDevice DEF Chained
<1>2. ASSUME NEW e \in Devices, e # d PROVE dev'[e].step = "idle"
  BY <1>2, DeviceOwn
<1>3. \A e \in Devices : dev'[e].step = "work" => dev'[e].anchor <= seion'.last
  BY <1>1, <1>2
<1>4. \A m, n \in 1..MaxAnchor : m <= n /\ n <= LastAnchor(idx') => mark'[m] \subseteq mark'[n]
  BY ChainGrows
<1>5. QED
  BY <1>3, <1>4 DEF Chained

LEMMA ChainedOthers ==
    ASSUME Typed, Placed, Chained, ~damaged', Cut \/ Stale \/ Lapse
    PROVE  Chained'
<1>1. UNCHANGED <<dev, mark, seion>> /\ LastAnchor(idx') = LastAnchor(idx)
  BY LastOthers DEF Cut, CutBegin, CutIndex, CutData, IndexFails, DataFails,
       UnlinkIndex, UnlinkData, CutKilled, CutEnd,
     Stale, Lapse, files
<1>2. QED
  BY <1>1 DEF Chained

LEMMA InitRInv == Init => RInv
<1> SUFFICES ASSUME Init PROVE RInv
  OBVIOUS
<1>1. /\ \A d \in Devices : dev[d].step = "idle" /\ dev[d].knows = {} /\ dev[d].got = {}
      /\ acd = <<>> /\ listing = NoListing /\ mark = [n \in 1..MaxAnchor |-> {}]
  BY DEF Init
<1>2. Sound
  BY <1>1 DEF Sound, Elements
<1>3. Chained
  BY <1>1 DEF Chained
<1>4. QED
  BY <1>2, <1>3, InitMInv DEF RInv

LEMMA StepRInv == RInv /\ [Next]_vars => RInv'
<1> SUFFICES ASSUME RInv, [Next]_vars PROVE RInv'
  OBVIOUS
<1>0. MInv' /\ Typed /\ Typed' /\ Ranged /\ Owner /\ Built /\ Sound
  BY StepMInv DEF RInv, MInv, IInv
<1>1. ASSUME NEW d \in Devices, Device(d)
      PROVE  RInv'
  <2>1. damaged' = damaged
    BY <1>0, <1>1, DeviceFiles
  <2>2. ~damaged => Chained'
    BY <1>0, <1>1, ChainedDevice DEF RInv
  <2>3. Sound'
    BY <1>0, <1>1, SoundDevice
  <2>4. QED
    BY <1>0, <2>1, <2>2, <2>3 DEF RInv
<1>2. ASSUME Cut \/ Stale \/ Lapse
      PROVE  RInv'
  <2>1. ~damaged' => ~damaged
    BY <1>2 DEF Cut, CutBegin, CutIndex, CutData, IndexFails, DataFails, UnlinkIndex,
         UnlinkData, CutKilled, CutEnd, Stale,
       Lapse, files
  <2>2. ~damaged' => Chained'
    BY <1>0, <1>2, <2>1, ChainedOthers DEF RInv, MInv, Kept
  <2>3. Sound'
    BY <1>0, <1>2, SoundOthers
  <2>4. QED
    BY <1>0, <2>2, <2>3 DEF RInv
<1>3. CASE UNCHANGED vars
  <2>1. Sound' /\ (~damaged' => Chained')
    BY <1>3 DEF vars, files, RInv, Sound, Chained
  <2>2. QED
    BY <1>0, <2>1 DEF RInv
<1>4. ASSUME Torn
      PROVE  RInv'
  <2>1. Sound'
    BY <1>0, <1>4, TornSound
  <2>2. damaged'
    BY <1>4 DEF Torn, FoundTorn
  <2>3. QED
    BY <1>0, <2>1, <2>2 DEF RInv
<1>5. QED
  BY <1>1, <1>2, <1>3, <1>4 DEF Next, Cut, Torn

\* What is recorded is carried out by the device whose session ends.
LEMMA LogGrows ==
    ASSUME Typed, Typed', Owner, NEW d \in Devices, Device(d)
    PROVE  log \subseteq log' /\ log' \ log \subseteq dev[d].knows
<1>1. log \subseteq log' /\ log' \subseteq log \cup Elements(list)
  BY LastDevice
<1>2. \A x \in Elements(list) : x \in dev[d].knows
  BY DeviceOwn, AnchorAssumption DEF Owner
<1>3. QED
  BY <1>1, <1>2

\* An anchor that stays stands for what it stood for.
LEMMA SeenKept ==
    ASSUME Typed, Typed', Owner, ~damaged => Reached, NEW d \in Devices, Device(d),
           NEW e \in Devices, dev'[e].anchor = dev[e].anchor
    PROVE  Seen(e)' = Seen(e)
<1>1. damaged' = damaged
  BY DeviceFiles
<1>2. CASE damaged \/ dev[e].anchor = 0
  BY <1>1, <1>2 DEF Seen
<1>3. CASE ~damaged /\ dev[e].anchor # 0
  <2>1. mark'[dev[e].anchor] = mark[dev[e].anchor]
    BY <1>3, MarkKept
  <2>2. QED
    BY <1>1, <1>3, <2>1 DEF Seen
<1>4. QED
  BY <1>2, <1>3

\* What the abstraction sees of the step of a device: the others are left alone.
Known == [e \in Devices |-> dev[e].knows]
Seens == [e \in Devices |-> Seen(e)]

LEMMA OthersLeft ==
    ASSUME Typed, Typed', Owner, ~damaged => Reached, NEW d \in Devices, Device(d)
    PROVE  /\ Known' = [Known EXCEPT ![d] = dev'[d].knows]
           /\ Seens' = [Seens EXCEPT ![d] = Seen(d)']
<1>1. \A e \in Devices : e # d => dev'[e].knows = dev[e].knows /\ Seen(e)' = Seen(e)
  BY DeviceOwn, SeenKept
<1>2. QED
  BY <1>1 DEF Known, Seens

\* A step that shows nothing but that a device may have given its anchor up.
LEMMA ForgetStep ==
    ASSUME Typed, Typed', Owner, ~damaged => Reached, NEW d \in Devices, Device(d),
           UNCHANGED <<pool, log>>, dev'[d].knows = dev[d].knows,
           dev'[d].anchor \in {0, dev[d].anchor}
    PROVE  Changes!Forget(d) \/ UNCHANGED Changes!vars
<1>1. /\ Known' = [Known EXCEPT ![d] = dev[d].knows]
      /\ Seens' = [Seens EXCEPT ![d] = Seen(d)']
      /\ damaged' = damaged
  BY OthersLeft, DeviceFiles
<1>2. Known' = Known
  BY <1>1 DEF Known
<1>3. CASE dev'[d].anchor = 0
  <2>1. Seen(d)' = {}
    BY <1>3 DEF Seen
  <2>2. Changes!Forget(d)
    BY <1>1, <1>2, <2>1 DEF Changes!Forget, Known, Seens
  <2>3. QED
    BY <2>2
<1>4. CASE dev'[d].anchor = dev[d].anchor
  <2>1. Seen(d)' = Seen(d)
    BY <1>4, SeenKept
  <2>2. Seens' = Seens
    BY <1>1, <2>1 DEF Seens
  <2>3. QED
    BY <1>1, <1>2, <2>2 DEF Changes!vars, Known, Seens
<1>5. QED
  BY <1>3, <1>4

LEMMA ActStep ==
    ASSUME Typed, Typed', Owner, ~damaged => Reached, NEW d \in Devices, Act(d)
    PROVE  Changes!Act(d)
<1>0. Device(d)
  BY DEF Device
<1>1. /\ dev \in [Devices -> DevType] /\ pool \in Nat /\ pool < MaxActs /\ MaxActs \in Nat
      /\ dev' = [dev EXCEPT ![d].knows = @ \cup {pool + 1}]
      /\ pool' = pool + 1 /\ UNCHANGED <<log, damaged>>
  <2>1. dev \in [Devices -> DevType] /\ pool \in Nat
    BY DeviceOwn, <1>0 DEF Typed, TypeOK, DevType
  <2>2. /\ pool < MaxActs /\ pool' = pool + 1 /\ UNCHANGED <<log, damaged>>
        /\ dev' = [dev EXCEPT ![d].knows = @ \cup {pool + 1}]
    BY DEF Act, files
  <2>3. QED
    BY <2>1, <2>2, AnchorAssumption
<1>2. dev'[d].knows = dev[d].knows \cup {pool + 1} /\ dev'[d].anchor = dev[d].anchor
  BY <1>1 DEF DevType
<1>3. /\ Known' = [Known EXCEPT ![d] = @ \cup {pool + 1}]
      /\ Seens' = Seens
  BY <1>0, <1>2, OthersLeft, SeenKept DEF Known, Seens
<1>4. pool + 1 \in Acts \ (1..pool) /\ 1..pool' = (1..pool) \cup {pool + 1}
  BY <1>1 DEF Acts
<1>5. QED
  BY <1>1, <1>3, <1>4 DEF Changes!Act, Known, Seens

LEMMA RecordStep ==
    ASSUME Typed, Typed', Owner, ~damaged => Reached, NEW d \in Devices, Break(d)
    PROVE  Changes!Record(d)
<1>0. Device(d)
  BY DEF Device
<1>1. /\ dev \in [Devices -> DevType] /\ Idled(d) /\ UNCHANGED <<pool, damaged>>
  BY DEF Typed, TypeOK, DevType, Break
<1>2. dev'[d].knows = dev[d].knows /\ dev'[d].anchor = dev[d].anchor
  BY <1>1 DEF Idled, DevType
<1>3. Known' = Known /\ Seens' = Seens
  BY <1>0, <1>2, OthersLeft, SeenKept DEF Known, Seens
<1>4. log \subseteq log' /\ log' \ log \subseteq Known[d]
  BY <1>0, LogGrows DEF Known
<1>5. QED
  BY <1>1, <1>3, <1>4 DEF Changes!Record, Changes!Records, Known, Seens

\* The session ends with an answer.
LEMMA MeetStep ==
    ASSUME RInv, RInv', NEW d \in Devices,
           Success(d) \/ SuccessFails(d) \/ Update(d) \/ Leave(d)
    PROVE  Changes!Meet(d)
<1>0. /\ Device(d) /\ Typed /\ Typed' /\ Owner /\ Owner' /\ Sound'
      /\ ~damaged => Reached /\ Reached' /\ Informed(d) /\ Chained /\ Chained'
      /\ damaged' = damaged
  <2>1. Device(d)
    BY DEF Device
  <2>2. Typed /\ Typed' /\ Owner /\ Owner' /\ Sound'
    BY DEF RInv, MInv, IInv
  <2>3. damaged' = damaged
    BY <2>1, <2>2, DeviceFiles
  <2>4. QED
    BY <2>1, <2>2, <2>3 DEF RInv, MInv, Kept
<1>1. dev \in [Devices -> DevType] /\ dev' \in [Devices -> DevType] /\ seion \in SeionType
  BY <1>0 DEF Typed, TypeOK, DevType, SeionType
<1>2. /\ pool' = pool /\ dev[d].step = "work"
      /\ \E a : Settled(d, a)
  BY DEF Success, SuccessFails, Update, Leave, Finish, Work
<1>3. dev'[d].knows = dev[d].knows \cup dev[d].got
  BY <1>1, <1>2 DEF Settled, DevType
<1>4. log \subseteq log' /\ log' \ log \subseteq dev[d].knows
  BY <1>0, LogGrows
<1>5. dev'[d].knows \subseteq 1..pool
  BY <1>0, <1>2 DEF Sound
<1>6. ASSUME ~damaged PROVE log' \subseteq dev'[d].knows
  <2>1. log \subseteq dev[d].knows \cup dev[d].got
    BY <1>0, <1>2, <1>6 DEF Informed
  <2>2. QED
    BY <1>3, <1>4, <2>1
<1>7. ASSUME ~damaged PROVE Seen(d) \subseteq Seen(d)' /\ Seen(d)' \subseteq log'
  <2> DEFINE a == dev[d].anchor
             b == dev'[d].anchor
  <2>1. a \in Nat /\ b \in Nat /\ a <= MaxAnchor /\ b <= MaxAnchor /\ MaxAnchor \in Nat
    BY <1>1, AnchorAssumption DEF DevType
  <2>2. a <= b /\ b <= LastAnchor(idx')
    <3>1. /\ a <= seion.last /\ a <= LastAnchor(idx) /\ LastAnchor(idx) <= LastAnchor(idx')
          /\ LastAnchor(idx) \in Nat /\ LastAnchor(idx') \in Nat /\ seion.last \in Nat
      BY <1>0, <1>1, <1>2, <1>7, LastNat, LastDevice, AnchorAssumption
         DEF Chained, Reached, SeionType
    <3>2. b \in {a, seion.last, LastAnchor(idx')}
      BY <1>1 DEF Success, SuccessFails, Update, Leave, Settled, DevType
    <3>3. b <= LastAnchor(idx')
      BY <1>0, <1>7 DEF Reached
    <3>4. QED
      BY <2>1, <3>1, <3>2, <3>3
  <2>3. CASE a = 0
    <3>1. Seen(d) = {}
      BY <2>3 DEF Seen
    <3>2. CASE b = 0
      BY <3>1, <3>2 DEF Seen
    <3>3. CASE b # 0
      <4>1. mark'[b] \subseteq log'
        BY <1>0, <2>1, <3>3, LastDevice
      <4>2. QED
        BY <3>1, <3>3, <4>1 DEF Seen
    <3>4. QED
      BY <3>2, <3>3
  <2>4. CASE a # 0
    <3>1. a \in 1..MaxAnchor /\ b \in 1..MaxAnchor
      BY <2>1, <2>2, <2>4
    <3>2. mark'[a] = mark[a]
      BY <1>0, <1>7, <2>4, MarkKept
    <3>3. mark'[a] \subseteq mark'[b]
      BY <1>0, <1>7, <2>2, <3>1 DEF Chained
    <3>4. mark'[b] \subseteq log'
      BY <1>0, <3>1, LastDevice
    <3>5. Seen(d) = mark[a] /\ Seen(d)' = mark'[b]
      BY <1>0, <1>7, <2>4, <3>1, AnchorAssumption DEF Seen
    <3>6. QED
      BY <3>2, <3>3, <3>4, <3>5
  <2>5. QED
    BY <2>3, <2>4
<1>8. ASSUME damaged PROVE Seen(d)' = Seen(d)
  BY <1>0, <1>8 DEF Seen
<1>9. /\ Known' = [Known EXCEPT ![d] = dev'[d].knows]
      /\ Seens' = [Seens EXCEPT ![d] = Seen(d)']
      /\ Known[d] = dev[d].knows /\ Known'[d] = dev'[d].knows
      /\ Seens[d] = Seen(d) /\ Seens'[d] = Seen(d)'
  BY <1>0, OthersLeft DEF Known, Seens
<1>10. /\ Known' = [Known EXCEPT ![d] = Known'[d]]
       /\ Seens' = [Seens EXCEPT ![d] = IF damaged THEN @ ELSE Seens'[d]]
       /\ Changes!Records(d)
  <2>1. Seens' = [Seens EXCEPT ![d] = IF damaged THEN @ ELSE Seens'[d]]
    BY <1>8, <1>9 DEF Seens
  <2>2. Changes!Records(d)
    BY <1>4 DEF Changes!Records
  <2>3. QED
    BY <1>9, <2>1, <2>2
<1>11. QED
  BY <1>0, <1>2, <1>3, <1>5, <1>6, <1>7, <1>9, <1>10 DEF Changes!Meet, Known, Seens

\* clear_backup, the clock and a list written in part show nothing but that a
\* file is damaged.
LEMMA LoseStep ==
    ASSUME Typed, Cut \/ Stale \/ Lapse \/ Torn
    PROVE  Changes!Lose \/ UNCHANGED Changes!vars
<1>1. /\ UNCHANGED <<pool, log, mark>>
      /\ UNCHANGED damaged => UNCHANGED dev \/ damaged
      /\ \A d \in Devices : dev'[d].knows = dev[d].knows
      /\ damaged' \/ UNCHANGED damaged
  <2>1. CASE Cut \/ Stale \/ Lapse
    BY <2>1 DEF Cut, CutBegin, CutIndex, CutData, IndexFails, DataFails, UnlinkIndex,
       UnlinkData, CutKilled, CutEnd, Stale, Lapse, files
  <2>2. CASE Torn
    <3>1. PICK d \in Devices : FoundTorn(d)
      BY <2>2 DEF Torn
    <3>2. PICK part : dev' = [dev EXCEPT ![d].step = "work", ![d].got = part]
      BY <3>1 DEF FoundTorn
    <3>3. dev \in [Devices -> DevType]
      BY DEF Typed, TypeOK, DevType
    <3>4. \A e \in Devices : dev'[e].knows = dev[e].knows
      BY <3>2, <3>3 DEF DevType
    <3>5. QED
      BY <3>1, <3>4 DEF FoundTorn
  <2>3. QED
    BY <2>1, <2>2
<1>2. CASE UNCHANGED damaged
  <2>1. \A d \in Devices : Seen(d)' = Seen(d)
    BY <1>1, <1>2 DEF Seen
  <2>2. QED
    BY <1>1, <1>2, <2>1 DEF Changes!vars
<1>3. CASE ~UNCHANGED damaged
  <2>1. damaged'
    BY <1>1, <1>3
  <2>2. damaged' = TRUE
    BY <2>1 DEF Torn
  <2>3. \A d \in Devices : Seen(d)' = {}
    BY <2>1 DEF Seen
  <2>4. QED
    BY <1>1, <2>2, <2>3 DEF Changes!Lose
<1>4. QED
  BY <1>2, <1>3

LEMMA InitChanges == Init => Changes!Init
<1> SUFFICES ASSUME Init PROVE Changes!Init
  OBVIOUS
<1>1. pool = 0 /\ log = {} /\ damaged = FALSE
  BY DEF Init
<1>2. \A d \in Devices : dev[d].knows = {} /\ dev[d].anchor \in 0..Backlog
  BY DEF Init
<1>3. \A n \in 1..MaxAnchor : mark[n] = {}
  BY DEF Init
<1>4. ASSUME NEW d \in Devices PROVE Seen(d) = {}
  <2>1. dev[d].anchor = 0 \/ dev[d].anchor \in 1..MaxAnchor
    BY <1>2, AnchorAssumption
  <2>2. QED
    BY <1>3, <2>1 DEF Seen
<1>5. QED
  BY <1>1, <1>2, <1>4 DEF Changes!Init

LEMMA DeviceChanges ==
    ASSUME RInv, RInv', NEW d \in Devices, Device(d)
    PROVE  Changes!Act(d) \/ Changes!Record(d) \/ Changes!Meet(d) \/ Changes!Forget(d)
           \/ UNCHANGED Changes!vars
<1>0. Typed /\ Typed' /\ Owner /\ (~damaged => Reached) /\ dev \in [Devices -> DevType]
  BY DEF RInv, MInv, IInv, Kept, Typed, TypeOK, DevType
<1> USE DEF DevType
<1>1. CASE Act(d)
  BY <1>0, <1>1, ActStep
<1>2. CASE Break(d)
  BY <1>0, <1>2, RecordStep
<1>3. CASE Success(d) \/ SuccessFails(d) \/ Update(d) \/ Leave(d)
  BY <1>3, MeetStep
<1>4. CASE Begin(d) \/ Again(d) \/ Fail(d) \/ Die(d)
  <2>1. UNCHANGED <<pool, log>>
    BY <1>4 DEF Begin, Again, Fail, Die, Finish, files
  <2>2. dev'[d].knows = dev[d].knows /\ dev'[d].anchor = dev[d].anchor
    BY <1>0, <1>4 DEF Begin, Again, Fail, Die, Idled
  <2>3. QED
    BY <1>0, <2>1, <2>2, ForgetStep
<1>5. CASE HeadSlow(d) \/ HeadCached(d) \/ HeadSearch(d) \/ Search(d)
  <2>1. UNCHANGED <<pool, log>>
    BY <1>5 DEF HeadSlow, HeadCached, HeadSearch, Search, files
  <2>2. \/ Slow(d) \/ dev' = dev
        \/ \E g : dev' = [dev EXCEPT ![d].step = "work", ![d].got = g]
    BY <1>5 DEF HeadSlow, HeadCached, HeadSearch, Search, Goes, Found
  <2>3. dev'[d].knows = dev[d].knows /\ dev'[d].anchor \in {0, dev[d].anchor}
    BY <1>0, <2>2 DEF Slow
  <2>4. QED
    BY <1>0, <2>1, <2>3, ForgetStep
<1>6. QED
  BY <1>1, <1>2, <1>3, <1>4, <1>5 DEF Device

LEMMA StepChanges ==
    RInv /\ RInv' /\ [Next]_vars => [Changes!Next]_(Changes!vars)
<1> SUFFICES ASSUME RInv, RInv', [Next]_vars PROVE [Changes!Next]_(Changes!vars)
  OBVIOUS
<1>1. ASSUME NEW d \in Devices, Device(d)
      PROVE  [Changes!Next]_(Changes!vars)
  BY <1>1, DeviceChanges DEF Changes!Next
<1>2. ASSUME Cut \/ Stale \/ Lapse \/ Torn
      PROVE  [Changes!Next]_(Changes!vars)
  BY <1>2, LoseStep DEF Changes!Next, RInv, MInv, IInv
<1>3. CASE UNCHANGED vars
  BY <1>3 DEF vars, files, Changes!vars, Seen
<1>4. QED
  BY <1>1, <1>2, <1>3 DEF Next, Cut, Torn

(***************************************************************************)
(* The anchor files implement ChangeLog: whatever is searched, cached or    *)
(* cut, a device is told an anchor only when it knows all that is recorded, *)
(* and its anchor never stands for less than before unless it gives it up,  *)
(* until a file is lost, cut beside an uncut index or written in part; and  *)
(* nothing is ever recorded by a device that did not carry it out or learn  *)
(* of it.                                                                   *)
(***************************************************************************)
THEOREM AnchorRefinement == Spec => ImplementsChangeLog
<1>1. Spec => []RInv
  BY InitRInv, StepRInv, PTL DEF Spec
<1>2. QED
  BY <1>1, InitChanges, StepChanges, PTL DEF Spec, ImplementsChangeLog, Changes!Spec
=============================================================================
