-------------------------- MODULE SyncSession_proof --------------------------
(***************************************************************************)
(* Proofs about SyncSession, for any devices, connections and bounds and    *)
(* under every combination of its faults: the type invariant, the two hash  *)
(* maps in step (Lockstep), and the cache never ahead of the anchor index   *)
(* (CacheNeverAhead).                                                       *)
(***************************************************************************)
EXTENDS SyncSession, TLAPS

(***************************************************************************)
(* The conjuncts of TypeOK, by variable.                                    *)
(***************************************************************************)
AcctType == acct \in Account /\ acct.seion > 0
DevType == dev \in [Devices -> Device]
ConnType == conn \in [Conns -> Connection]
LdataType == ldata \in [Seions -> ListData]
AopeType == aope \in [Seions -> ActnoOpe]
CurType == lcur \in Seions \cup {0} /\ acur \in Seions \cup {0}
FileType == idx \in Nat /\ acd \in Nat /\ done \in Nat
Attached == \A c \in Conns : conn[c].due \in {"open", "reply"}
                             => conn[c].lp # 0 /\ conn[c].ap # 0

LEMMA TypeParts ==
    TypeOK <=> /\ AcctType /\ DevType /\ ConnType /\ LdataType
               /\ AopeType /\ CurType /\ FileType /\ Attached
  BY DEF TypeOK, AcctType, DevType, ConnType, LdataType, AopeType, CurType,
     FileType, Attached, Holders

LEMMA TypePartsNext ==
    TypeOK' <=> /\ AcctType' /\ DevType' /\ ConnType' /\ LdataType'
                /\ AopeType' /\ CurType' /\ FileType' /\ Attached'
  BY DEF TypeOK, AcctType, DevType, ConnType, LdataType, AopeType, CurType,
     FileType, Attached, Holders

(***************************************************************************)
(* A request to the cache leaves an account: field by field, then request   *)
(* by request, with what it does to seion_id and to the cached anchor.      *)
(***************************************************************************)
LEMMA AccountFields ==
    ASSUME NEW a \in Account
    PROVE  /\ a.valid \in Nat /\ a.seion \in Nat /\ a.locked \in BOOLEAN
           /\ a.cached \in Nat /\ a.lapsed \in BOOLEAN /\ a.refer \in Int
  BY DEF Account

LEMMA AccountUpdates ==
    ASSUME NEW a \in Account
    PROVE  /\ \A x \in BOOLEAN : [a EXCEPT !.locked = x] \in Account
           /\ \A x \in BOOLEAN : [a EXCEPT !.lapsed = x] \in Account
           /\ \A x \in Nat : [a EXCEPT !.valid = x] \in Account
           /\ \A x \in Nat : [a EXCEPT !.seion = x] \in Account
           /\ \A x \in Nat : [a EXCEPT !.cached = x] \in Account
           /\ \A x \in Int : [a EXCEPT !.refer = x] \in Account
  BY DEF Account

\* The account with its lock, its count and its key replaced.
Relocked(a, k, r, v) ==
    [[[[a EXCEPT !.lapsed = FALSE] EXCEPT !.locked = k] EXCEPT !.refer = r]
        EXCEPT !.valid = v]

LEMMA RelockedType ==
    ASSUME NEW a \in Account, NEW k \in BOOLEAN, NEW r \in Int, NEW v \in Nat
    PROVE  Relocked(a, k, r, v) \in Account
<1> DEFINE b == [a EXCEPT !.lapsed = FALSE]
           e == [b EXCEPT !.locked = k]
           f == [e EXCEPT !.refer = r]
<1>1. b \in Account
  BY AccountUpdates
<1>2. e \in Account
  BY <1>1, AccountUpdates
<1>3. f \in Account
  <2> HIDE DEF e
  <2> QED
    BY <1>2, AccountUpdates
<1>4. [f EXCEPT !.valid = v] \in Account
  <2> HIDE DEF f
  <2> QED
    BY <1>3, AccountUpdates
<1>5. QED
  BY <1>4 DEF Relocked

LEMMA StatusType ==
    ASSUME NEW a \in Account, NEW v
    PROVE  /\ AfterStatus(a, v) \in Account
           /\ AfterStatus(a, v).seion >= a.seion
           /\ AfterStatus(a, v).cached = a.cached
<1> DEFINE b == Relocked(a, TRUE, a.refer + 1, a.valid)
           r == [a EXCEPT !.lapsed = FALSE, !.locked = TRUE, !.refer = @ + 1,
                          !.seion = @ + 1]
<1>0. a.refer + 1 \in Int /\ a.seion + 1 \in Nat /\ a.valid \in Nat
  BY AccountFields
<1>1. b \in Account
  BY <1>0, RelockedType
<1>2. [b EXCEPT !.seion = a.seion + 1] \in Account
  <2> HIDE DEF b
  <2> QED
    BY <1>0, <1>1, AccountUpdates
<1>3. r = [b EXCEPT !.seion = a.seion + 1]
  BY DEF Relocked, Account
<1>4. r.seion >= a.seion /\ r.cached = a.cached
  BY DEF Account
<1>5. r \in Account
  BY <1>2, <1>3
<1>6. AfterStatus(a, v) \in {a, r}
  BY DEF AfterStatus
<1>7. a.seion >= a.seion
  BY AccountFields
<1> HIDE DEF b, r
<1>8. QED
  BY <1>4, <1>5, <1>6, <1>7

LEMMA AfterSetAnchorType ==
    ASSUME NEW a \in Account, NEW v, NEW anchor \in Nat
    PROVE  /\ AfterSetAnchor(a, v, anchor) \in Account
           /\ AfterSetAnchor(a, v, anchor).seion = a.seion
           /\ AfterSetAnchor(a, v, anchor).cached \in {a.cached, anchor}
<1> DEFINE x == IF anchor = 0 THEN a.cached ELSE anchor
           b == Relocked(a, FALSE, a.refer - 1, a.valid + 1)
           r == [a EXCEPT !.lapsed = FALSE, !.locked = FALSE,
                          !.refer = @ - 1, !.valid = @ + 1,
                          !.cached = IF anchor = 0 THEN @ ELSE anchor]
           t == [a EXCEPT !.lapsed = FALSE]
<1>0. a.refer - 1 \in Int /\ a.valid + 1 \in Nat /\ x \in Nat
  BY AccountFields
<1>1. b \in Account
  BY <1>0, RelockedType
<1>2. [b EXCEPT !.cached = x] \in Account
  <2> HIDE DEF b, x
  <2> QED
    BY <1>0, <1>1, AccountUpdates
<1>3. r = [b EXCEPT !.cached = x]
  BY DEF Relocked, Account
<1>4. r.seion = a.seion /\ r.cached \in {a.cached, anchor}
  BY DEF Account
<1>5. t \in Account /\ t.seion = a.seion /\ t.cached = a.cached
  BY AccountUpdates DEF Account
<1>6. AfterSetAnchor(a, v, anchor) \in {a, t, r}
  BY DEF AfterSetAnchor
<1>7. r \in Account
  BY <1>2, <1>3
<1> HIDE DEF x, b, r, t
<1>8. QED
  BY <1>4, <1>5, <1>6, <1>7

LEMMA AfterUnlockType ==
    ASSUME NEW a \in Account, NEW v
    PROVE  /\ AfterUnlock(a, v) \in Account
           /\ AfterUnlock(a, v).seion = a.seion
           /\ AfterUnlock(a, v).cached = a.cached
<1> DEFINE x == IF a.locked THEN a.valid + 1 ELSE a.valid
           b == Relocked(a, FALSE, a.refer - 1, x)
           r == [a EXCEPT !.lapsed = FALSE, !.locked = FALSE, !.refer = @ - 1,
                          !.valid = IF a.locked THEN @ + 1 ELSE @]
<1>1. x \in Nat /\ a.refer - 1 \in Int
  BY AccountFields
<1>2. b \in Account
  <2> HIDE DEF x
  <2> QED
    BY <1>1, RelockedType
<1>3. r = b
  BY DEF Relocked, Account
<1>4. r.seion = a.seion /\ r.cached = a.cached
  BY DEF Account
<1>5. AfterUnlock(a, v) \in {a, r}
  BY DEF AfterUnlock
<1>6. r \in Account
  BY <1>2, <1>3
<1> HIDE DEF x, b, r
<1>7. QED
  BY <1>4, <1>5, <1>6

LEMMA RecreatedType ==
    ASSUME NEW a \in Account
    PROVE  /\ Recreated(a) \in Account
           /\ Recreated(a).seion >= a.seion
           /\ Recreated(a).cached = 0
<1> DEFINE b == [NewAccount EXCEPT !.valid = a.valid + 1]
           e == [b EXCEPT !.seion = a.seion + 1]
           r == [e EXCEPT !.refer = a.refer]
<1>1. a.valid + 1 \in Nat /\ a.seion + 1 \in Nat /\ a.refer \in Int
  BY AccountFields
<1>2. NewAccount \in Account
  BY DEF NewAccount, Account
<1>3. b \in Account
  BY <1>1, <1>2, AccountUpdates
<1>4. e \in Account
  <2> HIDE DEF b
  <2> QED
    BY <1>1, <1>3, AccountUpdates
<1>5. r \in Account
  <2> HIDE DEF e
  <2> QED
    BY <1>1, <1>4, AccountUpdates
<1>6. r.seion >= a.seion /\ r.cached = 0
  BY <1>1 DEF NewAccount, Account
<1>7. Recreated(a) = r
  BY DEF Recreated
<1> HIDE DEF b, e, r
<1>8. QED
  BY <1>5, <1>6, <1>7

\* The requests that only touch the lease and the lock.
LEMMA QueryType ==
    ASSUME NEW a \in Account, NEW v
    PROVE  /\ AfterQuery(a) \in Account /\ AfterKeepAlive(a, v) \in Account
           /\ AfterQuery(a).seion = a.seion /\ AfterKeepAlive(a, v).seion = a.seion
           /\ AfterQuery(a).cached = a.cached /\ AfterKeepAlive(a, v).cached = a.cached
<1>1. AfterKeepAlive(a, v) \in Account /\ AfterKeepAlive(a, v).seion = a.seion
      /\ AfterKeepAlive(a, v).cached = a.cached
  BY DEF AfterKeepAlive, Account
<1>2. AfterQuery(a) \in Account /\ AfterQuery(a).seion = a.seion
      /\ AfterQuery(a).cached = a.cached
  BY DEF AfterQuery, Account
<1>3. QED
  BY <1>1, <1>2

(***************************************************************************)
(* The same for the requests with which a session ends, which may be lost   *)
(* or executed twice.                                                       *)
(***************************************************************************)
LEMMA SetAnchorType ==
    ASSUME AcctType, NEW v, NEW anchor \in Nat, NEW a \in SetAnchor(v, anchor)
    PROVE  /\ a \in Account /\ a.seion = acct.seion
           /\ a.cached \in {acct.cached, anchor}
<1> DEFINE b == AfterSetAnchor(acct, v, anchor)
           e == AfterSetAnchor(b, v, anchor)
<1>1. b \in Account /\ b.seion = acct.seion /\ b.cached \in {acct.cached, anchor}
  BY AfterSetAnchorType DEF AcctType
<1>2. e \in Account /\ e.seion = acct.seion /\ e.cached \in {acct.cached, anchor}
  <2> HIDE DEF b
  <2>1. e \in Account /\ e.seion = b.seion /\ e.cached \in {b.cached, anchor}
    BY <1>1, AfterSetAnchorType
  <2> QED
    BY <1>1, <2>1
<1>3. a \in {acct, b, e}
  BY DEF SetAnchor, Sent
<1> HIDE DEF b, e
<1>4. QED
  BY <1>1, <1>2, <1>3 DEF AcctType

LEMMA UnlockType ==
    ASSUME AcctType, NEW v, NEW a \in Unlock(v)
    PROVE  a \in Account /\ a.seion = acct.seion /\ a.cached = acct.cached
<1> DEFINE b == AfterUnlock(acct, v)
           e == AfterUnlock(b, v)
<1>1. b \in Account /\ b.seion = acct.seion /\ b.cached = acct.cached
  BY AfterUnlockType DEF AcctType
<1>2. e \in Account /\ e.seion = acct.seion /\ e.cached = acct.cached
  <2> HIDE DEF b
  <2>1. e \in Account /\ e.seion = b.seion /\ e.cached = b.cached
    BY <1>1, AfterUnlockType
  <2> QED
    BY <1>1, <2>1
<1>3. a \in {acct, b, e}
  BY DEF Unlock, Sent
<1> HIDE DEF b, e
<1>4. QED
  BY <1>1, <1>2, <1>3 DEF AcctType

LEMMA ReleaseType ==
    ASSUME AcctType, NEW l \in ListData, NEW a \in Release(l)
    PROVE  /\ a \in Account /\ a.seion = acct.seion
           /\ a.cached \in {acct.cached, l.anchor}
<1>1. l.anchor \in Nat
  BY DEF ListData
<1>2. CASE l.cached
  BY <1>2, UnlockType DEF Release
<1>3. CASE ~l.cached
  BY <1>1, <1>3, SetAnchorType DEF Release
<1>4. QED
  BY <1>2, <1>3

(***************************************************************************)
(* How a connection may change.                                             *)
(***************************************************************************)
\* A connection that opens or closes.
LEMMA RecordType ==
    ASSUME ConnType, Attached, NEW c \in Conns,
           NEW due \in Dues, due \notin {"open", "reply"},
           NEW d \in Devices \cup {None},
           conn' = [conn EXCEPT ![c] = [conn[c] EXCEPT !.due = due, !.owner = d]]
    PROVE  ConnType' /\ Attached'
<1>1. [conn[c] EXCEPT !.due = due, !.owner = d] \in Connection
  BY DEF ConnType, Connection
<1>2. conn'[c].due = due
  BY DEF ConnType, Connection
<1>3. \A b \in Conns : b # c => conn'[b] = conn[b]
  BY DEF ConnType
<1>4. QED
  BY <1>1, <1>2, <1>3 DEF ConnType, Attached

LEMMA ClosedType ==
    ASSUME ConnType, Attached, NEW c \in Conns, conn' = Closed(c)
    PROVE  ConnType' /\ Attached'
<1>1. conn' = [conn EXCEPT ![c] = [conn[c] EXCEPT !.due = "sleep", !.owner = None]]
  BY DEF ConnType, Closed
<1>2. "sleep" \in Dues /\ None \in Devices \cup {None}
  BY DEF Dues
<1>3. QED
  BY <1>1, <1>2, RecordType

LEMMA NowType ==
    ASSUME ConnType, Attached, NEW c \in Conns,
           NEW due \in Dues, NEW method \in Methods, conn' = Now(c, due, method),
           due \in {"open", "reply"} => conn[c].due \in {"open", "reply"}
    PROVE  ConnType' /\ Attached'
<1>1. conn' = [conn EXCEPT ![c] = [conn[c] EXCEPT !.due = due, !.method = method]]
  BY DEF ConnType, Now
<1>2. [conn[c] EXCEPT !.due = due, !.method = method] \in Connection
  BY DEF ConnType, Connection
<1>3. ASSUME NEW b \in Conns
      PROVE  /\ conn'[b].lp = conn[b].lp /\ conn'[b].ap = conn[b].ap
             /\ conn'[b].due = IF b = c THEN due ELSE conn[b].due
  <2>1. CASE b = c
    BY <1>1, <2>1 DEF ConnType, Connection
  <2>2. CASE b # c
    BY <1>1, <2>2 DEF ConnType
  <2>3. QED
    BY <2>1, <2>2
<1>4. QED
  BY <1>1, <1>2, <1>3 DEF ConnType, Attached

LEMMA PointerType ==
    ASSUME ConnType, NEW c \in Conns, NEW due \in Dues, NEW method \in Methods,
           NEW n \in Seions \cup {0}, NEW m \in Seions \cup {0}
    PROVE  /\ [Now(c, due, method) EXCEPT ![c].lp = n] \in [Conns -> Connection]
           /\ [Now(c, due, method) EXCEPT ![c].lp = n, ![c].ap = m]
                \in [Conns -> Connection]
<1> DEFINE f == Now(c, due, method)
           g == [f EXCEPT ![c].lp = n]
<1>1. f \in [Conns -> Connection]
  BY DEF ConnType, Now, Connection
<1>2. g \in [Conns -> Connection]
  <2> HIDE DEF f
  <2> QED
    BY <1>1 DEF Connection
<1>3. [g EXCEPT ![c].ap = m] \in [Conns -> Connection]
  <2> HIDE DEF g
  <2> QED
    BY <1>2 DEF Connection
<1>4. [f EXCEPT ![c].lp = n, ![c].ap = m] = [g EXCEPT ![c].ap = m]
  OBVIOUS
<1>5. QED
  BY <1>2, <1>3, <1>4

LEMMA RestartedType ==
    ASSUME DevType, Restarted
    PROVE  /\ DevType' /\ ConnType' /\ LdataType' /\ AopeType'
           /\ CurType' /\ Attached'
<1>1. DevType'
  BY DEF Restarted, DevType, Device, Idle
<1>2. conn' = [c \in Conns |-> Asleep]
  BY DEF Restarted
<1>3. ConnType'
  BY <1>2 DEF ConnType, Connection, Asleep, Dues, Methods
<1>4. Attached'
  BY <1>2 DEF Attached, Asleep
<1>5. LdataType'
  BY DEF Restarted, LdataType, NoSession, ListData
<1>6. AopeType'
  BY DEF Restarted, AopeType, NoActions, ActnoOpe
<1>7. CurType'
  BY DEF Restarted, CurType
<1>8. QED
  BY <1>1, <1>3, <1>4, <1>5, <1>6, <1>7
(***************************************************************************)
(* Every step keeps the types.                                              *)
(***************************************************************************)
LEMMA TypeInit == Init => TypeOK
<1> SUFFICES ASSUME Init PROVE TypeOK
  OBVIOUS
<1>1. AcctType
  BY DEF Init, AcctType, NewAccount, Account
<1>2. DevType
  BY DEF Init, DevType, Device, Idle
<1>3. ConnType /\ Attached
  BY DEF Init, ConnType, Attached, Connection, Asleep, Dues, Methods
<1>4. LdataType
  BY DEF Init, LdataType, ListData, NoSession
<1>5. AopeType
  BY DEF Init, AopeType, ActnoOpe, NoActions
<1>6. CurType /\ FileType
  BY DEF Init, CurType, FileType
<1>7. QED
  BY <1>1, <1>2, <1>3, <1>4, <1>5, <1>6, TypeParts

\* What the handlers of FINAL and of an exception change.
LEMMA ListedType ==
    ASSUME TypeOK, NEW c \in Conns
    PROVE  Listed(c) \in Nat
  BY TypeParts DEF Listed, AopeType, ActnoOpe, CurType

LEMMA ReleasedType ==
    ASSUME TypeOK, NEW finds, Released(finds)
    PROVE  LdataType' /\ AopeType'
<1>1. LdataType'
  BY TypeParts DEF Released, LdataType, ListData, CurType
<1>2. AopeType'
  BY TypeParts DEF Released, AopeType, ActnoOpe, CurType
<1>3. QED
  BY <1>1, <1>2

LEMMA DissolvedType ==
    ASSUME TypeOK, NEW c \in Conns, NEW finds, NEW told, Dissolved(c, finds, told),
           \A a \in told : a \in Account /\ a.seion = acct.seion
    PROVE  AcctType' /\ CurType' /\ AopeType' /\ ConnType' /\ Attached'
<1>1. AcctType'
  BY TypeParts DEF Dissolved, AcctType
<1>2. CurType'
  BY TypeParts DEF Dissolved, CurType
<1>3. AopeType'
  BY TypeParts DEF Dissolved, AopeType, ActnoOpe, NoActions, CurType
<1>4. conn' = [Now(c, "over", "final") EXCEPT ![c].lp = 0]
  BY DEF Dissolved
<1>5. ConnType'
  <2>1. "over" \in Dues /\ "final" \in Methods
    BY DEF Dues, Methods
  <2>2. [Now(c, "over", "final") EXCEPT ![c].lp = 0] \in [Conns -> Connection]
    BY <2>1, TypeParts, PointerType
  <2>3. QED
    BY <1>4, <2>2 DEF ConnType
<1>6. Attached'
  BY <1>4, TypeParts DEF ConnType, Attached, Now
<1>7. QED
  BY <1>1, <1>2, <1>3, <1>5, <1>6

\* INITIAL, when the session has the id the client presents and when not.
LEMMA AdmittedType ==
    ASSUME TypeOK, NEW c \in Conns, NEW n \in Seions, Admitted(c, n)
    PROVE  CurType' /\ AopeType' /\ ConnType' /\ Attached'
<1>1. CurType'
  BY TypeParts DEF Admitted, CurType
<1>2. AopeType'
  <2>1. CASE acur # 0
    <3>1. acur \in Seions /\ aope \in [Seions -> [refer : Int, acts : Nat]]
      BY <2>1, TypeParts DEF AopeType, ActnoOpe, CurType
    <3>2. aope' = [aope EXCEPT ![acur].refer = aope[acur].refer + 1]
      BY <2>1 DEF Admitted
    <3>3. QED
      BY <3>1, <3>2 DEF AopeType, ActnoOpe
  <2>2. CASE acur = 0
    <3>1. aope \in [Seions -> [refer : Int, acts : Nat]]
      BY TypeParts DEF AopeType, ActnoOpe
    <3>2. aope' = [aope EXCEPT ![n].refer = 1]
      BY <2>2 DEF Admitted
    <3>3. QED
      BY <3>1, <3>2 DEF AopeType, ActnoOpe
  <2>3. QED
    BY <2>1, <2>2
<1>3. conn' = [Now(c, "open", "initial") EXCEPT ![c].lp = n, ![c].ap = acur']
      /\ acur' \in Seions
  BY TypeParts DEF Admitted, CurType
<1>4. ConnType'
  <2>1. "open" \in Dues /\ "initial" \in Methods
    BY DEF Dues, Methods
  <2>2. [Now(c, "open", "initial") EXCEPT ![c].lp = n, ![c].ap = acur'] \in [Conns -> Connection]
    BY <2>1, <1>3, TypeParts, PointerType
  <2>3. QED
    BY <1>3, <2>2 DEF ConnType
<1>5. n # 0 /\ acur' # 0
  BY <1>3, BoundAssumption DEF Seions
<1>6. Attached'
  BY <1>3, <1>5, TypeParts DEF ConnType, Attached, Now
<1>7. QED
  BY <1>1, <1>2, <1>4, <1>6

LEMMA TornDownType ==
    ASSUME TypeOK, NEW c \in Conns, NEW n \in Seions, TornDown(c, n)
    PROVE  CurType' /\ AopeType' /\ ConnType' /\ Attached'
<1>1. CurType'
  BY DEF TornDown, CurType
<1>2. AopeType'
  BY TypeParts DEF TornDown, AopeType, ActnoOpe, NoActions, CurType
<1>3. conn' = [Now(c, "denied", "initial") EXCEPT ![c].lp = n]
  BY DEF TornDown
<1>4. ConnType'
  <2>1. "denied" \in Dues /\ "initial" \in Methods
    BY DEF Dues, Methods
  <2>2. [Now(c, "denied", "initial") EXCEPT ![c].lp = n] \in [Conns -> Connection]
    BY <2>1, TypeParts, PointerType
  <2>3. QED
    BY <1>3, <2>2 DEF ConnType
<1>5. Attached'
  BY <1>3, TypeParts DEF ConnType, Attached, Now
<1>6. QED
  BY <1>1, <1>2, <1>4, <1>5

\* A client that can present an answer is a device.
LEMMA OwnerType ==
    ASSUME TypeOK, NEW c \in Conns, conn[c].owner # None
    PROVE  dev[conn[c].owner].valid \in Nat
  BY TypeParts DEF ConnType, Connection, DevType, Device

LEMMA QueryStep ==
    ASSUME TypeOK, NEW d \in Devices, Query(d)
    PROVE  TypeOK'
<1>1. AcctType'
  BY TypeParts, QueryType DEF Query, AcctType
<1>2. acct.valid \in Nat /\ acct.seion \in Nat
  BY TypeParts, AccountFields DEF AcctType
<1>3. DevType'
  BY TypeParts, <1>2, BoundAssumption DEF Query, DevType, Device
<1>4. UNCHANGED <<conn, ldata, lcur, aope, acur, idx, acd, done>>
  BY DEF Query
<1>5. QED
  BY TypeParts, TypePartsNext, <1>1, <1>2, <1>3, <1>4
     DEF AcctType, DevType, ConnType, LdataType, AopeType, CurType, FileType, Attached

LEMMA AcceptStep ==
    ASSUME TypeOK, NEW d \in Devices, NEW c \in Conns, Accept(d, c)
    PROVE  TypeOK'
<1>1. DevType'
  BY TypeParts DEF Accept, DevType, Device
<1>2. ConnType' /\ Attached'
  <2>1. conn' = [conn EXCEPT ![c].due = "hello", ![c].owner = d] /\ ConnType /\ Attached
    BY TypeParts DEF Accept
  <2>2. conn' = [conn EXCEPT ![c] = [conn[c] EXCEPT !.due = "hello", !.owner = d]]
    BY <2>1 DEF ConnType
  <2>3. "hello" \in Dues /\ d \in Devices \cup {None}
    BY DEF Dues
  <2>4. QED
    BY <2>1, <2>2, <2>3, RecordType
<1>3. UNCHANGED <<acct, ldata, lcur, aope, acur, idx, acd, done>>
  BY DEF Accept
<1>4. QED
  BY TypeParts, TypePartsNext, <1>1, <1>2, <1>3
     DEF AcctType, DevType, ConnType, LdataType, AopeType, CurType, FileType, Attached

LEMMA BeginFinishStep ==
    ASSUME TypeOK, NEW d \in Devices, BeginFinish(d)
    PROVE  TypeOK'
<1>1. DevType'
  BY TypeParts DEF BeginFinish, DevType, Device
<1>2. UNCHANGED <<acct, conn, ldata, lcur, aope, acur, idx, acd, done>>
  BY DEF BeginFinish
<1>3. QED
  BY TypeParts, TypePartsNext, <1>1, <1>2
     DEF AcctType, DevType, ConnType, LdataType, AopeType, CurType, FileType, Attached

LEMMA RequestStep ==
    ASSUME TypeOK, NEW d \in Devices, NEW c \in Conns,
           NEW method \in {"get", "act", "put"}, Request(d, c, method)
    PROVE  TypeOK'
<1>1. AcctType'
  BY TypeParts, QueryType DEF Request, AcctType
<1>2. DevType'
  <2> DEFINE p == dev[d].put \/ method # "get"
  <2>1. p \in BOOLEAN
    OBVIOUS
  <2>2. dev' = [dev EXCEPT ![d].put = p]
    BY DEF Request
  <2> HIDE DEF p
  <2>3. QED
    BY <2>1, <2>2, TypeParts DEF DevType, Device
<1>3. ConnType' /\ Attached'
  BY TypeParts, NowType DEF Request, Dues, Methods
<1>4. UNCHANGED <<ldata, lcur, aope, acur, idx, acd, done>>
  BY DEF Request
<1>5. QED
  BY TypeParts, TypePartsNext, <1>1, <1>2, <1>3, <1>4
     DEF AcctType, DevType, ConnType, LdataType, AopeType, CurType, FileType, Attached

LEMMA ReplyStep ==
    ASSUME TypeOK, NEW c \in Conns, Reply(c)
    PROVE  TypeOK'
<1>1. FileType' /\ UNCHANGED acct
  BY TypeParts DEF Reply, FileType
<1>2. CASE Restarted
  BY <1>1, <1>2, RestartedType, TypeParts, TypePartsNext DEF AcctType
<1>3. CASE ~Restarted
  <2>1. AopeType'
    BY <1>3, TypeParts DEF Reply, AopeType, ActnoOpe, CurType
  <2>2. conn' = Now(c, "open", conn[c].method) /\ conn[c].due = "reply"
        /\ UNCHANGED <<dev, ldata, lcur, acur>>
    BY <1>3 DEF Reply
  <2>3. conn[c].method \in Methods
    BY TypeParts DEF ConnType, Connection
  <2>4. ConnType' /\ Attached'
    BY <2>2, <2>3, TypeParts, NowType DEF Dues
  <2>5. QED
    BY TypeParts, TypePartsNext, <1>1, <2>1, <2>2, <2>4
       DEF AcctType, DevType, LdataType, CurType
<1>4. QED
  BY <1>2, <1>3

LEMMA FinalEndStep ==
    ASSUME TypeOK, NEW d \in Devices, NEW c \in Conns, FinalEnd(d, c)
    PROVE  TypeOK'
<1>1. LdataType' /\ AopeType'
  BY ReleasedType DEF FinalEnd
<1>2. ConnType' /\ Attached'
  BY TypeParts, NowType DEF FinalEnd, Dues, Methods
<1>3. UNCHANGED <<acct, dev, lcur, acur, idx, acd, done>>
  BY DEF FinalEnd
<1>4. QED
  BY TypeParts, TypePartsNext, <1>1, <1>2, <1>3
     DEF AcctType, DevType, ConnType, LdataType, AopeType, CurType, FileType, Attached

LEMMA FinalSuccessStep ==
    ASSUME TypeOK, NEW d \in Devices, NEW c \in Conns, FinalSuccess(d, c)
    PROVE  TypeOK'
<1>1. CASE Restarted /\ UNCHANGED <<acct, idx, acd, done>>
  BY <1>1, RestartedType, TypeParts, TypePartsNext DEF AcctType, FileType
<1>2. CASE /\ acd' = acd + Listed(c) /\ idx' = idx + 1
           /\ \E finds \in FindsUser(c) :
                Dissolved(c, finds, SetAnchor(ldata[conn[c].lp].valid, idx + 1))
           /\ UNCHANGED <<dev, ldata, done>>
  <2>1. idx + 1 \in Nat
    BY TypeParts DEF FileType
  <2>2. \A a \in SetAnchor(ldata[conn[c].lp].valid, idx + 1) :
           a \in Account /\ a.seion = acct.seion
    BY <2>1, TypeParts, SetAnchorType
  <2>3. AcctType' /\ CurType' /\ AopeType' /\ ConnType' /\ Attached'
    BY <1>2, <2>2, DissolvedType
  <2>4. FileType'
    BY <1>2, ListedType, TypeParts DEF FileType
  <2>5. QED
    BY <1>2, <2>3, <2>4, TypeParts, TypePartsNext DEF DevType, LdataType
<1>3. QED
  BY <1>1, <1>2 DEF FinalSuccess

LEMMA FinalFailsStep ==
    ASSUME TypeOK, NEW d \in Devices, NEW c \in Conns, FinalFails(d, c)
    PROVE  TypeOK'
<1>1. FileType'
  BY ListedType, TypeParts DEF FinalFails, FileType
<1>2. ConnType' /\ Attached'
  BY TypeParts, NowType DEF FinalFails, Dues, Methods
<1>3. UNCHANGED <<acct, dev, ldata, lcur, aope, acur, done>>
  BY DEF FinalFails
<1>4. QED
  BY TypeParts, TypePartsNext, <1>1, <1>2, <1>3
     DEF AcctType, DevType, ConnType, LdataType, AopeType, CurType, FileType, Attached

LEMMA FinalFinishStep ==
    ASSUME TypeOK, NEW d \in Devices, NEW c \in Conns, FinalFinish(d, c)
    PROVE  TypeOK'
<1>1. ldata[conn[c].lp] \in ListData
  BY TypeParts DEF FinalFinish, ConnType, Connection, Attached, LdataType
<1>2. \A a \in Release(ldata[conn[c].lp]) : a \in Account /\ a.seion = acct.seion
  BY <1>1, TypeParts, ReleaseType
<1>3. AcctType' /\ CurType' /\ AopeType' /\ ConnType' /\ Attached'
  BY <1>2, DissolvedType DEF FinalFinish
<1>4. UNCHANGED <<dev, ldata, idx, acd, done>>
  BY DEF FinalFinish
<1>5. QED
  BY <1>3, <1>4, TypeParts, TypePartsNext DEF DevType, LdataType, FileType

LEMMA OverStep ==
    ASSUME TypeOK, NEW c \in Conns, Over(c)
    PROVE  TypeOK'
<1>1. DevType'
  BY TypeParts DEF Over, DevType, Device, Idle
<1>2. ConnType' /\ Attached'
  BY TypeParts, ClosedType DEF Over
<1>3. UNCHANGED <<acct, ldata, lcur, aope, acur, idx, acd, done>>
  BY DEF Over
<1>4. QED
  BY TypeParts, TypePartsNext, <1>1, <1>2, <1>3
     DEF AcctType, DevType, ConnType, LdataType, AopeType, CurType, FileType, Attached

LEMMA DropStep ==
    ASSUME TypeOK, NEW d \in Devices, NEW c \in Conns, Drop(d, c)
    PROVE  TypeOK'
<1>1. ConnType' /\ Attached'
  BY TypeParts, ClosedType DEF Drop
<1>2. UNCHANGED <<acct, dev, ldata, lcur, aope, acur, idx, acd, done>>
  BY DEF Drop
<1>3. QED
  BY TypeParts, TypePartsNext, <1>1, <1>2
     DEF AcctType, DevType, ConnType, LdataType, AopeType, CurType, FileType, Attached

LEMMA DropDeniedStep ==
    ASSUME TypeOK, NEW d \in Devices, NEW c \in Conns, DropDenied(d, c)
    PROVE  TypeOK'
<1>1. DevType'
  BY TypeParts DEF DropDenied, DevType, Device, Idle
<1>2. ConnType' /\ Attached'
  BY TypeParts, ClosedType DEF DropDenied
<1>3. UNCHANGED <<acct, ldata, lcur, aope, acur, idx, acd, done>>
  BY DEF DropDenied
<1>4. QED
  BY TypeParts, TypePartsNext, <1>1, <1>2, <1>3
     DEF AcctType, DevType, ConnType, LdataType, AopeType, CurType, FileType, Attached

LEMMA VanishStep ==
    ASSUME TypeOK, NEW c \in Conns, Vanish(c)
    PROVE  TypeOK'
<1>1. DevType'
  BY TypeParts DEF Vanish, DevType, Device, Idle
<1>2. ConnType' /\ Attached'
  BY TypeParts DEF Vanish, ConnType, Attached, Connection
<1>3. UNCHANGED <<acct, ldata, lcur, aope, acur, idx, acd, done>>
  BY DEF Vanish
<1>4. QED
  BY TypeParts, TypePartsNext, <1>1, <1>2, <1>3
     DEF AcctType, DevType, ConnType, LdataType, AopeType, CurType, FileType, Attached

LEMMA QuitStep ==
    ASSUME TypeOK, NEW d \in Devices, Quit(d)
    PROVE  TypeOK'
<1>1. DevType'
  BY TypeParts DEF Quit, DevType, Device, Idle
<1>2. ConnType' /\ Attached'
  BY TypeParts DEF Quit, ConnType, Attached, Connection
<1>3. UNCHANGED <<acct, ldata, lcur, aope, acur, idx, acd, done>>
  BY DEF Quit
<1>4. QED
  BY TypeParts, TypePartsNext, <1>1, <1>2, <1>3
     DEF AcctType, DevType, ConnType, LdataType, AopeType, CurType, FileType, Attached

LEMMA InitialKnownStep ==
    ASSUME TypeOK, NEW c \in Conns, InitialKnown(c)
    PROVE  TypeOK'
<1>1. lcur \in Seions /\ dev[conn[c].owner].valid \in Nat
  BY TypeParts, OwnerType DEF InitialKnown, CurType
<1>2. LdataType'
  <2> DEFINE f == [ldata EXCEPT ![lcur].refer = @ + 1]
  <2>1. f \in [Seions -> ListData]
    BY <1>1, TypeParts DEF LdataType, ListData
  <2>2. ldata' = [f EXCEPT ![lcur].valid = dev[conn[c].owner].valid]
    BY DEF InitialKnown
  <2> HIDE DEF f
  <2>3. QED
    BY <1>1, <2>1, <2>2 DEF LdataType, ListData
<1>3. CurType' /\ AopeType' /\ ConnType' /\ Attached'
  BY <1>1, AdmittedType, TornDownType DEF InitialKnown
<1>4. UNCHANGED <<acct, dev, idx, acd, done>>
  BY DEF InitialKnown
<1>5. QED
  BY <1>2, <1>3, <1>4, TypeParts, TypePartsNext DEF AcctType, DevType, FileType

\* The session a STATUS starts: a fresh one, at an anchor that is known.
LEMMA NewSession ==
    ASSUME TypeOK, NEW c \in Conns, InitialNew(c)
    PROVE  /\ AcctType' /\ acct'.cached = acct.cached
           /\ \E n \in Seions, l \in ListData :
                 /\ ldata' = [ldata EXCEPT ![n] = l]
                 /\ l.refer = 1 /\ l.anchor \in {idx, acct.cached}
                 /\ Admitted(c, n) \/ TornDown(c, n)
<1> DEFINE valid == dev[conn[c].owner].valid
<1>1. valid \in Nat
  BY OwnerType DEF InitialNew
<1>2. PICK again \in BOOLEAN :
        LET a == IF again THEN AfterStatus(acct, valid) ELSE acct
        IN  /\ acct' = AfterStatus(a, valid)
            /\ ldata' = [ldata EXCEPT ![a.seion] = Started(a, valid)]
            /\ Admitted(c, a.seion) \/ TornDown(c, a.seion)
            /\ again => valid = acct.valid
  BY DEF InitialNew
<1> DEFINE a == IF again THEN AfterStatus(acct, valid) ELSE acct
<1>3. acct.seion < MaxSeion /\ acct.seion \in Nat /\ acct.seion > 0
  BY TypeParts, AccountFields DEF InitialNew, AcctType
<1>4. a \in Account /\ a.seion > 0 /\ a.seion <= acct.seion + 1
      /\ a.cached = acct.cached
  <2>1. CASE ~again
    BY <1>3, <2>1, TypeParts DEF AcctType
  <2>2. CASE again
    <3>1. AfterStatus(acct, valid) \in Account
          /\ AfterStatus(acct, valid).seion >= acct.seion
          /\ AfterStatus(acct, valid).cached = acct.cached
      BY TypeParts, StatusType DEF AcctType
    <3>2. AfterStatus(acct, valid).seion = acct.seion + 1
      BY <1>2, <2>2, TypeParts DEF AfterStatus, AcctType, Account
    <3>3. a = AfterStatus(acct, valid)
      BY <2>2
    <3> HIDE DEF a, valid
    <3>4. QED
      BY <1>3, <3>1, <3>2, <3>3
  <2>3. QED
    BY <2>1, <2>2
<1>5. /\ acct' = AfterStatus(a, valid)
      /\ ldata' = [ldata EXCEPT ![a.seion] = Started(a, valid)]
      /\ Admitted(c, a.seion) \/ TornDown(c, a.seion)
  BY <1>2
<1> HIDE DEF a, valid
<1>6. a.seion \in Seions /\ a.cached \in Nat
  BY <1>3, <1>4, AccountFields, BoundAssumption DEF Seions
<1>7. AcctType' /\ acct'.cached = acct.cached
  BY <1>4, <1>5, StatusType, AccountFields DEF AcctType
<1>8. /\ Started(a, valid) \in ListData
      /\ Started(a, valid).refer = 1
      /\ Started(a, valid).anchor \in {idx, acct.cached}
  BY <1>1, <1>4, <1>6, TypeParts DEF Started, ListData, FileType
<1>9. QED
  BY <1>5, <1>6, <1>7, <1>8

LEMMA InitialNewStep ==
    ASSUME TypeOK, NEW c \in Conns, InitialNew(c)
    PROVE  TypeOK'
<1>1. AcctType'
  BY NewSession
<1>2. PICK n \in Seions, l \in ListData :
        /\ ldata' = [ldata EXCEPT ![n] = l]
        /\ Admitted(c, n) \/ TornDown(c, n)
  BY NewSession
<1>3. LdataType'
  BY <1>2, TypeParts DEF LdataType
<1>4. CurType' /\ AopeType' /\ ConnType' /\ Attached'
  BY <1>2, AdmittedType, TornDownType
<1>5. UNCHANGED <<dev, idx, acd, done>>
  BY DEF InitialNew
<1>6. QED
  BY <1>1, <1>3, <1>4, <1>5, TypeParts, TypePartsNext DEF DevType, FileType

LEMMA InitialRefusedStep ==
    ASSUME TypeOK, NEW c \in Conns, InitialRefused(c)
    PROVE  TypeOK'
<1>1. acct' \in {acct, AfterStatus(acct, dev[conn[c].owner].valid)}
  BY DEF InitialRefused
<1>2. AcctType'
  BY <1>1, TypeParts, StatusType, AccountFields DEF AcctType
<1>3. ConnType' /\ Attached'
  BY TypeParts, NowType DEF InitialRefused, Dues, Methods
<1>4. UNCHANGED <<dev, ldata, lcur, aope, acur, idx, acd, done>>
  BY DEF InitialRefused
<1>5. QED
  BY TypeParts, TypePartsNext, <1>1, <1>2, <1>3, <1>4
     DEF AcctType, DevType, ConnType, LdataType, AopeType, CurType, FileType, Attached

LEMMA ExceptionStep ==
    ASSUME TypeOK, NEW c \in Conns, Exception(c)
    PROVE  TypeOK'
<1>1. UNCHANGED idx
  BY DEF Exception
<1>2. CASE Restarted /\ UNCHANGED <<acct, acd, done>>
  BY <1>1, <1>2, RestartedType, TypeParts, TypePartsNext DEF AcctType, FileType
<1>3. ASSUME NEW finds \in BOOLEAN, ~Unset(c, finds), Unwound(c, finds)
      PROVE  TypeOK'
  <2>1. ldata[conn[c].lp] \in ListData
    BY <1>3, TypeParts DEF Unset, ConnType, Connection, LdataType
  <2>2. AcctType'
    <3>1. acct' = acct \/ acct' \in Release(ldata[conn[c].lp])
      BY <1>3 DEF Unwound
    <3>2. QED
      BY <2>1, <3>1, TypeParts, ReleaseType DEF AcctType
  <2>3. FileType'
    BY <1>1, <1>3, TypeParts, ListedType DEF Unwound, FileType
  <2>4. CASE Restarted
    BY <2>2, <2>3, <2>4, RestartedType, TypeParts, TypePartsNext
  <2>5. CASE ~Restarted
    <3>1. LdataType'
      BY <1>3, <2>5, TypeParts DEF Unwound, LdataType, ListData, CurType
    <3>2. CurType'
      BY <1>3, <2>5, TypeParts DEF Unwound, CurType
    <3>3. conn' = Closed(c)
      BY <1>3, <2>5 DEF Unwound
    <3>4. ConnType' /\ Attached'
      BY <3>3, TypeParts, ClosedType
    <3>5. DevType'
      <4>1. \A d \in Devices : dev'[d] \in {dev[d], Idle}
        BY <1>3, <2>5 DEF Unwound
      <4>2. dev' = [d \in Devices |-> dev'[d]]
        BY <1>3, <2>5 DEF Unwound
      <4>3. Idle \in Device
        BY DEF Idle, Device
      <4>4. QED
        BY <4>1, <4>2, <4>3, TypeParts DEF DevType
    <3>6. AopeType'
      <4> DEFINE m == IF finds THEN acur ELSE 0
                 left == IF m = 0 THEN aope
                         ELSE IF aope[m].refer = 1 THEN [aope EXCEPT ![m] = NoActions]
                         ELSE [aope EXCEPT ![m].refer = @ - 1]
      <4>1. left \in [Seions -> ActnoOpe]
        BY TypeParts DEF AopeType, ActnoOpe, NoActions, CurType
      <4>2. aope' = left \/ (acur' # 0 /\ aope' = [left EXCEPT ![acur'].acts = @ + 1])
        BY <1>3, <2>5 DEF Unwound
      <4> HIDE DEF left
      <4>3. QED
        BY <3>2, <4>1, <4>2 DEF AopeType, ActnoOpe, CurType
    <3>7. QED
      BY <2>2, <2>3, <3>1, <3>2, <3>4, <3>5, <3>6, TypePartsNext
  <2>6. QED
    BY <2>4, <2>5
<1>4. \A finds \in FindsUser(c) : finds \in BOOLEAN
  BY DEF FindsUser
<1>5. QED
  BY <1>2, <1>3, <1>4 DEF Exception

LEMMA CrashStep ==
    ASSUME TypeOK, Crash
    PROVE  TypeOK'
<1>1. Restarted /\ UNCHANGED <<acct, idx, acd, done>>
  BY DEF Crash
<1>2. QED
  BY <1>1, RestartedType, TypeParts, TypePartsNext DEF AcctType, FileType

LEMMA AccountStep ==
    ASSUME TypeOK, Lapse \/ Erase \/ Clear
    PROVE  TypeOK'
<1>1. [acct EXCEPT !.lapsed = TRUE] \in Account
      /\ [acct EXCEPT !.lapsed = TRUE].seion = acct.seion
  BY TypeParts, AccountUpdates DEF AcctType, Account
<1>2. acct' \in {acct, [acct EXCEPT !.lapsed = TRUE], Recreated(acct)}
  BY DEF Lapse, Erase, Clear, AfterErase, AfterClear
<1>3. Recreated(acct) \in Account /\ Recreated(acct).seion > 0
  BY TypeParts, RecreatedType, AccountFields DEF AcctType
<1>4. AcctType'
  BY <1>1, <1>2, <1>3, TypeParts DEF AcctType
<1>5. UNCHANGED <<dev, conn, ldata, lcur, aope, acur, idx, acd, done>>
  BY DEF Lapse, Erase, Clear
<1>6. QED
  BY TypeParts, TypePartsNext, <1>4, <1>5
     DEF AcctType, DevType, ConnType, LdataType, AopeType, CurType, FileType, Attached

LEMMA TypeStep ==
    ASSUME TypeOK, [Next]_vars
    PROVE  TypeOK'
<1>1. CASE UNCHANGED vars
  BY <1>1, TypeParts, TypePartsNext
     DEF vars, AcctType, DevType, ConnType, LdataType, AopeType, CurType, FileType,
         Attached
<1>2. ASSUME NEW d \in Devices, Client(d) \/ QueryLater(d) \/ Quit(d)
      PROVE  TypeOK'
  <2>1. CASE QueryLater(d)
    BY <1>1, <2>1 DEF QueryLater
  <2>2. QED
    BY <1>2, <2>1, QueryStep, QuitStep, BeginFinishStep, AcceptStep, RequestStep,
       FinalEndStep, FinalSuccessStep, FinalFailsStep, FinalFinishStep, DropStep,
       DropDeniedStep DEF Client
<1>3. ASSUME NEW c \in Conns, Server(c) \/ Vanish(c) \/ Exception(c)
      PROVE  TypeOK'
  BY <1>3, InitialKnownStep, InitialNewStep, InitialRefusedStep, ReplyStep, OverStep,
     VanishStep, ExceptionStep DEF Server
<1>4. CASE Crash \/ Lapse \/ Erase \/ Clear
  BY <1>4, CrashStep, AccountStep
<1>5. CASE Exhausted
  BY <1>1, <1>5 DEF Exhausted
<1>6. QED
  BY <1>1, <1>2, <1>3, <1>4, <1>5 DEF Next

(***************************************************************************)
(* Every reachable state is well typed, and a connection in service points  *)
(* to a session and to a list of actions.                                   *)
(***************************************************************************)
THEOREM TypeCorrect == Spec => []TypeOK
  BY TypeInit, TypeStep, PTL DEF Spec

(***************************************************************************)
(* The two hash maps in step.  Handlers that leave both maps and both       *)
(* counts alone are dealt with together.                                    *)
(***************************************************************************)
MapsAlone == UNCHANGED <<ldata, lcur, aope, acur>>

LEMMA LockstepRestarted == Restarted => Lockstep'
  BY DEF Restarted, Lockstep, Refer

\* INITIAL takes one reference on each side, or frees both.
LEMMA LockstepInitial ==
    ASSUME TypeOK, Lockstep, NEW c \in Conns, NEW n \in Seions, LdataType',
           Admitted(c, n) \/ TornDown(c, n),
           \/ n = lcur /\ ldata'[n].refer = ldata[n].refer + 1
           \/ lcur = 0 /\ ldata'[n].refer = 1
    PROVE  Lockstep'
<1>1. CASE TornDown(c, n)
  BY <1>1 DEF TornDown, Lockstep, Refer
<1>2. CASE Admitted(c, n)
  <2>1. lcur' = n /\ n # 0 /\ acur' # 0
    <3>1. n # 0
      BY BoundAssumption DEF Seions
    <3>2. lcur' = n /\ (acur' = n \/ (acur # 0 /\ acur' = acur))
      BY <1>2, Zenon DEF Admitted
    <3>3. QED
      BY <3>1, <3>2
  <2>2. ldata'[n].refer = aope'[acur'].refer
    <3>1. CASE acur # 0
      <4>1. n = lcur /\ acur' = acur /\ acur \in Seions
        BY <3>1, TypeParts, <1>2 DEF Lockstep, Admitted, CurType
      <4>2. aope'[acur].refer = aope[acur].refer + 1
        BY <1>2, <3>1, <4>1, TypeParts DEF Admitted, AopeType, ActnoOpe
      <4>3. ldata'[n].refer = ldata[n].refer + 1
        BY <2>1, <4>1, <3>1 DEF Lockstep
      <4>4. ldata[n].refer = aope[acur].refer
        BY <2>1, <3>1, <4>1 DEF Lockstep, Refer
      <4>5. QED
        BY <4>1, <4>2, <4>3, <4>4
    <3>2. CASE acur = 0
      <4>1. ldata'[n].refer = 1
        BY <2>1, <3>2 DEF Lockstep
      <4>2. acur' = n /\ aope'[n].refer = 1
        <5>1. acur' = n /\ aope' = [aope EXCEPT ![n].refer = 1]
          BY <1>2, <3>2 DEF Admitted
        <5>2. n \in Seions /\ aope \in [Seions -> [refer : Int, acts : Nat]]
          BY <1>2, TypeParts DEF AopeType, ActnoOpe
        <5>3. QED
          BY <5>1, <5>2
      <4>3. QED
        BY <4>1, <4>2
    <3>3. QED
      BY <3>1, <3>2
  <2>3. QED
    BY <2>1, <2>2 DEF Lockstep, Refer
<1>3. QED
  BY <1>1, <1>2

LEMMA LockstepDissolved ==
    ASSUME TypeOK, Lockstep, NEW c \in Conns, NEW finds, NEW told,
           Dissolved(c, finds, told), UNCHANGED ldata
    PROVE  Lockstep'
<1>1. CASE finds /\ lcur # 0
  BY <1>1 DEF Dissolved, Lockstep, Refer
<1>2. CASE ~(finds /\ lcur # 0)
  BY <1>2 DEF Dissolved, Lockstep, Refer
<1>3. QED
  BY <1>1, <1>2

LEMMA LockstepReleased ==
    ASSUME TypeOK, Lockstep, NEW finds, Released(finds), UNCHANGED <<lcur, acur>>
    PROVE  Lockstep'
  BY TypeParts DEF Released, Lockstep, Refer, LdataType, AopeType, ListData, ActnoOpe,
     CurType

LEMMA LockstepUnwound ==
    ASSUME TypeOK, Lockstep, NEW c \in Conns, NEW finds \in BOOLEAN, Unwound(c, finds)
    PROVE  Lockstep'
<1>1. CASE Restarted
  BY <1>1, LockstepRestarted
<1>2. CASE ~Restarted
  <2> DEFINE l == IF finds THEN lcur ELSE 0
             m == IF finds THEN acur ELSE 0
             left == IF m = 0 THEN aope
                     ELSE IF aope[m].refer = 1 THEN [aope EXCEPT ![m] = NoActions]
                     ELSE [aope EXCEPT ![m].refer = @ - 1]
  <2>1. /\ ldata' = IF l = 0 THEN ldata ELSE [ldata EXCEPT ![l].refer = @ - 1]
        /\ lcur' = IF l # 0 /\ ldata[l].refer = 1 THEN 0 ELSE lcur
        /\ acur' = IF LastReference(finds) THEN 0 ELSE acur
    BY <1>2 DEF Unwound
  <2>2. aope' = left \/ (acur' # 0 /\ aope' = [left EXCEPT ![acur'].acts = @ + 1])
    BY <1>2 DEF Unwound
  <2>3. CASE finds /\ lcur # 0 /\ ldata[lcur].refer = 1
    BY <2>1, <2>3 DEF Lockstep, Refer, LastReference
  <2>4. CASE finds /\ lcur # 0 /\ ldata[lcur].refer # 1
    <3>1. lcur' = lcur /\ acur' = acur /\ acur # 0 /\ aope[acur].refer # 1
          /\ lcur \in Seions /\ acur \in Seions
          /\ aope[acur].refer = ldata[lcur].refer
      BY <2>1, <2>4, TypeParts DEF Lockstep, Refer, LastReference, CurType
    <3>2. ldata'[lcur].refer = ldata[lcur].refer - 1
      BY <2>1, <2>4, <3>1, TypeParts DEF LdataType, ListData
    <3>3. left = [aope EXCEPT ![acur].refer = @ - 1]
      BY <2>4, <3>1
    <3>4. aope'[acur].refer = aope[acur].refer - 1
      <4>1. left \in [Seions -> ActnoOpe] /\ left[acur].refer = aope[acur].refer - 1
        BY <3>1, <3>3, TypeParts DEF AopeType, ActnoOpe
      <4> HIDE DEF left
      <4>2. QED
        BY <2>2, <3>1, <4>1 DEF ActnoOpe
    <3>5. QED
      BY <2>4, <3>1, <3>2, <3>4 DEF Lockstep, Refer
  <2>5. CASE ~(finds /\ lcur # 0)
    <3>1. UNCHANGED <<ldata, lcur, acur>>
      BY <2>1, <2>5 DEF Lockstep, LastReference
    <3>2. left = aope
      BY <2>5 DEF Lockstep
    <3>3. acur # 0 => acur \in Seions /\ aope'[acur].refer = aope[acur].refer
      BY <2>2, <3>1, <3>2, TypeParts DEF AopeType, ActnoOpe, CurType
    <3>4. QED
      BY <3>1, <3>3 DEF Lockstep, Refer
  <2>6. QED
    BY <2>3, <2>4, <2>5
<1>3. QED
  BY <1>1, <1>2

LEMMA LockstepStep ==
    ASSUME TypeOK, TypeOK', Lockstep, [Next]_vars
    PROVE  Lockstep'
<1>0. ASSUME MapsAlone PROVE Lockstep'
  BY <1>0 DEF MapsAlone, Lockstep, Refer
<1>1. ASSUME NEW d \in Devices, NEW c \in Conns, FinalEnd(d, c)
      PROVE  Lockstep'
  BY <1>1, LockstepReleased DEF FinalEnd
<1>2. ASSUME NEW d \in Devices, NEW c \in Conns, FinalSuccess(d, c)
      PROVE  Lockstep'
  BY <1>2, LockstepDissolved, LockstepRestarted DEF FinalSuccess
<1>3. ASSUME NEW d \in Devices, NEW c \in Conns, FinalFinish(d, c)
      PROVE  Lockstep'
  BY <1>3, LockstepDissolved DEF FinalFinish
<1>4. ASSUME NEW c \in Conns, InitialKnown(c)
      PROVE  Lockstep'
  <2>1. lcur \in Seions
    BY <1>4, TypeParts DEF InitialKnown, CurType
  <2>2. ldata'[lcur].refer = ldata[lcur].refer + 1
    BY <1>4, <2>1, TypeParts DEF InitialKnown, LdataType, ListData
  <2>3. LdataType'
    BY TypePartsNext
  <2>4. QED
    BY <1>4, <2>1, <2>2, <2>3, LockstepInitial DEF InitialKnown
<1>5. ASSUME NEW c \in Conns, InitialNew(c)
      PROVE  Lockstep'
  <2>1. PICK n \in Seions, l \in ListData :
          /\ ldata' = [ldata EXCEPT ![n] = l] /\ l.refer = 1
          /\ Admitted(c, n) \/ TornDown(c, n)
    BY <1>5, NewSession
  <2>2. ldata'[n].refer = 1
    BY <2>1, TypeParts DEF LdataType
  <2>3. LdataType'
    BY TypePartsNext
  <2>4. lcur = 0
    BY <1>5 DEF InitialNew
  <2>5. QED
    BY <2>1, <2>2, <2>3, <2>4, LockstepInitial
<1>6. ASSUME NEW c \in Conns, Reply(c)
      PROVE  Lockstep'
  <2>1. CASE Restarted
    BY <2>1, LockstepRestarted
  <2>2. CASE ~Restarted
    <3>1. UNCHANGED <<ldata, lcur, acur>>
      BY <1>6, <2>2 DEF Reply
    <3>2. acur # 0 => aope'[acur].refer = aope[acur].refer
      BY <1>6, <2>2, TypeParts DEF Reply, AopeType, ActnoOpe, CurType
    <3>3. QED
      BY <3>1, <3>2 DEF Lockstep, Refer
  <2>3. QED
    BY <2>1, <2>2
<1>7. ASSUME NEW c \in Conns, Exception(c)
      PROVE  Lockstep'
  <2>1. \A finds \in FindsUser(c) : finds \in BOOLEAN
    BY DEF FindsUser
  <2>2. QED
    BY <1>7, <2>1, LockstepRestarted, LockstepUnwound DEF Exception
<1>8. CASE Crash
  BY <1>8, LockstepRestarted DEF Crash
<1>9. ASSUME NEW d \in Devices, Client(d) \/ QueryLater(d) \/ Quit(d)
      PROVE  Lockstep'
  <2>1. ASSUME NEW c \in Conns,
               \/ Accept(d, c) \/ FinalFails(d, c) \/ Drop(d, c) \/ DropDenied(d, c)
               \/ \E method \in {"get", "act", "put"} : Request(d, c, method)
        PROVE  MapsAlone
    BY <2>1 DEF Accept, FinalFails, Drop, DropDenied, Request, MapsAlone
  <2>2. ASSUME Query(d) \/ BeginFinish(d) \/ QueryLater(d) \/ Quit(d)
        PROVE  MapsAlone
    BY <2>2 DEF Query, BeginFinish, QueryLater, Quit, vars, MapsAlone
  <2>3. QED
    BY <1>0, <1>1, <1>2, <1>3, <1>9, <2>1, <2>2 DEF Client
<1>10. ASSUME NEW c \in Conns, Server(c) \/ Vanish(c) \/ Exception(c)
       PROVE  Lockstep'
  <2>1. InitialRefused(c) \/ Over(c) \/ Vanish(c) => MapsAlone
    BY DEF InitialRefused, Over, Vanish, MapsAlone
  <2>2. QED
    BY <1>0, <1>4, <1>5, <1>6, <1>7, <1>10, <2>1 DEF Server
<1>11. CASE Lapse \/ Erase \/ Clear \/ Exhausted \/ UNCHANGED vars
  BY <1>0, <1>11 DEF Lapse, Erase, Clear, Exhausted, vars, MapsAlone
<1>12. QED
  BY <1>8, <1>9, <1>10, <1>11 DEF Next

(***************************************************************************)
(* The session map and the action map hold the user together and count the  *)
(* same references, under every fault: auth_bzl and opera_bzl never differ. *)
(***************************************************************************)
THEOREM LockstepCorrect == Spec => []Lockstep
<1>1. Init => Lockstep
  BY DEF Init, Lockstep, Refer
<1>2. TypeOK /\ TypeOK' /\ Lockstep /\ [Next]_vars => Lockstep'
  BY LockstepStep
<1>3. QED
  BY <1>1, <1>2, TypeCorrect, PTL DEF Spec

(***************************************************************************)
(* The cache is not ahead: what a step must keep.                           *)
(***************************************************************************)
LEMMA AheadKept ==
    ASSUME TypeOK, TypeOK', CacheNeverAhead, idx' >= idx, acct'.cached <= idx',
           \A s \in Seions : ldata'[s].anchor <= idx
    PROVE  CacheNeverAhead'
<1>1. idx \in Nat /\ idx' \in Nat /\ \A s \in Seions : ldata'[s].anchor \in Nat
  BY TypeParts, TypePartsNext DEF FileType, LdataType, ListData
<1>2. \A s \in Seions : ldata'[s].anchor <= idx'
  BY <1>1
<1>3. QED
  BY <1>2 DEF CacheNeverAhead

\* Handlers that start, end or change a session without touching its anchor.
LEMMA AheadAnchors ==
    ASSUME TypeOK, CacheNeverAhead,
           \A s \in Seions : ldata'[s].anchor \in {ldata[s].anchor, 0}
    PROVE  \A s \in Seions : ldata'[s].anchor <= idx
  BY TypeParts DEF CacheNeverAhead, FileType

\* A step that leaves the sessions and the index file alone.
LEMMA AheadAccount ==
    ASSUME TypeOK, TypeOK', CacheNeverAhead, UNCHANGED <<ldata, idx>>,
           acct'.cached \in {acct.cached, 0}
    PROVE  CacheNeverAhead'
<1>1. idx \in Nat
  BY TypeParts DEF FileType
<1>2. idx' >= idx /\ acct'.cached <= idx'
  BY <1>1 DEF CacheNeverAhead
<1>3. \A s \in Seions : ldata'[s].anchor <= idx
  BY DEF CacheNeverAhead
<1>4. QED
  BY <1>2, <1>3, AheadKept

LEMMA AheadReleased ==
    ASSUME TypeOK, NEW finds, Released(finds)
    PROVE  \A s \in Seions : ldata'[s].anchor = ldata[s].anchor
  BY TypeParts DEF Released, LdataType, ListData, CurType

LEMMA AheadRestarted ==
    ASSUME TypeOK, Restarted
    PROVE  \A s \in Seions : ldata'[s].anchor = 0
  BY DEF Restarted, NoSession

LEMMA AheadInitialKnown ==
    ASSUME TypeOK, TypeOK', CacheNeverAhead, NEW c \in Conns, InitialKnown(c)
    PROVE  CacheNeverAhead'
<1> DEFINE f == [ldata EXCEPT ![lcur].refer = @ + 1]
<1>0. lcur \in Seions
  BY TypeParts DEF InitialKnown, CurType
<1>1. \A s \in Seions : f[s].anchor = ldata[s].anchor
  BY <1>0, TypeParts DEF LdataType, ListData
<1>2. f \in [Seions -> ListData]
  BY <1>0, TypeParts DEF LdataType, ListData
<1>3. ldata' = [f EXCEPT ![lcur].valid = dev[conn[c].owner].valid]
  BY DEF InitialKnown
<1> HIDE DEF f
<1>4. \A s \in Seions : ldata'[s].anchor = f[s].anchor
  BY <1>0, <1>2, <1>3 DEF ListData
<1>5. UNCHANGED <<acct, idx>>
  BY DEF InitialKnown
<1>6. QED
  BY <1>1, <1>4, <1>5 DEF CacheNeverAhead

LEMMA AheadInitialNew ==
    ASSUME TypeOK, TypeOK', CacheNeverAhead, NEW c \in Conns, InitialNew(c)
    PROVE  CacheNeverAhead'
<1>1. PICK n \in Seions, l \in ListData :
        /\ ldata' = [ldata EXCEPT ![n] = l] /\ l.anchor \in {idx, acct.cached}
  BY NewSession
<1>2. acct'.cached = acct.cached /\ idx' = idx
  BY NewSession DEF InitialNew
<1>3. idx <= idx /\ acct.cached <= idx
  BY TypeParts DEF CacheNeverAhead, FileType
<1>4. \A s \in Seions : ldata'[s].anchor <= idx
  BY <1>1, <1>3, TypeParts DEF CacheNeverAhead, LdataType
<1>5. QED
  BY <1>2, <1>3, <1>4 DEF CacheNeverAhead

\* The cache is told an anchor only after the index file holds it.
LEMMA AheadFinalSuccess ==
    ASSUME TypeOK, TypeOK', CacheNeverAhead, NEW d \in Devices, NEW c \in Conns,
           FinalSuccess(d, c)
    PROVE  CacheNeverAhead'
<1>1. idx \in Nat /\ idx + 1 \in Nat /\ AcctType /\ acct.cached \in Nat
      /\ acct.cached <= idx
  BY TypeParts, AccountFields DEF CacheNeverAhead, FileType, AcctType
<1>2. CASE conn[c].ap # acur /\ Restarted /\ UNCHANGED <<acct, idx, acd>>
  <2>1. \A s \in Seions : ldata'[s].anchor <= idx
    BY <1>2, AheadRestarted, AheadAnchors
  <2>2. QED
    BY <1>1, <1>2, <2>1 DEF CacheNeverAhead
<1>3. ASSUME NEW finds, idx' = idx + 1, UNCHANGED ldata,
             Dissolved(c, finds, SetAnchor(ldata[conn[c].lp].valid, idx + 1))
      PROVE  CacheNeverAhead'
  <2>1. acct' = acct \/ acct' \in SetAnchor(ldata[conn[c].lp].valid, idx + 1)
    BY <1>3 DEF Dissolved
  <2>2. acct'.cached \in {acct.cached, idx + 1}
    BY <1>1, <2>1, SetAnchorType
  <2>3. idx' >= idx /\ acct'.cached <= idx'
    BY <1>1, <1>3, <2>2
  <2>4. \A s \in Seions : ldata'[s].anchor <= idx
    BY <1>3 DEF CacheNeverAhead
  <2>5. QED
    BY <2>3, <2>4, AheadKept
<1>4. QED
  BY <1>2, <1>3 DEF FinalSuccess

\* Released without a new anchor: the cache is told the session's own.
LEMMA AheadRelease ==
    ASSUME TypeOK, CacheNeverAhead, NEW n \in Seions,
           acct' = acct \/ acct' \in Release(ldata[n])
    PROVE  acct'.cached <= idx
<1>1. ldata[n] \in ListData /\ AcctType
  BY TypeParts DEF LdataType
<1>2. acct'.cached \in {acct.cached, ldata[n].anchor}
  BY <1>1, ReleaseType
<1>3. QED
  BY <1>2 DEF CacheNeverAhead

LEMMA AheadFinalFinish ==
    ASSUME TypeOK, TypeOK', CacheNeverAhead, NEW d \in Devices, NEW c \in Conns,
           FinalFinish(d, c)
    PROVE  CacheNeverAhead'
<1>1. conn[c].lp \in Seions
  BY TypeParts DEF FinalFinish, ConnType, Connection, Attached
<1>2. acct' = acct \/ acct' \in Release(ldata[conn[c].lp])
  BY DEF FinalFinish, Dissolved
<1>3. QED
  BY <1>1, <1>2, AheadRelease DEF FinalFinish, CacheNeverAhead

LEMMA AheadFinalFails ==
    ASSUME TypeOK, TypeOK', CacheNeverAhead, NEW d \in Devices, NEW c \in Conns,
           FinalFails(d, c)
    PROVE  CacheNeverAhead'
<1>1. idx' \in {idx, idx + 1} /\ UNCHANGED <<acct, ldata>>
  BY DEF FinalFails
<1>2. idx \in Nat /\ acct.cached \in Nat /\ acct.cached <= idx
  BY TypeParts, AccountFields DEF CacheNeverAhead, FileType, AcctType
<1>3. idx' >= idx /\ acct'.cached <= idx'
  BY <1>1, <1>2
<1>4. \A s \in Seions : ldata'[s].anchor <= idx
  BY <1>1 DEF CacheNeverAhead
<1>5. QED
  BY <1>3, <1>4, AheadKept

LEMMA AheadException ==
    ASSUME TypeOK, TypeOK', CacheNeverAhead, NEW c \in Conns, Exception(c)
    PROVE  CacheNeverAhead'
<1>1. idx' = idx /\ idx \in Nat
  BY TypeParts DEF Exception, FileType
<1>2. CASE Restarted /\ UNCHANGED <<acct, acd, done>>
  <2>1. \A s \in Seions : ldata'[s].anchor <= idx
    BY <1>2, AheadRestarted, AheadAnchors
  <2>2. QED
    BY <1>1, <1>2, <2>1 DEF CacheNeverAhead
<1>3. ASSUME NEW finds \in BOOLEAN, ~Unset(c, finds), Unwound(c, finds)
      PROVE  CacheNeverAhead'
  <2>1. conn[c].lp \in Seions
    BY <1>3, TypeParts DEF Unset, ConnType, Connection
  <2>2. acct' = acct \/ acct' \in Release(ldata[conn[c].lp])
    BY <1>3 DEF Unwound
  <2>3. acct'.cached <= idx
    BY <2>1, <2>2, AheadRelease
  <2>4. \A s \in Seions : ldata'[s].anchor \in {ldata[s].anchor, 0}
    <3>1. CASE Restarted
      BY <3>1, AheadRestarted
    <3>2. CASE ~Restarted
      BY <1>3, <3>2, TypeParts DEF Unwound, LdataType, ListData, CurType
    <3>3. QED
      BY <3>1, <3>2
  <2>5. QED
    BY <1>1, <2>3, <2>4, AheadAnchors DEF CacheNeverAhead
<1>4. \A finds \in FindsUser(c) : finds \in BOOLEAN
  BY DEF FindsUser
<1>5. QED
  BY <1>2, <1>3, <1>4 DEF Exception

\* The handlers that change neither a session's anchor nor the index file.
LEMMA AheadOthers ==
    ASSUME TypeOK, TypeOK', CacheNeverAhead, UNCHANGED idx,
           acct'.cached \in {acct.cached, 0},
           \/ UNCHANGED ldata
           \/ Restarted
           \/ \E finds \in BOOLEAN : Released(finds)
    PROVE  CacheNeverAhead'
<1>1. \A s \in Seions : ldata'[s].anchor \in {ldata[s].anchor, 0}
  BY AheadRestarted, AheadReleased
<1>2. \A s \in Seions : ldata'[s].anchor <= idx
  BY <1>1, AheadAnchors
<1>3. acct'.cached <= idx' /\ idx' >= idx
  BY TypeParts, AccountFields DEF CacheNeverAhead, FileType, AcctType
<1>4. QED
  BY <1>2, <1>3, AheadKept

LEMMA AheadStep ==
    ASSUME TypeOK, TypeOK', CacheNeverAhead, [Next]_vars
    PROVE  CacheNeverAhead'
<1>0. AcctType
  BY TypeParts
<1>1. ASSUME NEW d \in Devices, NEW c \in Conns, NEW method, Request(d, c, method)
      PROVE  CacheNeverAhead'
  <2>1. acct'.cached = acct.cached
    BY <1>0, <1>1, QueryType DEF Request, AcctType
  <2>2. QED
    BY <1>1, <2>1, AheadAccount DEF Request
<1>2. ASSUME NEW d \in Devices, NEW c \in Conns, FinalEnd(d, c)
      PROVE  CacheNeverAhead'
  <2>1. \E finds \in BOOLEAN : Released(finds)
    BY <1>2 DEF FinalEnd, FindsUser
  <2>2. QED
    BY <1>2, <2>1, AheadOthers DEF FinalEnd
<1>3. ASSUME NEW d \in Devices, Query(d)
      PROVE  CacheNeverAhead'
  <2>1. acct'.cached = acct.cached
    BY <1>0, <1>3, QueryType DEF Query, AcctType
  <2>2. QED
    BY <1>3, <2>1, AheadAccount DEF Query
<1>4. ASSUME NEW d \in Devices, Client(d) \/ QueryLater(d) \/ Quit(d)
      PROVE  CacheNeverAhead'
  <2>1. ASSUME NEW c \in Conns, Accept(d, c) \/ Drop(d, c) \/ DropDenied(d, c)
        PROVE  CacheNeverAhead'
    BY <2>1, AheadAccount DEF Accept, Drop, DropDenied
  <2>2. ASSUME BeginFinish(d) \/ QueryLater(d) \/ Quit(d)
        PROVE  CacheNeverAhead'
    BY <2>2, AheadAccount DEF BeginFinish, QueryLater, Quit, vars
  <2>3. QED
    BY <1>1, <1>2, <1>3, <1>4, <2>1, <2>2, AheadFinalSuccess, AheadFinalFails,
       AheadFinalFinish DEF Client
<1>5. ASSUME NEW c \in Conns, Server(c) \/ Vanish(c) \/ Exception(c)
      PROVE  CacheNeverAhead'
  <2>1. CASE InitialRefused(c)
    <3>1. acct' \in {acct, AfterStatus(acct, dev[conn[c].owner].valid)}
      BY <2>1 DEF InitialRefused
    <3>2. acct'.cached = acct.cached
      BY <1>0, <3>1, StatusType DEF AcctType
    <3>3. QED
      BY <2>1, <3>2, AheadAccount DEF InitialRefused
  <2>2. CASE Reply(c)
    BY <2>2, AheadOthers DEF Reply
  <2>3. CASE Over(c) \/ Vanish(c)
    BY <2>3, AheadAccount DEF Over, Vanish
  <2>4. QED
    BY <1>5, <2>1, <2>2, <2>3, AheadInitialKnown, AheadInitialNew, AheadException
       DEF Server
<1>6. CASE Lapse \/ Erase \/ Clear
  <2>1. [acct EXCEPT !.lapsed = TRUE].cached = acct.cached
    BY <1>0 DEF AcctType, Account
  <2>2. acct'.cached \in {acct.cached, 0}
    BY <1>0, <1>6, <2>1, RecreatedType
       DEF AcctType, Lapse, Erase, Clear, AfterErase, AfterClear
  <2>3. QED
    BY <1>6, <2>2, AheadAccount DEF Lapse, Erase, Clear
<1>7. CASE Crash
  BY <1>7, AheadOthers DEF Crash
<1>8. CASE Exhausted \/ UNCHANGED vars
  BY <1>8, AheadAccount DEF Exhausted, vars
<1>9. QED
  BY <1>4, <1>5, <1>6, <1>7, <1>8 DEF Next

(***************************************************************************)
(* Whatever is lost, repeated, raced or crashed, neither the cache nor a    *)
(* session that may still tell it knows an anchor that the anchor index     *)
(* does not hold: addi_anchor comes before set_cache_anchor.                *)
(***************************************************************************)
THEOREM CacheNeverAheadCorrect == Spec => []CacheNeverAhead
<1>1. Init => CacheNeverAhead
  BY DEF Init, CacheNeverAhead, NewAccount, NoSession
<1>2. TypeOK /\ TypeOK' /\ CacheNeverAhead /\ [Next]_vars => CacheNeverAhead'
  BY AheadStep
<1>3. QED
  BY <1>1, <1>2, TypeCorrect, PTL DEF Spec

=============================================================================
