----------------------------- MODULE SyncOrder_proof -----------------------------
(***************************************************************************)
(* More proofs about SyncSession.  With disks that hold, nothing is written *)
(* twice, whatever else fails or races (WrittenOnce).  And as long as       *)
(* nothing takes the account from a device that has it (Exclusive), for     *)
(* every number of devices, connections and session ids and whatever else   *)
(* fails: NoDangling, ReferCovers, OneDevice and CacheCoherent, NothingLost *)
(* and ServerCount under one more condition each, from one inductive        *)
(* invariant (OInv); and that sessions implement Tenure.                    *)
(***************************************************************************)
EXTENDS SyncSession_proof, FiniteSetTheorems

(***************************************************************************)
(* The two hash maps hold the objects of one session, and a connection in   *)
(* service was given both objects of one session.                           *)
(***************************************************************************)
Serving == {"open", "reply"}
Twins ==
    /\ lcur = acur
    /\ \A c \in Conns : conn[c].due \in Serving => conn[c].lp = conn[c].ap

\* Only the object in the hash map has actions.
Clean == \A s \in Seions : s # acur => aope[s].acts = 0

(***************************************************************************)
(* No connection is put into service, and none in service is given other    *)
(* objects.                                                                 *)
(***************************************************************************)
Served ==
    \A b \in Conns : conn'[b].due \in Serving =>
        /\ conn[b].due \in Serving
        /\ conn'[b].lp = conn[b].lp /\ conn'[b].ap = conn[b].ap

LEMMA ServedClosed ==
    ASSUME TypeOK, NEW c \in Conns, conn' = Closed(c)
    PROVE  Served
  BY TypeParts DEF ConnType, Connection, Closed, Served, Serving

LEMMA ServedNow ==
    ASSUME TypeOK, NEW c \in Conns, NEW due, NEW method, conn' = Now(c, due, method),
           due \in Serving => conn[c].due \in Serving
    PROVE  Served
<1>1. conn' = [conn EXCEPT ![c] = [conn[c] EXCEPT !.due = due, !.method = method]]
  BY TypeParts DEF ConnType, Now
<1>2. \A b \in Conns : b # c => conn'[b] = conn[b]
  BY <1>1, TypeParts DEF ConnType
<1>3. conn'[c].due = due /\ conn'[c].lp = conn[c].lp /\ conn'[c].ap = conn[c].ap
  BY <1>1, TypeParts DEF ConnType, Connection
<1>4. QED
  BY <1>2, <1>3 DEF Served

LEMMA ServedRestarted ==
    ASSUME Restarted
    PROVE  Served
  BY DEF Restarted, Served, Serving, Asleep

LEMMA ServedDissolved ==
    ASSUME TypeOK, NEW c \in Conns, NEW finds, NEW told, Dissolved(c, finds, told)
    PROVE  Served
<1>1. conn' = [Now(c, "over", "final") EXCEPT ![c].lp = 0]
  BY DEF Dissolved
<1>2. \A b \in Conns : b # c => conn'[b] = conn[b]
  BY <1>1, TypeParts DEF ConnType, Now
<1>3. conn'[c].due = "over"
  BY <1>1, TypeParts DEF ConnType, Connection, Now
<1>4. QED
  BY <1>2, <1>3 DEF Served, Serving

\* Every step but INITIAL's.
LEMMA ServedStep ==
    ASSUME TypeOK, [Next]_vars,
           \A c \in Conns : ~InitialKnown(c) /\ ~InitialNew(c)
    PROVE  Served
<1>1. ASSUME UNCHANGED conn PROVE Served
  BY <1>1 DEF Served
<1>2. ASSUME NEW d \in Devices, NEW c \in Conns,
             \/ Accept(d, c) \/ FinalEnd(d, c) \/ FinalSuccess(d, c) \/ FinalFails(d, c)
             \/ FinalFinish(d, c) \/ Drop(d, c) \/ DropDenied(d, c)
             \/ \E method \in {"get", "act", "put"} : Request(d, c, method)
      PROVE  Served
  <2>1. CASE Accept(d, c)
    BY <2>1, TypeParts DEF Accept, ConnType, Connection, Served, Serving
  <2>2. CASE FinalEnd(d, c)
    BY <2>2, ServedNow DEF FinalEnd, Serving
  <2>3. CASE FinalSuccess(d, c)
    BY <2>3, ServedDissolved, ServedRestarted DEF FinalSuccess
  <2>4. CASE FinalFails(d, c)
    BY <2>4, ServedNow DEF FinalFails, Serving
  <2>5. CASE FinalFinish(d, c)
    BY <2>5, ServedDissolved DEF FinalFinish
  <2>6. CASE Drop(d, c) \/ DropDenied(d, c)
    BY <2>6, ServedClosed DEF Drop, DropDenied
  <2>7. CASE \E method \in {"get", "act", "put"} : Request(d, c, method)
    BY <2>7, ServedNow DEF Request, Serving
  <2>8. QED
    BY <1>2, <2>1, <2>2, <2>3, <2>4, <2>5, <2>6, <2>7
<1>3. ASSUME NEW d \in Devices, Client(d) \/ QueryLater(d) \/ Quit(d)
      PROVE  Served
  <2>1. CASE Query(d) \/ BeginFinish(d) \/ QueryLater(d)
    BY <1>1, <2>1 DEF Query, BeginFinish, QueryLater, vars
  <2>2. CASE Quit(d)
    BY <2>2, TypeParts DEF Quit, ConnType, Connection, Served
  <2>3. QED
    BY <1>2, <1>3, <2>1, <2>2 DEF Client
<1>4. ASSUME NEW c \in Conns, Server(c) \/ Vanish(c) \/ Exception(c)
      PROVE  Served
  <2>1. CASE InitialRefused(c)
    BY <2>1, ServedNow DEF InitialRefused, Serving
  <2>2. CASE Reply(c)
    <3>1. conn[c].due \in Serving
      BY <2>2 DEF Reply, Serving
    <3>2. QED
      BY <2>2, <3>1, ServedNow, ServedRestarted DEF Reply
  <2>3. CASE Over(c)
    BY <2>3, ServedClosed DEF Over
  <2>4. CASE Vanish(c)
    BY <2>4, TypeParts DEF Vanish, ConnType, Connection, Served
  <2>5. CASE Exception(c)
    BY <2>5, ServedClosed, ServedRestarted DEF Exception, Unwound
  <2>6. QED
    BY <1>4, <2>1, <2>2, <2>3, <2>4, <2>5 DEF Server
<1>5. CASE Crash
  BY <1>5, ServedRestarted DEF Crash
<1>6. CASE Lapse \/ Erase \/ Clear \/ Exhausted \/ UNCHANGED vars
  BY <1>1, <1>6 DEF Lapse, Erase, Clear, Exhausted, vars
<1>7. QED
  BY <1>3, <1>4, <1>5, <1>6 DEF Next

(***************************************************************************)
(* The objects stay together.                                               *)
(***************************************************************************)
LEMMA TwinsKept ==
    ASSUME Twins, Served, lcur' = acur'
    PROVE  Twins'
  BY DEF Twins, Served

LEMMA TwinsInitial ==
    ASSUME TypeOK, Twins, NEW c \in Conns, NEW n \in Seions,
           Admitted(c, n) \/ TornDown(c, n), n = lcur \/ lcur = 0
    PROVE  Twins'
<1>1. n # 0
  BY BoundAssumption DEF Seions
<1>2. CASE Admitted(c, n)
  <2>1. lcur' = n /\ acur' = n
    BY <1>1, <1>2 DEF Admitted, Twins
  <2>2. conn' = [Now(c, "open", "initial") EXCEPT ![c].lp = n, ![c].ap = n]
    BY <1>2, <2>1 DEF Admitted
  <2>3. \A b \in Conns : b # c => conn'[b] = conn[b]
    BY <2>2, TypeParts DEF ConnType, Now
  <2>4. conn'[c].lp = n /\ conn'[c].ap = n
    BY <2>2, TypeParts DEF ConnType, Connection, Now
  <2>5. QED
    BY <2>1, <2>3, <2>4 DEF Twins
<1>3. CASE TornDown(c, n)
  <2>1. lcur' = 0 /\ acur' = 0
    BY <1>3 DEF TornDown
  <2>2. conn' = [Now(c, "denied", "initial") EXCEPT ![c].lp = n]
    BY <1>3 DEF TornDown
  <2>3. \A b \in Conns : b # c => conn'[b] = conn[b]
    BY <2>2, TypeParts DEF ConnType, Now
  <2>4. conn'[c].due = "denied"
    BY <2>2, TypeParts DEF ConnType, Connection, Now
  <2>5. QED
    BY <2>1, <2>3, <2>4 DEF Twins, Serving
<1>4. QED
  BY <1>2, <1>3

LEMMA TwinsStep ==
    ASSUME TypeOK, Lockstep, Twins, [Next]_vars
    PROVE  Twins'
<1>1. ASSUME NEW c \in Conns, InitialKnown(c)
      PROVE  Twins'
  <2>1. lcur \in Seions
    BY <1>1, TypeParts DEF InitialKnown, CurType
  <2>2. QED
    BY <1>1, <2>1, TwinsInitial DEF InitialKnown
<1>2. ASSUME NEW c \in Conns, InitialNew(c)
      PROVE  Twins'
  <2>1. lcur = 0 /\ \E n \in Seions : Admitted(c, n) \/ TornDown(c, n)
    BY <1>2, NewSession DEF InitialNew
  <2>2. QED
    BY <2>1, TwinsInitial
<1>3. CASE \A c \in Conns : ~InitialKnown(c) /\ ~InitialNew(c)
  <2>1. Served
    BY <1>3, ServedStep
  <2>2. Restarted => lcur' = acur'
    BY DEF Restarted
  <2>3. ASSUME UNCHANGED <<lcur, acur>> PROVE lcur' = acur'
    BY <2>3 DEF Twins
  <2>4. ASSUME NEW c \in Conns, NEW finds, NEW told, Dissolved(c, finds, told)
        PROVE  lcur' = acur'
    BY <2>4 DEF Dissolved, Twins
  <2>5. ASSUME NEW d \in Devices, Client(d) \/ QueryLater(d) \/ Quit(d)
        PROVE  lcur' = acur'
    <3>1. ASSUME NEW c \in Conns, FinalSuccess(d, c) \/ FinalFinish(d, c)
          PROVE  lcur' = acur'
      BY <3>1, <2>2, <2>4 DEF FinalSuccess, FinalFinish
    <3>2. ASSUME NEW c \in Conns,
                 \/ Accept(d, c) \/ FinalEnd(d, c) \/ FinalFails(d, c)
                 \/ Drop(d, c) \/ DropDenied(d, c)
                 \/ \E method \in {"get", "act", "put"} : Request(d, c, method)
          PROVE  lcur' = acur'
      BY <3>2, <2>3 DEF Accept, FinalEnd, FinalFails, Drop, DropDenied, Request
    <3>3. CASE Query(d) \/ BeginFinish(d) \/ QueryLater(d) \/ Quit(d)
      BY <3>3, <2>3 DEF Query, BeginFinish, QueryLater, Quit, vars
    <3>4. QED
      BY <2>5, <3>1, <3>2, <3>3 DEF Client
  <2>6. ASSUME NEW c \in Conns, Server(c) \/ Vanish(c) \/ Exception(c)
        PROVE  lcur' = acur'
    <3>1. CASE InitialRefused(c) \/ Over(c) \/ Vanish(c)
      BY <3>1, <2>3 DEF InitialRefused, Over, Vanish
    <3>2. CASE Reply(c)
      BY <3>2, <2>2, <2>3 DEF Reply
    <3>3. CASE Exception(c)
      <4>1. ASSUME NEW finds \in BOOLEAN, Unwound(c, finds), ~Restarted
            PROVE  lcur' = acur'
        <5>1. /\ lcur' = IF finds /\ lcur # 0 /\ ldata[lcur].refer = 1 THEN 0 ELSE lcur
              /\ acur' = IF LastReference(finds) THEN 0 ELSE acur
          <6>1. CASE finds
            BY <4>1, <6>1 DEF Unwound
          <6>2. CASE ~finds
            BY <4>1, <6>2 DEF Unwound
          <6>3. QED
            BY <6>1, <6>2
        <5>2. QED
          BY <5>1 DEF Twins, Lockstep, Refer, LastReference
      <4>2. \A finds \in FindsUser(c) : finds \in BOOLEAN
        BY DEF FindsUser
      <4>3. QED
        BY <3>3, <4>1, <4>2, <2>2 DEF Exception
    <3>4. QED
      BY <1>3, <2>6, <3>1, <3>2, <3>3 DEF Server
  <2>7. ASSUME Crash PROVE lcur' = acur'
    BY <2>7, <2>2 DEF Crash
  <2>8. ASSUME Lapse \/ Erase \/ Clear \/ Exhausted \/ UNCHANGED vars
        PROVE  lcur' = acur'
    BY <2>3, <2>8 DEF Lapse, Erase, Clear, Exhausted, vars
  <2>9. lcur' = acur'
    BY <2>5, <2>6, <2>7, <2>8 DEF Next
  <2>10. QED
    BY <2>1, <2>9, TwinsKept
<1>4. QED
  BY <1>1, <1>2, <1>3

(***************************************************************************)
(* What is written and what waits to be, against what was done.             *)
(***************************************************************************)
LEMMA CountsType ==
    ASSUME TypeOK
    PROVE  /\ Waiting \in Nat /\ acd \in Nat /\ done \in Nat
           /\ \A s \in Seions : aope[s].acts \in Nat
  BY TypeParts DEF Waiting, AopeType, ActnoOpe, CurType, FileType

\* A step that only counts references, or does not touch the lists.
LEMMA WrittenSame ==
    ASSUME TypeOK, TypeOK', Clean, WrittenOnce, UNCHANGED <<acur, acd>>, done' >= done,
           \A s \in Seions : aope'[s].acts = aope[s].acts
    PROVE  Clean' /\ WrittenOnce'
<1>1. Clean'
  BY DEF Clean
<1>2. Waiting' = Waiting
  BY TypeParts DEF Waiting, CurType
<1>3. done' \in Nat
  BY TypePartsNext DEF FileType
<1>4. QED
  BY <1>1, <1>2, <1>3, CountsType DEF WrittenOnce, Waiting

\* A step after which no list is left.
LEMMA WrittenGone ==
    ASSUME TypeOK, TypeOK', Clean, WrittenOnce, done' >= done, acur' = 0,
           acd' \in {acd, acd + Waiting},
           \A s \in Seions : aope'[s].acts = 0 \/ (s # acur /\ aope'[s] = aope[s])
    PROVE  Clean' /\ WrittenOnce'
<1>1. Clean'
  BY DEF Clean
<1>2. done' \in Nat
  BY TypePartsNext DEF FileType
<1>3. acd' <= done'
  BY <1>2, CountsType DEF WrittenOnce, Waiting
<1>4. QED
  BY <1>1, <1>3, CountsType DEF WrittenOnce, Waiting

LEMMA WrittenRestarted ==
    ASSUME TypeOK, TypeOK', Clean, WrittenOnce, done' >= done, Restarted,
           acd' \in {acd, acd + Waiting}
    PROVE  Clean' /\ WrittenOnce'
<1>1. \A s \in Seions : aope'[s].acts = 0
  BY DEF Restarted, NoActions
<1>2. acur' = 0
  BY DEF Restarted
<1>3. QED
  BY <1>1, <1>2, WrittenGone

LEMMA WrittenReleased ==
    ASSUME TypeOK, TypeOK', Clean, WrittenOnce, NEW finds, Released(finds),
           UNCHANGED <<acur, acd, done>>
    PROVE  Clean' /\ WrittenOnce'
<1>1. \A s \in Seions : aope'[s].acts = aope[s].acts
  BY TypeParts DEF Released, AopeType, ActnoOpe, CurType
<1>2. done' >= done
  BY CountsType
<1>3. QED
  BY <1>1, <1>2, WrittenSame

\* A connection in service finds its user, whose list it points to.
LEMMA Found ==
    ASSUME Twins, NEW c \in Conns, conn[c].due \in Serving, conn[c].ap = acur
    PROVE  FindsUser(c) = {TRUE} /\ Listed(c) = Waiting
<1>1. conn[c].lp = lcur
  BY DEF Twins
<1>2. QED
  BY <1>1 DEF FindsUser, Listed, Waiting

LEMMA WrittenDissolved ==
    ASSUME TypeOK, TypeOK', Twins, Clean, WrittenOnce, NEW c \in Conns,
           conn[c].due = "open", NEW finds \in FindsUser(c), NEW told,
           Dissolved(c, finds, told), UNCHANGED done,
           acd' = acd \/ acd' = acd + Listed(c)
    PROVE  Clean' /\ WrittenOnce'
<1>1. done' >= done
  BY CountsType
<1>2. Listed(c) \in {0, Waiting}
  BY DEF Listed, Waiting
<1>3. CASE finds /\ acur # 0
  <2>1. aope' = [aope EXCEPT ![acur] = NoActions] /\ acur' = 0
    BY <1>3 DEF Dissolved
  <2>2. \A s \in Seions : aope'[s].acts = 0 \/ (s # acur /\ aope'[s] = aope[s])
    BY <2>1, TypeParts DEF AopeType, NoActions
  <2>3. acd' \in {acd, acd + Waiting}
    BY <1>2, CountsType
  <2>4. QED
    BY <1>1, <2>1, <2>2, <2>3, WrittenGone
<1>4. CASE ~(finds /\ acur # 0)
  <2>1. aope' = aope /\ acur' = acur
    BY <1>4 DEF Dissolved
  <2>2. Listed(c) = 0
    <3>1. CASE acur = 0
      BY <3>1 DEF Listed
    <3>2. CASE finds # TRUE
      BY <3>2, Found DEF Serving, Listed
    <3>3. finds \in BOOLEAN
      BY DEF FindsUser
    <3>4. QED
      BY <1>4, <3>1, <3>2, <3>3
  <2>3. acd' = acd
    BY <2>2, CountsType
  <2>4. QED
    BY <1>1, <2>1, <2>3, WrittenSame
<1>5. QED
  BY <1>3, <1>4

LEMMA WrittenInitial ==
    ASSUME TypeOK, TypeOK', Twins, Clean, WrittenOnce, NEW c \in Conns, NEW n \in Seions,
           Admitted(c, n) \/ TornDown(c, n), n = lcur \/ lcur = 0, UNCHANGED <<acd, done>>
    PROVE  Clean' /\ WrittenOnce'
<1>1. done' >= done
  BY CountsType
<1>2. aope \in [Seions -> [refer : Int, acts : Nat]]
  BY TypeParts DEF AopeType, ActnoOpe
<1>3. CASE TornDown(c, n)
  <2>1. acur' = 0
    BY <1>3 DEF TornDown
  <2>2. \A s \in Seions : aope'[s].acts = 0 \/ (s # acur /\ aope'[s] = aope[s])
    <3>1. CASE acur = 0
      BY <1>3, <3>1 DEF TornDown, Clean, Seions
    <3>2. CASE acur # 0
      BY <1>2, <1>3, <3>2 DEF TornDown, NoActions
    <3>3. QED
      BY <3>1, <3>2
  <2>3. QED
    BY <1>1, <2>1, <2>2, WrittenGone
<1>4. CASE Admitted(c, n) /\ acur # 0
  <2>1. acur' = acur /\ aope' = [aope EXCEPT ![acur].refer = @ + 1]
    BY <1>4 DEF Admitted
  <2>2. \A s \in Seions : aope'[s].acts = aope[s].acts
    BY <1>2, <2>1
  <2>3. QED
    BY <1>1, <2>1, <2>2, WrittenSame
<1>5. CASE Admitted(c, n) /\ acur = 0
  <2>1. acur' = n /\ aope' = [aope EXCEPT ![n].refer = 1]
    BY <1>5 DEF Admitted
  <2>2. n # 0
    BY BoundAssumption DEF Seions
  <2>3. \A s \in Seions : aope'[s].acts = aope[s].acts
    BY <1>2, <2>1
  <2>4. \A s \in Seions : aope'[s].acts = 0
    BY <1>5, <2>2, <2>3 DEF Clean, Seions
  <2>5. Clean' /\ Waiting' = 0
    BY <2>1, <2>4 DEF Clean, Waiting
  <2>6. QED
    BY <2>5, CountsType DEF WrittenOnce, Waiting
<1>6. QED
  BY <1>3, <1>4, <1>5

LEMMA WrittenReply ==
    ASSUME TypeOK, TypeOK', Twins, Clean, WrittenOnce, NEW c \in Conns, Reply(c)
    PROVE  Clean' /\ WrittenOnce'
<1>1. done' \in {done, done + 1} /\ done' >= done /\ acd' = acd
  BY CountsType DEF Reply
<1>2. CASE Restarted
  BY <1>1, <1>2, WrittenRestarted
<1>3. CASE ~Restarted /\ conn[c].ap = acur /\ conn[c].method # "get"
  <2>1. /\ acur' = acur /\ aope' = [aope EXCEPT ![acur].acts = @ + 1]
        /\ done' = done + 1
    BY <1>3 DEF Reply
  <2>2. acur \in Seions /\ acur # 0
    BY <1>3, TypeParts DEF Reply, Attached, CurType
  <2>3. /\ aope'[acur].acts = aope[acur].acts + 1
        /\ \A s \in Seions : s # acur => aope'[s] = aope[s]
    BY <2>1, <2>2, TypeParts DEF AopeType, ActnoOpe
  <2>4. Clean'
    BY <2>1, <2>3 DEF Clean
  <2>5. Waiting' = Waiting + 1
    BY <2>1, <2>2, <2>3 DEF Waiting
  <2>6. QED
    BY <1>1, <2>1, <2>4, <2>5, CountsType DEF WrittenOnce, Waiting
<1>4. CASE ~Restarted /\ ~(conn[c].ap = acur /\ conn[c].method # "get")
  <2>1. acur' = acur /\ aope' = aope
    BY <1>4 DEF Reply
  <2>2. QED
    BY <1>1, <2>1, WrittenSame
<1>5. QED
  BY <1>2, <1>3, <1>4

\* An exception handler writes the list and frees it, or neither; what a
\* PUT recorded goes to the list that is left.
LEMMA WrittenUnwound ==
    ASSUME TypeOK, TypeOK', Twins, Clean, WrittenOnce, NEW c \in Conns,
           NEW finds \in BOOLEAN, ~Unset(c, finds), Unwound(c, finds)
    PROVE  Clean' /\ WrittenOnce'
<1> DEFINE m == IF finds THEN acur ELSE 0
           putting == conn[c].due = "reply" /\ conn[c].method = "put"
           left == IF m = 0 THEN aope
                   ELSE IF aope[m].refer = 1 THEN [aope EXCEPT ![m] = NoActions]
                   ELSE [aope EXCEPT ![m].refer = @ - 1]
<1>1. /\ acd' = (IF LastReference(finds) THEN acd + Listed(c) ELSE acd) \/ acd' = acd
      /\ done' = IF putting THEN done + 1 ELSE done
  BY DEF Unwound
<1>2. Listed(c) \in {0, Waiting} /\ done' >= done
  BY <1>1, CountsType DEF Listed, Waiting
<1>3. acd' \in {acd, acd + Waiting}
  BY <1>1, <1>2, CountsType
<1>4. CASE Restarted
  BY <1>2, <1>3, <1>4, WrittenRestarted
<1>5. CASE ~Restarted
  <2>1. /\ acur' = IF LastReference(finds) THEN 0 ELSE acur
        /\ aope' = IF putting /\ acur' # 0 /\ conn[c].ap = acur'
                   THEN [left EXCEPT ![acur'].acts = @ + 1] ELSE left
    BY <1>5 DEF Unwound
  <2>2. aope \in [Seions -> [refer : Int, acts : Nat]]
    BY TypeParts DEF AopeType, ActnoOpe
  <2>3. CASE LastReference(finds)
    <3>1. acur' = 0 /\ aope' = left /\ left = [aope EXCEPT ![acur] = NoActions]
      BY <2>1, <2>3 DEF LastReference
    <3>2. \A s \in Seions : aope'[s].acts = 0 \/ (s # acur /\ aope'[s] = aope[s])
      BY <2>2, <3>1 DEF NoActions
    <3>3. QED
      BY <1>2, <1>3, <3>1, <3>2, WrittenGone
  <2>4. CASE ~LastReference(finds)
    <3>1. acur' = acur /\ acd' = acd
      BY <1>1, <2>1, <2>4
    <3>2. /\ left \in [Seions -> [refer : Int, acts : Nat]]
          /\ \A s \in Seions : left[s].acts = aope[s].acts
      BY <2>2, <2>4, TypeParts DEF LastReference, CurType
    <3> HIDE DEF left
    <3>3. CASE putting /\ acur' # 0 /\ conn[c].ap = acur'
      <4>1. /\ acur \in Seions /\ acur # 0
            /\ aope' = [left EXCEPT ![acur].acts = @ + 1]
        BY <2>1, <3>1, <3>3, TypeParts DEF CurType
      <4>2. /\ aope'[acur].acts = aope[acur].acts + 1
            /\ \A s \in Seions : s # acur => aope'[s].acts = aope[s].acts
        BY <3>2, <4>1
      <4>3. Clean' /\ Waiting' = Waiting + 1
        BY <3>1, <4>1, <4>2 DEF Clean, Waiting
      <4>4. QED
        BY <1>1, <3>1, <3>3, <4>3, CountsType DEF WrittenOnce, Waiting
    <3>4. CASE ~(putting /\ acur' # 0 /\ conn[c].ap = acur')
      <4>1. aope' = left
        BY <2>1, <3>4
      <4>2. QED
        BY <1>2, <3>1, <3>2, <4>1, WrittenSame
    <3>5. QED
      BY <3>3, <3>4
  <2>5. QED
    BY <2>3, <2>4
<1>6. QED
  BY <1>4, <1>5

LEMMA WrittenStep ==
    ASSUME ~MayFailDisk, TypeOK, TypeOK', Twins, Clean, WrittenOnce, [Next]_vars
    PROVE  Clean' /\ WrittenOnce'
<1>0. ASSUME UNCHANGED <<aope, acur, acd, done>>
      PROVE  Clean' /\ WrittenOnce'
  <2>1. done' >= done
    BY <1>0, CountsType
  <2>2. QED
    BY <1>0, <2>1, WrittenSame
<1>1. ASSUME NEW d \in Devices, Client(d) \/ QueryLater(d) \/ Quit(d)
      PROVE  Clean' /\ WrittenOnce'
  <2>1. ASSUME NEW c \in Conns,
               \/ Accept(d, c) \/ Drop(d, c) \/ DropDenied(d, c)
               \/ \E method \in {"get", "act", "put"} : Request(d, c, method)
        PROVE  Clean' /\ WrittenOnce'
    BY <1>0, <2>1 DEF Accept, Drop, DropDenied, Request
  <2>2. CASE Query(d) \/ BeginFinish(d) \/ QueryLater(d) \/ Quit(d)
    BY <1>0, <2>2 DEF Query, BeginFinish, QueryLater, Quit, vars
  <2>3. ASSUME NEW c \in Conns, FinalEnd(d, c)
        PROVE  Clean' /\ WrittenOnce'
    BY <2>3, WrittenReleased DEF FinalEnd
  <2>4. ASSUME NEW c \in Conns, FinalSuccess(d, c)
        PROVE  Clean' /\ WrittenOnce'
    <3>1. CASE Restarted /\ UNCHANGED <<acd, done>>
      BY <3>1, WrittenRestarted, CountsType
    <3>2. CASE ~(Restarted /\ UNCHANGED <<acd, done>>)
      BY <2>4, <3>2, WrittenDissolved DEF FinalSuccess
    <3>3. QED
      BY <3>1, <3>2
  <2>5. ASSUME NEW c \in Conns, FinalFinish(d, c)
        PROVE  Clean' /\ WrittenOnce'
    BY <2>5, WrittenDissolved DEF FinalFinish
  <2>6. \A c \in Conns : ~FinalFails(d, c)
    BY DEF FinalFails
  <2>7. QED
    BY <1>1, <2>1, <2>2, <2>3, <2>4, <2>5, <2>6 DEF Client
<1>2. ASSUME NEW c \in Conns, Server(c) \/ Vanish(c) \/ Exception(c)
      PROVE  Clean' /\ WrittenOnce'
  <2>1. CASE InitialKnown(c)
    <3>1. lcur \in Seions
      BY <2>1, TypeParts DEF InitialKnown, CurType
    <3>2. QED
      BY <2>1, <3>1, WrittenInitial DEF InitialKnown
  <2>2. CASE InitialNew(c)
    <3>1. lcur = 0 /\ \E n \in Seions : Admitted(c, n) \/ TornDown(c, n)
      BY <2>2, NewSession DEF InitialNew
    <3>2. UNCHANGED <<acd, done>>
      BY <2>2 DEF InitialNew
    <3>3. QED
      BY <3>1, <3>2, WrittenInitial
  <2>3. CASE InitialRefused(c) \/ Over(c) \/ Vanish(c)
    BY <1>0, <2>3 DEF InitialRefused, Over, Vanish
  <2>4. CASE Exception(c)
    <3>1. CASE Restarted /\ UNCHANGED <<acct, acd, done>>
      BY <3>1, WrittenRestarted, CountsType
    <3>2. \A finds \in FindsUser(c) : finds \in BOOLEAN
      BY DEF FindsUser
    <3>3. QED
      BY <2>4, <3>1, <3>2, WrittenUnwound DEF Exception
  <2>5. QED
    BY <1>2, <2>1, <2>2, <2>3, <2>4, WrittenReply DEF Server
<1>3. CASE Crash
  BY <1>3, WrittenRestarted, CountsType DEF Crash
<1>4. CASE Lapse \/ Erase \/ Clear \/ Exhausted \/ UNCHANGED vars
  BY <1>0, <1>4 DEF Lapse, Erase, Clear, Exhausted, vars
<1>5. QED
  BY <1>1, <1>2, <1>3, <1>4 DEF Next

(***************************************************************************)
(* With disks that hold, an action is in the data file or in the list that  *)
(* will be written, and in neither more often than it was carried out:      *)
(* whatever connections, leases, requests and processes do, and however     *)
(* devices race.  A handler that writes the list also frees it, because the *)
(* object it points to and the object it finds belong to one session.       *)
(***************************************************************************)
THEOREM WrittenOnceCorrect == ~MayFailDisk => (Spec => []WrittenOnce)
<1> SUFFICES ASSUME ~MayFailDisk PROVE Spec => []WrittenOnce
  OBVIOUS
<1> DEFINE WInv == Twins /\ Clean /\ WrittenOnce
<1>1. Init => WInv
  BY DEF Init, Twins, Clean, WrittenOnce, Waiting, Serving, Asleep, NoActions
<1>2. TypeOK /\ TypeOK' /\ Lockstep /\ WInv /\ [Next]_vars => WInv'
  BY TwinsStep, WrittenStep
<1>3. QED
  BY <1>1, <1>2, TypeCorrect, LockstepCorrect, PTL DEF Spec

(***************************************************************************)
(* The faults a property can do without.  Nothing takes the account from    *)
(* the device that has it; the disk takes what is written and the process   *)
(* lives; a request to the cache is executed once, and the server remembers.*)
(***************************************************************************)
Exclusive == ~MayRace /\ ~MayVanish /\ ~MayLapse /\ ~MayClear
Careful == ~MayFailDisk /\ ~MayCrash
Prompt == ~MayLose /\ ~MayRepeat /\ ~MayCrash

\* Connections are devices', an idle device has none, a finishing one has one.
Manned ==
    /\ \A c \in Active : conn[c].owner \in Devices /\ dev[conn[c].owner].pc # "idle"
    /\ \A b, c \in Active : conn[b].owner = conn[c].owner
                            /\ dev[conn[b].owner].pc = "finish" => b = c

Single == \A d, e \in Devices : Live(d) /\ Live(e) => d = e

Calm ==
    \A d \in Devices : Live(d)' =>
        /\ Live(d)
        /\ dev'[d].valid = dev[d].valid /\ dev'[d].seion = dev[d].seion
        /\ dev[d].put => dev'[d].put

\* A connection that is not waiting for its last response has a live device.
LEMMA MannedLive ==
    ASSUME Manned, NEW c \in Active, conn[c].due # "over"
    PROVE  conn[c].owner \in Devices /\ Live(conn[c].owner)
  BY DEF Manned, Live, Leaving, Active

(***************************************************************************)
(* The ways in which devices and connections change.                        *)
(***************************************************************************)
\* A connection goes on.
LEMMA ShapeGoes ==
    ASSUME TypeOK, Manned, Single, NEW c \in Conns,
           conn[c].due \notin {"sleep", "over"},
           conn'[c].due # "sleep", conn'[c].owner = conn[c].owner,
           \A b \in Conns : b # c => conn'[b] = conn[b],
           \A d \in Devices : /\ dev'[d].pc = dev[d].pc /\ dev'[d].valid = dev[d].valid
                              /\ dev'[d].seion = dev[d].seion
                              /\ dev[d].put => dev'[d].put
    PROVE  Manned' /\ Single' /\ Calm
<1>1. \A b \in Conns : conn'[b].owner = conn[b].owner
                       /\ (conn'[b].due = "sleep" <=> conn[b].due = "sleep")
  OBVIOUS
<1>2. Active' = Active
  BY <1>1 DEF Active
<1>3. Manned'
  BY <1>1, <1>2 DEF Manned, Active
<1>4. \A d \in Devices : Live(d)' => Live(d)
  BY <1>1 DEF Live, Leaving
<1>5. QED
  BY <1>3, <1>4 DEF Single, Calm

\* A connection opens.
LEMMA ShapeOpens ==
    ASSUME TypeOK, Manned, Single, NEW d \in Devices, NEW c \in Conns, Accept(d, c)
    PROVE  Manned' /\ Single' /\ Calm
<1>1. /\ conn'[c].due = "hello" /\ conn'[c].owner = d /\ conn[c].due = "sleep"
      /\ \A b \in Conns : b # c => conn'[b] = conn[b]
  BY TypeParts DEF Accept, ConnType, Connection
<1>2. /\ dev[d].pc = "ready" \/ (dev[d].pc = "finish" /\ Owned(d) = {})
      /\ \A e \in Devices : /\ dev'[e].pc = dev[e].pc /\ dev'[e].valid = dev[e].valid
                            /\ dev'[e].seion = dev[e].seion /\ dev'[e].put = dev[e].put
  BY TypeParts DEF Accept, DevType, Device
<1>3. \A b \in Conns : b # c => (b \in Active' <=> b \in Active)
  BY <1>1 DEF Active
<1>4. c \notin Active /\ c \in Active'
  BY <1>1 DEF Active
<1>5. Manned'
  <2>1. \A b \in Active' : conn'[b].owner \in Devices /\ dev'[conn'[b].owner].pc # "idle"
    BY <1>1, <1>2, <1>3 DEF Manned, Active
  <2>2. ASSUME NEW a \in Active', NEW b \in Active', conn'[a].owner = conn'[b].owner,
               dev'[conn'[a].owner].pc = "finish"
        PROVE  a = b
    <3>1. CASE a # c /\ b # c
      BY <1>1, <1>2, <1>3, <2>2, <3>1 DEF Manned, Active
    <3>2. ASSUME NEW e \in Active, e # c, conn'[e].owner = d PROVE dev'[d].pc # "finish"
      BY <1>1, <1>2, <3>2 DEF Owned, Active
    <3>3. QED
      BY <1>1, <1>3, <1>4, <2>2, <3>1, <3>2 DEF Active
  <2>3. QED
    BY <2>1, <2>2 DEF Manned
<1>6. \A e \in Devices : Live(e)' => Live(e)
  BY <1>1, <1>2 DEF Live, Leaving
<1>7. QED
  BY <1>2, <1>5, <1>6 DEF Single, Calm

\* A connection closes; its device may become idle if it has no other.
LEMMA ShapeCloses ==
    ASSUME TypeOK, Manned, Single, NEW c \in Active, NEW d \in Devices,
           conn[c].owner = d, conn' = Closed(c),
           \/ UNCHANGED dev /\ dev[d].pc # "finish"
           \/ dev' = [dev EXCEPT ![d] = Idle] /\ Owned(d) = {c}
    PROVE  Manned' /\ Single' /\ Calm
<1>0. c \in Conns
  BY DEF Active
<1>1. conn'[c].due = "sleep" /\ \A b \in Conns : b # c => conn'[b] = conn[b]
  BY <1>0, TypeParts DEF ConnType, Connection, Closed
<1>2. Active' = Active \ {c}
  BY <1>1 DEF Active
<1>3. \A e \in Devices : e # d => dev'[e] = dev[e]
  BY TypeParts DEF DevType
<1>4. CASE UNCHANGED dev /\ dev[d].pc # "finish"
  <2>1. Manned'
    BY <1>1, <1>2, <1>4 DEF Manned, Active
  <2>2. \A e \in Devices : Live(e)' => Live(e)
    BY <1>0, <1>1, <1>4 DEF Live, Leaving
  <2>3. QED
    BY <1>4, <2>1, <2>2 DEF Single, Calm
<1>5. CASE dev' = [dev EXCEPT ![d] = Idle] /\ Owned(d) = {c}
  <2>1. \A b \in Active' : conn[b].owner # d
    BY <1>2, <1>5 DEF Owned
  <2>2. \A b \in Active' : conn'[b] = conn[b] /\ b \in Active
    BY <1>1, <1>2 DEF Active
  <2>3. Manned'
    BY <1>3, <2>1, <2>2 DEF Manned
  <2>4. dev'[d].pc = "idle"
    BY <1>5, TypeParts DEF DevType, Idle
  <2>5. \A e \in Devices : Live(e)' => Live(e) /\ e # d
    BY <1>0, <1>1, <1>3, <2>4 DEF Live, Leaving
  <2>6. QED
    BY <1>3, <2>3, <2>5 DEF Single, Calm
<1>6. QED
  BY <1>4, <1>5

\* Every worker is done.
LEMMA ShapeFinishes ==
    ASSUME TypeOK, Manned, Single, NEW d \in Devices, BeginFinish(d)
    PROVE  Manned' /\ Single' /\ Calm
<1>1. /\ \A e \in Devices : e # d => dev'[e] = dev[e]
      /\ dev[d].pc = "ready" /\ dev'[d].pc = "finish"
      /\ dev'[d].valid = dev[d].valid /\ dev'[d].seion = dev[d].seion
      /\ dev'[d].put = dev[d].put
  BY TypeParts DEF BeginFinish, DevType, Device
<1>2. UNCHANGED conn /\ Active' = Active /\ \A c \in Active : conn[c].owner # d
  BY DEF BeginFinish, Active, Owned
<1>3. Manned'
  BY <1>1, <1>2 DEF Manned
<1>4. \A e \in Devices : Live(e)' => Live(e)
  BY <1>1, <1>2 DEF Live, Leaving
<1>5. QED
  BY <1>1, <1>3, <1>4 DEF Single, Calm

\* A device gets an answer; nobody else has one.
LEMMA ShapeQueries ==
    ASSUME TypeOK, Manned, Single, NEW d \in Devices, Query(d), lcur = 0, ~MayRace
    PROVE  /\ Manned' /\ Single'
           /\ \A e \in Devices : Live(e)' => e = d
           /\ dev'[d].valid = acct.valid /\ dev'[d].seion = acct.seion
<1>1. /\ dev[d].pc = "idle" /\ dev'[d].pc = "ready"
      /\ dev'[d].valid = acct.valid /\ dev'[d].seion = acct.seion
      /\ \A e \in Devices : e # d => dev'[e] = dev[e]
  BY TypeParts DEF Query, DevType
<1>2. UNCHANGED conn /\ Active' = Active
  BY DEF Query, Active
<1>3. Manned'
  BY <1>1, <1>2 DEF Manned
<1>4. ASSUME NEW e \in Devices, e # d PROVE ~Live(e)'
  <2>1. \/ dev[e].pc = "idle"
        \/ dev[e].pc = "finish" /\ \E c \in Owned(e) : conn[c].due = "over"
    BY <1>4 DEF Query, Unraced
  <2>2. QED
    BY <1>1, <1>2, <1>4, <2>1 DEF Live, Leaving, Owned, Active
<1>5. QED
  BY <1>1, <1>3, <1>4 DEF Single

(***************************************************************************)
(* The session: the cache, the server and the device that is live agree.    *)
(* An account may be locked and no session be there: its unlocking was lost,*)
(* or the process died.  Then the answers given out are good for nothing.   *)
(***************************************************************************)
Settled ==
    /\ lcur # 0 => acct.locked /\ lcur < acct.seion
    /\ ~acct.lapsed

Answered ==
    /\ \A d \in Devices : Live(d) =>
          /\ dev[d].valid <= acct.valid /\ dev[d].seion <= acct.seion
          /\ lcur # 0 => dev[d].valid = acct.valid /\ dev[d].seion = lcur
          /\ lcur = 0 /\ acct.locked /\ dev[d].valid = acct.valid
             => dev[d].seion < acct.seion
    /\ lcur # 0 => ldata[lcur].valid = acct.valid

\* The cached anchor is the last one, or the session that ends says it.  A
\* session nobody can end any more says nothing.
Steered == lcur # 0 /\ \E d \in Devices : Live(d)
Coherent ==
    /\ (~acct.locked \/ Steered) /\ acct.cached # 0 => acct.cached = idx
    /\ Steered /\ ~ldata[lcur].cached => ldata[lcur].anchor = idx
    /\ Steered => (ldata[lcur].cached <=> acct.cached # 0)

(***************************************************************************)
(* What a live device has not changed is not in the list.                   *)
(***************************************************************************)
Counted ==
    /\ \A c \in Conns : conn[c].due = "reply" /\ conn[c].method # "get"
                        => dev[conn[c].owner].put
    /\ \A d \in Devices : Live(d) /\ ~dev[d].put => Waiting = 0

(***************************************************************************)
(* The account is locked for a session that is there, and counted once; the *)
(* answer of a device that is not in service yet is the last one.           *)
(***************************************************************************)
Tallied ==
    /\ acct.locked => lcur # 0
    /\ ServerCount
    /\ lcur = 0 => \A d \in Devices : Live(d) /\ dev[d].valid = acct.valid
                                      => dev[d].seion = acct.seion

(***************************************************************************)
(* The inductive invariant, and what a step shows of what rests on it.      *)
(***************************************************************************)
Order ==
    /\ Manned /\ Single /\ Settled /\ Answered /\ Coherent
    /\ NoDangling /\ ReferCovers
OInv == TypeOK /\ Twins /\ Order

Counting == Counted' /\ (Lost' = Lost \/ GivesUp)

CountedOn == Careful /\ Clean /\ Counted => Counting
TalliedOn == Prompt /\ Tallied => Tallied'
TurnedOn == Clean => Clean' /\ [Stay!Next]_(Stay!vars)
Onward == Order' /\ CountedOn /\ TalliedOn /\ TurnedOn

(***************************************************************************)
(* What a request to the cache leaves of a locked account: it is executed,  *)
(* and a second time without effect, or lost.                               *)
(***************************************************************************)
LEMMA SetAnchorFields ==
    ASSUME NEW a \in Account, a.locked, NEW anchor \in Nat,
           NEW b, b = AfterSetAnchor(a, a.valid, anchor)
    PROVE  /\ ~b.locked /\ ~b.lapsed /\ b.refer = a.refer - 1
           /\ b.valid = a.valid + 1 /\ b.seion = a.seion
           /\ b.cached = IF anchor = 0 THEN a.cached ELSE anchor
  BY DEF Account, AfterSetAnchor

LEMMA UnlockFields ==
    ASSUME NEW a \in Account, a.locked, NEW b, b = AfterUnlock(a, a.valid)
    PROVE  /\ ~b.locked /\ ~b.lapsed /\ b.refer = a.refer - 1
           /\ b.valid = a.valid + 1 /\ b.seion = a.seion /\ b.cached = a.cached
  BY DEF Account, AfterUnlock

LEMMA SetAnchorOnce ==
    ASSUME AcctType, acct.locked, NEW anchor \in Nat,
           acct' \in SetAnchor(acct.valid, anchor)
    PROVE  \/ MayLose /\ acct' = acct
           \/ acct' = AfterSetAnchor(acct, acct.valid, anchor)
<1> DEFINE once == AfterSetAnchor(acct, acct.valid, anchor)
<1>1. acct \in Account /\ acct.valid \in Nat
  BY AccountFields DEF AcctType
<1>2. once.valid = acct.valid + 1
  BY <1>1, SetAnchorFields
<1>3. AfterSetAnchor(once, acct.valid, anchor) = once
  <2> HIDE DEF once
  <2> QED
    BY <1>1, <1>2 DEF AfterSetAnchor
<1>4. acct' \in Sent(acct, once, AfterSetAnchor(once, acct.valid, anchor))
  BY DEF SetAnchor
<1>5. QED
  BY <1>3, <1>4 DEF Sent

LEMMA UnlockOnce ==
    ASSUME AcctType, acct.locked, acct' \in Unlock(acct.valid)
    PROVE  \/ MayLose /\ acct' = acct
           \/ acct' = AfterUnlock(acct, acct.valid)
<1> DEFINE once == AfterUnlock(acct, acct.valid)
<1>1. acct \in Account /\ acct.valid \in Nat
  BY AccountFields DEF AcctType
<1>2. once.valid = acct.valid + 1
  BY <1>1, UnlockFields
<1>3. AfterUnlock(once, acct.valid) = once
  <2> HIDE DEF once
  <2> QED
    BY <1>1, <1>2 DEF AfterUnlock
<1>4. acct' \in Sent(acct, once, AfterUnlock(once, acct.valid))
  BY DEF Unlock
<1>5. QED
  BY <1>3, <1>4 DEF Sent

LEMMA StatusFields ==
    ASSUME NEW a \in Account, NEW v, v = a.valid, NEW b, b = AfterStatus(a, v)
    PROVE  /\ b.locked /\ ~b.lapsed /\ b.refer = a.refer + 1
           /\ b.valid = a.valid /\ b.seion = a.seion + 1 /\ b.cached = a.cached
           /\ b \in Account
  BY StatusType DEF Account, AfterStatus

LEMMA StartedCached == \A a, v : Started(a, v).cached <=> a.cached # 0
  BY Zenon DEF Started

LEMMA RecreatedFields ==
    ASSUME NEW a \in Account, NEW b, b = Recreated(a)
    PROVE  /\ ~b.locked /\ ~b.lapsed /\ b.refer = a.refer
           /\ b.valid = a.valid + 1 /\ b.seion = a.seion + 1 /\ b.cached = 0
  BY DEF Account, Recreated, NewAccount

LEMMA KeepAliveFields ==
    ASSUME NEW a \in Account, NEW v, NEW b, b = AfterKeepAlive(a, v), ~a.lapsed
    PROVE  /\ b.locked = a.locked /\ ~b.lapsed /\ b.refer = a.refer
           /\ b.valid = a.valid /\ b.seion = a.seion /\ b.cached = a.cached
  BY DEF Account, AfterKeepAlive

(***************************************************************************)
(* What a step leaves alone.                                                *)
(***************************************************************************)
Account5 == <<acct.valid, acct.seion, acct.locked, acct.refer, acct.cached>>

\* The session goes on as it is, or there is none.
LEMMA SessionKept ==
    ASSUME Calm, Settled, Answered, Coherent, UNCHANGED <<Account5, lcur, idx>>,
           ~acct'.lapsed,
           lcur # 0 => /\ ldata'[lcur].valid = ldata[lcur].valid
                       /\ ldata'[lcur].cached = ldata[lcur].cached
                       /\ ldata'[lcur].anchor = ldata[lcur].anchor
    PROVE  Settled' /\ Answered' /\ Coherent'
<1> USE DEF Account5
<1>1. Settled'
  BY DEF Settled
<1>2. Answered'
  BY DEF Answered, Calm
<1>3. Coherent'
  <2>1. Steered' => Steered
    BY DEF Steered, Calm
  <2>2. QED
    BY <2>1 DEF Coherent, Steered
<1>4. QED
  BY <1>1, <1>2, <1>3

LEMMA TalliedKept ==
    ASSUME Calm, Tallied, UNCHANGED <<Account5, lcur>>
    PROVE  Tallied'
  BY DEF Tallied, Calm, ServerCount, Account5

LEMMA CountedKept ==
    ASSUME Calm, Counted, UNCHANGED <<acd, done, Waiting>>,
           \A c \in Conns : conn'[c].due = "reply" /\ conn'[c].method # "get"
                            => dev'[conn'[c].owner].put
    PROVE  Counting
<1>1. Lost' = Lost
  BY DEF Lost
<1>2. QED
  BY <1>1 DEF Counting, Counted, Calm

LEMMA WaitingKept ==
    ASSUME UNCHANGED acur, acur # 0 => aope'[acur].acts = aope[acur].acts
    PROVE  Waiting' = Waiting
  BY DEF Waiting

LEMMA DanglingKept ==
    ASSUME NoDangling, Served, UNCHANGED <<lcur, acur>>
    PROVE  NoDangling'
  BY DEF NoDangling, Served, Serving, Holders

\* Who is inside is alone; when the session ends, nobody is.
LEMMA InsideOne ==
    ASSUME OInv, NEW d \in Devices, Live(d), lcur # 0
    PROVE  Inside = {d}
  BY DEF OInv, Order, Single, Inside

LEMMA InsideNone ==
    ASSUME OInv
    PROVE  /\ lcur = 0 => Inside = {} /\ Waiting = 0
           /\ Inside = {} \/ \E d \in Devices : Inside = {d}
  BY InsideOne DEF Inside, Waiting, OInv, Twins

LEMMA CleanKept ==
    ASSUME Clean, UNCHANGED acur, \A s \in Seions : aope'[s].acts = aope[s].acts
    PROVE  Clean'
  BY DEF Clean

\* For Tenure nothing happens, or the device that is inside gives up.
LEMMA TurnKept ==
    ASSUME OInv, Calm, UNCHANGED <<Account5, lcur, acur, idx, acd>>,
           \A s \in Seions : aope'[s].acts = aope[s].acts
    PROVE  TurnedOn
<1> SUFFICES ASSUME Clean PROVE Clean' /\ [Stay!Next]_(Stay!vars)
  BY DEF TurnedOn
<1>1. Clean'
  BY CleanKept
<1>2. UNCHANGED <<acct.locked, acct.cached, Waiting, acd, idx>>
  BY TypeParts DEF Account5, Waiting, OInv, CurType
<1>3. Inside' \subseteq Inside
  BY DEF Inside, Calm
<1>4. CASE Inside' = Inside
  BY <1>1, <1>2, <1>4 DEF Stay!vars
<1>5. CASE Inside' # Inside
  <2>1. PICK d \in Devices : Inside = {d} /\ Inside' = {}
    BY <1>3, <1>5, InsideNone
  <2>2. Stay!Fail(d)
    BY <1>2, <2>1 DEF Stay!Fail
  <2>3. QED
    BY <1>1, <2>2 DEF Stay!Next
<1>6. QED
  BY <1>4, <1>5

\* The cache locks the account, and there is no session.
LEMMA TurnMissed ==
    ASSUME OInv, TypeOK', lcur = 0, lcur' = 0, acur' = 0, acct'.locked,
           UNCHANGED <<acct.cached, aope, idx, acd>>
    PROVE  TurnedOn
<1> SUFFICES ASSUME Clean PROVE Clean' /\ [Stay!Next]_(Stay!vars)
  BY DEF TurnedOn
<1>1. acur = 0 /\ Clean'
  BY DEF OInv, Twins, Clean
<1>2. UNCHANGED <<Inside, Waiting>>
  BY <1>1 DEF Inside, Waiting
<1>3. acct.locked \in BOOLEAN /\ acct'.locked = TRUE
  BY TypeParts, TypePartsNext DEF OInv, AcctType, Account
<1>4. CASE acct.locked
  BY <1>1, <1>2, <1>3, <1>4 DEF Stay!vars
<1>5. CASE ~acct.locked
  BY <1>1, <1>2, <1>3, <1>5 DEF Stay!Next, Stay!Miss
<1>6. QED
  BY <1>4, <1>5

\* Every connection in service counts, and none without a session.
LEMMA HoldersFinite ==
    IsFiniteSet(Holders) /\ Cardinality(Holders) \in Nat
<1>1. Holders \subseteq Conns /\ IsFiniteSet(Conns)
  BY SetAssumption DEF Holders
<1>2. QED
  BY <1>1, FS_Subset, FS_CardinalityType

Covering ==
    /\ lcur = 0 => Holders = {} /\ ReferCovers
    /\ lcur # 0 => (ReferCovers <=> ldata[lcur].refer >= Cardinality(Holders))

LEMMA CoversMeaning == TypeOK /\ NoDangling => Covering
<1> SUFFICES ASSUME TypeOK, NoDangling PROVE Covering
  OBVIOUS
<1> USE DEF Covering
<1>1. \A c \in Holders : conn[c].lp = lcur /\ lcur # 0
  BY TypeParts DEF NoDangling, Holders, Attached
<1>2. {c \in Holders : conn[c].lp = lcur} = Holders
  BY <1>1
<1>3. CASE lcur = 0
  <2>1. Holders = {}
    BY <1>1, <1>3
  <2>2. Cardinality({}) = 0
    BY FS_EmptySet
  <2>3. QED
    BY <1>2, <1>3, <2>1, <2>2 DEF ReferCovers, Refer
<1>4. CASE lcur # 0
  BY <1>2, <1>4 DEF ReferCovers, Refer
<1>5. QED
  BY <1>3, <1>4

\* The same after a step.
LEMMA CoversMeaningNext == TypeOK' /\ NoDangling' => Covering'
  BY CoversMeaning, PTL

LEMMA CoversKept ==
    ASSUME TypeOK, TypeOK', NoDangling, NoDangling', ReferCovers,
           Holders' \subseteq Holders, UNCHANGED lcur,
           lcur # 0 => ldata'[lcur].refer = ldata[lcur].refer
    PROVE  ReferCovers'
<1>1. CASE lcur = 0
  BY <1>1, CoversMeaningNext DEF Covering
<1>2. CASE lcur # 0
  <2>1. ldata[lcur].refer >= Cardinality(Holders)
    BY <1>2, CoversMeaning DEF Covering
  <2>2. Cardinality(Holders') <= Cardinality(Holders) /\ Cardinality(Holders') \in Nat
    BY HoldersFinite, FS_Subset, FS_CardinalityType
  <2>3. ldata[lcur].refer \in Int
    BY <1>2, TypeParts DEF LdataType, ListData, CurType
  <2>4. ldata'[lcur'].refer >= Cardinality(Holders')
    BY <1>2, <2>1, <2>2, <2>3, HoldersFinite
  <2>5. QED
    BY <1>2, <2>4, CoversMeaningNext DEF Covering
<1>3. QED
  BY <1>1, <1>2

(***************************************************************************)
(* Each step.                                                               *)
(***************************************************************************)
\* A connection in service uses the objects of the session, which is known to
\* its device.
LEMMA InService ==
    ASSUME OInv, NEW c \in Holders
    PROVE  /\ conn[c].lp = lcur /\ conn[c].ap = acur /\ lcur = acur
           /\ lcur \in Seions /\ lcur # 0 /\ FindsUser(c) = {TRUE}
           /\ Listed(c) = Waiting /\ c \in Conns /\ c \in Active
           /\ conn[c].owner \in Devices /\ Live(conn[c].owner)
           /\ ldata[lcur].valid = acct.valid /\ acct.locked
<1>1. conn[c].lp = lcur /\ conn[c].ap = acur /\ c \in Conns
  BY DEF OInv, Order, NoDangling, Holders
<1>2. lcur # 0 /\ lcur \in Seions /\ lcur = acur
  BY <1>1, TypeParts DEF OInv, Attached, Holders, CurType, Twins
<1>3. c \in Active /\ conn[c].due # "over"
  BY DEF Holders, Active
<1>4. conn[c].owner \in Devices /\ Live(conn[c].owner)
  BY <1>3, MannedLive DEF OInv, Order
<1>5. FindsUser(c) = {TRUE} /\ Listed(c) = Waiting
  BY <1>1 DEF FindsUser, Listed, Waiting
<1>6. QED
  BY <1>1, <1>2, <1>3, <1>4, <1>5 DEF OInv, Order, Answered, Settled

\* What a connection becomes.
LEMMA NowFields ==
    ASSUME ConnType, NEW c \in Conns, NEW due, NEW method, conn' = Now(c, due, method)
    PROVE  /\ conn'[c].due = due /\ conn'[c].method = method
           /\ conn'[c].owner = conn[c].owner
           /\ conn'[c].lp = conn[c].lp /\ conn'[c].ap = conn[c].ap
           /\ \A b \in Conns : b # c => conn'[b] = conn[b]
<1>1. conn' = [conn EXCEPT ![c] = [conn[c] EXCEPT !.due = due, !.method = method]]
  BY DEF ConnType, Now
<1>2. QED
  BY <1>1 DEF ConnType, Connection

\* Steps that leave the session and its counts alone.
LEMMA OrderIdle ==
    ASSUME TypeOK', OInv, Manned', Single', Calm, Served,
           Holders' \subseteq Holders,
           UNCHANGED <<Account5, lcur, acur, idx, acd, done>>, ~acct'.lapsed,
           UNCHANGED <<ldata, aope>>,
           Counted => \A c \in Conns : conn'[c].due = "reply" /\ conn'[c].method # "get"
                                       => dev'[conn'[c].owner].put
    PROVE  Onward
<1>1. Settled' /\ Answered' /\ Coherent'
  BY SessionKept DEF OInv, Order
<1>2. CountedOn
  BY CountedKept, WaitingKept DEF CountedOn
<1>3. NoDangling'
  BY DanglingKept DEF OInv, Order
<1>4. ReferCovers'
  BY <1>3, CoversKept DEF OInv, Order
<1>5. TalliedOn
  BY TalliedKept DEF TalliedOn
<1>6. TurnedOn
  BY TurnKept
<1>7. QED
  BY <1>1, <1>2, <1>3, <1>4, <1>5, <1>6 DEF Order, Onward

\* Replies stay due to devices that put something.
LEMMA PutKept ==
    ASSUME OInv, Counted, Calm, NEW c \in Conns, NEW b \in Conns, b # c, conn'[b] = conn[b],
           conn'[b].due = "reply", conn'[b].method # "get",
           \A d \in Devices : dev[d].put => dev'[d].put \/ Owned(d) = {c}
    PROVE  dev'[conn'[b].owner].put
<1>1. dev[conn[b].owner].put /\ conn[b].owner \in Devices
  BY DEF OInv, Order, Counted, Manned, Active
<1>2. b \in Owned(conn[b].owner)
  BY DEF Owned, Active
<1>3. QED
  BY <1>1, <1>2

LEMMA OrderRequest ==
    ASSUME TypeOK', OInv, NEW d \in Devices, NEW c \in Conns,
           NEW method \in {"get", "act", "put"}, Request(d, c, method)
    PROVE  Onward
<1>1. /\ conn'[c].due = "reply" /\ conn'[c].method = method /\ conn'[c].owner = d
      /\ conn[c].due = "open" /\ conn[c].owner = d
      /\ \A b \in Conns : b # c => conn'[b] = conn[b]
  BY NowFields, TypeParts DEF OInv, Request
<1>2. /\ \A e \in Devices : /\ dev'[e].pc = dev[e].pc /\ dev'[e].valid = dev[e].valid
                            /\ dev'[e].seion = dev[e].seion
                            /\ dev[e].put => dev'[e].put
      /\ method # "get" => dev'[d].put
  BY TypeParts DEF OInv, Request, DevType, Device
<1>3. Manned' /\ Single' /\ Calm
  BY <1>1, <1>2, ShapeGoes DEF OInv, Order
<1>4. Served /\ Holders' \subseteq Holders
  <2>1. conn[c].due \in Serving
    BY <1>1 DEF Serving
  <2>2. QED
    BY <1>1, <2>1, ServedNow DEF OInv, Request, Served, Serving, Holders
<1>5. UNCHANGED Account5 /\ ~acct'.lapsed
  <2>1. acct \in Account /\ ~acct.lapsed
    BY TypeParts DEF OInv, Order, Settled, AcctType
  <2>2. QED
    BY <2>1, KeepAliveFields DEF Request, Account5
<1>6. ASSUME Counted
      PROVE  \A b \in Conns : conn'[b].due = "reply" /\ conn'[b].method # "get"
                              => dev'[conn'[b].owner].put
  <2>1. \A b \in Conns : b # c /\ conn'[b].due = "reply" /\ conn'[b].method # "get"
                         => dev'[conn'[b].owner].put
    BY <1>1, <1>2, <1>3, <1>6, PutKept
  <2>2. QED
    BY <1>1, <1>2, <2>1
<1>7. QED
  BY <1>3, <1>4, <1>5, <1>6, OrderIdle DEF Request

LEMMA OrderAccept ==
    ASSUME TypeOK', OInv, NEW d \in Devices, NEW c \in Conns, Accept(d, c)
    PROVE  Onward
<1>1. Manned' /\ Single' /\ Calm
  BY ShapeOpens DEF OInv, Order
<1>2. /\ conn'[c].due = "hello"
      /\ \A b \in Conns : b # c => conn'[b] = conn[b]
  BY TypeParts DEF OInv, Accept, ConnType, Connection
<1>3. Served /\ Holders' \subseteq Holders
  BY <1>2 DEF Served, Serving, Holders
<1>4. \A e \in Devices : dev'[e].put = dev[e].put
  BY TypeParts DEF OInv, Accept, DevType, Device
<1>5. ASSUME Counted
      PROVE  \A b \in Conns : conn'[b].due = "reply" /\ conn'[b].method # "get"
                              => dev'[conn'[b].owner].put
  BY <1>5, <1>1, <1>2, <1>4, PutKept
<1>6. QED
  BY <1>1, <1>3, <1>5, OrderIdle DEF Accept, OInv, Order, Settled, Account5

\* A connection closes.
LEMMA OrderCloses ==
    ASSUME TypeOK', OInv, NEW c \in Active, NEW d \in Devices,
           conn[c].owner = d, conn' = Closed(c),
           \/ UNCHANGED dev /\ dev[d].pc # "finish"
           \/ dev' = [dev EXCEPT ![d] = Idle] /\ Owned(d) = {c},
           UNCHANGED <<acct, ldata, lcur, aope, acur, idx, acd, done>>
    PROVE  Onward
<1>0. c \in Conns
  BY DEF Active
<1>1. Manned' /\ Single' /\ Calm
  BY ShapeCloses DEF OInv, Order
<1>2. conn'[c].due = "sleep" /\ \A b \in Conns : b # c => conn'[b] = conn[b]
  BY <1>0, TypeParts DEF OInv, ConnType, Connection, Closed
<1>3. Served /\ Holders' \subseteq Holders
  BY <1>2 DEF Served, Serving, Holders
<1>4. \A e \in Devices : dev[e].put => dev'[e].put \/ Owned(e) = {c}
  BY TypeParts DEF OInv, DevType
<1>5. ASSUME Counted
      PROVE  \A b \in Conns : conn'[b].due = "reply" /\ conn'[b].method # "get"
                              => dev'[conn'[b].owner].put
  BY <1>5, <1>0, <1>1, <1>2, <1>4, PutKept
<1>6. QED
  BY <1>1, <1>3, <1>5, OrderIdle DEF OInv, Order, Settled, Account5

LEMMA OrderDrop ==
    ASSUME TypeOK', OInv, NEW d \in Devices, NEW c \in Conns, Drop(d, c)
    PROVE  Onward
<1>1. c \in Active /\ conn[c].owner = d /\ conn' = Closed(c)
  BY DEF Drop, Active
<1>2. UNCHANGED dev /\ dev[d].pc # "finish"
  BY DEF Drop
<1>3. QED
  BY <1>1, <1>2, OrderCloses DEF Drop

\* The only connection of a finishing device, or its owner goes on.
LEMMA OnlyOne ==
    ASSUME OInv, NEW c \in Active, dev[conn[c].owner].pc = "finish"
    PROVE  Owned(conn[c].owner) = {c}
<1>1. \A b \in Owned(conn[c].owner) : b = c
  BY DEF Owned, OInv, Order, Manned
<1>2. c \in Owned(conn[c].owner)
  BY DEF Owned
<1>3. QED
  BY <1>1, <1>2

LEMMA OrderDropDenied ==
    ASSUME TypeOK', OInv, NEW d \in Devices, NEW c \in Conns, DropDenied(d, c)
    PROVE  Onward
<1>1. c \in Active /\ conn[c].owner = d /\ conn' = Closed(c)
  BY DEF DropDenied, Active
<1>2. \/ UNCHANGED dev /\ dev[d].pc # "finish"
      \/ dev' = [dev EXCEPT ![d] = Idle] /\ Owned(d) = {c}
  BY <1>1, OnlyOne DEF DropDenied
<1>3. QED
  BY <1>1, <1>2, OrderCloses DEF DropDenied

LEMMA OrderOver ==
    ASSUME TypeOK', OInv, NEW c \in Conns, Over(c)
    PROVE  Onward
<1> DEFINE d == conn[c].owner
<1>1. c \in Active /\ conn' = Closed(c)
  BY DEF Over, Active
<1>2. d \in Devices
  BY <1>1 DEF OInv, Order, Manned
<1>3. dev' = [e \in Devices |-> IF conn[c].owner = e /\ dev[e].pc = "finish"
                               THEN Idle ELSE dev[e]]
      /\ dev \in [Devices -> Device]
  BY TypeParts DEF Over, OInv, DevType
<1>4. \/ UNCHANGED dev /\ dev[d].pc # "finish"
      \/ dev' = [dev EXCEPT ![d] = Idle] /\ Owned(d) = {c}
  <2>1. CASE dev[d].pc = "finish"
    BY <1>1, <1>2, <1>3, <2>1, OnlyOne
  <2>2. CASE dev[d].pc # "finish"
    BY <1>3, <2>2
  <2>3. QED
    BY <2>1, <2>2
<1>5. QED
  BY <1>1, <1>2, <1>4, OrderCloses DEF Over

LEMMA OrderBeginFinish ==
    ASSUME TypeOK', OInv, NEW d \in Devices, BeginFinish(d)
    PROVE  Onward
<1>1. Manned' /\ Single' /\ Calm
  BY ShapeFinishes DEF OInv, Order
<1>2. UNCHANGED conn /\ \A e \in Devices : dev'[e].put = dev[e].put
  BY TypeParts DEF OInv, BeginFinish, DevType, Device
<1>3. Served /\ Holders' \subseteq Holders
  BY <1>2 DEF Served, Holders
<1>4. ASSUME Counted
      PROVE  \A b \in Conns : conn'[b].due = "reply" /\ conn'[b].method # "get"
                              => dev'[conn'[b].owner].put
  BY <1>2, <1>4 DEF OInv, Order, Counted, Manned, Active
<1>5. QED
  BY <1>1, <1>3, <1>4, OrderIdle DEF BeginFinish, OInv, Order, Settled, Account5

\* The connection is refused.  The cache may have locked the account for it
\* and drawn a session id; then the answers given out are good for nothing.
LEMMA OrderRefused ==
    ASSUME TypeOK', OInv, NEW c \in Conns, InitialRefused(c)
    PROVE  Onward
<1>1. /\ conn'[c].due = "denied" /\ conn'[c].owner = conn[c].owner
      /\ conn[c].due = "hello"
      /\ \A b \in Conns : b # c => conn'[b] = conn[b]
  BY NowFields, TypeParts DEF OInv, InitialRefused
<1>2. lcur = 0 /\ UNCHANGED <<dev, ldata, lcur, aope, acur, idx, acd, done>>
  BY DEF InitialRefused
<1>3. Manned' /\ Single' /\ Calm
  BY <1>1, <1>2, ShapeGoes DEF OInv, Order
<1>4. Served /\ Holders' \subseteq Holders
  BY <1>1 DEF Served, Serving, Holders
<1>5. ASSUME Counted
      PROVE  \A b \in Conns : conn'[b].due = "reply" /\ conn'[b].method # "get"
                              => dev'[conn'[b].owner].put
  BY <1>1, <1>2, <1>3, <1>5, PutKept
<1>6. CASE acct' = acct
  BY <1>2, <1>3, <1>4, <1>5, <1>6, OrderIdle DEF OInv, Order, Settled, Account5
<1>7. CASE acct' # acct
  <2> DEFINE valid == dev[conn[c].owner].valid
  <2>1. MayLose /\ acct' = AfterStatus(acct, valid) /\ acct \in Account
    BY <1>7, TypeParts DEF InitialRefused, OInv, AcctType
  <2>2. valid = acct.valid
    BY <1>7, <2>1 DEF AfterStatus
  <2>3. /\ acct'.locked /\ ~acct'.lapsed /\ acct'.valid = acct.valid
        /\ acct'.seion = acct.seion + 1
    BY <2>1, <2>2, StatusFields
  <2>4. Settled' /\ Coherent'
    BY <1>2, <2>3 DEF Settled, Coherent, Steered
  <2>5. Answered'
    <3>1. acct.valid \in Nat /\ acct.seion \in Nat
          /\ \A d \in Devices : dev[d].valid \in Nat /\ dev[d].seion \in Nat
      BY <2>1, AccountFields, TypeParts DEF OInv, DevType, Device
    <3>2. \A d \in Devices : Live(d)' => dev[d].valid <= acct.valid
                                         /\ dev[d].seion <= acct.seion
      BY <1>3 DEF Calm, OInv, Order, Answered
    <3>3. QED
      BY <1>2, <2>3, <3>1, <3>2 DEF Answered
  <2>6. NoDangling' /\ ReferCovers'
    <3>1. NoDangling'
      BY <1>2, <1>4, DanglingKept DEF OInv, Order
    <3>2. QED
      BY <1>2, <1>4, <3>1, CoversKept DEF OInv, Order
  <2>7. CountedOn
    BY <1>2, <1>3, <1>5, CountedKept, WaitingKept DEF CountedOn
  <2>8. TalliedOn
    BY <2>1 DEF TalliedOn, Prompt
  <2>9. TurnedOn
    <3>1. acct'.cached = acct.cached
      BY <2>1, <2>2, StatusFields
    <3>2. QED
      BY <1>2, <2>3, <3>1, TurnMissed DEF OInv, Twins
  <2>10. QED
    BY <1>3, <2>4, <2>5, <2>6, <2>7, <2>8, <2>9 DEF Order, Onward
<1>8. QED
  BY <1>6, <1>7

LEMMA OrderQuery ==
    ASSUME Exclusive, TypeOK', OInv, NEW d \in Devices, Query(d)
    PROVE  Onward
<1>1. acct \in Account /\ ~acct.lapsed
  BY TypeParts DEF OInv, Order, Settled, AcctType
<1>2. acct' = acct /\ ~acct.locked
  BY <1>1 DEF Query, AfterQuery, Answers
<1>3. lcur = 0
  BY <1>2 DEF OInv, Order, Settled
<1>4. /\ Manned' /\ Single'
      /\ \A e \in Devices : Live(e)' => e = d
      /\ dev'[d].valid = acct.valid /\ dev'[d].seion = acct.seion
  BY <1>3, ShapeQueries DEF Exclusive, OInv, Order
<1>5. UNCHANGED <<conn, ldata, lcur, aope, acur, idx, acd, done>>
  BY DEF Query
<1>6. Settled' /\ Coherent'
  BY <1>2, <1>3, <1>5 DEF OInv, Order, Settled, Coherent, Steered
<1>7. Answered'
  <2>1. acct.valid \in Int /\ acct.seion \in Int
    BY <1>1, AccountFields
  <2>2. QED
    BY <1>2, <1>3, <1>4, <1>5, <2>1 DEF Answered
<1>8. ASSUME Counted PROVE Counting
  <2>1. Waiting = 0 /\ Waiting' = 0
    BY <1>3, <1>5 DEF OInv, Twins, Waiting
  <2>2. \A b \in Active : conn[b].owner # d
    BY DEF Query, OInv, Order, Manned
  <2>3. \A e \in Devices : e # d => dev'[e] = dev[e]
    BY TypeParts DEF Query, OInv, DevType
  <2>4. \A b \in Conns : conn'[b].due = "reply" /\ conn'[b].method # "get"
                         => dev'[conn'[b].owner].put
    BY <1>5, <1>8, <2>2, <2>3 DEF OInv, Order, Counted, Manned, Active
  <2>5. Lost' = Lost
    BY <1>5, <2>1 DEF Lost
  <2>6. QED
    BY <2>1, <2>4, <2>5 DEF Counting, Counted
<1>9. ASSUME Tallied PROVE Tallied'
  BY <1>2, <1>4, <1>5, <1>9 DEF Tallied, ServerCount
<1>10. NoDangling' /\ ReferCovers'
  BY <1>5 DEF OInv, Order, NoDangling, ReferCovers, Refer, Holders
<1>11. TurnedOn
  BY <1>2, <1>3, <1>5 DEF TurnedOn, Clean, Inside, Waiting, Stay!vars
<1>12. QED
  BY <1>4, <1>6, <1>7, <1>8, <1>9, <1>10, <1>11 DEF Order, Onward, CountedOn, TalliedOn

\* The account is created anew; answers that were not used become worthless.
LEMMA OrderErase ==
    ASSUME TypeOK', OInv, Erase
    PROVE  Onward
<1>1. acct \in Account /\ ~acct.lapsed /\ lcur = 0 /\ ~acct.locked
  BY TypeParts DEF OInv, Order, Settled, AcctType, Erase
<1>2. acct' = Recreated(acct)
  BY DEF Erase, AfterErase
<1>3. /\ ~acct'.locked /\ ~acct'.lapsed /\ acct'.refer = acct.refer
      /\ acct'.valid = acct.valid + 1 /\ acct'.seion = acct.seion + 1
      /\ acct'.cached = 0
  BY <1>1, <1>2, RecreatedFields
<1>4. UNCHANGED <<dev, conn, ldata, lcur, aope, acur, idx, acd, done>>
  BY DEF Erase
<1>5. Manned' /\ Single' /\ \A d \in Devices : Live(d)' <=> Live(d)
  BY <1>4 DEF OInv, Order, Manned, Single, Live, Leaving, Active
<1>6. Settled' /\ Coherent'
  BY <1>1, <1>3, <1>4 DEF Settled, Coherent, Steered
<1>7. \A d \in Devices : Live(d)' => /\ dev'[d].valid <= acct'.valid
                                     /\ dev'[d].valid # acct'.valid
                                     /\ dev'[d].seion <= acct'.seion
  <2>1. \A d \in Devices : Live(d) => dev[d].valid <= acct.valid
                                      /\ dev[d].seion <= acct.seion
    BY DEF OInv, Order, Answered
  <2>2. acct.valid \in Nat /\ acct.seion \in Nat
        /\ \A d \in Devices : dev[d].valid \in Nat /\ dev[d].seion \in Nat
    BY <1>1, AccountFields, TypeParts DEF OInv, DevType, Device
  <2>3. QED
    BY <1>3, <1>4, <1>5, <2>1, <2>2
<1>8. Answered'
  BY <1>1, <1>4, <1>7 DEF Answered
<1>9. Counted => Counting
  BY <1>4, <1>5 DEF Counting, Counted, Lost, Waiting
<1>10. Tallied => Tallied'
  BY <1>1, <1>3, <1>4, <1>7 DEF Tallied, ServerCount
<1>11. NoDangling' /\ ReferCovers'
  BY <1>4 DEF OInv, Order, NoDangling, ReferCovers, Refer, Holders
<1>12. TurnedOn
  <2>1. Clean => Clean'
    BY <1>4 DEF Clean
  <2>2. acct'.locked = acct.locked
    BY <1>1, <1>3, TypeParts, TypePartsNext DEF OInv, AcctType, Account
  <2>3. UNCHANGED <<Inside, Waiting>>
    BY <1>4, <1>5 DEF Inside, Waiting
  <2>4. Stay!Erase
    BY <1>1, <1>3, <1>4, <2>2, <2>3 DEF Stay!Erase
  <2>5. QED
    BY <2>1, <2>4 DEF TurnedOn, Stay!Next
<1>13. QED
  BY <1>5, <1>6, <1>8, <1>9, <1>10, <1>11, <1>12 DEF Order, Onward, CountedOn, TalliedOn

LEMMA OrderReply ==
    ASSUME TypeOK', OInv, NEW c \in Conns, Reply(c)
    PROVE  Onward
<1>1. c \in Holders /\ conn[c].due = "reply"
  BY DEF Reply, Holders
<1>2. /\ conn[c].ap = acur /\ acur \in Seions /\ acur # 0
      /\ conn[c].owner \in Devices /\ Live(conn[c].owner)
  BY <1>1, InService
<1>3. /\ conn' = Now(c, "open", conn[c].method)
      /\ aope' = IF conn[c].method # "get"
                 THEN [aope EXCEPT ![acur].acts = @ + 1] ELSE aope
      /\ done' = IF conn[c].method = "get" THEN done ELSE done + 1
      /\ UNCHANGED <<acct, dev, ldata, lcur, acur, idx, acd>>
  BY <1>2 DEF Reply
<1>4. /\ conn'[c].due = "open" /\ conn'[c].owner = conn[c].owner
      /\ conn'[c].lp = conn[c].lp /\ conn'[c].ap = conn[c].ap
      /\ \A b \in Conns : b # c => conn'[b] = conn[b]
  BY <1>3, NowFields, TypeParts DEF OInv
<1>5. Manned' /\ Single' /\ Calm
  BY <1>1, <1>3, <1>4, ShapeGoes DEF OInv, Order
<1>6. Served /\ Holders' \subseteq Holders
  BY <1>1, <1>4 DEF Served, Serving, Holders
<1>7. /\ Settled' /\ Answered' /\ Coherent'
      /\ TalliedOn
  BY <1>3, <1>5, SessionKept, TalliedKept DEF OInv, Order, Settled, Account5, TalliedOn
<1>8. NoDangling' /\ ReferCovers'
  <2>1. NoDangling'
    BY <1>3, <1>6, DanglingKept DEF OInv, Order
  <2>2. QED
    BY <1>3, <1>6, <2>1, CoversKept DEF OInv, Order
<1>9. ASSUME Counted PROVE Counting
  <2>0. \A b \in Conns : conn'[b].due = "reply" /\ conn'[b].method # "get"
                         => dev'[conn'[b].owner].put
    BY <1>3, <1>4, <1>5, <1>9, PutKept
  <2>1. CASE conn[c].method = "get"
    <3>1. Waiting' = Waiting
      BY <1>3, <2>1 DEF Waiting
    <3>2. QED
      BY <1>3, <1>5, <1>9, <2>0, <2>1, <3>1, CountedKept
  <2>2. CASE conn[c].method # "get"
    <3>1. aope'[acur].acts = aope[acur].acts + 1
      BY <1>2, <1>3, <2>2, TypeParts DEF OInv, AopeType, ActnoOpe
    <3>2. Waiting' = Waiting + 1
      BY <1>2, <1>3, <3>1 DEF Waiting
    <3>3. Lost' = Lost
      <4>1. done' = done + 1
        BY <1>3, <2>2
      <4>2. QED
        BY <1>3, <3>2, <4>1, CountsType DEF OInv, Lost
    <3>4. dev[conn[c].owner].put
      BY <1>1, <1>9, <2>2 DEF Counted
    <3>5. \A d \in Devices : Live(d)' => dev'[d].put
      BY <1>2, <1>3, <1>5, <3>4 DEF Calm, OInv, Order, Single
    <3>6. QED
      BY <2>0, <3>3, <3>5 DEF Counting, Counted
  <2>3. QED
    BY <2>1, <2>2
<1>10. TurnedOn
  <2>1. CASE conn[c].method = "get"
    BY <1>3, <1>5, <2>1, TurnKept DEF Account5
  <2>2. CASE conn[c].method # "get"
    <3>1. /\ aope'[acur].acts = aope[acur].acts + 1
          /\ \A s \in Seions : s # acur => aope'[s] = aope[s]
      BY <1>2, <1>3, <2>2, TypeParts DEF OInv, AopeType, ActnoOpe
    <3>2. Waiting' = Waiting + 1
      BY <1>2, <1>3, <3>1 DEF Waiting
    <3>3. Clean => Clean'
      BY <1>3, <3>1 DEF Clean
    <3>4. Inside = {conn[c].owner}
      BY <1>1, <1>2, InService, InsideOne
    <3>5. Inside' = Inside
      BY <1>1, <1>3, <1>4 DEF Inside, Live, Leaving
    <3>6. Stay!Act(conn[c].owner)
      BY <1>3, <3>2, <3>4, <3>5 DEF Stay!Act
    <3>7. QED
      BY <1>2, <3>3, <3>6 DEF TurnedOn, Stay!Next
  <2>3. QED
    BY <2>1, <2>2
<1>11. QED
  BY <1>5, <1>7, <1>8, <1>9, <1>10 DEF Order, Onward, CountedOn

\* FINAL END gives both references back.
LEMMA OrderFinalEnd ==
    ASSUME TypeOK', OInv, NEW d \in Devices, NEW c \in Conns, FinalEnd(d, c)
    PROVE  Onward
<1>1. c \in Holders /\ conn[c].due = "open"
  BY DEF FinalEnd, Holders
<1>2. /\ lcur \in Seions /\ lcur # 0 /\ lcur = acur /\ FindsUser(c) = {TRUE}
  BY <1>1, InService
<1>3. /\ ldata' = [ldata EXCEPT ![lcur].refer = @ - 1]
      /\ aope' = [aope EXCEPT ![lcur].refer = @ - 1]
      /\ conn' = Now(c, "over", "final")
      /\ UNCHANGED <<acct, dev, lcur, acur, idx, acd, done>>
  BY <1>2 DEF FinalEnd, Released
<1>4. /\ conn'[c].due = "over" /\ conn'[c].owner = conn[c].owner
      /\ \A b \in Conns : b # c => conn'[b] = conn[b]
  BY <1>3, NowFields, TypeParts DEF OInv
<1>5. Manned' /\ Single' /\ Calm
  BY <1>1, <1>3, <1>4, ShapeGoes DEF OInv, Order
<1>6. Served /\ Holders' = Holders \ {c}
  BY <1>4 DEF Served, Serving, Holders
<1>7. /\ ldata'[lcur].valid = ldata[lcur].valid
      /\ ldata'[lcur].cached = ldata[lcur].cached
      /\ ldata'[lcur].anchor = ldata[lcur].anchor
      /\ ldata'[lcur].refer = ldata[lcur].refer - 1
      /\ ldata[lcur].refer \in Int
      /\ aope'[lcur].acts = aope[lcur].acts
  BY <1>2, <1>3, TypeParts DEF OInv, LdataType, ListData, AopeType, ActnoOpe
<1>8. /\ Settled' /\ Answered' /\ Coherent'
      /\ TalliedOn
  BY <1>3, <1>5, <1>7, SessionKept, TalliedKept
     DEF OInv, Order, Settled, Account5, TalliedOn
<1>9. NoDangling'
  BY <1>3, <1>6, DanglingKept DEF OInv, Order
<1>10. ReferCovers'
  <2>1. Cardinality(Holders') = Cardinality(Holders) - 1
    BY <1>1, <1>6, HoldersFinite, FS_RemoveElement
  <2>2. ldata[lcur].refer >= Cardinality(Holders)
    BY <1>2, CoversMeaning DEF Covering, OInv, Order
  <2>3. ldata'[lcur'].refer >= Cardinality(Holders')
    BY <1>3, <1>7, <2>1, <2>2, HoldersFinite
  <2>4. QED
    BY <1>2, <1>3, <1>9, <2>3, CoversMeaningNext DEF Covering
<1>11. ASSUME Counted PROVE Counting
  <2>1. \A b \in Conns : conn'[b].due = "reply" /\ conn'[b].method # "get"
                         => dev'[conn'[b].owner].put
    BY <1>3, <1>4, <1>5, <1>11, PutKept
  <2>2. QED
    BY <1>2, <1>3, <1>5, <1>7, <1>11, <2>1, WaitingKept, CountedKept
<1>12. TurnedOn
  <2>1. \A s \in Seions : aope'[s].acts = aope[s].acts
    BY <1>2, <1>3, TypeParts DEF OInv, AopeType, ActnoOpe
  <2>2. QED
    BY <1>3, <1>5, <2>1, TurnKept DEF Account5
<1>13. QED
  BY <1>5, <1>8, <1>9, <1>10, <1>11, <1>12 DEF Order, Onward, CountedOn

(***************************************************************************)
(* The last FINAL is answered: nobody else is in service, as the device has *)
(* one connection left and the others have no session; and nobody holds an  *)
(* answer any more.                                                         *)
(***************************************************************************)
LEMMA LastAnswer ==
    ASSUME OInv, NEW d \in Devices, NEW c \in Conns,
           conn[c].owner = d, conn[c].due = "open", dev[d].pc = "finish",
           conn'[c].due = "over", conn'[c].owner = d, UNCHANGED dev,
           \A b \in Conns : b # c => conn'[b] = conn[b]
    PROVE  Holders' = {} /\ \A e \in Devices : ~Live(e)'
<1>1. c \in Holders /\ c \in Active /\ Live(d)
  BY InService DEF Holders
<1>2. Holders' = {}
  <2> SUFFICES ASSUME NEW b \in Holders' PROVE FALSE
    OBVIOUS
  <2>1. b # c /\ b \in Holders /\ conn'[b] = conn[b]
    BY DEF Holders
  <2>2. b \in Active /\ Live(conn[b].owner) /\ conn[b].owner \in Devices
    BY <2>1, InService
  <2>3. conn[b].owner = d
    BY <1>1, <2>2 DEF OInv, Order, Single
  <2>4. QED
    BY <1>1, <2>1, <2>2, <2>3 DEF OInv, Order, Manned
<1>3. ASSUME NEW e \in Devices, Live(e)' PROVE FALSE
  <2>1. e # d
    BY <1>3 DEF Live, Leaving
  <2>2. Live(e)
    BY <1>3, <2>1 DEF Live, Leaving
  <2>3. QED
    BY <1>1, <2>1, <2>2 DEF OInv, Order, Single
<1>4. QED
  BY <1>2, <1>3

\* The session leaves the hash maps; the cache may not have heard of it.
LEMMA OrderDissolved ==
    ASSUME TypeOK', OInv, NEW d \in Devices, NEW c \in Conns,
           conn[c].owner = d, conn[c].due = "open", dev[d].pc = "finish",
           NEW told, Dissolved(c, TRUE, told), UNCHANGED <<dev, ldata, done>>,
           ~acct'.lapsed,
           ~acct'.locked /\ acct'.cached # 0 => acct'.cached = idx',
           Prompt => ~acct'.locked /\ acct'.refer = acct.refer - 1,
           Counted => acd' = acd + Waiting \/ GivesUp,
           \/ UNCHANGED acct
           \/ ~acct'.locked /\ acct'.cached = idx',
           \/ acd' = acd + Waiting /\ idx' = idx + 1
           \/ UNCHANGED <<acd, idx>>
    PROVE  Onward
<1>1. c \in Holders
  BY DEF Holders
<1>2. lcur # 0 /\ acur # 0 /\ acct.locked /\ Live(d) /\ c \in Active
  BY <1>1, InService
<1>3. lcur' = 0 /\ acur' = 0 /\ conn' = [Now(c, "over", "final") EXCEPT ![c].lp = 0]
  BY <1>2 DEF Dissolved
<1>4. /\ conn'[c].due = "over" /\ conn'[c].owner = conn[c].owner
      /\ \A b \in Conns : b # c => conn'[b] = conn[b]
  BY <1>3, TypeParts DEF OInv, ConnType, Connection, Now
<1>5. Manned' /\ Single' /\ Calm
  BY <1>4, ShapeGoes DEF OInv, Order
<1>6. Holders' = {} /\ \A e \in Devices : ~Live(e)'
  BY <1>4, LastAnswer
<1>7. Settled' /\ Answered' /\ Coherent'
  BY <1>3, <1>6 DEF Settled, Answered, Coherent, Steered
<1>8. NoDangling'
  BY <1>6 DEF NoDangling
<1>9. ReferCovers'
  BY <1>3, <1>8, CoversMeaningNext DEF Covering
<1>10. CountedOn
  <2> SUFFICES ASSUME Careful, Counted PROVE Counting
    BY DEF CountedOn
  <2>1. \A b \in Conns : conn'[b].due # "reply"
    BY <1>6 DEF Holders
  <2>2. Waiting' = 0
    BY <1>3 DEF Waiting
  <2>3. acd' = acd + Waiting => Lost' = Lost
    BY <2>2, CountsType DEF OInv, Lost
  <2>4. QED
    BY <1>6, <2>1, <2>3 DEF Counting, Counted
<1>11. TalliedOn
  <2> SUFFICES ASSUME Prompt, Tallied PROVE Tallied'
    BY DEF TalliedOn
  <2>1. acct.refer = 1
    BY <1>2 DEF Tallied, ServerCount
  <2>2. QED
    BY <1>3, <1>6, <2>1 DEF Tallied, ServerCount
<1>12. TurnedOn
  <2>1. Inside = {d} /\ Inside' = {} /\ Waiting' = 0
    BY <1>2, <1>3, InsideOne DEF Inside, Waiting
  <2>2. Stay!Told \/ Stay!Untold
    <3>1. acct'.locked \in BOOLEAN
      BY TypePartsNext DEF AcctType, Account
    <3>2. QED
      BY <3>1 DEF Stay!Told, Stay!Untold
  <2>3. Stay!Success(d) \/ Stay!Finish(d)
    BY <2>1, <2>2 DEF Stay!Success, Stay!Finish
  <2>4. Clean => Clean'
    <3>1. aope' = [aope EXCEPT ![acur] = NoActions]
      BY <1>2 DEF Dissolved
    <3>2. QED
      BY <1>3, <3>1, TypeParts DEF Clean, NoActions, OInv, AopeType
  <2>5. QED
    BY <2>3, <2>4 DEF TurnedOn, Stay!Next
<1>13. QED
  BY <1>5, <1>7, <1>8, <1>9, <1>10, <1>11, <1>12 DEF Order, Onward

LEMMA OrderFinalSuccess ==
    ASSUME TypeOK', OInv, NEW d \in Devices, NEW c \in Conns, FinalSuccess(d, c)
    PROVE  Onward
<1>1. /\ c \in Holders /\ conn[c].owner = d /\ conn[c].due = "open"
      /\ dev[d].pc = "finish"
  BY DEF FinalSuccess, Holders
<1>2. /\ conn[c].lp = lcur /\ conn[c].ap = acur /\ lcur # 0 /\ FindsUser(c) = {TRUE}
      /\ Listed(c) = Waiting /\ ldata[lcur].valid = acct.valid /\ acct.locked
  BY <1>1, InService
<1>3. idx + 1 \in Nat /\ idx + 1 # 0 /\ AcctType /\ acct \in Account /\ ~acct.lapsed
  BY TypeParts DEF OInv, Order, Settled, FileType, AcctType
<1>4. /\ acd' = acd + Waiting /\ idx' = idx + 1 /\ UNCHANGED <<dev, ldata, done>>
      /\ Dissolved(c, TRUE, SetAnchor(acct.valid, idx + 1))
  BY <1>2 DEF FinalSuccess
<1>5. acct' \in SetAnchor(acct.valid, idx + 1)
  BY <1>2, <1>4 DEF Dissolved
<1>6. \/ MayLose /\ acct' = acct
      \/ /\ ~acct'.locked /\ ~acct'.lapsed /\ acct'.refer = acct.refer - 1
         /\ acct'.cached = idx + 1
  BY <1>2, <1>3, <1>5, SetAnchorOnce, SetAnchorFields
<1>7. QED
  BY <1>1, <1>2, <1>3, <1>4, <1>6, OrderDissolved DEF Prompt

LEMMA OrderFinalFinish ==
    ASSUME TypeOK', OInv, NEW d \in Devices, NEW c \in Conns, FinalFinish(d, c)
    PROVE  Onward
<1>1. /\ c \in Holders /\ conn[c].owner = d /\ conn[c].due = "open"
      /\ dev[d].pc = "finish"
  BY DEF FinalFinish, Holders
<1>2. /\ conn[c].lp = lcur /\ lcur # 0 /\ lcur \in Seions /\ FindsUser(c) = {TRUE}
      /\ Live(d) /\ ldata[lcur].valid = acct.valid /\ acct.locked
  BY <1>1, InService
<1>3. AcctType /\ acct \in Account /\ ~acct.lapsed /\ idx \in Nat
  BY TypeParts DEF OInv, Order, Settled, FileType, AcctType
<1>4. /\ UNCHANGED <<dev, ldata, idx, acd, done>>
      /\ Dissolved(c, TRUE, Release(ldata[lcur]))
  BY <1>2 DEF FinalFinish
<1>5. acct' \in Release(ldata[lcur])
  BY <1>2, <1>4 DEF Dissolved
<1>6. \/ MayLose /\ acct' = acct
      \/ /\ ~acct'.locked /\ ~acct'.lapsed /\ acct'.refer = acct.refer - 1
         /\ acct'.cached = idx
  <2>1. /\ acct.cached # 0 => acct.cached = idx
        /\ ~ldata[lcur].cached => ldata[lcur].anchor = idx
        /\ ldata[lcur].cached <=> acct.cached # 0
    BY <1>2 DEF OInv, Order, Coherent, Steered
  <2>2. CASE ldata[lcur].cached
    <3>1. acct' \in Unlock(acct.valid)
      BY <1>2, <1>5, <2>2 DEF Release
    <3>2. QED
      BY <1>2, <1>3, <2>1, <2>2, <3>1, UnlockOnce, UnlockFields
  <2>3. CASE ~ldata[lcur].cached
    <3>1. acct' \in SetAnchor(acct.valid, idx)
      BY <1>2, <1>5, <2>1, <2>3 DEF Release
    <3>2. ASSUME acct' = AfterSetAnchor(acct, acct.valid, idx)
          PROVE  /\ ~acct'.locked /\ ~acct'.lapsed /\ acct'.refer = acct.refer - 1
                 /\ acct'.cached = IF idx = 0 THEN acct.cached ELSE idx
      BY <1>2, <1>3, <3>2, SetAnchorFields
    <3>3. QED
      BY <1>2, <1>3, <2>1, <3>1, <3>2, SetAnchorOnce
  <2>4. QED
    BY <2>2, <2>3
<1>7. ASSUME Counted PROVE acd' = acd + Waiting \/ GivesUp
  <2>1. CASE dev[d].put
    BY <2>1 DEF GivesUp
  <2>2. CASE ~dev[d].put
    <3>1. Waiting = 0
      BY <1>2, <1>7, <2>2 DEF Counted
    <3>2. QED
      BY <1>4, <3>1, CountsType DEF OInv
  <2>3. QED
    BY <2>1, <2>2
<1>8. QED
  BY <1>1, <1>2, <1>3, <1>4, <1>6, <1>7, OrderDissolved DEF Prompt

\* The anchor files fail: the session stays, with nobody to end it.
LEMMA OrderFinalFails ==
    ASSUME TypeOK', OInv, NEW d \in Devices, NEW c \in Conns, FinalFails(d, c)
    PROVE  Onward
<1>1. /\ c \in Holders /\ conn[c].owner = d /\ conn[c].due = "open"
      /\ dev[d].pc = "finish" /\ MayFailDisk
      /\ UNCHANGED <<acct, dev, ldata, lcur, aope, acur, done>>
  BY DEF FinalFails, Holders
<1>2. lcur # 0 /\ acct.locked
  BY <1>1, InService
<1>3. /\ conn'[c].due = "over" /\ conn'[c].owner = conn[c].owner
      /\ \A b \in Conns : b # c => conn'[b] = conn[b]
  BY NowFields, TypeParts DEF FinalFails, OInv
<1>4. Manned' /\ Single' /\ Calm
  BY <1>1, <1>3, ShapeGoes DEF OInv, Order
<1>5. Holders' = {} /\ \A e \in Devices : ~Live(e)'
  BY <1>1, <1>3, LastAnswer
<1>6. Settled' /\ Answered' /\ Coherent'
  BY <1>1, <1>2, <1>5 DEF OInv, Order, Settled, Answered, Coherent, Steered
<1>7. Served /\ Holders' \subseteq Holders
  BY <1>3, <1>5 DEF Served, Serving
<1>8. NoDangling' /\ ReferCovers'
  <2>1. NoDangling'
    BY <1>5 DEF NoDangling
  <2>2. QED
    BY <1>1, <1>7, <2>1, CoversKept DEF OInv, Order
<1>9. CountedOn
  BY <1>1 DEF CountedOn, Careful
<1>10. TalliedOn
  BY <1>1, <1>4, TalliedKept DEF TalliedOn, Account5
<1>11. TurnedOn
  <2>1. Inside = {d} /\ Inside' = {} /\ UNCHANGED Waiting /\ Listed(c) = Waiting
    BY <1>1, <1>5, InService, InsideOne DEF Inside, Waiting
  <2>2. Stay!Fail(d)
    BY <1>1, <2>1 DEF Stay!Fail, FinalFails
  <2>3. QED
    BY <1>1, <2>2 DEF TurnedOn, Clean, Stay!Next
<1>12. QED
  BY <1>4, <1>6, <1>8, <1>9, <1>10, <1>11 DEF Order, Onward

\* A new process knows no session.  The account stays locked, and an answer
\* that was used is good for nothing.
LEMMA OrderCrash ==
    ASSUME TypeOK', OInv, Crash
    PROVE  Onward
<1>1. /\ conn' = [c \in Conns |-> Asleep] /\ lcur' = 0 /\ acur' = 0
      /\ dev' = [d \in Devices |-> IF Owned(d) # {} /\ dev[d].pc = "finish"
                                   THEN Idle ELSE dev[d]]
      /\ UNCHANGED <<acct, idx>> /\ MayCrash
  BY DEF Crash, Restarted
<1>2. Active' = {} /\ Holders' = {}
  BY <1>1 DEF Active, Holders, Asleep
<1>3. \A d \in Devices : Live(d)' => Live(d) /\ dev'[d] = dev[d]
  <2> SUFFICES ASSUME NEW d \in Devices, Live(d)' PROVE Live(d) /\ dev'[d] = dev[d]
    OBVIOUS
  <2>1. dev'[d] = dev[d] /\ (dev[d].pc = "finish" => Owned(d) = {})
    BY <1>1 DEF Live, Idle
  <2>2. ~Leaving(d)
    BY <2>1 DEF Leaving, Owned, Active
  <2>3. QED
    BY <2>1, <2>2 DEF Live
<1>4. Manned' /\ Single'
  BY <1>2, <1>3 DEF OInv, Order, Manned, Single
<1>5. Settled' /\ Coherent'
  BY <1>1 DEF OInv, Order, Settled, Coherent, Steered
<1>6. Answered'
  BY <1>1, <1>3 DEF OInv, Order, Answered, Settled
<1>7. NoDangling'
  BY <1>2 DEF NoDangling
<1>8. ReferCovers'
  BY <1>1, <1>7, CoversMeaningNext DEF Covering
<1>9. CountedOn /\ TalliedOn
  BY <1>1 DEF CountedOn, TalliedOn, Careful, Prompt
<1>10. TurnedOn
  <2>1. Inside' = {} /\ Waiting' = 0 /\ UNCHANGED acd
    BY <1>1 DEF Inside, Waiting, Crash
  <2>2. Clean'
    BY DEF Crash, Restarted, Clean, NoActions
  <2>3. Stay!Crash
    BY <1>1, <2>1 DEF Stay!Crash
  <2>4. QED
    BY <2>2, <2>3 DEF TurnedOn, Stay!Next
<1>11. QED
  BY <1>4, <1>5, <1>6, <1>7, <1>8, <1>9, <1>10 DEF Order, Onward

\* A connection is taken into the session: one more holder.
LEMMA AdmittedFields ==
    ASSUME ConnType, NEW c \in Conns, NEW n, Admitted(c, n)
    PROVE  /\ conn'[c].due = "open" /\ conn'[c].owner = conn[c].owner
           /\ conn'[c].lp = n /\ conn'[c].ap = acur' /\ lcur' = n
           /\ \A b \in Conns : b # c => conn'[b] = conn[b]
           /\ Holders' = Holders \cup {c}
<1> DEFINE x == [conn[c] EXCEPT !.due = "open", !.method = "initial"]
<1>1. conn' = [conn EXCEPT ![c] = [x EXCEPT !.lp = n, !.ap = acur']] /\ lcur' = n
  BY DEF ConnType, Admitted, Now
<1>2. /\ conn'[c].due = "open" /\ conn'[c].owner = conn[c].owner
      /\ conn'[c].lp = n /\ conn'[c].ap = acur'
      /\ \A b \in Conns : b # c => conn'[b] = conn[b]
  BY <1>1 DEF ConnType, Connection
<1>3. QED
  BY <1>1, <1>2 DEF Holders

LEMMA OrderInitialKnown ==
    ASSUME TypeOK', OInv, NEW c \in Conns, InitialKnown(c)
    PROVE  Onward
<1> DEFINE d == conn[c].owner
<1>1. conn[c].due = "hello" /\ c \in Active /\ lcur # 0 /\ acur = lcur /\ lcur \in Seions
  BY TypeParts DEF InitialKnown, Active, OInv, Twins, CurType
<1>2. d \in Devices /\ Live(d)
  BY <1>1, MannedLive DEF OInv, Order
<1>3. dev[d].valid = acct.valid /\ dev[d].seion = lcur /\ ldata[lcur].valid = acct.valid
  BY <1>1, <1>2 DEF OInv, Order, Answered
<1>4. /\ Admitted(c, lcur)
      /\ ldata' = [ldata EXCEPT ![lcur].refer = @ + 1, ![lcur].valid = dev[d].valid]
      /\ UNCHANGED <<acct, dev, idx, acd, done>>
  BY <1>3 DEF InitialKnown, TornDown
<1>5. acur' = acur /\ lcur' = lcur /\ aope' = [aope EXCEPT ![acur].refer = @ + 1]
  BY <1>1, <1>4 DEF Admitted
<1>6. /\ ldata'[lcur].valid = ldata[lcur].valid
      /\ ldata'[lcur].cached = ldata[lcur].cached
      /\ ldata'[lcur].anchor = ldata[lcur].anchor
      /\ ldata'[lcur].refer = ldata[lcur].refer + 1
      /\ ldata[lcur].refer \in Int
      /\ aope'[lcur].acts = aope[lcur].acts
  BY <1>1, <1>3, <1>4, <1>5, TypeParts
     DEF OInv, LdataType, ListData, AopeType, ActnoOpe
<1>7. /\ conn'[c].due = "open" /\ conn'[c].owner = d
      /\ conn'[c].lp = lcur /\ conn'[c].ap = acur
      /\ \A b \in Conns : b # c => conn'[b] = conn[b]
      /\ Holders' = Holders \cup {c}
  BY <1>4, <1>5, AdmittedFields, TypeParts DEF OInv
<1>8. Manned' /\ Single' /\ Calm
  BY <1>1, <1>4, <1>7, ShapeGoes DEF OInv, Order
<1>9. /\ Settled' /\ Answered' /\ Coherent'
      /\ TalliedOn
  BY <1>4, <1>5, <1>6, <1>8, SessionKept, TalliedKept
     DEF OInv, Order, Settled, Account5, TalliedOn
<1>10. NoDangling'
  BY <1>5, <1>7 DEF OInv, Order, NoDangling, Holders
<1>11. ReferCovers'
  <2>1. c \notin Holders
    BY <1>1 DEF Holders
  <2>2. Cardinality(Holders') = Cardinality(Holders) + 1
    BY <1>7, <2>1, HoldersFinite, FS_AddElement
  <2>3. ldata[lcur].refer >= Cardinality(Holders)
    BY <1>1, CoversMeaning DEF Covering, OInv, Order
  <2>4. ldata'[lcur'].refer >= Cardinality(Holders')
    BY <1>5, <1>6, <2>2, <2>3, HoldersFinite
  <2>5. QED
    BY <1>1, <1>5, <1>10, <2>4, CoversMeaningNext DEF Covering
<1>12. ASSUME Counted PROVE Counting
  <2>1. \A b \in Conns : conn'[b].due = "reply" /\ conn'[b].method # "get"
                         => dev'[conn'[b].owner].put
    BY <1>4, <1>7, <1>8, <1>12, PutKept
  <2>2. QED
    BY <1>1, <1>4, <1>5, <1>6, <1>8, <1>12, <2>1, WaitingKept, CountedKept
<1>13. TurnedOn
  <2>1. \A s \in Seions : aope'[s].acts = aope[s].acts
    BY <1>1, <1>5, TypeParts DEF OInv, AopeType, ActnoOpe
  <2>2. QED
    BY <1>4, <1>5, <1>8, <2>1, TurnKept DEF Account5
<1>14. QED
  BY <1>8, <1>9, <1>10, <1>11, <1>12, <1>13 DEF Order, Onward, CountedOn

\* The first connection of a device whose answer still holds: the session
\* gets the id of the answer, and the account was free until now.
LEMMA OrderNewAdmitted ==
    ASSUME TypeOK', OInv, NEW c \in Conns, conn[c].due = "hello", lcur = 0,
           dev[conn[c].owner].valid = acct.valid, acct.seion \in Seions,
           acct' = AfterStatus(acct, acct.valid),
           ldata' = [ldata EXCEPT ![acct.seion] = Started(acct, acct.valid)],
           Admitted(c, acct.seion), UNCHANGED <<dev, idx, acd, done>>
    PROVE  Onward
<1> DEFINE d == conn[c].owner
           s == acct.seion
<1>1. c \in Active /\ acur = 0
  BY DEF Active, OInv, Twins
<1>2. d \in Devices /\ Live(d) /\ dev[d].seion = s
  BY <1>1, MannedLive DEF OInv, Order, Admitted
<1>3. acct \in Account /\ acct.valid \in Nat /\ s \in Nat /\ s # 0
  BY TypeParts, AccountFields DEF OInv, AcctType, Seions
<1>4. ~acct.locked
  BY <1>2, <1>3 DEF OInv, Order, Answered
<1>5. acur' = s /\ lcur' = s /\ aope' = [aope EXCEPT ![s].refer = 1]
  BY <1>1 DEF Admitted
<1>6. ldata'[s] = Started(acct, acct.valid) /\ aope'[s].acts = aope[s].acts
  BY <1>5, TypeParts DEF OInv, LdataType, AopeType, ActnoOpe
<1>7. /\ acct'.locked /\ ~acct'.lapsed /\ acct'.refer = acct.refer + 1
      /\ acct'.valid = acct.valid /\ acct'.cached = acct.cached
      /\ acct'.seion = s + 1
  BY <1>3, StatusFields
<1>8. /\ conn'[c].due = "open" /\ conn'[c].owner = d
      /\ conn'[c].lp = s /\ conn'[c].ap = s
      /\ \A b \in Conns : b # c => conn'[b] = conn[b]
      /\ Holders' = Holders \cup {c}
  BY <1>5, AdmittedFields, TypeParts DEF OInv
<1>9. Holders = {}
  BY CoversMeaning DEF Covering, OInv, Order
<1>10. Manned' /\ Single' /\ Calm
  BY <1>8, ShapeGoes DEF OInv, Order
<1>11. Settled'
  BY <1>3, <1>5, <1>7 DEF Settled
<1>12. Coherent'
  <2>1. acct.cached # 0 => acct.cached = idx
    BY <1>4 DEF OInv, Order, Coherent
  <2>2. ldata'[lcur'].cached <=> acct'.cached # 0
    BY <1>5, <1>6, <1>7, StartedCached
  <2>3. QED
    BY <1>5, <1>6, <1>7, <2>1, <2>2 DEF Coherent, Started
<1>13. Answered'
  <2>1. \A e \in Devices : Live(e)' => e = d
    BY <1>2, <1>10 DEF Calm, OInv, Order, Single
  <2>2. ldata'[lcur'].valid = acct'.valid
    BY <1>5, <1>6, <1>7 DEF Started
  <2>3. QED
    BY <1>2, <1>3, <1>5, <1>7, <2>1, <2>2 DEF Answered
<1>14. NoDangling'
  BY <1>5, <1>8, <1>9 DEF NoDangling
<1>15. ReferCovers'
  <2>1. Cardinality(Holders') = 1
    BY <1>8, <1>9, FS_Singleton
  <2>2. ldata'[lcur'].refer >= Cardinality(Holders')
    BY <1>5, <1>6, <2>1 DEF Started
  <2>3. QED
    BY <1>3, <1>5, <1>14, <2>2, CoversMeaningNext DEF Covering
<1>16. ASSUME Clean, Counted PROVE Counting
  <2>1. Waiting = 0 /\ Waiting' = 0
    BY <1>1, <1>3, <1>5, <1>6, <1>16 DEF Waiting, Clean
  <2>2. \A b \in Conns : conn'[b].due # "reply"
    BY <1>8, <1>9 DEF Holders
  <2>3. Lost' = Lost
    BY <2>1 DEF Lost
  <2>4. QED
    BY <2>1, <2>2, <2>3 DEF Counting, Counted
<1>17. ASSUME Tallied PROVE Tallied'
  <2>1. acct.refer = 0
    BY <1>4, <1>17 DEF Tallied, ServerCount
  <2>2. QED
    BY <1>3, <1>5, <1>7, <2>1 DEF Tallied, ServerCount
<1>18. ASSUME Clean PROVE Clean' /\ [Stay!Next]_(Stay!vars)
  <2>1. Waiting = 0 /\ Waiting' = 0
    BY <1>1, <1>3, <1>5, <1>6, <1>18 DEF Waiting, Clean
  <2>2. Clean'
    <3>1. \A n \in Seions : aope'[n].acts = aope[n].acts
      BY <1>5, <1>6, TypeParts DEF OInv, AopeType
    <3>2. QED
      BY <1>1, <1>18, <3>1, TypeParts DEF Clean, OInv, CurType, Seions
  <2>3. Inside' = {d}
    <3>1. \A e \in Devices : Live(e)' => e = d
      BY <1>2, <1>10 DEF Calm, OInv, Order, Single
    <3>2. \A e \in Devices : e = d => Live(e)'
      BY <1>2, <1>8 DEF Live, Leaving
    <3>3. QED
      <4> HIDE DEF d, s
      <4>1. lcur' # 0
        BY <1>3, <1>5
      <4>2. Inside' \subseteq {d}
        BY <3>1 DEF Inside
      <4>3. d \in Inside'
        BY <1>2, <3>2, <4>1 DEF Inside
      <4>4. QED
        BY <4>2, <4>3
  <2>4. acct'.locked = TRUE
    BY <1>7, TypePartsNext DEF AcctType, Account
  <2>5. Stay!Enter(d)
    BY <1>4, <1>7, <2>1, <2>3, <2>4 DEF Stay!Enter
  <2>6. QED
    BY <1>2, <2>2, <2>5 DEF Stay!Next
<1>19. QED
  BY <1>10, <1>11, <1>12, <1>13, <1>14, <1>15, <1>16, <1>17, <1>18
     DEF Order, Onward, CountedOn, TalliedOn, TurnedOn

\* The session id of the answer was drawn already: the session is torn down
\* and the account stays locked.
LEMMA OrderNewTornDown ==
    ASSUME TypeOK', OInv, NEW c \in Conns, conn[c].due = "hello", lcur = 0,
           dev[conn[c].owner].valid = acct.valid, NEW s, TornDown(c, s),
           acct'.locked, ~acct'.lapsed, acct'.valid = acct.valid,
           acct'.cached = acct.cached, acct'.seion > acct.seion,
           Prompt => s = acct.seion,
           UNCHANGED <<dev, idx, acd, done>>
    PROVE  Onward
<1> DEFINE d == conn[c].owner
<1>1. c \in Active /\ acur = 0
  BY DEF Active, OInv, Twins
<1>2. d \in Devices /\ Live(d) /\ dev[d].seion # s
  BY <1>1, MannedLive DEF OInv, Order, TornDown
<1>3. lcur' = 0 /\ acur' = 0 /\ aope' = aope
      /\ conn' = [Now(c, "denied", "initial") EXCEPT ![c].lp = s]
  BY <1>1 DEF TornDown
<1>4. /\ conn'[c].due = "denied" /\ conn'[c].owner = d
      /\ \A b \in Conns : b # c => conn'[b] = conn[b]
  BY <1>3, TypeParts DEF OInv, ConnType, Connection, Now
<1>5. Manned' /\ Single' /\ Calm
  BY <1>4, ShapeGoes DEF OInv, Order
<1>6. Holders' = {}
  <2>1. Holders = {}
    BY CoversMeaning DEF Covering, OInv, Order
  <2>2. QED
    BY <1>4, <2>1 DEF Holders
<1>7. Settled' /\ Coherent'
  BY <1>3 DEF Settled, Coherent, Steered
<1>8. Answered'
  <2>1. acct.valid \in Nat /\ acct.seion \in Nat /\ acct'.seion \in Nat
        /\ \A e \in Devices : dev[e].valid \in Nat /\ dev[e].seion \in Nat
    BY AccountFields, TypeParts, TypePartsNext DEF OInv, AcctType, DevType, Device
  <2>2. \A e \in Devices : Live(e)' => dev[e].valid <= acct.valid
                                       /\ dev[e].seion <= acct.seion
    BY <1>5 DEF Calm, OInv, Order, Answered
  <2>3. QED
    BY <1>3, <2>1, <2>2 DEF Answered
<1>9. NoDangling'
  BY <1>6 DEF NoDangling
<1>10. ReferCovers'
  BY <1>3, <1>9, CoversMeaningNext DEF Covering
<1>11. ASSUME Counted PROVE Counting
  <2>1. \A b \in Conns : conn'[b].due # "reply"
    BY <1>6 DEF Holders
  <2>2. Waiting' = Waiting
    BY <1>1, <1>3 DEF Waiting
  <2>3. QED
    BY <1>5, <1>11, <2>1, <2>2, CountedKept
<1>12. ASSUME Prompt, Tallied PROVE FALSE
  BY <1>2, <1>12 DEF Tallied
<1>13. TurnedOn
  BY <1>3, TurnMissed
<1>14. QED
  BY <1>5, <1>7, <1>8, <1>9, <1>10, <1>11, <1>12, <1>13
     DEF Order, Onward, CountedOn, TalliedOn

LEMMA OrderInitialNew ==
    ASSUME TypeOK', OInv, NEW c \in Conns, InitialNew(c)
    PROVE  Onward
<1> DEFINE valid == dev[conn[c].owner].valid
           s == acct.seion
<1>1. conn[c].due = "hello" /\ lcur = 0 /\ valid = acct.valid /\ s < MaxSeion
  BY DEF InitialNew
<1>2. acct \in Account /\ s \in Seions /\ s \in Nat
  BY <1>1, TypeParts, AccountFields, BoundAssumption DEF OInv, AcctType, Seions
<1>3. conn[c].owner \in Devices /\ dev[conn[c].owner].seion <= s
      /\ dev[conn[c].owner].seion \in Nat
  <2>1. c \in Active
    BY <1>1 DEF Active
  <2>2. conn[c].owner \in Devices /\ Live(conn[c].owner)
    BY <1>1, <2>1, MannedLive DEF OInv, Order
  <2>3. QED
    BY <2>2, TypeParts DEF OInv, Order, Answered, DevType, Device
<1>4. PICK again \in BOOLEAN :
        LET a == IF again THEN AfterStatus(acct, valid) ELSE acct
        IN  /\ again => MayRepeat
            /\ acct' = AfterStatus(a, valid)
            /\ ldata' = [ldata EXCEPT ![a.seion] = Started(a, valid)]
            /\ Admitted(c, a.seion) \/ TornDown(c, a.seion)
  BY DEF InitialNew
<1>5. UNCHANGED <<dev, idx, acd, done>>
  BY DEF InitialNew
<1>6. CASE ~again
  <2>1. /\ acct' = AfterStatus(acct, acct.valid)
        /\ ldata' = [ldata EXCEPT ![s] = Started(acct, acct.valid)]
        /\ Admitted(c, s) \/ TornDown(c, s)
    BY <1>1, <1>4, <1>6
  <2>2. CASE Admitted(c, s)
    BY <1>1, <1>2, <1>5, <2>1, <2>2, OrderNewAdmitted
  <2>3. CASE TornDown(c, s)
    <3>1. /\ acct'.locked /\ ~acct'.lapsed /\ acct'.valid = acct.valid
          /\ acct'.seion = s + 1 /\ acct'.cached = acct.cached
      BY <1>2, <2>1, StatusFields
    <3>2. QED
      BY <1>1, <1>2, <1>5, <2>3, <3>1, OrderNewTornDown
  <2>4. QED
    BY <2>1, <2>2, <2>3
<1>7. CASE again
  <2> DEFINE a == AfterStatus(acct, valid)
  <2>1. /\ acct' = AfterStatus(a, valid)
        /\ MayRepeat
        /\ Admitted(c, a.seion) \/ TornDown(c, a.seion)
    BY <1>4, <1>7
  <2>2. a \in Account /\ a.valid = acct.valid /\ a.seion = s + 1
        /\ a.cached = acct.cached
    BY <1>1, <1>2, StatusFields
  <2>3. /\ acct'.locked /\ ~acct'.lapsed /\ acct'.valid = acct.valid
        /\ acct'.seion = s + 2 /\ acct'.cached = acct.cached
    <3> HIDE DEF a
    <3>1. a.seion + 1 = s + 2
      BY <1>2, <2>2
    <3>2. QED
      BY <1>1, <2>1, <2>2, <3>1, StatusFields
  <2>4. TornDown(c, a.seion)
    <3> HIDE DEF a
    <3> QED
      BY <1>2, <1>3, <2>1, <2>2 DEF Admitted
  <2>5. acct'.seion > acct.seion
    BY <1>2, <2>3
  <2> HIDE DEF a
  <2>6. QED
    BY <1>1, <1>5, <2>1, <2>3, <2>4, <2>5, OrderNewTornDown DEF Prompt
<1>8. QED
  BY <1>6, <1>7

(***************************************************************************)
(* Every step; the faults of an exclusive world do not happen.              *)
(***************************************************************************)
LEMMA OrderSame ==
    ASSUME OInv, UNCHANGED vars
    PROVE  Onward
<1>1. /\ Manned' /\ Single' /\ Settled' /\ NoDangling' /\ ReferCovers'
  BY DEF OInv, Order, vars, Manned, Active, Single, Live, Leaving, Settled,
     NoDangling, Holders, ReferCovers, Refer
<1>2. Answered' /\ Coherent'
  BY DEF OInv, Order, vars, Answered, Live, Leaving, Coherent, Steered
<1>3. Counted => Counting
  BY DEF vars, Counting, Counted, Lost, Waiting, Live, Leaving
<1>4. Tallied => Tallied'
  BY DEF vars, Tallied, ServerCount, Live, Leaving
<1>5. TurnedOn
  BY DEF vars, TurnedOn, Clean, Inside, Live, Leaving, Waiting, Stay!vars
<1>6. QED
  BY <1>1, <1>2, <1>3, <1>4, <1>5 DEF Order, Onward, CountedOn, TalliedOn

LEMMA OrderStep ==
    ASSUME Exclusive, TypeOK', OInv, [Next]_vars
    PROVE  Onward
<1>1. ASSUME NEW d \in Devices, Client(d) \/ QueryLater(d) \/ Quit(d)
      PROVE  Onward
  <2>1. ~Quit(d) /\ (QueryLater(d) => UNCHANGED vars)
    BY DEF Quit, QueryLater, Exclusive
  <2>2. QED
    BY <1>1, <2>1, OrderQuery, OrderBeginFinish, OrderAccept, OrderRequest,
       OrderFinalEnd, OrderFinalSuccess, OrderFinalFinish, OrderFinalFails, OrderDrop,
       OrderDropDenied, OrderSame DEF Client
<1>2. ASSUME NEW c \in Conns, Server(c) \/ Vanish(c) \/ Exception(c)
      PROVE  Onward
  <2>1. ~Vanish(c) /\ ~Exception(c)
    BY DEF Vanish, Exception, Exclusive
  <2>2. QED
    BY <1>2, <2>1, OrderInitialKnown, OrderInitialNew, OrderRefused, OrderReply,
       OrderOver DEF Server
<1>3. ~Lapse /\ ~Clear
  BY DEF Lapse, Clear, Exclusive
<1>4. CASE Crash \/ Erase \/ Exhausted \/ UNCHANGED vars
  BY <1>4, OrderCrash, OrderErase, OrderSame DEF Exhausted
<1>5. QED
  BY <1>1, <1>2, <1>3, <1>4 DEF Next

LEMMA OrderInit == Init => Twins /\ Clean /\ Order /\ Counted /\ Tallied
<1> SUFFICES ASSUME Init PROVE Twins /\ Clean /\ Order /\ Counted /\ Tallied
  OBVIOUS
<1>1. /\ \A c \in Conns : conn[c].due = "sleep"
      /\ \A d \in Devices : dev[d].pc = "idle"
      /\ lcur = 0 /\ acur = 0 /\ idx = 0 /\ acd = 0 /\ done = 0
      /\ ~acct.locked /\ ~acct.lapsed /\ acct.refer = 0 /\ acct.cached = 0
  BY DEF Init, Asleep, Idle, NewAccount
<1>2. Active = {} /\ Holders = {} /\ \A d \in Devices : ~Live(d)
  BY <1>1 DEF Active, Holders, Live
<1>3. Twins /\ Clean
  BY <1>1 DEF Init, Twins, Clean, Serving, NoActions
<1>4. Manned /\ Single /\ Settled /\ Answered /\ Coherent /\ NoDangling
  BY <1>1, <1>2 DEF Manned, Single, Settled, Answered, Coherent, Steered, NoDangling
<1>5. Counted /\ Tallied
  BY <1>1, <1>2 DEF Counted, Waiting, Tallied, ServerCount
<1>6. ReferCovers
  BY <1>1, <1>4, CoversMeaning, TypeInit DEF Covering
<1>7. QED
  BY <1>3, <1>4, <1>5, <1>6 DEF Order

LEMMA OrderInvariance == Exclusive => (Spec => []OInv)
<1> SUFFICES ASSUME Exclusive PROVE Spec => []OInv
  OBVIOUS
<1>1. Init => OInv
  BY OrderInit, TypeInit DEF OInv
<1>2. OInv /\ Lockstep /\ TypeOK' /\ [Next]_vars => OInv'
  BY TwinsStep, OrderStep DEF OInv, Onward
<1>3. QED
  BY <1>1, <1>2, TypeCorrect, LockstepCorrect, PTL DEF Spec

(***************************************************************************)
(* No handler works on a freed session, as long as nothing takes the account*)
(* from the device that has it: the objects of a connection in service are  *)
(* those in the hash maps, because only the last FINAL takes them out, and  *)
(* it is sent when no other connection is left.  Processes may die, disks   *)
(* fail, requests to the cache be lost or repeated, clients drop their      *)
(* connections or leave their changes.                                      *)
(***************************************************************************)
THEOREM NoDanglingCorrect == Exclusive => (Spec => []NoDangling)
<1> SUFFICES ASSUME Exclusive PROVE Spec => []NoDangling
  OBVIOUS
<1>1. OInv => NoDangling
  BY DEF OInv, Order
<1>2. QED
  BY <1>1, OrderInvariance, PTL

(***************************************************************************)
(* The session has a reference for each connection in service: INITIAL takes*)
(* one and END gives one back.  It may have more (a client that closed without*)
(* END), and that is why nothing is freed when the count comes to 0.        *)
(***************************************************************************)
THEOREM ReferCoversCorrect == Exclusive => (Spec => []ReferCovers)
<1> SUFFICES ASSUME Exclusive PROVE Spec => []ReferCovers
  OBVIOUS
<1>1. OInv => ReferCovers
  BY DEF OInv, Order
<1>2. QED
  BY <1>1, OrderInvariance, PTL

(***************************************************************************)
(* One device is in service at a time, and the cache holds the account locked*)
(* as long as the server holds a session; also when the server has just been*)
(* started again, or the cache was not told of the end of a session.        *)
(***************************************************************************)
THEOREM OneDeviceCorrect == Exclusive => (Spec => []OneDevice)
<1> SUFFICES ASSUME Exclusive PROVE Spec => []OneDevice
  OBVIOUS
<1>1. OInv => OneDevice
  BY InService DEF OInv, Order, Single, Settled, OneDevice
<1>2. QED
  BY <1>1, OrderInvariance, PTL

(***************************************************************************)
(* A free account announces the last anchor of the anchor index: what frees *)
(* it tells the cache, and what does not tell the cache (a lost request, a  *)
(* disk that failed after the index was written, a crash) leaves it locked. *)
(***************************************************************************)
THEOREM CacheCoherentCorrect == Exclusive => (Spec => []CacheCoherent)
<1> SUFFICES ASSUME Exclusive PROVE Spec => []CacheCoherent
  OBVIOUS
<1>1. OInv => CacheCoherent
  BY DEF OInv, Order, Coherent, CacheCoherent
<1>2. QED
  BY <1>1, OrderInvariance, PTL

(***************************************************************************)
(* An action carried out leaves the list for the data file, and otherwise   *)
(* only when a device that changed files sends FINAL FINISH: as long as the *)
(* process and the disk hold, whatever becomes of the requests to the cache.*)
(***************************************************************************)
THEOREM NothingLostCorrect == Exclusive /\ Careful => (Spec => NothingLost)
<1> SUFFICES ASSUME Exclusive, Careful PROVE Spec => NothingLost
  OBVIOUS
<1> DEFINE CInv == Clean /\ Counted /\ WrittenOnce
<1>1. Init => CInv
  BY OrderInit DEF Init, WrittenOnce, Waiting
<1>2. OInv /\ TypeOK' /\ CInv /\ [Next]_vars => CInv' /\ [Lost' = Lost \/ GivesUp]_vars
  <2> SUFFICES ASSUME OInv, TypeOK', CInv, [Next]_vars
               PROVE  CInv' /\ [Lost' = Lost \/ GivesUp]_vars
    OBVIOUS
  <2>1. Clean' /\ WrittenOnce'
    BY WrittenStep DEF OInv, Careful
  <2>2. Counting
    BY OrderStep DEF Onward, CountedOn
  <2>3. QED
    BY <2>1, <2>2 DEF Counting
<1>3. QED
  BY <1>1, <1>2, TypeCorrect, OrderInvariance, PTL DEF Spec, NothingLost

(***************************************************************************)
(* The cache counts one account for the server while it is locked and none  *)
(* when it is not, as long as it hears of every session once: STATUS counts *)
(* up, and the end of the session it admits counts down.                    *)
(***************************************************************************)
THEOREM ServerCountCorrect == Exclusive /\ Prompt => (Spec => []ServerCount)
<1> SUFFICES ASSUME Exclusive, Prompt PROVE Spec => []ServerCount
  OBVIOUS
<1>1. Init => Tallied
  BY OrderInit
<1>2. OInv /\ TypeOK' /\ Tallied /\ [Next]_vars => Tallied'
  BY OrderStep DEF Onward, TalliedOn
<1>3. Tallied => ServerCount
  BY DEF Tallied
<1>4. QED
  BY <1>1, <1>2, <1>3, TypeCorrect, OrderInvariance, PTL DEF Spec

\* At the start the account is free and nothing is recorded.
LEMMA TenureInit == Init => Stay!Init
<1> SUFFICES ASSUME Init PROVE Stay!Init
  OBVIOUS
<1>1. acct.locked = FALSE /\ acct.cached = 0 /\ lcur = 0 /\ acur = 0 /\ idx = 0 /\ acd = 0
  BY DEF Init, NewAccount
<1>2. QED
  BY <1>1 DEF Stay!Init, Inside, Waiting

(***************************************************************************)
(* Sessions implement Tenure.  Everything between a query and a FINAL that  *)
(* touches neither lock nor files is a stutter; INITIAL is where a device   *)
(* enters, and a FINAL that fails, an answer the cache never gives, or the  *)
(* death of the process leaves the account locked with nobody inside.       *)
(***************************************************************************)
THEOREM TenureRefinement == Exclusive => (Spec => ImplementsTenure)
<1> SUFFICES ASSUME Exclusive PROVE Spec => Stay!Spec
  BY DEF ImplementsTenure
<1>1. Init => Clean
  BY OrderInit
<1>2. OInv /\ TypeOK' /\ Clean /\ [Next]_vars => Clean' /\ [Stay!Next]_(Stay!vars)
  BY OrderStep DEF Onward, TurnedOn
<1>3. QED
  BY <1>1, <1>2, TenureInit, TypeCorrect, OrderInvariance, PTL DEF Spec, Stay!Spec
=============================================================================
