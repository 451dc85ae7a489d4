----------------------------- MODULE SyncSession -----------------------------
(***************************************************************************)
(* Sessions of one user: the client devices, the sync server they connect   *)
(* to and the authentication cache that lets one of them in.                *)
(*                                                                          *)
(* The sync server keeps, for the user, a list_data (the session) and an    *)
(* actno_ope (the actions to be written to the anchor files), each in a     *)
(* hash map of its own and each with a reference count, one reference per   *)
(* connection.  A connection (struct session) holds a pointer to each; the  *)
(* objects may be freed under it.  An object is named by the session id it  *)
(* was made for, so a pointer is a session id and 0 is NULL.                *)
(*                                                                          *)
(* The server is one thread: a handler, with the request to the cache it    *)
(* may wait for, is one step.  A response is sent by a later step.          *)
(***************************************************************************)
EXTENDS AuthCache, FiniteSets

CONSTANTS
    Devices,     \* client devices of the user
    Conns,       \* slots of the connection pool
    None,        \* no device
    MaxSeion,    \* bound: session ids drawn
    MaxOpens,    \* bound: connections a device opens with one answer, and
                 \* references given back that were never taken
    MaxActs,     \* bound: actions recorded
    MayRace,     \* two devices may query before the first one connects
    MayDrop,     \* a client may close a connection without FINAL END
    MayVanish,   \* connections break, devices die
    MayLapse,    \* the lease of a locked account may run out
    MayLose,     \* a request to the cache or its reply may get lost
    MayRepeat,   \* a request may be executed and then sent again
    MayFailDisk, \* the anchor files may fail
    MayClear,    \* an administrator may clear all users
    MayCrash     \* the server process may die and be started again

ASSUME SetAssumption ==
    /\ IsFiniteSet(Devices) /\ IsFiniteSet(Conns)
    /\ None \notin Devices

ASSUME BoundAssumption ==
    /\ MaxSeion \in Nat /\ MaxOpens \in Nat /\ MaxActs \in Nat

ASSUME FaultAssumption ==
    {MayRace, MayDrop, MayVanish, MayLapse, MayLose, MayRepeat,
     MayFailDisk, MayClear, MayCrash} \subseteq BOOLEAN

VARIABLES
    acct,   \* the account in the authentication cache
    dev,    \* the devices
    conn,   \* the server's connections, with their struct session
    ldata,  \* list_data objects, freed ones included
    lcur,   \* the one in _ldata_hm_, or 0
    aope,   \* actno_ope objects, freed ones included
    acur,   \* the one in _anchope_hm_, or 0
    idx,    \* the last anchor number in the anchor index file
    acd,    \* actions written to the anchor data file
    done    \* actions the server has carried out so far

vars == <<acct, dev, conn, ldata, lcur, aope, acur, idx, acd, done>>

Seions == 1..MaxSeion

NoSession == [refer |-> 0, anchor |-> 0, cached |-> FALSE, valid |-> 0]
NoActions == [refer |-> 0, acts |-> 0]
Asleep == [owner |-> None, due |-> "sleep", method |-> "none", lp |-> 0, ap |-> 0]
Idle == [pc |-> "idle", valid |-> 0, seion |-> 0, put |-> FALSE, left |-> 0]

Init ==
    /\ acct = NewAccount
    /\ dev = [d \in Devices |-> Idle]
    /\ conn = [c \in Conns |-> Asleep]
    /\ ldata = [s \in Seions |-> NoSession]
    /\ lcur = 0
    /\ aope = [s \in Seions |-> NoActions]
    /\ acur = 0
    /\ idx = 0 /\ acd = 0 /\ done = 0

(***************************************************************************)
(* A connection is asleep in the pool; accepted but silent ("hello");       *)
(* refused ("denied"); in service ("open"); or a response is due to an      *)
(* action ("reply") or to a FINAL ("over").  method is the last request of  *)
(* the slot, also of an earlier connection: it selects the handlers.        *)
(***************************************************************************)
Dues == {"sleep", "hello", "denied", "open", "reply", "over"}
Methods == {"none", "initial", "get", "act", "put", "final"}
Active == {c \in Conns : conn[c].due # "sleep"}
Holders == {c \in Conns : conn[c].due \in {"open", "reply"}}
Owned(d) == {c \in Active : conn[c].owner = d}

\* EVENT_DEL: the slot goes back to the pool, its struct session as it is.
Closed(c) == [conn EXCEPT ![c].due = "sleep", ![c].owner = None]
Now(c, due, method) == [conn EXCEPT ![c].due = due, ![c].method = method]

(***************************************************************************)
(* A request to the cache: executed once, lost before or after it is        *)
(* executed, or executed again because the first reply was lost.            *)
(***************************************************************************)
Sent(a, once, twice) ==
    {once} \cup (IF MayLose THEN {a} ELSE {})
           \cup (IF MayRepeat THEN {twice} ELSE {})

SetAnchor(v, anchor) ==
    LET once == AfterSetAnchor(acct, v, anchor)
    IN  Sent(acct, once, AfterSetAnchor(once, v, anchor))

Unlock(v) ==
    LET once == AfterUnlock(acct, v)
    IN  Sent(acct, once, AfterUnlock(once, v))

\* What the cache is told when the session l ends without a new anchor.
Release(l) == IF l.cached THEN Unlock(l.valid) ELSE SetAnchor(l.valid, l.anchor)

(***************************************************************************)
(* Devices.  CheckUserPoolChanged asks the cache; a device the cache has    *)
(* let in opens connections with what the answer holds.                     *)
(***************************************************************************)
\* No other device holds an answer it has not used: it has none, its session
\* is open, or it only waits for the response to its last FINAL.
Unraced(d) ==
    \A e \in Devices \ {d} :
        \/ dev[e].pc = "idle"
        \/ lcur # 0 /\ dev[e].seion = lcur
        \/ dev[e].pc = "finish" /\ \E c \in Owned(e) : conn[c].due = "over"

Query(d) ==
    /\ dev[d].pc = "idle"
    /\ Answers(acct)
    /\ MayRace \/ Unraced(d)
    /\ acct.seion < MaxSeion
    /\ acct' = AfterQuery(acct)
    /\ dev' = [dev EXCEPT ![d] = [pc |-> "ready", valid |-> acct.valid,
                                  seion |-> acct.seion, put |-> FALSE,
                                  left |-> MaxOpens]]
    /\ UNCHANGED <<conn, ldata, lcur, aope, acur, idx, acd, done>>

\* LOCKED is the answer, or another device's answer is not used yet.
QueryLater(d) ==
    /\ dev[d].pc = "idle"
    /\ ~Answers(acct) \/ ~(MayRace \/ Unraced(d))
    /\ UNCHANGED vars

\* Mutant: the bound on a device's connections is one off.
AcceptMore(d, c) ==
    /\ \/ dev[d].pc = "ready" /\ dev[d].left >= 0 /\ dev' = [dev EXCEPT ![d].left = @ - 1]
       \/ dev[d].pc = "finish" /\ Owned(d) = {} /\ UNCHANGED dev
    /\ conn[c].due = "sleep"
    /\ conn' = [conn EXCEPT ![c].due = "hello", ![c].owner = d]
    /\ UNCHANGED <<acct, ldata, lcur, aope, acur, idx, acd, done>>

\* A worker's connection, or the one FinishTasksList sends its FINAL on.
Accept(d, c) ==
    /\ \/ dev[d].pc = "ready" /\ dev[d].left > 0 /\ dev' = [dev EXCEPT ![d].left = @ - 1]
       \/ dev[d].pc = "finish" /\ Owned(d) = {} /\ UNCHANGED dev
    /\ conn[c].due = "sleep"
    /\ conn' = [conn EXCEPT ![c].due = "hello", ![c].owner = d]
    /\ UNCHANGED <<acct, ldata, lcur, aope, acur, idx, acd, done>>

(***************************************************************************)
(* INITIAL.  The session of the hash map takes one more reference, before   *)
(* anything is compared; without one the cache is asked.  The cache may     *)
(* execute STATUS twice: the server then holds the second session id.       *)
(***************************************************************************)
Admitted(c, s) ==
    /\ s = dev[conn[c].owner].seion
    /\ lcur' = s
    /\ \/ acur # 0 /\ acur' = acur /\ aope' = [aope EXCEPT ![acur].refer = @ + 1]
       \/ acur = 0 /\ acur' = s /\ aope' = [aope EXCEPT ![s].refer = 1]
    /\ conn' = [Now(c, "open", "initial") EXCEPT ![c].lp = s, ![c].ap = acur']

\* opera_reconn_exception, auth_reconn_exception: both objects are freed,
\* whoever uses them, and this connection keeps the pointer.
TornDown(c, s) ==
    /\ s # dev[conn[c].owner].seion
    /\ lcur' = 0 /\ acur' = 0
    /\ aope' = IF acur = 0 THEN aope ELSE [aope EXCEPT ![acur] = NoActions]
    /\ conn' = [Now(c, "denied", "initial") EXCEPT ![c].lp = s]

\* Mutant: the second connection takes no reference.
InitialUncounted(c) ==
    LET valid == dev[conn[c].owner].valid
    IN  /\ conn[c].due = "hello" /\ conn[c].owner # None
        /\ lcur # 0
        /\ ldata' = [ldata EXCEPT ![lcur].valid = valid]
        /\ Admitted(c, lcur) \/ TornDown(c, lcur)
        /\ UNCHANGED <<acct, dev, idx, acd, done>>

InitialKnown(c) ==
    LET valid == dev[conn[c].owner].valid
    IN  /\ conn[c].due = "hello" /\ conn[c].owner # None
        /\ lcur # 0
        /\ ldata' = [ldata EXCEPT ![lcur].refer = @ + 1, ![lcur].valid = valid]
        /\ Admitted(c, lcur) \/ TornDown(c, lcur)
        /\ UNCHANGED <<acct, dev, idx, acd, done>>

\* The session a STATUS reply of account a starts.
Started(a, valid) ==
    [refer |-> 1, valid |-> valid, cached |-> a.cached # 0,
     anchor |-> IF a.cached = 0 THEN idx ELSE a.cached]

InitialNew(c) ==
    LET valid == dev[conn[c].owner].valid
    IN  /\ conn[c].due = "hello" /\ conn[c].owner # None
        /\ lcur = 0
        /\ valid = acct.valid
        /\ acct.seion < MaxSeion
        /\ \E again \in IF MayRepeat THEN {FALSE, TRUE} ELSE {FALSE} :
              LET a == IF again THEN AfterStatus(acct, valid) ELSE acct
              IN  /\ acct' = AfterStatus(a, valid)
                  /\ ldata' = [ldata EXCEPT ![a.seion] = Started(a, valid)]
                  /\ Admitted(c, a.seion) \/ TornDown(c, a.seion)
        /\ UNCHANGED <<dev, idx, acd, done>>

\* The cache refuses, or its reply does not arrive.  The pointers of the
\* connection that used the slot before stay in struct session.
InitialRefused(c) ==
    LET valid == dev[conn[c].owner].valid
    IN  /\ conn[c].due = "hello" /\ conn[c].owner # None
        /\ lcur = 0
        /\ \/ valid # acct.valid /\ UNCHANGED acct
           \/ MayLose /\ acct.seion < MaxSeion
              /\ acct' \in {acct, AfterStatus(acct, valid)}
        /\ conn' = Now(c, "denied", "initial")
        /\ UNCHANGED <<dev, ldata, lcur, aope, acur, idx, acd, done>>

(***************************************************************************)
(* A handler finds the hash map entries by the uid it reads through         *)
(* seion->ldata.  Once that object is freed its memory may still hold the   *)
(* uid or may hold anything: the choice is made once per handler.           *)
(***************************************************************************)
FindsUser(c) == IF conn[c].lp = lcur THEN {TRUE} ELSE {FALSE, TRUE}

\* Mutant: only the reference to the session is given back.
ReleasedOne(finds) ==
    /\ ldata' = IF finds /\ lcur # 0 THEN [ldata EXCEPT ![lcur].refer = @ - 1]
                ELSE ldata
    /\ aope' = aope

\* Both reference counts, one less.
Released(finds) ==
    /\ ldata' = IF finds /\ lcur # 0 THEN [ldata EXCEPT ![lcur].refer = @ - 1]
                ELSE ldata
    /\ aope' = IF finds /\ acur # 0 THEN [aope EXCEPT ![acur].refer = @ - 1]
               ELSE aope

\* The server process dies and master_process_cycle starts another.
Restarted ==
    /\ conn' = [c \in Conns |-> Asleep]
    /\ ldata' = [s \in Seions |-> NoSession]
    /\ aope' = [s \in Seions |-> NoActions]
    /\ lcur' = 0 /\ acur' = 0
    /\ dev' = [d \in Devices |-> IF Owned(d) # {} /\ dev[d].pc = "finish"
                                 THEN Idle ELSE dev[d]]

Crash ==
    /\ MayCrash
    /\ Restarted
    /\ UNCHANGED <<acct, idx, acd, done>>

(***************************************************************************)
(* Requests of an open connection.  Any may keep the lease alive.  What a   *)
(* request changes in the pool is recorded when the body has arrived        *)
(* ("put", PUT of a file) or when its response is sent ("act": POST, COPY,  *)
(* MOVE, DELETE); "get" stands for the requests that only read.             *)
(***************************************************************************)
Request(d, c, method) ==
    /\ conn[c].owner = d /\ conn[c].due = "open"
    /\ dev[d].pc = "ready"
    /\ method # "get" =>
         done + Cardinality({b \in Conns : conn[b].due = "reply"}) < MaxActs
    /\ acct' \in {acct, AfterKeepAlive(acct, ldata[conn[c].lp].valid)}
    /\ dev' = [dev EXCEPT ![d].put = @ \/ method # "get"]
    /\ conn' = Now(c, "reply", method)
    /\ UNCHANGED <<ldata, lcur, aope, acur, idx, acd, done>>

\* The list of the object the connection points to takes the action; a freed
\* one has no hash tables: the action is lost or the server dies.
Reply(c) ==
    /\ conn[c].due = "reply"
    /\ done' = IF conn[c].method = "get" THEN done ELSE done + 1
    /\ \/ /\ aope' = IF conn[c].ap = acur /\ conn[c].method # "get"
                     THEN [aope EXCEPT ![acur].acts = @ + 1] ELSE aope
          /\ conn' = Now(c, "open", conn[c].method)
          /\ UNCHANGED <<dev, ldata, lcur, acur>>
       \/ conn[c].ap # acur /\ conn[c].method # "get" /\ Restarted
    /\ UNCHANGED <<acct, idx, acd>>

(***************************************************************************)
(* FINAL.  END gives the references back, and frees nothing at 0.           *)
(***************************************************************************)
\* Mutant: END releases the account as well.
FinalEndReleases(d, c) ==
    /\ conn[c].owner = d /\ conn[c].due = "open" /\ dev[d].pc = "ready"
    /\ \E finds \in FindsUser(c) : Released(finds)
    /\ acct' \in Release(ldata[conn[c].lp])
    /\ conn' = Now(c, "over", "final")
    /\ UNCHANGED <<dev, lcur, acur, idx, acd, done>>

FinalEnd(d, c) ==
    /\ conn[c].owner = d /\ conn[c].due = "open" /\ dev[d].pc = "ready"
    /\ \E finds \in FindsUser(c) : Released(finds)
    /\ conn' = Now(c, "over", "final")
    /\ UNCHANGED <<acct, dev, lcur, acur, idx, acd, done>>

\* Mutant: the actions stay in their hash map.
DissolvedHalf(c, finds, told) ==
    /\ IF finds /\ lcur # 0 THEN acct' \in told /\ lcur' = 0
                            ELSE UNCHANGED <<acct, lcur>>
    /\ UNCHANGED <<aope, acur>>
    /\ conn' = [Now(c, "over", "final") EXCEPT ![c].lp = 0]

\* The connection's session and actions leave the hash maps.
Dissolved(c, finds, told) ==
    /\ IF finds /\ lcur # 0 THEN acct' \in told /\ lcur' = 0
                            ELSE UNCHANGED <<acct, lcur>>
    /\ IF finds /\ acur # 0
       THEN aope' = [aope EXCEPT ![acur] = NoActions] /\ acur' = 0
       ELSE UNCHANGED <<aope, acur>>
    /\ conn' = [Now(c, "over", "final") EXCEPT ![c].lp = 0]

Listed(c) == IF acur # 0 /\ conn[c].ap = acur THEN aope[acur].acts ELSE 0

\* Mutant: the list is freed without being written.
FinalUnwritten(d, c) ==
    /\ conn[c].owner = d /\ conn[c].due = "open" /\ dev[d].pc = "finish"
    /\ idx' = idx + 1
    /\ \E finds \in FindsUser(c) :
         Dissolved(c, finds, SetAnchor(ldata[conn[c].lp].valid, idx + 1))
    /\ UNCHANGED <<dev, ldata, acd, done>>

\* Mutant: the cache is told the anchor before this one.
FinalStale(d, c) ==
    /\ conn[c].owner = d /\ conn[c].due = "open" /\ dev[d].pc = "finish"
    /\ acd' = acd + Listed(c)
    /\ idx' = idx + 1
    /\ \E finds \in FindsUser(c) :
         Dissolved(c, finds, SetAnchor(ldata[conn[c].lp].valid, idx))
    /\ UNCHANGED <<dev, ldata, done>>

\* Mutant: the cache is told the new anchor, the index file is not.
FinalUnindexed(d, c) ==
    /\ conn[c].owner = d /\ conn[c].due = "open" /\ dev[d].pc = "finish"
    /\ acd' = acd + Listed(c)
    /\ \E finds \in FindsUser(c) :
         Dissolved(c, finds, SetAnchor(ldata[conn[c].lp].valid, idx + 1))
    /\ UNCHANGED <<dev, ldata, idx, done>>

FinalSuccess(d, c) ==
    /\ conn[c].owner = d /\ conn[c].due = "open" /\ dev[d].pc = "finish"
    /\ \/ /\ acd' = acd + Listed(c)
          /\ idx' = idx + 1
          /\ \E finds \in FindsUser(c) :
               Dissolved(c, finds, SetAnchor(ldata[conn[c].lp].valid, idx + 1))
          /\ UNCHANGED <<dev, ldata>>
       \/ conn[c].ap # acur /\ Restarted /\ UNCHANGED <<acct, idx, acd>>
    /\ UNCHANGED done

\* flush_anch_list, addi_anchor or reset_capacity fails: an error is answered
\* and what was done before it stays.
FinalFails(d, c) ==
    /\ MayFailDisk
    /\ conn[c].owner = d /\ conn[c].due = "open" /\ dev[d].pc = "finish"
    /\ \/ UNCHANGED <<acd, idx>>
       \/ acd' = acd + Listed(c) /\ idx' \in {idx, idx + 1}
    /\ conn' = Now(c, "over", "final")
    /\ UNCHANGED <<acct, dev, ldata, lcur, aope, acur, done>>

\* FINISH: the device changed nothing, or its round failed and what it changed
\* is dropped.
FinalFinish(d, c) ==
    /\ conn[c].owner = d /\ conn[c].due = "open" /\ dev[d].pc = "finish"
    /\ \E finds \in FindsUser(c) :
         Dissolved(c, finds, Release(ldata[conn[c].lp]))
    /\ UNCHANGED <<dev, ldata, idx, acd, done>>

\* The response to a FINAL is sent and the server closes the connection.
Over(c) ==
    /\ conn[c].due = "over"
    /\ conn' = Closed(c)
    /\ dev' = [d \in Devices |-> IF conn[c].owner = d /\ dev[d].pc = "finish"
                                THEN Idle ELSE dev[d]]
    /\ UNCHANGED <<acct, ldata, lcur, aope, acur, idx, acd, done>>

(***************************************************************************)
(* Clients close without END: the server only frees the slot.               *)
(***************************************************************************)
Drop(d, c) ==
    /\ conn[c].owner = d /\ conn[c].due = "open" /\ dev[d].pc = "ready"
    /\ MayDrop
    /\ conn' = Closed(c)
    /\ UNCHANGED <<acct, dev, ldata, lcur, aope, acur, idx, acd, done>>

DropDenied(d, c) ==
    /\ conn[c].owner = d /\ conn[c].due = "denied"
    /\ conn' = Closed(c)
    /\ dev' = IF Owned(d) = {c} THEN [dev EXCEPT ![d] = Idle] ELSE dev
    /\ UNCHANGED <<acct, ldata, lcur, aope, acur, idx, acd, done>>

\* Mutant: the last request is sent while other workers are still connected.
BeginFinishEarly(d) ==
    /\ dev[d].pc = "ready"
    /\ dev' = [dev EXCEPT ![d].pc = "finish"]
    /\ UNCHANGED <<acct, conn, ldata, lcur, aope, acur, idx, acd, done>>

\* Every worker is done; FinishTasksList opens one more connection.
BeginFinish(d) ==
    /\ dev[d].pc = "ready" /\ Owned(d) = {}
    /\ dev' = [dev EXCEPT ![d].pc = "finish"]
    /\ UNCHANGED <<acct, conn, ldata, lcur, aope, acur, idx, acd, done>>

(***************************************************************************)
(* Faults.  A broken connection stays in the pool until the server notices: *)
(* by an error, a hang-up or the timer.                                     *)
(***************************************************************************)
Vanish(c) ==
    /\ MayVanish
    /\ c \in Active /\ conn[c].owner # None
    /\ conn' = [conn EXCEPT ![c].owner = None]
    /\ dev' = [d \in Devices |-> IF conn[c].owner = d /\ dev[d].pc = "finish"
                                THEN Idle ELSE dev[d]]
    /\ UNCHANGED <<acct, ldata, lcur, aope, acur, idx, acd, done>>

\* The device is switched off, or gives the synchronisation up.
Quit(d) ==
    /\ MayVanish
    /\ dev[d].pc # "idle"
    /\ dev' = [dev EXCEPT ![d] = Idle]
    /\ conn' = [c \in Conns |-> IF c \in Owned(d)
                               THEN [conn[c] EXCEPT !.owner = None] ELSE conn[c]]
    /\ UNCHANGED <<acct, ldata, lcur, aope, acur, idx, acd, done>>

(***************************************************************************)
(* The excep handler of the connection's last method, then EVENT_DEL.  It   *)
(* writes the list of the connection's object when the object in the hash   *)
(* map has one reference, and gives one reference back; the last one frees  *)
(* the object and releases the account.  A PUT is completed with what has   *)
(* arrived and recorded.                                                    *)
(***************************************************************************)
LastReference(finds) == finds /\ acur # 0 /\ aope[acur].refer = 1

\* A handler or pointer that is still NULL.
Unset(c, finds) ==
    \/ conn[c].method = "none"
    \/ conn[c].lp = 0
    \/ LastReference(finds) /\ conn[c].ap = 0

Unwound(c, finds) ==
    LET l == IF finds THEN lcur ELSE 0
        a == IF finds THEN acur ELSE 0
        putting == conn[c].due = "reply" /\ conn[c].method = "put"
    IN  /\ \/ acd' = IF LastReference(finds) THEN acd + Listed(c) ELSE acd
           \/ MayFailDisk /\ acd' = acd
        /\ IF l # 0 /\ ldata[l].refer = 1
           THEN acct' \in Release(ldata[conn[c].lp])
           ELSE acct' = acct
        /\ done' = IF putting THEN done + 1 ELSE done
        /\ \/ /\ ldata' = IF l = 0 THEN ldata ELSE [ldata EXCEPT ![l].refer = @ - 1]
              /\ lcur' = IF l # 0 /\ ldata[l].refer = 1 THEN 0 ELSE lcur
              /\ LET left == IF a = 0 THEN aope
                             ELSE IF aope[a].refer = 1 THEN [aope EXCEPT ![a] = NoActions]
                             ELSE [aope EXCEPT ![a].refer = @ - 1]
                 IN  /\ acur' = IF LastReference(finds) THEN 0 ELSE acur
                     /\ aope' = IF putting /\ acur' # 0 /\ conn[c].ap = acur'
                                THEN [left EXCEPT ![acur'].acts = @ + 1] ELSE left
              /\ conn' = Closed(c)
              /\ dev' = [d \in Devices |-> IF conn[c].owner = d /\ dev[d].pc = "finish"
                                          THEN Idle ELSE dev[d]]
           \* The temporary file of a PUT is closed (NULL) once it is answered,
           \* and its object may just have been freed.
           \/ /\ conn[c].method = "put"
              /\ putting => conn[c].ap # acur \/ LastReference(finds)
              /\ Restarted

\* The count of references is as far below zero as the bound lets it be.
Underrun == lcur # 0 /\ ldata[lcur].refer <= -MaxOpens

Exception(c) ==
    /\ MayVanish /\ ~Underrun
    /\ c \in Active
    /\ \E finds \in FindsUser(c) :
         \/ Unset(c, finds) /\ Restarted /\ UNCHANGED <<acct, acd, done>>
         \/ ~Unset(c, finds) /\ Unwound(c, finds)
    /\ UNCHANGED idx

(***************************************************************************)
(* The lease of the account and the administrator.                          *)
(***************************************************************************)
Lapse ==
    /\ MayLapse
    /\ acct.locked /\ ~acct.lapsed
    /\ acct' = [acct EXCEPT !.lapsed = TRUE]
    /\ UNCHANGED <<dev, conn, ldata, lcur, aope, acur, idx, acd, done>>

Erase ==
    /\ ~acct.locked
    /\ acct.seion < MaxSeion
    /\ acct' = AfterErase(acct)
    /\ UNCHANGED <<dev, conn, ldata, lcur, aope, acur, idx, acd, done>>

Clear ==
    /\ MayClear
    /\ acct.seion < MaxSeion
    /\ acct' = AfterClear(acct)
    /\ UNCHANGED <<dev, conn, ldata, lcur, aope, acur, idx, acd, done>>

\* Nothing more is explored: every session id the bound allows is drawn, or
\* the exceptions went as far as it lets them.
Exhausted == (acct.seion >= MaxSeion \/ Underrun) /\ UNCHANGED vars

Client(d) ==
    \/ Query(d) \/ BeginFinish(d)
    \/ \E c \in Conns :
         \/ Accept(d, c)
         \/ \E method \in {"get", "act", "put"} : Request(d, c, method)
         \/ FinalEnd(d, c) \/ FinalSuccess(d, c) \/ FinalFails(d, c)
         \/ FinalFinish(d, c) \/ Drop(d, c) \/ DropDenied(d, c)

Server(c) ==
    \/ InitialKnown(c) \/ InitialNew(c) \/ InitialRefused(c)
    \/ Reply(c) \/ Over(c)

Next ==
    \/ \E d \in Devices : Client(d) \/ QueryLater(d) \/ Quit(d)
    \/ \E c \in Conns : Server(c) \/ Vanish(c) \/ Exception(c)
    \/ Crash \/ Lapse \/ Erase \/ Clear \/ Exhausted

Spec == Init /\ [][Next]_vars

(***************************************************************************)
(* Type correctness; a connection in service points to both objects.        *)
(***************************************************************************)
Device == [pc : {"idle", "ready", "finish"}, valid : Nat, seion : Nat,
           put : BOOLEAN, left : Nat]
Connection == [owner : Devices \cup {None}, due : Dues, method : Methods,
               lp : Seions \cup {0}, ap : Seions \cup {0}]
ListData == [refer : Int, anchor : Nat, cached : BOOLEAN, valid : Nat]
ActnoOpe == [refer : Int, acts : Nat]

TypeOK ==
    /\ acct \in Account /\ acct.seion > 0
    /\ dev \in [Devices -> Device]
    /\ conn \in [Conns -> Connection]
    /\ ldata \in [Seions -> ListData]
    /\ aope \in [Seions -> ActnoOpe]
    /\ lcur \in Seions \cup {0} /\ acur \in Seions \cup {0}
    /\ idx \in Nat /\ acd \in Nat /\ done \in Nat
    /\ \A c \in Holders : conn[c].lp # 0 /\ conn[c].ap # 0

Refer(heap, cur) == IF cur = 0 THEN 0 ELSE heap[cur].refer

(***************************************************************************)
(* The two hash maps hold the user together and count the same references,  *)
(* whatever fails: every handler that touches one map touches the other.    *)
(***************************************************************************)
Lockstep ==
    /\ (lcur = 0) <=> (acur = 0)
    /\ Refer(ldata, lcur) = Refer(aope, acur)

(***************************************************************************)
(* No handler works on a freed session: a connection in service points to   *)
(* the objects in the hash maps.                                            *)
(***************************************************************************)
NoDangling == \A c \in Holders : conn[c].lp = lcur /\ conn[c].ap = acur

(***************************************************************************)
(* The session is not released while a connection uses it: there is a       *)
(* reference for each.                                                      *)
(***************************************************************************)
ReferCovers ==
    Refer(ldata, lcur) >= Cardinality({c \in Holders : conn[c].lp = lcur})

(***************************************************************************)
(* One device at a time is in service, and the cache knows it is locked.    *)
(***************************************************************************)
OneDevice ==
    /\ \A b, c \in Holders : conn[b].owner = conn[c].owner
    /\ lcur # 0 => acct.locked

(***************************************************************************)
(* A free account that has an anchor has the last one of the anchor index:  *)
(* CheckUserPoolChanged decides by it that there is nothing to synchronise. *)
(***************************************************************************)
CacheCoherent ==
    ~acct.locked /\ acct.cached # 0 => acct.cached = idx

\* The actions that the last FINAL writes.
Waiting == IF acur = 0 THEN 0 ELSE aope[acur].acts

\* Actions carried out that are neither in the data file nor in the list.
Lost == done - (acd + Waiting)

\* A device that changed files ends its stay with FINISH: its round failed.
GivesUp == \E d \in Devices, c \in Conns : dev[d].put /\ FinalFinish(d, c)

(***************************************************************************)
(* An action carried out goes into the list and from there into the anchor  *)
(* data file; it leaves the list otherwise only when a device whose round   *)
(* failed sends FINAL FINISH after it changed files (LIST_FINISH_FAILED).  *)
(* No other step loses one, nor a FINISH after a stay that changed nothing. *)
(***************************************************************************)
NothingLost == [][Lost' = Lost \/ GivesUp]_vars

(***************************************************************************)
(* The cache counts a sync server's locked accounts, so that clear_server   *)
(* removes a server only when it serves nobody.                             *)
(***************************************************************************)
ServerCount == acct.refer = IF acct.locked THEN 1 ELSE 0

(***************************************************************************)
(* A device that only waits for the response to its last FINAL, and one that*)
(* has still to use its answer.                                             *)
(***************************************************************************)
Leaving(d) ==
    dev[d].pc = "finish" /\ \E c \in Conns : conn[c].owner = d /\ conn[c].due = "over"
Live(d) == dev[d].pc # "idle" /\ ~Leaving(d)

(***************************************************************************)
(* Sessions implement Tenure: the device that is in is the one for whose    *)
(* answer there is a session.  What the cache, the server and the files do  *)
(* in a FINAL is one step for everybody else.                               *)
(***************************************************************************)
Inside == {d \in Devices : lcur # 0 /\ Live(d)}

Stay == INSTANCE Tenure WITH
    locked <- acct.locked,
    inside <- Inside,
    waiting <- Waiting,
    written <- acd,
    anchor <- idx,
    cached <- acct.cached

ImplementsTenure == Stay!Spec

(***************************************************************************)
(* Whatever fails, the cache never announces an anchor the anchor index     *)
(* does not hold yet, and no session is about to make it do so.             *)
(***************************************************************************)
CacheNeverAhead ==
    /\ acct.cached <= idx
    /\ \A s \in Seions : ldata[s].anchor <= idx

(***************************************************************************)
(* With disks that hold, no action is written twice, nor written and kept,  *)
(* whatever connections, requests and processes do.                         *)
(***************************************************************************)
WrittenOnce == acd + Waiting <= done

(***************************************************************************)
(* excep.cpp:11: "flush cached anchor if the last exception".  When the     *)
(* exception of the last connection is handled, the list is written.        *)
(***************************************************************************)
LastExceptionFlushes ==
    [][\A c \in Holders :
         (/\ Holders = {c} /\ conn[c].lp = lcur /\ conn[c].ap = acur
          /\ conn[c].owner = None /\ conn' = Closed(c))
         => acd' = acd + aope[acur].acts]_vars

(***************************************************************************)
(* Fairness: the server answers, and a device goes through with what it     *)
(* began.  Its lists of tasks are finite and its retries are bounded        *)
(* (RETRY_PRODUCER_TIMES, RETRY_EXCEPTION_TIMES), so it does not send       *)
(* requests for ever: strong fairness of the endings of a connection.       *)
(***************************************************************************)
Fairness ==
    /\ \A c \in Conns : WF_vars(Server(c))
    /\ \A d \in Devices :
         /\ WF_vars(BeginFinish(d))
         /\ WF_vars(\E c \in Conns : dev[d].pc = "finish" /\ Accept(d, c))
         /\ \A c \in Conns :
              /\ SF_vars(FinalEnd(d, c) \/ Drop(d, c))
              /\ WF_vars(FinalSuccess(d, c) \/ FinalFinish(d, c) \/ DropDenied(d, c))

FairSpec == Spec /\ Fairness

(***************************************************************************)
(* A locked account is unlocked, with nothing but the devices' own FINAL.   *)
(***************************************************************************)
Unlocked == acct.locked ~> ~acct.locked
=============================================================================
