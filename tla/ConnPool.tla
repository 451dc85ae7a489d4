------------------------------- MODULE ConnPool -------------------------------
(***************************************************************************)
(* The connection pool and the event loop of the sync server (evd_list.cpp, *)
(* epoll_serv.cpp).  Slots lie on two circular lists, active and sleep; the *)
(* timer looks at a few active ones at a time, from chkpos on; epoll_wait   *)
(* returns a batch of events that are handled one by one.  What a handler   *)
(* does to its session is in SyncSession: here it serves or closes.         *)
(***************************************************************************)
EXTENDS Integers, Sequences, FiniteSets

CONSTANTS
    SlotCount,  \* max_connecting
    CheckTotal, \* entries the timer looks at, max_connecting >> 3
    FdCount     \* bound: descriptors of the process

ASSUME PoolAssumption ==
    SlotCount \in Nat \ {0} /\ CheckTotal \in Nat /\ FdCount \in Nat \ {0}

VARIABLES
    active, \* the circular list, from its head along next
    sleep,  \* the other one
    chkpos, \* where the timer goes on, 0 for NULL
    sockfd, \* the descriptor number in the slot; it stays when it is closed
    file,   \* the slot a descriptor is registered for with epoll
    silent, \* now - last_active >= time_out
    due,    \* slots with an event in the batch
    tick,   \* the timer is in the batch
    knock,  \* the listening socket is in the batch
    scan,   \* the timer's loop
    astray  \* history: a handler ran for a slot that had lost its descriptor

vars == <<active, sleep, chkpos, sockfd, file, silent, due, tick, knock, scan,
          astray>>

Slots == 1..SlotCount
Fds == 1..FdCount
Closed == -1    \* a free descriptor number
Leaked == 0     \* open, but nobody's
NoScan == [pos |-> 0, first |-> 0, count |-> 0]

On(list) == {list[i] : i \in 1..Len(list)}

\* CDL_APPEND makes the entry the head; CDL_DELETE keeps the others in order.
Pushed(list, s) == <<s>> \o list
Without(list, s) ==
    LET at == CHOOSE i \in 1..Len(list) : list[i] = s
    IN  [i \in 1..(Len(list) - 1) |-> list[IF i < at THEN i ELSE i + 1]]
NextOf(list, s) ==
    LET at == CHOOSE i \in 1..Len(list) : list[i] = s
    IN  IF at = Len(list) THEN list[1] ELSE list[at + 1]

Init ==
    /\ active = <<>>
    /\ sleep = [i \in Slots |-> SlotCount + 1 - i]
    /\ chkpos = 0
    /\ sockfd = [s \in Slots |-> 0]
    /\ file = [f \in Fds |-> Closed]
    /\ silent = [s \in Slots |-> FALSE]
    /\ due = {} /\ tick = FALSE /\ knock = FALSE
    /\ scan = NoScan
    /\ astray = FALSE

Scanning == scan.pos # 0

\* epoll_wait: some of the slots, the timer and the listening socket.
Wait ==
    /\ due = {} /\ ~tick /\ ~knock /\ ~Scanning
    /\ due' \in SUBSET {s \in Slots : \E f \in Fds : file[f] = s}
    /\ tick' \in BOOLEAN /\ knock' \in BOOLEAN
    /\ UNCHANGED <<active, sleep, chkpos, sockfd, file, silent, scan, astray>>

(***************************************************************************)
(* ACCEPT_CONNECT takes one connection after the other until none is left.  *)
(* A descriptor gets the lowest free number.  Without a sleeping slot the   *)
(* descriptor is forgotten, and never closed.                               *)
(***************************************************************************)
FreeFds == {f \in Fds : file[f] = Closed}

Admit(f) ==
    LET s == Head(sleep)
    IN  /\ sleep # <<>>
        /\ sleep' = Tail(sleep)
        /\ active' = Pushed(active, s)
        /\ chkpos' = IF chkpos = 0 THEN s ELSE chkpos
        /\ sockfd' = [sockfd EXCEPT ![s] = f]
        /\ file' = [file EXCEPT ![f] = s]
        /\ silent' = [silent EXCEPT ![s] = FALSE]

Forget(f) ==
    /\ sleep = <<>>
    /\ file' = [file EXCEPT ![f] = Leaked]
    /\ UNCHANGED <<active, sleep, chkpos, sockfd, silent>>

Accept ==
    /\ knock /\ ~Scanning
    /\ knock' \in BOOLEAN
    /\ \E f \in FreeFds : (\A g \in FreeFds : f <= g) /\ (Admit(f) \/ Forget(f))
    /\ UNCHANGED <<due, tick, scan, astray>>

AcceptFails ==
    /\ knock /\ ~Scanning
    /\ FreeFds = {}
    /\ knock' = FALSE
    /\ UNCHANGED <<active, sleep, chkpos, sockfd, file, silent, due, tick, scan,
                   astray>>

(***************************************************************************)
(* EVENT_DEL closes whatever the slot's descriptor number stands for now,   *)
(* and set_levd_list puts the slot to sleep, when it is active.             *)
(***************************************************************************)
Closes(s) ==
    file' = IF sockfd[s] \in Fds THEN [file EXCEPT ![sockfd[s]] = Closed] ELSE file

\* Mutant: a slot that is not on the active list is put on the other again.
UnlinksAny(s) ==
    /\ chkpos' = IF chkpos # s THEN chkpos
                 ELSE IF Len(active) = 1 THEN 0 ELSE NextOf(active, s)
    /\ active' = IF s \in On(active) THEN Without(active, s) ELSE active
    /\ sleep' = Pushed(sleep, s)

\* Mutant: chkpos is left where it is.
UnlinksOnly(s) ==
    IF s \notin On(active) THEN UNCHANGED <<active, sleep, chkpos>>
    ELSE /\ active' = Without(active, s)
         /\ sleep' = Pushed(sleep, s)
         /\ chkpos' = chkpos

Unlinks(s) ==
    IF s \notin On(active) THEN UNCHANGED <<active, sleep, chkpos>>
    ELSE /\ chkpos' = IF chkpos # s THEN chkpos
                      ELSE IF Len(active) = 1 THEN 0 ELSE NextOf(active, s)
         /\ active' = Without(active, s)
         /\ sleep' = Pushed(sleep, s)

\* Mutant: the slot is put to sleep, its descriptor stays open.
DeletedOpen(s) == Unlinks(s) /\ UNCHANGED file

Deleted(s) == Closes(s) /\ Unlinks(s)

(***************************************************************************)
(* The event of a slot is handled with the descriptor number the slot has   *)
(* now: data are served, there is nothing to do (EAGAIN, EINTR), or the     *)
(* connection is closed: its end, an error, a hang-up.  The slot may have   *)
(* been put to sleep, or to sleep and into service again, since epoll_wait; *)
(* its number may by now be that of another connection.                     *)
(***************************************************************************)
Own(s) == sockfd[s] \in Fds /\ file[sockfd[s]] = s
Open(s) == sockfd[s] \in Fds /\ file[sockfd[s]] # Closed

Event(s) ==
    /\ s \in due /\ ~Scanning
    /\ due' = due \ {s}
    /\ astray' = (astray \/ ~Own(s))
    /\ UNCHANGED <<sockfd, tick, knock, scan>>

Serve(s) ==
    /\ Event(s)
    /\ Open(s)
    /\ silent' = [silent EXCEPT ![s] = FALSE]
    /\ UNCHANGED <<active, sleep, chkpos, file>>

Nothing(s) ==
    /\ Event(s)
    /\ Open(s)
    /\ UNCHANGED <<active, sleep, chkpos, file, silent>>

Close(s) ==
    /\ Event(s)
    /\ Deleted(s)
    /\ UNCHANGED silent

(***************************************************************************)
(* CHECK_TIMEOUT: from chkpos on, at most CheckTotal entries, until the     *)
(* first entry that was left alone comes round again.                       *)
(***************************************************************************)
Timer ==
    /\ tick /\ ~Scanning
    /\ tick' = FALSE
    /\ scan' = [NoScan EXCEPT !.pos = IF CheckTotal = 0 THEN 0 ELSE chkpos]
    /\ UNCHANGED <<active, sleep, chkpos, sockfd, file, silent, due, knock, astray>>

\* Mutant: one entry more.
MoreThan(count) == count < CheckTotal

More(count) == count + 1 < CheckTotal

\* Mutant: the walk ends at the first entry that is left alone.
AfterSurvivor(nxt, first) == IF first = 0 THEN nxt ELSE 0

After(nxt, first) == IF nxt = first THEN 0 ELSE nxt

Check ==
    /\ Scanning
    /\ LET s == scan.pos
           nxt == IF NextOf(active, s) = s THEN 0 ELSE NextOf(active, s)
           first == IF ~silent[s] /\ scan.first = 0 THEN s ELSE scan.first
       IN  /\ IF silent[s] THEN Deleted(s)
              ELSE UNCHANGED <<active, sleep, chkpos, file>>
           /\ scan' = IF More(scan.count) /\ After(nxt, first) # 0
                      THEN [pos |-> nxt, first |-> first, count |-> scan.count + 1]
                      ELSE NoScan
           /\ astray' = (astray \/ (silent[s] /\ ~Own(s)))
    /\ UNCHANGED <<sockfd, silent, due, tick, knock>>

\* Time passes.
Age(s) ==
    /\ s \in On(active) /\ ~silent[s] /\ ~Scanning
    /\ silent' = [silent EXCEPT ![s] = TRUE]
    /\ UNCHANGED <<active, sleep, chkpos, sockfd, file, due, tick, knock, scan,
                   astray>>

Handle(s) == Serve(s) \/ Nothing(s) \/ Close(s)

Next ==
    \/ Wait \/ Accept \/ AcceptFails \/ Timer \/ Check
    \/ \E s \in Slots : Handle(s) \/ Age(s)

Spec == Init /\ [][Next]_vars

(***************************************************************************)
(* Types; the timer looks at no more entries than it should.                *)
(***************************************************************************)
TypeOK ==
    /\ active \in Seq(Slots) /\ sleep \in Seq(Slots)
    /\ chkpos \in Slots \cup {0}
    /\ sockfd \in [Slots -> Fds \cup {0}]
    /\ file \in [Fds -> Slots \cup {Closed, Leaked}]
    /\ silent \in [Slots -> BOOLEAN]
    /\ due \subseteq Slots
    /\ tick \in BOOLEAN /\ knock \in BOOLEAN /\ astray \in BOOLEAN
    /\ scan \in [pos : Slots \cup {0}, first : Slots \cup {0}, count : Nat]
    /\ Scanning => scan.count < CheckTotal

(***************************************************************************)
(* Every slot is on one of the two lists, once, whatever events reach it    *)
(* after it was closed; the timer's pointer and its walk stay on the active *)
(* list.                                                                    *)
(***************************************************************************)
Distinct(list) == \A i, j \in 1..Len(list) : list[i] = list[j] => i = j

Partition ==
    /\ Distinct(active) /\ Distinct(sleep)
    /\ On(active) \cap On(sleep) = {}
    /\ On(active) \cup On(sleep) = Slots

ChkposActive ==
    /\ (chkpos = 0) <=> (active = <<>>)
    /\ chkpos # 0 => chkpos \in On(active)
    /\ \A s \in {scan.pos, scan.first} : s # 0 => s \in On(active)

Linked == Partition /\ ChkposActive

(***************************************************************************)
(* As long as no event reaches a slot that was closed after epoll_wait      *)
(* returned it, every active slot has an open descriptor of its own, and    *)
(* epoll raises events for active slots only.                               *)
(***************************************************************************)
OwnDescriptor ==
    ~astray => /\ \A s \in On(active) : Own(s)
               /\ \A f \in Fds : file[f] \in Slots =>
                    file[f] \in On(active) /\ sockfd[file[f]] = f

(***************************************************************************)
(* Fairness: the loop's one thread goes on with its batch, and the timer,   *)
(* which is periodic, is time and again in one.                             *)
(***************************************************************************)
Loop == Accept \/ AcceptFails \/ Timer \/ Check \/ \E s \in Slots : Handle(s)

FairSpec == Spec /\ SF_vars(Wait /\ tick') /\ WF_vars(Loop)

Forgotten(s) == s \in On(active) /\ silent[s]

(***************************************************************************)
(* A connection that stays silent is closed, however the lists change under *)
(* the timer's walk, as long as the timer looks at as many entries as there *)
(* are connections.                                                         *)
(***************************************************************************)
SilentClosed ==
    \A s \in Slots : Forgotten(s) ~> ~Forgotten(s) \/ Len(active) > CheckTotal

(***************************************************************************)
(* epoll_serv.cpp:153, "sockets connect timeout check here": a connection   *)
(* that stays silent is closed, whatever the timer looks at.                *)
(***************************************************************************)
AllSilentClosed == \A s \in Slots : Forgotten(s) ~> ~Forgotten(s)
===============================================================================
