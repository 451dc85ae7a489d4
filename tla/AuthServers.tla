----------------------------- MODULE AuthServers -----------------------------
(***************************************************************************)
(* The authentication cache with several sync servers: the list of servers  *)
(* (aserv_bzl.c), the accounts each of them has locked (AuthCache), what a  *)
(* broken connection does to them (excep.c), and what the administrator and *)
(* clear_backup ask for.                                                    *)
(*                                                                         *)
(* A request names a server by address and port, and the cache dereferences *)
(* what it finds in its list: when the server is not there any more, the    *)
(* worker dies (Dies), and its master starts another one with the servers   *)
(* of the data base and no account (Restart).                               *)
(***************************************************************************)
EXTENDS AuthCache, FiniteSets, Sequences

CONSTANTS
    Servers,        \* addresses with a port
    Users,
    Configured,     \* the servers of the data base, in the order they are added
    NoServer,       \* the zeros of an account nobody has locked yet
    Rotate,         \* 16, the requests after which another server is handed out
    MaxDraws,       \* bound of the req_valids that are replaced
    MaxRefer,       \* bound of refer_inde, -1 the one below
    MaxList,        \* bound of the list
    MaxAsked,       \* bound of the answers in use at a time
    MaxHeld         \* bound of the sessions at a time

ASSUME ServersAssumption ==
    /\ IsFiniteSet(Users) /\ NoServer \notin Servers
    /\ Configured \in Seq(Servers)
    /\ \A i, j \in 1..Len(Configured) : Configured[i] = Configured[j] => i = j
    /\ Rotate \in Nat \ {0} /\ MaxDraws \in Nat /\ MaxRefer \in Nat
    /\ MaxList \in Nat /\ MaxAsked \in Nat /\ MaxHeld \in Nat

VARIABLES
    slist,      \* _serv_address_: servers with refer_inde, the newest first
    light,      \* _light_server_, a place in slist, 0 for NULL
    requ,       \* requ_tatol, modulo Rotate
    acct,       \* the accounts, without what Kept leaves out
    saddr,      \* the server of each account
    there,      \* the accounts in the hash map; the others are made on demand
    alive,      \* the worker
    said,       \* the users whose request some connection slot remembers
    asked,      \* answers to QUERY that somebody has still to use
    held,       \* sessions the sync servers have
    tool,       \* the req_valid with which clear_backup holds an account, or 0
    calm        \* nothing has happened since the start that disturbs the counts

list     == <<slist, light, requ>>
accounts == <<acct, saddr, there>>
others   == <<asked, held, tool>>
vars     == <<list, accounts, alive, said, others, calm>>

\* What QUERY answers, and what the server it names keeps of it.
Grant == [user : Users, serv : Servers, valid : Nat]

\* sserve_create: addi_server puts each in front, and the first stays light.
Started ==
    LET n == Len(Configured)
    IN  [i \in 1..n |-> [serv |-> Configured[n + 1 - i], refer |-> 0]]

Init ==
    /\ slist = Started /\ light = Len(Configured) /\ requ = 0
    /\ acct = [u \in Users |-> NewAccount]
    /\ saddr = [u \in Users |-> NoServer]
    /\ there = {} /\ alive = TRUE
    /\ said = {}
    /\ asked = {} /\ held = {} /\ tool = [u \in Users |-> 0]
    /\ calm = TRUE

(***************************************************************************)
(* The list of servers.                                                     *)
(***************************************************************************)
Listed == {slist[i].serv : i \in DOMAIN slist}

First(s) ==
    CHOOSE i \in DOMAIN slist :
        slist[i].serv = s /\ \A j \in DOMAIN slist : slist[j].serv = s => i <= j

\* addi_server; it does not look whether the server is in the list.
AddServer(s) ==
    /\ alive /\ Len(slist) < MaxList
    /\ slist' = <<[serv |-> s, refer |-> 0]>> \o slist
    /\ light' = light + 1
    /\ calm' = (calm /\ s \notin Listed)
    /\ UNCHANGED <<requ, accounts, alive, said, others>>

\* Mutant: the pointer to the light server is left where it was.
ClearServerKeepsLight(s) ==
    /\ alive /\ s \in Listed /\ slist[First(s)].refer <= 0
    /\ slist' = [i \in 1..Len(slist) - 1 |-> slist[IF i < First(s) THEN i ELSE i + 1]]
    /\ UNCHANGED <<light, requ, accounts, alive, said, others, calm>>

\* Mutant: one account more or less does not matter.
ClearServerCounted(s) ==
    /\ alive /\ s \in Listed /\ slist[First(s)].refer <= 1
    /\ slist' = [i \in 1..Len(slist) - 1 |-> slist[IF i < First(s) THEN i ELSE i + 1]]
    /\ light' = IF Len(slist) = 1 THEN 0 ELSE 1
    /\ UNCHANGED <<requ, accounts, alive, said, others, calm>>

\* clear_server_bzl: refused while the server is counted.
ClearServer(s) ==
    /\ alive /\ s \in Listed /\ slist[First(s)].refer <= 0
    /\ slist' = [i \in 1..Len(slist) - 1 |-> slist[IF i < First(s) THEN i ELSE i + 1]]
    /\ light' = IF Len(slist) = 1 THEN 0 ELSE 1
    /\ UNCHANGED <<requ, accounts, alive, said, others, calm>>

\* get_light_server: every Rotate requests the next one, after the last the first.
Lighter ==
    LET r == (requ + 1) % Rotate
    IN  /\ requ' = r
        /\ light' = CASE r # 0 -> light
                      [] r = 0 /\ light < Len(slist) -> light + 1
                      [] OTHER -> 1

(***************************************************************************)
(* The accounts.  get_adata_bzl makes one that is not in the hash map; the  *)
(* next account of a user has a new req_valid, no server and no lock.       *)
(***************************************************************************)
\* The count is kept in slist, and nothing here depends on seion_id.
Kept(b) == [b EXCEPT !.refer = 0, !.seion = 1]

Present(u) ==
    /\ u \in there \/ acct[u].valid <= MaxDraws
    /\ there' = there \cup {u}

Emptied(gone) ==
    /\ acct'  = [u \in Users |-> IF u \in gone THEN Kept(Recreated(acct[u])) ELSE acct[u]]
    /\ saddr' = [u \in Users |-> IF u \in gone THEN NoServer ELSE saddr[u]]
    /\ there' = there \ gone

\* The worker dereferences NULL, and everything it kept is gone.
Dies ==
    /\ alive' = FALSE
    /\ Emptied(there)
    /\ slist' = <<>> /\ light' = 0 /\ requ' = 0
    /\ said' = {} /\ calm' = TRUE
    /\ UNCHANGED others

(***************************************************************************)
(* A request leaves account b of user u; b.refer is what it adds to the     *)
(* count of server s, which slist_referin_next and slist_referen_decre look *)
(* for and dereference.                                                     *)
(***************************************************************************)
Counts(b)   == b.refer # 0
Falls(b, s) == Counts(b) /\ s \notin Listed

Becomes(u, b, s) ==
    /\ ~Falls(b, s) /\ b.valid <= MaxDraws + 1
    /\ Present(u)
    /\ acct' = [acct EXCEPT ![u] = Kept(b)]
    /\ said' = said \cup {u}
    /\ IF Counts(b)
       THEN LET n == slist[First(s)].refer + b.refer
            IN  n \in -1..MaxRefer /\ slist' = [slist EXCEPT ![First(s)].refer = n]
       ELSE UNCHANGED slist
    /\ UNCHANGED <<light, requ, alive>>

(***************************************************************************)
(* QUERY, from a device or clear_backup.  It disturbs the counts when it    *)
(* frees a locked account whose lease lapsed, or when it is answered while  *)
(* somebody else has still to use his answer.                               *)
(***************************************************************************)
Current(u) == {x \in asked : x.user = u /\ x.valid = acct[u].valid}

Query(u) ==
    /\ alive /\ Present(u)
    /\ acct' = [acct EXCEPT ![u] = AfterQuery(@)]
    /\ IF Answers(acct[u]) /\ light # 0
       THEN /\ Cardinality(asked) < MaxAsked
            /\ Lighter
            /\ asked' = asked \cup {[user |-> u, serv |-> slist[light'].serv,
                                     valid |-> acct[u].valid]}
            /\ calm' = (calm /\ Current(u) = {} /\ ~acct[u].locked)
       ELSE /\ calm' = (calm /\ ~(acct[u].lapsed /\ acct[u].locked))
            /\ UNCHANGED <<light, requ, asked>>
    /\ UNCHANGED <<slist, saddr, alive, said, held, tool>>

\* The access key differs and the data base does not answer (session.c:18).
QueryFails(u) == alive /\ u \in there /\ Dies

\* The device gives up, or the administrator stops clear_backup.
GiveUp(x) ==
    /\ asked' = asked \ {x}
    /\ UNCHANGED <<list, accounts, alive, said, held, tool, calm>>

(***************************************************************************)
(* The requests of sync servers.                                            *)
(***************************************************************************)
\* Mutant: the server of the account is counted, not the one that asks.
StatusOther(x) ==
    LET b == AfterStatus(acct[x.user], x.valid)
        t == IF saddr[x.user] = NoServer THEN x.serv ELSE saddr[x.user]
    IN  /\ alive /\ Cardinality(held) < MaxHeld
        /\ \/ Falls(b, t) /\ Dies
           \/ /\ Becomes(x.user, b, t)
              /\ asked' = asked \ {x}
              /\ IF Counts(b)
                 THEN saddr' = [saddr EXCEPT ![x.user] = x.serv] /\ held' = held \cup {x}
                 ELSE UNCHANGED <<saddr, held>>
              /\ UNCHANGED <<tool, calm>>

Status(x) ==
    LET b == AfterStatus(acct[x.user], x.valid)
    IN  /\ alive /\ Cardinality(held) < MaxHeld
        /\ \/ Falls(b, x.serv) /\ Dies
           \/ /\ Becomes(x.user, b, x.serv)
              /\ asked' = asked \ {x}
              /\ IF Counts(b)
                 THEN saddr' = [saddr EXCEPT ![x.user] = x.serv] /\ held' = held \cup {x}
                 ELSE UNCHANGED <<saddr, held>>
              /\ UNCHANGED <<tool, calm>>

\* send_receive_cache sends a STATUS again whose answer was lost.
StatusAgain(h) ==
    LET b == AfterStatus(acct[h.user], h.valid)
    IN  /\ alive /\ Counts(b)
        /\ \/ Falls(b, h.serv) /\ Dies
           \/ /\ Becomes(h.user, b, h.serv)
              /\ saddr' = [saddr EXCEPT ![h.user] = h.serv]
              /\ calm' = FALSE
              /\ UNCHANGED others

\* The end of a session: the account is counted down where it was counted.
Ends(h, b) ==
    /\ alive
    /\ \/ Falls(b, saddr[h.user]) /\ Dies
       \/ /\ Becomes(h.user, b, saddr[h.user])
          /\ held' = held \ {h}
          /\ UNCHANGED <<saddr, asked, tool, calm>>

SetAnchor(h) == Ends(h, AfterSetAnchor(acct[h.user], h.valid, 0))
Unlock(h)    == Ends(h, AfterUnlock(acct[h.user], h.valid))

KeepAlive(h) ==
    /\ alive /\ Present(h.user)
    /\ acct' = [acct EXCEPT ![h.user] = AfterKeepAlive(@, h.valid)]
    /\ UNCHANGED <<list, saddr, alive, said, others, calm>>

(***************************************************************************)
(* clear_backup: it locks the account with an answer of its own, does its   *)
(* work and unlocks it; each request has a connection that it closes.       *)
(***************************************************************************)
ToolLock(x) ==
    LET b == AfterLock(acct[x.user], x.valid)
    IN  /\ alive /\ tool[x.user] = 0
        /\ \/ Falls(b, saddr[x.user]) /\ Dies
           \/ /\ Becomes(x.user, b, saddr[x.user])
              /\ asked' = asked \ {x}
              /\ tool' = [tool EXCEPT ![x.user] = IF Counts(b) THEN x.valid ELSE 0]
              /\ UNCHANGED <<saddr, held, calm>>

ToolUnlock(u) ==
    LET b == AfterUnlock(acct[u], tool[u])
    IN  /\ alive /\ tool[u] # 0
        /\ \/ Falls(b, saddr[u]) /\ Dies
           \/ /\ Becomes(u, b, saddr[u])
              /\ tool' = [tool EXCEPT ![u] = 0]
              /\ UNCHANGED <<saddr, asked, held, calm>>

(***************************************************************************)
(* The connections.  ACCEPT_CONNECT does not reset the slot it takes (it    *)
(* clears the listening event's, which has none): on an error, a hang-up,   *)
(* or the time-out of an address that is not listed, the handler of the     *)
(* slot's last request runs, even of an earlier connection.                 *)
(***************************************************************************)
Except(u) ==
    LET b == [acct[u] EXCEPT !.refer = @ - 1]
    IN  /\ alive /\ u \in said
        /\ \/ (u \notin there \/ Falls(b, saddr[u])) /\ Dies
           \/ /\ Becomes(u, b, saddr[u])
              /\ calm' = FALSE
              /\ UNCHANGED <<saddr, others>>

\* The slot had no request yet: its handler is NULL.
UnusedSlot == alive /\ Dies

\* A sync server's worker exits: its sessions are gone, its sockets close in order.
Drop(s) ==
    /\ \E h \in held : h.serv = s
    /\ held' = {h \in held : h.serv # s}
    /\ UNCHANGED <<list, accounts, alive, said, asked, tool, calm>>

(***************************************************************************)
(* CLEAR, time, and the master.                                             *)
(***************************************************************************)
\* CLEAR one user: refused while the account is locked.
Erase(u) ==
    /\ alive /\ u \in there /\ ~acct[u].locked
    /\ Emptied({u})
    /\ UNCHANGED <<list, alive, said, others, calm>>

\* CLEAR all users.
ClearUsers ==
    /\ alive /\ there # {}
    /\ Emptied(there)
    /\ calm' = (calm /\ \A u \in there : ~acct[u].locked)
    /\ UNCHANGED <<list, alive, said, others>>

\* SessionTimeOut passes without a request of the user; QUERY answers an
\* account that is not locked whether it has or not.
Lapse(u) ==
    /\ alive /\ acct[u].locked /\ ~acct[u].lapsed
    /\ acct' = [acct EXCEPT ![u].lapsed = TRUE]
    /\ UNCHANGED <<list, saddr, there, alive, said, others, calm>>

\* The master forks a worker again, which reads its servers from the data base.
Restart ==
    /\ ~alive /\ alive' = TRUE
    /\ slist' = Started /\ light' = Len(Configured)
    /\ UNCHANGED <<requ, accounts, said, others, calm>>

Next ==
    \/ \E s \in Servers : AddServer(s) \/ ClearServer(s) \/ Drop(s)
    \/ \E u \in Users : \/ Query(u) \/ QueryFails(u) \/ Except(u)
                       \/ ToolUnlock(u) \/ Erase(u) \/ Lapse(u)
    \/ \E x \in asked : GiveUp(x) \/ Status(x) \/ ToolLock(x)
    \/ \E h \in held : StatusAgain(h) \/ SetAnchor(h) \/ Unlock(h) \/ KeepAlive(h)
    \/ ClearUsers \/ UnusedSlot \/ Restart

Spec == Init /\ [][Next]_vars

(***************************************************************************)
(* Properties.                                                              *)
(***************************************************************************)

(***************************************************************************)
(* Every variable has the values declared for it.                           *)
(***************************************************************************)
TypeOK ==
    /\ slist \in Seq([serv : Servers, refer : Int])
    /\ light \in 0..Len(slist) /\ requ \in 0..Rotate - 1
    /\ acct \in [Users -> Account] /\ \A u \in Users : acct[u].refer = 0
    /\ saddr \in [Users -> Servers \cup {NoServer}]
    /\ there \subseteq Users
    /\ alive \in BOOLEAN /\ calm \in BOOLEAN
    /\ said \subseteq Users
    /\ asked \subseteq Grant /\ held \subseteq Grant
    /\ tool \in [Users -> Nat]

(***************************************************************************)
(* As long as nothing has disturbed the counts (calm), the refer_inde of a  *)
(* server is the number of accounts it has locked (session.c:149, 182, 207),*)
(* so clear_server_bzl (aserv_bzl.c:97) refuses exactly the servers that    *)
(* will still be named.                                                     *)
(***************************************************************************)
LockedBy(s) == {u \in Users : acct[u].locked /\ saddr[u] = s}

CountsLocked ==
    calm => \A s \in Servers :
        Cardinality(LockedBy(s)) = IF s \in Listed THEN slist[First(s)].refer ELSE 0

(***************************************************************************)
(* The end of a session does not kill the worker: its server is still in    *)
(* the list when slist_referen_decre dereferences what it found             *)
(* (aserv_bzl.c:168), whatever the administrator cleared meanwhile.         *)
(***************************************************************************)
EndsFindServer ==
    [][\A h \in held : calm /\ (SetAnchor(h) \/ Unlock(h)) => alive']_vars
=============================================================================
