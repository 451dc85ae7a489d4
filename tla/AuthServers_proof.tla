-------------------------- MODULE AuthServers_proof --------------------------
(***************************************************************************)
(* Proofs about AuthServers, for any servers, users and configuration: as   *)
(* long as the counts are not disturbed they are the numbers of locked      *)
(* accounts, and the end of a session finds its server.                     *)
(***************************************************************************)
EXTENDS AuthServers, FiniteSetTheorems, TLAPS

(***************************************************************************)
(* The inductive invariant.  A req_valid is current for one purpose at a    *)
(* time: an answer nobody has used yet (the account is free), or a session  *)
(* or clear_backup that holds the account.                                  *)
(***************************************************************************)
Now(x) == x.valid = acct[x.user].valid

\* No req_valid is presented that was not drawn, nor one of a removed account.
Past ==
    /\ \A u \in Users : acct[u].valid >= 1 /\ tool[u] <= acct[u].valid
    /\ \A x \in asked \cup held : x.valid <= acct[x.user].valid
    /\ \A u \in Users \ there : ~acct[u].locked /\ tool[u] < acct[u].valid
    /\ \A x \in asked \cup held : x.user \notin there => x.valid < acct[x.user].valid

Placed == \A u \in Users : acct[u].locked => saddr[u] \in Servers
Dead   == ~alive => calm /\ slist = <<>>

Once == \A i, j \in DOMAIN slist : slist[i].serv = slist[j].serv => i = j

Free ==
    /\ \A x \in asked : Now(x) => ~acct[x.user].locked
    /\ \A x, y \in asked : Now(x) /\ Now(y) /\ x.user = y.user => x = y
    /\ \A h \in held : Now(h) => acct[h.user].locked
    /\ \A u \in Users : tool[u] = acct[u].valid => acct[u].locked

\* CountsLocked for a list in which every server is once.
Counted ==
    /\ \A s \in Servers : \A i \in DOMAIN slist :
          slist[i].serv = s => Cardinality(LockedBy(s)) = slist[i].refer
    /\ \A s \in Servers :
          (\A i \in DOMAIN slist : slist[i].serv # s) => Cardinality(LockedBy(s)) = 0

Calm == calm => Once /\ Free /\ Counted
IInv == TypeOK /\ Past /\ Placed /\ Dead /\ Calm

(***************************************************************************)
(* What a request may leave of an account.                                  *)
(***************************************************************************)
\* An answer is used: the account is locked and counted.
Takes(a, v, b) ==
    /\ b \in Account /\ b.valid = a.valid
    /\ v = a.valid => b.refer \in {0, 1} /\ (b.refer = 1 => b.locked)
                      /\ (~a.locked => b.refer = 1)
    /\ b.refer = 0 => b.locked = a.locked
    /\ b.refer # 0 => v = a.valid

\* A holder lets go: the account is free and counted down.
Releases(a, v, b) ==
    /\ b \in Account /\ a.valid <= b.valid
    /\ b.locked => a.locked
    /\ v # a.valid => b.locked = a.locked /\ b.valid = a.valid /\ b.refer = 0
    /\ v = a.valid /\ a.locked => ~b.locked /\ b.valid = a.valid + 1 /\ b.refer = -1

LEMMA AccountFields ==
    ASSUME NEW a \in Account
    PROVE  /\ a.valid \in Nat /\ a.seion \in Nat /\ a.cached \in Nat /\ a.refer \in Int
           /\ a.locked \in BOOLEAN /\ a.lapsed \in BOOLEAN
BY DEF Account

LEMMA StatusTakes ==
    ASSUME NEW a \in Account, a.refer = 0, NEW v \in Nat
    PROVE  Takes(a, v, AfterStatus(a, v))
<1>1. CASE v = a.valid
  <2>1. AfterStatus(a, v) =
         [valid |-> a.valid, seion |-> a.seion + 1, locked |-> TRUE,
          cached |-> a.cached, lapsed |-> FALSE, refer |-> a.refer + 1]
    BY <1>1 DEF AfterStatus, Account
  <2>2. a.seion + 1 \in Nat /\ a.refer + 1 = 1
    BY AccountFields
  <2>3. AfterStatus(a, v) \in Account
    BY <2>1, <2>2, AccountFields DEF Account
  <2>4. LET b == AfterStatus(a, v)
         IN  b.valid = a.valid /\ b.locked /\ b.refer = a.refer + 1
    BY <2>1
  <2>5. QED
    BY <1>1, <2>2, <2>3, <2>4, AccountFields DEF Takes
<1>2. CASE v # a.valid
  BY <1>2, AccountFields DEF AfterStatus, Takes
<1>3. QED
  BY <1>1, <1>2

LEMMA LockTakes ==
    ASSUME NEW a \in Account, a.refer = 0, NEW v \in Nat
    PROVE  Takes(a, v, AfterLock(a, v))
<1>1. CASE v = a.valid /\ a.locked
  <2>1. AfterLock(a, v) =
         [valid |-> a.valid, seion |-> a.seion, locked |-> a.locked,
          cached |-> a.cached, lapsed |-> FALSE, refer |-> a.refer]
    BY <1>1 DEF AfterLock, Account
  <2>2. a.refer \in Int
    BY AccountFields
  <2>3. AfterLock(a, v) \in Account
    BY <2>1, <2>2, AccountFields DEF Account
  <2>4. LET b == AfterLock(a, v)
         IN  b.valid = a.valid /\ b.locked = a.locked /\ b.refer = a.refer
    BY <2>1
  <2>5. QED
    BY <1>1, <2>2, <2>3, <2>4, AccountFields DEF Takes
<1>2. CASE v = a.valid /\ ~a.locked
  <2>1. AfterLock(a, v) =
         [valid |-> a.valid, seion |-> a.seion, locked |-> TRUE,
          cached |-> a.cached, lapsed |-> FALSE, refer |-> a.refer + 1]
    BY <1>2 DEF AfterLock, Account
  <2>2. a.refer + 1 = 1
    BY AccountFields
  <2>3. AfterLock(a, v) \in Account
    BY <2>1, <2>2, AccountFields DEF Account
  <2>4. LET b == AfterLock(a, v)
         IN  b.valid = a.valid /\ b.locked /\ b.refer = a.refer + 1
    BY <2>1
  <2>5. QED
    BY <1>2, <2>2, <2>3, <2>4, AccountFields DEF Takes
<1>3. CASE v # a.valid
  BY <1>3, AccountFields DEF AfterLock, Takes
<1>4. QED
  BY <1>1, <1>2, <1>3

LEMMA SetAnchorReleases ==
    ASSUME NEW a \in Account, a.refer = 0, NEW v \in Nat
    PROVE  Releases(a, v, AfterSetAnchor(a, v, 0))
<1>1. CASE v = a.valid /\ ~a.locked
  <2>1. AfterSetAnchor(a, v, 0) =
         [valid |-> a.valid, seion |-> a.seion, locked |-> a.locked,
          cached |-> a.cached, lapsed |-> FALSE, refer |-> a.refer]
    BY <1>1 DEF AfterSetAnchor, Account
  <2>2. a.seion \in Nat /\ a.cached \in Nat
    BY AccountFields
  <2>3. AfterSetAnchor(a, v, 0) \in Account
    BY <2>1, <2>2, AccountFields DEF Account
  <2>4. LET b == AfterSetAnchor(a, v, 0)
         IN  b.valid = a.valid /\ b.locked = a.locked
    BY <2>1
  <2>5. QED
    BY <1>1, <2>2, <2>3, <2>4, AccountFields DEF Releases
<1>2. CASE v = a.valid /\ a.locked
  <2>1. AfterSetAnchor(a, v, 0) =
         [valid |-> a.valid + 1, seion |-> a.seion, locked |-> FALSE,
          cached |-> a.cached, lapsed |-> FALSE, refer |-> a.refer - 1]
    BY <1>2 DEF AfterSetAnchor, Account
  <2>2. /\ a.valid + 1 \in Nat /\ a.seion \in Nat /\ a.cached \in Nat
        /\ a.refer - 1 \in Int /\ a.refer - 1 = -1 /\ a.valid <= a.valid + 1
    BY AccountFields
  <2>3. AfterSetAnchor(a, v, 0) \in Account
    BY <2>1, <2>2, AccountFields DEF Account
  <2>4. LET b == AfterSetAnchor(a, v, 0)
         IN  b.valid = a.valid + 1 /\ ~b.locked /\ b.refer = a.refer - 1
    BY <2>1
  <2>5. QED
    BY <1>2, <2>2, <2>3, <2>4, AccountFields DEF Releases
<1>3. CASE v # a.valid
  <2>1. AfterSetAnchor(a, v, 0) = a
    BY <1>3 DEF AfterSetAnchor
  <2>2. a.valid <= a.valid
    BY AccountFields
  <2>3. QED
    BY <1>3, <2>1, <2>2 DEF Releases
<1>4. QED
  BY <1>1, <1>2, <1>3

LEMMA UnlockReleases ==
    ASSUME NEW a \in Account, a.refer = 0, NEW v \in Nat
    PROVE  Releases(a, v, AfterUnlock(a, v))
<1>1. CASE v = a.valid /\ ~a.locked
  <2>1. AfterUnlock(a, v) =
         [valid |-> a.valid, seion |-> a.seion, locked |-> FALSE,
          cached |-> a.cached, lapsed |-> FALSE, refer |-> a.refer - 1]
    BY <1>1 DEF AfterUnlock, Account
  <2>2. a.refer - 1 \in Int /\ a.valid <= a.valid
    BY AccountFields
  <2>3. AfterUnlock(a, v) \in Account
    BY <2>1, <2>2, AccountFields DEF Account
  <2>4. LET b == AfterUnlock(a, v)
         IN  b.valid = a.valid /\ ~b.locked
    BY <2>1
  <2>5. QED
    BY <1>1, <2>2, <2>3, <2>4, AccountFields DEF Releases
<1>2. CASE v = a.valid /\ a.locked
  <2>1. AfterUnlock(a, v) =
         [valid |-> a.valid + 1, seion |-> a.seion, locked |-> FALSE,
          cached |-> a.cached, lapsed |-> FALSE, refer |-> a.refer - 1]
    BY <1>2 DEF AfterUnlock, Account
  <2>2. a.valid + 1 \in Nat /\ a.refer - 1 = -1 /\ a.valid <= a.valid + 1
    BY AccountFields
  <2>3. AfterUnlock(a, v) \in Account
    BY <2>1, <2>2, AccountFields DEF Account
  <2>4. LET b == AfterUnlock(a, v)
         IN  b.valid = a.valid + 1 /\ ~b.locked /\ b.refer = a.refer - 1
    BY <2>1
  <2>5. QED
    BY <1>2, <2>2, <2>3, <2>4, AccountFields DEF Releases
<1>3. CASE v # a.valid
  BY <1>3, AccountFields DEF AfterUnlock, Releases
<1>4. QED
  BY <1>1, <1>2, <1>3

LEMMA Updates ==
    ASSUME NEW a \in Account
    PROVE  /\ \A x \in Nat : [a EXCEPT !.valid = x] \in Account
                             /\ [a EXCEPT !.valid = x].valid = x
                             /\ [a EXCEPT !.valid = x].locked = a.locked
           /\ \A x \in Nat : [a EXCEPT !.seion = x] \in Account
                             /\ [a EXCEPT !.seion = x].valid = a.valid
                             /\ [a EXCEPT !.seion = x].locked = a.locked
                             /\ [a EXCEPT !.seion = x].refer = a.refer
           /\ \A x \in Int : [a EXCEPT !.refer = x] \in Account
                             /\ [a EXCEPT !.refer = x].valid = a.valid
                             /\ [a EXCEPT !.refer = x].locked = a.locked
                             /\ [a EXCEPT !.refer = x].refer = x
BY DEF Account

LEMMA KeptFields ==
    ASSUME NEW b \in Account
    PROVE  /\ Kept(b) \in Account /\ Kept(b).refer = 0
           /\ Kept(b).valid = b.valid /\ Kept(b).locked = b.locked
<1> DEFINE c == [b EXCEPT !.refer = 0]
<1>1. c \in Account /\ c.refer = 0 /\ c.valid = b.valid /\ c.locked = b.locked
  BY Updates
<1>2. Kept(b) = [c EXCEPT !.seion = 1]
  BY DEF Kept
<1> HIDE DEF c
<1>3. QED
  BY <1>1, <1>2, Updates

LEMMA RecreatedFields ==
    ASSUME NEW a \in Account
    PROVE  /\ Recreated(a) \in Account
           /\ Recreated(a).valid = a.valid + 1 /\ ~Recreated(a).locked
<1> DEFINE b == [NewAccount EXCEPT !.valid = a.valid + 1]
           c == [b EXCEPT !.seion = a.seion + 1]
<1>1. NewAccount \in Account /\ ~NewAccount.locked
  BY DEF NewAccount, Account
<1>2. a.valid + 1 \in Nat /\ a.seion + 1 \in Nat /\ a.refer \in Int
  BY AccountFields
<1>3. b \in Account /\ b.valid = a.valid + 1 /\ ~b.locked
  BY <1>1, <1>2, Updates
<1>4. c \in Account /\ c.valid = a.valid + 1 /\ ~c.locked
  <2> HIDE DEF b
  <2> QED
    BY <1>2, <1>3, Updates
<1>5. Recreated(a) = [c EXCEPT !.refer = a.refer]
  BY DEF Recreated
<1> HIDE DEF c
<1>6. QED
  BY <1>2, <1>4, <1>5, Updates

(***************************************************************************)
(* The accounts a server has locked, when one account is locked, is freed,  *)
(* or none is.                                                              *)
(***************************************************************************)
LEMMA LockedFinite ==
    ASSUME NEW s
    PROVE  IsFiniteSet(LockedBy(s)) /\ Cardinality(LockedBy(s)) \in Nat
<1>1. IsFiniteSet(Users) /\ LockedBy(s) \in SUBSET Users
  BY ServersAssumption DEF LockedBy
<1>2. QED
  BY <1>1, FS_Subset, FS_CardinalityType

\* The locked accounts and their servers are the same.
SameLocks ==
    \A u \in Users : /\ acct'[u].locked = acct[u].locked
                     /\ acct[u].locked => saddr'[u] = saddr[u]

LEMMA SameLocked ==
    ASSUME SameLocks, NEW s
    PROVE  LockedBy(s)' = LockedBy(s)
BY DEF SameLocks, LockedBy

LEMMA OneMore ==
    ASSUME NEW S, IsFiniteSet(S), NEW u, u \notin S
    PROVE  Cardinality(S \cup {u}) = Cardinality(S) + 1
BY FS_AddElement

LEMMA OneLess ==
    ASSUME NEW S, IsFiniteSet(S), NEW u, u \in S
    PROVE  Cardinality(S \ {u}) = Cardinality(S) - 1
BY FS_RemoveElement

LEMMA GainLocked ==
    ASSUME NEW u \in Users, NEW t \in Servers, ~acct[u].locked, acct'[u].locked,
           saddr'[u] = t,
           \A w \in Users \ {u} : acct'[w] = acct[w] /\ saddr'[w] = saddr[w],
           NEW s
    PROVE  Cardinality(LockedBy(s)') =
             IF s = t THEN Cardinality(LockedBy(s)) + 1 ELSE Cardinality(LockedBy(s))
<1>1. CASE s = t
  <2>1. LockedBy(s)' = LockedBy(s) \cup {u} /\ u \notin LockedBy(s)
    BY <1>1 DEF LockedBy
  <2>2. QED
    BY <1>1, <2>1, LockedFinite, OneMore
<1>2. CASE s # t
  <2>1. LockedBy(s)' = LockedBy(s)
    BY <1>2 DEF LockedBy
  <2>2. QED
    BY <1>2, <2>1
<1>3. QED
  BY <1>1, <1>2

LEMMA LoseLocked ==
    ASSUME NEW u \in Users, acct[u].locked, ~acct'[u].locked, saddr' = saddr,
           \A w \in Users \ {u} : acct'[w] = acct[w],
           NEW s
    PROVE  Cardinality(LockedBy(s)') =
             IF s = saddr[u] THEN Cardinality(LockedBy(s)) - 1 ELSE Cardinality(LockedBy(s))
<1>1. CASE s = saddr[u]
  <2>1. LockedBy(s)' = LockedBy(s) \ {u} /\ u \in LockedBy(s)
    BY <1>1 DEF LockedBy
  <2>2. QED
    BY <1>1, <2>1, LockedFinite, OneLess
<1>2. CASE s # saddr[u]
  <2>1. LockedBy(s)' = LockedBy(s)
    BY <1>2 DEF LockedBy
  <2>2. QED
    BY <1>2, <2>1
<1>3. QED
  BY <1>1, <1>2

(***************************************************************************)
(* A step through Becomes: the servers of the list stay where they are, and *)
(* at most one count changes.                                               *)
(***************************************************************************)
LEMMA FirstOnce ==
    ASSUME TypeOK, Once, NEW i \in DOMAIN slist
    PROVE  First(slist[i].serv) = i
<1> DEFINE P(k) == slist[k].serv = slist[i].serv /\
                   \A j \in DOMAIN slist : slist[j].serv = slist[i].serv => k <= j
<1>1. \A k \in DOMAIN slist : P(k) => k = i
  BY DEF Once
<1>2. P(i)
  <2>1. \A j \in DOMAIN slist : slist[j].serv = slist[i].serv => j = i
    BY DEF Once
  <2>2. i \in Nat
    BY DEF TypeOK
  <2>3. QED
    BY <2>1, <2>2
<1>3. First(slist[i].serv) = CHOOSE k \in DOMAIN slist : P(k)
  BY DEF First
<1> HIDE DEF P
<1>4. QED
  BY <1>1, <1>2, <1>3

LEMMA ListedServers ==
    ASSUME TypeOK
    PROVE  Listed \subseteq Servers
<1> DEFINE R == [serv : Servers, refer : Int]
<1>1. \A e \in R : e.serv \in Servers
  OBVIOUS
<1>2. slist \in Seq(R)
  BY DEF TypeOK
<1> HIDE DEF R
<1>3. \A i \in DOMAIN slist : slist[i] \in R
  BY <1>2
<1>4. QED
  BY <1>1, <1>3 DEF Listed

BecomesShape(u, b, s) ==
    /\ slist' \in Seq([serv : Servers, refer : Int])
    /\ Len(slist') = Len(slist) /\ DOMAIN slist' = DOMAIN slist
    /\ \A i \in DOMAIN slist : slist'[i].serv = slist[i].serv
    /\ b.refer = 0 => slist' = slist
    /\ b.refer # 0 => /\ s \in Listed
                      /\ Once => \A i \in DOMAIN slist :
                           slist'[i].refer = IF slist[i].serv = s
                                             THEN slist[i].refer + b.refer
                                             ELSE slist[i].refer
    /\ acct' \in [Users -> Account] /\ \A w \in Users : acct'[w].refer = 0
    /\ acct'[u].valid = b.valid /\ acct'[u].locked = b.locked
    /\ \A w \in Users \ {u} : acct'[w] = acct[w]
    /\ there' = there \cup {u} /\ said' = said \cup {u}
    /\ light' = light /\ requ' = requ /\ alive' = alive

LEMMA BecomesFacts ==
    ASSUME TypeOK, NEW u \in Users, NEW b \in Account, NEW s, Becomes(u, b, s)
    PROVE  BecomesShape(u, b, s)
<1>1. acct' = [acct EXCEPT ![u] = Kept(b)] /\ acct \in [Users -> Account]
      /\ \A w \in Users : acct[w].refer = 0
  BY DEF Becomes, TypeOK
<1>2. /\ Kept(b) \in Account /\ Kept(b).refer = 0
      /\ Kept(b).valid = b.valid /\ Kept(b).locked = b.locked
  BY KeptFields
<1>3. /\ acct' \in [Users -> Account] /\ acct'[u] = Kept(b)
      /\ \A w \in Users \ {u} : acct'[w] = acct[w]
  BY <1>1, <1>2
<1>4. /\ \A w \in Users : acct'[w].refer = 0
      /\ acct'[u].valid = b.valid /\ acct'[u].locked = b.locked
  BY <1>1, <1>2, <1>3
<1>5. /\ there' = there \cup {u} /\ said' = said \cup {u}
      /\ light' = light /\ requ' = requ /\ alive' = alive
  BY DEF Becomes, Present
<1>6. /\ slist' \in Seq([serv : Servers, refer : Int])
      /\ Len(slist') = Len(slist) /\ DOMAIN slist' = DOMAIN slist
      /\ \A i \in DOMAIN slist : slist'[i].serv = slist[i].serv
      /\ b.refer = 0 => slist' = slist
      /\ b.refer # 0 => /\ s \in Listed
                        /\ Once => \A i \in DOMAIN slist :
                             slist'[i].refer = IF slist[i].serv = s
                                               THEN slist[i].refer + b.refer
                                               ELSE slist[i].refer
  <2>0. slist \in Seq([serv : Servers, refer : Int])
    BY DEF TypeOK
  <2>1. CASE b.refer = 0
    BY <2>0, <2>1 DEF Becomes, Counts
  <2>2. CASE b.refer # 0
    <3> DEFINE f == First(s)
               n == slist[f].refer + b.refer
    <3>1. s \in Listed /\ n \in -1..MaxRefer /\ slist' = [slist EXCEPT ![f].refer = n]
      BY <2>2 DEF Becomes, Counts, Falls
    <3>2. n \in Int
      BY <3>1, ServersAssumption
    <3>3. Once => \A i \in DOMAIN slist : slist[i].serv = s <=> i = f
      <4> SUFFICES ASSUME Once PROVE \A i \in DOMAIN slist : slist[i].serv = s <=> i = f
        OBVIOUS
      <4>1. PICK k \in DOMAIN slist : slist[k].serv = s
        BY <3>1 DEF Listed
      <4>2. f = k
        BY <4>1, FirstOnce
      <4>3. QED
        BY <4>1, <4>2 DEF Once
    <3> HIDE DEF f
    <3>4. /\ slist' \in Seq([serv : Servers, refer : Int])
          /\ Len(slist') = Len(slist) /\ DOMAIN slist' = DOMAIN slist
          /\ \A i \in DOMAIN slist : slist'[i].serv = slist[i].serv
          /\ \A i \in DOMAIN slist : i # f => slist'[i] = slist[i]
          /\ \A i \in DOMAIN slist : i = f => slist'[i].refer = n
      <4> HIDE DEF n
      <4>1. DOMAIN slist = 1..Len(slist) /\ Len(slist) \in Nat
            /\ \A i \in DOMAIN slist : slist[i] \in [serv : Servers, refer : Int]
        <5> DEFINE R == [serv : Servers, refer : Int]
        <5>1. slist \in Seq(R)
          BY <2>0
        <5> HIDE DEF R
        <5>2. DOMAIN slist = 1..Len(slist) /\ Len(slist) \in Nat
              /\ \A i \in DOMAIN slist : slist[i] \in R
          BY <5>1
        <5>3. QED
          BY <5>2 DEF R
      <4>2. /\ DOMAIN slist' = DOMAIN slist
            /\ \A i \in DOMAIN slist : i # f => slist'[i] = slist[i]
            /\ \A i \in DOMAIN slist : i = f => slist'[i] = [slist[i] EXCEPT !.refer = n]
        BY <3>1
      <4>3. \A e \in [serv : Servers, refer : Int] :
              /\ [e EXCEPT !.refer = n] \in [serv : Servers, refer : Int]
              /\ [e EXCEPT !.refer = n].serv = e.serv
              /\ [e EXCEPT !.refer = n].refer = n
        BY <3>2
      <4>4. \A i \in DOMAIN slist :
              /\ slist'[i] \in [serv : Servers, refer : Int]
              /\ slist'[i].serv = slist[i].serv
              /\ i = f => slist'[i].refer = n
        BY <4>1, <4>2, <4>3
      <4>5. slist' \in Seq([serv : Servers, refer : Int]) /\ Len(slist') = Len(slist)
        <5>1. slist' = [i \in 1..Len(slist) |-> slist'[i]]
          BY <3>1, <4>1
        <5> DEFINE R == [serv : Servers, refer : Int]
        <5>2. DOMAIN slist' = 1..Len(slist) /\ \A i \in 1..Len(slist) : slist'[i] \in R
          BY <4>1, <4>2, <4>4
        <5> HIDE DEF R
        <5>3. slist' \in Seq(R) /\ Len(slist') = Len(slist)
          BY <4>1, <5>1, <5>2
        <5>4. QED
          BY <5>3 DEF R
      <4>6. QED
        BY <4>2, <4>4, <4>5
    <3>5. QED
      BY <2>2, <3>1, <3>3, <3>4
  <2>3. QED
    BY <2>1, <2>2
<1>7. QED
  BY <1>3, <1>4, <1>5, <1>6 DEF BecomesShape

(***************************************************************************)
(* What that means for the counts.                                          *)
(***************************************************************************)
\* Server s is counted n higher.
CountMoves(s, n) ==
    /\ DOMAIN slist' = DOMAIN slist
    /\ \A i \in DOMAIN slist :
          /\ slist'[i].serv = slist[i].serv
          /\ slist'[i].refer = IF slist[i].serv = s THEN slist[i].refer + n
                               ELSE slist[i].refer

LEMMA CountedSame ==
    ASSUME Counted, Once, SameLocks, slist' = slist
    PROVE  Counted' /\ Once'
<1>1. \A s \in Servers : LockedBy(s)' = LockedBy(s)
  BY SameLocked
<1>2. Counted'
  BY <1>1 DEF Counted
<1>3. Once'
  BY DEF Once
<1>4. QED
  BY <1>2, <1>3

LEMMA OnceMoves ==
    ASSUME Once, NEW s, NEW n, CountMoves(s, n)
    PROVE  Once'
BY DEF Once, CountMoves

LEMMA CountedGain ==
    ASSUME Counted, NEW u \in Users, NEW t \in Servers,
           ~acct[u].locked, acct'[u].locked, saddr'[u] = t,
           \A w \in Users \ {u} : acct'[w] = acct[w] /\ saddr'[w] = saddr[w],
           t \in Listed, CountMoves(t, 1)
    PROVE  Counted'
<1>1. \A s \in Servers :
        Cardinality(LockedBy(s)') =
          IF s = t THEN Cardinality(LockedBy(s)) + 1 ELSE Cardinality(LockedBy(s))
  BY GainLocked
<1>2. ASSUME NEW s \in Servers, NEW i \in DOMAIN slist', slist'[i].serv = s
      PROVE  Cardinality(LockedBy(s)') = slist'[i].refer
  <2>1. i \in DOMAIN slist /\ slist[i].serv = s
    BY <1>2 DEF CountMoves
  <2>2. Cardinality(LockedBy(s)) = slist[i].refer
    BY <2>1 DEF Counted
  <2>3. slist'[i].refer = IF s = t THEN slist[i].refer + 1 ELSE slist[i].refer
    BY <2>1 DEF CountMoves
  <2>4. QED
    BY <1>1, <2>2, <2>3
<1>3. ASSUME NEW s \in Servers, \A i \in DOMAIN slist' : slist'[i].serv # s
      PROVE  Cardinality(LockedBy(s)') = 0
  <2>1. \A i \in DOMAIN slist : slist[i].serv # s
    BY <1>3 DEF CountMoves
  <2>2. s # t
    BY <2>1 DEF Listed
  <2>3. QED
    BY <1>1, <2>1, <2>2 DEF Counted
<1>4. QED
  BY <1>2, <1>3 DEF Counted

LEMMA CountedLose ==
    ASSUME Counted, NEW u \in Users, acct[u].locked, ~acct'[u].locked, saddr' = saddr,
           \A w \in Users \ {u} : acct'[w] = acct[w],
           NEW t, t = saddr[u], t \in Listed, CountMoves(t, -1)
    PROVE  Counted'
<1>1. \A s \in Servers :
        Cardinality(LockedBy(s)') =
          IF s = t THEN Cardinality(LockedBy(s)) - 1 ELSE Cardinality(LockedBy(s))
  BY LoseLocked
<1>2. ASSUME NEW s \in Servers, NEW i \in DOMAIN slist', slist'[i].serv = s
      PROVE  Cardinality(LockedBy(s)') = slist'[i].refer
  <2>1. i \in DOMAIN slist /\ slist[i].serv = s
    BY <1>2 DEF CountMoves
  <2>2. Cardinality(LockedBy(s)) = slist[i].refer
    BY <2>1 DEF Counted
  <2>3. slist'[i].refer = IF s = t THEN slist[i].refer + (-1) ELSE slist[i].refer
    BY <2>1 DEF CountMoves
  <2>4. Cardinality(LockedBy(s)) \in Nat
    BY LockedFinite
  <2>5. QED
    BY <1>1, <2>2, <2>3, <2>4
<1>3. ASSUME NEW s \in Servers, \A i \in DOMAIN slist' : slist'[i].serv # s
      PROVE  Cardinality(LockedBy(s)') = 0
  <2>1. \A i \in DOMAIN slist : slist[i].serv # s
    BY <1>3 DEF CountMoves
  <2>2. s # t
    BY <2>1 DEF Listed
  <2>3. QED
    BY <1>1, <2>1, <2>2 DEF Counted
<1>4. QED
  BY <1>2, <1>3 DEF Counted

(***************************************************************************)
(* The worker dies: nothing is locked and nothing is listed any more.       *)
(***************************************************************************)
LEMMA EmptiedFacts ==
    ASSUME TypeOK, NEW gone \in SUBSET Users, Emptied(gone)
    PROVE  /\ acct' \in [Users -> Account] /\ \A u \in Users : acct'[u].refer = 0
           /\ saddr' \in [Users -> Servers \cup {NoServer}]
           /\ \A u \in gone : acct'[u].valid = acct[u].valid + 1 /\ ~acct'[u].locked
           /\ \A u \in Users \ gone : acct'[u] = acct[u] /\ saddr'[u] = saddr[u]
           /\ there' = there \ gone
<1>1. \A a \in Account : /\ Kept(Recreated(a)) \in Account
                         /\ Kept(Recreated(a)).refer = 0
                         /\ Kept(Recreated(a)).valid = a.valid + 1
                         /\ ~Kept(Recreated(a)).locked
  BY KeptFields, RecreatedFields
<1>2. acct \in [Users -> Account] /\ \A u \in Users : acct[u].refer = 0
      /\ saddr \in [Users -> Servers \cup {NoServer}]
  BY DEF TypeOK
<1>3. /\ acct' = [u \in Users |-> IF u \in gone THEN Kept(Recreated(acct[u])) ELSE acct[u]]
      /\ saddr' = [u \in Users |-> IF u \in gone THEN NoServer ELSE saddr[u]]
      /\ there' = there \ gone
  BY DEF Emptied
<1>4. \A u \in Users : /\ u \in gone => acct'[u] = Kept(Recreated(acct[u]))
                       /\ u \notin gone => acct'[u] = acct[u] /\ saddr'[u] = saddr[u]
  BY <1>3
<1>5. saddr' \in [Users -> Servers \cup {NoServer}]
  BY <1>2, <1>3
<1>6. \A u \in gone : /\ acct'[u] \in Account /\ acct'[u].refer = 0
                      /\ acct'[u].valid = acct[u].valid + 1 /\ ~acct'[u].locked
  BY <1>1, <1>2, <1>4
<1>7. \A u \in Users : acct'[u] \in Account /\ acct'[u].refer = 0
  BY <1>2, <1>4, <1>6
<1>8. acct' \in [Users -> Account]
  BY <1>3, <1>7
<1>9. QED
  BY <1>3, <1>4, <1>5, <1>6, <1>7, <1>8

\* Accounts leave the hash map: their req_valids are past.
LEMMA EmptiedPast ==
    ASSUME TypeOK, Past, NEW gone \in SUBSET Users, Emptied(gone), UNCHANGED others
    PROVE  Past'
<1>1. /\ \A u \in gone : acct'[u].valid = acct[u].valid + 1 /\ ~acct'[u].locked
      /\ \A u \in Users \ gone : acct'[u] = acct[u]
      /\ there' = there \ gone
  BY EmptiedFacts
<1>2. \A u \in Users : acct[u].valid \in Nat /\ tool[u] \in Nat
  BY AccountFields DEF TypeOK
<1>3. asked' = asked /\ held' = held /\ tool' = tool
  BY DEF others
<1>4. \A x \in asked \cup held : x.user \in Users /\ x.valid \in Nat
  BY DEF TypeOK, Grant
<1>5. /\ \A u \in Users : acct'[u].valid >= 1 /\ tool[u] <= acct'[u].valid
      /\ \A u \in Users \ there' : ~acct'[u].locked /\ tool[u] < acct'[u].valid
  BY <1>1, <1>2 DEF Past
<1>6. \A x \in asked \cup held : /\ x.valid <= acct'[x.user].valid
                                 /\ x.user \notin there' => x.valid < acct'[x.user].valid
  BY <1>1, <1>2, <1>4 DEF Past
<1>7. QED
  BY <1>3, <1>5, <1>6 DEF Past

LEMMA DiesStep ==
    ASSUME IInv, Dies
    PROVE  IInv'
<1>1. TypeOK /\ Past /\ there \in SUBSET Users /\ Emptied(there) /\ UNCHANGED others
  BY DEF IInv, TypeOK, Dies
<1>2. /\ acct' \in [Users -> Account] /\ \A u \in Users : acct'[u].refer = 0
      /\ saddr' \in [Users -> Servers \cup {NoServer}]
      /\ \A u \in there : acct'[u].valid = acct[u].valid + 1 /\ ~acct'[u].locked
      /\ \A u \in Users \ there : acct'[u] = acct[u] /\ saddr'[u] = saddr[u]
      /\ there' = there \ there
  BY <1>1, EmptiedFacts
<1>3. Past'
  BY <1>1, EmptiedPast
<1>4. /\ slist' = <<>> /\ light' = 0 /\ requ' = 0 /\ said' = {} /\ calm' = TRUE
      /\ alive' = FALSE
  BY DEF Dies
<1>5. \A u \in Users : ~acct'[u].locked
  BY <1>1, <1>2 DEF Past
<1>6. TypeOK'
  <2>1. /\ slist' \in Seq([serv : Servers, refer : Int])
        /\ light' \in 0..Len(slist') /\ requ' \in 0..Rotate - 1
    BY <1>4, ServersAssumption
  <2>2. there' \subseteq Users /\ alive' \in BOOLEAN /\ calm' \in BOOLEAN /\ said' \subseteq Users
    BY <1>2, <1>4
  <2>3. asked' \subseteq Grant /\ held' \subseteq Grant /\ tool' \in [Users -> Nat]
    BY <1>1 DEF TypeOK, others
  <2>4. QED
    BY <1>2, <2>1, <2>2, <2>3 DEF TypeOK
<1>7. Once' /\ Placed' /\ Dead'
  BY <1>4, <1>5 DEF Once, Placed, Dead
<1>8. Counted'
  <2>1. \A s \in Servers : LockedBy(s)' = {}
    BY <1>5 DEF LockedBy
  <2>2. \A s \in Servers : Cardinality(LockedBy(s)') = 0
    BY <2>1, FS_EmptySet
  <2>3. DOMAIN slist' = {}
    BY <1>4
  <2>4. QED
    BY <2>2, <2>3 DEF Counted
<1>9. Free'
  <2>1. \A x \in asked' \cup held' : x.user \in Users /\ x.valid \in Nat
    BY <1>1 DEF TypeOK, Grant, others
  <2>2. \A u \in Users : acct'[u].valid \in Nat /\ tool'[u] \in Nat
    BY <1>2, <1>6, AccountFields DEF TypeOK
  <2>3. \A x \in asked' \cup held' : x.valid < acct'[x.user].valid
    BY <1>2, <1>3, <2>1 DEF Past
  <2>4. \A u \in Users : tool'[u] < acct'[u].valid
    BY <1>2, <1>3 DEF Past
  <2>5. (\A x \in asked' \cup held' : x.valid # acct'[x.user].valid)
        /\ \A u \in Users : tool'[u] # acct'[u].valid
    BY <2>1, <2>2, <2>3, <2>4
  <2>6. QED
    BY <2>5 DEF Free, Now
<1>10. QED
  BY <1>3, <1>6, <1>7, <1>8, <1>9 DEF IInv, Calm

(***************************************************************************)
(* A request that leaves account b: types and what is past.                 *)
(***************************************************************************)
Moves(u) ==
    /\ saddr' \in [Users -> Servers \cup {NoServer}]
    /\ asked' \subseteq asked /\ held' \subseteq held \cup asked
    /\ tool' \in [Users -> Nat]
    /\ \A w \in Users : w # u => tool'[w] = tool[w]
    /\ tool'[u] \in {0, tool[u]} \cup {x.valid : x \in {y \in asked : y.user = u}}
    /\ calm' \in BOOLEAN /\ alive

LEMMA BecomesBase ==
    ASSUME IInv, NEW u \in Users, NEW b \in Account, NEW s, BecomesShape(u, b, s),
           acct[u].valid <= b.valid, Moves(u)
    PROVE  TypeOK' /\ Past' /\ Dead'
<1>0. TypeOK /\ Past
  BY DEF IInv
<1>1. TypeOK'
  <2>1. /\ slist' \in Seq([serv : Servers, refer : Int])
        /\ light' \in 0..Len(slist') /\ requ' \in 0..Rotate - 1
        /\ acct' \in [Users -> Account] /\ \A w \in Users : acct'[w].refer = 0
    BY <1>0 DEF BecomesShape, TypeOK
  <2>2. there' \subseteq Users /\ said' \subseteq Users /\ alive' \in BOOLEAN
    BY <1>0 DEF BecomesShape, TypeOK
  <2>3. asked' \subseteq Grant /\ held' \subseteq Grant
    BY <1>0 DEF Moves, TypeOK
  <2>4. QED
    BY <2>1, <2>2, <2>3 DEF TypeOK, Moves
<1>2. Past'
  <2>1. \A w \in Users : /\ acct[w].valid \in Nat /\ acct'[w].valid \in Nat
                         /\ tool[w] \in Nat /\ tool'[w] \in Nat
    BY <1>0, <1>1, AccountFields DEF TypeOK
  <2>2. \A w \in Users : acct[w].valid <= acct'[w].valid
    <3>1. \A w \in Users : w # u => acct'[w].valid = acct[w].valid
      BY DEF BecomesShape
    <3>2. acct'[u].valid = b.valid
      BY DEF BecomesShape
    <3>3. QED
      BY <2>1, <3>1, <3>2
  <2>3. \A w \in Users : w \notin there' => w \notin there /\ w # u /\ acct'[w] = acct[w]
    BY DEF BecomesShape
  <2>4. \A x \in asked \cup held : x.user \in Users /\ x.valid \in Nat
    BY <1>0 DEF TypeOK, Grant
  <2>5. \A x \in asked \cup held :
          /\ x.valid <= acct'[x.user].valid
          /\ x.user \notin there' => x.valid < acct'[x.user].valid
    BY <1>0, <2>1, <2>2, <2>3, <2>4 DEF Past
  <2>6. asked' \cup held' \subseteq asked \cup held
    BY DEF Moves
  <2>7. \A w \in Users : acct'[w].valid >= 1 /\ tool'[w] <= acct'[w].valid
    <3>1. \A w \in Users : acct'[w].valid >= 1
      BY <1>0, <2>1, <2>2 DEF Past
    <3>2. \A w \in Users : w # u => tool'[w] <= acct'[w].valid
      BY <1>0, <2>1, <2>2 DEF Past, Moves
    <3>3. tool'[u] <= acct'[u].valid
      <4>1. CASE tool'[u] = 0
        BY <2>1, <4>1
      <4>2. CASE tool'[u] = tool[u]
        BY <1>0, <2>1, <2>2, <4>2 DEF Past
      <4>3. CASE \E x \in asked : x.user = u /\ tool'[u] = x.valid
        BY <2>5, <4>3
      <4>4. QED
        BY <4>1, <4>2, <4>3 DEF Moves
    <3>4. QED
      BY <3>1, <3>2, <3>3
  <2>8. \A w \in Users \ there' : ~acct'[w].locked /\ tool'[w] < acct'[w].valid
    BY <1>0, <2>3 DEF Past, Moves
  <2>9. QED
    BY <2>5, <2>6, <2>7, <2>8 DEF Past
<1>3. Dead'
  BY DEF Dead, BecomesShape, Moves
<1>4. QED
  BY <1>1, <1>2, <1>3

(***************************************************************************)
(* An answer is used: STATUS, and the lock of clear_backup.                 *)
(***************************************************************************)
\* The holders of an account afterwards.
Taken(u, x, b, s) ==
    /\ asked' = asked \ {x}
    /\ held' \subseteq (IF b.refer # 0 THEN held \cup {x} ELSE held)
    /\ saddr' = IF b.refer # 0 THEN [saddr EXCEPT ![u] = s] ELSE saddr
    /\ tool' \in [Users -> Nat] /\ \A w \in Users : w # u => tool'[w] = tool[w]
    /\ tool'[u] \in {0, tool[u]} \cup (IF b.refer # 0 THEN {x.valid} ELSE {})
    /\ calm' = calm /\ alive

LEMMA TakesCalm ==
    ASSUME IInv, NEW x \in asked, NEW u, u = x.user, NEW b \in Account,
           Takes(acct[u], x.valid, b), NEW s,
           BecomesShape(u, b, s), Taken(u, x, b, s), calm
    PROVE  Once' /\ Free' /\ Counted'
<1>1. /\ TypeOK /\ Once /\ Free /\ Counted /\ u \in Users
      /\ saddr \in [Users -> Servers \cup {NoServer}]
  BY DEF IInv, Calm, TypeOK, Grant
<1>2. /\ acct'[u].valid = acct[u].valid /\ acct'[u].locked = b.locked
      /\ \A w \in Users \ {u} : acct'[w] = acct[w]
  BY DEF BecomesShape, Takes
<1>3. CASE b.refer = 0
  <2>1. slist' = slist /\ saddr' = saddr
    BY <1>3 DEF BecomesShape, Taken
  <2>2. b.locked = acct[u].locked
    BY <1>3 DEF Takes
  <2>3. SameLocks
    BY <1>2, <2>1, <2>2 DEF SameLocks
  <2>4. Free'
    <3>1. \A w \in Users : /\ acct'[w].valid = acct[w].valid
                           /\ acct'[w].locked = acct[w].locked
                           /\ tool'[w] \in {0, tool[w]}
      BY <1>2, <1>3, <2>2 DEF Taken
    <3>2. asked' \subseteq asked /\ held' \subseteq held
      BY <1>3 DEF Taken
    <3>3. \A y \in asked \cup held : y.user \in Users
      BY <1>1 DEF TypeOK, Grant
    <3>4. \A w \in Users : acct[w].valid \in Nat /\ acct[w].valid >= 1
      BY <1>1, AccountFields DEF TypeOK, IInv, Past
    <3>5. \A w \in Users : tool'[w] = acct'[w].valid => acct'[w].locked
      BY <1>1, <3>1, <3>4 DEF Free
    <3>6. QED
      BY <1>1, <3>1, <3>2, <3>3, <3>5 DEF Free, Now
  <2>5. QED
    BY <1>1, <2>1, <2>3, <2>4, CountedSame
<1>4. CASE b.refer # 0
  <2>1. Now(x) /\ ~acct[u].locked /\ b.refer = 1 /\ b.locked
    BY <1>1, <1>4 DEF Takes, Free, Now
  <2>2. saddr'[u] = s /\ \A w \in Users \ {u} : saddr'[w] = saddr[w]
    BY <1>1, <1>4 DEF Taken
  <2>3. s \in Listed /\ s \in Servers /\ CountMoves(s, 1)
    BY <1>1, <1>4, <2>1, ListedServers DEF BecomesShape, CountMoves
  <2>4. Counted' /\ Once'
    BY <1>1, <1>2, <2>1, <2>2, <2>3, CountedGain, OnceMoves
  <2>5. Free'
    <3>1. \A w \in Users : acct'[w].valid = acct[w].valid
      BY <1>2
    <3>2. asked' = asked \ {x} /\ held' \subseteq held \cup {x}
      BY <1>4 DEF Taken
    <3>3. \A y \in asked \cup held : y.user \in Users
      BY <1>1 DEF TypeOK, Grant
    <3>4. \A y \in asked' : Now(y)' => ~acct'[y.user].locked
      <4>1. ASSUME NEW y \in asked', Now(y)'
            PROVE  ~acct'[y.user].locked
        <5>1. y \in asked /\ y # x /\ Now(y)
          BY <3>1, <3>2, <3>3, <4>1 DEF Now
        <5>2. y.user # u
          BY <1>1, <2>1, <5>1 DEF Free
        <5>3. QED
          BY <1>1, <1>2, <3>3, <5>1, <5>2 DEF Free
      <4>2. QED
        BY <4>1
    <3>5. \A y, z \in asked' : Now(y)' /\ Now(z)' /\ y.user = z.user => y = z
      BY <1>1, <3>1, <3>2, <3>3 DEF Free, Now
    <3>6. \A h \in held' : Now(h)' => acct'[h.user].locked
      <4>1. ASSUME NEW h \in held', Now(h)', h.user # u
            PROVE  acct'[h.user].locked
        <5>1. h \in held /\ Now(h)
          BY <3>1, <3>2, <3>3, <4>1 DEF Now
        <5>2. QED
          BY <1>1, <1>2, <3>3, <4>1, <5>1 DEF Free
      <4>2. QED
        BY <1>2, <2>1, <4>1
    <3>7. \A w \in Users : tool'[w] = acct'[w].valid => acct'[w].locked
      <4>1. ASSUME NEW w \in Users, w # u, tool'[w] = acct'[w].valid
            PROVE  acct'[w].locked
        BY <1>1, <1>2, <4>1 DEF Free, Taken
      <4>2. acct'[u].locked
        BY <1>2, <2>1
      <4>3. QED
        BY <4>1, <4>2
    <3>8. QED
      BY <3>4, <3>5, <3>6, <3>7 DEF Free
  <2>6. QED
    BY <2>4, <2>5
<1>5. QED
  BY <1>3, <1>4

LEMMA TakesStep ==
    ASSUME IInv, NEW x \in asked, NEW u, u = x.user, NEW b \in Account,
           Takes(acct[u], x.valid, b), NEW s,
           BecomesShape(u, b, s), Taken(u, x, b, s)
    PROVE  IInv'
<1>1. /\ TypeOK /\ u \in Users /\ x.valid \in Nat /\ calm \in BOOLEAN
      /\ saddr \in [Users -> Servers \cup {NoServer}]
  BY DEF IInv, TypeOK, Grant
<1>2. acct[u].valid <= b.valid
  BY <1>1, AccountFields DEF Takes, TypeOK
<1>3. saddr' \in [Users -> Servers \cup {NoServer}]
  <2>1. b.refer # 0 => s \in Servers
    BY <1>1, ListedServers DEF BecomesShape
  <2>2. QED
    BY <1>1, <2>1 DEF Taken
<1>4. Moves(u)
  <2>1. asked' \subseteq asked /\ held' \subseteq held \cup asked
    BY DEF Taken
  <2>2. tool'[u] \in {0, tool[u]} \cup {y.valid : y \in {z \in asked : z.user = u}}
    BY DEF Taken
  <2>3. QED
    BY <1>1, <1>3, <2>1, <2>2 DEF Moves, Taken
<1>5. TypeOK' /\ Past' /\ Dead'
  BY <1>1, <1>2, <1>4, BecomesBase
<1>6. Placed'
  <2>1. \A w \in Users \ {u} : acct'[w] = acct[w] /\ saddr'[w] = saddr[w]
    BY <1>1 DEF BecomesShape, Taken
  <2>2. acct'[u].locked => saddr'[u] \in Servers
    <3>1. CASE b.refer = 0
      <4>1. acct'[u].locked = b.locked /\ b.locked = acct[u].locked
        BY <3>1 DEF BecomesShape, Takes
      <4>2. saddr' = saddr /\ (acct[u].locked => saddr[u] \in Servers)
        BY <1>1, <3>1 DEF Taken, IInv, Placed
      <4>3. QED
        BY <4>1, <4>2
    <3>2. CASE b.refer # 0
      <4>1. s \in Servers
        BY <1>1, <3>2, ListedServers DEF BecomesShape
      <4>2. QED
        BY <1>1, <3>2, <4>1 DEF Taken
    <3>3. QED
      BY <3>1, <3>2
  <2>3. QED
    BY <2>1, <2>2 DEF IInv, Placed
<1>7. Calm'
  BY TakesCalm DEF Calm, Taken
<1>8. QED
  BY <1>5, <1>6, <1>7 DEF IInv

\* STATUS and SET_LOCKED TRUE are such requests.
LEMMA StatusStep ==
    ASSUME IInv, NEW x \in asked, Status(x)
    PROVE  IInv'
<1> DEFINE u == x.user
           b == AfterStatus(acct[u], x.valid)
<1>1. /\ TypeOK /\ u \in Users /\ x.valid \in Nat /\ acct[u] \in Account
      /\ acct[u].refer = 0
  BY DEF IInv, TypeOK, Grant
<1>2. Takes(acct[u], x.valid, b)
  BY <1>1, StatusTakes
<1>3. alive /\ (\/ Falls(b, x.serv) /\ Dies
                \/ /\ Becomes(u, b, x.serv)
                   /\ asked' = asked \ {x}
                   /\ IF Counts(b)
                      THEN saddr' = [saddr EXCEPT ![u] = x.serv] /\ held' = held \cup {x}
                      ELSE UNCHANGED <<saddr, held>>
                   /\ UNCHANGED <<tool, calm>>)
  BY DEF Status
<1>4. b \in Account
  BY <1>2 DEF Takes
<1> HIDE DEF u, b
<1>5. CASE Dies
  BY <1>5, DiesStep
<1>6. CASE Becomes(u, b, x.serv) /\ ~Dies
  <2>1. BecomesShape(u, b, x.serv)
    BY <1>1, <1>4, <1>6, BecomesFacts
  <2>2. Taken(u, x, b, x.serv)
    BY <1>1, <1>3, <1>6 DEF Taken, Counts, TypeOK
  <2>3. u = x.user
    BY DEF u
  <2>4. QED
    BY <1>2, <1>4, <2>1, <2>2, <2>3, TakesStep
<1>7. QED
  BY <1>3, <1>5, <1>6

LEMMA ToolLockStep ==
    ASSUME IInv, NEW x \in asked, ToolLock(x)
    PROVE  IInv'
<1> DEFINE u == x.user
           b == AfterLock(acct[u], x.valid)
<1>1. /\ TypeOK /\ u \in Users /\ x.valid \in Nat /\ acct[u] \in Account
      /\ acct[u].refer = 0 /\ tool \in [Users -> Nat]
      /\ saddr \in [Users -> Servers \cup {NoServer}]
  BY DEF IInv, TypeOK, Grant
<1>2. Takes(acct[u], x.valid, b)
  BY <1>1, LockTakes
<1>3. alive /\ (\/ Falls(b, saddr[u]) /\ Dies
                \/ /\ Becomes(u, b, saddr[u])
                   /\ asked' = asked \ {x}
                   /\ tool' = [tool EXCEPT ![u] = IF Counts(b) THEN x.valid ELSE 0]
                   /\ UNCHANGED <<saddr, held, calm>>)
  BY DEF ToolLock
<1>4. b \in Account
  BY <1>2 DEF Takes
<1> HIDE DEF u, b
<1>5. CASE Dies
  BY <1>5, DiesStep
<1>6. CASE Becomes(u, b, saddr[u]) /\ ~Dies
  <2>1. BecomesShape(u, b, saddr[u])
    BY <1>1, <1>4, <1>6, BecomesFacts
  <2>2. /\ asked' = asked \ {x} /\ held' = held /\ saddr' = saddr
        /\ tool' = [tool EXCEPT ![u] = IF Counts(b) THEN x.valid ELSE 0]
        /\ calm' = calm /\ alive
    BY <1>3, <1>6
  <2>3. saddr' = [saddr EXCEPT ![u] = saddr[u]]
    BY <1>1, <2>2
  <2>4. Taken(u, x, b, saddr[u])
    BY <1>1, <2>2, <2>3 DEF Taken, Counts
  <2>5. u = x.user
    BY DEF u
  <2>6. QED
    BY <1>2, <1>4, <2>1, <2>4, <2>5, TakesStep
<1>7. QED
  BY <1>3, <1>5, <1>6

(***************************************************************************)
(* A holder lets go: SET_ANCHOR and SET_LOCKED FALSE.                       *)
(***************************************************************************)
Released(u) ==
    /\ asked' = asked /\ held' \subseteq held /\ saddr' = saddr
    /\ tool' \in [Users -> Nat] /\ \A w \in Users : w # u => tool'[w] = tool[w]
    /\ tool'[u] \in {0, tool[u]}
    /\ calm' = calm /\ alive

LEMMA ReleasesCalm ==
    ASSUME IInv, NEW u \in Users, NEW b \in Account, NEW v \in Nat,
           Releases(acct[u], v, b), BecomesShape(u, b, saddr[u]), Released(u), calm,
           v = acct[u].valid => acct[u].locked
    PROVE  Once' /\ Free' /\ Counted'
<1>1. TypeOK /\ Once /\ Free /\ Counted /\ Past
  BY DEF IInv, Calm
<1>2. /\ acct'[u].valid = b.valid /\ acct'[u].locked = b.locked
      /\ \A w \in Users \ {u} : acct'[w] = acct[w]
  BY DEF BecomesShape
<1>3. /\ \A y \in asked \cup held : y.user \in Users /\ y.valid \in Nat
      /\ \A w \in Users : acct[w].valid \in Nat /\ acct[w].valid >= 1 /\ tool[w] \in Nat
      /\ asked' = asked /\ held' \subseteq held
      /\ \A w \in Users : tool'[w] \in {0, tool[w]}
  BY <1>1, AccountFields DEF TypeOK, Grant, Past, Released
<1>4. CASE v # acct[u].valid
  <2>1. b.refer = 0 /\ b.valid = acct[u].valid /\ b.locked = acct[u].locked
    BY <1>4 DEF Releases
  <2>2. slist' = slist /\ saddr' = saddr
    BY <2>1 DEF BecomesShape, Released
  <2>3. SameLocks
    BY <1>2, <2>1, <2>2 DEF SameLocks
  <2>4. \A w \in Users : acct'[w].valid = acct[w].valid /\ acct'[w].locked = acct[w].locked
    BY <1>2, <2>1
  <2>5. Free'
    <3>1. \A w \in Users : tool'[w] = acct'[w].valid => acct'[w].locked
      BY <1>1, <1>3, <2>4 DEF Free
    <3>2. QED
      BY <1>1, <1>3, <2>4, <3>1 DEF Free, Now
  <2>6. QED
    BY <1>1, <2>2, <2>3, <2>5, CountedSame
<1>5. CASE v = acct[u].valid
  <2>1. acct[u].locked /\ ~b.locked /\ b.valid = acct[u].valid + 1 /\ b.refer = -1
    BY <1>5 DEF Releases
  <2>2. saddr[u] \in Listed /\ CountMoves(saddr[u], -1)
    BY <1>1, <2>1 DEF BecomesShape, CountMoves
  <2>3. saddr' = saddr
    BY DEF Released
  <2>4. Counted' /\ Once'
    BY <1>1, <1>2, <2>1, <2>2, <2>3, CountedLose, OnceMoves
  <2>5. Free'
    <3>1. \A y \in asked' \cup held' : Now(y)' => y.user # u /\ Now(y)
      <4>1. ASSUME NEW y \in asked \cup held, y.user = u PROVE y.valid # acct'[u].valid
        <5>1. y.valid <= acct[u].valid
          BY <1>1, <4>1 DEF Past
        <5>2. QED
          BY <1>2, <1>3, <2>1, <4>1, <5>1
      <4>2. QED
        BY <1>2, <1>3, <4>1 DEF Now
    <3>2. \A w \in Users : tool'[w] = acct'[w].valid => acct'[w].locked
      <4>1. \A w \in Users : w # u => (tool'[w] = acct'[w].valid => acct'[w].locked)
        BY <1>1, <1>2, <1>3 DEF Free
      <4>2. tool'[u] # acct'[u].valid
        <5>1. tool[u] <= acct[u].valid /\ tool'[u] \in {0, tool[u]}
          BY <1>1, <1>3 DEF Past
        <5>2. QED
          BY <1>2, <1>3, <2>1, <5>1
      <4>3. QED
        BY <4>1, <4>2
    <3>3. QED
      BY <1>1, <1>2, <1>3, <3>1, <3>2 DEF Free
  <2>6. QED
    BY <2>4, <2>5
<1>6. QED
  BY <1>4, <1>5

LEMMA ReleasesStep ==
    ASSUME IInv, NEW u \in Users, NEW b \in Account, NEW v \in Nat,
           Releases(acct[u], v, b), BecomesShape(u, b, saddr[u]), Released(u),
           calm /\ v = acct[u].valid => acct[u].locked
    PROVE  IInv'
<1>1. TypeOK /\ calm \in BOOLEAN /\ saddr \in [Users -> Servers \cup {NoServer}]
  BY DEF IInv, TypeOK
<1>2. acct[u].valid <= b.valid
  BY DEF Releases
<1>3. Moves(u)
  BY <1>1 DEF Moves, Released
<1>4. TypeOK' /\ Past' /\ Dead'
  BY <1>1, <1>2, <1>3, BecomesBase
<1>5. Placed'
  <2>1. \A w \in Users \ {u} : acct'[w] = acct[w]
    BY DEF BecomesShape
  <2>2. acct'[u].locked => acct[u].locked
    BY DEF BecomesShape, Releases
  <2>3. saddr' = saddr /\ \A w \in Users : acct[w].locked => saddr[w] \in Servers
    BY DEF Released, IInv, Placed
  <2>4. QED
    BY <2>1, <2>2, <2>3 DEF Placed
<1>6. Calm'
  BY ReleasesCalm DEF Calm, Released
<1>7. QED
  BY <1>4, <1>5, <1>6 DEF IInv

\* A session ends, or clear_backup unlocks.
LEMMA EndsStep ==
    ASSUME IInv, NEW h \in held, NEW b \in Account,
           Releases(acct[h.user], h.valid, b), Ends(h, b)
    PROVE  IInv'
<1> DEFINE u == h.user
<1>1. /\ TypeOK /\ u \in Users /\ h.valid \in Nat
      /\ tool \in [Users -> Nat]
  BY DEF IInv, TypeOK, Grant
<1>2. alive /\ (\/ Dies
                \/ /\ Becomes(u, b, saddr[u])
                   /\ held' = held \ {h}
                   /\ UNCHANGED <<saddr, asked, tool, calm>>)
  BY DEF Ends
<1>3. CASE Dies
  BY <1>3, DiesStep
<1>4. CASE Becomes(u, b, saddr[u]) /\ ~Dies
  <2>1. BecomesShape(u, b, saddr[u])
    BY <1>1, <1>4, BecomesFacts
  <2>2. Released(u)
    BY <1>1, <1>2, <1>4 DEF Released
  <2>3. calm /\ h.valid = acct[u].valid => acct[u].locked
    BY DEF IInv, Calm, Free, Now
  <2>4. QED
    BY <1>1, <2>1, <2>2, <2>3, ReleasesStep
<1>5. QED
  BY <1>2, <1>3, <1>4

LEMMA HeldAccounts ==
    ASSUME IInv, NEW h \in held
    PROVE  /\ h.user \in Users /\ h.valid \in Nat
           /\ acct[h.user] \in Account /\ acct[h.user].refer = 0
BY DEF IInv, TypeOK, Grant

LEMMA SetAnchorStep ==
    ASSUME IInv, NEW h \in held, SetAnchor(h)
    PROVE  IInv'
<1> DEFINE b == AfterSetAnchor(acct[h.user], h.valid, 0)
<1>1. Releases(acct[h.user], h.valid, b)
  BY HeldAccounts, SetAnchorReleases
<1>2. b \in Account
  BY <1>1 DEF Releases
<1>3. Ends(h, b)
  BY DEF SetAnchor
<1> HIDE DEF b
<1>4. QED
  BY <1>1, <1>2, <1>3, EndsStep

LEMMA UnlockStep ==
    ASSUME IInv, NEW h \in held, Unlock(h)
    PROVE  IInv'
<1> DEFINE b == AfterUnlock(acct[h.user], h.valid)
<1>1. Releases(acct[h.user], h.valid, b)
  BY HeldAccounts, UnlockReleases
<1>2. b \in Account
  BY <1>1 DEF Releases
<1>3. Ends(h, b)
  BY DEF Unlock
<1> HIDE DEF b
<1>4. QED
  BY <1>1, <1>2, <1>3, EndsStep

LEMMA ToolUnlockStep ==
    ASSUME IInv, NEW u \in Users, ToolUnlock(u)
    PROVE  IInv'
<1> DEFINE b == AfterUnlock(acct[u], tool[u])
<1>1. /\ TypeOK /\ tool \in [Users -> Nat] /\ acct[u] \in Account /\ acct[u].refer = 0
  BY DEF IInv, TypeOK
<1>2. Releases(acct[u], tool[u], b)
  BY <1>1, UnlockReleases
<1>3. b \in Account
  BY <1>2 DEF Releases
<1>4. alive /\ (\/ Dies
                \/ /\ Becomes(u, b, saddr[u])
                   /\ tool' = [tool EXCEPT ![u] = 0]
                   /\ UNCHANGED <<saddr, asked, held, calm>>)
  BY DEF ToolUnlock
<1> HIDE DEF b
<1>5. CASE Dies
  BY <1>5, DiesStep
<1>6. CASE Becomes(u, b, saddr[u]) /\ ~Dies
  <2>1. BecomesShape(u, b, saddr[u])
    BY <1>1, <1>3, <1>6, BecomesFacts
  <2>2. Released(u)
    BY <1>1, <1>4, <1>6 DEF Released
  <2>3. calm /\ tool[u] = acct[u].valid => acct[u].locked
    BY DEF IInv, Calm, Free
  <2>4. QED
    BY <1>1, <1>2, <1>3, <2>1, <2>2, <2>3, ReleasesStep
<1>7. QED
  BY <1>4, <1>5, <1>6

(***************************************************************************)
(* A STATUS again, or an exception: the counts are disturbed.               *)
(***************************************************************************)
LEMMA DisturbedStep ==
    ASSUME IInv, NEW u \in Users, NEW b \in Account, NEW s, acct[u].valid <= b.valid,
           BecomesShape(u, b, s), Moves(u), calm' = FALSE,
           \A w \in Users : w # u => saddr'[w] = saddr[w],
           acct'[u].locked => saddr'[u] \in Servers
    PROVE  IInv'
<1>1. TypeOK' /\ Past' /\ Dead'
  BY BecomesBase
<1>2. \A w \in Users \ {u} : acct'[w] = acct[w]
  BY DEF BecomesShape
<1>3. Placed'
  BY <1>2 DEF Placed, IInv
<1>4. Calm'
  BY DEF Calm
<1>5. QED
  BY <1>1, <1>3, <1>4 DEF IInv

LEMMA StatusAgainStep ==
    ASSUME IInv, NEW h \in held, StatusAgain(h)
    PROVE  IInv'
<1> DEFINE u == h.user
           b == AfterStatus(acct[u], h.valid)
<1>1. /\ u \in Users /\ h.valid \in Nat /\ acct[u] \in Account /\ acct[u].refer = 0
      /\ h.serv \in Servers /\ saddr \in [Users -> Servers \cup {NoServer}]
      /\ tool \in [Users -> Nat] /\ TypeOK
  BY HeldAccounts DEF IInv, TypeOK, Grant
<1>2. Takes(acct[u], h.valid, b)
  BY <1>1, StatusTakes
<1>3. b \in Account /\ b.valid = acct[u].valid
  BY <1>2 DEF Takes
<1>4. alive /\ (\/ Dies
                \/ /\ Becomes(u, b, h.serv)
                   /\ saddr' = [saddr EXCEPT ![u] = h.serv]
                   /\ calm' = FALSE
                   /\ UNCHANGED others)
  BY DEF StatusAgain
<1> HIDE DEF b
<1>5. CASE Dies
  BY <1>5, DiesStep
<1>6. CASE Becomes(u, b, h.serv) /\ ~Dies
  <2>1. BecomesShape(u, b, h.serv)
    BY <1>1, <1>3, <1>6, BecomesFacts
  <2>2. /\ saddr' \in [Users -> Servers \cup {NoServer}] /\ saddr'[u] = h.serv
        /\ \A w \in Users : w # u => saddr'[w] = saddr[w]
    BY <1>1, <1>4, <1>6
  <2>3. Moves(u)
    BY <1>1, <1>4, <1>6, <2>2 DEF Moves, others
  <2>4. acct[u].valid <= b.valid
    BY <1>1, <1>3, AccountFields
  <2>5. QED
    BY <1>1, <1>3, <1>4, <1>6, <2>1, <2>2, <2>3, <2>4, DisturbedStep
<1>7. QED
  BY <1>4, <1>5, <1>6

LEMMA ExceptStep ==
    ASSUME IInv, NEW u \in Users, Except(u)
    PROVE  IInv'
<1> DEFINE b == [acct[u] EXCEPT !.refer = @ - 1]
<1>1. /\ acct[u] \in Account /\ saddr \in [Users -> Servers \cup {NoServer}]
      /\ tool \in [Users -> Nat] /\ TypeOK
  BY DEF IInv, TypeOK
<1>2. b \in Account /\ b.valid = acct[u].valid /\ b.locked = acct[u].locked
  <2>1. acct[u].refer - 1 \in Int
    BY <1>1, AccountFields
  <2>2. QED
    BY <1>1, <2>1, Updates
<1>3. alive /\ (\/ Dies
                \/ /\ Becomes(u, b, saddr[u])
                   /\ calm' = FALSE
                   /\ UNCHANGED <<saddr, others>>)
  BY DEF Except
<1> HIDE DEF b
<1>4. CASE Dies
  BY <1>4, DiesStep
<1>5. CASE Becomes(u, b, saddr[u]) /\ ~Dies
  <2>1. BecomesShape(u, b, saddr[u])
    BY <1>1, <1>2, <1>5, BecomesFacts
  <2>2. Moves(u)
    BY <1>1, <1>3, <1>5 DEF Moves, others
  <2>3. acct[u].valid <= b.valid
    BY <1>1, <1>2, AccountFields
  <2>4. acct'[u].locked => saddr'[u] \in Servers
    BY <1>2, <1>3, <1>5, <2>1 DEF BecomesShape, IInv, Placed
  <2>5. QED
    BY <1>2, <1>3, <1>5, <2>1, <2>2, <2>3, <2>4, DisturbedStep
<1>6. QED
  BY <1>3, <1>4, <1>5

(***************************************************************************)
(* Steps that leave the list alone: no account is locked, and the ones that *)
(* are freed are accounted for in calm.                                     *)
(***************************************************************************)
Quiet ==
    /\ slist' = slist /\ light' \in 0..Len(slist) /\ requ' \in 0..Rotate - 1
    /\ acct' \in [Users -> Account] /\ \A w \in Users : acct'[w].refer = 0
    /\ \A w \in Users : /\ acct'[w].valid = acct[w].valid
                        /\ acct'[w].locked => acct[w].locked
    /\ saddr' = saddr
    /\ there \subseteq there' /\ there' \subseteq Users
    /\ alive' = alive /\ said' = said
    /\ held' \subseteq held /\ tool' = tool
    /\ asked' \subseteq Grant
    /\ \A x \in asked' : x \in asked \/ (x.user \in there' /\ Now(x))
    /\ calm' \in BOOLEAN /\ (calm' => calm) /\ (alive \/ calm' = calm)

LEMMA QuietStep ==
    ASSUME IInv, Quiet,
           calm' => \A w \in Users : acct'[w].locked = acct[w].locked,
           calm' => Free'
    PROVE  IInv'
<1>1. TypeOK /\ Past
  BY DEF IInv
<1>2. TypeOK'
  <2>1. /\ slist' \in Seq([serv : Servers, refer : Int])
        /\ light' \in 0..Len(slist') /\ requ' \in 0..Rotate - 1
        /\ acct' \in [Users -> Account] /\ \A w \in Users : acct'[w].refer = 0
        /\ saddr' \in [Users -> Servers \cup {NoServer}]
    BY <1>1 DEF Quiet, TypeOK
  <2>2. /\ there' \subseteq Users /\ said' \subseteq Users
        /\ alive' \in BOOLEAN /\ calm' \in BOOLEAN
    BY <1>1 DEF Quiet, TypeOK
  <2>3. asked' \subseteq Grant /\ held' \subseteq Grant /\ tool' \in [Users -> Nat]
    BY <1>1 DEF Quiet, TypeOK
  <2>4. QED
    BY <2>1, <2>2, <2>3 DEF TypeOK
<1>3. Past'
  <2>1. \A w \in Users : acct'[w].valid = acct[w].valid /\ acct[w].valid \in Nat
    BY <1>1, AccountFields DEF Quiet, TypeOK
  <2>2. \A x \in asked \cup asked' \cup held : x.user \in Users /\ x.valid \in Nat
    BY <1>1 DEF TypeOK, Grant, Quiet
  <2>3. \A w \in Users : w \notin there' => w \notin there
    BY DEF Quiet
  <2>4. \A x \in asked' \cup held' :
          /\ x.valid <= acct'[x.user].valid
          /\ x.user \notin there' => x.valid < acct'[x.user].valid
    BY <1>1, <2>1, <2>2, <2>3 DEF Quiet, Past, Now
  <2>5. \A w \in Users : acct'[w].valid >= 1 /\ tool'[w] <= acct'[w].valid
    BY <1>1, <2>1 DEF Quiet, Past
  <2>6. \A w \in Users \ there' : ~acct'[w].locked /\ tool'[w] < acct'[w].valid
    BY <1>1, <2>1, <2>3 DEF Quiet, Past
  <2>7. QED
    BY <2>4, <2>5, <2>6 DEF Past
<1>4. Placed' /\ Dead'
  BY DEF IInv, Placed, Dead, Quiet
<1>5. Calm'
  <2>1. SUFFICES ASSUME calm' PROVE Once' /\ Free' /\ Counted'
    BY DEF Calm
  <2>2. Once /\ Counted /\ slist' = slist
    BY <2>1 DEF IInv, Calm, Quiet
  <2>3. SameLocks
    BY <2>1 DEF SameLocks, Quiet
  <2>4. QED
    BY <2>1, <2>2, <2>3, CountedSame
<1>6. QED
  BY <1>2, <1>3, <1>4, <1>5 DEF IInv

\* Nobody gets an answer or a session, and no account changes hands.
LEMMA FreeSame ==
    ASSUME TypeOK, Free, asked' \subseteq asked, held' \subseteq held, tool' = tool,
           \A w \in Users : /\ acct'[w].valid = acct[w].valid
                            /\ acct'[w].locked = acct[w].locked
    PROVE  Free'
<1>1. \A x \in asked \cup held : x.user \in Users
  BY DEF TypeOK, Grant
<1>2. \A w \in Users : tool'[w] = acct'[w].valid => acct'[w].locked
  BY DEF Free
<1>3. QED
  BY <1>1, <1>2 DEF Free, Now

LEMMA GiveUpStep ==
    ASSUME IInv, NEW x \in asked, GiveUp(x)
    PROVE  IInv'
<1>1. /\ UNCHANGED <<list, accounts, alive, said, held, tool, calm>>
      /\ asked' \subseteq asked
  BY DEF GiveUp
<1>2. Quiet
  BY <1>1 DEF Quiet, IInv, TypeOK, list, accounts
<1>3. calm' => Free'
  BY <1>1, FreeSame DEF IInv, Calm, accounts
<1>4. QED
  BY <1>1, <1>2, <1>3, QuietStep DEF accounts

LEMMA DropStep ==
    ASSUME IInv, NEW s, Drop(s)
    PROVE  IInv'
<1>1. /\ UNCHANGED <<list, accounts, alive, said, asked, tool, calm>>
      /\ held' \subseteq held
  BY DEF Drop
<1>2. Quiet
  BY <1>1 DEF Quiet, IInv, TypeOK, list, accounts
<1>3. calm' => Free'
  BY <1>1, FreeSame DEF IInv, Calm, accounts
<1>4. QED
  BY <1>1, <1>2, <1>3, QuietStep DEF accounts

LEMMA LapsedFields ==
    ASSUME NEW a \in Account, NEW l \in BOOLEAN
    PROVE  LET b == [a EXCEPT !.lapsed = l]
           IN  /\ b \in Account /\ b.valid = a.valid /\ b.locked = a.locked
               /\ b.refer = a.refer
BY DEF Account

\* An account that nothing changes but the time of its last request.
LEMMA TouchStep ==
    ASSUME IInv, NEW u \in Users, NEW b \in Account, b.valid = acct[u].valid,
           b.locked = acct[u].locked, b.refer = 0, acct' = [acct EXCEPT ![u] = b],
           there' = there \/ Present(u), alive,
           UNCHANGED <<list, saddr, alive, said, others, calm>>
    PROVE  IInv'
<1>1. there \subseteq there' /\ there' \subseteq Users
  BY DEF Present, IInv, TypeOK
<1>2. /\ acct' \in [Users -> Account]
      /\ \A w \in Users : /\ acct'[w].refer = 0 /\ acct'[w].valid = acct[w].valid
                          /\ acct'[w].locked = acct[w].locked
  BY DEF IInv, TypeOK
<1>3. Quiet
  BY <1>1, <1>2 DEF Quiet, IInv, TypeOK, list, others
<1>4. calm' => Free'
  BY <1>2, FreeSame DEF IInv, Calm, others
<1>5. QED
  BY <1>2, <1>3, <1>4, QuietStep

LEMMA KeepAliveStep ==
    ASSUME IInv, NEW h \in held, KeepAlive(h)
    PROVE  IInv'
<1> DEFINE u == h.user
           b == AfterKeepAlive(acct[u], h.valid)
<1>1. u \in Users /\ acct[u] \in Account /\ acct[u].refer = 0
  BY HeldAccounts
<1>2. b \in Account /\ b.valid = acct[u].valid /\ b.locked = acct[u].locked /\ b.refer = 0
  BY <1>1, LapsedFields DEF AfterKeepAlive
<1>3. /\ alive /\ Present(u) /\ acct' = [acct EXCEPT ![u] = b]
      /\ UNCHANGED <<list, saddr, alive, said, others, calm>>
  BY DEF KeepAlive
<1> HIDE DEF b, u
<1>4. QED
  BY <1>1, <1>2, <1>3, TouchStep

LEMMA LapseStep ==
    ASSUME IInv, NEW u \in Users, Lapse(u)
    PROVE  IInv'
<1> DEFINE b == [acct[u] EXCEPT !.lapsed = TRUE]
<1>1. acct[u] \in Account /\ acct[u].refer = 0
  BY DEF IInv, TypeOK
<1>2. b \in Account /\ b.valid = acct[u].valid /\ b.locked = acct[u].locked /\ b.refer = 0
  BY <1>1, LapsedFields
<1>3. /\ alive /\ there' = there /\ acct' = [acct EXCEPT ![u] = b]
      /\ UNCHANGED <<list, saddr, alive, said, others, calm>>
  BY DEF Lapse
<1> HIDE DEF b
<1>4. QED
  BY <1>1, <1>2, <1>3, TouchStep

(***************************************************************************)
(* QUERY.                                                                   *)
(***************************************************************************)
LEMMA QueryFields ==
    ASSUME NEW a \in Account
    PROVE  LET b == AfterQuery(a)
           IN  /\ b \in Account /\ b.valid = a.valid /\ b.refer = a.refer
               /\ b.locked => a.locked
               /\ ~(a.lapsed /\ a.locked) => b.locked = a.locked
<1>1. CASE a.lapsed
  <2>1. AfterQuery(a) = [valid |-> a.valid, seion |-> a.seion, locked |-> FALSE,
                         cached |-> a.cached, lapsed |-> FALSE, refer |-> a.refer]
    BY <1>1 DEF AfterQuery, Account
  <2>2. AfterQuery(a) \in Account
    BY <2>1, AccountFields DEF Account
  <2>3. LET b == AfterQuery(a)
         IN  b.valid = a.valid /\ b.refer = a.refer /\ b.locked = FALSE
    BY <2>1
  <2>4. a.locked \in BOOLEAN
    BY AccountFields
  <2>5. QED
    BY <1>1, <2>2, <2>3, <2>4
<1>2. CASE ~a.lapsed
  BY <1>2 DEF AfterQuery
<1>3. QED
  BY <1>1, <1>2

LEMMA LighterType ==
    ASSUME TypeOK, light # 0, Lighter
    PROVE  light' \in 1..Len(slist) /\ requ' \in 0..Rotate - 1
<1>1. Rotate \in Nat \ {0} /\ requ \in 0..Rotate - 1 /\ light \in 1..Len(slist)
      /\ Len(slist) \in Nat
  BY ServersAssumption DEF TypeOK
<1>2. (requ + 1) % Rotate \in 0..Rotate - 1
  BY <1>1
<1>3. light' \in {light, light + 1, 1} /\ (light' = light + 1 => light < Len(slist) \/ light' = light)
  BY <1>1 DEF Lighter
<1>4. QED
  BY <1>1, <1>2, <1>3 DEF Lighter

LEMMA QueryStep ==
    ASSUME IInv, NEW u \in Users, Query(u)
    PROVE  IInv'
<1> DEFINE b == AfterQuery(acct[u])
<1>1. /\ TypeOK /\ acct \in [Users -> Account] /\ \A w \in Users : acct[w].refer = 0
      /\ calm \in BOOLEAN /\ there \subseteq Users /\ asked \subseteq Grant
  BY DEF IInv, TypeOK
<1>2. /\ b \in Account /\ b.valid = acct[u].valid /\ b.refer = 0
      /\ b.locked => acct[u].locked
      /\ ~(acct[u].lapsed /\ acct[u].locked) => b.locked = acct[u].locked
  BY <1>1, QueryFields
<1>3. /\ alive /\ there' = there \cup {u} /\ acct' = [acct EXCEPT ![u] = b]
      /\ UNCHANGED <<slist, saddr, alive, said, held, tool>>
  BY DEF Query, Present
<1> DEFINE Answered == Answers(acct[u]) /\ light # 0
           x == [user |-> u, serv |-> slist[light'].serv, valid |-> acct[u].valid]
<1>4. /\ Answered => /\ Lighter /\ asked' = asked \cup {x}
                     /\ calm' = (calm /\ Current(u) = {} /\ ~acct[u].locked)
      /\ ~Answered => /\ calm' = (calm /\ ~(acct[u].lapsed /\ acct[u].locked))
                      /\ light' = light /\ requ' = requ /\ asked' = asked
  BY DEF Query
<1> HIDE DEF b
<1>5. /\ acct' \in [Users -> Account] /\ acct'[u] = b
      /\ \A w \in Users : w # u => acct'[w] = acct[w]
      /\ \A w \in Users : /\ acct'[w].refer = 0 /\ acct'[w].valid = acct[w].valid
                          /\ acct'[w].locked => acct[w].locked
  BY <1>1, <1>2, <1>3
<1>6. calm' => \A w \in Users : acct'[w].locked = acct[w].locked
  BY <1>2, <1>4, <1>5
<1>7. Answered => light' \in 1..Len(slist) /\ requ' \in 0..Rotate - 1
  BY <1>1, <1>4, LighterType
<1>8. Answered => x \in Grant
  <2>1. ASSUME Answered PROVE slist[light'].serv \in Listed
    BY <1>1, <1>7, <2>1 DEF Listed, TypeOK
  <2>2. acct[u].valid \in Nat
    BY <1>1, AccountFields
  <2>3. QED
    BY <1>1, <2>1, <2>2, ListedServers DEF Grant
<1>9. x.user = u /\ x.valid = acct[u].valid
  OBVIOUS
<1> HIDE DEF x, Answered
<1>10. asked' \in SUBSET Grant /\ \A y \in asked' : y \in asked \/ (Answered /\ y = x)
  BY <1>1, <1>4, <1>8
<1>11. Quiet
  <2>1. light' \in 0..Len(slist) /\ requ' \in 0..Rotate - 1
    BY <1>1, <1>4, <1>7 DEF TypeOK
  <2>2. \A y \in asked' : y \in asked \/ (y.user \in there' /\ Now(y))
    BY <1>3, <1>9, <1>10 DEF Now
  <2>3. calm' \in BOOLEAN /\ (calm' => calm)
    BY <1>1, <1>4
  <2>4. QED
    BY <1>1, <1>3, <1>5, <1>10, <2>1, <2>2, <2>3 DEF Quiet
<1>12. calm' => Free'
  <2>1. SUFFICES ASSUME calm' PROVE Free'
    OBVIOUS
  <2>2. /\ calm /\ Free /\ \A w \in Users : /\ acct'[w].locked = acct[w].locked
                                            /\ acct'[w].valid = acct[w].valid
    BY <1>5, <1>6, <1>11, <2>1 DEF Quiet, IInv, Calm
  <2>3. \A y \in asked \cup held : y.user \in Users
    BY <1>1 DEF TypeOK, Grant
  <2>4. CASE ~Answered
    BY <1>1, <1>3, <1>4, <2>2, <2>4, FreeSame
  <2>5. CASE Answered
    <3>1. Current(u) = {} /\ ~acct[u].locked /\ asked' = asked \cup {x}
      BY <1>4, <2>1, <2>5
    <3>2. \A y \in asked : Now(y) => y.user # u
      BY <3>1 DEF Current, Now
    <3>3. \A y \in asked' : Now(y)' => ~acct'[y.user].locked
      BY <1>9, <2>2, <2>3, <3>1 DEF Free, Now
    <3>4. \A y, z \in asked' : Now(y)' /\ Now(z)' /\ y.user = z.user => y = z
      BY <1>9, <2>2, <2>3, <3>1, <3>2 DEF Free, Now
    <3>5. /\ \A h \in held' : Now(h)' => acct'[h.user].locked
          /\ \A w \in Users : tool'[w] = acct'[w].valid => acct'[w].locked
      BY <1>3, <2>2, <2>3 DEF Free, Now
    <3>6. QED
      BY <3>3, <3>4, <3>5 DEF Free
  <2>6. QED
    BY <2>4, <2>5
<1>13. QED
  BY <1>6, <1>11, <1>12, QuietStep

(***************************************************************************)
(* Accounts are removed.                                                    *)
(***************************************************************************)
LEMMA EmptiedStep ==
    ASSUME IInv, NEW gone \in SUBSET Users, Emptied(gone), alive,
           UNCHANGED <<list, alive, said, others>>, calm' \in BOOLEAN,
           calm' => calm /\ \A w \in gone : ~acct[w].locked
    PROVE  IInv'
<1>1. TypeOK /\ Past
  BY DEF IInv
<1>2. /\ acct' \in [Users -> Account] /\ \A u \in Users : acct'[u].refer = 0
      /\ saddr' \in [Users -> Servers \cup {NoServer}]
      /\ \A u \in gone : acct'[u].valid = acct[u].valid + 1 /\ ~acct'[u].locked
      /\ \A u \in Users \ gone : acct'[u] = acct[u] /\ saddr'[u] = saddr[u]
      /\ there' = there \ gone
  BY <1>1, EmptiedFacts
<1>3. Past'
  BY <1>1, EmptiedPast
<1>4. /\ slist' = slist /\ light' = light /\ requ' = requ /\ said' = said
      /\ asked' = asked /\ held' = held /\ tool' = tool /\ alive' = alive
  BY DEF list, others
<1>5. TypeOK'
  <2>1. there' \subseteq Users
    BY <1>1, <1>2 DEF TypeOK
  <2>2. QED
    BY <1>1, <1>2, <1>4, <2>1 DEF TypeOK
<1>6. Placed' /\ Dead'
  BY <1>2, <1>4 DEF IInv, Placed, Dead
<1>7. Calm'
  <2>1. SUFFICES ASSUME calm' PROVE Once' /\ Free' /\ Counted'
    BY DEF Calm
  <2>2. Once /\ Counted /\ Free /\ \A w \in gone : ~acct[w].locked
    BY <2>1 DEF IInv, Calm
  <2>3. \A w \in Users : acct'[w].locked \in BOOLEAN /\ acct[w].locked \in BOOLEAN
    BY <1>1, <1>2, AccountFields DEF TypeOK
  <2>4. SameLocks
    BY <1>2, <2>2, <2>3 DEF SameLocks
  <2>5. Free'
    <3>1. \A x \in asked \cup held : x.user \in Users /\ x.valid \in Nat
      BY <1>1 DEF TypeOK, Grant
    <3>2. \A w \in Users : acct[w].valid \in Nat /\ tool[w] \in Nat
      BY <1>1, AccountFields DEF TypeOK
    <3>3. \A x \in asked \cup held : x.valid = acct'[x.user].valid => x.user \notin gone
      BY <1>1, <1>2, <3>1, <3>2 DEF Past
    <3>4. \A w \in Users : tool[w] = acct'[w].valid => w \notin gone
      BY <1>1, <1>2, <3>2 DEF Past
    <3>5. QED
      BY <1>2, <1>4, <2>2, <3>1, <3>3, <3>4 DEF Free, Now
  <2>6. QED
    BY <1>4, <2>2, <2>4, <2>5, CountedSame
<1>8. QED
  BY <1>3, <1>5, <1>6, <1>7 DEF IInv

LEMMA EraseStep ==
    ASSUME IInv, NEW u \in Users, Erase(u)
    PROVE  IInv'
<1>1. /\ alive /\ ~acct[u].locked /\ Emptied({u})
      /\ UNCHANGED <<list, alive, said, others>> /\ calm' = calm
  BY DEF Erase
<1>2. {u} \in SUBSET Users /\ calm' \in BOOLEAN
  BY <1>1 DEF IInv, TypeOK
<1>3. QED
  BY <1>1, <1>2, EmptiedStep

LEMMA ClearUsersStep ==
    ASSUME IInv, ClearUsers
    PROVE  IInv'
<1>1. /\ alive /\ Emptied(there) /\ UNCHANGED <<list, alive, said, others>>
      /\ calm' = (calm /\ \A u \in there : ~acct[u].locked)
  BY DEF ClearUsers
<1>2. there \in SUBSET Users /\ calm' \in BOOLEAN
  BY <1>1 DEF IInv, TypeOK
<1>3. QED
  BY <1>1, <1>2, EmptiedStep

(***************************************************************************)
(* The list changes: a server comes or goes, or the worker starts.          *)
(***************************************************************************)
ListStep ==
    /\ slist' \in Seq([serv : Servers, refer : Int])
    /\ light' \in 0..Len(slist') /\ requ' = requ
    /\ UNCHANGED <<accounts, said, others>>
    /\ alive' = TRUE /\ calm' \in BOOLEAN /\ (calm' => calm)

LEMMA ListStepInv ==
    ASSUME IInv, ListStep, calm' => Once' /\ Counted'
    PROVE  IInv'
<1>1. /\ acct' = acct /\ saddr' = saddr /\ there' = there
      /\ asked' = asked /\ held' = held /\ tool' = tool
  BY DEF ListStep, accounts, others
<1>2. TypeOK'
  BY <1>1 DEF IInv, TypeOK, ListStep
<1>3. Past' /\ Placed'
  BY <1>1 DEF IInv, Past, Placed
<1>4. Dead'
  BY DEF Dead, ListStep
<1>5. calm' => Free'
  BY <1>1 DEF IInv, Calm, Free, Now, ListStep
<1>6. QED
  BY <1>2, <1>3, <1>4, <1>5 DEF IInv, Calm

LEMMA AddServerStep ==
    ASSUME IInv, NEW s \in Servers, AddServer(s)
    PROVE  IInv'
<1> DEFINE R == [serv : Servers, refer : Int]
           e == [serv |-> s, refer |-> 0]
<1>1. /\ alive /\ slist' = <<e>> \o slist /\ light' = light + 1
      /\ calm' = (calm /\ s \notin Listed)
      /\ UNCHANGED <<requ, accounts, alive, said, others>>
  BY DEF AddServer
<1>2. e \in R /\ e.serv = s /\ e.refer = 0
  OBVIOUS
<1>3. slist \in Seq(R) /\ light \in 0..Len(slist) /\ calm \in BOOLEAN
  BY DEF IInv, TypeOK
<1> HIDE DEF R, e
<1>4. /\ slist' \in Seq(R) /\ Len(slist') = Len(slist) + 1 /\ Len(slist) \in Nat
      /\ slist'[1] = e /\ \A i \in 1..Len(slist) : slist'[i + 1] = slist[i]
      /\ DOMAIN slist' = 1..Len(slist) + 1 /\ DOMAIN slist = 1..Len(slist)
  BY <1>1, <1>2, <1>3
<1>5. ListStep
  <2>1. light' \in 0..Len(slist')
    BY <1>1, <1>3, <1>4
  <2>2. QED
    BY <1>1, <1>3, <1>4, <2>1 DEF ListStep, R
<1>6. ASSUME calm' PROVE Once' /\ Counted'
  <2>1. Once /\ Counted /\ s \notin Listed
    BY <1>1, <1>6 DEF IInv, Calm
  <2>2. \A t : LockedBy(t)' = LockedBy(t)
    BY <1>1 DEF LockedBy, accounts
  <2>3. \A i \in DOMAIN slist' : i = 1 \/ (i - 1 \in DOMAIN slist /\ slist'[i] = slist[i - 1])
    BY <1>4
  <2>4. \A i \in DOMAIN slist : slist[i].serv # s
    BY <2>1 DEF Listed
  <2>5. Once'
    <3>1. \A i \in DOMAIN slist' : slist'[i].serv = s => i = 1
      BY <2>3, <2>4
    <3>2. ASSUME NEW i \in DOMAIN slist', NEW j \in DOMAIN slist',
                 slist'[i].serv = slist'[j].serv, i # 1, j # 1
          PROVE  i - 1 = j - 1
      BY <2>1, <2>3, <3>2 DEF Once
    <3>3. slist'[1].serv = s
      BY <1>2, <1>4
    <3>4. QED
      BY <1>4, <3>1, <3>2, <3>3 DEF Once
  <2>6. Cardinality(LockedBy(s)) = 0
    BY <2>1, <2>4 DEF Counted
  <2>7. \A t \in Servers : \A i \in DOMAIN slist' :
          slist'[i].serv = t => Cardinality(LockedBy(t)') = slist'[i].refer
    BY <1>2, <1>4, <2>1, <2>2, <2>3, <2>6 DEF Counted
  <2>8. \A t \in Servers :
          (\A i \in DOMAIN slist' : slist'[i].serv # t) => Cardinality(LockedBy(t)') = 0
    <3>1. ASSUME NEW t \in Servers, \A i \in DOMAIN slist' : slist'[i].serv # t
          PROVE  \A i \in DOMAIN slist : slist[i].serv # t
      <4>1. \A i \in DOMAIN slist : i + 1 \in DOMAIN slist' /\ slist'[i + 1] = slist[i]
        BY <1>4
      <4>2. QED
        BY <3>1, <4>1
    <3>2. QED
      BY <2>1, <2>2, <3>1 DEF Counted
  <2>9. QED
    BY <2>5, <2>7, <2>8 DEF Counted
<1>7. QED
  BY <1>5, <1>6, ListStepInv

LEMMA ClearServerStep ==
    ASSUME IInv, NEW s \in Servers, ClearServer(s)
    PROVE  IInv'
<1> DEFINE R == [serv : Servers, refer : Int]
           f == First(s)
           from(i) == IF i < f THEN i ELSE i + 1
<1>1. /\ alive /\ s \in Listed /\ slist[f].refer <= 0
      /\ slist' = [i \in 1..Len(slist) - 1 |-> slist[from(i)]]
      /\ light' = IF Len(slist) = 1 THEN 0 ELSE 1
      /\ UNCHANGED <<requ, accounts, alive, said, others, calm>>
  BY DEF ClearServer
<1>2. TypeOK /\ slist \in Seq(R) /\ calm \in BOOLEAN
  BY DEF IInv, TypeOK
<1>3. f \in DOMAIN slist => slist[f] \in R
  <2> HIDE DEF f, R
  <2>1. QED
    BY <1>2
<1> HIDE DEF R, f
<1>4. /\ Len(slist) \in Nat /\ DOMAIN slist = 1..Len(slist)
      /\ \A i \in 1..Len(slist) : slist[i] \in R
  BY <1>2
<1>5. Len(slist) >= 1
  BY <1>1, <1>4 DEF Listed
<1>6. \A i \in 1..Len(slist) - 1 : from(i) \in 1..Len(slist)
  BY <1>4
<1>7. /\ DOMAIN slist' = 1..Len(slist) - 1
      /\ \A i \in 1..Len(slist) - 1 : slist'[i] = slist[from(i)]
  BY <1>1
<1>8. slist' \in Seq(R) /\ Len(slist') = Len(slist) - 1
  <2>1. \A i \in 1..Len(slist) - 1 : slist[from(i)] \in R
    BY <1>4, <1>6
  <2>2. Len(slist) - 1 \in Nat
    BY <1>4, <1>5
  <2> HIDE DEF from
  <2>3. QED
    BY <1>1, <2>1, <2>2
<1>9. ListStep
  <2>1. light' \in 0..Len(slist')
    BY <1>1, <1>4, <1>5, <1>8
  <2>2. QED
    BY <1>1, <1>2, <1>8, <2>1 DEF ListStep, R
<1>10. ASSUME calm' PROVE Once' /\ Counted'
  <2>1. Once /\ Counted
    BY <1>1, <1>10 DEF IInv, Calm
  <2>2. \A t : LockedBy(t)' = LockedBy(t)
    BY <1>1 DEF LockedBy, accounts
  <2>3. PICK k \in DOMAIN slist : slist[k].serv = s
    BY <1>1 DEF Listed
  <2>4. f = k
    BY <1>2, <2>1, <2>3, FirstOnce DEF f
  <2>5. f \in 1..Len(slist) /\ slist[f].serv = s
    BY <1>4, <2>3, <2>4
  <2>6. \A i, j \in 1..Len(slist) - 1 : from(i) = from(j) => i = j
    BY <1>4, <2>5
  <2>7. \A i \in 1..Len(slist) : i = f \/ \E j \in 1..Len(slist) - 1 : from(j) = i
    <3>1. ASSUME NEW i \in 1..Len(slist), i < f
          PROVE  i \in 1..Len(slist) - 1 /\ from(i) = i
      BY <1>4, <2>5, <3>1
    <3>2. ASSUME NEW i \in 1..Len(slist), f < i
          PROVE  i - 1 \in 1..Len(slist) - 1 /\ from(i - 1) = i
      BY <1>4, <2>5, <3>2
    <3>3. \A i \in 1..Len(slist) : i = f \/ i < f \/ f < i
      BY <1>4, <2>5
    <3>4. QED
      BY <3>1, <3>2, <3>3
  <2> HIDE DEF from
  <2>8. Once'
    BY <1>4, <1>6, <1>7, <2>1, <2>6 DEF Once
  <2>9. Cardinality(LockedBy(s)) = 0
    <3>1. Cardinality(LockedBy(s)) = slist[f].refer /\ Cardinality(LockedBy(s)) \in Nat
      BY <1>4, <2>1, <2>5, LockedFinite DEF Counted
    <3>2. QED
      BY <1>1, <3>1
  <2>10. \A t \in Servers : \A i \in DOMAIN slist' :
           slist'[i].serv = t => Cardinality(LockedBy(t)') = slist'[i].refer
    BY <1>4, <1>6, <1>7, <2>1, <2>2 DEF Counted
  <2>11. \A t \in Servers :
           (\A i \in DOMAIN slist' : slist'[i].serv # t) => Cardinality(LockedBy(t)') = 0
    <3>1. ASSUME NEW t \in Servers, \A i \in DOMAIN slist' : slist'[i].serv # t, t # s
          PROVE  \A i \in DOMAIN slist : slist[i].serv # t
      <4>1. ASSUME NEW i \in 1..Len(slist), i # f
            PROVE  slist[i].serv # t
        <5>1. PICK j \in 1..Len(slist) - 1 : from(j) = i
          BY <2>7, <4>1
        <5>2. slist'[j] = slist[i] /\ j \in DOMAIN slist'
          BY <1>7, <5>1
        <5>3. QED
          BY <3>1, <5>2
      <4>2. QED
        BY <1>4, <2>5, <3>1, <4>1
    <3>2. QED
      BY <2>1, <2>2, <2>9, <3>1 DEF Counted
  <2>12. QED
    BY <2>8, <2>10, <2>11 DEF Counted
<1>11. QED
  BY <1>9, <1>10, ListStepInv

LEMMA StartedShape ==
    /\ Started \in Seq([serv : Servers, refer : Int]) /\ Len(Started) = Len(Configured)
    /\ \A i \in DOMAIN Started : Started[i].refer = 0
    /\ \A i, j \in DOMAIN Started : Started[i].serv = Started[j].serv => i = j
<1> DEFINE n == Len(Configured)
           R == [serv : Servers, refer : Int]
<1>1. n \in Nat /\ \A i \in 1..n : Configured[i] \in Servers
  BY ServersAssumption
<1>2. \A i \in 1..n : n + 1 - i \in 1..n
  BY <1>1
<1>3. Started = [i \in 1..n |-> [serv |-> Configured[n + 1 - i], refer |-> 0]]
  BY DEF Started
<1>4. \A i \in 1..n : /\ Started[i] \in R /\ Started[i].refer = 0
                      /\ Started[i].serv = Configured[n + 1 - i]
  BY <1>1, <1>2, <1>3
<1>5. DOMAIN Started = 1..n
  BY <1>3
<1>6. \A i, j \in 1..n : Started[i].serv = Started[j].serv => i = j
  <2>1. ASSUME NEW i \in 1..n, NEW j \in 1..n, Started[i].serv = Started[j].serv
        PROVE  i = j
    <3>1. n + 1 - i = n + 1 - j
      BY <1>2, <1>4, <2>1, ServersAssumption
    <3>2. QED
      BY <1>1, <3>1
  <2>2. QED
    BY <2>1
<1>7. Started \in Seq(R) /\ Len(Started) = n
  <2> DEFINE e(i) == [serv |-> Configured[n + 1 - i], refer |-> 0]
  <2>1. Started = [i \in 1..n |-> e(i)]
    BY <1>3
  <2>2. \A i \in 1..n : e(i) \in R
    BY <1>1, <1>2
  <2> HIDE DEF R, n, e
  <2>3. QED
    BY <1>1, <2>1, <2>2
<1>8. QED
  BY <1>4, <1>5, <1>6, <1>7

LEMMA RestartStep ==
    ASSUME IInv, Restart
    PROVE  IInv'
<1>1. /\ ~alive /\ alive' = TRUE /\ slist' = Started /\ light' = Len(Configured)
      /\ UNCHANGED <<requ, accounts, said, others, calm>>
  BY DEF Restart
<1>2. Once /\ Counted /\ slist = <<>>
  BY <1>1 DEF IInv, Dead, Calm
<1>3. Len(Configured) \in Nat
  BY ServersAssumption
<1>4. ListStep
  BY <1>1, <1>3, StartedShape DEF ListStep, IInv, TypeOK
<1>5. \A s : LockedBy(s)' = LockedBy(s)
  BY <1>1 DEF LockedBy, accounts
<1>6. \A s \in Servers : Cardinality(LockedBy(s)) = 0
  <2>1. DOMAIN slist = {}
    BY <1>2
  <2>2. QED
    BY <1>2, <2>1 DEF Counted
<1>7. Once' /\ Counted'
  BY <1>1, <1>5, <1>6, StartedShape DEF Once, Counted
<1>8. QED
  BY <1>4, <1>7, ListStepInv

(***************************************************************************)
(* The theorems.                                                            *)
(***************************************************************************)
LEMMA InitIInv ==
    ASSUME Init
    PROVE  IInv
<1>1. NewAccount \in Account /\ NewAccount.valid = 1 /\ ~NewAccount.locked
      /\ NewAccount.refer = 0
  BY DEF NewAccount, Account
<1>2. /\ slist = Started /\ light = Len(Configured) /\ requ = 0
      /\ acct = [u \in Users |-> NewAccount]
      /\ saddr = [u \in Users |-> NoServer]
      /\ there = {} /\ alive = TRUE /\ said = {}
      /\ asked = {} /\ held = {} /\ tool = [u \in Users |-> 0] /\ calm = TRUE
  BY DEF Init
<1>3. \A u \in Users : /\ acct[u] \in Account /\ acct[u].valid = 1 /\ ~acct[u].locked
                       /\ acct[u].refer = 0 /\ tool[u] = 0
  BY <1>1, <1>2
<1>4. TypeOK
  <2>1. light \in 0..Len(slist) /\ requ \in 0..Rotate - 1
    BY <1>2, StartedShape, ServersAssumption
  <2>2. acct \in [Users -> Account] /\ tool \in [Users -> Nat]
        /\ saddr \in [Users -> Servers \cup {NoServer}]
    BY <1>1, <1>2
  <2>3. QED
    BY <1>2, <1>3, <2>1, <2>2, StartedShape DEF TypeOK
<1>5. Past /\ Placed /\ Dead
  BY <1>2, <1>3 DEF Past, Placed, Dead
<1>6. Once /\ Free
  BY <1>2, <1>3, StartedShape DEF Once, Free
<1>7. Counted
  <2>1. \A s \in Servers : LockedBy(s) = {}
    BY <1>3 DEF LockedBy
  <2>2. \A s \in Servers : Cardinality(LockedBy(s)) = 0
    BY <2>1, FS_EmptySet
  <2>3. QED
    BY <1>2, <2>2, StartedShape DEF Counted
<1>8. QED
  BY <1>4, <1>5, <1>6, <1>7 DEF IInv, Calm

LEMMA StutterStep ==
    ASSUME IInv, UNCHANGED vars
    PROVE  IInv'
<1>1. /\ slist' = slist /\ light' = light /\ requ' = requ /\ acct' = acct
      /\ saddr' = saddr /\ there' = there /\ alive' = alive /\ said' = said
      /\ asked' = asked /\ held' = held /\ tool' = tool /\ calm' = calm
  BY DEF vars, list, accounts, others
<1>2. TypeOK' /\ Past' /\ Placed' /\ Dead'
  BY <1>1 DEF IInv, TypeOK, Past, Placed, Dead
<1>3. Calm'
  BY <1>1 DEF IInv, Calm, Once, Free, Now, Counted, LockedBy
<1>4. QED
  BY <1>2, <1>3 DEF IInv

LEMMA NextIInv ==
    ASSUME IInv, [Next]_vars
    PROVE  IInv'
<1>1. ASSUME NEW s \in Servers, AddServer(s) \/ ClearServer(s) \/ Drop(s)
      PROVE  IInv'
  BY <1>1, AddServerStep, ClearServerStep, DropStep
<1>2. ASSUME NEW u \in Users, Query(u) \/ Except(u) \/ ToolUnlock(u) \/ Erase(u) \/ Lapse(u)
      PROVE  IInv'
  BY <1>2, QueryStep, ExceptStep, ToolUnlockStep, EraseStep, LapseStep
<1>3. ASSUME NEW x \in asked, GiveUp(x) \/ Status(x) \/ ToolLock(x)
      PROVE  IInv'
  BY <1>3, GiveUpStep, StatusStep, ToolLockStep
<1>4. ASSUME NEW h \in held, StatusAgain(h) \/ SetAnchor(h) \/ Unlock(h) \/ KeepAlive(h)
      PROVE  IInv'
  BY <1>4, StatusAgainStep, SetAnchorStep, UnlockStep, KeepAliveStep
<1>5. ASSUME UnusedSlot \/ \E u \in Users : QueryFails(u)
      PROVE  IInv'
  BY <1>5, DiesStep DEF UnusedSlot, QueryFails
<1>6. CASE ClearUsers
  BY <1>6, ClearUsersStep
<1>7. CASE Restart
  BY <1>7, RestartStep
<1>8. CASE UNCHANGED vars
  BY <1>8, StutterStep
<1>9. QED
  BY <1>1, <1>2, <1>3, <1>4, <1>5, <1>6, <1>7, <1>8 DEF Next

(***************************************************************************)
(* The inductive invariant is an invariant of the cache.                    *)
(***************************************************************************)
THEOREM Inductive == Spec => []IInv
<1>1. Init => IInv
  BY InitIInv
<1>2. IInv /\ [Next]_vars => IInv'
  BY NextIInv
<1>3. QED
  BY <1>1, <1>2, PTL DEF Spec

(***************************************************************************)
(* Every variable has the values declared for it, for any number of servers *)
(* and users.                                                               *)
(***************************************************************************)
THEOREM TypeCorrect == Spec => []TypeOK
<1>1. IInv => TypeOK
  BY DEF IInv
<1>2. QED
  BY <1>1, Inductive, PTL

(***************************************************************************)
(* The refer_inde that clear_server_bzl compares with 0 is the number of    *)
(* accounts the server has locked, as long as nothing disturbed the counts. *)
(***************************************************************************)
THEOREM CountsAreLocks == Spec => []CountsLocked
<1>1. IInv => CountsLocked
  <2>1. SUFFICES ASSUME IInv, calm, NEW s \in Servers
                 PROVE  Cardinality(LockedBy(s)) =
                          IF s \in Listed THEN slist[First(s)].refer ELSE 0
    BY DEF CountsLocked
  <2>2. TypeOK /\ Once /\ Counted
    BY <2>1 DEF IInv, Calm
  <2>3. CASE s \in Listed
    <3>1. PICK i \in DOMAIN slist : slist[i].serv = s
      BY <2>3 DEF Listed
    <3>2. First(s) = i
      BY <2>2, <3>1, FirstOnce
    <3>3. QED
      BY <2>2, <2>3, <3>1, <3>2 DEF Counted
  <2>4. CASE s \notin Listed
    BY <2>2, <2>4 DEF Counted, Listed
  <2>5. QED
    BY <2>3, <2>4
<1>2. QED
  BY <1>1, Inductive, PTL

\* The server of a locked account is listed.
LEMMA LockedListed ==
    ASSUME IInv, calm, NEW u \in Users, acct[u].locked
    PROVE  saddr[u] \in Listed
<1>1. saddr[u] \in Servers /\ u \in LockedBy(saddr[u]) /\ Counted
  BY DEF IInv, Placed, LockedBy, Calm
<1>2. Cardinality(LockedBy(saddr[u])) # 0
  BY <1>1, LockedFinite, FS_EmptySet
<1>3. QED
  BY <1>1, <1>2 DEF Counted, Listed

LEMMA EndsAlive ==
    ASSUME IInv, calm, NEW h \in held, NEW b \in Account,
           Releases(acct[h.user], h.valid, b), Ends(h, b)
    PROVE  alive'
<1>1. ASSUME Falls(b, saddr[h.user]) PROVE FALSE
  <2>1. b.refer # 0 /\ saddr[h.user] \notin Listed
    BY <1>1 DEF Falls, Counts
  <2>2. h.valid = acct[h.user].valid
    BY <2>1 DEF Releases
  <2>3. acct[h.user].locked /\ h.user \in Users
    BY <2>2, HeldAccounts DEF IInv, Calm, Free, Now
  <2>4. QED
    BY <2>1, <2>3, LockedListed
<1>2. QED
  BY <1>1 DEF Ends, Becomes

(***************************************************************************)
(* The end of a session finds the server of its account                     *)
(* (slist_referen_decre), whatever the administrator cleared meanwhile.     *)
(***************************************************************************)
THEOREM EndsAreSafe == Spec => EndsFindServer
<1>1. IInv /\ [Next]_vars =>
        [\A h \in held : calm /\ (SetAnchor(h) \/ Unlock(h)) => alive']_vars
  <2>1. SUFFICES ASSUME IInv, calm, NEW h \in held, SetAnchor(h) \/ Unlock(h)
                 PROVE  alive'
    OBVIOUS
  <2>2. CASE SetAnchor(h)
    <3> DEFINE b == AfterSetAnchor(acct[h.user], h.valid, 0)
    <3>1. Releases(acct[h.user], h.valid, b) /\ Ends(h, b)
      BY <2>1, <2>2, HeldAccounts, SetAnchorReleases DEF SetAnchor
    <3>2. b \in Account
      BY <3>1 DEF Releases
    <3> HIDE DEF b
    <3>3. QED
      BY <2>1, <3>1, <3>2, EndsAlive
  <2>3. CASE Unlock(h)
    <3> DEFINE b == AfterUnlock(acct[h.user], h.valid)
    <3>1. Releases(acct[h.user], h.valid, b) /\ Ends(h, b)
      BY <2>1, <2>3, HeldAccounts, UnlockReleases DEF Unlock
    <3>2. b \in Account
      BY <3>1 DEF Releases
    <3> HIDE DEF b
    <3>3. QED
      BY <2>1, <3>1, <3>2, EndsAlive
  <2>4. QED
    BY <2>1, <2>2, <2>3
<1>2. QED
  BY <1>1, Inductive, PTL DEF Spec, EndsFindServer
=============================================================================
