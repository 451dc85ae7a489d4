------------------------------ MODULE AuthCache ------------------------------
(***************************************************************************)
(* The authentication cache, auth_cache: what it keeps for one user (struct *)
(* auth_data) and what each request does to it.  The requests are pure      *)
(* operators on the account, because the cache answers one request at a     *)
(* time; SyncSession decides who sends which request and when.              *)
(*                                                                          *)
(* random_valid and random_seion_id draw random texts; a draw is modelled   *)
(* as the next number, so no two draws are equal.                           *)
(***************************************************************************)
EXTENDS Integers

Account == [valid  : Nat,        \* req_valid, what a sync server must present
            seion  : Nat,        \* seion_id, the next session
            locked : BOOLEAN,    \* serv_locked
            cached : Nat,        \* cached_anchor, 0 for none
            lapsed : BOOLEAN,    \* now - last_active >= SessionTimeOut
            refer  : Int]        \* refer_inde of the one sync server

NewAccount == [valid |-> 1, seion |-> 1, locked |-> FALSE, cached |-> 0,
               lapsed |-> FALSE, refer |-> 0]

(***************************************************************************)
(* QUERY, from a client.  A lapsed lease frees the account, but draws no    *)
(* new req_valid and leaves the server's count alone.                       *)
(***************************************************************************)
Answers(a) == a.lapsed \/ ~a.locked

AfterQuery(a) ==
    IF a.lapsed THEN [a EXCEPT !.lapsed = FALSE, !.locked = FALSE] ELSE a

(***************************************************************************)
(* STATUS, from a sync server: it locks the account whatever its state,     *)
(* hands out the session id and draws the next one.                         *)
(***************************************************************************)
AfterStatus(a, v) ==
    IF v = a.valid
    THEN [a EXCEPT !.lapsed = FALSE, !.locked = TRUE, !.refer = @ + 1,
                   !.seion = @ + 1]
    ELSE a

\* Mutant: the account stays locked.
SetAnchorHolds(a, v, anchor) ==
    IF v # a.valid THEN a
    ELSE [a EXCEPT !.lapsed = FALSE, !.refer = @ - 1, !.valid = @ + 1,
                   !.cached = IF anchor = 0 THEN @ ELSE anchor]

(***************************************************************************)
(* SET_ANCHOR: unlocks, and publishes the anchor unless it is 0.            *)
(***************************************************************************)
AfterSetAnchor(a, v, anchor) ==
    CASE v # a.valid -> a
      [] v = a.valid /\ ~a.locked -> [a EXCEPT !.lapsed = FALSE]
      [] OTHER -> [a EXCEPT !.lapsed = FALSE, !.locked = FALSE,
                            !.refer = @ - 1, !.valid = @ + 1,
                            !.cached = IF anchor = 0 THEN @ ELSE anchor]

\* Mutant: the server's count is left as it is.
UnlockUncounted(a, v) ==
    IF v = a.valid
    THEN [a EXCEPT !.lapsed = FALSE, !.locked = FALSE,
                   !.valid = IF a.locked THEN @ + 1 ELSE @]
    ELSE a

(***************************************************************************)
(* SET_LOCKED with FALSE, the only value set_cache_unlocked sends.  The     *)
(* server's count goes down even when the account is not locked.            *)
(***************************************************************************)
AfterUnlock(a, v) ==
    IF v = a.valid
    THEN [a EXCEPT !.lapsed = FALSE, !.locked = FALSE, !.refer = @ - 1,
                   !.valid = IF a.locked THEN @ + 1 ELSE @]
    ELSE a

(***************************************************************************)
(* SET_LOCKED with TRUE, from clear_backup: refused (CONFLICT) when the     *)
(* account is locked.                                                       *)
(***************************************************************************)
AfterLock(a, v) ==
    CASE v # a.valid -> a
      [] v = a.valid /\ a.locked -> [a EXCEPT !.lapsed = FALSE]
      [] OTHER -> [a EXCEPT !.lapsed = FALSE, !.locked = TRUE, !.refer = @ + 1]

AfterKeepAlive(a, v) ==
    IF v = a.valid THEN [a EXCEPT !.lapsed = FALSE] ELSE a

(***************************************************************************)
(* CLEAR, from an administrator.  A removed account is created anew, with   *)
(* no cached anchor, by the next request that names the user.               *)
(***************************************************************************)
Recreated(a) ==
    [NewAccount EXCEPT !.valid = a.valid + 1, !.seion = a.seion + 1,
                       !.refer = a.refer]

\* One user: refused while the account is locked.
AfterErase(a) == IF a.locked THEN a ELSE Recreated(a)

\* All users, locked or not.
AfterClear(a) == Recreated(a)
=============================================================================
