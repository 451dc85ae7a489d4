---------------------------- MODULE MCAuthServers ----------------------------
(***************************************************************************)
(* Instance of AuthServers.                                                 *)
(***************************************************************************)
EXTENDS AuthServers, TLC

CONSTANTS s1, s2, u1, u2

OneConfigured == <<s1>>
\* Disturbed counts: the run goes on with one session and no open answer.
Explored == calm \/ (asked = {} /\ Cardinality(held) <= 1)

UserSymmetry == Permutations({u1, u2})
=============================================================================
