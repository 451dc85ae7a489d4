---------------------------- MODULE MCSyncSession ----------------------------
(* Constants for the runs of SyncSession. *)
EXTENDS SyncSession, TLC

CONSTANTS d1, d2, c1, c2

TwoDevices == {d1, d2}
OneClient == {d1}
TwoConns == {c1, c2}

Symmetry == Permutations(Devices) \cup Permutations(Conns)
ConnSymmetry == Permutations(Conns)
=============================================================================
