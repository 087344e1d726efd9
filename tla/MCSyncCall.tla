----------------------------- MODULE MCSyncCall -----------------------------
(* A small instance of SyncCall for TLC.                                   *)
EXTENDS SyncCall, TLC

CONSTANTS k1, k2, k3, i1, i2

MCCalls == {k1, k2, k3}
MCIds == {i1, i2}

\* Two of the three calls confirm the same proposal.
MCIdOf == k1 :> i1 @@ k2 :> i1 @@ k3 :> i2
=============================================================================
