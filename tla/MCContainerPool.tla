-------------------------- MODULE MCContainerPool ---------------------------
(* A small instance of ContainerPool for TLC: the Go pool has two slots,   *)
(* the Python pool one.                                                    *)
EXTENDS ContainerPool, TLC

CONSTANTS go, py, s1, s2, s3

MCLangs == {go, py}
MCSlots == {s1, s2, s3}
MCLangOf == s1 :> go @@ s2 :> go @@ s3 :> py
=============================================================================
