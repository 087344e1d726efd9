----------------------------- MODULE MCDispatch -----------------------------
(* Small instances of Dispatch for TLC.                                    *)
EXTENDS Dispatch, TLC

\* Connections are interchangeable, and so are the asynchronous requests.
Symmetry == Permutations(Conns) \cup Permutations(Reqs \ SyncReqs)
=============================================================================
