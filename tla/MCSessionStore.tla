--------------------------- MODULE MCSessionStore ---------------------------
(* Small instances of SessionStore for TLC.                                *)
EXTENDS SessionStore, TLC

\* Requests are interchangeable, and so are articles.
Symm == Permutations(Requests) \cup Permutations(Articles)
=============================================================================
