--------------------------- MODULE MCAgentSession ---------------------------
(***************************************************************************)
(* AgentSession for TLC.  Any MaxOpened of two chats, two confirmations,   *)
(* a cancel request by the owner and one by a stranger: two chats replace  *)
(* each other's proposal under a confirmation, two confirmations meet on   *)
(* the proposal of one chat, or a cancel request meets two runs.  Two      *)
(* proposals are enough for a pending one and the one that replaces it,    *)
(* two articles for a reset.                                               *)
(***************************************************************************)
EXTENDS AgentSession, TLC

CONSTANT MaxOpened

FewOpened == Cardinality({h \in Handlers : pc[h] # "new"}) <= MaxOpened

\* Chats, confirmations, proposals and articles are interchangeable.
Symm == Permutations(Chats) \cup Permutations(Confirms)
          \cup Permutations(Props) \cup Permutations(Articles)
=============================================================================
