----------------------------- MODULE MCPrompt -----------------------------
(* Small instances of OrderingPrompt for TLC. *)
EXTENDS OrderingPrompt

CONSTANTS n1, n2, n3, n4, a, b

\* The leader makes the only request.
OriginLeader == (a :> n1)

\* The followers make no request and differ in nothing but their names, so it is
\* enough that they store the payload in one order; how late each does, and whether
\* at all, is open.
StoresInTurn ==
  \A p, q \in Followers :
    <<p, q>> \in {<<n2, n3>>, <<n3, n4>>} => held'[q] \subseteq held'[p]

InTurnSpec == OrderingInit /\ [][PromptNext /\ StoresInTurn]_vars /\ PromptFairness
=============================================================================
