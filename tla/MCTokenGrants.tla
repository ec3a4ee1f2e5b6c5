--------------------------- MODULE MCTokenGrants ---------------------------
(***************************************************************************)
(* Small instances of TokenGrants for TLC.                                 *)
(***************************************************************************)
EXTENDS TokenGrants, TLC

Symmetry ==
    Permutations(Clients) \cup Permutations(Codes) \cup Permutations(Tokens)
      \cup Permutations(Requests)

\* Bounds: at most one client is disabled, or one credential expired, at a
\* time, and not more than four credentials are drawn: a code and three
\* tokens, or two codes and two tokens.
FewOutages == Cardinality(expired) + Cardinality(disabled) =< 1

FewCredentials == Cardinality({x \in Credentials : Exists(x)}) =< 4

Bounds == FewOutages /\ FewCredentials
=============================================================================
