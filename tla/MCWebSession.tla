---------------------------- MODULE MCWebSession ---------------------------
EXTENDS WebSession, TLC, FiniteSets, Naturals
Symmetry ==
    Permutations(Browsers) \cup Permutations(Tabs) \cup Permutations(Users)
      \cup Permutations(Tokens) \cup Permutations(Keys)

\* Bound: one browser at most loses answers, has requests overlap or is
\* logged out, while the other signs in, registers and consents undisturbed.
OneTroubled == Cardinality(disturbed \cup out) =< 1
=============================================================================
