--------------------------- MODULE MCSigningKeys ---------------------------
(***************************************************************************)
(* Small instances of SigningKeys for TLC. Workers are interchangeable,    *)
(* and so are the keys that do not exist at the start.                     *)
(***************************************************************************)
EXTENDS SigningKeys, TLC

Symmetry == Permutations(Workers) \cup Permutations(Keys \ InitialActive)
=============================================================================
