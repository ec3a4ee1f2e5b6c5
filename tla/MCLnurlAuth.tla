---------------------------- MODULE MCLnurlAuth ----------------------------
(***************************************************************************)
(* Small instances of LnurlAuth for TLC. Challenges, wallets, accounts and *)
(* callbacks are interchangeable.                                          *)
(***************************************************************************)
EXTENDS LnurlAuth, TLC

Symmetry ==
    Permutations(K1s) \cup Permutations(Wallets) \cup Permutations(Users)
      \cup Permutations(Callbacks)
=============================================================================
