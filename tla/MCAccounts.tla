----------------------------- MODULE MCAccounts -----------------------------
(***************************************************************************)
(* Small instances of Accounts for TLC: two addresses, one of them typed   *)
(* in two ways.                                                            *)
(***************************************************************************)
EXTENDS Accounts
CONSTANTS m1, M1, m2

MCMails == {m1, M1, m2}
mclower(m) == IF m = M1 THEN m1 ELSE m
=============================================================================
