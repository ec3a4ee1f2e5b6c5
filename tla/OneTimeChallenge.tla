-------------------------- MODULE OneTimeChallenge --------------------------
(***************************************************************************)
(* What LNURL-auth promises about a challenge: it is opened once, perhaps  *)
(* for a given account, and used at most once, which settles the account   *)
(* for good. A challenge opened for an account is used for that account.   *)
(***************************************************************************)
CONSTANTS Challenges, Accounts, NoAccount

VARIABLES
    state,   \* "none", "open" or "used"
    account  \* the account a challenge is for

vars == <<state, account>>

Init ==
    /\ state = [k \in Challenges |-> "none"]
    /\ account = [k \in Challenges |-> NoAccount]

Open(k) ==
    /\ state[k] = "none"
    /\ state' = [state EXCEPT ![k] = "open"]
    /\ \E u \in Accounts \cup {NoAccount} :
         account' = [account EXCEPT ![k] = u]

Use(k) ==
    /\ state[k] = "open"
    /\ state' = [state EXCEPT ![k] = "used"]
    /\ \E u \in Accounts :
         /\ account[k] \in {NoAccount, u}
         /\ account' = [account EXCEPT ![k] = u]

Next == \E k \in Challenges : Open(k) \/ Use(k)

Spec == Init /\ [][Next]_vars
=============================================================================
