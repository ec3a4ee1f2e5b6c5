------------------------- MODULE PermissionDecision -------------------------
(***************************************************************************)
(* What permission requests promise: a requester has one pending request   *)
(* at a time; it is decided once and for good, unless it was disputed      *)
(* while it was pending; and only its approval gives the requester the     *)
(* permission.                                                             *)
(***************************************************************************)
CONSTANTS Requests, Requesters, NoRequester

VARIABLES
    status,   \* "none", "pending" or the decision
    by,       \* whose request it is
    granted,  \* requesters that were given the permission
    disputed  \* requests that two were deciding at once

vars == <<status, by, granted, disputed>>

Init ==
    /\ status = [r \in Requests |-> "none"]
    /\ by = [r \in Requests |-> NoRequester]
    /\ granted = {}
    /\ disputed = {}

Ask(r, u) ==
    /\ status[r] = "none"
    /\ \A q \in Requests : status[q] = "pending" => by[q] # u
    /\ status' = [status EXCEPT ![r] = "pending"]
    /\ by' = [by EXCEPT ![r] = u]
    /\ UNCHANGED <<granted, disputed>>

\* Two find it pending, and the later decision will replace the earlier.
Dispute(r) ==
    /\ status[r] = "pending"
    /\ disputed' = disputed \cup {r}
    /\ UNCHANGED <<status, by, granted>>

Open(r) == status[r] = "pending" \/ r \in disputed

Approve(r) ==
    /\ Open(r)
    /\ status' = [status EXCEPT ![r] = "approved"]
    /\ granted' = granted \cup {by[r]}
    /\ UNCHANGED <<by, disputed>>

TurnDown(r) ==
    /\ Open(r)
    /\ \E d \in {"denied", "cancelled"} : status' = [status EXCEPT ![r] = d]
    /\ UNCHANGED <<by, granted, disputed>>

Next ==
    \E r \in Requests :
        \/ \E u \in Requesters : Ask(r, u)
        \/ Dispute(r) \/ Approve(r) \/ TurnDown(r)

Spec == Init /\ [][Next]_vars
=============================================================================
