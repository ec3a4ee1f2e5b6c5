----------------------------- MODULE TokenLine -----------------------------
(***************************************************************************)
(* What the two grants promise about the credentials that descend from an  *)
(* authorization code: at any time the client can go on with at most one   *)
(* of them, at first the code; each use replaces it by a new one for good; *)
(* and a line that is cut off (revoked, or its last answer lost) ends. A   *)
(* line whose end is used or revoked by two requests at once forks: from   *)
(* then on the promise is only that what is spent stays spent, and that    *)
(* its credentials stay out of the other lines.                            *)
(***************************************************************************)
CONSTANTS Codes, Credentials, NoCredential

VARIABLES
    current,  \* the credential each line goes on with
    used,     \* credentials of each line that are spent or revoked
    forked    \* lines of which that is not known any more

vars == <<current, used, forked>>

Init ==
    /\ current = [f \in Codes |-> NoCredential]
    /\ used = [f \in Codes |-> {}]
    /\ forked = {}

\* Not in a line other than f.
Foreign(f, x) == \E g \in Codes \ {f} : current[g] = x \/ x \in used[g]

Open(f) ==
    /\ f \notin forked /\ current[f] = NoCredential /\ f \notin used[f]
    /\ current' = [current EXCEPT ![f] = f]
    /\ UNCHANGED <<used, forked>>

Renew(f) ==
    /\ current[f] # NoCredential
    /\ \E x \in Credentials \ (used[f] \cup {current[f]}) :
         /\ ~Foreign(f, x)
         /\ current' = [current EXCEPT ![f] = x]
    /\ used' = [used EXCEPT ![f] = used[f] \cup {current[f]}]
    /\ UNCHANGED forked

Revoke(f) ==
    /\ current[f] # NoCredential
    /\ current' = [current EXCEPT ![f] = NoCredential]
    /\ used' = [used EXCEPT ![f] = used[f] \cup {current[f]}]
    /\ UNCHANGED forked

\* The answer that carries the credential is lost.
Lose(f) ==
    /\ current[f] # NoCredential /\ f \in used[f]
    /\ current' = [current EXCEPT ![f] = NoCredential]
    /\ UNCHANGED <<used, forked>>

\* A second request takes up the end of the line, or revokes it, while a
\* first one is using it.
Fork(f) ==
    /\ current[f] # NoCredential
    /\ forked' = forked \cup {f}
    /\ current' = [current EXCEPT ![f] = NoCredential]
    /\ \/ UNCHANGED used
       \/ used' = [used EXCEPT ![f] = used[f] \cup {current[f]}]

\* A credential of a forked line is spent or revoked.
Stray(f) ==
    /\ f \in forked
    /\ \E x \in Credentials :
         ~Foreign(f, x) /\ used' = [used EXCEPT ![f] = used[f] \cup {x}]
    /\ UNCHANGED <<current, forked>>

Next ==
    \E f \in Codes :
        Open(f) \/ Renew(f) \/ Revoke(f) \/ Lose(f) \/ Fork(f) \/ Stray(f)

Spec == Init /\ [][Next]_vars
=============================================================================
