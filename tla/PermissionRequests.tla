------------------------- MODULE PermissionRequests -------------------------
(***************************************************************************)
(* Requests for developer access and their decision                        *)
(* (auth/permissions.py, called by the admin dashboard and the profile     *)
(* page).                                                                  *)
(*                                                                         *)
(* Every operation is a transaction of one page's session: SELECTs that    *)
(* lock nothing, then a flush and a commit, which the row lock makes one   *)
(* step. An UPDATE names the row by its id only, so what was checked on    *)
(* the SELECTed row is not checked again; the two unique indexes are.      *)
(*                                                                         *)
(* Only the permission type the pages use, DEVELOPER, is modelled. Nothing *)
(* in the code sets the status SUPERSEDED.                                 *)
(***************************************************************************)
CONSTANTS
    Users,      \* requesters
    Requests,   \* row ids of permission_requests
    Sessions,   \* page sessions with an operation under way
    NoUser, NoRequest

ASSUME NullAssumption == NoUser \notin Users /\ NoRequest \notin Requests

VARIABLES
    request,     \* rows of permission_requests
    permission,  \* each user's DEVELOPER row of permissions
    job,         \* the operation of each session
    contested    \* history: requests that two sessions were deciding at once

vars == <<request, permission, job, contested>>

Decisions == {"approved", "denied", "cancelled"}

Request == [by : Users \cup {NoUser},
            status : {"none", "pending"} \cup Decisions]

\* A row that does not count (disabled, or past its expiration date) is
\* "inactive".
Permission == {"none", "active", "inactive"}

(***************************************************************************)
(* An operation's next step:                                               *)
(*   pending     look for a pending request (create)                       *)
(*   permission  look for the permission row (approve)                     *)
(*   commit      write and commit                                          *)
(***************************************************************************)
Job == [pc : {"idle", "pending", "permission", "commit"},
        op : {"none", "create"} \cup Decisions,
        user : Users \cup {NoUser}, req : Requests \cup {NoRequest},
        found : Permission]   \* the permission row, as read

NoJob == [pc |-> "idle", op |-> "none", user |-> NoUser, req |-> NoRequest,
          found |-> "none"]

TypeOK ==
    /\ request \in [Requests -> Request]
    /\ permission \in [Users -> Permission]
    /\ job \in [Sessions -> Job]
    /\ contested \subseteq Requests

----------------------------------------------------------------------------
Pending(u) ==
    {r \in Requests : request[r].by = u /\ request[r].status = "pending"}

\* has_developer_access.
Developer(u) == permission[u] = "active"

Exists(r) == request[r].status # "none"

Finish(s) == job' = [job EXCEPT ![s] = NoJob]

\* Mutant: the request is set aside instead of decided.
MUT_Decide(r, d) ==
    request' = [request EXCEPT ![r] =
      [by |-> request[r].by, status |-> "superseded"]]

Decide(r, d) ==
    request' = [request EXCEPT ![r] = [by |-> request[r].by, status |-> d]]

----------------------------------------------------------------------------
Init ==
    /\ request = [r \in Requests |-> [by |-> NoUser, status |-> "none"]]
    /\ permission = [u \in Users |-> "none"]
    /\ job = [s \in Sessions |-> NoJob]
    /\ contested = {}

\* create_permission_request: a user with access is refused.
Create(s, u) ==
    /\ job[s].pc = "idle"
    /\ ~Developer(u)
    /\ job' = [job EXCEPT ![s] =
         [NoJob EXCEPT !.pc = "pending", !.op = "create", !.user = u]]
    /\ UNCHANGED <<request, permission, contested>>

\* The request that is pending already is the answer.
CreateReadPending(s) ==
    /\ job[s].pc = "pending"
    /\ \/ Pending(job[s].user) # {} /\ Finish(s)
       \/ /\ Pending(job[s].user) = {}
          /\ job' = [job EXCEPT ![s].pc = "commit"]
    /\ UNCHANGED <<request, permission, contested>>

\* Mutant: no unique index, and the SELECT is trusted.
MUT_CreateCommit(s) ==
    /\ job[s].pc = "commit" /\ job[s].op = "create"
    /\ \E r \in Requests :
         /\ ~Exists(r)
         /\ request' = [request EXCEPT ![r] =
              [by |-> job[s].user, status |-> "pending"]]
    /\ Finish(s)
    /\ UNCHANGED <<permission, contested>>

\* The insert, which the partial unique index admits only if there is no
\* pending request.
CreateCommit(s) ==
    /\ job[s].pc = "commit" /\ job[s].op = "create"
    /\ Pending(job[s].user) = {}
    /\ \E r \in Requests :
         /\ ~Exists(r)
         /\ request' = [request EXCEPT ![r] =
              [by |-> job[s].user, status |-> "pending"]]
    /\ Finish(s)
    /\ UNCHANGED <<permission, contested>>

\* Requests that another session is deciding.
UnderDecision(s) == {job[t].req : t \in Sessions \ {s}}

\* Mutant: a request that is decided is decided again.
MUT_StartDecision(s, r, d) ==
    /\ job[s].pc = "idle" /\ Exists(r)
    /\ job' = [job EXCEPT ![s] =
         [NoJob EXCEPT !.op = d, !.req = r, !.pc =
            IF d = "approved" THEN "permission" ELSE "commit"]]
    /\ contested' = contested \cup ({r} \cap UnderDecision(s))
    /\ UNCHANGED <<request, permission>>

(***************************************************************************)
(* approve_, deny_ and cancel_permission_request up to the status check. A *)
(* request that is not pending is returned as it is: nothing changes. No   *)
(* page calls cancel yet.                                                  *)
(***************************************************************************)
StartDecision(s, r, d) ==
    /\ job[s].pc = "idle"
    /\ request[r].status = "pending"
    /\ job' = [job EXCEPT ![s] =
         [NoJob EXCEPT !.op = d, !.req = r, !.pc =
            IF d = "approved" THEN "permission" ELSE "commit"]]
    /\ contested' = contested \cup ({r} \cap UnderDecision(s))
    /\ UNCHANGED <<request, permission>>

ApproveReadPermission(s) ==
    /\ job[s].pc = "permission"
    /\ job' = [job EXCEPT ![s].pc = "commit",
                          ![s].found = permission[request[job[s].req].by]]
    /\ UNCHANGED <<request, permission, contested>>

(***************************************************************************)
(* A row that was found is enabled, which writes only what differs from    *)
(* what was read; otherwise one is inserted, which the unique constraint   *)
(* admits only if there still is none.                                     *)
(***************************************************************************)
ApproveCommit(s) ==
    LET r == job[s].req  u == request[r].by IN
    /\ job[s].pc = "commit" /\ job[s].op = "approved"
    /\ job[s].found = "none" => permission[u] = "none"
    /\ permission' = IF job[s].found = "active" THEN permission
                     ELSE [permission EXCEPT ![u] = "active"]
    /\ Decide(r, "approved")
    /\ Finish(s)
    /\ UNCHANGED contested

TurnDownCommit(s) ==
    LET r == job[s].req  d == job[s].op IN
    /\ job[s].pc = "commit" /\ d \in {"denied", "cancelled"}
    /\ Decide(r, d)
    /\ Finish(s)
    /\ UNCHANGED <<permission, contested>>

\* A unique index refuses the flush, or the page or the process dies.
Abort(s) ==
    /\ job[s].pc # "idle"
    /\ Finish(s)
    /\ UNCHANGED <<request, permission, contested>>

\* A permission expires or is disabled, which the code only reads.
Deactivate(u) ==
    /\ permission[u] = "active"
    /\ permission' = [permission EXCEPT ![u] = "inactive"]
    /\ UNCHANGED <<request, job, contested>>

Operation(s) ==
    \/ \E u \in Users : Create(s, u)
    \/ \E r \in Requests, d \in Decisions : StartDecision(s, r, d)
    \/ CreateReadPending(s) \/ CreateCommit(s)
    \/ ApproveReadPermission(s) \/ ApproveCommit(s) \/ TurnDownCommit(s)
    \/ Abort(s)

Next ==
    \/ \E s \in Sessions : Operation(s)
    \/ \E u \in Users : Deactivate(u)

Spec == Init /\ [][Next]_vars

----------------------------------------------------------------------------
(***************************************************************************)
(* Properties.                                                             *)
(***************************************************************************)

\* Two tabs that submit at once leave a user one pending request (the
\* SELECT of create_permission_request and the partial unique index).
OnePending == \A u \in Users : \A q, r \in Pending(u) : q = r

\* However decisions overlap or crash, an approved request has given its
\* requester the permission: approve writes both in one transaction.
ApprovedGranted ==
    \A r \in Requests :
        request[r].status = "approved" => permission[request[r].by] # "none"

\* A request is decided once and for good, and the permission comes from an
\* approval, whatever dashboards show and wherever operations die (the status
\* checks of approve, deny and cancel). Only while two sessions decide one
\* pending request at once can a later commit replace an earlier one.
Decision == INSTANCE PermissionDecision WITH
    Requesters <- Users, NoRequester <- NoUser,
    status <- [r \in Requests |-> request[r].status],
    by <- [r \in Requests |-> request[r].by],
    granted <- {u \in Users : permission[u] # "none"},
    disputed <- contested

DecidedOnce == Decision!Spec

(***************************************************************************)
(* The invariant behind it: a decision under way is of a request that is   *)
(* still pending and that no other session is deciding, or is contested.   *)
(***************************************************************************)
Deciding(s) == job[s].op \in Decisions

DecisionInv ==
    /\ \A r \in Requests : Exists(r) => request[r].by \in Users
    /\ \A s \in Sessions : Deciding(s) =>
         /\ \/ job[s].req \in contested
            \/ /\ request[job[s].req].status = "pending"
               /\ \A t \in Sessions : job[t].req = job[s].req => t = s
         /\ job[s].found # "none" =>
              permission[request[job[s].req].by] # "none"

\* What the documentation says of a denial, and of two admins who decide at
\* once: who has been given the permission has an approved request.
GrantsApproved ==
    \A u \in Users : permission[u] # "none" =>
        \E r \in Requests : request[r] = [by |-> u, status |-> "approved"]

=============================================================================
