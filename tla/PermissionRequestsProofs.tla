---------------------- MODULE PermissionRequestsProofs ----------------------
(***************************************************************************)
(* Proofs about PermissionRequests, however operations overlap and fail:   *)
(* Granting, and from it OnePending and ApprovedGranted; then DecisionInv, *)
(* and from it the refinement of PermissionDecision.                       *)
(***************************************************************************)
EXTENDS PermissionRequests, TLAPS

LEMMA NoJobType == NoJob \in Job
BY DEF NoJob, Job, Permission

----------------------------------------------------------------------------
(***************************************************************************)
(* A permission that was found is never deleted, and a request keeps its   *)
(* requester: what an approval has read still suits its commit.            *)
(***************************************************************************)
JobsSound ==
    \A s \in Sessions :
        /\ job[s].op = "create" => job[s].user \in Users
        /\ Deciding(s) => job[s].req \in Requests /\ Exists(job[s].req)
        /\ job[s].pc = "pending" => job[s].op = "create"
        /\ job[s].pc = "permission" => job[s].op = "approved"
        /\ Deciding(s) /\ job[s].found # "none" =>
             permission[request[job[s].req].by] # "none"

Requested == \A r \in Requests : Exists(r) => request[r].by \in Users

Granting ==
    TypeOK /\ JobsSound /\ Requested /\ OnePending /\ ApprovedGranted

LEMMA GrantingInit == Init => Granting
BY DEF Init, Granting, TypeOK, JobsSound, Requested, OnePending, Pending,
       ApprovedGranted, Request, Permission, Job, NoJob, Deciding, Decisions,
       Exists

LEMMA CreateGranting ==
    ASSUME Granting, NEW s \in Sessions, NEW u \in Users, Create(s, u)
    PROVE  Granting'
<1>1. TypeOK'
  BY NoJobType DEF Create, Granting, TypeOK, Job, NoJob, Decisions, Permission
<1>2. JobsSound'
  BY DEF Create, Granting, TypeOK, Job, NoJob, Decisions, JobsSound, Deciding,
         Exists
<1>3. Requested' /\ OnePending' /\ ApprovedGranted'
  BY DEF Create, Granting, Requested, OnePending, Pending, ApprovedGranted,
         Exists
<1> QED
  BY <1>1, <1>2, <1>3 DEF Granting

LEMMA CreateReadPendingGranting ==
    ASSUME Granting, NEW s \in Sessions, CreateReadPending(s)
    PROVE  Granting'
<1>1. TypeOK'
  BY NoJobType DEF CreateReadPending, Granting, TypeOK, Job, NoJob, Finish, Permission, Decisions
<1>2. JobsSound'
  BY DEF CreateReadPending, Granting, TypeOK, Job, NoJob, Finish, JobsSound, Deciding, Decisions,
         Exists
<1>3. Requested' /\ OnePending' /\ ApprovedGranted'
  BY DEF CreateReadPending, Granting, Requested, OnePending, Pending, ApprovedGranted,
         Exists
<1> QED
  BY <1>1, <1>2, <1>3 DEF Granting

LEMMA CreateCommitGranting ==
    ASSUME Granting, NEW s \in Sessions, CreateCommit(s)
    PROVE  Granting'
<1>1. TypeOK'
  BY NoJobType DEF CreateCommit, Finish, Granting, TypeOK, JobsSound, Request,
                   Job, NoJob, Permission, Decisions
<1>2. JobsSound'
  BY DEF CreateCommit, Finish, Granting, TypeOK, JobsSound, Request, Job, NoJob,
         Deciding, Decisions, Exists
<1>3. Requested' /\ OnePending' /\ ApprovedGranted'
  BY DEF CreateCommit, Granting, TypeOK, JobsSound, Requested, OnePending,
         Pending, ApprovedGranted, Request, Exists
<1> QED
  BY <1>1, <1>2, <1>3 DEF Granting

LEMMA StartDecisionGranting ==
    ASSUME Granting, NEW s \in Sessions, NEW r \in Requests,
           NEW d \in Decisions, StartDecision(s, r, d)
    PROVE  Granting'
<1> DEFINE row == [NoJob EXCEPT !.op = d, !.req = r, !.pc =
                     IF d = "approved" THEN "permission" ELSE "commit"]
<1>1. row \in Job /\ row.op = d /\ row.req = r /\ row.found = "none"
      /\ row.pc = (IF d = "approved" THEN "permission" ELSE "commit")
  BY DEF NoJob, Job, Permission
<1>2. job' = [job EXCEPT ![s] = row] /\ Exists(r)
      /\ contested' \subseteq Requests /\ UNCHANGED <<request, permission>>
  BY DEF StartDecision, Exists, Granting, TypeOK
<1>3. TypeOK'
  BY <1>1, <1>2 DEF Granting, TypeOK
<1>4. \A t \in Sessions : job'[t] = IF t = s THEN row ELSE job[t]
  BY <1>2 DEF Granting, TypeOK
<1>5. JobsSound'
  <2> HIDE DEF row
  <2> QED
    BY <1>1, <1>2, <1>4 DEF Granting, JobsSound, Deciding, Decisions, Exists
<1>6. Requested' /\ OnePending' /\ ApprovedGranted'
  BY <1>2 DEF Granting, Requested, OnePending, Pending, ApprovedGranted, Exists
<1> QED
  BY <1>3, <1>5, <1>6 DEF Granting

LEMMA ApproveReadPermissionGranting ==
    ASSUME Granting, NEW s \in Sessions, ApproveReadPermission(s)
    PROVE  Granting'
<1> DEFINE u == request[job[s].req].by
<1>1. TypeOK'
  <2>1. u \in Users
    BY DEF ApproveReadPermission, Granting, JobsSound, Requested, Deciding,
           Decisions
  <2>2. permission[u] \in Permission
    BY <2>1 DEF Granting, TypeOK
  <2>3. [job[s] EXCEPT !.pc = "commit", !.found = permission[u]] \in Job
    BY <2>2 DEF Granting, TypeOK, Job
  <2> QED
    BY <2>3 DEF ApproveReadPermission, Granting, TypeOK
<1>2. JobsSound'
  BY DEF ApproveReadPermission, Granting, TypeOK, Job, Permission, JobsSound, Deciding, Decisions,
         Exists
<1>3. Requested' /\ OnePending' /\ ApprovedGranted'
  BY DEF ApproveReadPermission, Granting, Requested, OnePending, Pending, ApprovedGranted,
         Exists
<1> QED
  BY <1>1, <1>2, <1>3 DEF Granting

LEMMA ApproveCommitGranting ==
    ASSUME Granting, NEW s \in Sessions, ApproveCommit(s)
    PROVE  Granting'
BY DEF ApproveCommit, Decide, Finish, Granting, TypeOK, JobsSound, Requested,
       OnePending, Pending, ApprovedGranted, Request, Permission, Job, NoJob,
       Deciding, Decisions, Exists

LEMMA TurnDownCommitGranting ==
    ASSUME Granting, NEW s \in Sessions, TurnDownCommit(s)
    PROVE  Granting'
<1>1. TypeOK'
  BY NoJobType DEF TurnDownCommit, Decide, Finish, Granting, TypeOK, JobsSound, Request,
         Job, NoJob, Deciding, Decisions, Permission
<1>2. JobsSound'
  BY DEF TurnDownCommit, Decide, Finish, Granting, TypeOK, JobsSound, Request,
         Job, NoJob, Deciding, Decisions, Exists
<1>3. Requested' /\ OnePending' /\ ApprovedGranted'
  BY DEF TurnDownCommit, Decide, Granting, TypeOK, JobsSound, Requested,
         OnePending, Pending, ApprovedGranted, Request, Deciding, Decisions,
         Exists
<1> QED
  BY <1>1, <1>2, <1>3 DEF Granting

LEMMA AbortGranting ==
    ASSUME Granting, NEW s \in Sessions, Abort(s)
    PROVE  Granting'
<1>1. TypeOK'
  BY NoJobType DEF Abort, Granting, TypeOK, Job, NoJob, Finish, Permission, Decisions
<1>2. JobsSound'
  BY DEF Abort, Granting, TypeOK, Job, NoJob, Finish, JobsSound, Deciding, Decisions,
         Exists
<1>3. Requested' /\ OnePending' /\ ApprovedGranted'
  BY DEF Abort, Granting, Requested, OnePending, Pending, ApprovedGranted,
         Exists
<1> QED
  BY <1>1, <1>2, <1>3 DEF Granting

LEMMA DeactivateGranting ==
    ASSUME Granting, NEW u \in Users, Deactivate(u)
    PROVE  Granting'
BY DEF Deactivate, Granting, TypeOK, JobsSound, Requested, OnePending,
       Pending, ApprovedGranted, Permission, Deciding, Decisions, Exists

LEMMA NextGranting == Granting /\ [Next]_vars => Granting'
<1> SUFFICES ASSUME Granting, [Next]_vars
             PROVE  Granting'
  OBVIOUS
<1>1. CASE Next
  BY <1>1, CreateGranting, CreateReadPendingGranting, CreateCommitGranting,
     StartDecisionGranting, ApproveReadPermissionGranting,
     ApproveCommitGranting, TurnDownCommitGranting, AbortGranting,
     DeactivateGranting DEF Next, Operation
<1>2. CASE UNCHANGED vars
  BY <1>2 DEF vars, Granting, TypeOK, JobsSound, Requested, OnePending,
              Pending, ApprovedGranted, Deciding, Exists
<1> QED
  BY <1>1, <1>2

LEMMA AlwaysGranting == Spec => []Granting
BY GrantingInit, NextGranting, PTL DEF Spec

\* Every variable keeps its type, however operations overlap and fail.
THEOREM TypeCorrect == Spec => []TypeOK
<1>1. Granting => TypeOK
  BY DEF Granting
<1> QED
  BY <1>1, AlwaysGranting, PTL

\* A user never has two pending requests, however many tabs submit: the
\* partial unique index does what the SELECT of create_permission_request
\* cannot.
THEOREM PendingUnique == Spec => []OnePending
<1>1. Granting => OnePending
  BY DEF Granting
<1> QED
  BY <1>1, AlwaysGranting, PTL

\* However decisions overlap or fail, the requester of an approved request
\* has been given the permission (the single commit of
\* approve_permission_request).
THEOREM ApprovalGrants == Spec => []ApprovedGranted
<1>1. Granting => ApprovedGranted
  BY DEF Granting
<1> QED
  BY <1>1, AlwaysGranting, PTL

----------------------------------------------------------------------------
(***************************************************************************)
(* Decisions under way.                                                    *)
(***************************************************************************)
Once == Granting /\ DecisionInv

LEMMA OnceInit == Init => DecisionInv
BY DEF Init, DecisionInv, NoJob, Deciding, Decisions, Exists

LEMMA OnceNext ==
    ASSUME Once, [Next]_vars
    PROVE  DecisionInv'
<1> USE NullAssumption
<1>1. ASSUME NEW s \in Sessions, NEW u \in Users, Create(s, u)
      PROVE  DecisionInv'
  BY <1>1 DEF Create, Once, DecisionInv, Granting, TypeOK, Job, NoJob, JobsSound,
              Deciding, Decisions, Exists
<1>2. ASSUME NEW s \in Sessions, CreateReadPending(s)
      PROVE  DecisionInv'
  BY <1>2 DEF CreateReadPending, Finish, Once, DecisionInv, Granting, TypeOK,
              Job, NoJob, JobsSound, Deciding, Decisions, Exists
<1>3. ASSUME NEW s \in Sessions, CreateCommit(s)
      PROVE  DecisionInv'
  BY <1>3 DEF CreateCommit, Finish, Once, DecisionInv, Granting, TypeOK,
              Job, NoJob, Request, JobsSound, Deciding, Decisions, Exists
<1>4. ASSUME NEW s \in Sessions, NEW r \in Requests, NEW d \in Decisions,
             StartDecision(s, r, d)
      PROVE  DecisionInv'
  <2> DEFINE row == [NoJob EXCEPT !.op = d, !.req = r, !.pc =
                       IF d = "approved" THEN "permission" ELSE "commit"]
  <2>1. row.op = d /\ row.req = r /\ row.found = "none"
    BY DEF NoJob
  <2>2. \A t \in Sessions : job'[t] = IF t = s THEN row ELSE job[t]
    BY <1>4 DEF StartDecision, Once, Granting, TypeOK
  <2>3. contested \subseteq contested'
        /\ \A t \in Sessions \ {s} : job[t].req = r => r \in contested'
    BY <1>4 DEF StartDecision, UnderDecision
  <2>4. request[r].status = "pending" /\ UNCHANGED <<request, permission>>
    BY <1>4 DEF StartDecision
  <2> HIDE DEF row
  <2>5. \A r1 \in Requests : Exists(r1)' => request'[r1].by \in Users
    BY <2>4 DEF Once, DecisionInv, Exists
  <2>6. ASSUME NEW t \in Sessions, Deciding(t)'
        PROVE  /\ \/ job'[t].req \in contested'
                  \/ /\ request'[job'[t].req].status = "pending"
                     /\ \A v \in Sessions : job'[v].req = job'[t].req => v = t
               /\ job'[t].found # "none" =>
                    permission'[request'[job'[t].req].by] # "none"
    <3>1. CASE t = s
      BY <2>1, <2>2, <2>3, <2>4, <3>1
    <3>2. CASE t # s
      BY <2>1, <2>2, <2>3, <2>4, <2>6, <3>2 DEF Once, DecisionInv, Deciding
    <3> QED
      BY <3>1, <3>2
  <2> QED
    BY <2>5, <2>6 DEF DecisionInv
<1>5. ASSUME NEW s \in Sessions, ApproveReadPermission(s)
      PROVE  DecisionInv'
  BY <1>5 DEF ApproveReadPermission, Once, DecisionInv, Granting, TypeOK, Job,
              JobsSound, Deciding, Decisions, Exists
<1>6. ASSUME NEW s \in Sessions, ApproveCommit(s)
      PROVE  DecisionInv'
  BY <1>6 DEF ApproveCommit, Decide, Finish, Once, DecisionInv, Granting,
              TypeOK, Request, Job, NoJob, JobsSound, Deciding, Decisions,
              Exists
<1>7. ASSUME NEW s \in Sessions, TurnDownCommit(s)
      PROVE  DecisionInv'
  BY <1>7 DEF TurnDownCommit, Decide, Finish, Once, DecisionInv, Granting,
              TypeOK, Request, Job, NoJob, JobsSound, Deciding, Decisions,
              Exists
<1>8. ASSUME NEW s \in Sessions, Abort(s)
      PROVE  DecisionInv'
  BY <1>8 DEF Abort, Finish, Once, DecisionInv, Granting, TypeOK, Job, NoJob,
              JobsSound, Deciding, Decisions, Exists
<1>9. ASSUME NEW u \in Users, Deactivate(u)
      PROVE  DecisionInv'
  BY <1>9 DEF Deactivate, Once, DecisionInv, Granting, TypeOK, JobsSound,
              Deciding, Decisions, Exists
<1>10. ASSUME UNCHANGED vars
       PROVE  DecisionInv'
  BY <1>10 DEF vars, Once, DecisionInv, Deciding, Exists
<1> QED
  BY <1>1, <1>2, <1>3, <1>4, <1>5, <1>6, <1>7, <1>8, <1>9, <1>10
     DEF Next, Operation

\* However decisions overlap and fail, one under way is of a request that is
\* still pending, so that the status check of approve, deny and cancel still
\* holds at their commit, unless another session decides it at the same time.
THEOREM DecisionsSound == Spec => []DecisionInv
<1>1. Once /\ [Next]_vars => Once'
  BY OnceNext, NextGranting DEF Once
<1>2. Init => Once
  BY OnceInit, GrantingInit DEF Once
<1>3. Once => DecisionInv
  BY DEF Once
<1> QED
  BY <1>1, <1>2, <1>3, PTL DEF Spec

----------------------------------------------------------------------------
(***************************************************************************)
(* PermissionRequests implements PermissionDecision: what the mapping sees *)
(* is changed by the three commits, and by a second decision that starts.  *)
(***************************************************************************)
LEMMA DecisionInit == Init => Decision!Init
BY DEF Init, Decision!Init

LEMMA AskStep ==
    ASSUME Once, NEW s \in Sessions, CreateCommit(s)
    PROVE  Decision!Next
<1>1. PICK u \in Users : u = job[s].user /\ Pending(u) = {}
  BY DEF CreateCommit, Once, Granting, JobsSound
<1>2. PICK r \in Requests :
        /\ ~Exists(r)
        /\ request' = [request EXCEPT ![r] =
             [by |-> u, status |-> "pending"]]
  BY <1>1 DEF CreateCommit
<1>3. Decision!Ask(r, u)
  <2>1. \A q \in Requests : request[q].status = "pending" =>
          request[q].by # u
    BY <1>1 DEF Pending
  <2>2. [q \in Requests |-> request'[q].status] =
          [[q \in Requests |-> request[q].status] EXCEPT ![r] = "pending"]
    BY <1>2 DEF Once, Granting, TypeOK
  <2>3. [q \in Requests |-> request'[q].by] =
          [[q \in Requests |-> request[q].by] EXCEPT ![r] = u]
    BY <1>2 DEF Once, Granting, TypeOK
  <2>4. UNCHANGED {v \in Users : permission[v] # "none"}
    BY DEF CreateCommit
  <2> QED
    BY <1>2, <2>1, <2>2, <2>3, <2>4 DEF Decision!Ask, Exists, CreateCommit
<1> QED
  BY <1>1, <1>3 DEF Decision!Next

LEMMA ApproveStep ==
    ASSUME Once, NEW s \in Sessions, ApproveCommit(s)
    PROVE  Decision!Next
<1>1. PICK r \in Requests, u \in Users :
        /\ r = job[s].req /\ u = request[r].by
        /\ request[r].status = "pending" \/ r \in contested
        /\ job[s].found # "none" => permission[u] # "none"
  BY DEF ApproveCommit, Once, Granting, JobsSound, Requested, DecisionInv,
         Deciding, Decisions
<1>2. [q \in Requests |-> request'[q].status] =
        [[q \in Requests |-> request[q].status] EXCEPT ![r] = "approved"]
  BY <1>1 DEF ApproveCommit, Decide, Once, Granting, TypeOK
<1>3. UNCHANGED [q \in Requests |-> request[q].by]
  BY <1>1 DEF ApproveCommit, Decide, Once, Granting, TypeOK
<1>4. {v \in Users : permission'[v] # "none"} =
        {v \in Users : permission[v] # "none"} \cup {u}
  BY <1>1 DEF ApproveCommit, Once, Granting, TypeOK
<1>5. Decision!Approve(r)
  BY <1>1, <1>2, <1>3, <1>4 DEF Decision!Approve, Decision!Open, ApproveCommit
<1> QED
  BY <1>1, <1>5 DEF Decision!Next

LEMMA TurnDownStep ==
    ASSUME Once, NEW s \in Sessions, TurnDownCommit(s)
    PROVE  Decision!Next
<1>1. PICK r \in Requests, d \in {"denied", "cancelled"} :
        /\ r = job[s].req /\ d = job[s].op
        /\ request[r].status = "pending" \/ r \in contested
  BY DEF TurnDownCommit, Once, Granting, JobsSound, DecisionInv, Deciding,
         Decisions
<1>2. [q \in Requests |-> request'[q].status] =
        [[q \in Requests |-> request[q].status] EXCEPT ![r] = d]
  BY <1>1 DEF TurnDownCommit, Decide, Once, Granting, TypeOK
<1>3. UNCHANGED <<[q \in Requests |-> request[q].by],
                  {u \in Users : permission[u] # "none"}>>
  BY <1>1 DEF TurnDownCommit, Decide, Once, Granting, TypeOK
<1>4. Decision!TurnDown(r)
  BY <1>1, <1>2, <1>3 DEF Decision!TurnDown, Decision!Open, TurnDownCommit
<1> QED
  BY <1>1, <1>4 DEF Decision!Next

LEMMA DisputeStep ==
    ASSUME Once, NEW s \in Sessions, NEW r \in Requests, NEW d \in Decisions,
           StartDecision(s, r, d)
    PROVE  [Decision!Next]_(Decision!vars)
<1>1. request[r].status = "pending" /\ UNCHANGED <<request, permission>>
  BY DEF StartDecision
<1>2. CASE contested' = contested
  BY <1>1, <1>2 DEF Decision!vars
<1>3. CASE contested' # contested
  <2>1. contested' = contested \cup {r}
    BY <1>3 DEF StartDecision
  <2> QED
    BY <1>1, <2>1 DEF Decision!Dispute, Decision!Next
<1> QED
  BY <1>2, <1>3

LEMMA DecisionStep ==
    ASSUME Once, [Next]_vars
    PROVE  [Decision!Next]_(Decision!vars)
<1>1. CASE \E s \in Sessions :
             CreateCommit(s) \/ ApproveCommit(s) \/ TurnDownCommit(s)
  BY <1>1, AskStep, ApproveStep, TurnDownStep
<1>2. CASE \E s \in Sessions, r \in Requests, d \in Decisions :
             StartDecision(s, r, d)
  BY <1>2, DisputeStep
<1>3. CASE UNCHANGED <<request, contested,
                       {u \in Users : permission[u] # "none"}>>
  BY <1>3 DEF Decision!vars
<1>4. ASSUME NEW u \in Users, Deactivate(u)
      PROVE  UNCHANGED <<request, contested,
                         {v \in Users : permission[v] # "none"}>>
  BY <1>4 DEF Deactivate, Once, Granting, TypeOK
<1> QED
  BY <1>1, <1>2, <1>3, <1>4 DEF Next, Operation, Create, CreateReadPending,
     ApproveReadPermission, Abort, Deactivate, vars

\* A request is decided once and for good, but for one that two sessions
\* were deciding at once, and nobody gets the permission but by an approval:
\* the operations implement PermissionDecision, however they overlap.
THEOREM DecisionImplemented == Spec => DecidedOnce
<1>1. Once /\ [Next]_vars => Once'
  BY OnceNext, NextGranting DEF Once
<1>2. Init => Once
  BY OnceInit, GrantingInit DEF Once
<1>3. Once /\ [Next]_vars => [Decision!Next]_(Decision!vars)
  BY DecisionStep
<1> QED
  BY <1>1, <1>2, <1>3, DecisionInit, PTL DEF Spec, DecidedOnce, Decision!Spec
=============================================================================
