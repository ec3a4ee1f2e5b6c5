---------------------------- MODULE GrantedAccess ----------------------------
(***************************************************************************)
(* What the permissions that requests grant open: PermissionRequests, with *)
(* the operators of PageAccess over the rows its users have.               *)
(***************************************************************************)
EXTENDS PermissionRequests, PageAccess

\* The rows of a user whose DEVELOPER permission is in state p, whatever
\* other permissions there are.
RowsWith(p) ==
    {rows \in Granted :
        /\ rows["developer"] = NoRow <=> p = "none"
        /\ "developer" \in RequestPermissions(rows) <=> p = "active"}

LinksSound ==
    [p \in Permission |->
        \A signedIn \in BOOLEAN, rows \in RowsWith(p) : LinksFit(signedIn, rows)]

CountsSound == [p \in Permission |-> \A rows \in RowsWith(p) : CountsFit(rows)]

\* Whatever permissions users have besides the one they requested, the links
\* they see lead to pages that let them in, home shows every dashboard that
\* does, the key endpoints admit whom the admin dashboard admits, and the
\* profile offers a request to whom it is not refused (home.py, profile.py,
\* page_security, _require_key_admin, create_permission_request).
LinksOpenPages == \A u \in Users : LinksSound[permission[u]]

\* The metrics of the admin dashboard agree with the checks of the pages:
\* they count as developers those whom the developer pages let in, and as
\* inactive exactly the permissions that open nothing
\* (get_admin_dashboard_metrics).
CountsAgree == \A u \in Users : CountsSound[permission[u]]
=============================================================================
