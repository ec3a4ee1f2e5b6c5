---------------------------- MODULE PageAccess -----------------------------
(***************************************************************************)
(* Who may open which page, and which links the pages offer                *)
(* (auth/security.py, auth/middleware.py, routes/home.py,                  *)
(* routes/profile.py), and what the admin dashboard counts                 *)
(* (auth/permissions.py). Nothing here keeps state: these are functions of *)
(* a user's rows of permissions, at one moment.                            *)
(***************************************************************************)

Types == {"root", "admin", "developer", "support"}

\* A row, by how its expiration date compares with the clock. A comparison
\* with NULL is neither true nor false, and selects nothing.
Row == [disabled : BOOLEAN, expires : {"null", "past", "now", "future"}]
NoRow == [disabled |-> TRUE, expires |-> "none"]

\* What a user may have: a row of each type, as the unique constraint says.
Granted == [Types -> Row \cup {NoRow}]

\* expiration_date > now(), expiration_date <= now() and IS NULL.
Later(row) == row.expires = "future"
Past(row) == row.expires \in {"past", "now"}
Endless(row) == row.expires = "null"

(***************************************************************************)
(* The permissions in force, by four queries that the code writes apart:   *)
(* for page_security and the key endpoints, for a request for access, for  *)
(* the home page and for the profile.                                      *)
(***************************************************************************)
PagePermissions(rows) ==
    {t \in Types : ~rows[t].disabled /\ (Later(rows[t]) \/ Endless(rows[t]))}

RequestPermissions(rows) ==
    {t \in Types : ~rows[t].disabled /\ (Later(rows[t]) \/ Endless(rows[t]))}

\* Mutant: home forgets that permissions expire.
MUT_HomePermissions(rows) == {t \in Types : ~rows[t].disabled}

HomePermissions(rows) ==
    {t \in Types : ~rows[t].disabled /\ (Later(rows[t]) \/ Endless(rows[t]))}

ProfilePermissions(rows) ==
    {t \in Types : ~rows[t].disabled /\ (Later(rows[t]) \/ Endless(rows[t]))}

IsAuthorized(have, required, mode) ==
    \/ "root" \in have
    \/ mode = "all" /\ required \subseteq have
    \/ mode = "any" /\ required \cap have # {}

HasDeveloperAccess(have) == have \cap {"developer", "admin", "root"} # {}

----------------------------------------------------------------------------
(***************************************************************************)
(* Pages: the ones anybody may open, the profile for whoever is signed in, *)
(* and those with a page_security of their own.                            *)
(***************************************************************************)
Public == {"home", "login", "register", "logout", "forbidden"}
Secured == {"developer", "create_client", "admin"}
AllPages == Public \cup Secured \cup {"profile"}

PageSecurity(page) ==
    IF page = "admin" THEN {"admin"} ELSE {"developer", "admin"}

Opens(signedIn, rows, page) ==
    \/ page \in Public
    \/ signedIn /\ page \notin Secured
    \/ signedIn /\ IsAuthorized(PagePermissions(rows), PageSecurity(page), "any")

\* The key endpoints of the API (_require_key_admin).
ManagesKeys(signedIn, rows) ==
    signedIn /\ IsAuthorized(PagePermissions(rows), {"admin", "root"}, "any")

\* The links to dashboards, on the home page and on the profile.
HomeDashboards(rows) ==
    {p \in {"developer", "admin"} :
        \/ p = "developer" /\ HasDeveloperAccess(HomePermissions(rows))
        \/ p = "admin" /\ HomePermissions(rows) \cap {"admin", "root"} # {}}

ProfileDashboards(rows) ==
    {p \in {"developer", "admin"} :
        \/ p = "developer" /\ HasDeveloperAccess(ProfilePermissions(rows))
        \/ p = "admin" /\ ProfilePermissions(rows) \cap {"admin", "root"} # {}}

\* The profile offers a request for developer access, and
\* create_permission_request refuses one.
OffersRequest(rows) == ~HasDeveloperAccess(ProfilePermissions(rows))

RefusesRequest(rows) == HasDeveloperAccess(RequestPermissions(rows))

\* The links of a page for a user who may open it, header and menu included.
Links(page, signedIn, rows) ==
    CASE page = "home" /\ ~signedIn -> {"login", "register"}
      [] page = "home" /\ signedIn ->
           {"profile", "logout"} \cup HomeDashboards(rows)
      [] page = "profile" -> {"home", "logout"} \cup ProfileDashboards(rows)
      [] page = "developer" -> {"create_client", "profile", "logout"}
      [] page = "admin" -> {"profile", "logout"}
      [] page = "create_client" -> {"home", "developer"}
      [] page = "login" -> {"home", "register"}
      [] page \in {"register", "forbidden"} -> {"home"}
      [] page = "logout" -> {}

----------------------------------------------------------------------------
(***************************************************************************)
(* What the metrics of the admin dashboard count.                          *)
(***************************************************************************)
CountsAsDeveloper(rows) ==
    \E t \in {"developer", "admin", "root"} :
        ~rows[t].disabled /\ (Later(rows[t]) \/ Endless(rows[t]))

\* Mutant: a permission is inactive from the moment after its expiry.
MUT_CountsAsInactive(row) == row.disabled \/ row.expires = "past"

CountsAsInactive(row) == row.disabled \/ Past(row)

----------------------------------------------------------------------------
(***************************************************************************)
(* What should hold of a user with these rows. The queries and the tests   *)
(* of home.py, profile.py, security.py and permissions.py, and the metrics *)
(* are all written apart.                                                  *)
(***************************************************************************)

\* Every link leads to a page that its user may open, home links to every
\* dashboard that opens, the key endpoints admit whom the admin dashboard
\* admits, and the profile offers a request to whom it is not refused.
LinksFit(signedIn, rows) ==
    /\ \A page \in AllPages : Opens(signedIn, rows, page) =>
         Links(page, signedIn, rows)
           \subseteq {to \in AllPages : Opens(signedIn, rows, to)}
    /\ \A page \in {"developer", "admin"} :
         Opens(signedIn, rows, page) => page \in Links("home", signedIn, rows)
    /\ ManagesKeys(signedIn, rows) <=> Opens(signedIn, rows, "admin")
    /\ OffersRequest(rows) <=> ~RefusesRequest(rows)

\* Who is counted as a developer is let into the developer pages, and every
\* permission either opens pages or is counted as inactive, at the moment of
\* its expiry and without one too.
CountsFit(rows) ==
    /\ CountsAsDeveloper(rows) <=> Opens(TRUE, rows, "developer")
    /\ \A t \in Types : rows[t] # NoRow =>
         (t \in PagePermissions(rows) <=> ~CountsAsInactive(rows[t]))
=============================================================================
