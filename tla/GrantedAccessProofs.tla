------------------------ MODULE GrantedAccessProofs ------------------------
(***************************************************************************)
(* Proofs about GrantedAccess. The queries and tests that the code writes  *)
(* apart agree for every combination of rows (LinksAgree, CountsMatch):    *)
(* the queries select the same permissions (QueriesAgree), and each test   *)
(* amounts to one of two conditions on them, MayAdminister and MayDevelop. *)
(* That requests leave a user with such rows only is the type invariant of *)
(* PermissionRequests.                                                     *)
(***************************************************************************)
EXTENDS GrantedAccess, PermissionRequestsProofs

MayAdminister(rows) == PagePermissions(rows) \cap {"admin", "root"} # {}

MayDevelop(rows) == PagePermissions(rows) \cap {"developer", "admin", "root"} # {}

\* security.py, permissions.py, home.py and profile.py find the same
\* permissions in force.
LEMMA QueriesAgree ==
    ASSUME NEW rows \in Granted
    PROVE  /\ RequestPermissions(rows) = PagePermissions(rows)
           /\ HomePermissions(rows) = PagePermissions(rows)
           /\ ProfilePermissions(rows) = PagePermissions(rows)
BY DEF RequestPermissions, HomePermissions, ProfilePermissions, PagePermissions

\* A requirement of any of some permissions: ROOT meets every one.
LEMMA AnyAuthorized ==
    ASSUME NEW have, NEW required
    PROVE  IsAuthorized(have, required, "any")
             <=> have \cap (required \cup {"root"}) # {}
BY DEF IsAuthorized

LEMMA PublicOpens ==
    ASSUME NEW signedIn \in BOOLEAN, NEW rows \in Granted, NEW page \in Public
    PROVE  Opens(signedIn, rows, page)
BY DEF Opens

LEMMA ProfileOpens ==
    ASSUME NEW signedIn \in BOOLEAN, NEW rows \in Granted
    PROVE  Opens(signedIn, rows, "profile") <=> signedIn
BY DEF Opens, Public, Secured

\* The page of an administrator, page_security, and the key endpoints,
\* _require_key_admin, ask for the same.
LEMMA AdminOpens ==
    ASSUME NEW signedIn \in BOOLEAN, NEW rows \in Granted
    PROVE  /\ Opens(signedIn, rows, "admin") <=> signedIn /\ MayAdminister(rows)
           /\ ManagesKeys(signedIn, rows) <=> signedIn /\ MayAdminister(rows)
<1>1. IsAuthorized(PagePermissions(rows), PageSecurity("admin"), "any")
        <=> MayAdminister(rows)
  BY AnyAuthorized DEF PageSecurity, MayAdminister
<1>2. IsAuthorized(PagePermissions(rows), {"admin", "root"}, "any")
        <=> MayAdminister(rows)
  BY AnyAuthorized DEF MayAdminister
<1> QED
  BY <1>1, <1>2 DEF Opens, ManagesKeys, Public, Secured

LEMMA DeveloperOpens ==
    ASSUME NEW signedIn \in BOOLEAN, NEW rows \in Granted,
           NEW page \in {"developer", "create_client"}
    PROVE  Opens(signedIn, rows, page) <=> signedIn /\ MayDevelop(rows)
<1>1. IsAuthorized(PagePermissions(rows), PageSecurity(page), "any") <=> MayDevelop(rows)
  BY AnyAuthorized DEF PageSecurity, MayDevelop
<1> QED
  BY <1>1 DEF Opens, Public, Secured

\* The links to dashboards, has_developer_access and the tests of home.py
\* and profile.py, and the offer and the refusal of a request.
LEMMA DashboardsLinked ==
    ASSUME NEW rows \in Granted
    PROVE  /\ "developer" \in HomeDashboards(rows) <=> MayDevelop(rows)
           /\ "admin" \in HomeDashboards(rows) <=> MayAdminister(rows)
           /\ ProfileDashboards(rows) = HomeDashboards(rows)
           /\ OffersRequest(rows) <=> ~RefusesRequest(rows)
BY QueriesAgree DEF HomeDashboards, ProfileDashboards, OffersRequest,
   RefusesRequest, HasDeveloperAccess, MayDevelop, MayAdminister

\* Whatever rows a user has, every link leads to a page that opens, home
\* links to each dashboard that opens, and the key endpoints admit whom the
\* admin dashboard admits.
THEOREM LinksAgree ==
    ASSUME NEW signedIn \in BOOLEAN, NEW rows \in Granted
    PROVE  LinksFit(signedIn, rows)
<1> DEFINE Open(page) == Opens(signedIn, rows, page)
           Leads(page) == Links(page, signedIn, rows)
                            \subseteq {to \in AllPages : Open(to)}
<1>1. \A page \in Public : page \in AllPages /\ Open(page)
  BY PublicOpens DEF AllPages
<1>2. "profile" \in AllPages /\ (Open("profile") <=> signedIn)
  BY ProfileOpens DEF AllPages
<1>3. /\ "admin" \in AllPages
      /\ Open("admin") <=> signedIn /\ MayAdminister(rows)
  BY AdminOpens DEF AllPages, Secured
<1>4. \A page \in {"developer", "create_client"} :
        page \in AllPages /\ (Open(page) <=> signedIn /\ MayDevelop(rows))
  BY DeveloperOpens DEF AllPages, Secured
<1>5. signedIn => HomeDashboards(rows) \subseteq {to \in AllPages : Open(to)}
  <2>1. HomeDashboards(rows) \subseteq {"developer", "admin"}
    BY DEF HomeDashboards
  <2> QED
    BY <2>1, <1>3, <1>4, DashboardsLinked
<1> HIDE DEF Open
<1>6. Leads("home")
  BY <1>1, <1>2, <1>5 DEF Links, Public
<1>7. Open("profile") => Leads("profile")
  BY <1>1, <1>2, <1>5, DashboardsLinked DEF Links, Public
<1>8. Open("developer") => Leads("developer")
  BY <1>1, <1>2, <1>4 DEF Links, Public
<1>9. Open("admin") => Leads("admin")
  BY <1>1, <1>2, <1>3 DEF Links, Public
<1>10. Open("create_client") => Leads("create_client")
  BY <1>1, <1>4 DEF Links, Public
<1>11. \A page \in Public \ {"home"} : Leads(page)
  BY <1>1 DEF Links, Public
<1>12. \A page \in AllPages : Open(page) => Leads(page)
  BY <1>6, <1>7, <1>8, <1>9, <1>10, <1>11 DEF AllPages, Public, Secured
<1>13. \A page \in {"developer", "admin"} :
         Open(page) => page \in Links("home", signedIn, rows)
  BY <1>3, <1>4, DashboardsLinked DEF Links
<1>14. ManagesKeys(signedIn, rows) <=> Open("admin")
  BY <1>3, AdminOpens
<1> QED
  BY <1>12, <1>13, <1>14, DashboardsLinked DEF LinksFit, Open

----------------------------------------------------------------------------
\* Whatever rows a user has, the metrics count him as the pages treat him,
\* and a permission as inactive exactly when it opens nothing, at the moment
\* of its expiry too.
THEOREM CountsMatch == \A rows \in Granted : CountsFit(rows)
<1> SUFFICES ASSUME NEW rows \in Granted PROVE CountsFit(rows)
  OBVIOUS
<1>1. CountsAsDeveloper(rows) <=> MayDevelop(rows)
  BY DEF CountsAsDeveloper, MayDevelop, PagePermissions, Types
<1>2. Opens(TRUE, rows, "developer") <=> MayDevelop(rows)
  BY DeveloperOpens
<1>3. ASSUME NEW t \in Types, rows[t] # NoRow
      PROVE  t \in PagePermissions(rows) <=> ~CountsAsInactive(rows[t])
  <2>1. rows[t] \in Row
    BY <1>3 DEF Granted
  <2> QED
    BY <2>1 DEF Row, PagePermissions, Later, Past, Endless, CountsAsInactive
<1> QED
  BY <1>1, <1>2, <1>3 DEF CountsFit

----------------------------------------------------------------------------
LEMMA PermissionsKnown ==
    ASSUME TypeOK
    PROVE  \A u \in Users : permission[u] \in Permission
BY DEF TypeOK

\* Whatever permission requests grant, and whatever other permissions users
\* have, links lead to pages that open (LinksOpenPages).
THEOREM GrantedLinks == Spec => []LinksOpenPages
<1>1. \A p \in Permission : LinksSound[p]
  BY LinksAgree DEF LinksSound, RowsWith
<1>2. TypeOK => LinksOpenPages
  BY <1>1, PermissionsKnown DEF LinksOpenPages
<1> QED
  BY <1>2, TypeCorrect, PTL

\* Whatever permission requests grant, and whatever other permissions users
\* have, the metrics agree with the checks of the pages (CountsAgree).
THEOREM GrantedCounts == Spec => []CountsAgree
<1>1. \A p \in Permission : CountsSound[p]
  BY CountsMatch DEF CountsSound, RowsWith
<1>2. TypeOK => CountsAgree
  BY <1>1, PermissionsKnown DEF CountsAgree
<1> QED
  BY <1>2, TypeCorrect, PTL
=============================================================================
