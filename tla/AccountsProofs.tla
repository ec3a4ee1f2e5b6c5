--------------------------- MODULE AccountsProofs ---------------------------
(***************************************************************************)
(* Proofs about Accounts: the names of accounts, and the root account that *)
(* the setup wizard leaves behind, for any number of accounts and pages.   *)
(***************************************************************************)
EXTENDS Accounts, TLAPS

LEMMA RowTypes ==
    /\ NoRow \in Row /\ NoPage \in Page
    /\ \A r \in Row, q \in Page : q.row \in Row
BY DEF NoRow, NoPage, Row, Page, Typed

----------------------------------------------------------------------------
(***************************************************************************)
(* Types.                                                                  *)
(***************************************************************************)
LEMMA TypeInit == Init => TypeOK
BY RowTypes DEF Init, TypeOK

LEMMA DieType ==
    ASSUME TypeOK, NEW p \in Pages, Die(p)
    PROVE  /\ page' \in [Pages -> Page]
           /\ page'[p].kind = "dead" /\ page'[p].timer = page[p].timer
           /\ \A q \in Pages : q # p => page'[q] = page[q]
<1> DEFINE dead == [NoPage EXCEPT !.kind = "dead", !.timer = page[p].timer]
<1>1. page[p].timer \in BOOLEAN
  BY DEF TypeOK, Page
<1>2. dead \in Page /\ dead.kind = "dead" /\ dead.timer = page[p].timer
  BY <1>1, RowTypes DEF Page, NoPage
<1>3. page' = [page EXCEPT ![p] = dead]
  BY DEF Die
<1> HIDE DEF dead
<1> QED
  BY <1>2, <1>3 DEF TypeOK

LEMMA WizardTypes ==
    ASSUME TypeOK, NEW p \in Pages,
           \/ OpenWizard(p) \/ WizardMiss(p) \/ WizardGrant(p) \/ Shutdown(p)
           \/ \E a \in Ids : WizardSign(p, a)
           \/ \E a \in Ids, l, m \in Typed, w \in Passwords : WizardSubmit(p, a, l, m, w)
    PROVE  TypeOK'
<1>1. CASE OpenWizard(p)
  BY <1>1 DEF OpenWizard, TypeOK, Page
<1>2. CASE WizardMiss(p)
  BY <1>2 DEF WizardMiss, TypeOK, Page
<1>3. CASE WizardGrant(p)
  <2>1. page[p].id \in Ids
    BY <1>3 DEF WizardGrant, TypeOK, Page
  <2>2. [account[page[p].id] EXCEPT !.root = TRUE] \in Row
    BY <2>1 DEF TypeOK, Row
  <2>3. CASE page' = [page EXCEPT ![p].id = NoId, ![p].timer = TRUE]
    <3> DEFINE granted == [page[p] EXCEPT !.id = NoId, !.timer = TRUE]
    <3>1. granted \in Page
      BY DEF TypeOK, Page
    <3>2. page' = [page EXCEPT ![p] = granted]
      BY <2>3 DEF TypeOK, Page
    <3> HIDE DEF granted
    <3>3. page' \in [Pages -> Page]
      BY <3>1, <3>2 DEF TypeOK
    <3>4. account' = account \/ Put(page[p].id, [account[page[p].id] EXCEPT !.root = TRUE])
      BY <1>3 DEF WizardGrant
    <3>5. account' \in [Ids -> Row]
      BY <2>1, <2>2, <3>4 DEF Put, TypeOK
    <3> QED
      BY <1>3, <3>3, <3>5 DEF WizardGrant, TypeOK
  <2>4. CASE Die(p) /\ UNCHANGED account
    BY <1>3, <2>4, DieType DEF WizardGrant, TypeOK
  <2> QED
    BY <1>3, <2>3, <2>4 DEF WizardGrant
<1>4. CASE Shutdown(p)
  BY <1>4, RowTypes DEF Shutdown, TypeOK
<1>5. ASSUME NEW a \in Ids, WizardSign(p, a) PROVE TypeOK'
  <2>1. [NoRow EXCEPT !.made = TRUE] \in Row
    BY DEF NoRow, Row, Typed
  <2>2. account' \in [Ids -> Row]
    BY <1>5, <2>1 DEF WizardSign, Put, TypeOK
  <2>3. page' \in [Pages -> Page]
    BY <1>5 DEF WizardSign, TypeOK, Page
  <2> QED
    BY <1>5, <2>2, <2>3 DEF WizardSign, TypeOK
<1>6. ASSUME NEW a \in Ids, NEW l \in Typed, NEW m \in Typed, NEW w \in Passwords,
             WizardSubmit(p, a, l, m, w)
      PROVE  TypeOK'
  <2> DEFINE row == [made |-> TRUE, login |-> l, email |-> lower(m),
                     password |-> w, root |-> TRUE]
  <2>1. row \in Row
    BY <1>6, NamesAssumption DEF WizardSubmit, ValidMail, Row, Typed
  <2>3. CASE Put(a, row) /\ page' = [page EXCEPT ![p].timer = TRUE]
    BY <1>6, <2>1, <2>3 DEF WizardSubmit, Put, TypeOK, Page
  <2>4. CASE Die(p) /\ UNCHANGED account
    BY <1>6, <2>4, DieType DEF WizardSubmit, TypeOK
  <2> QED
    BY <1>6, <2>3, <2>4 DEF WizardSubmit
<1> QED
  BY <1>1, <1>2, <1>3, <1>4, <1>5, <1>6

LEMMA ApplicationTypes ==
    ASSUME TypeOK, NEW p \in Pages,
           \/ EmailCommit(p)
           \/ \E m \in Typed : EmailCheck(p, m)
           \/ \E current \in Passwords \cup {None}, new \in Passwords :
                PasswordSave(p, current, new)
           \/ \E a \in Ids : RegisterInsert(p, a) \/ OpenProfile(p, a)
           \/ \E l, m \in Typed, w \in Passwords : RegisterCheck(p, l, m, w)
    PROVE  TypeOK'
<1>0. page[p].row \in Row /\ NoPage \in Page
  BY RowTypes DEF TypeOK
<1>1. CASE EmailCommit(p)
  <2>1. page[p].id \in Ids =>
          [account[page[p].id] EXCEPT !.email = page[p].row.email] \in Row
    BY <1>0 DEF TypeOK, Row
  <2> QED
    BY <1>0, <1>1, <2>1 DEF EmailCommit, Put, Close, TypeOK
<1>2. ASSUME NEW m \in Typed, EmailCheck(p, m) PROVE TypeOK'
  <2>1. lower(m) \in Typed
    BY <1>2, NamesAssumption DEF EmailCheck, ValidMail, Typed
  <2>2. CASE page' = [page EXCEPT ![p].kind = "email", ![p].row.email = lower(m)]
    <3>1. [page[p].row EXCEPT !.email = lower(m)] \in Row
      BY <1>0, <2>1 DEF Row
    <3>2. [page[p] EXCEPT !.kind = "email", !.row.email = lower(m)] \in Page
      BY <3>1 DEF TypeOK, Page
    <3> QED
      BY <1>2, <2>2, <3>2 DEF EmailCheck, TypeOK
  <2>3. CASE Close(p)
    BY <1>0, <1>2, <2>3 DEF EmailCheck, Close, TypeOK
  <2> QED
    BY <1>2, <2>2, <2>3 DEF EmailCheck
<1>3. ASSUME NEW current \in Passwords \cup {None}, NEW new \in Passwords,
             PasswordSave(p, current, new)
      PROVE  TypeOK'
  <2>1. page[p].id \in Ids => [account[page[p].id] EXCEPT !.password = new] \in Row
    BY DEF TypeOK, Row
  <2> QED
    BY <1>0, <1>3, <2>1 DEF PasswordSave, Put, Close, TypeOK
<1>4. ASSUME NEW a \in Ids, RegisterInsert(p, a) PROVE TypeOK'
  BY <1>0, <1>4 DEF RegisterInsert, Put, Close, TypeOK
<1>5. ASSUME NEW a \in Ids, OpenProfile(p, a) PROVE TypeOK'
  <2>1. [page[p] EXCEPT !.kind = "profile", !.id = a, !.row = account[a]] \in Page
    BY DEF TypeOK, Page
  <2> QED
    BY <1>5, <2>1 DEF OpenProfile, TypeOK
<1>6. ASSUME NEW l \in Typed, NEW m \in Typed, NEW w \in Passwords,
             RegisterCheck(p, l, m, w)
      PROVE  TypeOK'
  <2> DEFINE row == [made |-> TRUE, login |-> l, email |-> lower(m),
                     password |-> w, root |-> FALSE]
  <2>1. row \in Row
    BY <1>6, NamesAssumption DEF RegisterCheck, ValidMail, Row, Typed
  <2>2. [page[p] EXCEPT !.kind = "register", !.row = row] \in Page
    BY <2>1 DEF TypeOK, Page
  <2>3. page' = [page EXCEPT ![p].kind = "register", ![p].row = row]
    BY <1>6 DEF RegisterCheck
  <2> QED
    BY <1>6, <2>2, <2>3 DEF RegisterCheck, TypeOK
<1> QED
  BY <1>1, <1>2, <1>3, <1>4, <1>5, <1>6

LEMMA TypeNext == TypeOK /\ [Next]_vars => TypeOK'
<1> SUFFICES ASSUME TypeOK, [Next]_vars PROVE TypeOK'
  OBVIOUS
<1>1. CASE Start \/ Crash
  BY <1>1, RowTypes DEF Start, Crash, TypeOK
<1>2. ASSUME NEW p \in Pages, Leave(p) PROVE TypeOK'
  BY <1>2, RowTypes DEF Leave, Close, TypeOK, Page
<1>3. ASSUME NEW a \in Ids, WalletAccount(a) PROVE TypeOK'
  <2>1. [NoRow EXCEPT !.made = TRUE] \in Row
    BY DEF NoRow, Row, Typed
  <2> QED
    BY <1>3, <2>1 DEF WalletAccount, Put, TypeOK
<1>4. CASE UNCHANGED vars
  BY <1>4 DEF vars, TypeOK
<1> QED
  BY <1>1, <1>2, <1>3, <1>4, WizardTypes, ApplicationTypes DEF Next

\* TypeOK for every value of the constants.
THEOREM TypeCorrect == Spec => []TypeOK
BY TypeInit, TypeNext, PTL DEF Spec

----------------------------------------------------------------------------
(***************************************************************************)
(* The root account. A timer that runs was started after the permission    *)
(* was committed, the account a wizard page waits for exists, and nothing  *)
(* takes the permission away.                                              *)
(***************************************************************************)
RootInv ==
    /\ MainHasRoot
    /\ \A p \in Pages :
         /\ page[p].timer => HasRoot
         /\ page[p].kind = "wizard" /\ page[p].id # NoId => page[p].id \in Made

LEMMA RootInit == Init => RootInv
BY DEF Init, RootInv, MainHasRoot, NoPage

\* An account that exists stays, and so does a root permission.
RootsStay ==
    \A a \in Made : account'[a].made /\ (account[a].root => account'[a].root)

LEMMA RootStays ==
    ASSUME RootsStay
    PROVE  (HasRoot => HasRoot') /\ Made \subseteq Made'
BY DEF RootsStay, HasRoot, Made

LEMMA StepStays == TypeOK /\ [Next]_vars => RootsStay
<1> SUFFICES ASSUME TypeOK, [Next]_vars PROVE RootsStay
  OBVIOUS
<1>1. CASE UNCHANGED account
  BY <1>1 DEF Made, RootsStay
<1>2. ASSUME NEW p \in Pages, NEW a \in Ids, NEW l \in Typed, NEW m \in Typed,
             NEW w \in Passwords, WizardSubmit(p, a, l, m, w)
      PROVE  RootsStay
  BY <1>1, <1>2 DEF WizardSubmit, Put, Made, TypeOK, RootsStay
<1>3. ASSUME NEW p \in Pages, NEW a \in Ids,
             WizardSign(p, a) \/ RegisterInsert(p, a)
      PROVE  RootsStay
  BY <1>1, <1>3 DEF WizardSign, RegisterInsert, Put, Made, TypeOK, RootsStay
<1>4. ASSUME NEW p \in Pages, WizardGrant(p) \/ EmailCommit(p) PROVE RootsStay
  BY <1>1, <1>4 DEF WizardGrant, EmailCommit, Put, Made, TypeOK, RootsStay, Row
<1>5. ASSUME NEW p \in Pages, NEW current, NEW new, PasswordSave(p, current, new)
      PROVE  RootsStay
  BY <1>5 DEF PasswordSave, Put, Made, TypeOK, RootsStay, Row
<1>6. ASSUME NEW p \in Pages, Leave(p) \/ OpenWizard(p) \/ WizardMiss(p) \/ Shutdown(p)
      PROVE  RootsStay
  BY <1>1, <1>6 DEF Leave, OpenWizard, WizardMiss, Shutdown
<1>7. ASSUME NEW p \in Pages, NEW m \in Typed, EmailCheck(p, m) PROVE RootsStay
  BY <1>1, <1>7 DEF EmailCheck
<1>8. ASSUME NEW p \in Pages, NEW a \in Ids, OpenProfile(p, a) PROVE RootsStay
  BY <1>1, <1>8 DEF OpenProfile
<1>9. ASSUME NEW p \in Pages, NEW l, NEW m, NEW w, RegisterCheck(p, l, m, w)
      PROVE  RootsStay
  BY <1>1, <1>9 DEF RegisterCheck
<1>10. CASE Start \/ Crash \/ UNCHANGED vars
  BY <1>1, <1>10 DEF Start, Crash, vars
<1>11. ASSUME NEW a \in Ids, WalletAccount(a) PROVE RootsStay
  BY <1>11 DEF WalletAccount, Put, Made, TypeOK, RootsStay
<1> QED
  BY <1>2, <1>3, <1>4, <1>5, <1>6, <1>7, <1>8, <1>9, <1>10, <1>11 DEF Next

LEMMA RootNext == TypeOK /\ RootInv /\ [Next]_vars => RootInv'
<1> SUFFICES ASSUME TypeOK, RootInv, [Next]_vars PROVE RootInv'
  OBVIOUS
<1>0. (HasRoot => HasRoot') /\ Made \subseteq Made'
  BY RootStays, StepStays
<1> USE <1>0 DEF RootInv, MainHasRoot
<1>1. CASE Start
  BY <1>1 DEF Start
<1>2. CASE Crash
  BY <1>2 DEF Crash, NoPage
<1>3. ASSUME NEW p \in Pages, Leave(p) PROVE RootInv'
  BY <1>3 DEF Leave, Close, TypeOK, NoPage
<1>4. ASSUME NEW p \in Pages, OpenWizard(p) PROVE RootInv'
  BY <1>4 DEF OpenWizard, TypeOK, Page, NoPage
<1>5. ASSUME NEW p \in Pages, WizardMiss(p) PROVE RootInv'
  BY <1>5 DEF WizardMiss, TypeOK, Page
<1>6. ASSUME NEW p \in Pages, WizardGrant(p) PROVE RootInv'
  <2>1. HasRoot'
    BY <1>6 DEF WizardGrant, Put, HasRoot, Made, TypeOK, Row
  <2>2. CASE page' = [page EXCEPT ![p].id = NoId, ![p].timer = TRUE]
    BY <1>6, <2>1, <2>2 DEF WizardGrant, TypeOK, Page
  <2>3. CASE Die(p)
    BY <1>6, <2>1, <2>3, DieType DEF WizardGrant
  <2> QED
    BY <1>6, <2>2, <2>3 DEF WizardGrant
<1>7. ASSUME NEW p \in Pages, Shutdown(p) PROVE RootInv'
  BY <1>7 DEF Shutdown, NoPage
<1>8. ASSUME NEW p \in Pages, NEW a \in Ids, WizardSign(p, a) PROVE RootInv'
  <2>1. a \in Made'
    BY <1>8 DEF WizardSign, Put, Made, TypeOK, NoRow
  <2> QED
    BY <1>8, <2>1 DEF WizardSign, TypeOK, Page
<1>9. ASSUME NEW p \in Pages, NEW a \in Ids, NEW l \in Typed, NEW m \in Typed,
             NEW w \in Passwords, WizardSubmit(p, a, l, m, w)
      PROVE  RootInv'
  <2>1. CASE Unique(a, l, lower(m))
    <3>1. HasRoot'
      BY <1>9, <2>1 DEF WizardSubmit, Put, HasRoot, Made, TypeOK
    <3>2. page' = [page EXCEPT ![p].timer = TRUE] /\ UNCHANGED phase
      BY <1>9, <2>1 DEF WizardSubmit
    <3> QED
      BY <3>1, <3>2 DEF TypeOK, Page
  <2>2. CASE ~Unique(a, l, lower(m))
    BY <1>9, <2>2, DieType DEF WizardSubmit
  <2> QED
    BY <2>1, <2>2
<1>10. ASSUME NEW a \in Ids, WalletAccount(a) PROVE RootInv'
  BY <1>10 DEF WalletAccount
<1>11. ASSUME NEW p \in Pages, EmailCommit(p) PROVE RootInv'
  BY <1>11 DEF EmailCommit, Close, TypeOK, NoPage
<1>12. ASSUME NEW p \in Pages, NEW m \in Typed, EmailCheck(p, m) PROVE RootInv'
  BY <1>12 DEF EmailCheck, Close, TypeOK, Page, NoPage
<1>13. ASSUME NEW p \in Pages, NEW current, NEW new, PasswordSave(p, current, new)
       PROVE  RootInv'
  BY <1>13 DEF PasswordSave, Close, TypeOK, NoPage
<1>14. ASSUME NEW p \in Pages, NEW a \in Ids, RegisterInsert(p, a) PROVE RootInv'
  BY <1>14 DEF RegisterInsert, Close, TypeOK, NoPage
<1>15. ASSUME NEW p \in Pages, NEW a \in Ids, OpenProfile(p, a) PROVE RootInv'
  BY <1>15 DEF OpenProfile, TypeOK, Page, NoPage
<1>16. ASSUME NEW p \in Pages, NEW l \in Typed, NEW m \in Typed, NEW w \in Passwords,
              RegisterCheck(p, l, m, w)
       PROVE  RootInv'
  BY <1>16 DEF RegisterCheck, TypeOK, Page, NoPage
<1>17. CASE UNCHANGED vars
  BY <1>17 DEF vars, HasRoot, Made
<1> QED
  BY <1>1, <1>2, <1>3, <1>4, <1>5, <1>6, <1>7, <1>8, <1>9, <1>10, <1>11,
     <1>12, <1>13, <1>14, <1>15, <1>16, <1>17 DEF Next

\* The application runs only once there is a root account, however often the
\* container dies and whoever else uses the wizard (MainHasRoot).
THEOREM RootFirst == Spec => []MainHasRoot
<1>1. TypeOK /\ RootInv /\ [Next]_vars => TypeOK' /\ RootInv'
  BY TypeNext, RootNext
<1>2. Init => TypeOK /\ RootInv
  BY TypeInit, RootInit
<1>3. RootInv => MainHasRoot
  BY DEF RootInv
<1> QED
  BY <1>1, <1>2, <1>3, PTL DEF Spec

----------------------------------------------------------------------------
(***************************************************************************)
(* Names. OneAccountPerName speaks of what is typed; what is stored, and   *)
(* what a page is about to store, is a login or an address in lower case.  *)
(***************************************************************************)
Lower == {m \in Mails : lower(m) = m}

NamesInv ==
    /\ \A a \in Made : /\ account[a].login \in Logins \cup {None}
                       /\ account[a].email \in Lower \cup {None}
    /\ \A a, b \in Made : a # b =>
         /\ account[a].login # None => account[a].login # account[b].login
         /\ account[a].email # None => account[a].email # account[b].email
    /\ \A p \in Pages :
         /\ page[p].kind = "register" => /\ page[p].row.login \in Logins
                                         /\ page[p].row.email \in Lower
         /\ page[p].kind = "email" => page[p].row.email \in Lower

LEMMA NamesEnough == NamesInv => OneAccountPerName
<1> SUFFICES ASSUME NamesInv, NEW name \in Logins \cup Mails,
                    NEW a \in Named(name) \cup Named(lower(name)),
                    NEW b \in Named(name) \cup Named(lower(name))
             PROVE  a = b
  BY DEF OneAccountPerName
<1>1. CASE name \in Logins
  <2>1. a \in Made /\ b \in Made /\ account[a].login = name /\ account[b].login = name
    BY <1>1, NamesAssumption DEF NamesInv, Named, Lower
  <2> QED
    BY <1>1, <2>1, NamesAssumption DEF NamesInv
<1>2. CASE name \in Mails
  <2>1. /\ a \in Made /\ b \in Made
        /\ account[a].email = lower(name) /\ account[b].email = lower(name)
    BY <1>2, NamesAssumption DEF NamesInv, Named, Lower
  <2> QED
    BY <1>2, <2>1, NamesAssumption DEF NamesInv
<1> QED
  BY <1>1, <1>2

LEMMA NamesInit == Init => NamesInv
BY DEF Init, NamesInv, Made, NoRow, NoPage

\* A row with names of its own can be put anywhere.
LEMMA NamesPut ==
    ASSUME TypeOK, NamesInv, NEW a \in Ids, NEW row \in Row, Put(a, row),
           row.made => /\ row.login \in Logins \cup {None}
                       /\ row.email \in Lower \cup {None}
                       /\ Unique(a, row.login, row.email)
    PROVE  /\ \A b \in Made' : /\ account'[b].login \in Logins \cup {None}
                               /\ account'[b].email \in Lower \cup {None}
           /\ \A b, c \in Made' : b # c =>
                /\ account'[b].login # None => account'[b].login # account'[c].login
                /\ account'[b].email # None => account'[b].email # account'[c].email
<1>1. \A b \in Ids : account'[b] = IF b = a THEN row ELSE account[b]
  BY DEF Put, TypeOK
<1>2. \A b \in Made' : b # a => b \in Made
  BY <1>1 DEF Made
<1>3. a \in Made' => row.made
  BY <1>1 DEF Made
<1>4. \A b \in Made' : b \in Ids
  BY DEF Made
<1>5. \A b \in Made' : /\ account'[b].login \in Logins \cup {None}
                       /\ account'[b].email \in Lower \cup {None}
  BY <1>1, <1>2, <1>3, <1>4 DEF NamesInv
<1>6. ASSUME NEW b \in Made', NEW c \in Made', b # c
      PROVE  /\ account'[b].login # None => account'[b].login # account'[c].login
             /\ account'[b].email # None => account'[b].email # account'[c].email
  <2>1. CASE b = a
    BY <1>1, <1>2, <1>3, <1>4, <1>6, <2>1 DEF Unique
  <2>2. CASE c = a
    BY <1>1, <1>2, <1>3, <1>4, <1>6, <2>2 DEF Unique
  <2>3. CASE b # a /\ c # a
    BY <1>1, <1>2, <1>4, <1>6, <2>3 DEF NamesInv
  <2> QED
    BY <2>1, <2>2, <2>3
<1> QED
  BY <1>5, <1>6

\* The pages are sound after a step that leaves page p with kind and row.
LEMMA NamesPage ==
    ASSUME TypeOK, NamesInv, NEW p \in Pages, NEW q \in Page,
           page' = [page EXCEPT ![p] = q],
           q.kind = "register" => q.row.login \in Logins /\ q.row.email \in Lower,
           q.kind = "email" => q.row.email \in Lower
    PROVE  \A r \in Pages :
             /\ page'[r].kind = "register" => /\ page'[r].row.login \in Logins
                                              /\ page'[r].row.email \in Lower
             /\ page'[r].kind = "email" => page'[r].row.email \in Lower
BY DEF TypeOK, NamesInv

\* The three parts of NamesInv, for the steps that change only one of them.
LEMMA NamesParts ==
    ASSUME NamesInv
    PROVE  /\ UNCHANGED account =>
                /\ \A b \in Made' : /\ account'[b].login \in Logins \cup {None}
                                    /\ account'[b].email \in Lower \cup {None}
                /\ \A b, c \in Made' : b # c =>
                     /\ account'[b].login # None => account'[b].login # account'[c].login
                     /\ account'[b].email # None => account'[b].email # account'[c].email
           /\ UNCHANGED page =>
                \A r \in Pages :
                  /\ page'[r].kind = "register" => /\ page'[r].row.login \in Logins
                                                   /\ page'[r].row.email \in Lower
                  /\ page'[r].kind = "email" => page'[r].row.email \in Lower
<1>1. UNCHANGED account => Made' = Made
  BY DEF Made
<1> QED
  BY <1>1 DEF NamesInv

LEMMA NamesNext == TypeOK /\ NamesInv /\ [Next]_vars => NamesInv'
<1> SUFFICES ASSUME TypeOK, NamesInv, [Next]_vars PROVE NamesInv'
  OBVIOUS
<1>0. NoPage \in Page /\ NoPage.kind = "none"
  BY RowTypes DEF NoPage
<1>1. CASE Start \/ Crash \/ UNCHANGED vars
  BY <1>1, <1>0, NamesParts DEF Start, Crash, vars, NamesInv
<1>2. ASSUME NEW p \in Pages, Leave(p) \/ Shutdown(p) PROVE NamesInv'
  BY <1>2, <1>0, NamesParts DEF Leave, Shutdown, Close, TypeOK, NamesInv
<1>3. ASSUME NEW p \in Pages, OpenWizard(p) \/ WizardMiss(p) PROVE NamesInv'
  BY <1>3, NamesParts DEF OpenWizard, WizardMiss, TypeOK, Page, NamesInv
<1>4. ASSUME NEW p \in Pages, WizardGrant(p) PROVE NamesInv'
  <2> DEFINE a == page[p].id
             row == [account[a] EXCEPT !.root = TRUE]
  <2>1. a \in Ids
    BY <1>4 DEF WizardGrant, TypeOK, Page
  <2>2. row \in Row
    BY <2>1 DEF TypeOK, Row
  <2>3. row.made => /\ row.login \in Logins \cup {None}
                    /\ row.email \in Lower \cup {None}
                    /\ Unique(a, row.login, row.email)
    BY <2>1 DEF NamesInv, Unique, Made, TypeOK, Row
  <2>4. Put(a, row) \/ UNCHANGED account
    BY <1>4 DEF WizardGrant
  <2>5. \A r \in Pages : page'[r].kind \notin {"register", "email"} \/ page'[r] = page[r]
    <3>1. CASE page' = [page EXCEPT ![p].id = NoId, ![p].timer = TRUE]
      BY <1>4, <3>1 DEF WizardGrant, TypeOK, Page
    <3> QED
      BY <1>4, <3>1, DieType DEF WizardGrant
  <2> HIDE DEF a, row
  <2>6. CASE Put(a, row)
    BY <2>1, <2>2, <2>3, <2>5, <2>6, NamesPut DEF NamesInv
  <2>7. CASE UNCHANGED account
    BY <2>5, <2>7, NamesParts DEF NamesInv
  <2> QED
    BY <2>4, <2>6, <2>7
<1>5. ASSUME NEW a \in Ids, WalletAccount(a) \/ \E p \in Pages : WizardSign(p, a)
      PROVE  NamesInv'
  <2> DEFINE row == [NoRow EXCEPT !.made = TRUE]
  <2>1. row \in Row /\ row.login = None /\ row.email = None
    BY DEF NoRow, Row, Typed
  <2>2. Unique(a, None, None)
    BY DEF Unique
  <2>0. \A r \in Pages : page'[r].kind = page[r].kind /\ page'[r].row = page[r].row
    BY <1>5 DEF WizardSign, WalletAccount, TypeOK, Page
  <2>3. CASE Put(a, row)
    <3> HIDE DEF row
    <3> QED
      BY <2>0, <2>1, <2>2, <2>3, NamesPut DEF NamesInv
  <2>4. CASE UNCHANGED account
    BY <2>0, <2>4, NamesParts DEF NamesInv
  <2> QED
    BY <1>5, <2>3, <2>4 DEF WizardSign, WalletAccount
<1>6. ASSUME NEW p \in Pages, NEW a \in Ids, NEW l \in Typed, NEW m \in Typed,
             NEW w \in Passwords, WizardSubmit(p, a, l, m, w)
      PROVE  NamesInv'
  <2> DEFINE row == [made |-> TRUE, login |-> l, email |-> lower(m),
                     password |-> w, root |-> TRUE]
  <2>1. l \in Logins /\ lower(m) \in Lower
    BY <1>6, NamesAssumption DEF WizardSubmit, ValidLogin, ValidMail, Lower
  <2>2. row \in Row
    BY <2>1 DEF Row, Typed, Lower
  <2>3. \A r \in Pages : page'[r].kind \notin {"register", "email"} \/ page'[r] = page[r]
    <3>1. CASE page' = [page EXCEPT ![p].timer = TRUE]
      BY <1>6, <3>1 DEF WizardSubmit, TypeOK, Page
    <3> QED
      BY <1>6, <3>1, DieType DEF WizardSubmit
  <2>4. CASE Unique(a, l, lower(m)) /\ Put(a, row)
    BY <2>1, <2>2, <2>3, <2>4, NamesPut DEF NamesInv
  <2>5. CASE UNCHANGED account
    BY <2>3, <2>5, NamesParts DEF NamesInv
  <2> QED
    BY <1>6, <2>4, <2>5 DEF WizardSubmit
<1>7. ASSUME NEW p \in Pages, NEW a \in Ids, RegisterInsert(p, a) PROVE NamesInv'
  <2> DEFINE row == page[p].row
  <2>1. row \in Row /\ row.login \in Logins /\ row.email \in Lower
    BY <1>7, RowTypes DEF RegisterInsert, NamesInv, TypeOK
  <2>2. \A r \in Pages : page'[r].kind \notin {"register", "email"} \/ page'[r] = page[r]
    BY <1>0, <1>7 DEF RegisterInsert, Close, TypeOK
  <2>3. CASE Unique(a, row.login, row.email) /\ Put(a, row)
    BY <2>1, <2>2, <2>3, NamesPut DEF NamesInv
  <2>4. CASE UNCHANGED account
    BY <2>2, <2>4, NamesParts DEF NamesInv
  <2> QED
    BY <1>7, <2>3, <2>4 DEF RegisterInsert
<1>8. ASSUME NEW p \in Pages, EmailCommit(p) PROVE NamesInv'
  <2> DEFINE a == page[p].id
             m == page[p].row.email
             row == [account[a] EXCEPT !.email = m]
  <2>1. m \in Lower
    BY <1>8 DEF EmailCommit, NamesInv
  <2>2. \A r \in Pages : page'[r].kind \notin {"register", "email"} \/ page'[r] = page[r]
    BY <1>0, <1>8 DEF EmailCommit, Close, TypeOK
  <2>3. CASE UNCHANGED account
    BY <2>2, <2>3, NamesParts DEF NamesInv
  <2>4. CASE a \in Ids /\ Unique(a, None, m) /\ Put(a, row)
    <3>1. row \in Row
      BY <2>1, <2>4 DEF TypeOK, Row, Typed, Lower
    <3>2. row.made => /\ row.login \in Logins \cup {None}
                      /\ row.email \in Lower \cup {None}
                      /\ Unique(a, row.login, row.email)
      BY <2>1, <2>4 DEF NamesInv, Unique, Made, TypeOK, Row
    <3> HIDE DEF a, row
    <3> QED
      BY <2>2, <2>4, <3>1, <3>2, NamesPut DEF NamesInv
  <2>5. a \notin Ids /\ Put(a, row) => UNCHANGED account
    BY DEF Put, TypeOK
  <2> QED
    BY <1>8, <2>3, <2>4, <2>5 DEF EmailCommit
<1>9. ASSUME NEW p \in Pages, NEW current \in Passwords \cup {None},
             NEW new \in Passwords, PasswordSave(p, current, new)
      PROVE  NamesInv'
  <2> DEFINE a == page[p].id
             row == [account[a] EXCEPT !.password = new]
  <2>1. \A r \in Pages : page'[r].kind \notin {"register", "email"} \/ page'[r] = page[r]
    BY <1>0, <1>9 DEF PasswordSave, Close, TypeOK
  <2>2. CASE a \in Ids
    <3>1. row \in Row
      BY <2>2 DEF TypeOK, Row
    <3>2. row.made => /\ row.login \in Logins \cup {None}
                      /\ row.email \in Lower \cup {None}
                      /\ Unique(a, row.login, row.email)
      BY <2>2 DEF NamesInv, Unique, Made, TypeOK, Row
    <3>3. Put(a, row)
      BY <1>9 DEF PasswordSave
    <3> HIDE DEF a, row
    <3> QED
      BY <2>1, <2>2, <3>1, <3>2, <3>3, NamesPut DEF NamesInv
  <2>3. CASE a \notin Ids
    <3>1. UNCHANGED account
      BY <1>9, <2>3 DEF PasswordSave, Put, TypeOK
    <3> QED
      BY <2>1, <3>1, NamesParts DEF NamesInv
  <2> QED
    BY <2>2, <2>3
<1>10. ASSUME NEW p \in Pages, NEW m \in Typed, EmailCheck(p, m) PROVE NamesInv'
  <2>1. lower(m) \in Lower /\ UNCHANGED account
    BY <1>10, NamesAssumption DEF EmailCheck, ValidMail, Lower
  <2>2. CASE Close(p)
    BY <1>0, <2>1, <2>2, NamesParts, NamesPage DEF Close, NamesInv
  <2>3. CASE page' = [page EXCEPT ![p].kind = "email", ![p].row.email = lower(m)]
    <3> DEFINE q == [page[p] EXCEPT !.kind = "email", !.row.email = lower(m)]
    <3>1. [page[p].row EXCEPT !.email = lower(m)] \in Row
      BY <2>1, RowTypes DEF TypeOK, Row, Typed, Lower
    <3>2. q \in Page /\ q.kind = "email" /\ q.row.email = lower(m)
      BY <3>1, RowTypes DEF TypeOK, Page, Row
    <3>3. page' = [page EXCEPT ![p] = q]
      BY <2>3
    <3> HIDE DEF q
    <3> QED
      BY <2>1, <3>2, <3>3, NamesParts, NamesPage DEF NamesInv
  <2> QED
    BY <1>10, <2>2, <2>3 DEF EmailCheck
<1>11. ASSUME NEW p \in Pages, NEW a \in Ids, OpenProfile(p, a) PROVE NamesInv'
  BY <1>11, NamesParts DEF OpenProfile, TypeOK, Page, NamesInv
<1>12. ASSUME NEW p \in Pages, NEW l \in Typed, NEW m \in Typed, NEW w \in Passwords,
              RegisterCheck(p, l, m, w)
       PROVE  NamesInv'
  <2>1. l \in Logins /\ lower(m) \in Lower
    BY <1>12, NamesAssumption DEF RegisterCheck, ValidLogin, ValidMail, Lower
  <2>2. /\ page'[p].row.login = l /\ page'[p].row.email = lower(m)
        /\ page'[p].kind = "register" /\ \A r \in Pages : r # p => page'[r] = page[r]
    BY <1>12 DEF RegisterCheck, TypeOK, Page
  <2> QED
    BY <1>12, <2>1, <2>2, NamesParts DEF RegisterCheck, NamesInv
<1> QED
  BY <1>1, <1>2, <1>3, <1>4, <1>5, <1>6, <1>7, <1>8, <1>9, <1>10, <1>11, <1>12 DEF Next

\* What is typed at login means at most one account (OneAccountPerName),
\* whatever operations cross: the UNIQUE constraints decide on each column,
\* and logins and addresses never coincide.
THEOREM NamesUnique == Spec => []OneAccountPerName
<1>1. TypeOK /\ NamesInv /\ [Next]_vars => TypeOK' /\ NamesInv'
  BY TypeNext, NamesNext
<1>2. Init => TypeOK /\ NamesInv
  BY TypeInit, NamesInit
<1> QED
  BY <1>1, <1>2, NamesEnough, PTL DEF Spec
=============================================================================
