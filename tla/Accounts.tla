------------------------------ MODULE Accounts ------------------------------
(***************************************************************************)
(* How accounts come about and change: the container's start with the      *)
(* setup wizard that creates the root account (entrypoint.sh,              *)
(* setup_wizard/), registration (routes/register.py), and the e-mail and   *)
(* password dialogs of the profile page (routes/profile.py).               *)
(*                                                                         *)
(* The wizard is a server of its own: the main application starts when it  *)
(* has shut down, which a timer of the page that created the root account  *)
(* does.  Registration and the e-mail dialog look for the identifier       *)
(* first and write in a later step, where the UNIQUE constraints decide.   *)
(* A profile page works on the copy of its account that it loaded.         *)
(*                                                                         *)
(* Abstractions: hashes stand for their passwords; the checks of nickname  *)
(* and password strength; an account with a wallet only comes from the     *)
(* callback of module LnurlAuth.                                           *)
(***************************************************************************)
CONSTANTS
    Ids,        \* accounts that can be made
    Pages,      \* pages, and registrations under way, at a time
    Logins,     \* logins that can be typed
    Mails,      \* addresses that can be typed, in both cases
    lower(_),   \* an address in lower case
    Passwords,
    None,       \* NULL; a field left empty
    NoId        \* no account

ASSUME NamesAssumption ==
    /\ Logins \cap Mails = {} /\ None \notin Logins \cup Mails \cup Passwords
    /\ \A m \in Mails : lower(m) \in Mails /\ lower(lower(m)) = lower(m)
    /\ \A l \in Logins : lower(l) = l   \* LOGIN_RE has no capitals
    /\ NoId \notin Ids

VARIABLES
    phase,      \* the process that the container runs
    account,    \* rows of users, with their root permission
    page,       \* the pages
    left        \* history: a page was left between the creation of the root
                \* account and the end of the wizard

vars == <<phase, account, page, left>>

Typed == Logins \cup Mails \cup {None}

Row == [made : BOOLEAN, login : Typed, email : Typed,
        password : Passwords \cup {None}, root : BOOLEAN]
NoRow == [made |-> FALSE, login |-> None, email |-> None,
          password |-> None, root |-> FALSE]

Page == [kind : {"none", "wizard", "register", "profile", "email",
                 "dead"},       \* its session refuses all further use
         id : Ids \cup {NoId},  \* the account shown, or that signed the QR code
         row : Row,             \* the copy, or what is to be written
         timer : BOOLEAN]       \* finalizing_setup was called
NoPage == [kind |-> "none", id |-> NoId, row |-> NoRow, timer |-> FALSE]

TypeOK ==
    /\ phase \in {"check", "wizard", "main"}
    /\ account \in [Ids -> Row]
    /\ page \in [Pages -> Page]
    /\ left \in BOOLEAN

----------------------------------------------------------------------------
\* Mutant: LOGIN_RE lets addresses through.
MUT_ValidLogin(l) == l # None

\* LOGIN_RE, which no address matches.
ValidLogin(l) == l \in Logins
ValidMail(m) == m \in Mails

Made == {a \in Ids : account[a].made}

HasRoot == \E a \in Made : account[a].root

\* The accounts that the query of login_post finds.
Named(name) == {a \in Made : name \in {account[a].login, account[a].email}}

\* The UNIQUE constraints of users let account a have login l and address m.
Unique(a, l, m) ==
    \A b \in Made \ {a} : /\ l # None => account[b].login # l
                          /\ m # None => account[b].email # m

Put(a, row) == account' = [account EXCEPT ![a] = row]

Close(p) == page' = [page EXCEPT ![p] = NoPage]

\* A commit of p was refused by a constraint and has raised: of the page only
\* a timer that runs is left.
Die(p) ==
    page' = [page EXCEPT ![p] = [NoPage EXCEPT !.kind = "dead",
                                              !.timer = page[p].timer]]

----------------------------------------------------------------------------
Init ==
    /\ phase = "check"
    /\ account = [a \in Ids |-> NoRow]
    /\ page = [p \in Pages |-> NoPage]
    /\ left = FALSE

\* Mutant: the wizard runs although there is a root account.
MUT_Start ==
    /\ phase = "check"
    /\ phase' = "wizard"
    /\ UNCHANGED <<account, page, left>>

\* entrypoint.sh runs the wizard, which returns at once if it finds a root
\* permission; then the application.
Start ==
    /\ phase = "check"
    /\ phase' = IF HasRoot THEN "main" ELSE "wizard"
    /\ UNCHANGED <<account, page, left>>

\* The container dies and is started again.
Crash ==
    /\ phase' = "check" /\ left' = FALSE
    /\ page' = [p \in Pages |-> NoPage]
    /\ UNCHANGED account

\* The user closes a page. The timer of the page goes with it.
Leave(p) ==
    /\ page[p].kind \in {"wizard", "profile", "dead"}
    /\ Close(p)
    /\ left' = (left \/ page[p].timer)
    /\ UNCHANGED <<phase, account>>

----------------------------------------------------------------------------
(***************************************************************************)
(* The wizard.                                                             *)
(***************************************************************************)

\* set_root
OpenWizard(p) ==
    /\ phase = "wizard" /\ page[p] = NoPage
    /\ page' = [page EXCEPT ![p].kind = "wizard"]
    /\ UNCHANGED <<phase, account, left>>

\* submit writes account and permission in one commit, if the names are free.
WizardSubmit(p, a, l, m, w) ==
    /\ phase = "wizard" /\ page[p].kind = "wizard"
    /\ a \notin Made /\ ValidLogin(l) /\ ValidMail(m)
    /\ \/ /\ Unique(a, l, lower(m))
          /\ Put(a, [made |-> TRUE, login |-> l, email |-> lower(m),
                     password |-> w, root |-> TRUE])
          /\ page' = [page EXCEPT ![p].timer = TRUE]
       \/ ~Unique(a, l, lower(m)) /\ Die(p) /\ UNCHANGED account
    /\ UNCHANGED <<phase, left>>

\* A wallet signs the QR code of p. The callback commits the account, a new
\* one or that of the wallet, and its event is on the way.
WizardSign(p, a) ==
    /\ phase = "wizard" /\ page[p].kind = "wizard" /\ page[p].id = NoId
    /\ \/ a \notin Made /\ Put(a, [NoRow EXCEPT !.made = TRUE])
       \/ a \in Made /\ account[a].login = None /\ UNCHANGED account
    /\ page' = [page EXCEPT ![p].id = a]
    /\ UNCHANGED <<phase, left>>

\* Mutant: the page keeps NULL where it expects an account.
MUT_WizardMiss(p) ==
    /\ page[p].kind = "wizard" /\ page[p].id # NoId
    /\ page' = [page EXCEPT ![p].id = None]
    /\ UNCHANGED <<phase, account, left>>

\* The event finds the page with another code.
WizardMiss(p) ==
    /\ page[p].kind = "wizard" /\ page[p].id # NoId
    /\ page' = [page EXCEPT ![p].id = NoId]
    /\ UNCHANGED <<phase, account, left>>

\* Mutant: the handler shuts down without the commit of the permission.
MUT_WizardGrant(p) ==
    /\ page[p].kind = "wizard" /\ page[p].id # NoId
    /\ page' = [page EXCEPT ![p].id = NoId, ![p].timer = TRUE]
    /\ UNCHANGED <<phase, account, left>>

\* The event reaches the page, which grants the permission: an account has
\* each at most once (uq_permissions_user_type), so a second grant to the
\* wallet that has it, on this page or another, sets no timer.
WizardGrant(p) ==
    LET a == page[p].id IN
    /\ page[p].kind = "wizard" /\ a # NoId
    /\ \/ /\ ~account[a].root
          /\ Put(a, [account[a] EXCEPT !.root = TRUE])
          /\ page' = [page EXCEPT ![p].id = NoId, ![p].timer = TRUE]
       \/ account[a].root /\ Die(p) /\ UNCHANGED account
    /\ UNCHANGED <<phase, left>>

\* The timer of p stops the wizard; the application starts.
Shutdown(p) ==
    /\ page[p].timer
    /\ phase' = "main" /\ left' = FALSE
    /\ page' = [q \in Pages |-> NoPage]
    /\ UNCHANGED account

----------------------------------------------------------------------------
(***************************************************************************)
(* The application.                                                        *)
(***************************************************************************)

\* The callback creates the account of a wallet.
WalletAccount(a) ==
    /\ phase = "main" /\ a \notin Made
    /\ Put(a, [NoRow EXCEPT !.made = TRUE])
    /\ UNCHANGED <<phase, page, left>>

\* register_post up to its query: the form is valid and nobody has the names.
RegisterCheck(p, l, m, w) ==
    /\ phase = "main" /\ page[p] = NoPage
    /\ ValidLogin(l) /\ ValidMail(m)
    /\ \A b \in Made : account[b].login # l /\ account[b].email # lower(m)
    /\ page' = [page EXCEPT ![p].kind = "register",
         ![p].row = [made |-> TRUE, login |-> l, email |-> lower(m),
                     password |-> w, root |-> FALSE]]
    /\ UNCHANGED <<phase, account, left>>

\* register_post from there: the insert, or an error.
RegisterInsert(p, a) ==
    LET row == page[p].row IN
    /\ page[p].kind = "register" /\ a \notin Made
    /\ \/ Unique(a, row.login, row.email) /\ Put(a, row)
       \/ ~Unique(a, row.login, row.email) /\ UNCHANGED account
    /\ Close(p)
    /\ UNCHANGED <<phase, left>>

\* profile loads the account that the browser is signed in to.
OpenProfile(p, a) ==
    /\ phase = "main" /\ page[p] = NoPage /\ a \in Made
    /\ page' = [page EXCEPT ![p].kind = "profile", ![p].id = a,
                            ![p].row = account[a]]
    /\ UNCHANGED <<phase, account, left>>

\* Mutant: the address is taken as it was typed.
MUT_EmailCheck(p, m) ==
    /\ page[p].kind = "profile" /\ ValidMail(m)
    /\ \A b \in Made \ {page[p].id} : account[b].email # m
    /\ m # page[p].row.email
    /\ page' = [page EXCEPT ![p].kind = "email", ![p].row.email = m]
    /\ UNCHANGED <<phase, account, left>>

\* save of the e-mail dialog up to its query. An address that is the copy's
\* is not written, whatever the row says by now.
EmailCheck(p, m) ==
    /\ page[p].kind = "profile" /\ ValidMail(m)
    /\ \A b \in Made \ {page[p].id} : account[b].email # lower(m)
    /\ \/ lower(m) # page[p].row.email
          /\ page' = [page EXCEPT ![p].kind = "email", ![p].row.email = lower(m)]
       \/ lower(m) = page[p].row.email /\ Close(p)
    /\ UNCHANGED <<phase, account, left>>

\* Its commit, or an error after which the page cannot be used.
EmailCommit(p) ==
    LET a == page[p].id
        m == page[p].row.email IN
    /\ page[p].kind = "email"
    /\ \/ Unique(a, None, m) /\ Put(a, [account[a] EXCEPT !.email = m])
       \/ ~Unique(a, None, m) /\ UNCHANGED account
    /\ Close(p)
    /\ UNCHANGED <<phase, left>>

\* save of the password dialog. It asks for the current password if the copy
\* has one, and compares with the copy.
PasswordSave(p, current, new) ==
    LET a == page[p].id IN
    /\ page[p].kind = "profile"
    /\ current = page[p].row.password
    /\ Put(a, [account[a] EXCEPT !.password = new])
    /\ Close(p)
    /\ UNCHANGED <<phase, left>>

----------------------------------------------------------------------------
Next ==
    \/ Start \/ Crash
    \/ \E p \in Pages :
         \/ Leave(p) \/ OpenWizard(p) \/ WizardMiss(p) \/ WizardGrant(p)
         \/ Shutdown(p) \/ EmailCommit(p)
         \/ \E m \in Typed : EmailCheck(p, m)
         \/ \E current \in Passwords \cup {None}, new \in Passwords :
              PasswordSave(p, current, new)
         \/ \E a \in Ids : WizardSign(p, a) \/ RegisterInsert(p, a) \/ OpenProfile(p, a)
         \/ \E l, m \in Typed, w \in Passwords :
              \/ RegisterCheck(p, l, m, w)
              \/ \E a \in Ids : WizardSubmit(p, a, l, m, w)
    \/ \E a \in Ids : WalletAccount(a)

Spec == Init /\ [][Next]_vars

\* The container is started again after it died, and timers fire.
Fairness == WF_vars(Start) /\ \A p \in Pages : WF_vars(Shutdown(p))

FairSpec == Spec /\ Fairness

----------------------------------------------------------------------------
(***************************************************************************)
(* Properties.                                                             *)
(***************************************************************************)

\* Whatever is typed as an identifier, in either case, means at most one
\* account: no two accounts share a login or an address, and no login is
\* another one's address, however registrations, the wizard and e-mail
\* changes cross (login_post takes the first account that its query finds).
OneAccountPerName ==
    \A name \in Logins \cup Mails : \A a, b \in Named(name) \cup Named(lower(name)) :
        a = b

\* The application runs only once there is a root account, whichever way the
\* wizard took and wherever it was interrupted (entrypoint.sh, set_root).
MainHasRoot == phase = "main" => HasRoot

\* Once a wizard page has created the root account, the application starts,
\* also if the container dies in between, unless the page is closed before
\* its timer fires (finalizing_setup, exists_root_user).
WizardEnds == (\E p \in Pages : page[p].timer) ~> (phase = "main" \/ left)

\* What the profile's documentation says: an account that has a password
\* keeps it until that password is given.
CurrentRequired ==
    [][\A p \in Pages, current \in Passwords \cup {None}, new \in Passwords :
          PasswordSave(p, current, new) =>
              account[page[p].id].password \in {None, current}]_vars
=============================================================================
