------------------------ MODULE ClientConsoleProofs ------------------------
(***************************************************************************)
(* Proofs about ClientConsole, for any number of clients, pages, requests  *)
(* and secrets, and any forms. What a page does to a client it has loaded  *)
(* is one commit (EditCommits), about which the rest is proved.            *)
(***************************************************************************)
EXTENDS ClientConsole, TLAPS

Valid(f) == f \in Forms /\ Accepted(f)

\* What is loaded or stored was accepted, and a copy is of a stored client.
FormInv ==
    /\ \A c \in Clients : client[c].status # "none" => Valid(client[c].form)
    /\ \A p \in Pages, c \in Clients :
         page[p].copy[c].status # "none" => /\ client[c].status # "none"
                                            /\ Valid(page[p].copy[c].form)

FitsMethod(row) == row.form.method = "none" <=> row.secret = NoSecret

\* What Save, Rotate and Toggle commit.
Edited(copy, new) ==
    /\ new \in Row /\ new.status = "live" /\ Valid(new.form)
    /\ new.secret # copy.secret =>
         new.secret = NoSecret \/ (new.secret \in Secrets /\ Fresh(new.secret))
    /\ FitsMethod(copy) => FitsMethod(new)

Edit(p, c) == Rotate(p, c) \/ Toggle(p, c) \/ \E f \in Forms : Save(p, c, f)

LEMMA EditCommits ==
    ASSUME TypeOK, FormInv, NEW p \in Pages, NEW c \in Clients, Edit(p, c)
    PROVE  \E new \in Row, stays \in BOOLEAN :
              Commit(p, c, new, stays) /\ Edited(page[p].copy[c], new)
<1> DEFINE copy == page[p].copy[c]
<1>1. copy \in Row
  BY DEF TypeOK, Page
<1>2. copy.status = "live" => Valid(copy.form)
  BY DEF FormInv
<1>3. CASE Toggle(p, c)
  <2> DEFINE new == [copy EXCEPT !.disabled = ~copy.disabled]
  <2>1. new \in Row /\ new.status = copy.status /\ new.form = copy.form
          /\ new.secret = copy.secret
    BY <1>1 DEF Row
  <2>2. Commit(p, c, new, FALSE) /\ copy.status = "live"
    BY <1>3 DEF Toggle, OnPage
  <2>3. Edited(copy, new)
    BY <1>2, <2>1, <2>2 DEF Edited, FitsMethod
  <2> HIDE DEF new
  <2> QED
    BY <2>1, <2>2, <2>3
<1>4. CASE Rotate(p, c)
  <2>1. PICK s \in Secrets :
          Fresh(s) /\ Commit(p, c, [copy EXCEPT !.secret = s], TRUE)
    BY <1>4 DEF Rotate
  <2> DEFINE new == [copy EXCEPT !.secret = s]
  <2>2. new \in Row /\ new.status = copy.status /\ new.form = copy.form /\ new.secret = s
    BY <1>1 DEF Row
  <2>3. copy.status = "live" /\ copy.form.method # "none"
    BY <1>4 DEF Rotate, OnPage, Public
  <2>4. Edited(copy, new)
    BY <1>2, <2>1, <2>2, <2>3, FormsAssumption DEF Edited, FitsMethod
  <2> HIDE DEF new
  <2> QED
    BY <2>1, <2>2, <2>4 DEF new
<1>5. ASSUME NEW f \in Forms, Save(p, c, f)
      PROVE  \E new \in Row, stays \in BOOLEAN :
                Commit(p, c, new, stays) /\ Edited(copy, new)
  <2>1. PICK s \in Secrets \cup {NoSecret}, stays \in BOOLEAN :
          /\ Commit(p, c, Saved(copy, f, s), stays)
          /\ s # copy.secret => s = NoSecret \/ (s \in Secrets /\ Fresh(s))
          /\ f.method = "none" <=> s = NoSecret
    <3>1. CASE f.method = "none" /\ Commit(p, c, Saved(copy, f, NoSecret), FALSE)
      BY <3>1
    <3>2. CASE /\ f.method # "none" /\ copy.secret # NoSecret
               /\ Commit(p, c, Saved(copy, f, copy.secret), FALSE)
      <4>1. copy.secret \in Secrets \cup {NoSecret}
        BY <1>1 DEF Row
      <4> QED
        BY <3>2, <4>1
    <3>3. CASE /\ f.method # "none"
               /\ \E s \in Secrets : Fresh(s) /\ Commit(p, c, Saved(copy, f, s), TRUE)
      BY <3>3, FormsAssumption
    <3> QED
      BY <1>5, <3>1, <3>2, <3>3 DEF Save
  <2> DEFINE new == Saved(copy, f, s)
  <2>2. new \in Row /\ new.status = copy.status /\ new.form = f /\ new.secret = s
    BY <1>1 DEF Row, Saved
  <2>3. copy.status = "live" /\ Valid(f)
    BY <1>5 DEF Save, OnPage, Valid
  <2>4. Edited(copy, new)
    BY <2>1, <2>2, <2>3 DEF Edited, FitsMethod
  <2> HIDE DEF new
  <2> QED
    BY <2>1, <2>2, <2>4 DEF new
<1> QED
  BY <1>3, <1>4, <1>5 DEF Edit

\* What a commit leaves in the row and in the copy.
LEMMA Committed ==
    ASSUME TypeOK, NEW p \in Pages, NEW c \in Clients, NEW new \in Row,
           NEW stays \in BOOLEAN, Commit(p, c, new, stays)
    PROVE  /\ \A d \in Clients : d # c => client'[d] = client[d]
           /\ ~Live(c) => UNCHANGED <<client, overwritten, late>>
           /\ Live(c) =>
                /\ client'[c] = Written(client[c], page[p].copy[c], new)
                /\ client' \in [Clients -> Row]
           /\ page' \in [Pages -> Page]
           /\ \A q \in Pages, d \in Clients : page'[q].copy[d] =
                IF q = p /\ d = c THEN new ELSE page[q].copy[d]
<1>1. Written(client[c], page[p].copy[c], new) \in Row
  BY DEF Written, TypeOK, Row
<1>2. [page[p] EXCEPT !.open = (stays /\ Live(c)), !.copy[c] = new] \in Page
  <2>1. [page[p].copy EXCEPT ![c] = new] \in [Clients -> Row]
    BY DEF TypeOK, Page
  <2>2. Live(c) \in BOOLEAN
    BY DEF Live
  <2> QED
    BY <2>1, <2>2 DEF TypeOK, Page
<1>3. page' \in [Pages -> Page]
  BY <1>2 DEF Commit, TypeOK
<1>4. \A q \in Pages, d \in Clients : page'[q].copy[d] =
        IF q = p /\ d = c THEN new ELSE page[q].copy[d]
  BY DEF Commit, TypeOK, Page
<1> QED
  BY <1>1, <1>3, <1>4 DEF Commit, TypeOK

----------------------------------------------------------------------------
(***************************************************************************)
(* Types, and the forms of rows and copies.                                *)
(***************************************************************************)
LEMMA MissingType == Missing \in Row
BY DEF Missing, Row

LEMMA FormInit == Init => TypeOK /\ FormInv
<1> SUFFICES ASSUME Init PROVE TypeOK /\ FormInv
  OBVIOUS
<1>1. [c \in Clients |-> Missing] \in [Clients -> Row]
  BY MissingType
<1> QED
  BY <1>1 DEF Init, TypeOK, FormInv, Missing, Page

LEMMA CreateForm ==
    ASSUME TypeOK, FormInv, NEW c \in Clients, NEW f \in Forms, Create(c, f)
    PROVE  TypeOK' /\ FormInv'
<1>1. PICK s \in Secrets \cup {NoSecret} :
        /\ client' = [client EXCEPT ![c] =
             [status |-> "live", form |-> f, disabled |-> FALSE, secret |-> s]]
        /\ \/ dialog' = dialog
           \/ s \in Secrets /\ dialog' = [dialog EXCEPT ![s] = "due"]
  BY DEF Create
<1>2. [status |-> "live", form |-> f, disabled |-> FALSE, secret |-> s] \in Row
  BY DEF Row
<1>3. TypeOK'
  BY <1>1, <1>2 DEF Create, TypeOK
<1>4. FormInv'
  BY <1>1 DEF Create, TypeOK, FormInv, Valid
<1> QED
  BY <1>3, <1>4

LEMMA EditForm ==
    ASSUME TypeOK, FormInv, NEW p \in Pages, NEW c \in Clients, Edit(p, c)
    PROVE  TypeOK' /\ FormInv'
<1>1. PICK new \in Row, stays \in BOOLEAN :
        Commit(p, c, new, stays) /\ Edited(page[p].copy[c], new)
  BY EditCommits
<1>2. client' \in [Clients -> Row]
  BY <1>1, Committed DEF TypeOK
<1>3. dialog' \in [Secrets -> {"new", "due", "shown", "lost"}]
  BY <1>1 DEF Commit, TypeOK, Row
<1>4. /\ request' = request /\ late' \subseteq Requests
      /\ overwritten' \subseteq Clients
  BY <1>1 DEF Commit, TypeOK
<1>5. TypeOK'
  BY <1>1, <1>2, <1>3, <1>4, Committed DEF TypeOK
<1>6. \A d \in Clients : client'[d].status # "none" => Valid(client'[d].form)
  <2>1. Live(c) => client'[c].form = new.form
    <3>1. Written(client[c], page[p].copy[c], new).form = new.form
      BY <1>1 DEF Written, Row
    <3> QED
      BY <1>1, <3>1, Committed
  <2> QED
    BY <1>1, <2>1, Committed DEF Edited, FormInv
<1>7. \A q \in Pages, d \in Clients :
        page'[q].copy[d].status # "none" => /\ client'[d].status # "none"
                                            /\ Valid(page'[q].copy[d].form)
  <2>1. Live(c) => client'[c].status = "live"
    <3>1. Written(client[c], page[p].copy[c], new).status = new.status
      BY <1>1 DEF Written, Row
    <3> QED
      BY <1>1, <3>1, Committed DEF Edited
  <2>2. page[p].copy[c].status = "live"
    BY DEF Edit, Save, Rotate, Toggle, OnPage
  <2>3. client[c].status # "none" /\ client'[c].status # "none"
    BY <1>1, <2>1, <2>2, Committed DEF FormInv
  <2> QED
    BY <1>1, <2>3, Committed DEF Edited, FormInv
<1> QED
  BY <1>5, <1>6, <1>7 DEF FormInv

LEMMA FormNext == TypeOK /\ FormInv /\ [Next]_vars => TypeOK' /\ FormInv'
<1> SUFFICES ASSUME TypeOK, FormInv, [Next]_vars PROVE TypeOK' /\ FormInv'
  OBVIOUS
<1>1. ASSUME NEW p \in Pages, Open(p) PROVE TypeOK' /\ FormInv'
  <2>1. [open |-> TRUE, copy |-> client] \in Page
    BY DEF TypeOK, Page
  <2> QED
    BY <1>1, <2>1 DEF Open, TypeOK, FormInv
<1>2. ASSUME NEW p \in Pages, Close(p) PROVE TypeOK' /\ FormInv'
  <2>1. [page[p] EXCEPT !.open = FALSE] \in Page
    BY DEF TypeOK, Page
  <2> QED
    BY <1>2, <2>1 DEF Close, TypeOK, FormInv, Page
<1>3. ASSUME NEW p \in Pages, NEW c \in Clients, Delete(p, c)
      PROVE  TypeOK' /\ FormInv'
  <2>1. [page[p] EXCEPT !.open = FALSE] \in Page
    BY DEF TypeOK, Page
  <2>2. [client[c] EXCEPT !.status = "deleted"] \in Row
    BY DEF TypeOK, Row
  <2>3. TypeOK'
    BY <1>3, <2>1, <2>2 DEF Delete, TypeOK
  <2>4. client[c].status # "none"
    BY <1>3 DEF Delete, OnPage, FormInv
  <2>5. \A d \in Clients : /\ client'[d].form = client[d].form
                           /\ client'[d].status = "none" <=> client[d].status = "none"
    BY <1>3, <2>4 DEF Delete, TypeOK, Row
  <2> QED
    BY <1>3, <2>3, <2>5 DEF Delete, TypeOK, FormInv, Page
<1>4. ASSUME NEW r \in Requests, NEW c \in Clients, Authenticate(r, c)
      PROVE  TypeOK' /\ FormInv'
  BY <1>4 DEF Authenticate, TypeOK, FormInv
<1>5. ASSUME NEW r \in Requests, Answer(r) PROVE TypeOK' /\ FormInv'
  BY <1>5 DEF Answer, TypeOK, FormInv
<1>6. ASSUME NEW s \in Secrets, Dialog(s) PROVE TypeOK' /\ FormInv'
  BY <1>6 DEF Dialog, TypeOK, FormInv
<1>7. CASE UNCHANGED vars
  BY <1>7 DEF vars, TypeOK, FormInv
<1> QED
  BY <1>1, <1>2, <1>3, <1>4, <1>5, <1>6, <1>7, CreateForm, EditForm DEF Next, Edit

\* TypeOK for every value of the constants.
THEOREM TypeCorrect == Spec => []TypeOK
BY FormInit, FormNext, PTL DEF Spec

\* Every stored client can run the code flow (CodeFlowPossible), also one
\* that was saved from a copy out of date: every form that a page loads or
\* types has passed build_client_metadata.
THEOREM CodeFlow == Spec => []CodeFlowPossible
<1>1. TypeOK /\ FormInv => CodeFlowPossible
  <2> SUFFICES ASSUME NEW f \in Form, Accepted(f)
               PROVE  /\ "authorization_code" \in f.grant_types
                      /\ f.response_types = {"code"}
                      /\ f.redirect_uris = {"absolute"} /\ f.client_uri # "relative"
                      /\ f.scope \cap {"openid", "profile", "email"} # {}
                      /\ "other" \notin f.grant_types \cup f.scope
    BY FormsAssumption DEF FormInv, Valid, CodeFlowPossible
  <2>1. f.redirect_uris = {"absolute"}
    <3>1. /\ f.redirect_uris \subseteq {"absolute", "relative"}
          /\ f.redirect_uris # {} /\ "relative" \notin f.redirect_uris
      BY DEF Form, Accepted
    <3>2. "absolute" \in f.redirect_uris
      BY <3>1
    <3>3. \A u \in f.redirect_uris : u = "absolute"
      BY <3>1
    <3> QED
      BY <3>2, <3>3
  <2>2. f.response_types = {"code"} /\ "authorization_code" \in f.grant_types
    <3>1. f.response_types \subseteq {"code"} /\ f.response_types # {}
      BY DEF Accepted
    <3>2. "code" \in f.response_types /\ \A u \in f.response_types : u = "code"
      BY <3>1
    <3>3. f.response_types = {"code"}
      BY <3>2
    <3> QED
      BY <3>2, <3>3 DEF Accepted
  <2>3. /\ f.scope \cap {"openid", "profile", "email"} # {}
        /\ "other" \notin f.grant_types \cup f.scope
    BY DEF Form, Accepted, SupportedGrants, SupportedScopes
  <2> QED
    BY <2>1, <2>2, <2>3 DEF Accepted
<1> QED
  BY <1>1, FormInit, FormNext, PTL DEF Spec

----------------------------------------------------------------------------
(***************************************************************************)
(* Token requests.                                                         *)
(***************************************************************************)
LEMMA DisabledNext ==
    TypeOK /\ FormInv /\ DisabledStopsNew /\ [Next]_vars => DisabledStopsNew'
<1> SUFFICES ASSUME TypeOK, FormInv, DisabledStopsNew, [Next]_vars
             PROVE  DisabledStopsNew'
  OBVIOUS
<1> USE DEF DisabledStopsNew
<1>1. ASSUME NEW c \in Clients, NEW f \in Forms, Create(c, f)
      PROVE  DisabledStopsNew'
  <2>1. \A d \in Clients : client[d].status = "live" => client'[d] = client[d]
    BY <1>1 DEF Create, TypeOK
  <2> QED
    BY <1>1, <2>1 DEF Create, TypeOK
<1>2. ASSUME NEW p \in Pages, NEW c \in Clients, Edit(p, c)
      PROVE  DisabledStopsNew'
  <2>1. PICK new \in Row, stays \in BOOLEAN :
          Commit(p, c, new, stays) /\ Edited(page[p].copy[c], new)
    BY <1>2, EditCommits
  <2>2. CASE ~Live(c)
    BY <2>1, <2>2, Committed DEF Commit
  <2>3. CASE Live(c)
    <3>1. client'[c].status = "live" /\ client'[c].disabled = new.disabled
      <4>1. /\ Written(client[c], page[p].copy[c], new).status = new.status
            /\ Written(client[c], page[p].copy[c], new).disabled = new.disabled
        BY <2>1 DEF Written, Row
      <4> QED
        BY <2>1, <2>3, <4>1, Committed DEF Edited
    <3>2. /\ request' = request
          /\ late' = IF new.disabled THEN late \cup {r \in Requests : request[r] = c}
                                     ELSE late
      BY <2>1, <2>3 DEF Commit
    <3> SUFFICES ASSUME NEW r \in Requests, request[r] # NoClient, r \notin late'
                 PROVE  /\ client'[request[r]].status = "live"
                        /\ ~client'[request[r]].disabled
      BY <3>2
    <3>3. request[r] \in Clients /\ r \notin late
      BY <3>2 DEF TypeOK
    <3>4. CASE request[r] = c
      BY <3>1, <3>2, <3>4
    <3>5. CASE request[r] # c
      BY <2>1, <3>3, <3>5, Committed
    <3> QED
      BY <3>4, <3>5
  <2> QED
    BY <2>2, <2>3
<1>3. ASSUME NEW p \in Pages, NEW c \in Clients, Delete(p, c)
      PROVE  DisabledStopsNew'
  BY <1>3 DEF Delete, TypeOK
<1>4. ASSUME NEW r \in Requests, NEW c \in Clients, Authenticate(r, c)
      PROVE  DisabledStopsNew'
  BY <1>4 DEF Authenticate, Available, Live, TypeOK
<1>5. ASSUME NEW r \in Requests, Answer(r) PROVE DisabledStopsNew'
  BY <1>5 DEF Answer, TypeOK
<1>6. ASSUME NEW p \in Pages, Open(p) \/ Close(p) PROVE DisabledStopsNew'
  BY <1>6 DEF Open, Close
<1>7. CASE UNCHANGED vars \/ \E s \in Secrets : Dialog(s)
  BY <1>7 DEF vars, Dialog
<1> QED
  BY <1>1, <1>2, <1>3, <1>4, <1>5, <1>6, <1>7 DEF Next, Edit

\* Only requests that had authenticated before get tokens for a client that
\* was disabled or deleted (DisabledStopsNew).
THEOREM DisabledIsFinal == Spec => []DisabledStopsNew
<1>1. Init => DisabledStopsNew
  BY DEF Init, DisabledStopsNew
<1> QED
  BY <1>1, FormInit, FormNext, DisabledNext, PTL DEF Spec

----------------------------------------------------------------------------
(***************************************************************************)
(* Secrets.                                                                *)
(***************************************************************************)
\* What a commit does to the stored secret and to the dialogs.
LEMMA SecretCommitted ==
    ASSUME TypeOK, FormInv, NEW p \in Pages, NEW d \in Clients, Edit(p, d)
    PROVE  \/ /\ dialog' = dialog
              /\ \A c \in Clients : client'[c].secret # client[c].secret =>
                   client'[c].secret = NoSecret
           \/ \E s \in Secrets :
                /\ dialog[s] = "new"
                /\ \/ /\ dialog' = [dialog EXCEPT ![s] = "due"]
                      /\ client'[d].secret = s
                   \/ dialog' = [dialog EXCEPT ![s] = "lost"] /\ client' = client
                /\ \A c \in Clients \ {d} : client'[c] = client[c]
<1>1. PICK new \in Row, stays \in BOOLEAN :
        Commit(p, d, new, stays) /\ Edited(page[p].copy[d], new)
  BY EditCommits
<1> DEFINE old == page[p].copy[d].secret
<1>2. dialog' = IF new.secret \in {old, NoSecret} THEN dialog
                ELSE [dialog EXCEPT ![new.secret] = IF Live(d) THEN "due" ELSE "lost"]
  BY <1>1 DEF Commit
<1>3. Live(d) => client'[d].secret = IF new.secret = old THEN client[d].secret
                                                         ELSE new.secret
  <2>1. Written(client[d], page[p].copy[d], new).secret =
          IF new.secret = old THEN client[d].secret ELSE new.secret
    BY <1>1 DEF Written, Row
  <2> QED
    BY <1>1, <2>1, Committed
<1>4. /\ \A c \in Clients \ {d} : client'[c] = client[c]
      /\ ~Live(d) => client' = client
  BY <1>1, Committed
<1>5. CASE new.secret \in {old, NoSecret}
  BY <1>2, <1>3, <1>4, <1>5
<1>6. CASE new.secret \notin {old, NoSecret}
  <2>1. new.secret \in Secrets /\ dialog[new.secret] = "new"
    BY <1>1, <1>6 DEF Edited, Fresh
  <2>2. Live(d) => client'[d].secret = new.secret
    BY <1>3, <1>6
  <2> QED
    BY <1>2, <1>4, <1>6, <2>1, <2>2
<1> QED
  BY <1>5, <1>6

SecretStep ==
    /\ \A c \in Clients : client'[c].secret # client[c].secret =>
         \/ client'[c].secret = NoSecret
         \/ dialog[client'[c].secret] = "new" /\ dialog'[client'[c].secret] = "due"
    /\ \A s \in Secrets : dialog[s] # "due" /\ dialog'[s] = "due" =>
         \E c \in Clients : client'[c].secret = s

LEMMA SecretNext == TypeOK /\ FormInv /\ [Next]_vars => [SecretStep]_vars
<1> SUFFICES ASSUME TypeOK, FormInv, Next PROVE SecretStep
  OBVIOUS
<1>1. ASSUME NEW d \in Clients, NEW f \in Forms, Create(d, f) PROVE SecretStep
  <2>1. CASE /\ dialog' = dialog
             /\ client' = [client EXCEPT ![d] =
                  [status |-> "live", form |-> f, disabled |-> FALSE,
                   secret |-> NoSecret]]
    BY <2>1 DEF SecretStep, TypeOK
  <2>2. ASSUME NEW s \in Secrets, Fresh(s), dialog' = [dialog EXCEPT ![s] = "due"],
               client' = [client EXCEPT ![d] =
                  [status |-> "live", form |-> f, disabled |-> FALSE, secret |-> s]]
        PROVE  SecretStep
    BY <2>2 DEF SecretStep, TypeOK, Fresh
  <2> QED
    BY <1>1, <2>1, <2>2 DEF Create
<1>2. ASSUME NEW p \in Pages, NEW d \in Clients, Edit(p, d) PROVE SecretStep
  <2>1. CASE /\ dialog' = dialog
             /\ \A c \in Clients : client'[c].secret # client[c].secret =>
                  client'[c].secret = NoSecret
    BY <2>1 DEF SecretStep
  <2>2. ASSUME NEW s \in Secrets, dialog[s] = "new",
               \/ dialog' = [dialog EXCEPT ![s] = "due"] /\ client'[d].secret = s
               \/ dialog' = [dialog EXCEPT ![s] = "lost"] /\ client' = client,
               \A c \in Clients \ {d} : client'[c] = client[c]
        PROVE  SecretStep
    BY <2>2 DEF SecretStep, TypeOK
  <2> QED
    BY <1>2, <2>1, <2>2, SecretCommitted
<1>3. ASSUME NEW p \in Pages, NEW d \in Clients, Delete(p, d) PROVE SecretStep
  BY <1>3 DEF Delete, TypeOK, Row, SecretStep
<1>4. ASSUME NEW s \in Secrets, Dialog(s) PROVE SecretStep
  BY <1>4 DEF Dialog, TypeOK, SecretStep
<1>5. CASE UNCHANGED <<client, dialog>>
  BY <1>5 DEF SecretStep
<1> QED
  BY <1>1, <1>2, <1>3, <1>4, <1>5 DEF Next, Edit, Open, Close, Authenticate, Answer

\* A stored secret changes only to one that was never drawn before and is
\* shown after this commit, if ever, or to none, however the saves of several
\* pages cross; and what is to be shown is what was stored
\* (SecretChangesShown).
THEOREM SecretsShown == Spec => SecretChangesShown
BY SecretNext, FormInit, FormNext, PTL DEF Spec, SecretChangesShown, SecretStep

LEMMA FitsNext == TypeOK /\ FormInv /\ SecretFitsMethod /\ [Next]_vars => SecretFitsMethod'
<1> SUFFICES ASSUME TypeOK, FormInv, SecretFitsMethod, [Next]_vars
             PROVE  SecretFitsMethod'
  OBVIOUS
<1> USE DEF SecretFitsMethod, Live, Public
<1>1. ASSUME NEW c \in Clients, NEW f \in Forms, Create(c, f)
      PROVE  SecretFitsMethod'
  BY <1>1, FormsAssumption DEF Create, TypeOK
<1>2. ASSUME NEW p \in Pages, NEW c \in Clients, Edit(p, c)
      PROVE  SecretFitsMethod'
  <2>1. PICK new \in Row, stays \in BOOLEAN :
          Commit(p, c, new, stays) /\ Edited(page[p].copy[c], new)
    BY <1>2, EditCommits
  <2>2. CASE ~Live(c)
    BY <2>1, <2>2, Committed
  <2>3. CASE Live(c) /\ page[p].copy[c] # client[c]
    <3>1. overwritten' = overwritten \cup {c}
      BY <2>1, <2>3 DEF Commit
    <3> QED
      BY <2>1, <2>3, <3>1, Committed
  <2>4. CASE Live(c) /\ page[p].copy[c] = client[c]
    <3>1. client'[c].secret = new.secret /\ client'[c].form = new.form
      <4>1. /\ Written(client[c], client[c], new).secret = new.secret
            /\ Written(client[c], client[c], new).form = new.form
        BY <2>1 DEF Written, Row
      <4> QED
        BY <2>1, <2>4, <4>1, Committed
    <3>2. overwritten' = overwritten
      BY <2>1, <2>4 DEF Commit
    <3>3. c \notin overwritten => FitsMethod(new)
      BY <2>1, <2>4 DEF Edited, FitsMethod
    <3> QED
      BY <2>1, <3>1, <3>2, <3>3, Committed DEF FitsMethod
  <2> QED
    BY <2>2, <2>3, <2>4
<1>3. ASSUME NEW p \in Pages, NEW c \in Clients, Delete(p, c)
      PROVE  SecretFitsMethod'
  BY <1>3 DEF Delete, TypeOK
<1>4. ASSUME NEW r \in Requests, Answer(r) \/ \E c \in Clients : Authenticate(r, c)
      PROVE  SecretFitsMethod'
  BY <1>4 DEF Answer, Authenticate
<1>5. ASSUME NEW p \in Pages, Open(p) \/ Close(p) PROVE SecretFitsMethod'
  BY <1>5 DEF Open, Close
<1>6. CASE UNCHANGED vars \/ \E s \in Secrets : Dialog(s)
  BY <1>6 DEF vars, Dialog
<1> QED
  BY <1>1, <1>2, <1>3, <1>4, <1>5, <1>6 DEF Next, Edit

\* Of the clients that were never saved from a copy out of date, exactly the
\* public ones are without a secret (SecretFitsMethod).
THEOREM SecretsFit == Spec => []SecretFitsMethod
<1>1. Init => SecretFitsMethod
  BY DEF Init, SecretFitsMethod, Live, Missing
<1> QED
  BY <1>1, FormInit, FormNext, FitsNext, PTL DEF Spec
=============================================================================
