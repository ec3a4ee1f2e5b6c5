--------------------------- MODULE ClientConsole ---------------------------
(***************************************************************************)
(* OAuth2 client registrations: the pages on which a developer creates,    *)
(* edits, disables, deletes a client and rotates its secret                *)
(* (routes/create_client.py, routes/dashboard.py, and                      *)
(* auth/client_management.py), and the token requests of those clients.    *)
(*                                                                         *)
(* A dashboard page loads the developer's clients once and works on these  *)
(* copies until it is reloaded.  An operation changes the copy and commits *)
(* it: SQLAlchemy writes the columns whose value differs from the one that *)
(* was loaded.  The metadata is one column, a JSON document with the form  *)
(* and the disabled mark, and every operation stamps it with a new time,   *)
(* so it is always written, whole; the secret is another column.           *)
(*                                                                         *)
(* A secret that was drawn is shown once, in a dialog that opens after the  *)
(* commit: a crash, or a developer who leaves the page, can come between.  *)
(*                                                                         *)
(* Abstractions: one developer; of the form, what its validation and the   *)
(* grants look at; an UPDATE that finds no row raises in the handler, and  *)
(* its session refuses all further use, so the page is as good as closed.  *)
(***************************************************************************)
CONSTANTS
    Clients,    \* registrations that can be made
    Pages,      \* dashboard pages open at a time
    Secrets,    \* values token_urlsafe can draw, each once
    Requests,   \* token requests in progress at a time
    Forms,      \* what can be typed into the create and edit forms
    NoSecret,   \* client_secret is ""
    NoForm,     \* there is no such client
    NoClient    \* the request is idle

(***************************************************************************)
(* A form, as typed. Of a list of URLs only their kinds matter, and of the *)
(* lists of values which ones occur; "other" is any unsupported value.     *)
(***************************************************************************)
Form == [client_name : {"", "name"},
         client_uri : {"", "absolute", "relative"},
         redirect_uris : SUBSET {"absolute", "relative"},
         grant_types : SUBSET {"authorization_code", "refresh_token", "other"},
         response_types : SUBSET {"code", "other"},
         scope : SUBSET {"openid", "profile", "email", "other"},
         method : {"client_secret_basic", "client_secret_post", "none", "other"}]

ASSUME FormsAssumption ==
    /\ Forms \subseteq Form /\ NoForm \notin Forms
    /\ NoSecret \notin Secrets /\ NoClient \notin Clients

VARIABLES
    client,     \* rows of oauth2_client
    page,       \* the dashboard pages with the copies they have loaded
    request,    \* the client each token request has authenticated
    dialog,     \* how far the dialog of each secret is
    late,       \* history: requests authenticated before their client was
                \* disabled or deleted
    overwritten \* history: clients saved from a copy that was out of date

vars == <<client, page, request, dialog, late, overwritten>>

Row == [status : {"none", "live", "deleted"},
        form : Forms \cup {NoForm},
        disabled : BOOLEAN,
        secret : Secrets \cup {NoSecret}]

Missing == [status |-> "none", form |-> NoForm, disabled |-> FALSE,
            secret |-> NoSecret]

Page == [open : BOOLEAN, copy : [Clients -> Row]]

TypeOK ==
    /\ client \in [Clients -> Row]
    /\ page \in [Pages -> Page]
    /\ request \in [Requests -> Clients \cup {NoClient}]
    /\ dialog \in [Secrets -> {"new", "due", "shown", "lost"}]
    /\ late \subseteq Requests
    /\ overwritten \subseteq Clients

----------------------------------------------------------------------------
SupportedGrants == {"authorization_code", "refresh_token"}
SupportedScopes == {"openid", "profile", "email"}
SupportedMethods == {"client_secret_basic", "client_secret_post", "none"}

\* Mutant: the check that the code response type has its grant is missing.
MUT_Accepted(f) ==
    /\ f.client_name # "" /\ f.client_uri # "relative"
    /\ f.redirect_uris = {"absolute"}
    /\ f.grant_types # {} /\ f.grant_types \subseteq SupportedGrants
    /\ f.response_types = {"code"}
    /\ f.scope # {} /\ f.scope \subseteq SupportedScopes
    /\ f.method \in SupportedMethods

\* build_client_metadata raises no ClientMetadataValidationError.
Accepted(f) ==
    /\ f.client_name # "" /\ f.client_uri # "relative"
    /\ f.redirect_uris # {} /\ "relative" \notin f.redirect_uris
    /\ f.grant_types # {} /\ f.grant_types \subseteq SupportedGrants
    /\ f.response_types # {} /\ f.response_types \subseteq {"code"}
    /\ "code" \in f.response_types => "authorization_code" \in f.grant_types
    /\ f.scope # {} /\ f.scope \subseteq SupportedScopes
    /\ f.method \in SupportedMethods

Public(row) == row.form.method = "none"

Live(c) == client[c].status = "live"

\* A secret that was not drawn before.
Fresh(s) == dialog[s] = "new"

\* Mutant: a save writes the secret it has loaded, too.
MUT_Written(row, copy, new) == new

\* The row after an UPDATE with the columns in which new differs from the
\* copy: the metadata always, the secret if it was changed.
Written(row, copy, new) ==
    [new EXCEPT !.secret = IF new.secret = copy.secret THEN row.secret
                                                       ELSE new.secret]

\* What update_client_metadata, and save, make of the copy.
Saved(copy, f, s) == [copy EXCEPT !.form = f, !.secret = s]

\* Page p commits new for its copy of c, and stays open or is reloaded. An
\* UPDATE of a deleted row raises: nothing is written, and a secret that was
\* drawn for it comes to nothing.
Commit(p, c, new, stays) ==
    /\ IF Live(c)
         THEN /\ client' = [client EXCEPT ![c] =
                   Written(client[c], page[p].copy[c], new)]
              /\ overwritten' = IF page[p].copy[c] = client[c]
                                  THEN overwritten ELSE overwritten \cup {c}
              /\ late' = IF new.disabled
                           THEN late \cup {r \in Requests : request[r] = c}
                           ELSE late
         ELSE UNCHANGED <<client, overwritten, late>>
    /\ dialog' = IF new.secret \in {page[p].copy[c].secret, NoSecret} THEN dialog
                 ELSE [dialog EXCEPT ![new.secret] = IF Live(c) THEN "due" ELSE "lost"]
    /\ page' = [page EXCEPT ![p].open = stays /\ Live(c),
                            ![p].copy[c] = new]
    /\ UNCHANGED request

OnPage(p, c) == page[p].open /\ page[p].copy[c].status = "live"

----------------------------------------------------------------------------
Init ==
    /\ client = [c \in Clients |-> Missing]
    /\ page = [p \in Pages |->
         [open |-> FALSE, copy |-> [c \in Clients |-> Missing]]]
    /\ request = [r \in Requests |-> NoClient]
    /\ dialog = [s \in Secrets |-> "new"]
    /\ late = {} /\ overwritten = {}

\* submit of the create page: a public client gets no secret, any other
\* one that is to be shown.
Create(c, f) ==
    /\ client[c].status = "none" /\ Accepted(f)
    /\ \/ /\ f.method = "none"
          /\ client' = [client EXCEPT ![c] =
               [status |-> "live", form |-> f, disabled |-> FALSE,
                secret |-> NoSecret]]
          /\ UNCHANGED dialog
       \/ /\ f.method # "none"
          /\ \E s \in Secrets :
               /\ Fresh(s)
               /\ client' = [client EXCEPT ![c] =
                    [status |-> "live", form |-> f, disabled |-> FALSE,
                     secret |-> s]]
               /\ dialog' = [dialog EXCEPT ![s] = "due"]
    /\ UNCHANGED <<page, request, late, overwritten>>

\* A page is opened, or loaded again.
Open(p) ==
    /\ ~page[p].open
    /\ page' = [page EXCEPT ![p] = [open |-> TRUE, copy |-> client]]
    /\ UNCHANGED <<client, request, dialog, late, overwritten>>

Close(p) ==
    /\ page[p].open
    /\ page' = [page EXCEPT ![p].open = FALSE]
    /\ UNCHANGED <<client, request, dialog, late, overwritten>>

\* Mutant: a client that stops being public gets no secret.
MUT_Save(p, c, f) ==
    LET copy == page[p].copy[c] IN
    /\ OnPage(p, c) /\ Accepted(f)
    /\ Commit(p, c, Saved(copy, f, IF f.method = "none" THEN NoSecret ELSE copy.secret), FALSE)

\* save of the edit dialog. A client that becomes public loses its secret;
\* one that the copy has without a secret gets one, which is to be shown.
Save(p, c, f) ==
    LET copy == page[p].copy[c] IN
    /\ OnPage(p, c) /\ Accepted(f)
    /\ \/ /\ f.method = "none"
          /\ Commit(p, c, Saved(copy, f, NoSecret), FALSE)
       \/ /\ f.method # "none" /\ copy.secret # NoSecret
          /\ Commit(p, c, Saved(copy, f, copy.secret), FALSE)
       \/ /\ f.method # "none" /\ copy.secret = NoSecret
          /\ \E s \in Secrets :
               Fresh(s) /\ Commit(p, c, Saved(copy, f, s), TRUE)

\* rotate, which a client that is public in the copy is refused.
Rotate(p, c) ==
    LET copy == page[p].copy[c] IN
    /\ OnPage(p, c) /\ ~Public(copy)
    /\ \E s \in Secrets :
         Fresh(s) /\ Commit(p, c, [copy EXCEPT !.secret = s], TRUE)

\* Mutant: the mark is written to the wrong column.
MUT_Toggle(p, c) ==
    LET copy == page[p].copy[c] IN
    /\ OnPage(p, c)
    /\ Commit(p, c, [copy EXCEPT !.secret = ~copy.disabled], FALSE)

\* toggle_client: the opposite of what the copy says.
Toggle(p, c) ==
    LET copy == page[p].copy[c] IN
    /\ OnPage(p, c)
    /\ Commit(p, c, [copy EXCEPT !.disabled = ~copy.disabled], FALSE)

\* The dialog with a new secret opens, after the commit, or never: the
\* process stops, or the browser has left the page.
Dialog(s) ==
    /\ dialog[s] = "due"
    /\ \E end \in {"shown", "lost"} : dialog' = [dialog EXCEPT ![s] = end]
    /\ UNCHANGED <<client, page, request, late, overwritten>>

\* delete. Deleting a row that is gone already does nothing.
Delete(p, c) ==
    /\ OnPage(p, c)
    /\ client' = [client EXCEPT ![c].status = "deleted"]
    /\ page' = [page EXCEPT ![p].open = FALSE]
    /\ late' = late \cup {r \in Requests : request[r] = c}
    /\ UNCHANGED <<request, dialog, overwritten>>

\* Mutant: query_client does not look at the disabled mark.
MUT_Available(c) == Live(c)

\* query_client finds the client.
Available(c) == Live(c) /\ ~client[c].disabled

\* A token request authenticates its client: a public one by its id, any
\* other by the stored secret.
Authenticate(r, c) ==
    /\ request[r] = NoClient
    /\ Available(c) /\ (Public(client[c]) \/ client[c].secret # NoSecret)
    /\ request' = [request EXCEPT ![r] = c]
    /\ UNCHANGED <<client, page, dialog, late, overwritten>>

\* The tokens are stored and the request is answered, or it fails; the
\* client is not looked at again.
Answer(r) ==
    /\ request[r] # NoClient
    /\ request' = [request EXCEPT ![r] = NoClient]
    /\ late' = late \ {r}
    /\ UNCHANGED <<client, page, dialog, overwritten>>

Next ==
    \/ \E c \in Clients, f \in Forms : Create(c, f)
    \/ \E p \in Pages : Open(p) \/ Close(p)
    \/ \E p \in Pages, c \in Clients :
         \/ \E f \in Forms : Save(p, c, f)
         \/ Rotate(p, c) \/ Toggle(p, c) \/ Delete(p, c)
    \/ \E s \in Secrets : Dialog(s)
    \/ \E r \in Requests : Answer(r) \/ \E c \in Clients : Authenticate(r, c)

Spec == Init /\ [][Next]_vars

----------------------------------------------------------------------------
(***************************************************************************)
(* Properties.                                                             *)
(***************************************************************************)

\* Whatever the developer typed, every stored client can run the code flow:
\* it has the grant and the response type, an absolute redirect URI and a
\* scope, and nothing the server does not support (build_client_metadata).
CodeFlowPossible ==
    \A c \in Clients : client[c].status # "none" =>
        LET f == client[c].form IN
        /\ "authorization_code" \in f.grant_types /\ f.response_types = {"code"}
        /\ f.redirect_uris = {"absolute"} /\ f.client_uri # "relative"
        /\ f.scope \cap {"openid", "profile", "email"} # {}
        /\ "other" \notin f.grant_types \cup f.scope

\* However the saves of several pages cross, a stored secret changes only to
\* one that was never drawn before and whose dialog comes after this commit,
\* or to none: no save puts an older secret back. And no dialog is to show a
\* secret that its commit has not stored (rotate_client_secret, save of the
\* edit dialog).
SecretChangesShown ==
    [][/\ \A c \in Clients : client'[c].secret # client[c].secret =>
             \/ client'[c].secret = NoSecret
             \/ dialog[client'[c].secret] = "new" /\ dialog'[client'[c].secret] = "due"
       /\ \A s \in Secrets : dialog[s] # "due" /\ dialog'[s] = "due" =>
             \E c \in Clients : client'[c].secret = s]_vars

\* As long as every save starts from what is stored, exactly the public
\* clients are without a secret.
SecretFitsMethod ==
    \A c \in Clients \ overwritten :
        Live(c) => (Public(client[c]) <=> client[c].secret = NoSecret)

\* Once a client is disabled or deleted, tokens go only to requests that had
\* authenticated before that: none starts after it (query_client).
DisabledStopsNew ==
    \A r \in Requests : request[r] # NoClient /\ r \notin late =>
        LET row == client[request[r]] IN row.status = "live" /\ ~row.disabled

=============================================================================
