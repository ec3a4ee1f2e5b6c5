---------------------------- MODULE TokenGrants ----------------------------
(***************************************************************************)
(* Authorization codes and tokens: POST /oauth/authorize, the two grants   *)
(* of POST /oauth/token, and POST /oauth/revoke (auth/oauth2.py and the    *)
(* routes of routes/oauth2.py that call Authlib).                          *)
(*                                                                         *)
(* Each request runs on a worker thread and commits several times: a code  *)
(* exchange stores the token, then deletes the code; a refresh stores the  *)
(* new token, then revokes the old one. Nothing it has read is locked or   *)
(* read again, so other requests, or a crash, come between any two steps.  *)
(* Access and refresh token of a row are one token here. Checks that fail  *)
(* without a trace (PKCE, redirect URI, scope, nonce, client secret) and   *)
(* the ID token, whose signing SigningKeys models, are left out.           *)
(***************************************************************************)
EXTENDS Naturals, FiniteSets

CONSTANTS
    Clients,
    Codes,      \* authorization codes that can be drawn
    Tokens,     \* rows of oauth2_token that can be inserted
    Requests,   \* requests the server can be working on at a time
    NoClient, NoCredential

Credentials == Codes \cup Tokens

ASSUME CredentialsAssumption ==
    Codes \cap Tokens = {} /\ NoCredential \notin Credentials

ASSUME NullAssumption == NoClient \notin Clients

\* The thread pool is finite.
ASSUME RequestsAssumption == IsFiniteSet(Requests)

VARIABLES
    code,      \* rows of oauth2_code
    token,     \* rows of oauth2_token
    expired,   \* credentials past their time
    disabled,  \* clients with client_disabled_at
    sent,      \* codes and tokens a response has carried to a client
    job,       \* the requests under way
    contested  \* history: credentials presented, or revoked, while another
               \* request was between its check of them and its spending

vars == <<code, token, expired, disabled, sent, job, contested>>

Code == [row : {"none", "stored", "deleted"}, client : Clients \cup {NoClient}]

\* from is history: the credential a token was issued for, and code the one
\* at the root of its line (which the user, copied from row to row, stands
\* for in the code).
Token == [stored : BOOLEAN, client : Clients \cup {NoClient},
          from : Credentials \cup {NoCredential},
          code : Codes \cup {NoCredential},
          accessRevoked : BOOLEAN, refreshRevoked : BOOLEAN]

(***************************************************************************)
(* A request's next step:                                                  *)
(*   saveCode   insert the code                                            *)
(*   saveToken  insert the token                                           *)
(*   spend      delete the code, or revoke the old token                   *)
(*   send       answer the client                                          *)
(***************************************************************************)
Job == [pc : {"idle", "saveCode", "saveToken", "spend", "send"},
        client : Clients \cup {NoClient},
        from : Credentials \cup {NoCredential},  \* the credential presented
        new : Credentials \cup {NoCredential}]   \* what the answer carries

NoJob == [pc |-> "idle", client |-> NoClient,
          from |-> NoCredential, new |-> NoCredential]

TypeOK ==
    /\ code \in [Codes -> Code]
    /\ token \in [Tokens -> Token]
    /\ expired \subseteq Credentials
    /\ disabled \subseteq Clients
    /\ sent \subseteq Credentials
    /\ job \in [Requests -> Job]
    /\ contested \subseteq Credentials

----------------------------------------------------------------------------
\* The client_id column.
OwnerOf(x) == IF x \in Codes THEN code[x].client ELSE token[x].client

\* The code, or the first code, that a credential descends from.
RootOf(x) == IF x \in Codes THEN x ELSE token[x].code

\* query_authorization_code, authenticate_refresh_token.
Usable(x) ==
    /\ x \notin expired
    /\ IF x \in Codes THEN code[x].row = "stored"
       ELSE token[x].stored /\ ~token[x].refreshRevoked

\* Between the check of a credential and its spending.
Using(r) == job[r].pc \in {"saveToken", "spend"}

InUse == {job[r].from : r \in {q \in Requests : Using(q)}}

Start(r, j) == job[r].pc = "idle" /\ job' = [job EXCEPT ![r] = j]

Goto(r, pc) == job' = [job EXCEPT ![r].pc = pc]

Finish(r) == job' = [job EXCEPT ![r] = NoJob]

----------------------------------------------------------------------------
Init ==
    /\ code = [c \in Codes |->
         [row |-> "none", client |-> NoClient]]
    /\ token = [t \in Tokens |->
         [stored |-> FALSE, client |-> NoClient, from |-> NoCredential,
          code |-> NoCredential,
          accessRevoked |-> FALSE, refreshRevoked |-> FALSE]]
    /\ expired = {}
    /\ disabled = {}
    /\ sent = {}
    /\ job = [r \in Requests |-> NoJob]
    /\ contested = {}

\* validate_consent_request of an approved consent form.
Authorize(r, cl) ==
    /\ cl \notin disabled
    /\ Start(r, [NoJob EXCEPT !.pc = "saveCode", !.client = cl])
    /\ UNCHANGED <<code, token, expired, disabled, sent, contested>>

\* save_authorization_code.
SaveCode(r) ==
    /\ job[r].pc = "saveCode"
    /\ \E c \in Codes :
         /\ code[c].row = "none"
         /\ code' = [code EXCEPT ![c] =
              [row |-> "stored", client |-> job[r].client]]
         /\ job' = [job EXCEPT ![r] =
              [NoJob EXCEPT !.pc = "send", !.client = job[r].client, !.new = c]]
    /\ UNCHANGED <<token, expired, disabled, sent, contested>>

\* Mutant: a credential is taken from any client.
MUT_Present(r, cl, x) ==
    /\ x \in sent
    /\ cl \notin disabled
    /\ Usable(x)
    /\ Start(r, [NoJob EXCEPT !.pc = "saveToken", !.client = cl, !.from = x])
    /\ contested' = contested \cup ({x} \cap InUse)
    /\ UNCHANGED <<code, token, expired, disabled, sent>>

(***************************************************************************)
(* A token request, up to the last check: the client is authenticated      *)
(* (query_client hides disabled ones), and the credential, which any       *)
(* client may try, is the client's own and usable.                         *)
(***************************************************************************)
Present(r, cl, x) ==
    /\ x \in sent
    /\ cl \notin disabled
    /\ OwnerOf(x) = cl
    /\ Usable(x)
    /\ Start(r, [NoJob EXCEPT !.pc = "saveToken", !.client = cl, !.from = x])
    /\ contested' = contested \cup ({x} \cap InUse)
    /\ UNCHANGED <<code, token, expired, disabled, sent>>

\* save_token.
SaveToken(r) ==
    /\ job[r].pc = "saveToken"
    /\ \E t \in Tokens :
         /\ ~token[t].stored
         /\ token' = [token EXCEPT ![t] =
              [stored |-> TRUE, client |-> job[r].client, from |-> job[r].from,
               code |-> RootOf(job[r].from),
               accessRevoked |-> FALSE, refreshRevoked |-> FALSE]]
         /\ job' = [job EXCEPT ![r] = [job[r] EXCEPT !.pc = "spend", !.new = t]]
    /\ UNCHANGED <<code, expired, disabled, sent, contested>>

\* Mutant: an exchanged code is left in place.
MUT_SpendCode(r) ==
    /\ job[r].pc = "spend" /\ job[r].from \in Codes
    /\ Goto(r, "send")
    /\ UNCHANGED <<code, token, expired, disabled, sent, contested>>

\* delete_authorization_code. That another request has deleted the row is
\* no error, or one that ends the request (Abort).
SpendCode(r) ==
    /\ job[r].pc = "spend" /\ job[r].from \in Codes
    /\ code' = [code EXCEPT ![job[r].from].row = "deleted"]
    /\ Goto(r, "send")
    /\ UNCHANGED <<token, expired, disabled, sent, contested>>

\* Mutant: the whole row is written, as it was when it was read.
MUT_SpendToken(r) ==
    /\ job[r].pc = "spend" /\ job[r].from \in Tokens
    /\ token' = [token EXCEPT ![job[r].from].refreshRevoked = TRUE,
                              ![job[r].from].accessRevoked = FALSE]
    /\ Goto(r, "send")
    /\ UNCHANGED <<code, expired, disabled, sent, contested>>

\* revoke_old_credential writes the one column it changes.
SpendToken(r) ==
    /\ job[r].pc = "spend" /\ job[r].from \in Tokens
    /\ token' = [token EXCEPT ![job[r].from].refreshRevoked = TRUE]
    /\ Goto(r, "send")
    /\ UNCHANGED <<code, expired, disabled, sent, contested>>

\* Mutant: the answer carries the credential that was presented.
MUT_Send(r) ==
    /\ job[r].pc = "send"
    /\ sent' = sent \cup {job[r].from}
    /\ Finish(r)
    /\ UNCHANGED <<code, token, expired, disabled, contested>>

\* The answer reaches the client.
Send(r) ==
    /\ job[r].pc = "send"
    /\ sent' = sent \cup {job[r].new}
    /\ Finish(r)
    /\ UNCHANGED <<code, token, expired, disabled, contested>>

\* Authlib's revocation endpoint: the hint "access_token" spares the refresh
\* token.
Revoke(cl, t, hint) ==
    /\ t \in sent
    /\ cl \notin disabled
    /\ token[t].client = cl
    /\ token' = [token EXCEPT ![t].accessRevoked = TRUE,
         ![t].refreshRevoked = token[t].refreshRevoked \/ hint # "access_token"]
    /\ contested' = IF hint = "access_token" THEN contested
                    ELSE contested \cup ({t} \cap InUse)
    /\ UNCHANGED <<code, expired, disabled, sent, job>>

\* An error or a crash: what has been committed stays, nothing is sent.
Abort(r) ==
    /\ job[r].pc # "idle"
    /\ Finish(r)
    /\ UNCHANGED <<code, token, expired, disabled, sent, contested>>

\* Time passes for a code or a refresh token.
Expire(x) ==
    /\ x \in sent
    /\ expired' = expired \cup {x}
    /\ UNCHANGED <<code, token, disabled, sent, job, contested>>

\* set_client_disabled.
Toggle(cl) ==
    /\ disabled' = IF cl \in disabled THEN disabled \ {cl}
                                      ELSE disabled \cup {cl}
    /\ UNCHANGED <<code, token, expired, sent, job, contested>>

Request(r) ==
    \/ \E cl \in Clients : Authorize(r, cl)
    \/ \E cl \in Clients, x \in Credentials : Present(r, cl, x)
    \/ SaveCode(r) \/ SaveToken(r) \/ SpendCode(r) \/ SpendToken(r)
    \/ Send(r) \/ Abort(r)

Next ==
    \/ \E r \in Requests : Request(r)
    \/ \E cl \in Clients, t \in Tokens, hint \in {"access_token", "other"} :
         Revoke(cl, t, hint)
    \/ \E x \in Credentials : Expire(x)
    \/ \E cl \in Clients : Toggle(cl)

Spec == Init /\ [][Next]_vars

----------------------------------------------------------------------------
(***************************************************************************)
(* Properties.                                                             *)
(***************************************************************************)

Spent(x) == IF x \in Codes THEN code[x].row = "deleted"
                           ELSE token[x].refreshRevoked

\* A token belongs to the client its code was issued to, whoever presents
\* what, and however often it was refreshed (check_client, and the client_id
\* that save_token copies from the request).
OwnClient ==
    \A t \in Tokens : token[t].stored =>
        token[t].client = code[token[t].code].client

\* What has been revoked stays so, even if a refresh that read the token
\* before commits afterwards.
RevokedStays ==
    [][\A t \in Tokens :
         /\ token[t].accessRevoked => token'[t].accessRevoked
         /\ token[t].refreshRevoked => token'[t].refreshRevoked]_vars

\* A code, and a refresh token, yields one token a client ever sees,
\* retries after crashes included, unless it was contested: two requests
\* that have both found it usable both store and send a token.
OneSuccessor ==
    \A t, u \in sent \cap Tokens :
        token[t].from = token[u].from => t = u \/ token[t].from \in contested

\* However requests crowd on a credential and are retried, it yields no more
\* tokens than the server can work on requests at a time: the first of them
\* to get through closes the door behind those that are inside.
ForksBounded ==
    \A x \in Credentials :
        Cardinality({t \in sent \cap Tokens : token[t].from = x})
          =< Cardinality(Requests)

\* Tokens that are sent, or would be if their request does not end early.
Delivered(t) ==
    t \in sent \/ \E r \in Requests : job[r].pc = "send" /\ job[r].new = t

\* The credentials with which a client can go on, or could if the answer
\* that is on its way arrives.
Heads(f) ==
    {c \in {f} : code[c].row = "stored"} \cup
    {t \in Tokens : /\ token[t].stored /\ token[t].code = f
                    /\ ~token[t].refreshRevoked /\ Delivered(t)}

\* The lines with a contested credential.
Forked == {RootOf(x) : x \in contested}

\* A code is gone before its token is sent, and a refresh token is revoked
\* before its replacement is sent, wherever requests crash.
OneHead == \A f \in Codes \ Forked : \A x, y \in Heads(f) : x = y

\* The refinement mapping: the head of each line, and what is spent of it.
Current ==
    [f \in Codes |-> IF f \in Forked \/ Heads(f) = {} THEN NoCredential
                     ELSE CHOOSE x \in Heads(f) : TRUE]

UsedUp == [f \in Codes |-> {x \in Credentials : Spent(x) /\ RootOf(x) = f}]

\* A code and the tokens that descend from it form a line, up to the first
\* time that one of them is contested; no line ever runs into another.
Line == INSTANCE TokenLine WITH current <- Current, used <- UsedUp, forked <- Forked

LineOfCredentials == Line!Spec

(***************************************************************************)
(* The inductive invariants. Whatever overlaps, a request works for the    *)
(* owner of its credential, and codes and tokens exist before they are     *)
(* sent.                                                                   *)
(***************************************************************************)
Exists(x) == IF x \in Codes THEN code[x].row # "none" ELSE token[x].stored

OwnInv ==
    /\ OwnClient
    /\ \A t \in Tokens : token[t].stored =>
         /\ token[t].from \in Credentials
         /\ token[t].code \in Codes /\ code[token[t].code].row # "none"
    /\ \A t \in Tokens :
         token[t].accessRevoked \/ token[t].refreshRevoked => token[t].stored
    /\ \A x \in sent : Exists(x)
    /\ \A r \in Requests :
         /\ job[r].pc \in {"saveToken", "spend"} =>
              job[r].from \in sent /\ job[r].client = OwnerOf(job[r].from)
         /\ job[r].pc = "spend" => job[r].new \in Tokens
         /\ IF job[r].pc \in {"spend", "send"}
              THEN job[r].new \in Credentials /\ Exists(job[r].new)
              ELSE job[r].new = NoCredential

(***************************************************************************)
(* A request has its credential to itself unless it is contested, and the  *)
(* token it has stored is unknown to everybody until the credential is     *)
(* spent.                                                                  *)
(***************************************************************************)
SecretsKept ==
    \A r \in Requests : job[r].pc = "spend" =>
        LET t == job[r].new IN
        /\ t \notin sent /\ ~token[t].refreshRevoked
        /\ token[t].from = job[r].from
        /\ token[t].code = RootOf(job[r].from)

Unspent ==
    \A r \in Requests :
        Using(r) => ~Spent(job[r].from) \/ job[r].from \in contested

UsersAlone ==
    \A q, r \in Requests :
        Using(q) /\ Using(r) /\ job[q].from = job[r].from
        => q = r \/ job[r].from \in contested

AnswersDiffer ==
    \A q, r \in Requests :
        job[q].new = job[r].new /\ job[r].new # NoCredential => q = r

DeliveredSpent == \A t \in Tokens : Delivered(t) => Spent(token[t].from)

DeliveredOnce ==
    \A t, u \in Tokens :
        Delivered(t) /\ Delivered(u) /\ token[t].from = token[u].from
        => t = u \/ token[t].from \in contested

LineInv ==
    /\ SecretsKept /\ Unspent /\ UsersAlone /\ AnswersDiffer
    /\ DeliveredSpent /\ DeliveredOnce /\ OneHead
    /\ contested \subseteq sent

\* Once a credential is spent nobody takes it up any more: each request at
\* work on it may yield one token yet.
DeliveredFor(x) == {t \in Tokens : Delivered(t) /\ token[t].from = x}

UsersOf(x) == {r \in Requests : Using(r) /\ job[r].from = x}

ForkInv ==
    \A x \in Credentials : Spent(x) =>
        /\ IsFiniteSet(DeliveredFor(x))
        /\ Cardinality(DeliveredFor(x)) + Cardinality(UsersOf(x))
             =< Cardinality(Requests)
=============================================================================
