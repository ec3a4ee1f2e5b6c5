# SatOIDC: formal models

SatOIDC is an OpenID Connect provider built on FastAPI, NiceGUI, Authlib and
SQLAlchemy, with Lightning-wallet login (LNURL-auth). This directory holds TLA+
models of its stateful parts, TLC configurations that check them on small
instances, and TLAPS proofs of the most important results.

## The system

Every part keeps its state in one SQL database (SQLite or PostgreSQL), shared
by all threads and replicas. Two ways lead to it:

* asynchronous handlers (pages, LNURL callback) use one `AsyncSession` per
  request or page (`models/database.py:12-14`); what is not committed when the
  session closes is rolled back;
* Authlib and the key functions run on worker threads with a thread-local
  session (`models/database.py:17-34`); each function commits for itself.

No SELECT takes a lock. Whatever is checked before it is written can have
changed in between, and this is what most of the properties are about.

## Inventory

| Component (under `satoidc/satoidc/`) | State | Operations | What makes it correct |
|---|---|---|---|
| OIDC signing keys: `auth/oidc_keys.py`, key routes of `routes/oauth2.py` | rows of `oidc_signing_keys` (status, retired_after), audit rows | bootstrap, create, activate, rotate, retire, sign, publish the JWKS | the key of a valid token is published, in cached JWKS documents too; keys follow the documented life cycle; every change is audited |
| OAuth grants: `auth/oauth2.py`, `routes/oauth2.py` | `oauth2_code`, `oauth2_token` | authorize, exchange, refresh, revoke, introspect, UserInfo | a code, and a refresh token, yields one token, also after crashes, and a bounded number when uses overlap; what is revoked stays revoked; tokens stay with the client of their code |
| LNURL-auth: `routes/lnurl_auth.py`, QR dialogs of `routes/login.py`, `register.py`, `profile.py` | `lnurl_auth_challenges`, `users.lnurl_pubkey`, the k1 a page shows, `lnurl_auth_temp_storage` | create challenge, callback (login, register, link), unlink, event to the page, redirect | a challenge is used once; a wallet belongs to one account; a browser is signed in only as the account whose wallet answered its challenge |
| Permission requests: `auth/permissions.py`, handlers in `routes/dashboard.py`, `profile.py` | `permission_requests`, `permissions` | create, approve, deny, cancel | one pending request per user; one decision; only an approval grants |
| Client registrations: `auth/client_management.py`, `routes/create_client.py`, `dashboard.py` | `oauth2_client` (one JSON metadata document per client, and its secret), the copies that dashboard pages loaded | create, edit, disable, enable, rotate secret, delete | every stored client can run the code flow; a secret changes only to a new one, which is shown after its commit or never; a disabled or deleted client starts nothing new |
| Web sessions: `routes/login.py`, `register.py`, `authorize.py`, `routes/oauth2.py` | session cookie (user_id, login_nonce, csrf_token), open pages, events, the temporary storage | login, registration, wallet login, consent, logout | a browser is signed in only as its user; what was begun before a logout does not undo it; a form is accepted once; a wallet login completes |
| Page and API authorization: `auth/security.py`, `auth/middleware.py`, `routes/home.py`, `profile.py` | none | active permissions, required permissions, links, metrics | the places that decide on a permission apart from one another agree; links lead where their user may go |
| Accounts and setup wizard: `../setup_wizard/`, `entrypoint.sh`, `routes/register.py`, `profile.py` | `users`, the root permission, the process that the container runs | wizard by form and by wallet, registration, e-mail and password dialogs | the application never runs without a root account; a typed name means one account |
| Adapter for Authlib: `fastapi_oauth2/` | none | merge query and body, map responses | body wins over query |
| Settings, validators, redirects, schemas | none | input checks | local redirects only |
| User interface, migrations, examples | none of their own | | |

The hard behaviours: interleavings of check-then-write transactions; crashes
between the commits of one request (sign and audit, save a token and delete its
code, save a token and revoke its predecessor, make an account and its root
permission); time (token lifetimes,
retention, challenge TTL) against requests that are under way; page objects and
cookies that are older than the rows they came from; answers that arrive out of order; and
events that nobody repeats.

## Modules

| Component module | Abstract specification | Instances | Proofs |
|---|---|---|---|
| `SigningKeys` | - (action property) | `MCSigningKeys` | `SigningKeysProofs` |
| `LnurlAuth` | `OneTimeChallenge` | `MCLnurlAuth` | `LnurlAuthProofs` |
| `PermissionRequests` | `PermissionDecision` | `MCPermissionRequests` | `PermissionRequestsProofs` |
| `TokenGrants` | `TokenLine` | `MCTokenGrants` | `TokenGrantsProofs` |
| `ClientConsole` | - (action properties) | `MCClientConsole` | `ClientConsoleProofs` |
| `WebSession` | - | `MCWebSession` | `WebSessionProofs` |
| `Accounts` | - | `MCAccounts` | `AccountsProofs` |
| `PageAccess` (operators), `GrantedAccess` (its operators over the permissions of `PermissionRequests`) | - | `MCPermissionRequests` | `GrantedAccessProofs` |

`LnurlAuth` and `WebSession` meet at the event: `Emit` of the one is what the
handlers of the other react to (there, `Sign` is the callback's commit).
`PageAccess` reads the permissions that `PermissionRequests` grants, and
`ClientConsole` writes the mark that `TokenGrants` sees in `disabled`.

The components share conventions:

* A worker, callback, page session or request is a process with a program
  counter and the values it has read (`job`, `call`). One action is the code
  from one database round trip to the next: a SELECT with the checks that
  follow it, or a flush with its commit. Every other process can run in between.
* A commit writes only the columns whose value differs from the one that was
  read, as SQLAlchemy does. `activate_signing_key` and `lnurl_auth_callback`
  depend on it.
* An error return, a closed page and a crash all have the same effect, a
  rollback of what is not committed (`Abort`).
* The code serializes nothing, and neither do the models: every overlap that
  two threads, pages or requests can have is in them. Where a property does not
  survive one, a history variable records which keys, requests or credentials
  were caught in it, and the property speaks of all the others (`clashed`,
  `contested`, `overwritten`, `disturbed`, `left`). Such an exception covers one
  race at one item. It is named in the comment of the property and in
  the findings below, since it is also what the code does not guard.
* Definitions named `MUT_...` are altered copies of a definition. The run of a
  property must fail when the original is replaced by its altered copy, which
  shows that the property depends on that piece of code. Nothing uses them
  otherwise.
* Variables whose comment says "history" record what happened. No guard looks
  at them, except that a random value that is drawn is one not seen before.

Liveness is claimed where something in the code goes on by itself, in two
modules. In `WebSession`, a callback that has committed goes on to `Emit`, a
browser that was told to follow the redirect does (`Follow`), a request that
was received is handled and its answer delivered: weak fairness of these four.
In `Accounts`, the container that died is started again (`restart` in
`compose.yaml`, `Start`) and the `ui.timer` of a page fires (`Shutdown`). No
fairness is assumed of users, wallets, crashes, or of a page's timer once the
page is closed, and the other modules have no fairness: there no handler
retries and nothing is scheduled, so an operation is finished by the request
that started it or by nobody. Deadlock checking is on in every run: some
operation can always start or abort.

To repeat a run: `tlc -config <Component>_<run>.cfg MC<Component>`; to check
the proofs of a component: `tlapm <Component>Proofs.tla`. The proofs hold for
every value of the constants that satisfies the named assumptions of the
module; no theorem has further ones. They cover safety only: liveness,
`ENABLED` and induction over recursive data are outside what the provers do
here, so `SignInCompletes` and `WizardEnds` are model-checked only.

## SigningKeys

**State.** `status` and `retiredAfter` are columns of `oidc_signing_keys`
(`models/__init__.py`), `audit` the audit rows, `job` the worker threads with
what they have read, `tokens` the ID tokens that clients hold, `cache` the JWKS
document a relying party holds, `clock` the shared time. `clashed` is history:
keys that one worker was activating while another was retiring them.

**Actions.** `EnsureRead` and `Bootstrap` are `ensure_active_signing_key`;
`Create`, `ActivateReadKey`, `ActivateReadActives` and `ActivateCommit` are
`create_signing_key` and `activate_signing_key`, which `rotate_signing_key`
chains; `RetireRead`/`RetireCommit` are `retire_expired_signing_keys`; `Sign`
and `Deliver` the ID-token signature and its audit row; `Publish` the JWKS
route; `Tick` time. The map in `PROJECT.json` gives the lines.

**What matters.** A key may leave the JWKS only when no valid token is signed
with it, in spite of workers that read the active key, stall, and sign later.

| Run | Checks | Shows |
|---|---|---|
| `signing_workers` | `TypeOK LiveTokenKeyPublished CachedJwksVerifies AuditTrail LifeCycle` | from an empty database, with two bootstraps, two activations, or an activation and a retirement at a time: valid tokens stay verifiable, also with a cached JWKS, keys follow their life cycle, and the audit table is complete |
| `signing_two_admins` | `AtMostOneActive` (violated) | two activations at a time demote the same key and leave two active ones |

A clash is the one overlap that costs a key: `retire_expired_signing_keys`
selects a key that is past its retention, an activation puts it to use again,
and the retirement's commit, which does not look again, retires it (or the
activation, which read it before, revives it). A key in `clashed` is exempted by
`LiveTokenKeyPublished`, `CachedJwksVerifies` and `LifeCycle`; `AuditTrail`
exempts nothing.

**Bounds.** Two workers are all that any of the races needs (each involves one
pair of operations). Two keys are two bootstrapped ones, or the one in use and
the one that takes its place; the violated run has a third, since two are
activated while one is in use. `TokenTTL = CacheTTL = Margin = 1` make
the retention 3, so `MaxClock = 4` passes it. `MaxDelay = 1` is the largest
value `DelayAssumption` admits for them: a worker stalls no longer than half of
`CacheTTL + Margin`, which is 10 minutes with the defaults; without a limit the
code gives no guarantee, since nothing revalidates a key before signing.

**Proofs.** `RetentionInv` is inductive, whatever overlaps: a worker about to
sign with `k` read it recently and `k` is active, or not due before the token it
will produce expires, or clashed (`Covered`); the same for delivered tokens, for
the rows a retirement selected, for the keys an activation is about to demote
and for cached documents. `LiveTokenKeyPublished` alone is not inductive,
because it says nothing of tokens about to be signed. From it follow
`KeyPublished`, `CacheVerifies` and `LifeCycleCorrect`, with `DelayAssumption`
as the only assumption that is not about types. `LifeCycleCorrect` needs that
an activation and a retirement under way share clashed keys only.

`AuditComplete` rests on an invariant of its own. `AuditTrail` alone is not
inductive: a commit that demotes or retires what it selected could reach a key
that was never created, had `KnownKeys` not excluded it.

## LnurlAuth

**State.** `challenge` is `lnurl_auth_challenges`; `expired` stands for the
comparison of `created_at` with `LNURL_K1_TTL_SECONDS`; `users`, `password`
and `wallet` are the columns of `users` that let somebody sign in; `call` the
callbacks under way; `events` what `lnurl_auth_events` has emitted. `signer`
and `linked` are history.

**Actions.** `CreateChallenge` is `refresh_qrcode` of the three QR dialogs;
`Consume` the conditional `UPDATE ... RETURNING` of `lnurl_auth_callback`,
which waits for a transaction that holds the row; `Reject`, `Resolve`,
`Account` the checks and SELECTs after it; `LoginCommit`, `RegisterCommit`,
`LinkCommit` the commits; `Emit` the event; `Abort` a unique violation, a lost
connection or a crash; `SetPassword`, `Unlink`, `Expire` the world around.
Signatures are abstracted to the Boolean "is this the key's signature of this
k1".

| Run | Checks | Shows |
|---|---|---|
| `lnurl_callbacks` | `TypeOK WalletUnique NoLockout SignInOwner EventConsumes OneTimeUse` | two callbacks at a time, statement by statement: `OneTimeUse` is the refinement of `OneTimeChallenge` |
| `lnurl_bad_signature` | `AttemptConsumes` (violated) | a refused callback rolls back the UPDATE, so the attempt has not consumed the challenge |

**Bounds.** Two callbacks overlap on three challenges (one contested, or two
with one to spare), two wallets contend for two accounts. Every action can
happen several times, and no clause of an invariant names more than two
callbacks, challenges, wallets or accounts.

**Proofs.** `LnurlInv` is inductive with `TypeOK`. The heart is `CallsAlone`
(no two transactions hold one challenge) with `CallsSound` (the challenge a
transaction holds is open, and the account it found has held the wallet):
without them a commit could consume a challenge again. `ChallengesWellFormed`
ties a used challenge to the wallet that signed, `WalletsLinked` keeps wallets
to existing accounts, which `WalletFree` quantifies over. All invariants of
the run and the refinement (`OneTimeImplemented`) are proved without any
assumption on overlaps.

## PermissionRequests

**State.** `request` and `permission` are the two tables, for the only type
pages use (DEVELOPER); `job` the operation of each page session. `contested` is
history: requests that a session began to decide while another was deciding
them.

**Actions.** `Create`, `CreateReadPending`, `CreateCommit` are
`create_permission_request`; `StartDecision` the status check of approve, deny
and cancel, which leave a decided request as it is; `ApproveReadPermission`, `ApproveCommit`, `TurnDownCommit` the rest;
`Deactivate` stands for a permission that expires or is disabled.

| Run | Checks | Shows |
|---|---|---|
| `permission_decisions` | `TypeOK OnePending LinksOpenPages CountsAgree DecidedOnce` | submissions and decisions overlap in every way: the operations implement `PermissionDecision`, in which a request is decided once and for good unless two were deciding it at once (`Dispute`), and only an approval grants; and what permissions open is consistent |
| `permission_two_decisions` | `GrantsApproved` (violated) | approve and deny at once: denied, yet granted |

**Bounds.** Two sessions, two users, three requests: one user can have a
decided request and a pending one, or two approved ones (the permission row is
then found active or inactive), while the other user has one.

**Proofs.** `Granting` (in the proofs module) is inductive: it adds to
`OnePending` and `ApprovedGranted` that requests keep their requester and that a
permission found by an approval still exists at its commit. `DecisionInv` is
inductive on top of it: the request a session is deciding is still pending and
no other session's, or it is contested. The commits then map to steps of
`PermissionDecision`, and a second session that finds the request pending maps
to `Dispute` (`DecisionImplemented`).

### PageAccess

What a permission opens is decided in places that are written apart: four
queries for active permissions (for pages and key endpoints, for a request, for
home, for the profile), `page_security`, `_require_key_admin`,
`has_developer_access`, the tests in `home.py` and `profile.py`, and the counts
of the dashboard's metrics. `PageAccess` has one operator for each, over a
user's rows, whose expiry is NULL, past, now or future (a comparison with NULL
selects nothing). `GrantedAccess` joins them to the permissions that
requests grant: `LinksOpenPages` and `CountsAgree` hold for every combination
of the other permissions a user may have. `LinksFit` and `CountsFit` say what
is compared.

**Proofs.** `LinksAgree` and `CountsMatch` prove the two for every combination
of rows: `QueriesAgree` shows that the four queries select the same permissions,
and the gates and the links all amount to one of two conditions on them, which
the lemmas on pages establish one place at a time. `GrantedLinks` and `GrantedCounts` carry
them over to the states of `PermissionRequests`, by its type invariant.

## TokenGrants

**State.** `code` and `token` are `oauth2_code` and `oauth2_token`; `expired`
the credentials past their time; `disabled` the clients with
`client_disabled_at`; `sent` the codes and tokens that reached a client; `job`
the requests under way. `from` and `code` of a token row are history, the
credential it was issued for and the code at the root of its line; so is
`contested`, the credentials that were presented or revoked while another
request was between its check of them and their spending (`InUse`).

**Actions.** `Authorize` and `SaveCode` are the consent's approval;
`Present` (authenticate the client, look up the code or refresh token and
check it), `SaveToken`, `SpendCode` or `SpendToken` and `Send` the two grants
of `/oauth/token`, whose commits Authlib makes in this order; `Revoke` the
revocation endpoint with its `token_type_hint`; `Abort` a crash between two
commits; `Expire`, `Toggle` time and the console. A credential is presented
only after it was sent, by any client: clients may lose codes and tokens to
one another.

| Run | Checks | Shows |
|---|---|---|
| `tokens_uses` | `TypeOK OwnClient OneSuccessor ForksBounded RevokedStays LineOfCredentials` | requests overlap in every way, crash between any two commits and are retried, among revocations, expiry and disabling: a code and its tokens implement `TokenLine`, in which a line forks only where two requests are at its end at once |

`TokenLine` keeps a promise about forked lines too: what is spent stays spent,
and their credentials stay out of the other lines (`Stray`). How far a line
forks is the question of `ForksBounded`: one credential yields as many tokens as
there are requests inside, for the first to spend it shuts out all later ones.

**Bounds.** Two clients, two codes and three tokens, so that one client can get
hold of the other's credentials and a line has a retry after a crash and a
successor of a successor, or a fork. Two requests overlap. `Bounds` keeps out
states with more than four credentials, or with two of the outages (an expired
credential, a disabled client) at once, since outages only withhold what a
request would do.

**Proofs.** `OwnInv` is inductive with the types (`Owned`) and gives
`OwnershipCorrect`; `RevocationFinal` follows from the types.
`LineInv` is inductive on top of it. `OneSuccessor` is not
inductive: one needs that a token which is stored while its code still lives
(the gap in which a crash may happen) is known to nobody (`SecretsKept`), that
nobody else works on the same credential, and nobody has spent it, or it is
contested (`UsersAlone`, `Unspent`), and that what is on its way to a client
came from something spent (`DeliveredSpent`, `DeliveredOnce`).

`ForksAreBounded` rests on `ForkInv`: for a spent credential the tokens
delivered for it and the requests still at work on it are together no more than
`Requests`. A request at work that delivers moves from the one count to the
other, and none joins.

The refinement `LineImplemented` maps the credential a client can
go on with (`Current`, unique by `OneHead`) and the spent ones (`UsedUp`).
`SaveCode` is `Open`; the commit that spends the old credential is `Renew`,
for from then on the new one, on its way, takes its place; `Revoke` of the
current one is `Revoke`; an `Abort` between that commit and the answer is
`Lose`. A `Present` or a `Revoke` of a credential that is in use is `Fork`, and
what is spent or revoked in a forked line is `Stray`. All other steps leave the
lines alone: the token that is stored but neither sent nor on its way, next to a
code that still lives, is not a head.

## ClientConsole

**State.** `client` is `oauth2_client`, with what the form, the disabled mark
and the secret matter for; `page` the dashboard pages with the copies they
loaded; `request` the client each token request has authenticated; `dialog` how
far the dialog of each secret is: not drawn, due after a commit, shown, or lost
with its page. `late` and `overwritten` are history.

**Actions.** `Create`, `Save`, `Rotate`, `Toggle`, `Delete` are the handlers of
the create page and of the dashboard's dialogs; `Open` and `Close` the pages;
`Dialog` what follows a commit, the secret on the screen or a crash that leaves
it unseen; `Authenticate` and `Answer` the two ends of a token request. A handler changes
the page's copy, and `Written` says what its UPDATE does to the row: the
metadata is always written, the secret if the copy's has changed. `Accepted` is
`build_client_metadata`.

| Run | Checks | Shows |
|---|---|---|
| `clients_pages` | `TypeOK CodeFlowPossible SecretFitsMethod DisabledStopsNew SecretChangesShown` | two pages with copies of their own and two token requests, in every order, with crashes between a commit and its dialog |

`SecretFitsMethod` speaks of clients whose saves started from what was stored.
A save from a copy out of date can leave a public client with a secret, and it
enables a disabled client, of which no property here says anything (see the
findings). The other properties hold for such saves too.

**Bounds.** One client: rows do not influence one another. Two pages are what a
stale copy takes; four secrets allow a creation and three rotations or changes
of method. Of the forms, two are acceptable (public and not), and each of the
others fails one check alone.

**Proofs.** All five properties, for any forms. `EditCommits` reduces the three
operations on a copy to one commit and says what it commits (`Edited`);
`Committed` says what the commit leaves. `CodeFlowPossible` needs that every
copy, not only every row, has an accepted form (`FormInv`).

## WebSession

**State.** `cookie` is the session of each browser, kept by the browser alone;
`page` and `request` what each tab shows and has under way, a request with the
copy of the session it carries; `challenge` the QR codes that pages showed;
`storage` is `lnurl_auth_temp_storage`. `vouched`, `out`, `joined`, `used` and
`disturbed` are history.

**Actions.** The browser: `Visit` (of any page, `/auth/lnurl/redirect` included,
told or not), `Submit`, `Follow`, `Deliver`, `Lose`. The handlers, one each: `NoncePage` (`login_page`, `register_page`), `ConsentPage`,
`LoginPost`, `RegisterPost`, `AuthorizePost`, `LnurlRedirect`, `Logout`, and
`View` for those that leave the session alone, the middleware's redirects
included. Challenges: `Refresh` (the timer), `Sign` (the commit of the callback
in `LnurlAuth`), `Emit` (the event handlers). `Restart` is a crash: the storage
is a file and stays, pages, requests and unsent events do not.

| Run | Checks | Shows |
|---|---|---|
| `sessions_tabs` | `TypeOK OwnAccount LogoutSticks ReplayRefused` | two tabs of one browser or of two, with answers lost and reordered, and restarts |
| `sessions_signin` | `SignInCompletes` | under fairness, a wallet that signs the code on show signs its browser in, or one of the named events comes between |

`LogoutSticks` speaks of a browser from a logout with nothing else under way
(`out`) until it is sent a login or register page: none of its open forms, no
event of a wallet and no visit to the redirect page signs it in. There is one
exception, which `joined` records: `register_post` asks for no nonce, so
a register form from before the logout signs the browser in to the account it
creates, and the property says that this is the only account possible.
An answer that was under way at the logout is no part of it, for it restores the
session: the cookie is the only place where a session ends and a nonce is spent.
That is also why `ReplayRefused` leaves out browsers one of whose answers
was lost or overlapped another one (`disturbed`): their form is accepted again.

**Bounds.** Two tabs give every overlap of two requests, in one browser and in
two. Two nonces are one that is replaced and its successor, or one in each
browser. With one account, `OwnAccount` still tells browsers apart, since
accounts are vouched for per browser. `OneTroubled` lets one browser at a time be
disturbed or logged out, for what comes of that shows in that browser. The run
under fairness has one browser, where all that its property names can happen.
Pages of kind `other` are left out of `Targets` in both runs: to the session they
are what a login page is for a user who is signed in, or a redirect page for a
browser without a nonce.

**Proofs.** `OwnInv` is inductive with `TypeOK` and gives `OwnAccount`, for
any number of browsers and tabs. The property alone is not inductive: storage
and events know no browsers. One needs that every nonce is held by one browser
only (`HoldersInv`: in its cookie, pages, requests or challenges), and that
the account stored under it, like those in requests and challenges, is vouched
for in that browser.

`LogoutSticks` follows from `OutInv`: the cookie of a browser that is out, and
the sessions of its requests under way, hold no nonce, and no account but one it
has joined (`Quiet`), so that neither a redirect nor a login form has anything
to start from. `ReplayRefused`
follows from `SpentInv`: in a browser that is not disturbed a request is alone
and carries the session of the cookie, no token of which is spent. The step
needs `HoldersInv` too, since `used` is one set for all browsers, and that the
nonce and the CSRF token of a session differ (`Apart`). `SignInCompletes` is a
liveness property, and model-checked only.

## Accounts

**State.** `phase` is the process that the container runs (the check, the
wizard, the application), `account` the rows of `users` with their root
permission, `page` the pages, with the copy a profile page has loaded, the row
a registration is about to insert, or the account that a wizard's wallet
login is for. `left` is history.

**Actions.** `Start`, `Crash` and `Shutdown` are `entrypoint.sh` and the end of
the wizard; `OpenWizard`, `WizardSubmit`, `WizardSign`, `WizardMiss` and
`WizardGrant` its page, by form and by wallet, where the callback commits the
account and the page's event handler the permission later; a second grant to the
same account raises at the unique constraint, before its timer is set, and leaves
the page dead (`Die`); `RegisterCheck` and
`RegisterInsert` the query and the insert of `register_post`; `EmailCheck`,
`EmailCommit` and `PasswordSave` the dialogs of the profile.

| Run | Checks | Shows |
|---|---|---|
| `accounts_names` | `TypeOK OneAccountPerName MainHasRoot WizardEnds` | from an empty database, with crashes, two wizard pages, and registrations and e-mail changes that cross |
| `accounts_current_password` | `CurrentRequired` (violated) | the password dialog compares with the copy its page loaded |

**Bounds.** Three accounts: the root account and two that contend for a name.
Two pages contend. One of the two addresses can be typed in two ways.

**Proofs.** `RootInv` (a timer runs only after the permission was committed, and
a wizard page waits for an account that exists) gives `MainHasRoot`.
`NamesInv` says of the stored names what `OneAccountPerName` says of typed
ones: it needs that logins and addresses never coincide, and that what a page
is about to insert is in lower case. Assumed are only the shapes of logins and
addresses (`NamesAssumption`). `WizardEnds` is model-checked.

## What is proved, and what is only checked

Every invariant and every action property of the passing runs is a theorem,
and so are the three refinements (`OneTimeUse`, `DecidedOnce`,
`LineOfCredentials`): they hold for any number of processes, rows
and values, however operations overlap, under the assumptions that the
modules name for their constants. The theorems make no use of the bounds of the runs
(`MaxClock` bounds the clock of `SigningKeys` in the runs, and may be any number in the
theorems). Proofs about a component are by induction over its steps: an
invariant that strengthens the properties, one lemma for each action that can
disturb it, and the theorems that follow.

The two liveness properties, `SignInCompletes` and `WizardEnds`, are
model-checked only: their proofs would need the enabledness of the fair
actions, about which the prover does not reason. What the violated runs show
are counterexamples, and not proved.

## Findings

Four runs end in a counterexample, each against a sentence of the
repository's specifications that `PROJECT.json` quotes: `signing_two_admins`,
`lnurl_bad_signature`, `permission_two_decisions` and
`accounts_current_password`. The other disagreements we know are behaviours of
the models that a property exempts, as said, or that no property speaks of:

* Two first requests to a new database both insert an active key, and both stay
  (`ensure_active_signing_key`).
* A retirement acts on the status it read and retires a key that an activation
  has put to use meanwhile, or an activation revives a key that was retired
  meanwhile (`clashed`).
* Two exchanges of one code, or two refreshes with one token, that overlap are
  both answered with a token of their own. A refresh that has passed its check
  stores and sends a new token after a revocation of the old one was answered
  (`contested`; `auth/oauth2.py:143`).
* Two consents with one nonce that overlap both pass `exists_nonce` and are both
  given a code; nonces are not modelled.
* An admin who decides a request that another one has decided already, or
  decides meanwhile, is told that his own decision was made, and so are the open
  pages, whichever decision the row holds
  (`routes/dashboard.py:66-75`, `86-106`), although
  `specs/features/permission-requests/spec.md:238` says that the second admin
  sees a decided result. What the dashboard tells is not modelled.
* A developer whose request is approved between the two SELECTs of a second
  submission is left with another pending request. And the profile offers no
  request button to a user whose latest request is approved or cancelled but
  whose permission is not in force, which `specs/flows/profile.md` does not say.
* An edit from a dashboard page loaded earlier enables a client that was
  disabled meanwhile, although
  `test_update_client_metadata_preserves_management_state` shows that it is
  meant to stay disabled.
* A login form whose answer was lost is accepted again (`disturbed`), although
  `login_post` says "Prevent direct posts and replay attempts in the login
  flow."
* A register form that was opened before a logout signs the browser in after it,
  since `register_post` (`routes/register.py:63-106`) checks no nonce (`joined`).
* The wizard's second grant to one account raises an integrity error in the page
  that makes it, which then never offers the end of the wizard; the first
  page's timer ends it.

Most have one cause: a row or a cookie is checked in one step and written from
the copy in a later one. The conditional `UPDATE` of `lnurl_auth_callback` is
the one place that checks and writes at once, and the properties of its module
make no exception for overlaps.

## What is not modelled

* Cryptography: RSA generation and JWK encryption, JWT contents, LNURL
  signatures and password hashes are Booleans or model values.
* Client authentication, PKCE, redirect-URI and scope checks of the token
  endpoint, and the nonce check of authorization: they fail without a trace.
* The dashboard's messages to admins and to open pages, and the display columns
  of keys.
* UserInfo, introspection and lists: they only read.
* The adapter for Authlib (`fastapi_oauth2/`) and the validators: stateless, a
  property of theirs is a table a unit test can hold. What the validators of
  client forms and logins admit is part of `ClientConsole` and `Accounts`.
* SQLite's coarser locking: the modules take PostgreSQL's read-committed
  transactions, which allow every interleaving SQLite allows.
* The session object of SQLAlchemy, which refuses all use after a failed flush
  until it is rolled back: a page in this state counts as closed or dead.
* Nicknames, layout, migrations and the relying-party examples.

## Plan

1. An abstract specification of a wallet login, from the QR code to the cookie,
   which `LnurlAuth` and `WebSession` implement together.
2. Pure operators: payload merging of the adapter, `safe_redirect`, each against
   a reference definition over bounded inputs.
