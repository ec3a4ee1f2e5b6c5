----------------------------- MODULE LnurlAuth -----------------------------
(***************************************************************************)
(* LNURL-auth: pages create challenges (k1), wallets sign them and call    *)
(* GET /auth/lnurl/callback, which signs an account in, creates one, or    *)
(* links the wallet to one (routes/lnurl_auth.py, the QR dialogs of        *)
(* routes/login.py, register.py and profile.py).                           *)
(*                                                                         *)
(* A callback is one database transaction with several awaited statements, *)
(* so other requests run between them. Its first statement is an UPDATE    *)
(* that holds the row of the challenge until the transaction ends; every   *)
(* return without a commit rolls the UPDATE back. Its SELECTs lock         *)
(* nothing. This is PostgreSQL; SQLite allows fewer interleavings.         *)
(*                                                                         *)
(* No page creates a challenge with action "auth", so that branch of the   *)
(* handler is left out.                                                    *)
(***************************************************************************)
CONSTANTS
    K1s,        \* challenges a page can draw, each once
    Wallets,    \* wallet public keys (linkingKey)
    Users,      \* accounts that can come to exist
    NoWallet,   \* lnurl_pubkey is NULL
    NoUser,     \* user_id is NULL
    NoAction,   \* the challenge does not exist
    NoK1,       \* no callback is under way
    Callbacks   \* callbacks the server can be working on at a time

ASSUME NullAssumption ==
    /\ NoWallet \notin Wallets /\ NoUser \notin Users
    /\ NoAction \notin {"login", "register", "link"}

VARIABLES
    challenge,  \* rows of lnurl_auth_challenges
    expired,    \* challenges older than LNURL_K1_TTL_SECONDS
    users,      \* accounts that exist
    password,   \* accounts with a password_hash
    wallet,     \* column lnurl_pubkey of each account
    call,       \* the callbacks under way
    events,     \* lnurl_auth_events emitted
    signer,     \* history: whose valid signature a challenge was used with
    linked      \* history: all pairs <<user, wallet>> that were ever linked

vars == <<challenge, expired, users, password, wallet, call, events, signer,
          linked>>

accounts == <<users, password, wallet, linked>>

Actions == {"login", "register", "link"}

Challenge == [action : Actions \cup {NoAction},
              user : Users \cup {NoUser},
              consumed : BOOLEAN]

Missing == [action |-> NoAction, user |-> NoUser, consumed |-> FALSE]

(***************************************************************************)
(* A callback's next step:                                                 *)
(*   resolve  check action and signature, then read the wallet's account   *)
(*   account  read the account to link (link only)                         *)
(*   commit   write and commit                                             *)
(*   event    emit the event and answer                                    *)
(***************************************************************************)
Steps == {"idle", "resolve", "account", "commit", "event"}
InTransaction == {"resolve", "account", "commit"}

Call == [pc : Steps, k1 : K1s \cup {NoK1}, key : Wallets \cup {NoWallet},
         action : Actions \cup {NoAction},
         signed : BOOLEAN,                 \* is the signature the key's?
         found : Users \cup {NoUser},      \* the wallet's account, as read
         was : Wallets \cup {NoWallet}]    \* lnurl_pubkey to overwrite, as read

NoCall == [pc |-> "idle", k1 |-> NoK1, key |-> NoWallet, action |-> NoAction,
           signed |-> FALSE, found |-> NoUser, was |-> NoWallet]

Event == [k1 : K1s, user : Users]

TypeOK ==
    /\ challenge \in [K1s -> Challenge]
    /\ expired \subseteq K1s
    /\ users \subseteq Users /\ password \subseteq users
    /\ wallet \in [Users -> Wallets \cup {NoWallet}]
    /\ call \in [Callbacks -> Call]
    /\ events \subseteq Event
    /\ signer \in [K1s -> Wallets \cup {NoWallet}]
    /\ linked \subseteq Users \X Wallets

----------------------------------------------------------------------------
Created(k) == challenge[k].action # NoAction

\* The account whose lnurl_pubkey is w, if any.
OwnersOf(w) == {u \in users : wallet[u] = w}

Locked(k) == \E d \in Callbacks : call[d].pc \in InTransaction /\ call[d].k1 = k

\* Mutant: a consumed challenge is not ruled out.
MUT_Consumable(k) == Created(k) /\ k \notin expired

\* The WHERE clause of the UPDATE.
Consumable(k) == Created(k) /\ ~challenge[k].consumed /\ k \notin expired

\* Mutant: the result of verify is ignored.
MUT_Accepted(c) == call[c].action = challenge[call[c].k1].action

\* The checks that precede any use of the database.
Accepted(c) ==
    call[c].action = challenge[call[c].k1].action /\ call[c].signed

\* Mutant: a login does not need an account.
MUT_Refused(c, f) ==
    call[c].action = "link" /\ f \notin {NoUser, challenge[call[c].k1].user}

\* The wallet's account f rules the action out.
Refused(c, f) ==
    \/ call[c].action = "login" /\ f = NoUser
    \/ call[c].action = "link" /\ f \notin {NoUser, challenge[call[c].k1].user}

\* Mutant: no unique constraint.
MUT_WalletFree(w, u) == TRUE

\* The unique constraint on lnurl_pubkey.
WalletFree(w, u) == \A v \in users \ {u} : wallet[v] # w

Finish(c) == call' = [call EXCEPT ![c] = NoCall]

\* The callback commits: its challenge is consumed, for account u.
Consumed(c, u) ==
    /\ challenge' = [challenge EXCEPT ![call[c].k1] =
         [action |-> challenge[call[c].k1].action, user |-> u,
          consumed |-> TRUE]]
    /\ signer' = [signer EXCEPT ![call[c].k1] =
         IF call[c].signed THEN call[c].key ELSE NoWallet]
    /\ call' = [call EXCEPT ![c].pc = "event"]

----------------------------------------------------------------------------
Init ==
    /\ challenge = [k \in K1s |-> Missing]
    /\ expired = {}
    /\ users = {} /\ password = {}
    /\ wallet = [u \in Users |-> NoWallet]
    /\ call = [c \in Callbacks |-> NoCall]
    /\ events = {}
    /\ signer = [k \in K1s |-> NoWallet]
    /\ linked = {}

\* register_post, and the password dialog of the profile page.
SetPassword(u) ==
    /\ u \notin password
    /\ users' = users \cup {u}
    /\ password' = password \cup {u}
    /\ UNCHANGED <<challenge, expired, wallet, call, events, signer, linked>>

\* Mutant: a wallet is unlinked even if there is no password.
MUT_Unlink(u) ==
    /\ wallet[u] # NoWallet
    /\ wallet' = [wallet EXCEPT ![u] = NoWallet]
    /\ UNCHANGED <<challenge, expired, users, password, call, events, signer, linked>>

\* The profile page's unlink button, which a user without a password is
\* refused.
Unlink(u) ==
    /\ u \in password
    /\ wallet[u] # NoWallet
    /\ wallet' = [wallet EXCEPT ![u] = NoWallet]
    /\ UNCHANGED <<challenge, expired, users, password, call, events, signer, linked>>

\* refresh_qrcode of the login and register pages, and of the link dialog of
\* a signed-in user.
CreateChallenge(k) ==
    /\ ~Created(k)
    /\ \/ \E a \in {"login", "register"} :
            challenge' = [challenge EXCEPT ![k] =
              [action |-> a, user |-> NoUser, consumed |-> FALSE]]
       \/ \E u \in users :
            challenge' = [challenge EXCEPT ![k] =
              [action |-> "link", user |-> u, consumed |-> FALSE]]
    /\ UNCHANGED <<expired, accounts, call, events, signer>>

\* Time passes.
Expire(k) ==
    /\ Created(k)
    /\ expired' = expired \cup {k}
    /\ UNCHANGED <<challenge, accounts, call, events, signer>>

(***************************************************************************)
(* The UPDATE ... RETURNING. It waits for a transaction that holds the row *)
(* and then looks at the row again. A call for any other k1 is answered    *)
(* "Invalid or expired k1" and leaves no trace.                            *)
(***************************************************************************)
Consume(c) ==
    /\ call[c].pc = "idle"
    /\ \E k \in K1s, w \in Wallets, a \in Actions, s \in BOOLEAN :
         /\ Consumable(k) /\ ~Locked(k)
         /\ call' = [call EXCEPT ![c] =
              [pc |-> "resolve", k1 |-> k, key |-> w, action |-> a,
               signed |-> s, found |-> NoUser, was |-> NoWallet]]
    /\ UNCHANGED <<challenge, expired, accounts, events, signer>>

\* Action mismatch, or bad signature: the handler returns, nothing is
\* committed.
Reject(c) ==
    /\ call[c].pc = "resolve"
    /\ ~Accepted(c)
    /\ Finish(c)
    /\ UNCHANGED <<challenge, expired, accounts, events, signer>>

\* The SELECT of the wallet's account, and the returns that follow from it.
Resolve(c) ==
    /\ call[c].pc = "resolve"
    /\ Accepted(c)
    /\ \E f \in Users \cup {NoUser} :
         /\ IF OwnersOf(call[c].key) = {} THEN f = NoUser
                                          ELSE f \in OwnersOf(call[c].key)
         /\ \/ /\ Refused(c, f)
               /\ Finish(c)
            \/ /\ ~Refused(c, f)
               /\ call' = [call EXCEPT ![c].found = f, ![c].pc =
                    IF call[c].action = "link" THEN "account" ELSE "commit"]
    /\ UNCHANGED <<challenge, expired, accounts, events, signer>>

(***************************************************************************)
(* The SELECT of the account to link. An account the session has already   *)
(* loaded, as the wallet's, keeps the columns it was loaded with.          *)
(***************************************************************************)
Account(c) ==
    LET u == challenge[call[c].k1].user IN
    /\ call[c].pc = "account"
    /\ call' = [call EXCEPT ![c].pc = "commit", ![c].was =
         IF call[c].found = u THEN call[c].key ELSE wallet[u]]
    /\ UNCHANGED <<challenge, expired, accounts, events, signer>>

\* Mutant: a login emits its event without a commit.
MUT_LoginCommit(c) ==
    /\ call[c].pc = "commit" /\ call[c].action = "login"
    /\ call' = [call EXCEPT ![c].pc = "event"]
    /\ UNCHANGED <<challenge, signer>>
    /\ UNCHANGED <<expired, accounts, events>>

LoginCommit(c) ==
    /\ call[c].pc = "commit" /\ call[c].action = "login"
    /\ Consumed(c, call[c].found)
    /\ UNCHANGED <<expired, accounts, events>>

\* A wallet without an account gets one; a known wallet is signed in.
RegisterCommit(c) ==
    /\ call[c].pc = "commit" /\ call[c].action = "register"
    /\ \/ /\ call[c].found # NoUser
          /\ Consumed(c, call[c].found)
          /\ UNCHANGED accounts
       \/ /\ call[c].found = NoUser
          /\ \E u \in Users \ users :
               /\ WalletFree(call[c].key, u)
               /\ users' = users \cup {u}
               /\ wallet' = [wallet EXCEPT ![u] = call[c].key]
               /\ linked' = linked \cup {<<u, call[c].key>>}
               /\ Consumed(c, u)
          /\ UNCHANGED password
    /\ UNCHANGED <<expired, events>>

\* The key is written if it differs from the one that was read.
LinkCommit(c) ==
    LET u == challenge[call[c].k1].user IN
    /\ call[c].pc = "commit" /\ call[c].action = "link"
    /\ \/ /\ call[c].was = call[c].key
          /\ UNCHANGED <<wallet, linked>>
       \/ /\ call[c].was # call[c].key
          /\ WalletFree(call[c].key, u)
          /\ wallet' = [wallet EXCEPT ![u] = call[c].key]
          /\ linked' = linked \cup {<<u, call[c].key>>}
    /\ Consumed(c, u)
    /\ UNCHANGED <<expired, users, password, events>>

\* lnurl_auth_events.call, and the answer to the wallet.
Emit(c) ==
    /\ call[c].pc = "event"
    /\ events' = events \cup {[k1 |-> call[c].k1,
                               user |-> challenge[call[c].k1].user]}
    /\ Finish(c)
    /\ UNCHANGED <<challenge, expired, accounts, signer>>

\* The unique constraint refuses the commit, the wallet hangs up, or the
\* process crashes: what is not committed is rolled back.
Abort(c) ==
    /\ call[c].pc # "idle"
    /\ Finish(c)
    /\ UNCHANGED <<challenge, expired, accounts, events, signer>>

Callback(c) ==
    \/ Consume(c) \/ Reject(c) \/ Resolve(c) \/ Account(c)
    \/ LoginCommit(c) \/ RegisterCommit(c) \/ LinkCommit(c)
    \/ Emit(c) \/ Abort(c)

Next ==
    \/ \E u \in Users : SetPassword(u) \/ Unlink(u)
    \/ \E k \in K1s : CreateChallenge(k) \/ Expire(k)
    \/ \E c \in Callbacks : Callback(c)

Spec == Init /\ [][Next]_vars

----------------------------------------------------------------------------
(***************************************************************************)
(* Properties.                                                             *)
(***************************************************************************)

\* However callbacks overlap, a challenge is used at most once, and a link
\* challenge only for the account that asked for it (the conditional UPDATE
\* of lnurl_auth_callback).
OneTime == INSTANCE OneTimeChallenge WITH
    Challenges <- K1s, Accounts <- Users, NoAccount <- NoUser,
    state <- [k \in K1s |-> IF ~Created(k) THEN "none"
                            ELSE IF challenge[k].consumed THEN "used"
                            ELSE "open"],
    account <- [k \in K1s |-> challenge[k].user]

OneTimeUse == OneTime!Spec

\* No wallet signs in to two accounts, whatever registrations and links
\* overlap.
WalletUnique ==
    \A u, v \in Users :
        wallet[u] # NoWallet /\ wallet[u] = wallet[v] => u = v

\* Linking and unlinking never leave an account without a way to sign in.
NoLockout == \A u \in users : u \in password \/ wallet[u] # NoWallet

\* An event that signs a browser in names an account that has held the
\* wallet whose signature the challenge was used with.
SignInOwner ==
    \A e \in events :
        challenge[e.k1].action # "link" => <<e.user, signer[e.k1]>> \in linked

\* A browser is signed in, and a wallet told "OK", only for a challenge that
\* the database has as consumed for that account: no event precedes its
\* commit.
EventConsumes ==
    \A e \in events :
        challenge[e.k1].consumed /\ challenge[e.k1].user = e.user

(***************************************************************************)
(* The inductive invariant behind all of these: a callback in its          *)
(* transaction is alone with its challenge, which stays open, and what it  *)
(* has found is an account that has held the wallet.                       *)
(***************************************************************************)
ChallengesWellFormed ==
    \A k \in K1s :
        /\ ~Created(k) => challenge[k] = Missing
        /\ challenge[k].action = "link" \/ challenge[k].consumed =>
             challenge[k].user \in users
        /\ challenge[k].action \in {"login", "register"} =>
             IF challenge[k].consumed
               THEN <<challenge[k].user, signer[k]>> \in linked
               ELSE challenge[k].user = NoUser

WalletsLinked ==
    \A u \in Users : wallet[u] # NoWallet =>
        u \in users /\ <<u, wallet[u]>> \in linked

CallsAlone ==
    \A c, d \in Callbacks :
        /\ call[c].pc \in InTransaction /\ call[d].pc \in InTransaction
        /\ call[c].k1 = call[d].k1
        => c = d

CallsSound ==
    \A c \in Callbacks :
        LET k == call[c].k1  f == call[c].found IN
        /\ call[c].pc \in InTransaction =>
             /\ k \in K1s /\ call[c].key \in Wallets
             /\ Created(k) /\ ~challenge[k].consumed
        /\ call[c].pc \in {"account", "commit"} =>
             /\ Accepted(c)
             /\ f # NoUser => f \in users /\ <<f, call[c].key>> \in linked
             /\ call[c].action = "login" => f # NoUser
        /\ call[c].pc = "account" => call[c].action = "link"
        /\ call[c].pc = "event" => k \in K1s /\ challenge[k].consumed

LnurlInv ==
    /\ ChallengesWellFormed /\ WalletsLinked /\ CallsAlone /\ CallsSound
    /\ WalletUnique /\ NoLockout /\ EventConsumes

\* What the documentation says of a callback that is refused: the attempt
\* has consumed the challenge.
AttemptConsumes ==
    [][\A c \in Callbacks : Reject(c) => challenge'[call[c].k1].consumed]_vars
=============================================================================
