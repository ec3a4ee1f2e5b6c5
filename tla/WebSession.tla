---------------------------- MODULE WebSession -----------------------------
(***************************************************************************)
(* Browser sessions: signing in with a password or a wallet, registering,  *)
(* consenting to a client, and logging out, from several tabs              *)
(* (routes/login.py, routes/register.py, routes/authorize.py,              *)
(* routes/oauth2.py, auth/middleware.py).                                  *)
(*                                                                         *)
(* The whole session is a signed cookie. A handler works on the copy that  *)
(* its request carried, and the answer replaces the cookie with that copy, *)
(* changed or not: of two requests that overlap, the one answered last     *)
(* decides.  The server itself keeps two things: the pages that are open,  *)
(* each waiting for the event of the challenge it shows, and the storage   *)
(* in which such a page leaves, under its nonce, the account that signed.  *)
(*                                                                         *)
(* Abstractions: login nonces and CSRF tokens are drawn from one set; the  *)
(* account of the credentials is part of the form (NoUser: they are wrong);*)
(* the callback that answers a challenge is module LnurlAuth, of which     *)
(* here only the commit and the event remain.                              *)
(***************************************************************************)
CONSTANTS
    Browsers,
    Tabs,
    Users,
    Tokens,     \* nonces and CSRF tokens; one that is drawn occurs nowhere yet
    Keys,       \* challenges (k1) that somebody may sign, each drawn once
    Targets,    \* pages that are opened, of those that differ for the session
    NoUser, NoToken, NoTab

Views == {"login", "register", "consent", "other", "logout", "redirect"}

ASSUME TargetsAssumption == Targets \subseteq Views
ASSUME NoneAssumption ==
    NoUser \notin Users /\ NoToken \notin Tokens /\ NoTab \notin Tabs

VARIABLES
    browser,    \* the browser of each tab
    cookie,     \* the session cookie of each browser
    page,       \* the page each tab shows
    request,    \* the request each tab has under way
    challenge,  \* challenges shown as QR codes
    storage,    \* lnurl_auth_temp_storage
    vouched,    \* history: accounts that were proven to be the user's, with
                \* the browser in which this happened
    out,        \* history: browsers that have ended a session, with no other
                \* request under way, and got no form to sign in since
    joined,     \* history: accounts that such a browser has registered since
    used,       \* history: nonces and CSRF tokens that were accepted
    disturbed   \* history: browsers with answers lost or requests overlapping

vars == <<browser, cookie, page, request, challenge, storage,
          vouched, out, joined, used, disturbed>>

Session == [user : Users \cup {NoUser}, nonce : Tokens \cup {NoToken},
            csrf : Tokens \cup {NoToken}]
Empty == [user |-> NoUser, nonce |-> NoToken, csrf |-> NoToken]

Page == [kind : {"other", "login", "register", "consent"},
         token : Tokens \cup {NoToken}]
Other == [kind |-> "other", token |-> NoToken]

Posts == {"login_post", "register_post", "authorize"}
Request == [phase : {"none", "told", "sent", "answered"},
            kind : Views \cup Posts,
            token : Tokens \cup {NoToken}, user : Users \cup {NoUser},
            session : Session, sets : BOOLEAN, page : Page]
Idle == [phase |-> "none", kind |-> "other", token |-> NoToken,
         user |-> NoUser, session |-> Empty, sets |-> FALSE, page |-> Other]

Challenge == [state : {"none", "shown", "refreshed", "abandoned"},
              tab : Tabs \cup {NoTab}, nonce : Tokens \cup {NoToken},
              user : Users \cup {NoUser}, event : BOOLEAN]
Unused == [state |-> "none", tab |-> NoTab, nonce |-> NoToken,
           user |-> NoUser, event |-> FALSE]

TypeOK ==
    /\ browser \in [Tabs -> Browsers]
    /\ cookie \in [Browsers -> Session]
    /\ page \in [Tabs -> Page]
    /\ request \in [Tabs -> Request]
    /\ challenge \in [Keys -> Challenge]
    /\ storage \in [Tokens -> Users \cup {NoUser}]
    /\ vouched \subseteq Browsers \X Users
    /\ out \subseteq Browsers /\ joined \subseteq out \X Users
    /\ disturbed \subseteq Browsers
    /\ used \subseteq Tokens

----------------------------------------------------------------------------
Here(t) == cookie[browser[t]]

InFlight(t) == request[t].phase \in {"sent", "answered"}

Fresh(n) ==
    /\ \A b \in Browsers : n \notin {cookie[b].nonce, cookie[b].csrf}
    /\ \A t \in Tabs : n \notin {page[t].token, request[t].token,
                                 request[t].page.token}
    /\ \A t \in Tabs : n \notin {request[t].session.nonce, request[t].session.csrf}
    /\ \A k \in Keys : challenge[k].nonce # n
    /\ storage[n] = NoUser /\ n \notin used

OfTab(t) == {k \in Keys : challenge[k].tab = t}
OfBrowser(b) == {k \in Keys : challenge[k].tab # NoTab /\ browser[challenge[k].tab] = b}

\* The challenges in K will not be followed up: their page was left, or the
\* browser no longer has its nonce.
Abandon(K) ==
    [k \in Keys |-> IF k \in K /\ challenge[k].state = "shown"
                      THEN [challenge[k] EXCEPT !.state = "abandoned"]
                      ELSE challenge[k]]

\* Tab t sends a request, with the cookie the browser has now. Whatever
\* its page was waiting for, the user has left.
Send(t, kind, token, user) ==
    /\ request' = [request EXCEPT ![t] =
         [phase |-> "sent", kind |-> kind, token |-> token, user |-> user,
          session |-> Here(t), sets |-> FALSE, page |-> Other]]
    /\ disturbed' = IF \E s \in Tabs \ {t} :
                         browser[s] = browser[t] /\ InFlight(s)
                      THEN disturbed \cup {browser[t]} ELSE disturbed
    /\ UNCHANGED <<browser, cookie, page, storage, vouched, out, joined, used>>

\* The handler of a request is about to run.
Served(t, kind) == request[t].phase = "sent" /\ request[t].kind = kind

\* The handler of t's request leaves session s, and answers with page pg. A
\* session that was empty and still is sets no cookie. Which page was asked
\* for makes no difference any more, unless it was the logout.
Answered(t, s, pg) ==
    request' = [request EXCEPT
        ![t].phase = "answered", ![t].session = s, ![t].page = pg,
        ![t].kind = IF @ \in Posts \cup {"logout"} THEN @ ELSE "other",
        ![t].token = NoToken, ![t].user = NoUser,
        ![t].sets = ~(s = Empty /\ request[t].session = Empty)]

----------------------------------------------------------------------------
Init ==
    /\ browser \in [Tabs -> Browsers]
    /\ cookie = [b \in Browsers |-> Empty]
    /\ page = [t \in Tabs |-> Other]
    /\ request = [t \in Tabs |-> Idle]
    /\ challenge = [k \in Keys |-> Unused]
    /\ storage = [n \in Tokens |-> NoUser]
    /\ vouched = {} /\ out = {} /\ joined = {} /\ used = {} /\ disturbed = {}

----------------------------------------------------------------------------
(***************************************************************************)
(* What the browser does.                                                  *)
(***************************************************************************)

\* The user opens a page in t, or follows a link.
Visit(t, target) ==
    /\ request[t].phase = "none"
    /\ Send(t, target, NoToken, NoUser)
    /\ challenge' = Abandon(OfTab(t))

\* The user submits the form that t shows.
Submit(t, user) ==
    /\ request[t].phase = "none"
    /\ \/ page[t].kind = "login" /\ Send(t, "login_post", page[t].token, user)
       \/ page[t].kind = "register" /\ Send(t, "register_post", NoToken, user)
       \/ /\ page[t].kind = "consent" /\ user = NoUser
          /\ Send(t, "authorize", page[t].token, NoUser)
    /\ challenge' = Abandon(OfTab(t))

\* The page in t was told to open /auth/lnurl/redirect.
Follow(t) ==
    /\ request[t].phase = "told"
    /\ Send(t, "redirect", NoToken, NoUser)
    /\ UNCHANGED challenge

\* The answer arrives, and the tab shows its page; the user may also go back
\* to the form that was sent.
Deliver(t) ==
    LET b == browser[t]
        r == request[t]
        ended == /\ r.kind = "logout" /\ r.sets
                 /\ \A s \in Tabs \ {t} : browser[s] = b => ~InFlight(s) IN
    /\ r.phase = "answered"
    /\ cookie' = IF r.sets THEN [cookie EXCEPT ![b] = r.session] ELSE cookie
    /\ \/ page' = [page EXCEPT ![t] = r.page]
       \/ r.kind \in Posts /\ UNCHANGED page
    /\ request' = [request EXCEPT ![t] = Idle]
    /\ challenge' = Abandon({k \in OfBrowser(b) : challenge[k].nonce # cookie'[b].nonce})
    /\ out' = IF ended THEN out \cup {b} ELSE out
    /\ joined' = {bu \in joined : ended => bu[1] # b}
    /\ UNCHANGED <<browser, storage, vouched, used, disturbed>>

\* The answer is lost, or the user did not wait for it.
Lose(t) ==
    /\ request[t].phase = "answered"
    /\ request' = [request EXCEPT ![t] = Idle]
    /\ disturbed' = disturbed \cup {browser[t]}
    /\ challenge' = Abandon(OfBrowser(browser[t]))
    /\ UNCHANGED <<browser, cookie, page, storage, vouched, out, joined, used>>

----------------------------------------------------------------------------
(***************************************************************************)
(* What the handlers do.                                                   *)
(***************************************************************************)

\* Any page that leaves the session alone; the middleware's redirect too.
View(t) ==
    /\ \/ Served(t, "other")
       \/ Served(t, "consent") /\ request[t].session.user = NoUser
       \/ /\ Served(t, "login") \/ Served(t, "register")
          /\ request[t].session.user # NoUser
    /\ Answered(t, request[t].session, Other)
    /\ UNCHANGED <<browser, cookie, page, challenge, storage,
                   vouched, out, joined, used, disturbed>>

\* login_page and register_page draw a nonce.
NoncePage(t) ==
    /\ Served(t, "login") \/ Served(t, "register")
    /\ request[t].session.user = NoUser
    /\ \E n \in Tokens :
         /\ Fresh(n)
         /\ Answered(t, [request[t].session EXCEPT !.nonce = n],
                     [kind |-> request[t].kind, token |-> n])
    /\ out' = out \ {browser[t]}
    /\ joined' = {bu \in joined : bu[1] # browser[t]}
    /\ UNCHANGED <<browser, cookie, page, challenge, storage,
                   vouched, used, disturbed>>

\* authorize_get draws a CSRF token.
ConsentPage(t) ==
    /\ Served(t, "consent") /\ request[t].session.user # NoUser
    /\ \E n \in Tokens :
         /\ Fresh(n)
         /\ Answered(t, [request[t].session EXCEPT !.csrf = n],
                     [kind |-> "consent", token |-> n])
    /\ UNCHANGED <<browser, cookie, page, challenge, storage,
                   vouched, out, joined, used, disturbed>>

\* Mutant: a failed attempt leaves the nonce in the session.
MUT_LoginPost(t) ==
    LET r == request[t]
        s == [r.session EXCEPT !.nonce = NoToken] IN
    /\ Served(t, "login_post")
    /\ \/ /\ r.session.nonce \notin {r.token} \cap Tokens
          /\ Answered(t, s, Other)
          /\ UNCHANGED <<used, vouched>>
       \/ /\ r.session.nonce \in {r.token} \cap Tokens
          /\ used' = used \cup {r.token}
          /\ Answered(t, IF r.user = NoUser THEN r.session
                            ELSE [s EXCEPT !.user = r.user], Other)
          /\ vouched' = vouched \cup
               {bu \in {browser[t]} \X Users : bu[2] = r.user}
    /\ UNCHANGED <<browser, cookie, page, challenge, storage,
                   out, joined, disturbed>>

\* login_post: the nonce of the session goes, whether it fits or not.
LoginPost(t) ==
    LET r == request[t]
        s == [r.session EXCEPT !.nonce = NoToken] IN
    /\ Served(t, "login_post")
    /\ \/ /\ r.session.nonce \notin {r.token} \cap Tokens
          /\ Answered(t, s, Other)
          /\ UNCHANGED <<used, vouched>>
       \/ /\ r.session.nonce \in {r.token} \cap Tokens
          /\ used' = used \cup {r.token}
          /\ Answered(t, IF r.user = NoUser THEN s ELSE [s EXCEPT !.user = r.user],
                      Other)
          /\ vouched' = vouched \cup
               {bu \in {browser[t]} \X Users : bu[2] = r.user}
    /\ UNCHANGED <<browser, cookie, page, challenge, storage,
                   out, joined, disturbed>>

\* register_post: the new account is signed in; no nonce is looked at, so a
\* form that was opened before a logout does as well as any.
RegisterPost(t) ==
    LET r == request[t] IN
    /\ Served(t, "register_post")
    /\ \/ /\ r.user = NoUser
          /\ Answered(t, r.session, Other)
          /\ UNCHANGED <<vouched, joined>>
       \/ /\ r.user # NoUser
          /\ Answered(t, [r.session EXCEPT !.user = r.user], Other)
          /\ vouched' = vouched \cup {<<browser[t], r.user>>}
          /\ joined' = joined \cup ({browser[t]} \cap out) \X {r.user}
    /\ UNCHANGED <<browser, cookie, page, challenge, storage,
                   out, used, disturbed>>

\* authorize (POST): 401, 403, or the CSRF token goes and a code is issued
\* or denied.
AuthorizePost(t) ==
    LET r == request[t] IN
    /\ Served(t, "authorize")
    /\ \/ /\ \/ r.session.user = NoUser
             \/ r.session.csrf \notin {r.token} \cap Tokens
          /\ Answered(t, r.session, Other)
          /\ UNCHANGED <<used>>
       \/ /\ r.session.user # NoUser
          /\ r.session.csrf \in {r.token} \cap Tokens
          /\ used' = used \cup {r.token}
          /\ Answered(t, [r.session EXCEPT !.csrf = NoToken], Other)
    /\ UNCHANGED <<browser, cookie, page, challenge, storage,
                   vouched, out, joined, disturbed>>

\* Mutant: the entry is removed before it is read.
MUT_LnurlRedirect(t) ==
    LET s == request[t].session IN
    /\ Served(t, "redirect")
    /\ storage' = [n \in Tokens |-> IF n = s.nonce THEN NoUser ELSE storage[n]]
    /\ Answered(t, IF s.nonce = NoToken \/ storage'[s.nonce] = NoUser THEN s
                      ELSE [s EXCEPT !.user = storage'[s.nonce]], Other)
    /\ UNCHANGED <<browser, cookie, page, challenge,
                   vouched, out, joined, used, disturbed>>

\* lnurl_redirect takes from the storage what was left under the nonce of
\* the session, which keeps its nonce.
LnurlRedirect(t) ==
    LET s == request[t].session
        user == IF s.nonce = NoToken THEN NoUser ELSE storage[s.nonce] IN
    /\ Served(t, "redirect")
    /\ Answered(t, IF user = NoUser THEN s ELSE [s EXCEPT !.user = user], Other)
    /\ storage' = [n \in Tokens |-> IF n = s.nonce THEN NoUser ELSE storage[n]]
    /\ UNCHANGED <<browser, cookie, page, challenge,
                   vouched, out, joined, used, disturbed>>

\* Mutant: only the account is removed from the session.
MUT_Logout(t) ==
    /\ Served(t, "logout")
    /\ Answered(t, [request[t].session EXCEPT !.user = NoUser], Other)
    /\ UNCHANGED <<browser, cookie, page, challenge, storage,
                   vouched, out, joined, used, disturbed>>

Logout(t) ==
    /\ Served(t, "logout")
    /\ Answered(t, Empty, Other)
    /\ UNCHANGED <<browser, cookie, page, challenge, storage,
                   vouched, out, joined, used, disturbed>>

----------------------------------------------------------------------------
(***************************************************************************)
(* Challenges and their events.                                            *)
(***************************************************************************)

\* Mutant: the page keeps its challenge in the place of its nonce.
MUT_Refresh(t) ==
    /\ page[t].kind \in {"login", "register"} /\ request[t].phase = "none"
    /\ \E k \in Keys :
         /\ challenge[k] = Unused
         /\ challenge' = [challenge EXCEPT ![k] =
              [state |-> "shown", tab |-> t, nonce |-> k,
               user |-> NoUser, event |-> FALSE]]
    /\ UNCHANGED <<browser, cookie, page, request, storage,
                   vouched, out, joined, used, disturbed>>

\* The timer of a login or register page draws a challenge and shows it in
\* place of the one before. The ones that nobody will sign are not kept.
Refresh(t) ==
    LET n == page[t].token
        replaced == [k \in Keys |->
            IF challenge[k].nonce = n
              THEN [challenge[k] EXCEPT !.state = "refreshed"] ELSE challenge[k]]
        drawn == [state |-> IF Here(t).nonce = n THEN "shown" ELSE "abandoned",
                  tab |-> t, nonce |-> n, user |-> NoUser, event |-> FALSE] IN
    /\ page[t].kind \in {"login", "register"} /\ request[t].phase = "none"
    /\ \/ challenge' = replaced
       \/ \E k \in Keys : /\ challenge[k] = Unused
                         /\ challenge' = [replaced EXCEPT ![k] = drawn]
    /\ UNCHANGED <<browser, cookie, page, request, storage,
                   vouched, out, joined, used, disturbed>>

\* A wallet scanned the QR code of k, and its callback has committed.
Sign(k, u) ==
    /\ challenge[k].state # "none" /\ challenge[k].user = NoUser
    /\ challenge' = [challenge EXCEPT ![k].user = u, ![k].event = TRUE]
    /\ vouched' = vouched \cup {<<browser[challenge[k].tab], u>>}
    /\ UNCHANGED <<browser, cookie, page, request, storage,
                   out, joined, used, disturbed>>

\* Mutant: the handlers do not compare the k1 of the event with theirs.
MUT_Emit(k) ==
    /\ challenge[k].event
    /\ challenge' = [challenge EXCEPT ![k].event = FALSE]
    /\ \E t \in Tabs :
         /\ page[t].kind = "login" /\ request[t].phase = "none"
         /\ storage' = [storage EXCEPT ![page[t].token] = challenge[k].user]
         /\ request' = [request EXCEPT ![t].phase = "told"]
    /\ UNCHANGED <<browser, cookie, page, vouched, out, joined, used, disturbed>>

\* The callback calls the handlers. The page that shows k stores the account
\* and tells its tab to follow. A page that was left, or whose nonce the
\* browser no longer has, may still do so.
Emit(k) ==
    LET c == challenge[k]
        stored == [storage EXCEPT ![c.nonce] = c.user]
        waits == page[c.tab].token = c.nonce /\ request[c.tab].phase = "none" IN
    /\ c.event
    /\ challenge' = [challenge EXCEPT ![k].event = FALSE]
    /\ \/ /\ c.state \in {"shown", "abandoned"} /\ waits
          /\ storage' = stored
          /\ request' = [request EXCEPT ![c.tab].phase = "told"]
       \/ c.state = "abandoned" /\ storage' = stored /\ UNCHANGED request
       \/ c.state # "shown" /\ UNCHANGED <<storage, request>>
    /\ UNCHANGED <<browser, cookie, page, vouched, out, joined, used, disturbed>>

\* The server stops and starts again: requests and pages are gone, and
\* events that were not sent; cookies and the storage, a file, remain.
Restart ==
    /\ request' = [t \in Tabs |-> Idle]
    /\ page' = [t \in Tabs |-> Other]
    /\ challenge' = [k \in Keys |->
         [Abandon(Keys)[k] EXCEPT !.event = FALSE]]
    /\ disturbed' = disturbed \cup {browser[t] : t \in {s \in Tabs : InFlight(s)}}
    /\ UNCHANGED <<browser, cookie, storage, vouched, out, joined, used>>

Handle(t) ==
    \/ View(t) \/ NoncePage(t) \/ ConsentPage(t)
    \/ LoginPost(t) \/ RegisterPost(t) \/ AuthorizePost(t)
    \/ LnurlRedirect(t) \/ Logout(t)

Next ==
    \/ \E t \in Tabs :
         \/ \E target \in Targets : Visit(t, target)
         \/ \E u \in Users \cup {NoUser} : Submit(t, u)
         \/ Follow(t) \/ Handle(t) \/ Deliver(t) \/ Lose(t) \/ Refresh(t)
    \/ \E k \in Keys : Emit(k) \/ \E u \in Users : Sign(k, u)
    \/ Restart

\* What is under way goes on: the callback after its commit, the browser
\* that was told to follow, the handlers and their answers.
Fairness ==
    /\ \A k \in Keys : WF_vars(Emit(k))
    /\ \A t \in Tabs : WF_vars(Follow(t)) /\ WF_vars(Handle(t)) /\ WF_vars(Deliver(t))

Spec == Init /\ [][Next]_vars

FairSpec == Spec /\ Fairness

----------------------------------------------------------------------------
(***************************************************************************)
(* Properties.                                                             *)
(***************************************************************************)

\* A browser is signed in only to accounts whose credentials were given in
\* it or whose wallet answered a QR code it showed, however pages, events
\* and the one storage that all browsers share are interleaved.
OwnAccount ==
    \A b \in Browsers :
        cookie[b].user # NoUser => <<b, cookie[b].user>> \in vouched

\* After a logout during which the browser has nothing else under way, and
\* until it gets a new login or register page, no answer, no login form, no
\* wallet event and no visit to the redirect page signs it in again (logout
\* clears all). Only a register form from before does, which has no nonce:
\* it signs the browser in to the account it then creates, and no other.
LogoutSticks ==
    \A b \in out :
        cookie[b].user # NoUser => <<b, cookie[b].user>> \in joined

\* t's form is accepted by login_post or authorize.
Accepts(t) ==
    LET r == request[t] IN
    /\ r.phase = "sent" /\ request'[t].phase = "answered"
    /\ \/ r.kind = "login_post" /\ r.session.nonce = r.token
       \/ r.kind = "authorize" /\ r.session.csrf = r.token
                               /\ r.session.user # NoUser

\* In a browser whose requests neither overlap nor lose their answer, a form
\* is accepted once: going back and sending it again is refused.
ReplayRefused ==
    [][\A t \in Tabs : Accepts(t) /\ browser[t] \notin disturbed
                          => request[t].token \notin used]_vars

\* A wallet that signs the QR code a page shows signs its browser in, unless
\* the code is replaced, the page is left, another tab takes the nonce, an
\* answer is lost or the server stops (the event, the storage, the redirect).
SignInCompletes ==
    \A k \in Keys :
        challenge[k].event /\ challenge[k].state = "shown"
          ~> \/ challenge[k].state # "shown"
             \/ \E t \in Tabs : /\ t = challenge[k].tab
                                /\ Here(t).user = challenge[k].user
=============================================================================
