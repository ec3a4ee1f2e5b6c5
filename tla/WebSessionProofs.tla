-------------------------- MODULE WebSessionProofs --------------------------
(***************************************************************************)
(* Proofs about WebSession: for any number of browsers, tabs, accounts and *)
(* challenges, a browser is signed in only to accounts proven to be its    *)
(* user's. The heart is that a nonce or CSRF token never gets from one     *)
(* browser to another, though events and their storage know no browsers.   *)
(***************************************************************************)
EXTENDS WebSession, TLAPS

LEMMA NoneTypes ==
    /\ Empty \in Session /\ Idle \in Request /\ Other \in Page /\ Unused \in Challenge
BY DEF Empty, Session, Idle, Request, Other, Page, Unused, Challenge, Views, Posts

----------------------------------------------------------------------------
(***************************************************************************)
(* Types.                                                                  *)
(***************************************************************************)
LEMMA TypeInit == Init => TypeOK
BY NoneTypes DEF Init, TypeOK

LEMMA AbandonType ==
    ASSUME TypeOK, NEW K
    PROVE  Abandon(K) \in [Keys -> Challenge]
<1>1. \A c \in Challenge : [c EXCEPT !.state = "abandoned"] \in Challenge
  BY DEF Challenge
<1> QED
  BY <1>1 DEF Abandon, TypeOK

LEMMA SendType ==
    ASSUME TypeOK, NEW t \in Tabs, NEW kind \in Views \cup Posts,
           NEW token \in Tokens \cup {NoToken}, NEW user \in Users \cup {NoUser},
           Send(t, kind, token, user), challenge' \in [Keys -> Challenge]
    PROVE  TypeOK'
<1> DEFINE r == [phase |-> "sent", kind |-> kind, token |-> token, user |-> user,
                 session |-> Here(t), sets |-> FALSE, page |-> Other]
<1>1. Here(t) \in Session
  BY DEF Here, TypeOK
<1>2. r \in Request
  BY <1>1, NoneTypes DEF Request
<1>3. request' = [request EXCEPT ![t] = r]
  BY DEF Send
<1>4. request' \in [Tabs -> Request]
  BY <1>2, <1>3 DEF TypeOK
<1>5. disturbed' \subseteq Browsers
  BY DEF Send, TypeOK
<1> QED
  BY <1>4, <1>5 DEF Send, TypeOK

LEMMA AnsweredType ==
    ASSUME TypeOK, NEW t \in Tabs, NEW s \in Session, NEW pg \in Page,
           Answered(t, s, pg)
    PROVE  request' \in [Tabs -> Request]
<1> DEFINE set == ~(s = Empty /\ request[t].session = Empty)
           kind == IF request[t].kind \in Posts \cup {"logout"}
                     THEN request[t].kind ELSE "other"
           r == [request[t] EXCEPT !.phase = "answered", !.session = s,
                   !.page = pg, !.kind = kind,
                   !.token = NoToken, !.user = NoUser, !.sets = set]
<1>1. set \in BOOLEAN /\ kind \in Views \cup Posts
  BY DEF Views, TypeOK, Request
<1> HIDE DEF set, kind
<1>2. r \in Request
  BY <1>1, ZenonT(40) DEF TypeOK, Request
<1>3. request' = [request EXCEPT ![t] = r]
  BY DEF Answered, TypeOK, set, kind
<1> QED
  BY <1>2, <1>3 DEF TypeOK

LEMMA BrowserTypes ==
    ASSUME TypeOK, NEW t \in Tabs,
           \/ \E target \in Targets : Visit(t, target)
           \/ \E u \in Users \cup {NoUser} : Submit(t, u)
           \/ Follow(t) \/ Deliver(t) \/ Lose(t)
    PROVE  TypeOK'
<1>0. \A K : Abandon(K) \in [Keys -> Challenge]
  BY AbandonType
<1>1. ASSUME NEW target \in Targets, Visit(t, target) PROVE TypeOK'
  BY <1>0, <1>1, SendType, TargetsAssumption DEF Visit
<1>2. ASSUME NEW u \in Users \cup {NoUser}, Submit(t, u) PROVE TypeOK'
  <2>1. page[t].token \in Tokens \cup {NoToken}
    BY DEF TypeOK, Page
  <2>2. challenge' \in [Keys -> Challenge]
    BY <1>0, <1>2 DEF Submit
  <2> QED
    BY <1>2, <2>1, <2>2, SendType DEF Submit, Posts
<1>3. CASE Follow(t)
  BY <1>3, SendType DEF Follow, TypeOK, Views
<1>4. CASE Deliver(t)
  <2>1. request[t].session \in Session /\ request[t].page \in Page
    BY DEF TypeOK, Request
  <2>2. cookie' \in [Browsers -> Session] /\ page' \in [Tabs -> Page]
    BY <1>4, <2>1 DEF Deliver, TypeOK
  <2>3. request' \in [Tabs -> Request] /\ out' \subseteq Browsers
    BY <1>4, NoneTypes DEF Deliver, TypeOK
  <2>5. joined' \subseteq out' \X Users
    <3>1. joined' \subseteq joined /\ out \subseteq out'
      BY <1>4 DEF Deliver
    <3> QED
      BY <3>1 DEF TypeOK
  <2>4. challenge' \in [Keys -> Challenge]
    BY <1>0, <1>4 DEF Deliver
  <2> QED
    BY <1>4, <2>2, <2>3, <2>4, <2>5 DEF Deliver, TypeOK
<1>5. CASE Lose(t)
  BY <1>0, <1>5, NoneTypes DEF Lose, TypeOK
<1> QED
  BY <1>1, <1>2, <1>3, <1>4, <1>5

LEMMA HandlerTypes ==
    ASSUME TypeOK, NEW t \in Tabs, Handle(t)
    PROVE  TypeOK'
<1> DEFINE r == request[t]
           s == r.session
<1>0. /\ s \in Session /\ r.user \in Users \cup {NoUser}
      /\ r.token \in Tokens \cup {NoToken}
  BY DEF TypeOK, Request
<1>1. CASE View(t)
  <2>1. request' \in [Tabs -> Request]
    BY <1>0, <1>1, AnsweredType, NoneTypes DEF View
  <2> QED
    BY <1>1, <2>1 DEF View, TypeOK
<1>2. CASE NoncePage(t)
  <2>1. PICK n \in Tokens :
          Answered(t, [s EXCEPT !.nonce = n], [kind |-> r.kind, token |-> n])
    BY <1>2 DEF NoncePage
  <2>2. [s EXCEPT !.nonce = n] \in Session /\ [kind |-> r.kind, token |-> n] \in Page
    BY <1>0, <1>2 DEF NoncePage, Served, Session, Page
  <2>3. request' \in [Tabs -> Request]
    BY <2>1, <2>2, AnsweredType
  <2>4. out' = out \ {browser[t]} /\ joined' = {bu \in joined : bu[1] # browser[t]}
    BY <1>2 DEF NoncePage
  <2>5. joined' \subseteq out' \X Users
    BY <2>4 DEF TypeOK
  <2> QED
    BY <1>2, <2>3, <2>4, <2>5 DEF NoncePage, TypeOK
<1>3. CASE ConsentPage(t)
  <2>1. PICK n \in Tokens :
          Answered(t, [s EXCEPT !.csrf = n], [kind |-> "consent", token |-> n])
    BY <1>3 DEF ConsentPage
  <2>2. [s EXCEPT !.csrf = n] \in Session /\ [kind |-> "consent", token |-> n] \in Page
    BY <1>0 DEF Session, Page
  <2>3. request' \in [Tabs -> Request]
    BY <2>1, <2>2, AnsweredType
  <2> QED
    BY <1>3, <2>3 DEF ConsentPage, TypeOK
<1>4. CASE LoginPost(t)
  <2> DEFINE s1 == [s EXCEPT !.nonce = NoToken]
             s2 == IF r.user = NoUser THEN s1 ELSE [s1 EXCEPT !.user = r.user]
  <2>1. s1 \in Session /\ s2 \in Session
    BY <1>0 DEF Session
  <2>2. Answered(t, s1, Other) \/ Answered(t, s2, Other)
    BY <1>4 DEF LoginPost
  <2>3. request' \in [Tabs -> Request]
    BY <2>1, <2>2, AnsweredType, NoneTypes
  <2>4. used' \subseteq Tokens
    BY <1>0, <1>4 DEF LoginPost, TypeOK
  <2>5. vouched' \subseteq Browsers \X Users
    BY <1>4 DEF LoginPost, TypeOK
  <2> QED
    BY <1>4, <2>3, <2>4, <2>5 DEF LoginPost, TypeOK
<1>5. CASE RegisterPost(t)
  <2> DEFINE s1 == [s EXCEPT !.user = r.user]
  <2>1. s1 \in Session
    BY <1>0 DEF Session
  <2>2. Answered(t, s, Other) \/ Answered(t, s1, Other)
    BY <1>5 DEF RegisterPost
  <2>3. request' \in [Tabs -> Request]
    BY <1>0, <2>1, <2>2, AnsweredType, NoneTypes
  <2>4. vouched' \subseteq Browsers \X Users
    BY <1>0, <1>5 DEF RegisterPost, TypeOK
  <2>5. joined' \subseteq out' \X Users
    BY <1>0, <1>5 DEF RegisterPost, TypeOK
  <2> QED
    BY <1>5, <2>3, <2>4, <2>5 DEF RegisterPost, TypeOK
<1>6. CASE AuthorizePost(t)
  <2>1. [s EXCEPT !.csrf = NoToken] \in Session
    BY <1>0 DEF Session
  <2>2. request' \in [Tabs -> Request]
    BY <1>0, <1>6, <2>1, AnsweredType, NoneTypes DEF AuthorizePost
  <2>3. used' \subseteq Tokens
    BY <1>6 DEF AuthorizePost, TypeOK
  <2> QED
    BY <1>6, <2>2, <2>3 DEF AuthorizePost, TypeOK
<1>7. CASE LnurlRedirect(t)
  <2> DEFINE u == IF s.nonce = NoToken THEN NoUser ELSE storage[s.nonce]
             s1 == IF u = NoUser THEN s ELSE [s EXCEPT !.user = u]
  <2>1. u \in Users \cup {NoUser}
    BY <1>0 DEF Session, TypeOK
  <2>2. s1 \in Session
    BY <1>0, <2>1 DEF Session
  <2>3. request' \in [Tabs -> Request]
    BY <1>7, <2>2, AnsweredType, NoneTypes DEF LnurlRedirect
  <2> QED
    BY <1>7, <2>3 DEF LnurlRedirect, TypeOK
<1>8. CASE Logout(t)
  <2>1. request' \in [Tabs -> Request]
    BY <1>8, AnsweredType, NoneTypes DEF Logout
  <2> QED
    BY <1>8, <2>1 DEF Logout, TypeOK
<1> QED
  BY <1>1, <1>2, <1>3, <1>4, <1>5, <1>6, <1>7, <1>8 DEF Handle

LEMMA RefreshKeys ==
    ASSUME TypeOK, NEW t \in Tabs, Refresh(t)
    PROVE  /\ challenge' \in [Keys -> Challenge]
           /\ \A k \in Keys :
                \/ challenge'[k] = challenge[k]
                \/ /\ challenge[k].nonce = page[t].token
                   /\ challenge'[k] = [challenge[k] EXCEPT !.state = "refreshed"]
                \/ \E st \in {"shown", "abandoned"} : challenge'[k] =
                     [state |-> st, tab |-> t, nonce |-> page[t].token,
                      user |-> NoUser, event |-> FALSE]
<1> DEFINE n == page[t].token
           replaced == [k \in Keys |->
             IF challenge[k].nonce = n
               THEN [challenge[k] EXCEPT !.state = "refreshed"] ELSE challenge[k]]
           st0 == IF Here(t).nonce = n THEN "shown" ELSE "abandoned"
           drawn == [state |-> st0, tab |-> t, nonce |-> n,
                     user |-> NoUser, event |-> FALSE]
<1>1. st0 \in {"shown", "abandoned"} /\ n \in Tokens \cup {NoToken}
  BY DEF TypeOK, Page
<1>2. challenge' = replaced \/ \E k \in Keys : challenge' = [replaced EXCEPT ![k] = drawn]
  BY DEF Refresh
<1> HIDE DEF st0
<1>3. drawn \in Challenge
  BY <1>1 DEF Challenge
<1>4. \A c \in Challenge : [c EXCEPT !.state = "refreshed"] \in Challenge
  BY DEF Challenge
<1>5. replaced \in [Keys -> Challenge]
  BY <1>4 DEF TypeOK
<1>6. \A k \in Keys : \/ replaced[k] = challenge[k]
                      \/ /\ challenge[k].nonce = n
                         /\ replaced[k] = [challenge[k] EXCEPT !.state = "refreshed"]
  OBVIOUS
<1> HIDE DEF replaced, drawn
<1>7. challenge' \in [Keys -> Challenge]
  BY <1>2, <1>3, <1>5
<1>8. \A k \in Keys : challenge'[k] = replaced[k] \/ challenge'[k] = drawn
  BY <1>2, <1>5
<1> QED
  BY <1>1, <1>6, <1>7, <1>8 DEF drawn

\* A challenge that was drawn belongs to a tab, and a page that draws
\* challenges has a nonce.
KeysInv ==
    /\ \A k \in Keys :
         /\ challenge[k].state # "none" => challenge[k].tab \in Tabs
         /\ challenge[k].state = "none" =>
              /\ challenge[k].nonce = NoToken
              /\ challenge[k].user = NoUser /\ ~challenge[k].event
    /\ \A t \in Tabs :
         /\ page[t].kind \in {"login", "register"} => page[t].token \in Tokens
         /\ request[t].page.kind \in {"login", "register"} =>
              request[t].page.token \in Tokens

LEMMA ChallengeTypes ==
    ASSUME TypeOK, KeysInv,
           \/ \E t \in Tabs : Refresh(t)
           \/ \E k \in Keys : Emit(k) \/ \E u \in Users : Sign(k, u)
           \/ Restart
    PROVE  TypeOK'
<1>1. ASSUME NEW t \in Tabs, Refresh(t) PROVE TypeOK'
  BY <1>1, RefreshKeys DEF Refresh, TypeOK
<1>2. ASSUME NEW k \in Keys, NEW u \in Users, Sign(k, u) PROVE TypeOK'
  <2>1. [challenge[k] EXCEPT !.user = u, !.event = TRUE] \in Challenge
    BY DEF TypeOK, Challenge
  <2>2. challenge[k].tab \in Tabs
    BY <1>2 DEF Sign, KeysInv
  <2> QED
    BY <1>2, <2>1, <2>2 DEF Sign, TypeOK
<1>3. ASSUME NEW k \in Keys, Emit(k) PROVE TypeOK'
  <2> DEFINE c == challenge[k]
  <2>1. c \in Challenge /\ [c EXCEPT !.event = FALSE] \in Challenge
    BY DEF TypeOK, Challenge
  <2>2. challenge' \in [Keys -> Challenge]
    BY <1>3, <2>1 DEF Emit, TypeOK
  <2>3. storage' \in [Tokens -> Users \cup {NoUser}]
    BY <1>3, <2>1 DEF Emit, TypeOK, Challenge
  <2>4. \A r \in Request : [r EXCEPT !.phase = "told"] \in Request
    BY DEF Request
  <2>5. request' \in [Tabs -> Request]
    BY <1>3, <2>4 DEF Emit, TypeOK
  <2> QED
    BY <1>3, <2>2, <2>3, <2>5 DEF Emit, TypeOK
<1>4. CASE Restart
  <2>1. Abandon(Keys) \in [Keys -> Challenge]
    BY AbandonType
  <2>2. \A c \in Challenge : [c EXCEPT !.event = FALSE] \in Challenge
    BY DEF Challenge
  <2>3. challenge' \in [Keys -> Challenge]
    BY <1>4, <2>1, <2>2 DEF Restart
  <2>4. disturbed' \subseteq Browsers
    BY <1>4 DEF Restart, TypeOK
  <2> QED
    BY <1>4, <2>3, <2>4, NoneTypes DEF Restart, TypeOK
<1> QED
  BY <1>1, <1>2, <1>3, <1>4

LEMMA TypeNext == TypeOK /\ KeysInv /\ [Next]_vars => TypeOK'
<1> SUFFICES ASSUME TypeOK, KeysInv, [Next]_vars PROVE TypeOK'
  OBVIOUS
<1>1. CASE UNCHANGED vars
  BY <1>1 DEF vars, TypeOK
<1>2. CASE Restart
  BY <1>2, ChallengeTypes
<1>3. CASE \E t \in Tabs : Refresh(t)
  BY <1>3, ChallengeTypes
<1>4. CASE \E k \in Keys : Emit(k) \/ \E u \in Users : Sign(k, u)
  BY <1>4, ChallengeTypes
<1>5. CASE \E t \in Tabs : Handle(t)
  BY <1>5, HandlerTypes
<1>6. ASSUME NEW t \in Tabs,
             \/ \E target \in Targets : Visit(t, target)
             \/ \E u \in Users \cup {NoUser} : Submit(t, u)
             \/ Follow(t) \/ Deliver(t) \/ Lose(t)
      PROVE  TypeOK'
  BY <1>6, BrowserTypes
<1> QED
  BY <1>1, <1>2, <1>3, <1>4, <1>5, <1>6 DEF Next

----------------------------------------------------------------------------
(***************************************************************************)
(* Who holds a nonce or CSRF token: the browser in whose cookie, pages,    *)
(* requests or challenges it is. It is one at most, and to it belongs the  *)
(* account that waits in the storage.                                      *)
(***************************************************************************)
InCookie(b, n) == n \in {cookie[b].nonce, cookie[b].csrf}
InTab(t, n) ==
    n \in {page[t].token, request[t].token, request[t].page.token,
           request[t].session.nonce, request[t].session.csrf}
InKey(k, n) == challenge[k].state # "none" /\ challenge[k].nonce = n

Holds(b, n) ==
    \/ InCookie(b, n)
    \/ \E t \in Tabs : browser[t] = b /\ InTab(t, n)
    \/ \E k \in Keys : browser[challenge[k].tab] = b /\ InKey(k, n)

Vouched(b, u) == u # NoUser => <<b, u>> \in vouched

UsersInv ==
    /\ \A b \in Browsers : Vouched(b, cookie[b].user)
    /\ \A t \in Tabs : Vouched(browser[t], request[t].session.user)
    /\ \A k \in Keys : Vouched(browser[challenge[k].tab], challenge[k].user)

HoldersInv ==
    /\ \A n \in Tokens : \A b, c \in Browsers : Holds(b, n) /\ Holds(c, n) => b = c
    /\ \A n \in Tokens, b \in Browsers : Holds(b, n) => Vouched(b, storage[n])

OwnInv == KeysInv /\ UsersInv /\ HoldersInv

LEMMA OwnInit == Init => OwnInv
<1> SUFFICES ASSUME Init PROVE OwnInv
  OBVIOUS
<1>1. KeysInv /\ UsersInv
  BY DEF Init, KeysInv, UsersInv, Vouched, Empty, Idle, Other, Unused
<1>2. ASSUME NEW b \in Browsers, NEW n \in Tokens PROVE ~Holds(b, n)
  BY NoneAssumption DEF Init, Holds, InCookie, InTab, InKey, Empty, Idle, Other, Unused
<1>3. HoldersInv
  BY <1>2 DEF HoldersInv
<1> QED
  BY <1>1, <1>3 DEF OwnInv

\* A token that is fresh is held by nobody, and nothing waits under it.
LEMMA FreshUnheld ==
    ASSUME TypeOK, KeysInv, NEW n \in Tokens, Fresh(n)
    PROVE  storage[n] = NoUser /\ \A b \in Browsers : ~Holds(b, n)
BY DEF Fresh, Holds, InCookie, InTab, InKey, KeysInv, TypeOK

\* Only browser b gets new tokens, and only ones that nobody holds.
LEMMA HoldersKept ==
    ASSUME HoldersInv, TypeOK, KeysInv, vouched \subseteq vouched', NEW b,
           \A n \in Tokens : storage'[n] \in {storage[n], NoUser},
           \A n \in Tokens, c \in Browsers :
              Holds(c, n)' => Holds(c, n) \/ (c = b /\ Fresh(n))
    PROVE  HoldersInv'
<1>1. \A n \in Tokens : Fresh(n) => storage[n] = NoUser
                                     /\ \A c \in Browsers : ~Holds(c, n)
  BY FreshUnheld
<1>2. ASSUME NEW n \in Tokens, NEW c \in Browsers, NEW d \in Browsers,
             Holds(c, n)', Holds(d, n)'
      PROVE  c = d
  BY <1>1, <1>2 DEF HoldersInv
<1>3. ASSUME NEW n \in Tokens, NEW c \in Browsers, Holds(c, n)'
      PROVE  Vouched(c, storage[n])'
  <2>1. CASE Fresh(n)
    BY <1>1, <2>1 DEF Vouched
  <2>2. CASE Holds(c, n)
    BY <2>2 DEF Vouched, HoldersInv
  <2> QED
    BY <1>3, <2>1, <2>2
<1> QED
  BY <1>2, <1>3 DEF HoldersInv

\* Giving challenges up changes their state only, and draws none.
LEMMA AbandonKeeps ==
    ASSUME TypeOK, NEW K, NEW k \in Keys
    PROVE  LET c == Abandon(K)[k] IN
           /\ c.state = "none" <=> challenge[k].state = "none"
           /\ c.tab = challenge[k].tab /\ c.nonce = challenge[k].nonce
           /\ c.user = challenge[k].user /\ c.event = challenge[k].event
BY DEF Abandon, TypeOK, Challenge

\* The same for a step that gives some up, or leaves challenges alone.
GivesUp ==
    \A k \in Keys :
        /\ challenge'[k].state = "none" <=> challenge[k].state = "none"
        /\ challenge'[k].tab = challenge[k].tab
        /\ challenge'[k].nonce = challenge[k].nonce
        /\ challenge'[k].user = challenge[k].user
        /\ challenge'[k].event => challenge[k].event

LEMMA GivenUp ==
    ASSUME TypeOK, (\E K : challenge' = Abandon(K)) \/ UNCHANGED challenge
    PROVE  GivesUp
BY AbandonKeeps DEF GivesUp

\* The parts of OwnInv about challenges survive a step that gives some up.
LEMMA GivenUpOwn ==
    ASSUME OwnInv, GivesUp, UNCHANGED browser, vouched \subseteq vouched'
    PROVE  /\ \A k \in Keys :
                /\ challenge'[k].state # "none" => challenge'[k].tab \in Tabs
                /\ challenge'[k].state = "none" =>
                     /\ challenge'[k].nonce = NoToken
                     /\ challenge'[k].user = NoUser /\ ~challenge'[k].event
                /\ Vouched(browser[challenge[k].tab], challenge[k].user)'
           /\ \A k \in Keys, n \in Tokens, b \in Browsers :
                browser'[challenge'[k].tab] = b /\ InKey(k, n)' => Holds(b, n)
<1>1. \A k \in Keys :
        /\ challenge'[k].state # "none" => challenge'[k].tab \in Tabs
        /\ challenge'[k].state = "none" =>
             /\ challenge'[k].nonce = NoToken
             /\ challenge'[k].user = NoUser /\ ~challenge'[k].event
  BY DEF GivesUp, OwnInv, KeysInv
<1>2. \A k \in Keys : Vouched(browser[challenge[k].tab], challenge[k].user)'
  BY DEF GivesUp, OwnInv, UsersInv, Vouched
<1>3. \A k \in Keys, n \in Tokens, b \in Browsers :
        browser'[challenge'[k].tab] = b /\ InKey(k, n)' => Holds(b, n)
  BY DEF GivesUp, InKey, Holds
<1> QED
  BY <1>1, <1>2, <1>3

LEMMA SendOwn ==
    ASSUME TypeOK, OwnInv, NEW t \in Tabs, NEW kind, NEW token, NEW user,
           Send(t, kind, token, user), GivesUp,
           token \in Tokens => Holds(browser[t], token)
    PROVE  OwnInv'
<1> DEFINE r == [phase |-> "sent", kind |-> kind, token |-> token, user |-> user,
                 session |-> Here(t), sets |-> FALSE, page |-> Other]
<1>1. /\ request' = [request EXCEPT ![t] = r]
      /\ UNCHANGED <<browser, cookie, page, storage, vouched>>
  BY DEF Send
<1>2. \A s \in Tabs : request'[s] = IF s = t THEN r ELSE request[s]
  BY <1>1 DEF TypeOK
<1>3. browser[t] \in Browsers
  BY DEF TypeOK
<1>4. KeysInv'
  BY <1>1, <1>2, GivenUpOwn DEF OwnInv, KeysInv, Other
<1>5. UsersInv'
  BY <1>1, <1>2, <1>3, GivenUpOwn DEF OwnInv, UsersInv, Vouched, Here
<1>6. ASSUME NEW n \in Tokens, NEW c \in Browsers, Holds(c, n)' PROVE Holds(c, n)
  <2>1. CASE InCookie(c, n)'
    BY <1>1, <2>1 DEF InCookie, Holds
  <2>2. ASSUME NEW s \in Tabs, browser'[s] = c, InTab(s, n)' PROVE Holds(c, n)
    <3>1. CASE s = t
      <4>1. n \in {page[t].token, token, NoToken, Here(t).nonce, Here(t).csrf}
        BY <1>1, <1>2, <2>2, <3>1 DEF InTab, Other
      <4>2. c = browser[t] /\ n # NoToken
        BY <1>1, <2>2, <3>1, NoneAssumption
      <4> QED
        BY <4>1, <4>2 DEF Holds, InTab, InCookie, Here
    <3>2. CASE s # t
      BY <1>1, <1>2, <2>2, <3>2 DEF InTab, Holds
    <3> QED
      BY <3>1, <3>2
  <2>3. ASSUME NEW k \in Keys, browser'[challenge'[k].tab] = c, InKey(k, n)'
        PROVE  Holds(c, n)
    BY <1>1, <2>3, GivenUpOwn
  <2> QED
    BY <1>6, <2>1, <2>2, <2>3 DEF Holds
<1>7. HoldersInv'
  BY <1>1, <1>3, <1>6, HoldersKept DEF OwnInv
<1> QED
  BY <1>4, <1>5, <1>7 DEF OwnInv

LEMMA AnsweredOwn ==
    ASSUME TypeOK, OwnInv, NEW t \in Tabs, NEW s \in Session, NEW pg \in Page,
           Answered(t, s, pg),
           UNCHANGED <<browser, cookie, page, challenge>>,
           vouched \subseteq vouched',
           \A n \in Tokens : storage'[n] \in {storage[n], NoUser},
           s.user # NoUser => <<browser[t], s.user>> \in vouched',
           pg.kind \in {"login", "register"} => pg.token \in Tokens,
           \A n \in Tokens : n \in {s.nonce, s.csrf, pg.token} =>
              Holds(browser[t], n) \/ Fresh(n)
    PROVE  OwnInv'
<1>1. /\ request'[t].session = s /\ request'[t].page = pg
      /\ request'[t].token = NoToken
      /\ \A q \in Tabs : q # t => request'[q] = request[q]
  BY DEF Answered, TypeOK, Request
<1>2. browser[t] \in Browsers
  BY DEF TypeOK
<1>3. GivesUp
  BY GivenUp
<1>4. KeysInv'
  BY <1>1, <1>3, GivenUpOwn DEF OwnInv, KeysInv
<1>5. UsersInv'
  BY <1>1, <1>2, <1>3, GivenUpOwn DEF OwnInv, UsersInv, Vouched
<1>6. ASSUME NEW n \in Tokens, NEW c \in Browsers, Holds(c, n)'
      PROVE  Holds(c, n) \/ (c = browser[t] /\ Fresh(n))
  <2>1. CASE InCookie(c, n)'
    BY <2>1 DEF InCookie, Holds
  <2>2. ASSUME NEW q \in Tabs, browser'[q] = c, InTab(q, n)'
        PROVE  Holds(c, n) \/ (c = browser[t] /\ Fresh(n))
    <3>1. CASE q = t
      <4>1. n \in {page[t].token, NoToken, s.nonce, s.csrf, pg.token}
        BY <1>1, <2>2, <3>1 DEF InTab
      <4>2. c = browser[t] /\ n # NoToken
        BY <2>2, <3>1, NoneAssumption
      <4> QED
        BY <4>1, <4>2 DEF Holds, InTab
    <3>2. CASE q # t
      BY <1>1, <2>2, <3>2 DEF InTab, Holds
    <3> QED
      BY <3>1, <3>2
  <2>3. ASSUME NEW k \in Keys, browser'[challenge'[k].tab] = c, InKey(k, n)'
        PROVE  Holds(c, n)
    BY <1>3, <2>3, GivenUpOwn
  <2> QED
    BY <1>6, <2>1, <2>2, <2>3 DEF Holds
<1>7. HoldersInv'
  BY <1>2, <1>6, HoldersKept DEF OwnInv
<1> QED
  BY <1>4, <1>5, <1>7 DEF OwnInv

LEMMA SendsOwn ==
    ASSUME TypeOK, OwnInv, NEW t \in Tabs,
           \/ \E target \in Targets : Visit(t, target)
           \/ \E u \in Users \cup {NoUser} : Submit(t, u)
           \/ Follow(t)
    PROVE  OwnInv'
<1>1. \A n \in Tokens : n = page[t].token => Holds(browser[t], n)
  BY DEF Holds, InTab
<1>2. ASSUME NEW target \in Targets, Visit(t, target) PROVE OwnInv'
  <2>1. GivesUp
    BY <1>2, GivenUp DEF Visit
  <2> QED
    BY <1>2, <2>1, SendOwn, NoneAssumption DEF Visit
<1>3. ASSUME NEW u \in Users \cup {NoUser}, Submit(t, u) PROVE OwnInv'
  <2>1. GivesUp
    BY <1>3, GivenUp DEF Submit
  <2> QED
    BY <1>1, <1>3, <2>1, SendOwn, NoneAssumption DEF Submit
<1>4. CASE Follow(t)
  <2>1. GivesUp
    BY <1>4, GivenUp DEF Follow
  <2> QED
    BY <1>4, <2>1, SendOwn, NoneAssumption DEF Follow
<1> QED
  BY <1>2, <1>3, <1>4

LEMMA DeliverOwn ==
    ASSUME TypeOK, OwnInv, NEW t \in Tabs, Deliver(t)
    PROVE  OwnInv'
<1> DEFINE b == browser[t]
           r == request[t]
<1>0. b \in Browsers /\ r \in Request
  BY DEF TypeOK
<1>1. /\ UNCHANGED <<browser, storage, vouched>>
      /\ request' = [request EXCEPT ![t] = Idle]
      /\ cookie' = cookie \/ cookie' = [cookie EXCEPT ![b] = r.session]
      /\ page' = page \/ page' = [page EXCEPT ![t] = r.page]
  BY DEF Deliver
<1>2. GivesUp
  BY GivenUp DEF Deliver
<1>3. \A c \in Browsers : cookie'[c] = cookie[c] \/ (c = b /\ cookie'[c] = r.session)
  BY <1>1 DEF TypeOK
<1>4. \A q \in Tabs : page'[q] = page[q] \/ (q = t /\ page'[q] = r.page)
  BY <1>1 DEF TypeOK
<1>5. \A q \in Tabs : request'[q] = IF q = t THEN Idle ELSE request[q]
  BY <1>1 DEF TypeOK
<1>6. KeysInv'
  BY <1>1, <1>2, <1>4, <1>5, GivenUpOwn DEF OwnInv, KeysInv, Idle, Other
<1>7. UsersInv'
  BY <1>1, <1>2, <1>3, <1>5, GivenUpOwn DEF OwnInv, UsersInv, Vouched, Idle, Empty
<1>8. ASSUME NEW n \in Tokens, NEW c \in Browsers, Holds(c, n)' PROVE Holds(c, n)
  <2>1. CASE InCookie(c, n)'
    BY <1>3, <2>1 DEF InCookie, Holds, InTab
  <2>2. ASSUME NEW q \in Tabs, browser'[q] = c, InTab(q, n)' PROVE Holds(c, n)
    <3>1. CASE q = t
      <4>1. n \in {page[t].token, r.page.token, NoToken}
        BY <1>4, <1>5, <2>2, <3>1 DEF InTab, Idle, Other, Empty
      <4> QED
        BY <1>1, <2>2, <3>1, <4>1, NoneAssumption DEF Holds, InTab
    <3>2. CASE q # t
      BY <1>1, <1>4, <1>5, <2>2, <3>2 DEF InTab, Holds
    <3> QED
      BY <3>1, <3>2
  <2>3. ASSUME NEW k \in Keys, browser'[challenge'[k].tab] = c, InKey(k, n)'
        PROVE  Holds(c, n)
    BY <1>1, <1>2, <2>3, GivenUpOwn
  <2> QED
    BY <1>8, <2>1, <2>2, <2>3 DEF Holds
<1>9. HoldersInv'
  BY <1>0, <1>1, <1>8, HoldersKept DEF OwnInv
<1> QED
  BY <1>6, <1>7, <1>9 DEF OwnInv

\* A step after which tabs have less than before.
LEMMA LessOwn ==
    ASSUME TypeOK, OwnInv, GivesUp, UNCHANGED <<browser, cookie, storage, vouched>>,
           \A t \in Tabs : /\ page'[t] \in {page[t], Other}
                           /\ request'[t] \in {request[t], Idle}
    PROVE  OwnInv'
<1>1. KeysInv'
  BY GivenUpOwn DEF OwnInv, KeysInv, Idle, Other
<1>2. UsersInv'
  BY GivenUpOwn DEF OwnInv, UsersInv, Vouched, Idle, Empty
<1>3. ASSUME NEW n \in Tokens, NEW c \in Browsers, Holds(c, n)' PROVE Holds(c, n)
  <2>1. \A t \in Tabs : InTab(t, n)' => InTab(t, n)
    BY NoneAssumption DEF InTab, Idle, Other, Empty
  <2> QED
    BY <1>3, <2>1, GivenUpOwn DEF Holds, InCookie
<1>4. HoldersInv'
  BY <1>3, HoldersKept DEF OwnInv
<1> QED
  BY <1>1, <1>2, <1>4 DEF OwnInv

LEMMA HandleOwn ==
    ASSUME TypeOK, OwnInv, NEW t \in Tabs, Handle(t)
    PROVE  OwnInv'
<1> DEFINE r == request[t]
           s == r.session
<1>0. /\ s \in Session /\ browser[t] \in Browsers
      /\ s.user # NoUser => <<browser[t], s.user>> \in vouched
      /\ \A n \in Tokens : n \in {s.nonce, s.csrf} => Holds(browser[t], n)
  BY DEF TypeOK, Request, OwnInv, UsersInv, Vouched, Holds, InTab
<1>1. NoToken \notin Tokens /\ Other \in Page /\ Other.token = NoToken
        /\ Other.kind = "other"
  BY NoneAssumption, NoneTypes DEF Other
<1>2. CASE View(t)
  BY <1>0, <1>1, <1>2, AnsweredOwn DEF View
<1>3. CASE NoncePage(t)
  <2>1. PICK n \in Tokens : /\ Fresh(n)
          /\ Answered(t, [s EXCEPT !.nonce = n], [kind |-> r.kind, token |-> n])
    BY <1>3 DEF NoncePage
  <2> DEFINE s1 == [s EXCEPT !.nonce = n]
             pg == [kind |-> r.kind, token |-> n]
  <2>2. /\ s1 \in Session /\ s1.nonce = n /\ s1.csrf = s.csrf /\ s1.user = s.user
        /\ pg \in Page /\ pg.token = n
    BY <1>0, <1>3 DEF NoncePage, Served, Session, Page
  <2>3. /\ Answered(t, s1, pg)
        /\ UNCHANGED <<browser, cookie, page, challenge, storage, vouched>>
    BY <1>3, <2>1 DEF NoncePage
  <2> HIDE DEF s1, pg
  <2>4. \A m \in Tokens : m \in {s1.nonce, s1.csrf, pg.token} =>
          Holds(browser[t], m) \/ Fresh(m)
    BY <1>0, <2>1, <2>2
  <2> QED
    BY <1>0, <2>2, <2>3, <2>4, AnsweredOwn
<1>4. CASE ConsentPage(t)
  <2>1. PICK n \in Tokens : /\ Fresh(n)
          /\ Answered(t, [s EXCEPT !.csrf = n], [kind |-> "consent", token |-> n])
    BY <1>4 DEF ConsentPage
  <2> DEFINE s1 == [s EXCEPT !.csrf = n]
             pg == [kind |-> "consent", token |-> n]
  <2>2. /\ s1 \in Session /\ s1.nonce = s.nonce /\ s1.csrf = n /\ s1.user = s.user
        /\ pg \in Page /\ pg.token = n
    BY <1>0 DEF Session, Page
  <2>3. /\ Answered(t, s1, pg)
        /\ UNCHANGED <<browser, cookie, page, challenge, storage, vouched>>
    BY <1>4, <2>1 DEF ConsentPage
  <2> HIDE DEF s1, pg
  <2>4. \A m \in Tokens : m \in {s1.nonce, s1.csrf, pg.token} =>
          Holds(browser[t], m) \/ Fresh(m)
    BY <1>0, <2>1, <2>2
  <2> QED
    BY <1>0, <2>2, <2>3, <2>4, AnsweredOwn
<1>5. CASE LoginPost(t)
  <2> DEFINE s1 == [s EXCEPT !.nonce = NoToken]
             s2 == [s1 EXCEPT !.user = r.user]
  <2>0. r.user \in Users \cup {NoUser}
    BY DEF TypeOK, Request
  <2>1. /\ s1 \in Session /\ s1.nonce = NoToken /\ s1.csrf = s.csrf /\ s1.user = s.user
        /\ s2 \in Session /\ s2.nonce = NoToken /\ s2.csrf = s.csrf /\ s2.user = r.user
    BY <1>0, <2>0 DEF Session
  <2>2. \/ Answered(t, s1, Other)
        \/ /\ Answered(t, s2, Other) /\ r.user # NoUser
           /\ vouched' = vouched \cup {bu \in {browser[t]} \X Users : bu[2] = r.user}
    BY <1>5 DEF LoginPost
  <2>3. /\ vouched \subseteq vouched'
        /\ UNCHANGED <<browser, cookie, page, challenge, storage>>
    BY <1>5 DEF LoginPost
  <2> HIDE DEF s1, s2
  <2>4. CASE Answered(t, s1, Other)
    BY <1>0, <1>1, <2>1, <2>3, <2>4, AnsweredOwn
  <2>5. CASE /\ Answered(t, s2, Other) /\ r.user # NoUser
             /\ vouched' = vouched \cup {bu \in {browser[t]} \X Users : bu[2] = r.user}
    <3>1. <<browser[t], r.user>> \in vouched'
      BY <2>0, <2>5
    <3> QED
      BY <1>0, <1>1, <2>1, <2>3, <2>5, <3>1, AnsweredOwn
  <2> QED
    BY <2>2, <2>4, <2>5
<1>6. CASE RegisterPost(t)
  <2> DEFINE s1 == [s EXCEPT !.user = r.user]
  <2>0. r.user \in Users \cup {NoUser}
    BY DEF TypeOK, Request
  <2>1. s1 \in Session /\ s1.nonce = s.nonce /\ s1.csrf = s.csrf /\ s1.user = r.user
    BY <1>0, <2>0 DEF Session
  <2>2. \/ Answered(t, s, Other) /\ UNCHANGED vouched
        \/ Answered(t, s1, Other) /\ vouched' = vouched \cup {<<browser[t], r.user>>}
    BY <1>6 DEF RegisterPost
  <2>3. UNCHANGED <<browser, cookie, page, challenge, storage>>
    BY <1>6 DEF RegisterPost
  <2> HIDE DEF s1
  <2>4. CASE Answered(t, s, Other) /\ UNCHANGED vouched
    BY <1>0, <1>1, <2>3, <2>4, AnsweredOwn
  <2>5. CASE Answered(t, s1, Other) /\ vouched' = vouched \cup {<<browser[t], r.user>>}
    <3>1. <<browser[t], s1.user>> \in vouched' /\ vouched \subseteq vouched'
      BY <2>1, <2>5
    <3>2. \A n \in Tokens : n \in {s1.nonce, s1.csrf, Other.token} => Holds(browser[t], n)
      BY <1>0, <1>1, <2>1
    <3> HIDE DEF s, r
    <3> QED
      BY <1>1, <2>1, <2>3, <2>5, <3>1, <3>2, AnsweredOwn
  <2> QED
    BY <2>2, <2>4, <2>5
<1>7. CASE AuthorizePost(t)
  <2> DEFINE s1 == [s EXCEPT !.csrf = NoToken]
  <2>1. s1 \in Session /\ s1.nonce = s.nonce /\ s1.csrf = NoToken /\ s1.user = s.user
    BY <1>0 DEF Session
  <2>2. Answered(t, s, Other) \/ Answered(t, s1, Other)
    BY <1>7 DEF AuthorizePost
  <2>3. UNCHANGED <<browser, cookie, page, challenge, storage, vouched>>
    BY <1>7 DEF AuthorizePost
  <2> HIDE DEF s1
  <2> QED
    BY <1>0, <1>1, <2>1, <2>2, <2>3, AnsweredOwn
<1>8. CASE LnurlRedirect(t)
  <2> DEFINE u == IF s.nonce = NoToken THEN NoUser ELSE storage[s.nonce]
             s1 == [s EXCEPT !.user = u]
             s2 == IF u = NoUser THEN s ELSE s1
  <2>1. u \in Users \cup {NoUser} /\ (u # NoUser => <<browser[t], u>> \in vouched)
    BY <1>0 DEF Session, TypeOK, OwnInv, HoldersInv, Vouched
  <2>2. s1 \in Session /\ s1.nonce = s.nonce /\ s1.csrf = s.csrf /\ s1.user = u
    BY <1>0, <2>1 DEF Session
  <2>3. Answered(t, s2, Other)
    BY <1>8 DEF LnurlRedirect
  <2>4. /\ UNCHANGED <<browser, cookie, page, challenge, vouched>>
        /\ \A n \in Tokens : storage'[n] \in {storage[n], NoUser}
    BY <1>8 DEF LnurlRedirect
  <2> HIDE DEF u, s1
  <2>5. /\ s2 \in Session /\ s2.nonce = s.nonce /\ s2.csrf = s.csrf
        /\ s2.user # NoUser => <<browser[t], s2.user>> \in vouched
    BY <1>0, <2>1, <2>2
  <2> HIDE DEF s2
  <2> QED
    BY <1>0, <1>1, <2>3, <2>4, <2>5, AnsweredOwn
<1>9. CASE Logout(t)
  <2>1. /\ Empty \in Session /\ Empty.nonce = NoToken /\ Empty.csrf = NoToken
        /\ Empty.user = NoUser
    BY NoneTypes DEF Empty
  <2>2. /\ Answered(t, Empty, Other)
        /\ UNCHANGED <<browser, cookie, page, challenge, storage, vouched>>
    BY <1>9 DEF Logout
  <2>3. \A n \in Tokens : n \notin {Empty.nonce, Empty.csrf, Other.token}
    BY <1>1, <2>1
  <2> QED
    BY <1>1, <2>1, <2>2, <2>3, AnsweredOwn
<1> QED
  BY <1>2, <1>3, <1>4, <1>5, <1>6, <1>7, <1>8, <1>9 DEF Handle

LEMMA RefreshOwn ==
    ASSUME TypeOK, OwnInv, NEW t \in Tabs, Refresh(t)
    PROVE  OwnInv'
<1>1. /\ UNCHANGED <<browser, cookie, page, request, storage, vouched>>
      /\ page[t].token \in Tokens /\ browser[t] \in Browsers
  BY DEF Refresh, OwnInv, KeysInv, TypeOK
<1>2. ASSUME NEW k \in Keys
      PROVE  /\ challenge'[k].state # "none" => challenge'[k].tab \in Tabs
             /\ challenge'[k].state = "none" =>
                  /\ challenge'[k].nonce = NoToken
                  /\ challenge'[k].user = NoUser /\ ~challenge'[k].event
             /\ Vouched(browser[challenge[k].tab], challenge[k].user)'
             /\ \A n \in Tokens, b \in Browsers :
                  browser'[challenge'[k].tab] = b /\ InKey(k, n)' => Holds(b, n)
  <2>1. CASE challenge'[k] = challenge[k]
    BY <1>1, <2>1 DEF OwnInv, KeysInv, UsersInv, Vouched, InKey, Holds
  <2>2. CASE /\ challenge[k].nonce = page[t].token
             /\ challenge'[k] = [challenge[k] EXCEPT !.state = "refreshed"]
    <3>1. challenge[k].state # "none"
      BY <1>1, <2>2, NoneAssumption DEF OwnInv, KeysInv
    <3>2. /\ challenge'[k].state = "refreshed" /\ challenge'[k].tab = challenge[k].tab
          /\ challenge'[k].nonce = challenge[k].nonce
          /\ challenge'[k].user = challenge[k].user
      BY <2>2 DEF TypeOK, Challenge
    <3> QED
      BY <1>1, <3>1, <3>2 DEF OwnInv, KeysInv, UsersInv, Vouched, InKey, Holds
  <2>3. CASE \E st \in {"shown", "abandoned"} : challenge'[k] =
               [state |-> st, tab |-> t, nonce |-> page[t].token,
                user |-> NoUser, event |-> FALSE]
    BY <1>1, <2>3 DEF Vouched, InKey, Holds, InTab
  <2> QED
    BY <2>1, <2>2, <2>3, RefreshKeys
<1>3. KeysInv'
  BY <1>1, <1>2 DEF OwnInv, KeysInv
<1>4. UsersInv'
  BY <1>1, <1>2 DEF OwnInv, UsersInv, Vouched
<1>5. ASSUME NEW n \in Tokens, NEW c \in Browsers, Holds(c, n)' PROVE Holds(c, n)
  BY <1>1, <1>2, <1>5 DEF Holds, InCookie, InTab
<1>6. HoldersInv'
  BY <1>1, <1>5, HoldersKept DEF OwnInv
<1> QED
  BY <1>3, <1>4, <1>6 DEF OwnInv

LEMMA SignOwn ==
    ASSUME TypeOK, OwnInv, NEW k \in Keys, NEW u \in Users, Sign(k, u)
    PROVE  OwnInv'
<1>1. /\ UNCHANGED <<browser, cookie, page, request, storage>>
      /\ vouched' = vouched \cup {<<browser[challenge[k].tab], u>>}
      /\ challenge' = [challenge EXCEPT ![k].user = u, ![k].event = TRUE]
      /\ challenge[k].state # "none"
  BY DEF Sign
<1>2. \A j \in Keys :
        /\ challenge'[j].state = challenge[j].state
        /\ challenge'[j].tab = challenge[j].tab
        /\ challenge'[j].nonce = challenge[j].nonce
        /\ challenge'[j].user = IF j = k THEN u ELSE challenge[j].user
        /\ j # k => challenge'[j] = challenge[j]
  BY <1>1 DEF TypeOK, Challenge
<1>3. KeysInv'
  <2>1. \A j \in Keys : challenge'[j].state = "none" => j # k /\ challenge'[j] = challenge[j]
    BY <1>1, <1>2
  <2> QED
    BY <1>1, <1>2, <2>1, ZenonT(30) DEF OwnInv, KeysInv
<1>4. UsersInv'
  <2>1. vouched \subseteq vouched' /\ <<browser[challenge[k].tab], u>> \in vouched'
    BY <1>1
  <2>2. \A j \in Keys : Vouched(browser[challenge[j].tab], challenge[j].user)'
    BY <1>1, <1>2, <2>1 DEF OwnInv, UsersInv, Vouched
  <2> QED
    BY <1>1, <2>1, <2>2 DEF OwnInv, UsersInv, Vouched
<1>5. ASSUME NEW n \in Tokens, NEW c \in Browsers, Holds(c, n)' PROVE Holds(c, n)
  BY <1>1, <1>2, <1>5 DEF Holds, InCookie, InTab, InKey
<1>6. HoldersInv'
  BY <1>1, <1>5, HoldersKept DEF OwnInv
<1> QED
  BY <1>3, <1>4, <1>6 DEF OwnInv

LEMMA EmitOwn ==
    ASSUME TypeOK, OwnInv, NEW k \in Keys, Emit(k)
    PROVE  OwnInv'
<1> DEFINE c == challenge[k]
           b == browser[c.tab]
<1>1. /\ UNCHANGED <<browser, cookie, page, vouched>> /\ c.event
      /\ challenge' = [challenge EXCEPT ![k].event = FALSE]
      /\ storage' = storage \/ storage' = [storage EXCEPT ![c.nonce] = c.user]
      /\ request' = request \/ request' = [request EXCEPT ![c.tab].phase = "told"]
  BY DEF Emit
<1>2. /\ c.state # "none" /\ c.tab \in Tabs /\ b \in Browsers
      /\ c.user # NoUser => <<b, c.user>> \in vouched
  BY <1>1 DEF OwnInv, KeysInv, UsersInv, Vouched, TypeOK
<1>3. \A j \in Keys : /\ challenge'[j].state = challenge[j].state
                      /\ challenge'[j].tab = challenge[j].tab
                      /\ challenge'[j].nonce = challenge[j].nonce
                      /\ challenge'[j].user = challenge[j].user
                      /\ challenge'[j].event => challenge[j].event
  BY <1>1 DEF TypeOK, Challenge
<1>4. \A t \in Tabs : /\ request'[t].session = request[t].session
                      /\ request'[t].page = request[t].page
                      /\ request'[t].token = request[t].token
  BY <1>1 DEF TypeOK, Request
<1>5. KeysInv'
  BY <1>1, <1>3, <1>4 DEF OwnInv, KeysInv
<1>6. UsersInv'
  BY <1>1, <1>3, <1>4 DEF OwnInv, UsersInv, Vouched
<1>7. ASSUME NEW n \in Tokens, NEW d \in Browsers, Holds(d, n)' PROVE Holds(d, n)
  BY <1>1, <1>3, <1>4, <1>7 DEF Holds, InCookie, InTab, InKey
<1>8. ASSUME NEW n \in Tokens, NEW d \in Browsers, Holds(d, n)'
      PROVE  Vouched(d, storage[n])'
  <2>1. Holds(d, n)
    BY <1>7, <1>8
  <2>2. CASE storage'[n] = storage[n]
    BY <1>1, <2>1, <2>2 DEF OwnInv, HoldersInv, Vouched
  <2>3. CASE storage'[n] # storage[n]
    <3>1. n = c.nonce /\ storage'[n] = c.user
      BY <1>1, <2>3 DEF TypeOK
    <3>2. Holds(b, n)
      BY <1>2, <3>1 DEF Holds, InKey
    <3>3. d = b
      BY <1>2, <2>1, <3>2 DEF OwnInv, HoldersInv
    <3> QED
      BY <1>1, <1>2, <3>1, <3>3 DEF Vouched
  <2> QED
    BY <2>2, <2>3
<1>9. HoldersInv'
  BY <1>7, <1>8 DEF OwnInv, HoldersInv
<1> QED
  BY <1>5, <1>6, <1>9 DEF OwnInv

LEMMA OwnNext == TypeOK /\ OwnInv /\ [Next]_vars => OwnInv'
<1> SUFFICES ASSUME TypeOK, OwnInv, [Next]_vars PROVE OwnInv'
  OBVIOUS
<1>1. ASSUME NEW t \in Tabs,
             \/ \E target \in Targets : Visit(t, target)
             \/ \E u \in Users \cup {NoUser} : Submit(t, u)
             \/ Follow(t)
      PROVE  OwnInv'
  BY <1>1, SendsOwn
<1>2. ASSUME NEW t \in Tabs, Handle(t) \/ Deliver(t) \/ Refresh(t) PROVE OwnInv'
  BY <1>2, HandleOwn, DeliverOwn, RefreshOwn
<1>3. ASSUME NEW t \in Tabs, Lose(t) PROVE OwnInv'
  <2>1. GivesUp
    BY <1>3, GivenUp DEF Lose
  <2> QED
    BY <1>3, <2>1, LessOwn DEF Lose, TypeOK
<1>4. ASSUME NEW k \in Keys, Emit(k) \/ \E u \in Users : Sign(k, u) PROVE OwnInv'
  BY <1>4, EmitOwn, SignOwn
<1>5. CASE Restart
  <2>1. \A k \in Keys : challenge'[k] = [Abandon(Keys)[k] EXCEPT !.event = FALSE]
    BY <1>5 DEF Restart
  <2>2. \A k \in Keys : Abandon(Keys)[k] \in Challenge
    BY AbandonType
  <2>3. ASSUME NEW c \in Challenge
        PROVE  LET d == [c EXCEPT !.event = FALSE] IN
               /\ d.state = c.state /\ d.tab = c.tab /\ d.nonce = c.nonce
               /\ d.user = c.user /\ ~d.event
    BY DEF Challenge
  <2>4. ASSUME NEW k \in Keys
        PROVE  /\ challenge'[k].state = "none" <=> challenge[k].state = "none"
               /\ challenge'[k].tab = challenge[k].tab
               /\ challenge'[k].nonce = challenge[k].nonce
               /\ challenge'[k].user = challenge[k].user
               /\ challenge'[k].event => challenge[k].event
    <3> DEFINE a == Abandon(Keys)[k]
    <3>1. /\ a.state = "none" <=> challenge[k].state = "none"
          /\ a.tab = challenge[k].tab /\ a.nonce = challenge[k].nonce
          /\ a.user = challenge[k].user
      BY AbandonKeeps
    <3>2. a \in Challenge /\ challenge'[k] = [a EXCEPT !.event = FALSE]
      BY <2>1, <2>2
    <3> HIDE DEF a
    <3>3. /\ challenge'[k].state = a.state /\ challenge'[k].tab = a.tab
          /\ challenge'[k].nonce = a.nonce /\ challenge'[k].user = a.user
          /\ ~challenge'[k].event
      BY <2>3, <3>2
    <3> QED
      BY <3>1, <3>3
  <2>5. GivesUp
    BY <2>4 DEF GivesUp
  <2> QED
    BY <1>5, <2>5, LessOwn DEF Restart
<1>6. CASE UNCHANGED vars
  <2>1. GivesUp
    BY <1>6, GivenUp DEF vars
  <2> QED
    BY <1>6, <2>1, LessOwn DEF vars
<1> QED
  BY <1>1, <1>2, <1>3, <1>4, <1>5, <1>6 DEF Next

----------------------------------------------------------------------------
\* TypeOK for every value of the constants.
THEOREM TypeCorrect == Spec => []TypeOK
<1>1. TypeOK /\ OwnInv /\ [Next]_vars => TypeOK' /\ OwnInv'
  BY TypeNext, OwnNext DEF OwnInv
<1> QED
  BY <1>1, TypeInit, OwnInit, PTL DEF Spec

\* A browser is signed in only to accounts whose credentials were given in
\* it, or whose wallet answered a QR code it showed (OwnAccount).
THEOREM AccountsOwn == Spec => []OwnAccount
<1>1. TypeOK /\ OwnInv /\ [Next]_vars => TypeOK' /\ OwnInv'
  BY TypeNext, OwnNext DEF OwnInv
<1>2. OwnInv => OwnAccount
  BY DEF OwnInv, UsersInv, Vouched, OwnAccount
<1> QED
  BY <1>1, <1>2, TypeInit, OwnInit, PTL DEF Spec

----------------------------------------------------------------------------
(***************************************************************************)
(* Logout. The session of a browser that is out, and those of its requests *)
(* under way, hold no nonce, and no account but one it has registered      *)
(* since: nothing of it can pick up an account that waits somewhere.       *)
(***************************************************************************)
Quiet(b, s) ==
    /\ s.nonce = NoToken
    /\ s.user # NoUser => <<b, s.user>> \in joined

OutInv ==
    /\ \A b \in out : Quiet(b, cookie[b])
    /\ \A t \in Tabs : browser[t] \in out /\ InFlight(t)
                         => Quiet(browser[t], request[t].session)
    /\ \A t \in Tabs : request[t].phase = "answered" /\ request[t].kind = "logout"
                         => request[t].session = Empty

LEMMA OutSend ==
    ASSUME TypeOK, OutInv, NEW t \in Tabs, NEW kind, NEW token, NEW user,
           Send(t, kind, token, user)
    PROVE  OutInv'
<1>1. /\ request'[t].session = cookie[browser[t]] /\ request'[t].phase = "sent"
      /\ \A s \in Tabs : s # t => request'[s] = request[s]
      /\ UNCHANGED <<browser, cookie, out, joined>>
  BY DEF Send, Here, TypeOK
<1> QED
  BY <1>1 DEF OutInv, InFlight, Quiet

LEMMA OutAnswered ==
    ASSUME TypeOK, OutInv, NEW t \in Tabs, NEW s, NEW pg, Answered(t, s, pg),
           UNCHANGED <<browser, cookie>>, InFlight(t), out' \subseteq out,
           \A b \in out', u \in Users : <<b, u>> \in joined => <<b, u>> \in joined',
           browser[t] \in out' => Quiet(browser[t], s)',
           request[t].kind = "logout" => s = Empty
    PROVE  OutInv'
<1>1. /\ request'[t].session = s /\ request'[t].kind = request[t].kind
      /\ \A q \in Tabs : q # t => request'[q] = request[q]
  BY DEF Answered, TypeOK, Request
<1>2. \A b \in out', z \in Session : Quiet(b, z) => Quiet(b, z)'
  BY DEF Quiet, Session
<1>3. \A b \in out' : Quiet(b, cookie[b])'
  BY <1>2 DEF OutInv, TypeOK, Quiet
<1>4. ASSUME NEW q \in Tabs, browser'[q] \in out', InFlight(q)'
      PROVE  Quiet(browser[q], request[q].session)'
  <2>1. CASE q = t
    BY <1>1, <1>4, <2>1 DEF Quiet
  <2>2. CASE q # t
    <3>1. /\ request'[q] = request[q] /\ request[q].session \in Session
          /\ Quiet(browser[q], request[q].session)
      BY <1>1, <1>4, <2>2 DEF OutInv, InFlight, TypeOK, Request
    <3>2. <<browser[q], request[q].session.user>> \in joined =>
            <<browser[q], request[q].session.user>> \in joined' \/ request[q].session.user = NoUser
      BY <1>4, <3>1 DEF Session
    <3> QED
      BY <3>1, <3>2 DEF Quiet
  <2> QED
    BY <2>1, <2>2
<1>5. \A q \in Tabs : request'[q].phase = "answered" /\ request'[q].kind = "logout"
                        => request'[q].session = Empty
  BY <1>1 DEF OutInv
<1> QED
  BY <1>3, <1>4, <1>5 DEF OutInv

LEMMA OutHandle ==
    ASSUME TypeOK, OutInv, NEW t \in Tabs, Handle(t)
    PROVE  OutInv'
<1> DEFINE r == request[t]
           s == r.session
           b == browser[t]
<1>0. s \in Session /\ (b \in out /\ InFlight(t) => Quiet(b, s))
  BY DEF TypeOK, Request, OutInv
<1>1. ASSUME UNCHANGED <<browser, joined>>, NEW z, Quiet(b, z) PROVE Quiet(browser[t], z)'
  BY <1>1 DEF Quiet
<1>2. CASE View(t)
  <2>1. /\ Answered(t, s, Other) /\ UNCHANGED <<browser, cookie, out, joined>>
        /\ InFlight(t) /\ r.kind # "logout"
    BY <1>2 DEF View, Served, InFlight
  <2> QED
    BY <1>0, <1>1, <2>1, OutAnswered
<1>3. CASE NoncePage(t)
  <2>1. PICK z, pg : Answered(t, z, pg)
    BY <1>3 DEF NoncePage
  <2>2. /\ UNCHANGED <<browser, cookie>> /\ InFlight(t) /\ r.kind # "logout"
        /\ out' = out \ {b} /\ joined' = {bu \in joined : bu[1] # b}
    BY <1>3 DEF NoncePage, Served, InFlight
  <2>3. \A c \in out', u \in Users : <<c, u>> \in joined => <<c, u>> \in joined'
    BY <2>2
  <2>4. out' \subseteq out /\ browser[t] \notin out'
    BY <2>2
  <2> QED
    BY <2>1, <2>2, <2>3, <2>4, OutAnswered
<1>4. CASE ConsentPage(t)
  <2>1. PICK n, pg : Answered(t, [s EXCEPT !.csrf = n], pg)
    BY <1>4 DEF ConsentPage
  <2> DEFINE s1 == [s EXCEPT !.csrf = n]
  <2>2. s1.nonce = s.nonce /\ s1.user = s.user
    BY <1>0 DEF Session
  <2>3. /\ UNCHANGED <<browser, cookie, out, joined>> /\ InFlight(t)
        /\ r.kind # "logout" /\ Answered(t, s1, pg)
    BY <1>4, <2>1 DEF ConsentPage, Served, InFlight
  <2> HIDE DEF s1
  <2>4. b \in out => Quiet(b, s1)
    BY <1>0, <2>2, <2>3 DEF Quiet
  <2> QED
    BY <1>1, <2>3, <2>4, OutAnswered
<1>5. CASE LoginPost(t)
  <2> DEFINE s1 == [s EXCEPT !.nonce = NoToken]
             s2 == [s1 EXCEPT !.user = r.user]
  <2>1. s1.nonce = NoToken /\ s1.user = s.user
    BY <1>0 DEF Session
  <2>2. \/ Answered(t, s1, Other)
        \/ Answered(t, s2, Other) /\ s.nonce \in Tokens
    BY <1>5 DEF LoginPost
  <2>3. /\ UNCHANGED <<browser, cookie, out, joined>> /\ InFlight(t)
        /\ r.kind # "logout"
    BY <1>5 DEF LoginPost, Served, InFlight
  <2> HIDE DEF s1, s2
  <2>4. b \in out => Quiet(b, s1)
    BY <1>0, <2>1, <2>3 DEF Quiet
  <2>5. s.nonce \in Tokens => b \notin out
    BY <1>0, <2>3, NoneAssumption DEF Quiet
  <2> QED
    BY <1>1, <2>2, <2>3, <2>4, <2>5, OutAnswered
<1>6. CASE RegisterPost(t)
  <2> DEFINE s1 == [s EXCEPT !.user = r.user]
  <2>1. s1.nonce = s.nonce /\ s1.user = r.user
    BY <1>0 DEF Session
  <2>2. /\ UNCHANGED <<browser, cookie, out>> /\ InFlight(t) /\ r.kind # "logout"
    BY <1>6 DEF RegisterPost, Served, InFlight
  <2>3. \/ Answered(t, s, Other) /\ UNCHANGED joined
        \/ /\ Answered(t, s1, Other)
           /\ joined' = joined \cup ({b} \cap out) \X {r.user}
    BY <1>6 DEF RegisterPost
  <2> HIDE DEF s1
  <2>4. CASE Answered(t, s, Other) /\ UNCHANGED joined
    BY <1>0, <1>1, <2>2, <2>4, OutAnswered
  <2>5. CASE /\ Answered(t, s1, Other)
             /\ joined' = joined \cup ({b} \cap out) \X {r.user}
    <3>1. PICK z : z = s1
      OBVIOUS
    <3>2. b \in out => <<b, z.user>> \in joined' /\ z.nonce = NoToken
      BY <1>0, <2>1, <2>2, <2>5, <3>1 DEF Quiet
    <3>3. browser[t] \in out' => Quiet(browser[t], z)'
      BY <2>2, <3>2 DEF Quiet
    <3>4. joined \subseteq joined' /\ Answered(t, z, Other)
      BY <2>5, <3>1
    <3> QED
      BY <2>2, <3>3, <3>4, OutAnswered
  <2> QED
    BY <2>3, <2>4, <2>5
<1>7. CASE AuthorizePost(t)
  <2>1. /\ UNCHANGED <<browser, cookie, out, joined>> /\ InFlight(t)
        /\ r.kind # "logout"
    BY <1>7 DEF AuthorizePost, Served, InFlight
  <2> DEFINE s1 == [s EXCEPT !.csrf = NoToken]
  <2>2. s1.nonce = s.nonce /\ s1.user = s.user
    BY <1>0 DEF Session
  <2>3. Answered(t, s, Other) \/ Answered(t, s1, Other)
    BY <1>7 DEF AuthorizePost
  <2> HIDE DEF s1
  <2>4. b \in out => Quiet(b, s1)
    BY <1>0, <2>1, <2>2 DEF Quiet
  <2> QED
    BY <1>0, <1>1, <2>1, <2>3, <2>4, OutAnswered
<1>8. CASE LnurlRedirect(t)
  <2> DEFINE u == IF s.nonce = NoToken THEN NoUser ELSE storage[s.nonce]
             s1 == IF u = NoUser THEN s ELSE [s EXCEPT !.user = u]
  <2>1. Quiet(b, s) => Quiet(b, s1)
    BY DEF Quiet
  <2>2. /\ Answered(t, s1, Other) /\ UNCHANGED <<browser, cookie, out, joined>>
        /\ InFlight(t) /\ r.kind # "logout"
    BY <1>8 DEF LnurlRedirect, Served, InFlight
  <2> HIDE DEF s1
  <2> QED
    BY <1>0, <1>1, <2>1, <2>2, OutAnswered
<1>9. CASE Logout(t)
  <2>1. /\ Answered(t, Empty, Other) /\ UNCHANGED <<browser, cookie, out, joined>>
        /\ InFlight(t)
    BY <1>9 DEF Logout, Served, InFlight
  <2>2. Quiet(b, Empty)
    BY DEF Quiet, Empty
  <2> QED
    BY <1>1, <2>1, <2>2, OutAnswered
<1> QED
  BY <1>2, <1>3, <1>4, <1>5, <1>6, <1>7, <1>8, <1>9 DEF Handle

LEMMA OutDeliver ==
    ASSUME TypeOK, OutInv, NEW t \in Tabs, Deliver(t)
    PROVE  OutInv'
<1> DEFINE b == browser[t]
           r == request[t]
           ended == /\ r.kind = "logout" /\ r.sets
                    /\ \A s \in Tabs \ {t} : browser[s] = b => ~InFlight(s)
<1>1. /\ UNCHANGED browser /\ r.phase = "answered" /\ b \in Browsers
      /\ \A q \in Tabs : request'[q] = IF q = t THEN Idle ELSE request[q]
      /\ \A c \in Browsers : cookie'[c] =
           IF c = b /\ r.sets THEN r.session ELSE cookie[c]
  BY DEF Deliver, TypeOK
<1>2. /\ out' = IF ended THEN out \cup {b} ELSE out
      /\ joined' = {bu \in joined : ended => bu[1] # b}
  BY DEF Deliver
<1>3. \A q \in Tabs : InFlight(q)' => q # t /\ InFlight(q) /\ request'[q] = request[q]
  BY <1>1 DEF InFlight, Idle
<1>4. \A q \in Tabs : request'[q].phase = "answered" /\ request'[q].kind = "logout"
                        => request'[q].session = Empty
  BY <1>1 DEF OutInv, Idle
<1>5. CASE ~ended
  <2>1. out' = out /\ joined' = joined
    BY <1>2, <1>5
  <2>2. b \in out => Quiet(b, r.session)
    BY <1>1 DEF OutInv, InFlight
  <2>3. \A c \in out' : Quiet(c, cookie[c])'
    BY <1>1, <2>1, <2>2 DEF OutInv, Quiet, TypeOK
  <2>4. \A q \in Tabs : browser'[q] \in out' /\ InFlight(q)'
                          => Quiet(browser[q], request[q].session)'
    BY <1>1, <1>3, <2>1 DEF OutInv, Quiet
  <2> QED
    BY <1>4, <2>3, <2>4 DEF OutInv
<1>6. CASE ended
  <2>1. out' = out \cup {b}
    BY <1>2, <1>6
  <2>2. \A c, u : c # b /\ <<c, u>> \in joined => <<c, u>> \in joined'
    BY <1>2
  <2>3. cookie'[b] = Empty
    BY <1>1, <1>6 DEF OutInv
  <2>4. Quiet(b, cookie[b])'
    BY <1>1, <2>3 DEF Quiet, Empty
  <2>5. \A c \in out' : Quiet(c, cookie[c])'
    <3> SUFFICES ASSUME NEW c \in out', c # b PROVE Quiet(c, cookie[c])'
      BY <1>1, <2>4 DEF Quiet
    <3>1. Quiet(c, cookie[c]) /\ cookie'[c] = cookie[c]
      BY <1>1, <2>1 DEF OutInv, TypeOK
    <3> QED
      BY <2>2, <3>1 DEF Quiet
  <2>6. ASSUME NEW q \in Tabs, browser'[q] \in out', InFlight(q)'
        PROVE  Quiet(browser[q], request[q].session)'
    <3>1. browser[q] # b /\ browser[q] \in out
      BY <1>1, <1>3, <1>6, <2>1, <2>6
    <3>2. Quiet(browser[q], request[q].session)
      BY <1>3, <2>6, <3>1 DEF OutInv
    <3> QED
      BY <1>1, <1>3, <2>2, <2>6, <3>1, <3>2 DEF Quiet
  <2> QED
    BY <1>4, <2>5, <2>6 DEF OutInv
<1> QED
  BY <1>5, <1>6

LEMMA OutNext == TypeOK /\ OwnInv /\ OutInv /\ [Next]_vars => OutInv'
<1> SUFFICES ASSUME TypeOK, OwnInv, OutInv, [Next]_vars PROVE OutInv'
  OBVIOUS
<1>1. ASSUME NEW t \in Tabs, \E target \in Targets : Visit(t, target) PROVE OutInv'
  BY <1>1, OutSend DEF Visit
<1>2. ASSUME NEW t \in Tabs, \E u \in Users \cup {NoUser} : Submit(t, u) PROVE OutInv'
  BY <1>2, OutSend DEF Submit
<1>3. ASSUME NEW t \in Tabs, Follow(t) PROVE OutInv'
  BY <1>3, OutSend DEF Follow
<1>4. ASSUME NEW t \in Tabs, Handle(t) \/ Deliver(t) PROVE OutInv'
  BY <1>4, OutHandle, OutDeliver
<1>5. ASSUME UNCHANGED <<browser, cookie, out, joined>>,
             \A t \in Tabs : request'[t] = request[t] \/ request'[t] = Idle
      PROVE  OutInv'
  BY <1>5 DEF OutInv, InFlight, Idle, Quiet
<1>6. ASSUME NEW t \in Tabs, Lose(t) \/ Refresh(t) PROVE OutInv'
  BY <1>5, <1>6 DEF Lose, Refresh, TypeOK
<1>7. ASSUME NEW k \in Keys, \E u \in Users : Sign(k, u) PROVE OutInv'
  BY <1>5, <1>7 DEF Sign
<1>8. ASSUME NEW k \in Keys, Emit(k) PROVE OutInv'
  <2>1. /\ UNCHANGED <<browser, cookie, out, joined>>
        /\ \A t \in Tabs : \/ request'[t] = request[t]
                           \/ request'[t].phase = "told"
    BY <1>8 DEF Emit, TypeOK, Request
  <2> QED
    BY <2>1 DEF OutInv, InFlight, Quiet
<1>9. CASE Restart \/ UNCHANGED vars
  BY <1>5, <1>9 DEF Restart, vars
<1> QED
  BY <1>1, <1>2, <1>3, <1>4, <1>6, <1>7, <1>8, <1>9 DEF Next

\* After an undisturbed logout, and until the browser gets a new login or
\* register page, neither answers from before, nor login forms, nor a
\* wallet's event sign it in again: only to an account that it registers
\* itself with an older register form can it be signed in (LogoutSticks).
THEOREM LogoutLasts == Spec => []LogoutSticks
<1>1. TypeOK /\ OwnInv /\ OutInv /\ [Next]_vars => TypeOK' /\ OwnInv' /\ OutInv'
  BY TypeNext, OwnNext, OutNext DEF OwnInv
<1>2. Init => OutInv
  BY DEF Init, OutInv, InFlight, Idle
<1>3. OutInv => LogoutSticks
  BY DEF OutInv, Quiet, LogoutSticks
<1> QED
  BY <1>1, <1>2, <1>3, TypeInit, OwnInit, PTL DEF Spec

----------------------------------------------------------------------------
(***************************************************************************)
(* Forms are accepted once. In a browser that is not disturbed a request   *)
(* is alone; it carries the session of the cookie, in which no token is    *)
(* spent, and its answer holds no spent token either.                      *)
(***************************************************************************)
TokensOf(s) == {s.nonce, s.csrf} \cap Tokens
Apart(s) == s.nonce \in Tokens => s.nonce # s.csrf
Unspent(s) == TokensOf(s) \cap used = {}
Alone(t) == \A s \in Tabs \ {t} : browser[s] = browser[t] => ~InFlight(s)

SpentInv ==
    /\ \A b \in Browsers : Apart(cookie[b])
    /\ \A t \in Tabs : InFlight(t) => Apart(request[t].session)
    /\ \A t \in Tabs : browser[t] \notin disturbed /\ InFlight(t) =>
         /\ Alone(t)
         /\ request[t].phase = "sent" =>
              /\ request[t].session = cookie[browser[t]]
              /\ Unspent(cookie[browser[t]])
         /\ request[t].phase = "answered" =>
              /\ Unspent(request[t].session)
              /\ request[t].sets \/ cookie[browser[t]] = Empty
    /\ \A b \in Browsers \ disturbed :
         (\A t \in Tabs : browser[t] = b => ~InFlight(t)) => Unspent(cookie[b])

LEMMA EmptyUnspent == Apart(Empty) /\ TokensOf(Empty) = {}
BY NoneAssumption DEF Apart, TokensOf, Empty

LEMMA SpentSend ==
    ASSUME TypeOK, SpentInv, NEW t \in Tabs, NEW kind, NEW token, NEW user,
           Send(t, kind, token, user), ~InFlight(t)
    PROVE  SpentInv'
<1> DEFINE b == browser[t]
<1>1. /\ request'[t].session = cookie[b] /\ request'[t].phase = "sent"
      /\ \A s \in Tabs : s # t => request'[s] = request[s]
      /\ UNCHANGED <<browser, cookie, used>> /\ b \in Browsers
      /\ disturbed \subseteq disturbed'
      /\ b \notin disturbed' =>
           \A s \in Tabs \ {t} : browser[s] = b => ~InFlight(s)
  BY DEF Send, Here, TypeOK
<1>2. b \notin disturbed' => Unspent(cookie[b]) /\ Alone(t)
  BY <1>1 DEF SpentInv, Alone
<1>3. \A s \in Tabs : s # t => (InFlight(s)' <=> InFlight(s))
  BY <1>1 DEF InFlight
<1>4. \A s \in Tabs : Alone(s)' \/ (Alone(s) => browser[s] = b)
  BY <1>1, <1>3 DEF Alone
<1>5. Alone(t) => Alone(t)'
  BY <1>1, <1>3 DEF Alone
<1>6. ASSUME NEW s \in Tabs, s # t, browser'[s] \notin disturbed', InFlight(s)'
      PROVE  browser[s] # b /\ Alone(s)'
  <2>1. browser[s] # b
    BY <1>1, <1>3, <1>6
  <2> QED
    BY <1>1, <1>3, <1>4, <1>6, <2>1 DEF SpentInv
<1>7. \A c \in Browsers : Unspent(cookie[c])' <=> Unspent(cookie[c])
  BY <1>1 DEF Unspent, TokensOf
<1>8. \A s \in Tabs : s # t => (Unspent(request[s].session)' <=> Unspent(request[s].session))
  BY <1>1 DEF Unspent, TokensOf
<1>9. /\ \A c \in Browsers : Apart(cookie[c])'
      /\ \A s \in Tabs : InFlight(s)' => Apart(request[s].session)'
  BY <1>1, <1>3 DEF SpentInv, Apart
<1>10. ASSUME NEW s \in Tabs, browser'[s] \notin disturbed', InFlight(s)'
       PROVE  /\ Alone(s)'
              /\ request'[s].phase = "sent" =>
                   /\ request'[s].session = cookie'[browser'[s]]
                   /\ Unspent(cookie[browser[s]])'
              /\ request'[s].phase = "answered" =>
                   /\ Unspent(request[s].session)'
                   /\ request'[s].sets \/ cookie'[browser'[s]] = Empty
  <2>1. CASE s = t
    BY <1>1, <1>2, <1>5, <1>7, <1>10, <2>1
  <2>2. CASE s # t
    BY <1>1, <1>3, <1>6, <1>7, <1>8, <1>10, <2>2 DEF SpentInv, TypeOK
  <2> QED
    BY <2>1, <2>2
<1>11. ASSUME NEW c \in Browsers, c \notin disturbed',
              \A s \in Tabs : browser'[s] = c => ~InFlight(s)'
       PROVE  Unspent(cookie[c])'
  <2>1. c # b
    BY <1>1, <1>11 DEF InFlight
  <2>2. \A s \in Tabs : browser[s] = c => ~InFlight(s)
    BY <1>1, <1>3, <1>11, <2>1
  <2> QED
    BY <1>1, <1>7, <1>11, <2>2 DEF SpentInv
<1> QED
  BY <1>9, <1>10, <1>11 DEF SpentInv

\* A handler leaves a session of tokens that it had, and has not spent, or
\* that are fresh; and it spends tokens that it had.
LEMMA SpentAnswered ==
    ASSUME TypeOK, OwnInv, SpentInv, NEW t \in Tabs, NEW s \in Session, NEW pg,
           Answered(t, s, pg), request[t].phase = "sent", Apart(s),
           UNCHANGED <<browser, cookie, disturbed>>,
           NEW U, U \subseteq TokensOf(request[t].session), used' = used \cup U,
           \A n \in TokensOf(s) :
              Fresh(n) \/ n \in TokensOf(request[t].session) \ U
    PROVE  SpentInv'
<1> DEFINE b == browser[t]
           r == request[t]
<1>1. /\ request'[t].session = s /\ request'[t].phase = "answered"
      /\ request'[t].sets = ~(s = Empty /\ r.session = Empty)
      /\ \A q \in Tabs : q # t => request'[q] = request[q]
      /\ b \in Browsers
  BY DEF Answered, TypeOK, Request
<1>2. InFlight(t) /\ InFlight(t)' /\ \A q \in Tabs : InFlight(q)' <=> InFlight(q)
  BY <1>1 DEF InFlight
<1>3. \A q \in Tabs : Alone(q)' <=> Alone(q)
  BY <1>2 DEF Alone
<1>4. \A n \in U : Holds(b, n)
  BY DEF Holds, InTab, TokensOf
<1>5. \A c \in Browsers, n \in U : Holds(c, n) => c = b
  BY <1>1, <1>4 DEF OwnInv, HoldersInv, TokensOf
<1>6. ASSUME NEW c \in Browsers, c # b, Unspent(cookie[c])
      PROVE  Unspent(cookie[c])'
  <2>1. TokensOf(cookie[c]) \cap U = {}
    BY <1>5, <1>6 DEF TokensOf, Holds, InCookie
  <2> QED
    BY <1>6, <2>1 DEF Unspent, TokensOf
<1>7. ASSUME NEW q \in Tabs, browser[q] # b, Unspent(request[q].session)
      PROVE  Unspent(request[q].session)'
  <2>1. browser[q] \in Browsers /\ q # t
    BY <1>7 DEF TypeOK
  <2>2. TokensOf(request[q].session) \cap U = {}
    BY <1>5, <1>7, <2>1 DEF TokensOf, Holds, InTab
  <2> QED
    BY <1>1, <1>7, <2>1, <2>2 DEF Unspent, TokensOf
<1>8. b \notin disturbed => /\ Unspent(s)'
                            /\ request'[t].sets \/ cookie[b] = Empty
  <2> SUFFICES ASSUME b \notin disturbed
               PROVE  Unspent(s)' /\ (request'[t].sets \/ cookie[b] = Empty)
    OBVIOUS
  <2>1. r.session = cookie[b] /\ Unspent(r.session)
    BY <1>2 DEF SpentInv
  <2>2. \A n \in Tokens : Fresh(n) => n \notin used /\ n \notin TokensOf(r.session)
    BY DEF Fresh, TokensOf
  <2>3. ASSUME NEW n \in TokensOf(s) PROVE n \notin used \cup U
    <3>1. n \in Tokens
      BY DEF TokensOf
    <3>2. CASE Fresh(n)
      BY <2>2, <3>1, <3>2
    <3>3. CASE n \in TokensOf(r.session) \ U
      BY <2>1, <3>3 DEF Unspent
    <3> QED
      BY <3>2, <3>3
  <2>4. Unspent(s)'
    BY <2>3 DEF Unspent, TokensOf
  <2> QED
    BY <1>1, <2>1, <2>4
<1>9. /\ \A c \in Browsers : Apart(cookie[c])'
      /\ \A q \in Tabs : InFlight(q)' => Apart(request[q].session)'
  BY <1>1, <1>2 DEF SpentInv, Apart
<1>10. ASSUME NEW q \in Tabs, browser'[q] \notin disturbed', InFlight(q)'
       PROVE  /\ Alone(q)'
              /\ request'[q].phase = "sent" =>
                   /\ request'[q].session = cookie'[browser'[q]]
                   /\ Unspent(cookie[browser[q]])'
              /\ request'[q].phase = "answered" =>
                   /\ Unspent(request[q].session)'
                   /\ request'[q].sets \/ cookie'[browser'[q]] = Empty
  <2>1. Alone(q)'
    BY <1>2, <1>3, <1>10 DEF SpentInv
  <2>2. CASE q = t
    <3>1. Unspent(request[t].session)'
      BY <1>1, <1>8, <1>10, <2>2 DEF Unspent, TokensOf
    <3> QED
      BY <1>1, <1>8, <1>10, <2>1, <2>2, <3>1
  <2>3. CASE q # t
    <3>1. browser[q] # b /\ browser[q] \in Browsers
      BY <1>2, <1>10, <2>3 DEF SpentInv, Alone, TypeOK
    <3>2. /\ request[q].phase = "sent" => Unspent(cookie[browser[q]])'
          /\ request[q].phase = "answered" => Unspent(request[q].session)'
      BY <1>2, <1>6, <1>7, <1>10, <3>1 DEF SpentInv
    <3> QED
      BY <1>1, <1>2, <1>10, <2>1, <2>3, <3>2 DEF SpentInv
  <2> QED
    BY <2>2, <2>3
<1>11. ASSUME NEW c \in Browsers, c \notin disturbed',
              \A q \in Tabs : browser'[q] = c => ~InFlight(q)'
       PROVE  Unspent(cookie[c])'
  <2>1. c # b
    BY <1>2, <1>11
  <2> QED
    BY <1>2, <1>6, <1>11, <2>1 DEF SpentInv
<1> QED
  BY <1>9, <1>10, <1>11 DEF SpentInv

LEMMA SpentHandle ==
    ASSUME TypeOK, OwnInv, SpentInv, NEW t \in Tabs, Handle(t)
    PROVE  SpentInv'
<1> DEFINE r == request[t]
           s == r.session
<1>0. /\ s \in Session /\ r.user \in Users \cup {NoUser}
      /\ r.phase = "sent" => Apart(s)
  BY DEF TypeOK, Request, SpentInv, InFlight
<1>1. /\ r.phase = "sent" /\ UNCHANGED <<browser, cookie, disturbed>>
  BY DEF Handle, View, NoncePage, ConsentPage, LoginPost, RegisterPost,
         AuthorizePost, LnurlRedirect, Logout, Served
<1>2. ASSUME UNCHANGED used, NEW s1 \in Session, NEW pg, Answered(t, s1, pg),
             Apart(s1), \A n \in TokensOf(s1) : Fresh(n) \/ n \in TokensOf(s)
      PROVE  SpentInv'
  <2>1. used' = used \cup {} /\ {} \subseteq TokensOf(s)
    BY <1>2
  <2> QED
    BY <1>1, <1>2, <2>1, SpentAnswered
<1>3. \A u \in Users \cup {NoUser} :
        LET s1 == [s EXCEPT !.user = u] IN
        s1 \in Session /\ Apart(s1) /\ TokensOf(s1) = TokensOf(s)
  BY <1>0, <1>1 DEF Session, Apart, TokensOf
<1>4. CASE View(t)
  BY <1>0, <1>1, <1>2, <1>4 DEF View
<1>5. CASE NoncePage(t)
  <2>1. PICK n \in Tokens : /\ Fresh(n)
          /\ Answered(t, [s EXCEPT !.nonce = n], [kind |-> r.kind, token |-> n])
    BY <1>5 DEF NoncePage
  <2> DEFINE s1 == [s EXCEPT !.nonce = n]
  <2>2. n # s.csrf
    BY <2>1 DEF Fresh
  <2>3. s1 \in Session /\ Apart(s1) /\ TokensOf(s1) \subseteq TokensOf(s) \cup {n}
    BY <1>0, <2>2 DEF Session, Apart, TokensOf
  <2>4. UNCHANGED used
    BY <1>5 DEF NoncePage
  <2> HIDE DEF s1
  <2> QED
    BY <1>2, <2>1, <2>3, <2>4 DEF s1
<1>6. CASE ConsentPage(t)
  <2>1. PICK n \in Tokens : /\ Fresh(n)
          /\ Answered(t, [s EXCEPT !.csrf = n], [kind |-> "consent", token |-> n])
    BY <1>6 DEF ConsentPage
  <2> DEFINE s1 == [s EXCEPT !.csrf = n]
  <2>2. n # s.nonce
    BY <2>1 DEF Fresh
  <2>3. s1 \in Session /\ Apart(s1) /\ TokensOf(s1) \subseteq TokensOf(s) \cup {n}
    BY <1>0, <2>2 DEF Session, Apart, TokensOf
  <2>4. UNCHANGED used
    BY <1>6 DEF ConsentPage
  <2> HIDE DEF s1
  <2> QED
    BY <1>2, <2>1, <2>3, <2>4 DEF s1
<1>7. CASE LoginPost(t)
  <2> DEFINE s1 == [s EXCEPT !.nonce = NoToken]
             s2 == [s1 EXCEPT !.user = r.user]
             U == {s.nonce} \cap Tokens
  <2>1. /\ s1 \in Session /\ s2 \in Session /\ Apart(s1) /\ Apart(s2)
        /\ TokensOf(s1) = TokensOf(s) \ U /\ TokensOf(s2) = TokensOf(s) \ U
        /\ U \subseteq TokensOf(s)
    BY <1>0, <1>1, NoneAssumption DEF Session, Apart, TokensOf
  <2>2. \/ Answered(t, s1, Other) /\ UNCHANGED used
        \/ /\ Answered(t, s1, Other) \/ Answered(t, s2, Other)
           /\ used' = used \cup U
    BY <1>7 DEF LoginPost
  <2> HIDE DEF s1, s2, U
  <2>3. CASE Answered(t, s1, Other) /\ UNCHANGED used
    BY <1>2, <2>1, <2>3
  <2>4. CASE Answered(t, s1, Other) /\ used' = used \cup U
    BY <1>1, <2>1, <2>4, SpentAnswered
  <2>5. CASE Answered(t, s2, Other) /\ used' = used \cup U
    BY <1>1, <2>1, <2>5, SpentAnswered
  <2> QED
    BY <2>2, <2>3, <2>4, <2>5
<1>8. CASE RegisterPost(t)
  <2>1. UNCHANGED used /\ \/ Answered(t, s, Other)
                          \/ Answered(t, [s EXCEPT !.user = r.user], Other)
    BY <1>8 DEF RegisterPost
  <2> QED
    BY <1>0, <1>1, <1>2, <1>3, <2>1
<1>9. CASE AuthorizePost(t)
  <2> DEFINE s1 == [s EXCEPT !.csrf = NoToken]
             U == {s.csrf} \cap Tokens
  <2>1. /\ s1 \in Session /\ Apart(s1)
        /\ TokensOf(s1) \subseteq TokensOf(s)
        /\ s.csrf \in Tokens => TokensOf(s1) = TokensOf(s) \ U
        /\ U \subseteq TokensOf(s)
    BY <1>0, <1>1, NoneAssumption DEF Session, Apart, TokensOf
  <2>2. \/ Answered(t, s, Other) /\ UNCHANGED used
        \/ /\ Answered(t, s1, Other) /\ s.csrf \in Tokens
           /\ used' = used \cup U
    BY <1>9 DEF AuthorizePost
  <2> HIDE DEF s1, U
  <2>3. CASE Answered(t, s, Other) /\ UNCHANGED used
    BY <1>0, <1>1, <1>2, <2>3
  <2>4. CASE /\ Answered(t, s1, Other) /\ s.csrf \in Tokens
             /\ used' = used \cup U
    BY <1>1, <2>1, <2>4, SpentAnswered
  <2> QED
    BY <2>2, <2>3, <2>4
<1>10. CASE LnurlRedirect(t)
  <2> DEFINE u == IF s.nonce = NoToken THEN NoUser ELSE storage[s.nonce]
  <2>1. u \in Users \cup {NoUser}
    BY <1>0 DEF Session, TypeOK
  <2>2. UNCHANGED used /\ \/ Answered(t, s, Other)
                          \/ Answered(t, [s EXCEPT !.user = u], Other)
    BY <1>10 DEF LnurlRedirect
  <2> HIDE DEF u
  <2> QED
    BY <1>0, <1>1, <1>2, <1>3, <2>1, <2>2
<1>11. CASE Logout(t)
  BY <1>2, <1>11, NoneTypes, EmptyUnspent DEF Logout
<1> QED
  BY <1>4, <1>5, <1>6, <1>7, <1>8, <1>9, <1>10, <1>11 DEF Handle

\* A request that ends takes its session with it, or leaves it in the cookie.
LEMMA SpentEnds ==
    ASSUME TypeOK, SpentInv, UNCHANGED <<browser, used>>, disturbed \subseteq disturbed',
           \A t \in Tabs :
              \/ ~InFlight(t)'
              \/ /\ request'[t] = request[t] /\ InFlight(t)
                 /\ \/ browser[t] \in disturbed'
                    \/ cookie'[browser[t]] = cookie[browser[t]],
           \A b \in Browsers :
              \/ /\ cookie'[b] = cookie[b]
                 /\ b \in disturbed' \/ \A t \in Tabs : browser[t] = b =>
                                           (InFlight(t)' <=> InFlight(t))
              \/ /\ Apart(cookie'[b])
                 /\ b \in disturbed \/ Unspent(cookie'[b])
    PROVE  SpentInv'
<1>1. /\ \A s \in Tabs : Alone(s) => Alone(s)'
      /\ \A c \in Browsers : Unspent(cookie'[c]) => Unspent(cookie[c])'
      /\ \A s \in Tabs : Unspent(request'[s].session) => Unspent(request[s].session)'
  BY DEF Alone, Unspent, TokensOf
<1>2. /\ \A c \in Browsers : Apart(cookie[c])'
      /\ \A t \in Tabs : InFlight(t)' => Apart(request[t].session)'
  BY DEF SpentInv, Apart
<1>3. ASSUME NEW t \in Tabs, browser'[t] \notin disturbed', InFlight(t)'
      PROVE  /\ Alone(t)'
             /\ request'[t].phase = "sent" =>
                  /\ request'[t].session = cookie'[browser'[t]]
                  /\ Unspent(cookie[browser[t]])'
             /\ request'[t].phase = "answered" =>
                  /\ Unspent(request[t].session)'
                  /\ request'[t].sets \/ cookie'[browser'[t]] = Empty
  <2>1. /\ InFlight(t) /\ request'[t] = request[t] /\ browser[t] \notin disturbed
        /\ cookie'[browser[t]] = cookie[browser[t]] /\ browser[t] \in Browsers
    BY <1>3 DEF TypeOK
  <2>2. /\ Alone(t)
        /\ request[t].phase = "sent" =>
             request[t].session = cookie[browser[t]] /\ Unspent(cookie[browser[t]])
        /\ request[t].phase = "answered" =>
             /\ Unspent(request[t].session)
             /\ request[t].sets \/ cookie[browser[t]] = Empty
    BY <2>1 DEF SpentInv
  <2> QED
    BY <1>1, <2>1, <2>2
<1>4. ASSUME NEW b \in Browsers, b \notin disturbed',
             \A t \in Tabs : browser'[t] = b => ~InFlight(t)'
      PROVE  Unspent(cookie[b])'
  <2>1. CASE Unspent(cookie'[b])
    BY <1>1, <2>1
  <2>2. CASE cookie'[b] = cookie[b] /\ \A t \in Tabs : browser[t] = b =>
                                           (InFlight(t)' <=> InFlight(t))
    BY <1>1, <1>4, <2>2 DEF SpentInv
  <2> QED
    BY <1>4, <2>1, <2>2
<1> QED
  BY <1>2, <1>3, <1>4 DEF SpentInv

LEMMA SpentDeliver ==
    ASSUME TypeOK, SpentInv, NEW t \in Tabs, Deliver(t)
    PROVE  SpentInv'
<1> DEFINE b == browser[t]
           r == request[t]
<1>1. /\ UNCHANGED <<browser, used, disturbed>> /\ InFlight(t) /\ ~InFlight(t)'
      /\ r.phase = "answered" /\ b \in Browsers
      /\ \A q \in Tabs : q # t => request'[q] = request[q]
      /\ \A c \in Browsers : cookie'[c] =
           IF c = b /\ r.sets THEN r.session ELSE cookie[c]
  BY DEF Deliver, InFlight, Idle, TypeOK
<1>2. \A q \in Tabs : q # t => (InFlight(q)' <=> InFlight(q))
  BY <1>1 DEF InFlight
<1>3. Apart(cookie'[b]) /\ (b \in disturbed \/ Unspent(cookie'[b]))
  BY <1>1, EmptyUnspent DEF SpentInv, Unspent
<1>4. ASSUME NEW q \in Tabs
      PROVE  \/ ~InFlight(q)'
             \/ /\ request'[q] = request[q] /\ InFlight(q)
                /\ \/ browser[q] \in disturbed'
                   \/ cookie'[browser[q]] = cookie[browser[q]]
  <2>1. CASE q = t
    BY <1>1, <2>1
  <2>2. CASE q # t /\ browser[q] = b
    BY <1>1, <1>2, <2>2 DEF SpentInv, Alone
  <2>3. CASE q # t /\ browser[q] # b
    BY <1>1, <1>2, <2>3 DEF TypeOK
  <2> QED
    BY <2>1, <2>2, <2>3
<1>5. ASSUME NEW c \in Browsers, c # b
      PROVE  /\ cookie'[c] = cookie[c]
             /\ \A q \in Tabs : browser[q] = c => (InFlight(q)' <=> InFlight(q))
  BY <1>1, <1>2, <1>5
<1> QED
  BY <1>1, <1>3, <1>4, <1>5, SpentEnds

LEMMA SpentNext == TypeOK /\ OwnInv /\ SpentInv /\ [Next]_vars => SpentInv'
<1> SUFFICES ASSUME TypeOK, OwnInv, SpentInv, [Next]_vars PROVE SpentInv'
  OBVIOUS
<1>1. ASSUME NEW t \in Tabs, \E target \in Targets : Visit(t, target) PROVE SpentInv'
  BY <1>1, SpentSend DEF Visit, InFlight
<1>2. ASSUME NEW t \in Tabs, \E u \in Users \cup {NoUser} : Submit(t, u) PROVE SpentInv'
  BY <1>2, SpentSend DEF Submit, InFlight
<1>3. ASSUME NEW t \in Tabs, Follow(t) PROVE SpentInv'
  BY <1>3, SpentSend DEF Follow, InFlight
<1>4. ASSUME NEW t \in Tabs, Handle(t) \/ Deliver(t) PROVE SpentInv'
  BY <1>4, SpentHandle, SpentDeliver
<1>5. ASSUME UNCHANGED <<browser, cookie, used>>, disturbed \subseteq disturbed',
             \A t \in Tabs : \/ ~InFlight(t)'
                             \/ request'[t] = request[t] /\ InFlight(t),
             \A t \in Tabs : browser[t] \in disturbed'
                             \/ (InFlight(t)' <=> InFlight(t))
      PROVE  SpentInv'
  BY <1>5, SpentEnds
<1>6. ASSUME NEW t \in Tabs, Lose(t) PROVE SpentInv'
  BY <1>5, <1>6 DEF Lose, InFlight, Idle, TypeOK
<1>7. CASE UNCHANGED <<browser, cookie, request, used, disturbed>>
  BY <1>5, <1>7 DEF InFlight
<1>8. ASSUME NEW t \in Tabs, Refresh(t) PROVE SpentInv'
  BY <1>7, <1>8 DEF Refresh
<1>9. ASSUME NEW k \in Keys, \E u \in Users : Sign(k, u) PROVE SpentInv'
  BY <1>7, <1>9 DEF Sign
<1>10. ASSUME NEW k \in Keys, Emit(k) PROVE SpentInv'
  <2>1. /\ UNCHANGED <<browser, cookie, used, disturbed>>
        /\ \A t \in Tabs : \/ request'[t] = request[t]
                           \/ ~InFlight(t) /\ ~InFlight(t)'
    BY <1>10 DEF Emit, TypeOK, Request, InFlight
  <2> QED
    BY <1>5, <2>1 DEF InFlight
<1>11. CASE Restart
  <2>1. \A t \in Tabs : ~InFlight(t)'
    BY <1>11 DEF Restart, InFlight, Idle
  <2> QED
    BY <1>5, <1>11, <2>1 DEF Restart
<1>12. CASE UNCHANGED vars
  BY <1>7, <1>12 DEF vars
<1> QED
  BY <1>1, <1>2, <1>3, <1>4, <1>6, <1>8, <1>9, <1>10, <1>11, <1>12 DEF Next

\* In a browser whose requests neither overlap nor lose their answer,
\* login_post and authorize accept no form twice (ReplayRefused).
THEOREM ReplaysRefused == Spec => ReplayRefused
<1>1. TypeOK /\ OwnInv /\ SpentInv /\ [Next]_vars => TypeOK' /\ OwnInv' /\ SpentInv'
  BY TypeNext, OwnNext, SpentNext DEF OwnInv
<1>2. Init => SpentInv
  <2> SUFFICES ASSUME Init PROVE SpentInv
    OBVIOUS
  <2>1. \A t \in Tabs : ~InFlight(t)
    BY DEF Init, InFlight, Idle
  <2> QED
    BY <2>1, EmptyUnspent DEF Init, SpentInv, Unspent
<1>3. TypeOK /\ SpentInv =>
        \A t \in Tabs : Accepts(t) /\ browser[t] \notin disturbed
                          => request[t].token \notin used
  <2> SUFFICES ASSUME TypeOK, SpentInv, NEW t \in Tabs, Accepts(t),
                      browser[t] \notin disturbed
               PROVE  request[t].token \notin used
    OBVIOUS
  <2>1. Unspent(request[t].session)
    BY DEF SpentInv, Accepts, InFlight
  <2>2. request[t].token \in {request[t].session.nonce, request[t].session.csrf}
    BY DEF Accepts
  <2> QED
    BY <2>1, <2>2 DEF Unspent, TokensOf, TypeOK
<1>4. TypeOK /\ SpentInv /\ [Next]_vars =>
        [\A t \in Tabs : Accepts(t) /\ browser[t] \notin disturbed
                           => request[t].token \notin used]_vars
  BY <1>3
<1> QED
  BY <1>1, <1>2, <1>4, TypeInit, OwnInit, PTL DEF Spec, ReplayRefused
=============================================================================
