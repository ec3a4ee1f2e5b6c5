------------------------- MODULE TokenGrantsProofs -------------------------
(***************************************************************************)
(* Proofs about TokenGrants, for any sets of clients, codes, tokens and    *)
(* requests, however requests overlap.                                     *)
(***************************************************************************)
EXTENDS TokenGrants, FiniteSetTheorems, TLAPS

USE CredentialsAssumption, NullAssumption DEF Credentials

(***************************************************************************)
(* Types and ownership, whatever requests overlap. They go together: that  *)
(* an answer carries a credential and not a null is part of OwnInv.        *)
(***************************************************************************)
Owned == TypeOK /\ OwnInv

LEMMA OwnedInit == Init => Owned
BY DEF Init, Owned, TypeOK, OwnInv, OwnClient, Code, Token, Job, NoJob

(***************************************************************************)
(* A write to the columns that hold the revocations leaves the others of   *)
(* every row alone. (SMT needs the values to be Booleans.)                 *)
(***************************************************************************)
SameRows ==
    \A u \in Tokens :
        /\ token'[u].stored = token[u].stored
        /\ token'[u].client = token[u].client
        /\ token'[u].from = token[u].from
        /\ token'[u].code = token[u].code
        /\ token[u].accessRevoked => token'[u].accessRevoked

LEMMA SpendTokenWrites ==
    ASSUME TypeOK, NEW r \in Requests, SpendToken(r)
    PROVE  /\ token' \in [Tokens -> Token] /\ SameRows
           /\ \A u \in Tokens \ {job[r].from} : token'[u] = token[u]
           /\ job[r].from \in Tokens /\ token'[job[r].from].refreshRevoked
<1> DEFINE x == job[r].from
<1>1. x \in Tokens /\ token' = [token EXCEPT ![x].refreshRevoked = TRUE]
  BY DEF SpendToken
<1>2. token \in [Tokens -> Token]
  BY DEF TypeOK
<1> HIDE DEF x
<1>3. token' \in [Tokens -> Token]
  BY <1>1, <1>2, ZenonT(60) DEF Token
<1>4. SameRows
  BY <1>1, <1>2 DEF Token, SameRows
<1>5. \A u \in Tokens \ {x} : token'[u] = token[u]
  BY <1>1, <1>2
<1>6. token'[x].refreshRevoked
  BY <1>1, <1>2 DEF Token
<1> QED
  BY <1>1, <1>3, <1>4, <1>5, <1>6 DEF x

LEMMA RevokeWrites ==
    ASSUME TypeOK, NEW cl \in Clients, NEW t \in Tokens,
           NEW hint \in {"access_token", "other"}, Revoke(cl, t, hint)
    PROVE  /\ token' \in [Tokens -> Token] /\ SameRows
           /\ \A u \in Tokens \ {t} : token'[u] = token[u]
           /\ token[t].refreshRevoked => token'[t].refreshRevoked
           /\ hint = "access_token" =>
                (token'[t].refreshRevoked <=> token[t].refreshRevoked)
<1>1. PICK v \in BOOLEAN : v = (token[t].refreshRevoked \/ hint # "access_token")
  OBVIOUS
<1>2. token' = [token EXCEPT ![t].accessRevoked = TRUE, ![t].refreshRevoked = v]
  BY <1>1 DEF Revoke
<1>3. token \in [Tokens -> Token]
  BY DEF TypeOK
<1>4. token' \in [Tokens -> Token]
  <2> DEFINE row == [token[t] EXCEPT !.accessRevoked = TRUE, !.refreshRevoked = v]
  <2>1. row \in Token
    BY <1>1, <1>3 DEF Token
  <2>2. token' = [token EXCEPT ![t] = row]
    BY <1>2, <1>3
  <2> HIDE DEF row
  <2> QED
    BY <1>3, <2>1, <2>2
<1>5. SameRows
  BY <1>1, <1>2, <1>3 DEF Token, SameRows
<1>6. \A u \in Tokens \ {t} : token'[u] = token[u]
  BY <1>2, <1>3
<1>7. token'[t].refreshRevoked = v
  BY <1>2, <1>3 DEF Token
<1> QED
  BY <1>1, <1>2, <1>4, <1>5, <1>6, <1>7

\* One lemma per action that starts or serves a request.
LEMMA AuthorizeOwned ==
    ASSUME Owned, NEW r \in Requests, NEW cl \in Clients,
           Authorize(r, cl)
    PROVE  Owned'
BY DEF Authorize, Start, NoJob, Owned, TypeOK, OwnInv, OwnClient, Job, OwnerOf,
       Exists

LEMMA PresentOwned ==
    ASSUME Owned, NEW r \in Requests, NEW cl \in Clients,
           NEW x \in Credentials, Present(r, cl, x)
    PROVE  Owned'
BY ZenonT(60) DEF Present, Start, NoJob, Owned, TypeOK, OwnInv, OwnClient, Job, OwnerOf,
       Exists

LEMMA SaveCodeOwned ==
    ASSUME Owned, NEW r \in Requests, SaveCode(r)
    PROVE  Owned'
<1>1. PICK c \in Codes :
        /\ code[c].row = "none"
        /\ code' = [code EXCEPT ![c] =
             [row |-> "stored", client |-> job[r].client]]
        /\ job' = [job EXCEPT ![r] =
             [NoJob EXCEPT !.pc = "send", !.client = job[r].client, !.new = c]]
  BY DEF SaveCode
<1>2. UNCHANGED <<token, expired, disabled, sent, contested>>
  BY DEF SaveCode
<1>3. TypeOK'
  BY <1>1, <1>2 DEF Owned, TypeOK, Code, Job, NoJob
<1>4. OwnInv'
  BY <1>1, <1>2 DEF Owned, TypeOK, OwnInv, OwnClient, OwnerOf, Exists, NoJob, Job, Code
<1> QED
  BY <1>3, <1>4 DEF Owned

LEMMA SaveTokenOwned ==
    ASSUME Owned, NEW r \in Requests, SaveToken(r)
    PROVE  Owned'
<1>1. PICK t \in Tokens :
        /\ ~token[t].stored
        /\ token' = [token EXCEPT ![t] =
             [stored |-> TRUE, client |-> job[r].client, from |-> job[r].from,
              code |-> RootOf(job[r].from),
              accessRevoked |-> FALSE, refreshRevoked |-> FALSE]]
        /\ job' = [job EXCEPT ![r] = [job[r] EXCEPT !.pc = "spend", !.new = t]]
  BY DEF SaveToken
<1>2. job[r].pc = "saveToken" /\ UNCHANGED <<code, expired, disabled, sent, contested>>
  BY DEF SaveToken
<1>3. /\ job[r].from \in Credentials /\ job[r].from \in sent
      /\ Exists(job[r].from) /\ job[r].from # t
      /\ job[r].client = OwnerOf(job[r].from)
  BY <1>1, <1>2 DEF Owned, TypeOK, OwnInv, Exists
<1>4. /\ RootOf(job[r].from) \in Codes
      /\ code[RootOf(job[r].from)].row # "none"
      /\ job[r].client = code[RootOf(job[r].from)].client
  BY <1>3 DEF Owned, TypeOK, OwnInv, OwnClient, OwnerOf, RootOf, Exists
<1>5. TypeOK'
  <2>1. token' \in [Tokens -> Token]
    BY <1>1, <1>3, <1>4 DEF Owned, TypeOK, Token, Job
  <2>2. job' \in [Requests -> Job]
    <3>1. job[r] \in Job
      BY DEF Owned, TypeOK
    <3>2. [job[r] EXCEPT !.pc = "spend", !.new = t] \in Job
      BY <3>1 DEF Job
    <3> QED
      BY <1>1, <3>2 DEF Owned, TypeOK
  <2> QED
    BY <1>2, <2>1, <2>2 DEF Owned, TypeOK
<1>6. OwnInv'
  <2>1. /\ \A u \in Tokens : u # t => token'[u] = token[u]
        /\ token'[t].stored /\ token'[t].client = job[r].client
        /\ token'[t].from = job[r].from /\ token'[t].code = RootOf(job[r].from)
        /\ ~token'[t].accessRevoked /\ ~token'[t].refreshRevoked
    BY <1>1 DEF Owned, TypeOK
  <2>2. /\ \A q \in Requests : q # r => job'[q] = job[q]
        /\ job'[r].pc = "spend" /\ job'[r].new = t
        /\ job'[r].from = job[r].from /\ job'[r].client = job[r].client
    BY <1>1 DEF Owned, TypeOK, Job
  <2>3. (OwnClient /\ \A u \in Tokens :
          /\ token[u].stored =>
               /\ token[u].from \in Credentials
               /\ token[u].code \in Codes /\ code[token[u].code].row # "none"
          /\ token[u].accessRevoked \/ token[u].refreshRevoked => token[u].stored)'
    <3> SUFFICES ASSUME NEW u \in Tokens
                 PROVE  (/\ token[u].stored =>
                              /\ token[u].client = code[token[u].code].client
                              /\ token[u].from \in Credentials
                              /\ token[u].code \in Codes /\ code[token[u].code].row # "none"
                         /\ token[u].accessRevoked \/ token[u].refreshRevoked
                              => token[u].stored)'
      BY DEF OwnClient
    <3>1. CASE u = t
      BY <1>2, <1>3, <1>4, <2>1, <3>1
    <3>2. CASE u # t
      BY <1>2, <2>1, <3>2 DEF Owned, OwnInv, OwnClient
    <3> QED
      BY <3>1, <3>2
  <2>4. \A x \in Credentials : /\ Exists(x) => Exists(x)'
                               /\ x # t => OwnerOf(x)' = OwnerOf(x)
    BY <1>2, <2>1 DEF Exists, OwnerOf, Credentials
  <2>5. /\ \A x \in sent : Exists(x)'
        /\ \A q \in Requests : job[q].pc \in {"saveToken", "spend"} => job[q].from # t
    <3>1. \A x \in sent : x \in Credentials /\ Exists(x)
      BY DEF Owned, TypeOK, OwnInv
    <3>2. t \notin Codes /\ ~Exists(t)
      BY <1>1, CredentialsAssumption DEF Exists
    <3>3. \A x \in sent : Exists(x)'
      BY <1>2, <2>1, <3>1 DEF Exists, Credentials
    <3>4. t \notin sent
      BY <3>1, <3>2
    <3>5. \A q \in Requests :
            job[q].pc \in {"saveToken", "spend"} => job[q].from \in sent
      BY DEF Owned, OwnInv
    <3> QED
      BY <3>3, <3>4, <3>5
  <2>6. (\A q \in Requests :
          /\ job[q].pc \in {"saveToken", "spend"} =>
               job[q].from \in sent /\ job[q].client = OwnerOf(job[q].from)
          /\ job[q].pc = "spend" => job[q].new \in Tokens
          /\ IF job[q].pc \in {"spend", "send"}
               THEN job[q].new \in Credentials /\ Exists(job[q].new)
               ELSE job[q].new = NoCredential)'
    <3> SUFFICES ASSUME NEW q \in Requests
                 PROVE  (/\ job[q].pc \in {"saveToken", "spend"} =>
                              job[q].from \in sent /\ job[q].client = OwnerOf(job[q].from)
                         /\ job[q].pc = "spend" => job[q].new \in Tokens
                         /\ IF job[q].pc \in {"spend", "send"}
                              THEN job[q].new \in Credentials /\ Exists(job[q].new)
                              ELSE job[q].new = NoCredential)'
      OBVIOUS
    <3>1. CASE q = r
      <4>1. Exists(t)' /\ t \in Credentials
        BY <2>1, CredentialsAssumption DEF Exists, Credentials
      <4>2. OwnerOf(job[r].from)' = OwnerOf(job[r].from)
        BY <1>2, <1>3, <2>1, <2>2 DEF OwnerOf
      <4> QED
        BY <1>2, <1>3, <2>2, <3>1, <4>1, <4>2
    <3>2. CASE q # r
      <4>1. job'[q] = job[q] /\ sent' = sent
        BY <1>2, <2>2, <3>2
      <4>2. (job[q].pc \in {"saveToken", "spend"} =>
               job[q].from \in sent /\ job[q].client = OwnerOf(job[q].from))'
        <5>1. job[q].pc \in {"saveToken", "spend"} =>
                /\ job[q].from \in sent /\ job[q].from # t
                /\ job[q].client = OwnerOf(job[q].from)
          BY <2>5 DEF Owned, OwnInv
        <5> QED
          BY <1>2, <2>1, <4>1, <5>1 DEF OwnerOf, Owned, TypeOK, Credentials
      <4>3. (/\ job[q].pc = "spend" => job[q].new \in Tokens
             /\ IF job[q].pc \in {"spend", "send"}
                  THEN job[q].new \in Credentials /\ Exists(job[q].new)
                  ELSE job[q].new = NoCredential)'
        <5>1. /\ job[q].pc = "spend" => job[q].new \in Tokens
              /\ IF job[q].pc \in {"spend", "send"}
                   THEN job[q].new \in Credentials /\ Exists(job[q].new)
                   ELSE job[q].new = NoCredential
          BY DEF Owned, OwnInv
        <5> QED
          BY <1>2, <2>1, <4>1, <5>1 DEF Exists, Credentials
      <4> QED
        BY <4>2, <4>3
    <3> QED
      BY <3>1, <3>2
  <2> QED
    BY <2>3, <2>5, <2>6, <1>2 DEF OwnInv
<1> QED
  BY <1>5, <1>6 DEF Owned

LEMMA SpendCodeOwned ==
    ASSUME Owned, NEW r \in Requests, SpendCode(r)
    PROVE  Owned'
<1> DEFINE c == job[r].from
<1>1. /\ c \in Codes /\ c \in sent /\ job[r].pc = "spend"
      /\ code' = [code EXCEPT ![c].row = "deleted"]
      /\ job' = [job EXCEPT ![r].pc = "send"]
      /\ UNCHANGED <<token, expired, disabled, sent, contested>>
  BY DEF SpendCode, Goto, Owned, OwnInv
<1> HIDE DEF c
<1>2. TypeOK'
  <2>1. code' \in [Codes -> Code]
    BY <1>1 DEF Owned, TypeOK, Code
  <2>2. [job[r] EXCEPT !.pc = "send"] \in Job
    BY DEF Owned, TypeOK, Job
  <2>3. job' \in [Requests -> Job]
    BY <1>1, <2>2 DEF Owned, TypeOK
  <2> QED
    BY <1>1, <2>1, <2>3 DEF Owned, TypeOK
<1>3. \A d \in Codes : /\ code'[d].client = code[d].client
                       /\ code[d].row # "none" => code'[d].row # "none"
  BY <1>1 DEF Owned, TypeOK, Code
<1>4. \A x \in Credentials : (Exists(x) => Exists(x)') /\ OwnerOf(x)' = OwnerOf(x)
  BY <1>1, <1>3 DEF Exists, OwnerOf
<1>5. OwnInv'
  BY <1>1, <1>3, <1>4 DEF Owned, TypeOK, OwnInv, OwnClient, Job
<1> QED
  BY <1>2, <1>5 DEF Owned

LEMMA SpendTokenOwned ==
    ASSUME Owned, NEW r \in Requests, SpendToken(r)
    PROVE  Owned'
<1>1. /\ token' \in [Tokens -> Token] /\ SameRows
      /\ \A u \in Tokens : ~token[u].stored => token'[u] = token[u]
      /\ job' = [job EXCEPT ![r].pc = "send"]
      /\ UNCHANGED <<code, expired, disabled, sent, contested>>
      /\ job[r].pc = "spend"
  BY SpendTokenWrites DEF Owned, SpendToken, Goto, OwnInv, Exists
<1>2. TypeOK'
  <2>1. [job[r] EXCEPT !.pc = "send"] \in Job
    BY DEF Owned, TypeOK, Job
  <2>2. job' \in [Requests -> Job]
    BY <1>1, <2>1 DEF Owned, TypeOK
  <2> QED
    BY <1>1, <2>2 DEF Owned, TypeOK
<1>3. \A x \in Credentials : (Exists(x) => Exists(x)') /\ OwnerOf(x)' = OwnerOf(x)
  BY <1>1 DEF SameRows, Exists, OwnerOf
<1>4. /\ \A q \in Requests \ {r} : job'[q] = job[q]
      /\ job'[r].pc = "send" /\ job'[r].new = job[r].new
  BY <1>1 DEF Owned, TypeOK, Job
<1>5. (OwnClient /\ \A q \in Requests : 
         /\ job[q].pc \in {"saveToken", "spend"} =>
              job[q].from \in sent /\ job[q].client = OwnerOf(job[q].from)
         /\ job[q].pc = "spend" => job[q].new \in Tokens
         /\ IF job[q].pc \in {"spend", "send"}
              THEN job[q].new \in Credentials /\ Exists(job[q].new)
              ELSE job[q].new = NoCredential)'
  BY <1>1, <1>3, <1>4 DEF SameRows, Owned, TypeOK, OwnInv, OwnClient
<1>6. OwnInv'
  BY <1>1, <1>3, <1>5, SMTT(30) DEF SameRows, Owned, TypeOK, OwnInv
<1> QED
  BY <1>2, <1>6 DEF Owned

LEMMA SendOwned ==
    ASSUME Owned, NEW r \in Requests, Send(r)
    PROVE  Owned'
BY DEF Send, Finish, NoJob, Owned, TypeOK, OwnInv, OwnClient, OwnerOf, Exists, Job

LEMMA AbortOwned ==
    ASSUME Owned, NEW r \in Requests, Abort(r)
    PROVE  Owned'
BY DEF Abort, Finish, NoJob, Owned, TypeOK, OwnInv, OwnClient, OwnerOf, Exists, Job

LEMMA RevokeOwned ==
    ASSUME Owned, NEW cl \in Clients, NEW t \in Tokens,
           NEW hint \in {"access_token", "other"}, Revoke(cl, t, hint)
    PROVE  Owned'
<1>1. /\ token' \in [Tokens -> Token] /\ SameRows
      /\ \A u \in Tokens : ~token[u].stored => token'[u] = token[u]
      /\ UNCHANGED <<code, expired, disabled, sent, job>>
      /\ contested' \subseteq Credentials
  <2>1. /\ UNCHANGED <<code, expired, disabled, sent, job>> /\ token[t].stored
        /\ contested' \subseteq Credentials
    BY DEF Revoke, Owned, OwnInv, Exists, TypeOK
  <2> QED
    BY <2>1, RevokeWrites DEF Owned
<1>2. TypeOK'
  BY <1>1 DEF Owned, TypeOK
<1>3. \A x \in Credentials : (Exists(x) => Exists(x)') /\ OwnerOf(x)' = OwnerOf(x)
  BY <1>1 DEF SameRows, Exists, OwnerOf
<1>4. OwnInv'
  BY <1>1, <1>3 DEF SameRows, Owned, TypeOK, OwnInv, OwnClient
<1> QED
  BY <1>2, <1>4 DEF Owned

\* Codes and tokens expire, clients are disabled and enabled: no row of the
\* grants changes.
LEMMA OthersOwned ==
    ASSUME Owned,
           \/ \E x \in Credentials : Expire(x)
           \/ \E cl \in Clients : Toggle(cl)
           \/ UNCHANGED vars
    PROVE  Owned'
BY DEF Expire, Toggle, vars, Owned, TypeOK, OwnInv, OwnClient, OwnerOf, Exists

LEMMA NextOwned == Owned /\ [Next]_vars => Owned'
BY AuthorizeOwned, PresentOwned, SaveCodeOwned, SaveTokenOwned, SpendCodeOwned,
   SpendTokenOwned, SendOwned, AbortOwned, RevokeOwned, OthersOwned
   DEF Next, Request

LEMMA AlwaysOwned == Spec => []Owned
BY OwnedInit, NextOwned, PTL DEF Spec

\* Every variable keeps its type, however requests overlap and crash.
THEOREM TypeCorrect == Spec => []TypeOK
<1>1. Owned => TypeOK
  BY DEF Owned
<1> QED
  BY <1>1, AlwaysOwned, PTL

\* A token belongs to the client of the code it descends from, however
\* requests of all clients overlap and crash.
THEOREM OwnershipCorrect == Spec => []OwnClient
<1>1. Owned => OwnClient
  BY DEF Owned, OwnInv
<1> QED
  BY <1>1, AlwaysOwned, PTL

\* No step, not the commit of a refresh that read the token before it was
\* revoked either, makes a revoked token valid again.
THEOREM RevocationFinal == Spec => RevokedStays
<1>1. ASSUME Owned, [Next]_vars
      PROVE  [\A t \in Tokens :
                /\ token[t].accessRevoked => token'[t].accessRevoked
                /\ token[t].refreshRevoked => token'[t].refreshRevoked]_vars
  <2>1. ASSUME NEW r \in Requests, SaveToken(r), NEW t \in Tokens
        PROVE  token[t].stored => token'[t] = token[t]
    BY <1>1, <2>1 DEF SaveToken, Owned, TypeOK
  <2>2. ASSUME NEW r \in Requests, SpendToken(r), NEW t \in Tokens
        PROVE  /\ token[t].accessRevoked => token'[t].accessRevoked
               /\ token[t].refreshRevoked => token'[t].refreshRevoked
    BY <1>1, <2>2, SpendTokenWrites DEF Owned, SameRows
  <2>3. ASSUME NEW cl \in Clients, NEW u \in Tokens, NEW t \in Tokens,
               NEW hint \in {"access_token", "other"}, Revoke(cl, u, hint)
        PROVE  /\ token[t].accessRevoked => token'[t].accessRevoked
               /\ token[t].refreshRevoked => token'[t].refreshRevoked
    BY <1>1, <2>3, RevokeWrites DEF Owned, SameRows
  <2>4. ASSUME \/ \E r \in Requests :
                    \/ \E cl \in Clients : Authorize(r, cl)
                    \/ \E cl \in Clients, x \in Credentials : Present(r, cl, x)
                    \/ SaveCode(r) \/ SpendCode(r) \/ Send(r) \/ Abort(r)
               \/ \E x \in Credentials : Expire(x)
               \/ \E cl \in Clients : Toggle(cl)
        PROVE  token' = token
    BY <2>4 DEF Authorize, Present, SaveCode, SpendCode, Send, Abort, Expire, Toggle
  <2> QED
    BY <1>1, <2>1, <2>2, <2>3, <2>4 DEF Next, Request, Owned, OwnInv
<1> QED
  BY <1>1, AlwaysOwned, PTL DEF Spec, RevokedStays

(***************************************************************************)
(* Lines of credentials.                                                   *)
(***************************************************************************)
InLine == Owned /\ LineInv

LEMMA LineInit == Init => LineInv
BY DEF Init, LineInv, SecretsKept, Unspent, UsersAlone, AnswersDiffer,
       DeliveredSpent, DeliveredOnce, OneHead, Heads, Delivered, Using, NoJob

\* What is delivered is stored, for a credential.
LEMMA DeliveredExists ==
    ASSUME Owned, NEW t \in Tokens, Delivered(t)
    PROVE  token[t].stored /\ token[t].from \in Credentials
BY DEF Owned, TypeOK, OwnInv, Exists, Delivered

\* A line that has forked stays so.
LEMMA ForkedGrows ==
    ASSUME contested \subseteq contested',
           \A x \in contested : RootOf(x)' = RootOf(x)
    PROVE  Forked \subseteq Forked'
BY DEF Forked

LEMMA ForkedSame ==
    ASSUME UNCHANGED contested, \A x \in contested : RootOf(x)' = RootOf(x)
    PROVE  Forked' = Forked
BY DEF Forked

\* As long as no row and no delivery changes, nor do the lines.
LEMMA LinesUnchanged ==
    ASSUME InLine, UNCHANGED <<code, token>>, contested \subseteq contested',
           \A t \in Tokens : Delivered(t)' => Delivered(t)
    PROVE  (DeliveredSpent /\ DeliveredOnce /\ OneHead)'
<1>1. DeliveredSpent' /\ DeliveredOnce'
  BY DEF InLine, LineInv, DeliveredSpent, DeliveredOnce, Spent
<1>2. \A f \in Codes : Heads(f)' \subseteq Heads(f)
  BY DEF Heads
<1>3. Forked \subseteq Forked'
  BY ForkedGrows DEF RootOf
<1>4. OneHead'
  BY <1>2, <1>3 DEF InLine, LineInv, OneHead
<1> QED
  BY <1>1, <1>4

\* A request takes up j: a consent, or an unspent credential, which is
\* contested if another request is using it.
Starts(r, j) ==
    /\ job' = [job EXCEPT ![r] = j] /\ UNCHANGED <<code, token, sent>>
    /\ j.pc \in {"saveCode", "saveToken"} /\ j.new = NoCredential
    /\ contested \subseteq contested' /\ contested' \subseteq sent
    /\ j.pc = "saveToken" =>
         /\ ~Spent(j.from)
         /\ \A q \in Requests :
              Using(q) /\ job[q].from = j.from => j.from \in contested'

LEMMA Starting ==
    ASSUME InLine, NEW r \in Requests,
           \/ \E cl \in Clients : Authorize(r, cl)
           \/ \E cl \in Clients, x \in Credentials : Present(r, cl, x)
    PROVE  \E j : Starts(r, j)
<1>1. ASSUME NEW cl \in Clients, Authorize(r, cl)
      PROVE  \E j : Starts(r, j)
  <2> DEFINE j == [NoJob EXCEPT !.pc = "saveCode", !.client = cl]
  <2>1. job' = [job EXCEPT ![r] = j] /\ UNCHANGED <<code, token, sent, contested>>
    BY <1>1 DEF Authorize, Start
  <2>2. j.pc = "saveCode" /\ j.new = NoCredential
    BY DEF NoJob
  <2> HIDE DEF j
  <2> QED
    BY <2>1, <2>2 DEF Starts, InLine, LineInv
<1>2. ASSUME NEW cl \in Clients, NEW x \in Credentials, Present(r, cl, x)
      PROVE  \E j : Starts(r, j)
  <2> DEFINE j == [NoJob EXCEPT !.pc = "saveToken", !.client = cl, !.from = x]
  <2>1. job' = [job EXCEPT ![r] = j] /\ UNCHANGED <<code, token, sent>>
    BY <1>2 DEF Present, Start
  <2>2. j.pc = "saveToken" /\ j.new = NoCredential /\ j.from = x
    BY DEF NoJob
  <2>3. ~Spent(x) /\ x \in sent
    BY <1>2 DEF Present, Usable, Spent
  <2>4. contested' = contested \cup ({x} \cap InUse)
    BY <1>2 DEF Present
  <2>5. \A q \in Requests : Using(q) /\ job[q].from = x => x \in contested'
    BY <2>4 DEF InUse
  <2> HIDE DEF j
  <2> QED
    BY <2>1, <2>2, <2>3, <2>4, <2>5 DEF Starts, InLine, LineInv
<1> QED
  BY <1>1, <1>2

LEMMA StartLine ==
    ASSUME InLine, NEW r \in Requests,
           \/ \E cl \in Clients : Authorize(r, cl)
           \/ \E cl \in Clients, x \in Credentials : Present(r, cl, x)
    PROVE  LineInv'
<1>1. PICK j : Starts(r, j)
  BY Starting
<1>2. \A q \in Requests \ {r} : job'[q] = job[q]
  BY <1>1 DEF Starts, InLine, Owned, TypeOK
<1>3. job'[r] = j
  BY <1>1 DEF Starts, InLine, Owned, TypeOK
<1>4. SecretsKept' /\ AnswersDiffer'
  BY <1>1, <1>2, <1>3
     DEF Starts, InLine, LineInv, SecretsKept, AnswersDiffer, RootOf
<1>5. Unspent'
  BY <1>1, <1>2, <1>3 DEF Starts, InLine, LineInv, Unspent, Using, Spent
<1>6. UsersAlone'
  BY <1>1, <1>2, <1>3 DEF Starts, InLine, LineInv, UsersAlone, Using
<1>7. \A t \in Tokens : Delivered(t)' => Delivered(t)
  BY <1>1, <1>2, <1>3 DEF Starts, Delivered
<1> QED
  BY <1>1, <1>4, <1>5, <1>6, <1>7, LinesUnchanged DEF LineInv, Starts

LEMMA SaveCodeLine ==
    ASSUME InLine, NEW r \in Requests, SaveCode(r)
    PROVE  LineInv'
<1>1. PICK c \in Codes :
        /\ code[c].row = "none"
        /\ code' = [code EXCEPT ![c] =
             [row |-> "stored", client |-> job[r].client]]
        /\ job' = [job EXCEPT ![r] =
             [NoJob EXCEPT !.pc = "send", !.client = job[r].client, !.new = c]]
  BY DEF SaveCode
<1>2. UNCHANGED <<token, sent, contested>>
  BY DEF SaveCode
<1>3. \A q \in Requests \ {r} : job'[q] = job[q] /\ job[q].new # c
  BY <1>1 DEF InLine, Owned, TypeOK, OwnInv, Exists
<1>4. job'[r].pc = "send" /\ job'[r].new = c
  BY <1>1 DEF InLine, Owned, TypeOK, NoJob
<1>5. \A x \in Credentials : Spent(x)' = Spent(x) /\ RootOf(x)' = RootOf(x)
  BY <1>1, <1>2 DEF InLine, Owned, TypeOK, Spent, RootOf
<1>6. \A t \in Tokens : Delivered(t)' => Delivered(t)
  BY <1>2, <1>3, <1>4 DEF Delivered
<1>7. (SecretsKept /\ Unspent)'
  BY <1>2, <1>3, <1>4, <1>5
     DEF InLine, Owned, TypeOK, OwnInv, LineInv, SecretsKept, Unspent, Using
<1>8. (UsersAlone /\ AnswersDiffer)'
  BY <1>2, <1>3, <1>4 DEF InLine, LineInv, UsersAlone, AnswersDiffer, Using
<1>9. DeliveredSpent' /\ DeliveredOnce'
  BY <1>2, <1>5, <1>6, DeliveredExists
     DEF InLine, LineInv, DeliveredSpent, DeliveredOnce
<1>10. OneHead'
  <2>1. \A f \in Codes \ {c} : Heads(f)' \subseteq Heads(f)
    BY <1>1, <1>2, <1>6 DEF Heads, InLine, Owned, TypeOK
  <2>2. Heads(c)' \subseteq {c}
    BY <1>1, <1>2 DEF Heads, InLine, Owned, OwnInv
  <2>3. Forked' = Forked
    BY <1>2, <1>5, ForkedSame DEF InLine, Owned, TypeOK
  <2> QED
    BY <2>1, <2>2, <2>3 DEF OneHead, InLine, LineInv
<1> QED
  BY <1>2, <1>7, <1>8, <1>9, <1>10 DEF InLine, LineInv

LEMMA SaveTokenLine ==
    ASSUME InLine, NEW r \in Requests, SaveToken(r)
    PROVE  LineInv'
<1>1. PICK t \in Tokens :
        /\ ~token[t].stored
        /\ token' = [token EXCEPT ![t] =
             [stored |-> TRUE, client |-> job[r].client, from |-> job[r].from,
              code |-> RootOf(job[r].from),
              accessRevoked |-> FALSE, refreshRevoked |-> FALSE]]
        /\ job' = [job EXCEPT ![r] = [job[r] EXCEPT !.pc = "spend", !.new = t]]
  BY DEF SaveToken
<1>2. job[r].pc = "saveToken" /\ UNCHANGED <<code, sent, contested>>
  BY DEF SaveToken
<1>3. \A q \in Requests \ {r} : job'[q] = job[q] /\ job[q].new # t
  BY <1>1 DEF InLine, Owned, TypeOK, OwnInv, Exists
<1>4. job'[r].pc = "spend" /\ job'[r].new = t /\ job'[r].from = job[r].from
  BY <1>1 DEF InLine, Owned, TypeOK, Job
<1>5. /\ t \notin sent /\ job[r].from \in Credentials
      /\ job[r].from \in sent /\ job[r].from # t
  BY <1>1, <1>2 DEF InLine, Owned, TypeOK, OwnInv, Exists
<1>6. \A u \in Tokens \ {t} : token'[u] = token[u]
  BY <1>1 DEF InLine, Owned, TypeOK
<1>7. /\ token'[t].from = job[r].from /\ token'[t].code = RootOf(job[r].from)
      /\ ~token'[t].refreshRevoked
  BY <1>1 DEF InLine, Owned, TypeOK
<1>8. \A x \in Credentials \ {t} : Spent(x)' = Spent(x) /\ RootOf(x)' = RootOf(x)
  BY <1>2, <1>6 DEF Spent, RootOf
<1>9. \A u \in Tokens : Delivered(u)' => Delivered(u) /\ u # t
  BY <1>2, <1>3, <1>4, <1>5 DEF Delivered
<1>10. SecretsKept' /\ Unspent'
  <2>1. \A q \in Requests : Using(q) => job[q].from \in Credentials \ {t}
    BY <1>1 DEF InLine, Owned, TypeOK, OwnInv, Exists, Using
  <2>2. Unspent'
    BY <1>2, <1>3, <1>4, <1>8, <2>1 DEF InLine, LineInv, Unspent, Using
  <2>3. SecretsKept'
    BY <1>2, <1>3, <1>4, <1>5, <1>6, <1>7, <1>8, <2>1
       DEF InLine, Owned, OwnInv, LineInv, SecretsKept, Using
  <2> QED
    BY <2>2, <2>3
<1>11. UsersAlone' /\ AnswersDiffer'
  BY <1>2, <1>3, <1>4 DEF InLine, LineInv, UsersAlone, AnswersDiffer, Using
<1>12. DeliveredSpent' /\ DeliveredOnce'
  <2>1. \A u \in Tokens : Delivered(u) => token[u].from \in Credentials \ {t}
    BY <1>1 DEF InLine, Owned, TypeOK, OwnInv, Exists, LineInv, DeliveredSpent, Spent, Delivered
  <2> QED
    BY <1>2, <1>6, <1>8, <1>9, <2>1 DEF InLine, LineInv, DeliveredSpent, DeliveredOnce
<1>13. OneHead'
  <2>1. \A f \in Codes : Heads(f)' \subseteq Heads(f)
    BY <1>2, <1>6, <1>9 DEF Heads
  <2>2. contested \subseteq Credentials \ {t}
    BY <1>5 DEF InLine, Owned, TypeOK, LineInv
  <2>3. Forked' = Forked
    BY <1>2, <1>8, <2>2, ForkedSame
  <2> QED
    BY <2>1, <2>3 DEF OneHead, InLine, LineInv
<1> QED
  BY <1>2, <1>10, <1>11, <1>12, <1>13 DEF InLine, LineInv

(***************************************************************************)
(* A credential is spent and the token that was stored for it takes its    *)
(* place. This covers both grants.                                         *)
(***************************************************************************)
Spends(r) ==
    /\ job[r].pc = "spend"
    /\ job' = [job EXCEPT ![r].pc = "send"] /\ UNCHANGED <<sent, contested>>
    /\ \A u \in Tokens : /\ token'[u].stored = token[u].stored
                         /\ token'[u].from = token[u].from
                         /\ token'[u].code = token[u].code
    /\ \A u \in Tokens \ {job[r].from} :
         token'[u].refreshRevoked = token[u].refreshRevoked
    /\ \A y \in Credentials : Spent(y)' <=> Spent(y) \/ y = job[r].from
    /\ \A c \in Codes : code'[c].row = "stored"
                         <=> code[c].row = "stored" /\ c # job[r].from

LEMMA Spending ==
    ASSUME InLine, NEW r \in Requests, SpendCode(r) \/ SpendToken(r)
    PROVE  Spends(r)
<1>1. CASE SpendCode(r)
  <2>1. /\ job[r].pc = "spend" /\ job[r].from \in Codes
        /\ code' = [code EXCEPT ![job[r].from].row = "deleted"]
        /\ job' = [job EXCEPT ![r].pc = "send"] /\ UNCHANGED <<token, sent, contested>>
    BY <1>1 DEF SpendCode, Goto
  <2>2. \A y \in Credentials : Spent(y)' <=> Spent(y) \/ y = job[r].from
    BY <2>1 DEF Spent, InLine, Owned, TypeOK, Code
  <2>3. \A c \in Codes : code'[c].row = "stored"
                          <=> code[c].row = "stored" /\ c # job[r].from
    BY <2>1 DEF InLine, Owned, TypeOK, Code
  <2> QED
    BY <2>1, <2>2, <2>3 DEF Spends
<1>2. CASE SpendToken(r)
  <2>1. /\ job[r].pc = "spend" /\ job[r].from \in Tokens
        /\ job' = [job EXCEPT ![r].pc = "send"] /\ UNCHANGED <<code, sent, contested>>
        /\ SameRows /\ token'[job[r].from].refreshRevoked
        /\ \A u \in Tokens \ {job[r].from} : token'[u] = token[u]
    BY <1>2, SpendTokenWrites DEF SpendToken, Goto, InLine, Owned
  <2>2. \A y \in Credentials : Spent(y)' <=> Spent(y) \/ y = job[r].from
    BY <2>1 DEF Spent
  <2> QED
    BY <2>1, <2>2 DEF Spends, SameRows
<1> QED
  BY <1>1, <1>2

\* The credential x of line f that r spends, and its successor t.
LEMMA Successor ==
    ASSUME InLine, NEW r \in Requests, Spends(r)
    PROVE  \E x \in Credentials, t \in Tokens, f \in Codes :
             /\ x = job[r].from /\ t = job[r].new /\ f = RootOf(x)
             /\ x \in sent /\ Exists(x) /\ t \notin sent /\ x # t
             /\ ~token[t].refreshRevoked /\ ~token'[t].refreshRevoked
             /\ token[t].from = x /\ token[t].code = f /\ token[t].stored
             /\ f \notin Forked => ~Spent(x) /\ x \in Heads(f)
<1>1. PICK x \in Credentials, t \in Tokens, f \in Codes :
        x = job[r].from /\ t = job[r].new /\ f = RootOf(x)
  BY DEF Spends, InLine, Owned, OwnInv, TypeOK, Exists, RootOf
<1>2. /\ x \in sent /\ Exists(x) /\ t \notin sent
      /\ ~token[t].refreshRevoked
      /\ token[t].from = x /\ token[t].code = f /\ token[t].stored
  BY <1>1 DEF Spends, InLine, Owned, TypeOK, OwnInv, LineInv, SecretsKept, Exists
<1>3. x # t /\ ~token'[t].refreshRevoked
  BY <1>1, <1>2 DEF Spends
<1>4. ASSUME f \notin Forked PROVE ~Spent(x)
  BY <1>1, <1>4 DEF Forked, Spends, Using, InLine, LineInv, Unspent
<1>5. ASSUME ~Spent(x) PROVE x \in Heads(f)
  BY <1>1, <1>2, <1>5 DEF RootOf, Heads, Delivered, Exists, Spent, InLine,
     Owned, TypeOK, OwnInv, Code
<1> QED
  BY <1>1, <1>2, <1>3, <1>4, <1>5

LEMMA SpendLine ==
    ASSUME InLine, NEW r \in Requests, Spends(r)
    PROVE  LineInv'
<1>1. PICK x \in Credentials, t \in Tokens, f \in Codes :
        /\ x = job[r].from /\ t = job[r].new /\ f = RootOf(x)
        /\ x \in sent /\ Exists(x) /\ t \notin sent /\ x # t
        /\ ~token[t].refreshRevoked /\ ~token'[t].refreshRevoked
        /\ token[t].from = x /\ token[t].code = f /\ token[t].stored
        /\ f \notin Forked => ~Spent(x) /\ x \in Heads(f)
  BY Successor
<1>2. /\ \A q \in Requests \ {r} : job'[q] = job[q]
      /\ job'[r].pc = "send" /\ job'[r].new = t /\ job'[r].from = x
  BY <1>1 DEF Spends, InLine, Owned, TypeOK, Job
<1>3. \A u \in Tokens : Delivered(u)' => Delivered(u) \/ u = t
  BY <1>2 DEF Spends, Delivered
<1>4. \A y \in Credentials : RootOf(y)' = RootOf(y)
  BY DEF Spends, RootOf
<1>5. \A q \in Requests \ {r} :
        Using(q) => job[q].from # x \/ x \in contested
  BY <1>1 DEF Spends, InLine, LineInv, UsersAlone, Using
<1>6. \A q \in Requests :
        /\ Using(q) => job[q].from \in Credentials
        /\ job[q].pc = "spend" => job[q].new \in Tokens
  BY DEF InLine, Owned, TypeOK, OwnInv, Using
<1>7. \A q \in Requests \ {r} :
        job[q].pc = "spend" => ~token'[job[q].new].refreshRevoked
  <2>1. \A q \in Requests : job[q].pc = "spend" =>
          job[q].new \notin sent /\ ~token[job[q].new].refreshRevoked
    BY DEF InLine, LineInv, SecretsKept
  <2> QED
    BY <1>1, <1>6, <2>1 DEF Spends
<1>8. SecretsKept'
  BY <1>2, <1>4, <1>6, <1>7 DEF Spends, InLine, LineInv, SecretsKept, Using
<1>9. UsersAlone' /\ AnswersDiffer'
  BY <1>1, <1>2 DEF Spends, InLine, LineInv, UsersAlone, AnswersDiffer, Using
<1>10. Unspent'
  BY <1>1, <1>2, <1>5, <1>6 DEF Spends, InLine, LineInv, Unspent, Using
<1>11. DeliveredSpent'
  BY <1>1, <1>3, DeliveredExists DEF Spends, InLine, LineInv, DeliveredSpent
<1>12. DeliveredOnce'
  <2>1. \A u \in Tokens : Delivered(u) /\ token[u].from = x => x \in contested
    BY <1>1 DEF Spends, InLine, LineInv, DeliveredSpent, Unspent, Using
  <2> QED
    BY <1>1, <1>3, <2>1 DEF Spends, InLine, LineInv, DeliveredOnce
<1>13. OneHead'
  <2>1. \A g \in Codes \ Forked : \A y, z \in Heads(g) : y = z
    BY DEF OneHead, InLine, LineInv
  <2>2. Forked' = Forked
    BY <1>4, ForkedSame DEF Spends, InLine, Owned, TypeOK
  <2>3. x \notin Heads(f)'
    BY <1>1 DEF Spends, Heads, Spent
  <2>4. \A g \in Codes : Heads(g)' \subseteq Heads(g) \cup {t}
    BY <1>1, <1>3 DEF Spends, Heads, Spent
  <2>5. \A g \in Codes \ {f} : t \notin Heads(g)'
    BY <1>1 DEF Spends, Heads
  <2>6. ASSUME NEW g \in Codes \ Forked, NEW y \in Heads(g)', NEW z \in Heads(g)'
        PROVE  y = z
    <3>1. CASE g = f
      <4>1. Heads(f)' \subseteq {t}
        BY <1>1, <2>1, <2>3, <2>4, <3>1
      <4> QED
        BY <3>1, <4>1
    <3>2. CASE g # f
      <4>1. Heads(g)' \subseteq Heads(g)
        BY <2>4, <2>5, <3>2
      <4> QED
        BY <2>1, <4>1
    <3> QED
      BY <3>1, <3>2
  <2> QED
    BY <2>2, <2>6 DEF OneHead
<1> QED
  BY <1>8, <1>9, <1>10, <1>11, <1>12, <1>13 DEF Spends, InLine, LineInv

LEMMA EndLine ==
    ASSUME InLine, NEW r \in Requests, Send(r) \/ Abort(r)
    PROVE  LineInv'
<1>1. /\ job' = [job EXCEPT ![r] = NoJob] /\ UNCHANGED <<code, token, contested>>
      /\ job[r].pc # "idle"
      /\ \/ sent' = sent
         \/ sent' = sent \cup {job[r].new} /\ job[r].pc = "send"
  BY DEF Send, Abort, Finish
<1>2. /\ \A q \in Requests \ {r} : job'[q] = job[q]
      /\ job'[r].pc = "idle" /\ job'[r].new = NoCredential
  BY <1>1 DEF InLine, Owned, TypeOK, NoJob
<1>3. \A t \in Tokens : Delivered(t)' => Delivered(t)
  BY <1>1, <1>2 DEF Delivered
<1>4. \A q \in Requests \ {r} :
        job[q].pc = "spend" => job[q].new # job[r].new
  BY DEF InLine, Owned, OwnInv, TypeOK, LineInv, AnswersDiffer
<1>5. SecretsKept'
  BY <1>1, <1>2, <1>4 DEF InLine, LineInv, SecretsKept, RootOf
<1>6. (Unspent /\ UsersAlone /\ AnswersDiffer)'
  BY <1>1, <1>2 DEF InLine, LineInv, Unspent, UsersAlone, AnswersDiffer, Spent, Using
<1> QED
  BY <1>1, <1>3, <1>5, <1>6, LinesUnchanged DEF InLine, LineInv

\* What a revocation does to the line: it contests the token only if it
\* spends it for a request that is using it.
LEMMA Revoking ==
    ASSUME InLine, NEW cl \in Clients, NEW t \in Tokens,
           NEW hint \in {"access_token", "other"}, Revoke(cl, t, hint)
    PROVE  /\ t \in sent /\ Exists(t) /\ UNCHANGED <<code, sent, job>> /\ SameRows
           /\ \A u \in Tokens \ {t} : token'[u] = token[u]
           /\ token[t].refreshRevoked => token'[t].refreshRevoked
           /\ contested \subseteq contested' /\ contested' \subseteq contested \cup {t}
           /\ ~Spent(t) /\ Spent(t)' /\ t \in InUse => t \in contested'
           /\ ~Spent(t)' \/ Spent(t) => UNCHANGED contested
<1>1. /\ t \in sent /\ Exists(t) /\ UNCHANGED <<code, sent, job>> /\ SameRows
      /\ \A u \in Tokens \ {t} : token'[u] = token[u]
      /\ token[t].refreshRevoked => token'[t].refreshRevoked
      /\ hint = "access_token" =>
           (token'[t].refreshRevoked <=> token[t].refreshRevoked)
  BY RevokeWrites DEF Revoke, InLine, Owned, OwnInv
<1>2. contested' = IF hint = "access_token" THEN contested
                   ELSE contested \cup ({t} \cap InUse)
  BY DEF Revoke
<1>3. hint # "access_token" => token'[t].refreshRevoked
  <2>1. hint # "access_token" =>
          token' = [token EXCEPT ![t].accessRevoked = TRUE, ![t].refreshRevoked = TRUE]
    BY DEF Revoke
  <2> QED
    BY <2>1 DEF InLine, Owned, TypeOK, Token
<1>4. Spent(t) /\ t \in InUse => t \in contested
  BY DEF InLine, LineInv, Unspent, InUse
<1>5. (Spent(t) <=> token[t].refreshRevoked) /\ (Spent(t)' <=> token'[t].refreshRevoked)
  BY DEF Spent
<1> QED
  BY <1>1, <1>2, <1>3, <1>4, <1>5

LEMMA RevokeLine ==
    ASSUME InLine, NEW cl \in Clients, NEW t \in Tokens,
           NEW hint \in {"access_token", "other"}, Revoke(cl, t, hint)
    PROVE  LineInv'
<1>1. /\ t \in sent /\ UNCHANGED <<code, sent, job>> /\ SameRows
      /\ \A u \in Tokens \ {t} : token'[u] = token[u]
      /\ token[t].refreshRevoked => token'[t].refreshRevoked
      /\ contested \subseteq contested' /\ contested' \subseteq contested \cup {t}
      /\ ~Spent(t) /\ Spent(t)' /\ t \in InUse => t \in contested'
  BY Revoking
<1>2. \A y \in Credentials : /\ Spent(y) => Spent(y)'
                             /\ y # t => Spent(y)' = Spent(y)
                             /\ RootOf(y)' = RootOf(y)
  BY <1>1 DEF Spent, RootOf, SameRows
<1>3. \A r \in Requests :
        /\ Using(r) => job[r].from \in Credentials /\ job[r].from \in InUse
        /\ job[r].pc = "spend" => job[r].new \in Tokens
  BY DEF InLine, Owned, TypeOK, OwnInv, Using, InUse
<1>4. SecretsKept'
  BY <1>1, <1>2, <1>3 DEF InLine, LineInv, SecretsKept, Using
<1>5. (Unspent /\ UsersAlone /\ AnswersDiffer)'
  BY <1>1, <1>2, <1>3 DEF InLine, LineInv, Unspent, UsersAlone, AnswersDiffer, Using
<1>6. \A u \in Tokens : Delivered(u)' <=> Delivered(u)
  BY <1>1 DEF Delivered
<1>7. DeliveredSpent' /\ DeliveredOnce'
  BY <1>1, <1>2, <1>6, DeliveredExists
     DEF InLine, LineInv, DeliveredSpent, DeliveredOnce, SameRows
<1>8. \A f \in Codes : Heads(f)' \subseteq Heads(f)
  BY <1>1, <1>6 DEF Heads, SameRows
<1>9. Forked \subseteq Forked'
  BY <1>1, <1>2, ForkedGrows DEF InLine, Owned, TypeOK
<1>10. OneHead'
  BY <1>8, <1>9 DEF InLine, LineInv, OneHead
<1> QED
  BY <1>1, <1>4, <1>5, <1>7, <1>10 DEF InLine, LineInv

LEMMA OthersLine ==
    ASSUME InLine,
           \/ \E x \in Credentials : Expire(x)
           \/ \E cl \in Clients : Toggle(cl)
           \/ UNCHANGED vars
    PROVE  LineInv'
<1>1. UNCHANGED <<code, token, sent, job, contested>>
  BY DEF Expire, Toggle, vars
<1>2. \A t \in Tokens : Delivered(t)' => Delivered(t)
  BY <1>1 DEF Delivered
<1>3. (SecretsKept /\ Unspent /\ UsersAlone /\ AnswersDiffer)'
  BY <1>1 DEF InLine, LineInv, SecretsKept, Unspent, UsersAlone, AnswersDiffer,
              RootOf, Spent, Using
<1> QED
  BY <1>1, <1>2, <1>3, LinesUnchanged DEF InLine, LineInv

LEMMA NextLine == InLine /\ [Next]_vars => LineInv'
BY StartLine, SaveCodeLine, SaveTokenLine, Spending, SpendLine, EndLine,
   RevokeLine, OthersLine DEF Next, Request

\* The invariant behind the theorems that follow: of the requests that use a
\* credential each has it to itself or it is contested, and the token it has
\* stored is nobody's before the credential is spent.
THEOREM LineCorrect == Spec => []LineInv
<1>1. Owned /\ LineInv /\ [Next]_vars => LineInv'
  BY NextLine DEF InLine
<1> QED
  BY <1>1, LineInit, AlwaysOwned, PTL DEF Spec

\* However often clients retry after crashes, a code and a refresh token are
\* each exchanged for one token that is ever sent, unless contested.
THEOREM SuccessorUnique == Spec => []OneSuccessor
<1>1. LineInv => OneSuccessor
  BY DEF LineInv, DeliveredOnce, Delivered, OneSuccessor
<1> QED
  BY <1>1, LineCorrect, PTL

\* A client can go on with at most one credential of a line that has not
\* forked.
THEOREM HeadUnique == Spec => []OneHead
<1>1. LineInv => OneHead
  BY DEF LineInv
<1> QED
  BY <1>1, LineCorrect, PTL

(***************************************************************************)
(* How far a contested credential forks.                                   *)
(***************************************************************************)
LEMMA ForkInit == Init => ForkInv
BY DEF Init, ForkInv, Spent

\* Steps that spend nothing, and bring neither a delivery nor a user to what
\* is spent.
LEMMA ForkKept ==
    ASSUME NEW x \in Credentials, Spent(x), ForkInv,
           DeliveredFor(x)' \subseteq DeliveredFor(x),
           UsersOf(x)' \subseteq UsersOf(x)
    PROVE  /\ IsFiniteSet(DeliveredFor(x)')
           /\ Cardinality(DeliveredFor(x)') + Cardinality(UsersOf(x)')
                =< Cardinality(Requests)
<1> DEFINE D == DeliveredFor(x)  U == UsersOf(x)
           E == DeliveredFor(x)'  V == UsersOf(x)'
<1>1. IsFiniteSet(D) /\ Cardinality(D) + Cardinality(U) =< Cardinality(Requests)
  BY DEF ForkInv
<1>2. IsFiniteSet(U)
  <2>1. U \in SUBSET Requests
    BY DEF UsersOf
  <2> QED
    BY <2>1, RequestsAssumption, FS_Subset
<1>3. E \in SUBSET D /\ V \in SUBSET U
  OBVIOUS
<1> HIDE DEF D, U, E, V
<1>4. IsFiniteSet(E) /\ Cardinality(E) =< Cardinality(D)
  BY <1>1, <1>3, FS_Subset
<1>5. IsFiniteSet(V) /\ Cardinality(V) =< Cardinality(U)
  BY <1>2, <1>3, FS_Subset
<1>6. /\ Cardinality(D) \in Nat /\ Cardinality(U) \in Nat
      /\ Cardinality(E) \in Nat /\ Cardinality(V) \in Nat
      /\ Cardinality(Requests) \in Nat
  BY <1>1, <1>2, <1>4, <1>5, RequestsAssumption, FS_CardinalityType
<1>7. Cardinality(E) + Cardinality(V) =< Cardinality(Requests)
  BY <1>1, <1>4, <1>5, <1>6
<1> QED
  BY <1>4, <1>7 DEF E, V

\* A request goes from the users of x to its deliveries.
LEMMA ForkSpend ==
    ASSUME InLine, ForkInv, NEW r \in Requests, Spends(r)
    PROVE  ForkInv'
<1>1. PICK x \in Credentials, t \in Tokens :
        x = job[r].from /\ t = job[r].new /\ token[t].from = x
  BY Successor
<1>2. /\ \A q \in Requests \ {r} : job'[q] = job[q]
      /\ job'[r].pc = "send" /\ job'[r].new = t /\ job'[r].from = x
  BY <1>1 DEF Spends, InLine, Owned, TypeOK, Job
<1>3. \A u \in Tokens : Delivered(u)' => Delivered(u) \/ u = t
  BY <1>2 DEF Spends, Delivered
<1>4. ASSUME NEW y \in Credentials, y # x, Spent(y)'
      PROVE  /\ IsFiniteSet(DeliveredFor(y)')
             /\ Cardinality(DeliveredFor(y)') + Cardinality(UsersOf(y)')
                  =< Cardinality(Requests)
  <2>1. Spent(y)
    BY <1>1, <1>4 DEF Spends
  <2>2. DeliveredFor(y)' \subseteq DeliveredFor(y)
    BY <1>1, <1>3, <1>4 DEF Spends, DeliveredFor
  <2>3. UsersOf(y)' \subseteq UsersOf(y)
    BY <1>2, <1>4 DEF UsersOf, Using
  <2> QED
    BY <2>1, <2>2, <2>3, ForkKept
<1>5. /\ IsFiniteSet(DeliveredFor(x)')
      /\ Cardinality(DeliveredFor(x)') + Cardinality(UsersOf(x)')
           =< Cardinality(Requests)
  <2> DEFINE D == DeliveredFor(x)  U == UsersOf(x)
             E == DeliveredFor(x)'  V == UsersOf(x)'
  <2>1. IsFiniteSet(D) /\ Cardinality(D) + Cardinality(U) =< Cardinality(Requests)
    <3>1. CASE Spent(x)
      BY <3>1 DEF ForkInv
    <3>2. CASE ~Spent(x)
      <4>1. D = {}
        BY <3>2 DEF DeliveredFor, InLine, LineInv, DeliveredSpent
      <4>2. U \in SUBSET Requests
        BY DEF UsersOf
      <4> HIDE DEF D, U
      <4>3. /\ Cardinality(U) =< Cardinality(Requests)
            /\ Cardinality(U) \in Nat /\ Cardinality(Requests) \in Nat
        BY <4>2, RequestsAssumption, FS_Subset, FS_CardinalityType
      <4> QED
        BY <4>1, <4>3, FS_EmptySet
    <3> QED
      BY <3>1, <3>2
  <2>2. r \in U /\ U \in SUBSET Requests
    BY <1>1 DEF UsersOf, Using, Spends
  <2>3. V \in SUBSET (U \ {r})
    BY <1>2 DEF UsersOf, Using
  <2>4. E \in SUBSET (D \cup {t})
    BY <1>3 DEF DeliveredFor, Spends
  <2> HIDE DEF D, U, E, V
  <2>5. IsFiniteSet(U)
    BY <2>2, RequestsAssumption, FS_Subset
  <2>6. /\ IsFiniteSet(U \ {r}) /\ Cardinality(U \ {r}) = Cardinality(U) - 1
    BY <2>2, <2>5, FS_RemoveElement
  <2>7. IsFiniteSet(V) /\ Cardinality(V) =< Cardinality(U \ {r})
    BY <2>3, <2>6, FS_Subset
  <2>8. /\ IsFiniteSet(D \cup {t})
        /\ Cardinality(D \cup {t}) = IF t \in D THEN Cardinality(D)
                                     ELSE Cardinality(D) + 1
    BY <2>1, FS_AddElement
  <2>9. IsFiniteSet(E) /\ Cardinality(E) =< Cardinality(D \cup {t})
    BY <2>4, <2>8, FS_Subset
  <2>10. /\ Cardinality(D) \in Nat /\ Cardinality(U) \in Nat
         /\ Cardinality(E) \in Nat /\ Cardinality(V) \in Nat
         /\ Cardinality(D \cup {t}) \in Nat /\ Cardinality(U \ {r}) \in Nat
         /\ Cardinality(Requests) \in Nat
    BY <2>1, <2>5, <2>6, <2>7, <2>8, <2>9, RequestsAssumption, FS_CardinalityType
  <2>11. Cardinality(E) + Cardinality(V) =< Cardinality(Requests)
    BY <2>1, <2>6, <2>7, <2>8, <2>9, <2>10
  <2> QED
    BY <2>9, <2>11 DEF E, V
<1> QED
  BY <1>4, <1>5 DEF ForkInv

LEMMA ForkRevoke ==
    ASSUME InLine, ForkInv, NEW cl \in Clients, NEW t \in Tokens,
           NEW hint \in {"access_token", "other"}, Revoke(cl, t, hint)
    PROVE  ForkInv'
<1>1. /\ UNCHANGED <<code, sent, job>> /\ SameRows
      /\ \A u \in Tokens \ {t} : token'[u] = token[u]
  BY Revoking
<1>2. \A y \in Credentials : DeliveredFor(y)' = DeliveredFor(y) /\ UsersOf(y)' = UsersOf(y)
  BY <1>1 DEF DeliveredFor, Delivered, UsersOf, Using, SameRows
<1>3. ASSUME NEW y \in Credentials, ~Spent(y)
      PROVE  /\ IsFiniteSet(DeliveredFor(y))
             /\ Cardinality(DeliveredFor(y)) + Cardinality(UsersOf(y))
                  =< Cardinality(Requests)
  <2>1. DeliveredFor(y) = {}
    BY <1>3 DEF DeliveredFor, InLine, LineInv, DeliveredSpent
  <2>2. UsersOf(y) \in SUBSET Requests
    BY DEF UsersOf
  <2>3. /\ Cardinality(UsersOf(y)) =< Cardinality(Requests)
        /\ Cardinality(UsersOf(y)) \in Nat /\ Cardinality(Requests) \in Nat
    BY <2>2, RequestsAssumption, FS_Subset, FS_CardinalityType
  <2> QED
    BY <2>1, <2>3, FS_EmptySet
<1>4. \A y \in Credentials :
        /\ IsFiniteSet(DeliveredFor(y))
        /\ Cardinality(DeliveredFor(y)) + Cardinality(UsersOf(y))
             =< Cardinality(Requests)
  BY <1>3 DEF ForkInv
<1> QED
  BY <1>2, <1>4 DEF ForkInv

\* Every other step: no credential is spent, no token delivered, and who
\* takes up a credential has found it unspent.
LEMMA ForkOther ==
    ASSUME InLine, ForkInv,
           \A x \in Credentials : Spent(x)' =>
             /\ Spent(x) /\ DeliveredFor(x)' \subseteq DeliveredFor(x)
             /\ UsersOf(x)' \subseteq UsersOf(x)
    PROVE  ForkInv'
BY ForkKept DEF ForkInv

LEMMA ForkNext == InLine /\ ForkInv /\ [Next]_vars => ForkInv'
<1> SUFFICES ASSUME InLine, ForkInv, [Next]_vars PROVE ForkInv'
  OBVIOUS
<1>1. ASSUME NEW r \in Requests,
             \/ \E cl \in Clients : Authorize(r, cl)
             \/ \E cl \in Clients, x \in Credentials : Present(r, cl, x)
      PROVE  ForkInv'
  <2>1. PICK j : Starts(r, j)
    BY <1>1, Starting
  <2>2. /\ \A q \in Requests \ {r} : job'[q] = job[q]
        /\ job'[r] = j
    BY <2>1 DEF Starts, InLine, Owned, TypeOK
  <2>3. \A x \in Credentials : Spent(x)' => Spent(x) /\ UsersOf(x)' \subseteq UsersOf(x)
    BY <2>1, <2>2 DEF Starts, Spent, UsersOf, Using
  <2>4. \A x \in Credentials : DeliveredFor(x)' \subseteq DeliveredFor(x)
    BY <2>1, <2>2 DEF Starts, DeliveredFor, Delivered
  <2> QED
    BY <2>3, <2>4, ForkOther
<1>2. ASSUME NEW r \in Requests, SaveCode(r) PROVE ForkInv'
  <2>1. PICK c \in Codes :
          /\ code[c].row = "none"
          /\ code' = [code EXCEPT ![c] =
               [row |-> "stored", client |-> job[r].client]]
          /\ job' = [job EXCEPT ![r] =
               [NoJob EXCEPT !.pc = "send", !.client = job[r].client, !.new = c]]
    BY <1>2 DEF SaveCode
  <2>2. UNCHANGED <<token, sent>>
    BY <1>2 DEF SaveCode
  <2>3. /\ \A q \in Requests \ {r} : job'[q] = job[q]
        /\ job'[r].pc = "send" /\ job'[r].new = c
    BY <2>1 DEF InLine, Owned, TypeOK, NoJob
  <2>4. \A x \in Credentials : Spent(x)' => Spent(x)
    BY <2>1, <2>2 DEF InLine, Owned, TypeOK, Spent
  <2>5. \A x \in Credentials : /\ DeliveredFor(x)' \subseteq DeliveredFor(x)
                               /\ UsersOf(x)' \subseteq UsersOf(x)
    BY <2>2, <2>3 DEF DeliveredFor, Delivered, UsersOf, Using
  <2> QED
    BY <2>4, <2>5, ForkOther
<1>3. ASSUME NEW r \in Requests, SaveToken(r) PROVE ForkInv'
  <2>1. PICK t \in Tokens :
          /\ ~token[t].stored
          /\ token' = [token EXCEPT ![t] =
               [stored |-> TRUE, client |-> job[r].client, from |-> job[r].from,
                code |-> RootOf(job[r].from),
                accessRevoked |-> FALSE, refreshRevoked |-> FALSE]]
          /\ job' = [job EXCEPT ![r] = [job[r] EXCEPT !.pc = "spend", !.new = t]]
    BY <1>3 DEF SaveToken
  <2>2. job[r].pc = "saveToken" /\ UNCHANGED <<code, sent>>
    BY <1>3 DEF SaveToken
  <2>3. /\ \A q \in Requests \ {r} : job'[q] = job[q]
        /\ job'[r].pc = "spend" /\ job'[r].from = job[r].from
    BY <2>1 DEF InLine, Owned, TypeOK, Job
  <2>4. /\ \A u \in Tokens \ {t} : token'[u] = token[u]
        /\ ~token'[t].refreshRevoked
    BY <2>1 DEF InLine, Owned, TypeOK
  <2>5. \A u \in Tokens : Delivered(u)' => Delivered(u) /\ u # t
    BY <2>1, <2>2, <2>3 DEF Delivered, InLine, Owned, OwnInv, Exists
  <2>6. \A x \in Credentials : Spent(x)' => Spent(x)
    BY <2>2, <2>4 DEF Spent
  <2>7. \A x \in Credentials : /\ DeliveredFor(x)' \subseteq DeliveredFor(x)
                               /\ UsersOf(x)' \subseteq UsersOf(x)
    BY <2>2, <2>3, <2>4, <2>5 DEF DeliveredFor, UsersOf, Using
  <2> QED
    BY <2>6, <2>7, ForkOther
<1>4. ASSUME NEW r \in Requests, Send(r) \/ Abort(r) PROVE ForkInv'
  <2>1. /\ UNCHANGED <<code, token>>
        /\ \A q \in Requests \ {r} : job'[q] = job[q]
        /\ job'[r].pc = "idle"
        /\ \/ sent' = sent
           \/ sent' = sent \cup {job[r].new} /\ job[r].pc = "send"
    BY <1>4 DEF Send, Abort, Finish, NoJob, InLine, Owned, TypeOK
  <2>2. \A x \in Credentials : /\ Spent(x)' => Spent(x)
                               /\ DeliveredFor(x)' \subseteq DeliveredFor(x)
                               /\ UsersOf(x)' \subseteq UsersOf(x)
    BY <2>1 DEF Spent, DeliveredFor, Delivered, UsersOf, Using
  <2> QED
    BY <2>2, ForkOther
<1>5. CASE \/ \E x \in Credentials : Expire(x)
           \/ \E cl \in Clients : Toggle(cl)
           \/ UNCHANGED vars
  <2>1. UNCHANGED <<code, token, sent, job>>
    BY <1>5 DEF Expire, Toggle, vars
  <2>2. \A x \in Credentials : /\ Spent(x)' => Spent(x)
                               /\ DeliveredFor(x)' \subseteq DeliveredFor(x)
                               /\ UsersOf(x)' \subseteq UsersOf(x)
    BY <2>1 DEF Spent, DeliveredFor, Delivered, UsersOf, Using
  <2> QED
    BY <2>2, ForkOther
<1> QED
  BY <1>1, <1>2, <1>3, <1>4, <1>5, Spending, ForkSpend, ForkRevoke DEF Next, Request

\* A credential yields at most as many tokens as there are requests at a
\* time, however often it is presented and whatever crashes.
THEOREM ForksAreBounded == Spec => []ForksBounded
<1>1. InLine /\ ForkInv => ForksBounded
  <2> SUFFICES ASSUME InLine, ForkInv, NEW x \in Credentials
               PROVE  Cardinality({t \in sent \cap Tokens : token[t].from = x})
                        =< Cardinality(Requests)
    BY DEF ForksBounded
  <2> DEFINE S == {t \in sent \cap Tokens : token[t].from = x}
             D == DeliveredFor(x)  U == UsersOf(x)
  <2>1. S \in SUBSET D /\ U \in SUBSET Requests
    BY DEF DeliveredFor, Delivered, UsersOf
  <2>2. Cardinality(Requests) \in Nat
    BY RequestsAssumption, FS_CardinalityType
  <2>3. CASE S = {}
    BY <2>2, <2>3, FS_EmptySet
  <2>4. CASE S # {}
    <3>1. Spent(x)
      BY <2>1, <2>4 DEF DeliveredFor, InLine, LineInv, DeliveredSpent
    <3>2. IsFiniteSet(D) /\ Cardinality(D) + Cardinality(U) =< Cardinality(Requests)
      BY <3>1 DEF ForkInv
    <3> HIDE DEF S, D, U
    <3>3. IsFiniteSet(U)
      BY <2>1, RequestsAssumption, FS_Subset
    <3>4. IsFiniteSet(S) /\ Cardinality(S) =< Cardinality(D)
      BY <2>1, <3>2, FS_Subset
    <3>5. Cardinality(S) \in Nat /\ Cardinality(D) \in Nat /\ Cardinality(U) \in Nat
      BY <3>2, <3>3, <3>4, FS_CardinalityType
    <3>6. Cardinality(S) =< Cardinality(Requests)
      BY <2>2, <3>2, <3>4, <3>5
    <3> QED
      BY <3>6 DEF S
  <2> QED
    BY <2>3, <2>4
<1>2. Owned /\ LineInv /\ ForkInv /\ [Next]_vars => ForkInv'
  BY ForkNext DEF InLine
<1>3. Owned /\ LineInv /\ ForkInv => ForksBounded
  BY <1>1 DEF InLine
<1> QED
  BY <1>2, <1>3, ForkInit, AlwaysOwned, LineCorrect, PTL DEF Spec

(***************************************************************************)
(* TokenGrants implements TokenLine: with OneHead, the credential that a   *)
(* line goes on with, until it forks, is the only head there is.           *)
(***************************************************************************)
LEMMA OnlyMember ==
    ASSUME NEW H, NEW x \in H, \A y \in H : y = x
    PROVE  (CHOOSE y \in H : TRUE) = x
OBVIOUS

LEMMA CurrentHead ==
    ASSUME OneHead, NEW f \in Codes
    PROVE  /\ f \in Forked \/ Heads(f) = {} => Current[f] = NoCredential
           /\ f \notin Forked =>
                \A x \in Heads(f) : Heads(f) = {x} /\ Current[f] = x
<1>1. Current[f] = IF f \in Forked \/ Heads(f) = {} THEN NoCredential
                   ELSE CHOOSE x \in Heads(f) : TRUE
  BY DEF Current
<1>2. ASSUME f \notin Forked, NEW x \in Heads(f)
      PROVE  Heads(f) = {x} /\ Current[f] = x
  <2>1. \A y \in Heads(f) : y = x
    BY <1>2 DEF OneHead
  <2>2. (CHOOSE y \in Heads(f) : TRUE) = x
    BY <2>1, OnlyMember
  <2> QED
    BY <1>1, <1>2, <2>1, <2>2
<1> QED
  BY <1>1, <1>2

LEMMA NextCurrentHead ==
    ASSUME OneHead', NEW f \in Codes
    PROVE  /\ f \in Forked' \/ Heads(f)' = {} => Current'[f] = NoCredential
           /\ f \notin Forked' =>
                \A x \in Heads(f)' : Heads(f)' = {x} /\ Current'[f] = x
<1>1. Current'[f] = IF f \in Forked' \/ Heads(f)' = {} THEN NoCredential
                    ELSE CHOOSE x \in Heads(f)' : TRUE
  BY DEF Current
<1>2. ASSUME f \notin Forked', NEW x \in Heads(f)'
      PROVE  Heads(f)' = {x} /\ Current'[f] = x
  <2>1. \A y \in Heads(f)' : y = x
    BY <1>2 DEF OneHead
  <2>2. (CHOOSE y \in Heads(f)' : TRUE) = x
    BY <2>1, OnlyMember
  <2> QED
    BY <1>1, <1>2, <2>1, <2>2
<1> QED
  BY <1>1, <1>2

LEMMA MapsAre ==
    /\ Current = [f \in Codes |-> Current[f]]
    /\ Current' = [f \in Codes |-> Current'[f]]
    /\ UsedUp = [f \in Codes |-> UsedUp[f]]
    /\ UsedUp' = [f \in Codes |-> UsedUp'[f]]
BY DEF Current, UsedUp

\* The credentials of a line have its code for their root: none of them is
\* in another line.
LEMMA NotForeign ==
    ASSUME OneHead, NEW f \in Codes, NEW x \in Credentials, RootOf(x) = f
    PROVE  ~Line!Foreign(f, x)
<1>1. ASSUME NEW g \in Codes, NEW y \in Heads(g) PROVE RootOf(y) = g
  <2>1. CASE y \in Codes
    BY <2>1 DEF Heads, RootOf
  <2>2. CASE y \in Tokens
    BY <2>2 DEF Heads, RootOf
  <2> QED
    BY <2>1, <2>2 DEF Heads
<1>2. \A g \in Codes : Current[g] = x => x \in Heads(g)
  BY CurrentHead
<1>3. \A g \in Codes : x \in UsedUp[g] => RootOf(x) = g
  BY DEF UsedUp
<1> QED
  BY <1>1, <1>2, <1>3 DEF Line!Foreign

\* At most one line f changes, to the head h or to none.
LEMMA LineMoves ==
    ASSUME OneHead, OneHead', NEW f \in Codes, NEW h,
           \/ (f \in Forked' \/ Heads(f)' = {}) /\ h = NoCredential
           \/ f \notin Forked' /\ Heads(f)' = {h},
           \A g \in Codes \ {f} :
              Heads(g)' = Heads(g) /\ (g \in Forked' <=> g \in Forked)
    PROVE  Current' = [Current EXCEPT ![f] = h]
<1>1. Current'[f] = h
  BY NextCurrentHead
<1>2. ASSUME NEW g \in Codes, g # f PROVE Current'[g] = Current[g]
  BY <1>2, CurrentHead, NextCurrentHead
<1> HIDE DEF Current
<1> QED
  BY <1>1, <1>2, MapsAre

LEMMA CurrentSame ==
    ASSUME OneHead, OneHead', Forked' = Forked,
           \A f \in Codes \ Forked : Heads(f)' = Heads(f)
    PROVE  Current' = Current
<1>1. ASSUME NEW g \in Codes PROVE Current'[g] = Current[g]
  BY CurrentHead, NextCurrentHead
<1> HIDE DEF Current
<1> QED
  BY <1>1, MapsAre

\* The credential x of the line f is spent, for the first time or again.
LEMMA UsedMoves ==
    ASSUME NEW f \in Codes, NEW x \in Credentials, RootOf(x) = f,
           \A y \in Credentials : Spent(y)' <=> Spent(y) \/ y = x,
           \A y \in Credentials : RootOf(y)' = RootOf(y)
    PROVE  UsedUp' = [UsedUp EXCEPT ![f] = UsedUp[f] \cup {x}]
<1>1. UsedUp'[f] = UsedUp[f] \cup {x}
  BY DEF UsedUp
<1>2. ASSUME NEW g \in Codes, g # f PROVE UsedUp'[g] = UsedUp[g]
  BY <1>2 DEF UsedUp
<1> HIDE DEF UsedUp
<1> QED
  BY <1>1, <1>2, MapsAre

LEMMA UsedSame ==
    ASSUME \A y \in Credentials : Spent(y)' <=> Spent(y),
           \A y \in Credentials : Spent(y) => RootOf(y)' = RootOf(y)
    PROVE  UsedUp' = UsedUp
<1>1. ASSUME NEW g \in Codes PROVE UsedUp'[g] = UsedUp[g]
  BY DEF UsedUp
<1> HIDE DEF UsedUp
<1> QED
  BY <1>1, MapsAre

LEMMA LineInitial == Init => Line!Init
<1> SUFFICES ASSUME Init PROVE Line!Init
  OBVIOUS
<1>1. \A f \in Codes : Heads(f) = {}
  BY DEF Init, Heads
<1>2. Current = [f \in Codes |-> NoCredential]
  BY <1>1 DEF Current
<1>3. UsedUp = [f \in Codes |-> {}]
  BY DEF Init, UsedUp, Spent
<1>4. Forked = {}
  BY DEF Init, Forked
<1> QED
  BY <1>2, <1>3, <1>4 DEF Line!Init

\* save_authorization_code opens a line.
LEMMA SaveCodeOpens ==
    ASSUME InLine, OneHead', NEW r \in Requests, SaveCode(r)
    PROVE  Line!Next
<1>1. PICK c \in Codes :
        /\ code[c].row = "none"
        /\ code' = [code EXCEPT ![c] =
             [row |-> "stored", client |-> job[r].client]]
        /\ job' = [job EXCEPT ![r] =
             [NoJob EXCEPT !.pc = "send", !.client = job[r].client, !.new = c]]
  BY DEF SaveCode
<1>2. UNCHANGED <<token, sent, contested>> /\ job[r].pc = "saveCode"
  BY DEF SaveCode
<1>3. /\ \A q \in Requests \ {r} : job'[q] = job[q]
      /\ job'[r].pc = "send" /\ job'[r].new = c
  BY <1>1 DEF InLine, Owned, TypeOK, NoJob
<1>4. \A t \in Tokens : Delivered(t)' <=> Delivered(t)
  BY <1>2, <1>3 DEF Delivered
<1>5. /\ \A d \in Codes \ {c} : code'[d] = code[d]
      /\ code'[c].row = "stored"
  BY <1>1 DEF InLine, Owned, TypeOK
<1>6. Heads(c) = {} /\ Heads(c)' = {c}
  BY <1>1, <1>2, <1>5 DEF Heads, InLine, Owned, OwnInv
<1>7. \A g \in Codes \ {c} : Heads(g)' = Heads(g)
  BY <1>2, <1>4, <1>5 DEF Heads
<1>8. \A x \in Credentials : (Spent(x)' <=> Spent(x)) /\ RootOf(x)' = RootOf(x)
  BY <1>1, <1>2, <1>5 DEF Spent, RootOf
<1>9. Forked' = Forked
  BY <1>2, <1>8, ForkedSame DEF InLine, Owned, TypeOK
<1>10. c \notin Forked
  <2>1. \A x \in contested : x \in Credentials /\ Exists(x)
    BY DEF InLine, Owned, TypeOK, OwnInv, LineInv
  <2>2. \A x \in contested : RootOf(x) # c
    BY <1>1, <2>1 DEF Exists, RootOf, InLine, Owned, OwnInv
  <2> QED
    BY <2>2 DEF Forked
<1>11. Current[c] = NoCredential /\ Current' = [Current EXCEPT ![c] = c]
  BY <1>6, <1>7, <1>9, <1>10, LineMoves, CurrentHead DEF InLine, LineInv
<1>12. c \notin UsedUp[c] /\ UNCHANGED UsedUp
  BY <1>1, <1>8, UsedSame DEF UsedUp, Spent
<1>13. Line!Open(c)
  BY <1>9, <1>10, <1>11, <1>12 DEF Line!Open
<1> QED
  BY <1>13 DEF Line!Next

\* A credential is spent: the line goes on with the token that was stored
\* for it, which nobody can have had before, unless it has forked.
LEMMA SpendRenews ==
    ASSUME InLine, OneHead', NEW r \in Requests, Spends(r)
    PROVE  Line!Next
<1>1. PICK x \in Credentials, t \in Tokens, f \in Codes :
        /\ x = job[r].from /\ t = job[r].new /\ f = RootOf(x)
        /\ x \in sent /\ Exists(x) /\ t \notin sent /\ x # t
        /\ ~token[t].refreshRevoked /\ ~token'[t].refreshRevoked
        /\ token[t].from = x /\ token[t].code = f /\ token[t].stored
        /\ f \notin Forked => ~Spent(x) /\ x \in Heads(f)
  BY Successor
<1>2. /\ \A q \in Requests \ {r} : job'[q] = job[q] /\ job[q].new # t
      /\ job'[r].pc = "send" /\ job'[r].new = t
  BY <1>1 DEF Spends, InLine, Owned, TypeOK, Job, LineInv, AnswersDiffer
<1>3. /\ ~Delivered(t) /\ Delivered(t)'
      /\ \A u \in Tokens \ {t} : Delivered(u)' <=> Delivered(u)
  BY <1>1, <1>2 DEF Spends, Delivered
<1>4. \A y \in Credentials : RootOf(y)' = RootOf(y)
  BY DEF Spends, RootOf
<1>5. Forked' = Forked
  BY <1>4, ForkedSame DEF Spends, InLine, Owned, TypeOK
<1>6. UsedUp' = [UsedUp EXCEPT ![f] = UsedUp[f] \cup {x}]
  BY <1>1, <1>4, UsedMoves DEF Spends
<1>7. \A g \in Codes \ {f} : Heads(g)' = Heads(g)
  <2>1. \A g \in Codes \ {f} : t \notin Heads(g) /\ t \notin Heads(g)'
    BY <1>1 DEF Spends, Heads
  <2>2. \A g \in Codes \ {f} : x \notin Heads(g) /\ x \notin Heads(g)'
    BY <1>1 DEF Spends, Heads, RootOf
  <2>3. \A g \in Codes \ {f}, y \in Credentials \ {x, t} :
          y \in Heads(g)' <=> y \in Heads(g)
    BY <1>1, <1>3 DEF Spends, Heads
  <2>4. \A g \in Codes : Heads(g) \subseteq Credentials /\ Heads(g)' \subseteq Credentials
    BY DEF Heads
  <2>5. ASSUME NEW g \in Codes \ {f}, NEW y \in Credentials
        PROVE  y \in Heads(g)' <=> y \in Heads(g)
    BY <2>1, <2>2, <2>3
  <2> QED
    BY <2>4, <2>5
<1>8. CASE f \in Forked
  <2>1. Current' = Current
    BY <1>5, <1>7, <1>8, CurrentSame DEF InLine, LineInv
  <2>2. ~Line!Foreign(f, x)
    BY <1>1, NotForeign DEF InLine, LineInv
  <2>3. Line!Stray(f)
    BY <1>1, <1>5, <1>6, <1>8, <2>1, <2>2 DEF Line!Stray
  <2> QED
    BY <2>3 DEF Line!Next
<1>9. CASE f \notin Forked
  <2>1. Heads(f) = {x} /\ Current[f] = x
    BY <1>1, <1>9, CurrentHead DEF InLine, LineInv
  <2>2. t \in Heads(f)'
    BY <1>1, <1>3 DEF Spends, Heads
  <2>3. Heads(f)' = {t}
    BY <1>5, <1>9, <2>2, NextCurrentHead
  <2>4. Current' = [Current EXCEPT ![f] = t]
    BY <1>5, <1>7, <1>9, <2>3, LineMoves DEF InLine, LineInv
  <2>5. ~Line!Foreign(f, t)
    BY <1>1, NotForeign DEF InLine, LineInv, RootOf
  <2>6. t \in Credentials \ (UsedUp[f] \cup {Current[f]})
    BY <1>1, <2>1 DEF UsedUp, Spent
  <2>7. UsedUp' = [UsedUp EXCEPT ![f] = UsedUp[f] \cup {Current[f]}]
    BY <1>6, <2>1
  <2>8. Current[f] # NoCredential
    BY <2>1
  <2>9. Line!Renew(f)
    BY <1>5, <2>4, <2>5, <2>6, <2>7, <2>8 DEF Line!Renew
  <2> QED
    BY <2>9 DEF Line!Next
<1> QED
  BY <1>8, <1>9

\* An answer is lost: if it carried the head of a line, the line has none.
LEMMA AbortLoses ==
    ASSUME InLine, OneHead', NEW r \in Requests, Abort(r)
    PROVE  [Line!Next]_(Line!vars)
<1> DEFINE t == job[r].new
<1>1. /\ job' = [job EXCEPT ![r] = NoJob] /\ UNCHANGED <<code, token, sent, contested>>
  BY DEF Abort, Finish
<1>2. /\ \A q \in Requests \ {r} : job'[q] = job[q] /\ (job[q].new = t => t = NoCredential)
      /\ job'[r].pc = "idle"
  BY <1>1 DEF InLine, Owned, TypeOK, NoJob, LineInv, AnswersDiffer
<1>3. UsedUp' = UsedUp /\ Forked' = Forked
  BY <1>1, UsedSame, ForkedSame DEF Spent, RootOf
<1>4. CASE job[r].pc = "send" /\ t \in Tokens \ sent /\ ~token[t].refreshRevoked
  <2>1. PICK h \in Tokens, f \in Codes : h = t /\ f = token[t].code
    BY <1>4 DEF InLine, Owned, TypeOK, OwnInv, Exists
  <2>2. Delivered(h) /\ ~Delivered(h)' /\ token[h].stored /\ ~token[h].refreshRevoked
    BY <1>1, <1>2, <1>4, <2>1 DEF Delivered, InLine, Owned, OwnInv, Exists
  <2>3. \A u \in Tokens \ {h} : Delivered(u)' <=> Delivered(u)
    BY <1>1, <1>2, <1>4, <2>1 DEF Delivered
  <2>4. h \in Heads(f)
    BY <2>1, <2>2 DEF Heads
  <2>5. \A g \in Codes : Heads(g)' = Heads(g) \ {h}
    BY <1>1, <2>2, <2>3 DEF Heads
  <2>6. \A g \in Codes \ {f} : Heads(g)' = Heads(g)
    <3>1. \A g \in Codes \ {f} : h \notin Heads(g)
      BY <2>1 DEF Heads
    <3> QED
      BY <2>5, <3>1
  <2>7. CASE f \in Forked
    <3>1. Current' = Current
      BY <1>3, <2>6, <2>7, CurrentSame DEF InLine, LineInv
    <3> QED
      BY <1>3, <3>1 DEF Line!vars
  <2>8. CASE f \notin Forked
    <3>1. Heads(f) = {h} /\ Current[f] = h
      BY <2>4, <2>8, CurrentHead DEF InLine, LineInv
    <3>2. f \in UsedUp[f]
      <4>1. f \notin Heads(f)
        BY <3>1
      <4>2. code[f].row # "stored" /\ code[f].row # "none"
        BY <2>1, <2>2, <4>1 DEF Heads, InLine, Owned, OwnInv
      <4> QED
        BY <4>2 DEF UsedUp, Spent, RootOf, InLine, Owned, TypeOK, Code
    <3>3. Heads(f)' = {}
      BY <2>5, <3>1
    <3>4. Current' = [Current EXCEPT ![f] = NoCredential]
      BY <1>3, <2>6, <3>3, LineMoves DEF InLine, LineInv
    <3>5. Line!Lose(f)
      BY <1>3, <3>1, <3>2, <3>4 DEF Line!Lose
    <3> QED
      BY <3>5 DEF Line!Next
  <2> QED
    BY <2>7, <2>8
<1>5. CASE ~(job[r].pc = "send" /\ t \in Tokens \ sent /\ ~token[t].refreshRevoked)
  <2>1. \A u \in Tokens : ~token[u].refreshRevoked => (Delivered(u)' <=> Delivered(u))
    BY <1>1, <1>2, <1>5 DEF Delivered
  <2>2. \A g \in Codes : Heads(g)' = Heads(g)
    BY <1>1, <2>1 DEF Heads
  <2> QED
    BY <1>3, <2>2, CurrentSame DEF InLine, LineInv, Line!vars
<1> QED
  BY <1>4, <1>5

\* A line forks when its head is contested.
LEMMA Forks ==
    ASSUME InLine, OneHead', NEW f \in Codes \ Forked, NEW x \in Heads(f),
           contested' = contested \cup {x}, RootOf(x) = f,
           \A y \in Credentials : RootOf(y)' = RootOf(y),
           \A g \in Codes \ {f} : Heads(g)' = Heads(g)
    PROVE  /\ Current[f] = x /\ Forked' = Forked \cup {f}
           /\ Current' = [Current EXCEPT ![f] = NoCredential]
<1>1. \A y \in contested : RootOf(y)' = RootOf(y)
  BY DEF InLine, Owned, TypeOK
<1>2. x \in Credentials
  BY DEF Heads
<1>3. Forked' = Forked \cup {f}
  BY <1>1, <1>2 DEF Forked
<1>4. Current[f] = x
  BY CurrentHead DEF InLine, LineInv
<1>5. Current' = [Current EXCEPT ![f] = NoCredential]
  BY <1>3, LineMoves DEF InLine, LineInv
<1> QED
  BY <1>3, <1>4, <1>5

LEMMA RevokeCuts ==
    ASSUME InLine, OneHead', NEW cl \in Clients, NEW t \in Tokens,
           NEW hint \in {"access_token", "other"}, Revoke(cl, t, hint)
    PROVE  [Line!Next]_(Line!vars)
<1>1. /\ t \in sent /\ Exists(t) /\ UNCHANGED <<code, sent, job>> /\ SameRows
      /\ \A u \in Tokens \ {t} : token'[u] = token[u]
      /\ token[t].refreshRevoked => token'[t].refreshRevoked
      /\ contested \subseteq contested' /\ contested' \subseteq contested \cup {t}
      /\ ~Spent(t)' \/ Spent(t) => UNCHANGED contested
  BY Revoking
<1>2. \A u \in Tokens : Delivered(u)' <=> Delivered(u)
  BY <1>1 DEF Delivered
<1>3. \A y \in Credentials : RootOf(y)' = RootOf(y)
  BY <1>1 DEF RootOf, SameRows
<1>4. CASE Spent(t)' /\ ~Spent(t)
  <2>1. PICK f \in Codes : f = token[t].code /\ RootOf(t) = f /\ t \in Heads(f)
    BY <1>1, <1>4 DEF InLine, Owned, OwnInv, Exists, Heads, Delivered, RootOf, Spent
  <2>2. \A g \in Codes : Heads(g)' = Heads(g) \ {t}
    BY <1>1, <1>2, <1>4 DEF Heads, SameRows, Spent
  <2>3. \A g \in Codes \ {f} : Heads(g)' = Heads(g)
    <3>1. \A g \in Codes \ {f} : t \notin Heads(g)
      BY <2>1 DEF Heads
    <3> QED
      BY <2>2, <3>1
  <2>4. UsedUp' = [UsedUp EXCEPT ![f] = UsedUp[f] \cup {t}]
    <3>1. \A y \in Credentials : Spent(y)' <=> Spent(y) \/ y = t
      BY <1>1, <1>4 DEF Spent
    <3> QED
      BY <1>3, <2>1, <3>1, UsedMoves
  <2>5. CASE f \in Forked
    <3>1. Forked' = Forked
      BY <1>1, <1>3, <2>1, <2>5 DEF Forked, InLine, Owned, TypeOK
    <3>2. Current' = Current
      BY <2>3, <2>5, <3>1, CurrentSame DEF InLine, LineInv
    <3>3. ~Line!Foreign(f, t)
      BY <2>1, NotForeign DEF InLine, LineInv
    <3>4. Line!Stray(f)
      BY <2>4, <2>5, <3>1, <3>2, <3>3 DEF Line!Stray
    <3> QED
      BY <3>4 DEF Line!Next
  <2>6. CASE f \notin Forked /\ UNCHANGED contested
    <3>1. Forked' = Forked
      BY <1>3, <2>6, ForkedSame DEF InLine, Owned, TypeOK
    <3>2. Heads(f) = {t} /\ Current[f] = t
      BY <2>1, <2>6, CurrentHead DEF InLine, LineInv
    <3>3. Heads(f)' = {}
      BY <2>2, <3>2
    <3>4. Current' = [Current EXCEPT ![f] = NoCredential]
      BY <2>3, <3>1, <3>3, LineMoves DEF InLine, LineInv
    <3>5. Line!Revoke(f)
      BY <2>4, <3>1, <3>2, <3>4 DEF Line!Revoke
    <3> QED
      BY <3>5 DEF Line!Next
  <2>7. CASE f \notin Forked /\ contested' = contested \cup {t}
    <3>1. /\ Current[f] = t /\ Forked' = Forked \cup {f}
          /\ Current' = [Current EXCEPT ![f] = NoCredential]
      BY <1>3, <2>1, <2>3, <2>7, Forks
    <3>2. Line!Fork(f)
      BY <2>4, <3>1 DEF Line!Fork
    <3> QED
      BY <3>2 DEF Line!Next
  <2> QED
    BY <1>1, <2>5, <2>6, <2>7
<1>5. CASE ~(Spent(t)' /\ ~Spent(t))
  <2>1. UNCHANGED contested
    BY <1>1, <1>5
  <2>2. \A u \in Tokens : token'[u].refreshRevoked <=> token[u].refreshRevoked
    BY <1>1, <1>5 DEF Spent
  <2>3. \A g \in Codes : Heads(g)' = Heads(g)
    BY <1>1, <1>2, <2>2 DEF Heads, SameRows
  <2>4. UsedUp' = UsedUp
    BY <1>1, <1>3, <2>2, UsedSame DEF Spent
  <2>5. Forked' = Forked
    BY <1>3, <2>1, ForkedSame DEF InLine, Owned, TypeOK
  <2> QED
    BY <2>3, <2>4, <2>5, CurrentSame DEF InLine, LineInv, Line!vars
<1> QED
  BY <1>4, <1>5

LEMMA SaveTokenSame ==
    ASSUME InLine, OneHead', NEW r \in Requests, SaveToken(r)
    PROVE  UNCHANGED Line!vars
<1>1. PICK t \in Tokens :
        /\ ~token[t].stored
        /\ token' = [token EXCEPT ![t] =
             [stored |-> TRUE, client |-> job[r].client, from |-> job[r].from,
              code |-> RootOf(job[r].from),
              accessRevoked |-> FALSE, refreshRevoked |-> FALSE]]
        /\ job' = [job EXCEPT ![r] = [job[r] EXCEPT !.pc = "spend", !.new = t]]
  BY DEF SaveToken
<1>2. job[r].pc = "saveToken" /\ UNCHANGED <<code, sent, contested>>
  BY DEF SaveToken
<1>3. /\ \A q \in Requests \ {r} : job'[q] = job[q]
      /\ job'[r].pc = "spend"
  BY <1>1 DEF InLine, Owned, TypeOK, Job
<1>4. /\ \A u \in Tokens \ {t} : token'[u] = token[u]
      /\ ~token'[t].refreshRevoked
  BY <1>1 DEF InLine, Owned, TypeOK
<1>5. ~token[t].refreshRevoked /\ t \notin sent
        /\ \A q \in Requests : ~(job[q].pc = "send" /\ job[q].new = t)
  BY <1>1 DEF InLine, Owned, OwnInv, Exists
<1>6. \A u \in Tokens : Delivered(u)' <=> Delivered(u)
  BY <1>2, <1>3 DEF Delivered
<1>7. ~Delivered(t)
  BY <1>5 DEF Delivered
<1>8. \A g \in Codes : Heads(g)' = Heads(g)
  BY <1>2, <1>4, <1>6, <1>7 DEF Heads
<1>9. \A x \in Credentials : Spent(x)' <=> Spent(x)
  BY <1>2, <1>4, <1>5 DEF Spent
<1>10. \A x \in Credentials \ {t} : RootOf(x)' = RootOf(x)
  BY <1>4 DEF RootOf
<1>11. Forked' = Forked
  <2>1. contested \subseteq Credentials \ {t}
    BY <1>5 DEF InLine, Owned, TypeOK, LineInv
  <2> QED
    BY <1>2, <1>10, <2>1, ForkedSame
<1>12. UsedUp' = UsedUp
  <2>1. ~Spent(t)
    BY <1>5 DEF Spent
  <2> QED
    BY <1>9, <1>10, <2>1, UsedSame
<1> QED
  BY <1>8, <1>11, <1>12, CurrentSame DEF InLine, LineInv, Line!vars

\* Steps that change no row, deliver what was on its way, and contest
\* nothing.
LEMMA RowsSame ==
    ASSUME InLine, OneHead', UNCHANGED <<code, token, contested>>,
           \A u \in Tokens : Delivered(u)' <=> Delivered(u)
    PROVE  UNCHANGED Line!vars
<1>1. \A g \in Codes : Heads(g)' = Heads(g)
  BY DEF Heads
<1>2. UsedUp' = UsedUp /\ Forked' = Forked
  BY UsedSame, ForkedSame DEF Spent, RootOf
<1> QED
  BY <1>1, <1>2, CurrentSame DEF InLine, LineInv, Line!vars

\* A credential is presented: if another request is using it, its line forks.
LEMMA PresentForks ==
    ASSUME InLine, OneHead', NEW r \in Requests, NEW cl \in Clients,
           NEW x \in Credentials, Present(r, cl, x)
    PROVE  [Line!Next]_(Line!vars)
<1>1. /\ x \in sent /\ Usable(x) /\ UNCHANGED <<code, token, sent>>
      /\ contested' = contested \cup ({x} \cap InUse)
  BY DEF Present
<1>2. /\ job[r].pc = "idle" /\ job'[r].pc = "saveToken"
      /\ \A q \in Requests \ {r} : job'[q] = job[q]
  BY DEF Present, Start, NoJob, InLine, Owned, TypeOK
<1>3. \A u \in Tokens : Delivered(u)' <=> Delivered(u)
  BY <1>1, <1>2 DEF Delivered
<1>4. /\ \A g \in Codes : Heads(g)' = Heads(g)
      /\ \A y \in Credentials : RootOf(y)' = RootOf(y) /\ (Spent(y)' <=> Spent(y))
  BY <1>1, <1>3 DEF Heads, RootOf, Spent
<1>5. UsedUp' = UsedUp
  BY <1>4, UsedSame
<1>6. PICK f \in Codes : f = RootOf(x) /\ x \in Heads(f)
  BY <1>1 DEF RootOf, Heads, Usable, Delivered, InLine, Owned, OwnInv
<1>7. CASE f \in Forked \/ x \notin InUse
  <2>1. Forked' = Forked
    BY <1>1, <1>4, <1>6, <1>7 DEF Forked, InLine, Owned, TypeOK
  <2> QED
    BY <1>4, <1>5, <2>1, CurrentSame DEF InLine, LineInv, Line!vars
<1>8. CASE f \notin Forked /\ x \in InUse
  <2>1. /\ Current[f] = x /\ Forked' = Forked \cup {f}
        /\ Current' = [Current EXCEPT ![f] = NoCredential]
    BY <1>1, <1>4, <1>6, <1>8, Forks
  <2>2. Line!Fork(f)
    BY <1>5, <2>1 DEF Line!Fork
  <2> QED
    BY <2>2 DEF Line!Next
<1> QED
  BY <1>7, <1>8

LEMMA LineStep ==
    ASSUME InLine, OneHead', [Next]_vars
    PROVE  [Line!Next]_(Line!vars)
<1>1. ASSUME NEW r \in Requests, NEW cl \in Clients, Authorize(r, cl)
      PROVE  UNCHANGED Line!vars
  <2>1. /\ UNCHANGED <<code, token, sent, contested>>
        /\ job[r].pc # "send" /\ job'[r].pc # "send"
        /\ \A q \in Requests \ {r} : job'[q] = job[q]
    BY <1>1 DEF Authorize, Start, NoJob, InLine, Owned, TypeOK
  <2>2. \A u \in Tokens : Delivered(u)' <=> Delivered(u)
    BY <2>1 DEF Delivered
  <2> QED
    BY <2>1, <2>2, RowsSame
<1>2. ASSUME NEW r \in Requests, Send(r) PROVE UNCHANGED Line!vars
  <2>1. /\ UNCHANGED <<code, token, contested>> /\ sent' = sent \cup {job[r].new}
        /\ \A q \in Requests \ {r} : job'[q] = job[q]
        /\ job[r].pc = "send" /\ job'[r].pc # "send"
    BY <1>2 DEF Send, Finish, NoJob, InLine, Owned, TypeOK
  <2>2. \A u \in Tokens : Delivered(u)' <=> Delivered(u)
    BY <2>1 DEF Delivered
  <2> QED
    BY <2>1, <2>2, RowsSame
<1>3. ASSUME \/ \E x \in Credentials : Expire(x)
             \/ \E cl \in Clients : Toggle(cl)
             \/ UNCHANGED vars
      PROVE  UNCHANGED Line!vars
  <2>1. UNCHANGED <<code, token, sent, job, contested>>
    BY <1>3 DEF Expire, Toggle, vars
  <2>2. \A u \in Tokens : Delivered(u)' <=> Delivered(u)
    BY <2>1 DEF Delivered
  <2> QED
    BY <2>1, <2>2, RowsSame
<1> QED
  BY <1>1, <1>2, <1>3, SaveCodeOpens, SaveTokenSame, Spending, SpendRenews,
     PresentForks, AbortLoses, RevokeCuts DEF Next, Request

\* A code and the tokens that descend from it form a line, of which the
\* client can use the end only, until two requests are at its end at once:
\* the grants implement TokenLine (LineOfCredentials).
THEOREM LineImplemented == Spec => LineOfCredentials
<1>1. Owned /\ LineInv /\ LineInv' /\ [Next]_vars => [Line!Next]_(Line!vars)
  BY LineStep DEF InLine, LineInv
<1> QED
  BY <1>1, LineInitial, LineCorrect, AlwaysOwned, PTL
     DEF Spec, LineOfCredentials, Line!Spec
=============================================================================
