-------------------------- MODULE LnurlAuthProofs --------------------------
(***************************************************************************)
(* Proofs about LnurlAuth: LnurlInv is inductive, and what follows from it *)
(* holds for any number of callbacks, wallets and accounts.                *)
(***************************************************************************)
EXTENDS LnurlAuth, TLAPS

Inv == TypeOK /\ LnurlInv

LEMMA NoCallType == NoCall \in Call
BY DEF NoCall, Call, Steps

LEMMA InvInit == Init => Inv
<1> SUFFICES ASSUME Init PROVE Inv
  OBVIOUS
<1>1. Missing \in Challenge
  BY DEF Missing, Challenge
<1>2. TypeOK
  BY <1>1, NoCallType DEF Init, TypeOK
<1>3. \A k \in K1s : challenge[k] = Missing /\ ~Created(k)
  BY DEF Init, Created, Missing
<1>4. \A c \in Callbacks : call[c].pc = "idle"
  BY DEF Init, NoCall
<1>5. ChallengesWellFormed /\ WalletsLinked /\ WalletUnique /\ NoLockout /\ EventConsumes
  BY <1>3, NullAssumption DEF Init, ChallengesWellFormed, WalletsLinked,
     WalletUnique, NoLockout, EventConsumes, Missing, Created, Actions
<1>6. CallsAlone /\ CallsSound
  BY <1>4 DEF CallsAlone, CallsSound, InTransaction
<1> QED
  BY <1>2, <1>5, <1>6 DEF Inv, LnurlInv

----------------------------------------------------------------------------
(***************************************************************************)
(* Accounts and pages.                                                     *)
(***************************************************************************)
LEMMA SetPasswordInv ==
    ASSUME Inv, NEW u \in Users, SetPassword(u)
    PROVE  Inv'
<1>1. TypeOK' /\ UNCHANGED <<challenge, expired, wallet, call, events, signer, linked>>
  BY DEF SetPassword, Inv, TypeOK
<1>2. ChallengesWellFormed' /\ WalletsLinked' /\ WalletUnique' /\ NoLockout' /\ EventConsumes'
  BY DEF SetPassword, Inv, LnurlInv, ChallengesWellFormed, WalletsLinked,
         WalletUnique, NoLockout, EventConsumes, Created
<1>3. CallsAlone' /\ CallsSound'
  BY DEF SetPassword, Inv, LnurlInv, CallsAlone, CallsSound, Accepted, Created
<1> QED
  BY <1>1, <1>2, <1>3 DEF Inv, LnurlInv

LEMMA UnlinkInv ==
    ASSUME Inv, NEW u \in Users, Unlink(u)
    PROVE  Inv'
<1>1. TypeOK'
  BY DEF Unlink, Inv, TypeOK
<1>2. \A v \in Users : wallet'[v] = IF v = u THEN NoWallet ELSE wallet[v]
  BY DEF Unlink, Inv, TypeOK
<1>3. WalletsLinked' /\ WalletUnique' /\ NoLockout'
  BY <1>2 DEF Unlink, Inv, LnurlInv, TypeOK, WalletsLinked, WalletUnique, NoLockout
<1>4. ChallengesWellFormed' /\ EventConsumes'
  BY DEF Unlink, Inv, LnurlInv, ChallengesWellFormed, EventConsumes, Created
<1>5. CallsAlone' /\ CallsSound'
  BY DEF Unlink, Inv, LnurlInv, CallsAlone, CallsSound, Accepted, Created
<1> QED
  BY <1>1, <1>3, <1>4, <1>5 DEF Inv, LnurlInv

LEMMA CreateChallengeInv ==
    ASSUME Inv, NEW k \in K1s, CreateChallenge(k)
    PROVE  Inv'
<1>1. PICK row \in Challenge :
        /\ challenge' = [challenge EXCEPT ![k] = row]
        /\ row.action \in Actions /\ ~row.consumed
        /\ row.action = "link" => row.user \in users
        /\ row.action # "link" => row.user = NoUser
  <2>1. CASE \E a \in {"login", "register"} :
               challenge' = [challenge EXCEPT ![k] =
                 [action |-> a, user |-> NoUser, consumed |-> FALSE]]
    <3>1. PICK a \in {"login", "register"} :
            challenge' = [challenge EXCEPT ![k] =
              [action |-> a, user |-> NoUser, consumed |-> FALSE]]
      BY <2>1
    <3> DEFINE r == [action |-> a, user |-> NoUser, consumed |-> FALSE]
    <3>2. /\ r \in Challenge /\ r.action = a /\ ~r.consumed /\ r.user = NoUser
          /\ a \in Actions /\ a # "link"
      BY DEF Challenge, Actions
    <3> HIDE DEF r
    <3> QED
      BY <3>1, <3>2 DEF r
  <2>2. CASE \E u \in users :
               challenge' = [challenge EXCEPT ![k] =
                 [action |-> "link", user |-> u, consumed |-> FALSE]]
    BY <2>2 DEF Challenge, Actions, Inv, TypeOK
  <2> QED
    BY <2>1, <2>2 DEF CreateChallenge
<1>2. /\ TypeOK' /\ UNCHANGED <<expired, accounts, call, events, signer>>
      /\ \A l \in K1s : challenge'[l] = IF l = k THEN row ELSE challenge[l]
  BY <1>1 DEF CreateChallenge, accounts, Inv, TypeOK
<1>3. ~Created(k) /\ ~challenge[k].consumed /\ UNCHANGED <<users, password, wallet, linked>>
  <2>1. ~Created(k)
    BY DEF CreateChallenge
  <2>2. challenge[k] = Missing
    BY <2>1 DEF Inv, LnurlInv, ChallengesWellFormed
  <2> QED
    BY <1>2, <2>1, <2>2 DEF accounts, Missing
<1>4. WalletsLinked' /\ WalletUnique' /\ NoLockout'
  BY <1>3 DEF Inv, LnurlInv, WalletsLinked, WalletUnique, NoLockout
<1>5. ChallengesWellFormed' /\ EventConsumes'
  <2>1. Created(k)'
    BY <1>1, <1>2, NullAssumption DEF Created, Actions
  <2>2. \A l \in K1s \ {k} : UNCHANGED challenge[l]
    BY <1>2
  <2>3. ChallengesWellFormed'
    BY <1>1, <1>2, <1>3, <2>1 DEF Inv, LnurlInv, ChallengesWellFormed, Created, Actions
  <2>4. EventConsumes'
    BY <1>2, <1>3 DEF Inv, LnurlInv, TypeOK, Event, EventConsumes
  <2> QED
    BY <2>3, <2>4
<1>6. CallsAlone' /\ CallsSound'
  BY <1>2, <1>3 DEF Inv, LnurlInv, CallsAlone, CallsSound, Accepted, Created,
                    InTransaction
<1> QED
  BY <1>2, <1>4, <1>5, <1>6 DEF Inv, LnurlInv

\* Nothing but the age of challenges changes, or nothing at all.
LEMMA ExpireInv ==
    ASSUME Inv, UNCHANGED <<challenge, accounts, call, events, signer>>,
           expired' \subseteq K1s
    PROVE  Inv'
BY DEF accounts, Inv, LnurlInv, TypeOK, ChallengesWellFormed, WalletsLinked,
       WalletUnique, NoLockout, EventConsumes, CallsAlone, CallsSound, Accepted,
       Created

----------------------------------------------------------------------------
(***************************************************************************)
(* Steps of a callback that change nothing but the callback.               *)
(***************************************************************************)
LEMMA CallOnlyInv ==
    ASSUME Inv, NEW c \in Callbacks, NEW row \in Call,
           call' = [call EXCEPT ![c] = row],
           UNCHANGED <<challenge, expired, accounts, events, signer>>,
           row.pc # "event",
           row.pc \in InTransaction =>
             /\ row.k1 \in K1s /\ row.key \in Wallets
             /\ Created(row.k1) /\ ~challenge[row.k1].consumed
             /\ \A d \in Callbacks \ {c} :
                  call[d].pc \in InTransaction => call[d].k1 # row.k1,
           row.pc \in {"account", "commit"} =>
             /\ row.action = challenge[row.k1].action /\ row.signed
             /\ row.found # NoUser =>
                  row.found \in users /\ <<row.found, row.key>> \in linked
             /\ row.action = "login" => row.found # NoUser,
           row.pc = "account" => row.action = "link"
    PROVE  Inv'
<1>1. \A d \in Callbacks : call'[d] = IF d = c THEN row ELSE call[d]
  BY DEF Inv, TypeOK
<1>2. TypeOK' /\ UNCHANGED <<users, password, wallet, linked>>
  BY DEF Inv, TypeOK, accounts
<1>3. ChallengesWellFormed' /\ WalletsLinked' /\ WalletUnique' /\ NoLockout' /\ EventConsumes'
  BY <1>2 DEF Inv, LnurlInv, ChallengesWellFormed, WalletsLinked, WalletUnique,
              NoLockout, EventConsumes, Created
<1>4. CallsAlone'
  BY <1>1 DEF Inv, LnurlInv, CallsAlone
<1>5. CallsSound'
  BY <1>1, <1>2 DEF Inv, LnurlInv, CallsSound, Accepted, Created
<1> QED
  BY <1>2, <1>3, <1>4, <1>5 DEF Inv, LnurlInv

LEMMA FinishInv ==
    ASSUME Inv, NEW c \in Callbacks, Finish(c),
           UNCHANGED <<challenge, expired, accounts, events, signer>>
    PROVE  Inv'
<1>1. NoCall.pc = "idle"
  BY DEF NoCall
<1> QED
  BY <1>1, NoCallType, CallOnlyInv DEF Finish, InTransaction

LEMMA ConsumeInv ==
    ASSUME Inv, NEW c \in Callbacks, Consume(c)
    PROVE  Inv'
<1>1. PICK k \in K1s, w \in Wallets, a \in Actions, s \in BOOLEAN :
        /\ Consumable(k) /\ ~Locked(k)
        /\ call' = [call EXCEPT ![c] =
             [pc |-> "resolve", k1 |-> k, key |-> w, action |-> a,
              signed |-> s, found |-> NoUser, was |-> NoWallet]]
  BY DEF Consume
<1> DEFINE row == [pc |-> "resolve", k1 |-> k, key |-> w, action |-> a,
                   signed |-> s, found |-> NoUser, was |-> NoWallet]
<1>2. row \in Call
  BY DEF Call, Steps
<1>3. /\ row.pc = "resolve" /\ row.k1 = k /\ row.key = w
      /\ Created(k) /\ ~challenge[k].consumed
      /\ \A d \in Callbacks : call[d].pc \in InTransaction => call[d].k1 # k
  BY <1>1 DEF Consumable, Locked
<1> HIDE DEF row
<1> QED
  BY <1>1, <1>2, <1>3, CallOnlyInv DEF Consume, row

LEMMA ResolveInv ==
    ASSUME Inv, NEW c \in Callbacks, Resolve(c)
    PROVE  Inv'
<1>1. PICK f \in Users \cup {NoUser} :
        /\ f # NoUser => f \in OwnersOf(call[c].key)
        /\ \/ Refused(c, f) /\ Finish(c)
           \/ /\ ~Refused(c, f)
              /\ call' = [call EXCEPT ![c].found = f, ![c].pc =
                   IF call[c].action = "link" THEN "account" ELSE "commit"]
  BY DEF Resolve
<1>2. CASE Finish(c)
  BY <1>2, FinishInv DEF Resolve
<1>3. CASE /\ ~Refused(c, f)
           /\ call' = [call EXCEPT ![c].found = f, ![c].pc =
                IF call[c].action = "link" THEN "account" ELSE "commit"]
  <2> DEFINE pc == IF call[c].action = "link" THEN "account" ELSE "commit"
             row == [call[c] EXCEPT !.found = f, !.pc = pc]
  <2>1. call[c] \in Call
    BY DEF Inv, TypeOK
  <2>2. row \in Call
    <3>1. pc \in Steps
      BY DEF Steps
    <3> QED
      BY <2>1, <3>1, ZenonT(60) DEF Call
  <2>3. call' = [call EXCEPT ![c] = row]
    BY <1>3 DEF Inv, TypeOK
  <2>4. /\ row.pc = pc /\ row.k1 = call[c].k1 /\ row.key = call[c].key
        /\ row.action = call[c].action /\ row.signed = call[c].signed
        /\ row.found = f
    BY <2>1 DEF Call
  <2>5. /\ call[c].k1 \in K1s /\ call[c].key \in Wallets
        /\ Created(call[c].k1) /\ ~challenge[call[c].k1].consumed
        /\ \A d \in Callbacks \ {c} :
             call[d].pc \in InTransaction => call[d].k1 # call[c].k1
    BY DEF Resolve, Inv, LnurlInv, CallsSound, CallsAlone, InTransaction
  <2>6. f # NoUser => f \in users /\ <<f, call[c].key>> \in linked
    BY <1>1, <2>5, NullAssumption DEF OwnersOf, Inv, LnurlInv, TypeOK, WalletsLinked
  <2>7. /\ call[c].action = challenge[call[c].k1].action /\ call[c].signed
        /\ call[c].action = "login" => f # NoUser
    BY <1>3 DEF Resolve, Accepted, Refused
  <2>8. /\ row.pc \in {"account", "commit"}
        /\ row.k1 \in K1s /\ row.key \in Wallets
        /\ Created(row.k1) /\ ~challenge[row.k1].consumed
        /\ \A d \in Callbacks \ {c} :
             call[d].pc \in InTransaction => call[d].k1 # row.k1
        /\ row.action = challenge[row.k1].action /\ row.signed
        /\ row.found # NoUser =>
             row.found \in users /\ <<row.found, row.key>> \in linked
        /\ row.action = "login" => row.found # NoUser
        /\ row.pc = "account" => row.action = "link"
    BY <2>4, <2>5, <2>6, <2>7
  <2> HIDE DEF row
  <2> QED
    BY <2>2, <2>3, <2>8, CallOnlyInv DEF Resolve
<1> QED
  BY <1>1, <1>2, <1>3

LEMMA AccountInv ==
    ASSUME Inv, NEW c \in Callbacks, Account(c)
    PROVE  Inv'
<1> DEFINE u == challenge[call[c].k1].user
           was == IF call[c].found = u THEN call[c].key ELSE wallet[u]
           row == [call[c] EXCEPT !.pc = "commit", !.was = was]
<1>1. call[c] \in Call
  BY DEF Inv, TypeOK
<1>2. /\ call[c].k1 \in K1s /\ call[c].key \in Wallets
      /\ Created(call[c].k1) /\ ~challenge[call[c].k1].consumed
      /\ \A d \in Callbacks \ {c} :
           call[d].pc \in InTransaction => call[d].k1 # call[c].k1
      /\ call[c].action = challenge[call[c].k1].action /\ call[c].signed
      /\ call[c].found # NoUser =>
           call[c].found \in users /\ <<call[c].found, call[c].key>> \in linked
      /\ call[c].action = "link"
  BY DEF Account, Inv, LnurlInv, CallsSound, CallsAlone, InTransaction, Accepted
<1>3. u \in users /\ u \in Users
  BY <1>2 DEF Inv, LnurlInv, TypeOK, ChallengesWellFormed
<1>4. was \in Wallets \cup {NoWallet}
  BY <1>2, <1>3 DEF Inv, TypeOK
<1>5. row \in Call
  BY <1>1, <1>4 DEF Call, Steps
<1>6. call' = [call EXCEPT ![c] = row]
  BY DEF Account, Inv, TypeOK
<1>7. /\ row.pc = "commit" /\ row.k1 = call[c].k1 /\ row.key = call[c].key
      /\ row.action = call[c].action /\ row.signed = call[c].signed
      /\ row.found = call[c].found
  BY <1>1 DEF Call
<1>8. /\ row.pc \in {"account", "commit"}
      /\ row.k1 \in K1s /\ row.key \in Wallets
      /\ Created(row.k1) /\ ~challenge[row.k1].consumed
      /\ \A d \in Callbacks \ {c} :
           call[d].pc \in InTransaction => call[d].k1 # row.k1
      /\ row.action = challenge[row.k1].action /\ row.signed
      /\ row.found # NoUser =>
           row.found \in users /\ <<row.found, row.key>> \in linked
      /\ row.action = "login" => row.found # NoUser
      /\ row.pc = "account" => row.action = "link"
  BY <1>2, <1>7
<1> HIDE DEF row
<1> QED
  BY <1>5, <1>6, <1>8, CallOnlyInv DEF Account

----------------------------------------------------------------------------
(***************************************************************************)
(* The commits. What they have in common: callback c, alone with its       *)
(* challenge, consumes it for account u, who holds the wallet that signed. *)
(***************************************************************************)
LEMMA CommitCalls ==
    ASSUME Inv, NEW c \in Callbacks, call[c].pc = "commit",
           NEW u \in Users, Consumed(c, u),
           users \subseteq users', linked \subseteq linked',
           UNCHANGED <<expired, events>>, u \in users',
           call[c].action # "link" => <<u, call[c].key>> \in linked'
    PROVE  /\ challenge' \in [K1s -> Challenge] /\ call' \in [Callbacks -> Call]
           /\ signer' \in [K1s -> Wallets \cup {NoWallet}]
           /\ ChallengesWellFormed' /\ CallsAlone' /\ CallsSound'
           /\ EventConsumes'
<1> DEFINE row == [action |-> challenge[call[c].k1].action, user |-> u,
                   consumed |-> TRUE]
<1>1. PICK k \in K1s : k = call[c].k1
  BY DEF Inv, LnurlInv, CallsSound, InTransaction
<1>2. /\ call[c].key \in Wallets /\ call[c].signed /\ call[c] \in Call
      /\ Created(k) /\ ~challenge[k].consumed /\ challenge[k] \in Challenge
      /\ call[c].action = challenge[k].action
      /\ \A d \in Callbacks \ {c} :
           call[d].pc \in InTransaction => call[d].k1 # k
  BY <1>1 DEF Inv, LnurlInv, TypeOK, CallsSound, CallsAlone, InTransaction, Accepted
<1>3. /\ row \in Challenge /\ row.user = u /\ row.consumed
      /\ row.action = challenge[k].action
  BY <1>1, <1>2 DEF Challenge
<1> HIDE DEF row
<1>4. /\ challenge' \in [K1s -> Challenge]
      /\ \A l \in K1s : challenge'[l] = IF l = k THEN row ELSE challenge[l]
  BY <1>1, <1>3 DEF Consumed, Inv, TypeOK, row
<1>5. /\ signer' \in [K1s -> Wallets \cup {NoWallet}]
      /\ \A l \in K1s : signer'[l] = IF l = k THEN call[c].key ELSE signer[l]
  BY <1>1, <1>2 DEF Consumed, Inv, TypeOK
<1>6. PICK r \in Call : /\ r.pc = "event" /\ r.k1 = k
                        /\ call' = [call EXCEPT ![c] = r]
  <2>1. [call[c] EXCEPT !.pc = "event"] \in Call
    BY <1>2 DEF Call, Steps
  <2>2. /\ [call[c] EXCEPT !.pc = "event"].pc = "event"
        /\ [call[c] EXCEPT !.pc = "event"].k1 = k
    BY <1>1, <1>2 DEF Call
  <2> QED
    BY <2>1, <2>2 DEF Consumed
<1>7. /\ call' \in [Callbacks -> Call]
      /\ \A d \in Callbacks : call'[d] = IF d = c THEN r ELSE call[d]
  BY <1>6 DEF Inv, TypeOK
<1>8. \A l \in K1s : Created(l)' <=> Created(l)
  BY <1>3, <1>4 DEF Created
<1>9. ChallengesWellFormed'
  BY <1>2, <1>3, <1>4, <1>5, <1>8
     DEF Inv, LnurlInv, ChallengesWellFormed
<1>10. CallsAlone'
  BY <1>6, <1>7 DEF Inv, LnurlInv, CallsAlone, InTransaction
<1>11. CallsSound'
  BY <1>2, <1>3, <1>4, <1>6, <1>7, <1>8
     DEF Inv, LnurlInv, CallsSound, Accepted, InTransaction
<1>12. EventConsumes'
  BY <1>2, <1>4 DEF Inv, LnurlInv, TypeOK, Event, EventConsumes
<1> QED
  BY <1>4, <1>5, <1>7, <1>9, <1>10, <1>11, <1>12

LEMMA LoginCommitInv ==
    ASSUME Inv, NEW c \in Callbacks, LoginCommit(c)
    PROVE  Inv'
<1>1. PICK u \in Users :
        u = call[c].found /\ u \in users /\ <<u, call[c].key>> \in linked
  BY DEF LoginCommit, Inv, LnurlInv, TypeOK, CallsSound
<1>2. Consumed(c, u) /\ UNCHANGED <<users, password, wallet, linked, expired, events>>
  BY <1>1 DEF LoginCommit, accounts
<1>3. /\ challenge' \in [K1s -> Challenge] /\ call' \in [Callbacks -> Call]
      /\ signer' \in [K1s -> Wallets \cup {NoWallet}]
      /\ ChallengesWellFormed' /\ CallsAlone' /\ CallsSound' /\ EventConsumes'
  BY <1>1, <1>2, CommitCalls DEF LoginCommit
<1>4. TypeOK' /\ WalletsLinked' /\ WalletUnique' /\ NoLockout'
  BY <1>2, <1>3 DEF Inv, LnurlInv, TypeOK, WalletsLinked, WalletUnique, NoLockout
<1> QED
  BY <1>3, <1>4 DEF Inv, LnurlInv

LEMMA RegisterCommitInv ==
    ASSUME Inv, NEW c \in Callbacks, RegisterCommit(c)
    PROVE  Inv'
<1>1. CASE call[c].found # NoUser /\ Consumed(c, call[c].found) /\ UNCHANGED accounts
  <2>1. PICK u \in Users :
          u = call[c].found /\ u \in users /\ <<u, call[c].key>> \in linked
    BY <1>1 DEF RegisterCommit, Inv, LnurlInv, TypeOK, CallsSound
  <2>2. Consumed(c, u) /\ UNCHANGED <<users, password, wallet, linked, expired, events>>
    BY <1>1, <2>1 DEF RegisterCommit, accounts
  <2>3. /\ challenge' \in [K1s -> Challenge] /\ call' \in [Callbacks -> Call]
        /\ signer' \in [K1s -> Wallets \cup {NoWallet}]
        /\ ChallengesWellFormed' /\ CallsAlone' /\ CallsSound' /\ EventConsumes'
    BY <2>1, <2>2, CommitCalls DEF RegisterCommit
  <2>4. TypeOK' /\ WalletsLinked' /\ WalletUnique' /\ NoLockout'
    BY <2>2, <2>3 DEF Inv, LnurlInv, TypeOK, WalletsLinked, WalletUnique, NoLockout
  <2> QED
    BY <2>3, <2>4 DEF Inv, LnurlInv
<1>2. CASE \E u \in Users \ users :
             /\ WalletFree(call[c].key, u)
             /\ users' = users \cup {u}
             /\ wallet' = [wallet EXCEPT ![u] = call[c].key]
             /\ linked' = linked \cup {<<u, call[c].key>>}
             /\ Consumed(c, u) /\ UNCHANGED password
  <2>1. PICK u \in Users \ users :
             /\ WalletFree(call[c].key, u)
             /\ users' = users \cup {u}
             /\ wallet' = [wallet EXCEPT ![u] = call[c].key]
             /\ linked' = linked \cup {<<u, call[c].key>>}
             /\ Consumed(c, u) /\ UNCHANGED password
    BY <1>2
  <2>2. call[c].key \in Wallets
    BY DEF RegisterCommit, Inv, LnurlInv, CallsSound, InTransaction
  <2>3. UNCHANGED <<expired, events>>
    BY DEF RegisterCommit
  <2>4. /\ challenge' \in [K1s -> Challenge] /\ call' \in [Callbacks -> Call]
        /\ signer' \in [K1s -> Wallets \cup {NoWallet}]
        /\ ChallengesWellFormed' /\ CallsAlone' /\ CallsSound' /\ EventConsumes'
    BY <2>1, <2>3, CommitCalls DEF RegisterCommit
  <2>5. \A v \in Users : wallet'[v] = IF v = u THEN call[c].key ELSE wallet[v]
    BY <2>1 DEF Inv, TypeOK
  <2>6. TypeOK'
    BY <2>1, <2>2, <2>3, <2>4 DEF Inv, TypeOK
  <2>7. WalletsLinked' /\ NoLockout'
    BY <2>1, <2>2, <2>5, NullAssumption DEF Inv, LnurlInv, TypeOK, WalletsLinked, NoLockout
  <2>8. WalletUnique'
    <3>1. \A v \in Users \ {u} : wallet[v] # call[c].key
      BY <2>1, <2>2, NullAssumption DEF Inv, LnurlInv, WalletsLinked, WalletFree
    <3> QED
      BY <2>5, <3>1 DEF Inv, LnurlInv, WalletUnique
  <2> QED
    BY <2>4, <2>6, <2>7, <2>8 DEF Inv, LnurlInv
<1> QED
  BY <1>1, <1>2 DEF RegisterCommit

LEMMA LinkCommitInv ==
    ASSUME Inv, NEW c \in Callbacks, LinkCommit(c)
    PROVE  Inv'
<1>1. PICK u \in Users : u = challenge[call[c].k1].user /\ u \in users
  BY DEF LinkCommit, Inv, LnurlInv, TypeOK, CallsSound, ChallengesWellFormed,
         InTransaction, Accepted
<1>2. /\ Consumed(c, u) /\ UNCHANGED <<expired, users, password, events>>
      /\ linked \subseteq linked'
  BY <1>1 DEF LinkCommit
<1>3. /\ challenge' \in [K1s -> Challenge] /\ call' \in [Callbacks -> Call]
      /\ signer' \in [K1s -> Wallets \cup {NoWallet}]
      /\ ChallengesWellFormed' /\ CallsAlone' /\ CallsSound' /\ EventConsumes'
  BY <1>1, <1>2, CommitCalls DEF LinkCommit
<1>4. CASE UNCHANGED <<wallet, linked>>
  <2>1. TypeOK' /\ WalletsLinked' /\ WalletUnique' /\ NoLockout'
    BY <1>2, <1>3, <1>4 DEF Inv, LnurlInv, TypeOK, WalletsLinked, WalletUnique, NoLockout
  <2> QED
    BY <1>3, <2>1 DEF Inv, LnurlInv
<1>5. CASE /\ WalletFree(call[c].key, u)
           /\ wallet' = [wallet EXCEPT ![u] = call[c].key]
           /\ linked' = linked \cup {<<u, call[c].key>>}
  <2>1. call[c].key \in Wallets
    BY DEF LinkCommit, Inv, LnurlInv, CallsSound, InTransaction
  <2>2. \A v \in Users : wallet'[v] = IF v = u THEN call[c].key ELSE wallet[v]
    BY <1>5 DEF Inv, TypeOK
  <2>3. TypeOK'
    BY <1>2, <1>3, <1>5, <2>1 DEF Inv, TypeOK
  <2>4. WalletsLinked' /\ NoLockout'
    BY <1>1, <1>2, <1>5, <2>1, <2>2, NullAssumption
       DEF Inv, LnurlInv, TypeOK, WalletsLinked, NoLockout
  <2>5. WalletUnique'
    <3>1. \A v \in Users \ {u} : wallet[v] # call[c].key
      BY <1>5, <2>1, NullAssumption DEF Inv, LnurlInv, WalletsLinked, WalletFree
    <3> QED
      BY <2>2, <3>1 DEF Inv, LnurlInv, WalletUnique
  <2> QED
    BY <1>3, <2>3, <2>4, <2>5 DEF Inv, LnurlInv
<1> QED
  BY <1>1, <1>4, <1>5 DEF LinkCommit

LEMMA EmitInv ==
    ASSUME Inv, NEW c \in Callbacks, Emit(c)
    PROVE  Inv'
<1>1. PICK k \in K1s, u \in Users :
        /\ challenge[k].consumed /\ challenge[k].user = u
        /\ events' = events \cup {[k1 |-> k, user |-> u]}
  BY DEF Emit, Inv, LnurlInv, TypeOK, CallsSound, ChallengesWellFormed
<1>2. EventConsumes'
  BY <1>1 DEF Emit, Inv, LnurlInv, EventConsumes
<1>3. call' = [call EXCEPT ![c] = NoCall] /\ NoCall.pc = "idle"
  BY DEF Emit, Finish, NoCall
<1>4. /\ \A d \in Callbacks : call'[d] = IF d = c THEN NoCall ELSE call[d]
      /\ UNCHANGED <<challenge, expired, users, password, wallet, linked, signer>>
  BY <1>3 DEF Emit, accounts, Inv, TypeOK
<1>5. TypeOK'
  BY <1>1, <1>3, <1>4, NoCallType DEF Inv, TypeOK, Event
<1>6. CallsAlone' /\ CallsSound'
  BY <1>3, <1>4 DEF Inv, LnurlInv, CallsAlone, CallsSound, InTransaction,
                    Accepted, Created
<1>7. ChallengesWellFormed' /\ WalletsLinked' /\ WalletUnique' /\ NoLockout'
  BY <1>4 DEF Inv, LnurlInv, ChallengesWellFormed, WalletsLinked, WalletUnique,
              NoLockout, Created
<1> QED
  BY <1>2, <1>5, <1>6, <1>7 DEF Inv, LnurlInv

----------------------------------------------------------------------------
LEMMA InvNext == Inv /\ [Next]_vars => Inv'
<1> SUFFICES ASSUME Inv, [Next]_vars
             PROVE  Inv'
  OBVIOUS
<1>1. ASSUME NEW c \in Callbacks, Callback(c)
      PROVE  Inv'
  BY <1>1, ConsumeInv, FinishInv, ResolveInv, AccountInv, LoginCommitInv,
     RegisterCommitInv, LinkCommitInv, EmitInv DEF Callback, Reject, Abort
<1>2. ASSUME NEW k \in K1s, Expire(k)
      PROVE  Inv'
  <2>1. expired' \subseteq K1s
    BY <1>2 DEF Expire, Inv, TypeOK
  <2> QED
    BY <1>2, <2>1, ExpireInv DEF Expire
<1>3. CASE UNCHANGED vars
  BY <1>3, ExpireInv DEF vars, accounts, Inv, TypeOK
<1> QED
  BY <1>1, <1>2, <1>3, SetPasswordInv, UnlinkInv, CreateChallengeInv DEF Next

\* The inductive invariant: a callback in its transaction is alone with its
\* challenge, which stays open until the commit (the conditional UPDATE of
\* lnurl_auth_callback), however many callbacks overlap.
THEOREM CallbacksAlone == Spec => []LnurlInv
<1>1. Inv => LnurlInv
  BY DEF Inv
<1> QED
  BY <1>1, InvInit, InvNext, PTL DEF Spec

LEMMA AlwaysInv == Spec => []Inv
BY InvInit, InvNext, PTL DEF Spec

\* Every variable keeps its type.
THEOREM TypeCorrect == Spec => []TypeOK
<1>1. Inv => TypeOK
  BY DEF Inv
<1> QED
  BY <1>1, AlwaysInv, PTL

\* No wallet ever signs in to two accounts, whatever registrations and links
\* overlap: both branches of the callback leave it to the unique constraint.
THEOREM WalletsUnique == Spec => []WalletUnique
<1>1. Inv => WalletUnique
  BY DEF Inv, LnurlInv
<1> QED
  BY <1>1, AlwaysInv, PTL

\* No account is ever left without a way to sign in (register, link, and
\* the password check of the unlink button).
THEOREM NobodyLockedOut == Spec => []NoLockout
<1>1. Inv => NoLockout
  BY DEF Inv, LnurlInv
<1> QED
  BY <1>1, AlwaysInv, PTL

\* No event precedes its commit, and none names another account than the
\* consumed challenge.
THEOREM EventsCommitted == Spec => []EventConsumes
<1>1. Inv => EventConsumes
  BY DEF Inv, LnurlInv
<1> QED
  BY <1>1, AlwaysInv, PTL

\* A browser is signed in only as an account that has held the wallet whose
\* signature its challenge was used with.
THEOREM SignInsOwned == Spec => []SignInOwner
<1>1. Inv => SignInOwner
  BY DEF Inv, LnurlInv, TypeOK, Event, EventConsumes, ChallengesWellFormed,
         SignInOwner, Created, Challenge, Actions, Missing
<1> QED
  BY <1>1, AlwaysInv, PTL

----------------------------------------------------------------------------
(***************************************************************************)
(* LnurlAuth implements OneTimeChallenge: only CreateChallenge and the     *)
(* commits write challenges.                                               *)
(***************************************************************************)
State(k) == IF ~Created(k) THEN "none"
            ELSE IF challenge[k].consumed THEN "used" ELSE "open"

LEMMA OneTimeInit == Init => OneTime!Init
BY DEF Init, OneTime!Init, Created, Missing

LEMMA OpenStep ==
    ASSUME Inv, NEW k \in K1s, CreateChallenge(k)
    PROVE  OneTime!Next
<1>1. PICK u \in Users \cup {NoUser}, a \in Actions :
        challenge' = [challenge EXCEPT ![k] =
          [action |-> a, user |-> u, consumed |-> FALSE]]
  BY DEF CreateChallenge, Actions, Inv, TypeOK
<1>2. \A l \in K1s : challenge'[l] =
        IF l = k THEN [action |-> a, user |-> u, consumed |-> FALSE]
                 ELSE challenge[l]
  BY <1>1 DEF Inv, TypeOK
<1>3. State(k) = "none" /\ State(k)' = "open" /\ challenge'[k].user = u
  BY <1>2, NullAssumption DEF CreateChallenge, State, Created, Actions
<1>4. \A l \in K1s \ {k} : State(l)' = State(l) /\ challenge'[l] = challenge[l]
  BY <1>2 DEF State, Created
<1>5. [l \in K1s |-> State(l)]' = [[l \in K1s |-> State(l)] EXCEPT ![k] = "open"]
  BY <1>3, <1>4
<1>6. [l \in K1s |-> challenge'[l].user] =
        [[l \in K1s |-> challenge[l].user] EXCEPT ![k] = u]
  BY <1>3, <1>4
<1>7. OneTime!Open(k)
  BY <1>3, <1>5, <1>6 DEF OneTime!Open, State
<1> QED
  BY <1>7 DEF OneTime!Next

LEMMA UseStep ==
    ASSUME Inv, NEW c \in Callbacks, call[c].pc = "commit",
           NEW u \in Users, Consumed(c, u),
           challenge[call[c].k1].user \in {NoUser, u}
    PROVE  OneTime!Next
<1>1. PICK k \in K1s : k = call[c].k1
  BY DEF Inv, LnurlInv, CallsSound, InTransaction
<1>2. \A l \in K1s : challenge'[l] =
        IF l = k THEN [action |-> challenge[k].action, user |-> u, consumed |-> TRUE]
                 ELSE challenge[l]
  BY <1>1 DEF Consumed, Inv, TypeOK
<1>3. Created(k) /\ ~challenge[k].consumed
  BY <1>1 DEF Inv, LnurlInv, CallsSound, InTransaction
<1>4. State(k) = "open" /\ State(k)' = "used" /\ challenge'[k].user = u
  BY <1>2, <1>3 DEF State, Created
<1>5. \A l \in K1s \ {k} : State(l)' = State(l) /\ challenge'[l] = challenge[l]
  BY <1>2 DEF State, Created
<1>6. [l \in K1s |-> State(l)]' = [[l \in K1s |-> State(l)] EXCEPT ![k] = "used"]
  BY <1>4, <1>5
<1>7. [l \in K1s |-> challenge'[l].user] =
        [[l \in K1s |-> challenge[l].user] EXCEPT ![k] = u]
  BY <1>4, <1>5
<1>8. OneTime!Use(k)
  BY <1>1, <1>4, <1>6, <1>7 DEF OneTime!Use, State
<1> QED
  BY <1>8 DEF OneTime!Next

LEMMA CommitStep ==
    ASSUME Inv, NEW c \in Callbacks,
           LoginCommit(c) \/ RegisterCommit(c) \/ LinkCommit(c)
    PROVE  OneTime!Next
<1>1. /\ call[c].pc = "commit" /\ call[c].k1 \in K1s
      /\ call[c].action = challenge[call[c].k1].action
      /\ ~challenge[call[c].k1].consumed
      /\ call[c].found # NoUser => call[c].found \in Users
  BY DEF LoginCommit, RegisterCommit, LinkCommit, Inv, LnurlInv, TypeOK,
         CallsSound, InTransaction, Accepted
<1>2. PICK u \in Users :
        /\ Consumed(c, u)
        /\ \/ call[c].action \in {"login", "register"}
           \/ call[c].action = "link" /\ u = challenge[call[c].k1].user
  <2>1. CASE LoginCommit(c)
    <3>1. PICK u \in Users : u = call[c].found
      BY <1>1, <2>1 DEF LoginCommit, Inv, LnurlInv, CallsSound
    <3> QED
      BY <2>1, <3>1 DEF LoginCommit, Consumed
  <2>2. CASE RegisterCommit(c)
    <3>1. CASE call[c].found # NoUser /\ Consumed(c, call[c].found)
      <4>1. PICK u \in Users : u = call[c].found
        BY <1>1, <3>1
      <4> QED
        BY <2>2, <3>1, <4>1 DEF RegisterCommit, Consumed
    <3>2. CASE \E u \in Users : Consumed(c, u)
      <4>1. call[c].action = "register"
        BY <2>2 DEF RegisterCommit
      <4> QED
        BY <3>2, <4>1
    <3> QED
      BY <2>2, <3>1, <3>2 DEF RegisterCommit
  <2>3. CASE LinkCommit(c)
    <3>1. PICK u \in Users : u = challenge[call[c].k1].user
      BY <1>1, <2>3 DEF LinkCommit, Inv, LnurlInv, TypeOK, ChallengesWellFormed
    <3> QED
      BY <2>3, <3>1 DEF LinkCommit
  <2> QED
    BY <2>1, <2>2, <2>3
<1>3. challenge[call[c].k1].user \in {NoUser, u}
  BY <1>1, <1>2 DEF Inv, LnurlInv, ChallengesWellFormed
<1> QED
  BY <1>1, <1>2, <1>3, UseStep

LEMMA OneTimeStep ==
    ASSUME Inv, [Next]_vars
    PROVE  [OneTime!Next]_(OneTime!vars)
<1>1. CASE UNCHANGED challenge
  BY <1>1 DEF OneTime!vars, Created
<1> QED
  BY <1>1, OpenStep, CommitStep DEF Next, Callback, vars, SetPassword, Unlink,
     Expire, Consume, Reject, Resolve, Account, Emit, Abort

\* However callbacks overlap, fail or are repeated, a challenge is used at
\* most once, and a link challenge for the account that asked for it: the
\* handlers implement OneTimeChallenge.
THEOREM OneTimeImplemented == Spec => OneTimeUse
BY InvInit, InvNext, OneTimeInit, OneTimeStep, PTL
   DEF Spec, OneTimeUse, OneTime!Spec
=============================================================================
