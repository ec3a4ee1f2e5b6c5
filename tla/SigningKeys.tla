---------------------------- MODULE SigningKeys ----------------------------
(***************************************************************************)
(* The life cycle of the OIDC signing keys (auth/oidc_keys.py): bootstrap, *)
(* creation, activation, rotation and retirement of the rows of            *)
(* oidc_signing_keys, the signing of ID tokens with the active key, and    *)
(* the JWKS document a relying party fetches and caches.                   *)
(*                                                                         *)
(* Every operation runs on a worker thread with a database session of its  *)
(* own. Its SELECTs take no locks, so a worker acts on rows it read        *)
(* earlier; its writes reach the database in one commit. Workers are the   *)
(* threads of all replicas that share the database, and one clock serves   *)
(* them all.                                                               *)
(*                                                                         *)
(* A commit writes the columns whose value the worker changed, and no      *)
(* other: SQLAlchemy leaves an assignment of the value that was read out   *)
(* of the UPDATE. The columns activated_at, validating_since and           *)
(* retired_at are for display and are left out.                            *)
(***************************************************************************)
EXTENDS Integers

CONSTANTS
    Keys,              \* key ids the RSA generator can return, each once
    NoKey,             \* stands for "no key"
    Workers,           \* worker threads
    TokenTTL,          \* OAUTH2_TOKEN_EXPIRES_IN
    CacheTTL,          \* OIDC_JWKS_CACHE_TTL_SECONDS
    Margin,            \* OIDC_KEY_RETENTION_MARGIN_SECONDS
    MaxDelay,          \* longest time between a worker's read and its use
    MaxClock,          \* bound: the clock stops here
    InitialActive      \* keys that are active at the start ({}: new database)

ASSUME KeysAssumption == NoKey \notin Keys
ASSUME TimesAssumption ==
    /\ TokenTTL \in Nat /\ CacheTTL \in Nat /\ Margin \in Nat
    /\ MaxDelay \in Nat /\ MaxClock \in Nat
\* A worker may stall between two statements, but for less than the slack
\* that the retention period adds to the life of a token.
ASSUME DelayAssumption == 2 * MaxDelay <= CacheTTL + Margin
ASSUME InitialActiveAssumption == InitialActive \subseteq Keys

VARIABLES
    clock,         \* the time all replicas read
    status,        \* column status of each key; "absent" before its INSERT
    retiredAfter,  \* column retired_after of each key
    audit,         \* rows of the audit table, as <<event, kid>>
    job,           \* what each worker is doing, and what it has read
    tokens,        \* ID tokens delivered and not expired
    cache,         \* the last JWKS response a relying party keeps
    clashed        \* history: keys that one worker was activating while
                   \* another was retiring them

vars == <<clock, status, retiredAfter, audit, job, tokens, cache, clashed>>

Unset == -1

Status == {"absent", "validating", "active", "retired"}
Publishable == {"active", "validating"}
Events == {"key.created", "key.activated", "key.demoted_to_validating",
           "key.retired", "token.signed"}

(***************************************************************************)
(* A job's program counter names the step the worker takes next:           *)
(*   bootstrap  insert an active key, none having been found               *)
(*   sign       sign an ID token with the key read as active               *)
(*   deliver    commit the audit row of the signature and answer           *)
(*   publish    read the publishable keys and answer with them             *)
(*   created    activate the key just created (rotation)                   *)
(*   actives    read the active keys (activation)                          *)
(*   activate   commit the activation                                      *)
(*   retire     commit the retirement                                      *)
(***************************************************************************)
Steps == {"idle", "bootstrap", "sign", "deliver", "publish", "created",
          "actives", "activate", "retire"}

Activating == {"created", "actives", "activate"}

Time == Nat \cup {Unset}

Job == [pc : Steps,
        kid : Keys \cup {NoKey},  \* the key it works on
        at : Nat,                 \* when it read the clock, or the database
        was : Status,             \* status of kid, as read
        due : Time,               \* retired_after of kid, as read
        seen : SUBSET Keys,       \* keys its query returned
        exp : Time]               \* expiry of the token it signed

Idle == [pc |-> "idle", kid |-> NoKey, at |-> 0, was |-> "absent",
         due |-> Unset, seen |-> {}, exp |-> Unset]

\* The job of a worker that has just read the clock or the database: it
\* takes step pc next, on key k, on the keys S its query returned.
NewJob(pc, k, S) == [pc |-> pc, kid |-> k, at |-> clock, was |-> "absent",
                     due |-> Unset, seen |-> S, exp |-> Unset]

Token == [kid : Keys, exp : Nat]

NoCache == [keys |-> {}, at |-> Unset]

TypeOK ==
    /\ clock \in Nat
    /\ status \in [Keys -> Status]
    /\ retiredAfter \in [Keys -> Time]
    /\ audit \subseteq Events \X Keys
    /\ job \in [Workers -> Job]
    /\ \A w \in Workers :
         /\ job[w].pc \in Activating \cup {"sign", "deliver"} =>
              job[w].kid \in Keys
         /\ job[w].pc = "deliver" => job[w].exp \in Nat
    /\ tokens \subseteq Token
    /\ cache \in [keys : SUBSET Keys, at : Time]
    /\ clashed \subseteq Keys

----------------------------------------------------------------------------
WithStatus(S) == {k \in Keys : status[k] \in S}

JwksKeys == WithStatus(Publishable)

Retention == TokenTTL + CacheTTL + Margin

\* Mutant: the retention period forgets the life of the token.
MUT_RetiredAfter(now) == now + CacheTTL + Margin

RetiredAfter(now) == now + Retention

Expired(now) ==
    {k \in WithStatus({"validating"}) :
        retiredAfter[k] # Unset /\ retiredAfter[k] < now}

Audited(event, S) == {event} \X S

BeingActivated == {k \in Keys : \E w \in Workers :
                      job[w].pc \in Activating /\ job[w].kid = k}

BeingRetired == {k \in Keys : \E w \in Workers :
                    job[w].pc = "retire" /\ k \in job[w].seen}

----------------------------------------------------------------------------
Init ==
    /\ clock = 0
    /\ status = [k \in Keys |-> IF k \in InitialActive THEN "active"
                                                       ELSE "absent"]
    /\ retiredAfter = [k \in Keys |-> Unset]
    /\ audit = Audited("key.created", InitialActive)
                 \cup Audited("key.activated", InitialActive)
    /\ job = [w \in Workers |-> Idle]
    /\ tokens = {}
    /\ cache = NoCache
    /\ clashed = {}

\* Mutant: a caller that finds no active key goes on to sign.
MUT_EnsureRead(w) ==
    /\ job[w].pc = "idle"
    /\ \/ \E k \in WithStatus({"active"}), next \in {"sign", "publish"} :
            job' = [job EXCEPT ![w] = NewJob(next, k, {})]
       \/ /\ WithStatus({"active"}) = {}
          /\ job' = [job EXCEPT ![w] = NewJob("sign", NoKey, {})]
    /\ UNCHANGED <<clock, status, retiredAfter, audit, tokens, cache, clashed>>

(***************************************************************************)
(* ensure_active_signing_key, its SELECT: the caller goes on with any of   *)
(* the active keys, or finds none and will create one.                     *)
(***************************************************************************)
EnsureRead(w) ==
    /\ job[w].pc = "idle"
    /\ \/ \E k \in WithStatus({"active"}), next \in {"sign", "publish"} :
            job' = [job EXCEPT ![w] = NewJob(next, k, {})]
       \/ /\ WithStatus({"active"}) = {}
          /\ job' = [job EXCEPT ![w] = NewJob("bootstrap", NoKey, {})]
    /\ UNCHANGED <<clock, status, retiredAfter, audit, tokens, cache, clashed>>

\* create_signing_key(status="active"), for a caller that found no active key.
Bootstrap(w) ==
    /\ job[w].pc = "bootstrap"
    /\ \E k \in WithStatus({"absent"}), next \in {"sign", "publish"} :
         /\ status' = [status EXCEPT ![k] = "active"]
         /\ audit' = audit \cup Audited("key.created", {k})
                           \cup Audited("key.activated", {k})
         /\ job' = [job EXCEPT ![w] = NewJob(next, k, {})]
    /\ UNCHANGED <<clock, retiredAfter, tokens, cache, clashed>>

\* The claims are stamped and the token is signed with the key read before.
Sign(w) ==
    /\ job[w].pc = "sign"
    /\ job' = [job EXCEPT ![w] =
         [pc |-> "deliver", kid |-> job[w].kid, at |-> clock,
          was |-> "absent", due |-> Unset, seen |-> {},
          exp |-> clock + TokenTTL]]
    /\ UNCHANGED <<clock, status, retiredAfter, audit, tokens, cache, clashed>>

\* audit_token_signed commits; then the token goes out in the response.
Deliver(w) ==
    /\ job[w].pc = "deliver"
    /\ audit' = audit \cup Audited("token.signed", {job[w].kid})
    /\ tokens' = IF job[w].exp >= clock
                   THEN tokens \cup {[kid |-> job[w].kid, exp |-> job[w].exp]}
                   ELSE tokens
    /\ job' = [job EXCEPT ![w] = Idle]
    /\ UNCHANGED <<clock, status, retiredAfter, cache, clashed>>

\* Mutant: the JWKS holds the active key only.
MUT_Publish(w) ==
    /\ job[w].pc = "publish"
    /\ cache' = [keys |-> WithStatus({"active"}), at |-> clock]
    /\ job' = [job EXCEPT ![w] = Idle]
    /\ UNCHANGED <<clock, status, retiredAfter, audit, tokens, clashed>>

\* get_jwks, its SELECT; a relying party keeps the answer.
Publish(w) ==
    /\ job[w].pc = "publish"
    /\ cache' = [keys |-> JwksKeys, at |-> clock]
    /\ job' = [job EXCEPT ![w] = Idle]
    /\ UNCHANGED <<clock, status, retiredAfter, audit, tokens, clashed>>

(***************************************************************************)
(* create_signing_key of the endpoint POST /admin/oidc/keys, and the first *)
(* half of rotate_signing_key, which goes on to activate the new key.      *)
(***************************************************************************)
Create(w) ==
    /\ job[w].pc = "idle"
    /\ \E k \in WithStatus({"absent"}) :
         /\ status' = [status EXCEPT ![k] = "validating"]
         /\ audit' = audit \cup Audited("key.created", {k})
         /\ \/ UNCHANGED job
            \/ job' = [job EXCEPT ![w] = NewJob("created", k, {})]
    /\ UNCHANGED <<clock, retiredAfter, tokens, cache, clashed>>

\* Mutant: a retired key is not refused.
MUT_ActivateReadKey(w) ==
    /\ job[w].pc \in {"idle", "created"}
    /\ \E k \in Keys \ WithStatus({"absent"}) :
         /\ job[w].pc = "created" => k = job[w].kid
         /\ job' = [job EXCEPT ![w] =
              [pc |-> "actives", kid |-> k, at |-> clock, was |-> status[k],
               due |-> retiredAfter[k], seen |-> {}, exp |-> Unset]]
         /\ clashed' = clashed \cup ({k} \cap BeingRetired)
    /\ UNCHANGED <<clock, status, retiredAfter, audit, tokens, cache>>

(***************************************************************************)
(* activate_signing_key, in three steps: the clock and the row of the key, *)
(* the SELECT of the active keys, and the commit. An unknown or a retired  *)
(* key is refused.                                                         *)
(***************************************************************************)
ActivateReadKey(w) ==
    /\ job[w].pc \in {"idle", "created"}
    /\ \E k \in JwksKeys :
         /\ job[w].pc = "created" => k = job[w].kid
         /\ job' = [job EXCEPT ![w] =
              [pc |-> "actives", kid |-> k, at |-> clock, was |-> status[k],
               due |-> retiredAfter[k], seen |-> {}, exp |-> Unset]]
         /\ clashed' = clashed \cup ({k} \cap BeingRetired)
    /\ UNCHANGED <<clock, status, retiredAfter, audit, tokens, cache>>

ActivateReadActives(w) ==
    /\ job[w].pc = "actives"
    /\ job' = [job EXCEPT ![w] =
         [pc |-> "activate", kid |-> job[w].kid, at |-> job[w].at,
          was |-> job[w].was, due |-> job[w].due,
          seen |-> WithStatus({"active"}) \ {job[w].kid}, exp |-> Unset]]
    /\ UNCHANGED <<clock, status, retiredAfter, audit, tokens, cache, clashed>>

\* The keys seen active are demoted; of the key itself only what differs
\* from the row that was read is written.
ActivateCommit(w) ==
    LET j == job[w] IN
    /\ j.pc = "activate"
    /\ status' = [k \in Keys |->
         IF k \in j.seen THEN "validating"
         ELSE IF k = j.kid /\ j.was # "active" THEN "active"
         ELSE status[k]]
    /\ retiredAfter' = [k \in Keys |->
         IF k \in j.seen THEN RetiredAfter(j.at)
         ELSE IF k = j.kid /\ j.due # Unset THEN Unset
         ELSE retiredAfter[k]]
    /\ audit' = audit \cup Audited("key.demoted_to_validating", j.seen)
                      \cup Audited("key.activated", {j.kid})
    /\ job' = [job EXCEPT ![w] = Idle]
    /\ UNCHANGED <<clock, tokens, cache, clashed>>

\* retire_expired_signing_keys: the clock and the SELECT, then the commit.
RetireRead(w) ==
    /\ job[w].pc = "idle"
    /\ job' = [job EXCEPT ![w] = NewJob("retire", NoKey, Expired(clock))]
    /\ clashed' = clashed \cup (Expired(clock) \cap BeingActivated)
    /\ UNCHANGED <<clock, status, retiredAfter, audit, tokens, cache>>

\* Mutant: retirement leaves no audit row.
MUT_RetireCommit(w) ==
    LET S == job[w].seen IN
    /\ job[w].pc = "retire"
    /\ status' = [k \in Keys |-> IF k \in S THEN "retired" ELSE status[k]]
    /\ job' = [job EXCEPT ![w] = Idle]
    /\ UNCHANGED <<clock, retiredAfter, audit, tokens, cache, clashed>>

RetireCommit(w) ==
    LET S == job[w].seen IN
    /\ job[w].pc = "retire"
    /\ status' = [k \in Keys |-> IF k \in S THEN "retired" ELSE status[k]]
    /\ audit' = audit \cup Audited("key.retired", S)
    /\ job' = [job EXCEPT ![w] = Idle]
    /\ UNCHANGED <<clock, retiredAfter, tokens, cache, clashed>>

\* A crash, a lock timeout or any other error: what was not committed is lost.
Abort(w) ==
    /\ job[w].pc # "idle"
    /\ job' = [job EXCEPT ![w] = Idle]
    /\ UNCHANGED <<clock, status, retiredAfter, audit, tokens, cache, clashed>>

\* Time passes, but no worker holds what it read for longer than MaxDelay.
\* Relying parties drop expired tokens, and a JWKS response past its max-age.
Tick ==
    /\ clock < MaxClock
    /\ \A w \in Workers : job[w].pc # "idle" => clock < job[w].at + MaxDelay
    /\ clock' = clock + 1
    /\ tokens' = {t \in tokens : t.exp >= clock + 1}
    /\ cache' = IF clock < cache.at + CacheTTL THEN cache ELSE NoCache
    /\ UNCHANGED <<status, retiredAfter, audit, job, clashed>>

Worker(w) ==
    \/ EnsureRead(w) \/ Bootstrap(w) \/ Sign(w) \/ Deliver(w) \/ Publish(w)
    \/ Create(w)
    \/ ActivateReadKey(w) \/ ActivateReadActives(w) \/ ActivateCommit(w)
    \/ RetireRead(w) \/ RetireCommit(w)
    \/ Abort(w)

Next == Tick \/ \E w \in Workers : Worker(w)

Spec == Init /\ [][Next]_vars

----------------------------------------------------------------------------
(***************************************************************************)
(* Safety properties.                                                      *)
(***************************************************************************)

\* While an ID token is valid, the JWKS endpoint publishes the key that
\* signed it, whatever was rotated or retired meanwhile and whatever overlaps
\* (get_jwks against activate_signing_key and retire_expired_signing_keys).
\* Lost is only the key of a clash: past its retention period, it is made
\* active again by one worker while another one is retiring it.
LiveTokenKeyPublished ==
    \A t \in tokens : t.kid \in JwksKeys \cup clashed

\* A JWKS response that a relying party has cached holds the key of every
\* valid token signed before the response was read, but for a clash.
CachedJwksVerifies ==
    cache.at # Unset =>
        \A t \in tokens : t.exp - TokenTTL < cache.at =>
            t.kid \in cache.keys \cup clashed

\* The audit table tells the story of every key and of every delivered
\* token, even where workers crash between two commits.
AuditTrail ==
    /\ \A k \in Keys :
         /\ status[k] # "absent" => <<"key.created", k>> \in audit
         /\ status[k] = "active" => <<"key.activated", k>> \in audit
         /\ retiredAfter[k] # Unset =>
              <<"key.demoted_to_validating", k>> \in audit
         /\ status[k] = "retired" => <<"key.retired", k>> \in audit
    /\ \A t \in tokens : <<"token.signed", t.kid>> \in audit

\* There are never two active keys for a signer to choose from (the spec of
\* the key rotation; the code does not see to it).
AtMostOneActive == \A j, k \in WithStatus({"active"}) : j = k

(***************************************************************************)
(* Action properties.                                                      *)
(***************************************************************************)

\* A key moves along the documented life cycle only, but for a clash: a
\* retired key never comes back, and an active key is demoted before it is
\* retired, also when activations overlap one another.
LifeCycleStep ==
    \A k \in Keys \ clashed : status'[k] # status[k] =>
        <<status[k], status'[k]>> \in
            {<<"absent", "validating">>, <<"absent", "active">>,
             <<"validating", "active">>, <<"active", "validating">>,
             <<"validating", "retired">>}

LifeCycle == [][LifeCycleStep]_vars

----------------------------------------------------------------------------
(***************************************************************************)
(* The inductive invariant behind LiveTokenKeyPublished, CachedJwksVerifies *)
(* and LifeCycle: a key on its way to retirement has a retired_after no    *)
(* earlier than the expiry of any token it signed, of any it is signing,   *)
(* and of any that a worker who once read it as active may still sign.     *)
(***************************************************************************)
Covered(k, exp) ==
    \/ k \in clashed
    \/ status[k] = "active"
    \/ /\ status[k] = "validating"
       /\ retiredAfter[k] = Unset \/ exp <= retiredAfter[k]

JobsTimely ==
    \A w \in Workers : job[w].pc # "idle" =>
        job[w].at <= clock /\ clock <= job[w].at + MaxDelay

TokensCovered ==
    \A t \in tokens :
        /\ Covered(t.kid, t.exp)
        /\ clock <= t.exp /\ t.exp <= clock + TokenTTL

SignersCovered ==
    \A w \in Workers :
        /\ job[w].pc = "sign" =>
             Covered(job[w].kid, job[w].at + MaxDelay + TokenTTL)
        /\ job[w].pc = "deliver" =>
             /\ job[w].exp <= clock + TokenTTL
             /\ job[w].exp >= clock => Covered(job[w].kid, job[w].exp)

\* What an activation is about to demote was active when it looked: another
\* one may have demoted it since, but not long enough ago for a retirement.
ActivationsPublished ==
    \A w \in Workers : job[w].pc \in Activating =>
        /\ job[w].kid \in JwksKeys \cup clashed
        /\ \A k \in job[w].seen :
             Covered(k, job[w].at + Retention - MaxDelay)

RetirementsDue ==
    \A w \in Workers : job[w].pc = "retire" => \A k \in job[w].seen :
        \/ k \in clashed
        \/ status[k] = "retired"
        \/ /\ status[k] = "validating"
           /\ retiredAfter[k] # Unset /\ retiredAfter[k] < job[w].at

Exclusion == BeingActivated \cap BeingRetired \subseteq clashed

CacheCovered ==
    /\ cache.at <= clock
    /\ cache.at # Unset => \A w \in Workers :
         /\ job[w].pc = "deliver" /\ job[w].exp >= clock
         /\ job[w].exp - TokenTTL < cache.at
         => job[w].kid \in cache.keys \cup clashed

RetentionInv ==
    /\ JobsTimely /\ TokensCovered /\ SignersCovered
    /\ ActivationsPublished /\ RetirementsDue /\ Exclusion
    /\ CacheCovered /\ CachedJwksVerifies
=============================================================================
