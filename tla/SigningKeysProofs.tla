------------------------- MODULE SigningKeysProofs -------------------------
(***************************************************************************)
(* Proofs about SigningKeys, for any number of keys and of workers and for *)
(* all values of the time constants that satisfy the module's assumptions. *)
(***************************************************************************)
EXTENDS SigningKeys, TLAPS

USE TimesAssumption DEF Time, Unset

(***************************************************************************)
(* The state keeps its type: in particular a worker's job is always one of *)
(* the documented steps, on keys that exist.                               *)
(***************************************************************************)
THEOREM TypeCorrect == Spec => []TypeOK
<1>1. Init => TypeOK
  BY InitialActiveAssumption
     DEF Init, TypeOK, Idle, Job, Steps, Activating, Status,
         Audited, Events, NoCache
<1>2. TypeOK /\ [Next]_vars => TypeOK'
  <2> SUFFICES ASSUME TypeOK, [Next]_vars PROVE TypeOK'
    OBVIOUS
  <2> USE DEF TypeOK, Job, Idle, NewJob, Steps, Activating, Status, Events,
              Audited, WithStatus, JwksKeys, Publishable
  <2>1. CASE Tick
    BY <2>1 DEF Tick, Token, NoCache
  <2>2. ASSUME NEW w \in Workers, EnsureRead(w) PROVE TypeOK'
    BY <2>2 DEF EnsureRead
  <2>3. ASSUME NEW w \in Workers, Bootstrap(w) PROVE TypeOK'
    BY <2>3 DEF Bootstrap
  <2>4. ASSUME NEW w \in Workers, Sign(w) PROVE TypeOK'
    BY <2>4 DEF Sign
  <2>5. ASSUME NEW w \in Workers, Deliver(w) PROVE TypeOK'
    BY <2>5 DEF Deliver, Token
  <2>6. ASSUME NEW w \in Workers, Publish(w) PROVE TypeOK'
    BY <2>6 DEF Publish
  <2>7. ASSUME NEW w \in Workers, Create(w) PROVE TypeOK'
    BY <2>7 DEF Create
  <2>8. ASSUME NEW w \in Workers, ActivateReadKey(w) PROVE TypeOK'
    BY <2>8 DEF ActivateReadKey
  <2>9. ASSUME NEW w \in Workers, ActivateReadActives(w) PROVE TypeOK'
    BY <2>9 DEF ActivateReadActives
  <2>10. ASSUME NEW w \in Workers, ActivateCommit(w) PROVE TypeOK'
    BY <2>10 DEF ActivateCommit, RetiredAfter, Retention
  <2>11. ASSUME NEW w \in Workers, RetireRead(w) PROVE TypeOK'
    BY <2>11 DEF RetireRead, Expired
  <2>12. ASSUME NEW w \in Workers, RetireCommit(w) PROVE TypeOK'
    BY <2>12 DEF RetireCommit
  <2>13. ASSUME NEW w \in Workers, Abort(w) PROVE TypeOK'
    BY <2>13 DEF Abort
  <2>14. CASE UNCHANGED vars
    BY <2>14 DEF vars
  <2> QED
    BY <2>1, <2>2, <2>3, <2>4, <2>5, <2>6, <2>7, <2>8, <2>9, <2>10, <2>11,
       <2>12, <2>13, <2>14 DEF Next, Worker
<1> QED
  BY <1>1, <1>2, PTL DEF Spec

(***************************************************************************)
(* Retention. But for a clash, a key is still published while any token it *)
(* signed is valid; RetentionInv is the inductive invariant. One lemma per *)
(* action follows, with one step for each conjunct that the action can     *)
(* disturb and one for those it leaves alone.                              *)
(***************************************************************************)
LEMMA RetentionInit == TypeOK /\ Init => RetentionInv
<1> SUFFICES ASSUME TypeOK, Init PROVE RetentionInv
  OBVIOUS
<1>1. \A w \in Workers : job[w].pc = "idle"
  BY DEF Init, Idle
<1>2. tokens = {} /\ cache.at = Unset /\ clock = 0
  BY DEF Init, NoCache
<1> QED
  BY <1>1, <1>2
     DEF RetentionInv, JobsTimely, TokensCovered, SignersCovered,
         ActivationsPublished, RetirementsDue, Exclusion,
         BeingActivated, BeingRetired, CacheCovered,
         CachedJwksVerifies, Activating

LEMMA TickRetains ==
    ASSUME TypeOK, RetentionInv, TypeOK', Tick
    PROVE  RetentionInv'
<1> USE DEF Tick, TypeOK, Job, Idle, NewJob, Token, RetentionInv, Covered
<1>1. CacheCovered'
  BY DEF CacheCovered, NoCache
<1>2. CachedJwksVerifies'
  BY DEF CachedJwksVerifies, NoCache
<1>3. (JobsTimely /\ TokensCovered /\ SignersCovered /\
       ActivationsPublished /\ RetirementsDue /\ Exclusion)'
  BY DEF JobsTimely, TokensCovered, SignersCovered, ActivationsPublished,
         JwksKeys, WithStatus, Publishable, Activating, RetirementsDue,
         Exclusion,
         BeingActivated, BeingRetired
<1> QED
  BY <1>1, <1>2, <1>3

LEMMA EnsureReadRetains ==
    ASSUME TypeOK, RetentionInv, TypeOK', NEW w \in Workers, EnsureRead(w)
    PROVE  RetentionInv'
<1> USE DEF EnsureRead, TypeOK, Job, Idle, NewJob, Token, RetentionInv, Covered
<1>1. JobsTimely'
  BY DEF JobsTimely
<1>2. TokensCovered'
  BY DEF TokensCovered
<1>3. SignersCovered'
  BY DEF SignersCovered, WithStatus
<1>4. ActivationsPublished'
  BY DEF ActivationsPublished, JwksKeys, WithStatus, Publishable, Activating
<1>5. RetirementsDue'
  BY DEF RetirementsDue
<1>6. Exclusion'
  BY DEF Exclusion,
         BeingActivated, BeingRetired, Activating
<1>7. CacheCovered'
  BY DEF CacheCovered
<1>8. CachedJwksVerifies'
  BY DEF CachedJwksVerifies
<1> QED
  BY <1>1, <1>2, <1>3, <1>4, <1>5, <1>6, <1>7, <1>8

LEMMA BootstrapRetains ==
    ASSUME TypeOK, RetentionInv, TypeOK', NEW w \in Workers, Bootstrap(w)
    PROVE  RetentionInv'
<1> USE DEF Bootstrap, TypeOK, Job, Idle, NewJob, Token, RetentionInv, Covered
<1>1. RetirementsDue'
  BY DEF RetirementsDue, WithStatus
<1>2. (JobsTimely /\ TokensCovered /\ SignersCovered /\
       ActivationsPublished /\ Exclusion /\ CacheCovered /\
       CachedJwksVerifies)'
  BY DEF JobsTimely, TokensCovered, SignersCovered, ActivationsPublished,
         JwksKeys, WithStatus, Publishable, Activating, Exclusion,
         BeingActivated, BeingRetired,
         CacheCovered, CachedJwksVerifies
<1> QED
  BY <1>1, <1>2

LEMMA SignRetains ==
    ASSUME TypeOK, RetentionInv, TypeOK', NEW w \in Workers, Sign(w)
    PROVE  RetentionInv'
<1> USE DEF Sign, TypeOK, Job, Idle, NewJob, Token, RetentionInv, Covered
<1>1. SignersCovered'
  BY DEF SignersCovered, JobsTimely
<1>2. (JobsTimely /\ TokensCovered /\ ActivationsPublished /\
       RetirementsDue /\ Exclusion /\ CacheCovered /\ CachedJwksVerifies)'
  BY DEF JobsTimely, TokensCovered, ActivationsPublished, JwksKeys,
         WithStatus, Publishable, Activating, RetirementsDue, Exclusion,
         BeingActivated, BeingRetired,
         CacheCovered, CachedJwksVerifies
<1> QED
  BY <1>1, <1>2

LEMMA DeliverRetains ==
    ASSUME TypeOK, RetentionInv, TypeOK', NEW w \in Workers, Deliver(w)
    PROVE  RetentionInv'
<1> USE DEF Deliver, TypeOK, Job, Idle, NewJob, Token, RetentionInv, Covered
<1>1. TokensCovered'
  BY DEF TokensCovered, SignersCovered
<1>2. CachedJwksVerifies'
  BY DEF CachedJwksVerifies, CacheCovered
<1>3. (JobsTimely /\ SignersCovered /\ ActivationsPublished /\
       RetirementsDue /\ Exclusion /\ CacheCovered)'
  BY DEF JobsTimely, SignersCovered, ActivationsPublished, JwksKeys,
         WithStatus, Publishable, Activating, RetirementsDue, Exclusion,
         BeingActivated, BeingRetired,
         CacheCovered
<1> QED
  BY <1>1, <1>2, <1>3

LEMMA PublishRetains ==
    ASSUME TypeOK, RetentionInv, TypeOK', NEW w \in Workers, Publish(w)
    PROVE  RetentionInv'
<1> USE DEF Publish, TypeOK, Job, Idle, NewJob, Token, RetentionInv, Covered
<1>1. CacheCovered'
  BY DEF CacheCovered, SignersCovered, JwksKeys, WithStatus, Publishable
<1>2. CachedJwksVerifies'
  BY DEF CachedJwksVerifies, TokensCovered, JwksKeys, WithStatus, Publishable
<1>3. (JobsTimely /\ TokensCovered /\ SignersCovered /\
       ActivationsPublished /\ RetirementsDue /\ Exclusion)'
  BY DEF JobsTimely, TokensCovered, SignersCovered, ActivationsPublished,
         JwksKeys, WithStatus, Publishable, Activating, RetirementsDue,
         Exclusion,
         BeingActivated, BeingRetired
<1> QED
  BY <1>1, <1>2, <1>3

LEMMA CreateRetains ==
    ASSUME TypeOK, RetentionInv, TypeOK', NEW w \in Workers, Create(w)
    PROVE  RetentionInv'
<1> USE DEF Create, TypeOK, Job, Idle, NewJob, Token, RetentionInv, Covered
<1>1. JobsTimely'
  BY DEF JobsTimely
<1>2. TokensCovered'
  BY DEF TokensCovered, WithStatus
<1>3. SignersCovered'
  BY DEF SignersCovered, WithStatus
<1>4. ActivationsPublished'
  BY DEF ActivationsPublished, JwksKeys, WithStatus, Publishable, Activating
<1>5. RetirementsDue'
  BY DEF RetirementsDue, WithStatus
<1>6. Exclusion'
  BY DEF Exclusion, BeingActivated, BeingRetired, Activating,
         RetirementsDue, WithStatus
<1>7. CacheCovered'
  BY DEF CacheCovered
<1>8. CachedJwksVerifies'
  BY DEF CachedJwksVerifies
<1> QED
  BY <1>1, <1>2, <1>3, <1>4, <1>5, <1>6, <1>7, <1>8

LEMMA ActivateReadKeyRetains ==
    ASSUME TypeOK, RetentionInv, TypeOK', NEW w \in Workers, ActivateReadKey(w)
    PROVE  RetentionInv'
<1> USE DEF ActivateReadKey, TypeOK, Job, Idle, NewJob, Token, RetentionInv, Covered
<1>1. Exclusion'
  BY DEF Exclusion, BeingActivated, BeingRetired, Activating
<1>2. (JobsTimely /\ TokensCovered /\ SignersCovered /\
       ActivationsPublished /\ RetirementsDue /\ CacheCovered /\
       CachedJwksVerifies)'
  BY DEF JobsTimely, TokensCovered, SignersCovered, ActivationsPublished,
         JwksKeys, WithStatus, Publishable, Activating, RetirementsDue,
         CacheCovered, CachedJwksVerifies
<1> QED
  BY <1>1, <1>2

LEMMA ActivateReadActivesRetains ==
    ASSUME TypeOK, RetentionInv, TypeOK', NEW w \in Workers, ActivateReadActives(w)
    PROVE  RetentionInv'
<1> USE DEF ActivateReadActives, TypeOK, Job, Idle, NewJob, Token, RetentionInv, Covered
<1>1. (JobsTimely /\ TokensCovered /\ SignersCovered /\
       ActivationsPublished /\ RetirementsDue /\ Exclusion /\
       CacheCovered /\ CachedJwksVerifies)'
  BY DEF JobsTimely, TokensCovered, SignersCovered, ActivationsPublished,
         JwksKeys, WithStatus, Publishable, Activating, RetirementsDue,
         Exclusion,
         BeingActivated, BeingRetired, CacheCovered, CachedJwksVerifies
<1> QED
  BY <1>1

LEMMA ActivateCommitRetains ==
    ASSUME TypeOK, RetentionInv, TypeOK', NEW w \in Workers, ActivateCommit(w)
    PROVE  RetentionInv'
<1> USE DEF ActivateCommit, TypeOK, Job, Idle, NewJob, Token, RetentionInv, Covered
<1>1. TokensCovered'
  BY DelayAssumption
     DEF TokensCovered, JobsTimely, ActivationsPublished, RetiredAfter,
         Retention, JwksKeys, WithStatus, Publishable, Activating
<1>2. SignersCovered'
  BY DelayAssumption
     DEF SignersCovered, JobsTimely, ActivationsPublished, RetiredAfter,
         Retention, JwksKeys, WithStatus, Publishable, Activating
<1>3. /\ job'[w].pc = "idle"
      /\ \A v \in Workers \ {w} : job'[v] = job[v]
      /\ UNCHANGED <<clock, cache, tokens, clashed>>
  OBVIOUS
<1>4. RetirementsDue'
  <2>1. ASSUME NEW v \in Workers, job'[v].pc = "retire", NEW k \in job'[v].seen
        PROVE  \/ k \in clashed'
               \/ status'[k] = "retired"
               \/ /\ status'[k] = "validating"
                  /\ retiredAfter'[k] # Unset /\ retiredAfter'[k] < job'[v].at
    <3>1. v # w /\ job'[v] = job[v]
      BY <1>3, <2>1
    <3>2. k \in clashed \/ (k \in Keys /\ k # job[w].kid)
      BY <2>1, <3>1 DEF Exclusion, BeingActivated, BeingRetired, Activating
    <3>3. \/ k \in clashed
          \/ status[k] = "retired"
          \/ /\ status[k] = "validating"
             /\ retiredAfter[k] # Unset /\ retiredAfter[k] < job[v].at
      BY <2>1, <3>1 DEF RetirementsDue
    <3>4. k \in clashed \/ k \notin job[w].seen
      BY <2>1, <3>1, <3>2, <3>3, DelayAssumption
         DEF ActivationsPublished, JobsTimely, Activating, Retention
    <3> QED
      BY <3>1, <3>2, <3>3, <3>4
  <2> QED
    BY ONLY <2>1 DEF RetirementsDue
<1>5. ActivationsPublished'
  <2> SUFFICES ASSUME NEW v \in Workers \ {w}, job[v].pc \in Activating
               PROVE  /\ job[v].kid \in JwksKeys' \cup clashed
                      /\ \A k \in job[v].seen :
                           Covered(k, job[v].at + Retention - MaxDelay)'
    BY <1>3 DEF ActivationsPublished, Activating
  <2>1. job[v].kid \in JwksKeys' \cup clashed
    BY SMTT(30) DEF ActivationsPublished, JwksKeys, WithStatus, Publishable, Activating
  <2>2. ASSUME NEW k \in job[v].seen
        PROVE  Covered(k, job[v].at + Retention - MaxDelay)'
    BY DEF ActivationsPublished, JobsTimely, RetiredAfter, Retention, Activating
  <2> QED
    BY <2>1, <2>2
<1>6. (JobsTimely /\ Exclusion /\ CacheCovered /\ CachedJwksVerifies)'
  BY <1>3 DEF JobsTimely, Exclusion, BeingActivated, BeingRetired, Activating,
              CacheCovered, CachedJwksVerifies
<1> QED
  BY <1>1, <1>2, <1>4, <1>5, <1>6

LEMMA RetireReadRetains ==
    ASSUME TypeOK, RetentionInv, TypeOK', NEW w \in Workers, RetireRead(w)
    PROVE  RetentionInv'
<1> USE DEF RetireRead, TypeOK, Job, Idle, NewJob, Token, RetentionInv, Covered
<1>1. RetirementsDue'
  BY DEF RetirementsDue, Expired, WithStatus
<1>2. Exclusion'
  BY DEF Exclusion, BeingActivated, BeingRetired, Activating
<1>3. (JobsTimely /\ TokensCovered /\ SignersCovered /\
       ActivationsPublished /\ CacheCovered /\ CachedJwksVerifies)'
  BY DEF JobsTimely, TokensCovered, SignersCovered, ActivationsPublished,
         JwksKeys, WithStatus, Publishable, Activating, CacheCovered,
         CachedJwksVerifies
<1> QED
  BY <1>1, <1>2, <1>3

LEMMA RetireCommitRetains ==
    ASSUME TypeOK, RetentionInv, TypeOK', NEW w \in Workers, RetireCommit(w)
    PROVE  RetentionInv'
<1> USE DEF RetireCommit, TypeOK, Job, Idle, NewJob, Token, RetentionInv, Covered
<1>1. TokensCovered'
  BY DEF TokensCovered, RetirementsDue, JobsTimely
<1>2. SignersCovered'
  BY DEF SignersCovered, RetirementsDue, JobsTimely
<1>3. ActivationsPublished'
  <2> SUFFICES ASSUME NEW v \in Workers \ {w}, job[v].pc \in Activating
               PROVE  /\ job[v].kid \in JwksKeys' \cup clashed
                      /\ \A k \in job[v].seen :
                           Covered(k, job[v].at + Retention - MaxDelay)'
    BY DEF ActivationsPublished, Activating
  <2>1. job[v].kid \in JwksKeys' \cup clashed
    BY DEF ActivationsPublished, Exclusion, BeingActivated, BeingRetired,
           JwksKeys, WithStatus, Publishable
  <2>2. ASSUME NEW k \in job[v].seen
        PROVE  Covered(k, job[v].at + Retention - MaxDelay)'
    <3>1. Covered(k, job[v].at + Retention - MaxDelay)
      BY DEF ActivationsPublished
    <3>2. k \in clashed \/ k \notin job[w].seen
      BY <3>1, DelayAssumption DEF RetirementsDue, JobsTimely, Retention, Activating
    <3> QED
      BY <3>1, <3>2
  <2> QED
    BY <2>1, <2>2
<1>4. (JobsTimely /\ RetirementsDue /\ Exclusion /\ CacheCovered /\
       CachedJwksVerifies)'
  BY DEF JobsTimely, RetirementsDue, Exclusion,
         BeingActivated, BeingRetired, Activating, CacheCovered,
         CachedJwksVerifies
<1> QED
  BY <1>1, <1>2, <1>3, <1>4

LEMMA AbortRetains ==
    ASSUME TypeOK, RetentionInv, TypeOK', NEW w \in Workers, Abort(w)
    PROVE  RetentionInv'
<1> USE DEF Abort, TypeOK, Job, Idle, NewJob, Token, RetentionInv, Covered
<1>1. (JobsTimely /\ TokensCovered /\ SignersCovered /\
       ActivationsPublished /\ RetirementsDue /\ Exclusion /\
       CacheCovered /\ CachedJwksVerifies)'
  BY DEF JobsTimely, TokensCovered, SignersCovered, ActivationsPublished,
         JwksKeys, WithStatus, Publishable, Activating, RetirementsDue,
         Exclusion,
         BeingActivated, BeingRetired, CacheCovered, CachedJwksVerifies
<1> QED
  BY <1>1

LEMMA StutterRetains ==
    ASSUME RetentionInv, UNCHANGED vars PROVE RetentionInv'
  BY DEF vars, RetentionInv, JobsTimely, TokensCovered, SignersCovered,
         ActivationsPublished, RetirementsDue, Exclusion,
         BeingActivated, BeingRetired, CacheCovered,
         CachedJwksVerifies, Covered, JwksKeys, WithStatus

(***************************************************************************)
(* Every key on its way to retirement outlives the tokens signed with it,  *)
(* however activations, retirements and signers overlap; only a key that   *)
(* is activated and retired at once has lost its claim.                    *)
(***************************************************************************)
THEOREM RetentionCorrect == Spec => []RetentionInv
<1>1. TypeOK /\ Init => RetentionInv
  BY RetentionInit
<1>2. TypeOK /\ TypeOK' /\ RetentionInv /\ [Next]_vars => RetentionInv'
  BY TickRetains, EnsureReadRetains, BootstrapRetains, SignRetains,
     DeliverRetains, PublishRetains, CreateRetains, ActivateReadKeyRetains,
     ActivateReadActivesRetains, ActivateCommitRetains, RetireReadRetains,
     RetireCommitRetains, AbortRetains, StutterRetains
     DEF Next, Worker
<1> QED
  BY <1>1, <1>2, TypeCorrect, PTL DEF Spec

(***************************************************************************)
(* The JWKS endpoint publishes the key of every valid ID token, whatever   *)
(* was activated, rotated or retired meanwhile, but for a clash.           *)
(***************************************************************************)
THEOREM KeyPublished == Spec => []LiveTokenKeyPublished
<1>1. TypeOK /\ RetentionInv => LiveTokenKeyPublished
  BY DEF TypeOK, Token, RetentionInv, TokensCovered, Covered,
         LiveTokenKeyPublished, JwksKeys, WithStatus, Publishable
<1> QED
  BY <1>1, TypeCorrect, RetentionCorrect, PTL

(***************************************************************************)
(* A JWKS response in a relying party's cache holds the key of every valid *)
(* token signed before the response was read, but for a clash.             *)
(***************************************************************************)
THEOREM CacheVerifies == Spec => []CachedJwksVerifies
<1>1. RetentionInv => CachedJwksVerifies
  BY DEF RetentionInv
<1> QED
  BY <1>1, RetentionCorrect, PTL

(***************************************************************************)
(* No key leaves the documented life cycle but for a clash: a retired key  *)
(* stays retired and an active key is never retired directly.              *)
(***************************************************************************)
THEOREM LifeCycleCorrect == Spec => LifeCycle
<1>1. TypeOK /\ RetentionInv /\ [Next]_vars => [LifeCycleStep]_vars
  <2> SUFFICES ASSUME TypeOK, RetentionInv, Next PROVE LifeCycleStep
    BY DEF vars
  <2> USE DEF LifeCycleStep, TypeOK, Status, WithStatus
  <2>1. CASE Tick
    BY <2>1 DEF Tick
  <2>2. ASSUME NEW w \in Workers, Bootstrap(w) PROVE LifeCycleStep
    BY <2>2 DEF Bootstrap
  <2>3. ASSUME NEW w \in Workers, Create(w) PROVE LifeCycleStep
    BY <2>3 DEF Create
  <2>4. ASSUME NEW w \in Workers, ActivateCommit(w) PROVE LifeCycleStep
    BY <2>4 DEF ActivateCommit, RetentionInv, ActivationsPublished, Covered,
                JwksKeys, Publishable, Activating
  <2>5. ASSUME NEW w \in Workers, RetireCommit(w) PROVE LifeCycleStep
    BY <2>5 DEF RetireCommit, RetentionInv, RetirementsDue
  <2>6. ASSUME NEW w \in Workers,
               \/ EnsureRead(w) \/ Sign(w) \/ Deliver(w) \/ Publish(w)
               \/ ActivateReadKey(w) \/ ActivateReadActives(w)
               \/ RetireRead(w) \/ Abort(w)
        PROVE  LifeCycleStep
    BY <2>6 DEF EnsureRead, Sign, Deliver, Publish, ActivateReadKey,
                ActivateReadActives, RetireRead, Abort
  <2> QED
    BY <2>1, <2>2, <2>3, <2>4, <2>5, <2>6 DEF Next, Worker
<1> QED
  BY <1>1, TypeCorrect, RetentionCorrect, PTL DEF Spec, LifeCycle

(***************************************************************************)
(* The audit table, where even a clash leaves its trail. The proof needs   *)
(* to know that a worker only ever writes to keys that exist: those it     *)
(* works on or has read cannot have become absent since.                   *)
(***************************************************************************)
KnownKeys ==
    \A w \in Workers :
        /\ \A k \in job[w].seen : status[k] # "absent"
        /\ job[w].pc \in Activating => status[job[w].kid] # "absent"

AuditInv == KnownKeys /\ AuditTrail

LEMMA AuditInit == Init => AuditInv
<1> SUFFICES ASSUME Init PROVE AuditInv
  OBVIOUS
<1>1. KnownKeys
  BY DEF Init, Idle, KnownKeys, Activating
<1>2. \A k \in InitialActive :
        <<"key.created", k>> \in audit /\ <<"key.activated", k>> \in audit
  BY DEF Init, Audited
<1>3. AuditTrail
  BY <1>2 DEF Init, AuditTrail
<1> QED
  BY <1>1, <1>3 DEF AuditInv

\* Most steps change no key; they may sign with one, or forget tokens.
LEMMA KeysUnchangedAudited ==
    ASSUME AuditInv, TypeOK, UNCHANGED <<status, retiredAfter>>,
           audit \subseteq audit',
           \A t \in tokens' : t \in tokens \/ <<"token.signed", t.kid>> \in audit',
           \A w \in Workers :
             \/ job'[w] = job[w]
             \/ /\ \A k \in job'[w].seen : k \in job[w].seen \/ status[k] # "absent"
                /\ job'[w].pc \in Activating =>
                     \/ job'[w].kid = job[w].kid /\ job[w].pc \in Activating
                     \/ status[job'[w].kid] # "absent"
    PROVE  AuditInv'
<1>1. KnownKeys'
  BY DEF AuditInv, KnownKeys
<1>2. AuditTrail'
  BY DEF AuditInv, AuditTrail
<1> QED
  BY <1>1, <1>2 DEF AuditInv

LEMMA AuditStep == TypeOK /\ AuditInv /\ [Next]_vars => AuditInv'
<1> SUFFICES ASSUME TypeOK, AuditInv, [Next]_vars PROVE AuditInv'
  OBVIOUS
<1> USE DEF TypeOK, Job, Idle, NewJob, WithStatus, Audited
<1>1. CASE Tick
  BY <1>1, KeysUnchangedAudited DEF Tick
<1>2. ASSUME NEW w \in Workers, EnsureRead(w) PROVE AuditInv'
  BY <1>2, KeysUnchangedAudited DEF EnsureRead, Activating
<1>3. ASSUME NEW w \in Workers, Bootstrap(w) PROVE AuditInv'
  BY <1>3 DEF Bootstrap, AuditInv, KnownKeys, AuditTrail, Activating
<1>4. ASSUME NEW w \in Workers, Sign(w) PROVE AuditInv'
  BY <1>4, KeysUnchangedAudited DEF Sign, Activating
<1>5. ASSUME NEW w \in Workers, Deliver(w) PROVE AuditInv'
  BY <1>5, KeysUnchangedAudited DEF Deliver, Activating
<1>6. ASSUME NEW w \in Workers, Publish(w) PROVE AuditInv'
  BY <1>6, KeysUnchangedAudited DEF Publish, Activating
<1>7. ASSUME NEW w \in Workers, Create(w) PROVE AuditInv'
  <2>1. PICK k \in Keys :
          /\ status[k] = "absent" /\ status' = [status EXCEPT ![k] = "validating"]
          /\ audit' = audit \cup Audited("key.created", {k})
          /\ UNCHANGED job \/ job' = [job EXCEPT ![w] = NewJob("created", k, {})]
          /\ UNCHANGED <<retiredAfter, tokens>>
    BY <1>7 DEF Create
  <2>2. KnownKeys'
    BY <2>1 DEF AuditInv, KnownKeys, Activating
  <2>3. AuditTrail'
    BY <2>1 DEF AuditInv, AuditTrail
  <2> QED
    BY <2>2, <2>3 DEF AuditInv
<1>8. ASSUME NEW w \in Workers, ActivateReadKey(w) PROVE AuditInv'
  BY <1>8, KeysUnchangedAudited DEF ActivateReadKey, JwksKeys, Publishable
<1>9. ASSUME NEW w \in Workers, ActivateReadActives(w) PROVE AuditInv'
  BY <1>9, KeysUnchangedAudited DEF ActivateReadActives, Activating
<1>10. ASSUME NEW w \in Workers, ActivateCommit(w) PROVE AuditInv'
  <2>1. KnownKeys'
    BY <1>10 DEF ActivateCommit, AuditInv, KnownKeys, Activating
  <2>2. AuditTrail'
    BY <1>10 DEF ActivateCommit, AuditInv, KnownKeys, AuditTrail, Activating
  <2> QED
    BY <2>1, <2>2 DEF AuditInv
<1>11. ASSUME NEW w \in Workers, RetireRead(w) PROVE AuditInv'
  BY <1>11, KeysUnchangedAudited DEF RetireRead, Expired, Activating
<1>12. ASSUME NEW w \in Workers, RetireCommit(w) PROVE AuditInv'
  <2>1. KnownKeys'
    BY <1>12 DEF RetireCommit, AuditInv, KnownKeys, Activating
  <2>2. AuditTrail'
    BY <1>12 DEF RetireCommit, AuditInv, KnownKeys, AuditTrail
  <2> QED
    BY <2>1, <2>2 DEF AuditInv
<1>13. ASSUME NEW w \in Workers, Abort(w) PROVE AuditInv'
  BY <1>13, KeysUnchangedAudited DEF Abort, Activating
<1>14. CASE UNCHANGED vars
  BY <1>14 DEF vars, AuditInv, KnownKeys, AuditTrail
<1> QED
  BY <1>1, <1>2, <1>3, <1>4, <1>5, <1>6, <1>7, <1>8, <1>9, <1>10, <1>11,
     <1>12, <1>13, <1>14 DEF Next, Worker

\* Every key has its rows in the audit table, one for each thing that has
\* happened to it, and every token that is out has one, whatever operations
\* overlap and wherever they crash (AuditTrail).
THEOREM AuditComplete == Spec => []AuditTrail
<1>1. AuditInv => AuditTrail
  BY DEF AuditInv
<1> QED
  BY <1>1, AuditInit, AuditStep, TypeCorrect, PTL DEF Spec
=============================================================================
