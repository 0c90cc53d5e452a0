------------------------- MODULE ComputeBillingProof -------------------------
(***************************************************************************)
(* Types of ComputeBilling; the proof that subscribeDeploy creates at most *)
(* one live subscription; and the proofs of what holds when nothing is     *)
(* under way, each without the races that break it: Compute is billed, no  *)
(* checkout is forgotten, an entitlement ends with its subscription, and   *)
(* the plan and the limits follow Stripe.                                  *)
(***************************************************************************)
EXTENDS ComputeBilling, TLAPS

\* Where DeprovisionCompute is under way, and for whom.
Deprovisioning == {"gate", "dispatch", "unsuspend", "clear"}
Deprovisioners == {"updated", "deleted", "cancel"}

\* Where the recorded subscription is used.
Looked == {"stop", "recorded", "resume", "reprice"}
\* What an invocation has read by the time it gets somewhere.
Sound(i) ==
    /\ i.pc \in Deprovisioning => i.op \in Deprovisioners
    /\ i.op = "subscribe" => i.plan \in Plans
    /\ i.pc \in Looked \/ i.op = "change" => i.rec \in Subs
    /\ i.pc = "create" => i.key # 0
    /\ i.op \in {"checkout", "updated"} => i.sub \in Subs

InvOK == inv \in [Workers -> Invocation] /\ \A w \in Workers : Sound(inv[w])

\* TypeOK in parts.
DbOK ==
    /\ row \in Maybe(Subs)
    /\ plan \in Maybe(Plans)
    /\ limits \in Maybe(Plans)
    /\ sent \in BOOLEAN
StripeOK ==
    /\ stripe \in [Subs -> Subscription]
    /\ minted \in Seq(Subs) /\ forgotten \in 0..Len(minted)
    /\ events \subseteq Event
RestOK ==
    /\ running \in BOOLEAN /\ teardown \in BOOLEAN
    /\ requests \in 0..MaxRequests
    /\ failures \in 0..MaxFailures
    /\ redeliveries \in 0..MaxRedeliveries
    /\ paged \subseteq Subs

TypeInv == StripeOK /\ DbOK /\ RestOK /\ InvOK

\* The fields of an invocation.
LEMMA Fields ==
    ASSUME NEW i \in Invocation
    PROVE  /\ i.op \in Ops /\ i.pc \in Pcs /\ i.ev \in Maybe(Event) /\ i.sub \in Maybe(Subs)
           /\ i.rec \in Maybe(Subs) /\ i.plan \in Maybe(Plans) /\ i.snap \in Maybe(Plans)
           /\ i.live \in Subscription /\ i.key \in Nat
  BY DEF Invocation

\* A worker that does nothing is a well-formed invocation.
LEMMA IdleType == Idle \in Invocation /\ Sound(Idle)
  BY DEF Idle, Invocation, Unused, Subscription, Maybe, Ops, Pcs, Sound, Deprovisioning, Looked

\* A worker that goes on as a well-formed invocation leaves the others alone.
LEMMA Replace ==
    ASSUME InvOK, NEW w \in Workers, NEW i \in Invocation, Sound(i),
           inv' = [inv EXCEPT ![w] = i]
    PROVE  InvOK' /\ inv'[w] = i /\ \A v \in Workers \ {w} : inv'[v] = inv[v]
  BY DEF InvOK

\* Goto keeps invocations well-formed, given what the step it leads to relies on.
LEMMA GotoType ==
    ASSUME InvOK, NEW w \in Workers, NEW pc \in Pcs \ {"create"}, Goto(w, pc),
           pc \in Deprovisioning => inv[w].op \in Deprovisioners,
           pc \in Looked => inv[w].rec \in Subs
    PROVE  InvOK'
  <1> DEFINE i == [inv[w] EXCEPT !.pc = pc]
  <1>1. inv[w] \in Invocation /\ Sound(inv[w])
    BY DEF InvOK
  <1>2. i \in Invocation
    BY <1>1 DEF Invocation
  <1>3. /\ i.pc = pc /\ i.op = inv[w].op /\ i.plan = inv[w].plan
        /\ i.rec = inv[w].rec /\ i.sub = inv[w].sub
    BY <1>1 DEF Invocation
  <1>4. Sound(i)
    BY <1>1, <1>3 DEF Sound
  <1>5. inv' = [inv EXCEPT ![w] = i]
    BY DEF Goto, InvOK
  <1> HIDE DEF i
  <1> QED BY <1>2, <1>4, <1>5, Replace

\* So does Finish, and the event it may bring back is an event.
LEMMA FinishType ==
    ASSUME TypeInv, NEW w \in Workers, Finish(w)
    PROVE  InvOK' /\ events' \subseteq Event /\ redeliveries' \in 0..MaxRedeliveries
  <1>1. InvOK'
    BY IdleType, Replace DEF Finish, TypeInv
  <1>2. inv[w].ev \in Maybe(Event)
    BY Fields DEF TypeInv, InvOK
  <1>3. events' \subseteq Event
    BY <1>2 DEF Finish, TypeInv, StripeOK, Maybe
  <1>4. redeliveries' \in 0..MaxRedeliveries
    BY BoundAssumption DEF Finish, TypeInv, RestOK
  <1> QED BY <1>1, <1>3, <1>4

\* So does Start, with a well-formed invocation.
LEMMA StartType ==
    ASSUME TypeInv, NEW w \in Workers, NEW i \in Invocation, Sound(i), Start(w, i)
    PROVE  InvOK'
  BY Replace DEF Start, TypeInv

\* So does ToCreate, for a key of the chain.
LEMMA ToCreateType ==
    ASSUME InvOK, NEW w \in Workers, NEW k \in Nat \ {0}, ToCreate(w, k)
    PROVE  InvOK'
  <1> DEFINE i == [inv[w] EXCEPT !.pc = "create", !.key = k]
  <1>1. inv[w] \in Invocation /\ Sound(inv[w])
    BY DEF InvOK
  <1>2. i \in Invocation
    BY <1>1 DEF Invocation, Pcs
  <1>3. /\ i.pc = "create" /\ i.op = inv[w].op /\ i.plan = inv[w].plan
        /\ i.rec = inv[w].rec /\ i.sub = inv[w].sub
    BY <1>1 DEF Invocation
  <1>4. Sound(i)
    BY <1>1, <1>3 DEF Sound, Deprovisioning, Looked
  <1>5. inv' = [inv EXCEPT ![w] = i]
    BY DEF ToCreate, InvOK
  <1> HIDE DEF i
  <1> QED BY <1>2, <1>4, <1>5, Replace

\* The first key of the chain is one.
LEMMA FirstKeyType == TypeInv => FirstKey \in Nat \ {0} /\ FirstKey <= Len(minted) + 1
  <1>1. TypeInv => minted \in Seq(Subs) /\ Len(minted) \in Nat /\ forgotten \in 0..Len(minted)
    BY DEF TypeInv, StripeOK
  <1> QED BY <1>1 DEF FirstKey

\* Setting cancel_at_period_end gives subscriptions.
LEMMA SetCancelling ==
    ASSUME stripe \in [Subs -> Subscription], NEW s \in Subs, NEW c \in BOOLEAN
    PROVE  [stripe EXCEPT ![s].cancelling = c] \in [Subs -> Subscription]
  BY DEF Subscription

\* Ending a subscription gives subscriptions.
LEMMA SetCanceled ==
    ASSUME stripe \in [Subs -> Subscription], NEW s \in Subs
    PROVE  [stripe EXCEPT ![s].status = "canceled"] \in [Subs -> Subscription]
  BY DEF Subscription

\* cancel_at_period_end is a flag.
LEMMA StripeFields ==
    ASSUME stripe \in [Subs -> Subscription], NEW s \in Subs
    PROVE  stripe[s].cancelling \in BOOLEAN
  BY DEF Subscription

\* A new subscription is one.
LEMMA FreshType == \A p \in Plans : Fresh(p) \in Subscription
  BY DEF Fresh, Subscription, Maybe

\* The fields of an event.
LEMMA EventType ==
    ASSUME NEW e \in Event
    PROVE  /\ e.sub \in Subs /\ e.type \in {"updated", "deleted", "checkout", "created"}
           /\ e.type \in Ops /\ (e.type = "created" => e.plan \in Plans)
  BY DEF Event, Ops

\* The events without a snapshot.
LEMMA OnType ==
    ASSUME NEW s, NEW type \in {"updated", "deleted", "checkout"}, s \in Subs
    PROVE  On(type, s) \in Event
  BY DEF On, Event

\* Decline keeps the types.
LEMMA DeclineType ==
    ASSUME TypeInv, NEW w \in Workers, Decline(w)
    PROVE  TypeInv'
  <1>1. inv[w] \in Invocation /\ Sound(inv[w])
    BY DEF TypeInv, InvOK
  <1>2. InvOK'
    BY GotoType, <1>1 DEF Decline, TypeInv, Pcs, At, Sound, Looked, Deprovisioning
  <1>3. StripeOK' /\ DbOK' /\ RestOK'
    BY <1>1, Fields DEF Decline, TypeInv, StripeOK, DbOK, RestOK, dbVars, computeVars,
       boundVars, Maybe, At, Sound, Looked
  <1> QED BY <1>2, <1>3 DEF TypeInv

\* DispatchTeardown keeps the types.
LEMMA DispatchTeardownType ==
    ASSUME TypeInv, NEW w \in Workers, DispatchTeardown(w)
    PROVE  TypeInv'
  <1>1. inv[w] \in Invocation /\ Sound(inv[w])
    BY DEF TypeInv, InvOK
  <1>2. InvOK'
    BY GotoType, <1>1 DEF DispatchTeardown, TypeInv, Pcs, At, Sound, Looked, Deprovisioning
  <1>3. StripeOK' /\ DbOK' /\ RestOK'
    BY <1>1, Fields DEF DispatchTeardown, TypeInv, StripeOK, DbOK, RestOK, dbVars,
       computeVars, boundVars, Maybe, At, Sound, Looked
  <1> QED BY <1>2, <1>3 DEF TypeInv

\* EndEnforcement keeps the types.
LEMMA EndEnforcementType ==
    ASSUME TypeInv, NEW w \in Workers, EndEnforcement(w)
    PROVE  TypeInv'
  <1>1. inv[w] \in Invocation /\ Sound(inv[w])
    BY DEF TypeInv, InvOK
  <1>2. InvOK'
    BY GotoType, <1>1 DEF EndEnforcement, TypeInv, Pcs, At, Sound, Looked, Deprovisioning
  <1>3. StripeOK' /\ DbOK' /\ RestOK'
    BY <1>1, Fields DEF EndEnforcement, TypeInv, StripeOK, DbOK, RestOK, dbVars, computeVars,
       boundVars, Maybe, At, Sound, Looked
  <1> QED BY <1>2, <1>3 DEF TypeInv

\* DeprovisionGate keeps the types.
LEMMA DeprovisionGateType ==
    ASSUME TypeInv, NEW w \in Workers, DeprovisionGate(w)
    PROVE  TypeInv'
  <1>1. inv[w] \in Invocation /\ Sound(inv[w])
    BY DEF TypeInv, InvOK
  <1>2. InvOK'
    BY GotoType, <1>1 DEF DeprovisionGate, TypeInv, Pcs, At, Sound, Looked, Deprovisioning,
       Deprovisioners, AfterDeprovision
  <1>3. StripeOK' /\ DbOK' /\ RestOK'
    BY <1>1, Fields DEF DeprovisionGate, TypeInv, StripeOK, DbOK, RestOK, dbVars, computeVars,
       boundVars, Maybe, At, Sound, Looked, SetPlan
  <1> QED BY <1>2, <1>3 DEF TypeInv

\* ClearWorkspaceDeployPlan keeps the types.
LEMMA ClearWorkspaceDeployPlanType ==
    ASSUME TypeInv, NEW w \in Workers, ClearWorkspaceDeployPlan(w)
    PROVE  TypeInv'
  <1>1. inv[w] \in Invocation /\ Sound(inv[w])
    BY DEF TypeInv, InvOK
  <1>2. InvOK'
    BY GotoType, <1>1 DEF ClearWorkspaceDeployPlan, TypeInv, Pcs, At, Sound, Looked,
       Deprovisioning, Deprovisioners, AfterDeprovision
  <1>3. StripeOK' /\ DbOK' /\ RestOK'
    BY <1>1, Fields DEF ClearWorkspaceDeployPlan, TypeInv, StripeOK, DbOK, RestOK, dbVars,
       computeVars, boundVars, Maybe, At, Sound, Looked, SetPlan
  <1> QED BY <1>2, <1>3 DEF TypeInv

\* SubscribeRecorded keeps the types.
LEMMA SubscribeRecordedType ==
    ASSUME TypeInv, NEW w \in Workers, SubscribeRecorded(w)
    PROVE  TypeInv'
  <1>1. inv[w] \in Invocation /\ Sound(inv[w])
    BY DEF TypeInv, InvOK
  <1>2. InvOK'
    BY GotoType, ToCreateType, FirstKeyType, <1>1 DEF SubscribeRecorded, TypeInv, Pcs, At, Sound,
       Looked, Deprovisioning
  <1>3. StripeOK' /\ DbOK' /\ RestOK'
    BY <1>1, Fields DEF SubscribeRecorded, TypeInv, StripeOK, DbOK, RestOK, dbVars,
       computeVars, boundVars, Maybe, At, Sound, Looked
  <1> QED BY <1>2, <1>3 DEF TypeInv

\* Confirm keeps the types.
LEMMA ConfirmType ==
    ASSUME TypeInv, NEW w \in Workers, Confirm(w)
    PROVE  TypeInv'
  <1>1. inv[w] \in Invocation /\ Sound(inv[w])
    BY DEF TypeInv, InvOK
  <1>2. InvOK'
    BY GotoType, ToCreateType, <1>1, Fields DEF Confirm, TypeInv, Pcs, At, Sound, Looked,
       Deprovisioning
  <1>3. StripeOK' /\ DbOK' /\ RestOK'
    BY <1>1, Fields DEF Confirm, TypeInv, StripeOK, DbOK, RestOK, dbVars, computeVars,
       boundVars, Maybe, At, Sound, Looked
  <1> QED BY <1>2, <1>3 DEF TypeInv

\* Claim keeps the types.
LEMMA ClaimType ==
    ASSUME TypeInv, NEW w \in Workers, Claim(w)
    PROVE  TypeInv'
  <1>1. inv[w] \in Invocation /\ Sound(inv[w])
    BY DEF TypeInv, InvOK
  <1>2. InvOK'
    BY GotoType, ToCreateType, FirstKeyType, IdleType, Replace, <1>1, Fields DEF Claim, TypeInv,
       Maybe, Pcs, At, Sound, Looked, Deprovisioning
  <1>3. StripeOK' /\ DbOK' /\ RestOK'
    BY <1>1, Fields DEF Claim, TypeInv, StripeOK, DbOK, RestOK, dbVars, computeVars,
       boundVars, Maybe, At, Sound, Looked, SetPlan
  <1> QED BY <1>2, <1>3 DEF TypeInv

\* Mirror keeps the types.
LEMMA MirrorType ==
    ASSUME TypeInv, NEW w \in Workers, Mirror(w)
    PROVE  TypeInv'
  <1>1. inv[w] \in Invocation /\ Sound(inv[w])
    BY DEF TypeInv, InvOK
  <1>2. InvOK'
    BY FinishType DEF Mirror
  <1>3. StripeOK' /\ DbOK' /\ RestOK'
    BY <1>1, Fields, FinishType DEF Mirror, TypeInv, StripeOK, DbOK, RestOK, dbVars,
       computeVars, boundVars, Maybe, At, Sound, Looked, SetPlan, MirroredPlan, Subscription
  <1> QED BY <1>2, <1>3 DEF TypeInv

\* DeletedEnd keeps the types.
LEMMA DeletedEndType ==
    ASSUME TypeInv, NEW w \in Workers, DeletedEnd(w)
    PROVE  TypeInv'
  <1>1. inv[w] \in Invocation /\ Sound(inv[w])
    BY DEF TypeInv, InvOK
  <1>2. InvOK'
    BY FinishType DEF DeletedEnd
  <1>3. StripeOK' /\ DbOK' /\ RestOK'
    BY <1>1, Fields, FinishType DEF DeletedEnd, TypeInv, StripeOK, DbOK, RestOK, dbVars,
       computeVars, boundVars, Maybe, At, Sound, Looked, SetPlan, MirroredPlan, Subscription
  <1> QED BY <1>2, <1>3 DEF TypeInv

\* LinkTx keeps the types.
LEMMA LinkTxType ==
    ASSUME TypeInv, NEW w \in Workers, LinkTx(w)
    PROVE  TypeInv'
  <1>1. inv[w] \in Invocation /\ Sound(inv[w])
    BY DEF TypeInv, InvOK
  <1>2. InvOK'
    BY FinishType DEF LinkTx
  <1>3. StripeOK' /\ DbOK' /\ RestOK'
    BY <1>1, Fields, FinishType DEF LinkTx, TypeInv, StripeOK, DbOK, RestOK, dbVars,
       computeVars, boundVars, Maybe, At, Sound, Looked, SetPlan, MirroredPlan, Subscription
  <1> QED BY <1>2, <1>3 DEF TypeInv

\* SubscribeTx keeps the types.
LEMMA SubscribeTxType ==
    ASSUME TypeInv, NEW w \in Workers, SubscribeTx(w)
    PROVE  TypeInv'
  <1>1. inv[w] \in Invocation /\ Sound(inv[w])
    BY DEF TypeInv, InvOK
  <1>2. InvOK'
    BY FinishType DEF SubscribeTx
  <1>3. StripeOK' /\ DbOK' /\ RestOK'
    BY <1>1, Fields, FinishType DEF SubscribeTx, TypeInv, StripeOK, DbOK, RestOK, dbVars,
       computeVars, boundVars, Maybe, At, Sound, Looked, SetPlan, MirroredPlan, Subscription
  <1> QED BY <1>2, <1>3 DEF TypeInv

\* CancelLimits keeps the types.
LEMMA CancelLimitsType ==
    ASSUME TypeInv, NEW w \in Workers, CancelLimits(w)
    PROVE  TypeInv'
  <1>1. inv[w] \in Invocation /\ Sound(inv[w])
    BY DEF TypeInv, InvOK
  <1>2. InvOK'
    BY FinishType DEF CancelLimits
  <1>3. StripeOK' /\ DbOK' /\ RestOK'
    BY <1>1, Fields, FinishType DEF CancelLimits, TypeInv, StripeOK, DbOK, RestOK, dbVars,
       computeVars, boundVars, Maybe, At, Sound, Looked, SetPlan, MirroredPlan, Subscription
  <1> QED BY <1>2, <1>3 DEF TypeInv

\* ChangeTx keeps the types.
LEMMA ChangeTxType ==
    ASSUME TypeInv, NEW w \in Workers, ChangeTx(w)
    PROVE  TypeInv'
  <1>1. inv[w] \in Invocation /\ Sound(inv[w])
    BY DEF TypeInv, InvOK
  <1>2. InvOK'
    BY FinishType DEF ChangeTx
  <1>3. StripeOK' /\ DbOK' /\ RestOK'
    BY <1>1, Fields, FinishType DEF ChangeTx, TypeInv, StripeOK, DbOK, RestOK, dbVars,
       computeVars, boundVars, Maybe, At, Sound, Looked, SetPlan, MirroredPlan, Subscription
  <1> QED BY <1>2, <1>3 DEF TypeInv

\* Release keeps the types.
LEMMA ReleaseType ==
    ASSUME TypeInv, NEW w \in Workers, Release(w)
    PROVE  TypeInv'
  <1>1. inv[w] \in Invocation /\ Sound(inv[w])
    BY DEF TypeInv, InvOK
  <1>2. InvOK'
    BY FinishType DEF Release
  <1>3. StripeOK' /\ DbOK' /\ RestOK'
    BY <1>1, Fields, FinishType DEF Release, TypeInv, StripeOK, DbOK, RestOK, dbVars,
       computeVars, boundVars, Maybe, At, Sound, Looked, SetPlan, MirroredPlan, Subscription
  <1> QED BY <1>2, <1>3 DEF TypeInv

\* LinkConflict keeps the types.
LEMMA LinkConflictType ==
    ASSUME TypeInv, NEW w \in Workers, LinkConflict(w)
    PROVE  TypeInv'
  <1>1. inv[w] \in Invocation /\ Sound(inv[w])
    BY DEF TypeInv, InvOK
  <1>2. InvOK'
    BY GotoType, FinishType, <1>1 DEF LinkConflict, TypeInv, Pcs, At, Sound, Looked,
       Deprovisioning
  <1>3. StripeOK' /\ DbOK' /\ RestOK'
    BY <1>1, Fields, FinishType DEF LinkConflict, Page, TypeInv, StripeOK, DbOK, RestOK,
       dbVars, computeVars, boundVars, Maybe, At, Sound, Looked
  <1> QED BY <1>2, <1>3 DEF TypeInv

\* StopRenewal keeps the types.
LEMMA StopRenewalType ==
    ASSUME TypeInv, NEW w \in Workers, StopRenewal(w)
    PROVE  TypeInv'
  <1>1. inv[w] \in Invocation /\ Sound(inv[w])
    BY DEF TypeInv, InvOK
  <1>2. InvOK'
    BY GotoType, <1>1 DEF StopRenewal, TypeInv, Pcs, At, Sound, Looked, Deprovisioning,
       Deprovisioners
  <1>3. StripeOK' /\ DbOK' /\ RestOK'
    <2>1. inv[w].rec \in Subs
      BY <1>1 DEF StopRenewal, At, Sound, Looked
    <2>2. stripe' \in [Subs -> Subscription]
      BY <2>1, SetCancelling DEF StopRenewal, TypeInv, StripeOK
    <2>3. events' \subseteq Event
      BY <2>1, OnType DEF StopRenewal, TypeInv, StripeOK
    <2> QED BY <2>2, <2>3 DEF StopRenewal, TypeInv, StripeOK, DbOK, RestOK, dbVars,
       computeVars, boundVars
  <1> QED BY <1>2, <1>3 DEF TypeInv

\* Resume keeps the types.
LEMMA ResumeType ==
    ASSUME TypeInv, NEW w \in Workers, Resume(w)
    PROVE  TypeInv'
  <1>1. inv[w] \in Invocation /\ Sound(inv[w])
    BY DEF TypeInv, InvOK
  <1>2. InvOK'
    BY GotoType, <1>1 DEF Resume, TypeInv, Pcs, At, Sound, Looked, Deprovisioning
  <1>3. StripeOK' /\ DbOK' /\ RestOK'
    <2>1. inv[w].rec \in Subs
      BY <1>1 DEF Resume, At, Sound, Looked
    <2>2. stripe' \in [Subs -> Subscription]
      BY <2>1, SetCancelling DEF Resume, TypeInv, StripeOK
    <2>3. events' \subseteq Event
      BY <2>1, OnType DEF Resume, TypeInv, StripeOK
    <2> QED BY <2>2, <2>3 DEF Resume, TypeInv, StripeOK, DbOK, RestOK, dbVars, computeVars,
       boundVars
  <1> QED BY <1>2, <1>3 DEF TypeInv

\* ChangeRetrieve keeps the types.
LEMMA ChangeRetrieveType ==
    ASSUME TypeInv, NEW w \in Workers, ChangeRetrieve(w)
    PROVE  TypeInv'
  <1>1. inv[w] \in Invocation /\ Sound(inv[w])
    BY DEF TypeInv, InvOK
  <1>2. InvOK'
    BY GotoType, IdleType, Replace, <1>1 DEF ChangeRetrieve, TypeInv, Pcs, At, Sound, Looked,
       Deprovisioning
  <1>3. StripeOK' /\ DbOK' /\ RestOK'
    BY <1>1, Fields DEF ChangeRetrieve, TypeInv, StripeOK, DbOK, RestOK, dbVars, computeVars,
       boundVars, Maybe, At, Sound, Looked
  <1> QED BY <1>2, <1>3 DEF TypeInv

\* Reprice keeps the types.
LEMMA RepriceType ==
    ASSUME TypeInv, NEW w \in Workers, Reprice(w)
    PROVE  TypeInv'
  <1>1. inv[w] \in Invocation /\ Sound(inv[w])
    BY DEF TypeInv, InvOK
  <1>2. InvOK'
    BY GotoType, IdleType, Replace, <1>1 DEF Reprice, TypeInv, Pcs, At, Sound, Looked,
       Deprovisioning
  <1>3. StripeOK' /\ DbOK' /\ RestOK'
    BY <1>1, Fields, OnType DEF Reprice, TypeInv, StripeOK, DbOK, RestOK, dbVars, computeVars,
       boundVars, Maybe, At, Sound, Looked, Subscription
  <1> QED BY <1>2, <1>3 DEF TypeInv

\* UpdatedRetrieve keeps the types.
LEMMA UpdatedRetrieveType ==
    ASSUME TypeInv, NEW w \in Workers, UpdatedRetrieve(w)
    PROVE  TypeInv'
  <1>1. inv[w] \in Invocation /\ Sound(inv[w])
    BY DEF TypeInv, InvOK
  <1>2. InvOK'
    <2> DEFINE i == [inv[w] EXCEPT !.live = stripe[inv[w].sub],
                                !.pc = IF stripe[inv[w].sub].cancelling /\ inv[w].snap # None
                                         THEN "gate" ELSE "mirror"]
    <2>1. stripe[inv[w].sub] \in Subscription
      BY <1>1 DEF UpdatedRetrieve, At, Sound, TypeInv, StripeOK
    <2>2. i \in Invocation
      BY <1>1, <2>1 DEF Invocation, Pcs
    <2>3. i.pc \in {"gate", "mirror"} /\ i.op = "updated" /\ i.sub \in Subs
      BY <1>1 DEF UpdatedRetrieve, At, Invocation, Sound
    <2>4. Sound(i)
      BY <2>3 DEF Sound, Deprovisioners, Looked, Deprovisioning
    <2>5. inv' = [inv EXCEPT ![w] = i]
      BY DEF UpdatedRetrieve, TypeInv, InvOK
    <2> HIDE DEF i
    <2> QED BY <2>2, <2>4, <2>5, Replace DEF TypeInv
  <1>3. StripeOK' /\ DbOK' /\ RestOK'
    BY <1>1, Fields DEF UpdatedRetrieve, TypeInv, StripeOK, DbOK, RestOK, dbVars, computeVars,
       boundVars, Maybe, At, Sound, Looked
  <1> QED BY <1>2, <1>3 DEF TypeInv

\* LinkRead keeps the types.
LEMMA LinkReadType ==
    ASSUME TypeInv, NEW w \in Workers, LinkRead(w)
    PROVE  TypeInv'
  <1>1. inv[w] \in Invocation /\ Sound(inv[w])
    BY DEF TypeInv, InvOK
  <1>2. InvOK'
    <2>1. /\ inv[w].op = "checkout" /\ inv[w].live.plan \in Maybe(Plans)
          /\ row \in Maybe(Subs)
      BY <1>1, Fields DEF LinkRead, At, Subscription, TypeInv, DbOK
    <2> DEFINE p == inv[w].live.plan
               j == [inv[w] EXCEPT !.pc = "recorded", !.rec = row, !.plan = p]
               k == [inv[w] EXCEPT !.pc = "tx", !.plan = p]
    <2>2. j \in Invocation /\ k \in Invocation
      BY <1>1, <2>1 DEF Invocation, Pcs
    <2>3. /\ j.op = "checkout" /\ j.pc = "recorded" /\ j.rec = row /\ j.sub = inv[w].sub
          /\ k.op = "checkout" /\ k.pc = "tx" /\ k.sub = inv[w].sub
      BY <1>1, <2>1 DEF Invocation
    <2>4. Sound(k) /\ (row # None => Sound(j))
      BY <1>1, <2>1, <2>3 DEF Sound, Deprovisioning, Looked, Maybe
    <2>5. \/ Finish(w)
          \/ row # None /\ inv' = [inv EXCEPT ![w] = j]
          \/ inv' = [inv EXCEPT ![w] = k]
      BY DEF LinkRead, TypeInv, InvOK
    <2> HIDE DEF j, k
    <2> QED BY <2>2, <2>4, <2>5, FinishType, Replace DEF TypeInv
  <1>3. StripeOK' /\ DbOK' /\ RestOK'
    BY <1>1, Fields, FinishType DEF LinkRead, TypeInv, StripeOK, DbOK, RestOK, dbVars,
       computeVars, boundVars, Maybe, At, Sound, Looked, Subscription
  <1> QED BY <1>2, <1>3 DEF TypeInv

\* Create keeps the types.
LEMMA CreateType ==
    ASSUME TypeInv, NEW w \in Workers, Create(w)
    PROVE  TypeInv'
  <1>1. inv[w] \in Invocation /\ Sound(inv[w])
    BY DEF TypeInv, InvOK
  <1>2. InvOK'
    <2>0. inv[w].key \in Nat \ {0} /\ minted \in Seq(Subs)
      BY <1>1, Fields DEF Create, At, Sound, TypeInv, StripeOK
    <2>a. inv[w].key <= Len(minted) => minted[inv[w].key] \in Subs
      BY <2>0
    <2> PICK s \in Subs, pc \in {"confirm", "tx"} :
                inv' = [inv EXCEPT ![w].sub = s, ![w].pc = pc]
      BY <2>0, <2>a DEF Create, AfterCreate
    <2> DEFINE i == [inv[w] EXCEPT !.sub = s, !.pc = pc]
    <2>1. i \in Invocation
      BY <1>1 DEF Invocation, Pcs, Maybe
    <2>2. i.op = "subscribe" /\ i.pc = pc /\ i.plan = inv[w].plan
      BY <1>1 DEF Create, At, Invocation
    <2>3. Sound(i)
      BY <1>1, <2>2 DEF Sound, Create, At, Deprovisioning, Looked
    <2>4. inv' = [inv EXCEPT ![w] = i]
      BY DEF TypeInv, InvOK
    <2> HIDE DEF i
    <2> QED BY <2>1, <2>3, <2>4, Replace DEF TypeInv
  <1>3. StripeOK' /\ DbOK' /\ RestOK'
    <2>1. inv[w].plan \in Plans
      BY <1>1 DEF Create, At, Sound
    <2>2. Fresh(inv[w].plan) \in Subscription
          /\ \A s \in Subs : Created(s, inv[w].plan) \in Event
      BY <2>1 DEF Fresh, Subscription, Created, Event, Maybe
    <2>3. ASSUME UNCHANGED <<stripe, minted, forgotten, events>> PROVE StripeOK'
      BY <2>3 DEF TypeInv, StripeOK
    <2>4. ASSUME NEW s \in Subs, stripe' = [stripe EXCEPT ![s] = Fresh(inv[w].plan)],
                 minted' = Append(minted, s), events' = events \cup {Created(s, inv[w].plan)},
                 forgotten' = forgotten
          PROVE  StripeOK'
      <3>1. stripe' \in [Subs -> Subscription]
        BY <2>2, <2>4 DEF TypeInv, StripeOK
      <3>2. minted' \in Seq(Subs) /\ forgotten' \in 0..Len(minted')
        BY <2>4 DEF TypeInv, StripeOK
      <3>3. events' \subseteq Event
        BY <2>2, <2>4 DEF TypeInv, StripeOK
      <3> QED BY <3>1, <3>2, <3>3 DEF StripeOK
    <2>5. StripeOK'
      BY <2>3, <2>4 DEF Create
    <2> QED BY <2>5 DEF Create, TypeInv, DbOK, RestOK, dbVars, computeVars, boundVars
  <1> QED BY <1>2, <1>3 DEF TypeInv

\* UpdatedUnknown keeps the types.
LEMMA UpdatedUnknownType ==
    ASSUME TypeInv, NEW w \in Workers, NEW e \in events, UpdatedUnknown(w, e)
    PROVE  TypeInv'
  <1>1. inv[w] \in Invocation /\ Sound(inv[w])
    BY DEF TypeInv, InvOK
  <1>2. InvOK'
    BY DEF UpdatedUnknown, Ignore, TypeInv, InvOK
  <1>3. StripeOK' /\ DbOK' /\ RestOK'
    BY EventType DEF UpdatedUnknown, Page, Ignore, TypeInv, StripeOK, DbOK, RestOK, dbVars,
       computeVars, boundVars
  <1> QED BY <1>2, <1>3 DEF TypeInv

\* CreatedUnknown keeps the types.
LEMMA CreatedUnknownType ==
    ASSUME TypeInv, NEW w \in Workers, NEW e \in events, CreatedUnknown(w, e)
    PROVE  TypeInv'
  <1>1. inv[w] \in Invocation /\ Sound(inv[w])
    BY DEF TypeInv, InvOK
  <1>2. InvOK'
    BY DEF CreatedUnknown, Ignore, TypeInv, InvOK
  <1>3. StripeOK' /\ DbOK' /\ RestOK'
    BY EventType DEF CreatedUnknown, Ignore, TypeInv, StripeOK, DbOK, RestOK, dbVars,
       computeVars, boundVars
  <1> QED BY <1>2, <1>3 DEF TypeInv

\* DeletedUnknown keeps the types.
LEMMA DeletedUnknownType ==
    ASSUME TypeInv, NEW w \in Workers, NEW e \in events, DeletedUnknown(w, e)
    PROVE  TypeInv'
  <1>1. inv[w] \in Invocation /\ Sound(inv[w])
    BY DEF TypeInv, InvOK
  <1>2. InvOK'
    BY DEF DeletedUnknown, Ignore, TypeInv, InvOK
  <1>3. StripeOK' /\ DbOK' /\ RestOK'
    BY EventType DEF DeletedUnknown, Ignore, TypeInv, StripeOK, DbOK, RestOK, dbVars,
       computeVars, boundVars
  <1> QED BY <1>2, <1>3 DEF TypeInv

\* LinkInactive keeps the types.
LEMMA LinkInactiveType ==
    ASSUME TypeInv, NEW w \in Workers, NEW e \in events, LinkInactive(w, e)
    PROVE  TypeInv'
  <1>1. inv[w] \in Invocation /\ Sound(inv[w])
    BY DEF TypeInv, InvOK
  <1>2. InvOK'
    BY DEF LinkInactive, Ignore, TypeInv, InvOK
  <1>3. StripeOK' /\ DbOK' /\ RestOK'
    BY EventType DEF LinkInactive, Ignore, TypeInv, StripeOK, DbOK, RestOK, dbVars,
       computeVars, boundVars
  <1> QED BY <1>2, <1>3 DEF TypeInv

\* UpdatedLookup keeps the types.
LEMMA UpdatedLookupType ==
    ASSUME TypeInv, NEW w \in Workers, NEW e \in events, UpdatedLookup(w, e)
    PROVE  TypeInv'
  <1>1. inv[w] \in Invocation /\ Sound(inv[w])
    BY DEF TypeInv, InvOK
  <1>2. InvOK'
    <2> DEFINE i == [[Idle EXCEPT !.pc = "retrieve", !.snap = plan]
                      EXCEPT !.op = e.type, !.ev = e, !.sub = e.sub]
    <2>1. /\ e \in Event /\ e.sub \in Subs /\ e.type \in Ops
          /\ e.type = "created" => e.plan \in Plans
      BY EventType DEF TypeInv, StripeOK
    <2>2. i \in Invocation
      BY <2>1, IdleType DEF Invocation, Pcs, Maybe, UpdatedLookup, TypeInv, DbOK, StripeOK
    <2>3. Sound(i)
      BY <2>1, IdleType DEF Invocation, UpdatedLookup, Sound, Deprovisioning, Deprovisioners,
         Looked, Idle
    <2> HIDE DEF i
    <2>4. Start(w, i)
      BY DEF UpdatedLookup, Receive, i
    <2> QED BY <2>2, <2>3, <2>4, StartType
  <1>3. StripeOK' /\ DbOK' /\ RestOK'
    BY DEF UpdatedLookup, Receive, TypeInv, StripeOK, DbOK, RestOK, dbVars, computeVars,
       boundVars
  <1> QED BY <1>2, <1>3 DEF TypeInv

\* CreatedLookup keeps the types.
LEMMA CreatedLookupType ==
    ASSUME TypeInv, NEW w \in Workers, NEW e \in events, CreatedLookup(w, e)
    PROVE  TypeInv'
  <1>1. inv[w] \in Invocation /\ Sound(inv[w])
    BY DEF TypeInv, InvOK
  <1>2. InvOK'
    <2> DEFINE i == [[Idle EXCEPT !.pc = "mirror", !.snap = plan, !.live = Fresh(e.plan)]
                      EXCEPT !.op = e.type, !.ev = e, !.sub = e.sub]
    <2>1. /\ e \in Event /\ e.sub \in Subs /\ e.type \in Ops
          /\ e.type = "created" => e.plan \in Plans
      BY EventType DEF TypeInv, StripeOK
    <2>2. i \in Invocation
      BY <2>1, IdleType DEF Invocation, Pcs, Maybe, CreatedLookup, TypeInv, DbOK, StripeOK,
         Fresh, Subscription
    <2>3. Sound(i)
      BY <2>1, IdleType DEF Invocation, CreatedLookup, Sound, Deprovisioning, Deprovisioners,
         Looked, Idle
    <2> HIDE DEF i
    <2>4. Start(w, i)
      BY DEF CreatedLookup, Receive, i
    <2> QED BY <2>2, <2>3, <2>4, StartType
  <1>3. StripeOK' /\ DbOK' /\ RestOK'
    BY DEF CreatedLookup, Receive, TypeInv, StripeOK, DbOK, RestOK, dbVars, computeVars,
       boundVars
  <1> QED BY <1>2, <1>3 DEF TypeInv

\* DeletedLookup keeps the types.
LEMMA DeletedLookupType ==
    ASSUME TypeInv, NEW w \in Workers, NEW e \in events, DeletedLookup(w, e)
    PROVE  TypeInv'
  <1>1. inv[w] \in Invocation /\ Sound(inv[w])
    BY DEF TypeInv, InvOK
  <1>2. InvOK'
    <2> DEFINE i == [[Idle EXCEPT !.snap = plan, !.pc = IF plan # None THEN "gate" ELSE "end"]
                      EXCEPT !.op = e.type, !.ev = e, !.sub = e.sub]
    <2>1. /\ e \in Event /\ e.sub \in Subs /\ e.type \in Ops
          /\ e.type = "created" => e.plan \in Plans
      BY EventType DEF TypeInv, StripeOK
    <2>2. i \in Invocation
      BY <2>1, IdleType DEF Invocation, Pcs, Maybe, DeletedLookup, TypeInv, DbOK, StripeOK
    <2>3. Sound(i)
      BY <2>1, IdleType DEF Invocation, DeletedLookup, Sound, Deprovisioning, Deprovisioners,
         Looked, Idle
    <2> HIDE DEF i
    <2>4. Start(w, i)
      BY DEF DeletedLookup, Receive, i
    <2> QED BY <2>2, <2>3, <2>4, StartType
  <1>3. StripeOK' /\ DbOK' /\ RestOK'
    BY DEF DeletedLookup, Receive, TypeInv, StripeOK, DbOK, RestOK, dbVars, computeVars,
       boundVars
  <1> QED BY <1>2, <1>3 DEF TypeInv

\* LinkRetrieve keeps the types.
LEMMA LinkRetrieveType ==
    ASSUME TypeInv, NEW w \in Workers, NEW e \in events, LinkRetrieve(w, e)
    PROVE  TypeInv'
  <1>1. inv[w] \in Invocation /\ Sound(inv[w])
    BY DEF TypeInv, InvOK
  <1>2. InvOK'
    <2> DEFINE i == [[Idle EXCEPT !.pc = "read", !.live = stripe[e.sub]]
                      EXCEPT !.op = e.type, !.ev = e, !.sub = e.sub]
    <2>1. /\ e \in Event /\ e.sub \in Subs /\ e.type \in Ops
          /\ e.type = "created" => e.plan \in Plans
      BY EventType DEF TypeInv, StripeOK
    <2>2. i \in Invocation
      BY <2>1, IdleType DEF Invocation, Pcs, Maybe, LinkRetrieve, TypeInv, DbOK, StripeOK,
         Subscription
    <2>3. Sound(i)
      BY <2>1, IdleType DEF Invocation, LinkRetrieve, Sound, Deprovisioning, Deprovisioners,
         Looked, Idle
    <2> HIDE DEF i
    <2>4. Start(w, i)
      BY DEF LinkRetrieve, Receive, i
    <2> QED BY <2>2, <2>3, <2>4, StartType
  <1>3. StripeOK' /\ DbOK' /\ RestOK'
    BY DEF LinkRetrieve, Receive, TypeInv, StripeOK, DbOK, RestOK, dbVars, computeVars,
       boundVars
  <1> QED BY <1>2, <1>3 DEF TypeInv

\* Subscribe keeps the types.
LEMMA SubscribeType ==
    ASSUME TypeInv, NEW w \in Workers, NEW p \in Plans, Subscribe(w, p)
    PROVE  TypeInv'
  <1>1. inv[w] \in Invocation /\ Sound(inv[w])
    BY DEF TypeInv, InvOK
  <1>2. InvOK'
    <2> DEFINE i == [Idle EXCEPT !.op = "subscribe", !.pc = "claim", !.plan = p, !.rec = row]
    <2>1. i \in Invocation
      BY IdleType DEF Invocation, Pcs, Ops, Maybe, TypeInv, DbOK, StripeOK
    <2>2. Sound(i)
      BY IdleType DEF Invocation, Subscribe, Sound, Deprovisioning, Deprovisioners, Looked,
         Idle, TypeInv, DbOK, Maybe
    <2> HIDE DEF i
    <2>3. Start(w, i)
      BY DEF Subscribe, Request, i
    <2> QED BY <2>1, <2>2, <2>3, StartType
  <1>3. StripeOK' /\ DbOK' /\ RestOK'
    BY BoundAssumption DEF Subscribe, Request, TypeInv, StripeOK, DbOK, RestOK, dbVars,
       computeVars, boundVars
  <1> QED BY <1>2, <1>3 DEF TypeInv

\* Change keeps the types.
LEMMA ChangeType ==
    ASSUME TypeInv, NEW w \in Workers, NEW p \in Plans, Change(w, p)
    PROVE  TypeInv'
  <1>1. inv[w] \in Invocation /\ Sound(inv[w])
    BY DEF TypeInv, InvOK
  <1>2. InvOK'
    <2> DEFINE i == [Idle EXCEPT !.op = "change", !.pc = "retrieve", !.plan = p, !.rec = row]
    <2>1. i \in Invocation
      BY IdleType DEF Invocation, Pcs, Ops, Maybe, TypeInv, DbOK, StripeOK
    <2>2. Sound(i)
      BY IdleType DEF Invocation, Change, Sound, Deprovisioning, Deprovisioners, Looked, Idle,
         TypeInv, DbOK, Maybe
    <2> HIDE DEF i
    <2>3. Start(w, i)
      BY DEF Change, Request, i
    <2> QED BY <2>1, <2>2, <2>3, StartType
  <1>3. StripeOK' /\ DbOK' /\ RestOK'
    BY BoundAssumption DEF Change, Request, TypeInv, StripeOK, DbOK, RestOK, dbVars,
       computeVars, boundVars
  <1> QED BY <1>2, <1>3 DEF TypeInv

\* LinkFromSuccess keeps the types.
LEMMA LinkFromSuccessType ==
    ASSUME TypeInv, NEW w \in Workers, NEW s \in Subs, LinkFromSuccess(w, s)
    PROVE  TypeInv'
  <1>1. inv[w] \in Invocation /\ Sound(inv[w])
    BY DEF TypeInv, InvOK
  <1>2. InvOK'
    <2> DEFINE i == [Idle EXCEPT !.op = "checkout", !.pc = "read", !.sub = s,
                                 !.live = stripe[s]]
    <2>1. i \in Invocation
      BY IdleType DEF Invocation, Pcs, Ops, Maybe, TypeInv, DbOK, StripeOK
    <2>2. Sound(i)
      BY IdleType DEF Invocation, LinkFromSuccess, Sound, Deprovisioning, Deprovisioners,
         Looked, Idle, TypeInv, DbOK, Maybe
    <2> HIDE DEF i
    <2>3. Start(w, i)
      BY DEF LinkFromSuccess, Request, i
    <2> QED BY <2>1, <2>2, <2>3, StartType
  <1>3. StripeOK' /\ DbOK' /\ RestOK'
    BY BoundAssumption DEF LinkFromSuccess, Request, TypeInv, StripeOK, DbOK, RestOK, dbVars,
       computeVars, boundVars
  <1> QED BY <1>2, <1>3 DEF TypeInv

\* Cancel keeps the types.
LEMMA CancelType ==
    ASSUME TypeInv, NEW w \in Workers, Cancel(w)
    PROVE  TypeInv'
  <1>1. inv[w] \in Invocation /\ Sound(inv[w])
    BY DEF TypeInv, InvOK
  <1>2. InvOK'
    <2> DEFINE pc == IF row = None THEN "gate" ELSE "stop"
               i == [Idle EXCEPT !.op = "cancel", !.rec = row, !.pc = pc]
    <2>1. i \in Invocation
      <3>1. pc \in Pcs /\ "cancel" \in Ops /\ row \in Maybe(Subs)
        BY DEF Pcs, Ops, TypeInv, DbOK
      <3> HIDE DEF pc
      <3> QED BY <3>1, IdleType DEF Invocation
    <2>2. Sound(i)
      BY IdleType DEF Invocation, Cancel, Sound, Deprovisioning, Deprovisioners, Looked, Idle,
         TypeInv, DbOK, Maybe
    <2> HIDE DEF i
    <2>3. Start(w, i)
      BY DEF Cancel, Request, i
    <2> QED BY <2>1, <2>2, <2>3, StartType
  <1>3. StripeOK' /\ DbOK' /\ RestOK'
    BY BoundAssumption DEF Cancel, Request, TypeInv, StripeOK, DbOK, RestOK, dbVars,
       computeVars, boundVars
  <1> QED BY <1>2, <1>3 DEF TypeInv

\* Fail keeps the types.
LEMMA FailType ==
    ASSUME TypeInv, NEW w \in Workers, Fail(w)
    PROVE  TypeInv'
  <1>1. inv[w] \in Invocation /\ Sound(inv[w])
    BY DEF TypeInv, InvOK
  <1>2. InvOK'
    <2>1. CASE Goto(w, "release")
      BY <2>1, GotoType DEF TypeInv, Pcs, Deprovisioning, Looked
    <2>2. CASE inv' = [inv EXCEPT ![w] = Idle]
      BY <2>2, IdleType, Replace DEF TypeInv
    <2> QED BY <2>1, <2>2 DEF Fail
  <1>3. StripeOK' /\ DbOK' /\ RestOK'
    BY <1>1, Fields, BoundAssumption DEF Fail, TypeInv, StripeOK, DbOK, RestOK, dbVars,
       computeVars, Maybe
  <1> QED BY <1>2, <1>3 DEF TypeInv

\* A write that commits without an answer keeps the types.
LEMMA LoseType ==
    ASSUME TypeInv, NEW w \in Workers, Lose(w)
    PROVE  TypeInv'
  <1>1. inv[w] \in Invocation /\ Sound(inv[w]) /\ inv[w].op = "subscribe"
    BY DEF TypeInv, InvOK, Lose, ClaimLost, SubscribeTxLost, At
  <1>2. InvOK'
    <2>1. CASE Goto(w, "release")
      BY <2>1, GotoType DEF TypeInv, Pcs, Deprovisioning, Looked
    <2>2. CASE inv' = [inv EXCEPT ![w] = Idle]
      BY <2>2, IdleType, Replace DEF TypeInv
    <2> QED BY <2>1, <2>2 DEF Lose, ClaimLost, SubscribeTxLost
  <1>3. inv[w].plan \in Plans /\ inv[w].sub \in Maybe(Subs)
    BY <1>1, Fields DEF Sound
  <1>4. StripeOK' /\ DbOK'
    BY <1>3 DEF Lose, ClaimLost, SubscribeTxLost, SetPlan, TypeInv, StripeOK, DbOK, Maybe
  <1>5. RestOK'
    BY BoundAssumption DEF Lose, ClaimLost, SubscribeTxLost, TypeInv, RestOK, computeVars
  <1> QED BY <1>2, <1>4, <1>5 DEF TypeInv

\* KeysExpire keeps the types.
LEMMA KeysExpireType ==
    ASSUME TypeInv, KeysExpire
    PROVE  TypeInv'
  <1>1. InvOK' /\ DbOK' /\ RestOK'
    BY DEF KeysExpire, TypeInv, InvOK, DbOK, RestOK, dbVars, computeVars, boundVars
  <1>2. Len(minted) \in Nat
    BY DEF TypeInv, StripeOK
  <1>3. StripeOK'
    BY <1>2 DEF KeysExpire, TypeInv, StripeOK
  <1> QED BY <1>1, <1>3 DEF TypeInv

\* Teardown keeps the types.
LEMMA TeardownType ==
    ASSUME TypeInv, Teardown
    PROVE  TypeInv'
  <1>1. InvOK'
    BY DEF Teardown, TypeInv, InvOK
  <1>2. stripe' \in [Subs -> Subscription]
    BY SetCancelling DEF Teardown, TypeInv, StripeOK
  <1>3. events' \subseteq Event
    BY OnType DEF Teardown, TypeInv, StripeOK, Created, Event
  <1>4. minted' \in Seq(Subs) /\ forgotten' \in 0..Len(minted') /\ DbOK' /\ RestOK'
    BY BoundAssumption DEF Teardown, TypeInv, StripeOK, DbOK, RestOK, dbVars, computeVars,
       boundVars
  <1> QED BY <1>1, <1>2, <1>3, <1>4 DEF TypeInv, StripeOK

\* Deploy keeps the types.
LEMMA DeployType ==
    ASSUME TypeInv, Deploy
    PROVE  TypeInv'
  <1>1. InvOK'
    BY DEF Deploy, TypeInv, InvOK
  <1>2. stripe' \in [Subs -> Subscription]
    BY SetCancelling DEF Deploy, TypeInv, StripeOK
  <1>3. events' \subseteq Event
    BY OnType DEF Deploy, TypeInv, StripeOK, Created, Event
  <1>4. minted' \in Seq(Subs) /\ forgotten' \in 0..Len(minted') /\ DbOK' /\ RestOK'
    BY BoundAssumption DEF Deploy, TypeInv, StripeOK, DbOK, RestOK, dbVars, computeVars,
       boundVars
  <1> QED BY <1>1, <1>2, <1>3, <1>4 DEF TypeInv, StripeOK

\* CheckoutPaid keeps the types.
LEMMA CheckoutPaidType ==
    ASSUME TypeInv, NEW s \in Subs, NEW p \in Plans, CheckoutPaid(s, p)
    PROVE  TypeInv'
  <1>1. InvOK'
    BY DEF CheckoutPaid, TypeInv, InvOK
  <1>2. stripe' \in [Subs -> Subscription]
    BY FreshType DEF CheckoutPaid, TypeInv, StripeOK
  <1>3. events' \subseteq Event
    BY OnType DEF CheckoutPaid, TypeInv, StripeOK, Created, Event
  <1>4. minted' \in Seq(Subs) /\ forgotten' \in 0..Len(minted') /\ DbOK' /\ RestOK'
    BY BoundAssumption DEF CheckoutPaid, TypeInv, StripeOK, DbOK, RestOK, dbVars, computeVars,
       boundVars
  <1> QED BY <1>1, <1>2, <1>3, <1>4 DEF TypeInv, StripeOK

\* PortalCancel keeps the types.
LEMMA PortalCancelType ==
    ASSUME TypeInv, NEW s \in Subs, PortalCancel(s)
    PROVE  TypeInv'
  <1>1. InvOK'
    BY DEF PortalCancel, TypeInv, InvOK
  <1>2. stripe' \in [Subs -> Subscription]
    BY SetCancelling, StripeFields DEF PortalCancel, TypeInv, StripeOK
  <1>3. events' \subseteq Event
    BY OnType DEF PortalCancel, TypeInv, StripeOK, Created, Event
  <1>4. minted' \in Seq(Subs) /\ forgotten' \in 0..Len(minted') /\ DbOK' /\ RestOK'
    BY BoundAssumption DEF PortalCancel, TypeInv, StripeOK, DbOK, RestOK, dbVars, computeVars,
       boundVars
  <1> QED BY <1>1, <1>2, <1>3, <1>4 DEF TypeInv, StripeOK

\* PeriodEnd keeps the types.
LEMMA PeriodEndType ==
    ASSUME TypeInv, NEW s \in Subs, PeriodEnd(s)
    PROVE  TypeInv'
  <1>1. InvOK'
    BY DEF PeriodEnd, TypeInv, InvOK
  <1>2. stripe' \in [Subs -> Subscription]
    BY SetCanceled DEF PeriodEnd, TypeInv, StripeOK
  <1>3. events' \subseteq Event
    BY OnType DEF PeriodEnd, TypeInv, StripeOK, Created, Event
  <1>4. minted' \in Seq(Subs) /\ forgotten' \in 0..Len(minted') /\ DbOK' /\ RestOK'
    BY BoundAssumption DEF PeriodEnd, TypeInv, StripeOK, DbOK, RestOK, dbVars, computeVars,
       boundVars
  <1> QED BY <1>1, <1>2, <1>3, <1>4 DEF TypeInv, StripeOK

\* The initial states are well-formed.
LEMMA InitType == Init => TypeInv
  <1> SUFFICES ASSUME Init PROVE TypeInv
    OBVIOUS
  <1>1. InvOK
    BY IdleType DEF Init, InvOK
  <1>2. StripeOK
    BY DEF Init, StripeOK, Unused, Subscription, Maybe
  <1>3. DbOK
    BY DEF Init, DbOK, Maybe
  <1>4. MaxRequests \in Nat /\ MaxFailures \in Nat /\ MaxRedeliveries \in Nat
    BY BoundAssumption
  <1>5. running \in BOOLEAN /\ teardown \in BOOLEAN
    BY DEF Init
  <1>6. RestOK
    BY <1>4, <1>5 DEF Init, RestOK
  <1> QED BY <1>1, <1>2, <1>3, <1>6 DEF TypeInv

----------------------------------------------------------------------------
(* The chain of idempotency keys: everything created under a key Stripe    *)
(* remembers is canceled but the last, and an invocation that is about to  *)
(* create under the k-th key has seen, or knows, the ones before it        *)
(* canceled.                                                               *)
Canceled(s) == stripe[s].status = "canceled"
Exists(s) == stripe[s].status # "none"
Minting == {"create", "confirm"}
EarlierCanceled(k) ==
    \A i \in 1..Len(minted) : forgotten < i /\ i < k => Canceled(minted[i])

AllExist == \A i \in 1..Len(minted) : Exists(minted[i])
CreateOK(w) == inv[w].pc = "create" =>
    inv[w].key <= Len(minted) + 1 /\ EarlierCanceled(inv[w].key)
ConfirmOK(w) == inv[w].pc = "confirm" =>
    /\ inv[w].key \in 1..Len(minted) /\ inv[w].sub = minted[inv[w].key]
    /\ EarlierCanceled(inv[w].key)

ChainInv ==
    /\ AllExist
    /\ EarlierCanceled(Len(minted))
    /\ \A w \in Workers : CreateOK(w) /\ ConfirmOK(w)

\* A canceled subscription stays canceled, and no id is given back.
CanceledStays ==
    \A s \in Subs : (Canceled(s) => Canceled(s)') /\ (Exists(s) => Exists(s)')
\* Nobody gets to create or confirm.
Settled == \A v \in Workers : inv'[v].pc \in Minting => inv'[v] = inv[v]

\* A step that creates nothing and moves nobody into create or confirm keeps the chain.
LEMMA SteadyChain ==
    ASSUME TypeInv, ChainInv, CanceledStays, UNCHANGED <<minted, forgotten>>, Settled
    PROVE  ChainInv'
  <1>1. \A k : EarlierCanceled(k) => EarlierCanceled(k)'
    BY DEF EarlierCanceled, CanceledStays, TypeInv, StripeOK
  <1>2. EarlierCanceled(Len(minted))'
    BY <1>1 DEF ChainInv, EarlierCanceled
  <1>3. AllExist'
    BY DEF ChainInv, AllExist, CanceledStays, TypeInv, StripeOK
  <1>4. ASSUME NEW v \in Workers, inv'[v].pc \in Minting
        PROVE  /\ inv'[v] = inv[v]
               /\ EarlierCanceled(inv[v].key) => EarlierCanceled(inv[v].key)'
    BY <1>1, <1>4 DEF Settled, EarlierCanceled
  <1>5. ASSUME NEW v \in Workers PROVE CreateOK(v)' /\ ConfirmOK(v)'
    BY <1>4 DEF ChainInv, CreateOK, ConfirmOK, Minting
  <1> QED BY <1>2, <1>3, <1>5 DEF ChainInv

\* A worker that goes elsewhere than create or confirm: by Goto,
LEMMA GotoSettles ==
    ASSUME InvOK, NEW w \in Workers, NEW pc, pc \notin Minting, Goto(w, pc)
    PROVE  Settled
  BY DEF InvOK, Settled, Goto, Invocation

\* by giving up,
LEMMA IdleSettles ==
    ASSUME InvOK, NEW w \in Workers, inv' = [inv EXCEPT ![w] = Idle]
    PROVE  Settled
  BY DEF InvOK, Settled, Idle, Minting

\* or by answering.
LEMMA FinishSettles ==
    ASSUME InvOK, NEW w \in Workers, Finish(w)
    PROVE  Settled
  BY DEF InvOK, Settled, Finish, Idle, Minting

\* Mirror keeps the chain.
LEMMA MirrorChain ==
    ASSUME TypeInv, ChainInv, NEW w \in Workers, Mirror(w)
    PROVE  ChainInv'
  <1>1. InvOK
    BY DEF TypeInv
  <1>2. Settled
    BY <1>1, FinishSettles DEF Mirror
  <1>3. CanceledStays /\ UNCHANGED <<minted, forgotten>>
    BY DEF Mirror, CanceledStays, Canceled, Exists, dbVars, computeVars, boundVars
  <1> QED BY <1>2, <1>3, SteadyChain

\* DeletedEnd keeps the chain.
LEMMA DeletedEndChain ==
    ASSUME TypeInv, ChainInv, NEW w \in Workers, DeletedEnd(w)
    PROVE  ChainInv'
  <1>1. InvOK
    BY DEF TypeInv
  <1>2. Settled
    BY <1>1, FinishSettles DEF DeletedEnd
  <1>3. CanceledStays /\ UNCHANGED <<minted, forgotten>>
    BY DEF DeletedEnd, CanceledStays, Canceled, Exists, dbVars, computeVars, boundVars
  <1> QED BY <1>2, <1>3, SteadyChain

\* LinkTx keeps the chain.
LEMMA LinkTxChain ==
    ASSUME TypeInv, ChainInv, NEW w \in Workers, LinkTx(w)
    PROVE  ChainInv'
  <1>1. InvOK
    BY DEF TypeInv
  <1>2. Settled
    BY <1>1, FinishSettles DEF LinkTx
  <1>3. CanceledStays /\ UNCHANGED <<minted, forgotten>>
    BY DEF LinkTx, CanceledStays, Canceled, Exists, dbVars, computeVars, boundVars
  <1> QED BY <1>2, <1>3, SteadyChain

\* SubscribeTx keeps the chain.
LEMMA SubscribeTxChain ==
    ASSUME TypeInv, ChainInv, NEW w \in Workers, SubscribeTx(w)
    PROVE  ChainInv'
  <1>1. InvOK
    BY DEF TypeInv
  <1>2. Settled
    BY <1>1, FinishSettles DEF SubscribeTx
  <1>3. CanceledStays /\ UNCHANGED <<minted, forgotten>>
    BY DEF SubscribeTx, CanceledStays, Canceled, Exists, dbVars, computeVars, boundVars
  <1> QED BY <1>2, <1>3, SteadyChain

\* CancelLimits keeps the chain.
LEMMA CancelLimitsChain ==
    ASSUME TypeInv, ChainInv, NEW w \in Workers, CancelLimits(w)
    PROVE  ChainInv'
  <1>1. InvOK
    BY DEF TypeInv
  <1>2. Settled
    BY <1>1, FinishSettles DEF CancelLimits
  <1>3. CanceledStays /\ UNCHANGED <<minted, forgotten>>
    BY DEF CancelLimits, CanceledStays, Canceled, Exists, dbVars, computeVars, boundVars
  <1> QED BY <1>2, <1>3, SteadyChain

\* ChangeTx keeps the chain.
LEMMA ChangeTxChain ==
    ASSUME TypeInv, ChainInv, NEW w \in Workers, ChangeTx(w)
    PROVE  ChainInv'
  <1>1. InvOK
    BY DEF TypeInv
  <1>2. Settled
    BY <1>1, FinishSettles DEF ChangeTx
  <1>3. CanceledStays /\ UNCHANGED <<minted, forgotten>>
    BY DEF ChangeTx, CanceledStays, Canceled, Exists, dbVars, computeVars, boundVars
  <1> QED BY <1>2, <1>3, SteadyChain

\* Release keeps the chain.
LEMMA ReleaseChain ==
    ASSUME TypeInv, ChainInv, NEW w \in Workers, Release(w)
    PROVE  ChainInv'
  <1>1. InvOK
    BY DEF TypeInv
  <1>2. Settled
    BY <1>1, FinishSettles DEF Release
  <1>3. CanceledStays /\ UNCHANGED <<minted, forgotten>>
    BY DEF Release, CanceledStays, Canceled, Exists, dbVars, computeVars, boundVars
  <1> QED BY <1>2, <1>3, SteadyChain

\* Decline keeps the chain.
LEMMA DeclineChain ==
    ASSUME TypeInv, ChainInv, NEW w \in Workers, Decline(w)
    PROVE  ChainInv'
  <1>1. InvOK
    BY DEF TypeInv
  <1>2. Settled
    BY <1>1, GotoSettles DEF Decline, Minting
  <1>3. CanceledStays /\ UNCHANGED <<minted, forgotten>>
    BY DEF Decline, CanceledStays, Canceled, Exists, dbVars, computeVars, boundVars
  <1> QED BY <1>2, <1>3, SteadyChain

\* DispatchTeardown keeps the chain.
LEMMA DispatchTeardownChain ==
    ASSUME TypeInv, ChainInv, NEW w \in Workers, DispatchTeardown(w)
    PROVE  ChainInv'
  <1>1. InvOK
    BY DEF TypeInv
  <1>2. Settled
    BY <1>1, GotoSettles DEF DispatchTeardown, Minting
  <1>3. CanceledStays /\ UNCHANGED <<minted, forgotten>>
    BY DEF DispatchTeardown, CanceledStays, Canceled, Exists, dbVars, computeVars, boundVars
  <1> QED BY <1>2, <1>3, SteadyChain

\* EndEnforcement keeps the chain.
LEMMA EndEnforcementChain ==
    ASSUME TypeInv, ChainInv, NEW w \in Workers, EndEnforcement(w)
    PROVE  ChainInv'
  <1>1. InvOK
    BY DEF TypeInv
  <1>2. Settled
    BY <1>1, GotoSettles DEF EndEnforcement, Minting
  <1>3. CanceledStays /\ UNCHANGED <<minted, forgotten>>
    BY DEF EndEnforcement, CanceledStays, Canceled, Exists, dbVars, computeVars, boundVars
  <1> QED BY <1>2, <1>3, SteadyChain

\* DeprovisionGate keeps the chain.
LEMMA DeprovisionGateChain ==
    ASSUME TypeInv, ChainInv, NEW w \in Workers, DeprovisionGate(w)
    PROVE  ChainInv'
  <1>1. InvOK
    BY DEF TypeInv
  <1>2. Settled
    <2>1. inv[w].op \in Deprovisioners
      BY <1>1 DEF DeprovisionGate, InvOK, Sound, Deprovisioning
    <2> QED BY <1>1, <2>1, GotoSettles DEF DeprovisionGate, Minting, AfterDeprovision,
       Deprovisioners
  <1>3. CanceledStays /\ UNCHANGED <<minted, forgotten>>
    BY DEF DeprovisionGate, CanceledStays, Canceled, Exists, dbVars, computeVars, boundVars
  <1> QED BY <1>2, <1>3, SteadyChain

\* ClearWorkspaceDeployPlan keeps the chain.
LEMMA ClearWorkspaceDeployPlanChain ==
    ASSUME TypeInv, ChainInv, NEW w \in Workers, ClearWorkspaceDeployPlan(w)
    PROVE  ChainInv'
  <1>1. InvOK
    BY DEF TypeInv
  <1>2. Settled
    <2>1. inv[w].op \in Deprovisioners
      BY <1>1 DEF ClearWorkspaceDeployPlan, InvOK, Sound, Deprovisioning
    <2> QED BY <1>1, <2>1, GotoSettles DEF ClearWorkspaceDeployPlan, Minting,
       AfterDeprovision, Deprovisioners
  <1>3. CanceledStays /\ UNCHANGED <<minted, forgotten>>
    BY DEF ClearWorkspaceDeployPlan, CanceledStays, Canceled, Exists, dbVars, computeVars,
       boundVars
  <1> QED BY <1>2, <1>3, SteadyChain

\* UpdatedRetrieve keeps the chain.
LEMMA UpdatedRetrieveChain ==
    ASSUME TypeInv, ChainInv, NEW w \in Workers, UpdatedRetrieve(w)
    PROVE  ChainInv'
  <1>1. InvOK
    BY DEF TypeInv
  <1>2. Settled
    BY <1>1 DEF UpdatedRetrieve, InvOK, Settled, Minting, Invocation
  <1>3. CanceledStays /\ UNCHANGED <<minted, forgotten>>
    BY DEF UpdatedRetrieve, CanceledStays, Canceled, Exists, dbVars, computeVars, boundVars
  <1> QED BY <1>2, <1>3, SteadyChain

\* LinkRead keeps the chain.
LEMMA LinkReadChain ==
    ASSUME TypeInv, ChainInv, NEW w \in Workers, LinkRead(w)
    PROVE  ChainInv'
  <1>1. InvOK
    BY DEF TypeInv
  <1>2. Settled
    <2>1. CASE Finish(w)
      BY <1>1, <2>1, FinishSettles
    <2>2. CASE ~Finish(w)
      BY <1>1, <2>2 DEF LinkRead, InvOK, Settled, Minting, Invocation
    <2> QED BY <2>1, <2>2
  <1>3. CanceledStays /\ UNCHANGED <<minted, forgotten>>
    BY DEF LinkRead, CanceledStays, Canceled, Exists, dbVars, computeVars, boundVars
  <1> QED BY <1>2, <1>3, SteadyChain

\* LinkConflict keeps the chain.
LEMMA LinkConflictChain ==
    ASSUME TypeInv, ChainInv, NEW w \in Workers, LinkConflict(w)
    PROVE  ChainInv'
  <1>1. InvOK
    BY DEF TypeInv
  <1>2. Settled
    BY <1>1, FinishSettles, GotoSettles DEF LinkConflict, Minting
  <1>3. CanceledStays /\ UNCHANGED <<minted, forgotten>>
    BY DEF LinkConflict, CanceledStays, Canceled, Exists, dbVars, computeVars, boundVars
  <1> QED BY <1>2, <1>3, SteadyChain

\* Resume keeps the chain.
LEMMA ResumeChain ==
    ASSUME TypeInv, ChainInv, NEW w \in Workers, Resume(w)
    PROVE  ChainInv'
  <1>1. InvOK
    BY DEF TypeInv
  <1>2. Settled
    BY <1>1, GotoSettles DEF Resume, Minting
  <1>3. CanceledStays /\ UNCHANGED <<minted, forgotten>>
    BY DEF Resume, CanceledStays, Canceled, Exists, Live, Renewing, TypeInv, StripeOK,
       Subscription
  <1> QED BY <1>2, <1>3, SteadyChain

\* StopRenewal keeps the chain.
LEMMA StopRenewalChain ==
    ASSUME TypeInv, ChainInv, NEW w \in Workers, StopRenewal(w)
    PROVE  ChainInv'
  <1>1. InvOK
    BY DEF TypeInv
  <1>2. Settled
    BY <1>1, GotoSettles DEF StopRenewal, Minting
  <1>3. CanceledStays /\ UNCHANGED <<minted, forgotten>>
    BY DEF StopRenewal, CanceledStays, Canceled, Exists, Live, Renewing, TypeInv, StripeOK,
       Subscription
  <1> QED BY <1>2, <1>3, SteadyChain

\* ChangeRetrieve keeps the chain.
LEMMA ChangeRetrieveChain ==
    ASSUME TypeInv, ChainInv, NEW w \in Workers, ChangeRetrieve(w)
    PROVE  ChainInv'
  <1>1. InvOK
    BY DEF TypeInv
  <1>2. Settled
    BY <1>1, GotoSettles, IdleSettles DEF ChangeRetrieve, Minting
  <1>3. CanceledStays /\ UNCHANGED <<minted, forgotten>>
    BY DEF ChangeRetrieve, CanceledStays, Canceled, Exists, dbVars, computeVars, boundVars
  <1> QED BY <1>2, <1>3, SteadyChain

\* Reprice keeps the chain.
LEMMA RepriceChain ==
    ASSUME TypeInv, ChainInv, NEW w \in Workers, Reprice(w)
    PROVE  ChainInv'
  <1>1. InvOK
    BY DEF TypeInv
  <1>2. Settled
    BY <1>1, GotoSettles, IdleSettles DEF Reprice, Minting
  <1>3. CanceledStays /\ UNCHANGED <<minted, forgotten>>
    BY DEF Reprice, CanceledStays, Canceled, Exists, Live, Renewing, TypeInv, StripeOK,
       Subscription
  <1> QED BY <1>2, <1>3, SteadyChain

\* Fail keeps the chain.
LEMMA FailChain ==
    ASSUME TypeInv, ChainInv, NEW w \in Workers, Fail(w)
    PROVE  ChainInv'
  <1>1. InvOK
    BY DEF TypeInv
  <1>2. Settled
    BY <1>1, GotoSettles, IdleSettles DEF Fail, Minting
  <1>3. CanceledStays /\ UNCHANGED <<minted, forgotten>>
    BY DEF Fail, CanceledStays, Canceled, Exists, dbVars, computeVars, boundVars
  <1> QED BY <1>2, <1>3, SteadyChain

\* UpdatedUnknown keeps the chain.
LEMMA UpdatedUnknownChain ==
    ASSUME TypeInv, ChainInv, NEW w \in Workers, NEW e \in events, UpdatedUnknown(w, e)
    PROVE  ChainInv'
  <1>1. InvOK
    BY DEF TypeInv
  <1>2. Settled
    BY DEF UpdatedUnknown, Ignore, Settled
  <1>3. CanceledStays /\ UNCHANGED <<minted, forgotten>>
    BY DEF UpdatedUnknown, CanceledStays, Canceled, Exists, dbVars, computeVars, boundVars
  <1> QED BY <1>2, <1>3, SteadyChain

\* CreatedUnknown keeps the chain.
LEMMA CreatedUnknownChain ==
    ASSUME TypeInv, ChainInv, NEW w \in Workers, NEW e \in events, CreatedUnknown(w, e)
    PROVE  ChainInv'
  <1>1. InvOK
    BY DEF TypeInv
  <1>2. Settled
    BY DEF CreatedUnknown, Ignore, Settled
  <1>3. CanceledStays /\ UNCHANGED <<minted, forgotten>>
    BY DEF CreatedUnknown, CanceledStays, Canceled, Exists, dbVars, computeVars, boundVars
  <1> QED BY <1>2, <1>3, SteadyChain

\* DeletedUnknown keeps the chain.
LEMMA DeletedUnknownChain ==
    ASSUME TypeInv, ChainInv, NEW w \in Workers, NEW e \in events, DeletedUnknown(w, e)
    PROVE  ChainInv'
  <1>1. InvOK
    BY DEF TypeInv
  <1>2. Settled
    BY DEF DeletedUnknown, Ignore, Settled
  <1>3. CanceledStays /\ UNCHANGED <<minted, forgotten>>
    BY DEF DeletedUnknown, CanceledStays, Canceled, Exists, dbVars, computeVars, boundVars
  <1> QED BY <1>2, <1>3, SteadyChain

\* LinkInactive keeps the chain.
LEMMA LinkInactiveChain ==
    ASSUME TypeInv, ChainInv, NEW w \in Workers, NEW e \in events, LinkInactive(w, e)
    PROVE  ChainInv'
  <1>1. InvOK
    BY DEF TypeInv
  <1>2. Settled
    BY DEF LinkInactive, Ignore, Settled
  <1>3. CanceledStays /\ UNCHANGED <<minted, forgotten>>
    BY DEF LinkInactive, CanceledStays, Canceled, Exists, dbVars, computeVars, boundVars
  <1> QED BY <1>2, <1>3, SteadyChain

\* UpdatedLookup keeps the chain.
LEMMA UpdatedLookupChain ==
    ASSUME TypeInv, ChainInv, NEW w \in Workers, NEW e \in events, UpdatedLookup(w, e)
    PROVE  ChainInv'
  <1>1. InvOK
    BY DEF TypeInv
  <1>2. Settled
    BY <1>1 DEF UpdatedLookup, Receive, Start, InvOK, Settled, Minting, Idle
  <1>3. CanceledStays /\ UNCHANGED <<minted, forgotten>>
    BY DEF UpdatedLookup, CanceledStays, Canceled, Exists, dbVars, computeVars, boundVars
  <1> QED BY <1>2, <1>3, SteadyChain

\* CreatedLookup keeps the chain.
LEMMA CreatedLookupChain ==
    ASSUME TypeInv, ChainInv, NEW w \in Workers, NEW e \in events, CreatedLookup(w, e)
    PROVE  ChainInv'
  <1>1. InvOK
    BY DEF TypeInv
  <1>2. Settled
    BY <1>1 DEF CreatedLookup, Receive, Start, InvOK, Settled, Minting, Idle
  <1>3. CanceledStays /\ UNCHANGED <<minted, forgotten>>
    BY DEF CreatedLookup, CanceledStays, Canceled, Exists, dbVars, computeVars, boundVars
  <1> QED BY <1>2, <1>3, SteadyChain

\* DeletedLookup keeps the chain.
LEMMA DeletedLookupChain ==
    ASSUME TypeInv, ChainInv, NEW w \in Workers, NEW e \in events, DeletedLookup(w, e)
    PROVE  ChainInv'
  <1>1. InvOK
    BY DEF TypeInv
  <1>2. Settled
    BY <1>1 DEF DeletedLookup, Receive, Start, InvOK, Settled, Minting, Idle
  <1>3. CanceledStays /\ UNCHANGED <<minted, forgotten>>
    BY DEF DeletedLookup, CanceledStays, Canceled, Exists, dbVars, computeVars, boundVars
  <1> QED BY <1>2, <1>3, SteadyChain

\* LinkRetrieve keeps the chain.
LEMMA LinkRetrieveChain ==
    ASSUME TypeInv, ChainInv, NEW w \in Workers, NEW e \in events, LinkRetrieve(w, e)
    PROVE  ChainInv'
  <1>1. InvOK
    BY DEF TypeInv
  <1>2. Settled
    BY <1>1 DEF LinkRetrieve, Receive, Start, InvOK, Settled, Minting, Idle
  <1>3. CanceledStays /\ UNCHANGED <<minted, forgotten>>
    BY DEF LinkRetrieve, CanceledStays, Canceled, Exists, dbVars, computeVars, boundVars
  <1> QED BY <1>2, <1>3, SteadyChain

\* Subscribe keeps the chain.
LEMMA SubscribeChain ==
    ASSUME TypeInv, ChainInv, NEW w \in Workers, NEW p \in Plans, Subscribe(w, p)
    PROVE  ChainInv'
  <1>1. InvOK
    BY DEF TypeInv
  <1>2. Settled
    BY <1>1 DEF Subscribe, Request, Start, InvOK, Settled, Minting, Idle
  <1>3. CanceledStays /\ UNCHANGED <<minted, forgotten>>
    BY DEF Subscribe, CanceledStays, Canceled, Exists, dbVars, computeVars, boundVars
  <1> QED BY <1>2, <1>3, SteadyChain

\* Change keeps the chain.
LEMMA ChangeChain ==
    ASSUME TypeInv, ChainInv, NEW w \in Workers, NEW p \in Plans, Change(w, p)
    PROVE  ChainInv'
  <1>1. InvOK
    BY DEF TypeInv
  <1>2. Settled
    BY <1>1 DEF Change, Request, Start, InvOK, Settled, Minting, Idle
  <1>3. CanceledStays /\ UNCHANGED <<minted, forgotten>>
    BY DEF Change, CanceledStays, Canceled, Exists, dbVars, computeVars, boundVars
  <1> QED BY <1>2, <1>3, SteadyChain

\* LinkFromSuccess keeps the chain.
LEMMA LinkFromSuccessChain ==
    ASSUME TypeInv, ChainInv, NEW w \in Workers, NEW s \in Subs, LinkFromSuccess(w, s)
    PROVE  ChainInv'
  <1>1. InvOK
    BY DEF TypeInv
  <1>2. Settled
    BY <1>1 DEF LinkFromSuccess, Request, Start, InvOK, Settled, Minting, Idle
  <1>3. CanceledStays /\ UNCHANGED <<minted, forgotten>>
    BY DEF LinkFromSuccess, CanceledStays, Canceled, Exists, dbVars, computeVars, boundVars
  <1> QED BY <1>2, <1>3, SteadyChain

\* Cancel keeps the chain.
LEMMA CancelChain ==
    ASSUME TypeInv, ChainInv, NEW w \in Workers, Cancel(w)
    PROVE  ChainInv'
  <1>1. InvOK
    BY DEF TypeInv
  <1>2. Settled
    BY <1>1 DEF Cancel, Request, Start, InvOK, Settled, Minting, Idle
  <1>3. CanceledStays /\ UNCHANGED <<minted, forgotten>>
    BY DEF Cancel, CanceledStays, Canceled, Exists, dbVars, computeVars, boundVars
  <1> QED BY <1>2, <1>3, SteadyChain

\* CheckoutPaid keeps the chain.
LEMMA CheckoutPaidChain ==
    ASSUME TypeInv, ChainInv, NEW s \in Subs, NEW p \in Plans, CheckoutPaid(s, p)
    PROVE  ChainInv'
  <1>1. InvOK
    BY DEF TypeInv
  <1>2. Settled
    BY DEF CheckoutPaid, Settled
  <1>3. CanceledStays /\ UNCHANGED <<minted, forgotten>>
    BY DEF CheckoutPaid, CanceledStays, Canceled, Exists, Live, Renewing, TypeInv, StripeOK,
       Subscription, Unused
  <1> QED BY <1>2, <1>3, SteadyChain

\* PortalCancel keeps the chain.
LEMMA PortalCancelChain ==
    ASSUME TypeInv, ChainInv, NEW s \in Subs, PortalCancel(s)
    PROVE  ChainInv'
  <1>1. InvOK
    BY DEF TypeInv
  <1>2. Settled
    BY DEF PortalCancel, Settled
  <1>3. CanceledStays /\ UNCHANGED <<minted, forgotten>>
    BY DEF PortalCancel, CanceledStays, Canceled, Exists, Live, Renewing, TypeInv, StripeOK,
       Subscription, Unused
  <1> QED BY <1>2, <1>3, SteadyChain

\* PeriodEnd keeps the chain.
LEMMA PeriodEndChain ==
    ASSUME TypeInv, ChainInv, NEW s \in Subs, PeriodEnd(s)
    PROVE  ChainInv'
  <1>1. InvOK
    BY DEF TypeInv
  <1>2. Settled
    BY DEF PeriodEnd, Settled
  <1>3. CanceledStays /\ UNCHANGED <<minted, forgotten>>
    BY DEF PeriodEnd, CanceledStays, Canceled, Exists, Live, Renewing, TypeInv, StripeOK,
       Subscription, Unused
  <1> QED BY <1>2, <1>3, SteadyChain

\* Teardown keeps the chain.
LEMMA TeardownChain ==
    ASSUME TypeInv, ChainInv, TRUE, Teardown
    PROVE  ChainInv'
  <1>1. InvOK
    BY DEF TypeInv
  <1>2. Settled
    BY DEF Teardown, Settled
  <1>3. CanceledStays /\ UNCHANGED <<minted, forgotten>>
    BY DEF Teardown, CanceledStays, Canceled, Exists, dbVars, computeVars, boundVars
  <1> QED BY <1>2, <1>3, SteadyChain

\* Deploy keeps the chain.
LEMMA DeployChain ==
    ASSUME TypeInv, ChainInv, TRUE, Deploy
    PROVE  ChainInv'
  <1>1. InvOK
    BY DEF TypeInv
  <1>2. Settled
    BY DEF Deploy, Settled
  <1>3. CanceledStays /\ UNCHANGED <<minted, forgotten>>
    BY DEF Deploy, CanceledStays, Canceled, Exists, dbVars, computeVars, boundVars
  <1> QED BY <1>2, <1>3, SteadyChain

\* So does a write of subscribeDeploy that commits without an answer.
LEMMA LoseChain ==
    ASSUME TypeInv, ChainInv, NEW w \in Workers, Lose(w)
    PROVE  ChainInv'
  <1>1. InvOK
    BY DEF TypeInv
  <1>2. Settled
    BY <1>1, GotoSettles, IdleSettles DEF Lose, ClaimLost, SubscribeTxLost, Minting
  <1>3. CanceledStays /\ UNCHANGED <<minted, forgotten>>
    BY DEF Lose, ClaimLost, SubscribeTxLost, CanceledStays, Canceled, Exists
  <1> QED BY <1>2, <1>3, SteadyChain

\* Keys that Stripe forgets leave less to be canceled.
LEMMA KeysExpireChain ==
    ASSUME TypeInv, ChainInv, KeysExpire
    PROVE  ChainInv'
  <1>1. UNCHANGED <<stripe, minted, inv>> /\ forgotten <= forgotten'
    BY DEF KeysExpire, TypeInv, StripeOK
  <1>2. \A k : EarlierCanceled(k) => EarlierCanceled(k)'
    BY <1>1 DEF EarlierCanceled, Canceled, KeysExpire, TypeInv, StripeOK
  <1>3. EarlierCanceled(Len(minted))' /\ AllExist'
    BY <1>1, <1>2 DEF ChainInv, EarlierCanceled, AllExist, Exists
  <1>4. ASSUME NEW v \in Workers PROVE CreateOK(v)' /\ ConfirmOK(v)'
    <2>1. CreateOK(v) /\ ConfirmOK(v)
      BY DEF ChainInv
    <2>2. EarlierCanceled(inv[v].key) => EarlierCanceled(inv[v].key)'
      BY <1>1, <1>2 DEF EarlierCanceled
    <2> QED BY <1>1, <2>1, <2>2 DEF CreateOK, ConfirmOK
  <1> QED BY <1>3, <1>4 DEF ChainInv

\* A worker comes to create with the key after subscriptions that are all canceled.
LEMMA ToCreateChain ==
    ASSUME TypeInv, ChainInv, UNCHANGED <<stripe, minted, forgotten>>, NEW w \in Workers,
           NEW k \in Nat \ {0}, k <= Len(minted) + 1, EarlierCanceled(k), ToCreate(w, k)
    PROVE  ChainInv'
  <1>1. /\ \A v \in Workers \ {w} : inv'[v] = inv[v]
        /\ inv'[w].pc = "create" /\ inv'[w].key = k
    BY DEF ToCreate, TypeInv, InvOK, Invocation
  <1>2. \A j : EarlierCanceled(j)' <=> EarlierCanceled(j)
    BY DEF EarlierCanceled, Canceled
  <1>3. AllExist' /\ EarlierCanceled(Len(minted))'
    BY DEF ChainInv, AllExist, EarlierCanceled, Canceled, Exists
  <1>4. ASSUME NEW v \in Workers PROVE CreateOK(v)' /\ ConfirmOK(v)'
    <2>1. CASE v = w
      BY <1>1, <2>1 DEF CreateOK, ConfirmOK, EarlierCanceled, Canceled
    <2>2. CASE v # w
      BY <1>1, <2>2 DEF CreateOK, ConfirmOK, EarlierCanceled, Canceled, ChainInv
    <2> QED BY <2>1, <2>2
  <1> QED BY <1>3, <1>4 DEF ChainInv

\* No subscription comes before the first key.
LEMMA FirstKeyFits == TypeInv => EarlierCanceled(FirstKey)
  BY DEF TypeInv, StripeOK, EarlierCanceled, FirstKey

\* Claim keeps the chain.
LEMMA ClaimChain ==
    ASSUME TypeInv, ChainInv, NEW w \in Workers, Claim(w)
    PROVE  ChainInv'
  <1>1. InvOK /\ UNCHANGED <<stripe, minted, forgotten>>
    BY DEF Claim, TypeInv
  <1>2. CASE ToCreate(w, FirstKey)
    BY <1>1, <1>2, FirstKeyType, FirstKeyFits, ToCreateChain
  <1>3. CASE ~ToCreate(w, FirstKey)
    <2>1. Settled
      BY <1>1, <1>3, GotoSettles, IdleSettles DEF Claim, Minting
    <2> QED BY <1>1, <2>1, SteadyChain DEF CanceledStays, Canceled, Exists
  <1> QED BY <1>2, <1>3

\* SubscribeRecorded keeps the chain.
LEMMA SubscribeRecordedChain ==
    ASSUME TypeInv, ChainInv, NEW w \in Workers, SubscribeRecorded(w)
    PROVE  ChainInv'
  <1>1. InvOK /\ UNCHANGED <<stripe, minted, forgotten>>
    BY DEF SubscribeRecorded, TypeInv
  <1>2. CASE ToCreate(w, FirstKey)
    BY <1>1, <1>2, FirstKeyType, FirstKeyFits, ToCreateChain
  <1>3. CASE ~ToCreate(w, FirstKey)
    <2>1. Settled
      BY <1>1, <1>3, GotoSettles DEF SubscribeRecorded, Minting
    <2> QED BY <1>1, <2>1, SteadyChain DEF CanceledStays, Canceled, Exists
  <1> QED BY <1>2, <1>3

\* Confirm goes on to the next key only from a canceled subscription.
LEMMA ConfirmChain ==
    ASSUME TypeInv, ChainInv, NEW w \in Workers, Confirm(w)
    PROVE  ChainInv'
  <1>1. InvOK /\ UNCHANGED <<stripe, minted, forgotten>>
    BY DEF Confirm, TypeInv
  <1> DEFINE k == inv[w].key
  <1>2. /\ k \in 1..Len(minted) /\ inv[w].sub = minted[k] /\ EarlierCanceled(k)
        /\ Exists(minted[k]) /\ Len(minted) \in Nat /\ minted[k] \in Subs
    BY DEF Confirm, At, ChainInv, ConfirmOK, AllExist, TypeInv, StripeOK
  <1>3. CASE Live(inv[w].sub)
    <2>1. Settled
      BY <1>1, <1>3, GotoSettles DEF Confirm, Minting
    <2> QED BY <1>1, <2>1, SteadyChain DEF CanceledStays, Canceled, Exists
  <1>4. CASE ~Live(inv[w].sub)
    <2>1. Canceled(minted[k])
      BY <1>2, <1>4 DEF Live, Exists, Canceled, TypeInv, StripeOK, Subscription
    <2>2. EarlierCanceled(k + 1)
      BY <1>2, <2>1 DEF EarlierCanceled
    <2>3. ToCreate(w, k + 1)
      BY <1>4 DEF Confirm
    <2> QED BY <1>1, <1>2, <2>2, <2>3, ToCreateChain
  <1> QED BY <1>3, <1>4

\* The heart of the proof. A replay answers the subscription of its key; a new one is
\* created only under the key after the last, when everything before it is canceled.
LEMMA CreateChain ==
    ASSUME TypeInv, ChainInv, NEW w \in Workers, Create(w)
    PROVE  ChainInv'
  <1> PICK k : k = inv[w].key
    OBVIOUS
  <1>1. /\ k \in Nat \ {0} /\ k <= Len(minted) + 1 /\ EarlierCanceled(k)
        /\ minted \in Seq(Subs) /\ stripe \in [Subs -> Subscription] /\ forgotten' = forgotten
    BY Fields DEF Create, At, ChainInv, CreateOK, TypeInv, StripeOK, InvOK, Sound
  <1>2. CASE k <= Len(minted)
    <2>1. /\ UNCHANGED <<stripe, minted>>
          /\ \A v \in Workers \ {w} : inv'[v] = inv[v]
          /\ inv'[w].key = k /\ inv'[w].sub = minted[k] /\ inv'[w].pc # "create"
      BY <1>2 DEF Create, AfterCreate, TypeInv, InvOK, Invocation
    <2>2. \A j : EarlierCanceled(j)' <=> EarlierCanceled(j)
      BY <1>1, <2>1 DEF EarlierCanceled, Canceled
    <2>3. AllExist' /\ EarlierCanceled(Len(minted))'
      BY <1>1, <2>1 DEF ChainInv, AllExist, EarlierCanceled, Canceled, Exists
    <2>4. ASSUME NEW v \in Workers PROVE CreateOK(v)' /\ ConfirmOK(v)'
      <3>1. CASE v = w
        BY <1>1, <1>2, <2>1, <3>1 DEF CreateOK, ConfirmOK, EarlierCanceled, Canceled
      <3>2. CASE v # w
        BY <1>1, <2>1, <3>2 DEF CreateOK, ConfirmOK, EarlierCanceled, Canceled, ChainInv
      <3> QED BY <3>1, <3>2
    <2> QED BY <2>3, <2>4 DEF ChainInv
  <1>3. CASE ~(k <= Len(minted))
    <2>1. k = Len(minted) + 1
      BY <1>1, <1>3
    <2>2. PICK s \in Subs :
             /\ stripe[s] = Unused
             /\ stripe' = [stripe EXCEPT ![s] = Fresh(inv[w].plan)]
             /\ minted' = Append(minted, s)
             /\ inv' = [inv EXCEPT ![w].sub = s, ![w].pc = AfterCreate(k)]
      BY <1>3 DEF Create
    <2>3. /\ Len(minted') = k /\ minted'[k] = s
          /\ \A i \in 1..Len(minted) : minted'[i] = minted[i] /\ minted[i] \in Subs
      BY <1>1, <2>1, <2>2
    <2>4. \A t \in Subs : (Canceled(t) => Canceled(t)') /\ (Exists(t) => Exists(t)')
      BY <1>1, <2>2 DEF Canceled, Exists, Unused
    <2>5. Exists(s)'
      BY <1>1, <2>2 DEF Exists, Fresh
    <2>6. \A j \in Nat : j <= k /\ EarlierCanceled(j) => EarlierCanceled(j)'
      BY <1>1, <2>1, <2>3, <2>4 DEF EarlierCanceled, Canceled
    <2>7. /\ \A v \in Workers \ {w} : inv'[v] = inv[v]
          /\ inv'[w].key = k /\ inv'[w].sub = s /\ inv'[w].pc # "create"
      BY <2>2 DEF AfterCreate, TypeInv, InvOK, Invocation
    <2>8. AllExist'
      <3> SUFFICES ASSUME NEW i \in 1..k PROVE stripe'[minted'[i]].status # "none"
        BY <2>3 DEF AllExist, Exists
      <3>1. CASE i = k
        BY <2>3, <2>5, <3>1 DEF Exists
      <3>2. CASE i # k
        BY <1>1, <2>1, <2>3, <2>4, <3>2 DEF ChainInv, AllExist, Exists
      <3> QED BY <3>1, <3>2
    <2>9. EarlierCanceled(k)'
      BY <1>1, <2>6
    <2>10. EarlierCanceled(Len(minted))'
      BY <1>1, <2>3, <2>9 DEF EarlierCanceled, Canceled
    <2>11. CreateOK(w)' /\ ConfirmOK(w)'
      BY <1>1, <2>3, <2>7, <2>9 DEF CreateOK, ConfirmOK, EarlierCanceled, Canceled
    <2>12. ASSUME NEW v \in Workers, v # w PROVE CreateOK(v)' /\ ConfirmOK(v)'
      <3>1. inv'[v] = inv[v] /\ inv[v].key \in Nat /\ CreateOK(v) /\ ConfirmOK(v)
        BY <2>7, <2>12, Fields DEF ChainInv, TypeInv, InvOK
      <3>2. inv[v].pc \in Minting =>
              inv[v].key <= k /\ EarlierCanceled(inv[v].key)
        BY <1>1, <2>1, <3>1 DEF CreateOK, ConfirmOK, Minting
      <3>3. inv[v].pc \in Minting => EarlierCanceled(inv[v].key)'
        BY <1>1, <2>6, <3>1, <3>2 DEF EarlierCanceled, Canceled
      <3> QED BY <1>1, <2>1, <2>3, <3>1, <3>3 DEF CreateOK, ConfirmOK, Minting,
         EarlierCanceled, Canceled
    <2> QED BY <2>8, <2>10, <2>11, <2>12 DEF ChainInv
  <1> QED BY <1>2, <1>3

\* Step keeps the types.
LEMMA StepType ==
    ASSUME TypeInv, NEW w \in Workers, Step(w)
    PROVE  TypeInv'
  BY
    UpdatedRetrieveType, MirrorType, DeletedEndType, DeprovisionGateType,
    DispatchTeardownType, EndEnforcementType, ClearWorkspaceDeployPlanType, LinkReadType,
    LinkConflictType, LinkTxType, ClaimType, SubscribeRecordedType, ResumeType,
    CreateType, DeclineType, ConfirmType, SubscribeTxType, ReleaseType, StopRenewalType,
    CancelLimitsType, ChangeRetrieveType, RepriceType, ChangeTxType
  DEF Step

\* Handle keeps the types.
LEMMA HandleType ==
    ASSUME TypeInv, NEW w \in Workers, NEW e \in events, Handle(w, e)
    PROVE  TypeInv'
  BY
    UpdatedUnknownType, UpdatedLookupType, CreatedUnknownType, CreatedLookupType,
    DeletedUnknownType, DeletedLookupType, LinkInactiveType, LinkRetrieveType
  DEF Handle

\* Ask keeps the types.
LEMMA AskType ==
    ASSUME TypeInv, NEW w \in Workers, Ask(w)
    PROVE  TypeInv'
  BY SubscribeType, ChangeType, LinkFromSuccessType, CancelType DEF Ask

\* Environment keeps the types.
LEMMA EnvironmentType ==
    ASSUME TypeInv, Environment
    PROVE  TypeInv'
  BY CheckoutPaidType, PeriodEndType, PortalCancelType, KeysExpireType,
     DeployType, TeardownType DEF Environment

\* Next keeps the types.
LEMMA NextType == TypeInv /\ [Next]_vars => TypeInv'
  <1> SUFFICES ASSUME TypeInv, [Next]_vars PROVE TypeInv'
    OBVIOUS
  <1>1. ASSUME NEW w \in Workers, Ask(w) PROVE TypeInv'
    BY <1>1, AskType
  <1>2. ASSUME NEW w \in Workers, Step(w) PROVE TypeInv'
    BY <1>2, StepType
  <1>3. ASSUME NEW w \in Workers, Fail(w) \/ Lose(w) PROVE TypeInv'
    BY <1>3, FailType, LoseType
  <1>4. ASSUME NEW w \in Workers, NEW e \in events, Handle(w, e) PROVE TypeInv'
    BY <1>4, HandleType
  <1>5. CASE Environment
    BY <1>5, EnvironmentType
  <1>6. CASE UNCHANGED vars
    BY <1>6 DEF vars, dbVars, computeVars, boundVars, TypeInv, StripeOK, DbOK, RestOK, InvOK,
       ChainInv, AllExist, EarlierCanceled, CreateOK, ConfirmOK, Canceled, Exists
  <1> QED BY <1>1, <1>2, <1>3, <1>4, <1>5, <1>6 DEF Next

\* Step keeps the chain.
LEMMA StepChain ==
    ASSUME TypeInv, ChainInv, NEW w \in Workers, Step(w)
    PROVE  ChainInv'
  BY
    UpdatedRetrieveChain, MirrorChain, DeletedEndChain, DeprovisionGateChain,
    DispatchTeardownChain, EndEnforcementChain, ClearWorkspaceDeployPlanChain,
    LinkReadChain, LinkConflictChain, LinkTxChain, ClaimChain, SubscribeRecordedChain,
    ResumeChain, CreateChain, DeclineChain, ConfirmChain, SubscribeTxChain, ReleaseChain,
    StopRenewalChain, CancelLimitsChain, ChangeRetrieveChain, RepriceChain, ChangeTxChain
  DEF Step

\* Handle keeps the chain.
LEMMA HandleChain ==
    ASSUME TypeInv, ChainInv, NEW w \in Workers, NEW e \in events, Handle(w, e)
    PROVE  ChainInv'
  BY
    UpdatedUnknownChain, UpdatedLookupChain, CreatedUnknownChain, CreatedLookupChain,
    DeletedUnknownChain, DeletedLookupChain, LinkInactiveChain, LinkRetrieveChain
  DEF Handle

\* Ask keeps the chain.
LEMMA AskChain ==
    ASSUME TypeInv, ChainInv, NEW w \in Workers, Ask(w)
    PROVE  ChainInv'
  BY SubscribeChain, ChangeChain, LinkFromSuccessChain, CancelChain DEF Ask

\* Environment keeps the chain.
LEMMA EnvironmentChain ==
    ASSUME TypeInv, ChainInv, Environment
    PROVE  ChainInv'
  BY CheckoutPaidChain, PeriodEndChain, PortalCancelChain, KeysExpireChain,
     DeployChain, TeardownChain DEF Environment

\* Next keeps the chain.
LEMMA NextChain == TypeInv /\ ChainInv /\ [Next]_vars => ChainInv'
  <1> SUFFICES ASSUME TypeInv, ChainInv, [Next]_vars PROVE ChainInv'
    OBVIOUS
  <1>1. ASSUME NEW w \in Workers, Ask(w) PROVE ChainInv'
    BY <1>1, AskChain
  <1>2. ASSUME NEW w \in Workers, Step(w) PROVE ChainInv'
    BY <1>2, StepChain
  <1>3. ASSUME NEW w \in Workers, Fail(w) \/ Lose(w) PROVE ChainInv'
    BY <1>3, FailChain, LoseChain
  <1>4. ASSUME NEW w \in Workers, NEW e \in events, Handle(w, e) PROVE ChainInv'
    BY <1>4, HandleChain
  <1>5. CASE Environment
    BY <1>5, EnvironmentChain
  <1>6. CASE UNCHANGED vars
    BY <1>6 DEF vars, dbVars, computeVars, boundVars, TypeInv, StripeOK, DbOK, RestOK, InvOK,
       ChainInv, AllExist, EarlierCanceled, CreateOK, ConfirmOK, Canceled, Exists
  <1> QED BY <1>1, <1>2, <1>3, <1>4, <1>5, <1>6 DEF Next

\* Nothing is created initially.
LEMMA InitChain == Init => ChainInv
  BY DEF Init, ChainInv, AllExist, EarlierCanceled, CreateOK, ConfirmOK, Idle

\* Every variable keeps its type, for any number of subscriptions, plans and concurrent
\* invocations and whatever races: in particular each handler only follows a subscription id
\* that it has read (InvOK).
THEOREM TypeCorrect == Spec => []TypeOK
  <1>1. TypeInv => TypeOK
    BY DEF TypeInv, TypeOK, StripeOK, DbOK, RestOK, InvOK
  <1> QED BY <1>1, InitType, NextType, PTL DEF Spec

----------------------------------------------------------------------------
(* What the steps do to the invocations, field by field.                   *)

\* The other workers stay where they are.
Others(w) == \A v \in Workers : v # w => inv'[v] = inv[v]
\* The worker goes on to pc with what it has read,
SameRead(i, j) ==
    /\ j.op = i.op /\ j.ev = i.ev /\ j.sub = i.sub /\ j.rec = i.rec /\ j.plan = i.plan
    /\ j.snap = i.snap /\ j.live = i.live
Went(w, pc) == Others(w) /\ inv'[w].pc = pc /\ SameRead(inv[w], inv'[w])
\* or it is done.
Gone(w) == Others(w) /\ inv'[w] = Idle

\* Goto goes on.
LEMMA GotoWent ==
    ASSUME InvOK, NEW w \in Workers, NEW pc, Goto(w, pc)
    PROVE  Went(w, pc)
  BY DEF InvOK, Goto, Went, Others, SameRead, Invocation

\* So does ToCreate.
LEMMA ToCreateWent ==
    ASSUME InvOK, NEW w \in Workers, NEW k, ToCreate(w, k)
    PROVE  Went(w, "create") /\ inv'[w].key = k
  BY DEF InvOK, ToCreate, Went, Others, SameRead, Invocation

\* Giving up is being done.
LEMMA IdleGone ==
    ASSUME InvOK, NEW w \in Workers, inv' = [inv EXCEPT ![w] = Idle]
    PROVE  Gone(w)
  BY DEF InvOK, Gone, Others

\* So is Finish, after which Stripe may send the event again.
LEMMA FinishGone ==
    ASSUME InvOK, NEW w \in Workers, Finish(w)
    PROVE  /\ Gone(w) /\ events \subseteq events'
           /\ \A e \in events' : e \in events \/ (e = inv[w].ev /\ inv[w].ev # None)
  <1>1. Gone(w)
    BY IdleGone DEF Finish
  <1> QED BY <1>1 DEF Finish

\* An idle worker has read nothing.
LEMMA IdleFields ==
    /\ Idle.op = "idle" /\ Idle.pc = "idle" /\ Idle.ev = None /\ Idle.sub = None
    /\ Idle.rec = None /\ Idle.plan = None /\ Idle.snap = None /\ Idle.live = Unused
    /\ Unused.status = "none" /\ Unused.cancelling = FALSE /\ Unused.plan = None
  BY DEF Idle, Unused

\* A new invocation
Began(w) == Others(w) /\ inv[w].op = "idle" /\ (Busy => "overlap" \in Races)

\* starts on an idle worker,
LEMMA StartBegan ==
    ASSUME InvOK, NEW w \in Workers, NEW i, Start(w, i)
    PROVE  Began(w) /\ inv'[w] = i
  BY DEF InvOK, Start, Began, Others, Only

\* with an event that Stripe delivers
LEMMA ReceiveBegan ==
    ASSUME InvOK, NEW w \in Workers, NEW e, NEW i \in Invocation, Receive(w, e, i)
    PROVE  /\ Began(w) /\ e \in events /\ events' = events \ {e}
           /\ inv'[w].op = e.type /\ inv'[w].ev = e /\ inv'[w].sub = e.sub
           /\ inv'[w].pc = i.pc /\ inv'[w].rec = i.rec /\ inv'[w].plan = i.plan
           /\ inv'[w].snap = i.snap /\ inv'[w].live = i.live
  <1>1. Began(w) /\ inv'[w] = [i EXCEPT !.op = e.type, !.ev = e, !.sub = e.sub]
    BY StartBegan DEF Receive
  <1> QED BY <1>1 DEF Receive, Invocation

\* or with a request of a user.
LEMMA RequestBegan ==
    ASSUME InvOK, NEW w \in Workers, NEW i, Request(w, i)
    PROVE  Began(w) /\ inv'[w] = i /\ events' = events
  BY StartBegan DEF Request

\* An event that is answered at once changes no invocation.
LEMMA IgnoreBegan ==
    ASSUME NEW w \in Workers, NEW e, Ignore(w, e)
    PROVE  /\ inv' = inv /\ inv[w].op = "idle" /\ (Busy => "overlap" \in Races)
           /\ e \in events /\ events' = events \ {e}
  BY DEF Ignore, Only

\* The invocations that begin, field by field.
LEMMA UpdatedBegins ==
    ASSUME TypeInv, NEW w \in Workers, NEW e \in events, UpdatedLookup(w, e)
    PROVE  /\ Began(w) /\ events' = events \ {e} /\ e.type = "updated" /\ row = e.sub
           /\ inv'[w].op = "updated" /\ inv'[w].pc = "retrieve" /\ inv'[w].ev = e
           /\ inv'[w].sub = e.sub /\ inv'[w].snap = plan
  <1> DEFINE i == [Idle EXCEPT !.pc = "retrieve", !.snap = plan]
  <1>1. i \in Invocation /\ i.pc = "retrieve" /\ i.snap = plan
    BY IdleType DEF TypeInv, DbOK, Idle, Invocation, Pcs
  <1>2. Receive(w, e, i) /\ e.type = "updated" /\ row = e.sub
    BY DEF UpdatedLookup
  <1> HIDE DEF i
  <1> QED BY <1>1, <1>2, ReceiveBegan DEF TypeInv

\* The created handler starts with the event's snapshot of the plan.
LEMMA CreatedBegins ==
    ASSUME TypeInv, NEW w \in Workers, NEW e \in events, CreatedLookup(w, e)
    PROVE  /\ Began(w) /\ events' = events \ {e} /\ e.type = "created" /\ row = e.sub
           /\ inv'[w].op = "created" /\ inv'[w].pc = "mirror" /\ inv'[w].ev = e
           /\ inv'[w].sub = e.sub /\ inv'[w].snap = plan /\ inv'[w].live = Fresh(e.plan)
  <1> DEFINE i == [Idle EXCEPT !.pc = "mirror", !.snap = plan, !.live = Fresh(e.plan)]
  <1>1. Receive(w, e, i) /\ e.type = "created" /\ row = e.sub
    BY DEF CreatedLookup
  <1>2. Fresh(e.plan) \in Subscription
    BY <1>1, EventType, FreshType DEF TypeInv, StripeOK
  <1>3. i \in Invocation /\ i.pc = "mirror" /\ i.snap = plan /\ i.live = Fresh(e.plan)
    BY <1>2, IdleType DEF TypeInv, DbOK, Idle, Invocation, Pcs
  <1> HIDE DEF i
  <1> QED BY <1>1, <1>3, ReceiveBegan DEF TypeInv

\* The deleted handler starts for the recorded subscription.
LEMMA DeletedBegins ==
    ASSUME TypeInv, NEW w \in Workers, NEW e \in events, DeletedLookup(w, e)
    PROVE  /\ Began(w) /\ events' = events \ {e} /\ e.type = "deleted" /\ row = e.sub
           /\ inv'[w].op = "deleted" /\ inv'[w].ev = e /\ inv'[w].sub = e.sub
           /\ inv'[w].pc = IF plan # None THEN "gate" ELSE "end"
  <1> DEFINE i == [Idle EXCEPT !.snap = plan, !.pc = IF plan # None THEN "gate" ELSE "end"]
  <1>1. i \in Invocation /\ i.pc = IF plan # None THEN "gate" ELSE "end"
    BY IdleType DEF TypeInv, DbOK, Idle, Invocation, Pcs
  <1>2. Receive(w, e, i) /\ e.type = "deleted" /\ row = e.sub
    BY DEF DeletedLookup
  <1> HIDE DEF i
  <1> QED BY <1>1, <1>2, ReceiveBegan DEF TypeInv

\* The linker starts with a subscription it has just retrieved.
LEMMA LinkBegins ==
    ASSUME TypeInv, NEW w \in Workers, NEW e \in events, LinkRetrieve(w, e)
    PROVE  /\ Began(w) /\ events' = events \ {e} /\ e.type = "checkout" /\ Renewing(e.sub)
           /\ inv'[w].op = "checkout" /\ inv'[w].pc = "read" /\ inv'[w].ev = e
           /\ inv'[w].sub = e.sub /\ inv'[w].live = stripe[e.sub]
  <1> DEFINE i == [Idle EXCEPT !.pc = "read", !.live = stripe[e.sub]]
  <1>1. Receive(w, e, i) /\ e.type = "checkout" /\ Renewing(e.sub)
    BY DEF LinkRetrieve
  <1>2. stripe[e.sub] \in Subscription
    BY EventType DEF TypeInv, StripeOK
  <1>3. i \in Invocation /\ i.pc = "read" /\ i.live = stripe[e.sub]
    BY <1>2, IdleType DEF Idle, Invocation, Pcs
  <1> HIDE DEF i
  <1> QED BY <1>1, <1>3, ReceiveBegan DEF TypeInv

\* So does the success page, without an event.
LEMMA SuccessBegins ==
    ASSUME TypeInv, NEW w \in Workers, NEW s \in Subs, LinkFromSuccess(w, s)
    PROVE  /\ Began(w) /\ events' = events /\ Renewing(s)
           /\ inv'[w].op = "checkout" /\ inv'[w].pc = "read" /\ inv'[w].ev = None
           /\ inv'[w].sub = s /\ inv'[w].live = stripe[s]
  <1> DEFINE i == [Idle EXCEPT !.op = "checkout", !.pc = "read", !.sub = s, !.live = stripe[s]]
  <1>1. Request(w, i) /\ Renewing(s)
    BY DEF LinkFromSuccess
  <1>2. /\ i.op = "checkout" /\ i.pc = "read" /\ i.ev = None /\ i.sub = s /\ i.live = stripe[s]
    BY DEF Idle
  <1> HIDE DEF i
  <1> QED BY <1>1, <1>2, RequestBegan DEF TypeInv

\* A subscribe starts when there is no plan and remembers the recorded subscription.
LEMMA SubscribeBegins ==
    ASSUME TypeInv, NEW w \in Workers, NEW p \in Plans, Subscribe(w, p)
    PROVE  /\ Began(w) /\ events' = events /\ plan = None
           /\ inv'[w].op = "subscribe" /\ inv'[w].pc = "claim" /\ inv'[w].ev = None
           /\ inv'[w].sub = None /\ inv'[w].rec = row /\ inv'[w].plan = p
  <1> DEFINE i == [Idle EXCEPT !.op = "subscribe", !.pc = "claim", !.plan = p, !.rec = row]
  <1>1. Request(w, i) /\ plan = None
    BY DEF Subscribe
  <1>2. /\ i.op = "subscribe" /\ i.pc = "claim" /\ i.ev = None /\ i.sub = None /\ i.rec = row
        /\ i.plan = p
    BY DEF Idle
  <1> HIDE DEF i
  <1> QED BY <1>1, <1>2, RequestBegan DEF TypeInv

\* A plan change starts when a subscription is recorded.
LEMMA ChangeBegins ==
    ASSUME TypeInv, NEW w \in Workers, NEW p \in Plans, Change(w, p)
    PROVE  /\ Began(w) /\ events' = events /\ row # None
           /\ inv'[w].op = "change" /\ inv'[w].pc = "retrieve" /\ inv'[w].ev = None
           /\ inv'[w].sub = None /\ inv'[w].rec = row /\ inv'[w].plan = p
  <1> DEFINE i == [Idle EXCEPT !.op = "change", !.pc = "retrieve", !.plan = p, !.rec = row]
  <1>1. Request(w, i) /\ row # None
    BY DEF Change
  <1>2. /\ i.op = "change" /\ i.pc = "retrieve" /\ i.ev = None /\ i.sub = None /\ i.rec = row
        /\ i.plan = p
    BY DEF Idle
  <1> HIDE DEF i
  <1> QED BY <1>1, <1>2, RequestBegan DEF TypeInv

\* A cancel stops the recorded subscription, or goes on to the teardown without one.
LEMMA CancelBegins ==
    ASSUME TypeInv, NEW w \in Workers, Cancel(w)
    PROVE  /\ Began(w) /\ events' = events
           /\ inv'[w].op = "cancel" /\ inv'[w].ev = None /\ inv'[w].sub = None
           /\ inv'[w].rec = row /\ inv'[w].pc = IF row = None THEN "gate" ELSE "stop"
  <1> DEFINE i == [Idle EXCEPT !.op = "cancel", !.rec = row,
                               !.pc = IF row = None THEN "gate" ELSE "stop"]
  <1>1. Request(w, i)
    BY DEF Cancel
  <1>2. /\ i.op = "cancel" /\ i.ev = None /\ i.sub = None /\ i.rec = row
        /\ i.pc = IF row = None THEN "gate" ELSE "stop"
    BY DEF Idle
  <1> HIDE DEF i
  <1> QED BY <1>1, <1>2, RequestBegan DEF TypeInv

\* The steps that read into an invocation.
LEMMA RetrieveReads ==
    ASSUME TypeInv, NEW w \in Workers, UpdatedRetrieve(w)
    PROVE  /\ Others(w) /\ inv[w].op = "updated" /\ inv[w].pc = "retrieve"
           /\ inv'[w].op = "updated" /\ inv'[w].ev = inv[w].ev /\ inv'[w].sub = inv[w].sub
           /\ inv'[w].rec = inv[w].rec /\ inv'[w].plan = inv[w].plan
           /\ inv'[w].snap = inv[w].snap /\ inv'[w].live = stripe[inv[w].sub]
           /\ inv'[w].pc = IF stripe[inv[w].sub].cancelling /\ inv[w].snap # None
                             THEN "gate" ELSE "mirror"
  BY DEF UpdatedRetrieve, TypeInv, InvOK, Others, At, Invocation

\* The linker finds its work done, or goes on with the row it has read.
LEMMA LinkReads ==
    ASSUME TypeInv, NEW w \in Workers, LinkRead(w)
    PROVE  /\ inv[w].op = "checkout" /\ inv[w].pc = "read"
           /\ \/ row = inv[w].sub /\ plan = inv[w].live.plan /\ limits' = plan /\ Finish(w)
              \/ /\ limits' = limits /\ events' = events
                 /\ Others(w) /\ inv'[w].op = "checkout" /\ inv'[w].ev = inv[w].ev
                 /\ inv'[w].sub = inv[w].sub /\ inv'[w].live = inv[w].live
                 /\ inv'[w].plan = inv[w].live.plan
                 /\ \/ row \notin {inv[w].sub, None} /\ inv'[w].pc = "recorded" /\ inv'[w].rec = row
                    \/ row \in {inv[w].sub, None} /\ inv'[w].pc = "tx"
  BY DEF LinkRead, TypeInv, InvOK, Others, At, Invocation

\* What the steps do to Stripe.
Becomes(s, status, cancelling, tag) ==
    /\ stripe'[s].status = status /\ stripe'[s].cancelling = cancelling
    /\ stripe'[s].plan = tag
    /\ \A t \in Subs : t # s => stripe'[t] = stripe[t]
\* A create is answered with the subscription of its key, minted now or before.
LEMMA CreateReads ==
    ASSUME TypeInv, NEW w \in Workers, Create(w)
    PROVE  /\ inv[w].op = "subscribe" /\ inv[w].pc = "create"
           /\ Others(w) /\ inv'[w].op = "subscribe" /\ inv'[w].ev = inv[w].ev
           /\ inv'[w].rec = inv[w].rec /\ inv'[w].plan = inv[w].plan
           /\ inv'[w].snap = inv[w].snap /\ inv'[w].live = inv[w].live
           /\ inv'[w].pc = AfterCreate(inv[w].key)
           /\ \/ /\ inv[w].key <= Len(minted) /\ inv'[w].sub = minted[inv[w].key]
                 /\ UNCHANGED <<stripe, minted, events>>
                 /\ stripe[minted[inv[w].key]].plan # inv[w].plan => "other_plan" \in Races
              \/ \E s \in Subs :
                    /\ stripe[s] = Unused /\ inv'[w].sub = s /\ minted' = Append(minted, s)
                    /\ events' = events \cup {Created(s, inv[w].plan)}
                    /\ Becomes(s, "active", FALSE, inv[w].plan)
  <1>1. At(w, "subscribe", "create") /\ inv[w].key \in Nat
    BY DEF Create, TypeInv, InvOK, Invocation
  <1>2. CASE inv[w].key <= Len(minted)
    <2>1. /\ inv' = [inv EXCEPT ![w].sub = minted[inv[w].key], ![w].pc = AfterCreate(inv[w].key)]
          /\ stripe[minted[inv[w].key]].plan # inv[w].plan => "other_plan" \in Races
          /\ UNCHANGED <<stripe, minted, events>>
      BY <1>2 DEF Create, Only
    <2>2. /\ Others(w) /\ inv'[w].op = inv[w].op /\ inv'[w].ev = inv[w].ev
          /\ inv'[w].rec = inv[w].rec /\ inv'[w].plan = inv[w].plan
          /\ inv'[w].snap = inv[w].snap /\ inv'[w].live = inv[w].live
          /\ inv'[w].pc = AfterCreate(inv[w].key) /\ inv'[w].sub = minted[inv[w].key]
      BY <2>1 DEF TypeInv, InvOK, Others, Invocation
    <2> QED BY <1>1, <1>2, <2>1, <2>2 DEF At
  <1>3. CASE ~(inv[w].key <= Len(minted))
    <2>1. PICK s \in Subs :
              /\ stripe[s] = Unused
              /\ stripe' = [stripe EXCEPT ![s] = Fresh(inv[w].plan)]
              /\ minted' = Append(minted, s)
              /\ events' = events \cup {Created(s, inv[w].plan)}
              /\ inv' = [inv EXCEPT ![w].sub = s, ![w].pc = AfterCreate(inv[w].key)]
      BY <1>3 DEF Create
    <2>2. Becomes(s, "active", FALSE, inv[w].plan)
      BY <2>1 DEF Becomes, Fresh, TypeInv, StripeOK
    <2>3. /\ Others(w) /\ inv'[w].op = inv[w].op /\ inv'[w].ev = inv[w].ev
          /\ inv'[w].rec = inv[w].rec /\ inv'[w].plan = inv[w].plan
          /\ inv'[w].snap = inv[w].snap /\ inv'[w].live = inv[w].live
          /\ inv'[w].pc = AfterCreate(inv[w].key) /\ inv'[w].sub = s
      BY <2>1 DEF TypeInv, InvOK, Others, Invocation
    <2> QED BY <1>1, <2>1, <2>2, <2>3 DEF At
  <1> QED BY <1>2, <1>3

\* A paid checkout starts a subscription.
LEMMA PaidBecomes ==
    ASSUME TypeInv, NEW s \in Subs, NEW p \in Plans, CheckoutPaid(s, p)
    PROVE  stripe[s] = Unused /\ Becomes(s, "active", FALSE, p)
  BY DEF CheckoutPaid, TypeInv, StripeOK, Becomes, Fresh

\* The portal cancels or resumes a live subscription.
LEMMA PortalBecomes ==
    ASSUME TypeInv, NEW s \in Subs, PortalCancel(s)
    PROVE  /\ Live(s) /\ (row # s => "unlinked_cancel" \in Races)
           /\ Becomes(s, "active", ~stripe[s].cancelling, stripe[s].plan)
  BY DEF PortalCancel, TypeInv, StripeOK, Becomes, Subscription, Live, Only

\* The end of the period ends a subscription.
LEMMA PeriodBecomes ==
    ASSUME TypeInv, NEW s \in Subs, PeriodEnd(s)
    PROVE  Live(s) /\ Becomes(s, "canceled", stripe[s].cancelling, stripe[s].plan)
  BY DEF PeriodEnd, TypeInv, StripeOK, Becomes, Subscription, Live

\* A resume withdraws the cancellation, or finds the subscription over.
LEMMA ResumeBecomes ==
    ASSUME TypeInv, NEW w \in Workers, Resume(w)
    PROVE  /\ inv[w].op = "subscribe" /\ inv[w].pc = "resume" /\ inv[w].rec \in Subs
           /\ \/ /\ Live(inv[w].rec) /\ Becomes(inv[w].rec, "active", FALSE, stripe[inv[w].rec].plan)
                 /\ events' = IF stripe[inv[w].rec].cancelling
                                THEN events \cup {On("updated", inv[w].rec)} ELSE events
                 /\ Went(w, "tx")
              \/ ~Live(inv[w].rec) /\ Went(w, "release") /\ stripe' = stripe /\ events' = events
  <1>1. inv[w].op = "subscribe" /\ inv[w].pc = "resume" /\ inv[w].rec \in Subs /\ InvOK
    BY DEF Resume, At, TypeInv, InvOK, Sound, Looked
  <1>2. CASE Live(inv[w].rec)
    <2>1. /\ stripe' = [stripe EXCEPT ![inv[w].rec].cancelling = FALSE] /\ Goto(w, "tx")
          /\ events' = IF stripe[inv[w].rec].cancelling
                         THEN events \cup {On("updated", inv[w].rec)} ELSE events
      BY <1>2 DEF Resume
    <2>2. Becomes(inv[w].rec, "active", FALSE, stripe[inv[w].rec].plan)
      BY <1>1, <1>2, <2>1 DEF TypeInv, StripeOK, Becomes, Subscription, Live
    <2>3. Went(w, "tx")
      BY <1>1, <2>1, GotoWent
    <2> QED BY <1>1, <1>2, <2>1, <2>2, <2>3
  <1>3. CASE ~Live(inv[w].rec)
    BY <1>1, <1>3, GotoWent DEF Resume
  <1> QED BY <1>2, <1>3

\* A cancel sets a renewing subscription to cancel.
LEMMA StopBecomes ==
    ASSUME TypeInv, NEW w \in Workers, StopRenewal(w)
    PROVE  /\ inv[w].op = "cancel" /\ inv[w].pc = "stop" /\ inv[w].rec \in Subs /\ Went(w, "gate")
           /\ \/ /\ Renewing(inv[w].rec)
                 /\ Becomes(inv[w].rec, "active", TRUE, stripe[inv[w].rec].plan)
                 /\ events' = events \cup {On("updated", inv[w].rec)}
              \/ ~Renewing(inv[w].rec) /\ stripe' = stripe /\ events' = events
  <1>1. /\ inv[w].op = "cancel" /\ inv[w].pc = "stop" /\ inv[w].rec \in Subs /\ InvOK
        /\ Goto(w, "gate")
    BY DEF StopRenewal, At, TypeInv, InvOK, Sound, Looked
  <1>2. Went(w, "gate")
    BY <1>1, GotoWent
  <1>3. CASE Renewing(inv[w].rec)
    <2>1. /\ stripe' = [stripe EXCEPT ![inv[w].rec].cancelling = TRUE]
          /\ events' = events \cup {On("updated", inv[w].rec)}
      BY <1>3 DEF StopRenewal
    <2>2. Becomes(inv[w].rec, "active", TRUE, stripe[inv[w].rec].plan)
      BY <1>1, <1>3, <2>1 DEF TypeInv, StripeOK, Becomes, Subscription, Live, Renewing
    <2> QED BY <1>1, <1>2, <1>3, <2>1, <2>2
  <1>4. CASE ~Renewing(inv[w].rec)
    BY <1>1, <1>2, <1>4 DEF StopRenewal
  <1> QED BY <1>3, <1>4

\* A plan change reprices a live subscription, or stops.
LEMMA RepriceBecomes ==
    ASSUME TypeInv, NEW w \in Workers, Reprice(w)
    PROVE  /\ inv[w].op = "change" /\ inv[w].pc = "reprice" /\ inv[w].rec \in Subs
           /\ \/ /\ Live(inv[w].rec) /\ Went(w, "tx")
                 /\ Becomes(inv[w].rec, "active", stripe[inv[w].rec].cancelling, inv[w].plan)
                 /\ events' = events \cup {On("updated", inv[w].rec)}
              \/ Gone(w) /\ stripe' = stripe /\ events' = events
  <1>1. inv[w].op = "change" /\ inv[w].pc = "reprice" /\ inv[w].rec \in Subs /\ InvOK
    BY DEF Reprice, At, TypeInv, InvOK, Sound, Looked
  <1>2. CASE inv' = [inv EXCEPT ![w] = Idle] /\ UNCHANGED <<stripe, events>>
    BY <1>1, <1>2, IdleGone
  <1>3. CASE /\ Live(inv[w].rec)
             /\ stripe' = [stripe EXCEPT ![inv[w].rec].plan = inv[w].plan]
             /\ events' = events \cup {On("updated", inv[w].rec)}
             /\ Goto(w, "tx")
    <2>1. Becomes(inv[w].rec, "active", stripe[inv[w].rec].cancelling, inv[w].plan)
      BY <1>1, <1>3 DEF TypeInv, StripeOK, Becomes, Subscription, Live
    <2>2. Went(w, "tx")
      BY <1>1, <1>3, GotoWent
    <2> QED BY <1>1, <1>3, <2>1, <2>2
  <1> QED BY <1>2, <1>3 DEF Reprice

\* A call that fails.
LEMMA FailGoes ==
    ASSUME TypeInv, NEW w \in Workers, Fail(w)
    PROVE  /\ inv[w].op # "idle"
           /\ \/ /\ inv[w].op = "subscribe" /\ inv[w].pc \notin {"claim", "release"}
                 /\ Went(w, "release") /\ events' = events
              \/ /\ inv[w].op # "subscribe" \/ inv[w].pc \in {"claim", "release"}
                 /\ Gone(w)
                 /\ events' = IF inv[w].ev = None THEN events ELSE events \cup {inv[w].ev}
                 /\ inv[w].op = "subscribe" /\ inv[w].pc = "release" /\ plan = inv[w].plan
                        => "stuck_claim" \in Races
  <1>1. InvOK /\ inv[w].op # "idle"
    BY DEF Fail, TypeInv
  <1>2. CASE inv[w].op = "subscribe" /\ inv[w].pc \notin {"claim", "release"}
    BY <1>1, <1>2, GotoWent DEF Fail
  <1>3. CASE ~(inv[w].op = "subscribe" /\ inv[w].pc \notin {"claim", "release"})
    BY <1>1, <1>3, IdleGone DEF Fail, Only, At
  <1> QED BY <1>2, <1>3

\* A write of subscribeDeploy that commits and throws: the claim stays, or the plan is taken
\* back.
LEMMA LoseGoes ==
    ASSUME TypeInv, NEW w \in Workers, Lose(w)
    PROVE  /\ inv[w].op = "subscribe" /\ inv[w].plan \in Plans /\ plan' = inv[w].plan
           /\ UNCHANGED <<stripe, events, minted, running, teardown, paged>>
           /\ \/ /\ ClaimLost(w) /\ inv[w].pc = "claim" /\ plan = None /\ Gone(w)
                 /\ row' = row /\ limits' = limits
                 /\ row = None \/ Live(row) => "stuck_claim" \in Races
              \/ /\ SubscribeTxLost(w) /\ inv[w].pc = "tx" /\ Went(w, "release")
                 /\ limits' = inv[w].plan
                 /\ row' = IF inv[w].sub # None THEN inv[w].sub ELSE row
                 /\ On("updated", row') \notin events => "lost_commit" \in Races
  <1>1. InvOK /\ inv[w].op = "subscribe" /\ inv[w].plan \in Plans
    BY DEF Lose, ClaimLost, SubscribeTxLost, At, TypeInv, InvOK, Sound
  <1>2. CASE ClaimLost(w)
    BY <1>1, <1>2, IdleGone DEF ClaimLost, At, SetPlan, computeVars, Only
  <1>3. CASE SubscribeTxLost(w)
    BY <1>1, <1>3, GotoWent DEF SubscribeTxLost, At, SetPlan, computeVars, Only
  <1> QED BY <1>2, <1>3 DEF Lose

\* On and off: the claim and the other steps that either go on or give up.
LEMMA ClaimGoes ==
    ASSUME TypeInv, NEW w \in Workers, Claim(w)
    PROVE  /\ inv[w].op = "subscribe" /\ inv[w].pc = "claim"
           /\ \/ /\ plan = None /\ plan' = inv[w].plan
                 /\ \/ inv[w].rec = None /\ Went(w, "create")
                    \/ inv[w].rec # None /\ Went(w, "recorded")
              \/ plan # None /\ plan' = plan /\ Gone(w)
  BY GotoWent, ToCreateWent, IdleGone DEF Claim, At, SetPlan, TypeInv

\* A subscribe resumes the recorded subscription only while it is live.
LEMMA RecordedGoes ==
    ASSUME TypeInv, NEW w \in Workers, SubscribeRecorded(w)
    PROVE  /\ inv[w].op = "subscribe" /\ inv[w].pc = "recorded" /\ inv[w].rec \in Subs
           /\ \/ ~Live(inv[w].rec) /\ Went(w, "create")
              \/ Live(inv[w].rec) /\ (Went(w, "resume") \/ Went(w, "release"))
  <1>1. inv[w].op = "subscribe" /\ inv[w].pc = "recorded" /\ inv[w].rec \in Subs /\ InvOK
    BY DEF SubscribeRecorded, At, TypeInv, InvOK, Sound, Looked
  <1>2. CASE ~Live(inv[w].rec)
    BY <1>1, <1>2, ToCreateWent DEF SubscribeRecorded
  <1>3. CASE Live(inv[w].rec)
    <2>1. Goto(w, "resume") \/ Goto(w, "release")
      BY <1>3 DEF SubscribeRecorded
    <2> QED BY <1>1, <1>3, <2>1, GotoWent
  <1> QED BY <1>2, <1>3

\* A replayed answer is kept if it is live; otherwise the chain goes on.
LEMMA ConfirmGoes ==
    ASSUME TypeInv, NEW w \in Workers, Confirm(w)
    PROVE  /\ inv[w].op = "subscribe" /\ inv[w].pc = "confirm"
           /\ \/ Live(inv[w].sub) /\ Went(w, "tx")
              \/ ~Live(inv[w].sub) /\ Went(w, "create")
  BY GotoWent, ToCreateWent DEF Confirm, At, TypeInv

\* A plan change stops, or goes on to reprice.
LEMMA ChangeRetrieveGoes ==
    ASSUME TypeInv, NEW w \in Workers, ChangeRetrieve(w)
    PROVE  /\ inv[w].op = "change" /\ inv[w].pc = "retrieve"
           /\ Gone(w) \/ Went(w, "reprice")
  BY GotoWent, IdleGone DEF ChangeRetrieve, At, TypeInv

\* The linker takes over from a dead subscription and reports a live one.
LEMMA ConflictGoes ==
    ASSUME TypeInv, NEW w \in Workers, LinkConflict(w)
    PROVE  /\ inv[w].op = "checkout" /\ inv[w].pc = "recorded" /\ inv[w].rec \in Subs
           /\ \/ ~Live(inv[w].rec) /\ Went(w, "tx") /\ events' = events /\ paged' = paged
              \/ /\ Live(inv[w].rec) /\ Finish(w)
                 /\ IF inv[w].ev = None THEN paged' = paged ELSE Page(inv[w].sub)
  <1>1. inv[w].op = "checkout" /\ inv[w].pc = "recorded" /\ inv[w].rec \in Subs /\ InvOK
    BY DEF LinkConflict, At, TypeInv, InvOK, Sound, Looked
  <1>2. CASE ~Live(inv[w].rec)
    BY <1>1, <1>2, GotoWent DEF LinkConflict
  <1>3. CASE Live(inv[w].rec)
    BY <1>1, <1>3 DEF LinkConflict
  <1> QED BY <1>2, <1>3

----------------------------------------------------------------------------
(* What the events and the invocations are about. *)

\* A subscription that exists has a plan, and one with a deleted event is over.
Tagged == \A s \in Subs : Exists(s) => stripe[s].plan \in Plans
Announces(st, e) ==
    st[e.sub].status # "none" /\ (e.type = "deleted" => st[e.sub].status = "canceled")
EventsKnown == \A e \in events : Announces(stripe, e)

\* The steps of each kind of invocation.
InPlace(op, pc) ==
    \/ op = "idle" /\ pc = "idle"
    \/ op = "updated" /\ pc \in {"retrieve", "mirror"} \cup Deprovisioning
    \/ op = "deleted" /\ pc \in {"end"} \cup Deprovisioning
    \/ op = "created" /\ pc = "mirror"
    \/ op = "checkout" /\ pc \in {"read", "recorded", "tx"}
    \/ op = "subscribe" /\ pc \in {"claim", "recorded", "resume", "create", "confirm", "tx",
                                   "release"}
    \/ op = "cancel" /\ pc \in {"stop", "limits"} \cup Deprovisioning
    \/ op = "change" /\ pc \in {"retrieve", "reprice", "tx"}

\* An invocation of the webhook is about its event, and what an invocation has read is what
\* Stripe and the users can have told it.
Informed(st, i) ==
    /\ InPlace(i.op, i.pc)
    /\ i.ev # None => Announces(st, i.ev) /\ i.ev.type = i.op /\ i.ev.sub = i.sub
    /\ i.op \in {"updated", "created", "deleted"} => i.ev # None
    /\ i.op = "checkout" => /\ st[i.sub].status # "none" /\ i.live.plan \in Plans /\ ~i.live.cancelling
                            /\ i.pc # "read" => i.plan = i.live.plan
    /\ i.op = "change" => i.plan \in Plans
    /\ i.op = "created" => i.live = Fresh(i.ev.plan)
    /\ i.op = "updated" /\ i.pc # "retrieve" => i.live.plan \in Plans

DataInv == Tagged /\ EventsKnown /\ \A w \in Workers : Informed(stripe, inv[w])

\* What is over stays over, and no id is given back.
StatusKept ==
    \A s \in Subs : /\ stripe[s].status = "canceled" => stripe'[s].status = "canceled"
                    /\ stripe[s].status # "none" => stripe'[s].status # "none"

\* Stripe as it is, or a subscription that is new, changed or over, keeps them tagged.
LEMMA SameStays ==
    ASSUME Tagged, stripe' = stripe
    PROVE  StatusKept /\ Tagged'
  BY DEF StatusKept, Canceled, Exists, Tagged

\* What Stripe does to a subscription that is not over keeps the over ones over.
LEMMA BecomesStays ==
    ASSUME TypeInv, Tagged, NEW s \in Subs, NEW status \in {"active", "canceled"}, NEW c,
           NEW p \in Plans, ~Canceled(s), Becomes(s, status, c, p)
    PROVE  StatusKept /\ Tagged'
  BY DEF StatusKept, Canceled, Exists, Tagged, Becomes

\* A live subscription has a plan and is not over.
LEMMA LiveFacts ==
    ASSUME Tagged, NEW s \in Subs, Live(s)
    PROVE  stripe[s].plan \in Plans /\ ~Canceled(s) /\ Exists(s)
  BY DEF Tagged, Live, Canceled, Exists

\* What is announced stays so.
LEMMA AnnouncedStays ==
    ASSUME StatusKept, NEW e, e.sub \in Subs, Announces(stripe, e)
    PROVE  Announces(stripe', e)
  BY DEF StatusKept, Announces

\* What the steps have in common.
Tells(w) ==
    \A e \in events' : e \in events \/ (e = inv[w].ev /\ inv[w].ev # None) \/ Announces(stripe', e)
\* The facts about invocations are kept when the one that moves knows what it should.
LEMMA DataAfter ==
    ASSUME TypeInv, DataInv, StatusKept, Tagged', NEW w \in Workers, Others(w),
           Informed(stripe', inv'[w]), Tells(w)
    PROVE  DataInv'
  <1>1. \A v \in Workers : inv[v] \in Invocation /\ Informed(stripe, inv[v]) /\ Sound(inv[v])
    BY DEF TypeInv, InvOK, DataInv
  <1>2. \A v \in Workers : inv[v].ev # None => inv[v].ev \in Event /\ inv[v].ev.sub \in Subs
    BY <1>1, Fields, EventType DEF Maybe
  <1>3. EventsKnown'
    <2> SUFFICES ASSUME NEW e \in events' PROVE Announces(stripe', e)
      BY DEF EventsKnown
    <2>1. CASE e \in events
      <3>1. e.sub \in Subs /\ Announces(stripe, e)
        BY <2>1, EventType DEF DataInv, EventsKnown, TypeInv, StripeOK
      <3> QED BY <3>1, AnnouncedStays
    <2>2. CASE e = inv[w].ev /\ inv[w].ev # None
      <3>1. e.sub \in Subs /\ Announces(stripe, e)
        BY <1>1, <1>2, <2>2 DEF Informed
      <3> QED BY <3>1, AnnouncedStays
    <2> QED BY <2>1, <2>2 DEF Tells
  <1>4. ASSUME NEW v \in Workers, v # w PROVE Informed(stripe', inv'[v])
    <2>1. inv'[v] = inv[v]
      BY <1>4 DEF Others
    <2>2. inv[v].ev # None => Announces(stripe', inv[v].ev)
      BY <1>1, <1>2, AnnouncedStays DEF Informed
    <2>3. inv[v].op = "checkout" => stripe'[inv[v].sub].status # "none"
      BY <1>1 DEF Informed, Sound, StatusKept
    <2>4. Informed(stripe, inv[v])
      BY <1>1
    <2>5. /\ inv'[v].ev # None => Announces(stripe', inv'[v].ev)
          /\ inv'[v].op = "checkout" => stripe'[inv'[v].sub].status # "none"
      BY <2>1, <2>2, <2>3
    <2> QED BY <2>1, <2>4, <2>5 DEF Informed
  <1>5. \A v \in Workers : Informed(stripe', inv'[v])
    BY <1>4
  <1> QED BY <1>3, <1>5 DEF DataInv

\* A worker that is done, or goes on to the next step, is as informed as before.
LEMMA GoneInformed ==
    ASSUME NEW w \in Workers, Gone(w)
    PROVE  Informed(stripe', inv'[w])
  BY IdleFields DEF Gone, Informed, InPlace

\* An invocation that goes on knows what it has read.
LEMMA WentInformed ==
    ASSUME TypeInv, DataInv, StatusKept, NEW w \in Workers, NEW pc, Went(w, pc),
           InPlace(inv[w].op, pc), inv[w].pc # "read", inv[w].pc # "retrieve" \/ pc = "reprice",
           pc \notin {"read", "retrieve"}
    PROVE  Informed(stripe', inv'[w])
  <1>1. inv[w] \in Invocation /\ Informed(stripe, inv[w]) /\ Sound(inv[w])
    BY DEF TypeInv, InvOK, DataInv
  <1>2. inv[w].ev # None => Announces(stripe', inv[w].ev)
    BY <1>1, Fields, EventType, AnnouncedStays DEF Maybe, Informed
  <1>3. inv[w].op = "checkout" => stripe'[inv[w].sub].status # "none"
    BY <1>1 DEF Informed, Sound, StatusKept
  <1>4. pc = "reprice" => inv[w].op = "change"
    BY DEF InPlace, Deprovisioning
  <1>5. /\ inv'[w].ev # None => Announces(stripe', inv'[w].ev)
        /\ inv'[w].op = "checkout" => stripe'[inv'[w].sub].status # "none"
    BY <1>2, <1>3 DEF Went, SameRead
  <1> QED BY <1>1, <1>4, <1>5 DEF Informed, Went, SameRead

\* Steps that leave Stripe and its events alone.
LEMMA WentData ==
    ASSUME TypeInv, DataInv, NEW w \in Workers, NEW pc, Went(w, pc), stripe' = stripe,
           events' = events, InPlace(inv[w].op, pc), inv[w].pc # "read",
           inv[w].pc # "retrieve" \/ pc = "reprice", pc \notin {"read", "retrieve"}
    PROVE  DataInv'
  <1>1. StatusKept /\ Tagged'
    BY SameStays DEF DataInv
  <1>2. Informed(stripe', inv'[w]) /\ Others(w)
    BY <1>1, WentInformed DEF Went
  <1>3. Tells(w)
    BY DEF Tells
  <1> QED BY <1>1, <1>2, <1>3, DataAfter

\* An invocation that stops knows nothing that could be wrong.
LEMMA GoneData ==
    ASSUME TypeInv, DataInv, NEW w \in Workers, Gone(w), stripe' = stripe, Tells(w)
    PROVE  DataInv'
  <1>1. StatusKept /\ Tagged'
    BY SameStays DEF DataInv
  <1>2. Informed(stripe', inv'[w]) /\ Others(w)
    BY GoneInformed DEF Gone
  <1> QED BY <1>1, <1>2, DataAfter

\* Nor does one that has answered.
LEMMA FinishData ==
    ASSUME TypeInv, DataInv, NEW w \in Workers, Finish(w), stripe' = stripe
    PROVE  DataInv'
  BY FinishGone, GoneData DEF Tells, TypeInv

\* DeprovisionCompute and what follows it.
LEMMA DeprovisionData ==
    ASSUME TypeInv, DataInv, NEW w \in Workers,
           \/ DeprovisionGate(w) \/ DispatchTeardown(w) \/ EndEnforcement(w)
           \/ ClearWorkspaceDeployPlan(w)
    PROVE  DataInv'
  <1>1. inv[w].pc \in Deprovisioning /\ inv[w].op \in Deprovisioners /\ InvOK
    BY DEF DeprovisionGate, DispatchTeardown, EndEnforcement, ClearWorkspaceDeployPlan,
           Deprovisioning, TypeInv, InvOK, Sound
  <1>2. stripe' = stripe /\ events' = events
    BY DEF DeprovisionGate, DispatchTeardown, EndEnforcement, ClearWorkspaceDeployPlan
  <1>3. PICK pc \in {"dispatch", "unsuspend", "clear", AfterDeprovision(inv[w].op)} : Goto(w, pc)
    BY DEF DeprovisionGate, DispatchTeardown, EndEnforcement, ClearWorkspaceDeployPlan
  <1>4. InPlace(inv[w].op, pc) /\ pc \notin {"read", "retrieve"}
    BY <1>1, <1>3 DEF InPlace, Deprovisioning, Deprovisioners, AfterDeprovision
  <1>5. inv[w].pc \notin {"read", "retrieve"}
    BY <1>1 DEF Deprovisioning
  <1>6. Went(w, pc)
    BY <1>1, <1>3, GotoWent
  <1> QED BY <1>2, <1>4, <1>5, <1>6, WentData

\* The steps that only move on.
LEMMA MoveData ==
    ASSUME TypeInv, DataInv, NEW w \in Workers,
           \/ Claim(w) \/ SubscribeRecorded(w) \/ Decline(w) \/ Confirm(w) \/ ChangeRetrieve(w)
    PROVE  DataInv'
  <1>1. stripe' = stripe /\ events' = events
    BY DEF Claim, SubscribeRecorded, Decline, Confirm, ChangeRetrieve
  <1>2. \/ Gone(w)
        \/ \E pc \in {"create", "recorded", "resume", "release", "tx"} :
               Went(w, pc) /\ inv[w].op = "subscribe" /\ inv[w].pc \notin {"read", "retrieve"}
        \/ Went(w, "reprice") /\ inv[w].op = "change" /\ inv[w].pc = "retrieve"
    BY ClaimGoes, RecordedGoes, ConfirmGoes, ChangeRetrieveGoes, GotoWent DEF Decline, At, TypeInv
  <1>3. CASE Gone(w)
    BY <1>1, <1>3, GoneData DEF Tells
  <1>4. ASSUME NEW pc \in {"create", "recorded", "resume", "release", "tx"},
               Went(w, pc), inv[w].op = "subscribe", inv[w].pc \notin {"read", "retrieve"}
        PROVE  DataInv'
    <2>1. InPlace(inv[w].op, pc)
      BY <1>4 DEF InPlace
    <2> QED BY <1>1, <1>4, <2>1, WentData
  <1>5. CASE Went(w, "reprice") /\ inv[w].op = "change" /\ inv[w].pc = "retrieve"
    <2>1. InPlace(inv[w].op, "reprice")
      BY <1>5 DEF InPlace
    <2> QED BY <1>1, <1>5, <2>1, WentData
  <1> QED BY <1>2, <1>3, <1>4, <1>5

\* The steps that answer.
LEMMA AnswerData ==
    ASSUME TypeInv, DataInv, NEW w \in Workers,
           \/ Mirror(w) \/ DeletedEnd(w) \/ LinkTx(w) \/ SubscribeTx(w) \/ Release(w)
           \/ CancelLimits(w) \/ ChangeTx(w)
    PROVE  DataInv'
  BY FinishData DEF Mirror, DeletedEnd, LinkTx, SubscribeTx, Release, CancelLimits, ChangeTx

\* The reads of the webhook and of the linker.
LEMMA ReadData ==
    ASSUME TypeInv, DataInv, NEW w \in Workers,
           UpdatedRetrieve(w) \/ LinkRead(w) \/ LinkConflict(w)
    PROVE  DataInv'
  <1>1. stripe' = stripe /\ StatusKept /\ Tagged'
    BY SameStays DEF UpdatedRetrieve, LinkRead, LinkConflict, DataInv
  <1>2. inv[w] \in Invocation /\ Informed(stripe, inv[w]) /\ Sound(inv[w])
    BY DEF TypeInv, InvOK, DataInv
  <1>3. inv[w].ev # None => Announces(stripe', inv[w].ev)
    BY <1>1, <1>2, Fields, EventType, AnnouncedStays DEF Maybe, Informed
  <1>4. inv[w].sub \in Subs /\ stripe'[inv[w].sub].status # "none" /\ stripe[inv[w].sub].plan \in Plans
    BY <1>1, <1>2, RetrieveReads, LinkReads, ConflictGoes
       DEF Informed, Sound, DataInv, Tagged, Exists, Announces
  <1>5. CASE UpdatedRetrieve(w)
    <2>1. events' = events
      BY <1>5 DEF UpdatedRetrieve
    <2>2. /\ Others(w) /\ inv'[w].op = "updated" /\ inv'[w].ev = inv[w].ev
          /\ inv'[w].sub = inv[w].sub /\ inv'[w].live.plan \in Plans
          /\ inv'[w].pc \in {"gate", "mirror"} /\ inv[w].op = "updated"
      BY <1>4, <1>5, RetrieveReads
    <2>3. inv'[w].ev # None => Announces(stripe', inv'[w].ev)
      BY <1>3, <2>2
    <2>4. InPlace(inv'[w].op, inv'[w].pc)
      BY <2>2 DEF InPlace, Deprovisioning
    <2>5. Informed(stripe', inv'[w])
      BY <1>2, <2>2, <2>3, <2>4 DEF Informed
    <2> QED BY <1>1, <2>1, <2>2, <2>5, DataAfter DEF Tells
  <1>6. CASE LinkRead(w)
    <2>1. CASE Finish(w)
      BY <1>1, <2>1, FinishData
    <2>2. CASE ~Finish(w)
      <3>1. /\ events' = events
            /\ Others(w) /\ inv'[w].op = "checkout" /\ inv'[w].ev = inv[w].ev
            /\ inv'[w].sub = inv[w].sub /\ inv'[w].live = inv[w].live
            /\ inv'[w].plan = inv[w].live.plan /\ inv'[w].pc \in {"recorded", "tx"}
            /\ inv[w].op = "checkout"
        BY <1>6, <2>2, LinkReads
      <3>2. inv'[w].ev # None => Announces(stripe', inv'[w].ev)
        BY <1>3, <3>1
      <3>3. InPlace(inv'[w].op, inv'[w].pc) /\ stripe'[inv'[w].sub].status # "none"
        BY <1>4, <3>1 DEF InPlace
      <3>4. Informed(stripe', inv'[w])
        BY <1>2, <3>1, <3>2, <3>3 DEF Informed
      <3> QED BY <1>1, <3>1, <3>4, DataAfter DEF Tells
    <2> QED BY <2>1, <2>2
  <1>7. CASE LinkConflict(w)
    <2>1. InPlace("checkout", "tx")
      BY DEF InPlace
    <2> QED BY <1>1, <1>7, <2>1, ConflictGoes, FinishData, WentData
  <1> QED BY <1>5, <1>6, <1>7

\* An event of Stripe is about a subscription it has.
LEMMA OnAnnounces ==
    ASSUME NEW st, NEW s, st[s].status # "none"
    PROVE  /\ Announces(st, On("updated", s)) /\ Announces(st, On("checkout", s))
           /\ \A p : Announces(st, Created(s, p))
           /\ st[s].status = "canceled" => Announces(st, On("deleted", s))
  BY DEF Announces, On, Created

\* The steps that ask Stripe to change something.
LEMMA ChargeData ==
    ASSUME TypeInv, DataInv, ChainInv, NEW w \in Workers,
           Create(w) \/ Resume(w) \/ StopRenewal(w) \/ Reprice(w)
    PROVE  DataInv'
  <1>1. inv[w] \in Invocation /\ Informed(stripe, inv[w]) /\ Sound(inv[w]) /\ Tagged
    BY DEF TypeInv, InvOK, DataInv
  <1>2. CASE Create(w)
    <2>1. /\ Others(w) /\ inv[w].op = "subscribe" /\ inv'[w].op = "subscribe"
          /\ inv'[w].ev = inv[w].ev /\ inv'[w].pc = AfterCreate(inv[w].key)
      BY <1>2, CreateReads
    <2>2. inv[w].plan \in Plans
      BY <1>1, <2>1 DEF Sound
    <2>3. inv[w].ev = None
      BY <1>1, <2>1, Fields, EventType DEF Informed, Maybe
    <2>4. Informed(stripe', inv'[w])
      BY <2>1, <2>3 DEF Informed, InPlace, AfterCreate
    <2>5. CASE UNCHANGED <<stripe, minted, events>>
      BY <1>1, <2>1, <2>4, <2>5, SameStays, DataAfter DEF Tells
    <2>6. ASSUME NEW s \in Subs, stripe[s] = Unused,
                 events' = events \cup {Created(s, inv[w].plan)},
                 Becomes(s, "active", FALSE, inv[w].plan)
          PROVE  DataInv'
      <3>1. ~Canceled(s)
        BY <2>6 DEF Canceled, Unused
      <3>2. StatusKept /\ Tagged'
        BY <1>1, <2>2, <2>6, <3>1, BecomesStays
      <3>3. Announces(stripe', Created(s, inv[w].plan))
        BY <2>6, OnAnnounces DEF Becomes
      <3>4. Tells(w)
        BY <2>6, <3>3 DEF Tells
      <3> QED BY <2>1, <2>4, <3>2, <3>4, DataAfter
    <2> QED BY <1>2, <2>5, <2>6, CreateReads
  <1>3. ASSUME NEW s \in Subs, Live(s), NEW c, NEW p \in Plans, Becomes(s, "active", c, p),
               NEW pc, Went(w, pc), events' \subseteq events \cup {On("updated", s)},
               InPlace(inv[w].op, pc), inv[w].pc \notin {"read", "retrieve"},
               pc \notin {"read", "retrieve"}
        PROVE  DataInv'
    <2>1. StatusKept /\ Tagged'
      BY <1>1, <1>3, LiveFacts, BecomesStays
    <2>2. Announces(stripe', On("updated", s))
      BY <1>3, OnAnnounces DEF Becomes
    <2>3. Informed(stripe', inv'[w])
      BY <1>3, <2>1, WentInformed
    <2>4. Tells(w) /\ Others(w)
      BY <1>3, <2>2 DEF Tells, Went
    <2> QED BY <2>1, <2>3, <2>4, DataAfter
  <1>4. CASE Resume(w)
    <2>1. InPlace("subscribe", "tx") /\ InPlace("subscribe", "release")
      BY DEF InPlace
    <2>2. inv[w].rec \in Subs /\ (Live(inv[w].rec) => stripe[inv[w].rec].plan \in Plans)
      BY <1>1, <1>4, ResumeBecomes, LiveFacts
    <2>3. CASE ~Live(inv[w].rec)
      BY <1>4, <2>1, <2>3, ResumeBecomes, WentData
    <2>4. CASE Live(inv[w].rec)
      <3>1. /\ Becomes(inv[w].rec, "active", FALSE, stripe[inv[w].rec].plan) /\ Went(w, "tx")
            /\ inv[w].op = "subscribe" /\ inv[w].pc = "resume"
            /\ events' \subseteq events \cup {On("updated", inv[w].rec)}
        BY <1>4, <2>4, ResumeBecomes
      <3> QED BY <1>3, <2>1, <2>2, <2>4, <3>1
    <2> QED BY <2>3, <2>4
  <1>5. CASE StopRenewal(w)
    <2>1. InPlace("cancel", "gate")
      BY DEF InPlace, Deprovisioning
    <2>2. /\ inv[w].rec \in Subs /\ (Renewing(inv[w].rec) => Live(inv[w].rec))
          /\ (Live(inv[w].rec) => stripe[inv[w].rec].plan \in Plans)
      BY <1>1, <1>5, StopBecomes, LiveFacts DEF Renewing
    <2>3. CASE ~Renewing(inv[w].rec)
      BY <1>5, <2>1, <2>3, StopBecomes, WentData
    <2>4. CASE Renewing(inv[w].rec)
      <3>1. /\ Becomes(inv[w].rec, "active", TRUE, stripe[inv[w].rec].plan) /\ Went(w, "gate")
            /\ inv[w].op = "cancel" /\ inv[w].pc = "stop"
            /\ events' \subseteq events \cup {On("updated", inv[w].rec)}
        BY <1>5, <2>4, StopBecomes
      <3> QED BY <1>3, <2>1, <2>2, <2>4, <3>1
    <2> QED BY <2>3, <2>4
  <1>6. CASE Reprice(w)
    <2>1. InPlace("change", "tx")
      BY DEF InPlace
    <2>2. inv[w].rec \in Subs /\ inv[w].plan \in Plans
      BY <1>1, <1>6, RepriceBecomes DEF Informed
    <2>3. CASE Gone(w) /\ stripe' = stripe /\ events' = events
      BY <2>3, GoneData DEF Tells
    <2>4. CASE /\ Live(inv[w].rec) /\ Went(w, "tx")
               /\ Becomes(inv[w].rec, "active", stripe[inv[w].rec].cancelling, inv[w].plan)
               /\ events' = events \cup {On("updated", inv[w].rec)}
      <3>1. inv[w].op = "change" /\ inv[w].pc = "reprice"
        BY <1>6, RepriceBecomes
      <3> QED BY <1>3, <2>1, <2>2, <2>4, <3>1
    <2> QED BY <1>6, <2>3, <2>4, RepriceBecomes
  <1> QED BY <1>2, <1>4, <1>5, <1>6

\* A call that fails.
LEMMA FailData ==
    ASSUME TypeInv, DataInv, NEW w \in Workers, Fail(w)
    PROVE  DataInv'
  <1>1. stripe' = stripe
    BY DEF Fail
  <1>2. CASE /\ inv[w].op = "subscribe" /\ inv[w].pc \notin {"claim", "release"}
             /\ Went(w, "release") /\ events' = events
    <2>1. InPlace("subscribe", "release") /\ inv[w].pc \notin {"read", "retrieve"}
      BY <1>2 DEF InPlace, DataInv, Informed
    <2> QED BY <1>1, <1>2, <2>1, WentData
  <1>3. CASE Gone(w) /\ events' = IF inv[w].ev = None THEN events ELSE events \cup {inv[w].ev}
    BY <1>1, <1>3, GoneData DEF Tells
  <1> QED BY <1>2, <1>3, FailGoes

\* A write that commits without an answer.
LEMMA LoseData ==
    ASSUME TypeInv, DataInv, NEW w \in Workers, Lose(w)
    PROVE  DataInv'
  <1>1. stripe' = stripe /\ events' = events
    BY LoseGoes
  <1>2. CASE inv[w].op = "subscribe" /\ inv[w].pc = "tx" /\ Went(w, "release")
    <2>1. InPlace("subscribe", "release") /\ inv[w].pc \notin {"read", "retrieve"}
      BY <1>2 DEF InPlace
    <2> QED BY <1>1, <1>2, <2>1, WentData
  <1>3. CASE Gone(w)
    BY <1>1, <1>3, GoneData DEF Tells
  <1> QED BY <1>2, <1>3, LoseGoes

\* The events that arrive.
LEMMA HandleData ==
    ASSUME TypeInv, DataInv, NEW w \in Workers, NEW e \in events, Handle(w, e)
    PROVE  DataInv'
  <1>1. stripe' = stripe /\ StatusKept /\ Tagged'
    BY SameStays DEF Handle, UpdatedUnknown, UpdatedLookup, CreatedUnknown, CreatedLookup,
       DeletedUnknown, DeletedLookup, LinkInactive, LinkRetrieve, DataInv
  <1>2. e \in Event /\ e.sub \in Subs /\ Announces(stripe', e)
    BY <1>1, EventType DEF TypeInv, StripeOK, DataInv, EventsKnown
  <1>3. CASE Ignore(w, e)
    <2>1. inv' = inv /\ Others(w) /\ Tells(w)
      BY <1>3, IgnoreBegan DEF Others, Tells
    <2>2. Informed(stripe', inv'[w])
      BY <1>1, <2>1 DEF DataInv
    <2> QED BY <1>1, <2>1, <2>2, DataAfter
  <1>4. ASSUME Began(w), events' = events \ {e}, Informed(stripe', inv'[w])
        PROVE  DataInv'
    BY <1>1, <1>4, DataAfter DEF Began, Tells
  <1>5. CASE UpdatedLookup(w, e)
    <2>1. /\ Began(w) /\ events' = events \ {e} /\ inv'[w].op = "updated"
          /\ inv'[w].pc = "retrieve" /\ inv'[w].ev = e /\ inv'[w].sub = e.sub
          /\ e.type = "updated"
      BY <1>5, UpdatedBegins
    <2>2. Informed(stripe', inv'[w])
      BY <1>2, <2>1, NoEventAssumption DEF Informed, InPlace
    <2> QED BY <1>4, <2>1, <2>2
  <1>6. CASE CreatedLookup(w, e)
    <2>1. /\ Began(w) /\ events' = events \ {e} /\ inv'[w].op = "created"
          /\ inv'[w].pc = "mirror" /\ inv'[w].ev = e /\ inv'[w].sub = e.sub
          /\ e.type = "created" /\ inv'[w].live = Fresh(e.plan)
      BY <1>6, CreatedBegins
    <2>2. Informed(stripe', inv'[w])
      BY <1>2, <2>1, NoEventAssumption DEF Informed, InPlace
    <2> QED BY <1>4, <2>1, <2>2
  <1>7. CASE DeletedLookup(w, e)
    <2>1. /\ Began(w) /\ events' = events \ {e} /\ inv'[w].op = "deleted"
          /\ inv'[w].pc \in {"gate", "end"} /\ inv'[w].ev = e /\ inv'[w].sub = e.sub
          /\ e.type = "deleted"
      BY <1>7, DeletedBegins
    <2>2. Informed(stripe', inv'[w])
      BY <1>2, <2>1, NoEventAssumption DEF Informed, InPlace, Deprovisioning
    <2> QED BY <1>4, <2>1, <2>2
  <1>8. CASE LinkRetrieve(w, e)
    <2>1. /\ Began(w) /\ events' = events \ {e} /\ inv'[w].op = "checkout"
          /\ inv'[w].pc = "read" /\ inv'[w].ev = e /\ inv'[w].sub = e.sub
          /\ e.type = "checkout" /\ inv'[w].live = stripe[e.sub] /\ Renewing(e.sub)
      BY <1>8, LinkBegins
    <2>2. /\ stripe'[e.sub].status # "none" /\ inv'[w].live.plan \in Plans
          /\ ~inv'[w].live.cancelling
      BY <1>1, <1>2, <2>1, LiveFacts DEF Renewing, DataInv, Exists
    <2>3. Informed(stripe', inv'[w])
      BY <1>2, <2>1, <2>2, NoEventAssumption DEF Informed, InPlace
    <2> QED BY <1>4, <2>1, <2>3
  <1> QED BY <1>3, <1>5, <1>6, <1>7, <1>8
          DEF Handle, UpdatedUnknown, CreatedUnknown, DeletedUnknown, LinkInactive

\* The requests of the users.
LEMMA AskData ==
    ASSUME TypeInv, DataInv, NEW w \in Workers, Ask(w)
    PROVE  DataInv'
  <1>1. stripe' = stripe /\ StatusKept /\ Tagged'
    BY SameStays DEF Ask, Subscribe, Change, LinkFromSuccess, Cancel, DataInv
  <1>2. ASSUME Began(w), events' = events, Informed(stripe', inv'[w])
        PROVE  DataInv'
    BY <1>1, <1>2, DataAfter DEF Began, Tells
  <1>3. ASSUME NEW p \in Plans, Subscribe(w, p) PROVE DataInv'
    <2>1. Informed(stripe', inv'[w])
      BY <1>3, SubscribeBegins DEF Informed, InPlace
    <2> QED BY <1>2, <1>3, <2>1, SubscribeBegins
  <1>4. ASSUME NEW p \in Plans, Change(w, p) PROVE DataInv'
    <2>1. Informed(stripe', inv'[w])
      BY <1>4, ChangeBegins DEF Informed, InPlace
    <2> QED BY <1>2, <1>4, <2>1, ChangeBegins
  <1>5. ASSUME NEW s \in Subs, LinkFromSuccess(w, s) PROVE DataInv'
    <2>1. /\ Began(w) /\ events' = events /\ inv'[w].op = "checkout" /\ inv'[w].pc = "read"
          /\ inv'[w].ev = None /\ inv'[w].sub = s /\ inv'[w].live = stripe[s] /\ Renewing(s)
      BY <1>5, SuccessBegins
    <2>2. stripe'[s].status # "none" /\ inv'[w].live.plan \in Plans /\ ~inv'[w].live.cancelling
      BY <1>1, <2>1, LiveFacts DEF Renewing, DataInv, Exists
    <2>3. Informed(stripe', inv'[w])
      BY <2>1, <2>2 DEF Informed, InPlace
    <2> QED BY <1>2, <2>1, <2>3
  <1>6. CASE Cancel(w)
    <2>1. Informed(stripe', inv'[w])
      BY <1>6, CancelBegins DEF Informed, InPlace, Deprovisioning
    <2> QED BY <1>2, <1>6, <2>1, CancelBegins
  <1> QED BY <1>3, <1>4, <1>5, <1>6 DEF Ask

\* What happens outside.
LEMMA EnvironmentData ==
    ASSUME TypeInv, DataInv, Environment
    PROVE  DataInv'
  <1>0. inv' = inv /\ \A v \in Workers : inv[v] \in Invocation /\ Sound(inv[v])
    BY DEF Environment, CheckoutPaid, PeriodEnd, PortalCancel, KeysExpire, Deploy, Teardown, TypeInv, InvOK
  <1>1. ASSUME StatusKept, Tagged', \A e \in events' : e \in events \/ Announces(stripe', e)
        PROVE  DataInv'
    <2>1. EventsKnown'
      <3> SUFFICES ASSUME NEW e \in events' PROVE Announces(stripe', e)
        BY DEF EventsKnown
      <3>1. CASE e \in events
        <4>1. e.sub \in Subs /\ Announces(stripe, e)
          BY <3>1, EventType DEF DataInv, EventsKnown, TypeInv, StripeOK
        <4> QED BY <1>1, <4>1, AnnouncedStays
      <3> QED BY <1>1, <3>1
    <2>2. ASSUME NEW v \in Workers PROVE Informed(stripe', inv'[v])
      <3>1. inv'[v] = inv[v] /\ Informed(stripe, inv[v]) /\ Sound(inv[v])
        BY <1>0 DEF DataInv
      <3>2. inv[v].ev # None => Announces(stripe', inv[v].ev)
        BY <1>0, <1>1, <3>1, Fields, EventType, AnnouncedStays DEF Maybe, Informed
      <3>3. inv[v].op = "checkout" => stripe'[inv[v].sub].status # "none"
        BY <1>1, <3>1 DEF Informed, Sound, StatusKept
      <3> QED BY <3>1, <3>2, <3>3 DEF Informed
    <2> QED BY <1>1, <2>1, <2>2 DEF DataInv
  <1>2. ASSUME NEW s \in Subs, NEW p \in Plans, CheckoutPaid(s, p) PROVE DataInv'
    <2>0. stripe[s] = Unused /\ Becomes(s, "active", FALSE, p)
      BY <1>2, PaidBecomes
    <2>1. /\ Becomes(s, "active", FALSE, p) /\ ~Canceled(s)
          /\ events' = events \cup {Created(s, p), On("checkout", s)}
      BY <1>2, <2>0, IdleFields DEF CheckoutPaid, Canceled
    <2>2. StatusKept /\ Tagged'
      BY <2>1, BecomesStays DEF DataInv
    <2>3. Announces(stripe', Created(s, p)) /\ Announces(stripe', On("checkout", s))
      BY <2>1, OnAnnounces DEF Becomes
    <2> QED BY <1>1, <2>1, <2>2, <2>3
  <1>3. ASSUME NEW s \in Subs, PortalCancel(s) PROVE DataInv'
    <2>1. /\ Becomes(s, "active", ~stripe[s].cancelling, stripe[s].plan) /\ Live(s)
          /\ events' = events \cup {On("updated", s)}
      BY <1>3, PortalBecomes DEF PortalCancel
    <2>2. stripe[s].plan \in Plans /\ ~Canceled(s)
      BY <2>1, LiveFacts DEF DataInv
    <2>3. StatusKept /\ Tagged'
      BY <2>1, <2>2, BecomesStays DEF DataInv
    <2>4. Announces(stripe', On("updated", s))
      BY <2>1, OnAnnounces DEF Becomes
    <2> QED BY <1>1, <2>1, <2>3, <2>4
  <1>4. ASSUME NEW s \in Subs, PeriodEnd(s) PROVE DataInv'
    <2>1. /\ Becomes(s, "canceled", stripe[s].cancelling, stripe[s].plan) /\ Live(s)
          /\ events' = events \cup {On("deleted", s)}
      BY <1>4, PeriodBecomes DEF PeriodEnd
    <2>2. stripe[s].plan \in Plans /\ ~Canceled(s)
      BY <2>1, LiveFacts DEF DataInv
    <2>3. StatusKept /\ Tagged'
      BY <2>1, <2>2, BecomesStays DEF DataInv
    <2>4. Announces(stripe', On("deleted", s))
      BY <2>1, OnAnnounces DEF Becomes
    <2> QED BY <1>1, <2>1, <2>3, <2>4
  <1>5. CASE KeysExpire \/ Deploy \/ Teardown
    <2>1. stripe' = stripe /\ events' = events
      BY <1>5 DEF KeysExpire, Deploy, Teardown
    <2> QED BY <1>1, <2>1, SameStays DEF DataInv
  <1> QED BY <1>2, <1>3, <1>4, <1>5 DEF Environment

\* Every step keeps it, whatever races.
Facts == TypeInv /\ ChainInv /\ DataInv
\* The common facts hold initially.
LEMMA FactsInit == Init => Facts
  <1> SUFFICES ASSUME Init PROVE Facts
    OBVIOUS
  <1>1. TypeInv /\ ChainInv
    BY InitType, InitChain
  <1>2. Tagged /\ EventsKnown
    BY DEF Init, Tagged, Exists, Unused, EventsKnown
  <1>3. \A w \in Workers : Informed(stripe, inv[w])
    BY IdleFields DEF Init, Informed, InPlace
  <1> QED BY <1>1, <1>2, <1>3 DEF Facts, DataInv

\* The common facts are preserved by every step, whatever races.
LEMMA FactsNext == Facts /\ [Next]_vars => Facts'
  <1> SUFFICES ASSUME Facts, [Next]_vars PROVE Facts'
    OBVIOUS
  <1>0. TypeInv /\ ChainInv /\ DataInv /\ TypeInv' /\ ChainInv'
    BY NextType, NextChain DEF Facts
  <1>1. ASSUME NEW w \in Workers, Step(w) PROVE DataInv'
    BY <1>0, <1>1, DeprovisionData, MoveData, AnswerData, ReadData, ChargeData DEF Step
  <1>2. ASSUME UNCHANGED vars PROVE Facts'
    <2>1. stripe' = stripe /\ events' = events /\ inv' = inv
      BY <1>2 DEF vars
    <2>2. Tagged'
      BY <1>0, <2>1, SameStays DEF DataInv
    <2>3. EventsKnown' /\ \A w \in Workers : Informed(stripe', inv'[w])
      BY <1>0, <2>1 DEF DataInv, EventsKnown
    <2>4. DataInv'
      BY <2>2, <2>3 DEF DataInv
    <2> QED BY <1>0, <2>4 DEF Facts
  <1> QED BY <1>0, <1>1, <1>2, AskData, FailData, LoseData, HandleData, EnvironmentData
          DEF Next, Facts

----------------------------------------------------------------------------
(* Compute is billed.                                                      *)

\* Compute that runs is about to be torn down.
Covered == running => teardown

\* The invocations that have seen to it, or have found that no plan was set, and that may
\* clear the plan.
Clears(i) ==
    \/ i.op = "subscribe" /\ i.pc # "claim"
    \/ i.pc \in {"unsuspend", "clear", "end"}
    \/ i.pc = "mirror" /\ MirroredPlan(i.live) = None /\ i.snap # None

BilledInv ==
    /\ plan = None => Covered
    /\ \A w \in Workers : Clears(inv[w]) => Covered

\* A step that starts no deployment keeps it, if the plan or the worker that makes it so is
\* covered.
LEMMA BilledAfter ==
    ASSUME TypeInv, BilledInv, NEW w \in Workers, Others(w), Covered => Covered',
           plan' = None => plan = None \/ Covered, Clears(inv'[w]) => Clears(inv[w]) \/ Covered'
    PROVE  BilledInv'
  BY DEF BilledInv, Others

\* No plan is cleared with the worker that is done,
LEMMA BilledGone ==
    ASSUME TypeInv, BilledInv, NEW w \in Workers, Gone(w), UNCHANGED <<running, teardown>>,
           plan' = None => plan = None \/ Covered
    PROVE  BilledInv'
  <1>1. ~Clears(inv'[w]) /\ Others(w)
    BY IdleFields DEF Gone, Clears
  <1>2. Covered => Covered'
    BY DEF Covered
  <1> QED BY <1>1, <1>2, BilledAfter

\* or begins.
LEMMA BilledBegan ==
    ASSUME TypeInv, BilledInv, NEW w \in Workers, Others(w),
           UNCHANGED <<running, teardown, plan>>, Clears(inv'[w]) => plan = None
    PROVE  BilledInv'
  <1>1. Covered => Covered'
    BY DEF Covered
  <1>2. Clears(inv'[w]) => Covered'
    BY <1>1 DEF BilledInv
  <1> QED BY <1>1, <1>2, BilledAfter

\* DeprovisionCompute dispatches the teardown before it clears the plan, unless Restate takes
\* a second one for the first.
LEMMA DeprovisionBilled ==
    ASSUME TypeInv, DataInv, BilledInv, "deduped_teardown" \notin Races, NEW w \in Workers,
           \/ DeprovisionGate(w) \/ DispatchTeardown(w) \/ EndEnforcement(w)
           \/ ClearWorkspaceDeployPlan(w)
    PROVE  BilledInv'
  <1>1. InvOK /\ inv[w].op \in Deprovisioners
    BY DEF DeprovisionGate, DispatchTeardown, EndEnforcement, ClearWorkspaceDeployPlan,
           Deprovisioning, TypeInv, InvOK, Sound
  <1>2. CASE DeprovisionGate(w)
    <2>1. UNCHANGED <<running, teardown, plan>>
      BY <1>2 DEF DeprovisionGate, dbVars, computeVars
    <2>2. Went(w, IF plan = None THEN AfterDeprovision(inv[w].op) ELSE "dispatch")
      BY <1>1, <1>2, GotoWent DEF DeprovisionGate
    <2>3. Others(w) /\ (plan # None => ~Clears(inv'[w]))
      BY <1>1, <2>2 DEF Went, SameRead, Clears, Deprovisioners
    <2> QED BY <2>1, <2>3, BilledBegan
  <1>3. CASE DispatchTeardown(w)
    <2>1. /\ Covered' /\ plan' = plan
      BY <1>3 DEF DispatchTeardown, Covered, Only, TypeInv, RestOK, DbOK
    <2>2. Others(w)
      BY <1>1, <1>3, GotoWent DEF DispatchTeardown, Went
    <2> QED BY <2>1, <2>2, BilledAfter
  <1>4. CASE EndEnforcement(w)
    <2>1. /\ plan' = plan /\ Covered
      BY <1>4 DEF EndEnforcement, BilledInv, Clears
    <2>2. Covered' /\ Others(w)
      BY <1>1, <1>4, <2>1, GotoWent DEF EndEnforcement, Went, Covered, computeVars
    <2> QED BY <2>1, <2>2, BilledAfter
  <1>5. CASE ClearWorkspaceDeployPlan(w)
    <2>1. Covered
      BY <1>5 DEF ClearWorkspaceDeployPlan, BilledInv, Clears
    <2>2. Covered' /\ Others(w)
      BY <1>1, <1>5, <2>1, GotoWent DEF ClearWorkspaceDeployPlan, Went, Covered, computeVars
    <2> QED BY <2>1, <2>2, BilledAfter
  <1> QED BY <1>2, <1>3, <1>4, <1>5

\* The steps that answer set a plan, or clear one that is covered.
LEMMA AnswerBilled ==
    ASSUME TypeInv, DataInv, BilledInv, NEW w \in Workers,
           \/ Mirror(w) \/ DeletedEnd(w) \/ LinkTx(w) \/ SubscribeTx(w) \/ Release(w)
           \/ CancelLimits(w) \/ ChangeTx(w)
    PROVE  BilledInv'
  <1>1. Gone(w) /\ UNCHANGED <<running, teardown>>
    BY FinishGone DEF Mirror, DeletedEnd, LinkTx, SubscribeTx, Release, CancelLimits, ChangeTx,
                      computeVars, TypeInv
  <1>2. /\ inv[w] \in Invocation /\ Informed(stripe, inv[w]) /\ Sound(inv[w])
        /\ Clears(inv[w]) => Covered
    BY DEF TypeInv, InvOK, DataInv, BilledInv
  <1>3. plan' = None => plan = None \/ Covered
    <2>1. CASE Mirror(w)
      BY <1>2, <2>1 DEF Mirror, SetPlan, Clears
    <2>2. CASE DeletedEnd(w) \/ Release(w)
      BY <1>2, <2>2 DEF DeletedEnd, Release, At, Clears
    <2>3. CASE LinkTx(w)
      BY <1>2, <2>3, NullAssumption DEF LinkTx, At, SetPlan, Informed
    <2>4. CASE SubscribeTx(w) \/ ChangeTx(w)
      BY <1>2, <2>4, NullAssumption DEF SubscribeTx, ChangeTx, At, SetPlan, Informed, Sound
    <2>5. CASE CancelLimits(w)
      BY <2>5 DEF CancelLimits
    <2> QED BY <2>1, <2>2, <2>3, <2>4, <2>5
  <1> QED BY <1>1, <1>3, BilledGone

\* The other steps.
LEMMA MoveBilled ==
    ASSUME TypeInv, DataInv, BilledInv, NEW w \in Workers,
           \/ UpdatedRetrieve(w) \/ LinkRead(w) \/ LinkConflict(w)
           \/ Claim(w) \/ SubscribeRecorded(w) \/ Resume(w) \/ Create(w) \/ Decline(w)
           \/ Confirm(w) \/ StopRenewal(w) \/ ChangeRetrieve(w) \/ Reprice(w)
    PROVE  BilledInv'
  <1>1. UNCHANGED <<running, teardown>>
    BY DEF UpdatedRetrieve, LinkRead, LinkConflict, Claim, SubscribeRecorded, Resume, Create,
           Decline, Confirm, StopRenewal, ChangeRetrieve, Reprice, computeVars
  <1>2. /\ inv[w] \in Invocation /\ Informed(stripe, inv[w]) /\ Sound(inv[w])
        /\ Clears(inv[w]) => Covered
    BY DEF TypeInv, InvOK, DataInv, BilledInv
  <1>3. Covered => Covered'
    BY <1>1 DEF Covered
  <1>4. CASE Claim(w)
    <2>1. CASE Gone(w) /\ plan' = plan
      BY <1>1, <2>1, BilledGone
    <2>2. CASE plan = None /\ Others(w)
      <3>1. Covered'
        BY <1>3, <2>2 DEF BilledInv
      <3> QED BY <2>2, <3>1, BilledAfter
    <2> QED BY <1>4, <2>1, <2>2, ClaimGoes DEF Went
  <1>5. CASE UpdatedRetrieve(w)
    <2>1. plan' = plan /\ Others(w)
      BY <1>5, RetrieveReads DEF UpdatedRetrieve, dbVars
    <2>2. inv[w].sub \in Subs /\ stripe[inv[w].sub].plan \in Plans
      <3>1. inv[w].op = "updated"
        BY <1>5, RetrieveReads
      <3> QED BY <1>2, <3>1 DEF Informed, Sound, Announces, DataInv, Tagged, Exists
    <2>3. ~Clears(inv'[w])
      BY <1>5, <2>2, RetrieveReads, NullAssumption DEF Clears, MirroredPlan
    <2> QED BY <1>3, <2>1, <2>3, BilledAfter
  <1>6. CASE ~Claim(w) /\ ~UpdatedRetrieve(w)
    <2>1. plan' = plan
      BY <1>6 DEF LinkRead, LinkConflict, SubscribeRecorded, Resume, Create, Decline, Confirm,
                  StopRenewal, ChangeRetrieve, Reprice, dbVars
    <2>2. CASE Gone(w)
      BY <1>1, <2>1, <2>2, BilledGone
    <2>3. CASE Others(w) /\ inv'[w].op \in {"checkout", "cancel", "change"}
                /\ inv'[w].pc \notin {"unsuspend", "clear", "end", "mirror"}
      BY <1>3, <2>1, <2>3, BilledAfter DEF Clears
    <2>4. CASE Others(w) /\ inv[w].op = "subscribe" /\ inv[w].pc # "claim"
      <3>1. Clears(inv[w])
        BY <2>4 DEF Clears
      <3> QED BY <1>3, <2>1, <2>4, <3>1, BilledAfter
    <2>5. CASE LinkRead(w)
      BY <2>2, <2>3, <2>5, LinkReads, FinishGone DEF TypeInv
    <2>6. CASE LinkConflict(w)
      BY <2>2, <2>3, <2>6, ConflictGoes, FinishGone DEF TypeInv, Went, SameRead
    <2>7. CASE StopRenewal(w)
      BY <2>3, <2>7, StopBecomes DEF Went, SameRead
    <2>8. CASE ChangeRetrieve(w) \/ Reprice(w)
      BY <2>2, <2>3, <2>8, ChangeRetrieveGoes, RepriceBecomes DEF Went, SameRead
    <2>9. CASE SubscribeRecorded(w) \/ Resume(w) \/ Confirm(w)
      BY <2>4, <2>9, RecordedGoes, ResumeBecomes, ConfirmGoes DEF Went
    <2>10. CASE Create(w)
      BY <2>4, <2>10, CreateReads
    <2>11. CASE Decline(w)
      BY <2>4, <2>11, GotoWent DEF Decline, At, Went, TypeInv
    <2> QED BY <1>6, <2>5, <2>6, <2>7, <2>8, <2>9, <2>10, <2>11
  <1> QED BY <1>4, <1>5, <1>6

\* A call that throws leaves the teardown that was dispatched.
LEMMA FailBilled ==
    ASSUME TypeInv, BilledInv, NEW w \in Workers, Fail(w)
    PROVE  BilledInv'
  <1>1. UNCHANGED <<running, teardown, plan>>
    BY DEF Fail, dbVars, computeVars
  <1>2. CASE Gone(w)
    BY <1>1, <1>2, BilledGone
  <1>3. CASE inv[w].op = "subscribe" /\ inv[w].pc # "claim" /\ Went(w, "release")
    <2>1. Clears(inv[w]) /\ Others(w) /\ (Covered => Covered')
      BY <1>1, <1>3 DEF Clears, Went, Covered
    <2> QED BY <1>1, <2>1, BilledAfter
  <1> QED BY <1>2, <1>3, FailGoes

\* So does a write that commits without an answer.
LEMMA LoseBilled ==
    ASSUME TypeInv, BilledInv, NEW w \in Workers, Lose(w)
    PROVE  BilledInv'
  <1>1. UNCHANGED <<running, teardown>> /\ plan' # None
    BY LoseGoes, NullAssumption
  <1>2. CASE Gone(w)
    BY <1>1, <1>2, BilledGone
  <1>3. CASE inv[w].op = "subscribe" /\ inv[w].pc = "tx" /\ Went(w, "release")
    <2>1. Clears(inv[w]) /\ Others(w) /\ (Covered => Covered')
      BY <1>1, <1>3 DEF Clears, Went, Covered
    <2> QED BY <1>1, <2>1, BilledAfter
  <1> QED BY <1>2, <1>3, LoseGoes

\* A webhook that starts runs and clears nothing yet.
LEMMA HandleBilled ==
    ASSUME TypeInv, DataInv, BilledInv, NEW w \in Workers, NEW e \in events, Handle(w, e)
    PROVE  BilledInv'
  <1>1. UNCHANGED <<running, teardown, plan>>
    BY DEF Handle, UpdatedUnknown, UpdatedLookup, CreatedUnknown, CreatedLookup,
       DeletedUnknown, DeletedLookup, LinkInactive, LinkRetrieve, dbVars, computeVars
  <1>2. CASE Ignore(w, e)
    BY <1>1, <1>2, IgnoreBegan DEF BilledInv, Covered
  <1>3. CASE UpdatedLookup(w, e)
    <2>1. Others(w) /\ ~Clears(inv'[w])
      BY <1>3, UpdatedBegins DEF Began, Clears
    <2> QED BY <1>1, <2>1, BilledBegan
  <1>4. CASE CreatedLookup(w, e)
    <2>1. /\ Others(w) /\ inv'[w].op = "created" /\ inv'[w].pc = "mirror"
          /\ inv'[w].live = Fresh(e.plan) /\ e.plan \in Plans
      BY <1>4, CreatedBegins, EventType DEF Began, TypeInv, StripeOK
    <2>2. ~Clears(inv'[w])
      BY <2>1, NullAssumption DEF Clears, MirroredPlan, Fresh
    <2> QED BY <1>1, <2>1, <2>2, BilledBegan
  <1>5. CASE DeletedLookup(w, e)
    <2>1. Others(w) /\ (plan # None => ~Clears(inv'[w]))
      BY <1>5, DeletedBegins DEF Began, Clears
    <2> QED BY <1>1, <2>1, BilledBegan
  <1>6. CASE LinkRetrieve(w, e)
    <2>1. Others(w) /\ ~Clears(inv'[w])
      BY <1>6, LinkBegins DEF Began, Clears
    <2> QED BY <1>1, <2>1, BilledBegan
  <1> QED BY <1>2, <1>3, <1>4, <1>5, <1>6
          DEF Handle, UpdatedUnknown, CreatedUnknown, DeletedUnknown, LinkInactive

\* A request that starts runs and clears nothing yet.
LEMMA AskBilled ==
    ASSUME TypeInv, BilledInv, NEW w \in Workers, Ask(w)
    PROVE  BilledInv'
  <1>1. UNCHANGED <<running, teardown, plan>>
    BY DEF Ask, Subscribe, Change, LinkFromSuccess, Cancel, dbVars, computeVars
  <1>2. Others(w) /\ ~Clears(inv'[w])
    BY SubscribeBegins, ChangeBegins, SuccessBegins, CancelBegins DEF Ask, Began, Clears
  <1> QED BY <1>1, <1>2, BilledBegan

\* A deployment starts while no invocation runs, and with a plan.
LEMMA EnvironmentBilled ==
    ASSUME TypeInv, DataInv, BilledInv, "deploy" \notin Races, Environment
    PROVE  BilledInv'
  <1>1. inv' = inv /\ plan' = plan
    BY DEF Environment, CheckoutPaid, PeriodEnd, PortalCancel, KeysExpire, Deploy, Teardown, dbVars
  <1>2. CASE Deploy
    <2>1. plan # None /\ \A w \in Workers : inv[w].op = "idle"
      BY <1>2 DEF Deploy, Only, Busy
    <2>2. \A w \in Workers : ~Clears(inv[w])
      BY <2>1 DEF Clears, DataInv, Informed, InPlace
    <2> QED BY <1>1, <2>1, <2>2 DEF BilledInv
  <1>3. CASE ~Deploy
    <2>1. Covered => Covered'
      BY <1>3 DEF Environment, CheckoutPaid, PeriodEnd, PortalCancel, KeysExpire, Teardown,
                  Covered, computeVars
    <2> QED BY <1>1, <2>1 DEF BilledInv
  <1> QED BY <1>2, <1>3

\* Compute stays covered in every step without the two races.
LEMMA BilledNext ==
    ASSUME Facts, BilledInv, "deploy" \notin Races, "deduped_teardown" \notin Races, [Next]_vars
    PROVE  BilledInv'
  <1>0. TypeInv /\ DataInv
    BY DEF Facts
  <1>1. ASSUME NEW w \in Workers, Step(w) PROVE BilledInv'
    BY <1>0, <1>1, DeprovisionBilled, AnswerBilled, MoveBilled DEF Step
  <1>2. CASE UNCHANGED vars
    <2>1. UNCHANGED <<running, teardown, plan, inv>>
      BY <1>2 DEF vars, dbVars, computeVars
    <2> QED BY <2>1 DEF BilledInv, Covered
  <1> QED BY <1>0, <1>1, <1>2, AskBilled, FailBilled, LoseBilled, HandleBilled, EnvironmentBilled
          DEF Next

\* Where nothing runs and nothing is under way, Compute without a plan is about to be torn
\* down, for every number of concurrent invocations and all races but two: a deployment that
\* starts while an invocation runs, and a teardown sent again that Restate takes for the first
\* (DeprovisionCompute, handleSubscriptionDeleted, releaseClaim). "overlap" is not one of them:
\* whoever clears the plan has itself dispatched, or has found none.
THEOREM ComputeStaysBilled ==
    Spec /\ "deploy" \notin Races /\ "deduped_teardown" \notin Races => []ComputeIsBilled
  <1> DEFINE I == /\ Facts /\ BilledInv
                  /\ "deploy" \notin Races /\ "deduped_teardown" \notin Races
  <1>1. Init /\ "deploy" \notin Races /\ "deduped_teardown" \notin Races => I
    <2>1. Init => BilledInv
      BY IdleFields DEF Init, BilledInv, Covered
    <2> QED BY <2>1, FactsInit
  <1>2. I /\ [Next]_vars => I'
    BY FactsNext, BilledNext
  <1>3. I => ComputeIsBilled
    BY DEF BilledInv, Covered, ComputeIsBilled
  <1> HIDE DEF I
  <1> QED BY <1>1, <1>2, <1>3, PTL DEF Spec

----------------------------------------------------------------------------
(* One invocation at a time: what it has read of the tables is still so.   *)

Alone == \A v, w \in Workers : inv[v].op # "idle" /\ inv[w].op # "idle" => v = w
RowExists == row # None => Exists(row)

\* There is no subscription, or it is over.
Over(st, r) == r = None \/ st[r].status = "canceled"

Current(st, r, p, i) ==
    /\ i.op \in {"updated", "created", "deleted"} => i.sub = r
    /\ i.op \in {"cancel", "change"} => i.rec = r
    /\ i.op = "checkout" /\ i.pc = "recorded" => i.rec = r
    /\ i.op = "checkout" /\ i.pc = "tx" => r = i.sub \/ Over(st, r)
    /\ i.op = "subscribe" =>
          /\ p = IF i.pc = "claim" THEN None ELSE i.plan
          /\ i.pc # "release" => i.rec = r
          /\ i.pc \in {"claim", "recorded", "resume"} => i.sub = None
          /\ i.pc \in {"recorded", "resume"} => r # None
          /\ i.pc \in {"create", "confirm"} => Over(st, r)
          /\ i.pc = "confirm" => i.sub # None
          /\ i.pc = "tx" => IF i.sub = None THEN r # None
                              ELSE Over(st, r) /\ i.sub \in Subs /\ st[i.sub].status # "none"

AloneInv == Alone /\ RowExists /\ \A w \in Workers : Current(stripe, row, plan, inv[w])

\* No step revives a subscription or takes an id back.
LEMMA StatusNext ==
    ASSUME Facts, Next
    PROVE  StatusKept
  <1>0. TypeInv /\ Tagged /\ \A w \in Workers : Informed(stripe, inv[w]) /\ Sound(inv[w])
    BY DEF Facts, DataInv, TypeInv, InvOK
  <1>1. CASE stripe' = stripe
    BY <1>0, <1>1, SameStays
  <1>2. ASSUME NEW s \in Subs, Live(s), NEW status \in {"active", "canceled"}, NEW c, NEW p,
               Becomes(s, status, c, p)
        PROVE  StatusKept
    BY <1>2 DEF StatusKept, Becomes, Live
  <1>3. ASSUME NEW s \in Subs, stripe[s] = Unused, NEW c, NEW p, Becomes(s, "active", c, p)
        PROVE  StatusKept
    BY <1>3, IdleFields DEF StatusKept, Becomes
  <1>4. ASSUME NEW w \in Workers, Step(w) PROVE StatusKept
    <2>1. CASE Create(w)
      BY <1>0, <1>1, <1>3, <2>1, CreateReads
    <2>2. CASE Resume(w)
      BY <1>0, <1>1, <1>2, <2>2, ResumeBecomes
    <2>3. CASE StopRenewal(w)
      BY <1>0, <1>1, <1>2, <2>3, StopBecomes DEF Renewing
    <2>4. CASE Reprice(w)
      BY <1>0, <1>1, <1>2, <2>4, RepriceBecomes
    <2>5. CASE ~(Create(w) \/ Resume(w) \/ StopRenewal(w) \/ Reprice(w))
      BY <1>1, <1>4, <2>5 DEF Step, UpdatedRetrieve, Mirror, DeletedEnd, DeprovisionGate,
         DispatchTeardown, EndEnforcement, ClearWorkspaceDeployPlan, LinkRead, LinkConflict, LinkTx,
         Claim, SubscribeRecorded, Decline, Confirm, SubscribeTx, Release, CancelLimits,
         ChangeRetrieve, ChangeTx
    <2> QED BY <2>1, <2>2, <2>3, <2>4, <2>5
  <1>5. ASSUME NEW w \in Workers,
               Ask(w) \/ Fail(w) \/ Lose(w) \/ \E e \in events : Handle(w, e)
        PROVE  StatusKept
    BY <1>0, <1>1, <1>5, LoseGoes DEF Ask, Subscribe, Change, LinkFromSuccess, Cancel, Fail, Handle,
       UpdatedUnknown, UpdatedLookup, CreatedUnknown, CreatedLookup, DeletedUnknown,
       DeletedLookup, LinkInactive, LinkRetrieve
  <1>6. CASE Environment
    <2>1. ASSUME NEW s \in Subs, NEW p \in Plans, CheckoutPaid(s, p) PROVE StatusKept
      BY <1>0, <1>3, <2>1, PaidBecomes
    <2>2. ASSUME NEW s \in Subs, PortalCancel(s) PROVE StatusKept
      BY <1>0, <1>2, <2>2, PortalBecomes
    <2>3. ASSUME NEW s \in Subs, PeriodEnd(s) PROVE StatusKept
      BY <1>0, <1>2, <2>3, PeriodBecomes
    <2> QED BY <1>1, <1>6, <2>1, <2>2, <2>3 DEF Environment, KeysExpire, Deploy, Teardown
  <1> QED BY <1>4, <1>5, <1>6 DEF Next

\* A worker that acts, or begins while nobody does, is alone.
LEMMA AloneAfter ==
    ASSUME AloneInv, NEW w \in Workers, inv[w].op # "idle" \/ ~Busy, Others(w), RowExists',
           Current(stripe', row', plan', inv'[w])
    PROVE  AloneInv'
  <1>1. \A v \in Workers : v # w => inv[v].op = "idle" /\ inv'[v] = inv[v]
    BY DEF AloneInv, Alone, Busy, Others
  <1>2. Alone'
    BY <1>1 DEF Alone
  <1>3. \A v \in Workers : v # w => Current(stripe', row', plan', inv'[v])
    BY <1>1 DEF Current
  <1> QED BY <1>2, <1>3 DEF AloneInv

\* The recorded subscription still exists.
LEMMA RowExistsStays ==
    ASSUME TypeInv, RowExists, StatusKept, row' = row
    PROVE  RowExists'
  BY DEF RowExists, Exists, StatusKept, TypeInv, DbOK, Maybe

\* Nothing is read by a worker that is done.
LEMMA AloneGone ==
    ASSUME AloneInv, NEW w \in Workers, inv[w].op # "idle", Gone(w), RowExists'
    PROVE  AloneInv'
  <1>1. Current(stripe', row', plan', inv'[w]) /\ Others(w)
    BY IdleFields DEF Gone, Current
  <1> QED BY <1>1, AloneAfter

\* A worker that goes on with the rows as they are.
LEMMA AloneWent ==
    ASSUME AloneInv, NEW w \in Workers, NEW pc, Went(w, pc), row' = row, RowExists',
           inv[w].op \in {"updated", "deleted", "cancel", "change"}
    PROVE  AloneInv'
  <1>1. Current(stripe, row, plan, inv[w])
    BY DEF AloneInv
  <1>2. Current(stripe', row', plan', inv'[w]) /\ Others(w)
    BY <1>1 DEF Went, SameRead, Current
  <1> QED BY <1>2, AloneAfter

\* What is over stays over.
LEMMA OverStays ==
    ASSUME TypeInv, StatusKept, row' = row, Over(stripe, row)
    PROVE  Over(stripe', row')
  BY DEF Over, StatusKept, TypeInv, DbOK, Maybe

\* A recorded subscription that is not live is over.
LEMMA DeadIsOver ==
    ASSUME TypeInv, RowExists, row # None, ~Live(row)
    PROVE  Over(stripe, row)
  BY DEF RowExists, Exists, Live, Over, TypeInv, DbOK, Maybe, StripeOK, Subscription

\* The steps of DeprovisionCompute, of cancelDeploy and of changeDeployPlan.
LEMMA MutationAlone ==
    ASSUME TypeInv, AloneInv, StatusKept, NEW w \in Workers,
           \/ DeprovisionGate(w) \/ DispatchTeardown(w) \/ EndEnforcement(w)
           \/ ClearWorkspaceDeployPlan(w) \/ StopRenewal(w) \/ ChangeRetrieve(w) \/ Reprice(w)
    PROVE  AloneInv'
  <1>1. InvOK /\ row' = row
    BY DEF DeprovisionGate, DispatchTeardown, EndEnforcement, ClearWorkspaceDeployPlan,
           StopRenewal, ChangeRetrieve, Reprice, dbVars, TypeInv
  <1>2. RowExists'
    BY <1>1, RowExistsStays DEF AloneInv
  <1>3. CASE StopRenewal(w)
    BY <1>1, <1>2, <1>3, StopBecomes, AloneWent
  <1>4. CASE ChangeRetrieve(w) \/ Reprice(w)
    BY <1>1, <1>2, <1>4, ChangeRetrieveGoes, RepriceBecomes, AloneWent, AloneGone
  <1>5. CASE \/ DeprovisionGate(w) \/ DispatchTeardown(w) \/ EndEnforcement(w)
             \/ ClearWorkspaceDeployPlan(w)
    <2>1. inv[w].op \in Deprovisioners
      BY <1>5 DEF DeprovisionGate, DispatchTeardown, EndEnforcement, ClearWorkspaceDeployPlan,
                  Deprovisioning, TypeInv, InvOK, Sound
    <2>2. PICK pc : Goto(w, pc)
      BY <1>5 DEF DeprovisionGate, DispatchTeardown, EndEnforcement, ClearWorkspaceDeployPlan
    <2>3. Went(w, pc)
      BY <1>1, <2>2, GotoWent
    <2> QED BY <1>1, <1>2, <2>1, <2>3, AloneWent DEF Deprovisioners
  <1> QED BY <1>3, <1>4, <1>5

\* The steps that answer: the subscription they record exists.
LEMMA AnswerAlone ==
    ASSUME TypeInv, DataInv, AloneInv, NEW w \in Workers,
           \/ Mirror(w) \/ DeletedEnd(w) \/ LinkTx(w) \/ SubscribeTx(w) \/ Release(w)
           \/ CancelLimits(w) \/ ChangeTx(w)
    PROVE  AloneInv'
  <1>1. /\ inv[w] \in Invocation /\ Informed(stripe, inv[w]) /\ Sound(inv[w])
        /\ Current(stripe, row, plan, inv[w]) /\ InvOK /\ RowExists
    BY DEF TypeInv, InvOK, DataInv, AloneInv
  <1>2. Gone(w) /\ stripe' = stripe
    BY <1>1, FinishGone DEF Mirror, DeletedEnd, LinkTx, SubscribeTx, Release, CancelLimits,
                            ChangeTx
  <1>3. inv[w].op # "idle"
    BY <1>1 DEF Mirror, DeletedEnd, LinkTx, SubscribeTx, Release, CancelLimits, ChangeTx, At,
                Informed, InPlace
  <1>4. RowExists'
    <2>1. CASE row' = row \/ row' = None
      BY <1>1, <1>2, <2>1 DEF RowExists, Exists
    <2>2. CASE LinkTx(w)
      BY <1>1, <1>2, <2>2 DEF LinkTx, At, Informed, RowExists, Exists
    <2>3. CASE SubscribeTx(w)
      BY <1>1, <1>2, <2>3 DEF SubscribeTx, At, Current, RowExists, Exists
    <2>4. CASE \/ Mirror(w) \/ DeletedEnd(w) \/ Release(w) \/ CancelLimits(w) \/ ChangeTx(w)
      BY <2>1, <2>4 DEF Mirror, DeletedEnd, Release, CancelLimits, ChangeTx
    <2> QED BY <2>2, <2>3, <2>4
  <1> QED BY <1>2, <1>3, <1>4, AloneGone

\* The reads of the webhook and of the linker.
LEMMA ReadAlone ==
    ASSUME TypeInv, DataInv, AloneInv, NEW w \in Workers,
           UpdatedRetrieve(w) \/ LinkRead(w) \/ LinkConflict(w)
    PROVE  AloneInv'
  <1>1. Current(stripe, row, plan, inv[w]) /\ InvOK /\ RowExists
    BY DEF TypeInv, AloneInv
  <1>2. row' = row /\ plan' = plan /\ stripe' = stripe
    BY DEF UpdatedRetrieve, LinkRead, LinkConflict, dbVars
  <1>3. RowExists'
    BY <1>1, <1>2 DEF RowExists, Exists
  <1>4. CASE UpdatedRetrieve(w)
    <2>1. /\ inv[w].op = "updated" /\ Others(w) /\ inv'[w].op = "updated"
          /\ inv'[w].sub = inv[w].sub
      BY <1>4, RetrieveReads
    <2>2. Current(stripe', row', plan', inv'[w])
      BY <1>1, <1>2, <2>1 DEF Current
    <2> QED BY <1>3, <2>1, <2>2, AloneAfter
  <1>5. CASE LinkRead(w)
    <2>1. inv[w].op = "checkout"
      BY <1>5, LinkReads
    <2>2. CASE Finish(w)
      BY <1>1, <1>3, <2>1, <2>2, FinishGone, AloneGone
    <2>3. CASE ~Finish(w)
      <3>1. /\ Others(w) /\ inv'[w].op = "checkout" /\ inv'[w].sub = inv[w].sub
            /\ \/ inv'[w].pc = "recorded" /\ inv'[w].rec = row
               \/ row \in {inv[w].sub, None} /\ inv'[w].pc = "tx"
        BY <1>5, <2>3, LinkReads
      <3>2. Current(stripe', row', plan', inv'[w])
        BY <1>2, <3>1 DEF Current, Over
      <3> QED BY <1>3, <2>1, <3>1, <3>2, AloneAfter
    <2> QED BY <2>2, <2>3
  <1>6. CASE LinkConflict(w)
    <2>1. inv[w].op = "checkout" /\ inv[w].pc = "recorded" /\ inv[w].rec \in Subs
      BY <1>6, ConflictGoes
    <2>2. CASE Finish(w)
      BY <1>1, <1>3, <2>1, <2>2, FinishGone, AloneGone
    <2>3. CASE ~Live(inv[w].rec) /\ Went(w, "tx")
      <3>1. inv[w].rec = row /\ row # None
        BY <1>1, <2>1, NullAssumption DEF Current
      <3>2. Over(stripe, row)
        BY <1>1, <2>3, <3>1, DeadIsOver
      <3>3. Current(stripe', row', plan', inv'[w]) /\ Others(w)
        BY <1>2, <2>1, <2>3, <3>2 DEF Current, Went, SameRead
      <3> QED BY <1>3, <2>1, <3>3, AloneAfter
    <2> QED BY <1>6, <2>2, <2>3, ConflictGoes
  <1> QED BY <1>4, <1>5, <1>6

\* The steps of subscribeDeploy.
LEMMA SubscribeAlone ==
    ASSUME TypeInv, DataInv, ChainInv, AloneInv, StatusKept, NEW w \in Workers,
           \/ Claim(w) \/ SubscribeRecorded(w) \/ Resume(w) \/ Create(w) \/ Decline(w)
           \/ Confirm(w)
    PROVE  AloneInv'
  <1>1. Current(stripe, row, plan, inv[w]) /\ InvOK /\ RowExists /\ inv[w].op = "subscribe"
    BY DEF TypeInv, AloneInv, Claim, SubscribeRecorded, Resume, Create, Decline, Confirm, At
  <1>2. row' = row /\ inv[w].rec = row /\ inv[w].plan \in Plans
    BY <1>1 DEF Claim, SubscribeRecorded, Resume, Create, Decline, Confirm, At, dbVars, Current,
                InvOK, Sound
  <1>3. RowExists'
    BY <1>1, <1>2, RowExistsStays
  <1>4. \A r : row # None /\ ~Live(row) => Over(stripe, row)
    BY <1>1, DeadIsOver
  <1>5. ASSUME Others(w), Current(stripe', row', plan', inv'[w]) PROVE AloneInv'
    BY <1>1, <1>3, <1>5, AloneAfter
  <1>6. CASE Claim(w)
    <2>1. CASE Gone(w)
      BY <1>1, <1>3, <2>1, AloneGone
    <2>2. CASE /\ plan' = inv[w].plan
               /\ \/ inv[w].rec = None /\ Went(w, "create")
                  \/ inv[w].rec # None /\ Went(w, "recorded")
      <3>1. inv[w].pc = "claim"
        BY <1>6, ClaimGoes
      <3>2. Current(stripe', row', plan', inv'[w]) /\ Others(w)
        BY <1>1, <1>2, <2>2, <3>1 DEF Current, Went, SameRead, Over
      <3> QED BY <1>5, <3>2
    <2> QED BY <1>6, <2>1, <2>2, ClaimGoes
  <1>7. CASE ~Claim(w)
    <2>0. plan' = plan
      BY <1>7 DEF SubscribeRecorded, Resume, Create, Decline, Confirm, dbVars
    <2>1. CASE SubscribeRecorded(w)
      <3>1. /\ inv[w].pc = "recorded" /\ row # None
            /\ \/ Over(stripe, row) /\ Went(w, "create")
               \/ Went(w, "resume") \/ Went(w, "release")
        BY <1>1, <1>2, <1>4, <2>1, RecordedGoes, NullAssumption
      <3>2. Over(stripe, row) => Over(stripe', row')
        BY <1>2, OverStays
      <3>3. Current(stripe', row', plan', inv'[w]) /\ Others(w)
        BY <1>1, <1>2, <2>0, <3>1, <3>2 DEF Current, Went, SameRead
      <3> QED BY <1>5, <3>3
    <2>2. CASE Resume(w)
      <3>1. inv[w].pc = "resume" /\ (Went(w, "tx") \/ Went(w, "release"))
        BY <2>2, ResumeBecomes
      <3>2. Current(stripe', row', plan', inv'[w]) /\ Others(w)
        BY <1>1, <1>2, <2>0, <3>1 DEF Current, Went, SameRead
      <3> QED BY <1>5, <3>2
    <2>3. CASE Decline(w)
      <3>1. inv[w].pc = "create" /\ Went(w, "release")
        BY <1>1, <2>3, GotoWent DEF Decline, At
      <3>2. Current(stripe', row', plan', inv'[w]) /\ Others(w)
        BY <1>1, <1>2, <2>0, <3>1 DEF Current, Went, SameRead
      <3> QED BY <1>5, <3>2
    <2>4. CASE Confirm(w)
      <3>1. inv[w].pc = "confirm" /\ (Went(w, "create") \/ (Live(inv[w].sub) /\ Went(w, "tx")))
        BY <2>4, ConfirmGoes
      <3>2. Over(stripe', row')
        BY <1>1, <1>2, <3>1, OverStays DEF Current
      <3>3. inv[w].sub \in Subs
        BY <3>1 DEF ChainInv, ConfirmOK, TypeInv, StripeOK
      <3>4. Live(inv[w].sub) => stripe'[inv[w].sub].status # "none"
        BY <3>3 DEF Live, StatusKept
      <3>5. Current(stripe', row', plan', inv'[w]) /\ Others(w)
        BY <1>1, <1>2, <2>0, <3>1, <3>2, <3>3, <3>4 DEF Current, Went, SameRead
      <3> QED BY <1>5, <3>5
    <2>5. CASE Create(w)
      <3>1. /\ inv[w].pc = "create" /\ Others(w) /\ inv'[w].op = "subscribe"
            /\ inv'[w].rec = inv[w].rec /\ inv'[w].plan = inv[w].plan
            /\ inv'[w].pc \in {"confirm", "tx"}
        BY <2>5, CreateReads DEF AfterCreate
      <3>2. inv'[w].sub \in Subs /\ stripe'[inv'[w].sub].status # "none"
        <4>1. CASE /\ inv[w].key <= Len(minted) /\ inv'[w].sub = minted[inv[w].key]
                   /\ stripe' = stripe
          <5>1. inv[w].key \in 1..Len(minted)
            BY <3>1, <4>1, Fields DEF TypeInv, InvOK, Sound, StripeOK
          <5> QED BY <4>1, <5>1 DEF ChainInv, AllExist, Exists, TypeInv, StripeOK
        <4>2. CASE \E s \in Subs : inv'[w].sub = s /\ Becomes(s, "active", FALSE, inv[w].plan)
          BY <4>2 DEF Becomes
        <4> QED BY <2>5, <4>1, <4>2, CreateReads
      <3>3. Over(stripe', row')
        BY <1>1, <1>2, <3>1, OverStays DEF Current
      <3>4. Current(stripe', row', plan', inv'[w])
        BY <1>1, <1>2, <2>0, <3>1, <3>2, <3>3, NullAssumption DEF Current
      <3> QED BY <1>5, <3>1, <3>4
    <2> QED BY <1>7, <2>1, <2>2, <2>3, <2>4, <2>5
  <1> QED BY <1>6, <1>7

\* After a failure the invocation is over or gives its claim back.
LEMMA FailAlone ==
    ASSUME TypeInv, AloneInv, NEW w \in Workers, Fail(w)
    PROVE  AloneInv'
  <1>1. stripe' = stripe /\ row' = row /\ plan' = plan /\ inv[w].op # "idle"
    BY DEF Fail, dbVars
  <1>2. RowExists' /\ Current(stripe, row, plan, inv[w])
    BY <1>1 DEF AloneInv, RowExists, Exists
  <1>3. CASE Gone(w)
    BY <1>1, <1>2, <1>3, AloneGone
  <1>4. CASE inv[w].op = "subscribe" /\ inv[w].pc # "claim" /\ Went(w, "release")
    <2>1. Current(stripe', row', plan', inv'[w]) /\ Others(w)
      BY <1>1, <1>2, <1>4 DEF Current, Went, SameRead
    <2> QED BY <1>1, <1>2, <2>1, AloneAfter
  <1> QED BY <1>3, <1>4, FailGoes

\* After a write that commits without an answer too.
LEMMA LoseAlone ==
    ASSUME TypeInv, AloneInv, NEW w \in Workers, Lose(w)
    PROVE  AloneInv'
  <1>1. stripe' = stripe /\ plan' = inv[w].plan /\ inv[w].op # "idle"
    BY LoseGoes
  <1>2. Current(stripe, row, plan, inv[w]) /\ RowExists
    BY DEF AloneInv
  <1>3. CASE Gone(w) /\ row' = row
    <2>1. RowExists'
      BY <1>1, <1>2, <1>3 DEF RowExists, Exists
    <2> QED BY <1>1, <1>3, <2>1, AloneGone
  <1>4. CASE /\ inv[w].op = "subscribe" /\ inv[w].pc = "tx" /\ Went(w, "release")
             /\ row' = IF inv[w].sub # None THEN inv[w].sub ELSE row
    <2>1. RowExists'
      BY <1>1, <1>2, <1>4 DEF Current, RowExists, Exists
    <2>2. Current(stripe', row', plan', inv'[w]) /\ Others(w)
      BY <1>1, <1>4 DEF Current, Went, SameRead
    <2> QED BY <1>1, <2>1, <2>2, AloneAfter
  <1> QED BY <1>3, <1>4, LoseGoes

\* Whoever begins has read the tables just now.
LEMMA BeginAlone ==
    ASSUME TypeInv, AloneInv, "overlap" \notin Races, NEW w \in Workers,
           Ask(w) \/ \E e \in events : Handle(w, e)
    PROVE  AloneInv'
  <1>1. stripe' = stripe /\ row' = row /\ plan' = plan
    BY DEF Ask, Subscribe, Change, LinkFromSuccess, Cancel, Handle, UpdatedUnknown,
           UpdatedLookup, CreatedUnknown, CreatedLookup, DeletedUnknown, DeletedLookup,
           LinkInactive, LinkRetrieve, dbVars
  <1>2. RowExists'
    BY <1>1 DEF AloneInv, RowExists, Exists
  <1>3. ASSUME Began(w), Current(stripe', row', plan', inv'[w]) PROVE AloneInv'
    BY <1>2, <1>3, AloneAfter DEF Began
  <1>4. ASSUME NEW e \in events, Handle(w, e) PROVE AloneInv'
    <2>1. CASE Ignore(w, e)
      <3>1. inv' = inv
        BY <2>1, IgnoreBegan
      <3> QED BY <1>1, <1>2, <3>1 DEF AloneInv, Alone
    <2>2. CASE UpdatedLookup(w, e)
      <3>1. Began(w) /\ Current(stripe', row', plan', inv'[w])
        BY <1>1, <2>2, UpdatedBegins DEF Current
      <3> QED BY <1>3, <3>1
    <2>3. CASE CreatedLookup(w, e)
      <3>1. Began(w) /\ Current(stripe', row', plan', inv'[w])
        BY <1>1, <2>3, CreatedBegins DEF Current
      <3> QED BY <1>3, <3>1
    <2>4. CASE DeletedLookup(w, e)
      <3>1. Began(w) /\ Current(stripe', row', plan', inv'[w])
        BY <1>1, <2>4, DeletedBegins DEF Current
      <3> QED BY <1>3, <3>1
    <2>5. CASE LinkRetrieve(w, e)
      <3>1. Began(w) /\ Current(stripe', row', plan', inv'[w])
        BY <1>1, <2>5, LinkBegins DEF Current
      <3> QED BY <1>3, <3>1
    <2> QED BY <1>4, <2>1, <2>2, <2>3, <2>4, <2>5
            DEF Handle, UpdatedUnknown, CreatedUnknown, DeletedUnknown, LinkInactive
  <1>5. ASSUME NEW p \in Plans, Subscribe(w, p) PROVE AloneInv'
    <2>1. Began(w) /\ Current(stripe', row', plan', inv'[w])
      BY <1>1, <1>5, SubscribeBegins DEF Current
    <2> QED BY <1>3, <2>1
  <1>6. ASSUME NEW p \in Plans, Change(w, p) PROVE AloneInv'
    <2>1. Began(w) /\ Current(stripe', row', plan', inv'[w])
      BY <1>1, <1>6, ChangeBegins DEF Current
    <2> QED BY <1>3, <2>1
  <1>7. ASSUME NEW s \in Subs, LinkFromSuccess(w, s) PROVE AloneInv'
    <2>1. Began(w) /\ Current(stripe', row', plan', inv'[w])
      BY <1>1, <1>7, SuccessBegins DEF Current
    <2> QED BY <1>3, <2>1
  <1>8. CASE Cancel(w)
    <2>1. Began(w) /\ Current(stripe', row', plan', inv'[w])
      BY <1>1, <1>8, CancelBegins DEF Current
    <2> QED BY <1>3, <2>1
  <1> QED BY <1>4, <1>5, <1>6, <1>7, <1>8 DEF Ask

\* Whatever happens outside touches no table, and what is over stays so.
LEMMA EnvironmentAlone ==
    ASSUME TypeInv, AloneInv, StatusKept, Environment
    PROVE  AloneInv'
  <1>1. inv' = inv /\ row' = row /\ plan' = plan
    BY DEF Environment, CheckoutPaid, PeriodEnd, PortalCancel, KeysExpire, Deploy, Teardown, dbVars
  <1>2. RowExists'
    BY <1>1, RowExistsStays DEF AloneInv
  <1>3. Over(stripe, row) => Over(stripe', row')
    BY <1>1, OverStays
  <1>4. ASSUME NEW w \in Workers PROVE Current(stripe', row', plan', inv'[w])
    <2>1. Current(stripe, row, plan, inv[w]) /\ inv'[w] = inv[w]
      BY <1>1 DEF AloneInv
    <2>2. inv[w].sub \in Subs /\ stripe[inv[w].sub].status # "none"
              => stripe'[inv[w].sub].status # "none"
      BY DEF StatusKept
    <2> QED BY <1>1, <1>3, <2>1, <2>2 DEF Current
  <1> QED BY <1>1, <1>2, <1>4 DEF AloneInv, Alone

\* Without overlap, what the one invocation has read stays so in every step.
LEMMA AloneNext ==
    ASSUME Facts, AloneInv, "overlap" \notin Races, [Next]_vars
    PROVE  AloneInv'
  <1>0. TypeInv /\ DataInv /\ ChainInv /\ (Next => StatusKept)
    BY StatusNext DEF Facts
  <1>1. ASSUME NEW w \in Workers, Step(w), StatusKept PROVE AloneInv'
    BY <1>0, <1>1, MutationAlone, AnswerAlone, ReadAlone, SubscribeAlone DEF Step
  <1>2. CASE UNCHANGED vars
    <2>1. UNCHANGED <<stripe, row, plan, inv>>
      BY <1>2 DEF vars, dbVars
    <2> QED BY <2>1 DEF AloneInv, Alone, RowExists, Exists
  <1> QED BY <1>0, <1>1, <1>2, BeginAlone, FailAlone, LoseAlone, EnvironmentAlone DEF Next

\* Nobody runs initially.
LEMMA AloneInit == Init => AloneInv
  BY IdleFields DEF Init, AloneInv, Alone, RowExists, Current

----------------------------------------------------------------------------
(* What becomes of an event: it waits, an invocation is about it, or it    *)
(* has been answered.                                                      *)

Handling(evs, is, e) == e \in evs \/ \E w \in Workers : is[w].ev = e

\* The steps that answer a webhook.
Answers(w) ==
    \/ Mirror(w) \/ DeletedEnd(w) \/ LinkTx(w)
    \/ LinkRead(w) /\ Finish(w)
    \/ LinkConflict(w) /\ Finish(w)

\* The answers without an invocation.
Dismisses(w, e) ==
    UpdatedUnknown(w, e) \/ CreatedUnknown(w, e) \/ DeletedUnknown(w, e) \/ LinkInactive(w, e)

\* A mutation is about no event.
LEMMA MutationHasNoEvent ==
    ASSUME Facts, NEW w \in Workers, inv[w].op \in {"subscribe", "cancel", "change"}
    PROVE  inv[w].ev = None
  <1>1. inv[w] \in Invocation /\ Informed(stripe, inv[w])
    BY DEF Facts, DataInv, TypeInv, InvOK
  <1> QED BY <1>1, Fields, EventType DEF Informed, Maybe

\* A step loses no event but the one it answers.
LEMMA StepKeeps ==
    ASSUME Facts, NEW w \in Workers, Step(w)
    PROVE  /\ Others(w) /\ events \subseteq events' /\ paged \subseteq paged'
           /\ inv'[w].ev = inv[w].ev \/ inv[w].ev = None \/ Answers(w)
  <1>0. TypeInv /\ InvOK
    BY DEF Facts, TypeInv
  <1>1. paged \subseteq paged'
    <2>1. CASE LinkConflict(w)
      BY <1>0, <2>1, ConflictGoes DEF Page
    <2>2. CASE ~LinkConflict(w)
      BY <2>2 DEF Step, UpdatedRetrieve, Mirror, DeletedEnd, DeprovisionGate, DispatchTeardown,
         EndEnforcement, ClearWorkspaceDeployPlan, LinkRead, LinkTx, Claim, SubscribeRecorded,
         Resume, Create, Decline, Confirm, SubscribeTx, Release, StopRenewal, CancelLimits,
         ChangeRetrieve, Reprice, ChangeTx
    <2> QED BY <2>1, <2>2
  <1>2. CASE Mirror(w) \/ DeletedEnd(w) \/ LinkTx(w)
    <2>1. Finish(w)
      BY <1>2 DEF Mirror, DeletedEnd, LinkTx
    <2> QED BY <1>0, <1>1, <1>2, <2>1, FinishGone DEF Answers, Gone
  <1>3. CASE UpdatedRetrieve(w)
    <2>1. events' = events
      BY <1>3 DEF UpdatedRetrieve
    <2> QED BY <1>0, <1>1, <1>3, <2>1, RetrieveReads
  <1>4. CASE LinkRead(w)
    BY <1>0, <1>1, <1>4, LinkReads, FinishGone DEF Answers, Gone
  <1>5. CASE LinkConflict(w)
    BY <1>0, <1>1, <1>5, ConflictGoes, FinishGone DEF Answers, Gone, Went, SameRead
  <1>6. CASE \/ DeprovisionGate(w) \/ DispatchTeardown(w) \/ EndEnforcement(w)
             \/ ClearWorkspaceDeployPlan(w) \/ Decline(w)
    <2>1. events' = events
      BY <1>6 DEF DeprovisionGate, DispatchTeardown, EndEnforcement, ClearWorkspaceDeployPlan,
                  Decline
    <2>2. PICK pc : Goto(w, pc)
      BY <1>6 DEF DeprovisionGate, DispatchTeardown, EndEnforcement, ClearWorkspaceDeployPlan,
                  Decline
    <2>3. Went(w, pc)
      BY <1>0, <2>2, GotoWent
    <2> QED BY <1>1, <2>1, <2>3 DEF Went, SameRead
  <1>7. CASE SubscribeTx(w) \/ Release(w) \/ CancelLimits(w) \/ ChangeTx(w)
    <2>1. Finish(w) /\ inv[w].op \in {"subscribe", "cancel", "change"}
      BY <1>7 DEF SubscribeTx, Release, CancelLimits, ChangeTx, At
    <2>2. inv[w].ev = None
      BY <2>1, MutationHasNoEvent
    <2> QED BY <1>0, <1>1, <2>1, <2>2, FinishGone DEF Gone
  <1>8. CASE \/ Claim(w) \/ SubscribeRecorded(w) \/ Confirm(w) \/ ChangeRetrieve(w)
    <2>1. events' = events /\ inv[w].op \in {"subscribe", "cancel", "change"}
      BY <1>8 DEF Claim, SubscribeRecorded, Confirm, ChangeRetrieve, At
    <2>2. inv[w].ev = None
      BY <2>1, MutationHasNoEvent
    <2>3. Others(w)
      BY <1>0, <1>8, ClaimGoes, RecordedGoes, ConfirmGoes, ChangeRetrieveGoes DEF Went, Gone
    <2> QED BY <1>1, <2>1, <2>2, <2>3
  <1>9. CASE Resume(w) \/ StopRenewal(w) \/ Reprice(w)
    <2>1. inv[w].op \in {"subscribe", "cancel", "change"} /\ Others(w) /\ events \subseteq events'
      BY <1>0, <1>9, ResumeBecomes, StopBecomes, RepriceBecomes DEF Went, Gone
    <2> QED BY <1>1, <2>1, MutationHasNoEvent
  <1>10. CASE Create(w)
    <2>1. inv[w].op = "subscribe" /\ Others(w) /\ events \subseteq events'
      BY <1>0, <1>10, CreateReads
    <2> QED BY <1>1, <2>1, MutationHasNoEvent
  <1> QED BY <1>2, <1>3, <1>4, <1>5, <1>6, <1>7, <1>8, <1>9, <1>10 DEF Step

\* No event is lost, but by an answer.
LEMMA HandlingKept ==
    ASSUME Facts, Next, NEW e \in Event, Handling(events, inv, e)
    PROVE  \/ Handling(events', inv', e)
           \/ \E w \in Workers : inv[w].ev = e /\ Answers(w)
           \/ \E w \in Workers : Dismisses(w, e)
  <1>0. TypeInv /\ InvOK /\ e # None
    BY NoEventAssumption DEF Facts, TypeInv
  <1>1. ASSUME NEW w \in Workers, Others(w), events \subseteq events',
               inv[w].ev = e => inv'[w].ev = e \/ e \in events' \/ Answers(w)
        PROVE  Handling(events', inv', e) \/ \E v \in Workers : inv[v].ev = e /\ Answers(v)
    <2>1. CASE e \in events
      BY <1>1, <2>1 DEF Handling
    <2>2. ASSUME NEW v \in Workers, inv[v].ev = e
          PROVE  Handling(events', inv', e) \/ \E u \in Workers : inv[u].ev = e /\ Answers(u)
      BY <1>1, <2>2 DEF Handling, Others
    <2> QED BY <2>1, <2>2 DEF Handling
  <1>2. ASSUME NEW w \in Workers, Step(w)
        PROVE  Handling(events', inv', e) \/ \E v \in Workers : inv[v].ev = e /\ Answers(v)
    <2>1. /\ Others(w) /\ events \subseteq events'
          /\ inv[w].ev = e => inv'[w].ev = e \/ Answers(w)
      BY <1>0, <1>2, StepKeeps
    <2> QED BY <1>1, <2>1
  <1>9. ASSUME NEW w \in Workers, Lose(w)
        PROVE  Handling(events', inv', e) \/ \E v \in Workers : inv[v].ev = e /\ Answers(v)
    <2>1. Others(w) /\ events' = events /\ inv[w].op = "subscribe"
      BY <1>0, <1>9, LoseGoes DEF Went, Gone
    <2>2. inv[w].ev # e
      BY <1>0, <2>1, MutationHasNoEvent
    <2> QED BY <1>1, <2>1, <2>2
  <1>3. ASSUME NEW w \in Workers, Fail(w)
        PROVE  Handling(events', inv', e) \/ \E v \in Workers : inv[v].ev = e /\ Answers(v)
    <2>1. /\ Others(w) /\ events \subseteq events'
          /\ inv[w].ev = e => inv'[w].ev = e \/ e \in events'
      BY <1>0, <1>3, FailGoes DEF Went, Gone, SameRead
    <2> QED BY <1>1, <2>1
  <1>4. ASSUME NEW w \in Workers, Began(w), inv[w].ev # e, NEW d, e = d => inv'[w].ev = e,
               events \subseteq events' \cup {d}
        PROVE  Handling(events', inv', e)
    <2>1. CASE e \in events
      BY <1>4, <2>1 DEF Handling
    <2>2. ASSUME NEW v \in Workers, inv[v].ev = e PROVE Handling(events', inv', e)
      BY <1>4, <2>2 DEF Handling, Began, Others
    <2> QED BY <2>1, <2>2 DEF Handling
  <1>5. \A w \in Workers : inv[w].op = "idle" => inv[w].ev # e
    <2> SUFFICES ASSUME NEW w \in Workers, inv[w].op = "idle", inv[w].ev = e PROVE FALSE
      OBVIOUS
    <2>1. inv[w].ev.type = inv[w].op
      BY <1>0 DEF Facts, DataInv, Informed
    <2> QED BY <2>1, EventType
  <1>6. ASSUME NEW w \in Workers, Ask(w) PROVE Handling(events', inv', e)
    <2>1. Began(w) /\ events' = events /\ inv[w].ev # e
      BY <1>0, <1>5, <1>6, SubscribeBegins, ChangeBegins, SuccessBegins, CancelBegins
         DEF Ask, Began
    <2> QED BY <1>4, <2>1, <1>0
  <1>7. ASSUME NEW w \in Workers, NEW d \in events, Handle(w, d)
        PROVE  Handling(events', inv', e) \/ \E v \in Workers : Dismisses(v, e)
    <2>1. CASE UpdatedLookup(w, d) \/ CreatedLookup(w, d) \/ DeletedLookup(w, d) \/ LinkRetrieve(w, d)
      <3>1. Began(w) /\ events' = events \ {d} /\ inv'[w].ev = d /\ inv[w].ev # e
        BY <1>0, <1>5, <2>1, UpdatedBegins, CreatedBegins, DeletedBegins, LinkBegins DEF Began
      <3> QED BY <1>4, <3>1
    <2>2. CASE Dismisses(w, d)
      <3>1. inv' = inv /\ events' = events \ {d}
        BY <2>2, IgnoreBegan DEF Dismisses, UpdatedUnknown, CreatedUnknown, DeletedUnknown,
                                 LinkInactive
      <3> QED BY <2>2, <3>1 DEF Handling
    <2> QED BY <1>7, <2>1, <2>2 DEF Handle, Dismisses
  <1>8. CASE Environment
    <2>1. inv' = inv /\ events \subseteq events'
      BY <1>8 DEF Environment, CheckoutPaid, PeriodEnd, PortalCancel, KeysExpire, Deploy, Teardown
    <2> QED BY <2>1 DEF Handling
  <1> QED BY <1>2, <1>3, <1>6, <1>7, <1>8, <1>9 DEF Next

\* A recorded subscription that is not over stays the recorded one, one invocation at a time.
LEMMA RowStays ==
    ASSUME Facts, AloneInv, Next, row # None, ~Canceled(row)
    PROVE  row' = row
  <1>0. ASSUME NEW w \in Workers
        PROVE  /\ Informed(stripe, inv[w]) /\ Current(stripe, row, plan, inv[w])
               /\ inv[w] \in Invocation
    BY DEF Facts, DataInv, AloneInv, TypeInv, InvOK
  <1>1. ASSUME NEW w \in Workers, Step(w) PROVE row' = row
    <2>1. ~DeletedEnd(w)
      BY <1>0 DEF DeletedEnd, At, Informed, Current, Announces, Canceled
    <2>2. CASE LinkTx(w)
      BY <1>0, <2>2 DEF LinkTx, At, Current, Over, Canceled
    <2>3. CASE SubscribeTx(w)
      BY <1>0, <2>3 DEF SubscribeTx, At, Current, Over, Canceled
    <2>4. CASE ~LinkTx(w) /\ ~SubscribeTx(w)
      BY <1>1, <2>1, <2>4 DEF Step, UpdatedRetrieve, Mirror, DeprovisionGate, DispatchTeardown,
         EndEnforcement, ClearWorkspaceDeployPlan, LinkRead, LinkConflict, Claim,
         SubscribeRecorded, Resume, Create, Decline, Confirm, Release, StopRenewal, CancelLimits,
         ChangeRetrieve, Reprice, ChangeTx, dbVars
    <2> QED BY <2>2, <2>3, <2>4
  <1>2. ASSUME NEW w \in Workers, Ask(w) \/ Fail(w) PROVE row' = row
    BY <1>2 DEF Ask, Subscribe, Change, LinkFromSuccess, Cancel, Fail, dbVars
  <1>3. ASSUME NEW w \in Workers, NEW e \in events, Handle(w, e) PROVE row' = row
    BY <1>3 DEF Handle, UpdatedUnknown, UpdatedLookup, CreatedUnknown, CreatedLookup,
       DeletedUnknown, DeletedLookup, LinkInactive, LinkRetrieve, dbVars
  <1>4. CASE Environment
    BY <1>4 DEF Environment, CheckoutPaid, PeriodEnd, PortalCancel, KeysExpire, Deploy, Teardown, dbVars
  <1>5. ASSUME NEW w \in Workers, Lose(w) PROVE row' = row
    <2>1. TypeInv
      BY DEF Facts
    <2> QED BY <1>0, <1>5, <2>1, LoseGoes DEF Current, Over, Canceled
  <1> QED BY <1>1, <1>2, <1>3, <1>4, <1>5 DEF Next

----------------------------------------------------------------------------
(* No silent orphan.                                                       *)

\* A checkout that renews is recorded, known to a human, or its event is still about.
CheckoutsTracked ==
    \A s \in Subs \ Minted :
        Renewing(s) => row = s \/ s \in paged \/ Handling(events, inv, On("checkout", s))

\* Ids are not taken out of the chain.
LEMMA MintedGrows ==
    ASSUME Facts, Next
    PROVE  Minted \subseteq Minted'
  <1>1. CASE minted' = minted
    BY <1>1 DEF Minted
  <1>2. ASSUME NEW s \in Subs, minted' = Append(minted, s) PROVE Minted \subseteq Minted'
    <2>1. minted \in Seq(Subs)
      BY DEF Facts, TypeInv, StripeOK
    <2>2. \A i \in DOMAIN minted : i \in DOMAIN minted' /\ minted'[i] = minted[i]
      BY <1>2, <2>1
    <2> QED BY <2>2 DEF Minted
  <1>3. ASSUME NEW w \in Workers, Step(w) PROVE Minted \subseteq Minted'
    <2>1. CASE Create(w)
      BY <1>1, <1>2, <2>1, CreateReads DEF Facts
    <2>2. CASE ~Create(w)
      BY <1>1, <1>3, <2>2 DEF Step, UpdatedRetrieve, Mirror, DeletedEnd, DeprovisionGate,
         DispatchTeardown, EndEnforcement, ClearWorkspaceDeployPlan, LinkRead, LinkConflict, LinkTx,
         Claim, SubscribeRecorded, Resume, Decline, Confirm, SubscribeTx, Release, StopRenewal,
         CancelLimits, ChangeRetrieve, Reprice, ChangeTx
    <2> QED BY <2>1, <2>2
  <1>4. ASSUME NEW w \in Workers, Ask(w) \/ Fail(w) \/ Lose(w) PROVE minted' = minted
    BY <1>4 DEF Ask, Subscribe, Change, LinkFromSuccess, Cancel, Fail, Lose,
       ClaimLost, SubscribeTxLost
  <1>5. ASSUME NEW w \in Workers, NEW e \in events, Handle(w, e) PROVE minted' = minted
    BY <1>5 DEF Handle, UpdatedUnknown, UpdatedLookup, CreatedUnknown, CreatedLookup,
       DeletedUnknown, DeletedLookup, LinkInactive, LinkRetrieve
  <1>6. CASE Environment
    BY <1>1, <1>6 DEF Environment, CheckoutPaid, PeriodEnd, PortalCancel, KeysExpire, Deploy, Teardown
  <1> QED BY <1>1, <1>3, <1>4, <1>5, <1>6 DEF Next

\* A subscription that is not the recorded one comes to renew by a checkout or under a key.
LEMMA RenewingFrom ==
    ASSUME Facts, AloneInv, "unlinked_cancel" \notin Races, Next, NEW s \in Subs, row # s,
           s \notin Minted', Renewing(s)'
    PROVE  Renewing(s) \/ On("checkout", s) \in events'
  <1>0. /\ TypeInv /\ stripe'[s].status = "active" /\ ~stripe'[s].cancelling
        /\ \A w \in Workers : Current(stripe, row, plan, inv[w])
    BY DEF Facts, AloneInv, Renewing, Live
  <1>1. stripe' = stripe => Renewing(s)
    BY <1>0 DEF Renewing, Live
  <1>2. ASSUME NEW t \in Subs, t # s, NEW status, NEW c, NEW p, Becomes(t, status, c, p)
        PROVE  Renewing(s)
    BY <1>0, <1>2 DEF Becomes, Renewing, Live
  <1>3. ASSUME NEW w \in Workers, Step(w) PROVE Renewing(s)
    <2>1. CASE Create(w)
      <3>1. ASSUME NEW t \in Subs, minted' = Append(minted, t),
                   Becomes(t, "active", FALSE, inv[w].plan)
            PROVE  Renewing(s)
        <4>1. t \in Minted'
          <5>1. minted \in Seq(Subs)
            BY <1>0 DEF TypeInv, StripeOK
          <5>2. Len(minted) + 1 \in DOMAIN minted' /\ minted'[Len(minted) + 1] = t
            BY <3>1, <5>1
          <5> QED BY <5>2 DEF Minted
        <4> QED BY <1>2, <3>1, <4>1
      <3> QED BY <1>0, <1>1, <2>1, <3>1, CreateReads
    <2>2. CASE Resume(w)
      <3>1. inv[w].rec \in Subs /\ inv[w].rec # s
        BY <1>0, <2>2, ResumeBecomes DEF Current
      <3> QED BY <1>0, <1>1, <1>2, <2>2, <3>1, ResumeBecomes
    <2>3. CASE StopRenewal(w)
      <3>1. inv[w].rec \in Subs /\ inv[w].rec # s
        BY <1>0, <2>3, StopBecomes DEF Current
      <3> QED BY <1>0, <1>1, <1>2, <2>3, <3>1, StopBecomes
    <2>4. CASE Reprice(w)
      <3>1. inv[w].rec \in Subs /\ inv[w].rec # s
        BY <1>0, <2>4, RepriceBecomes DEF Current
      <3> QED BY <1>0, <1>1, <1>2, <2>4, <3>1, RepriceBecomes
    <2>5. CASE ~(Create(w) \/ Resume(w) \/ StopRenewal(w) \/ Reprice(w))
      BY <1>1, <1>3, <2>5 DEF Step, UpdatedRetrieve, Mirror, DeletedEnd, DeprovisionGate,
         DispatchTeardown, EndEnforcement, ClearWorkspaceDeployPlan, LinkRead, LinkConflict, LinkTx,
         Claim, SubscribeRecorded, Decline, Confirm, SubscribeTx, Release,
         CancelLimits, ChangeRetrieve, ChangeTx
    <2> QED BY <2>1, <2>2, <2>3, <2>4, <2>5
  <1>4. ASSUME NEW w \in Workers, Ask(w) \/ Fail(w) \/ Lose(w) PROVE stripe' = stripe
    BY <1>4 DEF Ask, Subscribe, Change, LinkFromSuccess, Cancel, Fail, Lose,
       ClaimLost, SubscribeTxLost
  <1>5. ASSUME NEW w \in Workers, NEW e \in events, Handle(w, e) PROVE stripe' = stripe
    BY <1>5 DEF Handle, UpdatedUnknown, UpdatedLookup, CreatedUnknown, CreatedLookup,
       DeletedUnknown, DeletedLookup, LinkInactive, LinkRetrieve
  <1>6. CASE Environment
    <2>1. ASSUME NEW t \in Subs, NEW p \in Plans, CheckoutPaid(t, p)
          PROVE  Renewing(s) \/ On("checkout", s) \in events'
      <3>1. Becomes(t, "active", FALSE, p) /\ On("checkout", t) \in events'
        BY <1>0, <2>1, PaidBecomes DEF CheckoutPaid
      <3> QED BY <1>2, <3>1
    <2>2. ASSUME NEW t \in Subs, PortalCancel(t) PROVE Renewing(s)
      <3>1. t # s /\ Becomes(t, "active", ~stripe[t].cancelling, stripe[t].plan)
        BY <1>0, <2>2, PortalBecomes
      <3> QED BY <1>2, <3>1
    <2>3. ASSUME NEW t \in Subs, PeriodEnd(t) PROVE Renewing(s)
      <3>1. Becomes(t, "canceled", stripe[t].cancelling, stripe[t].plan)
        BY <1>0, <2>3, PeriodBecomes
      <3>2. t # s
        BY <1>0, <3>1 DEF Becomes
      <3> QED BY <1>2, <3>1, <3>2
    <2>4. CASE KeysExpire \/ Deploy \/ Teardown
      BY <1>1, <2>4 DEF KeysExpire, Deploy, Teardown
    <2> QED BY <1>6, <2>1, <2>2, <2>3, <2>4 DEF Environment
  <1> QED BY <1>1, <1>3, <1>4, <1>5, <1>6 DEF Next

\* A human who knows is not made to forget.
LEMMA PagedStays ==
    ASSUME Facts, Next
    PROVE  paged \subseteq paged'
  <1>1. ASSUME NEW w \in Workers, NEW e \in events, Handle(w, e) PROVE paged \subseteq paged'
    BY <1>1 DEF Handle, UpdatedUnknown, UpdatedLookup, CreatedUnknown, CreatedLookup,
       DeletedUnknown, DeletedLookup, LinkInactive, LinkRetrieve, Page
  <1>2. ASSUME NEW w \in Workers, Ask(w) \/ Fail(w) \/ Lose(w) PROVE paged' = paged
    BY <1>2 DEF Ask, Subscribe, Change, LinkFromSuccess, Cancel, Fail, Lose,
       ClaimLost, SubscribeTxLost
  <1>3. CASE Environment
    BY <1>3 DEF Environment, CheckoutPaid, PeriodEnd, PortalCancel, KeysExpire, Deploy, Teardown
  <1> QED BY <1>1, <1>2, <1>3, StepKeeps DEF Next

\* The event of a checkout is one.
LEMMA CheckoutEvent ==
    ASSUME NEW s \in Subs
    PROVE  /\ On("checkout", s) \in Event /\ On("checkout", s).type = "checkout"
           /\ On("checkout", s).sub = s
  BY DEF On, Event

\* A live checkout stays recorded, reported or announced in every step.
LEMMA TrackedNext ==
    ASSUME Facts, AloneInv, CheckoutsTracked, "unlinked_cancel" \notin Races,
           "lost_page" \notin Races, Next
    PROVE  CheckoutsTracked'
  <1> SUFFICES ASSUME NEW s \in Subs, s \notin Minted', Renewing(s)'
               PROVE  row' = s \/ s \in paged' \/ Handling(events', inv', On("checkout", s))
    BY DEF CheckoutsTracked
  <1>1. s \notin Minted /\ StatusKept /\ s # None /\ paged \subseteq paged'
    BY MintedGrows, StatusNext, NullAssumption, PagedStays
  <1>2. CASE row = s
    <2>1. ~Canceled(s)
      BY <1>1 DEF StatusKept, Canceled, Renewing, Live
    <2> QED BY <1>1, <1>2, <2>1, RowStays
  <1>3. CASE row # s /\ ~Renewing(s)
    BY <1>3, RenewingFrom DEF Handling
  <1>4. CASE row # s /\ Renewing(s)
    <2>1. CASE s \in paged
      BY <1>1, <2>1
    <2>2. CASE Handling(events, inv, On("checkout", s))
      <3> DEFINE e == On("checkout", s)
      <3>1. e \in Event /\ e.type = "checkout" /\ e.sub = s
        BY CheckoutEvent
      <3>2. e # None
        BY <3>1, NoEventAssumption
      <3> HIDE DEF e
      <3>3. ASSUME NEW w \in Workers, inv[w].ev = e, Answers(w)
            PROVE  row' = s \/ s \in paged'
        <4>1. inv[w].op = "checkout" /\ inv[w].sub = s
          BY <3>1, <3>2, <3>3 DEF Facts, DataInv, Informed
        <4>2. CASE LinkTx(w)
          BY <4>1, <4>2 DEF LinkTx
        <4>3. CASE LinkRead(w) /\ Finish(w)
          <5>1. inv'[w].op = "idle"
            BY <4>3, FinishGone, IdleFields DEF Gone, Facts, TypeInv
          <5>2. row = s
            BY <4>1, <4>3, <5>1, LinkReads DEF Facts
          <5> QED BY <1>4, <5>2
        <4>4. CASE LinkConflict(w) /\ Finish(w)
          <5>1. inv'[w].op = "idle"
            BY <4>4, FinishGone, IdleFields DEF Gone, Facts, TypeInv
          <5>2. Page(s)
            BY <3>2, <3>3, <4>1, <4>4, <5>1, ConflictGoes DEF Facts, Went, SameRead
          <5> QED BY <5>2 DEF Page, Only
        <4>5. ~Mirror(w)
          BY <4>1 DEF Mirror, Facts, DataInv, Informed, InPlace
        <4> QED BY <3>3, <4>1, <4>2, <4>3, <4>4, <4>5 DEF Answers, DeletedEnd, At
      <3>4. ASSUME NEW w \in Workers, Dismisses(w, e) PROVE FALSE
        BY <1>4, <3>1, <3>4 DEF Dismisses, UpdatedUnknown, CreatedUnknown, DeletedUnknown,
                                LinkInactive
      <3>5. Handling(events, inv, e)
        BY <2>2 DEF e
      <3>6. row' = s \/ s \in paged' \/ Handling(events', inv', e)
        BY <3>1, <3>3, <3>4, <3>5, HandlingKept
      <3> QED BY <3>6 DEF e
    <2> QED BY <1>1, <1>4, <2>1, <2>2 DEF CheckoutsTracked
  <1> QED BY <1>2, <1>3, <1>4

\* No live subscription of a checkout bills without anybody knowing, for every number of
\* subscriptions, failures, redeliveries and requests, while invocations run one at a time,
\* nobody cancels a subscription the workspace has not recorded, and Slack takes the alerts of
\* alertOrphanedDeploySubscription (linkDeploySubscription, handleCheckoutCompleted).
THEOREM NoCheckoutIsForgotten ==
    Spec /\ "overlap" \notin Races /\ "unlinked_cancel" \notin Races /\ "lost_page" \notin Races
        => []NoSilentOrphan
  <1> DEFINE Excluded == /\ "overlap" \notin Races /\ "unlinked_cancel" \notin Races
                         /\ "lost_page" \notin Races
             I == Facts /\ AloneInv /\ CheckoutsTracked /\ Excluded
  <1>1. Init /\ Excluded => I
    <2>1. Init => CheckoutsTracked
      BY IdleFields DEF Init, CheckoutsTracked, Renewing, Live
    <2> QED BY <2>1, FactsInit, AloneInit
  <1>2. I /\ [Next]_vars => I'
    <2> SUFFICES ASSUME I, [Next]_vars PROVE I'
      OBVIOUS
    <2>1. Facts' /\ AloneInv'
      BY FactsNext, AloneNext
    <2>2. CASE UNCHANGED vars
      <3>1. UNCHANGED <<stripe, minted, row, paged, events, inv>>
        BY <2>2 DEF vars, dbVars
      <3>2. CheckoutsTracked'
        BY <3>1 DEF CheckoutsTracked, Renewing, Live, Minted
      <3> QED BY <2>1, <3>2
    <2>3. CASE Next
      BY <2>1, <2>3, TrackedNext
    <2> QED BY <2>2, <2>3
  <1>3. I => NoSilentOrphan
    <2> SUFFICES ASSUME I, Quiet, NEW s \in Subs \ Minted, Renewing(s), s \notin paged, row # s
                 PROVE  FALSE
      BY DEF NoSilentOrphan
    <2>1. PICK w \in Workers : inv[w].ev = On("checkout", s)
      BY DEF CheckoutsTracked, Handling, Quiet
    <2>2. On("checkout", s) # None /\ inv[w].op = "checkout"
      BY <2>1, CheckoutEvent, NoEventAssumption DEF Facts, DataInv, Informed
    <2> QED BY <2>2 DEF Quiet, Busy
  <1> HIDE DEF I
  <1> QED BY <1>1, <1>2, <1>3, PTL DEF Spec

----------------------------------------------------------------------------
(* An entitlement ends with its subscription.                              *)

\* What a step can do in Stripe: create a subscription, change the recorded one and say so,
\* or end one and say so.
LEMMA StripeNext ==
    ASSUME Facts, AloneInv, Next
    PROVE  \/ stripe' = stripe
           \/ \E s \in Subs, p \in Plans : stripe[s] = Unused /\ Becomes(s, "active", FALSE, p)
           \/ \E s \in Subs, c \in BOOLEAN, p \in Plans :
                 /\ Live(s) /\ Becomes(s, "active", c, p)
                 /\ s = row \/ "unlinked_cancel" \in Races
                 /\ \/ c = stripe[s].cancelling /\ p = stripe[s].plan
                    \/ On("updated", s) \in events'
           \/ \E s \in Subs :
                 /\ Live(s) /\ stripe[s].cancelling /\ On("deleted", s) \in events'
                 /\ Becomes(s, "canceled", stripe[s].cancelling, stripe[s].plan)
  <1> DEFINE New == \E s \in Subs, p \in Plans :
                       stripe[s] = Unused /\ Becomes(s, "active", FALSE, p)
             Changed == \E s \in Subs, c \in BOOLEAN, p \in Plans :
                           /\ Live(s) /\ Becomes(s, "active", c, p)
                           /\ s = row \/ "unlinked_cancel" \in Races
                           /\ \/ c = stripe[s].cancelling /\ p = stripe[s].plan
                              \/ On("updated", s) \in events'
  <1>0. /\ TypeInv /\ Tagged /\ (\A s \in Subs : stripe[s].cancelling \in BOOLEAN)
        /\ \A w \in Workers : /\ Current(stripe, row, plan, inv[w]) /\ Sound(inv[w])
                              /\ Informed(stripe, inv[w])
    BY StripeFields DEF Facts, DataInv, TypeInv, InvOK, AloneInv, StripeOK
  <1>1. ASSUME NEW s \in Subs, Live(s), NEW c \in BOOLEAN, NEW p \in Plans,
               Becomes(s, "active", c, p), s = row \/ "unlinked_cancel" \in Races,
               (c = stripe[s].cancelling /\ p = stripe[s].plan) \/ On("updated", s) \in events'
        PROVE  Changed
    BY <1>1
  <1>2. ASSUME NEW w \in Workers, Step(w) PROVE stripe' = stripe \/ New \/ Changed
    <2>1. CASE Create(w)
      <3>1. inv[w].plan \in Plans
        BY <1>0, <2>1, CreateReads DEF Sound
      <3> QED BY <1>0, <2>1, <3>1, CreateReads
    <2>2. CASE Resume(w)
      <3>1. /\ inv[w].rec \in Subs /\ inv[w].rec = row
            /\ Live(inv[w].rec) => stripe[inv[w].rec].plan \in Plans
        BY <1>0, <2>2, ResumeBecomes, LiveFacts DEF Current
      <3>2. CASE /\ Live(inv[w].rec) /\ Becomes(inv[w].rec, "active", FALSE, stripe[inv[w].rec].plan)
                 /\ events' = IF stripe[inv[w].rec].cancelling
                                THEN events \cup {On("updated", inv[w].rec)} ELSE events
        <4>1. stripe[inv[w].rec].cancelling = FALSE \/ On("updated", inv[w].rec) \in events'
          BY <1>0, <3>1, <3>2
        <4> QED BY <1>1, <3>1, <3>2, <4>1
      <3> QED BY <1>0, <2>2, <3>2, ResumeBecomes
    <2>3. CASE StopRenewal(w)
      <3>1. /\ inv[w].rec \in Subs /\ inv[w].rec = row
            /\ Live(inv[w].rec) => stripe[inv[w].rec].plan \in Plans
        BY <1>0, <2>3, StopBecomes, LiveFacts DEF Current
      <3>2. CASE /\ Renewing(inv[w].rec)
                 /\ Becomes(inv[w].rec, "active", TRUE, stripe[inv[w].rec].plan)
                 /\ events' = events \cup {On("updated", inv[w].rec)}
        <4>1. Live(inv[w].rec) /\ On("updated", inv[w].rec) \in events'
          BY <3>2 DEF Renewing
        <4> QED BY <1>1, <3>1, <3>2, <4>1
      <3> QED BY <1>0, <2>3, <3>2, StopBecomes
    <2>4. CASE Reprice(w)
      <3>1. inv[w].rec \in Subs /\ inv[w].rec = row /\ inv[w].plan \in Plans
        BY <1>0, <2>4, RepriceBecomes DEF Current, Informed
      <3>2. CASE /\ Live(inv[w].rec)
                 /\ Becomes(inv[w].rec, "active", stripe[inv[w].rec].cancelling, inv[w].plan)
                 /\ events' = events \cup {On("updated", inv[w].rec)}
        <4>1. On("updated", inv[w].rec) \in events'
          BY <3>2
        <4> QED BY <1>0, <1>1, <3>1, <3>2, <4>1
      <3> QED BY <1>0, <2>4, <3>2, RepriceBecomes
    <2>5. CASE ~(Create(w) \/ Resume(w) \/ StopRenewal(w) \/ Reprice(w))
      BY <1>2, <2>5 DEF Step, UpdatedRetrieve, Mirror, DeletedEnd, DeprovisionGate,
         DispatchTeardown, EndEnforcement, ClearWorkspaceDeployPlan, LinkRead, LinkConflict, LinkTx,
         Claim, SubscribeRecorded, Decline, Confirm, SubscribeTx, Release,
         CancelLimits, ChangeRetrieve, ChangeTx
    <2> QED BY <2>1, <2>2, <2>3, <2>4, <2>5
  <1>3. ASSUME NEW w \in Workers, Ask(w) \/ Fail(w) \/ Lose(w) PROVE stripe' = stripe
    BY <1>3 DEF Ask, Subscribe, Change, LinkFromSuccess, Cancel, Fail, Lose,
       ClaimLost, SubscribeTxLost
  <1>4. ASSUME NEW w \in Workers, NEW e \in events, Handle(w, e) PROVE stripe' = stripe
    BY <1>4 DEF Handle, UpdatedUnknown, UpdatedLookup, CreatedUnknown, CreatedLookup,
       DeletedUnknown, DeletedLookup, LinkInactive, LinkRetrieve
  <1>5. ASSUME NEW s \in Subs, NEW p \in Plans, CheckoutPaid(s, p) PROVE New
    BY <1>0, <1>5, PaidBecomes
  <1>6. ASSUME NEW s \in Subs, PortalCancel(s) PROVE Changed
    <2>1. /\ Becomes(s, "active", ~stripe[s].cancelling, stripe[s].plan) /\ Live(s)
          /\ s = row \/ "unlinked_cancel" \in Races
      BY <1>0, <1>6, PortalBecomes
    <2>2. On("updated", s) \in events' /\ stripe[s].plan \in Plans
      BY <1>0, <1>6, <2>1, LiveFacts DEF PortalCancel
    <2> QED BY <1>0, <1>1, <2>1, <2>2
  <1>7. ASSUME NEW s \in Subs, PeriodEnd(s)
        PROVE  /\ Live(s) /\ stripe[s].cancelling /\ On("deleted", s) \in events'
               /\ Becomes(s, "canceled", stripe[s].cancelling, stripe[s].plan)
    BY <1>0, <1>7, PeriodBecomes DEF PeriodEnd
  <1>8. KeysExpire \/ Deploy \/ Teardown => stripe' = stripe
    BY DEF KeysExpire, Deploy, Teardown
  <1> HIDE DEF New, Changed
  <1>9. \/ stripe' = stripe \/ New \/ Changed
        \/ \E s \in Subs :
                 /\ Live(s) /\ stripe[s].cancelling /\ On("deleted", s) \in events'
                 /\ Becomes(s, "canceled", stripe[s].cancelling, stripe[s].plan)
    BY <1>2, <1>3, <1>4, <1>5, <1>6, <1>7, <1>8 DEF Next, Environment
  <1> QED BY <1>9 DEF New, Changed

\* A subscription ends with a deleted event.
LEMMA LiveEnds ==
    ASSUME Facts, AloneInv, Next, NEW s \in Subs, Live(s)
    PROVE  stripe'[s].status = "active" \/ On("deleted", s) \in events'
  <1>1. stripe[s].status = "active"
    BY DEF Live
  <1>2. \A t \in Subs : \A c, p : Becomes(t, "active", c, p) => stripe'[s].status = "active"
    BY <1>1 DEF Becomes
  <1>3. \A t \in Subs : \A c, p : t # s /\ Becomes(t, "canceled", c, p) => stripe'[s].status = "active"
    BY <1>1 DEF Becomes
  <1> QED BY <1>1, <1>2, <1>3, StripeNext

\* While an invocation runs no other one takes an event.
LEMMA EventsWait ==
    ASSUME Facts, Next, "overlap" \notin Races, Busy
    PROVE  events \subseteq events'
  <1>0. TypeInv
    BY DEF Facts
  <1>1. ASSUME NEW w \in Workers, Fail(w) \/ Lose(w) PROVE events \subseteq events'
    BY <1>0, <1>1, FailGoes, LoseGoes
  <1>2. ASSUME NEW w \in Workers, Ask(w) PROVE events \subseteq events'
    BY <1>0, <1>2, SubscribeBegins, ChangeBegins, SuccessBegins, CancelBegins DEF Ask
  <1>3. ASSUME NEW w \in Workers, NEW e \in events, Handle(w, e) PROVE FALSE
    <2>1. CASE UpdatedLookup(w, e) \/ CreatedLookup(w, e) \/ DeletedLookup(w, e) \/ LinkRetrieve(w, e)
      BY <1>0, <2>1, UpdatedBegins, CreatedBegins, DeletedBegins, LinkBegins DEF Began
    <2>2. CASE Dismisses(w, e)
      BY <2>2, IgnoreBegan DEF Dismisses, UpdatedUnknown, CreatedUnknown, DeletedUnknown,
                               LinkInactive
    <2> QED BY <1>3, <2>1, <2>2 DEF Handle, Dismisses
  <1>4. CASE Environment
    BY <1>4 DEF Environment, CheckoutPaid, PeriodEnd, PortalCancel, KeysExpire, Deploy, Teardown
  <1> QED BY <1>1, <1>2, <1>3, <1>4, StepKeeps DEF Next

\* The subscription an invocation is about to record is live, or Stripe is about to say that
\* it is not.
Ended(st, evs, s) == st[s].status # "active" => On("deleted", s) \in evs
Records(i) == i.op = "checkout" \/ (i.op = "subscribe" /\ i.pc = "tx" /\ i.sub # None)
RecordsLive == \A w \in Workers : Records(inv[w]) => Ended(stripe, events, inv[w].sub)

\* The subscription to record is one.
LEMMA RecordedSub ==
    ASSUME Facts, AloneInv, NEW w \in Workers, Records(inv[w])
    PROVE  inv[w].sub \in Subs
  <1>1. Sound(inv[w]) /\ Current(stripe, row, plan, inv[w])
    BY DEF Facts, TypeInv, InvOK, AloneInv
  <1> QED BY <1>1 DEF Records, Sound, Current

\* An invocation that goes on to record the same subscription.
LEMMA EndedKept ==
    ASSUME Facts, AloneInv, "overlap" \notin Races, Next, NEW w \in Workers, inv[w].op # "idle",
           NEW s \in Subs, Ended(stripe, events, s)
    PROVE  Ended(stripe', events', s)
  <1>1. events \subseteq events'
    BY EventsWait DEF Busy
  <1>2. CASE Live(s)
    BY <1>2, LiveEnds DEF Ended
  <1>3. CASE ~Live(s)
    BY <1>1, <1>3 DEF Ended, Live
  <1> QED BY <1>2, <1>3

\* Where the worker that steps comes to record a subscription, it was about to, or has just
\* found it live.
LEMMA StepRecords ==
    ASSUME Facts, AloneInv, NEW w \in Workers, Step(w), Len(minted') <= 3, Records(inv'[w])
    PROVE  \/ Records(inv[w]) /\ inv'[w].sub = inv[w].sub
           \/ stripe'[inv'[w].sub].status = "active"
  <1>0. /\ TypeInv /\ InvOK /\ Informed(stripe, inv[w]) /\ Current(stripe, row, plan, inv[w])
        /\ Sound(inv[w]) /\ inv[w] \in Invocation
    BY DEF Facts, TypeInv, DataInv, AloneInv, InvOK
  <1>1. ~Gone(w)
    BY IdleFields DEF Gone, Records
  <1>2. CASE LinkRead(w) \/ LinkConflict(w)
    <2>1. inv[w].op = "checkout" /\ inv'[w].sub = inv[w].sub
      BY <1>0, <1>1, <1>2, LinkReads, ConflictGoes, FinishGone DEF Went, SameRead
    <2> QED BY <2>1 DEF Records
  <1>3. CASE Create(w)
    <2>1. inv'[w].op = "subscribe" /\ inv'[w].pc = AfterCreate(inv[w].key) /\ inv[w].key \in Nat
      BY <1>0, <1>3, CreateReads, Fields
    <2>2. inv[w].key > 3
      <3>1. forgotten \in Nat
        BY <1>0 DEF TypeInv, StripeOK
      <3> QED BY <2>1, <3>1 DEF Records, AfterCreate
    <2>3. ~(inv[w].key <= Len(minted) /\ minted' = minted)
      <3>1. minted \in Seq(Subs)
        BY <1>0 DEF TypeInv, StripeOK
      <3> QED BY <2>1, <2>2, <3>1
    <2>4. PICK s \in Subs : inv'[w].sub = s /\ Becomes(s, "active", FALSE, inv[w].plan)
      BY <1>0, <1>3, <2>3, CreateReads
    <2> QED BY <2>4 DEF Becomes
  <1>4. CASE Confirm(w)
    <2>1. stripe' = stripe
      BY <1>4 DEF Confirm
    <2>2. Live(inv[w].sub) /\ inv'[w].sub = inv[w].sub
      BY <1>0, <1>4, ConfirmGoes DEF Went, SameRead, Records
    <2> QED BY <2>1, <2>2 DEF Live
  <1>5. CASE Resume(w)
    <2>1. inv[w].sub = None /\ inv'[w].op = "subscribe" /\ inv'[w].sub = None
      BY <1>0, <1>5, ResumeBecomes DEF Current, Went, SameRead
    <2> QED BY <2>1 DEF Records
  <1>6. CASE UpdatedRetrieve(w)
    BY <1>0, <1>6, RetrieveReads DEF Records
  <1>7. CASE \/ DeprovisionGate(w) \/ DispatchTeardown(w) \/ EndEnforcement(w)
             \/ ClearWorkspaceDeployPlan(w)
    <2>1. inv[w].op \in Deprovisioners
      BY <1>0, <1>7 DEF DeprovisionGate, DispatchTeardown, EndEnforcement,
                        ClearWorkspaceDeployPlan, Deprovisioning, Sound
    <2>2. PICK pc : Goto(w, pc)
      BY <1>7 DEF DeprovisionGate, DispatchTeardown, EndEnforcement, ClearWorkspaceDeployPlan
    <2>3. Went(w, pc)
      BY <1>0, <2>2, GotoWent
    <2> QED BY <2>1, <2>3 DEF Went, SameRead, Records, Deprovisioners
  <1>8. CASE \/ Mirror(w) \/ DeletedEnd(w) \/ LinkTx(w) \/ SubscribeTx(w) \/ Release(w)
             \/ CancelLimits(w) \/ ChangeTx(w)
    BY <1>0, <1>1, <1>8, FinishGone DEF Mirror, DeletedEnd, LinkTx, SubscribeTx, Release,
                                        CancelLimits, ChangeTx
  <1>9. CASE Claim(w) \/ SubscribeRecorded(w) \/ Decline(w)
    BY <1>0, <1>1, <1>9, ClaimGoes, RecordedGoes, GotoWent
       DEF Decline, At, Went, SameRead, Records
  <1>10. CASE StopRenewal(w) \/ ChangeRetrieve(w) \/ Reprice(w)
    BY <1>0, <1>1, <1>10, StopBecomes, ChangeRetrieveGoes, RepriceBecomes
       DEF Went, SameRead, Records
  <1> QED BY <1>2, <1>3, <1>4, <1>5, <1>6, <1>7, <1>8, <1>9, <1>10 DEF Step

\* What is about to be recorded stays live, or its end is still announced.
LEMMA RecordsNext ==
    ASSUME Facts, AloneInv, RecordsLive, "overlap" \notin Races, Next, Len(minted') <= 3
    PROVE  RecordsLive'
  <1>0. TypeInv
    BY DEF Facts
  <1> SUFFICES ASSUME NEW v \in Workers, Records(inv'[v])
               PROVE  Ended(stripe', events', inv'[v].sub)
    BY DEF RecordsLive
  <1>1. ASSUME Records(inv[v]), inv'[v].sub = inv[v].sub
        PROVE  Ended(stripe', events', inv'[v].sub)
    <2>1. inv[v].op # "idle" /\ inv[v].sub \in Subs /\ Ended(stripe, events, inv[v].sub)
      BY <1>1, RecordedSub DEF Records, RecordsLive
    <2>2. Ended(stripe', events', inv[v].sub)
      BY <2>1, EndedKept
    <2> QED BY <1>1, <2>2
  <1>2. CASE inv'[v] = inv[v]
    BY <1>1, <1>2
  <1>3. CASE stripe'[inv'[v].sub].status = "active"
    BY <1>3 DEF Ended
  <1>4. ASSUME NEW w \in Workers, Step(w) PROVE Ended(stripe', events', inv'[v].sub)
    <2>1. CASE v = w
      BY <1>1, <1>3, <1>4, <2>1, StepRecords
    <2>2. CASE v # w
      BY <1>2, <1>4, <2>2, StepKeeps DEF Others
    <2> QED BY <2>1, <2>2
  <1>5. ASSUME NEW w \in Workers, Fail(w) \/ Lose(w)
        PROVE  Ended(stripe', events', inv'[v].sub)
    <2>1. CASE v = w
      BY <1>0, <1>5, <2>1, FailGoes, LoseGoes, IdleFields DEF Went, Gone, SameRead, Records
    <2>2. CASE v # w
      BY <1>0, <1>2, <1>5, <2>2, FailGoes, LoseGoes DEF Went, Gone, Others
    <2> QED BY <2>1, <2>2
  <1>6. ASSUME NEW w \in Workers, NEW s \in Subs, LinkFromSuccess(w, s)
        PROVE  Ended(stripe', events', inv'[v].sub)
    <2>1. Began(w) /\ inv'[w].sub = s /\ stripe' = stripe /\ Renewing(s)
      BY <1>0, <1>6, SuccessBegins DEF LinkFromSuccess
    <2> QED BY <1>2, <1>3, <2>1 DEF Began, Others, Renewing, Live
  <1>7. ASSUME NEW w \in Workers,
               Cancel(w) \/ \E p \in Plans : Subscribe(w, p) \/ Change(w, p)
        PROVE  Ended(stripe', events', inv'[v].sub)
    <2>1. Began(w) /\ ~Records(inv'[w])
      BY <1>0, <1>7, SubscribeBegins, ChangeBegins, CancelBegins DEF Records
    <2> QED BY <1>2, <2>1 DEF Began, Others
  <1>8. ASSUME NEW w \in Workers, NEW e \in events, Handle(w, e)
        PROVE  Ended(stripe', events', inv'[v].sub)
    <2>1. CASE UpdatedLookup(w, e) \/ CreatedLookup(w, e) \/ DeletedLookup(w, e)
      <3>1. Began(w) /\ ~Records(inv'[w])
        BY <1>0, <2>1, UpdatedBegins, CreatedBegins, DeletedBegins DEF Records
      <3> QED BY <1>2, <3>1 DEF Began, Others
    <2>2. CASE LinkRetrieve(w, e)
      <3>1. Began(w) /\ inv'[w].sub = e.sub /\ stripe' = stripe /\ Renewing(e.sub)
        BY <1>0, <2>2, LinkBegins DEF LinkRetrieve
      <3> QED BY <1>2, <1>3, <3>1 DEF Began, Others, Renewing, Live
    <2>3. CASE Dismisses(w, e)
      <3>1. inv' = inv
        BY <2>3, IgnoreBegan DEF Dismisses, UpdatedUnknown, CreatedUnknown, DeletedUnknown,
                                 LinkInactive
      <3> QED BY <1>2, <3>1
    <2> QED BY <1>8, <2>1, <2>2, <2>3 DEF Handle, Dismisses
  <1>9. CASE Environment
    <2>1. inv' = inv
      BY <1>9 DEF Environment, CheckoutPaid, PeriodEnd, PortalCancel, KeysExpire, Deploy, Teardown
    <2> QED BY <1>2, <2>1
  <1> QED BY <1>4, <1>5, <1>6, <1>7, <1>8, <1>9 DEF Next, Ask

\* A claim is held, from the compare-and-set on.
Claimed(is) == \E w \in Workers : is[w].op = "subscribe" /\ is[w].pc # "claim"

\* An over subscription that is still recorded has its deleted event under way, and without a
\* row there is nothing but a claim.
RowEnds ==
    /\ row # None /\ ~Live(row) => Handling(events, inv, On("deleted", row))
    /\ row = None => limits = None /\ (plan = None \/ Claimed(inv))

\* The event of the end of a subscription is one.
LEMMA DeletedEvent ==
    ASSUME NEW s \in Subs
    PROVE  /\ On("deleted", s) \in Event /\ On("deleted", s).type = "deleted"
           /\ On("deleted", s).sub = s
  BY DEF On, Event

\* Only the linker, a subscribe and the end of a subscription write the row.
LEMMA RowNext ==
    ASSUME Next, row' # row
    PROVE  \E w \in Workers : \/ DeletedEnd(w) \/ LinkTx(w) \/ SubscribeTx(w)
                             \/ SubscribeTxLost(w)
  <1>1. ASSUME NEW w \in Workers, Step(w)
        PROVE  DeletedEnd(w) \/ LinkTx(w) \/ SubscribeTx(w)
    BY <1>1 DEF Step, UpdatedRetrieve, Mirror, DeprovisionGate, DispatchTeardown,
         EndEnforcement, ClearWorkspaceDeployPlan, LinkRead, LinkConflict, Claim,
         SubscribeRecorded, Resume, Create, Decline, Confirm, Release, StopRenewal, CancelLimits,
         ChangeRetrieve, Reprice, ChangeTx, dbVars
  <1>2. ASSUME NEW w \in Workers, Ask(w) \/ Fail(w) PROVE row' = row
    BY <1>2 DEF Ask, Subscribe, Change, LinkFromSuccess, Cancel, Fail, dbVars
  <1>3. ASSUME NEW w \in Workers, NEW e \in events, Handle(w, e) PROVE row' = row
    BY <1>3 DEF Handle, UpdatedUnknown, UpdatedLookup, CreatedUnknown, CreatedLookup,
       DeletedUnknown, DeletedLookup, LinkInactive, LinkRetrieve, dbVars
  <1>4. CASE Environment
    BY <1>4 DEF Environment, CheckoutPaid, PeriodEnd, PortalCancel, KeysExpire, Deploy, Teardown, dbVars
  <1>5. ASSUME NEW w \in Workers, Lose(w) PROVE SubscribeTxLost(w)
    BY <1>5 DEF Lose, ClaimLost
  <1> QED BY <1>1, <1>2, <1>3, <1>4, <1>5 DEF Next

\* The event of the end stays about until the row is gone.
LEMMA EndIsTold ==
    ASSUME Facts, AloneInv, RecordsLive, RowEnds, "overlap" \notin Races, Next, row' # None,
           stripe'[row'].status # "active"
    PROVE  Handling(events', inv', On("deleted", row'))
  <1>0. TypeInv /\ TypeInv'
    BY NextType DEF Facts
  <1>1. CASE row' = row /\ Live(row)
    <2>1. row \in Subs
      BY <1>0, <1>1 DEF TypeInv, DbOK, Maybe
    <2> QED BY <1>1, <2>1, LiveEnds DEF Handling
  <1>2. CASE row' = row /\ ~Live(row)
    <2> DEFINE e == On("deleted", row)
    <2>1. row \in Subs
      BY <1>0, <1>2 DEF TypeInv, DbOK, Maybe
    <2>2. e \in Event /\ e.type = "deleted" /\ e.sub = row /\ Handling(events, inv, e) /\ e # None
      BY <1>2, <2>1, DeletedEvent, NoEventAssumption DEF RowEnds
    <2> HIDE DEF e
    <2>3. ASSUME NEW w \in Workers, inv[w].ev = e, Answers(w) PROVE FALSE
      <3>1. inv[w].op = "deleted" /\ Informed(stripe, inv[w])
        BY <2>2, <2>3 DEF Facts, DataInv, Informed
      <3>2. ~Mirror(w) /\ ~LinkTx(w) /\ ~LinkRead(w) /\ ~LinkConflict(w)
        BY <3>1 DEF Mirror, LinkTx, LinkRead, LinkConflict, At, Informed, InPlace, Deprovisioning
      <3>3. row' = None
        BY <2>3, <3>2 DEF Answers, DeletedEnd
      <3> QED BY <3>3
    <2>4. ASSUME NEW w \in Workers, Dismisses(w, e) PROVE FALSE
      BY <2>2, <2>4 DEF Dismisses, UpdatedUnknown, CreatedUnknown, DeletedUnknown, LinkInactive
    <2>5. Handling(events', inv', e)
      BY <2>2, <2>3, <2>4, HandlingKept
    <2> QED BY <1>2, <2>5 DEF e
  <1>3. CASE row' # row
    <2>1. PICK w \in Workers : DeletedEnd(w) \/ LinkTx(w) \/ SubscribeTx(w) \/ SubscribeTxLost(w)
      BY <1>3, RowNext
    <2>2. LinkTx(w) \/ SubscribeTx(w) \/ SubscribeTxLost(w)
      BY <2>1 DEF DeletedEnd
    <2>3. /\ stripe' = stripe /\ row' = inv[w].sub /\ Records(inv[w])
          /\ Finish(w) \/ events' = events
      BY <1>3, <2>2 DEF LinkTx, SubscribeTx, SubscribeTxLost, At, Records
    <2>4. events \subseteq events'
      BY <1>0, <2>3, FinishGone DEF TypeInv
    <2> QED BY <2>3, <2>4 DEF RecordsLive, Ended, Handling
  <1> QED BY <1>1, <1>2, <1>3

\* Without a row, limits are only taken away,
LEMMA NoRowNoLimits ==
    ASSUME Facts, AloneInv, Next, row = None, row' = None, limits = None
    PROVE  limits' = None
  <1>0. ASSUME NEW w \in Workers
        PROVE  /\ TypeInv /\ Informed(stripe, inv[w]) /\ Current(stripe, row, plan, inv[w])
               /\ Sound(inv[w]) /\ inv[w] \in Invocation
    BY DEF Facts, TypeInv, DataInv, AloneInv, InvOK
  <1>1. ASSUME NEW w \in Workers, Step(w) PROVE limits' = None
    <2>1. CASE Mirror(w)
      <3>1. inv[w].op \in {"updated", "created"} /\ inv[w].ev # None /\ inv[w].sub = None
        BY <1>0, <2>1 DEF Mirror, Informed, InPlace, Deprovisioning, Current
      <3>2. inv[w].ev \in Event /\ inv[w].ev.sub = inv[w].sub
        BY <1>0, <3>1, Fields DEF Informed, Maybe
      <3> QED BY <3>1, <3>2, EventType, NullAssumption
    <2>2. CASE LinkRead(w)
      <3>1. inv[w].sub # None
        BY <1>0, <2>2, LinkReads, NullAssumption DEF Sound
      <3> QED BY <1>0, <2>2, <3>1, LinkReads
    <2>3. CASE LinkTx(w)
      BY <1>0, <2>3, NullAssumption DEF LinkTx, At, Sound
    <2>4. CASE SubscribeTx(w)
      BY <1>0, <2>4 DEF SubscribeTx, At, Current
    <2>5. CASE ChangeTx(w)
      BY <1>0, <2>5, NullAssumption DEF ChangeTx, At, Current, Sound
    <2>6. CASE ~(Mirror(w) \/ LinkRead(w) \/ LinkTx(w) \/ SubscribeTx(w) \/ ChangeTx(w))
      BY <1>1, <2>6 DEF Step, UpdatedRetrieve, DeletedEnd, DeprovisionGate, DispatchTeardown,
         EndEnforcement, ClearWorkspaceDeployPlan, LinkConflict, Claim,
         SubscribeRecorded, Resume, Create, Decline, Confirm, Release, StopRenewal, CancelLimits,
         ChangeRetrieve, Reprice, dbVars
    <2> QED BY <2>1, <2>2, <2>3, <2>4, <2>5, <2>6
  <1>2. ASSUME NEW w \in Workers, Ask(w) \/ Fail(w) PROVE limits' = None
    BY <1>2 DEF Ask, Subscribe, Change, LinkFromSuccess, Cancel, Fail, dbVars
  <1>3. ASSUME NEW w \in Workers, NEW e \in events, Handle(w, e) PROVE limits' = None
    BY <1>3 DEF Handle, UpdatedUnknown, UpdatedLookup, CreatedUnknown, CreatedLookup,
       DeletedUnknown, DeletedLookup, LinkInactive, LinkRetrieve, dbVars
  <1>4. CASE Environment
    BY <1>4 DEF Environment, CheckoutPaid, PeriodEnd, PortalCancel, KeysExpire, Deploy, Teardown, dbVars
  <1>5. ASSUME NEW w \in Workers, Lose(w) PROVE limits' = None
    BY <1>0, <1>5, LoseGoes DEF Current
  <1> QED BY <1>1, <1>2, <1>3, <1>4, <1>5 DEF Next

\* and the plan is one that a claim set, which is given back.
LEMMA NoRowNoPlan ==
    ASSUME Facts, AloneInv, "stuck_claim" \notin Races, Next, row = None, row' = None,
           plan = None \/ Claimed(inv)
    PROVE  plan' = None \/ Claimed(inv')
  <1>0. ASSUME NEW w \in Workers
        PROVE  /\ TypeInv /\ InvOK /\ Informed(stripe, inv[w]) /\ Current(stripe, row, plan, inv[w])
               /\ Sound(inv[w]) /\ inv[w] \in Invocation
    BY DEF Facts, TypeInv, DataInv, AloneInv, InvOK
  <1>1. ASSUME NEW w \in Workers, Others(w), plan' = plan,
               inv[w].op = "subscribe" /\ inv[w].pc # "claim" => Claimed(inv')
        PROVE  plan' = None \/ Claimed(inv')
    BY <1>1 DEF Claimed, Others
  <1>2. ASSUME NEW w \in Workers, Step(w) PROVE plan' = None \/ Claimed(inv')
    <2>0. Others(w)
      BY <1>2, StepKeeps
    <2>1. CASE Mirror(w)
      <3>1. inv[w].op \in {"updated", "created"} /\ inv[w].ev # None /\ inv[w].sub = None
        BY <1>0, <2>1 DEF Mirror, Informed, InPlace, Deprovisioning, Current
      <3>2. inv[w].ev \in Event /\ inv[w].ev.sub = inv[w].sub
        BY <1>0, <3>1, Fields DEF Informed, Maybe
      <3> QED BY <3>1, <3>2, EventType, NullAssumption
    <2>2. CASE LinkTx(w)
      BY <1>0, <2>2, NullAssumption DEF LinkTx, At, Sound
    <2>3. CASE SubscribeTx(w)
      BY <1>0, <2>3 DEF SubscribeTx, At, Current
    <2>4. CASE ChangeTx(w)
      BY <1>0, <2>4, NullAssumption DEF ChangeTx, At, Current, Sound
    <2>5. CASE DeletedEnd(w) \/ ClearWorkspaceDeployPlan(w)
      BY <2>5 DEF DeletedEnd, ClearWorkspaceDeployPlan, SetPlan
    <2>6. CASE Release(w)
      BY <1>0, <2>6 DEF Release, At, SetPlan, Current
    <2>7. CASE Claim(w)
      <3>1. CASE Gone(w) /\ plan' = plan
        BY <1>0, <1>1, <2>0, <2>7, <3>1, ClaimGoes
      <3>2. CASE Went(w, "create") \/ Went(w, "recorded")
        BY <1>0, <2>7, <3>2, ClaimGoes DEF Went, SameRead, Claimed
      <3> QED BY <1>0, <2>7, <3>1, <3>2, ClaimGoes
    <2>8. CASE \/ SubscribeRecorded(w) \/ Resume(w) \/ Create(w) \/ Decline(w) \/ Confirm(w)
      <3>1. plan' = plan
        BY <2>8 DEF SubscribeRecorded, Resume, Create, Decline, Confirm, dbVars
      <3>2. inv'[w].op = "subscribe" /\ inv'[w].pc # "claim"
        <4>1. CASE SubscribeRecorded(w) \/ Resume(w) \/ Confirm(w)
          BY ZenonT(40), <1>0, <4>1, RecordedGoes, ResumeBecomes, ConfirmGoes DEF Went, SameRead
        <4>2. CASE Create(w)
          BY <1>0, <4>2, CreateReads DEF AfterCreate
        <4>3. CASE Decline(w)
          BY <1>0, <4>3, GotoWent DEF Decline, At, Went, SameRead
        <4> QED BY <2>8, <4>1, <4>2, <4>3
      <3> QED BY <3>2 DEF Claimed
    <2>9. CASE \/ UpdatedRetrieve(w) \/ DeprovisionGate(w) \/ DispatchTeardown(w)
               \/ EndEnforcement(w) \/ LinkRead(w) \/ LinkConflict(w)
               \/ StopRenewal(w) \/ CancelLimits(w) \/ ChangeRetrieve(w) \/ Reprice(w)
      <3>1. plan' = plan
        BY <2>9 DEF UpdatedRetrieve, DeprovisionGate, DispatchTeardown, EndEnforcement,
           LinkRead, LinkConflict, StopRenewal, CancelLimits, ChangeRetrieve, Reprice, dbVars
      <3>2. inv[w].op # "subscribe"
        BY <1>0, <2>9 DEF UpdatedRetrieve, DeprovisionGate, DispatchTeardown, EndEnforcement,
           LinkRead, LinkConflict, StopRenewal, CancelLimits, ChangeRetrieve, Reprice, At,
           Informed, InPlace
      <3> QED BY <1>1, <2>0, <3>1, <3>2
    <2> QED BY <1>2, <2>1, <2>2, <2>3, <2>4, <2>5, <2>6, <2>7, <2>8, <2>9 DEF Step
  <1>3. ASSUME NEW w \in Workers, Fail(w) PROVE plan' = None \/ Claimed(inv')
    <2>1. plan' = plan /\ Others(w)
      BY <1>0, <1>3, FailGoes DEF Fail, dbVars, Went, Gone
    <2>2. CASE inv[w].op = "subscribe" /\ inv[w].pc # "claim"
      <3>1. CASE inv[w].pc = "release"
        BY <1>0, <1>3, <2>2, <3>1, FailGoes DEF Current
      <3>2. CASE inv[w].pc # "release"
        BY <1>0, <1>3, <2>2, <3>2, FailGoes DEF Went, SameRead, Claimed
      <3> QED BY <3>1, <3>2
    <2> QED BY <1>1, <2>1, <2>2
  <1>4. ASSUME NEW w \in Workers, Ask(w) PROVE plan' = None \/ Claimed(inv')
    <2>1. plan' = plan
      BY <1>4 DEF Ask, Subscribe, Change, LinkFromSuccess, Cancel, dbVars
    <2>2. Began(w)
      BY <1>0, <1>4, SubscribeBegins, ChangeBegins, SuccessBegins, CancelBegins DEF Ask
    <2> QED BY <1>1, <2>1, <2>2 DEF Began
  <1>5. ASSUME NEW w \in Workers, NEW e \in events, Handle(w, e)
        PROVE  plan' = None \/ Claimed(inv')
    <2>1. plan' = plan
      BY <1>5 DEF Handle, UpdatedUnknown, UpdatedLookup, CreatedUnknown, CreatedLookup,
         DeletedUnknown, DeletedLookup, LinkInactive, LinkRetrieve, dbVars
    <2>2. CASE UpdatedLookup(w, e) \/ CreatedLookup(w, e) \/ DeletedLookup(w, e) \/ LinkRetrieve(w, e)
      <3>1. Began(w)
        BY <1>0, <2>2, UpdatedBegins, CreatedBegins, DeletedBegins, LinkBegins
      <3> QED BY <1>1, <2>1, <3>1 DEF Began
    <2>3. CASE Dismisses(w, e)
      BY <2>1, <2>3, IgnoreBegan DEF Dismisses, UpdatedUnknown, CreatedUnknown, DeletedUnknown,
                                     LinkInactive
    <2> QED BY <1>5, <2>2, <2>3 DEF Handle, Dismisses
  <1>6. CASE Environment
    BY <1>6 DEF Environment, CheckoutPaid, PeriodEnd, PortalCancel, KeysExpire, Deploy, Teardown, dbVars
  <1>7. ASSUME NEW w \in Workers, Lose(w) PROVE Claimed(inv')
    <2>1. inv'[w].op = "subscribe" /\ inv'[w].pc = "release"
      BY <1>0, <1>7, LoseGoes DEF Went, SameRead
    <2> QED BY <2>1 DEF Claimed
  <1> QED BY <1>2, <1>3, <1>4, <1>5, <1>6, <1>7 DEF Next

\* The chain of keys does not get shorter.
LEMMA ChainGrows ==
    ASSUME Facts, Next
    PROVE  Len(minted) <= Len(minted')
  <1>1. minted \in Seq(Subs)
    BY DEF Facts, TypeInv, StripeOK
  <1>2. ASSUME NEW w \in Workers, Step(w) PROVE Len(minted) <= Len(minted')
    <2>1. CASE Create(w)
      <3>1. minted' = minted \/ \E s \in Subs : minted' = Append(minted, s)
        BY <2>1, CreateReads DEF Facts
      <3> QED BY <1>1, <3>1
    <2>2. CASE ~Create(w)
      <3>1. minted' = minted
        BY <1>2, <2>2 DEF Step, UpdatedRetrieve, Mirror, DeletedEnd, DeprovisionGate,
         DispatchTeardown, EndEnforcement, ClearWorkspaceDeployPlan, LinkRead, LinkConflict, LinkTx,
         Claim, SubscribeRecorded, Resume, Decline, Confirm, SubscribeTx, Release, StopRenewal,
         CancelLimits, ChangeRetrieve, Reprice, ChangeTx
      <3> QED BY <1>1, <3>1
    <2> QED BY <2>1, <2>2
  <1>3. ASSUME NEW w \in Workers, Ask(w) \/ Fail(w) \/ Lose(w) PROVE minted' = minted
    BY <1>3 DEF Ask, Subscribe, Change, LinkFromSuccess, Cancel, Fail, Lose,
       ClaimLost, SubscribeTxLost
  <1>4. ASSUME NEW w \in Workers, NEW e \in events, Handle(w, e) PROVE minted' = minted
    BY <1>4 DEF Handle, UpdatedUnknown, UpdatedLookup, CreatedUnknown, CreatedLookup,
       DeletedUnknown, DeletedLookup, LinkInactive, LinkRetrieve
  <1>5. Environment => minted' = minted
    BY DEF Environment, CheckoutPaid, PeriodEnd, PortalCancel, KeysExpire, Deploy, Teardown
  <1>6. minted' = minted => Len(minted) <= Len(minted')
    BY <1>1
  <1> QED BY <1>2, <1>3, <1>4, <1>5, <1>6 DEF Next

EndInv == RecordsLive /\ RowEnds
\* The end of a subscription keeps being announced until the row is gone.
LEMMA EndNext ==
    ASSUME Facts, AloneInv, EndInv, "overlap" \notin Races, "stuck_claim" \notin Races, Next,
           Len(minted') <= 3
    PROVE  EndInv'
  <1>1. RecordsLive'
    BY RecordsNext DEF EndInv
  <1>2. row' # None /\ ~Live(row)' => Handling(events', inv', On("deleted", row'))
    BY EndIsTold DEF EndInv, Live
  <1>3. ASSUME row' = None PROVE limits' = None /\ (plan' = None \/ Claimed(inv'))
    <2>1. CASE row = None
      BY <1>3, <2>1, NoRowNoLimits, NoRowNoPlan DEF EndInv, RowEnds
    <2>2. CASE row # None
      <3>1. PICK w \in Workers : DeletedEnd(w) \/ LinkTx(w) \/ SubscribeTx(w) \/ SubscribeTxLost(w)
        BY <1>3, <2>2, RowNext
      <3>2. Sound(inv[w])
        BY DEF Facts, TypeInv, InvOK
      <3>3. DeletedEnd(w)
        BY <1>3, <2>2, <3>1, <3>2, NullAssumption DEF LinkTx, SubscribeTx, SubscribeTxLost, At, Sound
      <3> QED BY <3>3 DEF DeletedEnd, SetPlan
    <2> QED BY <2>1, <2>2
  <1> QED BY <1>1, <1>2, <1>3 DEF EndInv, RowEnds

\* A workspace whose subscription is over, or that has none, ends up with no row, no plan and no
\* paid limits, for every number of subscriptions, failures, redeliveries and requests, while
\* invocations run one at a time and a claim that fails is given back
\* (handleSubscriptionDeleted, releaseClaim, linkDeploySubscription). The chain of keys is taken
\* no further than the keys whose answer subscribeDeploy checks against Stripe: a corpse behind
\* the fourth would be recorded after its deleted event.
THEOREM EntitlementsEnd ==
    Spec /\ "overlap" \notin Races /\ "stuck_claim" \notin Races
        => [](Len(minted) <= 3 => EntitlementEnds)
  <1> DEFINE I == /\ Facts /\ AloneInv /\ (Len(minted) <= 3 => EndInv)
                  /\ "overlap" \notin Races /\ "stuck_claim" \notin Races
  <1>1. Init /\ "overlap" \notin Races /\ "stuck_claim" \notin Races => I
    <2>1. Init => EndInv
      BY IdleFields DEF Init, EndInv, RecordsLive, RowEnds, Records
    <2> QED BY <2>1, FactsInit, AloneInit
  <1>2. I /\ [Next]_vars => I'
    <2> SUFFICES ASSUME I, [Next]_vars PROVE I'
      OBVIOUS
    <2>1. Facts' /\ AloneInv'
      BY FactsNext, AloneNext
    <2>2. CASE UNCHANGED vars
      <3>1. UNCHANGED <<stripe, minted, row, plan, limits, events, inv>>
        BY <2>2 DEF vars, dbVars
      <3>2. EndInv => EndInv'
        BY <3>1 DEF EndInv, RecordsLive, RowEnds, Live
      <3> QED BY <2>1, <3>1, <3>2
    <2>3. CASE Next
      <3>1. /\ minted \in Seq(Subs) /\ minted' \in Seq(Subs) /\ Len(minted) <= Len(minted')
        BY <2>1, <2>3, ChainGrows DEF Facts, TypeInv, StripeOK
      <3>2. Len(minted') <= 3 => Len(minted) <= 3
        BY <3>1
      <3>3. ASSUME Len(minted') <= 3 PROVE EndInv'
        BY <2>3, <3>2, <3>3, EndNext
      <3> QED BY <2>1, <3>3
    <2> QED BY <2>2, <2>3
  <1>3. I => (Len(minted) <= 3 => EntitlementEnds)
    <2> SUFFICES ASSUME I, Len(minted) <= 3, Quiet, row = None \/ ~Live(row)
                 PROVE  row = None /\ plan = None /\ limits = None
      BY DEF EntitlementEnds
    <2>1. \A w \in Workers : inv[w].op = "idle"
      BY DEF Quiet, Busy
    <2>2. row = None
      <3> SUFFICES ASSUME row # None PROVE FALSE
        OBVIOUS
      <3>1. row \in Subs
        BY DEF Facts, TypeInv, DbOK, Maybe
      <3>2. PICK w \in Workers : inv[w].ev = On("deleted", row)
        BY DEF EndInv, RowEnds, Handling, Quiet
      <3>3. inv[w].op = "deleted"
        BY <3>1, <3>2, DeletedEvent, NoEventAssumption DEF Facts, DataInv, Informed
      <3> QED BY <2>1, <3>3
    <2>3. ~Claimed(inv)
      BY <2>1 DEF Claimed
    <2> QED BY <2>2, <2>3 DEF EndInv, RowEnds
  <1> HIDE DEF I
  <1> QED BY <1>1, <1>2, <1>3, PTL DEF Spec

----------------------------------------------------------------------------
(* The plan and the limits follow Stripe.                                  *)

\* Stripe is about to say that the subscription has changed.
Told(evs, s) == On("updated", s) \in evs
\* What b says of a live subscription is so, or Stripe is about to say otherwise.
UpToDate(st, evs, s, b) == s # None /\ st[s].status = "active" => Told(evs, s) \/ b
\* What an invocation has read of its subscription is still so.
Seen(st, i) == i.live.plan = st[i.sub].plan /\ i.live.cancelling = st[i.sub].cancelling

\* What the webhooks and the linker rely on, by the time they get somewhere,
FitsWebhook(st, evs, p, i) ==
    /\ i.op \in {"created", "checkout"} \/ (i.op = "updated" /\ i.pc # "retrieve") =>
          UpToDate(st, evs, i.sub, Seen(st, i))
    /\ i.op = "updated" /\ i.pc = "retrieve" => p = i.snap
    /\ i.op \in {"updated", "created"} /\ i.pc = "mirror" =>
          p = i.snap \/ MirroredPlan(i.live) # i.snap
    /\ i.op = "updated" /\ i.pc \in Deprovisioning => i.live.cancelling /\ i.snap # None
\* and what the mutations do.
FitsMutation(st, evs, r, p, i) ==
    /\ i.op = "cancel" /\ i.pc # "stop" => UpToDate(st, evs, r, st[r].cancelling)
    /\ i.op = "cancel" /\ i.pc = "limits" => p = None
    /\ i.op = "change" /\ i.pc = "tx" => UpToDate(st, evs, r, FALSE)
    /\ i.op = "subscribe" =>
          /\ i.pc \in {"claim", "recorded", "resume", "release"} =>
                UpToDate(st, evs, r, st[r].cancelling)
          /\ i.pc = "tx" /\ i.sub = None => UpToDate(st, evs, r, FALSE)
          /\ i.pc = "confirm" \/ (i.pc = "tx" /\ i.sub # None) => st[i.sub].plan = i.plan
Fits(st, evs, r, p, i) == FitsWebhook(st, evs, p, i) /\ FitsMutation(st, evs, r, p, i)
AllFit == \A w \in Workers : Fits(stripe, events, row, plan, inv[w])

\* The plan is the one of the subscription, or none while that is set to cancel.
Mirrors(st, p, s) ==
    IF st[s].cancelling THEN p = None \/ "unlinked_cancel" \in Races ELSE p = st[s].plan
RowMirrored ==
    row # None /\ Live(row) =>
        \/ Claimed(inv)
        \/ Handling(events, inv, On("updated", row))
        \/ Mirrors(stripe, plan, row)
LimitsFit ==
    plan = None \/ limits = plan \/ Claimed(inv) \/ (row # None /\ ~Live(row))

\* Only the recorded subscription is cancelled.
CancellingLinked ==
    \A s \in Subs : Live(s) /\ stripe[s].cancelling => row = s \/ "unlinked_cancel" \in Races

SyncInv == AllFit /\ RowMirrored /\ LimitsFit /\ CancellingLinked

\* A subscription stays as it is, or Stripe is about to say otherwise.
LEMMA SeenKept ==
    ASSUME Facts, AloneInv, Next, NEW s \in Subs, stripe[s].status # "none",
           stripe'[s].status = "active"
    PROVE  /\ stripe[s].status = "active"
           /\ \/ Told(events', s)
              \/ /\ stripe'[s].cancelling = stripe[s].cancelling
                 /\ stripe'[s].plan = stripe[s].plan
  <1>0. stripe[s].status = "active"
    BY StatusNext DEF StatusKept, Facts, TypeInv, StripeOK, Subscription
  <1>1. \A t \in Subs : \A st, c, p : t # s /\ Becomes(t, st, c, p) => stripe'[s] = stripe[s]
    BY DEF Becomes
  <1>2. \A p : stripe[s] # Unused
    BY <1>0, IdleFields
  <1>3. \A c, p : Becomes(s, "active", c, p) => stripe'[s].cancelling = c /\ stripe'[s].plan = p
    BY DEF Becomes
  <1>4. \A c, p : ~Becomes(s, "canceled", c, p)
    BY DEF Becomes
  <1> QED BY <1>0, <1>1, <1>2, <1>3, <1>4, StripeNext DEF Told

\* Only a recorded subscription is set to cancel, unless unlinked_cancel allows it.
LEMMA CancellingNext ==
    ASSUME Facts, AloneInv, CancellingLinked, Next
    PROVE  CancellingLinked'
  <1> SUFFICES ASSUME NEW s \in Subs, stripe'[s].status = "active", stripe'[s].cancelling,
                      "unlinked_cancel" \notin Races
               PROVE  row' = s
    BY DEF CancellingLinked, Live
  <1>0. s # None /\ ~Canceled(s)
    BY StatusNext, NullAssumption DEF StatusKept, Canceled
  <1>1. ASSUME row = s PROVE row' = s
    BY <1>0, <1>1, RowStays
  <1>2. CASE stripe'[s] = stripe[s]
    BY <1>1, <1>2 DEF CancellingLinked, Live
  <1>3. \A t \in Subs : \A st, c, p : t # s /\ Becomes(t, st, c, p) => stripe'[s] = stripe[s]
    BY DEF Becomes
  <1>4. \A st, p : ~Becomes(s, st, FALSE, p)
    BY DEF Becomes
  <1>5. \A c, p : ~Becomes(s, "canceled", c, p)
    BY DEF Becomes
  <1> QED BY <1>1, <1>2, <1>3, <1>4, <1>5, StripeNext

\* A claim is held until it is recorded or given back.
LEMMA ClaimedKept ==
    ASSUME Facts, AloneInv, "stuck_claim" \notin Races, Next, Claimed(inv)
    PROVE  Claimed(inv') \/ \E w \in Workers : SubscribeTx(w) \/ Release(w)
  <1>0. ASSUME NEW w \in Workers
        PROVE  /\ TypeInv /\ InvOK /\ Informed(stripe, inv[w]) /\ Current(stripe, row, plan, inv[w])
    BY DEF Facts, TypeInv, DataInv, AloneInv
  <1>1. ASSUME NEW w \in Workers, Others(w),
               inv[w].op = "subscribe" /\ inv[w].pc # "claim" => Claimed(inv')
        PROVE  Claimed(inv')
    BY <1>1 DEF Claimed, Others
  <1>2. ASSUME NEW w \in Workers, Step(w), ~SubscribeTx(w), ~Release(w) PROVE Claimed(inv')
    <2>0. Others(w)
      BY <1>2, StepKeeps
    <2>1. CASE \/ SubscribeRecorded(w) \/ Resume(w) \/ Create(w) \/ Decline(w) \/ Confirm(w)
      <3>1. inv'[w].op = "subscribe" /\ inv'[w].pc # "claim"
        <4>1. CASE SubscribeRecorded(w) \/ Resume(w) \/ Confirm(w)
          BY ZenonT(40), <1>0, <4>1, RecordedGoes, ResumeBecomes, ConfirmGoes DEF Went, SameRead
        <4>2. CASE Create(w)
          BY <1>0, <4>2, CreateReads DEF AfterCreate
        <4>3. CASE Decline(w)
          BY <1>0, <4>3, GotoWent DEF Decline, At, Went, SameRead
        <4> QED BY <2>1, <4>1, <4>2, <4>3
      <3> QED BY <3>1 DEF Claimed
    <2>2. CASE ~(\/ SubscribeRecorded(w) \/ Resume(w) \/ Create(w) \/ Decline(w) \/ Confirm(w))
      <3>1. inv[w].op # "subscribe" \/ inv[w].pc = "claim"
        BY <1>0, <1>2, <2>2 DEF Step, UpdatedRetrieve, DeprovisionGate, DispatchTeardown,
           EndEnforcement, ClearWorkspaceDeployPlan, Mirror, DeletedEnd, LinkRead, LinkConflict,
           LinkTx, Claim, StopRenewal, CancelLimits, ChangeRetrieve, Reprice, ChangeTx, At,
           Informed, InPlace
      <3> QED BY <1>1, <2>0, <3>1
    <2> QED BY <2>1, <2>2
  <1>3. ASSUME NEW w \in Workers, Fail(w) PROVE Claimed(inv')
    <2>1. Others(w)
      BY <1>0, <1>3, FailGoes DEF Went, Gone
    <2>2. CASE inv[w].op = "subscribe" /\ inv[w].pc # "claim"
      BY <1>0, <1>3, <2>2, FailGoes DEF Went, SameRead, Claimed, Current
    <2> QED BY <1>1, <2>1, <2>2
  <1>4. ASSUME NEW w \in Workers, Ask(w) PROVE Claimed(inv')
    <2>1. Began(w)
      BY <1>0, <1>4, SubscribeBegins, ChangeBegins, SuccessBegins, CancelBegins DEF Ask
    <2> QED BY <1>1, <2>1 DEF Began
  <1>5. ASSUME NEW w \in Workers, NEW e \in events, Handle(w, e) PROVE Claimed(inv')
    <2>1. CASE UpdatedLookup(w, e) \/ CreatedLookup(w, e) \/ DeletedLookup(w, e) \/ LinkRetrieve(w, e)
      <3>1. Began(w)
        BY <1>0, <2>1, UpdatedBegins, CreatedBegins, DeletedBegins, LinkBegins
      <3> QED BY <1>1, <3>1 DEF Began
    <2>2. CASE Dismisses(w, e)
      BY <2>2, IgnoreBegan DEF Dismisses, UpdatedUnknown, CreatedUnknown, DeletedUnknown,
                               LinkInactive
    <2> QED BY <1>5, <2>1, <2>2 DEF Handle, Dismisses
  <1>6. CASE Environment
    BY <1>6 DEF Environment, CheckoutPaid, PeriodEnd, PortalCancel, KeysExpire, Deploy, Teardown
  <1>7. ASSUME NEW w \in Workers, Lose(w) PROVE Claimed(inv')
    <2>1. Others(w) /\ (inv[w].pc = "claim" \/ Went(w, "release")) /\ inv[w].op = "subscribe"
      BY <1>0, <1>7, LoseGoes DEF Went, Gone
    <2>2. CASE Went(w, "release")
      BY <2>1, <2>2 DEF Went, SameRead, Claimed
    <2> QED BY <1>1, <2>1, <2>2
  <1> QED BY <1>2, <1>3, <1>4, <1>5, <1>6, <1>7 DEF Next

\* Where the plan and the limits are written.
LEMMA PlanNext ==
    ASSUME Next, plan' # plan
    PROVE  \E w \in Workers : \/ Mirror(w) \/ DeletedEnd(w) \/ ClearWorkspaceDeployPlan(w)
                              \/ LinkTx(w) \/ Claim(w) \/ SubscribeTx(w) \/ Release(w) \/ ChangeTx(w)
                              \/ Lose(w)
  <1>1. ASSUME NEW w \in Workers, Step(w)
        PROVE  \/ Mirror(w) \/ DeletedEnd(w) \/ ClearWorkspaceDeployPlan(w)
               \/ LinkTx(w) \/ Claim(w) \/ SubscribeTx(w) \/ Release(w) \/ ChangeTx(w)
    BY <1>1 DEF Step, UpdatedRetrieve, DeprovisionGate, DispatchTeardown, EndEnforcement, LinkRead,
         LinkConflict, SubscribeRecorded, Resume, Create, Decline, Confirm, StopRenewal,
         CancelLimits, ChangeRetrieve, Reprice, dbVars
  <1>2. ASSUME NEW w \in Workers, Ask(w) \/ Fail(w) PROVE plan' = plan
    BY <1>2 DEF Ask, Subscribe, Change, LinkFromSuccess, Cancel, Fail, dbVars
  <1>3. ASSUME NEW w \in Workers, NEW e \in events, Handle(w, e) PROVE plan' = plan
    BY <1>3 DEF Handle, UpdatedUnknown, UpdatedLookup, CreatedUnknown, CreatedLookup,
       DeletedUnknown, DeletedLookup, LinkInactive, LinkRetrieve, dbVars
  <1>4. CASE Environment
    BY <1>4 DEF Environment, CheckoutPaid, PeriodEnd, PortalCancel, KeysExpire, Deploy, Teardown, dbVars
  <1> QED BY <1>1, <1>2, <1>3, <1>4 DEF Next

\* The steps that write the limits.
LEMMA LimitsNext ==
    ASSUME Next, limits' # limits
    PROVE  \E w \in Workers : \/ Mirror(w) \/ DeletedEnd(w) \/ LinkRead(w) \/ LinkTx(w)
                              \/ SubscribeTx(w) \/ CancelLimits(w) \/ ChangeTx(w) \/ Lose(w)
  <1>1. ASSUME NEW w \in Workers, Step(w)
        PROVE  \/ Mirror(w) \/ DeletedEnd(w) \/ LinkRead(w) \/ LinkTx(w)
               \/ SubscribeTx(w) \/ CancelLimits(w) \/ ChangeTx(w)
    BY <1>1 DEF Step, UpdatedRetrieve, DeprovisionGate, DispatchTeardown, EndEnforcement,
         ClearWorkspaceDeployPlan, LinkConflict, Claim, SubscribeRecorded, Resume, Create, Decline,
         Confirm, Release, StopRenewal, ChangeRetrieve, Reprice, dbVars
  <1>2. ASSUME NEW w \in Workers, Ask(w) \/ Fail(w) PROVE limits' = limits
    BY <1>2 DEF Ask, Subscribe, Change, LinkFromSuccess, Cancel, Fail, dbVars
  <1>3. ASSUME NEW w \in Workers, NEW e \in events, Handle(w, e) PROVE limits' = limits
    BY <1>3 DEF Handle, UpdatedUnknown, UpdatedLookup, CreatedUnknown, CreatedLookup,
       DeletedUnknown, DeletedLookup, LinkInactive, LinkRetrieve, dbVars
  <1>4. CASE Environment
    BY <1>4 DEF Environment, CheckoutPaid, PeriodEnd, PortalCancel, KeysExpire, Deploy, Teardown, dbVars
  <1> QED BY <1>1, <1>2, <1>3, <1>4 DEF Next

\* Only the worker that steps matters, one invocation at a time.
LEMMA FitAfter ==
    ASSUME AloneInv, NEW w \in Workers, inv[w].op # "idle" \/ ~Busy, Others(w),
           Fits(stripe', events', row', plan', inv'[w])
    PROVE  AllFit'
  <1>1. \A v \in Workers : v # w => inv'[v].op = "idle"
    BY DEF AloneInv, Alone, Busy, Others
  <1>2. \A v \in Workers : v # w => Fits(stripe', events', row', plan', inv'[v])
    BY <1>1 DEF Fits, FitsWebhook, FitsMutation
  <1> QED BY <1>2 DEF AllFit

\* An invocation that stops leaves nobody who could be wrong about Stripe.
LEMMA FitGone ==
    ASSUME AloneInv, NEW w \in Workers, inv[w].op # "idle", Gone(w)
    PROVE  AllFit'
  <1>1. Fits(stripe', events', row', plan', inv'[w]) /\ Others(w)
    BY IdleFields DEF Gone, Fits, FitsWebhook, FitsMutation
  <1> QED BY <1>1, FitAfter

\* The steps that answer.
LEMMA FitAnswers ==
    ASSUME Facts, AloneInv, NEW w \in Workers,
           \/ Mirror(w) \/ DeletedEnd(w) \/ LinkTx(w) \/ SubscribeTx(w) \/ Release(w)
           \/ CancelLimits(w) \/ ChangeTx(w)
    PROVE  AllFit'
  <1>1. InvOK /\ Informed(stripe, inv[w])
    BY DEF Facts, DataInv, TypeInv
  <1>2. Gone(w)
    BY <1>1, FinishGone DEF Mirror, DeletedEnd, LinkTx, SubscribeTx, Release, CancelLimits,
                            ChangeTx
  <1>3. inv[w].op # "idle"
    BY <1>1 DEF Mirror, DeletedEnd, LinkTx, SubscribeTx, Release, CancelLimits, ChangeTx, At,
                Informed, InPlace
  <1> QED BY <1>2, <1>3, FitGone

\* DeprovisionCompute: the plan is gone by the time it is done.
LEMMA FitDeprovision ==
    ASSUME Facts, AloneInv, AllFit, NEW w \in Workers,
           \/ DeprovisionGate(w) \/ DispatchTeardown(w) \/ EndEnforcement(w)
           \/ ClearWorkspaceDeployPlan(w)
    PROVE  AllFit'
  <1>0. /\ InvOK /\ Informed(stripe, inv[w]) /\ Fits(stripe, events, row, plan, inv[w])
        /\ Sound(inv[w])
    BY DEF Facts, DataInv, TypeInv, InvOK, AllFit
  <1>1. inv[w].op \in Deprovisioners /\ inv[w].pc \in Deprovisioning
    BY <1>0 DEF DeprovisionGate, DispatchTeardown, EndEnforcement, ClearWorkspaceDeployPlan,
                Deprovisioning, Sound
  <1>2. stripe' = stripe /\ events' = events /\ row' = row
    BY DEF DeprovisionGate, DispatchTeardown, EndEnforcement, ClearWorkspaceDeployPlan, dbVars
  <1>3. ASSUME NEW pc, Went(w, pc),
               pc \in Deprovisioning \/ (plan' = None /\ pc = AfterDeprovision(inv[w].op))
        PROVE  AllFit'
    <2>1. /\ inv'[w].op = inv[w].op /\ inv'[w].pc = pc /\ inv'[w].sub = inv[w].sub
          /\ inv'[w].live = inv[w].live /\ inv'[w].snap = inv[w].snap /\ inv'[w].plan = inv[w].plan
          /\ Others(w)
      BY <1>3 DEF Went, SameRead
    <2>2. pc \notin {"stop", "retrieve"} /\ inv[w].pc \notin {"stop", "retrieve", "mirror", "limits"}
      BY <1>1, <1>3 DEF Deprovisioning, Deprovisioners, AfterDeprovision
    <2>3. pc = "mirror" => plan' = None /\ inv[w].op = "updated"
      BY <1>1, <1>3 DEF Deprovisioning, Deprovisioners, AfterDeprovision
    <2>4. pc = "limits" => plan' = None
      BY <1>3 DEF Deprovisioning
    <2>5. pc = "mirror" => MirroredPlan(inv[w].live) # inv[w].snap
      BY <1>0, <1>1, <2>3 DEF Fits, FitsWebhook, MirroredPlan
    <2>6. inv[w].op = "updated" => UpToDate(stripe, events, inv[w].sub, Seen(stripe, inv[w]))
      BY <1>0, <2>2 DEF Fits, FitsWebhook
    <2>7. inv[w].op = "updated" => UpToDate(stripe', events', inv'[w].sub, Seen(stripe', inv'[w]))
      BY <1>2, <2>1, <2>6 DEF UpToDate, Seen
    <2>8. inv[w].op = "updated" => inv[w].live.cancelling /\ inv[w].snap # None
      BY <1>0, <1>1 DEF Fits, FitsWebhook
    <2>9. FitsWebhook(stripe', events', plan', inv'[w])
      BY <1>1, <2>1, <2>2, <2>3, <2>5, <2>7, <2>8 DEF FitsWebhook, Deprovisioners
    <2>10. inv[w].op = "cancel" => UpToDate(stripe', events', row', stripe'[row'].cancelling)
      BY <1>0, <1>2, <2>2 DEF Fits, FitsMutation
    <2>11. FitsMutation(stripe', events', row', plan', inv'[w])
      BY <1>1, <2>1, <2>4, <2>10 DEF FitsMutation, Deprovisioners
    <2> QED BY <1>1, <2>1, <2>9, <2>11, FitAfter DEF Fits, Deprovisioners
  <1>4. CASE DeprovisionGate(w)
    <2>1. plan' = plan
      BY <1>4 DEF DeprovisionGate, dbVars
    <2>2. Went(w, IF plan = None THEN AfterDeprovision(inv[w].op) ELSE "dispatch")
      BY <1>0, <1>4, GotoWent DEF DeprovisionGate
    <2> QED BY <1>3, <2>1, <2>2 DEF Deprovisioning
  <1>5. CASE DispatchTeardown(w) \/ EndEnforcement(w)
    <2>1. Went(w, "unsuspend") \/ Went(w, "clear")
      BY <1>0, <1>5, GotoWent DEF DispatchTeardown, EndEnforcement
    <2> QED BY <1>3, <2>1 DEF Deprovisioning
  <1>6. CASE ClearWorkspaceDeployPlan(w)
    <2>1. plan' = None /\ Went(w, AfterDeprovision(inv[w].op))
      BY <1>0, <1>6, GotoWent DEF ClearWorkspaceDeployPlan, SetPlan
    <2> QED BY <1>3, <2>1
  <1> QED BY <1>4, <1>5, <1>6

\* The reads of the webhook and of the linker.
LEMMA FitReads ==
    ASSUME Facts, AloneInv, AllFit, NEW w \in Workers,
           UpdatedRetrieve(w) \/ LinkRead(w) \/ LinkConflict(w)
    PROVE  AllFit'
  <1>0. /\ TypeInv /\ InvOK /\ Informed(stripe, inv[w]) /\ Fits(stripe, events, row, plan, inv[w])
    BY DEF Facts, DataInv, TypeInv, AllFit
  <1>1. stripe' = stripe /\ row' = row /\ plan' = plan
    BY DEF UpdatedRetrieve, LinkRead, LinkConflict, dbVars
  <1>2. CASE UpdatedRetrieve(w)
    <2>1. /\ Others(w) /\ inv[w].op = "updated" /\ inv[w].pc = "retrieve"
          /\ inv'[w].op = "updated" /\ inv'[w].sub = inv[w].sub
          /\ inv'[w].snap = inv[w].snap /\ inv'[w].live = stripe[inv[w].sub]
          /\ inv'[w].pc = IF stripe[inv[w].sub].cancelling /\ inv[w].snap # None
                             THEN "gate" ELSE "mirror"
      BY <1>0, <1>2, RetrieveReads
    <2>2. plan = inv[w].snap
      BY <1>0, <2>1 DEF Fits, FitsWebhook
    <2>3. Seen(stripe', inv'[w])
      BY <1>1, <2>1 DEF Seen
    <2>4. FitsWebhook(stripe', events', plan', inv'[w])
      BY <1>1, <2>1, <2>2, <2>3 DEF FitsWebhook, UpToDate, Deprovisioning
    <2>5. FitsMutation(stripe', events', row', plan', inv'[w])
      BY <2>1 DEF FitsMutation
    <2> QED BY <2>1, <2>4, <2>5, FitAfter DEF Fits
  <1>3. CASE Finish(w) /\ (LinkRead(w) \/ LinkConflict(w))
    BY <1>0, <1>3, LinkReads, ConflictGoes, FinishGone, FitGone
  <1>4. CASE ~Finish(w) /\ (LinkRead(w) \/ LinkConflict(w))
    <2>1. /\ events' = events /\ Others(w) /\ inv[w].op = "checkout" /\ inv'[w].op = "checkout"
          /\ inv'[w].sub = inv[w].sub /\ inv'[w].live = inv[w].live
      BY <1>0, <1>4, LinkReads, ConflictGoes DEF Went, SameRead
    <2>2. UpToDate(stripe, events, inv[w].sub, Seen(stripe, inv[w]))
      BY <1>0, <2>1 DEF Fits, FitsWebhook
    <2>3. UpToDate(stripe', events', inv'[w].sub, Seen(stripe', inv'[w]))
      BY <1>1, <2>1, <2>2 DEF UpToDate, Seen
    <2>4. Fits(stripe', events', row', plan', inv'[w])
      BY <2>1, <2>3 DEF Fits, FitsWebhook, FitsMutation
    <2> QED BY <2>1, <2>4, FitAfter
  <1> QED BY <1>2, <1>3, <1>4

\* cancelDeploy and changeDeployPlan.
LEMMA FitMutates ==
    ASSUME Facts, AloneInv, AllFit, NEW w \in Workers,
           StopRenewal(w) \/ ChangeRetrieve(w) \/ Reprice(w)
    PROVE  AllFit'
  <1>0. /\ TypeInv /\ InvOK /\ Current(stripe, row, plan, inv[w]) /\ row' = row
    BY DEF Facts, TypeInv, AloneInv, StopRenewal, ChangeRetrieve, Reprice, dbVars
  <1>1. CASE StopRenewal(w)
    <2>1. /\ inv[w].op = "cancel" /\ inv[w].rec \in Subs /\ inv[w].rec = row /\ Went(w, "gate")
      BY <1>0, <1>1, StopBecomes DEF Current
    <2>2. UpToDate(stripe', events', row', stripe'[row'].cancelling)
      <3>1. CASE Becomes(inv[w].rec, "active", TRUE, stripe[inv[w].rec].plan)
        BY <1>0, <2>1, <3>1 DEF Becomes, UpToDate
      <3>2. CASE ~Renewing(inv[w].rec) /\ stripe' = stripe
        BY <1>0, <2>1, <3>2 DEF Renewing, Live, UpToDate
      <3> QED BY <1>0, <1>1, <3>1, <3>2, StopBecomes
    <2>3. Fits(stripe', events', row', plan', inv'[w]) /\ Others(w)
      BY <2>1, <2>2 DEF Fits, FitsWebhook, FitsMutation, Went, SameRead
    <2> QED BY <2>1, <2>3, FitAfter
  <1>2. CASE ChangeRetrieve(w)
    <2>1. inv[w].op = "change" /\ (Gone(w) \/ Went(w, "reprice"))
      BY <1>0, <1>2, ChangeRetrieveGoes
    <2>2. CASE Went(w, "reprice")
      <3>1. Fits(stripe', events', row', plan', inv'[w]) /\ Others(w)
        BY <2>1, <2>2 DEF Fits, FitsWebhook, FitsMutation, Went, SameRead
      <3> QED BY <2>1, <3>1, FitAfter
    <2> QED BY <2>1, <2>2, FitGone
  <1>3. CASE Reprice(w)
    <2>1. inv[w].op = "change" /\ inv[w].rec = row
      BY <1>0, <1>3, RepriceBecomes DEF Current
    <2>2. CASE Went(w, "tx") /\ events' = events \cup {On("updated", inv[w].rec)}
      <3>1. UpToDate(stripe', events', row', FALSE)
        BY <1>0, <2>1, <2>2 DEF UpToDate, Told
      <3>2. Fits(stripe', events', row', plan', inv'[w]) /\ Others(w)
        BY <2>1, <2>2, <3>1 DEF Fits, FitsWebhook, FitsMutation, Went, SameRead
      <3> QED BY <2>1, <3>2, FitAfter
    <2> QED BY <1>0, <1>3, <2>1, <2>2, RepriceBecomes, FitGone
  <1> QED BY <1>1, <1>2, <1>3

\* A subscription that is over is no matter.
LEMMA OverUpToDate ==
    ASSUME NEW st, NEW evs, NEW r, NEW b, Over(st, r)
    PROVE  UpToDate(st, evs, r, b)
  BY DEF Over, UpToDate

\* subscribeDeploy.
LEMMA FitSubscribes ==
    ASSUME Facts, AloneInv, AllFit, "other_plan" \notin Races, NEW w \in Workers,
           \/ Claim(w) \/ SubscribeRecorded(w) \/ Resume(w) \/ Create(w) \/ Decline(w)
           \/ Confirm(w)
    PROVE  AllFit'
  <1>0. /\ TypeInv /\ InvOK /\ Current(stripe, row, plan, inv[w]) /\ row' = row
        /\ inv[w].op = "subscribe" /\ Fits(stripe, events, row, plan, inv[w]) /\ inv[w].rec = row
    BY DEF Facts, TypeInv, AloneInv, AllFit, Claim, SubscribeRecorded, Resume, Create, Decline,
           Confirm, dbVars, At, Current
  <1>1. ASSUME Others(w), inv'[w].op = "subscribe", FitsMutation(stripe', events', row', plan', inv'[w])
        PROVE  AllFit'
    <2>1. Fits(stripe', events', row', plan', inv'[w])
      BY <1>1 DEF Fits, FitsWebhook
    <2> QED BY <1>0, <1>1, <2>1, FitAfter
  <1>2. CASE Claim(w) \/ SubscribeRecorded(w)
    <2>1. stripe' = stripe /\ events' = events
      BY <1>2 DEF Claim, SubscribeRecorded
    <2>2. CASE Gone(w)
      BY <1>0, <2>2, FitGone
    <2>3. ASSUME NEW pc \in {"create", "recorded", "resume", "release"}, Went(w, pc) PROVE AllFit'
      <3>1. inv[w].pc \in {"claim", "recorded"}
        BY <1>2 DEF Claim, SubscribeRecorded, At
      <3>2. UpToDate(stripe', events', row', stripe'[row'].cancelling)
        BY <1>0, <2>1, <3>1 DEF Fits, FitsMutation
      <3>3. FitsMutation(stripe', events', row', plan', inv'[w])
        BY <1>0, <2>3, <3>2 DEF FitsMutation, Went, SameRead
      <3> QED BY <1>0, <1>1, <2>3, <3>3 DEF Went, SameRead
    <2> QED BY <1>0, <1>2, <2>2, <2>3, ClaimGoes, RecordedGoes
  <1>3. CASE Resume(w)
    <2>1. inv[w].pc = "resume" /\ inv[w].rec \in Subs /\ inv[w].sub = None
      BY <1>0, <1>3, ResumeBecomes DEF Current
    <2>2. UpToDate(stripe, events, row, stripe[row].cancelling)
      BY <1>0, <2>1 DEF Fits, FitsMutation
    <2>3. CASE /\ Live(row) /\ Went(w, "tx")
               /\ events' = IF stripe[row].cancelling THEN events \cup {On("updated", row)} ELSE events
      <3>1. Told(events', row)
        BY <1>0, <2>1, <2>2, <2>3, NullAssumption DEF UpToDate, Told, Live
      <3>2. FitsMutation(stripe', events', row', plan', inv'[w])
        BY <1>0, <2>1, <2>3, <3>1 DEF FitsMutation, UpToDate, Went, SameRead
      <3> QED BY <1>0, <1>1, <2>3, <3>2 DEF Went, SameRead
    <2>4. CASE ~Live(row) /\ Went(w, "release") /\ stripe' = stripe
      <3>1. FitsMutation(stripe', events', row', plan', inv'[w])
        BY <1>0, <2>1, <2>4 DEF FitsMutation, UpToDate, Went, SameRead, Live
      <3> QED BY <1>0, <1>1, <2>4, <3>1 DEF Went, SameRead
    <2> QED BY <1>0, <1>3, <2>3, <2>4, ResumeBecomes
  <1>4. CASE Decline(w)
    <2>1. inv[w].pc = "create" /\ Went(w, "release") /\ stripe' = stripe
      BY <1>0, <1>4, GotoWent DEF Decline, At
    <2>2. UpToDate(stripe', events', row', stripe'[row'].cancelling)
      BY <1>0, <2>1, OverUpToDate DEF Current
    <2>3. FitsMutation(stripe', events', row', plan', inv'[w])
      BY <1>0, <2>1, <2>2 DEF FitsMutation, Went, SameRead
    <2> QED BY <1>0, <1>1, <2>1, <2>3 DEF Went, SameRead
  <1>5. CASE Confirm(w)
    <2>1. inv[w].pc = "confirm" /\ (Went(w, "tx") \/ Went(w, "create")) /\ stripe' = stripe
      BY <1>0, <1>5, ConfirmGoes DEF Confirm
    <2>2. inv[w].sub # None /\ stripe[inv[w].sub].plan = inv[w].plan
      BY <1>0, <2>1 DEF Current, Fits, FitsMutation
    <2>3. FitsMutation(stripe', events', row', plan', inv'[w])
      BY <1>0, <2>1, <2>2 DEF FitsMutation, Went, SameRead
    <2> QED BY <1>0, <1>1, <2>1, <2>3 DEF Went, SameRead
  <1>6. CASE Create(w)
    <2>1. /\ Others(w) /\ inv'[w].op = "subscribe" /\ inv'[w].plan = inv[w].plan
          /\ inv'[w].pc \in {"confirm", "tx"}
      BY <1>0, <1>6, CreateReads DEF AfterCreate
    <2>2. stripe'[inv'[w].sub].plan = inv'[w].plan /\ inv'[w].sub # None
      <3>1. CASE /\ inv[w].key <= Len(minted) /\ inv'[w].sub = minted[inv[w].key]
                 /\ UNCHANGED <<stripe, minted, events>>
                 /\ stripe[minted[inv[w].key]].plan # inv[w].plan => "other_plan" \in Races
        <4>1. inv[w].pc = "create" /\ inv[w] \in Invocation /\ Sound(inv[w])
          BY <1>0, <1>6, CreateReads DEF InvOK
        <4>2. inv[w].key \in 1..Len(minted)
          BY <1>0, <3>1, <4>1, Fields DEF Sound, TypeInv, StripeOK
        <4>3. minted[inv[w].key] \in Subs
          BY <1>0, <4>2 DEF TypeInv, StripeOK
        <4> QED BY <2>1, <3>1, <4>3, NullAssumption
      <3>2. CASE \E s \in Subs : inv'[w].sub = s /\ Becomes(s, "active", FALSE, inv[w].plan)
        BY <2>1, <3>2, NullAssumption DEF Becomes
      <3> QED BY <1>0, <1>6, <3>1, <3>2, CreateReads
    <2>3. FitsMutation(stripe', events', row', plan', inv'[w])
      BY <2>1, <2>2 DEF FitsMutation
    <2> QED BY <1>1, <2>1, <2>3
  <1> QED BY <1>2, <1>3, <1>4, <1>5, <1>6

\* A failed call leaves the invocation knowing no more than it did.
LEMMA FitFails ==
    ASSUME Facts, AloneInv, AllFit, NEW w \in Workers, Fail(w)
    PROVE  AllFit'
  <1>0. /\ TypeInv /\ Current(stripe, row, plan, inv[w]) /\ stripe' = stripe /\ row' = row
        /\ Fits(stripe, events, row, plan, inv[w]) /\ inv[w].op # "idle" /\ Informed(stripe, inv[w])
    BY DEF Facts, DataInv, AloneInv, AllFit, Fail, dbVars
  <1>1. CASE Gone(w)
    BY <1>0, <1>1, FitGone
  <1>2. CASE /\ inv[w].op = "subscribe" /\ inv[w].pc \notin {"claim", "release"}
             /\ Went(w, "release") /\ events' = events
    <2>1. CASE inv[w].pc \in {"recorded", "resume"}
      BY <1>0, <1>2, <2>1, FitAfter
         DEF Fits, FitsWebhook, FitsMutation, Went, SameRead
    <2>2. CASE inv[w].pc \in {"create", "confirm", "tx"}
      <3>1. UpToDate(stripe', events', row', stripe'[row'].cancelling)
        <4>1. CASE inv[w].pc = "tx" /\ inv[w].sub = None
          BY <1>0, <1>2, <4>1 DEF Fits, FitsMutation, UpToDate
        <4>2. CASE Over(stripe, row)
          BY <1>0, <4>2, OverUpToDate
        <4> QED BY <1>0, <1>2, <2>2, <4>1, <4>2 DEF Current
      <3>2. Fits(stripe', events', row', plan', inv'[w]) /\ Others(w)
        BY <1>2, <3>1 DEF Fits, FitsWebhook, FitsMutation, Went, SameRead
      <3> QED BY <1>0, <3>2, FitAfter
    <2> QED BY <1>0, <1>2, <2>1, <2>2 DEF Informed, InPlace
  <1> QED BY <1>0, <1>1, <1>2, FailGoes

\* A subscribe that takes back the plan it has committed relies on the update to come.
LEMMA FitLoses ==
    ASSUME Facts, AloneInv, "lost_commit" \notin Races, NEW w \in Workers, Lose(w)
    PROVE  AllFit'
  <1>0. TypeInv /\ inv[w].op = "subscribe" /\ events' = events
    BY LoseGoes DEF Facts
  <1>1. CASE Gone(w)
    BY <1>0, <1>1, FitGone
  <1>2. CASE Went(w, "release") /\ Told(events, row')
    <2>1. UpToDate(stripe', events', row', stripe'[row'].cancelling)
      BY <1>0, <1>2 DEF UpToDate
    <2>2. Fits(stripe', events', row', plan', inv'[w]) /\ Others(w)
      BY <1>0, <1>2, <2>1 DEF Fits, FitsWebhook, FitsMutation, Went, SameRead
    <2> QED BY <1>0, <2>2, FitAfter
  <1> QED BY <1>0, <1>1, <1>2, LoseGoes DEF Told

\* No invocation is about an event while none runs.
LEMMA NobodyHandles ==
    ASSUME Facts, ~Busy, NEW e \in Event, Handling(events, inv, e)
    PROVE  e \in events
  <1> SUFFICES ASSUME NEW w \in Workers, inv[w].ev = e PROVE FALSE
    BY DEF Handling
  <1>1. e # None /\ inv[w].ev.type = inv[w].op /\ inv[w].op = "idle"
    BY NoEventAssumption DEF Facts, DataInv, Informed, Busy
  <1> QED BY <1>1, EventType

\* The event of a change is one, and says no more than which subscription it is.
LEMMA UpdatedEvent ==
    ASSUME NEW s \in Subs
    PROVE  /\ On("updated", s) \in Event /\ On("updated", s).type = "updated"
           /\ On("updated", s).sub = s
           /\ \A e \in Event : e.type = "updated" /\ e.sub = s => e = On("updated", s)
  BY DEF On, Event

\* Whoever begins has read the tables and Stripe just now.
LEMMA FitBegins ==
    ASSUME Facts, AloneInv, AllFit, RowMirrored, "overlap" \notin Races,
           "stale_created" \notin Races, NEW w \in Workers,
           Ask(w) \/ \E e \in events : Handle(w, e)
    PROVE  AllFit'
  <1>0. TypeInv /\ Tagged
    BY DEF Facts, DataInv
  <1>1. stripe' = stripe /\ row' = row /\ plan' = plan
    BY DEF Ask, Subscribe, Change, LinkFromSuccess, Cancel, Handle, UpdatedUnknown,
           UpdatedLookup, CreatedUnknown, CreatedLookup, DeletedUnknown, DeletedLookup,
           LinkInactive, LinkRetrieve, dbVars
  <1>2. ASSUME Began(w), Fits(stripe', events', row', plan', inv'[w]) PROVE AllFit'
    BY <1>2, FitAfter DEF Began
  <1>3. ASSUME NEW e \in events, Handle(w, e) PROVE AllFit'
    <2>1. CASE Dismisses(w, e)
      <3>1. inv' = inv /\ ~Busy
        BY <2>1, IgnoreBegan DEF Dismisses, UpdatedUnknown, CreatedUnknown, DeletedUnknown,
                                 LinkInactive
      <3>2. \A v \in Workers : inv'[v].op = "idle"
        BY <3>1 DEF Busy
      <3> QED BY <3>2 DEF AllFit, Fits, FitsWebhook, FitsMutation
    <2>2. CASE UpdatedLookup(w, e)
      <3>1. Began(w) /\ Fits(stripe', events', row', plan', inv'[w])
        BY <1>0, <1>1, <2>2, UpdatedBegins DEF Fits, FitsWebhook, FitsMutation, Deprovisioning
      <3> QED BY <1>2, <3>1
    <2>3. CASE CreatedLookup(w, e)
      <3>1. /\ Began(w) /\ inv'[w].op = "created" /\ inv'[w].pc = "mirror"
            /\ inv'[w].sub = e.sub /\ inv'[w].snap = plan /\ inv'[w].live = Fresh(e.plan)
        BY <1>0, <2>3, CreatedBegins
      <3>2. stripe[e.sub] = Fresh(e.plan)
        BY <2>3 DEF CreatedLookup, Only
      <3>3. Seen(stripe', inv'[w])
        BY <1>1, <3>1, <3>2 DEF Seen
      <3>4. Fits(stripe', events', row', plan', inv'[w])
        BY <1>1, <3>1, <3>3 DEF Fits, FitsWebhook, FitsMutation, UpToDate
      <3> QED BY <1>2, <3>1, <3>4
    <2>4. CASE DeletedLookup(w, e)
      <3>1. Began(w) /\ Fits(stripe', events', row', plan', inv'[w])
        BY <1>0, <2>4, DeletedBegins DEF Fits, FitsWebhook, FitsMutation
      <3> QED BY <1>2, <3>1
    <2>5. CASE LinkRetrieve(w, e)
      <3>1. /\ Began(w) /\ inv'[w].op = "checkout" /\ inv'[w].sub = e.sub
            /\ inv'[w].live = stripe[e.sub]
        BY <1>0, <2>5, LinkBegins
      <3>2. Seen(stripe', inv'[w])
        BY <1>1, <3>1 DEF Seen
      <3>3. Fits(stripe', events', row', plan', inv'[w])
        BY <3>1, <3>2 DEF Fits, FitsWebhook, FitsMutation, UpToDate
      <3> QED BY <1>2, <3>1, <3>3
    <2> QED BY <1>3, <2>1, <2>2, <2>3, <2>4, <2>5 DEF Handle, Dismisses
  <1>4. ASSUME NEW p \in Plans, Subscribe(w, p) PROVE AllFit'
    <2>1. /\ Began(w) /\ events' = events /\ plan = None /\ ~Busy
          /\ inv'[w].op = "subscribe" /\ inv'[w].pc = "claim"
      BY <1>0, <1>4, SubscribeBegins DEF Began
    <2>2. UpToDate(stripe, events, row, stripe[row].cancelling)
      <3> SUFFICES ASSUME row # None, Live(row), ~stripe[row].cancelling
                   PROVE  Told(events, row)
        BY DEF UpToDate, Live
      <3>1. row \in Subs
        BY <1>0 DEF TypeInv, DbOK, Maybe
      <3>2. ~Claimed(inv)
        BY <2>1 DEF Claimed, Busy
      <3>3. ~Mirrors(stripe, plan, row)
        BY <1>0, <2>1, <3>1, LiveFacts, NullAssumption DEF Mirrors
      <3>4. Handling(events, inv, On("updated", row))
        BY <3>2, <3>3 DEF RowMirrored
      <3> QED BY <2>1, <3>1, <3>4, UpdatedEvent, NobodyHandles DEF Told
    <2>3. UpToDate(stripe', events', row', stripe'[row'].cancelling)
      BY <1>1, <2>1, <2>2
    <2>4. Fits(stripe', events', row', plan', inv'[w])
      BY <2>1, <2>3 DEF Fits, FitsWebhook, FitsMutation
    <2> QED BY <1>2, <2>1, <2>4
  <1>5. ASSUME NEW p \in Plans, Change(w, p) PROVE AllFit'
    <2>1. Began(w) /\ Fits(stripe', events', row', plan', inv'[w])
      BY <1>0, <1>5, ChangeBegins DEF Fits, FitsWebhook, FitsMutation
    <2> QED BY <1>2, <2>1
  <1>6. ASSUME NEW s \in Subs, LinkFromSuccess(w, s) PROVE AllFit'
    <2>1. Began(w) /\ inv'[w].op = "checkout" /\ inv'[w].sub = s /\ inv'[w].live = stripe[s]
      BY <1>0, <1>6, SuccessBegins
    <2>2. Seen(stripe', inv'[w])
      BY <1>1, <2>1 DEF Seen
    <2>3. Fits(stripe', events', row', plan', inv'[w])
      BY <2>1, <2>2 DEF Fits, FitsWebhook, FitsMutation, UpToDate
    <2> QED BY <1>2, <2>1, <2>3
  <1>7. CASE Cancel(w)
    <2>1. Began(w) /\ Fits(stripe', events', row', plan', inv'[w])
      BY <1>0, <1>1, <1>7, CancelBegins DEF Fits, FitsWebhook, FitsMutation, UpToDate
    <2> QED BY <1>2, <2>1
  <1> QED BY <1>3, <1>4, <1>5, <1>6, <1>7 DEF Ask

\* What happens outside changes no plan,
LEMMA OutsideKeepsPlans ==
    ASSUME Facts, Environment, NEW s \in Subs, stripe[s].status # "none"
    PROVE  stripe'[s].plan = stripe[s].plan
  <1>0. TypeInv /\ stripe[s] # Unused
    BY IdleFields DEF Facts
  <1>1. ASSUME NEW t \in Subs, NEW p \in Plans, CheckoutPaid(t, p)
        PROVE  stripe'[s].plan = stripe[s].plan
    BY <1>0, <1>1, PaidBecomes DEF Becomes
  <1>2. ASSUME NEW t \in Subs, PortalCancel(t) PROVE stripe'[s].plan = stripe[s].plan
    BY <1>0, <1>2, PortalBecomes DEF Becomes
  <1>3. ASSUME NEW t \in Subs, PeriodEnd(t) PROVE stripe'[s].plan = stripe[s].plan
    BY <1>0, <1>3, PeriodBecomes DEF Becomes
  <1> QED BY <1>1, <1>2, <1>3 DEF Environment, KeysExpire, Deploy, Teardown

\* and is told.
LEMMA FitEnvironment ==
    ASSUME Facts, AloneInv, AllFit, "overlap" \notin Races, Environment
    PROVE  AllFit'
  <1>0. Next /\ TypeInv
    BY DEF Next, Facts
  <1>1. inv' = inv /\ row' = row /\ plan' = plan
    BY DEF Environment, CheckoutPaid, PeriodEnd, PortalCancel, KeysExpire, Deploy, Teardown, dbVars
  <1> SUFFICES ASSUME NEW v \in Workers PROVE Fits(stripe', events', row', plan', inv[v])
    BY <1>1 DEF AllFit
  <1>2. CASE inv[v].op = "idle"
    BY <1>2 DEF Fits, FitsWebhook, FitsMutation
  <1>3. CASE inv[v].op # "idle"
    <2>0. /\ Fits(stripe, events, row, plan, inv[v]) /\ Informed(stripe, inv[v]) /\ Sound(inv[v])
          /\ Current(stripe, row, plan, inv[v]) /\ inv[v] \in Invocation
      BY DEF AllFit, Facts, DataInv, TypeInv, InvOK, AloneInv
    <2>1. \A s \in Subs : Told(events, s) => Told(events', s)
      BY <1>0, <1>3, EventsWait DEF Busy, Told
    <2>2. row # None => row \in Subs /\ stripe[row].status # "none"
      BY <1>0 DEF TypeInv, DbOK, Maybe, AloneInv, RowExists, Exists
    <2>3. UpToDate(stripe, events, row, stripe[row].cancelling) =>
              UpToDate(stripe', events', row', stripe'[row'].cancelling)
      BY <1>0, <1>1, <2>1, <2>2, SeenKept DEF UpToDate
    <2>4. UpToDate(stripe, events, row, FALSE) => UpToDate(stripe', events', row', FALSE)
      BY <1>0, <1>1, <2>1, <2>2, SeenKept DEF UpToDate
    <2>5. inv[v].op \in {"created", "checkout", "updated"} =>
              inv[v].sub \in Subs /\ stripe[inv[v].sub].status # "none"
      <3>1. inv[v].op \in {"created", "updated"} => inv[v].ev \in Event /\ inv[v].ev.sub = inv[v].sub
                                                     /\ Announces(stripe, inv[v].ev)
        BY <2>0, Fields DEF Informed, Maybe
      <3> QED BY <2>0, <3>1, EventType DEF Announces, Informed, Sound
    <2>6. inv[v].op \in {"created", "checkout", "updated"}
              /\ UpToDate(stripe, events, inv[v].sub, Seen(stripe, inv[v])) =>
          UpToDate(stripe', events', inv[v].sub, Seen(stripe', inv[v]))
      BY <1>0, <2>1, <2>5, SeenKept DEF UpToDate, Seen
    <2>7. FitsWebhook(stripe', events', plan', inv[v])
      BY <1>1, <2>0, <2>6 DEF Fits, FitsWebhook
    <2>8. inv[v].op = "subscribe" /\ (inv[v].pc = "confirm" \/ (inv[v].pc = "tx" /\ inv[v].sub # None))
              => inv[v].sub \in Subs /\ stripe[inv[v].sub].status # "none"
      BY <1>0, <2>0 DEF Current, Facts, ChainInv, ConfirmOK, AllExist, Exists, TypeInv, StripeOK
    <2>9. FitsMutation(stripe', events', row', plan', inv[v])
      BY <1>1, <2>0, <2>3, <2>4, <2>8, OutsideKeepsPlans DEF Fits, FitsMutation
    <2> QED BY <2>7, <2>9 DEF Fits
  <1> QED BY <1>2, <1>3

\* What the running invocation is about to write fits Stripe, in every step.
LEMMA FitNext ==
    ASSUME Facts, AloneInv, AllFit, RowMirrored, "overlap" \notin Races,
           "stale_created" \notin Races, "other_plan" \notin Races,
           "lost_commit" \notin Races, Next
    PROVE  AllFit'
  <1>1. ASSUME NEW w \in Workers, Step(w) PROVE AllFit'
    BY <1>1, FitAnswers, FitDeprovision, FitReads, FitMutates, FitSubscribes DEF Step
  <1> QED BY <1>1, FitFails, FitLoses, FitBegins, FitEnvironment DEF Next

\* Where neither the row nor the plan is written, and nobody answers an update.
LEMMA MirroredSame ==
    ASSUME Facts, AloneInv, RowMirrored, "stuck_claim" \notin Races, Next,
           row' = row, plan' = plan,
           \A w \in Workers : ~Mirror(w) /\ ~SubscribeTx(w) /\ ~Release(w)
    PROVE  RowMirrored'
  <1> SUFFICES ASSUME row # None, stripe'[row].status = "active"
               PROVE  \/ Claimed(inv') \/ Handling(events', inv', On("updated", row))
                      \/ Mirrors(stripe', plan', row)
    BY DEF RowMirrored, Live
  <1>0. row \in Subs /\ stripe[row].status # "none" /\ TypeInv
    BY DEF Facts, TypeInv, DbOK, Maybe, AloneInv, RowExists, Exists
  <1>1. /\ stripe[row].status = "active"
        /\ \/ Told(events', row)
           \/ stripe'[row].cancelling = stripe[row].cancelling /\ stripe'[row].plan = stripe[row].plan
    BY <1>0, SeenKept
  <1>2. CASE Claimed(inv)
    BY <1>2, ClaimedKept
  <1>3. CASE Handling(events, inv, On("updated", row))
    <2> DEFINE e == On("updated", row)
    <2>1. e \in Event /\ e.type = "updated" /\ e.sub = row /\ e # None /\ Handling(events, inv, e)
      BY <1>0, <1>3, UpdatedEvent, NoEventAssumption
    <2> HIDE DEF e
    <2>2. ASSUME NEW w \in Workers, inv[w].ev = e, Answers(w) PROVE FALSE
      <3>1. inv[w].op = "updated"
        BY <2>1, <2>2 DEF Facts, DataInv, Informed
      <3> QED BY <2>2, <3>1 DEF Answers, DeletedEnd, LinkTx, LinkRead, LinkConflict, At
    <2>3. ASSUME NEW w \in Workers, Dismisses(w, e) PROVE FALSE
      BY <2>1, <2>3 DEF Dismisses, UpdatedUnknown, CreatedUnknown, DeletedUnknown, LinkInactive
    <2>4. Handling(events', inv', e)
      BY <2>1, <2>2, <2>3, HandlingKept
    <2> QED BY <2>4 DEF e
  <1>4. CASE Mirrors(stripe, plan, row)
    BY <1>1, <1>4 DEF Mirrors, Told, Handling
  <1> QED BY <1>1, <1>2, <1>3, <1>4 DEF RowMirrored, Live

\* Where the plan is written.
LEMMA MirroredWrites ==
    ASSUME Facts, AloneInv, AllFit, CancellingLinked, NEW w \in Workers,
           \/ Mirror(w) \/ DeletedEnd(w) \/ ClearWorkspaceDeployPlan(w)
           \/ LinkTx(w) \/ SubscribeTx(w) \/ Release(w) \/ ChangeTx(w)
    PROVE  RowMirrored'
  <1>0. /\ TypeInv /\ InvOK /\ Fits(stripe, events, row, plan, inv[w]) /\ Informed(stripe, inv[w])
        /\ Sound(inv[w]) /\ Current(stripe, row, plan, inv[w]) /\ inv[w] \in Invocation
    BY DEF AllFit, Facts, DataInv, TypeInv, InvOK, AloneInv
  <1>1. stripe' = stripe /\ events \subseteq events'
    BY <1>0, FinishGone DEF Mirror, DeletedEnd, ClearWorkspaceDeployPlan, LinkTx, SubscribeTx,
                            Release, ChangeTx
  <1>2. ASSUME row' # None, stripe[row'].status = "active" =>
                   \/ Told(events, row') \/ Claimed(inv')
                   \/ Handling(events', inv', On("updated", row')) \/ Mirrors(stripe, plan', row')
        PROVE  RowMirrored'
    BY <1>1, <1>2 DEF RowMirrored, Live, Handling, Told
  <1>3. CASE Mirror(w)
    <2>1. /\ inv[w].op \in {"updated", "created"} /\ inv[w].sub = row /\ row' = row
      BY <1>0, <1>3 DEF Mirror, Informed, InPlace, Deprovisioning, Current
    <2>2. plan' = MirroredPlan(inv[w].live)
      BY <1>0, <1>3, <2>1 DEF Mirror, SetPlan, Fits, FitsWebhook
    <2>3. UpToDate(stripe, events, row, Seen(stripe, inv[w]))
      BY <1>0, <1>3, <2>1 DEF Mirror, Fits, FitsWebhook
    <2>4. Seen(stripe, inv[w]) => Mirrors(stripe, plan', row)
      BY <2>1, <2>2 DEF Seen, Mirrors, MirroredPlan
    <2>5. CASE row # None
      BY <1>2, <2>1, <2>3, <2>4, <2>5 DEF UpToDate
    <2> QED BY <2>1, <2>5 DEF RowMirrored
  <1>4. CASE DeletedEnd(w)
    BY <1>4 DEF DeletedEnd, RowMirrored
  <1>5. CASE ClearWorkspaceDeployPlan(w)
    <2>1. /\ plan' = None /\ row' = row /\ Went(w, AfterDeprovision(inv[w].op))
          /\ inv[w].op \in Deprovisioners /\ inv[w].pc = "clear"
      BY <1>0, <1>5, GotoWent DEF ClearWorkspaceDeployPlan, SetPlan, Sound, Deprovisioning
    <2>2. CASE row = None
      BY <2>1, <2>2 DEF RowMirrored
    <2>3. CASE row # None /\ inv[w].op = "updated"
      <3>1. inv[w].ev \in Event /\ inv[w].ev.type = "updated" /\ inv[w].ev.sub = row /\ row \in Subs
        BY <1>0, <2>3, Fields, EventType DEF Informed, Maybe, Current
      <3>2. inv'[w].ev = On("updated", row)
        BY <2>1, <3>1, UpdatedEvent DEF Went, SameRead
      <3> QED BY <1>2, <2>1, <2>3, <3>2 DEF Handling
    <2>4. CASE row # None /\ inv[w].op = "deleted"
      <3>1. stripe[row].status = "canceled"
        BY <1>0, <2>4 DEF Informed, Announces, Current
      <3> QED BY <1>2, <2>1, <2>4, <3>1
    <2>5. CASE row # None /\ inv[w].op = "cancel"
      <3>1. UpToDate(stripe, events, row, stripe[row].cancelling)
        BY <1>0, <2>1, <2>5 DEF Fits, FitsMutation
      <3> QED BY <1>2, <2>1, <2>5, <3>1 DEF UpToDate, Mirrors
    <2> QED BY <2>1, <2>2, <2>3, <2>4, <2>5 DEF Deprovisioners
  <1>6. CASE LinkTx(w)
    <2>1. /\ inv[w].op = "checkout" /\ row' = inv[w].sub /\ plan' = inv[w].live.plan
          /\ ~inv[w].live.cancelling /\ row' # None
      BY <1>0, <1>6, NullAssumption DEF LinkTx, At, SetPlan, Informed, Sound
    <2>2. UpToDate(stripe, events, row', Seen(stripe, inv[w]))
      BY <1>0, <2>1 DEF Fits, FitsWebhook
    <2>3. Seen(stripe, inv[w]) => Mirrors(stripe, plan', row')
      BY <2>1 DEF Seen, Mirrors
    <2> QED BY <1>2, <2>1, <2>2, <2>3 DEF UpToDate
  <1>7. CASE SubscribeTx(w)
    <2>1. inv[w].op = "subscribe" /\ inv[w].pc = "tx" /\ plan' = inv[w].plan
          /\ row' = IF inv[w].sub # None THEN inv[w].sub ELSE row
      BY <1>7 DEF SubscribeTx, At, SetPlan
    <2>2. CASE inv[w].sub = None
      <3>1. UpToDate(stripe, events, row, FALSE) /\ row # None
        BY <1>0, <2>1, <2>2 DEF Fits, FitsMutation, Current
      <3> QED BY <1>2, <2>1, <2>2, <3>1 DEF UpToDate
    <2>3. CASE inv[w].sub # None
      <3>1. stripe[row'].plan = plan' /\ row' \in Subs /\ Over(stripe, row) /\ row' # None
        BY <1>0, <2>1, <2>3 DEF Fits, FitsMutation, Current
      <3>2. stripe[row'].status = "active" /\ stripe[row'].cancelling => "unlinked_cancel" \in Races
        BY <3>1 DEF CancellingLinked, Live, Over
      <3>3. stripe[row'].status = "active" => Mirrors(stripe, plan', row')
        BY <3>1, <3>2 DEF Mirrors
      <3> QED BY <1>2, <3>1, <3>3
    <2> QED BY <2>2, <2>3
  <1>8. CASE Release(w)
    <2>1. plan' = None /\ row' = row /\ UpToDate(stripe, events, row, stripe[row].cancelling)
      BY <1>0, <1>8 DEF Release, At, SetPlan, Current, Fits, FitsMutation
    <2>2. CASE row = None
      BY <2>1, <2>2 DEF RowMirrored
    <2>3. CASE row # None
      BY <1>2, <2>1, <2>3 DEF UpToDate, Mirrors
    <2> QED BY <2>2, <2>3
  <1>9. CASE ChangeTx(w)
    <2>1. row' = row /\ UpToDate(stripe, events, row, FALSE)
      BY <1>0, <1>9 DEF ChangeTx, At, Fits, FitsMutation
    <2>2. CASE row = None
      BY <2>1, <2>2 DEF RowMirrored
    <2>3. CASE row # None
      BY <1>2, <2>1, <2>3 DEF UpToDate
    <2> QED BY <2>2, <2>3
  <1> QED BY <1>3, <1>4, <1>5, <1>6, <1>7, <1>8, <1>9

\* The plan is Stripe's, or a handler of the change is under way, in every step.
LEMMA MirroredNext ==
    ASSUME Facts, AloneInv, AllFit, RowMirrored, CancellingLinked, "stuck_claim" \notin Races, Next
    PROVE  RowMirrored'
  <1>1. CASE \E w \in Workers : \/ Mirror(w) \/ DeletedEnd(w) \/ ClearWorkspaceDeployPlan(w)
                                \/ LinkTx(w) \/ SubscribeTx(w) \/ Release(w) \/ ChangeTx(w)
    BY <1>1, MirroredWrites
  <1>2. ASSUME NEW w \in Workers, Claim(w), plan' # plan PROVE RowMirrored'
    <2>1. Claimed(inv')
      BY <1>2, ClaimGoes DEF Facts, Went, SameRead, Claimed
    <2> QED BY <2>1 DEF RowMirrored
  <1>3. ASSUME NEW w \in Workers, Lose(w) PROVE RowMirrored'
    <2>1. TypeInv /\ stripe' = stripe
      BY <1>3, LoseGoes DEF Facts
    <2>2. CASE row' = row /\ ~Live(row)
      BY <2>1, <2>2 DEF RowMirrored, Live
    <2>3. CASE Went(w, "release") /\ inv[w].op = "subscribe"
      <3>1. Claimed(inv')
        BY <2>3 DEF Went, SameRead, Claimed
      <3> QED BY <3>1 DEF RowMirrored
    <2> QED BY <1>3, <2>1, <2>2, <2>3, LoseGoes
  <1> QED BY <1>1, <1>2, <1>3, RowNext, PlanNext, MirroredSame DEF Lose

\* The limits go with the plan.
LEMMA LimitsFitNext ==
    ASSUME Facts, AloneInv, AllFit, LimitsFit, "stuck_claim" \notin Races, Next
    PROVE  LimitsFit'
  <1>0. ASSUME NEW w \in Workers
        PROVE  /\ TypeInv /\ Fits(stripe, events, row, plan, inv[w]) /\ Informed(stripe, inv[w])
               /\ Current(stripe, row, plan, inv[w])
    BY DEF AllFit, Facts, DataInv, TypeInv, AloneInv
  <1>1. ASSUME NEW w \in Workers, DeletedEnd(w) \/ ClearWorkspaceDeployPlan(w)
        PROVE  LimitsFit'
    BY <1>1 DEF DeletedEnd, ClearWorkspaceDeployPlan, SetPlan, LimitsFit
  <1>2. ASSUME NEW w \in Workers, LinkTx(w) \/ SubscribeTx(w) \/ ChangeTx(w) PROVE LimitsFit'
    BY <1>2 DEF LinkTx, SubscribeTx, ChangeTx, SetPlan, LimitsFit
  <1>3. ASSUME NEW w \in Workers, Release(w) PROVE LimitsFit'
    BY <1>0, <1>3 DEF Release, At, SetPlan, Current, LimitsFit
  <1>4. ASSUME NEW w \in Workers, CancelLimits(w) PROVE LimitsFit'
    BY <1>0, <1>4 DEF CancelLimits, At, Fits, FitsMutation, LimitsFit
  <1>5. ASSUME NEW w \in Workers, Claim(w), plan' # plan PROVE LimitsFit'
    <2>1. Claimed(inv')
      BY <1>0, <1>5, ClaimGoes DEF Went, SameRead, Claimed
    <2> QED BY <2>1 DEF LimitsFit
  <1>6. ASSUME NEW w \in Workers, Mirror(w), row = None \/ Live(row) PROVE LimitsFit'
    <2>1. inv[w].op \in {"updated", "created"}
      BY <1>0, <1>6 DEF Mirror, Informed, InPlace, Deprovisioning
    <2>2. ~Claimed(inv)
      BY <2>1 DEF AloneInv, Alone, Claimed
    <2> QED BY <1>6, <2>2 DEF Mirror, SetPlan, LimitsFit
  <1>7. ASSUME NEW w \in Workers, LinkRead(w), limits' # limits PROVE LimitsFit'
    <2>1. limits' = plan /\ plan' = plan
      BY <1>0, <1>7, LinkReads DEF LinkRead
    <2> QED BY <2>1 DEF LimitsFit
  <1>8. ASSUME NEW w \in Workers, Lose(w) PROVE LimitsFit'
    <2>1. /\ stripe' = stripe
          /\ \/ row' = row /\ row # None /\ ~Live(row)
             \/ limits' = plan'
      BY <1>0, <1>8, LoseGoes
    <2> QED BY <2>1 DEF LimitsFit, Live
  <1>9. CASE row # None /\ ~Live(row) /\ row' = row
    <2>1. row \in Subs /\ StatusKept /\ stripe[row].status # "none"
      BY <1>9, StatusNext DEF Facts, TypeInv, DbOK, Maybe, AloneInv, RowExists, Exists
    <2>2. stripe[row].status = "canceled"
      BY <1>9, <2>1 DEF Live, Facts, TypeInv, StripeOK, Subscription
    <2>3. stripe'[row'].status = "canceled"
      BY <1>9, <2>1, <2>2 DEF StatusKept
    <2> QED BY <1>9, <2>3 DEF LimitsFit, Live
  <1>10. CASE /\ plan' = plan /\ limits' = limits /\ (row # None => Live(row) \/ row' # row)
              /\ ~\E w \in Workers : \/ DeletedEnd(w) \/ LinkTx(w) \/ SubscribeTx(w)
                                     \/ Release(w) \/ Lose(w)
    <2>1. row' = row
      BY <1>10, RowNext DEF Lose
    <2> QED BY <1>10, <2>1, ClaimedKept DEF LimitsFit
  <1>11. ASSUME NEW w \in Workers, Mirror(w) PROVE LimitsFit'
    <2>1. row' = row
      BY <1>11 DEF Mirror
    <2> QED BY <1>6, <1>9, <1>11, <2>1
  <1>12. CASE row # None => Live(row) \/ row' # row
    BY <1>1, <1>2, <1>3, <1>4, <1>5, <1>7, <1>8, <1>10, <1>11, <1>12, PlanNext, LimitsNext
  <1> QED BY <1>9, <1>12

\* There is nothing to agree on initially.
LEMMA SyncInit == Init => SyncInv
  BY IdleFields DEF Init, SyncInv, AllFit, Fits, FitsWebhook, FitsMutation, RowMirrored,
                    LimitsFit, CancellingLinked, Live

\* Plan, limits and Stripe stay in agreement in every step without the five races.
LEMMA SyncNext ==
    ASSUME Facts, AloneInv, SyncInv, "overlap" \notin Races, "stale_created" \notin Races,
           "stuck_claim" \notin Races, "other_plan" \notin Races, "lost_commit" \notin Races,
           [Next]_vars
    PROVE  SyncInv'
  <1>1. CASE Next
    BY <1>1, FitNext, MirroredNext, LimitsFitNext, CancellingNext DEF SyncInv
  <1>2. CASE UNCHANGED vars
    <2>1. UNCHANGED <<stripe, row, plan, limits, events, inv>>
      BY <1>2 DEF vars, dbVars
    <2> QED BY <2>1 DEF SyncInv, AllFit, RowMirrored, LimitsFit, CancellingLinked, Live
  <1> QED BY <1>1, <1>2

\* When nothing is under way, the plan is the one of the recorded subscription.
LEMMA QuietMirrors ==
    ASSUME Facts, AloneInv, SyncInv, Quiet, row # None, Live(row)
    PROVE  Mirrors(stripe, plan, row) /\ (plan = None \/ limits = plan) /\ row \in Subs
  <1>1. ~Claimed(inv) /\ row \in Subs /\ ~Busy /\ events = {}
    BY DEF Quiet, Busy, Claimed, Facts, TypeInv, DbOK, Maybe
  <1>2. ~Handling(events, inv, On("updated", row))
    BY <1>1, UpdatedEvent, NobodyHandles
  <1> QED BY <1>1, <1>2 DEF SyncInv, RowMirrored, LimitsFit

\* The plan the deploy gate reads ends up the one that Stripe bills, and none while the
\* subscription is set to cancel, for every number of subscriptions, plans, failures,
\* redeliveries and requests (mirrorDeployPlan, subscribeDeploy, changeDeployPlan, cancelDeploy).
\* Each hypothesis leaves out a schedule that breaks it.
THEOREM PlanFollowsStripe ==
    /\ Spec /\ "overlap" \notin Races /\ "stale_created" \notin Races
    /\ "stuck_claim" \notin Races /\ "other_plan" \notin Races
    /\ "unlinked_cancel" \notin Races /\ "lost_commit" \notin Races
    => []MirrorConverges
  <1> DEFINE H == /\ "overlap" \notin Races /\ "stale_created" \notin Races
                  /\ "stuck_claim" \notin Races /\ "other_plan" \notin Races
                  /\ "unlinked_cancel" \notin Races /\ "lost_commit" \notin Races
             I == Facts /\ AloneInv /\ SyncInv /\ H
  <1>1. Init /\ H => I
    BY FactsInit, AloneInit, SyncInit
  <1>2. I /\ [Next]_vars => I'
    BY FactsNext, AloneNext, SyncNext
  <1>3. I => MirrorConverges
    BY QuietMirrors DEF MirrorConverges, Mirrors, Renewing
  <1>4. Spec /\ H => []MirrorConverges
    <2> HIDE DEF I, H
    <2> QED BY <1>1, <1>2, <1>3, PTL DEF Spec
  <1> QED BY <1>4

\* So do the limits, for a subscription that renews, and also when somebody cancels a
\* subscription the workspace has not recorded.
THEOREM LimitsFollowStripe ==
    /\ Spec /\ "overlap" \notin Races /\ "stale_created" \notin Races
    /\ "stuck_claim" \notin Races /\ "other_plan" \notin Races /\ "lost_commit" \notin Races
    => []LimitsConverge
  <1> DEFINE H == /\ "overlap" \notin Races /\ "stale_created" \notin Races
                  /\ "stuck_claim" \notin Races /\ "other_plan" \notin Races
                  /\ "lost_commit" \notin Races
             I == Facts /\ AloneInv /\ SyncInv /\ H
  <1>1. Init /\ H => I
    BY FactsInit, AloneInit, SyncInit
  <1>2. I /\ [Next]_vars => I'
    BY FactsNext, AloneNext, SyncNext
  <1>3. I => LimitsConverge
    <2> SUFFICES ASSUME I, Quiet, row # None, Renewing(row) PROVE limits = stripe[row].plan
      BY DEF LimitsConverge
    <2>1. Live(row) /\ Mirrors(stripe, plan, row) /\ (plan = None \/ limits = plan) /\ row \in Subs
      BY QuietMirrors DEF Renewing
    <2>2. stripe[row].plan \in Plans
      BY <2>1, LiveFacts DEF Facts, DataInv
    <2> QED BY <2>1, <2>2, NullAssumption DEF Mirrors, Renewing
  <1>4. Spec /\ H => []LimitsConverge
    <2> HIDE DEF I, H
    <2> QED BY <1>1, <1>2, <1>3, PTL DEF Spec
  <1> QED BY <1>4

----------------------------------------------------------------------------
(* One live subscription. The chain of keys sees to it for as long as      *)
(* Stripe remembers the keys. A subscription whose key is forgotten while  *)
(* it is the recorded one stays recorded, and a subscribe that finds a     *)
(* live subscription recorded creates none.                                *)

\* An invocation that found s recorded, or will.
Keeps(s, i) ==
    /\ i.op # "deleted"
    /\ i.op = "subscribe" => /\ i.sub = None /\ i.pc \notin Minting
                             /\ i.pc \in {"claim", "recorded"} => i.rec = s
    /\ i.op = "checkout" => /\ i.pc = "recorded" => i.rec = s
                            /\ i.pc = "tx" => i.sub = s
Kept(s) == row = s /\ \A w \in Workers : Keeps(s, inv[w])

KeptInv ==
    \A i \in 1..forgotten : Live(minted[i]) =>
        /\ Len(minted) = forgotten /\ Kept(minted[i])
        /\ \A j \in 1..forgotten : Live(minted[j]) => j = i

\* At most one of the subscriptions is live, behind a remembered key or behind a forgotten one.
LEMMA KeptOneLive == TypeInv /\ ChainInv /\ KeptInv => OneLiveMinted
  <1> SUFFICES ASSUME TypeInv, ChainInv, KeptInv, NEW i \in DOMAIN minted, NEW j \in DOMAIN minted,
                      Live(minted[i]), Live(minted[j]), i < j
               PROVE  FALSE
    BY DEF OneLiveMinted, TypeInv, StripeOK
  <1>1. /\ minted \in Seq(Subs) /\ forgotten \in 0..Len(minted)
        /\ i \in 1..Len(minted) /\ j \in 1..Len(minted)
    BY DEF TypeInv, StripeOK
  <1>2. CASE forgotten < i
    <2>1. i < Len(minted)
      BY <1>1
    <2>2. Canceled(minted[i])
      BY <1>1, <1>2, <2>1 DEF ChainInv, EarlierCanceled
    <2> QED BY <2>2 DEF Canceled, Live
  <1>3. CASE ~(forgotten < i)
    <2>1. i \in 1..forgotten
      BY <1>1, <1>3
    <2>2. Len(minted) = forgotten
      BY <2>1 DEF KeptInv
    <2>3. j \in 1..forgotten
      BY <1>1, <2>2
    <2>4. j = i
      BY <2>1, <2>3 DEF KeptInv
    <2> QED BY <1>1, <2>4
  <1> QED BY <1>2, <1>3

\* Keeping the subscription is a matter of the worker that acts.
LEMMA KeptAfter ==
    ASSUME NEW s, Kept(s), NEW w \in Workers, Others(w), row' = row, Keeps(s, inv'[w])
    PROVE  Kept(s)'
  BY DEF Kept, Others, Keeps

\* An invocation that goes on elsewhere than to a create, with what it has read, keeps it.
LEMMA KeptWent ==
    ASSUME NEW s, Kept(s), NEW w \in Workers, NEW pc, Went(w, pc), row' = row, pc \notin Minting,
           inv[w].op \in {"subscribe", "checkout"} => pc \in {"resume", "tx", "release"},
           inv[w].op = "checkout" => inv[w].sub = s
    PROVE  Kept(s)'
  <1>1. Keeps(s, inv[w]) /\ Others(w)
    BY DEF Kept, Went
  <1>2. Keeps(s, inv'[w])
    BY <1>1 DEF Keeps, Went, SameRead, Minting
  <1> QED BY <1>1, <1>2, KeptAfter

\* So does one that is done.
LEMMA KeptGone ==
    ASSUME NEW s, Kept(s), NEW w \in Workers, Gone(w), row' = row
    PROVE  Kept(s)'
  <1>1. Keeps(s, inv'[w]) /\ Others(w)
    BY IdleFields DEF Keeps, Gone
  <1> QED BY <1>1, KeptAfter

\* A step of an invocation neither creates another subscription nor records one.
LEMMA KeptStep ==
    ASSUME Facts, NEW s \in Subs, Live(s), Kept(s), NEW w \in Workers, Step(w)
    PROVE  Kept(s)' /\ minted' = minted
  <1>0. /\ TypeInv /\ InvOK /\ Informed(stripe, inv[w]) /\ Keeps(s, inv[w]) /\ row = s /\ s # None
    BY NullAssumption DEF Facts, DataInv, TypeInv, Kept
  <1>1. ~Create(w) /\ ~Decline(w) /\ ~Confirm(w) /\ ~DeletedEnd(w)
    BY <1>0 DEF Create, Decline, Confirm, DeletedEnd, At, Keeps, Minting
  <1>2. minted' = minted
    BY <1>1 DEF Step, UpdatedRetrieve, Mirror, DeprovisionGate, DispatchTeardown, EndEnforcement,
       ClearWorkspaceDeployPlan, LinkRead, LinkConflict, LinkTx, Claim, SubscribeRecorded, Resume,
       SubscribeTx, Release, StopRenewal, CancelLimits, ChangeRetrieve, Reprice, ChangeTx
  <1>3. row' = row
    <2>1. CASE LinkTx(w)
      BY <1>0, <2>1 DEF LinkTx, At, Keeps
    <2>2. CASE SubscribeTx(w)
      BY <1>0, <2>2 DEF SubscribeTx, At, Keeps
    <2>3. CASE ~LinkTx(w) /\ ~SubscribeTx(w)
      BY <1>1, <2>3 DEF Step, UpdatedRetrieve, Mirror, DeprovisionGate, DispatchTeardown,
         EndEnforcement, ClearWorkspaceDeployPlan, LinkRead, LinkConflict, Claim,
         SubscribeRecorded, Resume, Release, StopRenewal, CancelLimits, ChangeRetrieve, Reprice,
         ChangeTx, dbVars
    <2> QED BY <2>1, <2>2, <2>3
  <1>4. CASE \/ Mirror(w) \/ LinkTx(w) \/ SubscribeTx(w) \/ Release(w) \/ CancelLimits(w)
             \/ ChangeTx(w)
    <2>1. Gone(w)
      BY <1>0, <1>4, FinishGone DEF Mirror, LinkTx, SubscribeTx, Release, CancelLimits, ChangeTx
    <2> QED BY <1>2, <1>3, <2>1, KeptGone
  <1>5. CASE UpdatedRetrieve(w)
    <2>1. Others(w) /\ inv'[w].op = "updated"
      BY <1>0, <1>5, RetrieveReads
    <2>2. Keeps(s, inv'[w])
      BY <2>1 DEF Keeps
    <2> QED BY <1>2, <1>3, <2>1, <2>2, KeptAfter
  <1>6. CASE \/ DeprovisionGate(w) \/ DispatchTeardown(w) \/ EndEnforcement(w)
             \/ ClearWorkspaceDeployPlan(w)
    <2>1. inv[w].op \notin {"subscribe", "checkout"} /\ inv[w].op \in Deprovisioners
      BY <1>0, <1>6 DEF DeprovisionGate, DispatchTeardown, EndEnforcement,
                        ClearWorkspaceDeployPlan, Informed, InPlace, Deprovisioners, Deprovisioning
    <2>2. PICK pc : Goto(w, pc) /\ pc \notin Minting
      BY <1>6, <2>1 DEF DeprovisionGate, DispatchTeardown, EndEnforcement,
         ClearWorkspaceDeployPlan, AfterDeprovision, Minting, Deprovisioners
    <2>3. Went(w, pc)
      BY <1>0, <2>2, GotoWent
    <2> QED BY <1>2, <1>3, <2>1, <2>2, <2>3, KeptWent
  <1>7. CASE LinkRead(w)
    <2>1. CASE Finish(w)
      BY <1>0, <1>2, <1>3, <2>1, FinishGone, KeptGone
    <2>2. CASE /\ Others(w) /\ inv'[w].op = "checkout" /\ inv'[w].sub = inv[w].sub
               /\ \/ row \notin {inv[w].sub, None} /\ inv'[w].pc = "recorded" /\ inv'[w].rec = row
                  \/ row \in {inv[w].sub, None} /\ inv'[w].pc = "tx"
      <3>1. Keeps(s, inv'[w])
        BY <1>0, <2>2 DEF Keeps
      <3> QED BY <1>2, <1>3, <2>2, <3>1, KeptAfter
    <2> QED BY <1>0, <1>7, <2>1, <2>2, LinkReads
  <1>8. CASE LinkConflict(w)
    <2>1. inv[w].rec = s
      BY <1>0, <1>8, ConflictGoes DEF Keeps
    <2>2. Gone(w)
      BY <1>0, <1>8, <2>1, ConflictGoes, FinishGone
    <2> QED BY <1>2, <1>3, <2>2, KeptGone
  <1>9. CASE Claim(w)
    <2>1. inv[w].op = "subscribe" /\ inv[w].rec = s
      BY <1>0, <1>9, ClaimGoes DEF Keeps
    <2>2. CASE Went(w, "recorded")
      <3>1. Keeps(s, inv'[w]) /\ Others(w)
        BY <1>0, <2>1, <2>2 DEF Keeps, Went, SameRead, Minting
      <3> QED BY <1>2, <1>3, <3>1, KeptAfter
    <2>3. CASE Gone(w)
      BY <1>2, <1>3, <2>3, KeptGone
    <2> QED BY <1>0, <1>9, <2>1, <2>2, <2>3, ClaimGoes
  <1>10. CASE SubscribeRecorded(w) \/ Resume(w)
    <2>1. inv[w].op = "subscribe"
      BY <1>10 DEF SubscribeRecorded, Resume, At
    <2>2. Went(w, "resume") \/ Went(w, "release") \/ Went(w, "tx")
      <3>1. CASE SubscribeRecorded(w)
        BY <1>0, <3>1, RecordedGoes DEF Keeps
      <3>2. CASE Resume(w)
        BY <1>0, <3>2, ResumeBecomes
      <3> QED BY <1>10, <3>1, <3>2
    <2> QED BY <1>2, <1>3, <2>1, <2>2, KeptWent DEF Minting
  <1>11. CASE StopRenewal(w) \/ ChangeRetrieve(w) \/ Reprice(w)
    <2>1. inv[w].op \in {"cancel", "change"}
      BY <1>11 DEF StopRenewal, ChangeRetrieve, Reprice, At
    <2>2. Gone(w) \/ \E pc \in {"gate", "reprice", "tx"} : Went(w, pc)
      BY <1>0, <1>11, StopBecomes, ChangeRetrieveGoes, RepriceBecomes
    <2> QED BY <1>2, <1>3, <2>1, <2>2, KeptGone, KeptWent DEF Minting
  <1> QED BY <1>1, <1>4, <1>5, <1>6, <1>7, <1>8, <1>9, <1>10, <1>11 DEF Step

\* Neither does anything else.
LEMMA KeptOtherwise ==
    ASSUME Facts, NEW s \in Subs, Live(s), Kept(s), Next, ~\E w \in Workers : Step(w)
    PROVE  Kept(s)' /\ minted' = minted
  <1>0. TypeInv /\ InvOK /\ row = s /\ s # None /\ \A w \in Workers : Keeps(s, inv[w])
    BY NullAssumption DEF Facts, TypeInv, Kept
  <1>1. ASSUME NEW w \in Workers, Began(w), row' = row, minted' = minted,
               \/ inv'[w].op \in {"updated", "created", "cancel", "change"}
               \/ inv'[w].op = "checkout" /\ inv'[w].pc = "read"
               \/ /\ inv'[w].op = "subscribe" /\ inv'[w].pc = "claim" /\ inv'[w].sub = None
                  /\ inv'[w].rec = row
        PROVE  Kept(s)' /\ minted' = minted
    <2>1. Keeps(s, inv'[w])
      BY <1>0, <1>1 DEF Keeps, Minting
    <2> QED BY <1>1, <2>1, KeptAfter DEF Began
  <1>2. ASSUME NEW w \in Workers, Ask(w) PROVE Kept(s)' /\ minted' = minted
    <2>1. row' = row /\ minted' = minted
      BY <1>2 DEF Ask, Subscribe, Change, LinkFromSuccess, Cancel, dbVars
    <2> QED BY <1>0, <1>1, <1>2, <2>1, SubscribeBegins, ChangeBegins, SuccessBegins, CancelBegins
            DEF Ask
  <1>3. ASSUME NEW w \in Workers, NEW e \in events, Handle(w, e)
        PROVE  Kept(s)' /\ minted' = minted
    <2>1. row' = row /\ minted' = minted
      BY <1>3 DEF Handle, UpdatedUnknown, UpdatedLookup, CreatedUnknown, CreatedLookup,
         DeletedUnknown, DeletedLookup, LinkInactive, LinkRetrieve, dbVars
    <2>2. CASE UpdatedLookup(w, e) \/ CreatedLookup(w, e) \/ LinkRetrieve(w, e)
      BY <1>0, <1>1, <2>1, <2>2, UpdatedBegins, CreatedBegins, LinkBegins
    <2>3. ~DeletedLookup(w, e)
      BY <1>0, DeletedBegins DEF Facts, DataInv, EventsKnown, Announces, Live
    <2>4. CASE Dismisses(w, e)
      <3>1. inv' = inv
        BY <2>4, IgnoreBegan DEF Dismisses, UpdatedUnknown, CreatedUnknown, DeletedUnknown,
                                 LinkInactive
      <3> QED BY <2>1, <3>1 DEF Kept
    <2> QED BY <1>3, <2>2, <2>3, <2>4 DEF Handle, Dismisses
  <1>4. ASSUME NEW w \in Workers, Fail(w) PROVE Kept(s)' /\ minted' = minted
    <2>1. row' = row /\ minted' = minted
      BY <1>4 DEF Fail, dbVars
    <2> QED BY <1>0, <1>4, <2>1, FailGoes, KeptGone, KeptWent DEF Minting
  <1>5. ASSUME NEW w \in Workers, Lose(w) PROVE Kept(s)' /\ minted' = minted
    <2>1. row' = row /\ minted' = minted /\ inv[w].op = "subscribe"
      BY <1>0, <1>5, LoseGoes DEF Keeps
    <2> QED BY <1>0, <1>5, <2>1, LoseGoes, KeptGone, KeptWent DEF Minting
  <1>6. CASE Environment
    <2>1. UNCHANGED <<inv, row, minted>>
      BY <1>6 DEF Environment, CheckoutPaid, PeriodEnd, PortalCancel, KeysExpire, Deploy,
                  Teardown, dbVars
    <2> QED BY <2>1 DEF Kept
  <1> QED BY <1>2, <1>3, <1>4, <1>5, <1>6 DEF Next

\* Stripe forgets keys in KeysExpire only,
LEMMA ForgottenNext ==
    ASSUME Facts, [Next]_vars, ~KeysExpire
    PROVE  forgotten' = forgotten
  <1>1. ASSUME NEW w \in Workers, Step(w) PROVE forgotten' = forgotten
    BY <1>1 DEF Step, UpdatedRetrieve, Mirror, DeletedEnd, DeprovisionGate, DispatchTeardown,
       EndEnforcement, ClearWorkspaceDeployPlan, LinkRead, LinkConflict, LinkTx, Claim,
       SubscribeRecorded, Resume, Create, Decline, Confirm, SubscribeTx, Release, StopRenewal,
       CancelLimits, ChangeRetrieve, Reprice, ChangeTx
  <1>2. ASSUME NEW w \in Workers, Ask(w) \/ Fail(w) \/ Lose(w) PROVE forgotten' = forgotten
    BY <1>2 DEF Ask, Subscribe, Change, LinkFromSuccess, Cancel, Fail, Lose, ClaimLost,
       SubscribeTxLost
  <1>3. ASSUME NEW w \in Workers, NEW e \in events, Handle(w, e) PROVE forgotten' = forgotten
    BY <1>3 DEF Handle, UpdatedUnknown, UpdatedLookup, CreatedUnknown, CreatedLookup,
       DeletedUnknown, DeletedLookup, LinkInactive, LinkRetrieve
  <1>4. CASE Environment
    BY <1>4 DEF Environment, CheckoutPaid, PeriodEnd, PortalCancel, Deploy, Teardown
  <1>5. CASE UNCHANGED vars
    BY <1>5 DEF vars
  <1> QED BY <1>1, <1>2, <1>3, <1>4, <1>5 DEF Next

\* and the ids it has given out under them stay where they are.
LEMMA MintedPrefix ==
    ASSUME Facts, [Next]_vars, NEW i \in 1..Len(minted)
    PROVE  minted'[i] = minted[i]
  <1>0. TypeInv /\ minted \in Seq(Subs)
    BY DEF Facts, TypeInv, StripeOK
  <1>1. minted' = minted \/ \E s \in Subs : minted' = Append(minted, s)
    <2>1. ASSUME NEW w \in Workers, Step(w), ~Create(w) PROVE minted' = minted
      BY <2>1 DEF Step, UpdatedRetrieve, Mirror, DeletedEnd, DeprovisionGate, DispatchTeardown,
         EndEnforcement, ClearWorkspaceDeployPlan, LinkRead, LinkConflict, LinkTx, Claim,
         SubscribeRecorded, Resume, Decline, Confirm, SubscribeTx, Release, StopRenewal,
         CancelLimits, ChangeRetrieve, Reprice, ChangeTx
    <2>2. ASSUME NEW w \in Workers, Ask(w) \/ Fail(w) \/ Lose(w) PROVE minted' = minted
      BY <2>2 DEF Ask, Subscribe, Change, LinkFromSuccess, Cancel, Fail, Lose, ClaimLost,
         SubscribeTxLost
    <2>3. ASSUME NEW w \in Workers, NEW e \in events, Handle(w, e) PROVE minted' = minted
      BY <2>3 DEF Handle, UpdatedUnknown, UpdatedLookup, CreatedUnknown, CreatedLookup,
         DeletedUnknown, DeletedLookup, LinkInactive, LinkRetrieve
    <2>4. CASE Environment
      BY <2>4 DEF Environment, CheckoutPaid, PeriodEnd, PortalCancel, KeysExpire, Deploy, Teardown
    <2>5. CASE UNCHANGED vars
      BY <2>5 DEF vars
    <2> QED BY <1>0, <2>1, <2>2, <2>3, <2>4, <2>5, CreateReads DEF Next
  <1> QED BY <1>0, <1>1

\* Every step keeps what is behind the forgotten keys.
LEMMA KeptNext ==
    ASSUME Facts, KeptInv, "key_expired" \notin Races, [Next]_vars
    PROVE  KeptInv'
  <1>0. /\ TypeInv /\ ChainInv /\ minted \in Seq(Subs) /\ forgotten \in 0..Len(minted)
        /\ stripe \in [Subs -> Subscription]
    BY DEF Facts, TypeInv, StripeOK
  <1>1. CASE KeysExpire
    <2>1. /\ UNCHANGED <<stripe, minted, row, inv>> /\ ~Busy /\ forgotten' = Len(minted)
          /\ \A s \in Minted : Live(s) => row = s
      BY <1>1 DEF KeysExpire, dbVars, Only
    <2>2. OneLiveMinted
      BY <1>0, KeptOneLive
    <2> SUFFICES ASSUME NEW i \in 1..Len(minted), Live(minted[i])
                 PROVE  /\ Kept(minted[i])'
                        /\ \A j \in 1..Len(minted) : Live(minted[j]) => j = i
      BY <2>1 DEF KeptInv, Live
    <2>3. row = minted[i]
      BY <1>0, <2>1 DEF Minted
    <2>4. \A w \in Workers : Keeps(minted[i], inv[w])
      BY <2>1 DEF Busy, Keeps
    <2>5. \A j \in 1..Len(minted) : Live(minted[j]) => j = i
      BY <1>0, <2>2 DEF OneLiveMinted
    <2> QED BY <2>1, <2>3, <2>4, <2>5 DEF Kept
  <1>2. CASE ~KeysExpire
    <2>1. forgotten' = forgotten
      BY <1>2, ForgottenNext
    <2>2. ASSUME NEW i \in 1..forgotten, stripe'[minted'[i]].status = "active"
          PROVE  minted'[i] = minted[i] /\ Live(minted[i]) /\ minted[i] \in Subs
      <3>1. i \in 1..Len(minted) /\ minted[i] \in Subs
        BY <1>0
      <3>2. minted'[i] = minted[i] /\ stripe[minted[i]].status # "none"
        BY <1>0, <3>1, MintedPrefix DEF ChainInv, AllExist, Exists
      <3>3. StatusKept
        BY <1>0, StatusNext DEF StatusKept, vars
      <3> QED BY <1>0, <2>2, <3>1, <3>2, <3>3 DEF StatusKept, Subscription, Live
    <2> SUFFICES ASSUME NEW i \in 1..forgotten, stripe'[minted'[i]].status = "active"
                 PROVE  /\ Len(minted') = forgotten /\ Kept(minted[i])'
                        /\ minted'[i] = minted[i]
                        /\ \A j \in 1..forgotten : stripe'[minted'[j]].status = "active" => j = i
      BY <2>1 DEF KeptInv, Live, Kept
    <2>3. /\ minted'[i] = minted[i] /\ Live(minted[i]) /\ minted[i] \in Subs
          /\ Len(minted) = forgotten /\ Kept(minted[i])
      BY <2>2 DEF KeptInv
    <2>4. Kept(minted[i])' /\ minted' = minted
      <3> DEFINE s == minted[i]
      <3>1. s \in Subs /\ Live(s) /\ Kept(s)
        BY <2>3
      <3> HIDE DEF s
      <3>2. minted' = minted /\ row' = s /\ \A w \in Workers : Keeps(s, inv'[w])
        <4>1. CASE UNCHANGED vars
          BY <3>1, <4>1 DEF vars, dbVars, Kept
        <4>2. CASE Next
          BY <3>1, <4>2, KeptStep, KeptOtherwise DEF Kept
        <4> QED BY <4>1, <4>2
      <3> QED BY <2>3, <3>2 DEF Kept, s
    <2>5. \A j \in 1..forgotten : stripe'[minted'[j]].status = "active" => j = i
      BY <2>2, <2>3 DEF KeptInv
    <2> QED BY <2>3, <2>4, <2>5
  <1> QED BY <1>1, <1>2

\* subscribeDeploy never has a workspace pay for two live subscriptions: for every number of
\* concurrent invocations, plans, failures and redeliveries and in every race but one, whoever
\* retries with which plan and however often Stripe forgets its keys. The chain of keys and the
\* check of a replayed answer against Stripe are enough without the claim on
\* workspace_billing.plan. The race left out is that Stripe forgets a key whose subscription
\* bills and is not recorded (24 hours after a charge that no retry has recorded).
THEOREM OneLiveSubscription ==
    Spec /\ "key_expired" \notin Races => []OneLiveMinted
  <1> DEFINE I == Facts /\ KeptInv /\ "key_expired" \notin Races
  <1>1. Init /\ "key_expired" \notin Races => I
    <2>1. Init => KeptInv
      BY DEF Init, KeptInv
    <2> QED BY <2>1, FactsInit
  <1>2. I /\ [Next]_vars => I'
    BY FactsNext, KeptNext
  <1>3. I => OneLiveMinted
    BY KeptOneLive DEF Facts
  <1> HIDE DEF I
  <1> QED BY <1>1, <1>2, <1>3, PTL DEF Spec

===============================================================================
