---------------------------- MODULE ComputeBilling ----------------------------
(***************************************************************************)
(* The Compute (Deploy) subscription of one workspace: Stripe, the webhook *)
(* handlers of app/api/webhooks/stripe/route.ts, the tRPC mutations of     *)
(* lib/trpc/routers/stripe, the checkout linker and ctrl's teardown.       *)
(*                                                                         *)
(* Stripe is the source of truth; workspace_billing.plan and the limits    *)
(* row are copies the deploy gate and the dashboard read, and the          *)
(* billing_subscriptions row says which subscription is the workspace's.   *)
(* Every invocation of the dashboard is a serverless function that awaits  *)
(* Stripe, MySQL and ctrl in turn. Each awaited call is a step, and the    *)
(* other invocations, the user in Stripe's billing portal, the end of a    *)
(* billing period and deployments interleave between them.                 *)
(*                                                                         *)
(* A definition marked "Seeded fault" is not part of the specification: it *)
(* is a plausible bug of the definition after it, kept to show that the    *)
(* properties notice it (see PROJECT.json, mutants).                       *)
(***************************************************************************)
EXTENDS Naturals, Sequences

CONSTANTS
    Subs,               \* ids Stripe may give to subscriptions
    Plans,              \* Deploy plans a price can be tagged with
    Workers,            \* invocations of the dashboard that can run at a time
    None,               \* NULL
    Races,              \* the RaceKinds that can happen
    MaxRequests,        \* bound on what users do
    MaxFailures,        \* bound on calls that fail
    MaxRedeliveries     \* bound on events Stripe delivers again

ASSUME NullAssumption == None \notin Subs /\ None \notin Plans
ASSUME BoundAssumption == {MaxRequests, MaxFailures, MaxRedeliveries} \subseteq Nat

VARIABLES
    stripe,     \* [Subs -> Subscription]
    minted,     \* subscriptions created under deploy-subscribe:<workspace>, in
                \* the order of the chain of idempotency keys
    forgotten,  \* how many of them were created under keys Stripe has forgotten
    events,     \* webhook events Stripe has yet to deliver
    row,        \* billing_subscriptions, product compute
    plan,       \* workspace_billing.plan
    limits,     \* the plan whose Compute limits the limits row holds
    sent,       \* the teardown of the billing row as it stands has been sent
    running,    \* the workspace has a deployment that runs
    teardown,   \* a Teardown(ARCHIVE) is queued in Restate
    inv,        \* [Workers -> Invocation]
    requests, failures, redeliveries,
    \* History variable: read by properties only.
    paged       \* subscriptions a human was paged about

dbVars == <<row, plan, limits, sent>>
computeVars == <<running, teardown>>
boundVars == <<requests, failures, redeliveries>>
vars == <<stripe, minted, forgotten, events, dbVars, computeVars, inv, boundVars, paged>>

Maybe(S) == S \cup {None}

(* What Stripe keeps of a subscription: an id not yet given out, an active *)
(* one, which may be set to cancel at the end of its period, or one that   *)
(* is over.                                                                *)
Subscription == [status : {"none", "active", "canceled"},
                 cancelling : BOOLEAN, plan : Maybe(Plans)]
Unused == [status |-> "none", cancelling |-> FALSE, plan |-> None]
Fresh(p) == [status |-> "active", cancelling |-> FALSE, plan |-> p]

\* The subscriptions subscribeDeploy has created.
Minted == {minted[i] : i \in DOMAIN minted}

Live(s) == stripe[s].status = "active"
Renewing(s) == Live(s) /\ ~stripe[s].cancelling

(* A created event carries the subscription as it was created; the other   *)
(* handlers only use the id.                                               *)
Event == [type : {"updated", "deleted", "checkout"}, sub : Subs, plan : {None}]
            \cup [type : {"created"}, sub : Subs, plan : Plans]
ASSUME NoEventAssumption == None \notin Event
On(type, s) == [type |-> type, sub |-> s, plan |-> None]
Created(s, p) == [type |-> "created", sub |-> s, plan |-> p]

(* An invocation: where it is, the event it answers, the subscription it   *)
(* is about, the one it has found recorded, the plan asked for, what it    *)
(* has read of workspace_billing and of Stripe, and the place in minted of *)
(* the key it creates under.                                               *)
Ops == {"idle", "updated", "deleted", "created", "checkout", "subscribe", "cancel", "change"}
Pcs == {"idle", "retrieve", "gate", "dispatch", "unsuspend", "clear", "mirror", "end", "read",
        "recorded", "tx", "claim", "resume", "create", "confirm", "release", "stop", "limits",
        "reprice"}
Invocation == [op : Ops, pc : Pcs, ev : Maybe(Event), sub : Maybe(Subs), rec : Maybe(Subs),
               plan : Maybe(Plans), snap : Maybe(Plans), live : Subscription, key : Nat]
Idle == [op |-> "idle", pc |-> "idle", ev |-> None, sub |-> None, rec |-> None,
         plan |-> None, snap |-> None, live |-> Unused, key |-> 0]

(* The schedules that part the copies from Stripe, each of which an        *)
(* instance allows or leaves out: two invocations at a time; a created     *)
(* event delivered after its subscription has changed; a deployment that   *)
(* starts while an invocation runs; a claim that is not given back; an     *)
(* idempotent replay for another plan; the cancellation of a subscription  *)
(* the workspace has not recorded; a teardown sent again that Restate      *)
(* takes for the one it has done; a key that Stripe forgets before what it *)
(* created is recorded; a subscribe that takes its plan back although it   *)
(* has committed; and an alert that reaches nobody.                        *)
RaceKinds == {"overlap", "stale_created", "deploy", "stuck_claim", "other_plan",
              "unlinked_cancel", "deduped_teardown", "key_expired", "lost_commit",
              "lost_page"}
ASSUME RaceAssumption == Races \subseteq RaceKinds
Only(race, happens) == happens => race \in Races

Busy == \E w \in Workers : inv[w].op # "idle"

Init ==
    /\ stripe = [s \in Subs |-> Unused]
    /\ minted = <<>>
    /\ forgotten = 0
    /\ events = {}
    /\ row = None
    /\ plan = None
    /\ limits = None
    /\ sent = FALSE
    /\ running = FALSE
    /\ teardown = FALSE
    /\ inv = [w \in Workers |-> Idle]
    /\ requests = 0 /\ failures = 0 /\ redeliveries = 0
    /\ paged = {}

-------------------------------------------------------------------------------
(* Invocations. *)

At(w, op, pc) == inv[w].op = op /\ inv[w].pc = pc
Goto(w, pc) == inv' = [inv EXCEPT ![w].pc = pc]

(* An update of workspace_billing, which sets updated_at too. *)
SetPlan(p) == plan' = p /\ sent' = FALSE

(* A worker starts on i. *)
Start(w, i) ==
    /\ inv[w].op = "idle"
    /\ inv' = [inv EXCEPT ![w] = i]
    /\ Only("overlap", Busy)

(* Stripe delivers e to a worker, in any order. *)
Receive(w, e, i) ==
    /\ e \in events
    /\ events' = events \ {e}
    /\ Start(w, [i EXCEPT !.op = e.type, !.ev = e, !.sub = e.sub])

(* Stripe delivers e, and the handler answers at once. *)
Ignore(w, e) ==
    /\ e \in events
    /\ inv[w].op = "idle"
    /\ events' = events \ {e}
    /\ UNCHANGED inv
    /\ Only("overlap", Busy)

(* The invocation answers. A webhook's 200 may be lost, or the answer to   *)
(* its last write, so that Stripe delivers its event again.                *)
Finish(w) ==
    /\ inv' = [inv EXCEPT ![w] = Idle]
    /\ \/ UNCHANGED <<events, redeliveries>>
       \/ /\ inv[w].ev # None
          /\ redeliveries < MaxRedeliveries
          /\ redeliveries' = redeliveries + 1
          /\ events' = events \cup {inv[w].ev}

(* A user's request, which has loaded the workspace (createContext). *)
Request(w, i) ==
    /\ requests < MaxRequests
    /\ requests' = requests + 1
    /\ Start(w, i)
    /\ UNCHANGED events

(* A call of the invocation throws. A webhook answers 500 and Stripe       *)
(* delivers its event again; subscribeDeploy gives its claim back. A call  *)
(* that has done its work and throws is the step of that call, then Fail   *)
(* or a Finish; ClaimLost and SubscribeTxLost are the two that differ.     *)
Fail(w) ==
    /\ inv[w].op # "idle"
    /\ failures < MaxFailures
    /\ failures' = failures + 1
    /\ IF inv[w].op = "subscribe" /\ inv[w].pc \notin {"claim", "release"}
         THEN Goto(w, "release") /\ UNCHANGED events
         ELSE /\ inv' = [inv EXCEPT ![w] = Idle]
              /\ events' = IF inv[w].ev = None THEN events ELSE events \cup {inv[w].ev}
              /\ Only("stuck_claim", At(w, "subscribe", "release") /\ plan = inv[w].plan)
    /\ UNCHANGED <<stripe, minted, forgotten, dbVars, computeVars, requests, redeliveries, paged>>

-------------------------------------------------------------------------------
(* ctrl's DeprovisionCompute, called by three handlers. Without a plan     *)
(* there is nothing to do; else it dispatches the teardown and clears the  *)
(* plan last. *)

AfterDeprovision(op) == CASE op = "updated" -> "mirror"
                          [] op = "deleted" -> "end"
                          [] op = "cancel"  -> "limits"

DeprovisionGate(w) ==
    /\ inv[w].pc = "gate"
    /\ Goto(w, IF plan = None THEN AfterDeprovision(inv[w].op) ELSE "dispatch")
    /\ UNCHANGED <<stripe, minted, forgotten, events, dbVars, computeVars, boundVars, paged>>

(* The key of the Send holds the subscription and updated_at of the        *)
(* billing row: a retry on the same row is dropped by Restate.             *)
DispatchTeardown(w) ==
    /\ inv[w].pc = "dispatch"
    /\ Only("deduped_teardown", sent /\ running /\ ~teardown)
    /\ teardown' = (teardown \/ ~sent)
    /\ sent' = TRUE
    /\ Goto(w, "unsuspend")
    /\ UNCHANGED <<stripe, minted, forgotten, events, row, plan, limits, running, boundVars,
                   paged>>

(* SetWorkspaceDeploySpendSuspended, of which only updated_at is kept. *)
EndEnforcement(w) ==
    /\ inv[w].pc = "unsuspend"
    /\ sent' = FALSE
    /\ Goto(w, "clear")
    /\ UNCHANGED <<stripe, minted, forgotten, events, row, plan, limits, computeVars,
                   boundVars, paged>>

ClearWorkspaceDeployPlan(w) ==
    /\ inv[w].pc = "clear"
    /\ SetPlan(None)
    /\ Goto(w, AfterDeprovision(inv[w].op))
    /\ UNCHANGED <<stripe, minted, forgotten, events, row, limits, computeVars, boundVars, paged>>

(* DeployTeardownService stops whatever runs when it gets to it. *)
Teardown ==
    /\ teardown
    /\ teardown' = FALSE
    /\ running' = FALSE
    /\ UNCHANGED <<stripe, minted, forgotten, events, dbVars, inv, boundVars, paged>>

(* A deployment passes ensureWorkspaceCanDeploy. *)
Deploy ==
    /\ plan # None
    /\ ~running
    /\ running' = TRUE
    /\ Only("deploy", Busy)
    /\ UNCHANGED <<stripe, minted, forgotten, events, dbVars, teardown, inv, boundVars, paged>>

-------------------------------------------------------------------------------
(* customer.subscription.updated. *)

(* alertOrphanedDeploySubscription posts to Slack. Nobody is paged when    *)
(* the URL is not set or the post fails, and the handler goes on.          *)
Page(s) ==
    /\ paged' \in {paged, paged \cup {s}}
    /\ Only("lost_page", s \notin paged')

(* A subscription no row points at is paged, unless it is a checkout of    *)
(* the last half hour.                                                     *)
UpdatedUnknown(w, e) ==
    /\ e.type = "updated"
    /\ row # e.sub
    /\ Ignore(w, e)
    /\ \/ Page(e.sub)
       \/ e.sub \notin Minted /\ UNCHANGED paged
    /\ UNCHANGED <<stripe, minted, forgotten, dbVars, computeVars, boundVars>>

UpdatedLookup(w, e) ==
    /\ e.type = "updated"
    /\ row = e.sub
    /\ Receive(w, e, [Idle EXCEPT !.pc = "retrieve", !.snap = plan])
    /\ UNCHANGED <<stripe, minted, forgotten, dbVars, computeVars, boundVars, paged>>

(* Seeded fault: the plan is mirrored without tearing Compute down. *)
UpdatedRetrieve_NoTeardown(w) ==
    /\ At(w, "updated", "retrieve")
    /\ inv' = [inv EXCEPT ![w].live = stripe[inv[w].sub], ![w].pc = "mirror"]
    /\ UNCHANGED <<stripe, minted, forgotten, events, dbVars, computeVars, boundVars, paged>>

(* The handler writes from the live subscription, not from the event. A    *)
(* cancelling one is deprovisioned first (deprovisionOnCancel).            *)
UpdatedRetrieve(w) ==
    /\ At(w, "updated", "retrieve")
    /\ LET live == stripe[inv[w].sub]
       IN  inv' = [inv EXCEPT ![w].live = live,
                              ![w].pc = IF live.cancelling /\ inv[w].snap # None
                                          THEN "gate" ELSE "mirror"]
    /\ UNCHANGED <<stripe, minted, forgotten, events, dbVars, computeVars, boundVars, paged>>

(* Seeded fault: a cancelling subscription still shows its plan. *)
MirroredPlan_IgnoreCancel(live) == live.plan

(* The plan mirrorDeployPlan derives from a subscription. *)
MirroredPlan(live) == IF live.cancelling THEN None ELSE live.plan

(* mirrorDeployPlan writes when the plan differs from the one the handler  *)
(* has read.                                                               *)
Mirror(w) ==
    /\ inv[w].pc = "mirror"
    /\ LET p == MirroredPlan(inv[w].live)
       IN  IF p # inv[w].snap THEN SetPlan(p) /\ limits' = p
             ELSE UNCHANGED <<plan, limits, sent>>
    /\ Finish(w)
    /\ UNCHANGED <<stripe, minted, forgotten, row, computeVars, requests, failures, paged>>

-------------------------------------------------------------------------------
(* customer.subscription.created: mirrors the subscription of the event. *)

CreatedUnknown(w, e) ==
    /\ e.type = "created"
    /\ row # e.sub
    /\ Ignore(w, e)
    /\ UNCHANGED <<stripe, minted, forgotten, dbVars, computeVars, boundVars, paged>>

CreatedLookup(w, e) ==
    /\ e.type = "created"
    /\ row = e.sub
    /\ Only("stale_created", stripe[e.sub] # Fresh(e.plan))
    /\ Receive(w, e, [Idle EXCEPT !.pc = "mirror", !.snap = plan, !.live = Fresh(e.plan)])
    /\ UNCHANGED <<stripe, minted, forgotten, dbVars, computeVars, boundVars, paged>>

-------------------------------------------------------------------------------
(* customer.subscription.deleted. *)

(* The row is gone: an earlier delivery has done the work. *)
DeletedUnknown(w, e) ==
    /\ e.type = "deleted"
    /\ row # e.sub
    /\ Ignore(w, e)
    /\ UNCHANGED <<stripe, minted, forgotten, dbVars, computeVars, boundVars, paged>>

DeletedLookup(w, e) ==
    /\ e.type = "deleted"
    /\ row = e.sub
    /\ Receive(w, e, [Idle EXCEPT !.snap = plan,
                                  !.pc = IF plan # None THEN "gate" ELSE "end"])
    /\ UNCHANGED <<stripe, minted, forgotten, dbVars, computeVars, boundVars, paged>>

(* Seeded fault: the limits of the plan stay. *)
DeletedEnd_KeepLimits(w) ==
    /\ At(w, "deleted", "end")
    /\ SetPlan(None)
    /\ row' = None
    /\ Finish(w)
    /\ UNCHANGED <<stripe, minted, forgotten, limits, computeVars, requests, failures, paged>>

(* One transaction ends the entitlement. The row is deleted by workspace   *)
(* and product.                                                            *)
DeletedEnd(w) ==
    /\ At(w, "deleted", "end")
    /\ SetPlan(None)
    /\ row' = None
    /\ limits' = None
    /\ Finish(w)
    /\ UNCHANGED <<stripe, minted, forgotten, computeVars, requests, failures, paged>>

-------------------------------------------------------------------------------
(* linkDeploySubscription, from checkout.session.completed and /success. *)

(* Only an active subscription that is not cancelling is linked. *)
LinkInactive(w, e) ==
    /\ e.type = "checkout"
    /\ ~Renewing(e.sub)
    /\ Ignore(w, e)
    /\ UNCHANGED <<stripe, minted, forgotten, dbVars, computeVars, boundVars, paged>>

LinkRetrieve(w, e) ==
    /\ e.type = "checkout"
    /\ Renewing(e.sub)
    /\ Receive(w, e, [Idle EXCEPT !.pc = "read", !.live = stripe[e.sub]])
    /\ UNCHANGED <<stripe, minted, forgotten, dbVars, computeVars, boundVars, paged>>

(* The user comes back from checkout to /success. *)
LinkFromSuccess(w, s) ==
    /\ s \notin Minted
    /\ Renewing(s)
    /\ Request(w, [Idle EXCEPT !.op = "checkout", !.pc = "read", !.sub = s,
                               !.live = stripe[s]])
    /\ UNCHANGED <<stripe, minted, forgotten, dbVars, computeVars, failures, redeliveries, paged>>

(* What is recorded decides: the same subscription and plan only gets its  *)
(* limits again; a different subscription is looked up in Stripe.          *)
LinkRead(w) ==
    /\ At(w, "checkout", "read")
    /\ LET s == inv[w].sub
           p == inv[w].live.plan
       IN  \/ /\ row = s /\ plan = p
              /\ limits' = p
              /\ Finish(w)
           \/ /\ row \notin {s, None}
              /\ inv' = [inv EXCEPT ![w].pc = "recorded", ![w].rec = row, ![w].plan = p]
              /\ UNCHANGED <<limits, events, redeliveries>>
           \/ /\ row = None \/ (row = s /\ plan # p)
              /\ inv' = [inv EXCEPT ![w].pc = "tx", ![w].plan = p]
              /\ UNCHANGED <<limits, events, redeliveries>>
    /\ UNCHANGED <<stripe, minted, forgotten, row, plan, sent, computeVars, requests,
                   failures, paged>>

(* Seeded fault: a conflict seen by the webhook pages nobody. *)
LinkConflict_Silent(w) ==
    /\ At(w, "checkout", "recorded")
    /\ IF ~Live(inv[w].rec)
         THEN Goto(w, "tx") /\ UNCHANGED <<events, redeliveries>>
         ELSE Finish(w)
    /\ UNCHANGED <<stripe, minted, forgotten, dbVars, computeVars, requests, failures, paged>>

(* A dead recorded subscription is replaced. A live one is a conflict: the *)
(* webhook pages a human, /success shows an error.                         *)
LinkConflict(w) ==
    /\ At(w, "checkout", "recorded")
    /\ IF ~Live(inv[w].rec)
         THEN Goto(w, "tx") /\ UNCHANGED <<events, redeliveries, paged>>
         ELSE /\ Finish(w)
              /\ IF inv[w].ev = None THEN UNCHANGED paged ELSE Page(inv[w].sub)
    /\ UNCHANGED <<stripe, minted, forgotten, dbVars, computeVars, requests, failures>>

LinkTx(w) ==
    /\ At(w, "checkout", "tx")
    /\ SetPlan(inv[w].plan)
    /\ limits' = inv[w].plan
    /\ row' = inv[w].sub
    /\ Finish(w)
    /\ UNCHANGED <<stripe, minted, forgotten, computeVars, requests, failures, paged>>

-------------------------------------------------------------------------------
(* subscribeDeploy. *)

Subscribe(w, p) ==
    /\ plan = None
    /\ Request(w, [Idle EXCEPT !.op = "subscribe", !.pc = "claim", !.plan = p, !.rec = row])
    /\ UNCHANGED <<stripe, minted, forgotten, dbVars, computeVars, failures, redeliveries, paged>>

(* On to subscriptions.create under the k-th key, the first that Stripe    *)
(* remembers being deploy-subscribe:<workspace>.                           *)
ToCreate(w, k) == inv' = [inv EXCEPT ![w].pc = "create", ![w].key = k]
FirstKey == forgotten + 1

(* The compare-and-set on plan IS NULL; the loser gets an error. *)
Claim(w) ==
    /\ At(w, "subscribe", "claim")
    /\ IF plan = None
         THEN /\ SetPlan(inv[w].plan)
              /\ IF inv[w].rec = None THEN ToCreate(w, FirstKey) ELSE Goto(w, "recorded")
         ELSE inv' = [inv EXCEPT ![w] = Idle] /\ UNCHANGED <<plan, sent>>
    /\ UNCHANGED <<stripe, minted, forgotten, events, row, limits, computeVars, boundVars, paged>>

(* The compare-and-set commits and its answer is lost. It comes before the *)
(* try, so that nobody gives the claim back; it goes when the webhook of a *)
(* recorded subscription that is over ends the entitlement.                *)
ClaimLost(w) ==
    /\ At(w, "subscribe", "claim")
    /\ plan = None
    /\ failures < MaxFailures
    /\ failures' = failures + 1
    /\ SetPlan(inv[w].plan)
    /\ inv' = [inv EXCEPT ![w] = Idle]
    /\ Only("stuck_claim", row = None \/ Live(row))
    /\ UNCHANGED <<stripe, minted, forgotten, events, row, limits, computeVars, requests,
                   redeliveries, paged>>

(* A dead recorded subscription counts as absent. A live one can only be   *)
(* resumed, on the plan it was cancelled on.                               *)
SubscribeRecorded(w) ==
    /\ At(w, "subscribe", "recorded")
    /\ LET recorded == stripe[inv[w].rec]
       IN  IF ~Live(inv[w].rec) THEN ToCreate(w, FirstKey)
             ELSE Goto(w, IF recorded.cancelling /\ recorded.plan = inv[w].plan
                            THEN "resume" ELSE "release")
    /\ UNCHANGED <<stripe, minted, forgotten, events, dbVars, computeVars, boundVars, paged>>

Resume(w) ==
    /\ At(w, "subscribe", "resume")
    /\ IF Live(inv[w].rec)
         THEN /\ stripe' = [stripe EXCEPT ![inv[w].rec].cancelling = FALSE]
              /\ events' = IF stripe[inv[w].rec].cancelling
                             THEN events \cup {On("updated", inv[w].rec)} ELSE events
              /\ Goto(w, "tx")
         ELSE Goto(w, "release") /\ UNCHANGED <<stripe, events>>
    /\ UNCHANGED <<minted, forgotten, dbVars, computeVars, boundVars, paged>>

(* The answer is checked against Stripe for the first three keys. *)
AfterCreate(k) == IF k <= forgotten + 3 THEN "confirm" ELSE "tx"

(* Seeded fault: subscriptions.create is called without a key. *)
Create_NoKey(w) ==
    /\ At(w, "subscribe", "create")
    /\ \E s \in Subs :
         /\ stripe[s] = Unused
         /\ stripe' = [stripe EXCEPT ![s] = Fresh(inv[w].plan)]
         /\ minted' = Append(minted, s)
         /\ events' = events \cup {Created(s, inv[w].plan)}
         /\ inv' = [inv EXCEPT ![w].sub = s, ![w].pc = "confirm"]
    /\ UNCHANGED <<forgotten, dbVars, computeVars, boundVars, paged>>

(* Seeded fault: the price is one without a plan tag. *)
Create_Untagged(w) ==
    /\ At(w, "subscribe", "create")
    /\ \E s \in Subs :
         /\ stripe[s] = Unused
         /\ stripe' = [stripe EXCEPT ![s] = Fresh(None)]
         /\ minted' = Append(minted, s)
         /\ events' = events \cup {Created(s, None)}
         /\ inv' = [inv EXCEPT ![w].sub = s, ![w].pc = "confirm"]
    /\ UNCHANGED <<forgotten, dbVars, computeVars, boundVars, paged>>

(* subscriptions.create under the k-th key: the first call mints a         *)
(* subscription, later ones get the same one back whatever their plan, for *)
(* as long as Stripe remembers the key.                                    *)
Create(w) ==
    /\ At(w, "subscribe", "create")
    /\ LET k == inv[w].key
           p == inv[w].plan
       IN  IF k <= Len(minted)
             THEN /\ inv' = [inv EXCEPT ![w].sub = minted[k], ![w].pc = AfterCreate(k)]
                  /\ Only("other_plan", stripe[minted[k]].plan # p)
                  /\ UNCHANGED <<stripe, minted, events>>
             ELSE \E s \in Subs :
                    /\ stripe[s] = Unused
                    /\ stripe' = [stripe EXCEPT ![s] = Fresh(p)]
                    /\ minted' = Append(minted, s)
                    /\ events' = events \cup {Created(s, p)}
                    /\ inv' = [inv EXCEPT ![w].sub = s, ![w].pc = AfterCreate(k)]
    /\ UNCHANGED <<forgotten, dbVars, computeVars, boundVars, paged>>

(* The card is declined, or no payment method is on file. *)
Decline(w) ==
    /\ At(w, "subscribe", "create")
    /\ Goto(w, "release")
    /\ UNCHANGED <<stripe, minted, forgotten, events, dbVars, computeVars, boundVars, paged>>

(* The replayed answer may be of a subscription that has ended since: a    *)
(* corpse leads to the next key of the chain.                              *)
Confirm(w) ==
    /\ At(w, "subscribe", "confirm")
    /\ IF Live(inv[w].sub)
         THEN Goto(w, "tx")
         ELSE ToCreate(w, inv[w].key + 1)
    /\ UNCHANGED <<stripe, minted, forgotten, events, dbVars, computeVars, boundVars, paged>>

SubscribeTx(w) ==
    /\ At(w, "subscribe", "tx")
    /\ SetPlan(inv[w].plan)
    /\ limits' = inv[w].plan
    /\ row' = IF inv[w].sub # None THEN inv[w].sub ELSE row
    /\ Finish(w)
    /\ UNCHANGED <<stripe, minted, forgotten, computeVars, requests, failures, paged>>

(* The transaction commits and its answer is lost: subscribeDeploy takes   *)
(* back the plan of the subscription it has recorded. An update that is    *)
(* still to be delivered mirrors the plan again.                           *)
SubscribeTxLost(w) ==
    /\ At(w, "subscribe", "tx")
    /\ failures < MaxFailures
    /\ failures' = failures + 1
    /\ SetPlan(inv[w].plan)
    /\ limits' = inv[w].plan
    /\ row' = IF inv[w].sub # None THEN inv[w].sub ELSE row
    /\ Goto(w, "release")
    /\ Only("lost_commit", On("updated", row') \notin events)
    /\ UNCHANGED <<stripe, minted, forgotten, events, computeVars, requests, redeliveries, paged>>

(* releaseClaim: only the plan this request has set. *)
Release(w) ==
    /\ At(w, "subscribe", "release")
    /\ IF plan = inv[w].plan THEN SetPlan(None) ELSE UNCHANGED <<plan, sent>>
    /\ Finish(w)
    /\ UNCHANGED <<stripe, minted, forgotten, row, limits, computeVars, requests, failures,
                   paged>>

-------------------------------------------------------------------------------
(* cancelDeploy. *)

Cancel(w) ==
    /\ Request(w, [Idle EXCEPT !.op = "cancel", !.rec = row,
                               !.pc = IF row = None THEN "gate" ELSE "stop"])
    /\ UNCHANGED <<stripe, minted, forgotten, dbVars, computeVars, failures, redeliveries, paged>>

(* cancelDeploySubscription: a dead subscription needs nothing. *)
StopRenewal(w) ==
    /\ At(w, "cancel", "stop")
    /\ IF Renewing(inv[w].rec)
         THEN /\ stripe' = [stripe EXCEPT ![inv[w].rec].cancelling = TRUE]
              /\ events' = events \cup {On("updated", inv[w].rec)}
         ELSE UNCHANGED <<stripe, events>>
    /\ Goto(w, "gate")
    /\ UNCHANGED <<minted, forgotten, dbVars, computeVars, boundVars, paged>>

CancelLimits(w) ==
    /\ At(w, "cancel", "limits")
    /\ limits' = None
    /\ Finish(w)
    /\ UNCHANGED <<stripe, minted, forgotten, row, plan, sent, computeVars, requests,
                   failures, paged>>

-------------------------------------------------------------------------------
(* changeDeployPlan. *)

Change(w, p) ==
    /\ row # None
    /\ Request(w, [Idle EXCEPT !.op = "change", !.pc = "retrieve", !.plan = p, !.rec = row])
    /\ UNCHANGED <<stripe, minted, forgotten, dbVars, computeVars, failures, redeliveries, paged>>

(* Nothing to do on the same plan; a cancelling subscription is refused. *)
ChangeRetrieve(w) ==
    /\ At(w, "change", "retrieve")
    /\ LET sub == stripe[inv[w].rec]
       IN  IF sub.plan = inv[w].plan \/ sub.cancelling
             THEN inv' = [inv EXCEPT ![w] = Idle]
             ELSE Goto(w, "reprice")
    /\ UNCHANGED <<stripe, minted, forgotten, events, dbVars, computeVars, boundVars, paged>>

(* changeSubscriptionPrice; Stripe refuses it on a canceled subscription,  *)
(* and leaves the plan as it is while a payment is due.                    *)
Reprice(w) ==
    /\ At(w, "change", "reprice")
    /\ \/ /\ Live(inv[w].rec)
          /\ stripe' = [stripe EXCEPT ![inv[w].rec].plan = inv[w].plan]
          /\ events' = events \cup {On("updated", inv[w].rec)}
          /\ Goto(w, "tx")
       \/ inv' = [inv EXCEPT ![w] = Idle] /\ UNCHANGED <<stripe, events>>
    /\ UNCHANGED <<minted, forgotten, dbVars, computeVars, boundVars, paged>>

(* Seeded fault: the transaction leaves the limits to the webhook. *)
ChangeTx_NoLimits(w) ==
    /\ At(w, "change", "tx")
    /\ SetPlan(inv[w].plan)
    /\ Finish(w)
    /\ UNCHANGED <<stripe, minted, forgotten, row, limits, computeVars, requests, failures,
                   paged>>

ChangeTx(w) ==
    /\ At(w, "change", "tx")
    /\ SetPlan(inv[w].plan)
    /\ limits' = inv[w].plan
    /\ Finish(w)
    /\ UNCHANGED <<stripe, minted, forgotten, row, computeVars, requests, failures, paged>>

-------------------------------------------------------------------------------
(* Stripe and its users. *)

(* A subscription-mode checkout is paid. *)
CheckoutPaid(s, p) ==
    /\ stripe[s] = Unused
    /\ stripe' = [stripe EXCEPT ![s] = Fresh(p)]
    /\ events' = events \cup {Created(s, p), On("checkout", s)}
    /\ UNCHANGED <<minted, forgotten, dbVars, computeVars, inv, boundVars, paged>>

(* A user in the billing portal, or an operator, sets the cancellation or  *)
(* takes it back.                                                          *)
PortalCancel(s) ==
    /\ Live(s)
    /\ requests < MaxRequests
    /\ requests' = requests + 1
    /\ Only("unlinked_cancel", row # s)
    /\ stripe' = [stripe EXCEPT ![s].cancelling = ~@]
    /\ events' = events \cup {On("updated", s)}
    /\ UNCHANGED <<minted, forgotten, dbVars, computeVars, inv, failures, redeliveries, paged>>

(* The period of a cancelling subscription ends. *)
PeriodEnd(s) ==
    /\ Live(s)
    /\ stripe[s].cancelling
    /\ stripe' = [stripe EXCEPT ![s].status = "canceled"]
    /\ events' = events \cup {On("deleted", s)}
    /\ UNCHANGED <<minted, forgotten, dbVars, computeVars, inv, boundVars, paged>>

(* A day after its first use Stripe forgets a key. The keys behind it hang *)
(* on its answer and go with it. No invocation runs for as long.           *)
KeysExpire ==
    /\ ~Busy
    /\ forgotten # Len(minted)
    /\ forgotten' = Len(minted)
    /\ Only("key_expired", \E s \in Minted : Live(s) /\ row # s)
    /\ UNCHANGED <<stripe, minted, events, dbVars, computeVars, inv, boundVars, paged>>

-------------------------------------------------------------------------------
Handle(w, e) ==
    \/ UpdatedUnknown(w, e) \/ UpdatedLookup(w, e)
    \/ CreatedUnknown(w, e) \/ CreatedLookup(w, e)
    \/ DeletedUnknown(w, e) \/ DeletedLookup(w, e)
    \/ LinkInactive(w, e) \/ LinkRetrieve(w, e)

Step(w) ==
    \/ UpdatedRetrieve(w) \/ Mirror(w) \/ DeletedEnd(w)
    \/ DeprovisionGate(w) \/ DispatchTeardown(w) \/ EndEnforcement(w)
    \/ ClearWorkspaceDeployPlan(w)
    \/ LinkRead(w) \/ LinkConflict(w) \/ LinkTx(w)
    \/ Claim(w) \/ SubscribeRecorded(w) \/ Resume(w) \/ Create(w) \/ Decline(w)
    \/ Confirm(w) \/ SubscribeTx(w) \/ Release(w)
    \/ StopRenewal(w) \/ CancelLimits(w)
    \/ ChangeRetrieve(w) \/ Reprice(w) \/ ChangeTx(w)

Ask(w) ==
    \/ \E p \in Plans : Subscribe(w, p) \/ Change(w, p)
    \/ \E s \in Subs : LinkFromSuccess(w, s)
    \/ Cancel(w)

(* A write of subscribeDeploy that commits and throws. *)
Lose(w) == ClaimLost(w) \/ SubscribeTxLost(w)

Environment ==
    \/ \E s \in Subs, p \in Plans : CheckoutPaid(s, p)
    \/ \E s \in Subs : PeriodEnd(s)
    \/ \E s \in Subs : PortalCancel(s)
    \/ KeysExpire
    \/ Deploy
    \/ Teardown

Next ==
    \/ \E w \in Workers : \/ Ask(w) \/ Step(w) \/ Fail(w) \/ Lose(w)
                         \/ \E e \in events : Handle(w, e)
    \/ Environment

Spec == Init /\ [][Next]_vars

-------------------------------------------------------------------------------
TypeOK ==
    /\ stripe \in [Subs -> Subscription]
    /\ minted \in Seq(Subs)
    /\ forgotten \in 0..Len(minted)
    /\ events \subseteq Event
    /\ row \in Maybe(Subs)
    /\ plan \in Maybe(Plans)
    /\ limits \in Maybe(Plans)
    /\ sent \in BOOLEAN
    /\ running \in BOOLEAN
    /\ teardown \in BOOLEAN
    /\ inv \in [Workers -> Invocation]
    /\ requests \in 0..MaxRequests
    /\ failures \in 0..MaxFailures
    /\ redeliveries \in 0..MaxRedeliveries
    /\ paged \subseteq Subs

(* No invocation runs and Stripe has nothing left to deliver. *)
Quiet == ~Busy /\ events = {}

(* subscribeDeploy never has a workspace pay for two subscriptions: of the *)
(* ones created under its chain of idempotency keys at most one is live.   *)
(* That is so when the charge goes through and its recording fails, when   *)
(* the subscription of a key has ended since, and after Stripe has         *)
(* forgotten the key of the recorded one, but not once it has forgotten    *)
(* the key of a live one that nobody has recorded (key_expired).           *)
OneLiveMinted ==
    \A i, j \in DOMAIN minted : Live(minted[i]) /\ Live(minted[j]) => i = j

(* A workspace whose subscription is over, or that has none, ends up with  *)
(* no row, no plan and no paid limits: no failed, repeated or reordered    *)
(* webhook of the ended subscription leaves an entitlement behind or       *)
(* brings one back.                                                        *)
EntitlementEnds ==
    Quiet /\ (row = None \/ ~Live(row)) => row = None /\ plan = None /\ limits = None

(* The plan the deploy gate reads ends up the one that Stripe bills, and   *)
(* none while the subscription is set to cancel (mirrorDeployPlan), also   *)
(* when the user cancels or resumes in the portal while an invocation is   *)
(* between its reads and its writes, and when a subscribe that has         *)
(* committed takes its plan back before an update is delivered; without    *)
(* one to come the plan stays away (lost_commit).                          *)
MirrorConverges ==
    Quiet /\ row # None /\ Live(row) =>
        plan = IF Renewing(row) THEN stripe[row].plan ELSE None

(* So do the Compute limits, for a subscription that renews. *)
LimitsConverge ==
    Quiet /\ row # None /\ Renewing(row) => limits = stripe[row].plan

(* A paid checkout is recorded or a human has been paged: no live          *)
(* subscription of a checkout bills without anybody knowing, as long as    *)
(* Slack takes the alert of a conflict (lost_page).                        *)
NoSilentOrphan ==
    Quiet => \A s \in Subs \ Minted : Renewing(s) => row = s \/ s \in paged

(* Compute that runs without a plan, which no query bills, is about to be  *)
(* torn down: whichever path clears the plan dispatches the teardown       *)
(* first, and failing in between does not lose it.                         *)
ComputeIsBilled ==
    Quiet /\ running /\ plan = None => teardown
===============================================================================
