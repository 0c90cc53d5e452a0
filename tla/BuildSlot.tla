------------------------------ MODULE BuildSlot ------------------------------
(***************************************************************************)
(* The build concurrency gate of the control plane: the BuildSlotService   *)
(* virtual object of one workspace (svc/ctrl/worker/buildslot), which      *)
(* grants slots, queues waiters and audits leases, and the Deploy          *)
(* invocations that ask it for a slot (svc/ctrl/worker/deploy).            *)
(*                                                                         *)
(* Restate runs one handler of a virtual object at a time, in the order of *)
(* its inbox, and journals what it sends, so each branch of a handler is   *)
(* one action. Deploy invocations run concurrently and can be killed at    *)
(* any step; deployment rows can change under every handler. A delayed     *)
(* ExpireSlot call may arrive at any time after it was scheduled.          *)
(*                                                                         *)
(* A definition marked "Seeded fault" is not part of the specification: it *)
(* is a plausible bug of the definition after it, kept to show that the    *)
(* properties notice it (see PROJECT.json, mutants).                       *)
(***************************************************************************)
EXTENDS Integers, Sequences, FiniteSets, Functions

CONSTANTS
    Deployments,    \* deployments of the workspace
    Production,     \* those that target a production environment
    Recorded,       \* those whose invocation id was persisted in the row
    Limits,         \* values BuildsConcurrentMax may take
    MaxRenewals,    \* maxSlotLeaseRenewals
    Resent          \* those for which Deploy may be sent a second time

ASSUME DeploymentAssumption == /\ IsFiniteSet(Deployments)
                               /\ Production \subseteq Deployments
                               /\ Recorded \subseteq Deployments
                               /\ Resent \subseteq Deployments
ASSUME LimitAssumption == Limits \subseteq Nat
ASSUME RenewalAssumption == MaxRenewals \in Nat

VARIABLES
    \* BuildSlotService
    active,     \* active_slots: the deployments that hold a slot
    ticket,     \* [Deployments -> Nat]  arrival number in its wait list, 0: not waiting
    entry,      \* [Deployments -> Nat]  the attempt whose awakeable the wait entry stores
    timers,     \* [Deployments -> [0..MaxRenewals -> Nat]]  delayed ExpireSlot calls
    inbox,      \* calls to the virtual object that wait for their turn
    \* Deploy invocations
    inv,        \* [Deployments -> where the current invocation is]
    attempt,    \* [Deployments -> Nat]  which invocation of Deploy is current
    awake,      \* [Deployments -> state of the current invocation's awakeable]
    \* The database
    status,     \* "active", or "ended": terminal or deleted
    limit,      \* BuildsConcurrentMax, or the default without a limits row
    raised      \* history: the limit has been raised

slotVars == <<active, ticket, entry, timers>>
deployVars == <<inv, attempt, awake>>
rowVars == <<status, limit, raised>>
vars == <<slotVars, inbox, deployVars, rowVars>>

NoTimers == [d \in Deployments |-> [r \in 0..MaxRenewals |-> 0]]

Init ==
    /\ active = {} /\ ticket = [d \in Deployments |-> 0] /\ entry = [d \in Deployments |-> 0]
    /\ timers = NoTimers
    /\ inbox = <<>>
    /\ inv = [d \in Deployments |-> "queued"]
    /\ attempt = [d \in Deployments |-> 1]
    /\ awake = [d \in Deployments |-> "pending"]
    /\ status = [d \in Deployments |-> "active"]
    /\ limit \in Limits /\ raised = FALSE

----------------------------------------------------------------------------
\* Helpers

Waiting == {d \in Deployments : ticket[d] > 0}
Tracked(d) == d \in active \/ ticket[d] > 0
Room(slots) == IF Cardinality(slots) < limit THEN limit - Cardinality(slots) ELSE 0

\* Seeded fault: one list for everybody.
PrecedesInArrivalOrder(p, q) == ticket[p] < ticket[q]

\* pickNextWaiter: prod_wait_list before preview_wait_list, each in arrival order.
Precedes(p, q) ==
    \/ p \in Production /\ q \notin Production
    \/ (p \in Production <=> q \in Production) /\ ticket[p] < ticket[q]

\* What taking the head `room` times removes from the lists (one set, or all of W).
Heads(W, room) ==
    {S \in SUBSET W :
        /\ Cardinality(S) = IF room < Cardinality(W) THEN room ELSE Cardinality(W)
        /\ \A p \in S, q \in W \ S : Precedes(p, q)}

\* append(list, entry): the number after the last one (the set has one element).
NextTicket == {t \in {ticket[d] + 1 : d \in Deployments} : \A d \in Deployments : ticket[d] < t}
Without(S) == [d \in Deployments |-> IF d \in S THEN 0 ELSE ticket[d]]

\* scheduleExpiry(d, _, 0) for every d in S, on top of the pending calls
Armed(pending, S) ==
    [d \in Deployments |-> IF d \in S THEN [pending[d] EXCEPT ![0] = @ + 1] ELSE pending[d]]

\* An awakeable completes once. Entries of an earlier attempt store a dead one.
Woken(granted, rejected, stored) ==
    [d \in Deployments |->
        IF awake[d] # "pending" \/ stored[d] # attempt[d] THEN awake[d]
        ELSE IF d \in granted THEN "granted"
        ELSE IF d \in rejected THEN "rejected" ELSE "pending"]

\* deploymentCheck.InvocationGone: the row is active, its invocation is not.
InvocationGone(d) == status[d] = "active" /\ d \in Recorded /\ inv[d] = "gone"

\* reapDeadDeployments: terminal or missing row, or a recorded invocation that is gone.
Dead(S) == {d \in S : status[d] = "ended" \/ InvocationGone(d)}
Ended(S) == [d \in Deployments |-> IF d \in S THEN "ended" ELSE status[d]]

\* auditDeployments: the dead of S, now all failed in the database; or an error,
\* after it may already have failed some of them.
Audits(S) ==
    {[dead |-> Dead(S), ended |-> Dead(S)]}
    \cup {[dead |-> {}, ended |-> F] : F \in SUBSET {d \in S : InvocationGone(d)}}

----------------------------------------------------------------------------
\* AcquireOrWait

\* The next call of the inbox, and what its handling does to the caller that waits
\* for the answer (which may have died or moved on in the meantime).
Serving(op) == inbox # <<>> /\ Head(inbox).op = op
Answered(call, pc) ==
    [inv EXCEPT ![call.id] = IF @ = "requesting" /\ attempt[call.id] = call.attempt THEN pc ELSE @]
Stored(call) == [entry EXCEPT ![call.id] = call.attempt]

\* Seeded fault: a repeated request schedules the lease check again.
AcquireRenewsLease ==
    LET call == Head(inbox) IN
    /\ Serving("acquire") /\ Tracked(call.id)
    /\ awake' = IF call.id \in active THEN Woken({call.id}, {}, Stored(call)) ELSE awake
    /\ timers' = Armed(timers, {call.id})
    /\ inv' = Answered(call, "parked")
    /\ inbox' = Tail(inbox)
    /\ UNCHANGED <<active, ticket, entry, attempt, rowVars>>

\* The deployment holds a slot already: its (new) awakeable is resolved. Or it waits
\* already: the entry stays, with the awakeable it has.
AcquireTracked ==
    LET call == Head(inbox) IN
    /\ Serving("acquire") /\ Tracked(call.id)
    /\ awake' = IF call.id \in active THEN Woken({call.id}, {}, Stored(call)) ELSE awake
    /\ inv' = Answered(call, "parked")
    /\ inbox' = Tail(inbox)
    /\ UNCHANGED <<slotVars, attempt, rowVars>>

\* The limit cannot be read: the caller gets the error.
AcquireFails ==
    LET call == Head(inbox) IN
    /\ Serving("acquire") /\ ~Tracked(call.id)
    /\ inv' = Answered(call, "failing")
    /\ inbox' = Tail(inbox)
    /\ UNCHANGED <<slotVars, attempt, awake, rowVars>>

\* Seeded fault: off by one in the comparison with the limit.
AcquireGrantsOneMore ==
    LET call == Head(inbox) IN
    /\ Serving("acquire") /\ ~Tracked(call.id)
    /\ Cardinality(active) <= limit
    /\ active' = active \cup {call.id}
    /\ entry' = Stored(call)
    /\ awake' = Woken({call.id}, {}, Stored(call))
    /\ timers' = Armed(timers, {call.id})
    /\ inv' = Answered(call, "parked")
    /\ inbox' = Tail(inbox)
    /\ UNCHANGED <<ticket, attempt, rowVars>>

\* There is room: grantSlot.
AcquireGrants ==
    LET call == Head(inbox) IN
    /\ Serving("acquire") /\ ~Tracked(call.id)
    /\ Cardinality(active) < limit
    /\ active' = active \cup {call.id}
    /\ entry' = Stored(call)
    /\ awake' = Woken({call.id}, {}, Stored(call))
    /\ timers' = Armed(timers, {call.id})
    /\ inv' = Answered(call, "parked")
    /\ inbox' = Tail(inbox)
    /\ UNCHANGED <<ticket, attempt, rowVars>>

\* Seeded fault: the caller takes a reclaimed slot before those who wait for one.
ReclaimsForCaller(dead) == {{}}

\* reclaimStaleSlots: with the dead gone from the lists and the slots, waiters move
\* up into the free capacity. Without a stale slot nobody moves.
Reclaims(dead) ==
    IF dead \cap active = {} THEN {{}}
    ELSE Heads(Waiting \ dead, Room(active \ dead))

\* At capacity: audit slots and waiters, drop the dead, promote, and grant the caller
\* what is left or queue it.
AcquireAudits ==
    LET call == Head(inbox) IN
    /\ Serving("acquire") /\ ~Tracked(call.id)
    /\ Cardinality(active) >= limit
    /\ \E audit \in Audits(active \cup Waiting) :
       \E promoted \in Reclaims(audit.dead) :
         LET held == (active \ audit.dead) \cup promoted IN
         /\ status' = Ended(audit.ended)
         /\ timers' = Armed(timers, promoted \cup {call.id})
         /\ entry' = Stored(call)
         /\ \/ /\ Cardinality(held) < limit
               /\ active' = held \cup {call.id}
               /\ ticket' = Without(audit.dead \cup promoted)
               /\ awake' = Woken(promoted \cup {call.id}, audit.dead \cap Waiting, Stored(call))
            \/ /\ Cardinality(held) >= limit
               /\ active' = held
               /\ \E t \in NextTicket :
                     ticket' = [Without(audit.dead \cup promoted) EXCEPT ![call.id] = t]
               /\ awake' = Woken(promoted, audit.dead \cap Waiting, Stored(call))
    /\ inv' = Answered(call, "parked")
    /\ inbox' = Tail(inbox)
    /\ UNCHANGED <<attempt, limit, raised>>

----------------------------------------------------------------------------
\* Release and ExpireSlot

\* d leaves its slot or its wait list. When it gives up a slot, the dead waiters are
\* pruned (pruneDeadWaiters) and the next waiter is promoted.
HandOff(d, pending, rejected, failed) ==
    \E audit \in Audits(IF d \in active THEN Waiting \ {d} ELSE {}) :
    \E promoted \in Heads((Waiting \ {d}) \ audit.dead, IF d \in active THEN 1 ELSE 0) :
        /\ active' = (active \ {d}) \cup promoted
        /\ ticket' = Without({d} \cup audit.dead \cup promoted)
        /\ awake' = Woken(promoted, audit.dead \cup rejected, entry)
        /\ timers' = Armed(pending, promoted)
        /\ status' = Ended(audit.ended \cup failed)

Release ==
    LET call == Head(inbox) IN
    /\ Serving("release")
    /\ HandOff(call.id, timers, {}, {})
    /\ inbox' = Tail(inbox)
    /\ UNCHANGED <<entry, inv, attempt, limit, raised>>

\* The calls for d once ExpireSlot(d, renewals) has been delivered; and with another
\* one scheduled in its place.
Delivered(d, renewals) ==
    [r \in 0..MaxRenewals |-> IF r = renewals THEN timers[d][r] - 1 ELSE timers[d][r]]
Rescheduled(d, renewals, next) ==
    LET pending(r) == IF r \in 0..MaxRenewals THEN Delivered(d, renewals)[r] ELSE 0
    IN  [r \in 0..MaxRenewals \cup {next} |-> IF r = next THEN pending(r) + 1 ELSE pending(r)]

Fired(d, renewals) == [timers EXCEPT ![d] = Delivered(d, renewals)]
Rearmed(d, renewals, next) == [timers EXCEPT ![d] = Rescheduled(d, renewals, next)]

\* The deployment left in the meantime: nothing to do.
ExpireUntracked(d, renewals) ==
    /\ timers[d][renewals] > 0 /\ ~Tracked(d)
    /\ timers' = Fired(d, renewals)
    /\ UNCHANGED <<active, ticket, entry, inbox, deployVars, rowVars>>

\* Seeded fault: a failed check is not scheduled again.
ExpireGivesUp(d, renewals) ==
    /\ timers[d][renewals] > 0 /\ Tracked(d)
    /\ timers' = Fired(d, renewals)
    /\ UNCHANGED <<active, ticket, entry, inbox, deployVars, rowVars>>

\* The row or the invocation cannot be read: look again later.
ExpireCheckFails(d, renewals) ==
    /\ timers[d][renewals] > 0 /\ Tracked(d)
    /\ timers' = Rearmed(d, renewals, renewals)
    /\ UNCHANGED <<active, ticket, entry, inbox, deployVars, rowVars>>

\* Seeded fault: off by one in the comparison with the cap.
RenewableOnceMore(d, renewals) ==
    status[d] = "active" /\ d \in active /\ ~InvocationGone(d) /\ renewals <= MaxRenewals

\* A build that still runs keeps its slot, until its renewals are used up.
Renewable(d, renewals) ==
    status[d] = "active" /\ d \in active /\ ~InvocationGone(d) /\ renewals < MaxRenewals

\* Seeded fault: the renewal is not counted.
ExpireRenewsUncounted(d, renewals) ==
    /\ timers[d][renewals] > 0 /\ Renewable(d, renewals)
    /\ timers' = Rearmed(d, renewals, renewals)
    /\ UNCHANGED <<active, ticket, entry, inbox, deployVars, rowVars>>

ExpireRenews(d, renewals) ==
    /\ timers[d][renewals] > 0 /\ Renewable(d, renewals)
    /\ timers' = Rearmed(d, renewals, renewals + 1)
    /\ UNCHANGED <<active, ticket, entry, inbox, deployVars, rowVars>>

\* Seeded fault: a live build past its renewals loses the slot but not its status.
MustForceFailGone(d) == InvocationGone(d)

\* The row has to be failed before the slot is taken away.
MustForceFail(d) == status[d] = "active" /\ (d \in active \/ InvocationGone(d))

\* forceFailDeployment fails, with or without having set the status: look again later.
ExpireForceFailFails(d, renewals) ==
    /\ timers[d][renewals] > 0 /\ Tracked(d)
    /\ ~Renewable(d, renewals) /\ MustForceFail(d)
    /\ \E failed \in SUBSET {d} : status' = Ended(failed)
    /\ timers' = Rearmed(d, renewals, renewals)
    /\ UNCHANGED <<active, ticket, entry, inbox, deployVars, limit, raised>>

\* Seeded fault: the reclaimed slot is not handed on.
ExpireDrops(d, renewals) ==
    /\ timers[d][renewals] > 0 /\ Tracked(d)
    /\ ~Renewable(d, renewals)
    /\ active' = active \ {d}
    /\ ticket' = Without({d})
    /\ awake' = Woken({}, Waiting \cap {d}, entry)
    /\ timers' = Fired(d, renewals)
    /\ status' = Ended(IF MustForceFail(d) THEN {d} ELSE {})
    /\ UNCHANGED <<entry, inbox, inv, attempt, limit, raised>>

\* Reject what still waits, drop the deployment and hand its slot on.
ExpireReclaims(d, renewals) ==
    /\ timers[d][renewals] > 0 /\ Tracked(d)
    /\ ~Renewable(d, renewals)
    /\ HandOff(d, Fired(d, renewals), Waiting \cap {d}, IF MustForceFail(d) THEN {d} ELSE {})
    /\ UNCHANGED <<entry, inbox, inv, attempt, limit, raised>>

----------------------------------------------------------------------------
\* Deploy

Sent(op, d) == Append(inbox, [op |-> op, id |-> d, attempt |-> attempt[d]])

\* The gate: create the awakeable and call AcquireOrWait.
Start(d) ==
    /\ inv[d] = "queued"
    /\ inv' = [inv EXCEPT ![d] = "requesting"]
    /\ inbox' = Sent("acquire", d)
    /\ UNCHANGED <<slotVars, attempt, awake, rowVars>>

\* skipIfSuperseded: a newer commit is queued, the row is closed and Deploy returns.
Supersede(d) ==
    /\ inv[d] = "queued"
    /\ inv' = [inv EXCEPT ![d] = "gone"]
    /\ status' = Ended({d})
    /\ UNCHANGED <<slotVars, inbox, attempt, awake, limit, raised>>

\* The awakeable wins the race with the timeout.
BeginBuild(d) ==
    /\ inv[d] = "parked" /\ awake[d] = "granted"
    /\ inv' = [inv EXCEPT ![d] = "building"]
    /\ UNCHANGED <<slotVars, inbox, attempt, awake, rowVars>>

\* DeploymentStep: Starting, Building, Deploying, Network and Finalizing each begin by
\* writing an active status over whatever the row says, also over one that was failed or
\* cancelled meanwhile. (Deleted rows count as ended too; that they may come back here
\* only adds behaviours.)
DeploymentStep(d) ==
    /\ inv[d] = "building"
    /\ status[d] = "ended"
    /\ status' = [status EXCEPT ![d] = "active"]
    /\ UNCHANGED <<slotVars, inbox, deployVars, limit, raised>>

\* The build and the rollout succeed: the row becomes ready, then the slot is released.
Finish(d) ==
    /\ inv[d] = "building"
    /\ inv' = [inv EXCEPT ![d] = "ready"]
    /\ status' = Ended({d})
    /\ UNCHANGED <<slotVars, inbox, attempt, awake, limit, raised>>

SendRelease(d) ==
    /\ inv[d] \in {"ready", "failing"}
    /\ inv' = [inv EXCEPT ![d] = IF @ = "ready" THEN "gone" ELSE "marking"]
    /\ inbox' = Sent("release", d)
    /\ UNCHANGED <<slotVars, attempt, awake, rowVars>>

\* An error, the wait timeout, a rejected awakeable or a cancellation: Deploy returns an
\* error and its compensations run in reverse order, the release first. Before the
\* gate there is no release to compensate.
Fail(d) ==
    /\ inv[d] \in {"queued", "requesting", "parked", "building", "ready"}
    /\ inv' = [inv EXCEPT ![d] = IF @ = "queued" THEN "marking" ELSE "failing"]
    /\ UNCHANGED <<slotVars, inbox, attempt, awake, rowVars>>

\* "mark deployment as failed", which may itself fail
MarkFailed(d) ==
    /\ inv[d] = "marking"
    /\ inv' = [inv EXCEPT ![d] = "gone"]
    /\ \E failed \in SUBSET {d} : status' = Ended(failed)
    /\ UNCHANGED <<slotVars, inbox, attempt, awake, limit, raised>>

\* The invocation is killed or purged: no compensation runs.
Kill(d) ==
    /\ inv[d] # "gone"
    /\ inv' = [inv EXCEPT ![d] = "gone"]
    /\ UNCHANGED <<slotVars, inbox, attempt, awake, rowVars>>

\* Deploy is sent again for the same deployment (AuthorizeDeployment after a send whose
\* answer was lost). DeployService is keyed by deployment: it runs after the first.
SendAgain(d) ==
    /\ inv[d] = "gone" /\ d \in Resent /\ attempt[d] = 1
    /\ inv' = [inv EXCEPT ![d] = "queued"]
    /\ attempt' = [attempt EXCEPT ![d] = @ + 1]
    /\ awake' = [awake EXCEPT ![d] = "pending"]
    /\ UNCHANGED <<slotVars, inbox, rowVars>>

\* CancelDeployment sets the status before it cancels the invocation; deleting a
\* project or an environment deletes the row.
RowEnds(d) ==
    /\ status[d] = "active"
    /\ status' = Ended({d})
    /\ UNCHANGED <<slotVars, inbox, deployVars, limit, raised>>

\* The workspace's limits row changes.
SetLimit ==
    /\ limit' \in Limits \ {limit}
    /\ raised' = (raised \/ limit' > limit)
    /\ UNCHANGED <<slotVars, inbox, deployVars, status>>

----------------------------------------------------------------------------
Handle == AcquireTracked \/ AcquireFails \/ AcquireGrants \/ AcquireAudits \/ Release

ExpireSlot(d, renewals) ==
    \/ ExpireUntracked(d, renewals) \/ ExpireCheckFails(d, renewals)
    \/ ExpireRenews(d, renewals) \/ ExpireForceFailFails(d, renewals)
    \/ ExpireReclaims(d, renewals)

Deploy(d) ==
    \/ Start(d) \/ Supersede(d) \/ BeginBuild(d) \/ DeploymentStep(d) \/ Finish(d)
    \/ SendRelease(d) \/ Fail(d) \/ MarkFailed(d) \/ Kill(d) \/ SendAgain(d)

Next ==
    \/ Handle
    \/ \E d \in Deployments, renewals \in 0..MaxRenewals : ExpireSlot(d, renewals)
    \/ \E d \in Deployments : Deploy(d) \/ RowEnds(d)
    \/ SetLimit

Spec == Init /\ [][Next]_vars

\* Restate delivers delayed calls, and a database that is asked again and again
\* eventually answers: a lease that keeps being checked is settled. Nothing is assumed
\* of Deploy, which may hang at any step, or of the other calls in the inbox.
ExpireSettles(d, renewals) ==
    ExpireUntracked(d, renewals) \/ ExpireRenews(d, renewals) \/ ExpireReclaims(d, renewals)

Fairness ==
    \A d \in Deployments, renewals \in 0..MaxRenewals : SF_vars(ExpireSettles(d, renewals))

FairSpec == Spec /\ Fairness

----------------------------------------------------------------------------
\* Properties

InvStates == {"queued", "requesting", "parked", "building", "ready", "failing", "marking", "gone"}
Messages == [op : {"acquire", "release"}, id : Deployments, attempt : Nat]

\* Every variable keeps its type: no lease check counts more renewals than
\* maxSlotLeaseRenewals, and none is delivered that was not scheduled.
TypeOK ==
    /\ active \subseteq Deployments
    /\ ticket \in [Deployments -> Nat] /\ entry \in [Deployments -> Nat]
    /\ timers \in [Deployments -> [0..MaxRenewals -> Nat]]
    /\ inbox \in Seq(Messages)
    /\ inv \in [Deployments -> InvStates] /\ attempt \in [Deployments -> Nat]
    /\ awake \in [Deployments -> {"pending", "granted", "rejected"}]
    /\ status \in [Deployments -> {"active", "ended"}]
    /\ limit \in Limits /\ raised \in BOOLEAN

\* "A lost lease check would bring back the permanent leak": whatever holds a slot or
\* waits for one has a pending ExpireSlot call, through every failed check, renewal,
\* promotion and repeated request, so no dead invocation is tracked for good.
TrackedHasTimer ==
    \A d \in Deployments : Tracked(d) => \E r \in 0..MaxRenewals : timers[d][r] > 0

\* A build keeps the slot it was granted: no audit, no lease and no release that an
\* earlier attempt or a timeout left in the inbox takes it, unless the row says that the
\* deployment has ended when the slot is gone; and unless the row had ended while it
\* waited, a deployment holds its slot when it begins. (Nothing stops such a build, and
\* its next DeploymentStep makes the row active again: it goes on without a slot.)
BuildKeepsSlot ==
    [][\A d \in Deployments :
          /\ inv[d] = "parked" /\ inv'[d] = "building" => d \in active \/ status[d] = "ended"
          /\ inv[d] = "building" /\ d \in active \ active' => status'[d] = "ended"]_vars

\* Work conservation: as long as the limit has not been raised, no slot is idle while
\* somebody waits, however releases, reclaims and failed audits interleave.
NoIdleSlot == ~raised /\ Waiting # {} => Cardinality(active) >= limit

\* Slots beyond the limit are never added: a step that lets more deployments build
\* leaves at most `limit` of them, also when a reclaim promotes several waiters and
\* then grants the caller. (A lowered limit only stops new grants.)
GrantsRespectLimit ==
    [][Cardinality(active') > Cardinality(active) => Cardinality(active') <= limit]_vars

\* A freed slot goes to the longest-waiting production deployment, then to the
\* longest-waiting preview: nobody who is promoted overtakes somebody who keeps waiting.
PromotionOrder ==
    [][\A p \in active' \cap Waiting, q \in Waiting :
          ticket'[q] > 0 =>
             /\ q \in Production => p \in Production
             /\ (p \in Production <=> q \in Production) => ticket[p] < ticket[q]]_vars

\* The gate keeps the promises of BuildGate at every step of every handler: whatever is
\* released, reclaimed or found dead, the slots go to the head of the lists, and no
\* request that happens to audit the slots takes one from somebody who waits.
Gate == INSTANCE BuildGate WITH holders <- active, place <- ticket
ImplementsGate == Gate!Spec

\* The lease checks that d can still have, each weighted with its remaining renewals.
ChecksLeft(d) ==
    SumFunctionOnSet([r \in 0..MaxRenewals |-> timers[d][r] * (MaxRenewals + 1 - r)], 0..MaxRenewals)

\* A slot cannot be held by asking: as long as a deployment holds its slot, its pending
\* lease checks are only used up, whatever repeated requests, promotions of others and
\* audits do, and as long as it waits they do not even change. So a slot is held for a
\* bounded number of checks that were answered, which is what brings it back in the end.
LeaseRunsOut ==
    [][\A d \in Deployments :
          /\ d \in active \cap active' => timers'[d] = timers[d] \/ ChecksLeft(d)' < ChecksLeft(d)
          /\ d \in Waiting \cap Waiting' => timers'[d] = timers[d]]_vars

\* No hung build, killed invocation or failing database keeps a slot for ever: every slot
\* that is granted is returned, although Deploy itself is not assumed to make progress.
EverySlotIsReturned == \A d \in Deployments : d \in active ~> d \notin active

\* Every wait ends, with a slot or without one, although the waiter may hang and those
\* before it may be dead or never finish.
EveryWaitEnds == \A d \in Deployments : ticket[d] > 0 ~> ticket[d] = 0
=============================================================================
