---------------------------- MODULE BuildSlotProof ----------------------------
(***************************************************************************)
(* What TLAPS proves of BuildSlot, for any set of deployments, any limits  *)
(* and any number of lease renewals: type correctness, that everything     *)
(* tracked has a pending lease check, that grants respect the limit, that  *)
(* no slot idles while somebody waits, that promotions keep the order of   *)
(* the lists, that a build holds its slot, that the service implements the *)
(* abstract gate of BuildGate, and that leases only run out.               *)
(***************************************************************************)
EXTENDS BuildSlot, SumTheorems, TLAPS

Timers == [Deployments -> [0..MaxRenewals -> Nat]]

\* Some ExpireSlot call for d is pending in t.
Pending(t, d) == \E r \in 0..MaxRenewals : t[d][r] > 0

\* The inductive invariant. TrackedHasTimer needs nothing but the types: every
\* handler that starts to track a deployment, or consumes one of its calls without
\* dropping it, schedules another call in the same step.
IndInv == TypeOK /\ TrackedHasTimer

----------------------------------------------------------------------------
\* The helpers

\* Scheduling for S keeps the type of the pending calls.
LEMMA ArmedType ==
    ASSUME NEW t \in Timers, NEW S
    PROVE  Armed(t, S) \in Timers
BY RenewalAssumption, SMT DEF Armed, Timers

\* Scheduling loses no pending call and gives every member of S one.
LEMMA ArmedPending ==
    ASSUME NEW t \in Timers, NEW S, NEW d \in Deployments,
           Pending(t, d) \/ d \in S
    PROVE  Pending(Armed(t, S), d)
<1>1. CASE d \in S
  <2>1. Armed(t, S)[d] = [t[d] EXCEPT ![0] = @ + 1]
    BY <1>1 DEF Armed
  <2>2. t[d] \in [0..MaxRenewals -> Nat] /\ 0 \in 0..MaxRenewals
    BY RenewalAssumption DEF Timers
  <2>3. [t[d] EXCEPT ![0] = @ + 1][0] = t[d][0] + 1 /\ t[d][0] \in Nat
    BY <2>2
  <2>4. Armed(t, S)[d][0] > 0
    BY <2>1, <2>3
  <2> QED
    BY <2>2, <2>4 DEF Pending
<1>2. CASE d \notin S
  <2>1. Armed(t, S)[d] = t[d]
    BY <1>2 DEF Armed
  <2> QED
    BY <1>2, <2>1 DEF Pending
<1> QED
  BY <1>1, <1>2

\* A delayed call that is delivered leaves a number of calls still pending.
LEMMA DeliveredType ==
    ASSUME timers \in Timers, NEW d \in Deployments, NEW r \in 0..MaxRenewals,
           timers[d][r] > 0
    PROVE  Delivered(d, r) \in [0..MaxRenewals -> Nat]
<1>1. \A k \in 0..MaxRenewals : timers[d][k] \in Nat
  BY DEF Timers
<1>2. ASSUME NEW k \in 0..MaxRenewals
      PROVE  (IF k = r THEN timers[d][k] - 1 ELSE timers[d][k]) \in Nat
  <2>1. timers[d][k] \in Nat
    BY <1>1
  <2>2. CASE k = r
    <3>1. timers[d][k] > 0
      BY <2>2
    <3>2. timers[d][k] - 1 \in Nat
      BY <2>1, <3>1
    <3> QED
      BY <2>2, <3>2
  <2>3. CASE k # r
    BY <2>1, <2>3
  <2> QED
    BY <2>2, <2>3
<1> QED
  BY <1>2 DEF Delivered

\* Delivering a call keeps the type and touches no other deployment.
LEMMA FiredType ==
    ASSUME timers \in Timers, NEW d \in Deployments, NEW r \in 0..MaxRenewals,
           timers[d][r] > 0
    PROVE  /\ Fired(d, r) \in Timers
           /\ \A e \in Deployments \ {d} : Fired(d, r)[e] = timers[e]
<1>2. Delivered(d, r) \in [0..MaxRenewals -> Nat]
  BY DeliveredType
<1> QED
  BY <1>2 DEF Fired, Timers

\* Delivering a call and scheduling the next one keeps the deployment covered.
LEMMA RearmedType ==
    ASSUME timers \in Timers, NEW d \in Deployments,
           NEW r \in 0..MaxRenewals, NEW next \in 0..MaxRenewals,
           timers[d][r] > 0
    PROVE  /\ Rearmed(d, r, next) \in Timers
           /\ Pending(Rearmed(d, r, next), d)
           /\ \A e \in Deployments \ {d} : Rearmed(d, r, next)[e] = timers[e]
<1>2. Delivered(d, r) \in [0..MaxRenewals -> Nat]
  BY DeliveredType
<1>3. /\ Rescheduled(d, r, next) \in [0..MaxRenewals -> Nat]
      /\ Rescheduled(d, r, next)[next] > 0
  BY <1>2 DEF Rescheduled
<1>4. /\ Rearmed(d, r, next) \in Timers
      /\ Rearmed(d, r, next)[d] = Rescheduled(d, r, next)
      /\ \A e \in Deployments \ {d} : Rearmed(d, r, next)[e] = timers[e]
  BY <1>3 DEF Timers, Rearmed
<1> QED
  BY <1>3, <1>4 DEF Pending

\* What may be dropped, failed or promoted is part of what was looked at.
LEMMA AuditSubset ==
    ASSUME NEW S, NEW audit \in Audits(S)
    PROVE  audit.dead \subseteq S /\ audit.ended \subseteq S
BY DEF Audits, Dead

\* Only waiters are promoted.
LEMMA HeadsSubset ==
    ASSUME NEW W, NEW room, NEW S \in Heads(W, room)
    PROVE  S \subseteq W
BY DEF Heads

\* Taking somebody off the lists leaves well-formed lists.
LEMMA WithoutType ==
    ASSUME ticket \in [Deployments -> Nat], NEW S
    PROVE  Without(S) \in [Deployments -> Nat]
BY DEF Without

\* Resolving awakeables leaves each of them pending, granted or rejected.
LEMMA WokenType ==
    ASSUME awake \in [Deployments -> {"pending", "granted", "rejected"}],
           NEW granted, NEW rejected, NEW stored
    PROVE  Woken(granted, rejected, stored) \in [Deployments -> {"pending", "granted", "rejected"}]
BY DEF Woken

\* Force-failing rows leaves each of them active or ended.
LEMMA EndedType ==
    ASSUME status \in [Deployments -> {"active", "ended"}], NEW S
    PROVE  Ended(S) \in [Deployments -> {"active", "ended"}]
BY DEF Ended

\* The call being served, and the inbox after it.
LEMMA ServedCall ==
    ASSUME TypeOK, NEW op, Serving(op)
    PROVE  /\ Head(inbox) \in Messages
           /\ Tail(inbox) \in Seq(Messages)
BY DEF TypeOK, Serving

\* The answer to a call moves its invocation to a known state.
LEMMA AnsweredType ==
    ASSUME TypeOK, NEW call \in Messages, NEW pc \in InvStates
    PROVE  Answered(call, pc) \in [Deployments -> InvStates]
BY DEF TypeOK, Answered, Messages

\* The stored entry is a number of an attempt.
LEMMA StoredType ==
    ASSUME TypeOK, NEW call \in Messages
    PROVE  Stored(call) \in [Deployments -> Nat]
BY DEF TypeOK, Stored, Messages

\* A call that is sent is a message in the inbox.
LEMMA SentType ==
    ASSUME TypeOK, NEW op \in {"acquire", "release"}, NEW d \in Deployments
    PROVE  Sent(op, d) \in Seq(Messages)
BY DEF TypeOK, Sent, Messages

----------------------------------------------------------------------------
\* Frame lemmas

\* A step that leaves the tracking and the pending calls alone keeps everyone covered.
LEMMA SlotsUnchanged ==
    ASSUME IndInv, UNCHANGED <<active, ticket, timers>>
    PROVE  TrackedHasTimer'
BY DEF IndInv, TrackedHasTimer, Tracked

\* A step of ExpireSlot(d, r) that keeps d tracked and schedules the next check.
LEMMA RearmStep ==
    ASSUME IndInv, NEW d \in Deployments,
           NEW r \in 0..MaxRenewals, NEW next \in 0..MaxRenewals,
           timers[d][r] > 0, timers' = Rearmed(d, r, next),
           UNCHANGED <<active, ticket>>
    PROVE  timers' \in Timers /\ TrackedHasTimer'
<1>1. timers \in Timers
  BY DEF IndInv, TypeOK, Timers
<1>2. /\ timers' \in Timers
      /\ Pending(timers', d)
      /\ \A e \in Deployments \ {d} : timers'[e] = timers[e]
  BY <1>1, RearmedType
<1>3. ASSUME NEW e \in Deployments, Tracked(e)'
      PROVE  \E k \in 0..MaxRenewals : timers'[e][k] > 0
  <2>1. CASE e = d
    BY <1>2, <2>1 DEF Pending
  <2>2. CASE e # d
    <3>1. Tracked(e)
      BY <1>3 DEF Tracked
    <3> QED
      BY <1>2, <2>2, <3>1 DEF IndInv, TrackedHasTimer
  <2> QED
    BY <2>1, <2>2
<1> QED
  BY <1>2, <1>3 DEF TrackedHasTimer

\* A step that drops d, promotes waiters and schedules their checks.
LEMMA HandOffStep ==
    ASSUME IndInv, NEW d \in Deployments, NEW t \in Timers,
           \A e \in Deployments \ {d} : t[e] = timers[e],
           NEW rejected, NEW failed, HandOff(d, t, rejected, failed)
    PROVE  /\ active' \subseteq Deployments
           /\ ticket' \in [Deployments -> Nat]
           /\ awake' \in [Deployments -> {"pending", "granted", "rejected"}]
           /\ timers' \in Timers
           /\ status' \in [Deployments -> {"active", "ended"}]
           /\ TrackedHasTimer'
<1>1. PICK audit \in Audits(IF d \in active THEN Waiting \ {d} ELSE {}) :
      \E promoted \in Heads((Waiting \ {d}) \ audit.dead, IF d \in active THEN 1 ELSE 0) :
        /\ active' = (active \ {d}) \cup promoted
        /\ ticket' = Without({d} \cup audit.dead \cup promoted)
        /\ awake' = Woken(promoted, audit.dead \cup rejected, entry)
        /\ timers' = Armed(t, promoted)
        /\ status' = Ended(audit.ended \cup failed)
  BY DEF HandOff
<1>2. PICK promoted \in Heads((Waiting \ {d}) \ audit.dead, IF d \in active THEN 1 ELSE 0) :
        /\ active' = (active \ {d}) \cup promoted
        /\ ticket' = Without({d} \cup audit.dead \cup promoted)
        /\ awake' = Woken(promoted, audit.dead \cup rejected, entry)
        /\ timers' = Armed(t, promoted)
        /\ status' = Ended(audit.ended \cup failed)
  BY <1>1
<1>3. promoted \subseteq (Waiting \ {d}) \ audit.dead /\ Waiting \subseteq Deployments
  BY <1>2, HeadsSubset DEF Waiting
<1>4. active' \subseteq Deployments
  BY <1>2, <1>3 DEF IndInv, TypeOK
<1>5. ticket' \in [Deployments -> Nat]
  BY <1>2, WithoutType DEF IndInv, TypeOK
<1>6. awake' \in [Deployments -> {"pending", "granted", "rejected"}]
  BY <1>2, WokenType DEF IndInv, TypeOK
<1>7. timers' \in Timers
  BY <1>2, ArmedType
<1>8. status' \in [Deployments -> {"active", "ended"}]
  BY <1>2, EndedType DEF IndInv, TypeOK
<1>9. ASSUME NEW e \in Deployments, Tracked(e)'
      PROVE  \E k \in 0..MaxRenewals : timers'[e][k] > 0
  <2>1. CASE e \in promoted
    BY <1>2, <2>1, ArmedPending DEF Pending
  <2>2. CASE e \notin promoted
    <3>1. e # d /\ Tracked(e)
      BY <1>2, <1>9, <2>2 DEF Tracked, Without
    <3>2. Pending(t, e)
      BY <3>1 DEF IndInv, TrackedHasTimer, Pending
    <3> QED
      BY <1>2, <3>2, ArmedPending DEF Pending
  <2> QED
    BY <2>1, <2>2
<1> QED
  BY <1>4, <1>5, <1>6, <1>7, <1>8, <1>9 DEF TrackedHasTimer

----------------------------------------------------------------------------
\* AcquireOrWait

\* A deployment that is tracked already: only the caller learns something.
LEMMA AcquireTrackedInv ==
    ASSUME IndInv, AcquireTracked
    PROVE  IndInv'
<1> DEFINE call == Head(inbox)
<1>1. call \in Messages /\ inbox' \in Seq(Messages)
  BY ServedCall DEF IndInv, AcquireTracked
<1>2. inv' \in [Deployments -> InvStates]
  BY <1>1, AnsweredType DEF IndInv, AcquireTracked, InvStates
<1>3. awake' \in [Deployments -> {"pending", "granted", "rejected"}]
  <2>1. awake' = Woken({call.id}, {}, Stored(call)) \/ awake' = awake
    BY DEF AcquireTracked
  <2> QED
    BY <2>1, WokenType DEF IndInv, TypeOK
<1>4. UNCHANGED <<active, ticket, entry, timers, attempt, status, limit, raised>>
  BY DEF AcquireTracked, slotVars, rowVars
<1>5. TrackedHasTimer'
  BY <1>4, SlotsUnchanged
<1> QED
  BY <1>1, <1>2, <1>3, <1>4, <1>5 DEF IndInv, TypeOK

\* An AcquireOrWait that fails changes no slot and no list.
LEMMA AcquireFailsInv ==
    ASSUME IndInv, AcquireFails
    PROVE  IndInv'
<1>1. Head(inbox) \in Messages /\ inbox' \in Seq(Messages)
  BY ServedCall DEF IndInv, AcquireFails
<1>2. inv' \in [Deployments -> InvStates]
  BY <1>1, AnsweredType DEF IndInv, AcquireFails, InvStates
<1>3. UNCHANGED <<active, ticket, entry, timers, attempt, awake, status, limit, raised>>
  BY DEF AcquireFails, slotVars, rowVars
<1>4. TrackedHasTimer'
  BY <1>3, SlotsUnchanged
<1> QED
  BY <1>1, <1>2, <1>3, <1>4 DEF IndInv, TypeOK

\* A step that adds only deployments in S to the tracked ones and schedules a check for
\* each of them.
LEMMA ArmStep ==
    ASSUME IndInv, NEW S, timers' = Armed(timers, S),
           \A e \in Deployments : Tracked(e)' => Tracked(e) \/ e \in S
    PROVE  timers' \in Timers /\ TrackedHasTimer'
<1>1. timers \in Timers
  BY DEF IndInv, TypeOK, Timers
<1>2. timers' \in Timers
  BY <1>1, ArmedType
<1>3. ASSUME NEW e \in Deployments, Tracked(e)'
      PROVE  \E k \in 0..MaxRenewals : timers'[e][k] > 0
  <2>1. Pending(timers, e) \/ e \in S
    BY <1>3 DEF IndInv, TrackedHasTimer, Pending
  <2> QED
    BY <1>1, <2>1, ArmedPending DEF Pending
<1> QED
  BY <1>2, <1>3 DEF TrackedHasTimer

\* A grant tracks the deployment and schedules its lease check.
LEMMA AcquireGrantsInv ==
    ASSUME IndInv, AcquireGrants
    PROVE  IndInv'
<1> DEFINE call == Head(inbox)
<1>1. call \in Messages /\ inbox' \in Seq(Messages)
  BY ServedCall DEF IndInv, AcquireGrants
<1>2. inv' \in [Deployments -> InvStates]
  BY <1>1, AnsweredType DEF IndInv, AcquireGrants, InvStates
<1>3. awake' \in [Deployments -> {"pending", "granted", "rejected"}]
  BY WokenType DEF IndInv, TypeOK, AcquireGrants
<1>4. entry' \in [Deployments -> Nat]
  BY <1>1, StoredType DEF IndInv, AcquireGrants
<1>5. UNCHANGED <<ticket, attempt, status, limit, raised>>
  BY DEF AcquireGrants, rowVars
<1>6. active' = active \cup {call.id} /\ timers' = Armed(timers, {call.id})
  BY DEF AcquireGrants
<1>7. active' \subseteq Deployments
  BY <1>1, <1>6 DEF IndInv, TypeOK, Messages
<1>8. timers' \in Timers /\ TrackedHasTimer'
  <2>1. \A e \in Deployments : Tracked(e)' => Tracked(e) \/ e \in {call.id}
    BY <1>5, <1>6 DEF Tracked
  <2> QED
    BY <1>6, <2>1, ArmStep
<1> QED
  BY <1>1, <1>2, <1>3, <1>4, <1>5, <1>7, <1>8 DEF IndInv, TypeOK, Timers

\* A reclaim promotes waiters only.
LEMMA ReclaimsSubset ==
    ASSUME NEW dead, NEW promoted \in Reclaims(dead)
    PROVE  promoted \subseteq Waiting
<1>1. CASE dead \cap active = {}
  BY <1>1 DEF Reclaims
<1>2. CASE dead \cap active # {}
  BY <1>2, HeadsSubset DEF Reclaims
<1> QED
  BY <1>1, <1>2

\* The two outcomes of the audit, granted or queued, in one step: the caller is the
\* only deployment that becomes tracked.
LEMMA AcquireAuditsInv ==
    ASSUME IndInv, AcquireAudits
    PROVE  IndInv'
<1> DEFINE call == Head(inbox)
<1>1. call \in Messages /\ inbox' \in Seq(Messages)
  BY ServedCall DEF IndInv, AcquireAudits
<1>2. inv' \in [Deployments -> InvStates]
  BY <1>1, AnsweredType DEF IndInv, AcquireAudits, InvStates
<1>3. UNCHANGED <<attempt, limit, raised>>
  BY DEF AcquireAudits
<1>4. PICK audit \in Audits(active \cup Waiting) : \E promoted \in Reclaims(audit.dead) :
         LET held == (active \ audit.dead) \cup promoted IN
         /\ status' = Ended(audit.ended)
         /\ timers' = Armed(timers, promoted \cup {call.id})
         /\ entry' = Stored(call)
         /\ \/ /\ Cardinality(held) < limit
               /\ active' = held \cup {call.id}
               /\ ticket' = Without(audit.dead \cup promoted)
               /\ awake' = Woken(promoted \cup {call.id}, audit.dead \cap Waiting, Stored(call))
            \/ /\ Cardinality(held) >= limit
               /\ active' = held
               /\ \E t \in NextTicket :
                     ticket' = [Without(audit.dead \cup promoted) EXCEPT ![call.id] = t]
               /\ awake' = Woken(promoted, audit.dead \cap Waiting, Stored(call))
  BY DEF AcquireAudits
<1>5. PICK promoted \in Reclaims(audit.dead) :
         /\ status' = Ended(audit.ended)
         /\ timers' = Armed(timers, promoted \cup {call.id})
         /\ entry' = Stored(call)
         /\ \/ /\ active' = ((active \ audit.dead) \cup promoted) \cup {call.id}
               /\ ticket' = Without(audit.dead \cup promoted)
               /\ awake' = Woken(promoted \cup {call.id}, audit.dead \cap Waiting, Stored(call))
            \/ /\ active' = (active \ audit.dead) \cup promoted
               /\ \E t \in NextTicket :
                     ticket' = [Without(audit.dead \cup promoted) EXCEPT ![call.id] = t]
               /\ awake' = Woken(promoted, audit.dead \cap Waiting, Stored(call))
  BY <1>4
<1>6. promoted \subseteq Deployments /\ call.id \in Deployments
  BY <1>1, <1>5, ReclaimsSubset DEF Waiting, Messages
<1>7. awake' \in [Deployments -> {"pending", "granted", "rejected"}]
  BY <1>5, WokenType DEF IndInv, TypeOK
<1>8. entry' \in [Deployments -> Nat] /\ status' \in [Deployments -> {"active", "ended"}]
  BY <1>1, <1>5, StoredType, EndedType DEF IndInv, TypeOK
<1>9. active' \subseteq active \cup promoted \cup {call.id}
  BY <1>5
<1>10. \A t \in NextTicket : t \in Nat
  BY DEF NextTicket, IndInv, TypeOK
<1>11. Without(audit.dead \cup promoted) \in [Deployments -> Nat]
  BY WithoutType DEF IndInv, TypeOK
<1>12. /\ ticket' \in [Deployments -> Nat]
       /\ \A e \in Deployments \ {call.id} : ticket'[e] = Without(audit.dead \cup promoted)[e]
  BY <1>5, <1>6, <1>10, <1>11
<1>13. ASSUME NEW e \in Deployments, Tracked(e)'
       PROVE  Tracked(e) \/ e \in promoted \cup {call.id}
  BY <1>9, <1>12, <1>13 DEF Tracked, Without
<1>14. timers' \in Timers /\ TrackedHasTimer'
  BY <1>5, <1>13, ArmStep
<1>15. active' \subseteq Deployments
  BY <1>6, <1>9 DEF IndInv, TypeOK
<1> QED
  BY <1>1, <1>2, <1>3, <1>7, <1>8, <1>12, <1>14, <1>15 DEF IndInv, TypeOK, Timers

----------------------------------------------------------------------------
\* Release and ExpireSlot

\* A release drops one deployment and schedules a check for whom it promotes.
LEMMA ReleaseInv ==
    ASSUME IndInv, Release
    PROVE  IndInv'
<1> DEFINE call == Head(inbox)
<1>1. call \in Messages /\ inbox' \in Seq(Messages)
  BY ServedCall DEF IndInv, Release
<1>2. call.id \in Deployments
  BY <1>1 DEF Messages
<1>3. HandOff(call.id, timers, {}, {}) /\ UNCHANGED <<entry, inv, attempt, limit, raised>>
  BY DEF Release
<1>4. timers \in Timers
  BY DEF IndInv, TypeOK, Timers
<1> HIDE DEF call
<1>5. /\ active' \subseteq Deployments
      /\ ticket' \in [Deployments -> Nat]
      /\ awake' \in [Deployments -> {"pending", "granted", "rejected"}]
      /\ timers' \in Timers
      /\ status' \in [Deployments -> {"active", "ended"}]
      /\ TrackedHasTimer'
  BY <1>2, <1>3, <1>4, HandOffStep
<1> QED
  BY <1>1, <1>3, <1>5 DEF IndInv, TypeOK, Timers

\* A lease check for somebody who is no longer tracked is simply used up.
LEMMA ExpireUntrackedInv ==
    ASSUME IndInv, NEW d \in Deployments, NEW r \in 0..MaxRenewals, ExpireUntracked(d, r)
    PROVE  IndInv'
<1>1. timers \in Timers /\ timers[d][r] > 0 /\ ~Tracked(d) /\ timers' = Fired(d, r)
  BY DEF IndInv, TypeOK, Timers, ExpireUntracked
<1>2. UNCHANGED <<active, ticket, entry, inbox, inv, attempt, awake, status, limit, raised>>
  BY DEF ExpireUntracked, deployVars, rowVars
<1>3. /\ timers' \in Timers
      /\ \A e \in Deployments \ {d} : timers'[e] = timers[e]
  BY <1>1, FiredType
<1>4. ASSUME NEW e \in Deployments, Tracked(e)'
      PROVE  \E k \in 0..MaxRenewals : timers'[e][k] > 0
  <2>1. e # d /\ Tracked(e)
    BY <1>1, <1>2, <1>4 DEF Tracked
  <2> QED
    BY <1>3, <2>1 DEF IndInv, TrackedHasTimer
<1>5. TrackedHasTimer'
  BY <1>4 DEF TrackedHasTimer
<1> QED
  BY <1>2, <1>3, <1>5 DEF IndInv, TypeOK, Timers

\* The three branches that keep the deployment tracked.
LEMMA ExpireKeepsInv ==
    ASSUME IndInv, NEW d \in Deployments, NEW r \in 0..MaxRenewals,
           ExpireCheckFails(d, r) \/ ExpireRenews(d, r) \/ ExpireForceFailFails(d, r)
    PROVE  IndInv'
<1>1. PICK next \in 0..MaxRenewals : timers[d][r] > 0 /\ timers' = Rearmed(d, r, next)
  <2>1. CASE ExpireRenews(d, r)
    <3>1. r + 1 \in 0..MaxRenewals
      BY <2>1, RenewalAssumption DEF ExpireRenews, Renewable
    <3>2. timers[d][r] > 0 /\ timers' = Rearmed(d, r, r + 1)
      BY <2>1 DEF ExpireRenews
    <3> QED
      BY <3>1, <3>2
  <2>2. CASE ExpireCheckFails(d, r)
    BY <2>2 DEF ExpireCheckFails
  <2>3. CASE ExpireForceFailFails(d, r)
    BY <2>3 DEF ExpireForceFailFails
  <2> QED
    BY <2>1, <2>2, <2>3
<1>2. UNCHANGED <<active, ticket, entry, inbox, inv, attempt, awake, limit, raised>>
  BY DEF ExpireCheckFails, ExpireRenews, ExpireForceFailFails, deployVars, rowVars
<1>3. timers' \in Timers /\ TrackedHasTimer'
  BY <1>1, <1>2, RearmStep
<1>4. status' \in [Deployments -> {"active", "ended"}]
  <2>1. status' = status \/ \E failed \in SUBSET {d} : status' = Ended(failed)
    BY DEF ExpireCheckFails, ExpireRenews, ExpireForceFailFails, rowVars
  <2> QED
    BY <2>1, EndedType DEF IndInv, TypeOK
<1> QED
  BY <1>2, <1>3, <1>4 DEF IndInv, TypeOK, Timers

\* A lease that is reclaimed is handed on, with a check for the next holder.
LEMMA ExpireReclaimsInv ==
    ASSUME IndInv, NEW d \in Deployments, NEW r \in 0..MaxRenewals, ExpireReclaims(d, r)
    PROVE  IndInv'
<1>1. timers \in Timers /\ timers[d][r] > 0
  BY DEF IndInv, TypeOK, Timers, ExpireReclaims
<1>2. /\ Fired(d, r) \in Timers
      /\ \A e \in Deployments \ {d} : Fired(d, r)[e] = timers[e]
  BY <1>1, FiredType
<1>3. PICK failed : HandOff(d, Fired(d, r), Waiting \cap {d}, failed)
  BY DEF ExpireReclaims
<1>4. UNCHANGED <<entry, inbox, inv, attempt, limit, raised>>
  BY DEF ExpireReclaims
<1>5. /\ active' \subseteq Deployments
      /\ ticket' \in [Deployments -> Nat]
      /\ awake' \in [Deployments -> {"pending", "granted", "rejected"}]
      /\ timers' \in Timers
      /\ status' \in [Deployments -> {"active", "ended"}]
      /\ TrackedHasTimer'
  BY <1>2, <1>3, HandOffStep
<1> QED
  BY <1>4, <1>5 DEF IndInv, TypeOK, Timers

----------------------------------------------------------------------------
\* Deploy and the database

\* No step of Deploy, of the rows or of the limit touches the slots.
LEMMA DeployInv ==
    ASSUME IndInv, NEW d \in Deployments, Deploy(d) \/ RowEnds(d)
    PROVE  IndInv'
<1>1. UNCHANGED <<active, ticket, entry, timers, limit, raised>>
  BY DEF Deploy, RowEnds, Start, Supersede, BeginBuild, DeploymentStep, Finish,
         SendRelease, Fail, MarkFailed, Kill, SendAgain, slotVars, rowVars
<1>2. inbox' \in Seq(Messages)
  <2>1. inbox' = inbox \/ inbox' = Sent("acquire", d) \/ inbox' = Sent("release", d)
    BY DEF Deploy, RowEnds, Start, Supersede, BeginBuild, DeploymentStep, Finish,
           SendRelease, Fail, MarkFailed, Kill, SendAgain
  <2> QED
    BY <2>1, SentType DEF IndInv, TypeOK
<1>3. status' \in [Deployments -> {"active", "ended"}]
  <2>1. \/ status' = status \/ \E failed \in SUBSET {d} : status' = Ended(failed)
        \/ status' = [status EXCEPT ![d] = "active"]
    BY DEF Deploy, RowEnds, Start, Supersede, BeginBuild, DeploymentStep, Finish, SendRelease,
           Fail, MarkFailed, Kill, SendAgain, rowVars
  <2> QED
    BY <2>1, EndedType DEF IndInv, TypeOK
<1>4. inv' \in [Deployments -> InvStates]
  <2>1. inv' = inv \/ \E pc \in InvStates : inv' = [inv EXCEPT ![d] = pc]
    <3>1. CASE RowEnds(d) \/ DeploymentStep(d)
      BY <3>1 DEF RowEnds, DeploymentStep, deployVars
    <3>2. CASE Start(d) \/ Supersede(d) \/ BeginBuild(d) \/ Finish(d)
      BY <3>2 DEF Start, Supersede, BeginBuild, Finish, InvStates
    <3>3. CASE SendRelease(d)
      BY <3>3 DEF SendRelease, InvStates
    <3>4. CASE Fail(d)
      BY <3>4 DEF Fail, InvStates
    <3>5. CASE MarkFailed(d) \/ Kill(d) \/ SendAgain(d)
      BY <3>5 DEF MarkFailed, Kill, SendAgain, InvStates
    <3> QED
      BY <3>1, <3>2, <3>3, <3>4, <3>5 DEF Deploy
  <2> QED
    BY <2>1 DEF IndInv, TypeOK
<1>5. /\ attempt' \in [Deployments -> Nat]
      /\ awake' \in [Deployments -> {"pending", "granted", "rejected"}]
  <2>1. CASE SendAgain(d)
    BY <2>1 DEF SendAgain, IndInv, TypeOK
  <2>2. CASE ~SendAgain(d)
    <3>1. UNCHANGED <<attempt, awake>>
      BY <2>2 DEF Deploy, RowEnds, Start, Supersede, BeginBuild, DeploymentStep, Finish,
                  SendRelease, Fail, MarkFailed, Kill, deployVars
    <3> QED
      BY <3>1 DEF IndInv, TypeOK
  <2> QED
    BY <2>1, <2>2
<1>6. TrackedHasTimer'
  BY <1>1, SlotsUnchanged
<1> QED
  BY <1>1, <1>2, <1>3, <1>4, <1>5, <1>6 DEF IndInv, TypeOK

\* A change of the limit touches no slot.
LEMMA SetLimitInv ==
    ASSUME IndInv, SetLimit
    PROVE  IndInv'
<1>1. UNCHANGED <<active, ticket, entry, timers, inbox, inv, attempt, awake, status>>
  BY DEF SetLimit, slotVars, deployVars
<1>2. limit' \in Limits /\ raised' \in BOOLEAN
  BY DEF SetLimit
<1>3. TrackedHasTimer'
  BY <1>1, SlotsUnchanged
<1> QED
  BY <1>1, <1>2, <1>3 DEF IndInv, TypeOK

----------------------------------------------------------------------------
\* The theorems

\* Nobody is tracked initially.
LEMMA InitInv == Init => IndInv
<1> SUFFICES ASSUME Init PROVE IndInv
  OBVIOUS
<1>1. TypeOK
  <2>1. timers \in [Deployments -> [0..MaxRenewals -> Nat]]
    BY DEF Init, NoTimers
  <2>2. inbox \in Seq(Messages)
    BY DEF Init
  <2>3. inv \in [Deployments -> InvStates]
    BY DEF Init, InvStates
  <2> QED
    BY <2>1, <2>2, <2>3 DEF Init, TypeOK
<1>2. TrackedHasTimer
  BY DEF Init, TrackedHasTimer, Tracked
<1> QED
  BY <1>1, <1>2 DEF IndInv

\* The invariant is preserved by every step.
LEMMA StepInv == IndInv /\ [Next]_vars => IndInv'
<1> SUFFICES ASSUME IndInv, [Next]_vars PROVE IndInv'
  OBVIOUS
<1>1. CASE Handle
  BY <1>1, AcquireTrackedInv, AcquireFailsInv, AcquireGrantsInv, AcquireAuditsInv, ReleaseInv
     DEF Handle
<1>2. CASE \E d \in Deployments, r \in 0..MaxRenewals : ExpireSlot(d, r)
  BY <1>2, ExpireUntrackedInv, ExpireKeepsInv, ExpireReclaimsInv DEF ExpireSlot
<1>3. CASE \E d \in Deployments : Deploy(d) \/ RowEnds(d)
  BY <1>3, DeployInv
<1>4. CASE SetLimit
  BY <1>4, SetLimitInv
<1>5. CASE UNCHANGED vars
  BY <1>5 DEF vars, slotVars, deployVars, rowVars, IndInv, TypeOK, TrackedHasTimer, Tracked
<1> QED
  BY <1>1, <1>2, <1>3, <1>4, <1>5 DEF Next

\* Every variable keeps its type in every behaviour of the gate, whatever the handlers,
\* invocations and rows do.
THEOREM TypeCorrect == Spec => []TypeOK
<1>1. IndInv => TypeOK
  BY DEF IndInv
<1> QED
  BY <1>1, InitInv, StepInv, PTL DEF Spec

\* ExpireSlot is never lost for a deployment that holds a slot or waits for one, for any
\* number of deployments, renewals, failed checks and repeated requests.
THEOREM LeaseCheckNeverLost == Spec => []TrackedHasTimer
<1>1. IndInv => TrackedHasTimer
  BY DEF IndInv
<1> QED
  BY <1>1, InitInv, StepInv, PTL DEF Spec

----------------------------------------------------------------------------
\* The limit

\* Slots are a finite set, so counting them makes sense.
LEMMA SlotsFinite ==
    ASSUME TypeOK
    PROVE  IsFiniteSet(active) /\ Cardinality(active) \in Nat /\ limit \in Nat
<1>1. active \subseteq Deployments /\ limit \in Nat
  BY LimitAssumption DEF TypeOK
<1>2. IsFiniteSet(active)
  BY <1>1, DeploymentAssumption, FS_Subset
<1> QED
  BY <1>1, <1>2, FS_CardinalityType

\* The head of the wait lists has as many members as were asked for, at most.
LEMMA HeadsBound ==
    ASSUME NEW W \in SUBSET Deployments, NEW room \in Nat, NEW S \in Heads(W, room)
    PROVE  IsFiniteSet(S) /\ Cardinality(S) \in Nat /\ Cardinality(S) <= room
<1>1. IsFiniteSet(W) /\ IsFiniteSet(S)
  BY DeploymentAssumption, FS_Subset DEF Heads
<1>2. Cardinality(W) \in Nat /\ Cardinality(S) \in Nat
  BY <1>1, FS_CardinalityType
<1>3. Cardinality(S) = IF room < Cardinality(W) THEN room ELSE Cardinality(W)
  BY DEF Heads
<1> QED
  BY <1>1, <1>2, <1>3

\* The size of a union of two finite sets.
LEMMA UnionBound ==
    ASSUME NEW S, NEW T, IsFiniteSet(S), IsFiniteSet(T)
    PROVE  /\ IsFiniteSet(S \cup T)
           /\ Cardinality(S \cup T) \in Nat
           /\ Cardinality(S \cup T) <= Cardinality(S) + Cardinality(T)
<1>1. /\ IsFiniteSet(S \cup T) /\ IsFiniteSet(S \cap T)
      /\ Cardinality(S \cup T) = Cardinality(S) + Cardinality(T) - Cardinality(S \cap T)
  BY FS_Union, FS_Subset, S \cap T \subseteq S
<1>2. /\ Cardinality(S) \in Nat /\ Cardinality(T) \in Nat
      /\ Cardinality(S \cup T) \in Nat /\ Cardinality(S \cap T) \in Nat
  BY <1>1, FS_CardinalityType
<1> QED
  BY <1>1, <1>2

\* Handing a slot on never adds one.
LEMMA HandOffBound ==
    ASSUME TypeOK, NEW d \in Deployments, NEW t, NEW rejected, NEW failed,
           HandOff(d, t, rejected, failed)
    PROVE  Cardinality(active') <= Cardinality(active)
<1> DEFINE room == IF d \in active THEN 1 ELSE 0
<1>1. PICK audit \in Audits(IF d \in active THEN Waiting \ {d} ELSE {}) :
      \E promoted \in Heads((Waiting \ {d}) \ audit.dead, room) :
        active' = (active \ {d}) \cup promoted
  BY DEF HandOff
<1>2. PICK promoted \in Heads((Waiting \ {d}) \ audit.dead, room) :
        active' = (active \ {d}) \cup promoted
  BY <1>1
<1>3. (Waiting \ {d}) \ audit.dead \in SUBSET Deployments /\ room \in Nat
  BY DEF Waiting
<1> HIDE DEF room
<1>4. IsFiniteSet(promoted) /\ Cardinality(promoted) \in Nat /\ Cardinality(promoted) <= room
  BY <1>2, <1>3, HeadsBound
<1>5. IsFiniteSet(active) /\ Cardinality(active) \in Nat
  BY SlotsFinite
<1>6. /\ IsFiniteSet(active \ {d})
      /\ Cardinality(active \ {d}) = IF d \in active THEN Cardinality(active) - 1
                                                   ELSE Cardinality(active)
  BY <1>5, FS_RemoveElement
<1>7. Cardinality(active') <= Cardinality(active \ {d}) + Cardinality(promoted)
  BY <1>2, <1>4, <1>6, UnionBound
<1>8. Cardinality(active') \in Nat
  BY <1>2, <1>4, <1>6, UnionBound
<1> QED
  BY <1>4, <1>5, <1>6, <1>7, <1>8 DEF room

\* What the acquire path adds stays within the limit: the promotions fill at most the
\* free capacity, and the caller only gets a slot if one is left.
LEMMA AuditBound ==
    ASSUME TypeOK, AcquireAudits
    PROVE  Cardinality(active') <= Cardinality(active) \/ Cardinality(active') <= limit
<1> DEFINE call == Head(inbox)
           Held(a, p) == (active \ a.dead) \cup p
<1>1. PICK audit \in Audits(active \cup Waiting) : \E promoted \in Reclaims(audit.dead) :
         \/ /\ Cardinality(Held(audit, promoted)) < limit
            /\ active' = Held(audit, promoted) \cup {call.id}
         \/ active' = Held(audit, promoted)
  BY DEF AcquireAudits
<1>2. PICK promoted \in Reclaims(audit.dead) :
         \/ /\ Cardinality(Held(audit, promoted)) < limit
            /\ active' = Held(audit, promoted) \cup {call.id}
         \/ active' = Held(audit, promoted)
  BY <1>1
<1> DEFINE alive == active \ audit.dead
           held == alive \cup promoted
<1>3. IsFiniteSet(active) /\ Cardinality(active) \in Nat /\ limit \in Nat
  BY SlotsFinite
<1>4. /\ IsFiniteSet(alive) /\ Cardinality(alive) \in Nat
      /\ Cardinality(alive) <= Cardinality(active)
  <2>1. alive \subseteq active
    OBVIOUS
  <2>2. IsFiniteSet(alive) /\ Cardinality(alive) <= Cardinality(active)
    BY <1>3, <2>1, FS_Subset
  <2> QED
    BY <2>2, FS_CardinalityType
<1>5. /\ IsFiniteSet(promoted) /\ Cardinality(promoted) \in Nat
      /\ Cardinality(promoted) <= Room(alive)
  <2>1. Room(alive) \in Nat
    BY <1>3, <1>4 DEF Room
  <2>2. CASE audit.dead \cap active = {}
    <3>1. promoted = {}
      BY <1>2, <2>2 DEF Reclaims
    <3> QED
      BY <2>1, <3>1, FS_EmptySet
  <2>3. CASE audit.dead \cap active # {}
    <3>1. promoted \in Heads(Waiting \ audit.dead, Room(alive))
      BY <1>2, <2>3 DEF Reclaims
    <3>2. Waiting \ audit.dead \in SUBSET Deployments
      BY DEF Waiting
    <3> QED
      BY <2>1, <3>1, <3>2, HeadsBound
  <2> QED
    BY <2>2, <2>3
<1> HIDE DEF alive
<1>6. /\ IsFiniteSet(held) /\ Cardinality(held) \in Nat
      /\ Cardinality(held) <= Cardinality(alive) + Cardinality(promoted)
  BY <1>4, <1>5, UnionBound
<1>7. Cardinality(held) <= Cardinality(active) \/ Cardinality(held) <= limit
  BY <1>3, <1>4, <1>5, <1>6 DEF Room
<1>8. \/ Cardinality(held) < limit /\ active' = held \cup {call.id}
      \/ active' = held
  BY <1>2 DEF alive
<1> HIDE DEF held, call
<1>9. Cardinality(held \cup {call.id}) <= Cardinality(held) + 1
  BY <1>6, FS_AddElement
<1>10. Cardinality(held \cup {call.id}) \in Nat
  BY <1>6, FS_AddElement, FS_CardinalityType
<1> QED
  BY <1>3, <1>6, <1>7, <1>8, <1>9, <1>10

\* A grant without an audit finds room below the limit.
LEMMA GrantBound ==
    ASSUME TypeOK, AcquireGrants
    PROVE  Cardinality(active') <= limit
<1> DEFINE id == Head(inbox).id
<1>1. active' = active \cup {id} /\ Cardinality(active) < limit
  BY DEF AcquireGrants
<1>2. IsFiniteSet(active) /\ Cardinality(active) \in Nat /\ limit \in Nat
  BY SlotsFinite
<1> HIDE DEF id
<1>3. Cardinality(active \cup {id})
        = IF id \in active THEN Cardinality(active) ELSE Cardinality(active) + 1
  BY <1>2, FS_AddElement
<1>4. Cardinality(active \cup {id}) \in Nat
  BY <1>2, FS_AddElement, FS_CardinalityType
<1> QED
  BY <1>1, <1>2, <1>3, <1>4

\* No step of the gate lets more deployments build than the limit in force allows,
\* for any set of deployments and any sequence of limits.
THEOREM LimitRespected == Spec => GrantsRespectLimit
<1> DEFINE Bounded == Cardinality(active') > Cardinality(active) => Cardinality(active') <= limit
<1>1. TypeOK /\ TypeOK' /\ [Next]_vars => [Bounded]_vars
  <2> SUFFICES ASSUME TypeOK, TypeOK', Next PROVE Bounded
    OBVIOUS
  <2>1. Cardinality(active) \in Nat /\ Cardinality(active') \in Nat
    <3>1. Cardinality(active) \in Nat
      BY SlotsFinite
    <3>2. active' \subseteq Deployments
      BY DEF TypeOK
    <3>3. IsFiniteSet(active')
      BY <3>2, DeploymentAssumption, FS_Subset
    <3> QED
      BY <3>1, <3>3, FS_CardinalityType
  <2>2. CASE AcquireGrants
    BY <2>2, GrantBound
  <2>3. CASE AcquireAudits
    BY <2>1, <2>3, AuditBound
  <2>4. CASE Release
    <3>1. Head(inbox).id \in Deployments
      BY <2>4, ServedCall DEF Release, Messages
    <3>2. Cardinality(active') <= Cardinality(active)
      BY <2>4, <3>1, HandOffBound DEF Release
    <3> QED
      BY <2>1, <3>2
  <2>5. ASSUME NEW d \in Deployments, NEW r \in 0..MaxRenewals, ExpireReclaims(d, r)
        PROVE  Bounded
    <3>1. Cardinality(active') <= Cardinality(active)
      BY <2>5, HandOffBound DEF ExpireReclaims
    <3> QED
      BY <2>1, <3>1
  <2>6. CASE UNCHANGED active
    BY <2>1, <2>6
  <2>7. ASSUME NEW d \in Deployments, NEW r \in 0..MaxRenewals, ExpireSlot(d, r)
        PROVE  UNCHANGED active \/ ExpireReclaims(d, r)
    BY <2>7 DEF ExpireSlot, ExpireUntracked, ExpireCheckFails, ExpireRenews, ExpireForceFailFails
  <2>8. ASSUME NEW d \in Deployments, Deploy(d) \/ RowEnds(d)
        PROVE  UNCHANGED active
    BY <2>8 DEF Deploy, RowEnds, Start, Supersede, BeginBuild, DeploymentStep, Finish,
                SendRelease, Fail, MarkFailed, Kill, SendAgain, slotVars
  <2>9. AcquireTracked \/ AcquireFails \/ SetLimit => UNCHANGED active
    BY DEF AcquireTracked, AcquireFails, SetLimit, slotVars
  <2> HIDE DEF Bounded
  <2> QED
    BY <2>2, <2>3, <2>4, <2>5, <2>6, <2>7, <2>8, <2>9 DEF Next, Handle
<1> QED
  BY <1>1, TypeCorrect, PTL DEF Spec, GrantsRespectLimit

----------------------------------------------------------------------------
\* Work conservation and the order of promotions

\* Nobody both holds a slot and waits for one.
Disjoint == \A d \in active : ticket[d] = 0

\* What NoIdleSlot needs to be inductive: a promotion adds as many slots as waiters
\* it takes off the lists only if the promoted held none before.
WorkInv == TypeOK /\ Disjoint /\ NoIdleSlot

\* Lists and slots can be counted.
LEMMA WaitingFinite ==
    ASSUME NEW W \in SUBSET Deployments
    PROVE  IsFiniteSet(W) /\ Cardinality(W) \in Nat
BY DeploymentAssumption, FS_Subset, FS_CardinalityType

\* Either the lists are emptied or exactly `room` deployments leave them.
LEMMA HeadsExact ==
    ASSUME NEW W \in SUBSET Deployments, NEW room \in Nat, NEW S \in Heads(W, room)
    PROVE  S = W \/ Cardinality(S) = room
<1>1. IsFiniteSet(W) /\ Cardinality(W) \in Nat /\ S \subseteq W
  BY WaitingFinite, HeadsSubset
<1>2. Cardinality(S) = IF room < Cardinality(W) THEN room ELSE Cardinality(W)
  BY DEF Heads
<1>3. Cardinality(S) = Cardinality(W) => S = W
  BY <1>1, FS_Subset
<1> QED
  BY <1>1, <1>2, <1>3

\* The size of a union of two finite sets without a common element.
LEMMA DisjointUnion ==
    ASSUME NEW S, NEW T, IsFiniteSet(S), IsFiniteSet(T), S \cap T = {}
    PROVE  /\ IsFiniteSet(S \cup T)
           /\ Cardinality(S \cup T) = Cardinality(S) + Cardinality(T)
<1>1. /\ IsFiniteSet(S \cup T)
      /\ Cardinality(S \cup T) = Cardinality(S) + Cardinality(T) - Cardinality(S \cap T)
  BY FS_Union
<1>2. Cardinality(S \cap T) = 0
  BY FS_EmptySet
<1>3. Cardinality(S) \in Nat /\ Cardinality(T) \in Nat
  BY FS_CardinalityType
<1> QED
  BY <1>1, <1>2, <1>3

\* A deployment hands over its slot, or leaves its list: what remains of HandOff once
\* the audit and the promotions are named.
LEMMA HandOffShape ==
    ASSUME TypeOK, Disjoint, NEW d \in Deployments, NEW t, NEW rejected, NEW failed,
           HandOff(d, t, rejected, failed)
    PROVE  \E audit \in Audits(IF d \in active THEN Waiting \ {d} ELSE {}) :
           \E promoted \in Heads((Waiting \ {d}) \ audit.dead, IF d \in active THEN 1 ELSE 0) :
              /\ active' = (active \ {d}) \cup promoted
              /\ ticket' = Without({d} \cup audit.dead \cup promoted)
              /\ promoted \subseteq Waiting \ {d}
              /\ promoted \cap active = {}
<1>1. PICK audit \in Audits(IF d \in active THEN Waiting \ {d} ELSE {}) :
      \E promoted \in Heads((Waiting \ {d}) \ audit.dead, IF d \in active THEN 1 ELSE 0) :
        /\ active' = (active \ {d}) \cup promoted
        /\ ticket' = Without({d} \cup audit.dead \cup promoted)
  BY DEF HandOff
<1>2. PICK promoted \in Heads((Waiting \ {d}) \ audit.dead, IF d \in active THEN 1 ELSE 0) :
        /\ active' = (active \ {d}) \cup promoted
        /\ ticket' = Without({d} \cup audit.dead \cup promoted)
  BY <1>1
<1>3. promoted \subseteq Waiting \ {d}
  BY <1>2, HeadsSubset
<1>4. Waiting \cap active = {}
  BY DEF Waiting, Disjoint
<1> QED
  BY <1>1, <1>2, <1>3, <1>4

\* Whoever frees a slot promotes waiters until the lists or the room are used up.
LEMMA HandOffWork ==
    ASSUME WorkInv, NEW d \in Deployments, NEW t, NEW rejected, NEW failed,
           HandOff(d, t, rejected, failed), UNCHANGED <<limit, raised>>
    PROVE  Disjoint' /\ NoIdleSlot'
<1> DEFINE room == IF d \in active THEN 1 ELSE 0
<1>1. PICK audit \in Audits(IF d \in active THEN Waiting \ {d} ELSE {}) :
      \E promoted \in Heads((Waiting \ {d}) \ audit.dead, room) :
        /\ active' = (active \ {d}) \cup promoted
        /\ ticket' = Without({d} \cup audit.dead \cup promoted)
        /\ promoted \subseteq Waiting \ {d}
        /\ promoted \cap active = {}
  BY HandOffShape DEF WorkInv
<1>2. PICK promoted \in Heads((Waiting \ {d}) \ audit.dead, room) :
        /\ active' = (active \ {d}) \cup promoted
        /\ ticket' = Without({d} \cup audit.dead \cup promoted)
        /\ promoted \subseteq Waiting \ {d}
        /\ promoted \cap active = {}
  BY <1>1
<1>3. active \subseteq Deployments /\ Waiting \subseteq Deployments
  BY DEF WorkInv, TypeOK, Waiting
<1>4. Disjoint'
  BY <1>2, <1>3 DEF WorkInv, Disjoint, Without
<1>5. Waiting' = ((Waiting \ {d}) \ audit.dead) \ promoted
  BY <1>2 DEF Waiting, Without
<1>6. ASSUME ~raised', Waiting' # {}
      PROVE  Cardinality(active') >= limit'
  <2>1. room \in Nat /\ (Waiting \ {d}) \ audit.dead \in SUBSET Deployments
    BY <1>3
  <2>2. Cardinality(promoted) = room
    <3> HIDE DEF room
    <3> QED BY <1>2, <1>5, <1>6, <2>1, HeadsExact
  <2>3. Cardinality(active) >= limit
    BY <1>5, <1>6 DEF WorkInv, NoIdleSlot
  <2>4. IsFiniteSet(active) /\ Cardinality(active) \in Nat /\ limit \in Nat
    BY SlotsFinite DEF WorkInv
  <2>5. /\ IsFiniteSet(active \ {d})
        /\ Cardinality(active \ {d}) = IF d \in active THEN Cardinality(active) - 1
                                                      ELSE Cardinality(active)
    BY <2>4, FS_RemoveElement
  <2>6. IsFiniteSet(promoted)
    BY <1>2, <1>3, WaitingFinite
  <2>7. Cardinality(active') = Cardinality(active \ {d}) + Cardinality(promoted)
    BY <1>2, <2>5, <2>6, DisjointUnion
  <2> QED
    BY <2>2, <2>3, <2>4, <2>5, <2>7
<1> QED
  BY <1>4, <1>6 DEF NoIdleSlot

\* AcquireAudits with the audit and the promotions named.
LEMMA AuditShape ==
    ASSUME TypeOK, Disjoint, AcquireAudits
    PROVE  LET call == Head(inbox) IN
           \E audit \in Audits(active \cup Waiting) : \E promoted \in Reclaims(audit.dead) :
             /\ call \in Messages /\ call.id \notin active /\ call.id \notin Waiting
             /\ promoted \subseteq Waiting
             /\ promoted \cap active = {}
             /\ status' = Ended(audit.ended)
             /\ entry' = Stored(call)
             /\ \/ /\ Cardinality((active \ audit.dead) \cup promoted) < limit
                   /\ active' = ((active \ audit.dead) \cup promoted) \cup {call.id}
                   /\ ticket' = Without(audit.dead \cup promoted)
                   /\ awake' = Woken(promoted \cup {call.id}, audit.dead \cap Waiting, Stored(call))
                \/ /\ Cardinality((active \ audit.dead) \cup promoted) >= limit
                   /\ active' = (active \ audit.dead) \cup promoted
                   /\ \E t \in NextTicket :
                         ticket' = [Without(audit.dead \cup promoted) EXCEPT ![call.id] = t]
                   /\ awake' = Woken(promoted, audit.dead \cap Waiting, Stored(call))
<1> DEFINE call == Head(inbox)
<1>1. call \in Messages /\ ~Tracked(call.id)
  BY ServedCall DEF AcquireAudits
<1>2. call.id \notin active /\ call.id \notin Waiting
  BY <1>1 DEF Tracked, Waiting
<1>3. PICK audit \in Audits(active \cup Waiting) : \E promoted \in Reclaims(audit.dead) :
         LET held == (active \ audit.dead) \cup promoted IN
         /\ status' = Ended(audit.ended)
         /\ entry' = Stored(call)
         /\ \/ /\ Cardinality(held) < limit
               /\ active' = held \cup {call.id}
               /\ ticket' = Without(audit.dead \cup promoted)
               /\ awake' = Woken(promoted \cup {call.id}, audit.dead \cap Waiting, Stored(call))
            \/ /\ Cardinality(held) >= limit
               /\ active' = held
               /\ \E t \in NextTicket :
                     ticket' = [Without(audit.dead \cup promoted) EXCEPT ![call.id] = t]
               /\ awake' = Woken(promoted, audit.dead \cap Waiting, Stored(call))
  BY DEF AcquireAudits
<1>4. Waiting \cap active = {}
  BY DEF Waiting, Disjoint
<1>5. \A promoted \in Reclaims(audit.dead) : promoted \subseteq Waiting /\ promoted \cap active = {}
  BY <1>4, ReclaimsSubset
<1> HIDE DEF call
<1>6. \E a \in Audits(active \cup Waiting) : \E promoted \in Reclaims(a.dead) :
             /\ call \in Messages /\ call.id \notin active /\ call.id \notin Waiting
             /\ promoted \subseteq Waiting
             /\ promoted \cap active = {}
             /\ status' = Ended(a.ended)
             /\ entry' = Stored(call)
             /\ \/ /\ Cardinality((active \ a.dead) \cup promoted) < limit
                   /\ active' = ((active \ a.dead) \cup promoted) \cup {call.id}
                   /\ ticket' = Without(a.dead \cup promoted)
                   /\ awake' = Woken(promoted \cup {call.id}, a.dead \cap Waiting, Stored(call))
                \/ /\ Cardinality((active \ a.dead) \cup promoted) >= limit
                   /\ active' = (active \ a.dead) \cup promoted
                   /\ \E t \in NextTicket :
                         ticket' = [Without(a.dead \cup promoted) EXCEPT ![call.id] = t]
                   /\ awake' = Woken(promoted, a.dead \cap Waiting, Stored(call))
  BY <1>1, <1>2, <1>3, <1>5, Zenon
<1> QED
  BY <1>6 DEF call

\* An acquire that audits queues only when what it freed has been given away.
LEMMA AuditWork ==
    ASSUME WorkInv, AcquireAudits
    PROVE  Disjoint' /\ NoIdleSlot'
<1> DEFINE id == Head(inbox).id
<1>1. PICK audit \in Audits(active \cup Waiting) : \E promoted \in Reclaims(audit.dead) :
             /\ Head(inbox) \in Messages /\ id \notin active /\ id \notin Waiting
             /\ promoted \subseteq Waiting
             /\ promoted \cap active = {}
             /\ \/ /\ Cardinality((active \ audit.dead) \cup promoted) < limit
                   /\ active' = ((active \ audit.dead) \cup promoted) \cup {id}
                   /\ ticket' = Without(audit.dead \cup promoted)
                \/ /\ Cardinality((active \ audit.dead) \cup promoted) >= limit
                   /\ active' = (active \ audit.dead) \cup promoted
                   /\ \E t \in NextTicket :
                         ticket' = [Without(audit.dead \cup promoted) EXCEPT ![id] = t]
  BY AuditShape DEF WorkInv
<1>2. PICK promoted \in Reclaims(audit.dead) :
             /\ Head(inbox) \in Messages /\ id \notin active /\ id \notin Waiting
             /\ promoted \subseteq Waiting
             /\ promoted \cap active = {}
             /\ \/ /\ Cardinality((active \ audit.dead) \cup promoted) < limit
                   /\ active' = ((active \ audit.dead) \cup promoted) \cup {id}
                   /\ ticket' = Without(audit.dead \cup promoted)
                \/ /\ Cardinality((active \ audit.dead) \cup promoted) >= limit
                   /\ active' = (active \ audit.dead) \cup promoted
                   /\ \E t \in NextTicket :
                         ticket' = [Without(audit.dead \cup promoted) EXCEPT ![id] = t]
  BY <1>1
<1> DEFINE alive == active \ audit.dead
           held == alive \cup promoted
<1>3. /\ active \subseteq Deployments /\ Waiting \subseteq Deployments
      /\ ticket \in [Deployments -> Nat] /\ id \in Deployments
      /\ UNCHANGED <<limit, raised>> /\ Cardinality(active) >= limit
  BY <1>2 DEF WorkInv, TypeOK, Waiting, Messages, AcquireAudits
<1> HIDE DEF id
<1>4. ticket[id] = 0
  BY <1>2, <1>3 DEF Waiting
<1>5. Disjoint'
  <2>1. ASSUME NEW e \in active' PROVE ticket'[e] = 0
    <3>1. e \in Deployments
      BY <1>2, <1>3, <2>1
    <3>2. e = id \/ e \in active \/ e \in promoted
      BY <1>2, <2>1
    <3>3. Without(audit.dead \cup promoted)[e] = 0
      BY <1>4, <3>1, <3>2 DEF WorkInv, Disjoint, Without
    <3>4. CASE ticket' = Without(audit.dead \cup promoted)
      BY <3>3, <3>4
    <3>5. CASE /\ active' = (active \ audit.dead) \cup promoted
               /\ \E t \in NextTicket :
                     ticket' = [Without(audit.dead \cup promoted) EXCEPT ![id] = t]
      <4>1. e # id
        BY <1>2, <2>1, <3>5
      <4> QED
        BY <3>1, <3>3, <3>5, <4>1 DEF Without
    <3> QED
      BY <1>2, <3>4, <3>5
  <2> QED
    BY <2>1 DEF Disjoint
<1>6. IsFiniteSet(active) /\ Cardinality(active) \in Nat /\ limit \in Nat
  BY SlotsFinite DEF WorkInv
<1>7. IsFiniteSet(alive) /\ IsFiniteSet(promoted) /\ Cardinality(alive) \in Nat
  BY <1>2, <1>3, WaitingFinite
<1>8. Cardinality(held) = Cardinality(alive) + Cardinality(promoted)
  BY <1>2, <1>7, DisjointUnion
<1>9. CASE Cardinality(held) < limit
  <2>1. audit.dead \cap active # {}
    <3>1. ASSUME audit.dead \cap active = {} PROVE FALSE
      <4>1. promoted = {} /\ held = active
        BY <1>2, <3>1 DEF Reclaims
      <4> QED
        BY <1>3, <1>6, <1>9, <4>1
    <3> QED
      BY <3>1
  <2>2. promoted \in Heads(Waiting \ audit.dead, Room(alive))
    BY <1>2, <2>1 DEF Reclaims
  <2>3. Room(alive) \in Nat /\ Waiting \ audit.dead \in SUBSET Deployments
    BY <1>3, <1>6, <1>7 DEF Room
  <2>4. promoted = Waiting \ audit.dead \/ Cardinality(promoted) = Room(alive)
    BY <2>2, <2>3, HeadsExact
  <2>5. Cardinality(promoted) # Room(alive)
    <3> HIDE DEF alive, held
    <3> QED BY <1>6, <1>7, <1>8, <1>9 DEF Room
  <2>6. ticket' = Without(audit.dead \cup promoted)
    <3>1. Cardinality(held) \in Nat /\ ~(Cardinality(held) >= limit)
      BY <1>6, <1>7, <1>8, <1>9, FS_CardinalityType
    <3> QED
      BY <1>2, <3>1
  <2>7. Waiting' = (Waiting \ audit.dead) \ promoted
    BY <2>6 DEF Waiting, Without
  <2> QED
    BY <1>5, <2>4, <2>5, <2>7 DEF NoIdleSlot
<1>10. CASE ~(Cardinality(held) < limit)
  <2>1. Cardinality(held) >= limit /\ active' = held
    BY <1>2, <1>6, <1>7, <1>10
  <2> QED
    BY <1>3, <1>5, <2>1 DEF NoIdleSlot
<1> QED
  BY <1>9, <1>10

\* Every step keeps the gate work-conserving.
LEMMA StepWork == WorkInv /\ TypeOK' /\ [Next]_vars => WorkInv'
<1> SUFFICES ASSUME WorkInv, TypeOK', [Next]_vars PROVE Disjoint' /\ NoIdleSlot'
  BY DEF WorkInv
<1>1. CASE AcquireGrants
  <2> DEFINE id == Head(inbox).id
  <2>1. active' = active \cup {id} /\ ~Tracked(id) /\ UNCHANGED <<ticket, limit, raised>>
    BY <1>1 DEF AcquireGrants, rowVars
  <2>2. id \in Deployments
    BY <1>1, ServedCall DEF WorkInv, AcquireGrants, Messages
  <2>3. ticket[id] = 0
    BY <2>1, <2>2 DEF WorkInv, TypeOK, Tracked
  <2>4. Disjoint'
    BY <2>1, <2>3 DEF WorkInv, Disjoint
  <2>5. Cardinality(active) \in Nat /\ limit \in Nat /\ Cardinality(active) < limit
    BY <1>1, SlotsFinite DEF WorkInv, AcquireGrants
  <2>6. ~(~raised /\ Waiting # {})
    BY <2>5 DEF WorkInv, NoIdleSlot
  <2> QED
    BY <2>1, <2>4, <2>6 DEF NoIdleSlot, Waiting
<1>2. CASE AcquireAudits
  BY <1>2, AuditWork
<1>3. CASE Release
  <2>1. Head(inbox).id \in Deployments
    BY <1>3, ServedCall DEF WorkInv, Release, Messages
  <2> QED
    BY <1>3, <2>1, HandOffWork DEF Release
<1>4. ASSUME NEW d \in Deployments, NEW r \in 0..MaxRenewals, ExpireReclaims(d, r)
      PROVE  Disjoint' /\ NoIdleSlot'
  BY <1>4, HandOffWork DEF ExpireReclaims
<1>5. CASE UNCHANGED <<active, ticket, limit, raised>>
  BY <1>5 DEF WorkInv, Disjoint, NoIdleSlot, Waiting
<1>6. CASE SetLimit
  <2>1. UNCHANGED <<active, ticket>> /\ raised' = (raised \/ limit' > limit)
    BY <1>6 DEF SetLimit, slotVars
  <2>2. limit \in Nat /\ limit' \in Nat /\ Cardinality(active) \in Nat
    BY SlotsFinite, LimitAssumption DEF WorkInv, TypeOK
  <2>3. Waiting' = Waiting /\ Disjoint'
    BY <2>1 DEF WorkInv, Disjoint, Waiting
  <2>4. ~raised' => ~raised /\ limit' <= limit
    <3>1. ~raised' => ~raised /\ ~(limit' > limit)
      BY <2>1, Zenon
    <3> QED
      BY <2>2, <3>1
  <2>5. ~raised' /\ Waiting' # {} => Cardinality(active') >= limit'
    BY <2>1, <2>2, <2>3, <2>4 DEF WorkInv, NoIdleSlot
  <2> QED
    BY <2>3, <2>5 DEF NoIdleSlot
<1>7. ASSUME NEW d \in Deployments, NEW r \in 0..MaxRenewals, ExpireSlot(d, r)
      PROVE  UNCHANGED <<active, ticket, limit, raised>> \/ ExpireReclaims(d, r)
  BY <1>7 DEF ExpireSlot, ExpireUntracked, ExpireCheckFails, ExpireRenews,
              ExpireForceFailFails, rowVars
<1>8. ASSUME NEW d \in Deployments, Deploy(d) \/ RowEnds(d)
      PROVE  UNCHANGED <<active, ticket, limit, raised>>
  BY <1>8 DEF Deploy, RowEnds, Start, Supersede, BeginBuild, DeploymentStep, Finish,
              SendRelease, Fail, MarkFailed, Kill, SendAgain, slotVars, rowVars
<1>9. AcquireTracked \/ AcquireFails \/ UNCHANGED vars
        => UNCHANGED <<active, ticket, limit, raised>>
  BY DEF AcquireTracked, AcquireFails, vars, slotVars, rowVars
<1> QED
  BY <1>1, <1>2, <1>3, <1>4, <1>5, <1>6, <1>7, <1>8, <1>9 DEF Next, Handle

\* Nobody waits initially.
LEMMA InitWork == Init => WorkInv
<1> SUFFICES ASSUME Init PROVE WorkInv
  OBVIOUS
<1>1. TypeOK
  BY InitInv DEF IndInv
<1> QED
  BY <1>1 DEF Init, WorkInv, Disjoint, NoIdleSlot, Waiting

\* No slot idles in any behaviour.
LEMMA WorkInvariant == Spec => []WorkInv
BY InitWork, StepWork, TypeCorrect, PTL DEF Spec

\* As long as the limit is not raised, nobody waits while a slot is idle: for any number
\* of deployments, and through releases, reclaims, failed audits and lowered limits.
THEOREM WorkConserved == Spec => []NoIdleSlot
<1>1. WorkInv => NoIdleSlot
  BY DEF WorkInv
<1> QED
  BY <1>1, WorkInvariant, PTL

\* A promotion takes the head of the lists: who keeps waiting has not been overtaken.
LEMMA HeadsOrder ==
    ASSUME NEW W, NEW room, NEW S \in Heads(W, room), NEW p \in S, NEW q \in W \ S
    PROVE  /\ q \in Production => p \in Production
           /\ (p \in Production <=> q \in Production) => ticket[p] < ticket[q]
BY DEF Heads, Precedes

\* A freed slot never goes past a waiter that the lists put first, whichever handler
\* frees it: a release, a lease that ends, or an acquire that audits.
THEOREM PromotionsInOrder == Spec => PromotionOrder
<1> DEFINE Order(p, q) == /\ q \in Production => p \in Production
                          /\ (p \in Production <=> q \in Production) => ticket[p] < ticket[q]
           Ordered == \A p \in active' \cap Waiting, q \in Waiting :
                         ticket'[q] > 0 => Order(p, q)
<1>1. WorkInv /\ [Next]_vars => [Ordered]_vars
  <2> SUFFICES ASSUME WorkInv, Next, NEW p \in active' \cap Waiting, NEW q \in Waiting,
                      ticket'[q] > 0
               PROVE  Order(p, q)
    OBVIOUS
  <2>1. p \notin active /\ q \notin active /\ p \in Deployments /\ q \in Deployments
    BY DEF WorkInv, Disjoint, Waiting
  <2>2. ASSUME NEW d \in Deployments, NEW t, NEW rejected, NEW failed,
               HandOff(d, t, rejected, failed)
        PROVE  Order(p, q)
    <3>1. PICK audit \in Audits(IF d \in active THEN Waiting \ {d} ELSE {}) :
          \E promoted \in Heads((Waiting \ {d}) \ audit.dead, IF d \in active THEN 1 ELSE 0) :
            /\ active' = (active \ {d}) \cup promoted
            /\ ticket' = Without({d} \cup audit.dead \cup promoted)
      BY <2>2, HandOffShape DEF WorkInv
    <3>2. PICK promoted \in Heads((Waiting \ {d}) \ audit.dead, IF d \in active THEN 1 ELSE 0) :
            /\ active' = (active \ {d}) \cup promoted
            /\ ticket' = Without({d} \cup audit.dead \cup promoted)
      BY <3>1
    <3>3. p \in promoted /\ q \in ((Waiting \ {d}) \ audit.dead) \ promoted
      BY <2>1, <3>2 DEF Without
    <3> QED
      BY <3>2, <3>3, HeadsOrder
  <2>3. CASE AcquireAudits
    <3> DEFINE id == Head(inbox).id
    <3>1. PICK audit \in Audits(active \cup Waiting) : \E promoted \in Reclaims(audit.dead) :
             /\ id \notin Waiting /\ promoted \subseteq Waiting
             /\ active' \subseteq (active \cup promoted) \cup {id}
             /\ \/ ticket' = Without(audit.dead \cup promoted)
                \/ \E t \in NextTicket :
                         ticket' = [Without(audit.dead \cup promoted) EXCEPT ![id] = t]
      <4>1. PICK audit \in Audits(active \cup Waiting) : \E promoted \in Reclaims(audit.dead) :
             /\ id \notin Waiting /\ promoted \subseteq Waiting
             /\ \/ /\ active' = ((active \ audit.dead) \cup promoted) \cup {id}
                   /\ ticket' = Without(audit.dead \cup promoted)
                \/ /\ active' = (active \ audit.dead) \cup promoted
                   /\ \E t \in NextTicket :
                         ticket' = [Without(audit.dead \cup promoted) EXCEPT ![id] = t]
        BY <2>3, AuditShape DEF WorkInv
      <4> QED
        BY <4>1
    <3>2. PICK promoted \in Reclaims(audit.dead) :
             /\ id \notin Waiting /\ promoted \subseteq Waiting
             /\ active' \subseteq (active \cup promoted) \cup {id}
             /\ \/ ticket' = Without(audit.dead \cup promoted)
                \/ \E t \in NextTicket :
                         ticket' = [Without(audit.dead \cup promoted) EXCEPT ![id] = t]
      BY <3>1
    <3> HIDE DEF id
    <3>3. p \in promoted
      BY <2>1, <3>2
    <3>4. ticket'[q] = Without(audit.dead \cup promoted)[q]
      BY <2>1, <3>2 DEF Without
    <3>5. q \in (Waiting \ audit.dead) \ promoted
      BY <2>1, <3>4 DEF Without
    <3>6. promoted \in Heads(Waiting \ audit.dead, Room(active \ audit.dead))
      BY <3>2, <3>3 DEF Reclaims
    <3> QED
      BY <3>3, <3>5, <3>6, HeadsOrder
  <2>4. CASE AcquireGrants
    <3>1. active' = active \cup {Head(inbox).id} /\ Head(inbox).id \notin Waiting
      BY <2>4 DEF AcquireGrants, Tracked, Waiting
    <3> QED
      BY <2>1, <3>1
  <2>5. CASE Release
    <3>1. Head(inbox).id \in Deployments
      BY <2>5, ServedCall DEF WorkInv, Release, Messages
    <3> QED
      BY <2>2, <2>5, <3>1 DEF Release
  <2>6. ASSUME NEW d \in Deployments, NEW r \in 0..MaxRenewals, ExpireReclaims(d, r)
        PROVE  Order(p, q)
    BY <2>2, <2>6 DEF ExpireReclaims
  <2>7. CASE UNCHANGED active
    BY <2>1, <2>7
  <2>8. ASSUME NEW d \in Deployments, NEW r \in 0..MaxRenewals, ExpireSlot(d, r)
        PROVE  UNCHANGED active \/ ExpireReclaims(d, r)
    BY <2>8 DEF ExpireSlot, ExpireUntracked, ExpireCheckFails, ExpireRenews, ExpireForceFailFails
  <2>9. ASSUME NEW d \in Deployments, Deploy(d) \/ RowEnds(d)
        PROVE  UNCHANGED active
    BY <2>9 DEF Deploy, RowEnds, Start, Supersede, BeginBuild, DeploymentStep, Finish,
                SendRelease, Fail, MarkFailed, Kill, SendAgain, slotVars
  <2>10. AcquireTracked \/ AcquireFails \/ SetLimit => UNCHANGED active
    BY DEF AcquireTracked, AcquireFails, SetLimit, slotVars
  <2> HIDE DEF Order
  <2> QED
    BY <2>3, <2>4, <2>5, <2>6, <2>7, <2>8, <2>9, <2>10 DEF Next, Handle
<1> QED
  BY <1>1, WorkInvariant, PTL DEF Spec, PromotionOrder

----------------------------------------------------------------------------
\* A build holds its slot

\* A call in the inbox, by operation and deployment.
Queued(i, op, d) == i \in 1..Len(inbox) /\ inbox[i].op = op /\ inbox[i].id = d

\* No call and no wait entry is from an attempt that has not started yet.
NoFutureAttempt ==
    /\ \A i \in 1..Len(inbox) : inbox[i].attempt <= attempt[inbox[i].id]
    /\ \A d \in Deployments : entry[d] <= attempt[d]

\* Before its acquire call has been served, an attempt is unknown to the service.
NotServedYet ==
    \A d \in Deployments : inv[d] \in {"queued", "requesting"} =>
        entry[d] # attempt[d] /\ awake[d] = "pending"

\* The acquire call of an attempt is sent once, behind every release of its
\* predecessors: the inbox is served in order.
AcquireIsLast ==
    \A d \in Deployments :
        /\ inv[d] = "queued" =>
              \A i \in 1..Len(inbox) : ~(Queued(i, "acquire", d) /\ inbox[i].attempt = attempt[d])
        /\ inv[d] = "requesting" =>
              \A i, j \in 1..Len(inbox) :
                  Queued(i, "release", d) /\ Queued(j, "acquire", d)
                    /\ inbox[j].attempt = attempt[d] => i < j

\* So no release is left in the inbox for an attempt that has its answer, waits or
\* builds; it has not sent its own.
NoReleaseAhead ==
    \A d \in Deployments : inv[d] \in {"parked", "building"} =>
        \A i \in 1..Len(inbox) : ~Queued(i, "release", d)

\* Who was told that it has a slot has it, unless its row has ended.
GrantedHolds ==
    \A d \in Deployments :
        inv[d] = "parked" /\ awake[d] = "granted" /\ status[d] = "active" => d \in active

GateOrder == NoFutureAttempt /\ NotServedYet /\ AcquireIsLast /\ NoReleaseAhead /\ GrantedHolds

GateInv == TypeOK /\ Disjoint /\ GateOrder

\* A step takes no slot from a deployment that has its answer or builds, unless it leaves
\* its row ended.
SlotsStay ==
    \A d \in Deployments :
        d \in active /\ status'[d] = "active" /\ inv[d] \in {"parked", "building"}
           => d \in active'

\* The inbox after its first call has been served.
LEMMA TailAt ==
    ASSUME TypeOK, inbox # <<>>, inbox' = Tail(inbox)
    PROVE  /\ 1 \in 1..Len(inbox) /\ Head(inbox) = inbox[1]
           /\ Len(inbox) \in Nat /\ Len(inbox') = Len(inbox) - 1
           /\ \A i \in 1..Len(inbox') : i + 1 \in 1..Len(inbox) /\ inbox'[i] = inbox[i + 1]
BY DEF TypeOK

\* The inbox after a call has been sent.
LEMMA AppendAt ==
    ASSUME TypeOK, NEW m \in Messages, inbox' = Append(inbox, m)
    PROVE  /\ Len(inbox) \in Nat /\ Len(inbox') = Len(inbox) + 1
           /\ \A i \in 1..Len(inbox) : inbox'[i] = inbox[i]
           /\ inbox'[Len(inbox) + 1] = m
BY DEF TypeOK

\* What the inbox and the attempts are made of.
LEMMA InboxTypes ==
    ASSUME TypeOK
    PROVE  /\ Len(inbox) \in Nat
           /\ \A i \in 1..Len(inbox) : /\ inbox[i] \in Messages
                                       /\ inbox[i].id \in Deployments
                                       /\ inbox[i].attempt \in Nat
           /\ \A d \in Deployments : attempt[d] \in Nat /\ entry[d] \in Nat
<1>1. Len(inbox) \in Nat /\ \A i \in 1..Len(inbox) : inbox[i] \in Messages
  BY DEF TypeOK
<1>2. \A m \in Messages : m.id \in Deployments /\ m.attempt \in Nat
  BY DEF Messages
<1> QED
  BY <1>1, <1>2 DEF TypeOK

\* The call being served is the first of the inbox.
LEMMA FirstCall ==
    ASSUME TypeOK, inbox # <<>>
    PROVE  /\ Head(inbox) = inbox[1] /\ 1 \in 1..Len(inbox)
           /\ inbox[1].id \in Deployments /\ inbox[1].attempt \in Nat
<1>1. Head(inbox) = inbox[1] /\ 1 \in 1..Len(inbox)
  BY DEF TypeOK
<1> QED
  BY <1>1, InboxTypes

\* What serving the first call may do to the invocation of d.
ServedInv(d) ==
    \/ inv'[d] = inv[d]
    \/ /\ inv[d] = "requesting" /\ inv'[d] \in {"parked", "failing"}
       /\ Queued(1, "acquire", d) /\ inbox[1].attempt = attempt[d]

\* Serving a call keeps the order of the inbox.
LEMMA ServeQueue ==
    ASSUME GateInv, inbox # <<>>, inbox' = Tail(inbox), attempt' = attempt,
           \A d \in Deployments : ServedInv(d)
    PROVE  /\ \A i \in 1..Len(inbox') : inbox'[i].attempt <= attempt'[inbox'[i].id]
           /\ AcquireIsLast' /\ NoReleaseAhead'
<1> DEFINE Q(i, op, d) == i \in 1..Len(inbox') /\ inbox'[i].op = op /\ inbox'[i].id = d
<1>1. /\ 1 \in 1..Len(inbox) /\ Len(inbox) \in Nat
      /\ \A i \in 1..Len(inbox') : i \in Nat /\ i + 1 \in 1..Len(inbox) /\ inbox'[i] = inbox[i + 1]
  BY TailAt, InboxTypes DEF GateInv
<1>2. \A i \in 1..Len(inbox') : inbox'[i].attempt <= attempt'[inbox'[i].id]
  BY <1>1 DEF GateInv, GateOrder, NoFutureAttempt
<1>3. \A i, op, d : Q(i, op, d) => i \in Nat /\ Queued(i + 1, op, d) /\ inbox'[i] = inbox[i + 1]
  BY <1>1 DEF Queued
<1>4. ASSUME NEW d \in Deployments, inv'[d] = "queued", NEW i \in 1..Len(inbox'),
             Q(i, "acquire", d), inbox'[i].attempt = attempt'[d]
      PROVE  FALSE
  <2>1. inv[d] = "queued"
    BY <1>4 DEF ServedInv
  <2> QED
    BY ZenonT(40), <1>1, <1>3, <1>4, <2>1 DEF GateInv, GateOrder, AcquireIsLast
<1>5. ASSUME NEW d \in Deployments, inv'[d] = "requesting",
             NEW i \in 1..Len(inbox'), NEW j \in 1..Len(inbox'),
             Q(i, "release", d), Q(j, "acquire", d), inbox'[j].attempt = attempt'[d]
      PROVE  i < j
  <2>1. inv[d] = "requesting"
    BY <1>5 DEF ServedInv
  <2>2. i + 1 < j + 1
    BY <1>1, <1>3, <1>5, <2>1 DEF GateInv, GateOrder, AcquireIsLast
  <2> QED
    BY <1>1, <2>2
<1>6. ASSUME NEW d \in Deployments, inv'[d] \in {"parked", "building"},
             NEW i \in 1..Len(inbox'), Q(i, "release", d)
      PROVE  FALSE
  <2>1. Queued(i + 1, "release", d) /\ i + 1 \in 1..Len(inbox) /\ i \in Nat
    BY <1>1, <1>3, <1>6
  <2>2. CASE inv'[d] = inv[d]
    BY <1>6, <2>1, <2>2 DEF GateInv, GateOrder, NoReleaseAhead
  <2>3. CASE inv'[d] # inv[d]
    <3>1. inv[d] = "requesting" /\ Queued(1, "acquire", d) /\ inbox[1].attempt = attempt[d]
      BY <1>6, <2>3 DEF ServedInv
    <3>2. i + 1 < 1
      BY <1>1, <2>1, <3>1 DEF GateInv, GateOrder, AcquireIsLast
    <3> QED
      BY <2>1, <3>2
  <2> QED
    BY <2>2, <2>3
<1>7. AcquireIsLast'
  BY <1>4, <1>5 DEF AcquireIsLast, Queued
<1>8. NoReleaseAhead'
  BY <1>6 DEF NoReleaseAhead, Queued
<1> QED
  BY <1>2, <1>7, <1>8

\* Answering a call touches only the caller, and only if it still waits for the answer.
LEMMA AnsweredServes ==
    ASSUME TypeOK, Serving("acquire"), NEW pc \in {"parked", "failing"},
           inv' = Answered(Head(inbox), pc)
    PROVE  /\ \A d \in Deployments : ServedInv(d)
           /\ \A d \in Deployments :
                 inv'[d] = "requesting" => ~(Head(inbox).id = d /\ Head(inbox).attempt = attempt[d])
<1>1. /\ inbox # <<>> /\ Head(inbox) = inbox[1] /\ 1 \in 1..Len(inbox)
      /\ inbox[1].op = "acquire" /\ inbox[1].id \in Deployments
  BY FirstCall DEF Serving
<1> QED
  BY <1>1 DEF ServedInv, Answered, Queued, TypeOK, InvStates

\* An attempt that the service has not seen is not woken.
LEMMA ServeUnseen ==
    ASSUME GateInv, attempt' = attempt, Serving("acquire"), NEW granted, NEW rejected,
           awake' = Woken(granted, rejected, Stored(Head(inbox))),
           entry' = Stored(Head(inbox)) \/ entry' = entry,
           \A d \in Deployments : ServedInv(d),
           \A d \in Deployments :
              inv'[d] = "requesting" => ~(Head(inbox).id = d /\ Head(inbox).attempt = attempt[d])
    PROVE  NotServedYet'
<1> DEFINE call == Head(inbox)
<1>1. /\ call = inbox[1] /\ 1 \in 1..Len(inbox) /\ call.op = "acquire"
      /\ call.id \in Deployments /\ call.attempt \in Nat
  BY FirstCall DEF GateInv, Serving
<1>2. ASSUME NEW d \in Deployments, inv'[d] \in {"queued", "requesting"}
      PROVE  entry'[d] # attempt'[d] /\ awake'[d] = "pending"
  <2>1. inv[d] = inv'[d]
    BY <1>2 DEF ServedInv
  <2>2. entry[d] # attempt[d] /\ awake[d] = "pending"
    BY <1>2, <2>1 DEF GateInv, GateOrder, NotServedYet
  <2>3. ~(call.id = d /\ call.attempt = attempt[d])
    <3>1. CASE inv[d] = "queued"
      BY <1>1, <3>1 DEF GateInv, GateOrder, AcquireIsLast, Queued
    <3>2. CASE inv[d] = "requesting"
      BY <2>1, <3>2
    <3> QED
      BY <1>2, <2>1, <3>1, <3>2
  <2>4. Stored(call)[d] # attempt[d]
    BY <1>1, <2>2, <2>3 DEF Stored, GateInv, TypeOK
  <2> HIDE DEF call
  <2>5. Woken(granted, rejected, Stored(call))[d] = awake[d]
    BY <2>4 DEF Woken
  <2> QED
    BY <2>2, <2>4, <2>5 DEF call
<1> QED
  BY <1>2 DEF NotServedYet

\* The entries stay those of attempts that have started.
LEMMA ServeEntry ==
    ASSUME GateInv, attempt' = attempt, inbox # <<>>,
           entry' = Stored(Head(inbox)) \/ entry' = entry
    PROVE  \A d \in Deployments : entry'[d] <= attempt'[d]
<1>1. /\ Head(inbox) = inbox[1] /\ inbox[1].id \in Deployments
      /\ inbox[1].attempt <= attempt[inbox[1].id]
  BY FirstCall DEF GateInv, GateOrder, NoFutureAttempt
<1>2. entry \in [Deployments -> Nat] /\ \A d \in Deployments : entry[d] <= attempt[d]
  BY DEF GateInv, GateOrder, NoFutureAttempt, TypeOK
<1>3. \A d \in Deployments : Stored(inbox[1])[d] <= attempt[d]
  BY <1>1, <1>2 DEF Stored
<1> QED
  BY <1>1, <1>2, <1>3

\* Who is woken holds a slot after the step, and a slot is only taken from a deployment
\* whose row ends with it or whose invocation is past the build.
LEMMA WokenHolds ==
    ASSUME GateInv, NEW granted, NEW rejected, NEW stored,
           awake' = Woken(granted, rejected, stored),
           \A d \in Deployments : ServedInv(d),
           \A d \in Deployments : status'[d] = "active" => status[d] = "active",
           \A d \in Deployments : d \in granted => d \in active',
           SlotsStay
    PROVE  GrantedHolds'
<1>2. ASSUME NEW d \in Deployments, inv'[d] = "parked",
             awake'[d] = "granted", status'[d] = "active"
      PROVE  d \in active'
  <2>1. CASE awake[d] = "granted"
    <3>1. inv[d] # "requesting"
      BY <2>1 DEF GateInv, GateOrder, NotServedYet
    <3>2. inv[d] = inv'[d]
      BY <3>1 DEF ServedInv
    <3>3. status[d] = "active" /\ d \in active
      BY <1>2, <2>1, <3>2 DEF GateInv, GateOrder, GrantedHolds
    <3> QED
      BY <1>2, <3>2, <3>3 DEF SlotsStay
  <2>2. CASE awake[d] # "granted"
    BY <1>2, <2>2 DEF Woken
  <2> QED
    BY <2>1, <2>2
<1> QED
  BY <1>2 DEF GrantedHolds

\* Resolving nobody changes no awakeable.
LEMMA WokenNobody ==
    ASSUME TypeOK, NEW stored
    PROVE  awake = Woken({}, {}, stored)
<1>1. \A d \in Deployments : Woken({}, {}, stored)[d] = awake[d]
  BY DEF Woken
<1>2. awake = [d \in Deployments |-> awake[d]]
  BY DEF TypeOK
<1>3. Woken({}, {}, stored) = [d \in Deployments |-> Woken({}, {}, stored)[d]]
  BY DEF Woken
<1> QED
  BY <1>1, <1>2, <1>3, Zenon

\* A row that is still active was active and was not force-failed.
LEMMA EndedActive ==
    ASSUME NEW S, status' = Ended(S)
    PROVE  \A d \in Deployments : status'[d] = "active" => status[d] = "active" /\ d \notin S
BY DEF Ended

\* The outcomes of AcquireOrWait.
LEMMA AcquireGate ==
    ASSUME GateInv, AcquireTracked \/ AcquireFails \/ AcquireGrants \/ AcquireAudits
    PROVE  GateOrder' /\ SlotsStay
<1> DEFINE call == Head(inbox)
<1>1. Serving("acquire") /\ inbox # <<>> /\ inbox' = Tail(inbox) /\ UNCHANGED attempt
  BY DEF AcquireTracked, AcquireFails, AcquireGrants, AcquireAudits, Serving
<1>2. PICK pc \in {"parked", "failing"} : inv' = Answered(call, pc)
  BY DEF AcquireTracked, AcquireFails, AcquireGrants, AcquireAudits
<1>3. /\ \A d \in Deployments : ServedInv(d)
      /\ \A d \in Deployments :
            inv'[d] = "requesting" => ~(call.id = d /\ call.attempt = attempt[d])
  BY <1>1, <1>2, AnsweredServes DEF GateInv
<1>4. entry' = Stored(call) \/ entry' = entry
  BY DEF AcquireTracked, AcquireFails, AcquireGrants, AcquireAudits, slotVars
<1>5. NoFutureAttempt' /\ AcquireIsLast' /\ NoReleaseAhead'
  <2>1. /\ \A i \in 1..Len(inbox') : inbox'[i].attempt <= attempt'[inbox'[i].id]
        /\ AcquireIsLast' /\ NoReleaseAhead'
    BY <1>1, <1>3, ServeQueue
  <2>2. \A d \in Deployments : entry'[d] <= attempt'[d]
    BY <1>1, <1>4, ServeEntry
  <2> QED
    BY <2>1, <2>2 DEF NoFutureAttempt
<1>6. \E granted, rejected :
         /\ awake' = Woken(granted, rejected, Stored(call))
         /\ \A d \in Deployments : status'[d] = "active" => status[d] = "active"
         /\ \A d \in Deployments : d \in granted => d \in active'
         /\ SlotsStay
  <2>1. CASE AcquireTracked
    <3>1. active' = active /\ status' = status
      BY <2>1 DEF AcquireTracked, slotVars, rowVars
    <3>2. CASE call.id \in active
      <4>1. awake' = Woken({call.id}, {}, Stored(call))
        BY <2>1, <3>2 DEF AcquireTracked
      <4> QED
        BY <3>1, <3>2, <4>1 DEF SlotsStay
    <3>3. CASE call.id \notin active
      <4>1. awake' = Woken({}, {}, Stored(call))
        BY <2>1, <3>3, WokenNobody DEF AcquireTracked, GateInv
      <4> QED
        BY <3>1, <4>1 DEF SlotsStay
    <3> QED
      BY <3>2, <3>3
  <2>2. CASE AcquireFails
    <3>1. active' = active /\ status' = status /\ awake' = awake
      BY <2>2 DEF AcquireFails, slotVars, rowVars
    <3>2. awake' = Woken({}, {}, Stored(call))
      BY <3>1, WokenNobody DEF GateInv
    <3> QED
      BY <3>1, <3>2 DEF SlotsStay
  <2>3. CASE AcquireGrants
    BY <2>3 DEF AcquireGrants, rowVars, SlotsStay
  <2>4. CASE AcquireAudits
    <3>1. PICK audit \in Audits(active \cup Waiting) : \E promoted \in Reclaims(audit.dead) :
             /\ status' = Ended(audit.ended)
             /\ \/ /\ active' = ((active \ audit.dead) \cup promoted) \cup {call.id}
                   /\ awake' = Woken(promoted \cup {call.id}, audit.dead \cap Waiting, Stored(call))
                \/ /\ active' = (active \ audit.dead) \cup promoted
                   /\ awake' = Woken(promoted, audit.dead \cap Waiting, Stored(call))
      BY <2>4, AuditShape DEF GateInv
    <3>2. PICK promoted \in Reclaims(audit.dead) :
             /\ status' = Ended(audit.ended)
             /\ \/ /\ active' = ((active \ audit.dead) \cup promoted) \cup {call.id}
                   /\ awake' = Woken(promoted \cup {call.id}, audit.dead \cap Waiting, Stored(call))
                \/ /\ active' = (active \ audit.dead) \cup promoted
                   /\ awake' = Woken(promoted, audit.dead \cap Waiting, Stored(call))
      BY <3>1
    <3>3. audit.dead \subseteq audit.ended
      BY <3>1 DEF Audits
    <3>4. \A d \in Deployments : status'[d] = "active" => status[d] = "active" /\ d \notin audit.ended
      BY <3>2, EndedActive
    <3>5. \A d \in Deployments : d \in active /\ status'[d] = "active" => d \in active'
      BY <3>2, <3>3, <3>4
    <3> HIDE DEF call
    <3> QED
      BY <3>2, <3>4, <3>5 DEF SlotsStay
  <2> QED
    BY <2>1, <2>2, <2>3, <2>4
<1>7. NotServedYet' /\ GrantedHolds' /\ SlotsStay
  <2> HIDE DEF call
  <2>1. PICK granted, rejected :
         /\ awake' = Woken(granted, rejected, Stored(call))
         /\ \A d \in Deployments : status'[d] = "active" => status[d] = "active"
         /\ \A d \in Deployments : d \in granted => d \in active'
         /\ SlotsStay
    BY <1>6
  <2>2. GrantedHolds'
    BY <1>3, <2>1, WokenHolds
  <2>3. NotServedYet'
    BY <1>1, <1>3, <1>4, <2>1, ServeUnseen DEF call
  <2> QED
    BY <2>1, <2>2, <2>3
<1> QED
  BY <1>5, <1>7 DEF GateOrder

\* d is not building, or loses its slot together with its row.
LeavesWithRow(d, failed) ==
    d \in active /\ status[d] = "active" /\ inv[d] \in {"parked", "building"} => d \in failed

\* A slot is handed on: by a release, which its attempt sent last, or by a lease that
\* has ended, which ends the row as well.
LEMMA HandOffGate ==
    ASSUME GateInv, NEW d \in Deployments, NEW t, NEW rejected, NEW failed,
           HandOff(d, t, rejected, failed), UNCHANGED <<entry, inv, attempt>>,
           LeavesWithRow(d, failed)
    PROVE  NotServedYet' /\ GrantedHolds' /\ SlotsStay
<1>1. PICK audit \in Audits(IF d \in active THEN Waiting \ {d} ELSE {}) :
      \E promoted \in Heads((Waiting \ {d}) \ audit.dead, IF d \in active THEN 1 ELSE 0) :
        /\ active' = (active \ {d}) \cup promoted
        /\ awake' = Woken(promoted, audit.dead \cup rejected, entry)
        /\ status' = Ended(audit.ended \cup failed)
  BY DEF HandOff
<1>2. PICK promoted \in Heads((Waiting \ {d}) \ audit.dead, IF d \in active THEN 1 ELSE 0) :
        /\ active' = (active \ {d}) \cup promoted
        /\ awake' = Woken(promoted, audit.dead \cup rejected, entry)
        /\ status' = Ended(audit.ended \cup failed)
  BY <1>1
<1>3. \A e \in Deployments :
         status'[e] = "active" => status[e] = "active" /\ e \notin audit.ended \cup failed
  BY <1>2, EndedActive
<1>4. SlotsStay
  BY <1>2, <1>3 DEF LeavesWithRow, SlotsStay
<1>5. \A e \in Deployments : ServedInv(e)
  BY DEF ServedInv
<1>6. GrantedHolds'
  <2>1. \A e \in Deployments : status'[e] = "active" => status[e] = "active"
    BY <1>3
  <2>2. \A e \in Deployments : e \in promoted => e \in active'
    BY <1>2
  <2> QED
    BY <1>2, <1>4, <1>5, <2>1, <2>2, WokenHolds
<1>7. NotServedYet'
  BY <1>2 DEF GateInv, GateOrder, NotServedYet, Woken
<1> QED
  BY <1>4, <1>6, <1>7

\* A release that is served is for no attempt that waits or builds.
LEMMA ReleaseGate ==
    ASSUME GateInv, Release
    PROVE  GateOrder' /\ SlotsStay
<1> DEFINE call == Head(inbox)
<1>1. /\ inbox # <<>> /\ call.op = "release" /\ inbox' = Tail(inbox)
      /\ HandOff(call.id, timers, {}, {}) /\ UNCHANGED <<entry, inv, attempt>>
  BY DEF Release, Serving
<1>2. call = inbox[1] /\ 1 \in 1..Len(inbox) /\ call.id \in Deployments
  BY <1>1, FirstCall DEF GateInv
<1>3. inv[call.id] \notin {"parked", "building"}
  BY <1>1, <1>2 DEF GateInv, GateOrder, NoReleaseAhead, Queued
<1>4. \A d \in Deployments : ServedInv(d)
  BY <1>1 DEF ServedInv
<1>5. /\ \A i \in 1..Len(inbox') : inbox'[i].attempt <= attempt'[inbox'[i].id]
      /\ AcquireIsLast' /\ NoReleaseAhead'
  BY <1>1, <1>4, ServeQueue
<1>6. \A d \in Deployments : entry'[d] <= attempt'[d]
  BY <1>1, ServeEntry
<1> HIDE DEF call
<1>7. NotServedYet' /\ GrantedHolds' /\ SlotsStay
  BY <1>1, <1>2, <1>3, HandOffGate DEF LeavesWithRow
<1> QED
  BY <1>5, <1>6, <1>7 DEF GateOrder, NoFutureAttempt

\* A step that leaves the inbox and the invocations alone.
LEMMA QueueUnchanged ==
    ASSUME GateInv, UNCHANGED <<inbox, inv, attempt, entry>>
    PROVE  NoFutureAttempt' /\ AcquireIsLast' /\ NoReleaseAhead'
BY DEF GateInv, GateOrder, NoFutureAttempt, AcquireIsLast, NoReleaseAhead, Queued

\* A lease check takes no slot from a build whose row is active.
LEMMA ExpireGate ==
    ASSUME GateInv, NEW d \in Deployments, NEW r \in 0..MaxRenewals, ExpireSlot(d, r)
    PROVE  GateOrder' /\ SlotsStay
<1>1. CASE ExpireReclaims(d, r)
  <2>1. /\ UNCHANGED <<inbox, inv, attempt, entry>>
        /\ HandOff(d, Fired(d, r), Waiting \cap {d}, IF MustForceFail(d) THEN {d} ELSE {})
    BY <1>1 DEF ExpireReclaims
  <2>2. LeavesWithRow(d, IF MustForceFail(d) THEN {d} ELSE {})
    BY DEF MustForceFail, LeavesWithRow
  <2>3. NotServedYet' /\ GrantedHolds' /\ SlotsStay
    BY <2>1, <2>2, HandOffGate
  <2> QED
    BY <2>1, <2>3, QueueUnchanged DEF GateOrder
<1>2. CASE ~ExpireReclaims(d, r)
  <2>1. /\ UNCHANGED <<inbox, inv, attempt, entry, active, awake>>
        /\ status' = status \/ \E failed \in SUBSET {d} : status' = Ended(failed)
    BY <1>2 DEF ExpireSlot, ExpireUntracked, ExpireCheckFails, ExpireRenews,
                ExpireForceFailFails, deployVars, rowVars
  <2>2. \A e \in Deployments : status'[e] = "active" => status[e] = "active"
    BY <2>1, EndedActive
  <2>3. NotServedYet' /\ GrantedHolds' /\ SlotsStay
    BY <2>1, <2>2 DEF GateInv, GateOrder, NotServedYet, GrantedHolds, SlotsStay
  <2> QED
    BY <2>1, <2>3, QueueUnchanged DEF GateOrder
<1> QED
  BY <1>1, <1>2

\* A call is sent for d: nobody else's calls move. Its acquire goes behind everything
\* that earlier attempts left in the inbox; its release is sent on leaving.
LEMMA SendGate ==
    ASSUME GateInv, NEW d \in Deployments, Start(d) \/ SendRelease(d)
    PROVE  GateOrder'
<1> DEFINE n == Len(inbox) + 1
           Q(i, o, e) == i \in 1..Len(inbox') /\ inbox'[i].op = o /\ inbox'[i].id = e
<1>1. /\ UNCHANGED <<active, entry, attempt, awake, status>>
      /\ \A e \in Deployments \ {d} : inv'[e] = inv[e]
  BY DEF Start, SendRelease, slotVars, rowVars, GateInv, TypeOK
<1>2. PICK op \in {"acquire", "release"} :
        /\ inbox' = Sent(op, d)
        /\ op = "acquire" => inv[d] = "queued" /\ inv'[d] = "requesting"
        /\ op = "release" => inv'[d] \in {"gone", "marking"}
  <2>1. CASE Start(d)
    BY <2>1 DEF Start, GateInv, TypeOK
  <2>2. CASE SendRelease(d)
    <3>1. inbox' = Sent("release", d) /\ inv'[d] \in {"gone", "marking"}
      BY <2>2 DEF SendRelease, GateInv, TypeOK
    <3> QED
      BY <3>1
  <2> QED
    BY <2>1, <2>2
<1> DEFINE m == [op |-> op, id |-> d, attempt |-> attempt[d]]
<1>3. m \in Messages /\ m.op = op /\ m.id = d /\ m.attempt = attempt[d]
  BY DEF GateInv, TypeOK, Messages
<1>4. inbox' = Append(inbox, m)
  BY <1>2 DEF Sent
<1> HIDE DEF m
<1>5. /\ Len(inbox) \in Nat /\ Len(inbox') = n
      /\ \A i \in 1..Len(inbox) : inbox'[i] = inbox[i]
      /\ inbox'[n] = m
  BY <1>3, <1>4, AppendAt DEF GateInv
<1>6. /\ \A i \in 1..Len(inbox') : i \in 1..Len(inbox) \/ i = n
      /\ \A i \in 1..Len(inbox) : i < n
      /\ \A d1 \in Deployments : attempt[d1] \in Nat
  BY <1>5 DEF GateInv, TypeOK
<1> HIDE DEF n
<1>7. NoFutureAttempt'
  BY <1>1, <1>3, <1>5, <1>6 DEF GateInv, GateOrder, NoFutureAttempt
<1>8. NotServedYet'
  BY <1>1, <1>2 DEF GateInv, GateOrder, NotServedYet
<1>9. ASSUME NEW i, NEW o, NEW e, Q(i, o, e)
      PROVE  \/ Queued(i, o, e) /\ i \in 1..Len(inbox)
             \/ i = n /\ o = op /\ e = d
  <2>1. CASE i \in 1..Len(inbox)
    BY <1>5, <1>9, <2>1 DEF Queued
  <2>2. CASE i = n
    BY <1>3, <1>5, <1>9, <2>2
  <2> QED
    BY <1>6, <1>9, <2>1, <2>2
<1>10. AcquireIsLast'
  <2>1. ASSUME NEW e \in Deployments, inv'[e] = "queued", NEW i \in 1..Len(inbox'),
               Q(i, "acquire", e), inbox'[i].attempt = attempt'[e]
        PROVE  FALSE
    <3>1. e # d
      BY <1>2, <2>1
    <3>2. Queued(i, "acquire", e) /\ i \in 1..Len(inbox) /\ inbox[i].attempt = attempt[e]
      BY <1>1, <1>5, <1>9, <2>1, <3>1
    <3> QED
      BY <1>1, <2>1, <3>1, <3>2 DEF GateInv, GateOrder, AcquireIsLast
  <2>2. ASSUME NEW e \in Deployments, inv'[e] = "requesting",
               NEW i \in 1..Len(inbox'), NEW j \in 1..Len(inbox'),
               Q(i, "release", e), Q(j, "acquire", e), inbox'[j].attempt = attempt'[e]
        PROVE  i < j
    <3>1. CASE e = d
      <4>1. op = "acquire" /\ inv[d] = "queued"
        BY <1>2, <2>2, <3>1
      <4>2. i \in 1..Len(inbox)
        BY <1>9, <2>2, <4>1
      <4>3. j = n
        BY <1>1, <1>5, <1>9, <2>2, <3>1, <4>1 DEF GateInv, GateOrder, AcquireIsLast
      <4> QED
        BY <1>6, <4>2, <4>3
    <3>2. CASE e # d
      <4>1. /\ Queued(i, "release", e) /\ Queued(j, "acquire", e)
            /\ i \in 1..Len(inbox) /\ j \in 1..Len(inbox) /\ inbox[j].attempt = attempt[e]
        BY <1>1, <1>5, <1>9, <2>2, <3>2
      <4> QED
        BY <1>1, <2>2, <3>2, <4>1 DEF GateInv, GateOrder, AcquireIsLast
    <3> QED
      BY <3>1, <3>2
  <2> QED
    BY <2>1, <2>2 DEF AcquireIsLast, Queued
<1>11. NoReleaseAhead'
  <2>1. ASSUME NEW e \in Deployments, inv'[e] \in {"parked", "building"},
               NEW i \in 1..Len(inbox'), Q(i, "release", e)
        PROVE  FALSE
    <3>1. e # d
      BY <1>2, <2>1
    <3>2. Queued(i, "release", e) /\ i \in 1..Len(inbox)
      BY <1>9, <2>1, <3>1
    <3> QED
      BY <1>1, <2>1, <3>1, <3>2 DEF GateInv, GateOrder, NoReleaseAhead
  <2> QED
    BY <2>1 DEF NoReleaseAhead, Queued
<1>12. GrantedHolds'
  BY <1>1, <1>2 DEF GateInv, GateOrder, GrantedHolds
<1> QED
  BY <1>7, <1>8, <1>10, <1>11, <1>12 DEF GateOrder

\* The other steps of Deploy send nothing; a new attempt starts unknown to the service.
LEMMA DeployGate ==
    ASSUME GateInv, NEW d \in Deployments, Deploy(d) \/ RowEnds(d)
    PROVE  GateOrder'
<1>1. CASE Start(d) \/ SendRelease(d)
  BY <1>1, SendGate
<1>2. CASE SendAgain(d)
  <2>1. /\ UNCHANGED <<active, entry, inbox, status>>
        /\ inv'[d] = "queued" /\ attempt'[d] = attempt[d] + 1 /\ awake'[d] = "pending"
        /\ \A e \in Deployments \ {d} :
              inv'[e] = inv[e] /\ attempt'[e] = attempt[e] /\ awake'[e] = awake[e]
    BY <1>2 DEF SendAgain, slotVars, rowVars, GateInv, TypeOK
  <2>2. /\ Len(inbox) \in Nat
        /\ \A i \in 1..Len(inbox) : inbox[i].id \in Deployments /\ inbox[i].attempt \in Nat
        /\ \A e \in Deployments : attempt[e] \in Nat /\ entry[e] \in Nat
    BY InboxTypes DEF GateInv
  <2>3. \A e \in Deployments : attempt[e] <= attempt'[e] /\ attempt'[e] \in Nat
    BY <2>1, <2>2
  <2>4. NoFutureAttempt'
    <3>1. \A i \in 1..Len(inbox) : inbox[i].attempt <= attempt'[inbox[i].id]
      BY <2>2, <2>3 DEF GateInv, GateOrder, NoFutureAttempt
    <3>2. \A e \in Deployments : entry[e] <= attempt'[e]
      BY <2>2, <2>3 DEF GateInv, GateOrder, NoFutureAttempt
    <3> QED
      BY <2>1, <3>1, <3>2 DEF NoFutureAttempt
  <2>5. entry[d] # attempt'[d] /\ \A i \in 1..Len(inbox) : inbox[i].id = d => inbox[i].attempt # attempt'[d]
    BY <2>1, <2>2 DEF GateInv, GateOrder, NoFutureAttempt
  <2>6. NotServedYet'
    BY <2>1, <2>5 DEF GateInv, GateOrder, NotServedYet
  <2>7. AcquireIsLast'
    BY <2>1, <2>5 DEF GateInv, GateOrder, AcquireIsLast, Queued
  <2>8. NoReleaseAhead' /\ GrantedHolds'
    BY <2>1 DEF GateInv, GateOrder, NoReleaseAhead, GrantedHolds, Queued
  <2> QED
    BY <2>4, <2>6, <2>7, <2>8 DEF GateOrder
<1>3. CASE \/ Supersede(d) \/ BeginBuild(d) \/ DeploymentStep(d) \/ Finish(d) \/ Fail(d)
           \/ MarkFailed(d) \/ Kill(d) \/ RowEnds(d)
  <2>1. /\ UNCHANGED <<active, entry, inbox, attempt, awake>>
        /\ \A e \in Deployments \ {d} : inv'[e] = inv[e]
    BY <1>3 DEF Supersede, BeginBuild, DeploymentStep, Finish, Fail, MarkFailed, Kill,
                RowEnds, slotVars, deployVars, GateInv, TypeOK
  <2>2. \A e \in Deployments :
           status'[e] = "active" /\ inv'[e] = "parked" => status[e] = "active"
    <3>1. CASE DeploymentStep(d)
      <4>1. inv'[d] = "building" /\ \A e \in Deployments \ {d} : status'[e] = status[e]
        BY <3>1 DEF DeploymentStep, deployVars, GateInv, TypeOK
      <4> QED
        BY <4>1
    <3>2. CASE ~DeploymentStep(d)
      <4>1. status' = status \/ \E S : status' = Ended(S)
        BY <1>3, <3>2 DEF Supersede, BeginBuild, Finish, Fail, MarkFailed, Kill, RowEnds,
                          rowVars
      <4> QED
        BY <4>1, EndedActive
    <3> QED
      BY <3>1, <3>2
  <2>3. \/ inv'[d] = inv[d]
        \/ inv[d] = "parked" /\ inv'[d] = "building" /\ awake[d] = "granted"
        \/ inv'[d] \in {"gone", "ready", "failing", "marking"}
    <3>1. inv \in [Deployments -> InvStates]
      BY DEF GateInv, TypeOK
    <3>2. CASE Fail(d)
      BY <3>1, <3>2 DEF Fail
    <3>3. CASE RowEnds(d) \/ DeploymentStep(d)
      BY <3>3 DEF RowEnds, DeploymentStep, deployVars
    <3> QED
      BY <1>3, <3>1, <3>2, <3>3 DEF Supersede, BeginBuild, Finish, MarkFailed, Kill
  <2>4. \A e \in Deployments :
           /\ inv'[e] \in {"queued", "requesting"} => inv[e] = inv'[e]
           /\ inv'[e] \in {"parked", "building"} => inv[e] \in {"parked", "building"}
           /\ inv'[e] = "parked" => inv[e] = "parked"
    BY <2>1, <2>3
  <2>5. NoFutureAttempt' /\ NotServedYet'
    BY <2>1, <2>4 DEF GateInv, GateOrder, NoFutureAttempt, NotServedYet
  <2>6. AcquireIsLast'
    BY <2>1, <2>4 DEF GateInv, GateOrder, AcquireIsLast, Queued
  <2>7. NoReleaseAhead'
    BY <2>1, <2>4 DEF GateInv, GateOrder, NoReleaseAhead, Queued
  <2>8. GrantedHolds'
    BY <2>1, <2>2, <2>4 DEF GateInv, GateOrder, GrantedHolds
  <2> QED
    BY <2>5, <2>6, <2>7, <2>8 DEF GateOrder
<1> QED
  BY <1>1, <1>2, <1>3 DEF Deploy

\* No invocation has called yet.
LEMMA InitGate == Init => GateOrder
<1> SUFFICES ASSUME Init PROVE GateOrder
  OBVIOUS
<1>1. inbox = <<>> /\ Len(inbox) = 0
  BY DEF Init
<1>2. NoFutureAttempt /\ NotServedYet
  BY <1>1 DEF Init, NoFutureAttempt, NotServedYet
<1>3. AcquireIsLast /\ NoReleaseAhead /\ GrantedHolds
  BY <1>1 DEF Init, AcquireIsLast, NoReleaseAhead, GrantedHolds
<1> QED
  BY <1>2, <1>3 DEF GateOrder

\* The order of calls is preserved by every step.
LEMMA StepGate == WorkInv /\ GateOrder /\ [Next]_vars => GateOrder' /\ SlotsStay
<1> SUFFICES ASSUME GateInv, [Next]_vars PROVE GateOrder' /\ SlotsStay
  BY DEF WorkInv, GateInv
<1>1. CASE Handle
  BY <1>1, AcquireGate, ReleaseGate DEF Handle
<1>2. CASE \E d \in Deployments, r \in 0..MaxRenewals : ExpireSlot(d, r)
  BY <1>2, ExpireGate
<1>3. CASE \E d \in Deployments : Deploy(d) \/ RowEnds(d)
  <2>1. active' = active
    BY <1>3 DEF Deploy, RowEnds, Start, Supersede, BeginBuild, DeploymentStep, Finish,
                SendRelease, Fail, MarkFailed, Kill, SendAgain, slotVars
  <2> QED
    BY <1>3, <2>1, DeployGate DEF SlotsStay
<1>4. CASE SetLimit \/ UNCHANGED vars
  <2>1. UNCHANGED <<active, entry, inbox, inv, attempt, awake, status>>
    BY <1>4 DEF SetLimit, vars, slotVars, deployVars, rowVars
  <2>2. NotServedYet' /\ GrantedHolds' /\ SlotsStay
    BY <2>1 DEF GateInv, GateOrder, NotServedYet, GrantedHolds, SlotsStay
  <2> QED
    BY <2>1, <2>2, QueueUnchanged DEF GateOrder
<1> QED
  BY <1>1, <1>2, <1>3, <1>4 DEF Next

\* A deployment begins to build when its awakeable has won, and in no other step.
LEMMA BeginsGranted ==
    ASSUME GateInv, [Next]_vars, NEW d \in Deployments,
           inv[d] = "parked", inv'[d] = "building"
    PROVE  awake[d] = "granted"
<1>1. inv \in [Deployments -> InvStates]
  BY DEF GateInv, TypeOK
<1>2. ASSUME NEW call, NEW pc \in {"parked", "failing"}, inv' = Answered(call, pc)
      PROVE  FALSE
  BY <1>1, <1>2 DEF Answered
<1>3. CASE Handle
  <2>1. (\E pc \in {"parked", "failing"} : inv' = Answered(Head(inbox), pc)) \/ inv' = inv
    BY <1>3 DEF Handle, AcquireTracked, AcquireFails, AcquireGrants, AcquireAudits, Release
  <2> QED
    BY <1>2, <2>1
<1>4. CASE \/ \E e \in Deployments, r \in 0..MaxRenewals : ExpireSlot(e, r)
           \/ SetLimit \/ UNCHANGED vars
  <2>1. inv' = inv
    BY <1>4 DEF ExpireSlot, ExpireUntracked, ExpireCheckFails, ExpireRenews,
                ExpireForceFailFails, ExpireReclaims, SetLimit, vars, deployVars
  <2> QED
    BY <2>1
<1>5. ASSUME NEW e \in Deployments, Deploy(e) \/ RowEnds(e)
      PROVE  awake[d] = "granted"
  <2>1. CASE BeginBuild(e)
    BY <1>1, <2>1 DEF BeginBuild
  <2>2. CASE Fail(e) \/ SendRelease(e)
    BY <1>1, <2>2 DEF Fail, SendRelease
  <2>3. CASE RowEnds(e) \/ DeploymentStep(e)
    BY <2>3 DEF RowEnds, DeploymentStep, deployVars
  <2>4. CASE \/ Start(e) \/ Supersede(e) \/ Finish(e) \/ MarkFailed(e) \/ Kill(e)
             \/ SendAgain(e)
    BY <1>1, <2>4 DEF Start, Supersede, Finish, MarkFailed, Kill, SendAgain
  <2> QED
    BY <1>5, <2>1, <2>2, <2>3, <2>4 DEF Deploy
<1> QED
  BY <1>3, <1>4, <1>5 DEF Next

\* For any number of deployments, attempts sent twice, calls left in the inbox and rows
\* that steps of a build make active again: a build begins with a slot unless its row had
\* ended, and loses it only with its row.
THEOREM SlotKeptWhileBuilding == Spec => BuildKeepsSlot
<1> DEFINE Keeps ==
        \A d \in Deployments :
          /\ inv[d] = "parked" /\ inv'[d] = "building" => d \in active \/ status[d] = "ended"
          /\ inv[d] = "building" /\ d \in active \ active' => status'[d] = "ended"
<1>1. WorkInv /\ WorkInv' /\ GateOrder /\ [Next]_vars => Keeps
  <2> SUFFICES ASSUME WorkInv, WorkInv', GateOrder, [Next]_vars, NEW d \in Deployments
               PROVE  /\ inv[d] = "parked" /\ inv'[d] = "building"
                            => d \in active \/ status[d] = "ended"
                      /\ inv[d] = "building" /\ d \in active \ active' => status'[d] = "ended"
    OBVIOUS
  <2>1. status[d] \in {"active", "ended"} /\ status'[d] \in {"active", "ended"}
    BY DEF WorkInv, TypeOK
  <2>2. ASSUME inv[d] = "parked", inv'[d] = "building"
        PROVE  d \in active \/ status[d] = "ended"
    <3>1. awake[d] = "granted"
      BY <2>2, BeginsGranted DEF WorkInv, GateInv
    <3> QED
      BY <2>1, <2>2, <3>1 DEF GateOrder, GrantedHolds
  <2>3. SlotsStay
    BY StepGate
  <2> QED
    BY <2>1, <2>2, <2>3 DEF SlotsStay
<1>2. Keeps => [Keeps]_vars
  OBVIOUS
<1> QED
  BY <1>1, InitGate, StepGate, WorkInvariant, PTL DEF Spec, BuildKeepsSlot
----------------------------------------------------------------------------
\* The abstract gate

\* The line of the gate is what waits, in the same order.
LEMMA GateLine ==
    ASSUME NEW gone, NEW promoted
    PROVE  /\ Gate!Line = Waiting
           /\ Gate!Held(gone, promoted) = (active \ gone) \cup promoted
           /\ Gate!Left(gone, promoted) = Waiting \ (gone \cup promoted)
           /\ Gate!Vacated(gone, promoted) = Without(gone \cup promoted)
           /\ \A p, q : Precedes(p, q) => Gate!Precedes(p, q)
<1>1. Gate!Line = Waiting
  BY DEF Gate!Line, Waiting
<1>2. Gate!Held(gone, promoted) = (active \ gone) \cup promoted
  BY DEF Gate!Held
<1>3. Gate!Left(gone, promoted) = Waiting \ (gone \cup promoted)
  BY <1>1 DEF Gate!Left
<1>4. Gate!Vacated(gone, promoted) = Without(gone \cup promoted)
  BY DEF Gate!Vacated, Without
<1>5. \A p, q : Precedes(p, q) => Gate!Precedes(p, q)
  BY DEF Gate!Precedes, Precedes
<1> QED
  BY <1>1, <1>2, <1>3, <1>4, <1>5

\* The gate counts as FiniteSets does: the instance has the same definition.
LEMMA GateCardinality ==
    ASSUME NEW S
    PROVE  Gate!Cardinality(S) = Cardinality(S)
BY Zenon DEF Gate!Cardinality, Cardinality

\* What moving up means, in terms of the service.
LEMMA GateMovesUp ==
    ASSUME NEW gone, NEW promoted,
           promoted \subseteq Waiting \ gone,
           \A p \in promoted, q \in Waiting \ (gone \cup promoted) : Precedes(p, q),
           Cardinality((active \ gone) \cup promoted) <= Cardinality(active),
           Waiting \ (gone \cup promoted) # {} =>
              \/ Cardinality((active \ gone) \cup promoted) = Cardinality(active)
              \/ Cardinality((active \ gone) \cup promoted) >= limit
    PROVE  Gate!MovesUp(gone, promoted)
<1> DEFINE held == (active \ gone) \cup promoted
           left == Waiting \ (gone \cup promoted)
<1>1. Gate!Line = Waiting /\ Gate!Held(gone, promoted) = held /\ Gate!Left(gone, promoted) = left
  BY GateLine
<1>2. Gate!Cardinality(held) = Cardinality(held) /\ Gate!Cardinality(active) = Cardinality(active)
  BY GateCardinality
<1>3. \A p \in promoted, q \in left : Gate!Precedes(p, q)
  BY GateLine
<1>4. /\ Cardinality(held) <= Cardinality(active)
      /\ left # {} => Cardinality(held) = Cardinality(active) \/ Cardinality(held) >= limit
  OBVIOUS
<1> HIDE DEF held, left
<1> QED
  BY <1>1, <1>2, <1>3, <1>4 DEF Gate!MovesUp

\* A release or a lease that ends is a departure, in which the slot goes to the head of
\* the line.
LEMMA HandOffLeaves ==
    ASSUME WorkInv, NEW d \in Deployments, NEW t, NEW rejected, NEW failed,
           HandOff(d, t, rejected, failed), UNCHANGED <<limit, raised>>
    PROVE  Gate!Next
<1> DEFINE room == IF d \in active THEN 1 ELSE 0
<1>1. PICK audit \in Audits(IF d \in active THEN Waiting \ {d} ELSE {}) :
      \E promoted \in Heads((Waiting \ {d}) \ audit.dead, room) :
        /\ active' = (active \ {d}) \cup promoted
        /\ ticket' = Without({d} \cup audit.dead \cup promoted)
        /\ promoted \subseteq Waiting \ {d}
        /\ promoted \cap active = {}
  BY HandOffShape DEF WorkInv
<1>2. PICK promoted \in Heads((Waiting \ {d}) \ audit.dead, room) :
        /\ active' = (active \ {d}) \cup promoted
        /\ ticket' = Without({d} \cup audit.dead \cup promoted)
        /\ promoted \subseteq Waiting \ {d}
        /\ promoted \cap active = {}
  BY <1>1
<1> DEFINE gone == ({d} \cap (active \cup Waiting)) \cup audit.dead
<1>3. /\ active \subseteq Deployments /\ Waiting \subseteq Deployments
      /\ ticket \in [Deployments -> Nat] /\ Waiting \cap active = {}
  BY DEF WorkInv, TypeOK, Waiting, Disjoint
<1>4. audit.dead \subseteq Waiting \ {d}
  BY <1>1, AuditSubset
<1>5. gone \in SUBSET (active \cup Waiting) /\ promoted \in SUBSET Waiting
  BY <1>2, <1>4
<1>6. (active \ gone) \cup promoted = active'
  BY <1>2, <1>3, <1>4
<1>7. Without(gone \cup promoted) = ticket'
  <2>1. d \notin active \cup Waiting => ticket[d] = 0
    BY <1>3 DEF Waiting
  <2>2. \A e \in Deployments : e \notin gone \cup promoted /\ e \in {d} \cup audit.dead \cup promoted
                                 => ticket[e] = 0
    BY <2>1
  <2>3. Without(gone \cup promoted) = Without({d} \cup audit.dead \cup promoted)
    <3> HIDE DEF gone
    <3>1. gone \subseteq {d} \cup audit.dead
      BY DEF gone
    <3> QED
      BY <2>2, <3>1 DEF Without
  <2> QED
    BY <1>2, <2>3
<1>8. Waiting \ (gone \cup promoted) = ((Waiting \ {d}) \ audit.dead) \ promoted
  OBVIOUS
<1>9. \A p \in promoted, q \in Waiting \ (gone \cup promoted) : Precedes(p, q)
  BY <1>2, <1>8 DEF Heads
<1>10. Cardinality(active') <= Cardinality(active)
  BY HandOffBound DEF WorkInv
<1>11. ASSUME Waiting \ (gone \cup promoted) # {}
       PROVE  Cardinality(active') = Cardinality(active)
  <2>1. room \in Nat /\ (Waiting \ {d}) \ audit.dead \in SUBSET Deployments
    BY <1>3
  <2>2. Cardinality(promoted) = room
    <3>1. ((Waiting \ {d}) \ audit.dead) \ promoted # {}
      BY <1>8, <1>11
    <3> HIDE DEF room
    <3> QED BY <1>2, <2>1, <3>1, HeadsExact
  <2>3. IsFiniteSet(active) /\ Cardinality(active) \in Nat
    BY SlotsFinite DEF WorkInv
  <2>4. /\ IsFiniteSet(active \ {d})
        /\ Cardinality(active \ {d}) = IF d \in active THEN Cardinality(active) - 1
                                                      ELSE Cardinality(active)
    BY <2>3, FS_RemoveElement
  <2>5. IsFiniteSet(promoted)
    BY <1>2, <1>3, WaitingFinite
  <2>6. (active \ {d}) \cap promoted = {}
    BY <1>2
  <2>7. Cardinality(active') = Cardinality(active \ {d}) + Cardinality(promoted)
    BY <1>2, <2>4, <2>5, <2>6, DisjointUnion
  <2> QED
    BY <2>2, <2>3, <2>4, <2>7
<1> HIDE DEF gone
<1>12. Gate!MovesUp(gone, promoted)
  <2>1. promoted \subseteq Waiting \ gone
    BY <1>2, HeadsSubset DEF gone
  <2> QED
    BY <1>6, <1>9, <1>10, <1>11, <2>1, GateMovesUp
<1>13. Gate!Leave(gone, promoted)
  BY <1>6, <1>7, <1>12, GateLine DEF Gate!Leave
<1> QED
  BY <1>5, <1>13, GateLine DEF Gate!Next

\* What a reclaim promotes: the head of the line, into the slots of the dead, until the
\* line or the room below the limit is used up.
LEMMA ReclaimMoves ==
    ASSUME WorkInv, Cardinality(active) >= limit,
           NEW audit \in Audits(active \cup Waiting), NEW promoted \in Reclaims(audit.dead)
    PROVE  LET held == (active \ audit.dead) \cup promoted IN
           /\ audit.dead \in SUBSET (active \cup Waiting)
           /\ promoted \in SUBSET Waiting
           /\ Gate!MovesUp(audit.dead, promoted)
           /\ Cardinality(held) \in Nat
           /\ Waiting \ (audit.dead \cup promoted) # {} => Cardinality(held) >= limit
<1> DEFINE dead == audit.dead
           alive == active \ dead
           held == alive \cup promoted
           left == Waiting \ (dead \cup promoted)
<1>1. dead \in SUBSET (active \cup Waiting) /\ promoted \in SUBSET Waiting
  BY AuditSubset, ReclaimsSubset
<1>2. active \subseteq Deployments /\ Waiting \subseteq Deployments /\ Waiting \cap active = {}
  BY DEF WorkInv, TypeOK, Waiting, Disjoint
<1>3. /\ IsFiniteSet(active) /\ Cardinality(active) \in Nat /\ limit \in Nat
      /\ IsFiniteSet(alive) /\ IsFiniteSet(promoted) /\ Cardinality(alive) \in Nat
      /\ Cardinality(promoted) \in Nat
  BY <1>1, <1>2, SlotsFinite, WaitingFinite DEF WorkInv
<1>4. Cardinality(held) = Cardinality(alive) + Cardinality(promoted)
  <2>1. alive \cap promoted = {}
    BY <1>1, <1>2
  <2> QED
    BY <1>3, <2>1, DisjointUnion
<1>5. Cardinality(alive) <= Cardinality(active)
  BY <1>3, FS_Subset
<1>6. /\ promoted \subseteq Waiting \ dead
      /\ \A p \in promoted, q \in left : Precedes(p, q)
      /\ Cardinality(held) <= Cardinality(active)
      /\ left # {} => Cardinality(held) >= limit
  <2>1. CASE dead \cap active = {}
    <3>1. promoted = {} /\ held = active
      BY <1>1, <2>1 DEF Reclaims
    <3> HIDE DEF held, left
    <3> QED
      BY <1>3, <3>1
  <2>2. CASE dead \cap active # {}
    <3>1. promoted \in Heads(Waiting \ dead, Room(alive))
      BY <2>2 DEF Reclaims
    <3>2. Room(alive) \in Nat /\ Waiting \ dead \in SUBSET Deployments
      BY <1>2, <1>3 DEF Room
    <3>3. Cardinality(promoted) <= Room(alive)
      BY <3>1, <3>2, HeadsBound
    <3>4. left # {} => Cardinality(promoted) = Room(alive)
      BY <3>1, <3>2, HeadsExact
    <3>5. promoted \subseteq Waiting \ dead /\ \A p \in promoted, q \in left : Precedes(p, q)
      BY <3>1 DEF Heads
    <3>6. Room(alive) = IF Cardinality(alive) < limit THEN limit - Cardinality(alive) ELSE 0
      BY DEF Room
    <3> HIDE DEF alive, held, left, dead
    <3>7. /\ Cardinality(held) <= Cardinality(active)
          /\ left # {} => Cardinality(held) >= limit
      BY <1>3, <1>4, <1>5, <3>3, <3>4, <3>6
    <3> QED
      BY <3>5, <3>7
  <2> QED
    BY <2>1, <2>2
<1> HIDE DEF left
<1>7. Gate!MovesUp(dead, promoted)
  BY <1>6, GateMovesUp DEF left
<1>8. Cardinality(held) \in Nat
  BY <1>3, <1>4
<1> QED
  BY <1>1, <1>6, <1>7, <1>8 DEF left

\* The number for the end of the lists is larger than every other.
LEMMA NextTicketIsLast ==
    ASSUME TypeOK, NEW t \in NextTicket
    PROVE  t \in Nat /\ t > 0 /\ \A q \in Deployments : ticket[q] < t
<1>1. PICK d \in Deployments : t = ticket[d] + 1
  BY DEF NextTicket
<1>2. ticket[d] \in Nat
  BY DEF TypeOK
<1> QED
  BY <1>1, <1>2 DEF NextTicket

\* An acquire that audits is a departure of the dead and an arrival. Nobody is left in
\* line when the caller gets a slot.
LEMMA AuditArrives ==
    ASSUME WorkInv, AcquireAudits
    PROVE  Gate!Next
<1> DEFINE id == Head(inbox).id
<1>1. PICK audit \in Audits(active \cup Waiting) : \E promoted \in Reclaims(audit.dead) :
             /\ Head(inbox) \in Messages /\ id \notin active /\ id \notin Waiting
             /\ \/ /\ Cardinality((active \ audit.dead) \cup promoted) < limit
                   /\ active' = ((active \ audit.dead) \cup promoted) \cup {id}
                   /\ ticket' = Without(audit.dead \cup promoted)
                \/ /\ Cardinality((active \ audit.dead) \cup promoted) >= limit
                   /\ active' = (active \ audit.dead) \cup promoted
                   /\ \E t \in NextTicket :
                         ticket' = [Without(audit.dead \cup promoted) EXCEPT ![id] = t]
  BY AuditShape DEF WorkInv
<1>2. PICK promoted \in Reclaims(audit.dead) :
             /\ Head(inbox) \in Messages /\ id \notin active /\ id \notin Waiting
             /\ \/ /\ Cardinality((active \ audit.dead) \cup promoted) < limit
                   /\ active' = ((active \ audit.dead) \cup promoted) \cup {id}
                   /\ ticket' = Without(audit.dead \cup promoted)
                \/ /\ Cardinality((active \ audit.dead) \cup promoted) >= limit
                   /\ active' = (active \ audit.dead) \cup promoted
                   /\ \E t \in NextTicket :
                         ticket' = [Without(audit.dead \cup promoted) EXCEPT ![id] = t]
  BY <1>1
<1> DEFINE dead == audit.dead
           held == (active \ dead) \cup promoted
           left == Waiting \ (dead \cup promoted)
<1>3. /\ id \in Deployments /\ ticket \in [Deployments -> Nat]
      /\ UNCHANGED <<limit, raised>> /\ Cardinality(active) >= limit
  BY <1>2 DEF WorkInv, TypeOK, Messages, AcquireAudits
<1>4. /\ dead \in SUBSET (active \cup Waiting) /\ promoted \in SUBSET Waiting
      /\ Gate!MovesUp(dead, promoted)
      /\ Cardinality(held) \in Nat
      /\ left # {} => Cardinality(held) >= limit
  BY <1>3, ReclaimMoves
<1>5. /\ Gate!Line = Waiting
      /\ Gate!Held(dead, promoted) = held
      /\ Gate!Left(dead, promoted) = left
      /\ Gate!Vacated(dead, promoted) = Without(dead \cup promoted)
  BY GateLine
<1>6. limit \in Nat
  BY SlotsFinite DEF WorkInv
<1>7. CASE Cardinality(held) < limit
  <2>1. active' = held \cup {id} /\ ticket' = Without(dead \cup promoted)
    BY <1>2, <1>4, <1>6, <1>7
  <2>2. left = {}
    BY <1>4, <1>6, <1>7
  <2>3. Gate!Enter(id, dead, promoted)
    <3> HIDE DEF id, held, left, dead
    <3> QED
      BY <1>2, <1>3, <1>4, <1>5, <1>7, <2>1, <2>2, GateCardinality DEF Gate!Enter
  <2> QED
    BY <1>3, <1>4, <1>5, <2>3 DEF Gate!Next
<1>8. CASE ~(Cardinality(held) < limit)
  <2>1. Cardinality(held) >= limit /\ active' = held
    BY <1>2, <1>4, <1>6, <1>8
  <2>2. PICK t \in NextTicket : ticket' = [Without(dead \cup promoted) EXCEPT ![id] = t]
    BY <1>2, <1>4, <1>6, <1>8
  <2>3. t \in Nat /\ t > 0 /\ \A q \in Deployments : ticket[q] < t
    BY NextTicketIsLast DEF WorkInv
  <2>4. ticket'[id] = t
    BY <1>3, <2>2 DEF Without
  <2>5. left \subseteq Deployments
    BY DEF Waiting
  <2>6. Gate!Queue(id, dead, promoted)
    <3> HIDE DEF id, held, left, dead
    <3> QED
      BY <1>2, <1>3, <1>4, <1>5, <2>1, <2>2, <2>3, <2>4, <2>5, GateCardinality DEF Gate!Queue
  <2> QED
    BY <1>3, <1>4, <1>5, <2>6 DEF Gate!Next
<1> QED
  BY <1>7, <1>8

\* A grant without an audit is an arrival. A slot was free, so nobody waited for it
\* unless the limit had been raised.
LEMMA GrantEnters ==
    ASSUME WorkInv, AcquireGrants
    PROVE  Gate!Next
<1> DEFINE id == Head(inbox).id
<1>1. /\ active' = active \cup {id} /\ ~Tracked(id) /\ Cardinality(active) < limit
      /\ UNCHANGED <<ticket, limit, raised>>
  BY DEF AcquireGrants, rowVars
<1>2. id \in Deployments
  BY ServedCall DEF WorkInv, AcquireGrants, Messages
<1> HIDE DEF id
<1>3. id \notin active /\ id \notin Waiting
  BY <1>1 DEF Tracked, Waiting
<1>4. Cardinality(active) \in Nat /\ limit \in Nat /\ ticket \in [Deployments -> Nat]
  BY SlotsFinite DEF WorkInv, TypeOK
<1>5. Waiting = {} \/ raised
  BY <1>1, <1>4 DEF WorkInv, NoIdleSlot
<1>6. Without({}) = ticket
  BY <1>4 DEF Without
<1>7. /\ Gate!Line = Waiting
      /\ Gate!Held({}, {}) = active
      /\ Gate!Left({}, {}) = Waiting
      /\ Gate!Vacated({}, {}) = ticket
  BY <1>6, GateLine
<1>8. Gate!MovesUp({}, {})
  BY <1>4, <1>7, GateCardinality DEF Gate!MovesUp
<1>9. Gate!Enter(id, {}, {})
  BY <1>1, <1>3, <1>5, <1>7, <1>8, GateCardinality DEF Gate!Enter
<1> QED
  BY <1>2, <1>7, <1>9 DEF Gate!Next

\* Every step of the service, of Deploy and of the database is a step of the gate or
\* leaves it alone.
LEMMA StepIsGateStep == WorkInv /\ [Next]_vars => [Gate!Next]_(Gate!gateVars)
<1> SUFFICES ASSUME WorkInv, [Next]_vars PROVE Gate!Next \/ UNCHANGED <<active, ticket, limit, raised>>
  BY DEF Gate!gateVars
<1>1. CASE Release
  <2>1. Head(inbox).id \in Deployments
    BY <1>1, ServedCall DEF WorkInv, Release, Messages
  <2> QED
    BY <1>1, <2>1, HandOffLeaves DEF Release
<1>2. ASSUME NEW d \in Deployments, NEW r \in 0..MaxRenewals, ExpireReclaims(d, r)
      PROVE  Gate!Next
  BY <1>2, HandOffLeaves DEF ExpireReclaims
<1>3. CASE SetLimit
  <2>1. Gate!SetLimit
    BY <1>3 DEF SetLimit, slotVars, Gate!SetLimit
  <2> QED
    BY <2>1 DEF Gate!Next
<1>4. ASSUME NEW d \in Deployments, NEW r \in 0..MaxRenewals, ExpireSlot(d, r)
      PROVE  UNCHANGED <<active, ticket, limit, raised>> \/ ExpireReclaims(d, r)
  BY <1>4 DEF ExpireSlot, ExpireUntracked, ExpireCheckFails, ExpireRenews,
              ExpireForceFailFails, rowVars
<1>5. ASSUME NEW d \in Deployments, Deploy(d) \/ RowEnds(d)
      PROVE  UNCHANGED <<active, ticket, limit, raised>>
  BY <1>5 DEF Deploy, RowEnds, Start, Supersede, BeginBuild, DeploymentStep, Finish,
              SendRelease, Fail, MarkFailed, Kill, SendAgain, slotVars, rowVars
<1>6. AcquireTracked \/ AcquireFails \/ UNCHANGED vars
        => UNCHANGED <<active, ticket, limit, raised>>
  BY DEF AcquireTracked, AcquireFails, vars, slotVars, rowVars
<1> QED
  BY <1>1, <1>2, <1>3, <1>4, <1>5, <1>6, AuditArrives, GrantEnters DEF Next, Handle

\* For any deployments, limits and renewals, the build slot service implements the abstract
\* gate: each of its handlers, with the audits, prunes and promotions it makes on the
\* way, is one departure or arrival at the gate or does not touch it.
THEOREM GateImplemented == Spec => ImplementsGate
<1>1. Init => Gate!Init
  BY DEF Init, Gate!Init
<1>2. WorkInv /\ [Next]_vars => [Gate!Next]_(Gate!gateVars)
  BY StepIsGateStep
<1> QED
  BY <1>1, <1>2, WorkInvariant, PTL DEF Spec, ImplementsGate, Gate!Spec

----------------------------------------------------------------------------
\* The lease

\* What LeaseRunsOut asks of a step, for one deployment.
LeaseStep(d) ==
    /\ d \in active \cap active' => timers'[d] = timers[d] \/ ChecksLeft(d)' < ChecksLeft(d)
    /\ d \in Waiting \cap Waiting' => timers'[d] = timers[d]

\* Scheduling for S leaves the calls of the others.
LEMMA ArmedOthers ==
    ASSUME NEW t, NEW S, NEW d \in Deployments, d \notin S
    PROVE  Armed(t, S)[d] = t[d]
BY DEF Armed

\* Nobody's calls change as long as only newcomers and the promoted are scheduled for.
LEMMA ArmLease ==
    ASSUME NEW S, timers' = Armed(timers, S), NEW d \in Deployments,
           d \in S => d \notin active /\ (d \notin Waiting \/ d \notin Waiting')
    PROVE  LeaseStep(d)
<1>1. d \notin S => timers'[d] = timers[d]
  BY ArmedOthers
<1> QED
  BY <1>1 DEF LeaseStep

\* Calls that are delivered and scheduled again as they were are the same calls.
LEMMA RearmSame ==
    ASSUME timers \in Timers, NEW d \in Deployments, NEW r \in 0..MaxRenewals,
           timers[d][r] > 0, timers' = Rearmed(d, r, r)
    PROVE  \A e \in Deployments : timers'[e] = timers[e]
<1>1. timers[d] \in [0..MaxRenewals -> Nat]
  BY DEF Timers
<1>2. \A k \in 0..MaxRenewals : timers[d][k] \in Nat
  BY <1>1
<1>3. \A k \in 0..MaxRenewals : Rescheduled(d, r, r)[k] = timers[d][k]
  BY <1>2 DEF Rescheduled, Delivered
<1>4. Rescheduled(d, r, r) = timers[d]
  BY <1>1, <1>3 DEF Rescheduled
<1> QED
  BY <1>4 DEF Rearmed, Timers

\* A renewal moves one call up by one: one check fewer is left.
LEMMA RenewalUsesUp ==
    ASSUME timers \in Timers, NEW d \in Deployments, NEW r \in 0..MaxRenewals,
           r < MaxRenewals, timers[d][r] > 0, timers' = Rearmed(d, r, r + 1)
    PROVE  ChecksLeft(d)' < ChecksLeft(d)
<1> DEFINE R == 0..MaxRenewals
           W(t) == [k \in R |-> t[k] * (MaxRenewals + 1 - k)]
           old == timers[d]
           mid == Delivered(d, r)
           new == Rescheduled(d, r, r + 1)
<1>1. IsFiniteSet(R)
  BY RenewalAssumption, FS_Interval
<1>2. r + 1 \in R /\ MaxRenewals \in Nat /\ r \in Nat /\ R \subseteq Nat
  BY RenewalAssumption
<1>3. \A k \in R : old[k] \in Nat
  BY DEF Timers
<1>4. \A k \in R : mid[k] = IF k = r THEN old[k] - 1 ELSE old[k]
  BY DEF Delivered
<1>5. \A k \in R : new[k] = IF k = r + 1 THEN mid[k] + 1 ELSE mid[k]
  BY DEF Rescheduled
<1>6. timers'[d] = new
  BY DEF Rearmed, Timers
<1> HIDE DEF old, mid, new
<1>7. \A k \in R : mid[k] \in Int /\ new[k] \in Int
  BY <1>2, <1>3, <1>4, <1>5
<1>8. \A k \in R : W(old)[k] \in Int /\ W(mid)[k] \in Int /\ W(new)[k] \in Int
  BY <1>2, <1>3, <1>7
<1>9. W(mid)[r] = W(old)[r] - (MaxRenewals + 1 - r)
  <2>1. \A a \in Int, b \in Int : (a - 1) * b = a * b - b
    OBVIOUS
  <2>2. mid[r] = old[r] - 1 /\ old[r] \in Int /\ MaxRenewals + 1 - r \in Int
    BY <1>2, <1>3, <1>4
  <2> QED
    BY <2>1, <2>2
<1>10. W(new)[r + 1] = W(mid)[r + 1] + (MaxRenewals - r)
  <2>1. \A a \in Int, b \in Int : (a + 1) * b = a * b + b
    OBVIOUS
  <2>2. new[r + 1] = mid[r + 1] + 1 /\ mid[r + 1] \in Int
    BY <1>2, <1>5, <1>7
  <2>3. MaxRenewals + 1 - (r + 1) = MaxRenewals - r /\ MaxRenewals - r \in Int
    BY <1>2
  <2> QED
    BY <1>2, <2>1, <2>2, <2>3
<1>11. /\ \A k \in R \ {r} : W(old)[k] = W(mid)[k]
       /\ \A k \in R \ {r + 1} : W(mid)[k] = W(new)[k]
  BY <1>4, <1>5
<1> DEFINE wo == W(old)
           wm == W(mid)
           wn == W(new)
<1>12. /\ ChecksLeft(d) = SumFunctionOnSet(wo, R)
       /\ ChecksLeft(d)' = SumFunctionOnSet(wn, R)
  BY <1>6 DEF ChecksLeft, old
<1>13. /\ \A k \in R : wo[k] \in Int /\ wm[k] \in Int /\ wn[k] \in Int
       /\ wm[r] = wo[r] - (MaxRenewals + 1 - r)
       /\ wn[r + 1] = wm[r + 1] + (MaxRenewals - r)
       /\ \A k \in R \ {r} : wo[k] = wm[k]
       /\ \A k \in R \ {r + 1} : wm[k] = wn[k]
  BY <1>8, <1>9, <1>10, <1>11
<1> HIDE DEF wo, wm, wn, R
<1> DEFINE a == r
           b == r + 1
<1>14. /\ SumFunctionOnSet(wm, R) = SumFunctionOnSet(wo, R) - wo[a] + wm[a]
       /\ SumFunctionOnSet(wn, R) = SumFunctionOnSet(wm, R) - wm[b] + wn[b]
  <2>1. a \in R /\ b \in R
    BY <1>2 DEF R
  <2>2. /\ \A k \in R : wo[k] \in Int /\ wm[k] \in Int
        /\ \A k \in R : wm[k] \in Int /\ wn[k] \in Int
        /\ \A k \in R \ {a} : wo[k] = wm[k]
        /\ \A k \in R \ {b} : wm[k] = wn[k]
    BY <1>13
  <2> HIDE DEF a, b
  <2>3. SumFunctionOnSet(wm, R) = SumFunctionOnSet(wo, R) - wo[a] + wm[a]
    BY ONLY <1>1, <2>1, <2>2, SumChange
  <2>4. SumFunctionOnSet(wn, R) = SumFunctionOnSet(wm, R) - wm[b] + wn[b]
    BY ONLY <1>1, <2>1, <2>2, SumChange
  <2> QED
    BY <2>3, <2>4
<1>15. SumFunctionOnSet(wo, R) \in Int
  BY <1>1, <1>13, SumType
<1>16. wo[r] \in Int /\ wm[r] \in Int /\ wm[r + 1] \in Int /\ wn[r + 1] \in Int
  BY <1>2, <1>13 DEF R
<1> QED
  BY <1>2, <1>12, <1>13, <1>14, <1>15, <1>16

\* A deployment that hands over its slot or leaves its list keeps no lease, and those who
\* move up did not hold a slot before.
LEMMA HandOffLease ==
    ASSUME WorkInv, NEW d \in Deployments, NEW t, NEW rejected, NEW failed,
           \A e \in Deployments \ {d} : t[e] = timers[e],
           HandOff(d, t, rejected, failed), NEW e \in Deployments
    PROVE  e # d \/ t = timers => LeaseStep(e)
<1>1. PICK audit, promoted :
        /\ promoted \subseteq Waiting \ {d}
        /\ active' = (active \ {d}) \cup promoted
        /\ ticket' = Without({d} \cup audit.dead \cup promoted)
        /\ timers' = Armed(t, promoted)
  <2>1. PICK audit \in Audits(IF d \in active THEN Waiting \ {d} ELSE {}) :
        \E promoted \in Heads((Waiting \ {d}) \ audit.dead, IF d \in active THEN 1 ELSE 0) :
          /\ active' = (active \ {d}) \cup promoted
          /\ ticket' = Without({d} \cup audit.dead \cup promoted)
          /\ timers' = Armed(t, promoted)
    BY DEF HandOff
  <2>2. PICK promoted \in Heads((Waiting \ {d}) \ audit.dead, IF d \in active THEN 1 ELSE 0) :
          /\ active' = (active \ {d}) \cup promoted
          /\ ticket' = Without({d} \cup audit.dead \cup promoted)
          /\ timers' = Armed(t, promoted)
    BY <2>1
  <2> QED
    BY <2>2, HeadsSubset
<1>2. e \in promoted => e \notin active /\ e \notin Waiting'
  BY <1>1 DEF WorkInv, Disjoint, Waiting, Without
<1>3. e \notin promoted => timers'[e] = t[e]
  BY <1>1, ArmedOthers
<1> QED
  BY <1>2, <1>3 DEF LeaseStep

\* Every handler that schedules lease checks.
LEMMA AcquireLease ==
    ASSUME WorkInv, AcquireGrants \/ AcquireAudits, NEW e \in Deployments
    PROVE  LeaseStep(e)
<1> DEFINE id == Head(inbox).id
<1>1. CASE AcquireGrants
  <2>1. timers' = Armed(timers, {id}) /\ ~Tracked(id)
    BY <1>1 DEF AcquireGrants
  <2>2. id \notin active /\ id \notin Waiting
    BY <2>1 DEF Tracked, Waiting
  <2> QED
    BY <2>1, <2>2, ArmLease
<1>2. CASE AcquireAudits
  <2>1. PICK audit \in Audits(active \cup Waiting) : \E promoted \in Reclaims(audit.dead) :
          /\ timers' = Armed(timers, promoted \cup {id})
          /\ \/ ticket' = Without(audit.dead \cup promoted)
             \/ \E k \in NextTicket : ticket' = [Without(audit.dead \cup promoted) EXCEPT ![id] = k]
    BY <1>2 DEF AcquireAudits
  <2>2. PICK promoted \in Reclaims(audit.dead) :
          /\ timers' = Armed(timers, promoted \cup {id})
          /\ \/ ticket' = Without(audit.dead \cup promoted)
             \/ \E k \in NextTicket : ticket' = [Without(audit.dead \cup promoted) EXCEPT ![id] = k]
    BY <2>1
  <2>3. id \notin active /\ id \notin Waiting
    BY <1>2 DEF AcquireAudits, Tracked, Waiting
  <2>4. promoted \subseteq Waiting /\ promoted \cap active = {}
    BY ReclaimsSubset DEF WorkInv, Disjoint, Waiting
  <2> HIDE DEF id
  <2>5. e \in promoted => e \notin Waiting'
    <3> SUFFICES ASSUME e \in promoted PROVE ticket'[e] = 0
      BY DEF Waiting
    <3>1. e # id
      BY <2>3, <2>4
    <3> QED
      BY <2>2, <3>1 DEF Without
  <2> QED
    BY <2>2, <2>3, <2>4, <2>5, ArmLease
<1> QED
  BY <1>1, <1>2

\* Every delivered lease check.
LEMMA ExpireLease ==
    ASSUME WorkInv, NEW d \in Deployments, NEW r \in 0..MaxRenewals, ExpireSlot(d, r),
           NEW e \in Deployments
    PROVE  LeaseStep(e)
<1>1. timers \in Timers /\ timers[d][r] > 0
  BY DEF WorkInv, TypeOK, Timers, ExpireSlot, ExpireUntracked, ExpireCheckFails,
         ExpireRenews, ExpireForceFailFails, ExpireReclaims
<1>2. Fired(d, r) \in Timers /\ \A k \in Deployments \ {d} : Fired(d, r)[k] = timers[k]
  BY <1>1, FiredType
<1>3. CASE ExpireUntracked(d, r)
  <2>1. d \notin active /\ d \notin Waiting
    BY <1>3 DEF ExpireUntracked, Tracked, Waiting
  <2>2. e # d => timers'[e] = timers[e]
    BY <1>2, <1>3 DEF ExpireUntracked
  <2> QED
    BY <2>1, <2>2 DEF LeaseStep
<1>4. CASE ExpireCheckFails(d, r) \/ ExpireForceFailFails(d, r)
  <2>1. timers' = Rearmed(d, r, r)
    BY <1>4 DEF ExpireCheckFails, ExpireForceFailFails
  <2> QED
    BY <1>1, <2>1, RearmSame DEF LeaseStep
<1>5. CASE ExpireRenews(d, r)
  <2>1. /\ timers' = Rearmed(d, r, r + 1) /\ r < MaxRenewals /\ d \in active
    BY <1>5 DEF ExpireRenews, Renewable
  <2>2. r + 1 \in 0..MaxRenewals
    BY <2>1, RenewalAssumption
  <2>3. e # d => timers'[e] = timers[e]
    BY <1>1, <2>1, <2>2, RearmedType
  <2>4. ChecksLeft(d)' < ChecksLeft(d)
    BY <1>1, <2>1, RenewalUsesUp
  <2>5. d \notin Waiting
    BY <2>1 DEF WorkInv, Disjoint, Waiting
  <2> QED
    BY <2>3, <2>4, <2>5 DEF LeaseStep
<1>6. CASE ExpireReclaims(d, r)
  <2>1. PICK rejected, failed : HandOff(d, Fired(d, r), rejected, failed)
    BY <1>6 DEF ExpireReclaims
  <2>2. CASE e # d
    BY <1>2, <2>1, <2>2, HandOffLease
  <2>3. CASE e = d
    <3>1. PICK audit, promoted :
            /\ promoted \subseteq Waiting \ {d}
            /\ active' = (active \ {d}) \cup promoted
            /\ ticket' = Without({d} \cup audit.dead \cup promoted)
      BY <2>1, HandOffShape DEF WorkInv
    <3>2. d \notin active' /\ d \notin Waiting'
      BY <3>1 DEF Waiting, Without
    <3> QED
      BY <2>3, <3>2 DEF LeaseStep
  <2> QED
    BY <2>2, <2>3
<1> QED
  BY <1>3, <1>4, <1>5, <1>6 DEF ExpireSlot

\* For any deployments, limits and renewals: while a deployment holds its slot its lease
\* checks are only used up, and while it waits they stay as they are. This is the part of
\* EverySlotIsReturned and EveryWaitEnds that is not about fairness.
THEOREM LeasesRunOut == Spec => LeaseRunsOut
<1>1. WorkInv /\ [Next]_vars => [\A d \in Deployments : LeaseStep(d)]_vars
  <2> SUFFICES ASSUME WorkInv, Next, NEW e \in Deployments PROVE LeaseStep(e)
    OBVIOUS
  <2>1. CASE AcquireGrants \/ AcquireAudits
    BY <2>1, AcquireLease
  <2>2. CASE Release
    <3>1. Head(inbox).id \in Deployments
      BY <2>2, ServedCall DEF WorkInv, Release, Messages
    <3>2. HandOff(Head(inbox).id, timers, {}, {})
      BY <2>2 DEF Release
    <3> QED
      BY <3>1, <3>2, HandOffLease
  <2>3. CASE \E d \in Deployments, r \in 0..MaxRenewals : ExpireSlot(d, r)
    BY <2>3, ExpireLease
  <2>4. CASE AcquireTracked \/ AcquireFails \/ SetLimit
             \/ \E d \in Deployments : Deploy(d) \/ RowEnds(d)
    <3>1. timers' = timers
      BY <2>4 DEF AcquireTracked, AcquireFails, SetLimit, slotVars, Deploy, RowEnds, Start,
                  Supersede, BeginBuild, DeploymentStep, Finish, SendRelease, Fail, MarkFailed, Kill, SendAgain
    <3> QED
      BY <3>1 DEF LeaseStep
  <2> QED
    BY <2>1, <2>2, <2>3, <2>4 DEF Next, Handle
<1>2. (\A d \in Deployments : LeaseStep(d)) <=>
        \A d \in Deployments :
          /\ d \in active \cap active' => timers'[d] = timers[d] \/ ChecksLeft(d)' < ChecksLeft(d)
          /\ d \in Waiting \cap Waiting' => timers'[d] = timers[d]
  BY DEF LeaseStep
<1> QED
  BY <1>1, WorkInvariant, PTL DEF Spec, LeaseRunsOut, LeaseStep
=============================================================================
