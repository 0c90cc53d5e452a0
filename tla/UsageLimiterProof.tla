------------------------- MODULE UsageLimiterProof -------------------------
(***************************************************************************)
(* For any number of regions, replicas, requests, costs and workers: a     *)
(* region never spends more credits than the key has, every charge is      *)
(* accounted for, and with one region the counter agrees with the row.     *)
(* Limit implements the atomic account of CreditAccount, and what Close    *)
(* waits for only shrinks. The inductive invariants of UsageLimiter and    *)
(* their proofs.                                                           *)
(***************************************************************************)
EXTENDS UsageLimiter, SumTheorems, TLAPS

Active == {"decrement", "find", "init", "again", "fallback", "charge", "buffer", "sending"}

\* The types the argument needs.
Types ==
    /\ redis \in [Regions -> Nat \cup {NoKey}]
    /\ credits \in Nat \cup {Unlimited} /\ replica \in Nat \cup {Unlimited}
    /\ call \in [Calls -> [pc : CallStates, node : Nodes \cup {"none"}, cost : Nat, got : Nat]]
    /\ buffer \in [Nodes -> Seq(Nat)]
    /\ worker \in [Nodes -> [Workers -> Nat \cup {Idle}]]
    /\ spent \in [Regions -> Nat]
    /\ disturbed \in BOOLEAN

\* A request that is under way runs on a node.
Placed == \A g \in Calls : call[g].pc \in Active => call[g].node \in Nodes

\* Only an update, which is a disturbance, leads to Invalidate.
UpdateDisturbs == update # "none" => disturbed

\* Until the first disturbance: nobody has seen more than the initial credits, a counter
\* that does not exist has spent nothing, and one that does has them left or spent.
Undisturbed ==
    ~disturbed =>
        /\ credits \in 0..Initial /\ replica \in 0..Initial
        /\ \A g \in Calls : call[g].got <= Initial
        /\ \A r \in Regions : redis[r] = NoKey => spent[r] = 0
        /\ \A r \in Regions : redis[r] # NoKey => redis[r] + spent[r] <= Initial

IndInv == Types /\ Placed /\ UpdateDisturbs /\ Undisturbed

----------------------------------------------------------------------------
\* A change of the row keeps it in its type and in the range it was in.
LEMMA ChargedRange ==
    ASSUME NEW row \in Nat \cup {Unlimited}, NEW cost \in Nat
    PROVE  /\ Charged(row, cost) \in Nat
           /\ row \in 0..Initial => Charged(row, cost) \in 0..Initial
  BY CreditAssumption DEF Charged, Unlimited

\* The initial states satisfy the invariant.
LEMMA Initially == Init => IndInv
  <1> SUFFICES ASSUME Init PROVE IndInv
    OBVIOUS
  <1> USE CreditAssumption DEF Init, Request, NoKey, Unlimited, Idle
  <1>1. Types
    <2>1. Request \in [pc : CallStates, node : Nodes \cup {"none"}, cost : Nat, got : Nat]
      BY DEF CallStates
    <2>2. call \in [Calls -> [pc : CallStates, node : Nodes \cup {"none"}, cost : Nat, got : Nat]]
      BY <2>1
    <2>3. buffer \in [Nodes -> Seq(Nat)]
      OBVIOUS
    <2>4. worker \in [Nodes -> [Workers -> Nat \cup {Idle}]]
      OBVIOUS
    <2>5. redis \in [Regions -> Nat \cup {NoKey}] /\ spent \in [Regions -> Nat]
      OBVIOUS
    <2> QED
      BY <2>2, <2>3, <2>4, <2>5 DEF Types
  <1>2. Placed
    BY DEF Placed, Active
  <1>3. UpdateDisturbs
    BY DEF UpdateDisturbs
  <1>4. Undisturbed
    BY DEF Undisturbed
  <1> QED
    BY <1>1, <1>2, <1>3, <1>4 DEF IndInv

\* A request that is under way, its region and its cost.
LEMMA CallFacts ==
    ASSUME Types, Placed, NEW g \in Calls, call[g].pc \in Active
    PROVE  /\ RegionAt(g) \in Regions
           /\ call[g].cost \in Nat /\ call[g].got \in Nat
           /\ redis[RegionAt(g)] \in Nat \cup {NoKey}
           /\ spent[RegionAt(g)] \in Nat
  BY TopologyAssumption DEF Types, Placed, RegionAt

\* A request moves on without touching a counter or the row.
LEMMA MovesOn ==
    ASSUME IndInv, NEW g \in Calls, NEW pc \in CallStates,
           call[g].pc \in Active, Goes(g, pc),
           UNCHANGED <<redis, credits, replica, buffer, worker, spent, update, disturbed>>
    PROVE  IndInv'
  <1> USE DEF IndInv
  <1>1. call' = [call EXCEPT ![g].pc = pc]
    BY DEF Goes
  <1>2. Types'
    BY <1>1 DEF Types
  <1>3. Placed'
    BY <1>1 DEF Placed, Types
  <1>4. UpdateDisturbs'
    BY DEF UpdateDisturbs
  <1>5. Undisturbed'
    BY <1>1 DEF Undisturbed, Types
  <1> QED
    BY <1>2, <1>3, <1>4, <1>5

\* A request is answered, having changed at most the buffer.
LEMMA IsAnswered ==
    ASSUME IndInv, NEW g \in Calls, NEW pc \in CallStates \ Active, Answers(g, pc),
           UNCHANGED <<redis, credits, replica, worker, spent, update, disturbed>>,
           buffer' \in [Nodes -> Seq(Nat)]
    PROVE  IndInv'
  <1> USE DEF IndInv
  <1>1. call' = [call EXCEPT ![g] = [Request EXCEPT !.pc = pc]]
    BY DEF Answers
  <1>2. Types'
    BY <1>1 DEF Types, Request
  <1>3. Placed'
    BY <1>1 DEF Placed, Types, Request
  <1>4. UpdateDisturbs'
    BY DEF UpdateDisturbs
  <1>5. Undisturbed'
    BY <1>1, CreditAssumption DEF Undisturbed, Types, Request
  <1> QED
    BY <1>2, <1>3, <1>4, <1>5

\* A disturbed step: only the types and the placement of the requests matter.
LEMMA Disturbs ==
    ASSUME Types', Placed', disturbed'
    PROVE  IndInv'
  BY DEF IndInv, UpdateDisturbs, Undisturbed

\* A counter admits a request: it exists and has `left` more than the value it gets, or
\* it is created with `left` credits nobody has spent.
LEMMA Admits ==
    ASSUME IndInv, NEW g \in Calls, NEW value \in Nat,
           call[g].pc \in Active, Admit(g, value),
           ~disturbed => value + call[g].cost + spent[RegionAt(g)] <= Initial,
           UNCHANGED <<credits, replica, buffer, worker, update, disturbed>>
    PROVE  IndInv'
  <1> USE DEF IndInv
  <1> DEFINE r == RegionAt(g)
  <1>1. /\ r \in Regions /\ call[g].cost \in Nat /\ spent[r] \in Nat
    BY CallFacts
  <1>2. /\ call' = [call EXCEPT ![g].pc = "buffer"]
        /\ redis' = [redis EXCEPT ![r] = value]
        /\ spent' = [spent EXCEPT ![r] = @ + call[g].cost]
    BY DEF Admit, Goes
  <1> HIDE DEF r
  <1>3. "buffer" \in CallStates
    BY DEF CallStates
  <1>4. Types'
    <2>1. call' \in [Calls -> [pc : CallStates, node : Nodes \cup {"none"}, cost : Nat, got : Nat]]
      BY <1>2, <1>3 DEF Types
    <2>2. redis' \in [Regions -> Nat \cup {NoKey}]
      BY <1>1, <1>2 DEF Types
    <2>3. spent' \in [Regions -> Nat]
      BY <1>1, <1>2 DEF Types
    <2> QED
      BY <2>1, <2>2, <2>3 DEF Types
  <1>5. Placed'
    BY <1>2 DEF Placed, Types
  <1>6. UpdateDisturbs'
    BY DEF UpdateDisturbs
  <1>7. Undisturbed'
    <2> SUFFICES ASSUME ~disturbed'
                 PROVE  /\ credits' \in 0..Initial /\ replica' \in 0..Initial
                        /\ \A h \in Calls : call'[h].got <= Initial
                        /\ \A q \in Regions : redis'[q] = NoKey => spent'[q] = 0
                        /\ \A q \in Regions : redis'[q] # NoKey => redis'[q] + spent'[q] <= Initial
      BY DEF Undisturbed
    <2>0. ~disturbed
      OBVIOUS
    <2>1. credits' \in 0..Initial /\ replica' \in 0..Initial
      BY <2>0 DEF Undisturbed
    <2>2. \A h \in Calls : call'[h].got <= Initial
      BY <2>0, <1>2 DEF Undisturbed, Types
    <2>3. value # NoKey
      BY DEF NoKey
    <2>4. value + (spent[r] + call[g].cost) <= Initial
      BY <2>0, <1>1, CreditAssumption DEF r
    <2>5. ASSUME NEW q \in Regions
          PROVE  /\ redis'[q] = NoKey => spent'[q] = 0
                 /\ redis'[q] # NoKey => redis'[q] + spent'[q] <= Initial
      <3>1. CASE q = r
        BY <3>1, <2>3, <2>4, <1>2 DEF Types
      <3>2. CASE q # r
        <4>1. redis'[q] = redis[q] /\ spent'[q] = spent[q]
          BY <3>2, <1>2 DEF Types
        <4> QED
          BY <4>1, <2>0 DEF Undisturbed
      <3> QED
        BY <3>1, <3>2
    <2> QED
      BY <2>1, <2>2, <2>5
  <1> QED
    BY <1>4, <1>5, <1>6, <1>7

----------------------------------------------------------------------------
\* Every step of a request keeps the invariant.
LEMMA LimitStep ==
    ASSUME IndInv, NEW g \in Calls, Limit(g)
    PROVE  IndInv'
  <1> USE DEF IndInv
  <1> DEFINE r == RegionAt(g)
  <1>0. call[g].pc \in Active =>
            /\ r \in Regions /\ call[g].cost \in Nat /\ call[g].got \in Nat
            /\ redis[r] \in Nat \cup {NoKey} /\ spent[r] \in Nat
    BY CallFacts
  <1>1. CASE DecrementAdmits(g)
    <2>1. /\ call[g].pc \in Active /\ redis[r] # NoKey /\ redis[r] >= call[g].cost
          /\ Admit(g, redis[r] - call[g].cost)
          /\ UNCHANGED <<credits, replica, buffer, worker, update, disturbed>>
      BY <1>1 DEF DecrementAdmits, Sufficient, At, Active, limiterVars, updateVars
    <2> HIDE DEF r
    <2>2. redis[r] \in Nat /\ redis[r] - call[g].cost \in Nat
      BY <2>1, <1>0
    <2>3. ~disturbed => redis[r] + spent[r] <= Initial
      BY <2>1, <1>0 DEF Undisturbed
    <2>4. ~disturbed => (redis[r] - call[g].cost) + call[g].cost + spent[r] <= Initial
      BY <2>1, <2>2, <2>3, <1>0, CreditAssumption
    <2> QED
      BY <2>1, <2>2, <2>4, Admits DEF r
  <1>2. CASE DecrementDenies(g)
    <2>1. "denied" \in CallStates \ Active
      BY DEF CallStates, Active
    <2> QED
      BY <1>2, <2>1, IsAnswered DEF DecrementDenies, limiterVars, updateVars, Types
  <1>3. CASE DecrementMisses(g)
    <2>1. /\ call[g].pc \in Active
          /\ \E pc \in CallStates : Goes(g, pc)
          /\ UNCHANGED <<redis, credits, replica, buffer, worker, spent, update, disturbed>>
      BY <1>3 DEF DecrementMisses, At, Active, CallStates, limiterVars, updateVars
    <2> QED
      BY <2>1, MovesOn
  <1>4. CASE RedisFails(g)
    <2>1. /\ call[g].pc \in Active /\ Goes(g, "fallback") /\ disturbed'
          /\ UNCHANGED <<credits, replica, buffer, worker, spent>>
      BY <1>4 DEF RedisFails, At, Active, limiterVars
    <2>2. "fallback" \in CallStates
      BY DEF CallStates
    <2>3. call' \in [Calls -> [pc : CallStates, node : Nodes \cup {"none"}, cost : Nat, got : Nat]]
      BY <2>1, <2>2 DEF Goes, Types
    <2>4. \/ redis' = redis
          \/ \E v \in Nat : redis' = [redis EXCEPT ![r] = v]
      <3>1. CASE UNCHANGED redis
        BY <3>1
      <3>2. CASE /\ Sufficient(r, call[g].cost)
                 /\ redis' = [redis EXCEPT ![r] = @ - call[g].cost]
        <4> HIDE DEF r
        <4>1. redis[r] - call[g].cost \in Nat
          BY <3>2, <2>1, <1>0 DEF Sufficient
        <4>2. redis' = [redis EXCEPT ![r] = redis[r] - call[g].cost]
          BY <3>2
        <4> QED
          BY <4>1, <4>2
      <3>3. CASE redis' = [redis EXCEPT ![r] = InitValue(g)]
        <4>1. InitValue(g) \in Nat
          BY <2>1, <1>0 DEF InitValue, Covers
        <4> QED
          BY <3>3, <4>1
      <3> QED
        BY <1>4, <3>1, <3>2, <3>3 DEF RedisFails
    <2>5. redis' \in [Regions -> Nat \cup {NoKey}]
      BY <2>4 DEF Types
    <2>6. Types'
      BY <2>1, <2>3, <2>5 DEF Types
    <2>7. Placed'
      BY <2>1 DEF Placed, Goes, Types
    <2> QED
      BY <2>1, <2>6, <2>7, Disturbs
  <1>5. CASE FindCredits(g)
    <2>1. /\ call[g].pc \in Active
          /\ UNCHANGED <<redis, credits, replica, buffer, worker, spent, update, disturbed>>
      BY <1>5 DEF FindCredits, At, Active, limiterVars, updateVars
    <2>2. CASE Answers(g, "failed") \/ Answers(g, "allowed")
      <3>1. {"failed", "allowed"} \subseteq CallStates \ Active
        BY DEF CallStates, Active
      <3> QED
        BY <2>1, <2>2, <3>1, IsAnswered DEF Types
    <2>3. CASE /\ replica # Unlimited
               /\ call' = [call EXCEPT ![g].got = replica, ![g].pc = "init"]
      <3>1. replica \in Nat /\ "init" \in CallStates
        BY <2>3 DEF Types, CallStates
      <3>2. Types'
        BY <2>1, <2>3, <3>1 DEF Types
      <3>3. Placed'
        BY <2>1, <2>3 DEF Placed, Types
      <3>4. UpdateDisturbs'
        BY <2>1 DEF UpdateDisturbs
      <3>5. Undisturbed'
        BY <2>1, <2>3, CreditAssumption DEF Undisturbed, Types
      <3> QED
        BY <3>2, <3>3, <3>4, <3>5
    <2> QED
      BY <1>5, <2>2, <2>3 DEF FindCredits
  <1>6. CASE InitAdmits(g)
    <2>1. /\ call[g].pc \in Active /\ redis[r] = NoKey /\ call[g].got >= call[g].cost
          /\ Admit(g, call[g].got - call[g].cost)
          /\ UNCHANGED <<credits, replica, buffer, worker, update, disturbed>>
      BY <1>6 DEF InitAdmits, InitValue, Covers, At, Active, limiterVars, updateVars
    <2> HIDE DEF r
    <2>2. call[g].got - call[g].cost \in Nat
      BY <2>1, <1>0
    <2>3. ~disturbed => spent[r] = 0 /\ call[g].got <= Initial
      BY <2>1, <1>0 DEF Undisturbed
    <2>4. ~disturbed => (call[g].got - call[g].cost) + call[g].cost + spent[r] <= Initial
      BY <2>1, <2>3, <1>0, CreditAssumption
    <2> QED
      BY <2>1, <2>2, <2>4, Admits DEF r
  <1>7. CASE InitDenies(g)
    <2>1. /\ call[g].pc \in Active /\ redis[r] = NoKey
          /\ redis' = [redis EXCEPT ![r] = call[g].got]
          /\ call' = [call EXCEPT ![g] = [Request EXCEPT !.pc = "denied"]]
          /\ UNCHANGED <<credits, replica, buffer, worker, spent, update, disturbed>>
      BY <1>7 DEF InitDenies, InitValue, Answers, At, Active, limiterVars, updateVars
    <2> HIDE DEF r
    <2>2. "denied" \in CallStates /\ "denied" \notin Active
      BY DEF CallStates, Active
    <2>3. Types'
      BY <2>1, <2>2, <1>0 DEF Types, Request
    <2>4. Placed'
      BY <2>1, <2>2 DEF Placed, Types, Request
    <2>5. UpdateDisturbs'
      BY <2>1 DEF UpdateDisturbs
    <2>6. Undisturbed'
      BY <2>1, <1>0, CreditAssumption DEF Undisturbed, Types, Request
    <2> QED
      BY <2>3, <2>4, <2>5, <2>6
  <1>8. CASE InitLoses(g)
    <2>1. /\ call[g].pc \in Active /\ "again" \in CallStates
          /\ UNCHANGED <<redis, credits, replica, buffer, worker, spent, update, disturbed>>
      BY <1>8 DEF InitLoses, At, Active, CallStates, limiterVars, updateVars
    <2> QED
      BY <1>8, <2>1, MovesOn DEF InitLoses
  <1>9. CASE FindForFallback(g)
    <2>1. /\ call[g].pc \in Active
          /\ UNCHANGED <<redis, credits, replica, buffer, worker, spent, update, disturbed>>
      BY <1>9 DEF FindForFallback, At, Active, limiterVars, updateVars
    <2>2. /\ {"failed", "allowed", "denied"} \subseteq CallStates \ Active
          /\ "charge" \in CallStates
      BY DEF CallStates, Active
    <2>3. CASE Answers(g, "failed") \/ Answers(g, "allowed") \/ Answers(g, "denied")
      BY <2>1, <2>2, <2>3, IsAnswered DEF Types
    <2>4. CASE Goes(g, "charge")
      BY <2>1, <2>2, <2>4, MovesOn
    <2> QED
      BY <1>9, <2>3, <2>4 DEF FindForFallback
  <1>10. CASE ChargeRow(g)
    <2>1. /\ call[g].pc \in Active /\ disturbed'
          /\ \E pc \in {"allowed", "failed"} : Answers(g, pc)
          /\ credits' \in {credits, Charged(credits, call[g].cost)}
          /\ UNCHANGED <<redis, replica, buffer, worker, spent>>
      BY <1>10 DEF ChargeRow, At, Active, limiterVars
    <2>2. {"failed", "allowed"} \subseteq CallStates \ Active
      BY DEF CallStates, Active
    <2>3. credits' \in Nat \cup {Unlimited}
      <3>1. credits \in Nat \cup {Unlimited} /\ call[g].cost \in Nat
        BY <2>1, <1>0 DEF Types
      <3>2. Charged(credits, call[g].cost) \in Nat
        BY <3>1, ChargedRange
      <3> QED
        BY <2>1, <3>1, <3>2
    <2>4. Types'
      BY <2>1, <2>2, <2>3 DEF Types, Answers, Request
    <2>5. Placed'
      BY <2>1, <2>2 DEF Placed, Types, Answers, Request
    <2> QED
      BY <2>1, <2>4, <2>5, Disturbs
  <1>11. CASE EnterBuffer(g)
    <2>1. /\ call[g].pc \in Active
          /\ Goes(g, "sending") \/ Answers(g, "allowed")
          /\ UNCHANGED <<redis, credits, replica, buffer, worker, spent, update, disturbed>>
      BY <1>11 DEF EnterBuffer, At, Active, updateVars
    <2>2. "sending" \in CallStates /\ "allowed" \in CallStates \ Active
      BY DEF CallStates, Active
    <2>3. buffer' \in [Nodes -> Seq(Nat)]
      BY <2>1 DEF Types
    <2> QED
      BY <2>1, <2>2, <2>3, MovesOn, IsAnswered
  <1>12. CASE SendChange(g)
    <2>1. /\ call[g].pc \in Active /\ Answers(g, "allowed")
          /\ buffer' = [buffer EXCEPT ![call[g].node] = Append(@, call[g].cost)]
          /\ UNCHANGED <<redis, credits, replica, worker, spent, update, disturbed>>
      BY <1>12 DEF SendChange, At, Active, updateVars
    <2>2. "allowed" \in CallStates \ Active
      BY DEF CallStates, Active
    <2>3. call[g].node \in Nodes
      BY <2>1 DEF Placed
    <2>4. Append(buffer[call[g].node], call[g].cost) \in Seq(Nat)
      BY <2>1, <2>3, <1>0 DEF Types
    <2>5. buffer' \in [Nodes -> Seq(Nat)]
      BY <2>1, <2>4 DEF Types
    <2> QED
      BY <2>1, <2>2, <2>5, IsAnswered
  <1> QED
    BY <1>1, <1>2, <1>3, <1>4, <1>5, <1>6, <1>7, <1>8, <1>9, <1>10, <1>11, <1>12 DEF Limit

\* A request begins, on a node that runs.
LEMMA BeginStep ==
    ASSUME IndInv, NEW g \in Calls, NEW n \in Nodes, Begin(g, n)
    PROVE  IndInv'
  <1> USE DEF IndInv
  <1>1. PICK cost \in Costs :
            call' = [call EXCEPT ![g] = [Request EXCEPT !.pc = "decrement", !.node = n, !.cost = cost]]
    BY DEF Begin
  <1>2. UNCHANGED <<redis, credits, replica, buffer, worker, spent, update, disturbed>>
    BY DEF Begin, limiterVars, updateVars
  <1>3. cost \in Nat /\ "decrement" \in CallStates
    BY CreditAssumption DEF CallStates
  <1>4. Types'
    BY <1>1, <1>2, <1>3 DEF Types, Request
  <1>5. Placed'
    BY <1>1, <1>2 DEF Placed, Types, Request
  <1>6. UpdateDisturbs'
    BY <1>2 DEF UpdateDisturbs
  <1>7. Undisturbed'
    BY <1>1, <1>2, CreditAssumption DEF Undisturbed, Types, Request
  <1> QED
    BY <1>4, <1>5, <1>6, <1>7

----------------------------------------------------------------------------
\* A step that leaves the counters and the requests alone, and the row alone or charged.
LEMMA RowStep ==
    ASSUME IndInv, NEW cost \in Nat,
           credits' \in {credits, Charged(credits, cost)},
           UNCHANGED <<redis, replica, call, spent, update, disturbed>>,
           buffer' \in [Nodes -> Seq(Nat)], worker' \in [Nodes -> [Workers -> Nat \cup {Idle}]]
    PROVE  IndInv'
  <1> USE DEF IndInv
  <1>1. credits \in Nat \cup {Unlimited}
    BY DEF Types
  <1>2. credits' \in Nat \cup {Unlimited} /\ (credits \in 0..Initial => credits' \in 0..Initial)
    BY <1>1, ChargedRange
  <1>3. Types'
    BY <1>2 DEF Types
  <1>4. Placed'
    BY DEF Placed
  <1>5. UpdateDisturbs'
    BY DEF UpdateDisturbs
  <1>6. Undisturbed'
    BY <1>2 DEF Undisturbed
  <1> QED
    BY <1>3, <1>4, <1>5, <1>6

\* Every step of a replay worker keeps the invariant.
LEMMA ReplayStep ==
    ASSUME IndInv, NEW n \in Nodes, NEW w \in Workers, Replay(n, w)
    PROVE  IndInv'
  <1>1. Types
    BY DEF IndInv
  <1>2. CASE TakeChange(n, w)
    <2>1. /\ buffer[n] # <<>>
          /\ worker' = [worker EXCEPT ![n][w] = Head(buffer[n])]
          /\ buffer' = [buffer EXCEPT ![n] = Tail(buffer[n])]
          /\ UNCHANGED <<redis, credits, replica, call, spent, update, disturbed>>
      BY <1>2 DEF TakeChange, updateVars
    <2>2. Head(buffer[n]) \in Nat /\ Tail(buffer[n]) \in Seq(Nat)
      BY <1>1, <2>1 DEF Types
    <2>3. worker' \in [Nodes -> [Workers -> Nat \cup {Idle}]]
      BY <1>1, <2>1, <2>2 DEF Types
    <2>4. buffer' \in [Nodes -> Seq(Nat)]
      BY <1>1, <2>1, <2>2 DEF Types
    <2> QED
      BY <2>1, <2>3, <2>4, RowStep
  <1>3. CASE SyncWithDB(n, w) \/ SyncFails(n, w)
    <2>1. /\ worker[n][w] # Idle
          /\ worker' = [worker EXCEPT ![n][w] = Idle]
          /\ credits' \in {credits, Charged(credits, worker[n][w])}
          /\ UNCHANGED <<redis, replica, call, buffer, spent, update, disturbed>>
      BY <1>3 DEF SyncWithDB, SyncFails, updateVars
    <2>2. worker[n][w] \in Nat
      BY <1>1, <2>1 DEF Types
    <2>3. worker' \in [Nodes -> [Workers -> Nat \cup {Idle}]]
      BY <1>1, <2>1 DEF Types
    <2>4. buffer' \in [Nodes -> Seq(Nat)]
      BY <1>1, <2>1 DEF Types
    <2> QED
      BY <2>1, <2>2, <2>3, <2>4, RowStep
  <1> QED
    BY <1>2, <1>3 DEF Replay

\* Every step of a shutdown keeps the invariant.
LEMMA ShutdownStep ==
    ASSUME IndInv, NEW n \in Nodes, Shutdown(n)
    PROVE  IndInv'
  <1>1. Types
    BY DEF IndInv
  <1>2. CASE Close(n) \/ CloseBuffer(n) \/ CloseTimesOut(n) \/ CloseReturns(n)
    <2>1. UNCHANGED <<redis, credits, replica, call, buffer, worker, spent, update, disturbed>>
      BY <1>2 DEF Close, CloseBuffer, CloseTimesOut, CloseReturns, updateVars
    <2>2. /\ buffer' \in [Nodes -> Seq(Nat)]
          /\ worker' \in [Nodes -> [Workers -> Nat \cup {Idle}]]
          /\ 0 \in Nat
      BY <1>1, <2>1 DEF Types
    <2> QED
      BY <2>1, <2>2, RowStep
  <1>3. CASE DrainOne(n)
    <2>1. /\ buffer[n] # <<>>
          /\ buffer' = [buffer EXCEPT ![n] = Tail(buffer[n])]
          /\ credits' \in {credits, Charged(credits, Head(buffer[n]))}
          /\ UNCHANGED <<redis, replica, call, worker, spent, update, disturbed>>
      BY <1>3 DEF DrainOne, updateVars
    <2>2. Head(buffer[n]) \in Nat /\ Tail(buffer[n]) \in Seq(Nat)
      BY <1>1, <2>1 DEF Types
    <2>3. /\ buffer' \in [Nodes -> Seq(Nat)]
          /\ worker' \in [Nodes -> [Workers -> Nat \cup {Idle}]]
      BY <1>1, <2>1, <2>2 DEF Types
    <2> QED
      BY <2>1, <2>2, <2>3, RowStep
  <1>4. CASE Exit(n)
    <2> USE DEF IndInv
    <2>1. /\ buffer' = [buffer EXCEPT ![n] = <<>>]
          /\ worker' = [worker EXCEPT ![n] = [w \in Workers |-> Idle]]
          /\ call' = [g \in Calls |->
                        IF call[g].node = n THEN [Request EXCEPT !.pc = "crashed"] ELSE call[g]]
          /\ UNCHANGED <<redis, credits, replica, spent, update, disturbed>>
      BY <1>4 DEF Exit, updateVars
    <2>2. "crashed" \in CallStates /\ "crashed" \notin Active
      BY DEF CallStates, Active
    <2>3. Types'
      <3>1. buffer' \in [Nodes -> Seq(Nat)]
        BY <1>1, <2>1 DEF Types
      <3>2. worker' \in [Nodes -> [Workers -> Nat \cup {Idle}]]
        BY <1>1, <2>1 DEF Types
      <3>3. call' \in [Calls -> [pc : CallStates, node : Nodes \cup {"none"}, cost : Nat, got : Nat]]
        BY <1>1, <2>1, <2>2 DEF Types, Request
      <3> QED
        BY <1>1, <2>1, <3>1, <3>2, <3>3 DEF Types
    <2>4. Placed'
      BY <2>1, <2>2 DEF Placed, Request
    <2>5. UpdateDisturbs'
      BY <2>1 DEF UpdateDisturbs
    <2>6. Undisturbed'
      BY <2>1, CreditAssumption DEF Undisturbed, Request
    <2> QED
      BY <2>3, <2>4, <2>5, <2>6
  <1> QED
    BY <1>2, <1>3, <1>4 DEF Shutdown

----------------------------------------------------------------------------
\* An update, an invalidation, an expiry and the replication keep the invariant.
LEMMA EnvironmentStep ==
    ASSUME IndInv,
           \/ \E n \in Nodes : UpdateCredits(n)
           \/ \E r \in Regions : Expire(r)
           \/ Invalidate \/ Replicate
    PROVE  IndInv'
  <1> USE DEF IndInv
  <1>1. ASSUME NEW n \in Nodes, UpdateCredits(n) PROVE IndInv'
    <2>1. /\ disturbed'
          /\ UNCHANGED <<redis, replica, call, buffer, worker, spent>>
      BY <1>1 DEF UpdateCredits, limiterVars
    <2>2. credits' \in Nat \cup {Unlimited}
      <3>1. CASE credits' \in Settings
        BY <3>1, CreditAssumption
      <3>2. CASE \E v \in Costs : credits' \in {Increased(credits, v), Charged(credits, v)}
        <4>1. PICK v \in Costs : credits' \in {Increased(credits, v), Charged(credits, v)}
          BY <3>2
        <4>2. credits \in Nat \cup {Unlimited} /\ v \in Nat
          BY CreditAssumption DEF Types
        <4>3. Increased(credits, v) \in Nat \cup {Unlimited}
          BY <4>2 DEF Increased
        <4>4. Charged(credits, v) \in Nat
          BY <4>2, ChargedRange
        <4> QED
          BY <4>1, <4>3, <4>4
      <3> QED
        BY <1>1, <3>1, <3>2 DEF UpdateCredits
    <2>3. Types'
      BY <1>1, <2>1, <2>2 DEF Types, UpdateCredits
    <2>4. Placed'
      BY <2>1 DEF Placed
    <2> QED
      BY <2>1, <2>3, <2>4, Disturbs
  <1>2. ASSUME NEW r \in Regions, Expire(r) PROVE IndInv'
    <2>1. /\ disturbed' = TRUE
          /\ redis' = [redis EXCEPT ![r] = NoKey]
          /\ UNCHANGED <<credits, replica, call, buffer, worker, spent>>
      BY <1>2 DEF Expire, limiterVars
    <2>2. Types'
      BY <2>1 DEF Types
    <2>3. Placed'
      BY <2>1 DEF Placed
    <2> QED
      BY <2>1, <2>2, <2>3, Disturbs
  <1>3. CASE Invalidate
    <2>1. /\ update # "none"
          /\ redis' \in {redis, [redis EXCEPT ![RegionOf[update]] = NoKey]}
          /\ UNCHANGED <<credits, replica, call, buffer, worker, spent, disturbed>>
      BY <1>3 DEF Invalidate, limiterVars
    <2>2. Types'
      BY <2>1 DEF Types
    <2>3. Placed'
      BY <2>1 DEF Placed
    <2>4. disturbed'
      BY <2>1 DEF UpdateDisturbs
    <2> QED
      BY <2>2, <2>3, <2>4, Disturbs
  <1>4. CASE Replicate
    <2>1. /\ replica' = credits
          /\ UNCHANGED <<redis, credits, call, buffer, worker, spent, update, disturbed>>
      BY <1>4 DEF Replicate, limiterVars, updateVars
    <2>2. Types'
      BY <2>1 DEF Types
    <2>3. Placed'
      BY <2>1 DEF Placed
    <2>4. UpdateDisturbs'
      BY <2>1 DEF UpdateDisturbs
    <2>5. Undisturbed'
      BY <2>1 DEF Undisturbed
    <2> QED
      BY <2>2, <2>3, <2>4, <2>5
  <1> QED
    BY <1>1, <1>2, <1>3, <1>4

\* Every step, a stuttering one included, keeps the invariant.
LEMMA Preserved == IndInv /\ [Next]_vars => IndInv'
  <1> SUFFICES ASSUME IndInv, [Next]_vars PROVE IndInv'
    OBVIOUS
  <1>1. CASE UNCHANGED vars
    BY <1>1 DEF vars, limiterVars, updateVars, IndInv, Types, Placed, UpdateDisturbs, Undisturbed
  <1>2. CASE Next
    BY <1>2, LimitStep, BeginStep, ReplayStep, ShutdownStep, EnvironmentStep DEF Next
  <1> QED
    BY <1>1, <1>2

\* The invariant bounds what a region has spent.
LEMMA Bounded == IndInv => NoOverspend
  <1> SUFFICES ASSUME IndInv, ~disturbed, NEW r \in Regions PROVE spent[r] <= Initial
    BY DEF NoOverspend
  <1>1. /\ spent[r] \in Nat /\ redis[r] \in Nat \cup {NoKey} /\ Initial \in Nat
        /\ redis[r] = NoKey => spent[r] = 0
        /\ redis[r] # NoKey => redis[r] + spent[r] <= Initial
    BY CreditAssumption DEF IndInv, Types, Undisturbed
  <1> QED
    BY <1>1

\* For any number of replicas, requests and workers and any costs: however the requests
\* interleave on the counter (decrementIfExists, initializeFromDatabase), a region admits
\* no more than the key has, until the counter is dropped or bypassed or the row updated.
THEOREM CreditsNotOverspent == Spec => []NoOverspend
  <1>1. Init => IndInv
    BY Initially
  <1>2. IndInv /\ [Next]_vars => IndInv'
    BY Preserved
  <1>3. IndInv => NoOverspend
    BY Bounded
  <1> QED
    BY <1>1, <1>2, <1>3, PTL DEF Spec

----------------------------------------------------------------------------
\* What the replicas owe the row

CallFun == [Calls -> [pc : CallStates, node : Nodes \cup {"none"}, cost : Nat, got : Nat]]
BufferFun == [Nodes -> Seq(Nat)]
WorkerFun == [Nodes -> [Workers -> Nat \cup {Idle}]]

\* The change that a request of node n, or a worker, has in its hand.
Held(c, n, g) == IF c[g].node = n /\ c[g].pc \in {"buffer", "sending"} THEN c[g].cost ELSE 0
Busy(k, n, w) == IF k[n][w] # Idle THEN k[n][w] ELSE 0

\* Pending and AllPending, with every request and every worker in the sum.
HeldBy(c, n) == SumFunctionOnSet([g \in Calls |-> Held(c, n, g)], Calls)
BusyOn(k, n) == SumFunctionOnSet([w \in Workers |-> Busy(k, n, w)], Workers)
Owed(c, b, k, n) == HeldBy(c, n) + BusyOn(k, n) + SumFunction(b[n])
Debt(c, b, k) == SumFunctionOnSet([n \in Nodes |-> Owed(c, b, k, n)], Nodes)

\* The changes in a hand are natural numbers.
LEMMA HandNat ==
    ASSUME NEW c \in CallFun, NEW k \in WorkerFun, NEW n \in Nodes
    PROVE  /\ \A g \in Calls : Held(c, n, g) \in Nat
           /\ \A w \in Workers : Busy(k, n, w) \in Nat
  BY DEF CallFun, WorkerFun, Held, Busy

\* The changes in a queue add up to a natural number.
LEMMA QueueNat ==
    ASSUME NEW q \in Seq(Nat)
    PROVE  /\ DOMAIN q = 1..Len(q) /\ Len(q) \in Nat
           /\ IsFiniteSet(1..Len(q)) /\ \A i \in 1..Len(q) : q[i] \in Nat
           /\ SumFunction(q) = SumFunctionOnSet(q, 1..Len(q))
           /\ SumFunction(q) \in Nat
  <1>1. DOMAIN q = 1..Len(q) /\ Len(q) \in Nat /\ \A i \in 1..Len(q) : q[i] \in Nat
    OBVIOUS
  <1>2. IsFiniteSet(1..Len(q))
    BY <1>1, FS_Interval
  <1>3. SumFunction(q) = SumFunctionOnSet(q, 1..Len(q))
    BY <1>1 DEF SumFunction
  <1>4. SumFunctionOnSet(q, 1..Len(q)) \in Nat
    BY ONLY <1>1, <1>2, SumNat
  <1> QED
    BY <1>1, <1>2, <1>3, <1>4

\* An empty queue owes nothing.
LEMMA QueueEmpty == SumFunction(<<>>) = 0
  <1>1. DOMAIN <<>> = {}
    OBVIOUS
  <1> QED
    BY <1>1, SumEmpty DEF SumFunction

\* A change that is put into the queue.
LEMMA QueueAppend ==
    ASSUME NEW q \in Seq(Nat), NEW x \in Nat
    PROVE  SumFunction(Append(q, x)) = SumFunction(q) + x
  <1> DEFINE a == Append(q, x)
             m == Len(q)
  <1>1. /\ a \in Seq(Nat) /\ Len(a) = m + 1 /\ m \in Nat
        /\ \A i \in 1..m : a[i] = q[i]
        /\ a[m + 1] = x
    OBVIOUS
  <1>2. /\ IsFiniteSet(1..m) /\ \A i \in 1..m : q[i] \in Nat
        /\ SumFunction(q) = SumFunctionOnSet(q, 1..m)
    BY QueueNat
  <1> HIDE DEF a
  <1>3. SumFunction(a) = SumFunctionOnSet(a, 1..(m + 1))
    BY <1>1, QueueNat
  <1> HIDE DEF m
  <1>4. 1..(m + 1) = (1..m) \cup {m + 1} /\ m + 1 \notin 1..m
    BY <1>1
  <1>5. \A i \in (1..m) \cup {m + 1} : a[i] \in Int
    BY <1>1, <1>2
  <1>6. SumFunctionOnSet(a, (1..m) \cup {m + 1}) = SumFunctionOnSet(a, 1..m) + a[m + 1]
    BY ONLY <1>2, <1>4, <1>5, SumAdd
  <1>7. \A i \in 1..m : a[i] \in Int /\ a[i] = q[i]
    BY <1>1, <1>5
  <1>8. SumFunctionOnSet(a, 1..m) = SumFunctionOnSet(q, 1..m)
    BY ONLY <1>2, <1>7, SumSame
  <1> QED
    BY ONLY <1>1, <1>2, <1>3, <1>4, <1>6, <1>8 DEF a

\* A change that is taken from it.
LEMMA QueueTail ==
    ASSUME NEW q \in Seq(Nat), q # <<>>
    PROVE  /\ Head(q) \in Nat /\ Tail(q) \in Seq(Nat)
           /\ SumFunction(q) = Head(q) + SumFunction(Tail(q))
  <1> DEFINE t == Tail(q)
             m == Len(t)
  <1>1. /\ t \in Seq(Nat) /\ Len(q) = m + 1 /\ m \in Nat
        /\ \A i \in 1..m : t[i] = q[i + 1]
        /\ Head(q) = q[1] /\ Head(q) \in Nat
    OBVIOUS
  <1> HIDE DEF t
  <1>2. SumFunction(t) = SumFunctionOnSet(t, 1..m)
    BY <1>1, QueueNat
  <1>3. /\ \A i \in 1..Len(q) : q[i] \in Nat
        /\ SumFunction(q) = SumFunctionOnSet(q, 1..Len(q))
    BY QueueNat
  <1> HIDE DEF m
  <1>4. \A i \in 1..(m + 1) : q[i] \in Int
    BY <1>1, <1>3
  <1>5. SumFunctionOnSet(q, 1..(m + 1)) = q[1] + SumFunctionOnSet(t, 1..m)
    BY ONLY <1>1, <1>4, SumShift
  <1>6. SumFunction(q) = Head(q) + SumFunction(t)
    BY ONLY <1>1, <1>2, <1>3, <1>5
  <1> QED
    BY <1>1, <1>6 DEF t

\* What a node owes is a natural number ...
LEMMA OwedNat ==
    ASSUME NEW c \in CallFun, NEW b \in BufferFun, NEW k \in WorkerFun, NEW n \in Nodes
    PROVE  /\ HeldBy(c, n) \in Nat /\ BusyOn(k, n) \in Nat /\ SumFunction(b[n]) \in Nat
           /\ Owed(c, b, k, n) \in Nat
  <1> DEFINE f == [g \in Calls |-> Held(c, n, g)]
             h == [w \in Workers |-> Busy(k, n, w)]
  <1>1. /\ \A g \in Calls : f[g] \in Nat
        /\ \A w \in Workers : h[w] \in Nat
    BY HandNat
  <1>2. HeldBy(c, n) = SumFunctionOnSet(f, Calls) /\ BusyOn(k, n) = SumFunctionOnSet(h, Workers)
    BY DEF HeldBy, BusyOn
  <1> HIDE DEF f, h
  <1>3. HeldBy(c, n) \in Nat
    BY <1>1, <1>2, FiniteAssumption, SumNat
  <1>4. BusyOn(k, n) \in Nat
    BY <1>1, <1>2, FiniteAssumption, SumNat
  <1>5. SumFunction(b[n]) \in Nat
    <2>1. b[n] \in Seq(Nat)
      BY DEF BufferFun
    <2> QED
      BY <2>1, QueueNat
  <1> QED
    BY <1>3, <1>4, <1>5 DEF Owed

\* ... and so is what they owe together.
LEMMA DebtNat ==
    ASSUME NEW c \in CallFun, NEW b \in BufferFun, NEW k \in WorkerFun
    PROVE  Debt(c, b, k) \in Nat /\ \A n \in Nodes : Owed(c, b, k, n) <= Debt(c, b, k)
  <1> DEFINE f == [n \in Nodes |-> Owed(c, b, k, n)]
  <1>1. \A n \in Nodes : f[n] \in Nat /\ f[n] = Owed(c, b, k, n)
    BY OwedNat
  <1>2. Debt(c, b, k) = SumFunctionOnSet(f, Nodes)
    BY DEF Debt
  <1> HIDE DEF f
  <1> QED
    BY <1>1, <1>2, FiniteAssumption, SumNat

\* A node owes d more, the others what they owed.
LEMMA DebtShifts ==
    ASSUME NEW c \in CallFun, NEW b \in BufferFun, NEW k \in WorkerFun,
           NEW c2 \in CallFun, NEW b2 \in BufferFun, NEW k2 \in WorkerFun,
           NEW n \in Nodes, NEW d \in Int,
           \A m \in Nodes \ {n} : Owed(c2, b2, k2, m) = Owed(c, b, k, m),
           Owed(c2, b2, k2, n) = Owed(c, b, k, n) + d
    PROVE  Debt(c2, b2, k2) = Debt(c, b, k) + d
  <1> DEFINE f == [m \in Nodes |-> Owed(c, b, k, m)]
             h == [m \in Nodes |-> Owed(c2, b2, k2, m)]
  <1>1. \A m \in Nodes : f[m] \in Int /\ h[m] \in Int
    BY OwedNat
  <1>2. \A m \in Nodes \ {n} : f[m] = h[m]
    OBVIOUS
  <1>3. h[n] = f[n] + d
    OBVIOUS
  <1>4. Debt(c, b, k) = SumFunctionOnSet(f, Nodes) /\ Debt(c2, b2, k2) = SumFunctionOnSet(h, Nodes)
    BY DEF Debt
  <1> HIDE DEF f, h
  <1>5. SumFunctionOnSet(h, Nodes) = SumFunctionOnSet(f, Nodes) - f[n] + h[n]
    BY ONLY <1>1, <1>2, FiniteAssumption, SumChange, n \in Nodes
  <1>6. SumFunctionOnSet(f, Nodes) \in Int /\ f[n] \in Int
    BY <1>1, FiniteAssumption, SumType
  <1> QED
    BY ONLY <1>4, <1>5, <1>6, <1>3, d \in Int

\* One request changes: each node owes what it has in its hand then instead of before.
LEMMA CallChanges ==
    ASSUME NEW c \in CallFun, NEW c2 \in CallFun, NEW g \in Calls, NEW n \in Nodes,
           \A h \in Calls \ {g} : c2[h] = c[h]
    PROVE  HeldBy(c2, n) = HeldBy(c, n) - Held(c, n, g) + Held(c2, n, g)
  <1> DEFINE f == [h \in Calls |-> Held(c, n, h)]
             e == [h \in Calls |-> Held(c2, n, h)]
  <1>1. \A h \in Calls : f[h] \in Int /\ e[h] \in Int
    <2>1. \A h \in Calls : Held(c, n, h) \in Nat /\ Held(c2, n, h) \in Nat
      BY DEF CallFun, Held
    <2> QED
      BY <2>1
  <1>2. \A h \in Calls \ {g} : f[h] = e[h]
    BY DEF Held
  <1>3. /\ HeldBy(c, n) = SumFunctionOnSet(f, Calls) /\ HeldBy(c2, n) = SumFunctionOnSet(e, Calls)
        /\ f[g] = Held(c, n, g) /\ e[g] = Held(c2, n, g)
    BY DEF HeldBy
  <1> HIDE DEF f, e
  <1>4. SumFunctionOnSet(e, Calls) = SumFunctionOnSet(f, Calls) - f[g] + e[g]
    BY ONLY <1>1, <1>2, FiniteAssumption, SumChange, g \in Calls
  <1> QED
    BY ONLY <1>3, <1>4

\* One worker of a node changes.
LEMMA WorkerChanges ==
    ASSUME NEW k \in WorkerFun, NEW k2 \in WorkerFun, NEW n \in Nodes, NEW w \in Workers,
           \A v \in Workers \ {w} : k2[n][v] = k[n][v]
    PROVE  BusyOn(k2, n) = BusyOn(k, n) - Busy(k, n, w) + Busy(k2, n, w)
  <1> DEFINE f == [v \in Workers |-> Busy(k, n, v)]
             e == [v \in Workers |-> Busy(k2, n, v)]
  <1>1. \A v \in Workers : f[v] \in Int /\ e[v] \in Int
    <2>1. \A v \in Workers : Busy(k, n, v) \in Nat /\ Busy(k2, n, v) \in Nat
      BY DEF WorkerFun, Busy
    <2> QED
      BY <2>1
  <1>2. \A v \in Workers \ {w} : f[v] = e[v]
    BY DEF Busy
  <1>3. /\ BusyOn(k, n) = SumFunctionOnSet(f, Workers) /\ BusyOn(k2, n) = SumFunctionOnSet(e, Workers)
        /\ f[w] = Busy(k, n, w) /\ e[w] = Busy(k2, n, w)
    BY DEF BusyOn
  <1> HIDE DEF f, e
  <1>4. SumFunctionOnSet(e, Workers) = SumFunctionOnSet(f, Workers) - f[w] + e[w]
    BY ONLY <1>1, <1>2, FiniteAssumption, SumChange, w \in Workers
  <1> QED
    BY ONLY <1>3, <1>4

\* A node whose workers are as they were has as much in their hands.
LEMMA WorkersSame ==
    ASSUME NEW k, NEW k2, NEW n, k2[n] = k[n]
    PROVE  BusyOn(k2, n) = BusyOn(k, n)
  <1>1. [w \in Workers |-> Busy(k2, n, w)] = [w \in Workers |-> Busy(k, n, w)]
    BY DEF Busy
  <1> QED
    BY <1>1 DEF BusyOn

\* Pending is what the node owes.
LEMMA PendingIsOwed ==
    ASSUME call \in CallFun, buffer \in BufferFun, worker \in WorkerFun
    PROVE  /\ \A n \in Nodes : Pending(n) = Owed(call, buffer, worker, n)
           /\ AllPending = Debt(call, buffer, worker)
  <1>1. ASSUME NEW n \in Nodes PROVE Pending(n) = Owed(call, buffer, worker, n)
    <2> DEFINE R == {g \in Calls : call[g].node = n /\ At(g) \in {"buffer", "sending"}}
               Q == {w \in Workers : worker[n][w] # Idle}
               f == [g \in Calls |-> Held(call, n, g)]
               p == [g \in Calls |-> call[g].cost]
               h == [w \in Workers |-> Busy(worker, n, w)]
               q == worker[n]
    <2>1. /\ R \in SUBSET Calls /\ Q \in SUBSET Workers
          /\ IsFiniteSet(R) /\ IsFiniteSet(Q)
      BY FiniteAssumption, FS_Subset
    <2>2. \A g \in Calls : f[g] \in Int /\ (g \notin R => f[g] = 0) /\ (g \in R => f[g] = p[g])
      BY DEF Held, CallFun, At
    <2>3. \A w \in Workers : h[w] \in Int /\ (w \notin Q => h[w] = 0) /\ (w \in Q => h[w] = q[w])
      BY DEF Busy, WorkerFun
    <2>4. /\ InCalls(n) = SumFunctionOnSet(p, R) /\ HeldBy(call, n) = SumFunctionOnSet(f, Calls)
          /\ InWorkers(n) = SumFunctionOnSet(q, Q) /\ BusyOn(worker, n) = SumFunctionOnSet(h, Workers)
      BY DEF InCalls, InWorkers, HeldBy, BusyOn
    <2> HIDE DEF R, Q, f, p, h, q
    <2>5. /\ SumFunctionOnSet(f, Calls) = SumFunctionOnSet(f, R)
          /\ SumFunctionOnSet(h, Workers) = SumFunctionOnSet(h, Q)
      BY <2>1, <2>2, <2>3, FiniteAssumption, SumSupport
    <2>6. SumFunctionOnSet(f, R) = SumFunctionOnSet(p, R)
      BY <2>1, <2>2, SumSame
    <2>7. SumFunctionOnSet(h, Q) = SumFunctionOnSet(q, Q)
      BY <2>1, <2>3, SumSame
    <2> QED
      BY <2>4, <2>5, <2>6, <2>7 DEF Pending, Owed
  <1>2. [n \in Nodes |-> Pending(n)] = [n \in Nodes |-> Owed(call, buffer, worker, n)]
    BY <1>1
  <1>3. AllPending = SumFunctionOnSet([n \in Nodes |-> Pending(n)], Nodes)
    BY DEF AllPending, SumFunction
  <1> QED
    BY <1>1, <1>2, <1>3 DEF Debt

\* One request changes what it has in its hand on one node.
LEMMA CallDebt ==
    ASSUME NEW c \in CallFun, NEW b \in BufferFun, NEW k \in WorkerFun, NEW c2 \in CallFun,
           NEW g \in Calls, NEW n \in Nodes,
           \A h \in Calls \ {g} : c2[h] = c[h],
           \A m \in Nodes \ {n} : Held(c2, m, g) = Held(c, m, g)
    PROVE  Debt(c2, b, k) = Debt(c, b, k) + (Held(c2, n, g) - Held(c, n, g))
  <1> DEFINE d == Held(c2, n, g) - Held(c, n, g)
  <1>1. \A m \in Nodes : Held(c, m, g) \in Nat /\ Held(c2, m, g) \in Nat
    BY DEF CallFun, Held
  <1>2. \A m \in Nodes : HeldBy(c2, m) = HeldBy(c, m) - Held(c, m, g) + Held(c2, m, g)
    BY CallChanges
  <1>3. \A m \in Nodes : /\ HeldBy(c, m) \in Nat /\ BusyOn(k, m) \in Nat
                         /\ SumFunction(b[m]) \in Nat
    BY OwedNat
  <1>4. /\ \A m \in Nodes \ {n} : Owed(c2, b, k, m) = Owed(c, b, k, m)
        /\ Owed(c2, b, k, n) = Owed(c, b, k, n) + d
    BY <1>1, <1>2, <1>3 DEF Owed
  <1>5. d \in Int
    BY <1>1
  <1> HIDE DEF d
  <1>6. Debt(c2, b, k) = Debt(c, b, k) + d
    BY <1>4, <1>5, DebtShifts
  <1> QED
    BY <1>6 DEF d

----------------------------------------------------------------------------
\* The types that IndInv leaves out.
Rest ==
    /\ \A n \in Nodes : Len(buffer[n]) <= Capacity
    /\ closing \in [Nodes -> {"open", "locking", "draining", "forcing", "returned", "exited"}]
    /\ update \in Nodes \cup {"none"} /\ updates \in 0..MaxUpdates
    /\ applied \in Nat /\ lost \in Nat

\* ChargeConservation, in terms of Debt.
Conserved == SumFunction(spent) = applied + lost + Debt(call, buffer, worker)

\* Until the first disturbance, with one region: before the counter exists the row, its
\* replica and whoever is about to create the counter have the initial credits; from then on
\* the counter is the row without what is owed to it and what was lost.
OneCounter ==
    ~disturbed /\ Cardinality(Regions) = 1 =>
        \A r \in Regions :
            /\ redis[r] = NoKey =>
                  /\ credits = Initial /\ replica = Initial
                  /\ \A g \in Calls : call[g].pc = "init" => call[g].got = Initial
            /\ redis[r] # NoKey => redis[r] = credits - lost - Debt(call, buffer, worker)

ChargeInv == IndInv /\ Rest /\ Conserved /\ OneCounter

\* What the invariant says of the shape of the variables.
LEMMA Shapes ==
    ASSUME Types
    PROVE  /\ call \in CallFun /\ buffer \in BufferFun /\ worker \in WorkerFun
           /\ Debt(call, buffer, worker) \in Nat
           /\ SumFunction(spent) \in Nat
  <1>1. call \in CallFun /\ buffer \in BufferFun /\ worker \in WorkerFun
    BY DEF Types, CallFun, BufferFun, WorkerFun
  <1>2. DOMAIN spent = Regions /\ \A r \in Regions : spent[r] \in Nat
    BY DEF Types
  <1>3. SumFunction(spent) \in Nat
    BY <1>2, FiniteAssumption, SumNat DEF SumFunction
  <1> QED
    BY <1>1, <1>3, DebtNat

\* The same of the next state.
LEMMA ShapesNext ==
    ASSUME Types'
    PROVE  /\ call' \in CallFun /\ buffer' \in BufferFun /\ worker' \in WorkerFun
           /\ Debt(call', buffer', worker') \in Nat
  <1>1. call' \in CallFun /\ buffer' \in BufferFun /\ worker' \in WorkerFun
    BY DEF Types, CallFun, BufferFun, WorkerFun
  <1> QED
    BY <1>1, DebtNat

\* A region spends x more.
LEMMA SpendsMore ==
    ASSUME NEW s, NEW s2, NEW r \in Regions, NEW x \in Nat,
           DOMAIN s = Regions, DOMAIN s2 = Regions,
           \A q \in Regions : s[q] \in Int /\ s2[q] \in Int,
           \A q \in Regions \ {r} : s[q] = s2[q], s2[r] = s[r] + x
    PROVE  SumFunction(s2) = SumFunction(s) + x
  <1>1. SumFunction(s) = SumFunctionOnSet(s, Regions) /\ SumFunction(s2) = SumFunctionOnSet(s2, Regions)
    BY DEF SumFunction
  <1>2. \A q \in Regions : s[q] \in Int /\ s2[q] \in Int
    OBVIOUS
  <1>3. /\ \A q \in Regions \ {r} : s[q] = s2[q]
        /\ s2[r] = s[r] + x
    OBVIOUS
  <1>4. SumFunctionOnSet(s2, Regions) = SumFunctionOnSet(s, Regions) - s[r] + s2[r]
    BY ONLY <1>2, <1>3, FiniteAssumption, SumChange, r \in Regions
  <1>5. SumFunctionOnSet(s, Regions) \in Int /\ s[r] \in Int
    BY <1>2, FiniteAssumption, SumType
  <1> QED
    BY ONLY <1>1, <1>3, <1>4, <1>5, x \in Nat

\* With one region, an undisturbed counter that does not exist means that nothing is
\* applied, lost or owed.
LEMMA NothingYet ==
    ASSUME ChargeInv, ~disturbed, Cardinality(Regions) = 1, NEW r \in Regions, redis[r] = NoKey
    PROVE  applied = 0 /\ lost = 0 /\ Debt(call, buffer, worker) = 0
  <1>1. Regions = {r}
    BY FiniteAssumption, FS_Singleton
  <1>2. DOMAIN spent = {r} /\ spent[r] = 0
    BY <1>1 DEF ChargeInv, IndInv, Types, Undisturbed
  <1>3. \A q \in {r} : spent[q] = 0
    BY <1>2
  <1>4. SumFunction(spent) = 0
    BY <1>2, <1>3, FS_Singleton, SumZero DEF SumFunction
  <1>5. Debt(call, buffer, worker) \in Nat
    BY Shapes DEF ChargeInv, IndInv
  <1> QED
    BY <1>4, <1>5 DEF ChargeInv, Conserved, Rest

\* No other region has a counter.
LEMMA OnlyRegion ==
    ASSUME Cardinality(Regions) = 1, NEW r \in Regions, NEW q \in Regions
    PROVE  q = r
  BY FiniteAssumption, FS_Singleton

----------------------------------------------------------------------------
\* The kinds of steps

\* A step that disturbs, and charges nobody.
LEMMA DisturbedKind ==
    ASSUME ChargeInv, disturbed', UNCHANGED <<spent, applied, lost>>,
           Debt(call', buffer', worker') = Debt(call, buffer, worker)
    PROVE  Conserved' /\ OneCounter'
  BY DEF ChargeInv, Conserved, OneCounter

\* A step that leaves counters, row and charges alone; a request that gets ready to create
\* a counter has read the replica.
LEMMA StaysKind ==
    ASSUME ChargeInv,
           UNCHANGED <<spent, applied, lost, credits, redis, disturbed>>,
           Debt(call', buffer', worker') = Debt(call, buffer, worker),
           replica' \in {replica, credits},
           \A g \in Calls : call'[g].pc = "init" =>
               \/ call[g].pc = "init" /\ call'[g].got = call[g].got
               \/ call'[g].got = replica
    PROVE  Conserved' /\ OneCounter'
  <1>1. Conserved'
    BY DEF ChargeInv, Conserved
  <1>2. OneCounter'
    <2> SUFFICES ASSUME ~disturbed', Cardinality(Regions) = 1, NEW r \in Regions
                 PROVE  /\ redis'[r] = NoKey =>
                              /\ credits' = Initial /\ replica' = Initial
                              /\ \A g \in Calls : call'[g].pc = "init" => call'[g].got = Initial
                        /\ redis'[r] # NoKey =>
                              redis'[r] = credits' - lost' - Debt(call', buffer', worker')
      BY DEF OneCounter
    <2>1. /\ redis[r] = NoKey =>
                /\ credits = Initial /\ replica = Initial
                /\ \A g \in Calls : call[g].pc = "init" => call[g].got = Initial
          /\ redis[r] # NoKey => redis[r] = credits - lost - Debt(call, buffer, worker)
      BY DEF ChargeInv, OneCounter
    <2> QED
      BY <2>1
  <1> QED
    BY <1>1, <1>2

\* A step that loses x of what is owed.
LEMMA LosesKind ==
    ASSUME ChargeInv, NEW x \in Nat,
           UNCHANGED <<spent, applied, credits, replica, redis, disturbed>>,
           Debt(call', buffer', worker') \in Nat,
           Debt(call', buffer', worker') = Debt(call, buffer, worker) - x,
           lost' = lost + x,
           \A g \in Calls : call'[g].pc = "init" => call[g].pc = "init" /\ call'[g].got = call[g].got
    PROVE  Conserved' /\ OneCounter'
  <1>0. /\ applied \in Nat /\ lost \in Nat /\ Debt(call, buffer, worker) \in Nat
    BY Shapes DEF ChargeInv, IndInv, Rest
  <1>1. Conserved'
    <2>1. SumFunction(spent) = applied + lost + Debt(call, buffer, worker)
      BY DEF ChargeInv, Conserved
    <2>2. SumFunction(spent) = applied + lost' + Debt(call', buffer', worker')
      BY <1>0, <2>1
    <2> QED
      BY <2>2 DEF Conserved
  <1>2. OneCounter'
    <2> SUFFICES ASSUME ~disturbed', Cardinality(Regions) = 1, NEW r \in Regions
                 PROVE  /\ redis'[r] = NoKey =>
                              /\ credits' = Initial /\ replica' = Initial
                              /\ \A g \in Calls : call'[g].pc = "init" => call'[g].got = Initial
                        /\ redis'[r] # NoKey =>
                              redis'[r] = credits' - lost' - Debt(call', buffer', worker')
      BY DEF OneCounter
    <2>1. /\ redis[r] = NoKey =>
                /\ credits = Initial /\ replica = Initial
                /\ \A g \in Calls : call[g].pc = "init" => call[g].got = Initial
          /\ redis[r] # NoKey => redis[r] = credits - lost - Debt(call, buffer, worker)
      BY DEF ChargeInv, OneCounter
    <2>2. credits \in Int
      BY DEF ChargeInv, IndInv, Types, Unlimited
    <2>3. credits - lost' - Debt(call', buffer', worker') = credits - lost - Debt(call, buffer, worker)
      BY <1>0, <2>2
    <2> QED
      BY <2>1, <2>3
  <1> QED
    BY <1>1, <1>2

\* A step that applies x of what is owed to the row. Undisturbed, the counter is not
\* negative, so the row covers what is owed and nothing is cut off at zero.
LEMMA AppliesKind ==
    ASSUME ChargeInv, NEW x \in Nat,
           UNCHANGED <<spent, lost, replica, redis, call, disturbed>>,
           Debt(call', buffer', worker') \in Nat,
           Debt(call', buffer', worker') = Debt(call, buffer, worker) - x,
           applied' = applied + x, credits' = Charged(credits, x)
    PROVE  Conserved' /\ OneCounter'
  <1>0. /\ applied \in Nat /\ lost \in Nat /\ Debt(call, buffer, worker) \in Nat
    BY Shapes DEF ChargeInv, IndInv, Rest
  <1>1. Conserved'
    <2>1. SumFunction(spent) = applied + lost + Debt(call, buffer, worker)
      BY DEF ChargeInv, Conserved
    <2>2. SumFunction(spent) = applied' + lost + Debt(call', buffer', worker')
      BY <1>0, <2>1
    <2> QED
      BY <2>2 DEF Conserved
  <1>2. OneCounter'
    <2> SUFFICES ASSUME ~disturbed', Cardinality(Regions) = 1, NEW r \in Regions
                 PROVE  /\ redis'[r] = NoKey =>
                              /\ credits' = Initial /\ replica' = Initial
                              /\ \A g \in Calls : call'[g].pc = "init" => call'[g].got = Initial
                        /\ redis'[r] # NoKey =>
                              redis'[r] = credits' - lost' - Debt(call', buffer', worker')
      BY DEF OneCounter
    <2>1. /\ redis[r] = NoKey =>
                /\ credits = Initial /\ replica = Initial
                /\ \A g \in Calls : call[g].pc = "init" => call[g].got = Initial
          /\ redis[r] # NoKey => redis[r] = credits - lost - Debt(call, buffer, worker)
      BY DEF ChargeInv, OneCounter
    <2>2. credits \in Int /\ redis[r] \in Nat \cup {NoKey}
      BY DEF ChargeInv, IndInv, Types, Unlimited
    <2>3. CASE redis[r] = NoKey
      <3>1. x = 0
        BY <1>0, <2>3, NothingYet
      <3>2. credits' = Initial
        BY <2>1, <2>3, <3>1, CreditAssumption DEF Charged
      <3> QED
        BY <2>1, <2>3, <3>2
    <2>4. CASE redis[r] # NoKey
      <3>1. redis[r] \in Nat /\ redis[r] = credits - lost - Debt(call, buffer, worker)
        BY <2>1, <2>2, <2>4
      <3>2. credits >= x
        BY <1>0, <2>2, <3>1
      <3>3. credits' = credits - x
        BY <3>2 DEF Charged
      <3>4. credits - x - lost - Debt(call', buffer', worker') = credits - lost - Debt(call, buffer, worker)
        BY <1>0, <2>2
      <3> QED
        BY <2>4, <3>1, <3>3, <3>4
    <2> QED
      BY <2>3, <2>4
  <1> QED
    BY <1>1, <1>2

\* A step in which a counter of an existing or a new key admits x.
LEMMA AdmitsKind ==
    ASSUME ChargeInv, NEW x \in Nat, NEW g \in Calls, NEW r \in Regions, NEW v \in Nat,
           UNCHANGED <<applied, lost, credits, replica, disturbed>>,
           redis' = [redis EXCEPT ![r] = v],
           spent' = [spent EXCEPT ![r] = spent[r] + x],
           Debt(call', buffer', worker') = Debt(call, buffer, worker) + x,
           \/ redis[r] # NoKey /\ v + x = redis[r]
           \/ redis[r] = NoKey /\ call[g].pc = "init" /\ v + x = call[g].got
    PROVE  Conserved' /\ OneCounter'
  <1>0. /\ applied \in Nat /\ lost \in Nat /\ Debt(call, buffer, worker) \in Nat
        /\ SumFunction(spent) \in Nat
    BY Shapes DEF ChargeInv, IndInv, Rest
  <1>1. Conserved'
    <2>1. SumFunction(spent) = applied + lost + Debt(call, buffer, worker)
      BY DEF ChargeInv, Conserved
    <2>2. spent \in [Regions -> Nat] /\ spent[r] + x \in Nat
      BY DEF ChargeInv, IndInv, Types
    <2>3. spent' \in [Regions -> Nat]
      BY <2>2
    <2>4. SumFunction(spent') = SumFunction(spent) + x
      <3>1. /\ \A q \in Regions \ {r} : spent[q] = spent'[q]
            /\ spent'[r] = spent[r] + x
        BY <2>2
      <3>2. /\ DOMAIN spent = Regions /\ DOMAIN spent' = Regions
            /\ \A q \in Regions : spent[q] \in Int /\ spent'[q] \in Int
        BY <2>2, <2>3
      <3> QED
        BY ONLY <3>1, <3>2, SpendsMore, r \in Regions, x \in Nat
    <2>5. SumFunction(spent') = applied + lost + Debt(call', buffer', worker')
      BY <1>0, <2>1, <2>4
    <2> QED
      BY <2>5 DEF Conserved
  <1>2. OneCounter'
    <2> SUFFICES ASSUME ~disturbed', Cardinality(Regions) = 1, NEW q \in Regions
                 PROVE  /\ redis'[q] # NoKey
                        /\ redis'[q] = credits' - lost' - Debt(call', buffer', worker')
      BY DEF OneCounter
    <2>1. /\ redis[r] = NoKey =>
                /\ credits = Initial /\ replica = Initial
                /\ \A h \in Calls : call[h].pc = "init" => call[h].got = Initial
          /\ redis[r] # NoKey => redis[r] = credits - lost - Debt(call, buffer, worker)
      BY DEF ChargeInv, OneCounter
    <2>2. q = r
      BY OnlyRegion
    <2>3. redis'[q] = v
      BY <2>2 DEF ChargeInv, IndInv, Types
    <2>4. credits \in Int
      BY DEF ChargeInv, IndInv, Types, Unlimited
    <2>5. v + x = credits - lost - Debt(call, buffer, worker)
      <3>1. CASE redis[r] # NoKey /\ v + x = redis[r]
        BY <2>1, <3>1
      <3>2. CASE redis[r] = NoKey /\ call[g].pc = "init" /\ v + x = call[g].got
        <4>1. lost = 0 /\ Debt(call, buffer, worker) = 0
          BY <3>2, NothingYet
        <4> QED
          BY <2>1, <2>4, <3>2, <4>1
      <3> QED
        BY <3>1, <3>2
    <2>6. v = credits - lost - Debt(call', buffer', worker')
      BY <1>0, <2>4, <2>5
    <2> QED
      BY <2>3, <2>6 DEF NoKey
  <1> QED
    BY <1>1, <1>2

----------------------------------------------------------------------------
\* The steps of a request

\* A request has nothing in its hand before it is admitted and after it is answered.
LEMMA EmptyHand ==
    ASSUME NEW c, NEW g, c[g].pc \notin {"buffer", "sending"}
    PROVE  \A m \in Nodes : Held(c, m, g) = 0
  BY DEF Held

\* A request with nothing in its hand, before and after, changes no debt.
LEMMA IdleHand ==
    ASSUME ChargeInv, IndInv', NEW g \in Calls,
           call[g].pc \notin {"buffer", "sending"}, call'[g].pc \notin {"buffer", "sending"},
           \A h \in Calls \ {g} : call'[h] = call[h], UNCHANGED <<buffer, worker>>
    PROVE  Debt(call', buffer', worker') = Debt(call, buffer, worker)
  <1>1. /\ call \in CallFun /\ buffer \in BufferFun /\ worker \in WorkerFun
        /\ call' \in CallFun
        /\ Debt(call, buffer, worker) \in Nat
    BY Shapes, ShapesNext DEF ChargeInv, IndInv
  <1>2. \A m \in Nodes : Held(call, m, g) = 0 /\ Held(call', m, g) = 0
    BY EmptyHand
  <1>3. CASE Nodes = {}
    <2>1. [n \in Nodes |-> Owed(call', buffer, worker, n)] = [n \in Nodes |-> Owed(call, buffer, worker, n)]
      BY <1>3
    <2> QED
      BY <2>1 DEF Debt
  <1>4. ASSUME NEW n \in Nodes PROVE Debt(call', buffer, worker) = Debt(call, buffer, worker)
    <2>1. \A m \in Nodes \ {n} : Held(call', m, g) = Held(call, m, g)
      BY <1>2
    <2>2. Debt(call', buffer, worker) = Debt(call, buffer, worker) + (Held(call', n, g) - Held(call, n, g))
      BY <1>1, <2>1, CallDebt
    <2>3. Held(call', n, g) = 0 /\ Held(call, n, g) = 0
      BY <1>2
    <2> QED
      BY <1>1, <2>2, <2>3
  <1> QED
    BY <1>3, <1>4

\* What the call record is after Goes and Answers.
LEMMA AfterGoes ==
    ASSUME ChargeInv, NEW g \in Calls, NEW pc, Goes(g, pc)
    PROVE  /\ \A h \in Calls \ {g} : call'[h] = call[h]
           /\ call'[g].pc = pc /\ call'[g].node = call[g].node
           /\ call'[g].cost = call[g].cost /\ call'[g].got = call[g].got
  BY DEF Goes, ChargeInv, IndInv, Types

\* An answer moves one request.
LEMMA AfterAnswer ==
    ASSUME ChargeInv, NEW g \in Calls, NEW pc, Answers(g, pc)
    PROVE  /\ \A h \in Calls \ {g} : call'[h] = call[h]
           /\ call'[g].pc = pc
  BY DEF Answers, ChargeInv, IndInv, Types, Request

\* A request that is admitted takes its cost into its hand.
LEMMA HandFills ==
    ASSUME ChargeInv, IndInv', NEW g \in Calls,
           call[g].pc \in Active \ {"buffer", "sending"}, Goes(g, "buffer"), UNCHANGED <<buffer, worker>>
    PROVE  Debt(call', buffer', worker') = Debt(call, buffer, worker) + call[g].cost
  <1> DEFINE n == call[g].node
  <1>1. /\ call \in CallFun /\ buffer \in BufferFun /\ worker \in WorkerFun
        /\ call' \in CallFun
        /\ Debt(call, buffer, worker) \in Nat
    BY Shapes, ShapesNext DEF ChargeInv, IndInv
  <1>2. n \in Nodes /\ call[g].cost \in Nat
    BY DEF ChargeInv, IndInv, Types, Placed
  <1>3. /\ \A h \in Calls \ {g} : call'[h] = call[h]
        /\ call'[g].pc = "buffer" /\ call'[g].node = n /\ call'[g].cost = call[g].cost
    BY AfterGoes
  <1>4. \A m \in Nodes : Held(call, m, g) = 0
    BY EmptyHand
  <1>5. (\A m \in Nodes \ {n} : Held(call', m, g) = 0) /\ Held(call', n, g) = call[g].cost
    BY <1>3 DEF Held
  <1> HIDE DEF n
  <1>6. Debt(call', buffer, worker) = Debt(call, buffer, worker) + (Held(call', n, g) - Held(call, n, g))
    BY <1>1, <1>2, <1>3, <1>4, <1>5, CallDebt
  <1>7. Held(call, n, g) = 0
    BY <1>2, <1>4
  <1> QED
    BY <1>1, <1>2, <1>5, <1>6, <1>7

\* A request that is answered after it was admitted has emptied its hand.
LEMMA HandEmpties ==
    ASSUME ChargeInv, NEW c2 \in CallFun, NEW g \in Calls,
           call[g].pc \in {"buffer", "sending"}, c2[g].pc \notin {"buffer", "sending"},
           \A h \in Calls \ {g} : c2[h] = call[h]
    PROVE  Debt(c2, buffer, worker) = Debt(call, buffer, worker) - call[g].cost
  <1> DEFINE n == call[g].node
  <1>1. /\ call \in CallFun /\ buffer \in BufferFun /\ worker \in WorkerFun
        /\ Debt(call, buffer, worker) \in Nat
    BY Shapes DEF ChargeInv, IndInv
  <1>2. n \in Nodes /\ call[g].cost \in Nat
    BY DEF ChargeInv, IndInv, Types, Placed, Active
  <1>3. \A m \in Nodes : Held(c2, m, g) = 0
    BY EmptyHand
  <1>4. (\A m \in Nodes \ {n} : Held(call, m, g) = 0) /\ Held(call, n, g) = call[g].cost
    BY DEF Held
  <1> HIDE DEF n
  <1>5. Debt(c2, buffer, worker) = Debt(call, buffer, worker) + (Held(c2, n, g) - Held(call, n, g))
    BY <1>1, <1>2, <1>3, <1>4, CallDebt
  <1>6. Held(c2, n, g) = 0
    BY <1>2, <1>3
  <1> QED
    BY <1>1, <1>2, <1>4, <1>5, <1>6

\* A node queues x more, or, if x is negative, less.
LEMMA QueueDebt ==
    ASSUME NEW c \in CallFun, NEW b \in BufferFun, NEW k \in WorkerFun, NEW b2 \in BufferFun,
           NEW n \in Nodes, NEW x \in Int,
           \A m \in Nodes \ {n} : b2[m] = b[m],
           SumFunction(b2[n]) = SumFunction(b[n]) + x
    PROVE  Debt(c, b2, k) = Debt(c, b, k) + x
  <1>1. \A m \in Nodes : /\ HeldBy(c, m) \in Nat /\ BusyOn(k, m) \in Nat
                         /\ SumFunction(b[m]) \in Nat
    BY OwedNat
  <1>2. \A m \in Nodes \ {n} : Owed(c, b2, k, m) = Owed(c, b, k, m)
    BY DEF Owed
  <1>3. Owed(c, b2, k, n) = Owed(c, b, k, n) + x
    BY <1>1 DEF Owed
  <1> QED
    BY <1>2, <1>3, DebtShifts

\* A worker of a node changes the change in its hand.
LEMMA WorkerDebt ==
    ASSUME NEW c \in CallFun, NEW b \in BufferFun, NEW k \in WorkerFun, NEW k2 \in WorkerFun,
           NEW n \in Nodes, NEW w \in Workers,
           \A m \in Nodes \ {n} : k2[m] = k[m],
           \A v \in Workers \ {w} : k2[n][v] = k[n][v]
    PROVE  Debt(c, b, k2) = Debt(c, b, k) + (Busy(k2, n, w) - Busy(k, n, w))
  <1> DEFINE d == Busy(k2, n, w) - Busy(k, n, w)
  <1>1. Busy(k, n, w) \in Nat /\ Busy(k2, n, w) \in Nat
    BY DEF Busy, WorkerFun
  <1>2. BusyOn(k2, n) = BusyOn(k, n) - Busy(k, n, w) + Busy(k2, n, w)
    BY WorkerChanges
  <1>3. \A m \in Nodes \ {n} : BusyOn(k2, m) = BusyOn(k, m)
    BY WorkersSame
  <1>4. \A m \in Nodes : /\ HeldBy(c, m) \in Nat /\ BusyOn(k, m) \in Nat
                         /\ SumFunction(b[m]) \in Nat
    BY OwedNat
  <1>5. \A m \in Nodes \ {n} : Owed(c, b, k2, m) = Owed(c, b, k, m)
    BY <1>3 DEF Owed
  <1>6. Owed(c, b, k2, n) = Owed(c, b, k, n) + d
    BY <1>1, <1>2, <1>4 DEF Owed
  <1>7. d \in Int
    BY <1>1
  <1> HIDE DEF d
  <1>8. Debt(c, b, k2) = Debt(c, b, k) + d
    BY <1>5, <1>6, <1>7, DebtShifts
  <1> QED
    BY <1>8 DEF d

\* Every step of a request keeps the rest of the types.
LEMMA LimitRest ==
    ASSUME ChargeInv, IndInv', NEW g \in Calls, Limit(g)
    PROVE  Rest'
  <1>0. /\ call[g].pc \in Active => call[g].node \in Nodes /\ call[g].cost \in Nat
        /\ applied \in Nat /\ lost \in Nat /\ buffer \in [Nodes -> Seq(Nat)]
    BY DEF ChargeInv, IndInv, Types, Placed, Rest
  <1>1. CASE EnterBuffer(g)
    <2>1. /\ call[g].pc \in Active
          /\ lost' = lost \/ lost' = lost + call[g].cost
          /\ UNCHANGED <<buffer, closing, applied, update, updates>>
      BY <1>1 DEF EnterBuffer, At, Active, updateVars
    <2>2. lost' \in Nat
      BY <1>0, <2>1
    <2> QED
      BY <2>1, <2>2 DEF ChargeInv, Rest
  <1>2. CASE SendChange(g)
    <2> DEFINE n == call[g].node
    <2>1. /\ call[g].pc \in Active /\ Len(buffer[n]) < Capacity
          /\ buffer' = [buffer EXCEPT ![n] = Append(buffer[n], call[g].cost)]
          /\ UNCHANGED <<closing, applied, lost, update, updates>>
      BY <1>2 DEF SendChange, At, Active, updateVars
    <2> HIDE DEF n
    <2>2. n \in Nodes /\ buffer[n] \in Seq(Nat)
      BY <1>0, <2>1 DEF n
    <2>3. Len(Append(buffer[n], call[g].cost)) = Len(buffer[n]) + 1
      BY <1>0, <2>1, <2>2
    <2>4. buffer'[n] = Append(buffer[n], call[g].cost) /\ \A m \in Nodes \ {n} : buffer'[m] = buffer[m]
      BY <1>0, <2>1, <2>2
    <2>5. Len(buffer'[n]) <= Capacity
      BY <2>1, <2>2, <2>3, <2>4, BoundAssumption
    <2>6. \A m \in Nodes : Len(buffer'[m]) <= Capacity
      BY <2>4, <2>5 DEF ChargeInv, Rest
    <2> QED
      BY <2>1, <2>6 DEF ChargeInv, Rest
  <1>3. CASE ~EnterBuffer(g) /\ ~SendChange(g)
    <2>1. UNCHANGED <<buffer, closing, applied, lost, update, updates>>
      BY <1>3 DEF Limit, DecrementAdmits, DecrementDenies, DecrementMisses, RedisFails, FindCredits,
                  InitAdmits, InitDenies, InitLoses, FindForFallback, ChargeRow,
                  limiterVars, updateVars
    <2> QED
      BY <2>1 DEF ChargeInv, Rest
  <1> QED
    BY <1>1, <1>2, <1>3

\* A request moves on, or is answered, without a charge.
LEMMA WaitsKind ==
    ASSUME ChargeInv, IndInv', NEW g \in Calls, NEW pc,
           call[g].pc \notin {"buffer", "sending"}, pc \notin {"buffer", "sending", "init"},
           Goes(g, pc) \/ Answers(g, pc),
           UNCHANGED <<buffer, worker, spent, applied, lost>>,
           disturbed' \/ UNCHANGED <<credits, replica, redis, disturbed>>
    PROVE  Conserved' /\ OneCounter'
  <1>1. /\ \A h \in Calls \ {g} : call'[h] = call[h]
        /\ call'[g].pc = pc
    BY AfterGoes, AfterAnswer
  <1>2. Debt(call', buffer', worker') = Debt(call, buffer, worker)
    BY <1>1, IdleHand
  <1>3. CASE disturbed'
    BY <1>2, <1>3, DisturbedKind
  <1>4. CASE UNCHANGED <<credits, replica, redis, disturbed>>
    <2>1. \A h \in Calls : call'[h].pc = "init" => call[h].pc = "init" /\ call'[h].got = call[h].got
      BY <1>1
    <2> QED
      BY <1>2, <1>4, <2>1, StaysKind
  <1> QED
    BY <1>3, <1>4

\* Every step of a request keeps the accounts.
LEMMA LimitCharges ==
    ASSUME ChargeInv, IndInv', NEW g \in Calls, Limit(g)
    PROVE  Conserved' /\ OneCounter'
  <1> DEFINE r == RegionAt(g)
  <1>0. /\ call[g].pc \in Active =>
            /\ r \in Regions /\ call[g].cost \in Nat /\ call[g].got \in Nat
            /\ redis[r] \in Nat \cup {NoKey} /\ spent[r] \in Nat
        /\ ChargeInv => IndInv
    BY CallFacts DEF ChargeInv, IndInv
  <1>1. CASE DecrementAdmits(g)
    <2>1. /\ call[g].pc \in Active \ {"buffer", "sending"}
          /\ redis[r] # NoKey /\ redis[r] >= call[g].cost
          /\ redis' = [redis EXCEPT ![r] = redis[r] - call[g].cost]
          /\ spent' = [spent EXCEPT ![r] = spent[r] + call[g].cost]
          /\ Goes(g, "buffer")
          /\ UNCHANGED <<credits, replica, buffer, worker, applied, lost, disturbed>>
      BY <1>1 DEF DecrementAdmits, Admit, Sufficient, At, Active, limiterVars, updateVars
    <2> HIDE DEF r
    <2> DEFINE v == redis[r] - call[g].cost
    <2>2. v \in Nat /\ v + call[g].cost = redis[r]
      BY <2>1, <1>0
    <2>3. Debt(call', buffer', worker') = Debt(call, buffer, worker) + call[g].cost
      BY <2>1, HandFills
    <2>4. redis' = [redis EXCEPT ![r] = v]
      BY <2>1
    <2> HIDE DEF v
    <2> QED
      BY <2>1, <2>2, <2>3, <2>4, <1>0, AdmitsKind
  <1>2. CASE InitAdmits(g)
    <2>1. /\ call[g].pc \in Active \ {"buffer", "sending"} /\ call[g].pc = "init"
          /\ redis[r] = NoKey /\ call[g].got >= call[g].cost
          /\ redis' = [redis EXCEPT ![r] = call[g].got - call[g].cost]
          /\ spent' = [spent EXCEPT ![r] = spent[r] + call[g].cost]
          /\ Goes(g, "buffer")
          /\ UNCHANGED <<credits, replica, buffer, worker, applied, lost, disturbed>>
      BY <1>2 DEF InitAdmits, Admit, InitValue, Covers, At, Active, limiterVars, updateVars
    <2> HIDE DEF r
    <2> DEFINE v == call[g].got - call[g].cost
    <2>2. v \in Nat /\ v + call[g].cost = call[g].got
      BY <2>1, <1>0
    <2>3. Debt(call', buffer', worker') = Debt(call, buffer, worker) + call[g].cost
      BY <2>1, HandFills
    <2>4. redis' = [redis EXCEPT ![r] = v]
      BY <2>1
    <2> HIDE DEF v
    <2> QED
      BY ZenonT(40), <2>1, <2>2, <2>3, <2>4, <1>0, AdmitsKind
  <1>3. CASE InitDenies(g)
    <2>1. /\ call[g].pc \in Active /\ call[g].pc = "init" /\ redis[r] = NoKey
          /\ redis' = [redis EXCEPT ![r] = call[g].got]
          /\ Answers(g, "denied")
          /\ UNCHANGED <<credits, replica, buffer, worker, spent, applied, lost, disturbed>>
      BY <1>3 DEF InitDenies, InitValue, At, Active, limiterVars, updateVars
    <2> HIDE DEF r
    <2>2. /\ \A h \in Calls \ {g} : call'[h] = call[h]
          /\ call'[g].pc = "denied"
      BY <2>1, AfterAnswer
    <2>3. Debt(call', buffer', worker') = Debt(call, buffer, worker)
      BY <2>1, <2>2, IdleHand
    <2>4. Debt(call, buffer, worker) \in Nat /\ spent \in [Regions -> Nat]
      BY Shapes DEF ChargeInv, IndInv, Types
    <2>5. Debt(call', buffer', worker') = Debt(call, buffer, worker) + 0
      BY <2>3, <2>4
    <2>6. spent' = [spent EXCEPT ![r] = spent[r] + 0]
      BY <2>1, <2>4, <1>0
    <2>7. call[g].got + 0 = call[g].got /\ 0 \in Nat
      BY <2>1, <1>0
    <2> QED
      BY <2>1, <2>5, <2>6, <2>7, <1>0, AdmitsKind
  <1>4. CASE FindCredits(g)
    <2>1. /\ call[g].pc = "find"
          /\ UNCHANGED <<redis, credits, replica, buffer, worker, spent, applied, lost, disturbed>>
      BY <1>4 DEF FindCredits, At, limiterVars
    <2>2. CASE \E pc \in {"failed", "allowed"} : Answers(g, pc)
      BY <2>1, <2>2, WaitsKind
    <2>3. CASE call' = [call EXCEPT ![g].got = replica, ![g].pc = "init"]
      <3>1. /\ \A h \in Calls \ {g} : call'[h] = call[h]
            /\ call'[g].pc = "init" /\ call'[g].got = replica
        BY <2>3 DEF ChargeInv, IndInv, Types
      <3>2. Debt(call', buffer', worker') = Debt(call, buffer, worker)
        BY <2>1, <3>1, IdleHand
      <3>3. \A h \in Calls : call'[h].pc = "init" =>
                \/ call[h].pc = "init" /\ call'[h].got = call[h].got
                \/ call'[h].got = replica
        BY <3>1
      <3> QED
        BY <2>1, <3>2, <3>3, StaysKind
    <2> QED
      BY <1>4, <2>2, <2>3 DEF FindCredits
  <1>5. CASE EnterBuffer(g)
    <2>1. /\ call[g].pc = "buffer"
          /\ \/ Goes(g, "sending") /\ UNCHANGED lost
             \/ Answers(g, "allowed") /\ lost' = lost + call[g].cost
          /\ UNCHANGED <<redis, credits, replica, buffer, worker, spent, applied, disturbed>>
      BY <1>5 DEF EnterBuffer, At
    <2>2. /\ call[g].node \in Nodes /\ call[g].cost \in Nat
      BY <2>1 DEF ChargeInv, IndInv, Types, Placed, Active
    <2>3. /\ call \in CallFun /\ buffer \in BufferFun /\ worker \in WorkerFun /\ call' \in CallFun
          /\ Debt(call, buffer, worker) \in Nat /\ Debt(call', buffer', worker') \in Nat
      BY Shapes, ShapesNext DEF ChargeInv, IndInv
    <2>4. CASE Goes(g, "sending") /\ UNCHANGED lost
      <3> DEFINE n == call[g].node
      <3>1. /\ \A h \in Calls \ {g} : call'[h] = call[h]
            /\ call'[g].pc = "sending" /\ call'[g].node = n /\ call'[g].cost = call[g].cost
        BY <2>4, AfterGoes
      <3>2. \A m \in Nodes : Held(call', m, g) = Held(call, m, g)
        BY <2>1, <3>1 DEF Held
      <3>3. Debt(call', buffer, worker) = Debt(call, buffer, worker) + (Held(call', n, g) - Held(call, n, g))
        BY <2>2, <2>3, <3>1, <3>2, CallDebt
      <3>4. Held(call', n, g) - Held(call, n, g) = 0
        BY <2>1, <2>2, <3>1 DEF Held
      <3> HIDE DEF n
      <3>5. Debt(call', buffer', worker') = Debt(call, buffer, worker)
        BY <2>1, <2>3, <3>3, <3>4
      <3>6. \A h \in Calls : call'[h].pc = "init" => call[h].pc = "init" /\ call'[h].got = call[h].got
        BY <3>1
      <3> QED
        BY <2>1, <2>4, <3>5, <3>6, StaysKind
    <2>5. CASE Answers(g, "allowed") /\ lost' = lost + call[g].cost
      <3>1. /\ \A h \in Calls \ {g} : call'[h] = call[h]
            /\ call'[g].pc = "allowed"
        BY <2>5, AfterAnswer
      <3>2. Debt(call', buffer, worker) = Debt(call, buffer, worker) - call[g].cost
        BY <2>1, <2>3, <3>1, HandEmpties
      <3>3. \A h \in Calls : call'[h].pc = "init" => call[h].pc = "init" /\ call'[h].got = call[h].got
        BY <3>1
      <3> QED
        BY <2>1, <2>2, <2>3, <2>5, <3>2, <3>3, LosesKind
    <2> QED
      BY <2>1, <2>4, <2>5
  <1>6. CASE SendChange(g)
    <2> DEFINE n == call[g].node
               x == call[g].cost
    <2>1. /\ call[g].pc = "sending"
          /\ buffer' = [buffer EXCEPT ![n] = Append(buffer[n], x)]
          /\ Answers(g, "allowed")
          /\ UNCHANGED <<redis, credits, replica, worker, spent, applied, lost, disturbed>>
      BY <1>6 DEF SendChange, At
    <2>2. n \in Nodes /\ x \in Nat
      BY <2>1 DEF ChargeInv, IndInv, Types, Placed, Active
    <2>3. /\ call \in CallFun /\ buffer \in BufferFun /\ worker \in WorkerFun
          /\ call' \in CallFun /\ buffer' \in BufferFun
          /\ Debt(call, buffer, worker) \in Nat
      BY Shapes, ShapesNext DEF ChargeInv, IndInv
    <2>4. /\ \A h \in Calls \ {g} : call'[h] = call[h]
          /\ call'[g].pc = "allowed"
      BY <2>1, AfterAnswer
    <2>5. Debt(call', buffer, worker) = Debt(call, buffer, worker) - x
      BY <2>1, <2>3, <2>4, HandEmpties
    <2> HIDE DEF n, x
    <2>6. /\ buffer[n] \in Seq(Nat) /\ buffer'[n] = Append(buffer[n], x)
          /\ \A m \in Nodes \ {n} : buffer'[m] = buffer[m]
      BY <2>1, <2>2, <2>3 DEF BufferFun
    <2>7. SumFunction(buffer'[n]) = SumFunction(buffer[n]) + x /\ x \in Int
      BY <2>2, <2>6, QueueAppend
    <2>8. Debt(call', buffer', worker) = Debt(call', buffer, worker) + x
      BY ONLY <2>2, <2>3, <2>6, <2>7, QueueDebt
    <2>9. Debt(call', buffer', worker') = Debt(call, buffer, worker)
      BY <2>1, <2>2, <2>3, <2>5, <2>8
    <2>10. \A h \in Calls : call'[h].pc = "init" => call[h].pc = "init" /\ call'[h].got = call[h].got
      BY <2>4
    <2> QED
      BY <2>1, <2>9, <2>10, StaysKind
  <1>7. CASE \/ DecrementDenies(g) \/ DecrementMisses(g) \/ RedisFails(g) \/ InitLoses(g)
             \/ FindForFallback(g) \/ ChargeRow(g)
    <2>1. /\ call[g].pc \notin {"buffer", "sending"}
          /\ \E pc \in {"denied", "find", "fallback", "again", "failed", "allowed", "charge"} :
                Goes(g, pc) \/ Answers(g, pc)
          /\ UNCHANGED <<buffer, worker, spent, applied, lost>>
          /\ disturbed' \/ UNCHANGED <<credits, replica, redis, disturbed>>
      BY <1>7 DEF DecrementDenies, DecrementMisses, RedisFails, InitLoses, FindForFallback, ChargeRow,
                  At, limiterVars
    <2>2. PICK pc \in {"denied", "find", "fallback", "again", "failed", "allowed", "charge"} :
                Goes(g, pc) \/ Answers(g, pc)
      BY <2>1
    <2> QED
      BY <2>1, <2>2, WaitsKind
  <1> QED
    BY <1>1, <1>2, <1>3, <1>4, <1>5, <1>6, <1>7 DEF Limit

\* A request begins: nothing is in its hand.
LEMMA BeginCharges ==
    ASSUME ChargeInv, IndInv', NEW g \in Calls, NEW n \in Nodes, Begin(g, n)
    PROVE  Rest' /\ Conserved' /\ OneCounter'
  <1>1. /\ call[g].pc = "idle"
        /\ UNCHANGED <<redis, credits, replica, buffer, worker, closing, applied, lost, update, updates,
                       spent, disturbed>>
    BY DEF Begin, At, limiterVars, updateVars
  <1>2. /\ \A h \in Calls \ {g} : call'[h] = call[h]
        /\ call'[g].pc = "decrement"
    BY DEF Begin, ChargeInv, IndInv, Types, Request
  <1>3. Debt(call', buffer', worker') = Debt(call, buffer, worker)
    BY <1>1, <1>2, IdleHand
  <1>4. \A h \in Calls : call'[h].pc = "init" => call[h].pc = "init" /\ call'[h].got = call[h].got
    BY <1>2
  <1>5. Conserved' /\ OneCounter'
    BY <1>1, <1>3, <1>4, StaysKind
  <1> QED
    BY <1>1, <1>5 DEF ChargeInv, Rest

----------------------------------------------------------------------------
\* Replay and shutdown

\* A change that leaves the head of a queue.
LEMMA HeadLeaves ==
    ASSUME ChargeInv, IndInv', NEW n \in Nodes, buffer[n] # <<>>,
           buffer' = [buffer EXCEPT ![n] = Tail(buffer[n])]
    PROVE  /\ Head(buffer[n]) \in Nat
           /\ \A c \in CallFun, k \in WorkerFun : Debt(c, buffer', k) = Debt(c, buffer, k) - Head(buffer[n])
           /\ \A m \in Nodes : Len(buffer'[m]) <= Capacity
  <1> DEFINE q == buffer[n]
             x == Head(q)
  <1>1. buffer \in BufferFun /\ buffer' \in BufferFun
    BY Shapes, ShapesNext DEF ChargeInv, IndInv
  <1>2. /\ q \in Seq(Nat) /\ buffer'[n] = Tail(q)
        /\ \A m \in Nodes \ {n} : buffer'[m] = buffer[m]
    BY <1>1 DEF BufferFun
  <1>3. Len(q) <= Capacity /\ Len(Tail(q)) = Len(q) - 1 /\ Len(q) \in Nat
    BY <1>2 DEF ChargeInv, Rest
  <1>4. \A m \in Nodes : Len(buffer'[m]) <= Capacity
    BY <1>2, <1>3, BoundAssumption DEF ChargeInv, Rest
  <1>5. x \in Nat /\ Tail(q) \in Seq(Nat) /\ SumFunction(q) = x + SumFunction(Tail(q))
    BY <1>2, QueueTail
  <1>6. SumFunction(Tail(q)) \in Nat
    BY <1>5, QueueNat
  <1> HIDE DEF x
  <1>7. SumFunction(buffer'[n]) = SumFunction(buffer[n]) + (0 - x) /\ 0 - x \in Int
    BY <1>2, <1>5, <1>6
  <1>8. ASSUME NEW c \in CallFun, NEW k \in WorkerFun PROVE Debt(c, buffer', k) = Debt(c, buffer, k) - x
    <2> DEFINE y == 0 - x
    <2>1. y \in Int /\ SumFunction(buffer'[n]) = SumFunction(buffer[n]) + y
      BY <1>7
    <2> HIDE DEF y
    <2>2. Debt(c, buffer', k) = Debt(c, buffer, k) + y
      BY ONLY <1>1, <1>2, <2>1, QueueDebt, c \in CallFun, k \in WorkerFun, n \in Nodes
    <2>3. Debt(c, buffer, k) \in Nat
      BY <1>1, DebtNat
    <2> QED
      BY <1>5, <2>2, <2>3 DEF y
  <1> QED
    BY <1>4, <1>5, <1>8 DEF x

\* A worker gets a change, or is through with it.
LEMMA WorkerHand ==
    ASSUME ChargeInv, IndInv', NEW n \in Nodes, NEW w \in Workers, NEW y \in Nat \cup {Idle},
           worker' = [worker EXCEPT ![n][w] = y]
    PROVE  /\ worker'[n][w] = y
           /\ \A c \in CallFun, b \in BufferFun :
                 Debt(c, b, worker') = Debt(c, b, worker) + (Busy(worker', n, w) - Busy(worker, n, w))
  <1>1. worker \in WorkerFun /\ worker' \in WorkerFun
    BY Shapes, ShapesNext DEF ChargeInv, IndInv
  <1>2. /\ worker'[n][w] = y
        /\ \A m \in Nodes \ {n} : worker'[m] = worker[m]
        /\ \A v \in Workers \ {w} : worker'[n][v] = worker[n][v]
    BY <1>1 DEF WorkerFun
  <1>3. ASSUME NEW c \in CallFun, NEW b \in BufferFun
        PROVE  Debt(c, b, worker') = Debt(c, b, worker) + (Busy(worker', n, w) - Busy(worker, n, w))
    BY ONLY <1>1, <1>2, WorkerDebt, c \in CallFun, b \in BufferFun, n \in Nodes, w \in Workers
  <1> QED
    BY <1>2, <1>3

\* Every step of a replay worker keeps the accounts.
LEMMA ReplayCharges ==
    ASSUME ChargeInv, IndInv', NEW n \in Nodes, NEW w \in Workers, Replay(n, w)
    PROVE  Rest' /\ Conserved' /\ OneCounter'
  <1>1. /\ call \in CallFun /\ buffer \in BufferFun /\ worker \in WorkerFun
        /\ call' \in CallFun /\ buffer' \in BufferFun /\ worker' \in WorkerFun
        /\ Debt(call, buffer, worker) \in Nat /\ Debt(call', buffer', worker') \in Nat
        /\ applied \in Nat /\ lost \in Nat
    BY Shapes, ShapesNext DEF ChargeInv, IndInv, Rest
  <1>2. CASE TakeChange(n, w)
    <2> DEFINE x == Head(buffer[n])
    <2>1. /\ worker[n][w] = Idle /\ buffer[n] # <<>>
          /\ worker' = [worker EXCEPT ![n][w] = x]
          /\ buffer' = [buffer EXCEPT ![n] = Tail(buffer[n])]
          /\ UNCHANGED <<redis, credits, replica, call, closing, applied, lost, update, updates, spent, disturbed>>
      BY <1>2 DEF TakeChange, updateVars
    <2>2. /\ x \in Nat
          /\ \A c \in CallFun, k \in WorkerFun : Debt(c, buffer', k) = Debt(c, buffer, k) - x
          /\ \A m \in Nodes : Len(buffer'[m]) <= Capacity
      BY <2>1, HeadLeaves
    <2> HIDE DEF x
    <2>3. Debt(call, buffer', worker') = Debt(call, buffer', worker) + x
      <3>1. x # Idle /\ x \in Nat \cup {Idle}
        BY <2>2 DEF Idle
      <3>2. /\ worker'[n][w] = x
            /\ \A c \in CallFun, b \in BufferFun :
                  Debt(c, b, worker') = Debt(c, b, worker) + (Busy(worker', n, w) - Busy(worker, n, w))
        BY <2>1, <3>1, WorkerHand
      <3>3. Busy(worker', n, w) - Busy(worker, n, w) = x
        BY <2>1, <2>2, <3>1, <3>2 DEF Busy
      <3> QED
        BY <1>1, <3>2, <3>3
    <2>4. Debt(call', buffer', worker') = Debt(call, buffer, worker)
      <3>1. Debt(call, buffer', worker) = Debt(call, buffer, worker) - x
        BY <1>1, <2>2
      <3> QED
        BY <1>1, <2>1, <2>2, <2>3, <3>1
    <2>5. Conserved' /\ OneCounter'
      BY <2>1, <2>4, StaysKind
    <2> QED
      BY <2>1, <2>2, <2>5 DEF ChargeInv, Rest
  <1>3. CASE SyncWithDB(n, w) \/ SyncFails(n, w)
    <2> DEFINE x == worker[n][w]
    <2>1. /\ x # Idle
          /\ worker' = [worker EXCEPT ![n][w] = Idle]
          /\ \/ credits' = Charged(credits, x) /\ applied' = applied + x /\ UNCHANGED lost
             \/ lost' = lost + x /\ UNCHANGED <<credits, applied>>
          /\ UNCHANGED <<redis, replica, call, buffer, closing, update, updates, spent, disturbed>>
      BY <1>3 DEF SyncWithDB, SyncFails, updateVars
    <2>2. x \in Nat /\ Idle \in Nat \cup {Idle}
      BY <1>1, <2>1 DEF WorkerFun
    <2>3. Debt(call, buffer, worker') = Debt(call, buffer, worker) + (0 - x)
      <3>1. /\ worker'[n][w] = Idle
            /\ \A c \in CallFun, b \in BufferFun :
                  Debt(c, b, worker') = Debt(c, b, worker) + (Busy(worker', n, w) - Busy(worker, n, w))
        BY <2>1, <2>2, WorkerHand
      <3>2. Busy(worker', n, w) - Busy(worker, n, w) = 0 - x
        BY <2>1, <2>2, <3>1 DEF Busy
      <3> QED
        BY <1>1, <3>1, <3>2
    <2> HIDE DEF x
    <2>4. Debt(call', buffer', worker') = Debt(call, buffer, worker) - x
      BY <1>1, <2>1, <2>2, <2>3
    <2>5. CASE credits' = Charged(credits, x) /\ applied' = applied + x /\ UNCHANGED lost
      <3>1. Conserved' /\ OneCounter'
        BY <1>1, <2>1, <2>2, <2>4, <2>5, AppliesKind
      <3>2. applied' \in Nat /\ lost' \in Nat
        BY <1>1, <2>2, <2>5
      <3> QED
        BY <2>1, <3>1, <3>2 DEF ChargeInv, Rest
    <2>6. CASE lost' = lost + x /\ UNCHANGED <<credits, applied>>
      <3>1. Conserved' /\ OneCounter'
        BY <1>1, <2>1, <2>2, <2>4, <2>6, LosesKind
      <3>2. applied' \in Nat /\ lost' \in Nat
        BY <1>1, <2>2, <2>6
      <3> QED
        BY <2>1, <3>1, <3>2 DEF ChargeInv, Rest
    <2> QED
      BY <2>1, <2>5, <2>6
  <1> QED
    BY <1>2, <1>3 DEF Replay

\* A node that exits owes nothing any more, and the others owe what they owed.
LEMMA ExitDebt ==
    ASSUME ChargeInv, IndInv', NEW n \in Nodes, Exit(n)
    PROVE  Debt(call', buffer', worker') = Debt(call, buffer, worker) - Owed(call, buffer, worker, n)
  <1>1. /\ call \in CallFun /\ buffer \in BufferFun /\ worker \in WorkerFun
        /\ call' \in CallFun /\ buffer' \in BufferFun /\ worker' \in WorkerFun
        /\ Debt(call, buffer, worker) \in Nat
    BY Shapes, ShapesNext DEF ChargeInv, IndInv
  <1>2. /\ buffer' = [buffer EXCEPT ![n] = <<>>]
        /\ worker' = [worker EXCEPT ![n] = [w \in Workers |-> Idle]]
        /\ call' = [g \in Calls |->
                      IF call[g].node = n THEN [Request EXCEPT !.pc = "crashed"] ELSE call[g]]
    BY DEF Exit
  <1>3. \A m \in Nodes \ {n} : buffer'[m] = buffer[m] /\ worker'[m] = worker[m]
    BY <1>1, <1>2 DEF BufferFun, WorkerFun
  <1>4. buffer'[n] = <<>> /\ \A w \in Workers : worker'[n][w] = Idle
    BY <1>1, <1>2 DEF BufferFun, WorkerFun
  <1>5. \A g \in Calls : Held(call', n, g) = 0
    BY <1>2 DEF Held, Request
  <1>6. ASSUME NEW m \in Nodes \ {n}
        PROVE  Owed(call', buffer', worker', m) = Owed(call, buffer, worker, m)
    <2>1. [g \in Calls |-> Held(call', m, g)] = [g \in Calls |-> Held(call, m, g)]
      <3>1. ASSUME NEW g \in Calls PROVE Held(call', m, g) = Held(call, m, g)
        BY <1>2 DEF Held, Request
      <3> QED
        BY <3>1
    <2>2. HeldBy(call', m) = HeldBy(call, m)
      BY <2>1 DEF HeldBy
    <2>3. BusyOn(worker', m) = BusyOn(worker, m)
      BY <1>3, WorkersSame
    <2> QED
      BY <1>3, <2>2, <2>3 DEF Owed
  <1>7. Owed(call', buffer', worker', n) = 0
    <2> DEFINE f == [g \in Calls |-> Held(call', n, g)]
               h == [w \in Workers |-> Busy(worker', n, w)]
    <2>1. (\A g \in Calls : f[g] = 0) /\ (\A w \in Workers : h[w] = 0)
      BY <1>4, <1>5 DEF Busy
    <2>2. HeldBy(call', n) = SumFunctionOnSet(f, Calls) /\ BusyOn(worker', n) = SumFunctionOnSet(h, Workers)
      BY DEF HeldBy, BusyOn
    <2> HIDE DEF f, h
    <2>3. HeldBy(call', n) = 0 /\ BusyOn(worker', n) = 0
      BY <2>1, <2>2, FiniteAssumption, SumZero
    <2>4. SumFunction(buffer'[n]) = 0
      BY <1>4, QueueEmpty
    <2> QED
      BY <2>3, <2>4 DEF Owed
  <1> DEFINE d == 0 - Owed(call, buffer, worker, n)
  <1>8. Owed(call, buffer, worker, n) \in Nat
    BY <1>1, OwedNat
  <1>9. d \in Int /\ Owed(call', buffer', worker', n) = Owed(call, buffer, worker, n) + d
    BY <1>7, <1>8
  <1> HIDE DEF d
  <1>10. Debt(call', buffer', worker') = Debt(call, buffer, worker) + d
    BY ONLY <1>1, <1>6, <1>9, DebtShifts, n \in Nodes
  <1> QED
    BY <1>1, <1>8, <1>10 DEF d

\* Every step of a shutdown keeps the accounts.
LEMMA ShutdownCharges ==
    ASSUME ChargeInv, IndInv', NEW n \in Nodes, Shutdown(n)
    PROVE  Rest' /\ Conserved' /\ OneCounter'
  <1>1. /\ call \in CallFun /\ buffer \in BufferFun /\ worker \in WorkerFun
        /\ call' \in CallFun /\ buffer' \in BufferFun /\ worker' \in WorkerFun
        /\ Debt(call, buffer, worker) \in Nat /\ Debt(call', buffer', worker') \in Nat
        /\ applied \in Nat /\ lost \in Nat
    BY Shapes, ShapesNext DEF ChargeInv, IndInv, Rest
  <1>2. CASE Close(n) \/ CloseBuffer(n) \/ CloseTimesOut(n) \/ CloseReturns(n)
    <2>1. /\ \E s \in {"locking", "draining", "forcing", "returned"} : closing' = [closing EXCEPT ![n] = s]
          /\ UNCHANGED <<redis, credits, replica, call, buffer, worker, applied, lost, update, updates,
                         spent, disturbed>>
      BY <1>2 DEF Close, CloseBuffer, CloseTimesOut, CloseReturns, updateVars
    <2>2. closing' \in [Nodes -> {"open", "locking", "draining", "forcing", "returned", "exited"}]
      BY <2>1 DEF ChargeInv, Rest
    <2>3. Conserved' /\ OneCounter'
      BY <2>1, StaysKind
    <2> QED
      BY <2>1, <2>2, <2>3 DEF ChargeInv, Rest
  <1>3. CASE DrainOne(n)
    <2> DEFINE x == Head(buffer[n])
    <2>1. /\ buffer[n] # <<>>
          /\ buffer' = [buffer EXCEPT ![n] = Tail(buffer[n])]
          /\ \/ credits' = Charged(credits, x) /\ applied' = applied + x /\ UNCHANGED lost
             \/ lost' = lost + x /\ UNCHANGED <<credits, applied>>
          /\ UNCHANGED <<redis, replica, call, worker, closing, update, updates, spent, disturbed>>
      BY <1>3 DEF DrainOne, updateVars
    <2>2. /\ x \in Nat
          /\ \A c \in CallFun, k \in WorkerFun : Debt(c, buffer', k) = Debt(c, buffer, k) - x
          /\ \A m \in Nodes : Len(buffer'[m]) <= Capacity
      BY <2>1, HeadLeaves
    <2> HIDE DEF x
    <2>3. Debt(call', buffer', worker') = Debt(call, buffer, worker) - x
      BY <1>1, <2>1, <2>2
    <2>4. CASE credits' = Charged(credits, x) /\ applied' = applied + x /\ UNCHANGED lost
      <3>1. Conserved' /\ OneCounter'
        BY <1>1, <2>1, <2>2, <2>3, <2>4, AppliesKind
      <3>2. applied' \in Nat /\ lost' \in Nat
        BY <1>1, <2>2, <2>4
      <3> QED
        BY <2>1, <2>2, <3>1, <3>2 DEF ChargeInv, Rest
    <2>5. CASE lost' = lost + x /\ UNCHANGED <<credits, applied>>
      <3>1. Conserved' /\ OneCounter'
        BY <1>1, <2>1, <2>2, <2>3, <2>5, LosesKind
      <3>2. applied' \in Nat /\ lost' \in Nat
        BY <1>1, <2>2, <2>5
      <3> QED
        BY <2>1, <2>2, <3>1, <3>2 DEF ChargeInv, Rest
    <2> QED
      BY <2>1, <2>4, <2>5
  <1>4. CASE Exit(n)
    <2> DEFINE x == Owed(call, buffer, worker, n)
    <2>1. /\ closing' = [closing EXCEPT ![n] = "exited"]
          /\ lost' = lost + Pending(n)
          /\ buffer' = [buffer EXCEPT ![n] = <<>>]
          /\ call' = [g \in Calls |->
                        IF call[g].node = n THEN [Request EXCEPT !.pc = "crashed"] ELSE call[g]]
          /\ UNCHANGED <<redis, credits, replica, applied, update, updates, spent, disturbed>>
      BY <1>4 DEF Exit, updateVars
    <2>2. lost' = lost + x /\ x \in Nat
      BY <1>1, <2>1, PendingIsOwed, OwedNat
    <2>3. Debt(call', buffer', worker') = Debt(call, buffer, worker) - x
      BY <1>4, ExitDebt
    <2> HIDE DEF x
    <2>4. \A g \in Calls : call'[g].pc = "init" => call[g].pc = "init" /\ call'[g].got = call[g].got
      BY <2>1 DEF Request
    <2>5. Conserved' /\ OneCounter'
      BY <1>1, <2>1, <2>2, <2>3, <2>4, LosesKind
    <2>6. closing' \in [Nodes -> {"open", "locking", "draining", "forcing", "returned", "exited"}]
      BY <2>1 DEF ChargeInv, Rest
    <2>7. \A m \in Nodes : Len(buffer'[m]) <= Capacity
      <3>1. buffer'[n] = <<>> /\ \A m \in Nodes \ {n} : buffer'[m] = buffer[m]
        BY <1>1, <2>1 DEF BufferFun
      <3>2. Len(<<>>) <= Capacity
        BY BoundAssumption
      <3> QED
        BY <3>1, <3>2 DEF ChargeInv, Rest
    <2>8. lost' \in Nat
      BY <1>1, <2>2
    <2> QED
      BY <2>1, <2>5, <2>6, <2>7, <2>8 DEF ChargeInv, Rest
  <1> QED
    BY <1>2, <1>3, <1>4 DEF Shutdown

----------------------------------------------------------------------------
\* The row and the counter

\* Updates, invalidations, expiries and the replication charge nobody.
LEMMA EnvironmentCharges ==
    ASSUME ChargeInv, IndInv',
           \/ \E n \in Nodes : UpdateCredits(n)
           \/ \E r \in Regions : Expire(r)
           \/ Invalidate \/ Replicate
    PROVE  Rest' /\ Conserved' /\ OneCounter'
  <1>1. ASSUME NEW n \in Nodes, UpdateCredits(n) PROVE Rest' /\ Conserved' /\ OneCounter'
    <2>1. /\ disturbed' /\ update' = n /\ updates < MaxUpdates /\ updates' = updates + 1
          /\ UNCHANGED <<call, buffer, worker, closing, applied, lost, spent>>
      BY <1>1 DEF UpdateCredits, limiterVars
    <2>2. updates' \in 0..MaxUpdates
      BY <2>1, BoundAssumption DEF ChargeInv, Rest
    <2>3. Conserved' /\ OneCounter'
      BY <2>1, DisturbedKind
    <2> QED
      BY <2>1, <2>2, <2>3 DEF ChargeInv, Rest
  <1>2. ASSUME NEW r \in Regions, Expire(r) PROVE Rest' /\ Conserved' /\ OneCounter'
    <2>1. /\ disturbed'
          /\ UNCHANGED <<call, buffer, worker, closing, applied, lost, update, updates, spent>>
      BY <1>2 DEF Expire, limiterVars, updateVars
    <2>2. Conserved' /\ OneCounter'
      BY <2>1, DisturbedKind
    <2> QED
      BY <2>1, <2>2 DEF ChargeInv, Rest
  <1>3. CASE Invalidate
    <2>1. /\ update # "none" /\ update' = "none"
          /\ UNCHANGED <<call, buffer, worker, closing, applied, lost, updates, spent, disturbed>>
      BY <1>3 DEF Invalidate, limiterVars
    <2>2. disturbed'
      BY <2>1 DEF ChargeInv, IndInv, UpdateDisturbs
    <2>3. Conserved' /\ OneCounter'
      BY <2>1, <2>2, DisturbedKind
    <2> QED
      BY <2>1, <2>3 DEF ChargeInv, Rest
  <1>4. CASE Replicate
    <2>1. /\ replica' = credits
          /\ UNCHANGED <<redis, credits, call, buffer, worker, closing, applied, lost, update, updates,
                         spent, disturbed>>
      BY <1>4 DEF Replicate, limiterVars, updateVars
    <2>2. Conserved' /\ OneCounter'
      BY <2>1, StaysKind
    <2> QED
      BY <2>1, <2>2 DEF ChargeInv, Rest
  <1> QED
    BY <1>1, <1>2, <1>3, <1>4

----------------------------------------------------------------------------
\* Initially nothing is owed, spent or lost.
LEMMA ChargesInitially == Init => ChargeInv
  <1> SUFFICES ASSUME Init PROVE ChargeInv
    OBVIOUS
  <1>1. IndInv
    BY Initially
  <1>2. /\ call \in CallFun /\ buffer \in BufferFun /\ worker \in WorkerFun
    BY <1>1, Shapes DEF IndInv
  <1>3. /\ \A g \in Calls : call[g].pc = "idle"
        /\ \A n \in Nodes : buffer[n] = <<>> /\ \A w \in Workers : worker[n][w] = Idle
        /\ DOMAIN spent = Regions /\ \A r \in Regions : spent[r] = 0 /\ redis[r] = NoKey
        /\ applied = 0 /\ lost = 0 /\ credits = Initial /\ replica = Initial
    BY DEF Init, Request
  <1>4. Rest
    <2>1. \A n \in Nodes : Len(buffer[n]) <= Capacity
      BY <1>3, BoundAssumption
    <2> QED
      BY <2>1, BoundAssumption DEF Init, Rest
  <1>5. ASSUME NEW n \in Nodes PROVE Owed(call, buffer, worker, n) = 0
    <2> DEFINE f == [g \in Calls |-> Held(call, n, g)]
               h == [w \in Workers |-> Busy(worker, n, w)]
    <2>1. (\A g \in Calls : f[g] = 0) /\ (\A w \in Workers : h[w] = 0)
      BY <1>3 DEF Busy, Held
    <2>2. HeldBy(call, n) = SumFunctionOnSet(f, Calls) /\ BusyOn(worker, n) = SumFunctionOnSet(h, Workers)
      BY DEF HeldBy, BusyOn
    <2> HIDE DEF f, h
    <2>3. HeldBy(call, n) = 0 /\ BusyOn(worker, n) = 0
      BY <2>1, <2>2, FiniteAssumption, SumZero
    <2>4. SumFunction(buffer[n]) = 0
      BY <1>3, QueueEmpty
    <2> QED
      BY <2>3, <2>4 DEF Owed
  <1>6. Debt(call, buffer, worker) = 0
    <2> DEFINE f == [n \in Nodes |-> Owed(call, buffer, worker, n)]
    <2>1. \A n \in Nodes : f[n] = 0
      BY <1>5
    <2>2. Debt(call, buffer, worker) = SumFunctionOnSet(f, Nodes)
      BY DEF Debt
    <2> HIDE DEF f
    <2> QED
      BY <2>1, <2>2, FiniteAssumption, SumZero
  <1>7. SumFunction(spent) = 0
    BY <1>3, FiniteAssumption, SumZero DEF SumFunction
  <1>8. Conserved
    BY <1>3, <1>6, <1>7 DEF Conserved
  <1>9. OneCounter
    BY <1>3 DEF OneCounter
  <1> QED
    BY <1>1, <1>4, <1>8, <1>9 DEF ChargeInv

\* Every step, a stuttering one included, keeps the accounts.
LEMMA ChargesPreserved == ChargeInv /\ [Next]_vars => ChargeInv'
  <1> SUFFICES ASSUME ChargeInv, [Next]_vars PROVE ChargeInv'
    OBVIOUS
  <1>1. IndInv'
    BY Preserved DEF ChargeInv
  <1>2. CASE UNCHANGED vars
    BY <1>1, <1>2 DEF vars, limiterVars, updateVars, ChargeInv, Rest, Conserved, OneCounter
  <1>3. CASE Next
    <2>1. Rest' /\ Conserved' /\ OneCounter'
      BY <1>1, <1>3, LimitRest, LimitCharges, BeginCharges, ReplayCharges, ShutdownCharges,
         EnvironmentCharges DEF Next
    <2> QED
      BY <1>1, <2>1 DEF ChargeInv
  <1> QED
    BY <1>2, <1>3

\* The accounts are the properties.
LEMMA ChargesShow == ChargeInv => TypeOK /\ ChargeConservation /\ CounterMatchesRow
  <1> SUFFICES ASSUME ChargeInv PROVE TypeOK /\ ChargeConservation /\ CounterMatchesRow
    OBVIOUS
  <1>1. AllPending = Debt(call, buffer, worker)
    BY Shapes, PendingIsOwed DEF ChargeInv, IndInv
  <1>2. TypeOK
    BY DEF ChargeInv, IndInv, Types, Rest, TypeOK
  <1>3. ChargeConservation
    BY <1>1 DEF ChargeInv, Conserved, ChargeConservation
  <1>4. CounterMatchesRow
    BY <1>1 DEF ChargeInv, OneCounter, CounterMatchesRow
  <1> QED
    BY <1>2, <1>3, <1>4

\* Every variable keeps its type, for any topology, costs and bounds: no interleaving of
\* decrements, initialisations, fallbacks and updates makes a counter or the row negative,
\* and the blocking buffer never exceeds its capacity.
THEOREM TypeCorrect == Spec => []TypeOK
  <1>1. Init => ChargeInv
    BY ChargesInitially
  <1>2. ChargeInv /\ [Next]_vars => ChargeInv'
    BY ChargesPreserved
  <1>3. ChargeInv => TypeOK
    BY ChargesShow
  <1> QED
    BY <1>1, <1>2, <1>3, PTL DEF Spec

\* "Do NOT drop credits": for any number of regions, replicas, requests and workers, what
\* the counters admitted is what was applied to the row, is on its way (in a request, the
\* buffer or a worker) or was lost in a failed replay, after Close or in a crash.
THEOREM ChargesConserved == Spec => []ChargeConservation
  <1>1. Init => ChargeInv
    BY ChargesInitially
  <1>2. ChargeInv /\ [Next]_vars => ChargeInv'
    BY ChargesPreserved
  <1>3. ChargeInv => ChargeConservation
    BY ChargesShow
  <1> QED
    BY <1>1, <1>2, <1>3, PTL DEF Spec

\* With one region and until the first disturbance, the counter in Redis is the row without
\* what is on its way or lost, for any number of replicas, requests and workers: the counter
\* is initialised once, from credits nobody has charged yet.
THEOREM CounterAgrees == Spec => []CounterMatchesRow
  <1>1. Init => ChargeInv
    BY ChargesInitially
  <1>2. ChargeInv /\ [Next]_vars => ChargeInv'
    BY ChargesPreserved
  <1>3. ChargeInv => CounterMatchesRow
    BY ChargesShow
  <1> QED
    BY <1>1, <1>2, <1>3, PTL DEF Spec

----------------------------------------------------------------------------
\* The account

\* Until the first disturbance nobody falls back to the row, and whoever lost the race to
\* create the counter finds it.
Steady ==
    ~disturbed => \A g \in Calls : /\ At(g) \notin {"fallback", "charge"}
                                   /\ At(g) = "again" => redis[RegionAt(g)] # NoKey

\* Only a request that is under way runs on a node.
OnNode == \A g \in Calls : call[g].node # "none" => call[g].pc \in Active

AccountInv == ChargeInv /\ Steady /\ OnNode

\* A request moves and no counter is dropped.
LEMMA OneMoves ==
    ASSUME IndInv, Steady, OnNode, NEW g \in Calls,
           \A h \in Calls \ {g} : call'[h] = call[h],
           call'[g].node # "none" => call'[g].pc \in Active,
           ~disturbed' =>
               /\ ~disturbed
               /\ \A r \in Regions : redis[r] # NoKey => redis'[r] # NoKey
               /\ call'[g].pc \notin {"fallback", "charge"}
               /\ call'[g].pc = "again" => redis'[RegionOf[call'[g].node]] # NoKey
    PROVE  Steady' /\ OnNode'
  <1>1. OnNode'
    BY DEF OnNode
  <1>2. Steady'
    <2> SUFFICES ASSUME ~disturbed', NEW h \in Calls
                 PROVE  /\ call'[h].pc \notin {"fallback", "charge"}
                        /\ call'[h].pc = "again" => redis'[RegionOf[call'[h].node]] # NoKey
      BY DEF Steady, At, RegionAt
    <2>1. CASE h = g
      BY <2>1
    <2>2. CASE h # g
      <3>1. call'[h] = call[h]
        BY <2>2
      <3>2. /\ call[h].pc \notin {"fallback", "charge"}
            /\ call[h].pc = "again" => redis[RegionOf[call[h].node]] # NoKey
        BY DEF Steady, At, RegionAt
      <3>3. call[h].pc = "again" => RegionOf[call[h].node] \in Regions
        BY CallFacts DEF IndInv, Active, RegionAt
      <3> QED
        BY <3>1, <3>2, <3>3
    <2> QED
      BY <2>1, <2>2
  <1> QED
    BY <1>1, <1>2

\* A request that goes on stays on its node.
LEMMA GoesOn ==
    ASSUME IndInv, NEW g \in Calls, NEW pc, Goes(g, pc)
    PROVE  /\ \A h \in Calls \ {g} : call'[h] = call[h]
           /\ call'[g].pc = pc /\ call'[g].node = call[g].node /\ call'[g].cost = call[g].cost
  BY DEF Goes, IndInv, Types

\* A request that is answered leaves its node.
LEMMA AnswerIs ==
    ASSUME IndInv, NEW g \in Calls, NEW pc, Answers(g, pc)
    PROVE  /\ \A h \in Calls \ {g} : call'[h] = call[h]
           /\ call'[g].pc = pc /\ call'[g].node = "none"
  BY DEF Answers, IndInv, Types, Request

\* Giving a counter a value does not drop any.
LEMMA CounterKept ==
    ASSUME IndInv, NEW q \in Regions, NEW v \in Nat, redis' = [redis EXCEPT ![q] = v]
    PROVE  \A r \in Regions : redis[r] # NoKey => redis'[r] # NoKey
  BY DEF IndInv, Types, NoKey

\* What a decrement and an initialisation leave on the counter.
LEMMA ValueLeft ==
    ASSUME IndInv, NEW g \in Calls, At(g) \in {"decrement", "again", "init"}
    PROVE  /\ RegionAt(g) \in Regions /\ call[g].cost \in Nat /\ InitValue(g) \in Nat
           /\ Sufficient(RegionAt(g), call[g].cost) => redis[RegionAt(g)] - call[g].cost \in Nat
  <1>1. call[g].pc \in Active
    BY DEF At, Active
  <1> DEFINE r == RegionAt(g)
  <1>2. /\ r \in Regions /\ call[g].cost \in Nat /\ call[g].got \in Nat
        /\ redis[r] \in Nat \cup {NoKey}
    BY <1>1, CallFacts DEF IndInv
  <1> HIDE DEF r
  <1>3. InitValue(g) \in Nat
    BY <1>2 DEF InitValue, Covers
  <1>4. Sufficient(r, call[g].cost) => redis[r] - call[g].cost \in Nat
    BY <1>2 DEF Sufficient
  <1> QED
    BY <1>2, <1>3, <1>4 DEF r

\* Every step of a request keeps Steady and OnNode.
LEMMA LimitSteady ==
    ASSUME AccountInv, NEW g \in Calls, Limit(g)
    PROVE  Steady' /\ OnNode'
  <1> USE DEF AccountInv, ChargeInv
  <1>1. CASE DecrementAdmits(g)
    <2>1. /\ At(g) \in {"decrement", "again"} /\ Sufficient(RegionAt(g), call[g].cost)
          /\ redis' = [redis EXCEPT ![RegionAt(g)] = redis[RegionAt(g)] - call[g].cost]
          /\ Goes(g, "buffer") /\ disturbed' = disturbed
      BY <1>1 DEF DecrementAdmits, Admit
    <2>2. \A r \in Regions : redis[r] # NoKey => redis'[r] # NoKey
      BY <2>1, ValueLeft, CounterKept
    <2>3. "buffer" \in Active
      BY DEF Active
    <2> QED
      BY <2>1, <2>2, <2>3, GoesOn, OneMoves
  <1>2. CASE InitAdmits(g)
    <2>1. /\ At(g) = "init" /\ redis' = [redis EXCEPT ![RegionAt(g)] = InitValue(g)]
          /\ Goes(g, "buffer") /\ disturbed' = disturbed
      BY <1>2 DEF InitAdmits, Admit
    <2>2. \A r \in Regions : redis[r] # NoKey => redis'[r] # NoKey
      BY <2>1, ValueLeft, CounterKept
    <2>3. "buffer" \in Active
      BY DEF Active
    <2> QED
      BY <2>1, <2>2, <2>3, GoesOn, OneMoves
  <1>3. CASE InitDenies(g)
    <2>1. /\ At(g) = "init" /\ redis' = [redis EXCEPT ![RegionAt(g)] = InitValue(g)]
          /\ Answers(g, "denied") /\ disturbed' = disturbed
      BY <1>3 DEF InitDenies
    <2>2. \A r \in Regions : redis[r] # NoKey => redis'[r] # NoKey
      BY <2>1, ValueLeft, CounterKept
    <2> QED
      BY <2>1, <2>2, AnswerIs, OneMoves
  <1>4. CASE InitLoses(g)
    <2>1. /\ redis[RegionAt(g)] # NoKey /\ Goes(g, "again") /\ disturbed' = disturbed /\ redis' = redis
      BY <1>4 DEF InitLoses
    <2>2. "again" \in Active
      BY DEF Active
    <2>3. redis'[RegionOf[call'[g].node]] # NoKey
      BY <2>1, GoesOn DEF RegionAt
    <2> QED
      BY <2>1, <2>2, <2>3, GoesOn, OneMoves
  <1>5. CASE DecrementMisses(g)
    <2>1. /\ UNCHANGED <<redis, disturbed>>
          /\ \/ At(g) = "decrement" /\ Goes(g, "find")
             \/ At(g) = "again" /\ redis[RegionAt(g)] = NoKey /\ Goes(g, "fallback")
      BY <1>5 DEF DecrementMisses
    <2>2. {"find", "fallback"} \subseteq Active
      BY DEF Active
    <2>3. At(g) = "again" /\ redis[RegionAt(g)] = NoKey => disturbed
      BY DEF Steady
    <2> QED
      BY <2>1, <2>2, <2>3, GoesOn, OneMoves
  <1>6. CASE RedisFails(g)
    <2>1. Goes(g, "fallback") /\ disturbed' /\ "fallback" \in Active
      BY <1>6 DEF RedisFails, Active
    <2> QED
      BY <2>1, GoesOn, OneMoves
  <1>7. CASE FindCredits(g)
    <2>1. UNCHANGED <<redis, disturbed>> /\ "init" \in Active
      BY <1>7 DEF FindCredits, Active
    <2>2. CASE Answers(g, "failed") \/ Answers(g, "allowed")
      BY <2>1, <2>2, AnswerIs, OneMoves
    <2>3. CASE call' = [call EXCEPT ![g].got = replica, ![g].pc = "init"]
      <3>1. call'[g].pc = "init" /\ \A h \in Calls \ {g} : call'[h] = call[h]
        BY <2>3 DEF IndInv, Types
      <3> QED
        BY <2>1, <3>1, OneMoves
    <2> QED
      BY <1>7, <2>2, <2>3 DEF FindCredits
  <1>8. CASE FindForFallback(g)
    <2>1. UNCHANGED <<redis, disturbed>> /\ "charge" \in Active /\ disturbed
      BY <1>8 DEF FindForFallback, Active, Steady
    <2>2. CASE Answers(g, "failed") \/ Answers(g, "allowed") \/ Answers(g, "denied")
      BY <2>1, <2>2, AnswerIs, OneMoves
    <2>3. CASE Goes(g, "charge")
      BY <2>1, <2>3, GoesOn, OneMoves
    <2> QED
      BY <1>8, <2>2, <2>3 DEF FindForFallback
  <1>9. CASE ChargeRow(g)
    <2>1. disturbed' /\ (Answers(g, "failed") \/ Answers(g, "allowed"))
      BY <1>9 DEF ChargeRow
    <2> QED
      BY <2>1, AnswerIs, OneMoves
  <1>10. CASE EnterBuffer(g)
    <2>1. /\ UNCHANGED <<redis, disturbed>> /\ "sending" \in Active
          /\ Goes(g, "sending") \/ Answers(g, "allowed")
      BY <1>10 DEF EnterBuffer, Active
    <2>2. CASE Goes(g, "sending")
      BY <2>1, <2>2, GoesOn, OneMoves
    <2>3. CASE Answers(g, "allowed")
      BY <2>1, <2>3, AnswerIs, OneMoves
    <2> QED
      BY <2>1, <2>2, <2>3
  <1>11. CASE SendChange(g)
    <2>1. UNCHANGED <<redis, disturbed>> /\ Answers(g, "allowed")
      BY <1>11 DEF SendChange
    <2> QED
      BY <2>1, AnswerIs, OneMoves
  <1>12. CASE DecrementDenies(g)
    <2>1. UNCHANGED <<redis, disturbed>> /\ Answers(g, "denied")
      BY <1>12 DEF DecrementDenies
    <2> QED
      BY <2>1, AnswerIs, OneMoves
  <1> QED
    BY <1>1, <1>2, <1>3, <1>4, <1>5, <1>6, <1>7, <1>8, <1>9, <1>10, <1>11, <1>12 DEF Limit

\* The steps that move no request.
LEMMA CallsSame ==
    ASSUME Steady, OnNode, call' = call, disturbed' \/ UNCHANGED <<redis, disturbed>>
    PROVE  Steady' /\ OnNode'
  BY DEF Steady, OnNode, At, RegionAt

\* Every step keeps the invariant.
LEMMA AccountPreserved == AccountInv /\ [Next]_vars => AccountInv'
  <1> SUFFICES ASSUME AccountInv, [Next]_vars PROVE Steady' /\ OnNode'
    BY ChargesPreserved DEF AccountInv
  <1> USE DEF AccountInv, ChargeInv
  <1>1. ASSUME NEW g \in Calls, NEW n \in Nodes, Begin(g, n) PROVE Steady' /\ OnNode'
    <2>1. /\ UNCHANGED <<redis, disturbed>> /\ "decrement" \in Active
          /\ \E cost \in Costs :
               call' = [call EXCEPT ![g] = [Request EXCEPT !.pc = "decrement", !.node = n, !.cost = cost]]
      BY <1>1 DEF Begin, Active
    <2>2. call'[g].pc = "decrement" /\ \A h \in Calls \ {g} : call'[h] = call[h]
      BY <2>1 DEF IndInv, Types, Request
    <2> QED
      BY <2>1, <2>2, OneMoves
  <1>2. ASSUME NEW n \in Nodes, NEW w \in Workers, Replay(n, w) PROVE Steady' /\ OnNode'
    <2>1. call' = call /\ UNCHANGED <<redis, disturbed>>
      BY <1>2 DEF Replay, TakeChange, SyncWithDB, SyncFails
    <2> QED
      BY <2>1, CallsSame
  <1>3. ASSUME NEW n \in Nodes, Shutdown(n) PROVE Steady' /\ OnNode'
    <2>1. CASE Exit(n)
      <3>1. /\ UNCHANGED <<redis, disturbed>>
            /\ call' = [g \in Calls |->
                          IF call[g].node = n THEN [Request EXCEPT !.pc = "crashed"] ELSE call[g]]
        BY <2>1 DEF Exit
      <3>2. \A g \in Calls : \/ call'[g] = call[g]
                             \/ call'[g].pc = "crashed" /\ call'[g].node = "none"
        BY <3>1 DEF Request
      <3> QED
        BY <3>1, <3>2 DEF Steady, OnNode, At, RegionAt
    <2>2. CASE ~Exit(n)
      <3>1. call' = call /\ UNCHANGED <<redis, disturbed>>
        BY <1>3, <2>2 DEF Shutdown, Close, CloseBuffer, CloseTimesOut, DrainOne, CloseReturns
      <3> QED
        BY <3>1, CallsSame
    <2> QED
      BY <2>1, <2>2
  <1>4. CASE Invalidate
    <2>1. call' = call /\ disturbed'
      BY <1>4 DEF Invalidate, IndInv, UpdateDisturbs
    <2> QED
      BY <2>1, CallsSame
  <1>5. CASE \/ \E n \in Nodes : UpdateCredits(n)
             \/ \E r \in Regions : Expire(r)
             \/ Replicate \/ UNCHANGED vars
    <2>1. call' = call /\ (disturbed' \/ UNCHANGED <<redis, disturbed>>)
      BY <1>5 DEF UpdateCredits, Expire, Replicate, vars
    <2> QED
      BY <2>1, CallsSame
  <1> QED
    BY <1>1, <1>2, <1>3, <1>4, <1>5, LimitSteady DEF Next

\* The invariant of the refinement.
LEMMA AccountInvariant == Spec => []AccountInv
  <1>1. Init => AccountInv
    <2> SUFFICES ASSUME Init PROVE Steady /\ OnNode
      BY ChargesInitially DEF AccountInv
    <2> QED
      BY DEF Init, Request, Steady, OnNode, At
  <1>2. AccountInv /\ [Next]_vars => AccountInv'
    BY AccountPreserved
  <1> QED
    BY <1>1, <1>2, PTL DEF Spec

\* What a request looks like from outside, at each step of its own.
LEMMA SeenIs ==
    ASSUME NEW g \in Calls
    PROVE  /\ call[g].pc \in Asks => Seen(g) = Account!Asking(RegionAt(g), call[g].cost)
           /\ call[g].pc = "idle" => Seen(g) = Account!Now("new")
           /\ call[g].pc \in {"buffer", "sending"} => Seen(g) = Account!Now("admitted")
           /\ call[g].pc = "allowed" => Seen(g) = Account!Now("allowed")
           /\ call[g].pc = "denied" => Seen(g) = Account!Now("denied")
           /\ call[g].pc \in {"failed", "crashed"} => Seen(g) = Account!Now("failed")
  <1>1. /\ {"idle", "buffer", "sending", "allowed", "denied", "failed", "crashed"}
              \subseteq CallStates \ Asks
        /\ Outcome["idle"] = "new" /\ Outcome["buffer"] = "admitted" /\ Outcome["sending"] = "admitted"
        /\ Outcome["allowed"] = "allowed" /\ Outcome["denied"] = "denied"
        /\ Outcome["failed"] = "failed" /\ Outcome["crashed"] = "failed"
    BY DEF CallStates, Asks, Outcome
  <1> QED
    BY <1>1 DEF Seen, At, Account!Asking, Account!Now

\* The same after a step.
LEMMA SeenNext ==
    ASSUME NEW g \in Calls
    PROVE  /\ call'[g].pc \in Asks =>
                  Seen(g)' = Account!Asking(RegionOf[call'[g].node], call'[g].cost)
           /\ call'[g].pc \in {"buffer", "sending"} => Seen(g)' = Account!Now("admitted")
           /\ call'[g].pc = "allowed" => Seen(g)' = Account!Now("allowed")
           /\ call'[g].pc = "denied" => Seen(g)' = Account!Now("denied")
           /\ call'[g].pc \in {"failed", "crashed"} => Seen(g)' = Account!Now("failed")
  <1>1. /\ {"buffer", "sending", "allowed", "denied", "failed", "crashed"} \subseteq CallStates \ Asks
        /\ Outcome["buffer"] = "admitted" /\ Outcome["sending"] = "admitted"
        /\ Outcome["allowed"] = "allowed" /\ Outcome["denied"] = "denied"
        /\ Outcome["failed"] = "failed" /\ Outcome["crashed"] = "failed"
    BY DEF CallStates, Asks, Outcome
  <1> QED
    BY <1>1 DEF Seen, At, RegionAt, Account!Asking, Account!Now

\* A request that does not move is seen as before.
LEMMA SeenSame ==
    ASSUME NEW g \in Calls, call'[g] = call[g]
    PROVE  Seen(g)' = Seen(g)
  BY DEF Seen, At, RegionAt

\* The requests S are seen to end, and no other is.
LEMMA SeenBecomes ==
    ASSUME NEW S \in SUBSET Calls, NEW state,
           \A h \in Calls \ S : call'[h] = call[h],
           \A g \in S : Seen(g)' = Account!Now(state)
    PROVE  Account!Becomes(S, state)
  <1>1. \A h \in Calls : Seen(h)' = IF h \in S THEN Account!Now(state) ELSE Seen(h)
    BY SeenSame
  <1> QED
    BY <1>1 DEF Account!Becomes

\* A request goes on, and nothing is seen of it.
LEMMA SeenStays ==
    ASSUME NEW g \in Calls,
           \A h \in Calls \ {g} : call'[h] = call[h], Seen(g)' = Seen(g),
           UNCHANGED <<redis, disturbed>>
    PROVE  Account!Next
  <1>1. \A h \in Calls : Seen(h)' = Seen(h)
    BY SeenSame
  <1>2. [h \in Calls |-> Seen(h)]' = [h \in Calls |-> Seen(h)]
    BY <1>1
  <1> QED
    BY <1>2 DEF Account!Next, Account!Stay, Account!accountVars

\* The requests S fail.
LEMMA SeenFails ==
    ASSUME IndInv, NEW S \in SUBSET Calls,
           \A g \in S : call[g].pc \in Asks \cup {"buffer", "sending"},
           \A g \in S : call'[g].pc \in {"failed", "crashed"},
           \A h \in Calls \ S : call'[h] = call[h],
           UNCHANGED <<redis, disturbed>>
    PROVE  Account!Next
  <1>1. Account!Becomes(S, "failed")
    BY SeenNext, SeenBecomes
  <1>2. \A g \in S : Seen(g).state \in {"asking", "admitted"}
    BY SeenIs DEF Account!Asking, Account!Now
  <1>3. Account!Fail(S)
    BY <1>1, <1>2 DEF Account!Fail
  <1> QED
    BY <1>3 DEF Account!Next

\* An admitted request is told so.
LEMMA SeenConfirmed ==
    ASSUME IndInv, NEW g \in Calls, call[g].pc \in {"buffer", "sending"}, Answers(g, "allowed"),
           UNCHANGED <<redis, disturbed>>
    PROVE  Account!Next
  <1>1. Account!Becomes({g}, "allowed")
    BY AnswerIs, SeenNext, SeenBecomes
  <1>2. Account!Confirm(g)
    BY <1>1, SeenIs DEF Account!Confirm
  <1> QED
    BY <1>2 DEF Account!Next

\* The account of a request that asks: its counter, or what it is about to be opened with.
\* With one region nobody has charged the row before, and otherwise nobody has read more
\* than the initial credits.
LEMMA OpeningBalance ==
    ASSUME AccountInv, ~disturbed, NEW g \in Calls, call[g].pc = "init", redis[RegionAt(g)] = NoKey
    PROVE  call[g].got \in Account!Balance(RegionAt(g))
  <1>1. RegionAt(g) \in Regions /\ call[g].got \in Nat
    BY CallFacts DEF AccountInv, ChargeInv, IndInv, Active
  <1>2. call[g].got <= Initial
    BY DEF AccountInv, ChargeInv, IndInv, Undisturbed
  <1>3. Cardinality(Regions) = 1 => call[g].got = Initial
    BY <1>1 DEF AccountInv, ChargeInv, OneCounter
  <1>4. call[g].got \in IF Cardinality(Regions) = 1 THEN {Initial} ELSE 0..Initial
    BY <1>1, <1>2, <1>3, CreditAssumption
  <1> QED
    BY <1>4 DEF Account!Balance, Account!NotOpen, NoKey

\* A request is admitted on its account.
LEMMA SeenAdmitted ==
    ASSUME IndInv, NEW g \in Calls, call[g].pc \in {"decrement", "again", "init"},
           NEW balance \in Account!Balance(RegionAt(g)), balance >= call[g].cost,
           redis' = [redis EXCEPT ![RegionAt(g)] = balance - call[g].cost],
           Goes(g, "buffer"), disturbed' = disturbed
    PROVE  Account!Next
  <1>1. Account!Becomes({g}, "admitted")
    BY GoesOn, SeenNext, SeenBecomes
  <1>2. Seen(g) = [state |-> "asking", region |-> RegionAt(g), cost |-> call[g].cost]
    BY SeenIs DEF Asks, Account!Asking
  <1> DEFINE f == [h \in Calls |-> Seen(h)]
  <1>3. f[g].state = "asking" /\ f[g].region = RegionAt(g) /\ f[g].cost = call[g].cost
    BY <1>2
  <1>4. \E b \in Account!Balance(RegionAt(g)) :
          /\ b >= call[g].cost
          /\ redis' = [redis EXCEPT ![RegionAt(g)] = b - call[g].cost]
    OBVIOUS
  <1>5. Account!Admit(g)
    BY <1>1, <1>3, <1>4, Zenon DEF Account!Admit
  <1> QED
    BY <1>5 DEF Account!Next

\* A request is denied, because its account does not cover it.
LEMMA SeenDenied ==
    ASSUME IndInv, NEW g \in Calls, call[g].pc \in {"decrement", "again", "init"},
           NEW balance \in Account!Balance(RegionAt(g)), balance < call[g].cost,
           redis' = [redis EXCEPT ![RegionAt(g)] = balance],
           Answers(g, "denied"), disturbed' = disturbed
    PROVE  Account!Next
  <1>1. Account!Becomes({g}, "denied")
    BY AnswerIs, SeenNext, SeenBecomes
  <1>2. Seen(g) = [state |-> "asking", region |-> RegionAt(g), cost |-> call[g].cost]
    BY SeenIs DEF Asks, Account!Asking
  <1> DEFINE f == [h \in Calls |-> Seen(h)]
  <1>3. f[g].state = "asking" /\ f[g].region = RegionAt(g) /\ f[g].cost = call[g].cost
    BY <1>2
  <1>4. \E b \in Account!Balance(RegionAt(g)) :
          /\ b < call[g].cost
          /\ redis' = [redis EXCEPT ![RegionAt(g)] = b]
    OBVIOUS
  <1>5. Account!Deny(g)
    BY <1>1, <1>3, <1>4, Zenon DEF Account!Deny
  <1> QED
    BY <1>5 DEF Account!Next

\* Every step of a request is one of the account.
LEMMA LimitOnAccount ==
    ASSUME AccountInv, ~disturbed', NEW g \in Calls, Limit(g)
    PROVE  Account!Next
  <1> USE DEF AccountInv, ChargeInv
  <1>1. CASE DecrementAdmits(g)
    <2>1. /\ call[g].pc \in {"decrement", "again"} /\ Sufficient(RegionAt(g), call[g].cost)
          /\ redis' = [redis EXCEPT ![RegionAt(g)] = redis[RegionAt(g)] - call[g].cost]
          /\ Goes(g, "buffer") /\ disturbed' = disturbed
      BY <1>1 DEF DecrementAdmits, Admit, At
    <2>2. redis[RegionAt(g)] \in Account!Balance(RegionAt(g)) /\ redis[RegionAt(g)] >= call[g].cost
      BY <2>1 DEF Sufficient, Account!Balance, Account!NotOpen, NoKey
    <2> QED
      BY <2>1, <2>2, SeenAdmitted
  <1>2. CASE DecrementDenies(g)
    <2>1. /\ call[g].pc \in {"decrement", "again"} /\ redis[RegionAt(g)] # NoKey
          /\ ~(redis[RegionAt(g)] >= call[g].cost)
          /\ redis' = redis /\ Answers(g, "denied") /\ disturbed' = disturbed
      BY <1>2 DEF DecrementDenies, Sufficient, At
    <2>2. call[g].pc \in Active
      BY <2>1 DEF Active
    <2> DEFINE r == RegionAt(g)
    <2>3. r \in Regions /\ redis[r] \in Nat \cup {NoKey} /\ call[g].cost \in Nat
      BY <2>2, CallFacts DEF IndInv
    <2> HIDE DEF r
    <2>4. redis' = [redis EXCEPT ![r] = redis[r]]
      BY <2>1, <2>3 DEF IndInv, Types
    <2>5. redis[r] < call[g].cost
      BY <2>1, <2>3 DEF NoKey, r
    <2>6. redis[r] \in Account!Balance(r)
      BY <2>1 DEF Account!Balance, Account!NotOpen, NoKey, r
    <2> QED
      BY <2>1, <2>4, <2>5, <2>6, SeenDenied DEF r
  <1>3. CASE DecrementMisses(g)
    <2>1. /\ UNCHANGED <<redis, disturbed>>
          /\ \/ call[g].pc = "decrement" /\ Goes(g, "find")
             \/ At(g) = "again" /\ redis[RegionAt(g)] = NoKey
      BY <1>3 DEF DecrementMisses, At
    <2>2. ~(At(g) = "again" /\ redis[RegionAt(g)] = NoKey)
      BY <2>1 DEF Steady
    <2>3. Seen(g)' = Seen(g)
      BY <2>1, <2>2, GoesOn, SeenIs, SeenNext DEF Asks, RegionAt
    <2> QED
      BY <2>1, <2>2, <2>3, GoesOn, SeenStays
  <1>4. CASE RedisFails(g)
    BY <1>4 DEF RedisFails
  <1>5. CASE FindCredits(g)
    <2>1. call[g].pc = "find" /\ UNCHANGED <<redis, disturbed>> /\ replica # Unlimited
      BY <1>5, CreditAssumption DEF FindCredits, At, IndInv, Undisturbed, Unlimited
    <2>2. CASE Answers(g, "failed")
      <3>1. call'[g].pc = "failed" /\ \A h \in Calls \ {g} : call'[h] = call[h]
        BY <2>2, AnswerIs
      <3> QED
        BY <2>1, <3>1, SeenFails DEF Asks
    <2>3. CASE call' = [call EXCEPT ![g].got = replica, ![g].pc = "init"]
      <3>1. /\ call'[g].pc = "init" /\ call'[g].node = call[g].node /\ call'[g].cost = call[g].cost
            /\ \A h \in Calls \ {g} : call'[h] = call[h]
        BY <2>3 DEF IndInv, Types
      <3>2. Seen(g)' = Seen(g)
        BY <2>1, <3>1, SeenIs, SeenNext DEF Asks, RegionAt
      <3> QED
        BY <2>1, <3>1, <3>2, SeenStays
    <2> QED
      BY <1>5, <2>1, <2>2, <2>3 DEF FindCredits
  <1>6. CASE InitAdmits(g)
    <2>1. /\ call[g].pc = "init" /\ redis[RegionAt(g)] = NoKey /\ call[g].got >= call[g].cost
          /\ redis' = [redis EXCEPT ![RegionAt(g)] = call[g].got - call[g].cost]
          /\ Goes(g, "buffer") /\ disturbed' = disturbed
      BY <1>6 DEF InitAdmits, InitValue, Covers, Admit, At
    <2> QED
      BY <2>1, OpeningBalance, SeenAdmitted
  <1>7. CASE InitDenies(g)
    <2>1. /\ call[g].pc = "init" /\ redis[RegionAt(g)] = NoKey /\ ~(call[g].got >= call[g].cost)
          /\ redis' = [redis EXCEPT ![RegionAt(g)] = call[g].got]
          /\ Answers(g, "denied") /\ disturbed' = disturbed
      BY <1>7 DEF InitDenies, InitValue, Covers, At
    <2>2. call[g].got < call[g].cost
      BY <2>1 DEF IndInv, Types
    <2> QED
      BY <2>1, <2>2, OpeningBalance, SeenDenied
  <1>8. CASE InitLoses(g)
    <2>1. call[g].pc = "init" /\ Goes(g, "again") /\ UNCHANGED <<redis, disturbed>>
      BY <1>8 DEF InitLoses, At
    <2>2. Seen(g)' = Seen(g)
      BY <2>1, GoesOn, SeenIs, SeenNext DEF Asks, RegionAt
    <2> QED
      BY <2>1, <2>2, GoesOn, SeenStays
  <1>9. CASE FindForFallback(g) \/ ChargeRow(g)
    BY <1>9 DEF FindForFallback, ChargeRow, Steady
  <1>10. CASE EnterBuffer(g)
    <2>1. /\ call[g].pc = "buffer" /\ UNCHANGED <<redis, disturbed>>
          /\ Goes(g, "sending") \/ Answers(g, "allowed")
      BY <1>10 DEF EnterBuffer, At
    <2>2. CASE Goes(g, "sending")
      <3>1. Seen(g)' = Seen(g)
        BY <2>1, <2>2, GoesOn, SeenIs, SeenNext
      <3> QED
        BY <2>1, <2>2, <3>1, GoesOn, SeenStays
    <2>3. CASE Answers(g, "allowed")
      BY <2>1, <2>3, SeenConfirmed
    <2> QED
      BY <2>1, <2>2, <2>3
  <1>11. CASE SendChange(g)
    BY <1>11, SeenConfirmed DEF SendChange, At
  <1> QED
    BY <1>1, <1>2, <1>3, <1>4, <1>5, <1>6, <1>7, <1>8, <1>9, <1>10, <1>11 DEF Limit

\* A request asks.
LEMMA BeginAsks ==
    ASSUME AccountInv, NEW g \in Calls, NEW n \in Nodes, Begin(g, n)
    PROVE  Account!Next
  <1>1. PICK cost \in Costs :
            call' = [call EXCEPT ![g] = [Request EXCEPT !.pc = "decrement", !.node = n, !.cost = cost]]
    BY DEF Begin
  <1>2. call[g].pc = "idle" /\ UNCHANGED <<redis, disturbed>>
    BY DEF Begin, At
  <1>3. /\ call'[g].pc = "decrement" /\ call'[g].node = n /\ call'[g].cost = cost
        /\ \A h \in Calls \ {g} : call'[h] = call[h]
    BY <1>1 DEF AccountInv, ChargeInv, IndInv, Types, Request
  <1>4. Seen(g) = Account!Now("new") /\ Seen(g)' = Account!Asking(RegionOf[n], cost)
    BY <1>2, <1>3, SeenIs, SeenNext DEF Asks
  <1>5. \A h \in Calls : Seen(h)' = IF h = g THEN Account!Asking(RegionOf[n], cost) ELSE Seen(h)
    BY <1>3, <1>4, SeenSame
  <1>6. Account!Ask(g, RegionOf[n], cost)
    BY <1>2, <1>4, <1>5 DEF Account!Ask
  <1>7. RegionOf[n] \in Regions
    BY TopologyAssumption
  <1> QED
    BY <1>6, <1>7 DEF Account!Next

\* A process ends, and its requests with it.
LEMMA ExitFails ==
    ASSUME AccountInv, NEW n \in Nodes, Exit(n)
    PROVE  Account!Next
  <1> DEFINE S == {g \in Calls : call[g].node = n}
  <1>1. /\ UNCHANGED <<redis, disturbed>>
        /\ call' = [g \in Calls |->
                      IF call[g].node = n THEN [Request EXCEPT !.pc = "crashed"] ELSE call[g]]
    BY DEF Exit
  <1>2. \A g \in S : call[g].pc \in Asks \cup {"buffer", "sending"}
    BY TopologyAssumption DEF AccountInv, OnNode, Active, Asks
  <1>3. \A g \in S : call'[g].pc \in {"failed", "crashed"}
    BY <1>1 DEF Request
  <1>4. S \in SUBSET Calls /\ \A h \in Calls \ S : call'[h] = call[h]
    BY <1>1
  <1> HIDE DEF S
  <1> QED
    BY <1>1, <1>2, <1>3, <1>4, SeenFails DEF AccountInv, ChargeInv

\* A step that moves no request and no counter is none of the account.
LEMMA NothingSeen ==
    ASSUME UNCHANGED <<redis, call, disturbed>>
    PROVE  UNCHANGED Account!accountVars
  <1>1. \A h \in Calls : Seen(h)' = Seen(h)
    BY SeenSame
  <1>2. [h \in Calls |-> Seen(h)]' = [h \in Calls |-> Seen(h)]
    BY <1>1
  <1> QED
    BY <1>2 DEF Account!accountVars

\* Every step of the limiter is one of the account, or none.
LEMMA StepIsAccountStep == AccountInv /\ [Next]_vars => [Account!Next]_(Account!accountVars)
  <1> SUFFICES ASSUME AccountInv, [Next]_vars
               PROVE  Account!Next \/ UNCHANGED Account!accountVars
    OBVIOUS
  <1>1. CASE disturbed'
    BY <1>1 DEF Account!Next, Account!Disturb
  <1>2. CASE ~disturbed'
    <2>1. CASE \E g \in Calls : Limit(g) \/ \E n \in Nodes : Begin(g, n)
      BY <1>2, <2>1, LimitOnAccount, BeginAsks
    <2>2. CASE \E n \in Nodes : Shutdown(n)
      <3>1. PICK n \in Nodes : Shutdown(n)
        BY <2>2
      <3>2. CASE ~Exit(n)
        <4>1. UNCHANGED <<redis, call, disturbed>>
          BY <3>1, <3>2 DEF Shutdown, Close, CloseBuffer, CloseTimesOut, DrainOne, CloseReturns
        <4> QED
          BY <4>1, NothingSeen
      <3> QED
        BY <3>2, ExitFails
    <2>3. CASE \/ \E n \in Nodes, w \in Workers : Replay(n, w)
               \/ Replicate \/ UNCHANGED vars
      <3>1. UNCHANGED <<redis, call, disturbed>>
        BY <2>3 DEF Replay, TakeChange, SyncWithDB, SyncFails, Replicate, vars
      <3> QED
        BY <3>1, NothingSeen
    <2>4. ~Invalidate /\ ~\E r \in Regions : Expire(r)
      BY <1>2 DEF Invalidate, Expire, AccountInv, ChargeInv, IndInv, UpdateDisturbs
    <2>5. ~\E n \in Nodes : UpdateCredits(n)
      BY <1>2 DEF UpdateCredits
    <2> QED
      BY <2>1, <2>2, <2>3, <2>4, <2>5 DEF Next
  <1> QED
    BY <1>1, <1>2

\* Limit is atomic, for any number of regions, replicas, requests, costs and workers: until
\* the counter is disturbed, the steps with which requests look for the counter, race to
\* create it, decrement it and buffer the change are, together, requests that are admitted
\* or denied one after another on the account of their region.
THEOREM LimitIsAtomic == Spec => ImplementsAccount
  <1>1. Init => Account!Init
    <2> SUFFICES ASSUME Init PROVE Account!Init
      OBVIOUS
    <2>1. \A g \in Calls : Seen(g) = Account!Now("new")
      BY SeenIs DEF Init, Request
    <2> QED
      BY <2>1 DEF Init, NoKey, Account!Init, Account!NotOpen
  <1>2. AccountInv /\ [Next]_vars => [Account!Next]_(Account!accountVars)
    BY StepIsAccountStep
  <1> QED
    BY <1>1, <1>2, AccountInvariant, PTL DEF Spec, ImplementsAccount, Account!Spec

----------------------------------------------------------------------------
\* Close

\* Close is under way on node n, and what CloseEnds asks of a step then.
Closing(n) == closing[n] \in {"locking", "draining", "forcing"}
CloseStep(n) == UNCHANGED <<Senders(n), buffer[n], Replaying(n)>> \/ CloseWork(n)' < CloseWork(n)

\* The numbers that CloseWork adds up.
LEMMA WorkNat ==
    ASSUME IndInv, NEW n \in Nodes
    PROVE  /\ IsFiniteSet(Senders(n)) /\ Cardinality(Senders(n)) \in Nat
           /\ IsFiniteSet(Replaying(n)) /\ Cardinality(Replaying(n)) \in Nat
           /\ Len(buffer[n]) \in Nat /\ buffer[n] \in Seq(Nat)
  <1>1. Senders(n) \subseteq Calls /\ Replaying(n) \subseteq Workers
    BY DEF Senders, Replaying
  <1>2. IsFiniteSet(Senders(n)) /\ IsFiniteSet(Replaying(n))
    BY <1>1, FiniteAssumption, FS_Subset
  <1>3. Len(buffer[n]) \in Nat /\ buffer[n] \in Seq(Nat)
    BY DEF IndInv, Types
  <1> QED
    BY <1>2, <1>3, FS_CardinalityType

\* A request that neither gets nor gives back the buffer's lock leaves the senders.
LEMMA SendersSame ==
    ASSUME NEW n, \A g \in Calls : \/ call'[g] = call[g]
                                   \/ call[g].pc # "sending" /\ call'[g].pc # "sending"
    PROVE  Senders(n)' = Senders(n)
  BY DEF Senders, At

\* A step of a request that does not send.
LEMMA LimitKeepsSenders ==
    ASSUME IndInv, NEW g \in Calls, Limit(g), ~SendChange(g), NEW n \in Nodes, Closing(n)
    PROVE  UNCHANGED <<Senders(n), buffer, worker>>
  <1>1. UNCHANGED <<buffer, worker>>
    BY DEF Limit, DecrementAdmits, DecrementDenies, DecrementMisses, RedisFails, FindCredits, InitAdmits,
           InitDenies, InitLoses, FindForFallback, ChargeRow, EnterBuffer, limiterVars
  <1>2. CASE EnterBuffer(g)
    <2>1. CASE call[g].node = n
      <3>1. Answers(g, "allowed") /\ call[g].pc = "buffer"
        BY <1>2, <2>1 DEF EnterBuffer, Closing, At
      <3>2. Senders(n)' = Senders(n)
        BY <3>1, AnswerIs, SendersSame
      <3> QED
        BY <1>1, <3>2
    <2>2. CASE call[g].node # n
      <3>1. Answers(g, "allowed") \/ Goes(g, "sending")
        BY <1>2 DEF EnterBuffer
      <3>2. CASE Answers(g, "allowed")
        <4>1. call'[g].node # n /\ \A h \in Calls \ {g} : call'[h] = call[h]
          BY <3>2, AnswerIs, TopologyAssumption
        <4> QED
          BY <1>1, <2>2, <4>1 DEF Senders, At
      <3>3. CASE Goes(g, "sending")
        <4>1. call'[g].node # n /\ \A h \in Calls \ {g} : call'[h] = call[h]
          BY <2>2, <3>3, GoesOn
        <4> QED
          BY <1>1, <2>2, <4>1 DEF Senders, At
      <3> QED
        BY <3>1, <3>2, <3>3
    <2> QED
      BY <2>1, <2>2
  <1>3. CASE ~EnterBuffer(g)
    <2>1. /\ call[g].pc # "sending"
          /\ \/ \E pc \in {"buffer", "find", "fallback", "again", "charge"} : Goes(g, pc)
             \/ \E pc \in {"allowed", "denied", "failed"} : Answers(g, pc)
             \/ call' = [call EXCEPT ![g].got = replica, ![g].pc = "init"]
      BY <1>3 DEF Limit, DecrementAdmits, DecrementDenies, DecrementMisses, RedisFails, FindCredits,
           InitAdmits, InitDenies, InitLoses, FindForFallback, ChargeRow, Admit, At
    <2>2. call'[g].pc # "sending" /\ \A h \in Calls \ {g} : call'[h] = call[h]
      <3>1. CASE call' = [call EXCEPT ![g].got = replica, ![g].pc = "init"]
        BY <3>1 DEF IndInv, Types
      <3> QED
        BY <2>1, <3>1, GoesOn, AnswerIs
    <2> QED
      BY <1>1, <2>1, <2>2, SendersSame
  <1> QED
    BY <1>2, <1>3

\* Nothing that Close of n waits for has changed.
LEMMA WorkSame ==
    ASSUME NEW n \in Nodes, Senders(n)' = Senders(n), buffer'[n] = buffer[n], worker'[n] = worker[n]
    PROVE  CloseStep(n)
  BY DEF CloseStep, Replaying

\* A change is sent: one sender less and one change more in the buffer.
LEMMA SendShrinks ==
    ASSUME IndInv, NEW g \in Calls, SendChange(g), NEW n \in Nodes
    PROVE  CloseStep(n)
  <1> DEFINE m == call[g].node
  <1>1. /\ call[g].pc = "sending" /\ m \in Nodes
        /\ buffer' = [buffer EXCEPT ![m] = Append(@, call[g].cost)]
        /\ Answers(g, "allowed") /\ worker' = worker
    BY DEF SendChange, At, IndInv, Placed, Active
  <1>2. /\ \A h \in Calls \ {g} : call'[h] = call[h]
        /\ call'[g].pc = "allowed" /\ call'[g].node = "none"
    BY <1>1, AnswerIs
  <1>3. CASE n # m
    <2>1. Senders(n)' = Senders(n)
      BY <1>2, <1>3 DEF Senders, At
    <2>2. buffer'[n] = buffer[n]
      BY <1>1, <1>3 DEF IndInv, Types
    <2> QED
      BY <1>1, <2>1, <2>2, WorkSame
  <1>4. CASE n = m
    <2>1. Senders(n)' = Senders(n) \ {g} /\ g \in Senders(n)
      BY <1>1, <1>2, <1>4 DEF Senders, At
    <2>2. Cardinality(Senders(n)') = Cardinality(Senders(n)) - 1
      BY <2>1, WorkNat, FS_RemoveElement
    <2>3. Len(buffer'[n]) = Len(buffer[n]) + 1
      BY <1>1, <1>4, WorkNat DEF IndInv, Types
    <2>4. Replaying(n)' = Replaying(n)
      BY <1>1 DEF Replaying
    <2>5. 3 * Cardinality(Senders(n)') + 2 * Len(buffer'[n]) + Cardinality(Replaying(n)')
            < 3 * Cardinality(Senders(n)) + 2 * Len(buffer[n]) + Cardinality(Replaying(n))
      BY <2>2, <2>3, <2>4, WorkNat
    <2> QED
      BY <2>5 DEF CloseStep, CloseWork
  <1> QED
    BY <1>3, <1>4

\* A worker takes a change, or is done with it.
LEMMA ReplayShrinks ==
    ASSUME IndInv, NEW m \in Nodes, NEW w \in Workers, Replay(m, w), NEW n \in Nodes
    PROVE  CloseStep(n)
  <1>1. Senders(n)' = Senders(n)
    BY DEF Replay, TakeChange, SyncWithDB, SyncFails, Senders, At
  <1>2. CASE n # m
    <2>1. buffer'[n] = buffer[n] /\ worker'[n] = worker[n]
      BY <1>2 DEF Replay, TakeChange, SyncWithDB, SyncFails, IndInv, Types
    <2> QED
      BY <1>1, <2>1, WorkSame
  <1>3. CASE n = m /\ TakeChange(m, w)
    <2>1. /\ worker[n][w] = Idle /\ buffer[n] # <<>>
          /\ worker' = [worker EXCEPT ![n][w] = Head(buffer[n])]
          /\ buffer' = [buffer EXCEPT ![n] = Tail(buffer[n])]
      BY <1>3 DEF TakeChange
    <2>2. Head(buffer[n]) # Idle /\ Len(Tail(buffer[n])) = Len(buffer[n]) - 1
      BY <2>1, WorkNat DEF Idle
    <2>3. Len(buffer'[n]) = Len(buffer[n]) - 1
      BY <2>1, <2>2 DEF IndInv, Types
    <2>4. Replaying(n)' = Replaying(n) \cup {w} /\ w \notin Replaying(n)
      BY <2>1, <2>2 DEF Replaying, IndInv, Types
    <2>5. Cardinality(Replaying(n)') = Cardinality(Replaying(n)) + 1
      BY <2>4, WorkNat, FS_AddElement
    <2>6. 3 * Cardinality(Senders(n)') + 2 * Len(buffer'[n]) + Cardinality(Replaying(n)')
            < 3 * Cardinality(Senders(n)) + 2 * Len(buffer[n]) + Cardinality(Replaying(n))
      BY <1>1, <2>3, <2>5, WorkNat
    <2> QED
      BY <2>6 DEF CloseStep, CloseWork
  <1>4. CASE n = m /\ (SyncWithDB(m, w) \/ SyncFails(m, w))
    <2>1. /\ worker[n][w] # Idle /\ worker' = [worker EXCEPT ![n][w] = Idle] /\ buffer' = buffer
      BY <1>4 DEF SyncWithDB, SyncFails
    <2>2. Replaying(n)' = Replaying(n) \ {w} /\ w \in Replaying(n)
      BY <2>1 DEF Replaying, IndInv, Types
    <2>3. Cardinality(Replaying(n)') = Cardinality(Replaying(n)) - 1
      BY <2>2, WorkNat, FS_RemoveElement
    <2>4. 3 * Cardinality(Senders(n)') + 2 * Len(buffer'[n]) + Cardinality(Replaying(n)')
            < 3 * Cardinality(Senders(n)) + 2 * Len(buffer[n]) + Cardinality(Replaying(n))
      BY <1>1, <2>1, <2>3, WorkNat
    <2> QED
      BY <2>4 DEF CloseStep, CloseWork
  <1> QED
    BY <1>2, <1>3, <1>4 DEF Replay

\* Close replays a change by itself.
LEMMA DrainShrinks ==
    ASSUME IndInv, NEW m \in Nodes, DrainOne(m), NEW n \in Nodes
    PROVE  CloseStep(n)
  <1>1. /\ Senders(n)' = Senders(n) /\ worker' = worker
        /\ buffer[m] # <<>> /\ buffer' = [buffer EXCEPT ![m] = Tail(@)]
    BY DEF DrainOne, Senders, At
  <1>2. CASE n # m
    <2>1. buffer'[n] = buffer[n]
      BY <1>1, <1>2 DEF IndInv, Types
    <2> QED
      BY <1>1, <2>1, WorkSame
  <1>3. CASE n = m
    <2>1. Len(buffer'[n]) = Len(buffer[n]) - 1
      BY <1>1, <1>3, WorkNat DEF IndInv, Types
    <2>2. Replaying(n)' = Replaying(n)
      BY <1>1 DEF Replaying
    <2>3. 3 * Cardinality(Senders(n)') + 2 * Len(buffer'[n]) + Cardinality(Replaying(n)')
            < 3 * Cardinality(Senders(n)) + 2 * Len(buffer[n]) + Cardinality(Replaying(n))
      BY <1>1, <2>1, <2>2, WorkNat
    <2> QED
      BY <2>3 DEF CloseStep, CloseWork
  <1> QED
    BY <1>2, <1>3

\* A process ends: nothing is left to wait for.
LEMMA ExitShrinks ==
    ASSUME IndInv, NEW m \in Nodes, Exit(m), NEW n \in Nodes
    PROVE  CloseStep(n)
  <1>1. /\ buffer' = [buffer EXCEPT ![m] = <<>>]
        /\ worker' = [worker EXCEPT ![m] = [w \in Workers |-> Idle]]
        /\ call' = [g \in Calls |->
                      IF call[g].node = m THEN [Request EXCEPT !.pc = "crashed"] ELSE call[g]]
    BY DEF Exit
  <1>2. \A g \in Calls : IF call[g].node = m THEN call'[g].node = "none" ELSE call'[g] = call[g]
    BY <1>1 DEF Request
  <1>3. CASE n # m
    <2>1. buffer'[n] = buffer[n] /\ worker'[n] = worker[n]
      BY <1>1, <1>3 DEF IndInv, Types
    <2>2. Senders(n)' = Senders(n)
      BY <1>2, <1>3, TopologyAssumption DEF Senders, At
    <2> QED
      BY <2>1, <2>2, WorkSame
  <1>4. CASE n = m
    <2>1. buffer'[n] = <<>> /\ Len(buffer'[n]) = 0
      BY <1>1, <1>4 DEF IndInv, Types
    <2>2. Senders(n)' = {} /\ Cardinality(Senders(n)') = 0
      <3>1. Senders(n)' = {}
        BY <1>2, <1>4, TopologyAssumption DEF Senders, At
      <3> QED
        BY <3>1, FS_EmptySet
    <2>3. Replaying(n)' = {} /\ Cardinality(Replaying(n)') = 0
      <3>1. Replaying(n)' = {}
        BY <1>1, <1>4 DEF Replaying, IndInv, Types
      <3> QED
        BY <3>1, FS_EmptySet
    <2>4. CASE Senders(n) = {} /\ buffer[n] = <<>> /\ Replaying(n) = {}
      BY <2>1, <2>2, <2>3, <2>4 DEF CloseStep
    <2>5. CASE ~(Senders(n) = {} /\ buffer[n] = <<>> /\ Replaying(n) = {})
      <3>1. Cardinality(Senders(n)) > 0 \/ Len(buffer[n]) > 0 \/ Cardinality(Replaying(n)) > 0
        BY <2>5, WorkNat, FS_EmptySet
      <3>2. 3 * Cardinality(Senders(n)') + 2 * Len(buffer'[n]) + Cardinality(Replaying(n)')
              < 3 * Cardinality(Senders(n)) + 2 * Len(buffer[n]) + Cardinality(Replaying(n))
        <4> DEFINE s == Cardinality(Senders(n))
                   b == Len(buffer[n])
                   k == Cardinality(Replaying(n))
        <4>1. s \in Nat /\ b \in Nat /\ k \in Nat /\ (s > 0 \/ b > 0 \/ k > 0)
          BY <3>1, WorkNat
        <4> HIDE DEF s, b, k
        <4>2. 0 < 3 * s + 2 * b + k
          BY <4>1
        <4>3. 3 * Cardinality(Senders(n)') + 2 * Len(buffer'[n]) + Cardinality(Replaying(n)') = 0
          BY <2>1, <2>2, <2>3
        <4> QED
          BY <4>2, <4>3 DEF s, b, k
      <3> QED
        BY <3>2 DEF CloseStep, CloseWork
    <2> QED
      BY <2>4, <2>5
  <1> QED
    BY <1>3, <1>4

\* A new request does not hold the lock.
LEMMA BeginKeepsSenders ==
    ASSUME IndInv, NEW g \in Calls, NEW m \in Nodes, Begin(g, m), NEW n \in Nodes
    PROVE  CloseStep(n)
  <1>1. /\ call[g].pc = "idle" /\ UNCHANGED <<buffer, worker>>
        /\ \E cost \in Costs :
             call' = [call EXCEPT ![g] = [Request EXCEPT !.pc = "decrement", !.node = m, !.cost = cost]]
    BY DEF Begin, At, limiterVars
  <1>2. call'[g].pc = "decrement" /\ \A h \in Calls \ {g} : call'[h] = call[h]
    BY <1>1 DEF IndInv, Types, Request
  <1>3. Senders(n)' = Senders(n)
    BY <1>1, <1>2, SendersSame
  <1> QED
    BY <1>1, <1>3, WorkSame

\* Every step of the limiter, for a node whose Close is under way.
LEMMA StepShrinks ==
    ASSUME IndInv, [Next]_vars, NEW n \in Nodes, Closing(n)
    PROVE  CloseStep(n)
  <1>1. ASSUME NEW g \in Calls, Limit(g) PROVE CloseStep(n)
    <2>1. CASE SendChange(g)
      BY <2>1, SendShrinks
    <2>2. CASE ~SendChange(g)
      BY <1>1, <2>2, LimitKeepsSenders, WorkSame
    <2> QED
      BY <2>1, <2>2
  <1>2. ASSUME UNCHANGED <<call, buffer, worker>> PROVE CloseStep(n)
    <2>1. Senders(n)' = Senders(n)
      BY <1>2 DEF Senders, At
    <2> QED
      BY <1>2, <2>1, WorkSame
  <1>3. ASSUME NEW m \in Nodes, Shutdown(m) \/ UpdateCredits(m) PROVE CloseStep(n)
    <2>1. UNCHANGED <<call, buffer, worker>> \/ DrainOne(m) \/ Exit(m)
      BY <1>3 DEF Shutdown, Close, CloseBuffer, CloseTimesOut, CloseReturns, UpdateCredits, limiterVars
    <2> QED
      BY <1>2, <2>1, DrainShrinks, ExitShrinks
  <1>4. CASE (\E r \in Regions : Expire(r)) \/ Invalidate \/ Replicate \/ UNCHANGED vars
    BY <1>2, <1>4 DEF Expire, Invalidate, Replicate, limiterVars, vars
  <1> QED
    BY <1>1, <1>3, <1>4, BeginKeepsSenders, ReplayShrinks DEF Next

\* What Close waits for only shrinks, for any number of requests, workers and replicas and
\* any capacity: the request that holds the lock sends once, a change that was sent is taken
\* once and replayed once, and nobody gets the lock any more.
THEOREM CloseShrinks == Spec => CloseEnds
  <1>1. Init => IndInv
    BY Initially
  <1>2. IndInv /\ [Next]_vars => IndInv'
    BY Preserved
  <1>3. IndInv /\ [Next]_vars =>
          [\A n \in Nodes : closing[n] \in {"locking", "draining", "forcing"} =>
              UNCHANGED <<Senders(n), buffer[n], Replaying(n)>> \/ CloseWork(n)' < CloseWork(n)]_vars
    BY StepShrinks DEF Closing, CloseStep
  <1> QED
    BY <1>1, <1>2, <1>3, PTL DEF Spec, CloseEnds
=============================================================================
