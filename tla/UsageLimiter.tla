----------------------------- MODULE UsageLimiter -----------------------------
(***************************************************************************)
(* Credits of one API key: internal/services/usagelimiter. Limit decides   *)
(* on a counter in the region's Redis, which is initialised from the row   *)
(* in MySQL, and replay workers carry what was spent back to the row. When *)
(* Redis does not answer, Limit works on the row directly. Keys do not     *)
(* share anything but the replay buffer, so one key is enough.             *)
(*                                                                         *)
(* Every Redis command and every SQL statement is a step of its own; the   *)
(* requests of all replicas, the workers, Close, the expiry of the counter *)
(* and updates of the row through the API interleave between them.         *)
(*                                                                         *)
(* A definition marked "Seeded fault" is not part of the specification: it *)
(* is a plausible bug of the definition after it, kept to show that the    *)
(* properties notice it (see PROJECT.json, mutants).                       *)
(***************************************************************************)
EXTENDS Integers, Sequences, FiniteSets, SequencesExt

CONSTANTS
    Regions,        \* regions, each with its own Redis
    Nodes,          \* replicas of the API
    RegionOf,       \* [Nodes -> Regions]
    Calls,          \* requests, each of which calls Limit once
    Costs,          \* costs a request may have
    Initial,        \* credits of the key at the start
    Settings,       \* credits an update may set, Unlimited among them
    MaxUpdates,     \* bound on updates of the row
    Capacity,       \* capacity of replayBuffer
    Workers         \* replay goroutines of a node

Unlimited == -1     \* remaining_requests IS NULL
NoKey     == -1     \* the counter does not exist in Redis
Idle      == -1     \* a worker without a change

ASSUME FiniteAssumption == /\ IsFiniteSet(Regions) /\ IsFiniteSet(Nodes)
                           /\ IsFiniteSet(Calls) /\ IsFiniteSet(Workers)
ASSUME TopologyAssumption == RegionOf \in [Nodes -> Regions] /\ "none" \notin Nodes
ASSUME CreditAssumption == /\ Costs \subseteq Nat /\ Initial \in Nat
                           /\ Settings \subseteq Nat \cup {Unlimited}
ASSUME BoundAssumption == MaxUpdates \in Nat /\ Capacity \in Nat \ {0}

VARIABLES
    redis,      \* [Regions -> Nat \cup {NoKey}]  the counter credits:<key>
    credits,    \* remaining_requests in MySQL
    replica,    \* the row as the read replica shows it
    call,       \* [Calls -> pc, node, cost and the credits it has read]
    buffer,     \* [Nodes -> Seq(Costs)]  replayBuffer
    worker,     \* [Nodes -> [Workers -> the change it replays, or Idle]]
    closing,    \* [Nodes -> where Close is, or "exited"]
    update,     \* "none", or the node that still has to Invalidate
    updates,    \* updates so far
    \* History variables: read by properties only.
    spent,      \* [Regions -> Nat]  credits admitted on the region's counter
    applied,    \* of these, the cost replayed to the row
    lost,       \* of these, the cost that will never be
    disturbed   \* the counter was dropped or bypassed, or the row updated

limiterVars == <<buffer, worker, closing, applied, lost>>
updateVars == <<update, updates>>
vars == <<redis, credits, replica, call, limiterVars, updateVars, spent, disturbed>>

Request == [pc |-> "idle", node |-> "none", cost |-> 0, got |-> 0]

Init ==
    /\ redis = [r \in Regions |-> NoKey]
    /\ credits = Initial /\ replica = Initial
    /\ call = [g \in Calls |-> Request]
    /\ buffer = [n \in Nodes |-> <<>>]
    /\ worker = [n \in Nodes |-> [w \in Workers |-> Idle]]
    /\ closing = [n \in Nodes |-> "open"]
    /\ update = "none" /\ updates = 0
    /\ spent = [r \in Regions |-> 0] /\ applied = 0 /\ lost = 0
    /\ disturbed = FALSE

----------------------------------------------------------------------------
\* Helpers

At(g) == call[g].pc
RegionAt(g) == RegionOf[call[g].node]
Goes(g, pc) == call' = [call EXCEPT ![g].pc = pc]
Answers(g, pc) == call' = [call EXCEPT ![g] = [Request EXCEPT !.pc = pc]]

\* UpdateKeyCreditsDecrement. NULL >= cost is not true, so NULL becomes 0.
Charged(row, cost) == IF row >= cost THEN row - cost ELSE 0

\* UpdateKeyCreditsIncrement. NULL + v is NULL.
Increased(row, v) == IF row = Unlimited THEN Unlimited ELSE row + v

\* Seeded fault: the script decrements before it compares.
SufficientAlways(r, cost) == redis[r] # NoKey

\* The decrementIfExists script: the counter exists and covers the cost.
Sufficient(r, cost) == redis[r] # NoKey /\ redis[r] >= cost

\* The credits that were read cover the cost.
Covers(g) == call[g].got >= call[g].cost

\* Seeded fault: the counter starts without the request that created it.
InitUncharged(g) == call[g].got

\* What initializeFromDatabase stores: the credits it has read, less the cost if they cover it.
InitValue(g) == IF Covers(g) THEN call[g].got - call[g].cost ELSE call[g].got

\* The counter admits the request, which goes on to buffer the change.
Admit(g, value) ==
    /\ redis' = [redis EXCEPT ![RegionAt(g)] = value]
    /\ spent' = [spent EXCEPT ![RegionAt(g)] = @ + call[g].cost]
    /\ Goes(g, "buffer")

----------------------------------------------------------------------------
\* Limit

Begin(g, n) ==
    /\ At(g) = "idle" /\ closing[n] # "exited"
    /\ \E cost \in Costs :
          call' = [call EXCEPT ![g] = [Request EXCEPT !.pc = "decrement", !.node = n, !.cost = cost]]
    /\ UNCHANGED <<redis, credits, replica, limiterVars, updateVars, spent, disturbed>>

\* DecrementIfExists, the first or the one after a lost initialisation: admitted.
DecrementAdmits(g) ==
    /\ At(g) \in {"decrement", "again"} /\ Sufficient(RegionAt(g), call[g].cost)
    /\ Admit(g, redis[RegionAt(g)] - call[g].cost)
    /\ UNCHANGED <<credits, replica, limiterVars, updateVars, disturbed>>

DecrementDenies(g) ==
    /\ At(g) \in {"decrement", "again"} /\ redis[RegionAt(g)] # NoKey
    /\ ~Sufficient(RegionAt(g), call[g].cost)
    /\ Answers(g, "denied")
    /\ UNCHANGED <<redis, credits, replica, limiterVars, updateVars, spent, disturbed>>

\* No counter: initialise it, or fall back to the row when it vanished again.
DecrementMisses(g) ==
    /\ At(g) \in {"decrement", "again"} /\ redis[RegionAt(g)] = NoKey
    /\ Goes(g, IF At(g) = "decrement" THEN "find" ELSE "fallback")
    /\ UNCHANGED <<redis, credits, replica, limiterVars, updateVars, spent, disturbed>>

\* Redis does not answer a decrement or a SETNX. The command may have been applied.
RedisFails(g) ==
    /\ At(g) \in {"decrement", "again", "init"}
    /\ \/ UNCHANGED redis
       \/ /\ At(g) # "init" /\ Sufficient(RegionAt(g), call[g].cost)
          /\ redis' = [redis EXCEPT ![RegionAt(g)] = @ - call[g].cost]
       \/ /\ At(g) = "init" /\ redis[RegionAt(g)] = NoKey
          /\ redis' = [redis EXCEPT ![RegionAt(g)] = InitValue(g)]
    /\ Goes(g, "fallback")
    /\ disturbed' = TRUE
    /\ UNCHANGED <<credits, replica, limiterVars, updateVars, spent>>

\* findKeyCredits reads the replica, for the initialisation ...
FindCredits(g) ==
    /\ At(g) = "find"
    /\ \/ Answers(g, "failed")
       \/ replica = Unlimited /\ Answers(g, "allowed")
       \/ /\ replica # Unlimited
          /\ call' = [call EXCEPT ![g].got = replica, ![g].pc = "init"]
    /\ UNCHANGED <<redis, credits, replica, limiterVars, updateVars, spent, disturbed>>

\* ... and for the fallback, which compares it with the cost before it charges the row.
FindForFallback(g) ==
    /\ At(g) = "fallback"
    /\ \/ Answers(g, "failed")
       \/ replica = Unlimited /\ Answers(g, "allowed")
       \/ replica \in 0..(call[g].cost - 1) /\ Answers(g, "denied")
       \/ replica >= call[g].cost /\ Goes(g, "charge")
    /\ UNCHANGED <<redis, credits, replica, limiterVars, updateVars, spent, disturbed>>

\* Seeded fault: SET instead of SETNX.
InitOverwrites(g) ==
    /\ At(g) = "init" /\ Covers(g)
    /\ Admit(g, InitValue(g))
    /\ UNCHANGED <<credits, replica, limiterVars, updateVars, disturbed>>

\* SetIfNotExists creates the counter, with the request already taken off.
InitAdmits(g) ==
    /\ At(g) = "init" /\ redis[RegionAt(g)] = NoKey /\ Covers(g)
    /\ Admit(g, InitValue(g))
    /\ UNCHANGED <<credits, replica, limiterVars, updateVars, disturbed>>

InitDenies(g) ==
    /\ At(g) = "init" /\ redis[RegionAt(g)] = NoKey /\ ~Covers(g)
    /\ redis' = [redis EXCEPT ![RegionAt(g)] = InitValue(g)]
    /\ Answers(g, "denied")
    /\ UNCHANGED <<credits, replica, limiterVars, updateVars, spent, disturbed>>

\* Seeded fault: a request that loses the initialisation is denied.
InitLosesDenied(g) ==
    /\ At(g) = "init" /\ redis[RegionAt(g)] # NoKey
    /\ Answers(g, "denied")
    /\ UNCHANGED <<redis, credits, replica, limiterVars, updateVars, spent, disturbed>>

\* Another request initialised the counter first: decrement it after all.
InitLoses(g) ==
    /\ At(g) = "init" /\ redis[RegionAt(g)] # NoKey
    /\ Goes(g, "again")
    /\ UNCHANGED <<redis, credits, replica, limiterVars, updateVars, spent, disturbed>>

\* The fallback takes the cost off the row, or fails, having done so or not.
ChargeRow(g) ==
    /\ At(g) = "charge"
    /\ \/ Answers(g, "allowed") /\ credits' = Charged(credits, call[g].cost)
       \/ Answers(g, "failed") /\ credits' \in {credits, Charged(credits, call[g].cost)}
    /\ disturbed' = TRUE
    /\ UNCHANGED <<redis, replica, limiterVars, updateVars, spent>>

\* Seeded fault: requests keep getting the read lock while Close waits for it.
EnterBeforeClose(g) ==
    LET n == call[g].node IN
    /\ At(g) = "buffer"
    /\ IF closing[n] \in {"open", "locking"}
       THEN Goes(g, "sending") /\ UNCHANGED lost
       ELSE Answers(g, "allowed") /\ lost' = lost + call[g].cost
    /\ UNCHANGED <<redis, credits, replica, buffer, worker, closing, applied, updateVars, spent, disturbed>>

\* handleResult calls replayBuffer.Buffer, which takes the read lock (a waiting Close keeps
\* new readers out). After Close the change is discarded.
EnterBuffer(g) ==
    LET n == call[g].node IN
    /\ At(g) = "buffer" /\ closing[n] # "locking"
    /\ IF closing[n] = "open"
       THEN Goes(g, "sending") /\ UNCHANGED lost
       ELSE Answers(g, "allowed") /\ lost' = lost + call[g].cost
    /\ UNCHANGED <<redis, credits, replica, buffer, worker, closing, applied, updateVars, spent, disturbed>>

\* Seeded fault: the buffer drops when it is full, like the rate limiter's.
SendOrDrop(g) ==
    LET n == call[g].node IN
    /\ At(g) = "sending"
    /\ buffer' = IF Len(buffer[n]) < Capacity
                 THEN [buffer EXCEPT ![n] = Append(@, call[g].cost)] ELSE buffer
    /\ Answers(g, "allowed")
    /\ UNCHANGED <<redis, credits, replica, worker, closing, applied, lost, updateVars, spent, disturbed>>

\* The send waits while the buffer is full, with the read lock held.
SendChange(g) ==
    LET n == call[g].node IN
    /\ At(g) = "sending" /\ Len(buffer[n]) < Capacity
    /\ buffer' = [buffer EXCEPT ![n] = Append(@, call[g].cost)]
    /\ Answers(g, "allowed")
    /\ UNCHANGED <<redis, credits, replica, worker, closing, applied, lost, updateVars, spent, disturbed>>

----------------------------------------------------------------------------
\* Replay and shutdown

\* Seeded fault: the workers stop as soon as Close is called.
TakeWhileOpen(n, w) ==
    /\ closing[n] = "open" /\ worker[n][w] = Idle /\ buffer[n] # <<>>
    /\ worker' = [worker EXCEPT ![n][w] = Head(buffer[n])]
    /\ buffer' = [buffer EXCEPT ![n] = Tail(@)]
    /\ UNCHANGED <<redis, credits, replica, call, closing, applied, lost, updateVars, spent, disturbed>>

\* replayRequests: a worker takes the next change, also after Close.
TakeChange(n, w) ==
    /\ closing[n] # "exited" /\ worker[n][w] = Idle /\ buffer[n] # <<>>
    /\ worker' = [worker EXCEPT ![n][w] = Head(buffer[n])]
    /\ buffer' = [buffer EXCEPT ![n] = Tail(@)]
    /\ UNCHANGED <<redis, credits, replica, call, closing, applied, lost, updateVars, spent, disturbed>>

\* syncWithDB. An error after the statement was applied is the same step.
SyncWithDB(n, w) ==
    /\ closing[n] # "exited" /\ worker[n][w] # Idle
    /\ credits' = Charged(credits, worker[n][w])
    /\ applied' = applied + worker[n][w]
    /\ worker' = [worker EXCEPT ![n][w] = Idle]
    /\ UNCHANGED <<redis, replica, call, buffer, closing, lost, updateVars, spent, disturbed>>

\* The breaker is open or the statement fails: the change is logged and gone.
SyncFails(n, w) ==
    /\ closing[n] # "exited" /\ worker[n][w] # Idle
    /\ lost' = lost + worker[n][w]
    /\ worker' = [worker EXCEPT ![n][w] = Idle]
    /\ UNCHANGED <<redis, credits, replica, call, buffer, closing, applied, updateVars, spent, disturbed>>

\* Close waits for the buffer's lock, closes it, then waits until it is empty ...
Close(n) ==
    /\ closing[n] = "open"
    /\ closing' = [closing EXCEPT ![n] = "locking"]
    /\ UNCHANGED <<redis, credits, replica, call, buffer, worker, applied, lost, updateVars, spent, disturbed>>

CloseBuffer(n) ==
    /\ closing[n] = "locking" /\ \A g \in Calls : ~(call[g].node = n /\ At(g) = "sending")
    /\ closing' = [closing EXCEPT ![n] = "draining"]
    /\ UNCHANGED <<redis, credits, replica, call, buffer, worker, applied, lost, updateVars, spent, disturbed>>

\* ... or, after 30 seconds, until it has replayed the rest by itself ...
CloseTimesOut(n) ==
    /\ closing[n] = "draining"
    /\ closing' = [closing EXCEPT ![n] = "forcing"]
    /\ UNCHANGED <<redis, credits, replica, call, buffer, worker, applied, lost, updateVars, spent, disturbed>>

DrainOne(n) ==
    /\ closing[n] = "forcing" /\ buffer[n] # <<>>
    /\ buffer' = [buffer EXCEPT ![n] = Tail(@)]
    /\ \/ /\ credits' = Charged(credits, Head(buffer[n]))
          /\ applied' = applied + Head(buffer[n])
          /\ UNCHANGED lost
       \/ /\ lost' = lost + Head(buffer[n])
          /\ UNCHANGED <<credits, applied>>
    /\ UNCHANGED <<redis, replica, call, worker, closing, updateVars, spent, disturbed>>

\* ... and returns.
CloseReturns(n) ==
    /\ closing[n] \in {"draining", "forcing"} /\ buffer[n] = <<>>
    /\ closing' = [closing EXCEPT ![n] = "returned"]
    /\ UNCHANGED <<redis, credits, replica, call, buffer, worker, applied, lost, updateVars, spent, disturbed>>

\* What node n has admitted and not replayed.
InCalls(n) == SumFunctionOnSet([g \in Calls |-> call[g].cost],
                               {g \in Calls : call[g].node = n /\ At(g) \in {"buffer", "sending"}})
InWorkers(n) == SumFunctionOnSet(worker[n], {w \in Workers : worker[n][w] # Idle})
Pending(n) == InCalls(n) + InWorkers(n) + SumFunction(buffer[n])
AllPending == SumFunction([n \in Nodes |-> Pending(n)])

\* The process ends, after Close or without it.
Exit(n) ==
    /\ closing[n] # "exited"
    /\ closing' = [closing EXCEPT ![n] = "exited"]
    /\ lost' = lost + Pending(n)
    /\ buffer' = [buffer EXCEPT ![n] = <<>>]
    /\ worker' = [worker EXCEPT ![n] = [w \in Workers |-> Idle]]
    /\ call' = [g \in Calls |->
                  IF call[g].node = n THEN [Request EXCEPT !.pc = "crashed"] ELSE call[g]]
    /\ UNCHANGED <<redis, credits, replica, applied, updateVars, spent, disturbed>>

----------------------------------------------------------------------------
\* The row and the counter

\* keys.updateCredits: set, increment or decrement in one transaction. A key that is
\* unlimited can only be set, but that is decided on the replica.
UpdateCredits(n) ==
    /\ update = "none" /\ updates < MaxUpdates /\ closing[n] # "exited"
    /\ \/ credits' \in Settings
       \/ replica # Unlimited /\ \E v \in Costs : credits' \in {Increased(credits, v), Charged(credits, v)}
    /\ update' = n /\ updates' = updates + 1
    /\ disturbed' = TRUE
    /\ UNCHANGED <<redis, replica, call, limiterVars, spent>>

\* Invalidate deletes the counter in the region of the node that served the update. An
\* error is only logged.
Invalidate ==
    /\ update # "none"
    /\ \/ redis' = [redis EXCEPT ![RegionOf[update]] = NoKey]
       \/ UNCHANGED redis
    /\ update' = "none"
    /\ UNCHANGED <<credits, replica, call, limiterVars, updates, spent, disturbed>>

\* The counter's time to live ends.
Expire(r) ==
    /\ redis[r] # NoKey
    /\ redis' = [redis EXCEPT ![r] = NoKey]
    /\ disturbed' = TRUE
    /\ UNCHANGED <<credits, replica, call, limiterVars, updateVars, spent>>

\* The read replica catches up.
Replicate ==
    /\ replica # credits
    /\ replica' = credits
    /\ UNCHANGED <<redis, credits, call, limiterVars, updateVars, spent, disturbed>>

----------------------------------------------------------------------------
Limit(g) ==
    \/ DecrementAdmits(g) \/ DecrementDenies(g) \/ DecrementMisses(g) \/ RedisFails(g)
    \/ FindCredits(g) \/ InitAdmits(g) \/ InitDenies(g) \/ InitLoses(g)
    \/ FindForFallback(g) \/ ChargeRow(g) \/ EnterBuffer(g) \/ SendChange(g)

Replay(n, w) == TakeChange(n, w) \/ SyncWithDB(n, w) \/ SyncFails(n, w)

Shutdown(n) == Close(n) \/ CloseBuffer(n) \/ CloseTimesOut(n) \/ DrainOne(n) \/ CloseReturns(n) \/ Exit(n)

Next ==
    \/ \E g \in Calls : Limit(g) \/ \E n \in Nodes : Begin(g, n)
    \/ \E n \in Nodes : Shutdown(n) \/ UpdateCredits(n) \/ \E w \in Workers : Replay(n, w)
    \/ \E r \in Regions : Expire(r)
    \/ Invalidate \/ Replicate

Spec == Init /\ [][Next]_vars

----------------------------------------------------------------------------
\* Properties

CallStates == {"idle", "decrement", "find", "init", "again", "fallback", "charge", "buffer",
               "sending", "allowed", "denied", "failed", "crashed"}

\* Every variable keeps its type: in particular neither the counter nor the row is ever
\* negative (-1 stands for no counter and for NULL), and the buffer keeps its capacity.
TypeOK ==
    /\ redis \in [Regions -> Nat \cup {NoKey}]
    /\ credits \in Nat \cup {Unlimited} /\ replica \in Nat \cup {Unlimited}
    /\ call \in [Calls -> [pc : CallStates, node : Nodes \cup {"none"}, cost : Nat, got : Nat]]
    /\ buffer \in [Nodes -> Seq(Nat)] /\ \A n \in Nodes : Len(buffer[n]) <= Capacity
    /\ worker \in [Nodes -> [Workers -> Nat \cup {Idle}]]
    /\ closing \in [Nodes -> {"open", "locking", "draining", "forcing", "returned", "exited"}]
    /\ update \in Nodes \cup {"none"} /\ updates \in 0..MaxUpdates
    /\ spent \in [Regions -> Nat] /\ applied \in Nat /\ lost \in Nat
    /\ disturbed \in BOOLEAN

\* A region never admits more than the key has, however many requests race to initialise
\* and to decrement the counter, and whatever the replay does, as long as the counter is
\* not dropped or bypassed and the row not updated meanwhile.
NoOverspend == ~disturbed => \A r \in Regions : spent[r] <= Initial

\* "Do NOT drop credits": every credit that was admitted on a counter is replayed once, is
\* still on its way, or was lost where the code says so (a failed replay, Close, a crash).
ChargeConservation == SumFunction(spent) = applied + lost + AllPending

\* With one region the counter and the row agree on what is left, up to the changes that
\* are on their way, at every step of initialisation, replay and shutdown.
CounterMatchesRow ==
    ~disturbed /\ Cardinality(Regions) = 1 =>
        \A r \in Regions :
            redis[r] # NoKey => redis[r] = credits - lost - AllPending

\* Close is never stuck: the request that holds the buffer's lock while the buffer is full,
\* the workers that make room for it, and Close, which waits for both, do not wait for each
\* other in a circle, whatever the shutdown finds under way. One of them can always go on
\* without a new request, the timeout or a crash.
CloseNeverStuck ==
    \A n \in Nodes : closing[n] \in {"locking", "draining", "forcing"} =>
        \/ ENABLED (CloseBuffer(n) \/ DrainOne(n) \/ CloseReturns(n))
        \/ \E w \in Workers : ENABLED Replay(n, w)
        \/ \E g \in Calls : call[g].node = n /\ ENABLED SendChange(g)

\* The requests that hold the buffer's lock, and what Close still has to wait for: a change
\* is sent, then taken, then replayed.
Senders(n) == {g \in Calls : call[g].node = n /\ At(g) = "sending"}
Replaying(n) == {w \in Workers : worker[n][w] # Idle}
CloseWork(n) == 3 * Cardinality(Senders(n)) + 2 * Len(buffer[n]) + Cardinality(Replaying(n))

\* What Close waits for only shrinks: once it has been called, no request, worker or other
\* shutdown adds to the senders, the buffer and the changes that are being replayed, although
\* new requests keep arriving. With CloseNeverStuck: Close takes a bounded number of steps.
CloseEnds ==
    [][\A n \in Nodes : closing[n] \in {"locking", "draining", "forcing"} =>
          UNCHANGED <<Senders(n), buffer[n], Replaying(n)>> \/ CloseWork(n)' < CloseWork(n)]_vars

\* What a request looks like from outside, while its steps are under way and after.
Asks == {"decrement", "find", "init", "again", "fallback", "charge"}
Outcome == [pc \in CallStates \ Asks |->
               CASE pc = "idle" -> "new"
                 [] pc \in {"buffer", "sending"} -> "admitted"
                 [] pc = "crashed" -> "failed"
                 [] OTHER -> pc]
Seen(g) == IF At(g) \in Asks
           THEN [state |-> "asking", region |-> RegionAt(g), cost |-> call[g].cost]
           ELSE [state |-> Outcome[At(g)]]

\* Limit, whose decision takes up to six commands of Redis and MySQL, is atomic: until the
\* counter is disturbed every request is admitted or denied as if it were alone on an
\* account of its region, however initialisations, decrements, the replay and crashes
\* interleave. With one region the account starts with the credits of the key.
Account == INSTANCE CreditAccount WITH
    Openings <- IF Cardinality(Regions) = 1 THEN {Initial} ELSE 0..Initial,
    left <- redis, request <- [g \in Calls |-> Seen(g)]
ImplementsAccount == Account!Spec

\* "Set to null ... to make the key unlimited (removes usage restrictions entirely)": only
\* another update ends that.
UnlimitedStays == [][credits = Unlimited => credits' = Unlimited \/ updates' > updates]_vars
=============================================================================
