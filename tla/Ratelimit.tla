------------------------------ MODULE Ratelimit ------------------------------
(***************************************************************************)
(* The request path of internal/services/ratelimit: the counterEntry of    *)
(* every window cell on every node, the goroutines that run Ratelimit and  *)
(* RatelimitMany over it, the region's origin counter (Redis) and the      *)
(* replay workers that carry admissions to it.                             *)
(*                                                                         *)
(* val and speculative are read and written in steps of their own, so all  *)
(* interleavings of the lock-free code are here. Writes to other atomics   *)
(* that follow one of these share its step: nothing reads them together.   *)
(* The module looks at one instant of the sliding window: a cell stands    *)
(* for the current window of one identifier, and the weighted share of its *)
(* previous window is a number Ratelimit adds to the count (Carry).        *)
(* Window rotation, the length of the freshness deadlines and eviction are *)
(* left out; cross-region sharing is in RatelimitGlobal.                   *)
(*                                                                         *)
(* A definition marked "Seeded fault" is not part of the specification: it *)
(* is a plausible bug of the definition after it, kept to show that the    *)
(* properties notice it (see PROJECT.json, mutants).                       *)
(***************************************************************************)
EXTENDS Integers, Sequences, FiniteSets, SequencesExt

CONSTANTS
    Regions,        \* regions, each with its own Redis
    Nodes,          \* replicas of the API
    RegionOf,       \* [Nodes -> Regions]
    Cells,          \* window cells: (workspace, namespace, identifier, duration, sequence)
    Calls,          \* goroutines, each of which serves one call
    Singles,        \* requests a Ratelimit call may carry
    Batches,        \* sequences of requests a RatelimitMany call may carry
    Carry,          \* weighted counts the previous window may contribute
    MaxCASRetries,  \* maxCASRetries
    BufferCap,      \* capacity of replayBuffer
    Workers,        \* replay goroutines of a node
    MaxRestarts     \* bound on pod restarts in a behaviour

Requests == [cell : Cells, cost : Nat, limit : Nat \ {0}]
AllRequests == Singles \cup UNION {Range(reqs) : reqs \in Batches}

ASSUME TopologyAssumption == RegionOf \in [Nodes -> Regions]
ASSUME RequestAssumption == /\ Singles \subseteq Requests
                            /\ Batches \subseteq Seq(Requests) \ {<<>>}
                            /\ Carry \subseteq Nat
\* The fleet is finite, a behaviour is looked at up to some moment, by when finitely
\* many calls have begun, and a limit is an int64.
ASSUME FiniteAssumption == /\ IsFiniteSet(Regions) /\ IsFiniteSet(Nodes) /\ IsFiniteSet(Calls)
                           /\ IsFiniteSet({req.limit : req \in AllRequests})
ASSUME BoundAssumption == /\ MaxCASRetries \in Nat \ {0}
                          /\ BufferCap \in Nat
                          /\ MaxRestarts \in Nat

VARIABLES
    val,            \* [Nodes -> [Cells -> Int]]  counterEntry.val
    speculative,    \* counterEntry.speculative
    hydration,      \* "cold", "fetching" (inside once.Do) or "warm"
    staleMu,        \* counterEntry.staleMu is held
    globalCount,    \* counterEntry.globalCount
    pushThreshold,  \* counterEntry.globalPushThreshold
    strict,         \* the strict deadline of the cell's tuple is ahead of the clock
    origin,         \* [Regions -> [Cells -> Nat]]  the Redis counter
    call,           \* [Calls -> the goroutine's program counter and locals]
    buffer,         \* [Nodes -> Seq(Requests)]  replayBuffer
    ack,            \* [Nodes -> [Workers -> NoAck or the INCRBY answer to merge]]
    restarts,       \* pod restarts so far
    \* History variables: read by properties only.
    committed,      \* cost this incarnation of the node admitted, per cell
    inflight,       \* cost in val of batches that are not yet decided
    seenOrigin,     \* highest origin count merged into val
    admitted,       \* [Regions -> [Cells -> Nat]]  cost the region admitted
    lost            \* admitted cost that will never reach the origin

entryVars == <<val, speculative, hydration, staleMu, pushThreshold, strict>>
replayVars == <<origin, buffer, ack, lost>>
ghostVars == <<committed, inflight, seenOrigin, admitted>>
vars == <<entryVars, globalCount, replayVars, call, restarts, ghostVars>>

Failed == -1                              \* fetchFromOrigin returned ok = false
NoAck  == [cell |-> "none", count |-> 0]  \* the worker has no answer to merge

Atomics(v) == [n \in Nodes |-> [c \in Cells |-> v]]

IdleCall == [pc |-> "idle", node |-> "none", kind |-> "none", reqs |-> <<>>,
             i |-> 0, got |-> 0, counts |-> <<>>, globals |-> <<>>,
             failed |-> {}, tries |-> 0]

Init ==
    /\ val = Atomics(0) /\ speculative = Atomics(0)
    /\ hydration = Atomics("cold") /\ staleMu = Atomics(FALSE)
    /\ globalCount = Atomics(0) /\ pushThreshold = Atomics(0)
    /\ strict = Atomics(FALSE)
    /\ origin = [r \in Regions |-> [c \in Cells |-> 0]]
    /\ call = [g \in Calls |-> IdleCall]
    /\ buffer = [n \in Nodes |-> <<>>]
    /\ ack = [n \in Nodes |-> [w \in Workers |-> NoAck]]
    /\ restarts = 0
    /\ committed = Atomics(0) /\ inflight = Atomics(0) /\ seenOrigin = Atomics(0)
    /\ admitted = [r \in Regions |-> [c \in Cells |-> 0]]
    /\ lost = [r \in Regions |-> [c \in Cells |-> 0]]

----------------------------------------------------------------------------
\* Helpers

\* Seeded fault: the fetched count is added instead of being a lower bound.
AtomicAddInstead(cur, v) == IF v <= 0 THEN cur ELSE cur + v

\* atomicMax: the CAS loop only retries when another writer got in between, so
\* its effect is one indivisible maximum. Giving up after maxCASRetries leaves the
\* value alone, like a fetch that failed or an answer that was lost.
AtomicMax(cur, v) == IF v <= cur THEN cur ELSE v

At(g) == call[g].pc
NodeOf(g) == call[g].node
Req(g) == call[g].reqs[call[g].i]
CellOf(g) == Req(g).cell
IsLast(g) == call[g].i = Len(call[g].reqs)

\* fetchFromOrigin: the counter's value, or no answer (breaker open, timeout, error).
FetchResults(n, c) == {origin[RegionOf[n]][c], Failed}

\* observeGlobalPushLimit: 20% of the limit, at least 1; the lowest one stays.
Threshold(limit) == (limit + 4) \div 5
ObserveGlobalPushLimit(cur, limit) ==
    IF cur # 0 /\ cur <= Threshold(limit) THEN cur ELSE Threshold(limit)

\* Seeded fault: the buffer is not bounded.
EnqueueUnbounded(n, req) ==
    /\ buffer' = [buffer EXCEPT ![n] = Append(@, req)]
    /\ UNCHANGED lost

\* buffer.Buffer with Drop: a full buffer discards the request.
Enqueue(n, req) ==
    IF Len(buffer[n]) < BufferCap
    THEN /\ buffer' = [buffer EXCEPT ![n] = Append(@, req)]
         /\ UNCHANGED lost
    ELSE /\ lost' = [lost EXCEPT ![RegionOf[n]][req.cell] = @ + req.cost]
         /\ UNCHANGED buffer

\* What slidingWindowCount adds to the current window's own count.
SlidingWindowCount(curCount, curGlobal, carry) == curCount + curGlobal + carry

----------------------------------------------------------------------------
\* prepareCheck

\* A goroutine enters Ratelimit or RatelimitMany with a valid request. Invalid
\* ones return before they touch any state.
Begin(g, n) ==
    /\ At(g) = "idle"
    /\ \/ \E req \in Singles :
             call' = [call EXCEPT ![g] = [IdleCall EXCEPT !.pc = "ensure", !.node = n,
                                           !.kind = "one", !.reqs = <<req>>, !.i = 1]]
       \/ \E reqs \in Batches :
             call' = [call EXCEPT ![g] = [IdleCall EXCEPT !.pc = "ensure", !.node = n,
                                           !.kind = "many", !.reqs = reqs, !.i = 1]]
    /\ UNCHANGED <<entryVars, globalCount, replayVars, restarts, ghostVars>>

\* EnsureFreshFromOrigin on a cold entry: the first caller enters once.Do and
\* reads the origin; later callers are blocked until it leaves (no action of
\* theirs is enabled while the entry is "fetching").
FetchCold(g) ==
    LET n == NodeOf(g) c == CellOf(g) IN
    /\ At(g) = "ensure" /\ hydration[n][c] = "cold"
    /\ hydration' = [hydration EXCEPT ![n][c] = "fetching"]
    /\ \E got \in FetchResults(n, c) :
          call' = [call EXCEPT ![g].pc = "coldMerge", ![g].got = got]
    /\ UNCHANGED <<val, speculative, staleMu, pushThreshold, strict, globalCount,
                   replayVars, restarts, ghostVars>>

\* Seeded fault: staleMu is taken without waiting for its holder.
FetchStaleUnlocked(g) ==
    LET n == NodeOf(g) c == CellOf(g) IN
    /\ At(g) = "ensure" /\ hydration[n][c] = "warm"
    /\ staleMu' = [staleMu EXCEPT ![n][c] = TRUE]
    /\ \E got \in FetchResults(n, c) :
          call' = [call EXCEPT ![g].pc = "staleMerge", ![g].got = got]
    /\ UNCHANGED <<val, speculative, hydration, pushThreshold, strict, globalCount,
                   replayVars, restarts, ghostVars>>

\* A warm entry whose deadline has passed: the caller takes staleMu and reads the
\* origin. Whether a deadline has passed is left open here.
FetchStale(g) ==
    LET n == NodeOf(g) c == CellOf(g) IN
    /\ At(g) = "ensure" /\ hydration[n][c] = "warm" /\ ~staleMu[n][c]
    /\ staleMu' = [staleMu EXCEPT ![n][c] = TRUE]
    /\ \E got \in FetchResults(n, c) :
          call' = [call EXCEPT ![g].pc = "staleMerge", ![g].got = got]
    /\ UNCHANGED <<val, speculative, hydration, pushThreshold, strict, globalCount,
                   replayVars, restarts, ghostVars>>

\* A warm entry that is fresh, at the first check or at the one under staleMu.
StillFresh(g) ==
    /\ At(g) = "ensure" /\ hydration[NodeOf(g)][CellOf(g)] = "warm"
    /\ call' = [call EXCEPT ![g].pc = "strict"]
    /\ UNCHANGED <<entryVars, globalCount, replayVars, restarts, ghostVars>>

\* atomicMax(&val, count) of a fetched count; a failed fetch leaves val alone.
MergeOrigin(n, c, got) ==
    /\ val' = [val EXCEPT ![n][c] = AtomicMax(@, got)]
    /\ seenOrigin' = [seenOrigin EXCEPT ![n][c] = AtomicMax(@, got)]

\* The fetch of a cold or stale entry returns: merge, then leave once.Do or staleMu.
MergeFetched(g) ==
    LET n == NodeOf(g) c == CellOf(g) IN
    /\ \/ /\ At(g) = "coldMerge"
          /\ hydration' = [hydration EXCEPT ![n][c] = "warm"]
          /\ UNCHANGED staleMu
       \/ /\ At(g) = "staleMerge"
          /\ staleMu' = [staleMu EXCEPT ![n][c] = FALSE]
          /\ UNCHANGED hydration
    /\ MergeOrigin(n, c, call[g].got)
    /\ call' = [call EXCEPT ![g].pc = "strict"]
    /\ UNCHANGED <<speculative, pushThreshold, strict, globalCount, replayVars,
                   restarts, committed, inflight, admitted>>

\* The end of prepareCheck for request i: snapshot globalCount; then the next
\* request of the batch, or the decision.
Prepared(g) ==
    [call[g] EXCEPT
        !.globals = Append(@, globalCount[NodeOf(g)][CellOf(g)]),
        !.i  = IF IsLast(g) THEN 1 ELSE @ + 1,
        !.pc = IF ~IsLast(g) THEN "ensure"
               ELSE IF call[g].kind = "one" THEN "load" ELSE "addSpec"]

\* No strict deadline is in force.
SkipStrict(g) ==
    /\ At(g) = "strict" /\ ~strict[NodeOf(g)][CellOf(g)]
    /\ call' = [call EXCEPT ![g] = Prepared(g)]
    /\ UNCHANGED <<entryVars, globalCount, replayVars, restarts, ghostVars>>

\* Strict mode: read the origin again, whatever the entry's freshness.
FetchStrict(g) ==
    LET n == NodeOf(g) c == CellOf(g) IN
    /\ At(g) = "strict" /\ strict[n][c]
    /\ \E got \in FetchResults(n, c) :
          call' = [call EXCEPT ![g].pc = "strictMerge", ![g].got = got]
    /\ UNCHANGED <<entryVars, globalCount, replayVars, restarts, ghostVars>>

MergeStrict(g) ==
    /\ At(g) = "strictMerge"
    /\ MergeOrigin(NodeOf(g), CellOf(g), call[g].got)
    /\ call' = [call EXCEPT ![g] = Prepared(g)]
    /\ UNCHANGED <<speculative, hydration, staleMu, pushThreshold, strict, globalCount,
                   replayVars, restarts, committed, inflight, admitted>>

----------------------------------------------------------------------------
\* Ratelimit: the CAS loop

\* Seeded fault: the comparison leaves out the cost of the request itself.
LoadIgnoringCost(g) ==
    LET n == NodeOf(g) c == CellOf(g) IN
    /\ At(g) = "load"
    /\ \E carry \in Carry :
         IF SlidingWindowCount(val[n][c], call[g].globals[1], carry) > Req(g).limit
         THEN /\ strict' = [strict EXCEPT ![n][c] = TRUE]
              /\ call' = [call EXCEPT ![g].pc = "denied"]
         ELSE /\ call' = [call EXCEPT ![g].pc = "cas", ![g].got = val[n][c]]
              /\ UNCHANGED strict
    /\ UNCHANGED <<val, speculative, hydration, staleMu, pushThreshold, globalCount,
                   replayVars, restarts, ghostVars>>

\* val.Load and the comparison with the limit. A denial sets strict mode.
Load(g) ==
    LET n == NodeOf(g) c == CellOf(g) IN
    /\ At(g) = "load"
    /\ \E carry \in Carry :
         IF SlidingWindowCount(val[n][c], call[g].globals[1], carry) + Req(g).cost > Req(g).limit
         THEN /\ strict' = [strict EXCEPT ![n][c] = TRUE]
              /\ call' = [call EXCEPT ![g].pc = "denied"]
         ELSE /\ call' = [call EXCEPT ![g].pc = "cas", ![g].got = val[n][c]]
              /\ UNCHANGED strict
    /\ UNCHANGED <<val, speculative, hydration, staleMu, pushThreshold, globalCount,
                   replayVars, restarts, ghostVars>>

\* The cost is in val for good: the admission.
Commit(n, req) ==
    /\ committed' = [committed EXCEPT ![n][req.cell] = @ + req.cost]
    /\ admitted' = [admitted EXCEPT ![RegionOf[n]][req.cell] = @ + req.cost]

\* Seeded fault: a plain Store instead of the CompareAndSwap.
StoreWins(g) ==
    LET n == NodeOf(g) c == CellOf(g) IN
    /\ At(g) = "cas"
    /\ val' = [val EXCEPT ![n][c] = call[g].got + Req(g).cost]
    /\ Enqueue(n, Req(g))
    /\ pushThreshold' = [pushThreshold EXCEPT ![n][c] = ObserveGlobalPushLimit(@, Req(g).limit)]
    /\ Commit(n, Req(g))
    /\ call' = [call EXCEPT ![g].pc = "allowed"]
    /\ UNCHANGED <<speculative, hydration, staleMu, strict, globalCount, origin, ack,
                   restarts, inflight, seenOrigin>>

\* CompareAndSwap succeeds: count, buffer the replay, observe the limit.
CasWins(g) ==
    LET n == NodeOf(g) c == CellOf(g) IN
    /\ At(g) = "cas" /\ val[n][c] = call[g].got
    /\ val' = [val EXCEPT ![n][c] = call[g].got + Req(g).cost]
    /\ Enqueue(n, Req(g))
    /\ pushThreshold' = [pushThreshold EXCEPT ![n][c] = ObserveGlobalPushLimit(@, Req(g).limit)]
    /\ Commit(n, Req(g))
    /\ call' = [call EXCEPT ![g].pc = "allowed"]
    /\ UNCHANGED <<speculative, hydration, staleMu, strict, globalCount, origin, ack,
                   restarts, inflight, seenOrigin>>

\* CompareAndSwap fails: retry, or deny once the retries are used up.
CasLoses(g) ==
    /\ At(g) = "cas" /\ val[NodeOf(g)][CellOf(g)] # call[g].got
    /\ call' = [call EXCEPT ![g].tries = @ + 1,
                            ![g].pc = IF call[g].tries + 1 < MaxCASRetries THEN "load" ELSE "denied"]
    /\ UNCHANGED <<entryVars, globalCount, replayVars, restarts, ghostVars>>

----------------------------------------------------------------------------
\* RatelimitMany: optimistic increments, then commit or roll back

\* The call's next program counter after request i: the next round of the same
\* loop, or what follows the loop.
NextRound(g, loop, after) ==
    [call[g] EXCEPT !.i = IF IsLast(g) THEN 1 ELSE @ + 1,
                    !.pc = IF IsLast(g) THEN after ELSE loop]

\* Seeded fault: the batch path adds to val without announcing it in speculative.
SkipSpeculative(g) ==
    /\ At(g) = "addSpec"
    /\ call' = [call EXCEPT ![g].pc = "addVal"]
    /\ UNCHANGED <<entryVars, globalCount, replayVars, restarts, ghostVars>>

AddSpeculative(g) ==
    LET n == NodeOf(g) c == CellOf(g) IN
    /\ At(g) = "addSpec"
    /\ speculative' = [speculative EXCEPT ![n][c] = @ + Req(g).cost]
    /\ call' = [call EXCEPT ![g].pc = "addVal"]
    /\ UNCHANGED <<val, hydration, staleMu, pushThreshold, strict, globalCount,
                   replayVars, restarts, ghostVars>>

AddVal(g) ==
    LET n == NodeOf(g) c == CellOf(g) IN
    /\ At(g) = "addVal"
    /\ val' = [val EXCEPT ![n][c] = @ + Req(g).cost]
    /\ inflight' = [inflight EXCEPT ![n][c] = @ + Req(g).cost]
    /\ call' = [call EXCEPT ![g] = [NextRound(g, "addSpec", "evaluate")
                                      EXCEPT !.counts = Append(@, val'[n][c])]]
    /\ UNCHANGED <<speculative, hydration, staleMu, pushThreshold, strict, globalCount,
                   replayVars, restarts, committed, seenOrigin, admitted>>

\* Compare every post-increment value with its limit.
Evaluate(g) ==
    /\ At(g) = "evaluate"
    /\ \E carry \in [1..Len(call[g].reqs) -> Carry] :
         LET failed == {j \in 1..Len(call[g].reqs) :
                          SlidingWindowCount(call[g].counts[j], call[g].globals[j], carry[j])
                              > call[g].reqs[j].limit}
         IN call' = [call EXCEPT ![g].failed = failed,
                                 ![g].pc = IF failed = {} THEN "commit" ELSE "undoVal"]
    /\ UNCHANGED <<entryVars, globalCount, replayVars, restarts, ghostVars>>

\* Roll back request i: val first, speculative second, strict mode if i failed.
UndoVal(g) ==
    LET n == NodeOf(g) c == CellOf(g) IN
    /\ At(g) = "undoVal"
    /\ val' = [val EXCEPT ![n][c] = @ - Req(g).cost]
    /\ inflight' = [inflight EXCEPT ![n][c] = @ - Req(g).cost]
    /\ call' = [call EXCEPT ![g].pc = "undoSpec"]
    /\ UNCHANGED <<speculative, hydration, staleMu, pushThreshold, strict, globalCount,
                   replayVars, restarts, committed, seenOrigin, admitted>>

UndoSpeculative(g) ==
    LET n == NodeOf(g) c == CellOf(g) IN
    /\ At(g) = "undoSpec"
    /\ speculative' = [speculative EXCEPT ![n][c] = @ - Req(g).cost]
    /\ strict' = [strict EXCEPT ![n][c] = @ \/ call[g].i \in call[g].failed]
    /\ call' = [call EXCEPT ![g] = NextRound(g, "undoVal", "denied")]
    /\ UNCHANGED <<val, hydration, staleMu, pushThreshold, globalCount, replayVars,
                   restarts, ghostVars>>

\* Keep request i: observe its limit and take it out of speculative.
CommitRequest(g) ==
    LET n == NodeOf(g) c == CellOf(g) IN
    /\ At(g) = "commit"
    /\ pushThreshold' = [pushThreshold EXCEPT ![n][c] = ObserveGlobalPushLimit(@, Req(g).limit)]
    /\ speculative' = [speculative EXCEPT ![n][c] = @ - Req(g).cost]
    /\ inflight' = [inflight EXCEPT ![n][c] = @ - Req(g).cost]
    /\ Commit(n, Req(g))
    /\ call' = [call EXCEPT ![g] = NextRound(g, "commit", "buffer")]
    /\ UNCHANGED <<val, hydration, staleMu, strict, globalCount, replayVars, restarts,
                   seenOrigin>>

\* Hand request i to the replay workers.
BufferRequest(g) ==
    /\ At(g) = "buffer"
    /\ Enqueue(NodeOf(g), Req(g))
    /\ call' = [call EXCEPT ![g] = NextRound(g, "buffer", "allowed")]
    /\ UNCHANGED <<entryVars, globalCount, origin, ack, restarts, ghostVars>>

----------------------------------------------------------------------------
\* syncWithOrigin

Incremented(n, req) == origin[RegionOf[n]][req.cell] + req.cost

\* A worker takes the next request and INCRBYs the origin.
ReplayIncrement(n, w) ==
    LET req == Head(buffer[n]) IN
    /\ buffer[n] # <<>> /\ ack[n][w] = NoAck
    /\ buffer' = [buffer EXCEPT ![n] = Tail(@)]
    /\ origin' = [origin EXCEPT ![RegionOf[n]][req.cell] = Incremented(n, req)]
    /\ ack' = [ack EXCEPT ![n][w] = [cell |-> req.cell, count |-> Incremented(n, req)]]
    /\ UNCHANGED <<entryVars, globalCount, lost, call, restarts, ghostVars>>

\* Seeded fault: an INCRBY without an answer is replayed again.
ReplayRetries(n, w) ==
    LET req == Head(buffer[n]) IN
    /\ buffer[n] # <<>> /\ ack[n][w] = NoAck
    /\ origin' = [origin EXCEPT ![RegionOf[n]][req.cell] = Incremented(n, req)]
    /\ UNCHANGED <<entryVars, globalCount, buffer, ack, lost, call, restarts, ghostVars>>

\* The INCRBY was applied but its answer did not come back in time.
ReplayTimesOut(n, w) ==
    LET req == Head(buffer[n]) IN
    /\ buffer[n] # <<>> /\ ack[n][w] = NoAck
    /\ buffer' = [buffer EXCEPT ![n] = Tail(@)]
    /\ origin' = [origin EXCEPT ![RegionOf[n]][req.cell] = Incremented(n, req)]
    /\ UNCHANGED <<entryVars, globalCount, ack, lost, call, restarts, ghostVars>>

\* The breaker is open or the origin refused: the request is gone, it is not retried.
ReplayFails(n, w) ==
    LET req == Head(buffer[n]) IN
    /\ buffer[n] # <<>> /\ ack[n][w] = NoAck
    /\ buffer' = [buffer EXCEPT ![n] = Tail(@)]
    /\ lost' = [lost EXCEPT ![RegionOf[n]][req.cell] = @ + req.cost]
    /\ UNCHANGED <<entryVars, globalCount, origin, ack, call, restarts, ghostVars>>

\* CAS-merge the new origin count into the local entry.
ReplayMerge(n, w) ==
    /\ ack[n][w] # NoAck
    /\ MergeOrigin(n, ack[n][w].cell, ack[n][w].count)
    /\ ack' = [ack EXCEPT ![n][w] = NoAck]
    /\ UNCHANGED <<speculative, hydration, staleMu, pushThreshold, strict, globalCount,
                   origin, buffer, lost, call, restarts, committed, inflight, admitted>>

----------------------------------------------------------------------------
\* Restart

\* The cost for cell c of each request of a sequence, and of the whole sequence.
Costs(reqs, c) == [j \in 1..Len(reqs) |-> IF reqs[j].cell = c THEN reqs[j].cost ELSE 0]
CostIn(reqs, c) == SumFunction(Costs(reqs, c))

\* The requests call g has committed and not yet handed to the buffer: their
\* positions in the batch, and their cost for cell c.
Unbuffered(g) ==
    {j \in 1..Len(call[g].reqs) : \/ At(g) = "commit" /\ j < call[g].i
                                  \/ At(g) = "buffer" /\ j >= call[g].i}
UnbufferedCost(g, c) == SumFunctionOnSet(Costs(call[g].reqs, c), Unbuffered(g))

CallsOn(n) == {g \in Calls : NodeOf(g) = n}

\* The pod is replaced: the sync.Maps, the buffer and the goroutines are gone, and
\* the new process starts with empty, cold entries (New).
Restart(n) ==
    /\ restarts < MaxRestarts
    /\ restarts' = restarts + 1
    /\ val' = [val EXCEPT ![n] = [c \in Cells |-> 0]]
    /\ speculative' = [speculative EXCEPT ![n] = [c \in Cells |-> 0]]
    /\ hydration' = [hydration EXCEPT ![n] = [c \in Cells |-> "cold"]]
    /\ staleMu' = [staleMu EXCEPT ![n] = [c \in Cells |-> FALSE]]
    /\ globalCount' = [globalCount EXCEPT ![n] = [c \in Cells |-> 0]]
    /\ pushThreshold' = [pushThreshold EXCEPT ![n] = [c \in Cells |-> 0]]
    /\ strict' = [strict EXCEPT ![n] = [c \in Cells |-> FALSE]]
    /\ call' = [g \in Calls |-> IF g \in CallsOn(n) /\ At(g) \notin {"allowed", "denied"}
                                 THEN [call[g] EXCEPT !.pc = "crashed"] ELSE call[g]]
    /\ buffer' = [buffer EXCEPT ![n] = <<>>]
    /\ ack' = [ack EXCEPT ![n] = [w \in Workers |-> NoAck]]
    /\ lost' = [lost EXCEPT ![RegionOf[n]] =
                   [c \in Cells |-> @[c] + CostIn(buffer[n], c)
                        + SumFunctionOnSet([g \in Calls |-> UnbufferedCost(g, c)], CallsOn(n))]]
    /\ committed' = [committed EXCEPT ![n] = [c \in Cells |-> 0]]
    /\ inflight' = [inflight EXCEPT ![n] = [c \in Cells |-> 0]]
    /\ seenOrigin' = [seenOrigin EXCEPT ![n] = [c \in Cells |-> 0]]
    /\ UNCHANGED <<origin, admitted>>

----------------------------------------------------------------------------
CallStep(g) ==
    \/ FetchCold(g) \/ FetchStale(g) \/ StillFresh(g) \/ MergeFetched(g)
    \/ SkipStrict(g) \/ FetchStrict(g) \/ MergeStrict(g)
    \/ Load(g) \/ CasWins(g) \/ CasLoses(g)
    \/ AddSpeculative(g) \/ AddVal(g) \/ Evaluate(g) \/ UndoVal(g)
    \/ UndoSpeculative(g) \/ CommitRequest(g) \/ BufferRequest(g)

ReplayStep(n, w) ==
    \/ ReplayIncrement(n, w) \/ ReplayTimesOut(n, w)
    \/ ReplayFails(n, w) \/ ReplayMerge(n, w)

RequestNext ==
    \/ \E g \in Calls : CallStep(g) \/ \E n \in Nodes : Begin(g, n)
    \/ \E n \in Nodes, w \in Workers : ReplayStep(n, w)

Next == RequestNext \/ \E n \in Nodes : Restart(n)

Spec == Init /\ [][Next]_vars

----------------------------------------------------------------------------
\* Properties

Requested(c) == {req \in AllRequests : req.cell = c}
LimitFor(c) == Max({req.limit : req \in Requested(c)} \cup {0})

CallStates == {"idle", "ensure", "coldMerge", "staleMerge", "strict", "strictMerge",
               "load", "cas", "addSpec", "addVal", "evaluate", "undoVal", "undoSpec",
               "commit", "buffer", "allowed", "denied", "crashed"}

CallRecords ==
    [pc : CallStates, node : Nodes \cup {"none"}, kind : {"none", "one", "many"},
     reqs : Seq(Requests), i : Nat, got : Int, counts : Seq(Int), globals : Seq(Int),
     failed : SUBSET Nat, tries : Nat]

PerCell(S) == [Nodes -> [Cells -> S]]

\* Every variable keeps its type, and the replay buffer its capacity.
TypeOK ==
    /\ val \in PerCell(Int) /\ speculative \in PerCell(Int)
    /\ hydration \in PerCell({"cold", "fetching", "warm"})
    /\ staleMu \in PerCell(BOOLEAN) /\ strict \in PerCell(BOOLEAN)
    /\ globalCount \in PerCell(Int) /\ pushThreshold \in PerCell(Int)
    /\ origin \in [Regions -> [Cells -> Int]]
    /\ call \in [Calls -> CallRecords]
    /\ buffer \in [Nodes -> Seq(Requests)]
    /\ \A n \in Nodes : Len(buffer[n]) <= BufferCap
    /\ ack \in [Nodes -> [Workers -> [cell : Cells, count : Int] \cup {NoAck}]]
    /\ restarts \in 0..MaxRestarts
    /\ committed \in PerCell(Int) /\ inflight \in PerCell(Int) /\ seenOrigin \in PerCell(Int)
    /\ admitted \in [Regions -> [Cells -> Int]]

\* A node never forgets an admission: whatever origin merges, CAS retries and
\* batch rollbacks interleave on a cell, val without the undecided batches is at
\* least the cost this process has admitted ("accepted local work is monotonic").
OwnCommitsCounted ==
    \A n \in Nodes, c \in Cells : val[n][c] - inflight[n][c] >= committed[n][c]

\* No count comes from nowhere: without the undecided batches, val never exceeds
\* what the whole region has admitted, so no interleaving double-counts a request.
NoPhantomCount ==
    \A n \in Nodes, c \in Cells :
        val[n][c] - inflight[n][c] <= admitted[RegionOf[n]][c]

\* speculative covers every undecided increment of val at every step of the
\* add / undo / commit sequences, which is what lets the push loop subtract it.
SpeculativeCoversInflight ==
    \A n \in Nodes, c \in Cells : inflight[n][c] <= speculative[n][c]

\* One process never admits more than the limit into one window, however the
\* CAS loop and the optimistic batches race.
NodeAdmissionBound ==
    \A n \in Nodes, c \in Cells : committed[n][c] <= LimitFor(c)

\* Every admitted unit is in Redis, on its way there or known to be lost: the
\* replay path neither duplicates an admission nor drops one silently.
OriginConservation ==
    \A r \in Regions, c \in Cells :
        LET here == {n \in Nodes : RegionOf[n] = r}
        IN admitted[r][c] =
              origin[r][c] + lost[r][c]
              + SumFunctionOnSet([n \in Nodes |-> CostIn(buffer[n], c)], here)
              + SumFunctionOnSet([g \in Calls |-> UnbufferedCost(g, c)],
                                 {g \in Calls : NodeOf(g) \in here})

\* Nobody waits on a gate that has no owner: while an entry is inside once.Do or
\* its staleMu is held, exactly one live goroutine of that node is there to finish
\* the fetch, also after failed fetches, and the entry is never handed out cold.
GateHasOwner ==
    \A n \in Nodes, c \in Cells :
        LET at(pc) == {g \in CallsOn(n) : At(g) = pc /\ CellOf(g) = c}
            deciding == {g \in CallsOn(n) :
                            /\ At(g) \in {"strict", "strictMerge", "load", "cas", "addSpec", "addVal"}
                            /\ CellOf(g) = c}
        IN /\ Cardinality(at("coldMerge")) = (IF hydration[n][c] = "fetching" THEN 1 ELSE 0)
           /\ Cardinality(at("staleMerge")) = (IF staleMu[n][c] THEN 1 ELSE 0)
           /\ deciding # {} => hydration[n][c] = "warm"

\* "May cause false denials but never false allows": a request is only admitted
\* if the origin count this node has already merged leaves room for it.
NoFalseAllow ==
    [][\A g \in Calls :
         At(g) = "cas" /\ At(g)' = "allowed" =>
            seenOrigin[NodeOf(g)][CellOf(g)] + Req(g).cost <= Req(g).limit]_vars
=============================================================================
