--------------------------- MODULE RatelimitGlobal ---------------------------
(***************************************************************************)
(* Cross-region counts (internal/services/ratelimit/global.go) composed    *)
(* with the request path: every node has a push goroutine that publishes   *)
(* its counts in ratelimit_global_counters and a pull goroutine that       *)
(* imports the rows of its own region into val and the sum of the other    *)
(* regions' rows into globalCount.                                         *)
(***************************************************************************)
EXTENDS Ratelimit

CONSTANTS ChunkSize     \* globalPushChunkSize

ASSUME ChunkAssumption == ChunkSize \in Nat \ {0}

VARIABLES
    table,          \* [Regions -> [Cells -> Nat]]  ratelimit_global_counters, 0: no row
    lastPushed,     \* [Nodes -> [Cells -> Nat]]  counterEntry.lastPushed
    pusher,         \* [Nodes -> the push goroutine's pc and locals]
    pulled          \* [Nodes -> [Cells -> NoRow or the imported row still to apply]]

globalVars == <<table, lastPushed, pusher, pulled>>
allVars == <<vars, globalVars>>

IdlePusher == [pc |-> "idle", todo |-> {}, cell |-> "none", loaded |-> 0, pending |-> {}]
NoRow == [regional |-> 0, imported |-> 0]

GlobalInit ==
    /\ Init
    /\ table = [r \in Regions |-> [c \in Cells |-> 0]]
    /\ lastPushed = Atomics(0)
    /\ pusher = [n \in Nodes |-> IdlePusher]
    /\ pulled = Atomics(NoRow)

----------------------------------------------------------------------------
\* runGlobalPushOnce

\* Seeded fault: the threshold itself does not trigger a push.
ShouldPushAboveThreshold(n, c, count) ==
    /\ count > lastPushed[n][c]
    /\ \/ globalCount[n][c] > 0
       \/ pushThreshold[n][c] > 0 /\ count > pushThreshold[n][c]

\* shouldPushGlobalCount
ShouldPushGlobalCount(n, c, count) ==
    /\ count > lastPushed[n][c]
    /\ \/ globalCount[n][c] > 0
       \/ pushThreshold[n][c] > 0 /\ count >= pushThreshold[n][c]

PushTick(n) ==
    /\ pusher[n].pc = "idle"
    /\ pusher' = [pusher EXCEPT ![n] = [IdlePusher EXCEPT !.pc = "scan", !.todo = Cells]]
    /\ UNCHANGED <<vars, table, lastPushed, pulled>>

\* entry.val.Load(), the first of the two loads of an entry
PushLoadVal(n, c) ==
    /\ pusher[n].pc = "scan" /\ c \in pusher[n].todo
    /\ pusher' = [pusher EXCEPT ![n].pc = "subtract", ![n].cell = c, ![n].loaded = val[n][c]]
    /\ UNCHANGED <<vars, table, lastPushed, pulled>>

\* entry.speculative.Load(), and whether the difference is worth a row
PushLoadSpeculative(n) ==
    LET p == pusher[n]
        c == p.cell
        count == p.loaded - speculative[n][c]
    IN /\ p.pc = "subtract"
       /\ pusher' = [pusher EXCEPT ![n] =
             [p EXCEPT !.pc = "scan", !.todo = @ \ {c}, !.cell = "none", !.loaded = 0,
                       !.pending = IF count > 0 /\ ShouldPushGlobalCount(n, c, count)
                                   THEN @ \cup {[cell |-> c, count |-> count]} ELSE @]]
       /\ UNCHANGED <<vars, table, lastPushed, pulled>>

\* The chunk BulkUpsertGlobalCounters gets next.
Chunks(pending) ==
    {chunk \in SUBSET pending :
        Cardinality(chunk) = Min({ChunkSize, Cardinality(pending)})}

\* Seeded fault: ON DUPLICATE KEY UPDATE count = count + VALUES(count)
UpsertedSum(row, c, chunk) ==
    row + Max({0} \cup {p.count : p \in {q \in chunk : q.cell = c}})

\* ON DUPLICATE KEY UPDATE count = GREATEST(count, VALUES(count))
Upserted(row, c, chunk) ==
    Max({row} \cup {p.count : p \in {q \in chunk : q.cell = c}})

\* One chunk is written and its rows' lastPushed advance.
PushChunk(n) ==
    LET p == pusher[n] IN
    /\ p.pc = "scan" /\ p.todo = {} /\ p.pending # {}
    /\ \E chunk \in Chunks(p.pending) :
         /\ table' = [table EXCEPT ![RegionOf[n]] = [c \in Cells |-> Upserted(@[c], c, chunk)]]
         /\ lastPushed' = [lastPushed EXCEPT ![n] = [c \in Cells |-> Upserted(@[c], c, chunk)]]
         /\ pusher' = [pusher EXCEPT ![n].pending = @ \ chunk]
    /\ UNCHANGED <<vars, pulled>>

\* Seeded fault: lastPushed advances although the write failed.
PushFailsSilently(n) ==
    LET p == pusher[n] IN
    /\ p.pc = "scan" /\ p.todo = {} /\ p.pending # {}
    /\ lastPushed' = [lastPushed EXCEPT ![n] = [c \in Cells |-> Upserted(@[c], c, p.pending)]]
    /\ pusher' = [pusher EXCEPT ![n] = IdlePusher]
    /\ UNCHANGED <<vars, table, pulled>>

\* The write fails, or succeeds without the answer arriving in time: the tick
\* ends and lastPushed stays, so the rows are sent again.
PushFails(n) ==
    LET p == pusher[n] IN
    /\ p.pc = "scan" /\ p.todo = {} /\ p.pending # {}
    /\ \E chunk \in Chunks(p.pending) \cup {{}} :
         table' = [table EXCEPT ![RegionOf[n]] = [c \in Cells |-> Upserted(@[c], c, chunk)]]
    /\ pusher' = [pusher EXCEPT ![n] = IdlePusher]
    /\ UNCHANGED <<vars, lastPushed, pulled>>

PushDone(n) ==
    /\ pusher[n].pc = "scan" /\ pusher[n].todo = {} /\ pusher[n].pending = {}
    /\ pusher' = [pusher EXCEPT ![n] = IdlePusher]
    /\ UNCHANGED <<vars, table, lastPushed, pulled>>

----------------------------------------------------------------------------
\* runGlobalPullOnce

Others(n) == Regions \ {RegionOf[n]}

\* SUM(count) over the rows of some regions
Total(counts, regions, c) == SumFunctionOnSet([r \in regions |-> counts[r][c]], regions)

\* Seeded fault: the sum over the other regions includes the own one.
PullQueryAllRegions(n) ==
    /\ pulled[n] = [c \in Cells |-> NoRow]
    /\ pulled' = [pulled EXCEPT ![n] = [c \in Cells |->
                    [regional |-> table[RegionOf[n]][c],
                     imported |-> Total(table, Regions, c)]]]
    /\ pulled' # pulled
    /\ UNCHANGED <<vars, table, lastPushed, pusher>>

\* GlobalCountersImported: own row and the sum of the others, from one snapshot.
\* A tick whose query fails changes nothing. A snapshot applied late stands for a
\* read replica that lags.
PullQuery(n) ==
    /\ pulled[n] = [c \in Cells |-> NoRow]
    /\ pulled' = [pulled EXCEPT ![n] = [c \in Cells |->
                    [regional |-> table[RegionOf[n]][c],
                     imported |-> Total(table, Others(n), c)]]]
    /\ pulled' # pulled
    /\ UNCHANGED <<vars, table, lastPushed, pusher>>

\* Seeded fault: the other regions' counts are merged into val as well.
PullApplyTotal(n, c) ==
    LET row == pulled[n][c] IN
    /\ row.regional > 0
    /\ val' = [val EXCEPT ![n][c] = AtomicMax(@, row.regional + row.imported)]
    /\ pulled' = [pulled EXCEPT ![n][c].regional = 0]
    /\ UNCHANGED <<speculative, hydration, staleMu, pushThreshold, strict, globalCount,
                   replayVars, call, restarts, ghostVars, table, lastPushed, pusher>>

\* Merge the own region's count of one row into val. A zero changes nothing.
PullApplyRegional(n, c) ==
    LET row == pulled[n][c] IN
    /\ row.regional > 0
    /\ val' = [val EXCEPT ![n][c] = AtomicMax(@, row.regional)]
    /\ pulled' = [pulled EXCEPT ![n][c].regional = 0]
    /\ UNCHANGED <<speculative, hydration, staleMu, pushThreshold, strict, globalCount,
                   replayVars, call, restarts, ghostVars, table, lastPushed, pusher>>

\* Then the other regions' sum into globalCount, which val must not contain.
PullApplyImported(n, c) ==
    LET row == pulled[n][c] IN
    /\ row.regional = 0 /\ row.imported > 0
    /\ globalCount' = [globalCount EXCEPT ![n][c] = AtomicMax(@, row.imported)]
    /\ pulled' = [pulled EXCEPT ![n][c] = NoRow]
    /\ UNCHANGED <<entryVars, replayVars, call, restarts, ghostVars, table, lastPushed, pusher>>

\* A pod restart also ends its push and pull goroutines.
GlobalRestart(n) ==
    /\ Restart(n)
    /\ lastPushed' = [lastPushed EXCEPT ![n] = [c \in Cells |-> 0]]
    /\ pusher' = [pusher EXCEPT ![n] = IdlePusher]
    /\ pulled' = [pulled EXCEPT ![n] = [c \in Cells |-> NoRow]]
    /\ UNCHANGED table

----------------------------------------------------------------------------
PushStep(n) ==
    \/ PushTick(n) \/ PushLoadSpeculative(n) \/ PushDone(n) \/ PushFails(n)
    \/ PushChunk(n) \/ \E c \in Cells : PushLoadVal(n, c)

GlobalNext ==
    \/ RequestNext /\ UNCHANGED globalVars
    \/ \E n \in Nodes : GlobalRestart(n) \/ PushStep(n) \/ PullQuery(n)
                        \/ \E c \in Cells : PullApplyRegional(n, c) \/ PullApplyImported(n, c)

\* repeat.Every keeps ticking; a database that is asked again and again
\* eventually answers (strong fairness of the successful write).
GlobalFairness ==
    \A n \in Nodes :
        /\ WF_allVars(PushStep(n))
        /\ SF_allVars(PushChunk(n))
        /\ WF_allVars(PullQuery(n))
        /\ \A c \in Cells : WF_allVars(PullApplyRegional(n, c) \/ PullApplyImported(n, c))

GlobalSpec == GlobalInit /\ [][GlobalNext]_allVars /\ GlobalFairness

----------------------------------------------------------------------------
\* Properties

\* "An all-or-nothing batch that later rolls back cannot leak its temporary count
\* into ratelimit_global_counters": a region's row never exceeds what the region
\* has admitted.
RowsBackedByAdmissions ==
    \A r \in Regions, c \in Cells : table[r][c] <= admitted[r][c]

\* No node believes it has published more than its region's row holds, even when
\* writes of several nodes and answers that were lost overlap: a count that is not
\* in the table is always still eligible for the next tick.
LastPushedIsPublished ==
    \A n \in Nodes, c \in Cells : lastPushed[n][c] <= table[RegionOf[n]][c]

\* Imported counts never feed back: what a node counts for other regions is
\* bounded by what those regions admitted, so a region is never told its own
\* traffic as somebody else's.
NoFeedback ==
    \A n \in Nodes, c \in Cells :
        globalCount[n][c] <= Total(admitted, Others(n), c)

\* A count that has crossed its push threshold reaches every node of every other
\* region, once pods stop restarting.
CountsPropagate ==
    \A n \in Nodes, c \in Cells :
      \A k \in 1..LimitFor(c) :
        (restarts = MaxRestarts /\ committed[n][c] = k /\ pushThreshold[n][c] \in 1..k)
          ~> (\A m \in Nodes : RegionOf[m] # RegionOf[n] => globalCount[m][c] >= k)
=============================================================================
