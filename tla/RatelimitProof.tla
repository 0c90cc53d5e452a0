--------------------------- MODULE RatelimitProof ----------------------------
(***************************************************************************)
(* Type correctness of Ratelimit, and that no interleaving makes a node    *)
(* forget an admission, for every number of nodes, cells, goroutines,      *)
(* workers and every set of requests.                                      *)
(***************************************************************************)
EXTENDS Ratelimit, TLAPS

Active == CallStates \ {"idle", "allowed", "denied", "crashed"}

\* A goroutine that is running knows its node and stands at one of its requests.
CallsWellFormed ==
    \A g \in Calls : At(g) \in Active =>
        NodeOf(g) \in Nodes /\ call[g].i \in 1..Len(call[g].reqs)

\* The inductive invariant.
IndInv == TypeOK /\ CallsWellFormed /\ OwnCommitsCounted

\* The request a running goroutine stands at is a request.
LEMMA ReqType ==
    ASSUME TypeOK, CallsWellFormed, NEW g \in Calls, At(g) \in Active
    PROVE  /\ Req(g) \in Requests
           /\ CellOf(g) \in Cells /\ Req(g).cost \in Nat /\ Req(g).limit \in Nat
           /\ NodeOf(g) \in Nodes
           /\ call[g] \in CallRecords
           /\ call[g].i \in 1..Len(call[g].reqs)
<1>1. call[g] \in CallRecords
  BY DEF TypeOK
<1>2. NodeOf(g) \in Nodes /\ call[g].i \in 1..Len(call[g].reqs)
  BY DEF CallsWellFormed
<1>3. call[g].reqs \in Seq(Requests)
  BY <1>1 DEF CallRecords
<1>4. Req(g) \in Requests
  BY <1>2, <1>3 DEF Req
<1>5. CellOf(g) \in Cells /\ Req(g).cost \in Nat /\ Req(g).limit \in Nat
  BY <1>4 DEF CellOf, Requests
<1>. QED
  BY <1>1, <1>2, <1>4, <1>5

THEOREM InitInv == Init => IndInv
  BY BoundAssumption DEF Init, IndInv, TypeOK, CallsWellFormed, OwnCommitsCounted, Atomics, PerCell,
         IdleCall, CallRecords, CallStates, Active, At, NodeOf, NoAck, Requests

\* The two ways a running goroutine advances keep its record well formed.
LEMMA NextRoundType ==
    ASSUME TypeOK, CallsWellFormed, NEW g \in Calls, At(g) \in Active,
           NEW loop \in Active, NEW after \in CallStates
    PROVE  /\ NextRound(g, loop, after) \in CallRecords
           /\ NextRound(g, loop, after).node = NodeOf(g)
           /\ NextRound(g, loop, after).i \in 1..Len(NextRound(g, loop, after).reqs)
           /\ NextRound(g, loop, after).reqs = call[g].reqs
<1>. DEFINE i == IF IsLast(g) THEN 1 ELSE call[g].i + 1
            pc == IF IsLast(g) THEN after ELSE loop
<1>1. call[g] \in CallRecords /\ call[g].i \in 1..Len(call[g].reqs)
  BY ReqType
<1>2. Len(call[g].reqs) \in Nat
  BY <1>1 DEF CallRecords
<1>3. i \in 1..Len(call[g].reqs) /\ i \in Nat
  BY <1>1, <1>2 DEF IsLast
<1>4. pc \in CallStates
  BY DEF Active
<1>. HIDE DEF i, pc
<1>5. NextRound(g, loop, after) = [call[g] EXCEPT !.i = i, !.pc = pc]
  BY <1>1 DEF NextRound, i, pc, CallRecords
<1>. QED
  BY <1>1, <1>3, <1>4, <1>5 DEF CallRecords, NodeOf

\* A call that is prepared keeps its node and its requests.
LEMMA PreparedType ==
    ASSUME TypeOK, CallsWellFormed, NEW g \in Calls, At(g) \in Active
    PROVE  /\ Prepared(g) \in CallRecords
           /\ Prepared(g).node = NodeOf(g)
           /\ Prepared(g).i \in 1..Len(Prepared(g).reqs)
<1>. DEFINE i == IF IsLast(g) THEN 1 ELSE call[g].i + 1
            pc == IF ~IsLast(g) THEN "ensure"
                  ELSE IF call[g].kind = "one" THEN "load" ELSE "addSpec"
            globals == Append(call[g].globals, globalCount[NodeOf(g)][CellOf(g)])
<1>1. call[g] \in CallRecords /\ call[g].i \in 1..Len(call[g].reqs)
  BY ReqType
<1>2. Len(call[g].reqs) \in Nat
  BY <1>1 DEF CallRecords
<1>3. i \in 1..Len(call[g].reqs) /\ i \in Nat
  BY <1>1, <1>2 DEF IsLast
<1>4. pc \in CallStates
  BY DEF CallStates
<1>5. globals \in Seq(Int)
  BY <1>1, ReqType DEF CallRecords, TypeOK, PerCell
<1>. HIDE DEF i, pc, globals
<1>6. Prepared(g) = [call[g] EXCEPT !.globals = globals, !.i = i, !.pc = pc]
  BY <1>1 DEF Prepared, i, pc, globals, CallRecords
<1>. QED
  BY <1>1, <1>3, <1>4, <1>5, <1>6 DEF CallRecords, NodeOf

\* Replacing one goroutine's record by a well-formed one keeps all of them so.
LEMMA CallUpdate ==
    ASSUME TypeOK, CallsWellFormed, NEW g \in Calls, NEW rec \in CallRecords,
           rec.pc \in Active => rec.node \in Nodes /\ rec.i \in 1..Len(rec.reqs),
           call' = [call EXCEPT ![g] = rec]
    PROVE  call' \in [Calls -> CallRecords] /\ CallsWellFormed'
<1>1. call \in [Calls -> CallRecords]
  BY DEF TypeOK
<1>2. call' \in [Calls -> CallRecords]
  BY <1>1
<1>3. ASSUME NEW h \in Calls, call'[h].pc \in Active
      PROVE  call'[h].node \in Nodes /\ call'[h].i \in 1..Len(call'[h].reqs)
  <2>1. CASE h = g
    BY <1>1, <1>3, <2>1
  <2>2. CASE h # g
    BY <1>1, <1>3, <2>2 DEF CallsWellFormed, At, NodeOf
  <2>. QED BY <2>1, <2>2
<1>. QED
  BY <1>2, <1>3 DEF CallsWellFormed, At, NodeOf

\* A running goroutine that moves to another program counter, with another value
\* in got, stays well formed.
LEMMA MoveType ==
    ASSUME TypeOK, CallsWellFormed, NEW g \in Calls, At(g) \in Active,
           NEW pc \in CallStates, NEW got \in Int,
           call' = [call EXCEPT ![g].pc = pc, ![g].got = got]
    PROVE  call' \in [Calls -> CallRecords] /\ CallsWellFormed'
<1>. DEFINE rec == [call[g] EXCEPT !.pc = pc, !.got = got]
<1>1. call[g] \in CallRecords /\ NodeOf(g) \in Nodes /\ call[g].i \in 1..Len(call[g].reqs)
  BY ReqType
<1>2. rec \in CallRecords /\ rec.node \in Nodes /\ rec.i \in 1..Len(rec.reqs)
  BY <1>1 DEF CallRecords, NodeOf
<1>3. call' = [call EXCEPT ![g] = rec]
  BY <1>1 DEF TypeOK, CallRecords
<1>. HIDE DEF rec
<1>. QED
  BY <1>2, <1>3, CallUpdate

\* What the merge of a fetched count does to val.
LEMMA MergeInv ==
    ASSUME TypeOK, OwnCommitsCounted, NEW n \in Nodes, NEW c \in Cells, NEW got \in Int,
           MergeOrigin(n, c, got)
    PROVE  /\ val' \in PerCell(Int) /\ seenOrigin' \in PerCell(Int)
           /\ \A m \in Nodes, d \in Cells : val'[m][d] >= val[m][d]
<1>1. val \in PerCell(Int) /\ seenOrigin \in PerCell(Int)
  BY DEF TypeOK
<1>2. \A x \in Int : AtomicMax(x, got) \in Int /\ AtomicMax(x, got) >= x
  BY DEF AtomicMax
<1>3. /\ val' = [val EXCEPT ![n][c] = AtomicMax(val[n][c], got)]
      /\ seenOrigin' = [seenOrigin EXCEPT ![n][c] = AtomicMax(seenOrigin[n][c], got)]
  BY DEF MergeOrigin
<1>. QED
  BY <1>1, <1>2, <1>3 DEF PerCell

\* ---- the steps of prepareCheck ----

\* A call begins with a node and its first request.
LEMMA BeginInv ==
    ASSUME IndInv, NEW g \in Calls, NEW n \in Nodes, Begin(g, n)
    PROVE  IndInv'
<1>1. PICK kind \in {"one", "many"}, reqs \in Seq(Requests) \ {<<>>} :
         call' = [call EXCEPT ![g] = [IdleCall EXCEPT !.pc = "ensure", !.node = n,
                                       !.kind = kind, !.reqs = reqs, !.i = 1]]
  <2>1. ASSUME NEW req \in Singles PROVE <<req>> \in Seq(Requests) \ {<<>>}
    BY RequestAssumption
  <2>2. Batches \subseteq Seq(Requests) \ {<<>>}
    BY RequestAssumption
  <2>. QED BY <2>1, <2>2 DEF Begin
<1>. DEFINE rec == [IdleCall EXCEPT !.pc = "ensure", !.node = n, !.kind = kind,
                                    !.reqs = reqs, !.i = 1]
<1>2. rec \in CallRecords
  <2>1. IdleCall \in CallRecords
    BY DEF IdleCall, CallRecords, CallStates
  <2>. QED BY <2>1 DEF CallRecords, CallStates
<1>3. rec.node = n /\ rec.i \in 1..Len(rec.reqs)
  BY DEF IdleCall
<1>4. call' = [call EXCEPT ![g] = rec]
  BY <1>1
<1>. HIDE DEF rec
<1>5. call' \in [Calls -> CallRecords] /\ CallsWellFormed'
  BY <1>2, <1>3, <1>4, CallUpdate DEF IndInv
<1>. QED
  BY <1>5 DEF IndInv, TypeOK, Begin, entryVars, replayVars, ghostVars, OwnCommitsCounted

\* A fetch yields an integer.
LEMMA FetchedType ==
    ASSUME TypeOK, NEW n \in Nodes, NEW c \in Cells
    PROVE  FetchResults(n, c) \subseteq Int
  BY TopologyAssumption DEF TypeOK, FetchResults, Failed

\* A cold fetch changes no count.
LEMMA FetchColdInv ==
    ASSUME IndInv, NEW g \in Calls, FetchCold(g)
    PROVE  IndInv'
<1>1. At(g) \in Active
  BY DEF FetchCold, Active, CallStates
<1>2. NodeOf(g) \in Nodes /\ CellOf(g) \in Cells
  BY <1>1, ReqType DEF IndInv
<1>3. call' \in [Calls -> CallRecords] /\ CallsWellFormed'
  BY <1>1, <1>2, MoveType, FetchedType DEF IndInv, FetchCold, CallStates
<1>. QED
  BY <1>2, <1>3 DEF IndInv, TypeOK, PerCell, FetchCold, replayVars, ghostVars, OwnCommitsCounted

\* A fetch of a stale entry changes no count.
LEMMA FetchStaleInv ==
    ASSUME IndInv, NEW g \in Calls, FetchStale(g)
    PROVE  IndInv'
<1>1. At(g) \in Active
  BY DEF FetchStale, Active, CallStates
<1>2. NodeOf(g) \in Nodes /\ CellOf(g) \in Cells
  BY <1>1, ReqType DEF IndInv
<1>3. call' \in [Calls -> CallRecords] /\ CallsWellFormed'
  BY <1>1, <1>2, MoveType, FetchedType DEF IndInv, FetchStale, CallStates
<1>. QED
  BY <1>2, <1>3 DEF IndInv, TypeOK, PerCell, FetchStale, replayVars, ghostVars, OwnCommitsCounted

\* A step that only moves a goroutine.
LEMMA JumpType ==
    ASSUME TypeOK, CallsWellFormed, NEW g \in Calls, At(g) \in Active,
           NEW pc \in CallStates, call' = [call EXCEPT ![g].pc = pc]
    PROVE  call' \in [Calls -> CallRecords] /\ CallsWellFormed'
<1>1. call[g] \in CallRecords
  BY ReqType
<1>. DEFINE rec == [call[g] EXCEPT !.pc = pc]
<1>2. rec \in CallRecords /\ rec.node \in Nodes /\ rec.i \in 1..Len(rec.reqs)
  BY <1>1, ReqType DEF CallRecords, NodeOf
<1>3. call' = [call EXCEPT ![g] = rec]
  OBVIOUS
<1>. HIDE DEF rec
<1>. QED
  BY <1>2, <1>3, CallUpdate

\* An entry that is fresh enough is used as it is.
LEMMA StillFreshInv ==
    ASSUME IndInv, NEW g \in Calls, StillFresh(g)
    PROVE  IndInv'
<1>1. At(g) \in Active
  BY DEF StillFresh, Active, CallStates
<1>2. call' \in [Calls -> CallRecords] /\ CallsWellFormed'
  BY <1>1, JumpType DEF IndInv, StillFresh, CallStates
<1>. QED
  BY <1>2 DEF IndInv, TypeOK, StillFresh, entryVars, replayVars, ghostVars, OwnCommitsCounted

\* A merge never lowers val.
LEMMA MergeFetchedInv ==
    ASSUME IndInv, NEW g \in Calls, MergeFetched(g)
    PROVE  IndInv'
<1>1. At(g) \in Active
  BY DEF MergeFetched, Active, CallStates
<1>2. NodeOf(g) \in Nodes /\ CellOf(g) \in Cells /\ call[g].got \in Int
  BY <1>1, ReqType DEF IndInv, CallRecords
<1>3. call' \in [Calls -> CallRecords] /\ CallsWellFormed'
  BY <1>1, JumpType DEF IndInv, MergeFetched, CallStates
<1>4. /\ val' \in PerCell(Int) /\ seenOrigin' \in PerCell(Int)
      /\ \A m \in Nodes, d \in Cells : val'[m][d] >= val[m][d]
  BY <1>2, MergeInv DEF IndInv, MergeFetched
<1>5. hydration' \in PerCell({"cold", "fetching", "warm"}) /\ staleMu' \in PerCell(BOOLEAN)
  <2>1. hydration \in PerCell({"cold", "fetching", "warm"}) /\ staleMu \in PerCell(BOOLEAN)
    BY DEF IndInv, TypeOK
  <2>. DEFINE n == NodeOf(g)
              c == CellOf(g)
  <2>2. \/ hydration' = [hydration EXCEPT ![n][c] = "warm"] /\ staleMu' = staleMu
        \/ staleMu' = [staleMu EXCEPT ![n][c] = FALSE] /\ hydration' = hydration
    BY DEF MergeFetched
  <2>. HIDE DEF n, c
  <2>3. [hydration EXCEPT ![n][c] = "warm"] \in PerCell({"cold", "fetching", "warm"})
    BY <2>1 DEF PerCell
  <2>4. [staleMu EXCEPT ![n][c] = FALSE] \in PerCell(BOOLEAN)
    BY <2>1 DEF PerCell
  <2>. QED BY <2>1, <2>2, <2>3, <2>4
<1>6. TypeOK'
  BY <1>3, <1>4, <1>5 DEF IndInv, TypeOK, MergeFetched, replayVars
<1>7. OwnCommitsCounted'
  BY <1>4 DEF IndInv, TypeOK, PerCell, OwnCommitsCounted, MergeFetched
<1>. QED
  BY <1>3, <1>6, <1>7 DEF IndInv

\* A call without a strict deadline changes no count.
LEMMA SkipStrictInv ==
    ASSUME IndInv, NEW g \in Calls, SkipStrict(g)
    PROVE  IndInv'
<1>1. At(g) \in Active
  BY DEF SkipStrict, Active, CallStates
<1>2. call' \in [Calls -> CallRecords] /\ CallsWellFormed'
  <2>1. /\ Prepared(g) \in CallRecords /\ Prepared(g).node \in Nodes
        /\ Prepared(g).i \in 1..Len(Prepared(g).reqs)
    BY <1>1, PreparedType, ReqType DEF IndInv
  <2>2. call' = [call EXCEPT ![g] = Prepared(g)]
    BY DEF SkipStrict
  <2>. QED BY <2>1, <2>2, CallUpdate DEF IndInv
<1>. QED
  BY <1>2 DEF IndInv, TypeOK, SkipStrict, entryVars, replayVars, ghostVars, OwnCommitsCounted

\* A strict fetch changes no count.
LEMMA FetchStrictInv ==
    ASSUME IndInv, NEW g \in Calls, FetchStrict(g)
    PROVE  IndInv'
<1>1. At(g) \in Active
  BY DEF FetchStrict, Active, CallStates
<1>2. NodeOf(g) \in Nodes /\ CellOf(g) \in Cells
  BY <1>1, ReqType DEF IndInv
<1>3. call' \in [Calls -> CallRecords] /\ CallsWellFormed'
  BY <1>1, <1>2, MoveType, FetchedType DEF IndInv, FetchStrict, CallStates
<1>. QED
  BY <1>3 DEF IndInv, TypeOK, FetchStrict, entryVars, replayVars, ghostVars, OwnCommitsCounted

\* The merge of a strict fetch never lowers val.
LEMMA MergeStrictInv ==
    ASSUME IndInv, NEW g \in Calls, MergeStrict(g)
    PROVE  IndInv'
<1>1. At(g) \in Active
  BY DEF MergeStrict, Active, CallStates
<1>2. NodeOf(g) \in Nodes /\ CellOf(g) \in Cells /\ call[g].got \in Int
  BY <1>1, ReqType DEF IndInv, CallRecords
<1>3. call' \in [Calls -> CallRecords] /\ CallsWellFormed'
  <2>1. /\ Prepared(g) \in CallRecords /\ Prepared(g).node \in Nodes
        /\ Prepared(g).i \in 1..Len(Prepared(g).reqs)
    BY <1>1, <1>2, PreparedType DEF IndInv
  <2>2. call' = [call EXCEPT ![g] = Prepared(g)]
    BY DEF MergeStrict
  <2>. QED BY <2>1, <2>2, CallUpdate DEF IndInv
<1>4. /\ val' \in PerCell(Int) /\ seenOrigin' \in PerCell(Int)
      /\ \A m \in Nodes, d \in Cells : val'[m][d] >= val[m][d]
  BY <1>2, MergeInv DEF IndInv, MergeStrict
<1>5. TypeOK'
  BY <1>3, <1>4 DEF IndInv, TypeOK, MergeStrict, replayVars
<1>6. OwnCommitsCounted'
  BY <1>4 DEF IndInv, TypeOK, PerCell, OwnCommitsCounted, MergeStrict
<1>. QED
  BY <1>3, <1>5, <1>6 DEF IndInv

\* ---- the CAS loop ----

\* A load changes no count.
LEMMA LoadInv ==
    ASSUME IndInv, NEW g \in Calls, Load(g)
    PROVE  IndInv'
<1>1. At(g) \in Active
  BY DEF Load, Active, CallStates
<1>2. NodeOf(g) \in Nodes /\ CellOf(g) \in Cells /\ Req(g).cost \in Nat /\ Req(g) \in Requests
  BY <1>1, ReqType DEF IndInv
<1>3. call' \in [Calls -> CallRecords] /\ CallsWellFormed'
  <2>1. val[NodeOf(g)][CellOf(g)] \in Int
    BY <1>2 DEF IndInv, TypeOK, PerCell
  <2>2. \/ call' = [call EXCEPT ![g].pc = "denied"]
        \/ call' = [call EXCEPT ![g].pc = "cas", ![g].got = val[NodeOf(g)][CellOf(g)]]
    BY DEF Load
  <2>3. "denied" \in CallStates /\ "cas" \in CallStates
    BY DEF CallStates
  <2>4. CASE call' = [call EXCEPT ![g].pc = "denied"]
    BY <1>1, <2>3, <2>4, JumpType DEF IndInv
  <2>5. CASE call' = [call EXCEPT ![g].pc = "cas", ![g].got = val[NodeOf(g)][CellOf(g)]]
    BY <1>1, <2>1, <2>3, <2>5, MoveType DEF IndInv
  <2>. QED BY <2>2, <2>4, <2>5
<1>4. strict' \in PerCell(BOOLEAN)
  <2>. DEFINE n == NodeOf(g)
              c == CellOf(g)
  <2>1. strict \in PerCell(BOOLEAN)
    BY DEF IndInv, TypeOK
  <2>2. strict' = [strict EXCEPT ![n][c] = TRUE] \/ strict' = strict
    BY DEF Load
  <2>. HIDE DEF n, c
  <2>3. [strict EXCEPT ![n][c] = TRUE] \in PerCell(BOOLEAN)
    BY <2>1 DEF PerCell
  <2>. QED BY <2>1, <2>2, <2>3
<1>. QED
  BY <1>3, <1>4 DEF IndInv, TypeOK, Load, replayVars, ghostVars, OwnCommitsCounted

\* Handing a request to the buffer keeps its type and its capacity.
LEMMA EnqueueType ==
    ASSUME TypeOK, NEW n \in Nodes, NEW req \in Requests, Enqueue(n, req)
    PROVE  /\ buffer' \in [Nodes -> Seq(Requests)]
           /\ \A m \in Nodes : Len(buffer'[m]) <= BufferCap
<1>1. buffer \in [Nodes -> Seq(Requests)] /\ \A m \in Nodes : Len(buffer[m]) <= BufferCap
  BY DEF TypeOK
<1>2. CASE Len(buffer[n]) < BufferCap
  <2>1. buffer' = [buffer EXCEPT ![n] = Append(buffer[n], req)]
    BY <1>2 DEF Enqueue
  <2>2. Append(buffer[n], req) \in Seq(Requests) /\ Len(Append(buffer[n], req)) <= BufferCap
    BY <1>1, <1>2, BoundAssumption
  <2>. QED BY <1>1, <2>1, <2>2
<1>3. CASE ~(Len(buffer[n]) < BufferCap)
  BY <1>1, <1>3 DEF Enqueue
<1>. QED BY <1>2, <1>3

\* An observed limit leaves an integer threshold.
LEMMA ThresholdType ==
    ASSUME NEW cur \in Int, NEW limit \in Nat
    PROVE  ObserveGlobalPushLimit(cur, limit) \in Int
  BY DEF ObserveGlobalPushLimit, Threshold

\* An admission moves committed of its own cell only.
LEMMA CommitType ==
    ASSUME TypeOK, NEW n \in Nodes, NEW req \in Requests, Commit(n, req)
    PROVE  /\ committed' \in PerCell(Int) /\ admitted' \in [Regions -> [Cells -> Int]]
           /\ \A m \in Nodes, d \in Cells :
                 committed'[m][d] = (IF m = n /\ d = req.cell THEN committed[m][d] + req.cost
                                     ELSE committed[m][d])
<1>1. req.cell \in Cells /\ req.cost \in Int /\ RegionOf[n] \in Regions
  BY TopologyAssumption DEF Requests
<1>2. committed \in PerCell(Int) /\ admitted \in [Regions -> [Cells -> Int]]
  BY DEF TypeOK
<1>3. committed' = [committed EXCEPT ![n][req.cell] = committed[n][req.cell] + req.cost]
  BY DEF Commit
<1>4. admitted' = [admitted EXCEPT ![RegionOf[n]][req.cell] =
                     admitted[RegionOf[n]][req.cell] + req.cost]
  BY DEF Commit
<1>5. admitted' \in [Regions -> [Cells -> Int]]
  BY <1>1, <1>2, <1>4
<1>. DEFINE c == req.cell
            x == req.cost
<1>6. c \in Cells /\ x \in Int
      /\ committed' = [committed EXCEPT ![n][c] = committed[n][c] + x]
  BY <1>1, <1>3
<1>. HIDE DEF c, x
<1>7. /\ committed' \in PerCell(Int)
      /\ \A m \in Nodes, d \in Cells :
            committed'[m][d] = (IF m = n /\ d = c THEN committed[m][d] + x ELSE committed[m][d])
  BY <1>2, <1>6 DEF PerCell
<1>. QED
  BY <1>5, <1>7 DEF c, x

\* A CAS that wins adds the cost to val and to committed.
LEMMA CasWinsInv ==
    ASSUME IndInv, NEW g \in Calls, CasWins(g)
    PROVE  IndInv'
<1>1. At(g) \in Active
  BY DEF CasWins, Active, CallStates
<1>2. NodeOf(g) \in Nodes /\ CellOf(g) \in Cells /\ Req(g).cost \in Nat /\ Req(g) \in Requests
  BY <1>1, ReqType DEF IndInv
<1>. DEFINE n == NodeOf(g)
            c == CellOf(g)
            cost == Req(g).cost
<1>3. call' \in [Calls -> CallRecords] /\ CallsWellFormed'
  BY <1>1, JumpType DEF IndInv, CasWins, CallStates
<1>4. val' = [val EXCEPT ![n][c] = val[n][c] + cost]
  BY DEF CasWins
<1>5. val' \in PerCell(Int)
  BY <1>2, <1>4 DEF IndInv, TypeOK, PerCell
<1>6. pushThreshold' \in PerCell(Int)
  <2>1. pushThreshold \in PerCell(Int) /\ Req(g).limit \in Nat
    BY <1>1, ReqType DEF IndInv, TypeOK
  <2>2. ObserveGlobalPushLimit(pushThreshold[n][c], Req(g).limit) \in Int
    BY <1>2, <2>1, ThresholdType DEF PerCell
  <2>3. pushThreshold' = [pushThreshold EXCEPT ![n][c] =
                            ObserveGlobalPushLimit(pushThreshold[n][c], Req(g).limit)]
    BY DEF CasWins
  <2>. QED BY <2>1, <2>2, <2>3 DEF PerCell
<1>7. buffer' \in [Nodes -> Seq(Requests)] /\ \A m \in Nodes : Len(buffer'[m]) <= BufferCap
  BY <1>2, EnqueueType DEF IndInv, CasWins
<1>8. /\ committed' \in PerCell(Int) /\ admitted' \in [Regions -> [Cells -> Int]]
      /\ \A m \in Nodes, d \in Cells :
            committed'[m][d] = (IF m = n /\ d = c THEN committed[m][d] + cost ELSE committed[m][d])
  BY <1>2, CommitType DEF IndInv, CasWins, CellOf
<1>9. TypeOK'
  BY <1>3, <1>5, <1>6, <1>7, <1>8 DEF IndInv, TypeOK, CasWins
<1>10. OwnCommitsCounted'
  <2>1. val \in PerCell(Int) /\ inflight \in PerCell(Int) /\ committed \in PerCell(Int)
    BY DEF IndInv, TypeOK
  <2>2. inflight' = inflight
    BY DEF CasWins
  <2>3. cost \in Nat /\ n \in Nodes /\ c \in Cells
    BY <1>2
  <2>. HIDE DEF n, c, cost
  <2>. QED BY <1>4, <1>8, <2>1, <2>2, <2>3 DEF IndInv, PerCell, OwnCommitsCounted
<1>. QED
  BY <1>3, <1>9, <1>10 DEF IndInv

\* A CAS that loses changes no count.
LEMMA CasLosesInv ==
    ASSUME IndInv, NEW g \in Calls, CasLoses(g)
    PROVE  IndInv'
<1>1. At(g) \in Active
  BY DEF CasLoses, Active, CallStates
<1>2. NodeOf(g) \in Nodes /\ CellOf(g) \in Cells /\ Req(g).cost \in Nat /\ Req(g) \in Requests
  BY <1>1, ReqType DEF IndInv
<1>. DEFINE pc == IF call[g].tries + 1 < MaxCASRetries THEN "load" ELSE "denied"
            rec == [call[g] EXCEPT !.tries = call[g].tries + 1, !.pc = pc]
<1>3. call[g] \in CallRecords /\ call[g].i \in 1..Len(call[g].reqs)
  BY <1>1, ReqType DEF IndInv
<1>4. pc \in CallStates
  BY DEF CallStates
<1>5. call' = [call EXCEPT ![g] = rec]
  BY <1>3 DEF CasLoses, IndInv, TypeOK, CallRecords
<1>. HIDE DEF pc
<1>6. rec \in CallRecords /\ rec.node \in Nodes /\ rec.i \in 1..Len(rec.reqs)
  <2>1. call[g].tries + 1 \in Nat
    BY <1>3 DEF CallRecords
  <2>. QED BY <1>2, <1>3, <1>4, <2>1 DEF CallRecords, NodeOf
<1>. HIDE DEF rec
<1>7. call' \in [Calls -> CallRecords] /\ CallsWellFormed'
  BY <1>5, <1>6, CallUpdate DEF IndInv
<1>. QED
  BY <1>7 DEF IndInv, TypeOK, CasLoses, entryVars, replayVars, ghostVars, OwnCommitsCounted

\* ---- the batch ----

\* An announcement changes no count.
LEMMA AddSpeculativeInv ==
    ASSUME IndInv, NEW g \in Calls, AddSpeculative(g)
    PROVE  IndInv'
<1>1. At(g) \in Active
  BY DEF AddSpeculative, Active, CallStates
<1>2. NodeOf(g) \in Nodes /\ CellOf(g) \in Cells /\ Req(g).cost \in Nat /\ Req(g) \in Requests
  BY <1>1, ReqType DEF IndInv
<1>3. call' \in [Calls -> CallRecords] /\ CallsWellFormed'
  BY <1>1, JumpType DEF IndInv, AddSpeculative, CallStates
<1>4. speculative' \in PerCell(Int)
  BY <1>2 DEF IndInv, TypeOK, PerCell, AddSpeculative
<1>. QED
  BY <1>3, <1>4 DEF IndInv, TypeOK, AddSpeculative, replayVars, ghostVars, OwnCommitsCounted

\* An optimistic increment is in val and in inflight.
LEMMA AddValInv ==
    ASSUME IndInv, NEW g \in Calls, AddVal(g)
    PROVE  IndInv'
<1>1. At(g) \in Active
  BY DEF AddVal, Active, CallStates
<1>2. NodeOf(g) \in Nodes /\ CellOf(g) \in Cells /\ Req(g).cost \in Nat /\ Req(g) \in Requests
  BY <1>1, ReqType DEF IndInv
<1>3. call' \in [Calls -> CallRecords] /\ CallsWellFormed'
  <2>. DEFINE round == NextRound(g, "addSpec", "evaluate")
              rec == [round EXCEPT !.counts = Append(round.counts, val'[NodeOf(g)][CellOf(g)])]
  <2>1. round \in CallRecords /\ round.node \in Nodes /\ round.i \in 1..Len(round.reqs)
    BY <1>1, <1>2, NextRoundType DEF IndInv, Active, CallStates
  <2>2. val'[NodeOf(g)][CellOf(g)] \in Int
    BY <1>2 DEF IndInv, TypeOK, PerCell, AddVal
  <2>3. call' = [call EXCEPT ![g] = rec]
    BY DEF AddVal
  <2>. HIDE DEF round
  <2>4. Append(round.counts, val'[NodeOf(g)][CellOf(g)]) \in Seq(Int)
    BY <2>1, <2>2 DEF CallRecords
  <2>5. rec \in CallRecords /\ rec.node \in Nodes /\ rec.i \in 1..Len(rec.reqs)
    BY <2>1, <2>4 DEF CallRecords
  <2>. HIDE DEF rec
  <2>. QED BY <2>3, <2>5, CallUpdate DEF IndInv
<1>4. val' \in PerCell(Int) /\ inflight' \in PerCell(Int)
  BY SMTT(30), <1>2 DEF IndInv, TypeOK, PerCell, AddVal
<1>5. TypeOK'
  BY <1>3, <1>4 DEF IndInv, TypeOK, AddVal, replayVars
<1>6. OwnCommitsCounted'
  <2>. DEFINE n == NodeOf(g)
              c == CellOf(g)
              x == Req(g).cost
  <2>1. val \in PerCell(Int) /\ inflight \in PerCell(Int) /\ committed \in PerCell(Int)
    BY DEF IndInv, TypeOK
  <2>2. n \in Nodes /\ c \in Cells /\ x \in Int
    BY <1>2
  <2>3. /\ val' = [val EXCEPT ![n][c] = val[n][c] + x]
        /\ inflight' = [inflight EXCEPT ![n][c] = inflight[n][c] + x]
        /\ committed' = committed
    BY <1>2, <2>1 DEF AddVal, PerCell
  <2>. HIDE DEF n, c, x
  <2>. QED BY <2>1, <2>2, <2>3 DEF PerCell, IndInv, OwnCommitsCounted
<1>. QED
  BY <1>3, <1>5, <1>6 DEF IndInv

\* The decision on a batch changes no count.
LEMMA EvaluateInv ==
    ASSUME IndInv, NEW g \in Calls, Evaluate(g)
    PROVE  IndInv'
<1>1. At(g) \in Active
  BY DEF Evaluate, Active, CallStates
<1>2. NodeOf(g) \in Nodes /\ CellOf(g) \in Cells /\ Req(g).cost \in Nat /\ Req(g) \in Requests
  BY <1>1, ReqType DEF IndInv
<1>3. PICK failed \in SUBSET Nat, pc \in {"commit", "undoVal"} :
        call' = [call EXCEPT ![g].failed = failed, ![g].pc = pc]
  <2>1. PICK carry \in [1..Len(call[g].reqs) -> Carry] :
          LET failed == {j \in 1..Len(call[g].reqs) :
                           SlidingWindowCount(call[g].counts[j], call[g].globals[j], carry[j])
                               > call[g].reqs[j].limit}
          IN call' = [call EXCEPT ![g].failed = failed,
                                  ![g].pc = IF failed = {} THEN "commit" ELSE "undoVal"]
    BY DEF Evaluate
  <2>. DEFINE failed == {j \in 1..Len(call[g].reqs) :
                           SlidingWindowCount(call[g].counts[j], call[g].globals[j], carry[j])
                               > call[g].reqs[j].limit}
              pc == IF failed = {} THEN "commit" ELSE "undoVal"
  <2>2. failed \in SUBSET Nat /\ pc \in {"commit", "undoVal"}
    OBVIOUS
  <2>3. call' = [call EXCEPT ![g].failed = failed, ![g].pc = pc]
    BY <2>1
  <2>. HIDE DEF failed, pc
  <2>. QED BY <2>2, <2>3
<1>. DEFINE rec == [call[g] EXCEPT !.failed = failed, !.pc = pc]
<1>4. call[g] \in CallRecords /\ call[g].i \in 1..Len(call[g].reqs)
  BY <1>1, ReqType DEF IndInv
<1>5. call' = [call EXCEPT ![g] = rec]
  BY <1>3, <1>4 DEF IndInv, TypeOK, CallRecords
<1>6. rec \in CallRecords /\ rec.node \in Nodes /\ rec.i \in 1..Len(rec.reqs)
  BY <1>2, <1>4 DEF CallRecords, CallStates, NodeOf
<1>. HIDE DEF rec
<1>7. call' \in [Calls -> CallRecords] /\ CallsWellFormed'
  BY <1>5, <1>6, CallUpdate DEF IndInv
<1>. QED
  BY <1>7 DEF IndInv, TypeOK, Evaluate, entryVars, replayVars, ghostVars, OwnCommitsCounted

\* A rollback takes the same cost from val and from inflight.
LEMMA UndoValInv ==
    ASSUME IndInv, NEW g \in Calls, UndoVal(g)
    PROVE  IndInv'
<1>1. At(g) \in Active
  BY DEF UndoVal, Active, CallStates
<1>2. NodeOf(g) \in Nodes /\ CellOf(g) \in Cells /\ Req(g).cost \in Nat /\ Req(g) \in Requests
  BY <1>1, ReqType DEF IndInv
<1>3. call' \in [Calls -> CallRecords] /\ CallsWellFormed'
  BY <1>1, JumpType DEF IndInv, UndoVal, CallStates
<1>4. val' \in PerCell(Int) /\ inflight' \in PerCell(Int)
  BY <1>2 DEF IndInv, TypeOK, PerCell, UndoVal
<1>5. TypeOK'
  BY <1>3, <1>4 DEF IndInv, TypeOK, UndoVal, replayVars
<1>6. OwnCommitsCounted'
  <2>. DEFINE n == NodeOf(g)
              c == CellOf(g)
              x == (-Req(g).cost)
  <2>1. val \in PerCell(Int) /\ inflight \in PerCell(Int) /\ committed \in PerCell(Int)
    BY DEF IndInv, TypeOK
  <2>2. n \in Nodes /\ c \in Cells /\ x \in Int
    BY <1>2
  <2>3. /\ val' = [val EXCEPT ![n][c] = val[n][c] + x]
        /\ inflight' = [inflight EXCEPT ![n][c] = inflight[n][c] + x]
        /\ committed' = committed
    BY <1>2, <2>1 DEF UndoVal, PerCell
  <2>. HIDE DEF n, c, x
  <2>. QED BY <2>1, <2>2, <2>3 DEF PerCell, IndInv, OwnCommitsCounted
<1>. QED
  BY <1>3, <1>5, <1>6 DEF IndInv

\* Withdrawing an announcement changes no count.
LEMMA UndoSpeculativeInv ==
    ASSUME IndInv, NEW g \in Calls, UndoSpeculative(g)
    PROVE  IndInv'
<1>1. At(g) \in Active
  BY DEF UndoSpeculative, Active, CallStates
<1>2. NodeOf(g) \in Nodes /\ CellOf(g) \in Cells /\ Req(g).cost \in Nat /\ Req(g) \in Requests
  BY <1>1, ReqType DEF IndInv
<1>3. call' \in [Calls -> CallRecords] /\ CallsWellFormed'
  <2>. DEFINE rec == NextRound(g, "undoVal", "denied")
  <2>1. rec \in CallRecords /\ rec.node \in Nodes /\ rec.i \in 1..Len(rec.reqs)
    BY <1>1, <1>2, NextRoundType DEF IndInv, Active, CallStates
  <2>2. call' = [call EXCEPT ![g] = rec]
    BY DEF UndoSpeculative
  <2>. HIDE DEF rec
  <2>. QED BY <2>1, <2>2, CallUpdate DEF IndInv
<1>4. speculative' \in PerCell(Int)
  BY <1>2 DEF IndInv, TypeOK, PerCell, UndoSpeculative
<1>5. strict' \in PerCell(BOOLEAN)
  <2>. DEFINE n == NodeOf(g)
              c == CellOf(g)
              b == strict[n][c] \/ call[g].i \in call[g].failed
  <2>1. strict' = [strict EXCEPT ![n][c] = b] /\ strict \in PerCell(BOOLEAN) /\ b \in BOOLEAN
    BY DEF IndInv, TypeOK, UndoSpeculative
  <2>. HIDE DEF n, c, b
  <2>. QED BY <2>1 DEF PerCell
<1>. QED
  BY <1>3, <1>4, <1>5 DEF IndInv, TypeOK, UndoSpeculative, replayVars, ghostVars, OwnCommitsCounted

\* A commit moves the cost from inflight to committed.
LEMMA CommitRequestInv ==
    ASSUME IndInv, NEW g \in Calls, CommitRequest(g)
    PROVE  IndInv'
<1>1. At(g) \in Active
  BY DEF CommitRequest, Active, CallStates
<1>2. NodeOf(g) \in Nodes /\ CellOf(g) \in Cells /\ Req(g).cost \in Nat /\ Req(g) \in Requests
  BY <1>1, ReqType DEF IndInv
<1>3. call' \in [Calls -> CallRecords] /\ CallsWellFormed'
  <2>. DEFINE rec == NextRound(g, "commit", "buffer")
  <2>1. rec \in CallRecords /\ rec.node \in Nodes /\ rec.i \in 1..Len(rec.reqs)
    BY <1>1, <1>2, NextRoundType DEF IndInv, Active, CallStates
  <2>2. call' = [call EXCEPT ![g] = rec]
    BY DEF CommitRequest
  <2>. HIDE DEF rec
  <2>. QED BY <2>1, <2>2, CallUpdate DEF IndInv
<1>. DEFINE n == NodeOf(g)
            c == CellOf(g)
            cost == Req(g).cost
<1>4. speculative' \in PerCell(Int) /\ inflight' \in PerCell(Int)
  BY <1>2 DEF IndInv, TypeOK, PerCell, CommitRequest
<1>5. pushThreshold' \in PerCell(Int)
  <2>1. pushThreshold \in PerCell(Int) /\ Req(g).limit \in Nat
    BY <1>1, ReqType DEF IndInv, TypeOK
  <2>2. ObserveGlobalPushLimit(pushThreshold[n][c], Req(g).limit) \in Int
    BY <1>2, <2>1, ThresholdType DEF PerCell
  <2>3. pushThreshold' = [pushThreshold EXCEPT ![n][c] =
                            ObserveGlobalPushLimit(pushThreshold[n][c], Req(g).limit)]
    BY DEF CommitRequest
  <2>. QED BY <2>1, <2>2, <2>3 DEF PerCell
<1>6. /\ committed' \in PerCell(Int) /\ admitted' \in [Regions -> [Cells -> Int]]
      /\ \A m \in Nodes, d \in Cells :
            committed'[m][d] = (IF m = n /\ d = c THEN committed[m][d] + cost ELSE committed[m][d])
  BY <1>2, CommitType DEF IndInv, CommitRequest, CellOf
<1>7. TypeOK'
  BY <1>3, <1>4, <1>5, <1>6 DEF IndInv, TypeOK, CommitRequest, replayVars
<1>8. OwnCommitsCounted'
  <2>1. val \in PerCell(Int) /\ inflight \in PerCell(Int) /\ committed \in PerCell(Int)
    BY DEF IndInv, TypeOK
  <2>2. val' = val /\ inflight' = [inflight EXCEPT ![n][c] = inflight[n][c] - cost]
    BY DEF CommitRequest
  <2>3. cost \in Nat /\ n \in Nodes /\ c \in Cells
    BY <1>2
  <2>. HIDE DEF n, c, cost
  <2>. QED BY <1>6, <2>1, <2>2, <2>3 DEF IndInv, PerCell, OwnCommitsCounted
<1>. QED
  BY <1>3, <1>7, <1>8 DEF IndInv

\* Buffering changes no count.
LEMMA BufferRequestInv ==
    ASSUME IndInv, NEW g \in Calls, BufferRequest(g)
    PROVE  IndInv'
<1>1. At(g) \in Active
  BY DEF BufferRequest, Active, CallStates
<1>2. NodeOf(g) \in Nodes /\ CellOf(g) \in Cells /\ Req(g).cost \in Nat /\ Req(g) \in Requests
  BY <1>1, ReqType DEF IndInv
<1>3. call' \in [Calls -> CallRecords] /\ CallsWellFormed'
  <2>. DEFINE rec == NextRound(g, "buffer", "allowed")
  <2>1. rec \in CallRecords /\ rec.node \in Nodes /\ rec.i \in 1..Len(rec.reqs)
    BY <1>1, <1>2, NextRoundType DEF IndInv, Active, CallStates
  <2>2. call' = [call EXCEPT ![g] = rec]
    BY DEF BufferRequest
  <2>. HIDE DEF rec
  <2>. QED BY <2>1, <2>2, CallUpdate DEF IndInv
<1>4. buffer' \in [Nodes -> Seq(Requests)] /\ \A m \in Nodes : Len(buffer'[m]) <= BufferCap
  BY <1>2, EnqueueType DEF IndInv, BufferRequest
<1>. QED
  BY <1>3, <1>4 DEF IndInv, TypeOK, BufferRequest, entryVars, ghostVars, OwnCommitsCounted

\* ---- replay and restart ----

\* The request at the head of a buffer is a request; taking it keeps the type.
LEMMA TakeType ==
    ASSUME TypeOK, NEW n \in Nodes, buffer[n] # <<>>,
           buffer' = [buffer EXCEPT ![n] = Tail(@)]
    PROVE  /\ Head(buffer[n]) \in Requests
           /\ Head(buffer[n]).cell \in Cells /\ Head(buffer[n]).cost \in Nat
           /\ buffer' \in [Nodes -> Seq(Requests)]
           /\ \A m \in Nodes : Len(buffer'[m]) <= BufferCap
<1>1. buffer \in [Nodes -> Seq(Requests)] /\ \A m \in Nodes : Len(buffer[m]) <= BufferCap
  BY DEF TypeOK
<1>2. Head(buffer[n]) \in Requests
  BY <1>1
<1>3. Tail(buffer[n]) \in Seq(Requests) /\ Len(Tail(buffer[n])) <= BufferCap
  BY <1>1, BoundAssumption
<1>. QED
  BY <1>1, <1>2, <1>3 DEF Requests

\* A replay worker never lowers val.
LEMMA ReplayInv ==
    ASSUME IndInv, NEW n \in Nodes, NEW w \in Workers, ReplayStep(n, w)
    PROVE  IndInv'
<1>. DEFINE req == Head(buffer[n])
<1>1. RegionOf[n] \in Regions
  BY TopologyAssumption
<1>2. ASSUME ReplayIncrement(n, w) \/ ReplayTimesOut(n, w)
      PROVE  IndInv'
  <2>1. /\ req.cell \in Cells /\ req.cost \in Nat
        /\ buffer' \in [Nodes -> Seq(Requests)] /\ \A m \in Nodes : Len(buffer'[m]) <= BufferCap
    BY <1>2, TakeType DEF IndInv, ReplayIncrement, ReplayTimesOut
  <2>2. Incremented(n, req) \in Int
    BY <1>1, <2>1 DEF Incremented, IndInv, TypeOK
  <2>3. origin' \in [Regions -> [Cells -> Int]]
    <3>1. origin' = [origin EXCEPT ![RegionOf[n]][req.cell] = Incremented(n, req)]
      BY <1>2 DEF ReplayIncrement, ReplayTimesOut
    <3>2. origin \in [Regions -> [Cells -> Int]]
      BY DEF IndInv, TypeOK
    <3>. HIDE DEF req
    <3>. QED BY <3>1, <3>2, <2>2
  <2>4. ack' \in [Nodes -> [Workers -> [cell : Cells, count : Int] \cup {NoAck}]]
    <3>. DEFINE answer == [cell |-> req.cell, count |-> Incremented(n, req)]
    <3>1. ack' = [ack EXCEPT ![n][w] = answer] \/ ack' = ack
      BY <1>2 DEF ReplayIncrement, ReplayTimesOut
    <3>2. ack \in [Nodes -> [Workers -> [cell : Cells, count : Int] \cup {NoAck}]]
      BY DEF IndInv, TypeOK
    <3>3. answer \in [cell : Cells, count : Int]
      BY <2>1, <2>2
    <3>. HIDE DEF answer
    <3>. QED BY <3>1, <3>2, <3>3
  <2>. QED
    BY <1>2, <2>1, <2>3, <2>4
    DEF IndInv, TypeOK, CallsWellFormed, At, NodeOf, OwnCommitsCounted, ReplayIncrement,
        ReplayTimesOut, entryVars, ghostVars
<1>3. ASSUME ReplayFails(n, w)
      PROVE  IndInv'
  <2>1. buffer' \in [Nodes -> Seq(Requests)] /\ \A m \in Nodes : Len(buffer'[m]) <= BufferCap
    BY <1>3, TakeType DEF IndInv, ReplayFails
  <2>. QED
    BY <1>3, <2>1
    DEF IndInv, TypeOK, CallsWellFormed, At, NodeOf, OwnCommitsCounted, ReplayFails,
        entryVars, ghostVars
<1>4. ASSUME ReplayMerge(n, w)
      PROVE  IndInv'
  <2>1. ack[n][w].cell \in Cells /\ ack[n][w].count \in Int
    BY <1>4 DEF IndInv, TypeOK, ReplayMerge
  <2>2. /\ val' \in PerCell(Int) /\ seenOrigin' \in PerCell(Int)
        /\ \A m \in Nodes, d \in Cells : val'[m][d] >= val[m][d]
    BY <1>4, <2>1, MergeInv DEF IndInv, ReplayMerge
  <2>3. ack' \in [Nodes -> [Workers -> [cell : Cells, count : Int] \cup {NoAck}]]
    BY <1>4 DEF IndInv, TypeOK, ReplayMerge
  <2>4. TypeOK' /\ CallsWellFormed'
    BY <1>4, <2>2, <2>3 DEF IndInv, TypeOK, CallsWellFormed, At, NodeOf, ReplayMerge
  <2>5. OwnCommitsCounted'
    <3>1. val \in PerCell(Int) /\ inflight \in PerCell(Int) /\ committed \in PerCell(Int)
      BY DEF IndInv, TypeOK
    <3>2. inflight' = inflight /\ committed' = committed
      BY <1>4 DEF ReplayMerge
    <3>. QED BY <2>2, <3>1, <3>2 DEF IndInv, PerCell, OwnCommitsCounted
  <2>. QED BY <2>4, <2>5 DEF IndInv
<1>. QED
  BY <1>2, <1>3, <1>4 DEF ReplayStep

\* A restart forgets val, and what was committed to it.
LEMMA RestartInv ==
    ASSUME IndInv, NEW n \in Nodes, Restart(n)
    PROVE  IndInv'
<1>1. call' \in [Calls -> CallRecords] /\ CallsWellFormed'
  <2>1. ASSUME NEW g \in Calls
        PROVE  /\ call'[g] \in CallRecords
               /\ call'[g] = call[g] \/ call'[g].pc = "crashed"
    <3>1. call[g] \in CallRecords
      BY DEF IndInv, TypeOK
    <3>2. call'[g] = call[g] \/ call'[g] = [call[g] EXCEPT !.pc = "crashed"]
      BY DEF Restart
    <3>3. [call[g] EXCEPT !.pc = "crashed"] \in CallRecords
      BY <3>1 DEF CallRecords, CallStates
    <3>4. [call[g] EXCEPT !.pc = "crashed"].pc = "crashed"
      BY <3>1 DEF CallRecords
    <3>. QED BY <3>1, <3>2, <3>3, <3>4
  <2>2. call' \in [Calls -> CallRecords]
    BY <2>1 DEF Restart
  <2>3. CallsWellFormed'
    BY <2>1 DEF IndInv, CallsWellFormed, At, NodeOf, Active
  <2>. QED BY <2>2, <2>3
<1>2. buffer' \in [Nodes -> Seq(Requests)] /\ \A m \in Nodes : Len(buffer'[m]) <= BufferCap
  BY BoundAssumption DEF IndInv, TypeOK, Restart
<1>3. ack' \in [Nodes -> [Workers -> [cell : Cells, count : Int] \cup {NoAck}]]
  BY DEF IndInv, TypeOK, Restart
<1>4. /\ val' \in PerCell(Int) /\ speculative' \in PerCell(Int) /\ globalCount' \in PerCell(Int)
      /\ pushThreshold' \in PerCell(Int) /\ committed' \in PerCell(Int)
      /\ inflight' \in PerCell(Int) /\ seenOrigin' \in PerCell(Int)
  BY DEF IndInv, TypeOK, PerCell, Restart
<1>5. /\ hydration' \in PerCell({"cold", "fetching", "warm"})
      /\ staleMu' \in PerCell(BOOLEAN) /\ strict' \in PerCell(BOOLEAN)
  BY DEF IndInv, TypeOK, PerCell, Restart
<1>6. restarts' \in 0..MaxRestarts
  BY BoundAssumption DEF IndInv, TypeOK, Restart
<1>7. TypeOK'
  BY <1>1, <1>2, <1>3, <1>4, <1>5, <1>6 DEF IndInv, TypeOK, Restart
<1>8. OwnCommitsCounted'
  BY DEF IndInv, TypeOK, PerCell, OwnCommitsCounted, Restart
<1>. QED
  BY <1>1, <1>7, <1>8 DEF IndInv

----------------------------------------------------------------------------
\* Every step of the request path keeps the inductive invariant.
LEMMA CallStepInv ==
    ASSUME IndInv, NEW g \in Calls, CallStep(g)
    PROVE  IndInv'
  BY FetchColdInv, FetchStaleInv, StillFreshInv, MergeFetchedInv, SkipStrictInv,
     FetchStrictInv, MergeStrictInv, LoadInv, CasWinsInv, CasLosesInv, AddSpeculativeInv,
     AddValInv, EvaluateInv, UndoValInv, UndoSpeculativeInv, CommitRequestInv,
     BufferRequestInv
  DEF CallStep

\* The invariant is inductive: one case per kind of step.
THEOREM StepInv == IndInv /\ [Next]_vars => IndInv'
<1>. SUFFICES ASSUME IndInv, [Next]_vars PROVE IndInv'
  OBVIOUS
<1>1. ASSUME NEW g \in Calls, CallStep(g) PROVE IndInv'
  BY <1>1, CallStepInv
<1>2. ASSUME NEW g \in Calls, NEW n \in Nodes, Begin(g, n) PROVE IndInv'
  BY <1>2, BeginInv
<1>3. ASSUME NEW n \in Nodes, NEW w \in Workers, ReplayStep(n, w) PROVE IndInv'
  BY <1>3, ReplayInv
<1>4. ASSUME NEW n \in Nodes, Restart(n) PROVE IndInv'
  BY <1>4, RestartInv
<1>5. ASSUME UNCHANGED vars PROVE IndInv'
  BY <1>5 DEF IndInv, TypeOK, CallsWellFormed, At, NodeOf, OwnCommitsCounted, vars,
     entryVars, replayVars, ghostVars
<1>. QED
  BY <1>1, <1>2, <1>3, <1>4, <1>5 DEF Next, RequestNext

\* Type correctness: no step of the request path, the replay workers or a restart
\* leaves the types, and the replay buffer never exceeds its capacity.
THEOREM TypeCorrect == Spec => []TypeOK
  BY InitInv, StepInv, PTL DEF Spec, IndInv

\* A node never forgets an admission, in any interleaving of CAS loops, batches that
\* roll back, origin merges, replay answers and restarts, for any sizes.
THEOREM AdmissionsAreKept == Spec => []OwnCommitsCounted
  BY InitInv, StepInv, PTL DEF Spec, IndInv
=============================================================================
