------------------------- MODULE RatelimitCountProof -------------------------
(***************************************************************************)
(* What the counters of Ratelimit mean, for every number of nodes, cells,  *)
(* goroutines, workers and every set of requests: whose cost inflight and  *)
(* speculative hold, where every admitted unit is, that a count is never   *)
(* invented, that a process never admits more than the limit, and that     *)
(* nobody waits for a gate without an owner.                               *)
(***************************************************************************)
EXTENDS RatelimitProof, SumTheorems

----------------------------------------------------------------------------
\* The shares of the goroutines

\* The parts a batch is in, for the requests it has got to: counted in val and not
\* decided ("held"), counted in speculative ("announced"), counted and not evaluated
\* ("pending"), evaluated and not committed ("approved"), committed and not handed
\* to the replay buffer ("loose").
Kinds == {"held", "announced", "pending", "approved", "loose"}

IsIn(what, pc, i, j) ==
    \/ /\ what \in {"held", "announced", "pending"}
       /\ (pc \in {"addSpec", "addVal"} /\ j < i) \/ pc = "evaluate"
    \/ what = "announced" /\ pc = "addVal" /\ j = i
    \/ what \in {"held", "announced"} /\ pc \in {"undoVal", "commit"} /\ j >= i
    \/ what = "held" /\ pc = "undoSpec" /\ j > i
    \/ what = "announced" /\ pc = "undoSpec" /\ j >= i
    \/ what = "approved" /\ pc = "commit" /\ j >= i
    \/ what = "loose" /\ ((pc = "commit" /\ j < i) \/ (pc = "buffer" /\ j >= i))

\* The positions of the requests that are in a part, and their cost for a cell if
\* the goroutine runs on one of the nodes N.
Part(what, rec) == {j \in 1..Len(rec.reqs) : IsIn(what, rec.pc, rec.i, j)}
Share(what, rec, N, c) ==
    IF rec.node \in N THEN SumFunctionOnSet(Costs(rec.reqs, c), Part(what, rec)) ELSE 0

\* The shares of the goroutines in G.
Shares(what, calls, G, N, c) ==
    SumFunctionOnSet([g \in Calls |-> Share(what, calls[g], N, c)], G)

Here(r) == {n \in Nodes : RegionOf[n] = r}
Buffered(buffers, r, c) == SumFunctionOnSet([n \in Nodes |-> CostIn(buffers[n], c)], Here(r))

----------------------------------------------------------------------------
\* The inductive invariants

\* The locals of a goroutine that its next steps rely on: its requests are ones a
\* caller may send, a snapshot of globalCount for each request that is prepared, a
\* post-increment value for each request that is counted.
Shape(rec) ==
    /\ \A j \in 1..Len(rec.reqs) : rec.reqs[j] \in AllRequests
    /\ rec.globals \in Seq(Nat)
    /\ rec.pc \in {"ensure", "coldMerge", "staleMerge", "strict", "strictMerge"} =>
          Len(rec.globals) = rec.i - 1
    /\ rec.pc \in {"load", "cas", "addSpec", "addVal", "evaluate"} =>
          Len(rec.globals) = Len(rec.reqs)
    /\ rec.pc \in {"ensure", "coldMerge", "staleMerge", "strict", "strictMerge", "load", "cas"} =>
          rec.counts = <<>>
    /\ rec.pc \in {"load", "cas", "evaluate"} => rec.i = 1
    /\ rec.pc \in {"addSpec", "addVal"} => Len(rec.counts) = rec.i - 1
    /\ rec.pc = "evaluate" => Len(rec.counts) = Len(rec.reqs)

CallsShaped == \A g \in Calls : Shape(call[g])
GlobalsCount == \A n \in Nodes, c \in Cells : globalCount[n][c] >= 0

\* inflight is what the batches hold, speculative what they have announced.
HeldIsInflight ==
    \A n \in Nodes, c \in Cells : inflight[n][c] = Shares("held", call, Calls, {n}, c)
AnnouncedIsSpeculative ==
    \A n \in Nodes, c \in Cells : speculative[n][c] = Shares("announced", call, Calls, {n}, c)

ShareInv == IndInv /\ CallsShaped /\ GlobalsCount /\ HeldIsInflight /\ AnnouncedIsSpeculative

\* Where every admitted unit is, with all sums taken over fixed sets.
LostType == lost \in [Regions -> [Cells -> Nat]]
Conserved ==
    \A r \in Regions, c \in Cells :
        admitted[r][c] = origin[r][c] + lost[r][c] + Buffered(buffer, r, c)
                            + Shares("loose", call, Calls, Here(r), c)

\* A count that is on its way into val was admitted by the region.
Backed ==
    /\ \A r \in Regions, c \in Cells : admitted[r][c] >= 0
    /\ \A g \in Calls : At(g) \in {"coldMerge", "staleMerge", "strictMerge"} =>
          call[g].got <= admitted[RegionOf[NodeOf(g)]][CellOf(g)]
    /\ \A n \in Nodes, w \in Workers : ack[n][w] # NoAck =>
          ack[n][w].count <= admitted[RegionOf[n]][ack[n][w].cell]

FlowInv == ShareInv /\ LostType /\ Conserved
PhantomInv == FlowInv /\ Backed /\ NoPhantomCount

\* A single request that is about to be counted fits; and whichever of the pending
\* batches are approved together, what is then admitted fits, or one of them has seen
\* a count that is as large and will be measured by it.
Room(n, c, G) ==
    committed[n][c] + Shares("approved", call, Calls, {n}, c) + Shares("pending", call, G, {n}, c)
Fits(calls, sum, n, c, G) ==
    \/ sum <= LimitFor(c)
    \/ \E g \in G : /\ calls[g].node = n
                    /\ \E j \in Part("pending", calls[g]) :
                          calls[g].reqs[j].cell = c /\ sum <= calls[g].counts[j]

CasFits == \A g \in Calls : At(g) = "cas" => call[g].got + Req(g).cost <= Req(g).limit
BatchesFit ==
    \A n \in Nodes, c \in Cells, G \in SUBSET Calls : Fits(call, Room(n, c, G), n, c, G)

RoomInv == ShareInv /\ CasFits /\ BatchesFit

\* The goroutines inside once.Do or under staleMu of a cell: the gate is taken exactly
\* while one of them is there. And a goroutine that has been through the gate of a
\* request finds its entry warm.
Inside(calls, pc, n, c) ==
    {g \in Calls : /\ calls[g].node = n /\ calls[g].pc = pc
                   /\ calls[g].reqs[calls[g].i].cell = c}
Owned(taken, owners) == IF taken THEN \E g \in Calls : owners = {g} ELSE owners = {}

HasPassed(pc, i, j) ==
    \/ pc \in {"ensure", "coldMerge"} /\ j < i
    \/ pc \in {"staleMerge", "strict", "strictMerge"} /\ j <= i
    \/ pc \in {"load", "cas", "addSpec", "addVal"}
Passed(rec) == {j \in 1..Len(rec.reqs) : HasPassed(rec.pc, rec.i, j)}

ColdOwned ==
    \A n \in Nodes, c \in Cells :
        Owned(hydration[n][c] = "fetching", Inside(call, "coldMerge", n, c))
StaleOwned ==
    \A n \in Nodes, c \in Cells : Owned(staleMu[n][c], Inside(call, "staleMerge", n, c))
PassedIsWarm ==
    \A g \in Calls : \A j \in Passed(call[g]) :
        hydration[NodeOf(g)][call[g].reqs[j].cell] = "warm"

GateInv == IndInv /\ ColdOwned /\ StaleOwned /\ PassedIsWarm

----------------------------------------------------------------------------
\* The operators

\* The costs of a sequence of requests are natural numbers.
LEMMA CostsType ==
    ASSUME NEW reqs \in Seq(Requests), NEW c \in Cells
    PROVE  /\ DOMAIN Costs(reqs, c) = 1..Len(reqs)
           /\ \A j \in 1..Len(reqs) : Costs(reqs, c)[j] \in Nat
           /\ IsFiniteSet(1..Len(reqs))
<1>1. Len(reqs) \in Nat
  OBVIOUS
<1>2. \A j \in 1..Len(reqs) : reqs[j] \in Requests
  OBVIOUS
<1>3. \A j \in 1..Len(reqs) : reqs[j].cost \in Nat
  BY <1>2 DEF Requests
<1>4. IsFiniteSet(1..Len(reqs))
  BY <1>1, FS_Interval
<1> QED
  BY <1>3, <1>4 DEF Costs

\* The cost of some of the requests of a sequence.
LEMMA SomeCosts ==
    ASSUME NEW reqs \in Seq(Requests), NEW c \in Cells, NEW P \in SUBSET (1..Len(reqs))
    PROVE  /\ IsFiniteSet(P)
           /\ \A j \in P : Costs(reqs, c)[j] \in Nat /\ Costs(reqs, c)[j] \in Int
           /\ SumFunctionOnSet(Costs(reqs, c), P) \in Nat
<1> DEFINE f == Costs(reqs, c)
<1>1. IsFiniteSet(P)
  BY CostsType, FS_Subset
<1>2. \A j \in P : f[j] \in Nat
  BY CostsType
<1> HIDE DEF f
<1>3. SumFunctionOnSet(f, P) \in Nat
  BY <1>1, <1>2, SumNat
<1> QED
  BY <1>1, <1>2, <1>3 DEF f

\* One more request adds its cost, if it is for the cell.
LEMMA OneMoreCost ==
    ASSUME NEW reqs \in Seq(Requests), NEW c \in Cells, NEW P \in SUBSET (1..Len(reqs)),
           NEW i \in 1..Len(reqs), i \notin P
    PROVE  SumFunctionOnSet(Costs(reqs, c), P \cup {i})
              = SumFunctionOnSet(Costs(reqs, c), P)
                  + (IF reqs[i].cell = c THEN reqs[i].cost ELSE 0)
<1> DEFINE f == Costs(reqs, c)
           Q == P \cup {i}
<1>1. Q \in SUBSET (1..Len(reqs))
  OBVIOUS
<1>2. IsFiniteSet(P) /\ \A j \in Q : f[j] \in Int
  BY <1>1, SomeCosts
<1>3. f[i] = (IF reqs[i].cell = c THEN reqs[i].cost ELSE 0)
  BY DEF Costs
<1>4. \A j \in P \cup {i} : f[j] \in Int
  BY <1>2
<1> HIDE DEF f
<1>5. SumFunctionOnSet(f, P \cup {i}) = SumFunctionOnSet(f, P) + f[i]
  BY <1>2, <1>4, SumAdd
<1> QED
  BY <1>3, <1>5 DEF f

\* The requests of a part are requests of the batch.
LEMMA PartType ==
    ASSUME NEW what, NEW rec
    PROVE  Part(what, rec) \in SUBSET (1..Len(rec.reqs))
BY DEF Part

\* A share is a natural number.
LEMMA ShareType ==
    ASSUME NEW what, NEW rec \in CallRecords, NEW N, NEW c \in Cells
    PROVE  Share(what, rec, N, c) \in Nat /\ Share(what, rec, N, c) \in Int
<1>1. rec.reqs \in Seq(Requests)
  BY DEF CallRecords
<1>2. SumFunctionOnSet(Costs(rec.reqs, c), Part(what, rec)) \in Nat
  BY <1>1, PartType, SomeCosts
<1> QED
  BY <1>2 DEF Share

\* What a step of a goroutine does to its share.
Same(rec, new) == new.node = rec.node /\ new.reqs = rec.reqs
Weight(rec, i, N, c) ==
    IF rec.node \in N /\ rec.reqs[i].cell = c THEN rec.reqs[i].cost ELSE 0

\* A goroutine that gets to one more request shares its weight.
LEMMA ShareGrows ==
    ASSUME NEW what, NEW rec \in CallRecords, NEW new, Same(rec, new), NEW N, NEW c \in Cells,
           NEW i \in 1..Len(rec.reqs), i \notin Part(what, rec),
           Part(what, new) = Part(what, rec) \cup {i}
    PROVE  Share(what, new, N, c) = Share(what, rec, N, c) + Weight(rec, i, N, c)
<1>1. rec.reqs \in Seq(Requests)
  BY DEF CallRecords
<1> DEFINE P == Part(what, rec)
           x == SumFunctionOnSet(Costs(rec.reqs, c), P)
<1>2. P \in SUBSET (1..Len(rec.reqs))
  BY PartType
<1>3. x \in Nat
  BY <1>1, <1>2, SomeCosts
<1>4. SumFunctionOnSet(Costs(rec.reqs, c), P \cup {i})
         = x + (IF rec.reqs[i].cell = c THEN rec.reqs[i].cost ELSE 0)
  BY <1>1, <1>2, OneMoreCost
<1> QED
  BY <1>3, <1>4 DEF Share, Weight, Same

\* A goroutine that is done with a request no longer shares its weight.
LEMMA ShareShrinks ==
    ASSUME NEW what, NEW rec \in CallRecords, NEW new \in CallRecords, Same(rec, new), NEW N,
           NEW c \in Cells, NEW i \in 1..Len(rec.reqs), i \notin Part(what, new),
           Part(what, rec) = Part(what, new) \cup {i}
    PROVE  Share(what, new, N, c) = Share(what, rec, N, c) - Weight(rec, i, N, c)
<1>1. Share(what, rec, N, c) = Share(what, new, N, c) + Weight(new, i, N, c)
  BY ShareGrows DEF Same
<1>2. Weight(new, i, N, c) = Weight(rec, i, N, c)
  BY DEF Weight, Same
<1>3. Weight(rec, i, N, c) \in Nat
  <2>1. rec.reqs[i] \in Requests
    BY DEF CallRecords
  <2> QED
    BY <2>1 DEF Weight, Requests
<1>4. Share(what, new, N, c) \in Nat
  BY ShareType
<1> QED
  BY <1>1, <1>2, <1>3, <1>4

\* A share depends only on the requests in the part.
LEMMA ShareStays ==
    ASSUME NEW what, NEW rec, NEW new, NEW N, NEW c,
           Part(what, new) = Part(what, rec),
           Same(rec, new) \/ Part(what, rec) = {}
    PROVE  Share(what, new, N, c) = Share(what, rec, N, c)
<1>1. CASE Same(rec, new)
  BY <1>1 DEF Share, Same
<1>2. CASE Part(what, rec) = {}
  <2>1. SumFunctionOnSet(Costs(rec.reqs, c), {}) = 0 /\ SumFunctionOnSet(Costs(new.reqs, c), {}) = 0
    BY SumEmpty
  <2> QED
    BY <1>2, <2>1 DEF Share
<1> QED
  BY <1>1, <1>2

\* The shares of some goroutines after one of them has moved.
LEMMA SharesType ==
    ASSUME NEW what, NEW calls \in [Calls -> CallRecords], NEW G \in SUBSET Calls,
           NEW N, NEW c \in Cells
    PROVE  Shares(what, calls, G, N, c) \in Nat
<1> DEFINE f == [g \in Calls |-> Share(what, calls[g], N, c)]
<1>1. \A g \in G : f[g] \in Nat
  BY ShareType
<1>2. IsFiniteSet(G)
  BY FiniteAssumption, FS_Subset
<1> HIDE DEF f
<1>3. SumFunctionOnSet(f, G) \in Nat
  BY <1>1, <1>2, SumNat
<1> QED
  BY <1>3 DEF Shares, f

\* When one goroutine of the group moves, the sum changes by its share.
LEMMA SharesMove ==
    ASSUME NEW what, NEW calls \in [Calls -> CallRecords], NEW g \in Calls,
           NEW rec \in CallRecords, NEW next, next = [calls EXCEPT ![g] = rec],
           NEW G \in SUBSET Calls, g \in G, NEW N, NEW c \in Cells
    PROVE  Shares(what, next, G, N, c)
              = Shares(what, calls, G, N, c)
                  - Share(what, calls[g], N, c) + Share(what, rec, N, c)
<1> DEFINE f == [h \in Calls |-> Share(what, calls[h], N, c)]
           k == [h \in Calls |-> Share(what, next[h], N, c)]
<1>1. next \in [Calls -> CallRecords]
  OBVIOUS
<1>2. \A h \in G : f[h] \in Int /\ k[h] \in Int
  BY <1>1, ShareType
<1>3. \A h \in G \ {g} : f[h] = k[h]
  OBVIOUS
<1>4. f[g] = Share(what, calls[g], N, c) /\ k[g] = Share(what, rec, N, c)
  OBVIOUS
<1>5. IsFiniteSet(G)
  BY FiniteAssumption, FS_Subset
<1> HIDE DEF f, k
<1>6. SumFunctionOnSet(k, G) = SumFunctionOnSet(f, G) - f[g] + k[g]
  BY <1>2, <1>3, <1>5, SumChange
<1> QED
  BY <1>4, <1>6 DEF Shares, f, k

\* When a goroutine outside the group moves, the sum stays.
LEMMA SharesElsewhere ==
    ASSUME NEW what, NEW calls \in [Calls -> CallRecords], NEW g \in Calls,
           NEW rec \in CallRecords, NEW next, next = [calls EXCEPT ![g] = rec],
           NEW G \in SUBSET Calls, g \notin G, NEW N, NEW c \in Cells
    PROVE  Shares(what, next, G, N, c) = Shares(what, calls, G, N, c)
<1> DEFINE f == [h \in Calls |-> Share(what, calls[h], N, c)]
           k == [h \in Calls |-> Share(what, next[h], N, c)]
<1>1. \A h \in G : f[h] \in Int
  BY ShareType
<1>2. \A h \in G : f[h] = k[h]
  OBVIOUS
<1>3. IsFiniteSet(G)
  BY FiniteAssumption, FS_Subset
<1> HIDE DEF f, k
<1>4. SumFunctionOnSet(f, G) = SumFunctionOnSet(k, G)
  BY <1>1, <1>2, <1>3, SumSame
<1> QED
  BY <1>4 DEF Shares, f, k

----------------------------------------------------------------------------
\* The steps of a goroutine and its parts

\* A step of goroutine g and of no other.
Moves(g) == call' = [call EXCEPT ![g] = call'[g]]

\* A goroutine that is in none of the parts.
Quiet(rec) ==
    \/ rec.pc \in CallStates \ {"addSpec", "addVal", "evaluate", "undoVal", "undoSpec",
                                "commit", "buffer"}
    \/ rec.pc = "addSpec" /\ rec.i = 1

\* Outside a batch a goroutine has no share of anything.
LEMMA QuietParts ==
    ASSUME NEW rec \in CallRecords, Quiet(rec), NEW what \in Kinds
    PROVE  Part(what, rec) = {}
<1>1. Len(rec.reqs) \in Nat /\ rec.i \in Nat
  BY DEF CallRecords
<1> QED
  BY <1>1 DEF Part, IsIn, Quiet, Kinds, CallStates

\* What prepareCheck leaves behind.
LEMMA PreparedShape ==
    ASSUME IndInv, CallsShaped, GlobalsCount, NEW g \in Calls, At(g) \in {"strict", "strictMerge"}
    PROVE  Shape(Prepared(g)) /\ Quiet(Prepared(g))
<1> DEFINE rec == call[g]
           i == IF IsLast(g) THEN 1 ELSE rec.i + 1
           pc == IF ~IsLast(g) THEN "ensure" ELSE IF rec.kind = "one" THEN "load" ELSE "addSpec"
           x == globalCount[NodeOf(g)][CellOf(g)]
<1>1. At(g) \in Active
  BY DEF Active, CallStates
<1>2. rec \in CallRecords /\ rec.i \in 1..Len(rec.reqs) /\ x \in Nat
  BY <1>1, ReqType DEF IndInv, GlobalsCount, TypeOK, PerCell
<1>3. Shape(rec) /\ rec.pc \in {"strict", "strictMerge"}
  BY DEF CallsShaped, At
<1>4. /\ rec.globals \in Seq(Nat) /\ Len(rec.globals) = rec.i - 1 /\ rec.counts = <<>>
      /\ \A j \in 1..Len(rec.reqs) : rec.reqs[j] \in AllRequests
  BY <1>3 DEF Shape
<1>5. Append(rec.globals, x) \in Seq(Nat) /\ Len(Append(rec.globals, x)) = rec.i
  BY <1>2, <1>4
<1>6. Prepared(g) = [rec EXCEPT !.globals = Append(rec.globals, x), !.i = i, !.pc = pc]
  BY <1>2 DEF Prepared, CallRecords
<1>7. pc \in {"ensure", "load", "addSpec"} /\ (pc = "ensure" => i = rec.i + 1)
      /\ (pc # "ensure" => i = 1 /\ rec.i = Len(rec.reqs))
  BY DEF IsLast
<1> HIDE DEF i, pc, x
<1>8. /\ Prepared(g).reqs = rec.reqs /\ Prepared(g).globals = Append(rec.globals, x)
      /\ Prepared(g).i = i /\ Prepared(g).pc = pc /\ Prepared(g).counts = <<>>
  BY <1>2, <1>4, <1>6 DEF CallRecords
<1>9. Len(<<>>) = 0 /\ rec.i \in Nat /\ Len(rec.reqs) \in Nat
  BY <1>2 DEF CallRecords
<1> HIDE DEF rec
<1> QED
  BY <1>4, <1>5, <1>7, <1>8, <1>9 DEF Shape, Quiet, CallStates

\* The steps before a decision, the CAS loop, and the beginning of a call.
QuietStep(g) ==
    \/ FetchCold(g) \/ FetchStale(g) \/ StillFresh(g) \/ MergeFetched(g)
    \/ SkipStrict(g) \/ FetchStrict(g) \/ MergeStrict(g)
    \/ Load(g) \/ CasWins(g) \/ CasLoses(g) \/ \E n \in Nodes : Begin(g, n)

\* A call begins with requests a caller may send.
LEMMA BeginMoves ==
    ASSUME IndInv, IndInv', NEW g \in Calls, NEW n \in Nodes, Begin(g, n)
    PROVE  /\ Moves(g) /\ Quiet(call[g]) /\ Quiet(call'[g]) /\ Shape(call'[g])
           /\ call'[g].pc = "ensure" /\ call'[g].node = n
<1>1. call \in [Calls -> CallRecords]
  BY DEF IndInv, TypeOK
<1>2. PICK kind \in {"one", "many"}, reqs \in Seq(Requests) :
        /\ \A j \in 1..Len(reqs) : reqs[j] \in AllRequests
        /\ call' = [call EXCEPT ![g] = [IdleCall EXCEPT !.pc = "ensure", !.node = n,
                                          !.kind = kind, !.reqs = reqs, !.i = 1]]
  <2>1. CASE \E req \in Singles :
               call' = [call EXCEPT ![g] = [IdleCall EXCEPT !.pc = "ensure", !.node = n,
                                              !.kind = "one", !.reqs = <<req>>, !.i = 1]]
    <3>1. PICK req \in Singles :
            call' = [call EXCEPT ![g] = [IdleCall EXCEPT !.pc = "ensure", !.node = n,
                                           !.kind = "one", !.reqs = <<req>>, !.i = 1]]
      BY <2>1
    <3>2. <<req>> \in Seq(Requests) /\ \A j \in 1..Len(<<req>>) : <<req>>[j] \in AllRequests
      BY RequestAssumption DEF AllRequests
    <3> QED BY <3>1, <3>2
  <2>2. CASE \E reqs \in Batches :
               call' = [call EXCEPT ![g] = [IdleCall EXCEPT !.pc = "ensure", !.node = n,
                                              !.kind = "many", !.reqs = reqs, !.i = 1]]
    <3>1. PICK reqs \in Batches :
            call' = [call EXCEPT ![g] = [IdleCall EXCEPT !.pc = "ensure", !.node = n,
                                           !.kind = "many", !.reqs = reqs, !.i = 1]]
      BY <2>2
    <3>2. reqs \in Seq(Requests)
      BY RequestAssumption
    <3>3. \A j \in 1..Len(reqs) : reqs[j] \in Range(reqs)
      BY <3>2 DEF Range
    <3>4. \A j \in 1..Len(reqs) : reqs[j] \in AllRequests
      BY <3>3 DEF AllRequests
    <3> QED BY <3>1, <3>2, <3>4
  <2> QED BY <2>1, <2>2 DEF Begin
<1>3. call'[g] = [IdleCall EXCEPT !.pc = "ensure", !.node = n, !.kind = kind,
                                  !.reqs = reqs, !.i = 1]
  BY <1>1, <1>2
<1>4. /\ call'[g].reqs = reqs /\ call'[g].globals = <<>> /\ call'[g].counts = <<>>
      /\ call'[g].pc = "ensure" /\ call'[g].i = 1 /\ call'[g].node = n
  BY <1>3 DEF IdleCall
<1>5. Shape(call'[g])
  <2>1. <<>> \in Seq(Nat) /\ Len(<<>>) = 1 - 1
    OBVIOUS
  <2>2. \A j \in 1..Len(reqs) : reqs[j] \in AllRequests
    BY <1>2
  <2> DEFINE rec == call'[g]
  <2>3. rec.reqs = reqs /\ rec.globals = <<>> /\ rec.counts = <<>> /\ rec.pc = "ensure" /\ rec.i = 1
    BY <1>4
  <2> HIDE DEF rec
  <2>4. Shape(rec)
    BY <2>1, <2>2, <2>3 DEF Shape
  <2> QED BY <2>4 DEF rec
<1>6. Moves(g)
  BY <1>1, <1>2 DEF Moves
<1>7. Quiet(call[g]) /\ Quiet(call'[g])
  BY <1>4 DEF Begin, At, Quiet, CallStates
<1> QED
  BY <1>4, <1>5, <1>6, <1>7

\* A goroutine that only changes pc, got and tries before a decision.
LEMMA JumpMoves ==
    ASSUME NEW rec \in CallRecords, Shape(rec),
           NEW pc \in {"coldMerge", "staleMerge", "strict", "strictMerge", "cas", "load",
                       "allowed", "denied"},
           \/ rec.pc \in {"ensure", "coldMerge", "staleMerge", "strict"}
                 /\ pc \in {"coldMerge", "staleMerge", "strict", "strictMerge"}
           \/ rec.pc \in {"load", "cas"} /\ pc \in {"cas", "load", "allowed", "denied"},
           NEW new \in CallRecords, new.pc = pc, new.reqs = rec.reqs, new.globals = rec.globals,
           new.counts = rec.counts, new.i = rec.i
    PROVE  Quiet(rec) /\ Quiet(new) /\ Shape(new)
<1>1. Quiet(rec) /\ Quiet(new)
  BY DEF Quiet, CallStates
<1>2. Shape(new)
  BY DEF Shape
<1> QED
  BY <1>1, <1>2

\* A quiet step keeps the goroutine in none of the parts and its locals in shape.
LEMMA QuietStepMoves ==
    ASSUME IndInv, IndInv', CallsShaped, GlobalsCount, NEW g \in Calls, QuietStep(g)
    PROVE  Moves(g) /\ Quiet(call[g]) /\ Quiet(call'[g]) /\ Shape(call'[g])
<1>1. call \in [Calls -> CallRecords] /\ call' \in [Calls -> CallRecords]
  BY DEF IndInv, TypeOK
<1>2. call[g] \in CallRecords /\ call'[g] \in CallRecords /\ Shape(call[g])
  BY <1>1 DEF CallsShaped
<1> DEFINE rec == call[g]
           new == call'[g]
           Kept == new.reqs = rec.reqs /\ new.globals = rec.globals /\ new.counts = rec.counts
                     /\ new.i = rec.i
<1>3. ASSUME NEW pc, NEW got, call' = [call EXCEPT ![g].pc = pc, ![g].got = got]
      PROVE  Moves(g) /\ new.pc = pc /\ Kept
  BY <1>1, <1>2, <1>3 DEF Moves, CallRecords
<1>4. ASSUME NEW pc, call' = [call EXCEPT ![g].pc = pc]
      PROVE  Moves(g) /\ new.pc = pc /\ Kept
  BY <1>1, <1>2, <1>4 DEF Moves, CallRecords
<1>5. CASE FetchCold(g)
  <2>1. PICK got : call' = [call EXCEPT ![g].pc = "coldMerge", ![g].got = got]
    BY <1>5 DEF FetchCold
  <2>2. rec.pc = "ensure"
    BY <1>5 DEF FetchCold, At
  <2>3. Moves(g) /\ new.pc = "coldMerge" /\ Kept
    BY <1>3, <2>1
  <2> QED BY <1>2, <2>2, <2>3, JumpMoves
<1>6. CASE FetchStale(g)
  <2>1. PICK got : call' = [call EXCEPT ![g].pc = "staleMerge", ![g].got = got]
    BY <1>6 DEF FetchStale
  <2>2. rec.pc = "ensure"
    BY <1>6 DEF FetchStale, At
  <2>3. Moves(g) /\ new.pc = "staleMerge" /\ Kept
    BY <1>3, <2>1
  <2> QED BY <1>2, <2>2, <2>3, JumpMoves
<1>7. CASE StillFresh(g) \/ MergeFetched(g)
  <2>1. call' = [call EXCEPT ![g].pc = "strict"]
    BY <1>7 DEF StillFresh, MergeFetched
  <2>2. rec.pc \in {"ensure", "coldMerge", "staleMerge"}
    BY <1>7 DEF StillFresh, MergeFetched, At
  <2>3. Moves(g) /\ new.pc = "strict" /\ Kept
    BY <1>4, <2>1
  <2> QED BY <1>2, <2>2, <2>3, JumpMoves
<1>8. CASE FetchStrict(g)
  <2>1. PICK got : call' = [call EXCEPT ![g].pc = "strictMerge", ![g].got = got]
    BY <1>8 DEF FetchStrict
  <2>2. rec.pc = "strict"
    BY <1>8 DEF FetchStrict, At
  <2>3. Moves(g) /\ new.pc = "strictMerge" /\ Kept
    BY <1>3, <2>1
  <2> QED BY <1>2, <2>2, <2>3, JumpMoves
<1>9. CASE SkipStrict(g) \/ MergeStrict(g)
  <2>1. call' = [call EXCEPT ![g] = Prepared(g)]
    BY <1>9 DEF SkipStrict, MergeStrict
  <2>2. At(g) \in {"strict", "strictMerge"}
    BY <1>9 DEF SkipStrict, MergeStrict
  <2>3. new = Prepared(g) /\ Moves(g)
    BY <1>1, <2>1 DEF Moves
  <2>4. Quiet(rec)
    BY <2>2 DEF Quiet, At, CallStates
  <2> QED BY <2>2, <2>3, <2>4, PreparedShape
<1>10. CASE Load(g)
  <2>1. \/ call' = [call EXCEPT ![g].pc = "denied"]
        \/ call' = [call EXCEPT ![g].pc = "cas", ![g].got = val[NodeOf(g)][CellOf(g)]]
    BY <1>10 DEF Load
  <2>2. rec.pc = "load"
    BY <1>10 DEF Load, At
  <2>3. Moves(g) /\ new.pc \in {"denied", "cas"} /\ Kept
    BY <1>3, <1>4, <2>1
  <2> QED BY <1>2, <2>2, <2>3, JumpMoves
<1>11. CASE CasWins(g)
  <2>1. call' = [call EXCEPT ![g].pc = "allowed"]
    BY <1>11 DEF CasWins
  <2>2. rec.pc = "cas"
    BY <1>11 DEF CasWins, At
  <2>3. Moves(g) /\ new.pc = "allowed" /\ Kept
    BY <1>4, <2>1
  <2> QED BY <1>2, <2>2, <2>3, JumpMoves
<1>12. CASE CasLoses(g)
  <2> DEFINE pc == IF call[g].tries + 1 < MaxCASRetries THEN "load" ELSE "denied"
  <2>1. call' = [call EXCEPT ![g].tries = @ + 1, ![g].pc = pc]
    BY <1>12 DEF CasLoses
  <2>2. rec.pc = "cas" /\ pc \in {"load", "denied"}
    BY <1>12 DEF CasLoses, At
  <2> HIDE DEF pc
  <2>3. Moves(g) /\ new.pc = pc /\ Kept
    BY <1>1, <1>2, <2>1 DEF Moves, CallRecords
  <2> QED BY <1>2, <2>2, <2>3, JumpMoves
<1>13. CASE \E n \in Nodes : Begin(g, n)
  BY <1>13, BeginMoves
<1> QED
  BY <1>5, <1>6, <1>7, <1>8, <1>9, <1>10, <1>11, <1>12, <1>13 DEF QuietStep

\* What a step of a batch does to one of the parts: the request it stands at enters,
\* leaves, or neither.
Grows(what, g) ==
    /\ call[g].i \notin Part(what, call[g])
    /\ Part(what, call'[g]) = Part(what, call[g]) \cup {call[g].i}
Shrinks(what, g) ==
    /\ call[g].i \notin Part(what, call'[g])
    /\ Part(what, call[g]) = Part(what, call'[g]) \cup {call[g].i}
Stays(what, g) == Part(what, call'[g]) = Part(what, call[g])

\* Where a running goroutine stands.
LEMMA Standing ==
    ASSUME IndInv, NEW g \in Calls, At(g) \in Active
    PROVE  /\ call \in [Calls -> CallRecords] /\ call[g] \in CallRecords
           /\ call[g].i \in 1..Len(call[g].reqs) /\ Len(call[g].reqs) \in Nat /\ call[g].i \in Nat
           /\ call[g].counts \in Seq(Int) /\ call[g].reqs \in Seq(Requests)
           /\ NodeOf(g) \in Nodes /\ CellOf(g) \in Cells
           /\ Req(g).cost \in Nat /\ Req(g).limit \in Nat /\ Req(g) \in Requests
<1>1. call \in [Calls -> CallRecords]
  BY DEF IndInv, TypeOK
<1>2. /\ call[g].i \in 1..Len(call[g].reqs) /\ NodeOf(g) \in Nodes /\ CellOf(g) \in Cells
      /\ Req(g).cost \in Nat /\ Req(g).limit \in Nat /\ Req(g) \in Requests
  BY ReqType DEF IndInv
<1> QED
  BY <1>1, <1>2 DEF CallRecords

\* The shape of a batch after its decision.
LEMMA LateShape ==
    ASSUME NEW rec, Shape(rec), NEW new, new.reqs = rec.reqs, new.globals = rec.globals,
           new.pc \in {"undoVal", "undoSpec", "commit", "buffer", "allowed", "denied", "crashed"}
    PROVE  Shape(new)
BY DEF Shape

\* The record after a round of one of the batch's loops.
LEMMA RoundFields ==
    ASSUME NEW g \in Calls, call[g] \in CallRecords, NEW loop, NEW after
    PROVE  LET new == NextRound(g, loop, after) IN
           /\ Same(call[g], new) /\ new.globals = call[g].globals /\ new.counts = call[g].counts
           /\ new.i = IF IsLast(g) THEN 1 ELSE call[g].i + 1
           /\ new.pc = IF IsLast(g) THEN after ELSE loop
BY DEF NextRound, CallRecords, Same

\* The announcement of a request comes before it is counted.
LEMMA AddSpeculativeMoves ==
    ASSUME IndInv, IndInv', CallsShaped, NEW g \in Calls, AddSpeculative(g)
    PROVE  /\ Moves(g) /\ Same(call[g], call'[g]) /\ Shape(call'[g])
           /\ Grows("announced", g) /\ Stays("held", g) /\ Stays("pending", g)
           /\ Stays("approved", g) /\ Stays("loose", g)
           /\ call'[g].counts = call[g].counts
<1>1. call \in [Calls -> CallRecords] /\ call[g] \in CallRecords /\ Shape(call[g])
  BY DEF IndInv, TypeOK, CallsShaped
<1>2. call' = [call EXCEPT ![g].pc = "addVal"] /\ call[g].pc = "addSpec"
  BY DEF AddSpeculative, At
<1>3. call[g].i \in 1..Len(call[g].reqs) /\ Len(call[g].reqs) \in Nat
  <2>1. At(g) \in Active
    BY DEF AddSpeculative, Active, CallStates
  <2> QED BY <2>1, Standing
<1> DEFINE rec == call[g]
           new == call'[g]
<1>4. /\ Moves(g) /\ Same(rec, new) /\ new.i = rec.i /\ new.pc = "addVal"
      /\ new.globals = rec.globals /\ new.counts = rec.counts
  BY <1>1, <1>2 DEF Moves, CallRecords, Same
<1>5. Shape(new)
  BY <1>1, <1>2, <1>4 DEF Shape, Same
<1> USE <1>2, <1>3, <1>4 DEF Same, Part, IsIn
<1>6. Grows("announced", g)
  BY DEF Grows
<1>7. Stays("held", g) /\ Stays("pending", g) /\ Stays("approved", g) /\ Stays("loose", g)
  BY DEF Stays
<1> QED
  BY <1>5, <1>6, <1>7

\* A request that is counted in val is held and pending.
LEMMA AddValMoves ==
    ASSUME IndInv, IndInv', CallsShaped, NEW g \in Calls, AddVal(g)
    PROVE  /\ Moves(g) /\ Same(call[g], call'[g]) /\ Shape(call'[g])
           /\ Grows("held", g) /\ Grows("pending", g) /\ Stays("announced", g)
           /\ Stays("approved", g) /\ Stays("loose", g)
           /\ call'[g].counts = Append(call[g].counts, val'[NodeOf(g)][CellOf(g)])
           /\ Len(call[g].counts) = call[g].i - 1
<1>1. call \in [Calls -> CallRecords] /\ call[g] \in CallRecords /\ Shape(call[g])
  BY DEF IndInv, TypeOK, CallsShaped
<1> DEFINE rec == call[g]
           new == call'[g]
           x == val'[NodeOf(g)][CellOf(g)]
           round == NextRound(g, "addSpec", "evaluate")
<1>2. call' = [call EXCEPT ![g] = [round EXCEPT !.counts = Append(round.counts, x)]]
      /\ rec.pc = "addVal"
  BY DEF AddVal, At
<1>3. rec.i \in 1..Len(rec.reqs) /\ Len(rec.reqs) \in Nat /\ rec.counts \in Seq(Int)
  <2>1. At(g) \in Active
    BY DEF AddVal, Active, CallStates
  <2> QED BY <2>1, Standing
<1>4. /\ round.node = rec.node /\ round.reqs = rec.reqs
      /\ round.globals = rec.globals /\ round.counts = rec.counts
      /\ round.i = IF IsLast(g) THEN 1 ELSE rec.i + 1
      /\ round.pc = IF IsLast(g) THEN "evaluate" ELSE "addSpec"
  BY <1>1, RoundFields DEF Same
<1>5. round \in CallRecords
  BY <1>2, NextRoundType DEF IndInv, Active, CallStates, At
<1> HIDE DEF round, x
<1>6. /\ Moves(g) /\ Same(rec, new) /\ new.globals = rec.globals
      /\ new.counts = Append(rec.counts, x)
      /\ new.i = round.i /\ new.pc = round.pc
  BY <1>1, <1>2, <1>4, <1>5 DEF Moves, CallRecords, Same
<1>7. \/ rec.i = Len(rec.reqs) /\ new.i = 1 /\ new.pc = "evaluate"
      \/ rec.i # Len(rec.reqs) /\ new.i = rec.i + 1 /\ new.pc = "addSpec"
  BY <1>4, <1>6 DEF IsLast
<1>8. Len(rec.counts) = rec.i - 1 /\ Len(rec.globals) = Len(rec.reqs)
      /\ rec.globals \in Seq(Nat) /\ \A j \in 1..Len(rec.reqs) : rec.reqs[j] \in AllRequests
  BY <1>1, <1>2 DEF Shape
<1>9. x \in Int
  <2>1. At(g) \in Active
    BY DEF AddVal, Active, CallStates
  <2>2. NodeOf(g) \in Nodes /\ CellOf(g) \in Cells
    BY <2>1, Standing
  <2> QED BY <2>2 DEF x, IndInv, TypeOK, PerCell
<1>10. Len(Append(rec.counts, x)) = rec.i
  BY <1>3, <1>8, <1>9
<1>11. new.reqs = rec.reqs
  BY <1>6 DEF Same
<1> HIDE DEF rec, new
<1>12. Shape(new)
  BY <1>3, <1>6, <1>7, <1>8, <1>10, <1>11 DEF Shape
<1>13. rec.pc = "addVal"
  BY <1>2 DEF rec
<1>14. /\ rec.i \notin Part("held", rec) /\ Part("held", new) = Part("held", rec) \cup {rec.i}
       /\ rec.i \notin Part("pending", rec) /\ Part("pending", new) = Part("pending", rec) \cup {rec.i}
  <2>1. CASE new.pc = "evaluate"
    BY <2>1, <1>3, <1>7, <1>11, <1>13 DEF Part, IsIn
  <2>2. CASE new.pc = "addSpec"
    BY <2>2, <1>3, <1>7, <1>11, <1>13 DEF Part, IsIn
  <2> QED BY <1>7, <2>1, <2>2
<1>15. /\ Part("announced", new) = Part("announced", rec)
       /\ Part("approved", new) = Part("approved", rec)
       /\ Part("loose", new) = Part("loose", rec)
  <2>1. CASE new.pc = "evaluate"
    BY <2>1, <1>3, <1>7, <1>11, <1>13 DEF Part, IsIn
  <2>2. CASE new.pc = "addSpec"
    BY <2>2, <1>3, <1>7, <1>11, <1>13 DEF Part, IsIn
  <2> QED BY <1>7, <2>1, <2>2
<1> QED
  BY <1>6, <1>8, <1>12, <1>14, <1>15 DEF rec, new, x, Grows, Stays

\* Every post-increment value of a batch that is approved leaves room below its limit.
LEMMA EvaluateMoves ==
    ASSUME IndInv, IndInv', CallsShaped, NEW g \in Calls, Evaluate(g)
    PROVE  /\ Moves(g) /\ Same(call[g], call'[g]) /\ Shape(call'[g])
           /\ Stays("held", g) /\ Stays("announced", g) /\ Stays("loose", g)
           /\ Part("pending", call'[g]) = {} /\ Part("approved", call[g]) = {}
           /\ \/ Part("approved", call'[g]) = {}
              \/ /\ Part("approved", call'[g]) = Part("pending", call[g])
                 /\ \A j \in 1..Len(call[g].reqs) : call[g].counts[j] <= call[g].reqs[j].limit
<1>1. call \in [Calls -> CallRecords] /\ call[g] \in CallRecords /\ Shape(call[g])
  BY DEF IndInv, TypeOK, CallsShaped
<1> DEFINE rec == call[g]
           new == call'[g]
<1>2. PICK carry \in [1..Len(rec.reqs) -> Carry] :
        LET failed == {j \in 1..Len(rec.reqs) :
                         SlidingWindowCount(rec.counts[j], rec.globals[j], carry[j]) > rec.reqs[j].limit}
        IN call' = [call EXCEPT ![g].failed = failed,
                                ![g].pc = IF failed = {} THEN "commit" ELSE "undoVal"]
  BY DEF Evaluate
<1> DEFINE failed == {j \in 1..Len(rec.reqs) :
                        SlidingWindowCount(rec.counts[j], rec.globals[j], carry[j]) > rec.reqs[j].limit}
           pc == IF failed = {} THEN "commit" ELSE "undoVal"
<1>3. call' = [call EXCEPT ![g].failed = failed, ![g].pc = pc] /\ rec.pc = "evaluate"
  BY <1>2 DEF Evaluate, At
<1>4. rec.i = 1 /\ Len(rec.reqs) \in Nat /\ rec.reqs \in Seq(Requests) /\ rec.counts \in Seq(Int)
  <2>1. At(g) \in Active
    BY DEF Evaluate, Active, CallStates
  <2> QED BY <1>1, <1>3, <2>1, Standing DEF Shape
<1>5. failed = {} => \A j \in 1..Len(rec.reqs) : rec.counts[j] <= rec.reqs[j].limit
  <2> SUFFICES ASSUME failed = {}, NEW j \in 1..Len(rec.reqs)
               PROVE  rec.counts[j] <= rec.reqs[j].limit
    OBVIOUS
  <2>1. rec.globals \in Seq(Nat) /\ Len(rec.globals) = Len(rec.reqs) /\ Len(rec.counts) = Len(rec.reqs)
    BY <1>1, <1>3 DEF Shape
  <2>2. ~(rec.counts[j] + rec.globals[j] + carry[j] > rec.reqs[j].limit)
    BY DEF SlidingWindowCount
  <2>3. carry[j] \in Nat
    BY RequestAssumption
  <2> HIDE DEF rec
  <2>4. rec.globals[j] \in Nat /\ rec.counts[j] \in Int
    BY <1>4, <2>1
  <2>5. rec.reqs[j] \in Requests
    BY <1>4
  <2>6. rec.reqs[j].limit \in Nat
    BY <2>5 DEF Requests
  <2> QED BY <2>2, <2>3, <2>4, <2>6
<1>6. pc \in {"commit", "undoVal"} /\ (pc = "commit" => failed = {})
  OBVIOUS
<1> HIDE DEF failed, pc
<1>7. /\ Moves(g) /\ Same(rec, new) /\ new.i = rec.i /\ new.pc = pc
      /\ new.globals = rec.globals
  BY <1>1, <1>3 DEF Moves, CallRecords, Same
<1>8. new.reqs = rec.reqs
  BY <1>7 DEF Same
<1>9. Shape(new)
  BY <1>1, <1>6, <1>7, <1>8, LateShape
<1>10. rec.pc = "evaluate"
  BY <1>3
<1> HIDE DEF rec, new
<1>11. /\ Part("held", new) = Part("held", rec) /\ Part("announced", new) = Part("announced", rec)
       /\ Part("loose", new) = Part("loose", rec) /\ Part("pending", new) = {}
       /\ Part("approved", rec) = {}
  BY <1>4, <1>6, <1>7, <1>8, <1>10 DEF Part, IsIn
<1>12. CASE pc = "undoVal"
  <2>1. Part("approved", new) = {}
    BY <1>7, <1>12 DEF Part, IsIn
  <2> QED BY <1>7, <1>9, <1>11, <2>1 DEF rec, new, Stays
<1>13. CASE pc = "commit"
  <2>1. Part("approved", new) = Part("pending", rec)
    BY <1>4, <1>7, <1>8, <1>10, <1>13 DEF Part, IsIn
  <2> QED BY <1>5, <1>6, <1>7, <1>9, <1>11, <1>13, <2>1 DEF rec, new, Stays
<1> QED
  BY <1>6, <1>12, <1>13

\* A rollback takes a request out of val first.
LEMMA UndoValMoves ==
    ASSUME IndInv, IndInv', CallsShaped, NEW g \in Calls, UndoVal(g)
    PROVE  /\ Moves(g) /\ Same(call[g], call'[g]) /\ Shape(call'[g])
           /\ Shrinks("held", g) /\ Stays("announced", g) /\ Stays("pending", g)
           /\ Stays("approved", g) /\ Stays("loose", g)
<1>1. Shape(call[g])
  BY DEF CallsShaped
<1>2. call' = [call EXCEPT ![g].pc = "undoSpec"] /\ call[g].pc = "undoVal"
  BY DEF UndoVal, At
<1>3. /\ call[g].i \in 1..Len(call[g].reqs) /\ Len(call[g].reqs) \in Nat
      /\ call \in [Calls -> CallRecords] /\ call[g] \in CallRecords
  <2>1. At(g) \in Active
    BY DEF UndoVal, Active, CallStates
  <2> QED BY <2>1, Standing
<1> DEFINE rec == call[g]
           new == call'[g]
<1>4. /\ Moves(g) /\ Same(rec, new) /\ new.i = rec.i /\ new.pc = "undoSpec"
      /\ new.globals = rec.globals /\ new.reqs = rec.reqs
  BY <1>2, <1>3 DEF Moves, CallRecords, Same
<1>5. Shape(new)
  BY <1>1, <1>4, LateShape
<1> USE <1>2, <1>3, <1>4 DEF Part, IsIn
<1>6. Shrinks("held", g)
  BY DEF Shrinks
<1>7. Stays("announced", g) /\ Stays("pending", g) /\ Stays("approved", g) /\ Stays("loose", g)
  BY DEF Stays
<1> QED
  BY <1>5, <1>6, <1>7

\* A step that ends a round of the last three loops.
LEMMA RoundMoves ==
    ASSUME IndInv, CallsShaped, NEW g \in Calls, At(g) \in {"undoSpec", "commit", "buffer"},
           NEW loop \in {"undoVal", "commit", "buffer"},
           NEW after \in {"denied", "buffer", "allowed"},
           call' = [call EXCEPT ![g] = NextRound(g, loop, after)]
    PROVE  /\ Moves(g) /\ Same(call[g], call'[g]) /\ Shape(call'[g])
           /\ call[g].i \in 1..Len(call[g].reqs) /\ Len(call[g].reqs) \in Nat
           /\ call'[g].reqs = call[g].reqs
           /\ \/ call[g].i = Len(call[g].reqs) /\ call'[g].i = 1 /\ call'[g].pc = after
              \/ call[g].i # Len(call[g].reqs) /\ call'[g].i = call[g].i + 1 /\ call'[g].pc = loop
<1>1. Shape(call[g])
  BY DEF CallsShaped
<1>2. /\ call[g].i \in 1..Len(call[g].reqs) /\ Len(call[g].reqs) \in Nat
      /\ call \in [Calls -> CallRecords] /\ call[g] \in CallRecords
  <2>1. At(g) \in Active
    BY DEF Active, CallStates
  <2> QED BY <2>1, Standing
<1>3. Moves(g) /\ call'[g] = NextRound(g, loop, after)
  BY <1>2 DEF Moves
<1>4. /\ Same(call[g], call'[g]) /\ call'[g].globals = call[g].globals
      /\ call'[g].i = IF IsLast(g) THEN 1 ELSE call[g].i + 1
      /\ call'[g].pc = IF IsLast(g) THEN after ELSE loop
  BY <1>2, <1>3, RoundFields
<1>5. call'[g].reqs = call[g].reqs
  BY <1>4 DEF Same
<1>6. Shape(call'[g])
  BY <1>1, <1>4, <1>5, LateShape
<1> QED
  BY <1>2, <1>3, <1>4, <1>5, <1>6 DEF IsLast

\* Then it withdraws the announcement.
LEMMA UndoSpeculativeMoves ==
    ASSUME IndInv, CallsShaped, NEW g \in Calls, UndoSpeculative(g)
    PROVE  /\ Moves(g) /\ Same(call[g], call'[g]) /\ Shape(call'[g])
           /\ Shrinks("announced", g) /\ Stays("held", g) /\ Stays("pending", g)
           /\ Stays("approved", g) /\ Stays("loose", g)
<1> DEFINE rec == call[g]
           new == call'[g]
<1>1. rec.pc = "undoSpec" /\ call' = [call EXCEPT ![g] = NextRound(g, "undoVal", "denied")]
  BY DEF UndoSpeculative, At
<1>2. /\ Moves(g) /\ Same(rec, new) /\ Shape(new) /\ rec.i \in 1..Len(rec.reqs)
      /\ Len(rec.reqs) \in Nat /\ new.reqs = rec.reqs
      /\ \/ rec.i = Len(rec.reqs) /\ new.i = 1 /\ new.pc = "denied"
         \/ rec.i # Len(rec.reqs) /\ new.i = rec.i + 1 /\ new.pc = "undoVal"
  <2>1. At(g) \in {"undoSpec", "commit", "buffer"}
    BY <1>1 DEF At
  <2>2. "undoVal" \in {"undoVal", "commit", "buffer"} /\ "denied" \in {"denied", "buffer", "allowed"}
    OBVIOUS
  <2> QED BY <1>1, <2>1, <2>2, RoundMoves
<1>3. rec.pc = "undoSpec"
  BY <1>1
<1> HIDE DEF rec, new
<1>4. /\ rec.i \notin Part("announced", new) /\ Part("announced", rec) = Part("announced", new) \cup {rec.i}
      /\ Part("held", new) = Part("held", rec)
  BY <1>2, <1>3 DEF Part, IsIn
<1>5. /\ Part("pending", new) = Part("pending", rec) /\ Part("approved", new) = Part("approved", rec)
      /\ Part("loose", new) = Part("loose", rec)
  BY <1>2, <1>3 DEF Part, IsIn
<1> QED
  BY <1>2, <1>4, <1>5 DEF rec, new, Shrinks, Stays

\* A committed request is no longer held; it is on its way to the buffer.
LEMMA CommitRequestMoves ==
    ASSUME IndInv, CallsShaped, NEW g \in Calls, CommitRequest(g)
    PROVE  /\ Moves(g) /\ Same(call[g], call'[g]) /\ Shape(call'[g])
           /\ Shrinks("announced", g) /\ Shrinks("held", g) /\ Shrinks("approved", g)
           /\ Stays("pending", g) /\ Grows("loose", g)
<1> DEFINE rec == call[g]
           new == call'[g]
<1>1. rec.pc = "commit" /\ call' = [call EXCEPT ![g] = NextRound(g, "commit", "buffer")]
  BY DEF CommitRequest, At
<1>2. /\ Moves(g) /\ Same(rec, new) /\ Shape(new) /\ rec.i \in 1..Len(rec.reqs)
      /\ Len(rec.reqs) \in Nat /\ new.reqs = rec.reqs
      /\ \/ rec.i = Len(rec.reqs) /\ new.i = 1 /\ new.pc = "buffer"
         \/ rec.i # Len(rec.reqs) /\ new.i = rec.i + 1 /\ new.pc = "commit"
  <2>1. At(g) \in {"undoSpec", "commit", "buffer"}
    BY <1>1 DEF At
  <2>2. "commit" \in {"undoVal", "commit", "buffer"} /\ "buffer" \in {"denied", "buffer", "allowed"}
    OBVIOUS
  <2> QED BY <1>1, <2>1, <2>2, RoundMoves
<1>3. rec.pc = "commit"
  BY <1>1
<1> HIDE DEF rec, new
<1>4. /\ rec.i \notin Part("announced", new) /\ Part("announced", rec) = Part("announced", new) \cup {rec.i}
      /\ rec.i \notin Part("held", new) /\ Part("held", rec) = Part("held", new) \cup {rec.i}
      /\ rec.i \notin Part("approved", new) /\ Part("approved", rec) = Part("approved", new) \cup {rec.i}
  BY <1>2, <1>3 DEF Part, IsIn
<1>5. /\ Part("pending", new) = Part("pending", rec)
      /\ rec.i \notin Part("loose", rec) /\ Part("loose", new) = Part("loose", rec) \cup {rec.i}
  BY <1>2, <1>3 DEF Part, IsIn
<1> QED
  BY <1>2, <1>4, <1>5 DEF rec, new, Shrinks, Stays, Grows

\* A buffered request is no longer with its goroutine.
LEMMA BufferRequestMoves ==
    ASSUME IndInv, CallsShaped, NEW g \in Calls, BufferRequest(g)
    PROVE  /\ Moves(g) /\ Same(call[g], call'[g]) /\ Shape(call'[g])
           /\ Stays("announced", g) /\ Stays("held", g) /\ Stays("approved", g)
           /\ Stays("pending", g) /\ Shrinks("loose", g)
<1> DEFINE rec == call[g]
           new == call'[g]
<1>1. rec.pc = "buffer" /\ call' = [call EXCEPT ![g] = NextRound(g, "buffer", "allowed")]
  BY DEF BufferRequest, At
<1>2. /\ Moves(g) /\ Same(rec, new) /\ Shape(new) /\ rec.i \in 1..Len(rec.reqs)
      /\ Len(rec.reqs) \in Nat /\ new.reqs = rec.reqs
      /\ \/ rec.i = Len(rec.reqs) /\ new.i = 1 /\ new.pc = "allowed"
         \/ rec.i # Len(rec.reqs) /\ new.i = rec.i + 1 /\ new.pc = "buffer"
  <2>1. At(g) \in {"undoSpec", "commit", "buffer"}
    BY <1>1 DEF At
  <2>2. "buffer" \in {"undoVal", "commit", "buffer"} /\ "allowed" \in {"denied", "buffer", "allowed"}
    OBVIOUS
  <2> QED BY <1>1, <2>1, <2>2, RoundMoves
<1>3. rec.pc = "buffer"
  BY <1>1
<1> HIDE DEF rec, new
<1>4. /\ Part("announced", new) = Part("announced", rec) /\ Part("held", new) = Part("held", rec)
      /\ Part("approved", new) = Part("approved", rec) /\ Part("pending", new) = Part("pending", rec)
  BY <1>2, <1>3 DEF Part, IsIn
<1>5. rec.i \notin Part("loose", new) /\ Part("loose", rec) = Part("loose", new) \cup {rec.i}
  BY <1>2, <1>3 DEF Part, IsIn
<1> QED
  BY <1>2, <1>4, <1>5 DEF rec, new, Shrinks, Stays

----------------------------------------------------------------------------
\* inflight and speculative are sums of shares

\* What the request goroutine g stands at adds to a sum.
Delta(g, N, c) == IF NodeOf(g) \in N /\ CellOf(g) = c THEN Req(g).cost ELSE 0

\* The weight of the request at hand is a natural number.
LEMMA DeltaType ==
    ASSUME IndInv, NEW g \in Calls, At(g) \in Active, NEW N, NEW c
    PROVE  Delta(g, N, c) \in Nat /\ Delta(g, N, c) \in Int
<1>1. Req(g).cost \in Nat
  BY Standing
<1> QED
  BY <1>1 DEF Delta

\* The shares of some goroutines after a step of one of them.
LEMMA SharesAfter ==
    ASSUME call \in [Calls -> CallRecords], call' \in [Calls -> CallRecords],
           NEW g \in Calls, Moves(g),
           NEW what, NEW G \in SUBSET Calls, NEW N, NEW c \in Cells
    PROVE  Shares(what, call', G, N, c)
              = Shares(what, call, G, N, c)
                  + (IF g \in G THEN Share(what, call'[g], N, c) - Share(what, call[g], N, c) ELSE 0)
<1>1. Share(what, call[g], N, c) \in Int /\ Share(what, call'[g], N, c) \in Int
      /\ Shares(what, call, G, N, c) \in Nat
  BY ShareType, SharesType
<1>2. CASE g \in G
  <2>1. Shares(what, call', G, N, c)
          = Shares(what, call, G, N, c) - Share(what, call[g], N, c) + Share(what, call'[g], N, c)
    BY <1>2, SharesMove DEF Moves
  <2> QED BY <1>1, <1>2, <2>1
<1>3. CASE g \notin G
  <2>1. Shares(what, call', G, N, c) = Shares(what, call, G, N, c)
    BY <1>3, SharesElsewhere DEF Moves
  <2> QED BY <1>1, <1>3, <2>1
<1> QED
  BY <1>2, <1>3

\* A quiet step changes no sum of shares.
LEMMA QuietShares ==
    ASSUME NEW g \in Calls, call \in [Calls -> CallRecords], call' \in [Calls -> CallRecords],
           Moves(g), Quiet(call[g]), Quiet(call'[g]),
           NEW what \in Kinds, NEW G \in SUBSET Calls, NEW N, NEW c \in Cells
    PROVE  Shares(what, call', G, N, c) = Shares(what, call, G, N, c)
<1>1. Part(what, call[g]) = {} /\ Part(what, call'[g]) = {}
  BY QuietParts
<1>2. Share(what, call'[g], N, c) = Share(what, call[g], N, c)
  BY <1>1, ShareStays
<1>3. Share(what, call[g], N, c) \in Int /\ Shares(what, call, G, N, c) \in Nat
  BY ShareType, SharesType
<1>4. Shares(what, call', G, N, c)
        = Shares(what, call, G, N, c)
            + (IF g \in G THEN Share(what, call'[g], N, c) - Share(what, call[g], N, c) ELSE 0)
  BY SharesAfter
<1> QED
  BY <1>2, <1>3, <1>4

\* The sum grows by the weight of the request at hand.
LEMMA SharesGrow ==
    ASSUME IndInv, IndInv', NEW g \in Calls, At(g) \in Active, Moves(g), Same(call[g], call'[g]),
           NEW what, Grows(what, g), NEW G \in SUBSET Calls, g \in G, NEW N, NEW c \in Cells
    PROVE  Shares(what, call', G, N, c) = Shares(what, call, G, N, c) + Delta(g, N, c)
<1>1. /\ call \in [Calls -> CallRecords] /\ call[g] \in CallRecords
      /\ call[g].i \in 1..Len(call[g].reqs)
  BY Standing
<1>2. call' \in [Calls -> CallRecords] /\ call'[g] \in CallRecords
  BY DEF IndInv, TypeOK
<1>3. Weight(call[g], call[g].i, N, c) = Delta(g, N, c)
  BY DEF Weight, Delta, CellOf, Req, NodeOf
<1>4. Share(what, call'[g], N, c) = Share(what, call[g], N, c) + Weight(call[g], call[g].i, N, c)
  BY <1>1, ShareGrows DEF Grows
<1>5. Shares(what, call', G, N, c)
        = Shares(what, call, G, N, c) + (Share(what, call'[g], N, c) - Share(what, call[g], N, c))
  BY <1>1, <1>2, SharesAfter
<1>6. /\ Share(what, call[g], N, c) \in Int /\ Shares(what, call, G, N, c) \in Nat
      /\ Delta(g, N, c) \in Nat
  BY <1>1, ShareType, SharesType, DeltaType
<1> QED
  BY <1>3, <1>4, <1>5, <1>6

\* The sum shrinks by the weight of the request at hand.
LEMMA SharesShrink ==
    ASSUME IndInv, IndInv', NEW g \in Calls, At(g) \in Active, Moves(g), Same(call[g], call'[g]),
           NEW what, Shrinks(what, g), NEW G \in SUBSET Calls, g \in G, NEW N, NEW c \in Cells
    PROVE  Shares(what, call', G, N, c) = Shares(what, call, G, N, c) - Delta(g, N, c)
<1>1. /\ call \in [Calls -> CallRecords] /\ call[g] \in CallRecords
      /\ call[g].i \in 1..Len(call[g].reqs)
  BY Standing
<1>2. call' \in [Calls -> CallRecords] /\ call'[g] \in CallRecords
  BY DEF IndInv, TypeOK
<1>3. Weight(call[g], call[g].i, N, c) = Delta(g, N, c)
  BY DEF Weight, Delta, CellOf, Req, NodeOf
<1>4. Share(what, call'[g], N, c) = Share(what, call[g], N, c) - Weight(call[g], call[g].i, N, c)
  BY <1>1, <1>2, ShareShrinks DEF Shrinks
<1>5. Shares(what, call', G, N, c)
        = Shares(what, call, G, N, c) + (Share(what, call'[g], N, c) - Share(what, call[g], N, c))
  BY <1>1, <1>2, SharesAfter
<1>6. /\ Share(what, call[g], N, c) \in Int /\ Shares(what, call, G, N, c) \in Nat
      /\ Delta(g, N, c) \in Nat
  BY <1>1, ShareType, SharesType, DeltaType
<1> QED
  BY <1>3, <1>4, <1>5, <1>6

\* A part that stays leaves the sum as it is.
LEMMA SharesStay ==
    ASSUME IndInv, IndInv', NEW g \in Calls, Moves(g), Same(call[g], call'[g]),
           NEW what, Stays(what, g), NEW G \in SUBSET Calls, NEW N, NEW c \in Cells
    PROVE  Shares(what, call', G, N, c) = Shares(what, call, G, N, c)
<1>1. call \in [Calls -> CallRecords] /\ call' \in [Calls -> CallRecords]
  BY DEF IndInv, TypeOK
<1>2. Share(what, call'[g], N, c) = Share(what, call[g], N, c)
  BY ShareStays DEF Stays
<1>3. Share(what, call[g], N, c) \in Int /\ Shares(what, call, G, N, c) \in Nat
  BY <1>1, ShareType, SharesType
<1>4. Shares(what, call', G, N, c)
        = Shares(what, call, G, N, c)
            + (IF g \in G THEN Share(what, call'[g], N, c) - Share(what, call[g], N, c) ELSE 0)
  BY <1>1, SharesAfter
<1> QED
  BY <1>2, <1>3, <1>4

\* A goroutine that is in none of the parts has no share.
LEMMA QuietShare ==
    ASSUME NEW rec \in CallRecords, Quiet(rec), NEW what \in Kinds, NEW N, NEW c
    PROVE  Share(what, rec, N, c) = 0
<1>1. Part(what, rec) = {}
  BY QuietParts
<1>2. SumFunctionOnSet(Costs(rec.reqs, c), {}) = 0
  BY SumEmpty
<1> QED
  BY <1>1, <1>2 DEF Share

\* The sum is zero when nobody has a share.
LEMMA NoShares ==
    ASSUME NEW calls \in [Calls -> CallRecords], NEW what, NEW G \in SUBSET Calls, NEW N, NEW c,
           \A g \in G : Share(what, calls[g], N, c) = 0
    PROVE  Shares(what, calls, G, N, c) = 0
<1> DEFINE f == [g \in Calls |-> Share(what, calls[g], N, c)]
<1>1. \A g \in G : f[g] = 0
  OBVIOUS
<1>2. IsFiniteSet(G)
  BY FiniteAssumption, FS_Subset
<1> HIDE DEF f
<1>3. SumFunctionOnSet(f, G) = 0
  BY <1>1, <1>2, SumZero
<1> QED
  BY <1>3 DEF Shares, f

\* Nobody has a share initially.
LEMMA ShareInit == Init => ShareInv
<1> SUFFICES ASSUME Init PROVE ShareInv
  OBVIOUS
<1>1. IndInv
  BY InitInv
<1>2. call \in [Calls -> CallRecords]
  BY <1>1 DEF IndInv, TypeOK
<1>3. \A g \in Calls : call[g] = IdleCall
  BY DEF Init
<1>4. CallsShaped
  <2>1. Shape(IdleCall)
    BY DEF Shape, IdleCall
  <2> QED BY <1>3, <2>1 DEF CallsShaped
<1>5. GlobalsCount
  BY DEF Init, GlobalsCount, Atomics
<1>6. ASSUME NEW what \in Kinds, NEW N, NEW c PROVE Shares(what, call, Calls, N, c) = 0
  <2>1. ASSUME NEW g \in Calls PROVE Share(what, call[g], N, c) = 0
    <3>1. Quiet(call[g])
      BY <1>3 DEF Quiet, IdleCall, CallStates
    <3> QED BY <1>2, <3>1, QuietShare
  <2> QED BY <1>2, <2>1, NoShares
<1>7. HeldIsInflight /\ AnnouncedIsSpeculative
  <2>1. "held" \in Kinds /\ "announced" \in Kinds
    BY DEF Kinds
  <2> QED BY <1>6, <2>1 DEF Init, Atomics, HeldIsInflight, AnnouncedIsSpeculative
<1> QED
  BY <1>1, <1>4, <1>5, <1>7 DEF ShareInv


\* A goroutine that goes on in shape leaves the others in shape.
LEMMA MovesShaped ==
    ASSUME CallsShaped, call \in [Calls -> CallRecords], NEW g \in Calls, Moves(g), Shape(call'[g])
    PROVE  CallsShaped'
<1>1. \A h \in Calls : h = g \/ call'[h] = call[h]
  BY DEF Moves
<1> QED
  BY <1>1 DEF CallsShaped

\* Steps outside a batch touch neither inflight nor speculative.
LEMMA QuietStepShares ==
    ASSUME ShareInv, IndInv', NEW g \in Calls, QuietStep(g)
    PROVE  ShareInv'
<1>1. Moves(g) /\ Quiet(call[g]) /\ Quiet(call'[g]) /\ Shape(call'[g])
  BY QuietStepMoves DEF ShareInv
<1>2. call \in [Calls -> CallRecords] /\ call' \in [Calls -> CallRecords]
  BY DEF ShareInv, IndInv, TypeOK
<1>3. CallsShaped'
  BY <1>1, <1>2, MovesShaped DEF ShareInv
<1>4. inflight' = inflight /\ speculative' = speculative /\ globalCount' = globalCount
  BY DEF QuietStep, FetchCold, FetchStale, StillFresh, MergeFetched, SkipStrict, FetchStrict,
         MergeStrict, Load, CasWins, CasLoses, Begin, entryVars, ghostVars
<1>5. "held" \in Kinds /\ "announced" \in Kinds
  BY DEF Kinds
<1>6. \A n \in Nodes, c \in Cells :
        /\ Shares("held", call', Calls, {n}, c) = Shares("held", call, Calls, {n}, c)
        /\ Shares("announced", call', Calls, {n}, c) = Shares("announced", call, Calls, {n}, c)
  BY <1>1, <1>2, <1>5, QuietShares
<1> QED
  BY <1>3, <1>4, <1>6 DEF ShareInv, HeldIsInflight, AnnouncedIsSpeculative, GlobalsCount

\* A step of a batch, from what it does to its parts and to the two atomics.
LEMMA BatchStepShares ==
    ASSUME ShareInv, IndInv', NEW g \in Calls, Moves(g), Shape(call'[g]), globalCount' = globalCount,
           \A n \in Nodes, c \in Cells :
              /\ inflight'[n][c] - inflight[n][c]
                    = Shares("held", call', Calls, {n}, c) - Shares("held", call, Calls, {n}, c)
              /\ speculative'[n][c] - speculative[n][c]
                    = Shares("announced", call', Calls, {n}, c)
                        - Shares("announced", call, Calls, {n}, c)
    PROVE  ShareInv'
<1>1. call \in [Calls -> CallRecords] /\ call' \in [Calls -> CallRecords]
  BY DEF ShareInv, IndInv, TypeOK
<1>2. CallsShaped'
  BY <1>1, MovesShaped DEF ShareInv
<1>3. GlobalsCount'
  BY DEF ShareInv, GlobalsCount
<1>4. ASSUME NEW n \in Nodes, NEW c \in Cells
      PROVE  /\ inflight'[n][c] = Shares("held", call', Calls, {n}, c)
             /\ speculative'[n][c] = Shares("announced", call', Calls, {n}, c)
  <2> DEFINE a == Shares("held", call, Calls, {n}, c)
             b == Shares("held", call', Calls, {n}, c)
             d == Shares("announced", call, Calls, {n}, c)
             e == Shares("announced", call', Calls, {n}, c)
  <2>1. a \in Nat /\ b \in Nat /\ d \in Nat /\ e \in Nat
    BY <1>1, SharesType
  <2>2. inflight[n][c] = a /\ speculative[n][c] = d
    BY DEF ShareInv, HeldIsInflight, AnnouncedIsSpeculative
  <2>3. inflight'[n][c] \in Int /\ speculative'[n][c] \in Int
    BY DEF IndInv, TypeOK, PerCell
  <2>4. inflight'[n][c] - inflight[n][c] = b - a /\ speculative'[n][c] - speculative[n][c] = e - d
    OBVIOUS
  <2> HIDE DEF a, b, d, e
  <2>5. inflight'[n][c] = b /\ speculative'[n][c] = e
    BY <2>1, <2>2, <2>3, <2>4
  <2> QED BY <2>5 DEF b, e
<1> QED
  BY <1>2, <1>3, <1>4 DEF ShareInv, HeldIsInflight, AnnouncedIsSpeculative

\* The step a batch takes, by the change x and y of the two sums.
BatchStep(g) ==
    \/ AddSpeculative(g) \/ AddVal(g) \/ Evaluate(g) \/ UndoVal(g)
    \/ UndoSpeculative(g) \/ CommitRequest(g) \/ BufferRequest(g)

\* A step of a batch moves one goroutine within its requests.
LEMMA BatchStepMoves ==
    ASSUME IndInv, IndInv', CallsShaped, NEW g \in Calls, BatchStep(g)
    PROVE  /\ Moves(g) /\ Same(call[g], call'[g]) /\ Shape(call'[g]) /\ At(g) \in Active
           /\ globalCount' = globalCount
<1>1. Moves(g) /\ Same(call[g], call'[g]) /\ Shape(call'[g])
  BY AddSpeculativeMoves, AddValMoves, EvaluateMoves, UndoValMoves, UndoSpeculativeMoves,
     CommitRequestMoves, BufferRequestMoves DEF BatchStep
<1>2. At(g) \in Active
  BY DEF BatchStep, AddSpeculative, AddVal, Evaluate, UndoVal, UndoSpeculative, CommitRequest,
         BufferRequest, Active, CallStates
<1>3. globalCount' = globalCount
  BY DEF BatchStep, AddSpeculative, AddVal, Evaluate, UndoVal, UndoSpeculative, CommitRequest,
         BufferRequest
<1> QED
  BY <1>1, <1>2, <1>3

\* Each step of a batch changes the counters by what it changes the shares.
LEMMA BatchShares ==
    ASSUME ShareInv, IndInv', NEW g \in Calls, BatchStep(g)
    PROVE  ShareInv'
<1>1. IndInv /\ CallsShaped
  BY DEF ShareInv
<1>2. /\ Moves(g) /\ Same(call[g], call'[g]) /\ Shape(call'[g]) /\ At(g) \in Active
      /\ globalCount' = globalCount
  BY <1>1, BatchStepMoves
<1>3. /\ NodeOf(g) \in Nodes /\ CellOf(g) \in Cells /\ Req(g).cost \in Nat
      /\ call \in [Calls -> CallRecords]
  BY <1>1, <1>2, Standing
<1>4. inflight \in PerCell(Int) /\ speculative \in PerCell(Int)
  BY DEF ShareInv, IndInv, TypeOK
<1> DEFINE n == NodeOf(g)
           c == CellOf(g)
           x == Req(g).cost
           Hold(m, d) == Shares("held", call', Calls, {m}, d) - Shares("held", call, Calls, {m}, d)
           Announce(m, d) == Shares("announced", call', Calls, {m}, d)
                                - Shares("announced", call, Calls, {m}, d)
           Same0(f, new) == \A m \in Nodes, d \in Cells : new[m][d] - f[m][d] = 0
           Up(f, new) == \A m \in Nodes, d \in Cells : new[m][d] - f[m][d] = Delta(g, {m}, d)
           Down(f, new) == \A m \in Nodes, d \in Cells : new[m][d] - f[m][d] = -Delta(g, {m}, d)
<1>5. ASSUME NEW m \in Nodes, NEW d \in Cells
      PROVE  /\ Grows("held", g) => Hold(m, d) = Delta(g, {m}, d)
             /\ Shrinks("held", g) => Hold(m, d) = -Delta(g, {m}, d)
             /\ Stays("held", g) => Hold(m, d) = 0
             /\ Grows("announced", g) => Announce(m, d) = Delta(g, {m}, d)
             /\ Shrinks("announced", g) => Announce(m, d) = -Delta(g, {m}, d)
             /\ Stays("announced", g) => Announce(m, d) = 0
  <2>1. ASSUME NEW what
        PROVE  LET old == Shares(what, call, Calls, {m}, d)
                   new == Shares(what, call', Calls, {m}, d)
               IN /\ Grows(what, g) => new - old = Delta(g, {m}, d)
                  /\ Shrinks(what, g) => new - old = -Delta(g, {m}, d)
                  /\ Stays(what, g) => new - old = 0
    <3> DEFINE old == Shares(what, call, Calls, {m}, d)
               new == Shares(what, call', Calls, {m}, d)
    <3>1. old \in Nat
      BY <1>3, SharesType
    <3>2. Delta(g, {m}, d) \in Int
      BY <1>1, <1>2, DeltaType
    <3>3. Grows(what, g) => new = old + Delta(g, {m}, d)
      BY <1>1, <1>2, SharesGrow
    <3>4. Shrinks(what, g) => new = old - Delta(g, {m}, d)
      BY <1>1, <1>2, SharesShrink
    <3>5. Stays(what, g) => new = old
      BY <1>1, <1>2, SharesStay
    <3> HIDE DEF old, new
    <3>6. /\ Grows(what, g) => new - old = Delta(g, {m}, d)
          /\ Shrinks(what, g) => new - old = -Delta(g, {m}, d)
          /\ Stays(what, g) => new - old = 0
      BY <3>1, <3>2, <3>3, <3>4, <3>5
    <3> QED BY <3>6 DEF old, new
  <2> QED BY <2>1
<1>6. ASSUME NEW f \in PerCell(Int), NEW new
      PROVE  /\ new = f => Same0(f, new)
             /\ new = [f EXCEPT ![n][c] = f[n][c] + x] => Up(f, new)
             /\ new = [f EXCEPT ![n][c] = f[n][c] - x] => Down(f, new)
  <2> USE <1>3
  <2> HIDE DEF n, c, x
  <2>1. n \in Nodes /\ c \in Cells /\ x \in Nat
    BY DEF n, c, x
  <2>2. \A m \in Nodes, d \in Cells : Delta(g, {m}, d) = IF m = n /\ d = c THEN x ELSE 0
    BY DEF Delta, n, c, x
  <2> QED BY <2>1, <2>2 DEF PerCell
<1> HIDE DEF Hold, Announce, Same0, Up, Down, n, c, x
<1> SUFFICES \A m \in Nodes, d \in Cells :
               /\ inflight'[m][d] - inflight[m][d] = Hold(m, d)
               /\ speculative'[m][d] - speculative[m][d] = Announce(m, d)
  BY <1>2, BatchStepShares DEF Hold, Announce
<1>7. CASE AddSpeculative(g)
  <2>1. Grows("announced", g) /\ Stays("held", g)
    BY <1>1, <1>7, AddSpeculativeMoves
  <2>2. inflight' = inflight /\ speculative' = [speculative EXCEPT ![n][c] = speculative[n][c] + x]
    BY <1>7 DEF AddSpeculative, ghostVars, n, c, x
  <2>3. Same0(inflight, inflight') /\ Up(speculative, speculative')
    BY <1>4, <1>6, <2>2
  <2> QED BY <1>5, <2>1, <2>3 DEF Same0, Up
<1>8. CASE AddVal(g)
  <2>1. Grows("held", g) /\ Stays("announced", g)
    BY <1>1, <1>8, AddValMoves
  <2>2. speculative' = speculative /\ inflight' = [inflight EXCEPT ![n][c] = inflight[n][c] + x]
    BY <1>8 DEF AddVal, n, c, x
  <2>3. Same0(speculative, speculative') /\ Up(inflight, inflight')
    BY <1>4, <1>6, <2>2
  <2> QED BY <1>5, <2>1, <2>3 DEF Same0, Up
<1>9. CASE Evaluate(g)
  <2>1. Stays("held", g) /\ Stays("announced", g)
    BY <1>1, <1>9, EvaluateMoves
  <2>2. speculative' = speculative /\ inflight' = inflight
    BY <1>9 DEF Evaluate, entryVars, ghostVars
  <2>3. Same0(speculative, speculative') /\ Same0(inflight, inflight')
    BY <1>4, <1>6, <2>2
  <2> QED BY <1>5, <2>1, <2>3 DEF Same0
<1>10. CASE UndoVal(g)
  <2>1. Shrinks("held", g) /\ Stays("announced", g)
    BY <1>1, <1>10, UndoValMoves
  <2>2. speculative' = speculative /\ inflight' = [inflight EXCEPT ![n][c] = inflight[n][c] - x]
    BY <1>10 DEF UndoVal, n, c, x
  <2>3. Same0(speculative, speculative') /\ Down(inflight, inflight')
    BY <1>4, <1>6, <2>2
  <2> QED BY <1>5, <2>1, <2>3 DEF Same0, Down
<1>11. CASE UndoSpeculative(g)
  <2>1. Shrinks("announced", g) /\ Stays("held", g)
    BY <1>1, <1>11, UndoSpeculativeMoves
  <2>2. inflight' = inflight /\ speculative' = [speculative EXCEPT ![n][c] = speculative[n][c] - x]
    BY <1>11 DEF UndoSpeculative, ghostVars, n, c, x
  <2>3. Same0(inflight, inflight') /\ Down(speculative, speculative')
    BY <1>4, <1>6, <2>2
  <2> QED BY <1>5, <2>1, <2>3 DEF Same0, Down
<1>12. CASE CommitRequest(g)
  <2>1. Shrinks("announced", g) /\ Shrinks("held", g)
    BY <1>1, <1>12, CommitRequestMoves
  <2>2. /\ inflight' = [inflight EXCEPT ![n][c] = inflight[n][c] - x]
        /\ speculative' = [speculative EXCEPT ![n][c] = speculative[n][c] - x]
    BY <1>12 DEF CommitRequest, n, c, x
  <2>3. Down(inflight, inflight') /\ Down(speculative, speculative')
    BY <1>4, <1>6, <2>2
  <2> QED BY <1>5, <2>1, <2>3 DEF Down
<1>13. CASE BufferRequest(g)
  <2>1. Stays("held", g) /\ Stays("announced", g)
    BY <1>1, <1>13, BufferRequestMoves
  <2>2. speculative' = speculative /\ inflight' = inflight
    BY <1>13 DEF BufferRequest, entryVars, ghostVars
  <2>3. Same0(speculative, speculative') /\ Same0(inflight, inflight')
    BY <1>4, <1>6, <2>2
  <2> QED BY <1>5, <2>1, <2>3 DEF Same0
<1> QED
  BY <1>7, <1>8, <1>9, <1>10, <1>11, <1>12, <1>13 DEF BatchStep

\* What a restart does to the goroutines: those of the pod are gone, or had returned.
LEMMA RestartRecords ==
    ASSUME IndInv, IndInv', CallsShaped, NEW n \in Nodes, Restart(n), NEW g \in Calls
    PROVE  /\ call'[g].node = call[g].node /\ Shape(call'[g])
           /\ NodeOf(g) = n => Quiet(call'[g])
           /\ NodeOf(g) # n => call'[g] = call[g]
<1>1. call[g] \in CallRecords /\ Shape(call[g])
  BY DEF IndInv, TypeOK, CallsShaped
<1>2. call'[g] = IF NodeOf(g) = n /\ At(g) \notin {"allowed", "denied"}
                 THEN [call[g] EXCEPT !.pc = "crashed"] ELSE call[g]
  BY DEF Restart, CallsOn
<1>3. CASE NodeOf(g) = n /\ At(g) \notin {"allowed", "denied"}
  <2>1. /\ call'[g].pc = "crashed" /\ call'[g].node = call[g].node /\ call'[g].reqs = call[g].reqs
        /\ call'[g].globals = call[g].globals
    BY <1>1, <1>2, <1>3 DEF CallRecords
  <2>2. Shape(call'[g])
    BY <1>1, <2>1, LateShape
  <2> QED BY <1>3, <2>1, <2>2 DEF Quiet, CallStates
<1>4. CASE ~(NodeOf(g) = n /\ At(g) \notin {"allowed", "denied"})
  <2>1. call'[g] = call[g]
    BY <1>2, <1>4
  <2>2. NodeOf(g) = n => Quiet(call[g])
    BY <1>4 DEF Quiet, CallStates, At
  <2> QED BY <1>1, <2>1, <2>2
<1> QED
  BY <1>3, <1>4

\* Equal shares have equal sums.
LEMMA SharesSame ==
    ASSUME NEW calls \in [Calls -> CallRecords], NEW next, NEW what, NEW G \in SUBSET Calls,
           NEW N, NEW c \in Cells,
           \A g \in G : Share(what, next[g], N, c) = Share(what, calls[g], N, c)
    PROVE  Shares(what, next, G, N, c) = Shares(what, calls, G, N, c)
<1> DEFINE f == [h \in Calls |-> Share(what, calls[h], N, c)]
           k == [h \in Calls |-> Share(what, next[h], N, c)]
<1>1. \A h \in G : f[h] \in Int /\ f[h] = k[h]
  BY ShareType
<1>2. IsFiniteSet(G)
  BY FiniteAssumption, FS_Subset
<1> HIDE DEF f, k
<1>3. SumFunctionOnSet(f, G) = SumFunctionOnSet(k, G)
  BY <1>1, <1>2, SumSame
<1> QED
  BY <1>3 DEF Shares, f, k

\* The pod has no shares left, the others keep theirs.
LEMMA RestartParts ==
    ASSUME IndInv, IndInv', CallsShaped, NEW n \in Nodes, Restart(n), NEW what \in Kinds,
           NEW G \in SUBSET Calls, NEW m \in Nodes, NEW c \in Cells
    PROVE  Shares(what, call', G, {m}, c) = IF m = n THEN 0 ELSE Shares(what, call, G, {m}, c)
<1>1. call \in [Calls -> CallRecords] /\ call' \in [Calls -> CallRecords]
  BY DEF IndInv, TypeOK
<1>2. CASE m = n
  <2>1. ASSUME NEW g \in G PROVE Share(what, call'[g], {m}, c) = 0
    <3>1. call'[g] \in CallRecords /\ call'[g].node = call[g].node
          /\ (NodeOf(g) = n => Quiet(call'[g]))
      BY <1>1, RestartRecords
    <3>2. CASE NodeOf(g) = n
      BY <3>1, <3>2, QuietShare
    <3>3. CASE NodeOf(g) # n
      BY <1>2, <3>1, <3>3 DEF Share, NodeOf
    <3> QED BY <3>2, <3>3
  <2>2. Shares(what, call', G, {m}, c) = 0
    BY <1>1, <2>1, NoShares
  <2> QED BY <1>2, <2>2
<1>3. CASE m # n
  <2>1. ASSUME NEW g \in G PROVE Share(what, call'[g], {m}, c) = Share(what, call[g], {m}, c)
    <3>1. call'[g].node = call[g].node /\ (NodeOf(g) # n => call'[g] = call[g])
      BY RestartRecords
    <3>2. CASE NodeOf(g) = m
      BY <1>3, <3>1, <3>2
    <3>3. CASE NodeOf(g) # m
      BY <3>1, <3>3 DEF Share, NodeOf
    <3> QED BY <3>2, <3>3
  <2>2. Shares(what, call', G, {m}, c) = Shares(what, call, G, {m}, c)
    BY <1>1, <2>1, SharesSame
  <2> QED BY <1>3, <2>2
<1> QED
  BY <1>2, <1>3

\* A restart zeroes the counters and ends every goroutine of the node.
LEMMA RestartShares ==
    ASSUME ShareInv, IndInv', NEW n \in Nodes, Restart(n)
    PROVE  ShareInv'
<1>1. IndInv /\ CallsShaped
  BY DEF ShareInv
<1>2. CallsShaped'
  BY <1>1, RestartRecords DEF CallsShaped
<1>3. GlobalsCount'
  BY <1>1 DEF ShareInv, GlobalsCount, Restart, IndInv, TypeOK, PerCell
<1>4. "held" \in Kinds /\ "announced" \in Kinds
  BY DEF Kinds
<1>5. ASSUME NEW m \in Nodes, NEW c \in Cells
      PROVE  /\ Shares("held", call', Calls, {m}, c)
                  = IF m = n THEN 0 ELSE Shares("held", call, Calls, {m}, c)
             /\ Shares("announced", call', Calls, {m}, c)
                  = IF m = n THEN 0 ELSE Shares("announced", call, Calls, {m}, c)
  BY <1>1, <1>4, RestartParts
<1>6. ASSUME NEW m \in Nodes, NEW c \in Cells
      PROVE  /\ inflight'[m][c] = IF m = n THEN 0 ELSE inflight[m][c]
             /\ speculative'[m][c] = IF m = n THEN 0 ELSE speculative[m][c]
  BY <1>1 DEF Restart, IndInv, TypeOK, PerCell
<1>7. HeldIsInflight' /\ AnnouncedIsSpeculative'
  BY ZenonT(40), <1>5, <1>6 DEF ShareInv, HeldIsInflight, AnnouncedIsSpeculative
<1> QED
  BY <1>2, <1>3, <1>7 DEF ShareInv

\* Every step but a restart is a quiet step, a step of a batch or one of the replay.
LEMMA Steps ==
    ASSUME RequestNext
    PROVE  \/ \E g \in Calls : QuietStep(g) \/ BatchStep(g)
           \/ \E n \in Nodes, w \in Workers : ReplayStep(n, w)
BY DEF RequestNext, CallStep, QuietStep, BatchStep

\* The replay workers leave the goroutines, inflight and speculative alone.
LEMMA ReplayLeaves ==
    ASSUME NEW n \in Nodes, NEW w \in Workers, ReplayStep(n, w)
    PROVE  UNCHANGED <<call, inflight, speculative, globalCount, committed, admitted>>
BY DEF ReplayStep, ReplayIncrement, ReplayTimesOut, ReplayFails, ReplayMerge, entryVars, ghostVars

\* Steps that leave goroutines and counters alone keep the shares.
LEMMA ShareUnchanged ==
    ASSUME ShareInv, IndInv', UNCHANGED <<call, inflight, speculative, globalCount>>
    PROVE  ShareInv'
BY DEF ShareInv, CallsShaped, GlobalsCount, HeldIsInflight, AnnouncedIsSpeculative

\* The shares are preserved by every step.
LEMMA ShareStep == ShareInv /\ [Next]_vars => ShareInv'
<1> SUFFICES ASSUME ShareInv, [Next]_vars PROVE ShareInv'
  OBVIOUS
<1>1. IndInv'
  BY StepInv DEF ShareInv
<1>2. ASSUME NEW g \in Calls, QuietStep(g) PROVE ShareInv'
  BY <1>1, <1>2, QuietStepShares
<1>3. ASSUME NEW g \in Calls, BatchStep(g) PROVE ShareInv'
  BY <1>1, <1>3, BatchShares
<1>4. ASSUME NEW n \in Nodes, NEW w \in Workers, ReplayStep(n, w) PROVE ShareInv'
  BY <1>1, <1>4, ReplayLeaves, ShareUnchanged
<1>5. ASSUME NEW n \in Nodes, Restart(n) PROVE ShareInv'
  BY <1>1, <1>5, RestartShares
<1>6. ASSUME UNCHANGED vars PROVE ShareInv'
  BY <1>1, <1>6, ShareUnchanged DEF vars, entryVars, ghostVars
<1> QED
  BY <1>2, <1>3, <1>4, <1>5, <1>6, Steps DEF Next

\* What is held is announced.
LEMMA HeldIsAnnounced ==
    ASSUME ShareInv
    PROVE  SpeculativeCoversInflight /\ \A n \in Nodes, c \in Cells : inflight[n][c] >= 0
<1>1. call \in [Calls -> CallRecords]
  BY DEF ShareInv, IndInv, TypeOK
<1> SUFFICES ASSUME NEW n \in Nodes, NEW c \in Cells
             PROVE  inflight[n][c] <= speculative[n][c] /\ inflight[n][c] >= 0
  BY DEF SpeculativeCoversInflight
<1> DEFINE f == [g \in Calls |-> Share("held", call[g], {n}, c)]
           k == [g \in Calls |-> Share("announced", call[g], {n}, c)]
<1>2. ASSUME NEW g \in Calls PROVE f[g] \in Int /\ k[g] \in Int /\ f[g] <= k[g]
  <2> DEFINE rec == call[g]
             reqs == rec.reqs
             P == Part("held", rec)
             Q == Part("announced", rec)
             fP == SumFunctionOnSet(Costs(reqs, c), P)
             fQ == SumFunctionOnSet(Costs(reqs, c), Q)
  <2>1. rec \in CallRecords /\ reqs \in Seq(Requests) /\ rec.i \in Nat /\ Len(reqs) \in Nat
    BY <1>1 DEF CallRecords
  <2>2. P \subseteq Q /\ Q \in SUBSET (1..Len(reqs)) /\ P \in SUBSET (1..Len(reqs))
    BY <2>1 DEF Part, IsIn
  <2>3. fP <= fQ
    <3> DEFINE h == Costs(reqs, c)
               zero == [j \in 1..Len(reqs) |-> IF j \in P THEN h[j] ELSE 0]
    <3>1. IsFiniteSet(Q) /\ IsFiniteSet(P) /\ (\A j \in Q : h[j] \in Nat) /\ (\A j \in P : h[j] \in Nat)
      BY <2>1, <2>2, SomeCosts
    <3>2. \A j \in Q : zero[j] \in Int /\ h[j] \in Int /\ zero[j] <= h[j]
      BY <2>2, <3>1
    <3>3. \A j \in Q \ P : zero[j] = 0
      BY <2>2
    <3>4. \A j \in P : h[j] \in Int /\ h[j] = zero[j]
      BY <2>2, <3>1
    <3> HIDE DEF h, zero, P, Q, rec
    <3>5. SumFunctionOnSet(zero, Q) <= SumFunctionOnSet(h, Q)
      BY <3>1, <3>2, SumLeq
    <3>6. SumFunctionOnSet(zero, Q) = SumFunctionOnSet(zero, P)
      BY <2>2, <3>1, <3>2, <3>3, SumSupport
    <3>7. SumFunctionOnSet(h, P) = SumFunctionOnSet(zero, P)
      BY <3>1, <3>4, SumSame
    <3> QED BY <3>5, <3>6, <3>7 DEF h
  <2>4. Share("held", rec, {n}, c) \in Int /\ Share("announced", rec, {n}, c) \in Int
    BY <2>1, ShareType
  <2>5. Share("held", rec, {n}, c) <= Share("announced", rec, {n}, c)
    BY <2>3 DEF Share
  <2> QED BY <2>4, <2>5
<1> HIDE DEF f, k
<1>3. SumFunctionOnSet(f, Calls) <= SumFunctionOnSet(k, Calls)
  BY <1>2, FiniteAssumption, SumLeq
<1>4. inflight[n][c] = Shares("held", call, Calls, {n}, c)
      /\ speculative[n][c] = Shares("announced", call, Calls, {n}, c)
  BY DEF ShareInv, HeldIsInflight, AnnouncedIsSpeculative
<1>5. Shares("held", call, Calls, {n}, c) \in Nat
  BY <1>1, SharesType
<1> QED
  BY <1>3, <1>4, <1>5 DEF Shares, f, k

\* speculative covers every increment of val that may still be rolled back, at every
\* step of every batch, which is what the subtraction in the push loop relies on.
THEOREM SpeculativeCovers == Spec => []SpeculativeCoversInflight
<1>1. ShareInv => SpeculativeCoversInflight
  BY HeldIsAnnounced
<1> QED
  BY <1>1, ShareInit, ShareStep, PTL DEF Spec

----------------------------------------------------------------------------
\* Nobody waits on a gate without an owner

\* The goroutines inside a gate after a step of one of them.
LEMMA InsideAfter ==
    ASSUME call \in [Calls -> CallRecords], call' \in [Calls -> CallRecords],
           NEW g \in Calls, Moves(g), NEW pc, NEW n, NEW c
    PROVE  Inside(call', pc, n, c) =
              (Inside(call, pc, n, c) \ {g})
                \cup (IF /\ call'[g].node = n /\ call'[g].pc = pc
                         /\ call'[g].reqs[call'[g].i].cell = c THEN {g} ELSE {})
BY DEF Inside, Moves

\* A step of a goroutine that neither enters nor leaves a gate.
LEMMA GateUntouched ==
    ASSUME GateInv, IndInv', NEW g \in Calls, Moves(g),
           {call[g].pc, call'[g].pc} \cap {"coldMerge", "staleMerge"} = {},
           hydration' = hydration, staleMu' = staleMu,
           \A j \in Passed(call'[g]) :
              hydration[call'[g].node][call'[g].reqs[j].cell] = "warm"
    PROVE  GateInv'
<1>1. call \in [Calls -> CallRecords] /\ call' \in [Calls -> CallRecords]
  BY DEF GateInv, IndInv, TypeOK
<1>2. ASSUME NEW pc \in {"coldMerge", "staleMerge"}, NEW n, NEW c
      PROVE  Inside(call', pc, n, c) = Inside(call, pc, n, c)
  <2>1. call[g].pc # pc /\ call'[g].pc # pc
    OBVIOUS
  <2>2. g \notin Inside(call, pc, n, c)
    BY <2>1 DEF Inside
  <2>3. Inside(call', pc, n, c) =
          (Inside(call, pc, n, c) \ {g})
            \cup (IF /\ call'[g].node = n /\ call'[g].pc = pc
                     /\ call'[g].reqs[call'[g].i].cell = c THEN {g} ELSE {})
    BY <1>1, InsideAfter
  <2> QED BY <2>1, <2>2, <2>3
<1>3. ColdOwned' /\ StaleOwned'
  BY <1>2 DEF GateInv, ColdOwned, StaleOwned
<1>4. PassedIsWarm'
  <2> SUFFICES ASSUME NEW h \in Calls, NEW j \in Passed(call'[h])
               PROVE  hydration[call'[h].node][call'[h].reqs[j].cell] = "warm"
    BY DEF PassedIsWarm, NodeOf
  <2>1. CASE h = g
    BY <2>1
  <2>2. CASE h # g
    <3>1. call'[h] = call[h]
      BY <1>1, <2>2 DEF Moves
    <3> QED BY <3>1 DEF GateInv, PassedIsWarm, NodeOf
  <2> QED BY <2>1, <2>2
<1> QED
  BY <1>3, <1>4 DEF GateInv

\* What goroutine g has passed is warm.
LEMMA PassedNow ==
    ASSUME GateInv, NEW g \in Calls, NEW j \in Passed(call[g])
    PROVE  hydration[call[g].node][call[g].reqs[j].cell] = "warm"
BY DEF GateInv, PassedIsWarm, NodeOf

\* A step that moves on without passing another gate.
LEMMA NoGate ==
    ASSUME GateInv, IndInv', NEW g \in Calls, Moves(g),
           {call[g].pc, call'[g].pc} \cap {"coldMerge", "staleMerge"} = {},
           hydration' = hydration, staleMu' = staleMu,
           call'[g].node = call[g].node, call'[g].reqs = call[g].reqs,
           Passed(call'[g]) \subseteq Passed(call[g])
    PROVE  GateInv'
<1>1. \A j \in Passed(call'[g]) : hydration[call'[g].node][call'[g].reqs[j].cell] = "warm"
  BY PassedNow
<1> QED
  BY <1>1, GateUntouched

\* A batch passes its requests' gates one after the other.
LEMMA BatchGate ==
    ASSUME GateInv, CallsShaped, IndInv', NEW g \in Calls, BatchStep(g)
    PROVE  GateInv'
<1>1. IndInv
  BY DEF GateInv
<1>2. Moves(g) /\ call'[g].node = call[g].node /\ call'[g].reqs = call[g].reqs
  BY <1>1, BatchStepMoves DEF Same
<1>3. hydration' = hydration /\ staleMu' = staleMu
  BY DEF BatchStep, AddSpeculative, AddVal, Evaluate, UndoVal, UndoSpeculative, CommitRequest,
         BufferRequest, entryVars
<1>4. call \in [Calls -> CallRecords] /\ call[g] \in CallRecords
  BY <1>1 DEF IndInv, TypeOK
<1>5. /\ call[g].pc \in {"addSpec", "addVal", "evaluate", "undoVal", "undoSpec", "commit", "buffer"}
      /\ call'[g].pc \in {"addSpec", "addVal", "evaluate", "undoVal", "undoSpec", "commit", "buffer",
                          "denied", "allowed"}
      /\ call'[g].pc \in {"addSpec", "addVal"} => call[g].pc \in {"addSpec", "addVal"}
  <2>1. CASE AddSpeculative(g)
    BY <1>4, <2>1 DEF AddSpeculative, At, CallRecords
  <2>2. CASE AddVal(g)
    <3> DEFINE round == NextRound(g, "addSpec", "evaluate")
    <3>1. round.pc = IF IsLast(g) THEN "evaluate" ELSE "addSpec"
      BY <1>4, RoundFields
    <3>2. round \in CallRecords
      BY <1>1, <2>2, NextRoundType DEF IndInv, AddVal, Active, CallStates
    <3>3. call' = [call EXCEPT ![g] = [round EXCEPT !.counts = Append(round.counts, val'[NodeOf(g)][CellOf(g)])]]
          /\ call[g].pc = "addVal"
      BY <2>2 DEF AddVal, At
    <3> HIDE DEF round
    <3>4. call'[g].pc = round.pc
      BY <1>4, <3>2, <3>3 DEF CallRecords
    <3> QED BY <3>1, <3>3, <3>4
  <2>3. CASE Evaluate(g)
    <3>1. call[g].pc = "evaluate"
      BY <2>3 DEF Evaluate, At
    <3>2. call'[g].pc \in {"commit", "undoVal"}
      BY <1>4, <2>3 DEF Evaluate, CallRecords
    <3> QED BY <3>1, <3>2
  <2>4. CASE UndoVal(g)
    BY <1>4, <2>4 DEF UndoVal, At, CallRecords
  <2>5. CASE UndoSpeculative(g)
    <3>1. call'[g] = NextRound(g, "undoVal", "denied") /\ call[g].pc = "undoSpec"
      BY <1>4, <2>5 DEF UndoSpeculative, At
    <3>2. call'[g].pc \in {"undoVal", "denied"}
      BY <1>4, <3>1, RoundFields
    <3> QED BY <3>1, <3>2
  <2>6. CASE CommitRequest(g)
    <3>1. call'[g] = NextRound(g, "commit", "buffer") /\ call[g].pc = "commit"
      BY <1>4, <2>6 DEF CommitRequest, At
    <3>2. call'[g].pc \in {"commit", "buffer"}
      BY <1>4, <3>1, RoundFields
    <3> QED BY <3>1, <3>2
  <2>7. CASE BufferRequest(g)
    <3>1. call'[g] = NextRound(g, "buffer", "allowed") /\ call[g].pc = "buffer"
      BY <1>4, <2>7 DEF BufferRequest, At
    <3>2. call'[g].pc \in {"allowed", "buffer"}
      BY <1>4, <3>1, RoundFields
    <3> QED BY <3>1, <3>2
  <2> QED BY <2>1, <2>2, <2>3, <2>4, <2>5, <2>6, <2>7 DEF BatchStep
<1>6. Passed(call'[g]) \subseteq Passed(call[g])
  BY <1>2, <1>5 DEF Passed, HasPassed
<1>7. {call[g].pc, call'[g].pc} \cap {"coldMerge", "staleMerge"} = {}
  BY <1>5
<1> QED
  BY <1>2, <1>3, <1>6, <1>7, NoGate

\* Who is inside a gate after a step that leaves the goroutine at its request.
LEMMA GateMove ==
    ASSUME IndInv, IndInv', NEW g \in Calls, Moves(g), call'[g].node = NodeOf(g),
           call'[g].reqs = call[g].reqs, call'[g].i = call[g].i,
           NEW pc \in {"coldMerge", "staleMerge"}, NEW m, NEW d
    PROVE  Inside(call', pc, m, d) =
              (Inside(call, pc, m, d) \ {g})
                \cup (IF call'[g].pc = pc /\ m = NodeOf(g) /\ d = CellOf(g) THEN {g} ELSE {})
<1>1. call \in [Calls -> CallRecords] /\ call' \in [Calls -> CallRecords]
  BY DEF IndInv, TypeOK
<1>2. Inside(call', pc, m, d) =
        (Inside(call, pc, m, d) \ {g})
          \cup (IF /\ call'[g].node = m /\ call'[g].pc = pc
                   /\ call'[g].reqs[call'[g].i].cell = d THEN {g} ELSE {})
  BY <1>1, InsideAfter
<1>3. call'[g].reqs[call'[g].i].cell = CellOf(g)
  BY DEF CellOf, Req
<1> QED
  BY <1>2, <1>3

\* A goroutine is inside the gate of its own cell only.
LEMMA InsideOwn ==
    ASSUME NEW g \in Calls, NEW pc, NEW m, NEW d
    PROVE  g \in Inside(call, pc, m, d) <=> At(g) = pc /\ m = NodeOf(g) /\ d = CellOf(g)
BY DEF Inside, At, NodeOf, CellOf, Req

\* Warm entries stay warm, and so does what was passed.
LEMMA WarmStays ==
    ASSUME GateInv, IndInv', NEW g \in Calls, Moves(g), call'[g].node = NodeOf(g),
           call'[g].reqs = call[g].reqs,
           \A m \in Nodes, d \in Cells : hydration[m][d] = "warm" => hydration'[m][d] = "warm",
           \A j \in Passed(call'[g]) :
              j \in Passed(call[g]) \/ hydration'[NodeOf(g)][call[g].reqs[j].cell] = "warm"
    PROVE  PassedIsWarm'
<1> SUFFICES ASSUME NEW h \in Calls, NEW j \in Passed(call'[h])
             PROVE  hydration'[call'[h].node][call'[h].reqs[j].cell] = "warm"
  BY DEF PassedIsWarm, NodeOf
<1>1. call'[h].node = call[h].node /\ call'[h].reqs = call[h].reqs /\ (h # g => call'[h] = call[h])
  BY DEF Moves, NodeOf, GateInv, IndInv, TypeOK
<1>2. CASE j \in Passed(call[h])
  <2> DEFINE x == call[h].node
             y == call[h].reqs[j].cell
  <2>1. hydration[x][y] = "warm"
    BY <1>2, PassedNow
  <2>2. x \in Nodes /\ y \in Cells
    <3>1. At(h) \in Active /\ j \in 1..Len(call[h].reqs)
      BY <1>2 DEF Passed, HasPassed, Active, CallStates, At
    <3>2. NodeOf(h) \in Nodes /\ call[h].reqs \in Seq(Requests)
      BY <3>1, Standing DEF GateInv
    <3>3. call[h].reqs[j] \in Requests
      BY <3>1, <3>2
    <3> QED BY <3>2, <3>3 DEF Requests, NodeOf
  <2>3. hydration'[x][y] = "warm"
    BY <2>1, <2>2
  <2> QED BY <1>1, <2>3
<1>3. CASE j \notin Passed(call[h])
  <2>1. h = g
    BY <1>1, <1>3
  <2> QED BY <1>1, <1>3, <2>1 DEF NodeOf
<1> QED
  BY <1>2, <1>3

\* The steps at a gate.
LEMMA FetchColdGate ==
    ASSUME GateInv, IndInv', NEW g \in Calls, FetchCold(g)
    PROVE  GateInv'
<1> DEFINE n == NodeOf(g)
           c == CellOf(g)
<1>1. At(g) \in Active /\ At(g) = "ensure" /\ hydration[n][c] = "cold" /\ IndInv
  BY DEF FetchCold, Active, CallStates, GateInv
<1>2. /\ n \in Nodes /\ c \in Cells /\ call \in [Calls -> CallRecords] /\ call[g] \in CallRecords
      /\ call[g].i \in 1..Len(call[g].reqs) /\ Len(call[g].reqs) \in Nat
  BY <1>1, Standing
<1>3. PICK got : call' = [call EXCEPT ![g].pc = "coldMerge", ![g].got = got]
  BY DEF FetchCold
<1>4. /\ Moves(g) /\ call'[g].pc = "coldMerge" /\ call'[g].node = NodeOf(g)
      /\ call'[g].reqs = call[g].reqs /\ call'[g].i = call[g].i
  BY <1>2, <1>3 DEF Moves, CallRecords, NodeOf
<1>5. hydration' = [hydration EXCEPT ![n][c] = "fetching"] /\ staleMu' = staleMu
      /\ hydration \in PerCell({"cold", "fetching", "warm"})
  BY DEF FetchCold, GateInv, IndInv, TypeOK
<1>6. \A m \in Nodes, d \in Cells :
        hydration'[m][d] = IF m = n /\ d = c THEN "fetching" ELSE hydration[m][d]
  <2> HIDE DEF n, c
  <2> QED BY <1>2, <1>5 DEF PerCell
<1>7. ASSUME NEW m \in Nodes, NEW d \in Cells
      PROVE  Owned(hydration'[m][d] = "fetching", Inside(call', "coldMerge", m, d))
  <2>1. Inside(call', "coldMerge", m, d) =
          (Inside(call, "coldMerge", m, d) \ {g}) \cup (IF m = n /\ d = c THEN {g} ELSE {})
    BY <1>1, <1>4, GateMove
  <2>2. g \notin Inside(call, "coldMerge", m, d)
    BY <1>1, InsideOwn
  <2>3. Owned(hydration[m][d] = "fetching", Inside(call, "coldMerge", m, d))
    BY DEF GateInv, ColdOwned
  <2>4. CASE m = n /\ d = c
    <3>1. Inside(call, "coldMerge", m, d) = {}
      BY <1>1, <2>3, <2>4 DEF Owned
    <3> QED BY <1>6, <2>1, <2>4, <3>1 DEF Owned
  <2>5. CASE ~(m = n /\ d = c)
    BY <1>6, <2>1, <2>2, <2>3, <2>5
  <2> QED BY <2>4, <2>5
<1>8. ASSUME NEW m \in Nodes, NEW d \in Cells
      PROVE  Inside(call', "staleMerge", m, d) = Inside(call, "staleMerge", m, d)
  <2>1. Inside(call', "staleMerge", m, d) =
          (Inside(call, "staleMerge", m, d) \ {g})
            \cup (IF call'[g].pc = "staleMerge" /\ m = n /\ d = c THEN {g} ELSE {})
    BY <1>1, <1>4, GateMove
  <2>2. g \notin Inside(call, "staleMerge", m, d)
    BY <1>1, InsideOwn
  <2> QED BY <1>4, <2>1, <2>2
<1>9. ColdOwned' /\ StaleOwned'
  BY <1>5, <1>7, <1>8 DEF GateInv, ColdOwned, StaleOwned
<1>10. PassedIsWarm'
  <2>1. Passed(call'[g]) = Passed(call[g])
    BY <1>1, <1>2, <1>4 DEF Passed, HasPassed, At
  <2>2. \A m \in Nodes, d \in Cells : hydration[m][d] = "warm" => hydration'[m][d] = "warm"
    BY <1>1, <1>6
  <2> QED BY <1>4, <2>1, <2>2, WarmStays
<1> QED
  BY <1>9, <1>10 DEF GateInv

\* Whoever takes staleMu finds nobody inside.
LEMMA FetchStaleGate ==
    ASSUME GateInv, IndInv', NEW g \in Calls, FetchStale(g)
    PROVE  GateInv'
<1> DEFINE n == NodeOf(g)
           c == CellOf(g)
<1>1. At(g) \in Active /\ At(g) = "ensure" /\ hydration[n][c] = "warm" /\ ~staleMu[n][c] /\ IndInv
  BY DEF FetchStale, Active, CallStates, GateInv
<1>2. /\ n \in Nodes /\ c \in Cells /\ call \in [Calls -> CallRecords] /\ call[g] \in CallRecords
      /\ call[g].i \in 1..Len(call[g].reqs) /\ Len(call[g].reqs) \in Nat
  BY <1>1, Standing
<1>3. PICK got : call' = [call EXCEPT ![g].pc = "staleMerge", ![g].got = got]
  BY DEF FetchStale
<1>4. /\ Moves(g) /\ call'[g].pc = "staleMerge" /\ call'[g].node = NodeOf(g)
      /\ call'[g].reqs = call[g].reqs /\ call'[g].i = call[g].i
  BY <1>2, <1>3 DEF Moves, CallRecords, NodeOf
<1>5. staleMu' = [staleMu EXCEPT ![n][c] = TRUE] /\ hydration' = hydration
      /\ staleMu \in PerCell(BOOLEAN)
  BY DEF FetchStale, GateInv, IndInv, TypeOK
<1>6. \A m \in Nodes, d \in Cells :
        IF m = n /\ d = c THEN staleMu'[m][d] ELSE staleMu'[m][d] = staleMu[m][d]
  <2> HIDE DEF n, c
  <2> QED BY <1>2, <1>5 DEF PerCell
<1>7. ASSUME NEW m \in Nodes, NEW d \in Cells
      PROVE  Owned(staleMu'[m][d], Inside(call', "staleMerge", m, d))
  <2>1. Inside(call', "staleMerge", m, d) =
          (Inside(call, "staleMerge", m, d) \ {g}) \cup (IF m = n /\ d = c THEN {g} ELSE {})
    BY <1>1, <1>4, GateMove
  <2>2. g \notin Inside(call, "staleMerge", m, d)
    BY <1>1, InsideOwn
  <2>3. Owned(staleMu[m][d], Inside(call, "staleMerge", m, d))
    BY DEF GateInv, StaleOwned
  <2>4. CASE m = n /\ d = c
    <3>1. Inside(call, "staleMerge", m, d) = {}
      BY <1>1, <2>3, <2>4 DEF Owned
    <3>2. Inside(call', "staleMerge", m, d) = {g} /\ staleMu'[m][d]
      BY <1>6, <2>1, <2>4, <3>1
    <3> QED BY <3>2 DEF Owned
  <2>5. CASE ~(m = n /\ d = c)
    <3>1. staleMu'[m][d] = staleMu[m][d] /\ Inside(call', "staleMerge", m, d) = Inside(call, "staleMerge", m, d)
      BY <1>6, <2>1, <2>2, <2>5
    <3> QED BY <2>3, <3>1
  <2> QED BY <2>4, <2>5
<1>8. ASSUME NEW m \in Nodes, NEW d \in Cells
      PROVE  Inside(call', "coldMerge", m, d) = Inside(call, "coldMerge", m, d)
  <2>1. Inside(call', "coldMerge", m, d) =
          (Inside(call, "coldMerge", m, d) \ {g})
            \cup (IF call'[g].pc = "coldMerge" /\ m = n /\ d = c THEN {g} ELSE {})
    BY <1>1, <1>4, GateMove
  <2>2. g \notin Inside(call, "coldMerge", m, d)
    BY <1>1, InsideOwn
  <2> QED BY <1>4, <2>1, <2>2
<1>9. ColdOwned' /\ StaleOwned'
  BY <1>5, <1>7, <1>8 DEF GateInv, ColdOwned, StaleOwned
<1>10. PassedIsWarm'
  <2>1. ASSUME NEW j \in Passed(call'[g])
        PROVE  j \in Passed(call[g]) \/ hydration'[NodeOf(g)][call[g].reqs[j].cell] = "warm"
    <3>1. j \in Passed(call[g]) \/ j = call[g].i
      BY <1>1, <1>2, <1>4 DEF Passed, HasPassed, At
    <3>2. j = call[g].i => call[g].reqs[j].cell = c
      BY DEF CellOf, Req
    <3> QED BY <1>1, <1>5, <3>1, <3>2
  <2>2. \A m \in Nodes, d \in Cells : hydration[m][d] = "warm" => hydration'[m][d] = "warm"
    BY <1>5
  <2> QED BY <1>4, <2>1, <2>2, WarmStays
<1> QED
  BY <1>9, <1>10 DEF GateInv

\* The owner leaves: once.Do is done, or staleMu is released.
LEMMA MergeFetchedGate ==
    ASSUME GateInv, IndInv', NEW g \in Calls, MergeFetched(g)
    PROVE  GateInv'
<1> DEFINE n == NodeOf(g)
           c == CellOf(g)
<1>1. At(g) \in Active /\ At(g) \in {"coldMerge", "staleMerge"} /\ IndInv
  BY DEF MergeFetched, Active, CallStates, GateInv
<1>2. /\ n \in Nodes /\ c \in Cells /\ call \in [Calls -> CallRecords] /\ call[g] \in CallRecords
      /\ call[g].i \in 1..Len(call[g].reqs) /\ Len(call[g].reqs) \in Nat
  BY <1>1, Standing
<1>3. call' = [call EXCEPT ![g].pc = "strict"]
  BY DEF MergeFetched
<1>4. /\ Moves(g) /\ call'[g].pc = "strict" /\ call'[g].node = NodeOf(g)
      /\ call'[g].reqs = call[g].reqs /\ call'[g].i = call[g].i
  BY <1>2, <1>3 DEF Moves, CallRecords, NodeOf
<1>5. ASSUME NEW pc \in {"coldMerge", "staleMerge"}, NEW m \in Nodes, NEW d \in Cells
      PROVE  Inside(call', pc, m, d) = Inside(call, pc, m, d) \ {g}
  <2>1. Inside(call', pc, m, d) =
          (Inside(call, pc, m, d) \ {g})
            \cup (IF call'[g].pc = pc /\ m = n /\ d = c THEN {g} ELSE {})
    BY <1>1, <1>4, GateMove
  <2>2. call'[g].pc # pc
    BY <1>4
  <2> QED BY <2>1, <2>2
<1>6. ASSUME NEW pc \in {"coldMerge", "staleMerge"}, NEW m \in Nodes, NEW d \in Cells,
             At(g) # pc \/ ~(m = n /\ d = c)
      PROVE  Inside(call', pc, m, d) = Inside(call, pc, m, d)
  <2>1. g \notin Inside(call, pc, m, d)
    BY <1>6, InsideOwn
  <2> QED BY <1>5, <2>1
<1>7. ASSUME NEW pc \in {"coldMerge", "staleMerge"}, At(g) = pc, NEW taken,
             Owned(taken, Inside(call, pc, n, c))
      PROVE  Inside(call', pc, n, c) = {}
  <2>1. g \in Inside(call, pc, n, c)
    BY <1>7, InsideOwn
  <2>2. PICK h \in Calls : Inside(call, pc, n, c) = {h}
    BY <1>7, <2>1 DEF Owned
  <2> QED BY <1>2, <1>5, <2>1, <2>2
<1>8. CASE At(g) = "coldMerge"
  <2>1. /\ hydration' = [hydration EXCEPT ![n][c] = "warm"] /\ staleMu' = staleMu
        /\ hydration \in PerCell({"cold", "fetching", "warm"})
    BY <1>8 DEF MergeFetched, GateInv, IndInv, TypeOK
  <2>2. \A m \in Nodes, d \in Cells :
          hydration'[m][d] = IF m = n /\ d = c THEN "warm" ELSE hydration[m][d]
    <3> HIDE DEF n, c
    <3> QED BY <1>2, <2>1 DEF PerCell
  <2>3. ASSUME NEW m \in Nodes, NEW d \in Cells
        PROVE  Owned(hydration'[m][d] = "fetching", Inside(call', "coldMerge", m, d))
    <3>1. Owned(hydration[m][d] = "fetching", Inside(call, "coldMerge", m, d))
      BY DEF GateInv, ColdOwned
    <3>2. CASE m = n /\ d = c
      <4>1. Inside(call', "coldMerge", n, c) = {}
        BY <1>7, <1>8, <3>1, <3>2
      <4> QED BY <2>2, <3>2, <4>1 DEF Owned
    <3>3. CASE ~(m = n /\ d = c)
      BY <1>6, <2>2, <3>1, <3>3
    <3> QED BY <3>2, <3>3
  <2>4. ColdOwned' /\ StaleOwned'
    BY <1>6, <1>8, <2>1, <2>3 DEF GateInv, ColdOwned, StaleOwned
  <2>5. ASSUME NEW j \in Passed(call'[g])
        PROVE  j \in Passed(call[g]) \/ hydration'[NodeOf(g)][call[g].reqs[j].cell] = "warm"
    <3>1. j \in Passed(call[g]) \/ j = call[g].i
      BY <1>2, <1>4, <1>8 DEF Passed, HasPassed, At
    <3>2. j = call[g].i => call[g].reqs[j].cell = c
      BY DEF CellOf, Req
    <3> QED BY <1>2, <2>2, <3>1, <3>2
  <2>6. PassedIsWarm'
    BY <1>4, <2>2, <2>5, WarmStays
  <2> QED BY <2>4, <2>6 DEF GateInv
<1>9. CASE At(g) = "staleMerge"
  <2>1. /\ staleMu' = [staleMu EXCEPT ![n][c] = FALSE] /\ hydration' = hydration
        /\ staleMu \in PerCell(BOOLEAN)
    BY <1>9 DEF MergeFetched, GateInv, IndInv, TypeOK
  <2>2. \A m \in Nodes, d \in Cells :
          IF m = n /\ d = c THEN ~staleMu'[m][d] ELSE staleMu'[m][d] = staleMu[m][d]
    <3> HIDE DEF n, c
    <3> QED BY <1>2, <2>1 DEF PerCell
  <2>3. ASSUME NEW m \in Nodes, NEW d \in Cells
        PROVE  Owned(staleMu'[m][d], Inside(call', "staleMerge", m, d))
    <3>1. Owned(staleMu[m][d], Inside(call, "staleMerge", m, d))
      BY DEF GateInv, StaleOwned
    <3>2. CASE m = n /\ d = c
      <4>1. Inside(call', "staleMerge", n, c) = {} /\ ~staleMu'[m][d]
        BY <1>7, <1>9, <2>2, <3>1, <3>2
      <4> QED BY <3>2, <4>1 DEF Owned
    <3>3. CASE ~(m = n /\ d = c)
      <4>1. staleMu'[m][d] = staleMu[m][d]
            /\ Inside(call', "staleMerge", m, d) = Inside(call, "staleMerge", m, d)
        BY <1>6, <2>2, <3>3
      <4> QED BY <3>1, <4>1
    <3> QED BY <3>2, <3>3
  <2>4. ColdOwned' /\ StaleOwned'
    BY <1>6, <1>9, <2>1, <2>3 DEF GateInv, ColdOwned, StaleOwned
  <2>5. Passed(call'[g]) = Passed(call[g])
    BY <1>2, <1>4, <1>9 DEF Passed, HasPassed, At
  <2>6. PassedIsWarm'
    BY <1>4, <2>1, <2>5, WarmStays
  <2> QED BY <2>4, <2>6 DEF GateInv
<1> QED
  BY <1>1, <1>8, <1>9

\* The other steps before a decision.
LEMMA QuietGate ==
    ASSUME GateInv, CallsShaped, GlobalsCount, IndInv', NEW g \in Calls, QuietStep(g)
    PROVE  GateInv'
<1>1. IndInv /\ call \in [Calls -> CallRecords] /\ call[g] \in CallRecords
  BY DEF GateInv, IndInv, TypeOK
<1>2. Moves(g)
  BY <1>1, QuietStepMoves
<1>3. CASE FetchCold(g)
  BY <1>3, FetchColdGate
<1>4. CASE FetchStale(g)
  BY <1>4, FetchStaleGate
<1>5. CASE MergeFetched(g)
  BY <1>5, MergeFetchedGate
<1>6. CASE StillFresh(g)
  <2>1. /\ At(g) = "ensure" /\ At(g) \in Active /\ call' = [call EXCEPT ![g].pc = "strict"]
        /\ hydration[NodeOf(g)][CellOf(g)] = "warm" /\ hydration' = hydration /\ staleMu' = staleMu
    BY <1>6 DEF StillFresh, entryVars, Active, CallStates
  <2>2. call[g].i \in 1..Len(call[g].reqs) /\ Len(call[g].reqs) \in Nat
    BY <1>1, <2>1, Standing
  <2>3. /\ call'[g].pc = "strict" /\ call[g].pc = "ensure" /\ call'[g].node = NodeOf(g)
        /\ call'[g].reqs = call[g].reqs /\ call'[g].i = call[g].i
    BY <1>1, <2>1 DEF CallRecords, NodeOf, At
  <2>4. ASSUME NEW j \in Passed(call'[g])
        PROVE  hydration[call'[g].node][call'[g].reqs[j].cell] = "warm"
    <3>1. j \in Passed(call[g]) \/ j = call[g].i
      BY <2>2, <2>3 DEF Passed, HasPassed
    <3>2. CASE j \in Passed(call[g])
      BY <2>3, <3>2, PassedNow DEF NodeOf
    <3>3. CASE j = call[g].i
      BY <2>1, <2>3, <3>3 DEF CellOf, Req
    <3> QED BY <3>1, <3>2, <3>3
  <2> QED BY <1>2, <2>1, <2>3, <2>4, GateUntouched
<1>7. CASE SkipStrict(g) \/ MergeStrict(g)
  <2>1. /\ At(g) \in {"strict", "strictMerge"} /\ At(g) \in Active
        /\ call' = [call EXCEPT ![g] = Prepared(g)] /\ hydration' = hydration /\ staleMu' = staleMu
    BY <1>7 DEF SkipStrict, MergeStrict, entryVars, Active, CallStates
  <2>2. call[g].i \in 1..Len(call[g].reqs) /\ Len(call[g].reqs) \in Nat
    BY <1>1, <2>1, Standing
  <2> DEFINE i == IF IsLast(g) THEN 1 ELSE call[g].i + 1
             pc == IF ~IsLast(g) THEN "ensure" ELSE IF call[g].kind = "one" THEN "load" ELSE "addSpec"
             globals == Append(call[g].globals, globalCount[NodeOf(g)][CellOf(g)])
  <2>3. Prepared(g) = [call[g] EXCEPT !.globals = globals, !.i = i, !.pc = pc]
    BY <1>1 DEF Prepared, CallRecords
  <2>4. pc \in {"ensure", "load", "addSpec"} /\ (pc = "ensure" => i = call[g].i + 1)
        /\ (pc # "ensure" => call[g].i = Len(call[g].reqs))
    BY DEF IsLast
  <2> HIDE DEF i, pc, globals
  <2>5. /\ call'[g].pc = pc /\ call[g].pc \in {"strict", "strictMerge"}
        /\ call'[g].node = call[g].node /\ call'[g].reqs = call[g].reqs /\ call'[g].i = i
    BY <1>1, <2>1, <2>3 DEF CallRecords, At
  <2>6. Passed(call'[g]) \subseteq Passed(call[g])
    BY <2>2, <2>4, <2>5 DEF Passed, HasPassed
  <2>7. {call[g].pc, call'[g].pc} \cap {"coldMerge", "staleMerge"} = {}
    BY <2>4, <2>5
  <2> QED BY <1>2, <2>1, <2>5, <2>6, <2>7, NoGate
<1>8. CASE FetchStrict(g)
  <2>1. PICK got : call' = [call EXCEPT ![g].pc = "strictMerge", ![g].got = got]
    BY <1>8 DEF FetchStrict
  <2>2. At(g) = "strict" /\ hydration' = hydration /\ staleMu' = staleMu
    BY <1>8 DEF FetchStrict, entryVars
  <2>3. /\ call'[g].pc = "strictMerge" /\ call[g].pc = "strict" /\ call'[g].node = call[g].node
        /\ call'[g].reqs = call[g].reqs /\ call'[g].i = call[g].i
    BY <1>1, <2>1, <2>2 DEF CallRecords, At
  <2>4. Passed(call'[g]) \subseteq Passed(call[g])
    BY <2>3 DEF Passed, HasPassed
  <2> QED BY <1>2, <2>2, <2>3, <2>4, NoGate
<1>9. CASE Load(g) \/ CasWins(g) \/ CasLoses(g)
  <2>1. call[g].pc \in {"load", "cas"} /\ hydration' = hydration /\ staleMu' = staleMu
    BY <1>9 DEF Load, CasWins, CasLoses, entryVars, At
  <2>2. /\ call'[g].pc \in {"load", "cas", "allowed", "denied"}
        /\ call'[g].node = call[g].node /\ call'[g].reqs = call[g].reqs
    <3>1. CASE Load(g)
      BY <1>1, <3>1 DEF Load, CallRecords
    <3>2. CASE CasWins(g)
      BY <1>1, <3>2 DEF CasWins, CallRecords
    <3>3. CASE CasLoses(g)
      BY <1>1, <3>3 DEF CasLoses, CallRecords
    <3> QED BY <1>9, <3>1, <3>2, <3>3
  <2>3. Passed(call'[g]) \subseteq Passed(call[g])
    BY <2>1, <2>2 DEF Passed, HasPassed
  <2>4. {call[g].pc, call'[g].pc} \cap {"coldMerge", "staleMerge"} = {}
    BY <2>1, <2>2
  <2> QED BY <1>2, <2>1, <2>2, <2>3, <2>4, NoGate
<1>10. CASE \E n \in Nodes : Begin(g, n)
  <2>1. PICK n \in Nodes : Begin(g, n)
    BY <1>10
  <2>2. call'[g].pc = "ensure" /\ call[g].pc = "idle" /\ hydration' = hydration /\ staleMu' = staleMu
    BY <1>1, <2>1, BeginMoves DEF Begin, At, entryVars
  <2>3. call'[g].i = 1
    <3>1. IdleCall.i = 0
      BY DEF IdleCall
    <3> QED BY <1>1, <2>1 DEF Begin, IdleCall
  <2>4. Passed(call'[g]) = {}
    BY <2>2, <2>3 DEF Passed, HasPassed
  <2> QED BY <1>2, <2>2, <2>4, GateUntouched
<1> QED
  BY <1>3, <1>4, <1>5, <1>6, <1>7, <1>8, <1>9, <1>10 DEF QuietStep

\* A restart opens all gates of the node and ends their owners.
LEMMA RestartGate ==
    ASSUME GateInv, IndInv', NEW n \in Nodes, Restart(n)
    PROVE  GateInv'
<1>1. IndInv /\ call \in [Calls -> CallRecords]
  BY DEF GateInv, IndInv, TypeOK
<1>2. ASSUME NEW g \in Calls
      PROVE  /\ call'[g].node = call[g].node
             /\ call[g].node = n => call'[g].pc \in {"allowed", "denied", "crashed"}
             /\ call[g].node # n => call'[g] = call[g]
  <2>1. call'[g] = IF NodeOf(g) = n /\ At(g) \notin {"allowed", "denied"}
                   THEN [call[g] EXCEPT !.pc = "crashed"] ELSE call[g]
    BY DEF Restart, CallsOn
  <2> QED BY <1>1, <2>1 DEF NodeOf, At, CallRecords
<1>3. ASSUME NEW pc \in {"coldMerge", "staleMerge"}, NEW m \in Nodes, NEW d \in Cells
      PROVE  Inside(call', pc, m, d) = IF m = n THEN {} ELSE Inside(call, pc, m, d)
  BY <1>2 DEF Inside
<1>4. ASSUME NEW m \in Nodes, NEW d \in Cells
      PROVE  hydration'[m][d] = IF m = n THEN "cold" ELSE hydration[m][d]
  BY <1>1 DEF Restart, IndInv, TypeOK, PerCell
<1>5. ASSUME NEW m \in Nodes, NEW d \in Cells
      PROVE  IF m = n THEN ~staleMu'[m][d] ELSE staleMu'[m][d] = staleMu[m][d]
  BY <1>1 DEF Restart, IndInv, TypeOK, PerCell
<1>6. ColdOwned'
  <2> SUFFICES ASSUME NEW m \in Nodes, NEW d \in Cells
               PROVE  Owned(hydration'[m][d] = "fetching", Inside(call', "coldMerge", m, d))
    BY DEF ColdOwned
  <2>1. CASE m = n
    BY <1>3, <1>4, <2>1 DEF Owned
  <2>2. CASE m # n
    BY <1>3, <1>4, <2>2 DEF GateInv, ColdOwned
  <2> QED BY <2>1, <2>2
<1>7. StaleOwned'
  <2> SUFFICES ASSUME NEW m \in Nodes, NEW d \in Cells
               PROVE  Owned(staleMu'[m][d], Inside(call', "staleMerge", m, d))
    BY DEF StaleOwned
  <2>1. CASE m = n
    BY <1>3, <1>5, <2>1 DEF Owned
  <2>2. CASE m # n
    <3>1. staleMu'[m][d] = staleMu[m][d] /\ Inside(call', "staleMerge", m, d) = Inside(call, "staleMerge", m, d)
      BY <1>3, <1>5, <2>2
    <3> QED BY <3>1 DEF GateInv, StaleOwned
  <2> QED BY <2>1, <2>2
<1>8. PassedIsWarm'
  <2> SUFFICES ASSUME NEW g \in Calls, NEW j \in Passed(call'[g])
               PROVE  hydration'[call'[g].node][call'[g].reqs[j].cell] = "warm"
    BY DEF PassedIsWarm, NodeOf
  <2>1. call[g].node # n
    BY <1>2 DEF Passed, HasPassed
  <2>2. call'[g] = call[g]
    BY <1>2, <2>1
  <2> DEFINE x == call[g].node
             y == call[g].reqs[j].cell
  <2>3. hydration[x][y] = "warm"
    BY <2>2, PassedNow
  <2>4. x \in Nodes /\ y \in Cells
    <3>1. At(g) \in Active /\ j \in 1..Len(call[g].reqs)
      BY <2>2 DEF Passed, HasPassed, Active, CallStates, At
    <3>2. NodeOf(g) \in Nodes /\ call[g].reqs \in Seq(Requests)
      BY <1>1, <3>1, Standing
    <3>3. call[g].reqs[j] \in Requests
      BY <3>1, <3>2
    <3> QED BY <3>2, <3>3 DEF Requests, NodeOf
  <2>5. hydration'[x][y] = "warm"
    BY <1>4, <2>1, <2>3, <2>4
  <2> QED BY <2>2, <2>5
<1> QED
  BY <1>6, <1>7, <1>8 DEF GateInv

\* No gate is taken initially.
LEMMA GateInit == Init => GateInv
<1> SUFFICES ASSUME Init PROVE GateInv
  OBVIOUS
<1>1. IndInv
  BY InitInv
<1>2. \A g \in Calls : call[g].pc = "idle" /\ call[g].reqs = <<>>
  BY DEF Init, IdleCall
<1>3. \A pc \in {"coldMerge", "staleMerge"}, n \in Nodes, c \in Cells : Inside(call, pc, n, c) = {}
  BY <1>2 DEF Inside
<1>4. \A n \in Nodes, c \in Cells : hydration[n][c] = "cold" /\ ~staleMu[n][c]
  BY DEF Init, Atomics
<1>5. ColdOwned /\ StaleOwned
  BY <1>3, <1>4 DEF ColdOwned, StaleOwned, Owned
<1>6. PassedIsWarm
  BY <1>2 DEF PassedIsWarm, Passed, HasPassed
<1> QED
  BY <1>1, <1>5, <1>6 DEF GateInv

\* Steps that leave goroutines and gates alone keep the owners.
LEMMA GateSame ==
    ASSUME GateInv, IndInv', UNCHANGED <<call, hydration, staleMu>>
    PROVE  GateInv'
BY DEF GateInv, ColdOwned, StaleOwned, PassedIsWarm, NodeOf

\* The owners are preserved by every step.
LEMMA GateStep == GateInv /\ ShareInv /\ [Next]_vars => GateInv'
<1> SUFFICES ASSUME GateInv, ShareInv, [Next]_vars PROVE GateInv'
  OBVIOUS
<1>1. IndInv' /\ CallsShaped /\ GlobalsCount
  BY StepInv DEF GateInv, ShareInv
<1>2. ASSUME NEW g \in Calls, QuietStep(g) PROVE GateInv'
  BY <1>1, <1>2, QuietGate
<1>3. ASSUME NEW g \in Calls, BatchStep(g) PROVE GateInv'
  BY <1>1, <1>3, BatchGate
<1>4. ASSUME NEW n \in Nodes, NEW w \in Workers, ReplayStep(n, w) PROVE GateInv'
  <2>1. UNCHANGED <<call, hydration, staleMu>>
    BY <1>4 DEF ReplayStep, ReplayIncrement, ReplayTimesOut, ReplayFails, ReplayMerge, entryVars
  <2> QED BY <1>1, <2>1, GateSame
<1>5. ASSUME NEW n \in Nodes, Restart(n) PROVE GateInv'
  BY <1>1, <1>5, RestartGate
<1>6. ASSUME UNCHANGED vars PROVE GateInv'
  BY <1>1, <1>6, GateSame DEF vars, entryVars
<1> QED
  BY <1>2, <1>3, <1>4, <1>5, <1>6, Steps DEF Next

\* The gates in terms of the property.
LEMMA GateOwners == GateInv => GateHasOwner
<1> SUFFICES ASSUME GateInv
             PROVE  GateHasOwner
  OBVIOUS
<1>1. IndInv
  BY DEF GateInv
<1> SUFFICES ASSUME NEW n \in Nodes, NEW c \in Cells
             PROVE  /\ Cardinality({g \in CallsOn(n) : At(g) = "coldMerge" /\ CellOf(g) = c})
                          = (IF hydration[n][c] = "fetching" THEN 1 ELSE 0)
                    /\ Cardinality({g \in CallsOn(n) : At(g) = "staleMerge" /\ CellOf(g) = c})
                          = (IF staleMu[n][c] THEN 1 ELSE 0)
                    /\ {g \in CallsOn(n) :
                          /\ At(g) \in {"strict", "strictMerge", "load", "cas", "addSpec", "addVal"}
                          /\ CellOf(g) = c} # {} => hydration[n][c] = "warm"
  BY DEF GateHasOwner
<1>2. ASSUME NEW pc
      PROVE  {g \in CallsOn(n) : At(g) = pc /\ CellOf(g) = c} = Inside(call, pc, n, c)
  BY DEF CallsOn, At, CellOf, Req, NodeOf, Inside
<1>3. Cardinality({}) = 0 /\ \A g : Cardinality({g}) = 1
  BY FS_EmptySet, FS_Singleton
<1>4. Cardinality(Inside(call, "coldMerge", n, c)) = (IF hydration[n][c] = "fetching" THEN 1 ELSE 0)
  <2>1. Owned(hydration[n][c] = "fetching", Inside(call, "coldMerge", n, c))
    BY DEF GateInv, ColdOwned
  <2> QED BY <1>3, <2>1 DEF Owned
<1>5. Cardinality(Inside(call, "staleMerge", n, c)) = (IF staleMu[n][c] THEN 1 ELSE 0)
  <2>1. Owned(staleMu[n][c], Inside(call, "staleMerge", n, c))
    BY DEF GateInv, StaleOwned
  <2> QED BY <1>3, <2>1 DEF Owned
<1>6. ASSUME NEW g \in CallsOn(n), CellOf(g) = c,
             At(g) \in {"strict", "strictMerge", "load", "cas", "addSpec", "addVal"}
      PROVE  hydration[n][c] = "warm"
  <2>1. g \in Calls /\ NodeOf(g) = n /\ At(g) \in Active
    BY <1>6 DEF CallsOn, Active, CallStates
  <2>2. call[g].i \in 1..Len(call[g].reqs) /\ Len(call[g].reqs) \in Nat
    BY <1>1, <2>1, Standing
  <2>3. call[g].i \in Passed(call[g])
    BY <1>6, <2>2 DEF Passed, HasPassed, At
  <2> QED BY <1>6, <2>1, <2>3, PassedNow DEF CellOf, Req, NodeOf
<1> QED BY <1>2, <1>4, <1>5, <1>6

\* While an entry is inside once.Do or its staleMu is held, exactly one live goroutine of
\* that pod is there to finish the fetch, and nobody decides on a cold entry: blocked
\* callers always wait for somebody, across failed fetches and restarts.
THEOREM GatesAreOwned == Spec => []GateHasOwner
BY GateOwners, GateInit, GateStep, ShareInit, ShareStep, PTL DEF Spec

----------------------------------------------------------------------------
\* Every admitted unit is in Redis, on its way there or lost

\* What a request of a node adds to a sum over a region.
Charge(n, req, r, c) == IF RegionOf[n] = r /\ req.cell = c THEN req.cost ELSE 0

\* A charge is a natural number.
LEMMA ChargeType ==
    ASSUME NEW n, NEW req \in Requests, NEW r, NEW c
    PROVE  Charge(n, req, r, c) \in Nat /\ Charge(n, req, r, c) \in Int
BY DEF Charge, Requests

\* The cost of a sequence of requests is a natural number.
LEMMA CostInType ==
    ASSUME NEW reqs \in Seq(Requests), NEW c \in Cells
    PROVE  CostIn(reqs, c) \in Nat /\ CostIn(reqs, c) \in Int
<1>1. CostIn(reqs, c) = SumFunctionOnSet(Costs(reqs, c), 1..Len(reqs))
  BY CostsType DEF CostIn, SumFunction
<1>2. SumFunctionOnSet(Costs(reqs, c), 1..Len(reqs)) \in Nat
  <2>1. 1..Len(reqs) \in SUBSET (1..Len(reqs))
    OBVIOUS
  <2> QED BY <2>1, SomeCosts
<1> QED
  BY <1>1, <1>2

\* The cost of a sequence grows by what is appended and shrinks by what is taken.
LEMMA CostAppend ==
    ASSUME NEW s \in Seq(Requests), NEW req \in Requests, NEW c \in Cells
    PROVE  CostIn(Append(s, req), c) = CostIn(s, c) + (IF req.cell = c THEN req.cost ELSE 0)
<1> DEFINE t == Append(s, req)
           f == Costs(t, c)
           e == Costs(s, c)
           A == 1..Len(s)
           b == Len(s) + 1
<1>1. t \in Seq(Requests) /\ Len(t) = Len(s) + 1 /\ Len(s) \in Nat
      /\ t[Len(s) + 1] = req /\ \A j \in 1..Len(s) : t[j] = s[j]
  OBVIOUS
<1>2. A \cup {b} = 1..Len(t) /\ b \notin A
  BY <1>1
<1>3. /\ DOMAIN f = 1..Len(t) /\ \A j \in 1..Len(t) : f[j] \in Nat
      /\ DOMAIN e = A /\ (\A j \in A : e[j] \in Nat) /\ IsFiniteSet(A)
  BY <1>1, CostsType
<1>4. f[b] = IF req.cell = c THEN req.cost ELSE 0
  <2>1. b \in 1..Len(t)
    BY <1>1
  <2> QED BY <1>1, <2>1 DEF Costs
<1>5. \A j \in A : f[j] = e[j]
  BY <1>1 DEF Costs
<1>6. CostIn(t, c) = SumFunctionOnSet(f, A \cup {b}) /\ CostIn(s, c) = SumFunctionOnSet(e, A)
  BY <1>2, <1>3 DEF CostIn, SumFunction
<1>7. /\ \A j \in A \cup {b} : f[j] \in Int
      /\ \A j \in A : e[j] \in Int /\ e[j] = f[j]
  BY <1>2, <1>3, <1>5
<1> HIDE DEF f, e, A, b, t
<1>8. SumFunctionOnSet(f, A \cup {b}) = SumFunctionOnSet(f, A) + f[b]
  BY <1>2, <1>3, <1>7, SumAdd
<1>9. SumFunctionOnSet(e, A) = SumFunctionOnSet(f, A)
  BY <1>3, <1>7, SumSame
<1>10. CostIn(t, c) = CostIn(s, c) + (IF req.cell = c THEN req.cost ELSE 0)
  BY <1>4, <1>6, <1>8, <1>9
<1> QED
  BY <1>10 DEF t

\* Taking the first request away takes its cost away.
LEMMA CostTail ==
    ASSUME NEW s \in Seq(Requests), s # <<>>, NEW c \in Cells
    PROVE  CostIn(s, c) = (IF Head(s).cell = c THEN Head(s).cost ELSE 0) + CostIn(Tail(s), c)
<1> DEFINE t == Tail(s)
           f == Costs(s, c)
           e == Costs(t, c)
           m == Len(t)
<1>1. t \in Seq(Requests) /\ Len(s) = m + 1 /\ m \in Nat /\ Head(s) = s[1]
      /\ \A j \in 1..m : t[j] = s[j + 1]
  OBVIOUS
<1>2. DOMAIN f = 1..(m + 1) /\ (\A j \in 1..(m + 1) : f[j] \in Int) /\ DOMAIN e = 1..m
  <2>1. DOMAIN f = 1..Len(s) /\ (\A j \in 1..Len(s) : f[j] \in Nat) /\ DOMAIN e = 1..m
    BY <1>1, CostsType
  <2> QED BY <1>1, <2>1
<1>3. \A j \in 1..m : e[j] = f[j + 1]
  <2> TAKE j \in 1..m
  <2>1. j + 1 \in 1..Len(s) /\ j \in 1..Len(t) /\ t[j] = s[j + 1]
    BY <1>1
  <2> QED BY <2>1 DEF Costs
<1>4. f[1] = IF Head(s).cell = c THEN Head(s).cost ELSE 0
  <2>1. 1 \in 1..Len(s)
    BY <1>1
  <2> QED BY <1>1, <2>1 DEF Costs
<1>5. CostIn(s, c) = SumFunctionOnSet(f, 1..(m + 1)) /\ CostIn(t, c) = SumFunctionOnSet(e, 1..m)
  BY <1>2 DEF CostIn, SumFunction
<1> HIDE DEF f, e, m, t
<1>6. SumFunctionOnSet(f, 1..(m + 1)) = f[1] + SumFunctionOnSet(e, 1..m)
  BY <1>1, <1>2, <1>3, SumShift
<1>7. CostIn(s, c) = (IF Head(s).cell = c THEN Head(s).cost ELSE 0) + CostIn(t, c)
  BY <1>4, <1>5, <1>6
<1> QED
  BY <1>7 DEF t

\* What the buffers of a region hold, and after one of them has changed.
LEMMA BufferedType ==
    ASSUME NEW buffers \in [Nodes -> Seq(Requests)], NEW r, NEW c \in Cells
    PROVE  /\ IsFiniteSet(Here(r))
           /\ \A n \in Here(r) : CostIn(buffers[n], c) \in Nat
           /\ Buffered(buffers, r, c) \in Nat
<1>1. IsFiniteSet(Here(r)) /\ Here(r) \in SUBSET Nodes
  BY FiniteAssumption, FS_Subset DEF Here
<1>2. \A n \in Here(r) : CostIn(buffers[n], c) \in Nat
  BY <1>1, CostInType
<1> DEFINE f == [n \in Nodes |-> CostIn(buffers[n], c)]
<1>3. \A n \in Here(r) : f[n] \in Nat
  BY <1>1, <1>2
<1> HIDE DEF f
<1>4. SumFunctionOnSet(f, Here(r)) \in Nat
  BY <1>1, <1>3, SumNat
<1> QED
  BY <1>1, <1>2, <1>4 DEF Buffered, f

\* When one buffer changes, its region's sum changes by the difference.
LEMMA BufferedChange ==
    ASSUME NEW buffers, NEW next, NEW n \in Nodes, NEW r, NEW c,
           \A m \in Nodes : CostIn(buffers[m], c) \in Int /\ CostIn(next[m], c) \in Int,
           \A m \in Nodes \ {n} : next[m] = buffers[m]
    PROVE  Buffered(next, r, c) = Buffered(buffers, r, c)
              + (IF RegionOf[n] = r THEN CostIn(next[n], c) - CostIn(buffers[n], c) ELSE 0)
<1> DEFINE f == [m \in Nodes |-> CostIn(buffers[m], c)]
           k == [m \in Nodes |-> CostIn(next[m], c)]
           H == Here(r)
<1>2. IsFiniteSet(H) /\ H \subseteq Nodes
  BY FiniteAssumption, FS_Subset DEF Here
<1>3. /\ \A m \in H : f[m] \in Int /\ k[m] \in Int
      /\ \A m \in H \ {n} : f[m] = k[m]
      /\ f[n] = CostIn(buffers[n], c) /\ k[n] = CostIn(next[n], c)
  BY <1>2
<1>4. Buffered(next, r, c) = SumFunctionOnSet(k, H) /\ Buffered(buffers, r, c) = SumFunctionOnSet(f, H)
  BY DEF Buffered
<1>5. n \in H <=> RegionOf[n] = r
  BY DEF Here
<1> HIDE DEF f, k, H
<1>6. SumFunctionOnSet(f, H) \in Int
  BY <1>2, <1>3, SumType
<1>7. CASE n \in H
  <2>1. SumFunctionOnSet(k, H) = SumFunctionOnSet(f, H) - f[n] + k[n]
    BY <1>2, <1>3, <1>7, SumChange
  <2>2. f[n] \in Int /\ k[n] \in Int
    BY <1>3, <1>7
  <2> QED BY <1>3, <1>4, <1>5, <1>6, <1>7, <2>1, <2>2
<1>8. CASE n \notin H
  <2>1. \A m \in H : f[m] \in Int /\ f[m] = k[m]
    BY <1>3, <1>8
  <2>2. SumFunctionOnSet(k, H) = SumFunctionOnSet(f, H)
    BY <1>2, <2>1, SumSame
  <2> QED BY <1>4, <1>5, <1>6, <1>8, <2>2
<1> QED
  BY <1>7, <1>8

\* A request put into the buffer is buffered or, when it is full, lost.
LEMMA EnqueueKeeps ==
    ASSUME TypeOK, LostType, NEW n \in Nodes, NEW req \in Requests, Enqueue(n, req)
    PROVE  /\ LostType'
           /\ \A r \in Regions, c \in Cells :
                 /\ lost'[r][c] + Buffered(buffer', r, c)
                      = lost[r][c] + Buffered(buffer, r, c) + Charge(n, req, r, c)
                 /\ lost'[r][c] >= lost[r][c]
<1>1. /\ buffer \in [Nodes -> Seq(Requests)] /\ buffer' \in [Nodes -> Seq(Requests)]
      /\ lost \in [Regions -> [Cells -> Nat]] /\ RegionOf[n] \in Regions
      /\ req.cell \in Cells /\ req.cost \in Nat
  BY EnqueueType, TopologyAssumption DEF TypeOK, LostType, Requests
<1>2. CASE Len(buffer[n]) < BufferCap
  <2>1. buffer' = [buffer EXCEPT ![n] = Append(@, req)] /\ lost' = lost
    BY <1>2 DEF Enqueue
  <2>2. ASSUME NEW r \in Regions, NEW c \in Cells
        PROVE  Buffered(buffer', r, c) = Buffered(buffer, r, c) + Charge(n, req, r, c)
    <3>1. \A m \in Nodes : CostIn(buffer[m], c) \in Int /\ CostIn(buffer'[m], c) \in Int
      BY <1>1, CostInType
    <3>2. buffer'[n] = Append(buffer[n], req)
      BY <1>1, <2>1
    <3>3. CostIn(buffer'[n], c) = CostIn(buffer[n], c) + (IF req.cell = c THEN req.cost ELSE 0)
      BY <1>1, <3>2, CostAppend
    <3>4. Buffered(buffer', r, c) = Buffered(buffer, r, c)
            + (IF RegionOf[n] = r THEN CostIn(buffer'[n], c) - CostIn(buffer[n], c) ELSE 0)
      <4>1. \A m \in Nodes \ {n} : buffer'[m] = buffer[m]
        BY <1>1, <2>1
      <4> QED BY <3>1, <4>1, BufferedChange
    <3> QED BY <1>1, <3>1, <3>3, <3>4 DEF Charge
  <2>3. ASSUME NEW r \in Regions, NEW c \in Cells
        PROVE  /\ Buffered(buffer, r, c) \in Nat /\ Charge(n, req, r, c) \in Nat
               /\ lost[r][c] \in Nat
    BY <1>1, BufferedType, ChargeType
  <2>4. LostType'
    BY <1>1, <2>1 DEF LostType
  <2>5. ASSUME NEW r \in Regions, NEW c \in Cells
        PROVE  /\ lost'[r][c] + Buffered(buffer', r, c)
                    = lost[r][c] + Buffered(buffer, r, c) + Charge(n, req, r, c)
               /\ lost'[r][c] >= lost[r][c]
    <3>1. /\ lost'[r][c] = lost[r][c] /\ lost[r][c] \in Nat /\ Buffered(buffer, r, c) \in Nat
          /\ Charge(n, req, r, c) \in Nat
      BY <2>1, <2>3
    <3>2. Buffered(buffer', r, c) = Buffered(buffer, r, c) + Charge(n, req, r, c)
      BY <2>2
    <3> QED BY <3>1, <3>2
  <2> QED BY <2>4, <2>5
<1>3. CASE ~(Len(buffer[n]) < BufferCap)
  <2>1. lost' = [lost EXCEPT ![RegionOf[n]][req.cell] = @ + req.cost] /\ buffer' = buffer
    BY <1>3 DEF Enqueue
  <2>2. \A r \in Regions, c \in Cells :
          lost'[r][c] = lost[r][c] + Charge(n, req, r, c) /\ lost[r][c] \in Nat
    BY <1>1, <2>1 DEF Charge
  <2>3. LostType'
    BY <1>1, <2>1 DEF LostType
  <2>4. ASSUME NEW r \in Regions, NEW c \in Cells
        PROVE  Buffered(buffer, r, c) \in Nat /\ Charge(n, req, r, c) \in Nat
    BY <1>1, BufferedType, ChargeType
  <2> QED BY <2>1, <2>2, <2>3, <2>4
<1> QED
  BY <1>2, <1>3

\* A replay worker takes the next request of its buffer.
LEMMA TakeKeeps ==
    ASSUME TypeOK, NEW n \in Nodes, buffer[n] # <<>>, buffer' = [buffer EXCEPT ![n] = Tail(@)]
    PROVE  /\ Head(buffer[n]) \in Requests
           /\ \A r \in Regions, c \in Cells :
                 Buffered(buffer', r, c) + Charge(n, Head(buffer[n]), r, c) = Buffered(buffer, r, c)
<1>1. /\ buffer \in [Nodes -> Seq(Requests)] /\ buffer' \in [Nodes -> Seq(Requests)]
      /\ Head(buffer[n]) \in Requests /\ Head(buffer[n]).cost \in Nat
  BY TakeType DEF TypeOK
<1>2. ASSUME NEW r \in Regions, NEW c \in Cells
      PROVE  Buffered(buffer', r, c) + Charge(n, Head(buffer[n]), r, c) = Buffered(buffer, r, c)
  <2>1. \A m \in Nodes : CostIn(buffer[m], c) \in Int /\ CostIn(buffer'[m], c) \in Int
    BY <1>1, CostInType
  <2>2. buffer'[n] = Tail(buffer[n])
    BY <1>1
  <2> DEFINE req == Head(buffer[n])
  <2>3. CostIn(buffer[n], c) = (IF req.cell = c THEN req.cost ELSE 0) + CostIn(buffer'[n], c)
    BY <1>1, <2>2, CostTail
  <2>4. Buffered(buffer', r, c) = Buffered(buffer, r, c)
          + (IF RegionOf[n] = r THEN CostIn(buffer'[n], c) - CostIn(buffer[n], c) ELSE 0)
    <3>1. \A m \in Nodes \ {n} : buffer'[m] = buffer[m]
      BY <1>1
    <3> QED BY ONLY <2>1, <3>1, BufferedChange
  <2>5. Buffered(buffer, r, c) \in Nat
    BY <1>1, BufferedType
  <2>6. req.cost \in Nat
    BY <1>1
  <2> HIDE DEF req
  <2>7. Buffered(buffer', r, c) + Charge(n, req, r, c) = Buffered(buffer, r, c)
    BY <2>1, <2>3, <2>4, <2>5, <2>6 DEF Charge
  <2> QED BY <2>7 DEF req
<1> QED
  BY <1>1, <1>2

\* An admission is counted for the region.
LEMMA CommitAdds ==
    ASSUME TypeOK, NEW n \in Nodes, NEW req \in Requests, Commit(n, req)
    PROVE  \A r \in Regions, c \in Cells :
              admitted'[r][c] = admitted[r][c] + Charge(n, req, r, c)
<1>1. /\ admitted \in [Regions -> [Cells -> Int]] /\ RegionOf[n] \in Regions
      /\ req.cell \in Cells /\ req.cost \in Nat
      /\ admitted' = [admitted EXCEPT ![RegionOf[n]][req.cell] = @ + req.cost]
  BY TopologyAssumption DEF TypeOK, Requests, Commit
<1> QED
  BY <1>1 DEF Charge

\* The four places an admitted unit can be in, before and after a step.
LEMMA FlowAfter ==
    ASSUME FlowInv, ShareInv', LostType',
           \A r \in Regions, c \in Cells :
              admitted'[r][c] - admitted[r][c]
                = (origin'[r][c] - origin[r][c])
                    + ((lost'[r][c] + Buffered(buffer', r, c)) - (lost[r][c] + Buffered(buffer, r, c)))
                    + (Shares("loose", call', Calls, Here(r), c)
                         - Shares("loose", call, Calls, Here(r), c))
    PROVE  FlowInv'
<1>1. ASSUME NEW r \in Regions, NEW c \in Cells
      PROVE  admitted'[r][c] = origin'[r][c] + lost'[r][c] + Buffered(buffer', r, c)
                                  + Shares("loose", call', Calls, Here(r), c)
  <2>1. /\ admitted[r][c] \in Int /\ admitted'[r][c] \in Int
        /\ origin[r][c] \in Int /\ origin'[r][c] \in Int
    BY DEF FlowInv, ShareInv, IndInv, TypeOK
  <2>2. lost[r][c] \in Nat /\ lost'[r][c] \in Nat
    BY DEF FlowInv, LostType
  <2>3. Buffered(buffer, r, c) \in Nat /\ Buffered(buffer', r, c) \in Nat
    BY BufferedType DEF FlowInv, ShareInv, IndInv, TypeOK
  <2>4. /\ Shares("loose", call, Calls, Here(r), c) \in Nat
        /\ Shares("loose", call', Calls, Here(r), c) \in Nat
    <3>1. call \in [Calls -> CallRecords] /\ call' \in [Calls -> CallRecords]
          /\ Calls \in SUBSET Calls
      BY DEF FlowInv, ShareInv, IndInv, TypeOK
    <3> QED BY <3>1, SharesType
  <2>5. admitted[r][c] = origin[r][c] + lost[r][c] + Buffered(buffer, r, c)
                            + Shares("loose", call, Calls, Here(r), c)
    BY DEF FlowInv, Conserved
  <2>6. admitted'[r][c] - admitted[r][c]
          = (origin'[r][c] - origin[r][c])
              + ((lost'[r][c] + Buffered(buffer', r, c)) - (lost[r][c] + Buffered(buffer, r, c)))
              + (Shares("loose", call', Calls, Here(r), c)
                   - Shares("loose", call, Calls, Here(r), c))
    OBVIOUS
  <2> DEFINE a == admitted[r][c]
             b == admitted'[r][c]
             d == origin[r][c]
             e == origin'[r][c]
             f == lost[r][c]
             h == lost'[r][c]
             i == Buffered(buffer, r, c)
             j == Buffered(buffer', r, c)
             k == Shares("loose", call, Calls, Here(r), c)
             l == Shares("loose", call', Calls, Here(r), c)
  <2>7. /\ a \in Int /\ b \in Int /\ d \in Int /\ e \in Int /\ f \in Int /\ h \in Int
        /\ i \in Int /\ j \in Int /\ k \in Int /\ l \in Int
    BY <2>1, <2>2, <2>3, <2>4
  <2>8. a = d + f + i + k
    BY <2>5
  <2>9. b - a = (e - d) + ((h + j) - (f + i)) + (l - k)
    BY <2>6
  <2> HIDE DEF a, b, d, e, f, h, i, j, k, l
  <2>10. b = e + h + j + l
    BY ONLY <2>7, <2>8, <2>9
  <2> QED BY <2>10 DEF b, e, h, j, l
<1> QED
  BY <1>1 DEF FlowInv, Conserved

\* The numbers of a region and a cell.
LEMMA FlowTypes ==
    ASSUME FlowInv, NEW r \in Regions, NEW c \in Cells
    PROVE  /\ admitted[r][c] \in Int /\ origin[r][c] \in Int /\ lost[r][c] \in Nat
           /\ Buffered(buffer, r, c) \in Nat
           /\ Shares("loose", call, Calls, Here(r), c) \in Nat
<1>1. /\ buffer \in [Nodes -> Seq(Requests)] /\ call \in [Calls -> CallRecords]
      /\ Calls \in SUBSET Calls
  BY DEF FlowInv, ShareInv, IndInv, TypeOK
<1> QED
  BY <1>1, BufferedType, SharesType DEF FlowInv, ShareInv, IndInv, TypeOK, LostType

\* The weight of a request in its region is what the region is charged.
LEMMA DeltaIsCharge ==
    ASSUME IndInv, NEW g \in Calls, At(g) \in Active, NEW r, NEW c
    PROVE  /\ Delta(g, Here(r), c) = Charge(NodeOf(g), Req(g), r, c)
           /\ Charge(NodeOf(g), Req(g), r, c) \in Nat
<1>1. NodeOf(g) \in Nodes /\ Req(g) \in Requests
  BY Standing
<1> QED
  BY <1>1, ChargeType DEF Delta, Charge, Here, CellOf

\* A step that keeps all four.
LEMMA FlowSame ==
    ASSUME FlowInv, ShareInv', UNCHANGED <<admitted, origin, lost, buffer>>,
           \A r \in Regions, c \in Cells :
              Shares("loose", call', Calls, Here(r), c) = Shares("loose", call, Calls, Here(r), c)
    PROVE  FlowInv'
<1>1. ASSUME NEW r \in Regions, NEW c \in Cells
      PROVE  admitted'[r][c] - admitted[r][c]
                = (origin'[r][c] - origin[r][c])
                    + ((lost'[r][c] + Buffered(buffer', r, c)) - (lost[r][c] + Buffered(buffer, r, c)))
                    + (Shares("loose", call', Calls, Here(r), c)
                         - Shares("loose", call, Calls, Here(r), c))
  BY FlowTypes
<1>2. LostType'
  BY DEF FlowInv, LostType
<1> QED
  BY <1>1, <1>2, FlowAfter

\* A single request is admitted and buffered in the same step.
LEMMA QuietFlow ==
    ASSUME FlowInv, ShareInv', NEW g \in Calls, QuietStep(g)
    PROVE  FlowInv'
<1>1. ShareInv /\ IndInv /\ IndInv' /\ CallsShaped /\ GlobalsCount
  BY DEF FlowInv, ShareInv
<1>2. Moves(g) /\ Quiet(call[g]) /\ Quiet(call'[g])
  BY <1>1, QuietStepMoves
<1>3. ASSUME NEW r \in Regions, NEW c \in Cells
      PROVE  Shares("loose", call', Calls, Here(r), c) = Shares("loose", call, Calls, Here(r), c)
  <2>1. call \in [Calls -> CallRecords] /\ call' \in [Calls -> CallRecords]
        /\ "loose" \in Kinds /\ Calls \in SUBSET Calls
    BY <1>1 DEF IndInv, TypeOK, Kinds
  <2> QED BY <1>2, <2>1, QuietShares
<1>4. CASE CasWins(g)
  <2>1. At(g) \in Active
    BY <1>4 DEF CasWins, Active, CallStates
  <2>2. NodeOf(g) \in Nodes /\ Req(g) \in Requests
    BY <1>1, <2>1, Standing
  <2>3. Enqueue(NodeOf(g), Req(g)) /\ Commit(NodeOf(g), Req(g)) /\ origin' = origin
    BY <1>4 DEF CasWins
  <2>4. /\ LostType'
        /\ \A r \in Regions, c \in Cells :
              lost'[r][c] + Buffered(buffer', r, c)
                = lost[r][c] + Buffered(buffer, r, c) + Charge(NodeOf(g), Req(g), r, c)
    BY <1>1, <2>2, <2>3, EnqueueKeeps DEF FlowInv, IndInv
  <2>5. \A r \in Regions, c \in Cells :
          admitted'[r][c] = admitted[r][c] + Charge(NodeOf(g), Req(g), r, c)
    BY <1>1, <2>2, <2>3, CommitAdds DEF IndInv
  <2>6. ASSUME NEW r \in Regions, NEW c \in Cells
        PROVE  admitted'[r][c] - admitted[r][c]
                  = (origin'[r][c] - origin[r][c])
                      + ((lost'[r][c] + Buffered(buffer', r, c)) - (lost[r][c] + Buffered(buffer, r, c)))
                      + (Shares("loose", call', Calls, Here(r), c)
                           - Shares("loose", call, Calls, Here(r), c))
    <3>1. Charge(NodeOf(g), Req(g), r, c) \in Nat
      BY <1>1, <2>1, DeltaIsCharge
    <3> QED BY <1>3, <2>3, <2>4, <2>5, <3>1, FlowTypes
  <2> QED BY <2>4, <2>6, FlowAfter
<1>5. CASE ~CasWins(g)
  <2>1. UNCHANGED <<admitted, origin, lost, buffer>>
    BY <1>5 DEF QuietStep, Begin, FetchCold, FetchStale, StillFresh, MergeFetched, SkipStrict,
                FetchStrict, MergeStrict, Load, CasLoses, replayVars, ghostVars
  <2> QED BY <1>3, <2>1, FlowSame
<1> QED
  BY <1>4, <1>5

\* A batch is admitted, and then buffered, request by request.
LEMMA BatchFlow ==
    ASSUME FlowInv, ShareInv', NEW g \in Calls, BatchStep(g)
    PROVE  FlowInv'
<1>1. ShareInv /\ IndInv /\ IndInv' /\ CallsShaped /\ TypeOK /\ LostType
  BY DEF FlowInv, ShareInv, IndInv
<1>2. Moves(g) /\ Same(call[g], call'[g]) /\ At(g) \in Active
  BY <1>1, BatchStepMoves
<1>3. /\ NodeOf(g) \in Nodes /\ Req(g) \in Requests
      /\ \A r \in Regions, c \in Cells :
            /\ Delta(g, Here(r), c) = Charge(NodeOf(g), Req(g), r, c)
            /\ Charge(NodeOf(g), Req(g), r, c) \in Nat
  BY <1>1, <1>2, Standing, DeltaIsCharge
<1>4. CASE CommitRequest(g)
  <2>1. Grows("loose", g) /\ Commit(NodeOf(g), Req(g)) /\ UNCHANGED <<origin, lost, buffer>>
    BY <1>1, <1>4, CommitRequestMoves DEF CommitRequest, replayVars
  <2>2. LostType' /\ \A r \in Regions, c \in Cells :
          admitted'[r][c] = admitted[r][c] + Charge(NodeOf(g), Req(g), r, c)
    BY <1>1, <1>3, <2>1, CommitAdds DEF LostType
  <2>3. ASSUME NEW r \in Regions, NEW c \in Cells
        PROVE  admitted'[r][c] - admitted[r][c]
                  = (origin'[r][c] - origin[r][c])
                      + ((lost'[r][c] + Buffered(buffer', r, c)) - (lost[r][c] + Buffered(buffer, r, c)))
                      + (Shares("loose", call', Calls, Here(r), c)
                           - Shares("loose", call, Calls, Here(r), c))
    <3>1. Shares("loose", call', Calls, Here(r), c)
            = Shares("loose", call, Calls, Here(r), c) + Delta(g, Here(r), c)
      <4>1. Calls \in SUBSET Calls
        OBVIOUS
      <4> QED BY <1>1, <1>2, <2>1, <4>1, SharesGrow
    <3> QED BY <1>3, <2>1, <2>2, <3>1, FlowTypes
  <2> QED BY <2>2, <2>3, FlowAfter
<1>5. CASE BufferRequest(g)
  <2>1. Shrinks("loose", g) /\ Enqueue(NodeOf(g), Req(g)) /\ UNCHANGED <<origin, admitted>>
    BY <1>1, <1>5, BufferRequestMoves DEF BufferRequest, ghostVars
  <2>2. LostType' /\ \A r \in Regions, c \in Cells :
          lost'[r][c] + Buffered(buffer', r, c)
             = lost[r][c] + Buffered(buffer, r, c) + Charge(NodeOf(g), Req(g), r, c)
    BY <1>1, <1>3, <2>1, EnqueueKeeps
  <2>3. ASSUME NEW r \in Regions, NEW c \in Cells
        PROVE  admitted'[r][c] - admitted[r][c]
                  = (origin'[r][c] - origin[r][c])
                      + ((lost'[r][c] + Buffered(buffer', r, c)) - (lost[r][c] + Buffered(buffer, r, c)))
                      + (Shares("loose", call', Calls, Here(r), c)
                           - Shares("loose", call, Calls, Here(r), c))
    <3>1. Shares("loose", call', Calls, Here(r), c)
            = Shares("loose", call, Calls, Here(r), c) - Delta(g, Here(r), c)
      <4>1. Calls \in SUBSET Calls
        OBVIOUS
      <4> QED BY <1>1, <1>2, <2>1, <4>1, SharesShrink
    <3> QED BY <1>3, <2>1, <2>2, <3>1, FlowTypes
  <2> QED BY <2>2, <2>3, FlowAfter
<1>6. CASE ~CommitRequest(g) /\ ~BufferRequest(g)
  <2>1. UNCHANGED <<admitted, origin, lost, buffer>>
    BY <1>6 DEF BatchStep, AddSpeculative, AddVal, Evaluate, UndoVal, UndoSpeculative,
                replayVars, ghostVars
  <2>2. Stays("loose", g)
    BY <1>1, <1>6, AddSpeculativeMoves, AddValMoves, EvaluateMoves, UndoValMoves,
       UndoSpeculativeMoves DEF BatchStep
  <2>3. \A r \in Regions, c \in Cells :
          Shares("loose", call', Calls, Here(r), c) = Shares("loose", call, Calls, Here(r), c)
    BY <1>1, <1>2, <2>2, SharesStay
  <2> QED BY <2>1, <2>3, FlowSame
<1> QED
  BY <1>4, <1>5, <1>6

\* A replayed request moves from the buffer to the origin, or is lost.
LEMMA ReplayFlow ==
    ASSUME FlowInv, ShareInv', NEW n \in Nodes, NEW w \in Workers, ReplayStep(n, w)
    PROVE  FlowInv'
<1>1. IndInv /\ TypeOK /\ LostType /\ call' = call /\ admitted' = admitted
  BY ReplayLeaves DEF FlowInv, ShareInv, IndInv
<1>2. CASE ReplayMerge(n, w)
  <2>1. UNCHANGED <<admitted, origin, lost, buffer>>
    BY <1>2 DEF ReplayMerge
  <2> QED BY <1>1, <2>1, FlowSame
<1>3. CASE ReplayIncrement(n, w) \/ ReplayTimesOut(n, w)
  <2> DEFINE req == Head(buffer[n])
  <2>1. /\ buffer[n] # <<>> /\ buffer' = [buffer EXCEPT ![n] = Tail(@)] /\ lost' = lost
        /\ origin' = [origin EXCEPT ![RegionOf[n]][req.cell] = Incremented(n, req)]
    BY <1>3 DEF ReplayIncrement, ReplayTimesOut
  <2>2. /\ req \in Requests
        /\ \A r \in Regions, c \in Cells :
              Buffered(buffer', r, c) + Charge(n, req, r, c) = Buffered(buffer, r, c)
    BY <1>1, <2>1, TakeKeeps
  <2> HIDE DEF req
  <2>3. \A r \in Regions, c \in Cells : origin'[r][c] = origin[r][c] + Charge(n, req, r, c)
    <3>1. /\ origin \in [Regions -> [Cells -> Int]] /\ RegionOf[n] \in Regions
          /\ req.cell \in Cells /\ req.cost \in Nat
      BY <1>1, <2>2, TopologyAssumption DEF TypeOK, Requests
    <3>2. origin' = [origin EXCEPT ![RegionOf[n]][req.cell] = Incremented(n, req)]
      BY <2>1
    <3> QED BY <3>1, <3>2 DEF Charge, Incremented
  <2>4. ASSUME NEW r \in Regions, NEW c \in Cells
        PROVE  admitted'[r][c] - admitted[r][c]
                  = (origin'[r][c] - origin[r][c])
                      + ((lost'[r][c] + Buffered(buffer', r, c)) - (lost[r][c] + Buffered(buffer, r, c)))
                      + (Shares("loose", call', Calls, Here(r), c)
                           - Shares("loose", call, Calls, Here(r), c))
    <3>1. /\ origin'[r][c] = origin[r][c] + Charge(n, req, r, c) /\ lost'[r][c] = lost[r][c]
          /\ Buffered(buffer', r, c) + Charge(n, req, r, c) = Buffered(buffer, r, c)
      BY <2>1, <2>2, <2>3
    <3>2. Charge(n, req, r, c) \in Nat
      BY <2>2, ChargeType
    <3>3. Buffered(buffer', r, c) \in Nat
      BY BufferedType DEF ShareInv, IndInv, TypeOK
    <3> QED BY <1>1, <3>1, <3>2, <3>3, FlowTypes
  <2>5. LostType'
    BY <1>1, <2>1 DEF LostType
  <2> QED BY <2>4, <2>5, FlowAfter
<1>4. CASE ReplayFails(n, w)
  <2> DEFINE req == Head(buffer[n])
  <2>1. /\ buffer[n] # <<>> /\ buffer' = [buffer EXCEPT ![n] = Tail(@)] /\ origin' = origin
        /\ lost' = [lost EXCEPT ![RegionOf[n]][req.cell] = @ + req.cost]
    BY <1>4 DEF ReplayFails
  <2>2. /\ req \in Requests
        /\ \A r \in Regions, c \in Cells :
              Buffered(buffer', r, c) + Charge(n, req, r, c) = Buffered(buffer, r, c)
    BY <1>1, <2>1, TakeKeeps
  <2> HIDE DEF req
  <2>3. /\ lost \in [Regions -> [Cells -> Nat]] /\ RegionOf[n] \in Regions
        /\ req.cell \in Cells /\ req.cost \in Nat
    BY <1>1, <2>2, TopologyAssumption DEF LostType, Requests
  <2>4. lost' = [lost EXCEPT ![RegionOf[n]][req.cell] = @ + req.cost]
    BY <2>1
  <2>5. LostType' /\ \A r \in Regions, c \in Cells : lost'[r][c] = lost[r][c] + Charge(n, req, r, c)
    BY <2>3, <2>4 DEF Charge, LostType
  <2>6. ASSUME NEW r \in Regions, NEW c \in Cells
        PROVE  admitted'[r][c] - admitted[r][c]
                  = (origin'[r][c] - origin[r][c])
                      + ((lost'[r][c] + Buffered(buffer', r, c)) - (lost[r][c] + Buffered(buffer, r, c)))
                      + (Shares("loose", call', Calls, Here(r), c)
                           - Shares("loose", call, Calls, Here(r), c))
    <3>1. /\ lost'[r][c] = lost[r][c] + Charge(n, req, r, c) /\ origin'[r][c] = origin[r][c]
          /\ Buffered(buffer', r, c) + Charge(n, req, r, c) = Buffered(buffer, r, c)
      BY <2>1, <2>2, <2>5
    <3>2. Charge(n, req, r, c) \in Nat
      BY <2>2, ChargeType
    <3>3. Buffered(buffer', r, c) \in Nat
      BY BufferedType DEF ShareInv, IndInv, TypeOK
    <3> QED BY <1>1, <3>1, <3>2, <3>3, FlowTypes
  <2> QED BY <2>5, <2>6, FlowAfter
<1> QED
  BY <1>2, <1>3, <1>4 DEF ReplayStep

\* What the goroutines of a node have committed and not handed to the buffer.
LEMMA UnbufferedIsLoose ==
    ASSUME NEW g \in Calls, NEW c
    PROVE  UnbufferedCost(g, c) = SumFunctionOnSet(Costs(call[g].reqs, c), Part("loose", call[g]))
<1>1. Unbuffered(g) = Part("loose", call[g])
  BY DEF Unbuffered, Part, IsIn, At
<1> QED
  BY <1>1 DEF UnbufferedCost

\* The shares of a region without one of its nodes, and those of the node.
LEMMA LooseSplits ==
    ASSUME call \in [Calls -> CallRecords], NEW n \in Nodes, NEW r, RegionOf[n] = r,
           NEW next, NEW c \in Cells,
           \A g \in Calls : Share("loose", next[g], Here(r), c)
                              = IF NodeOf(g) = n THEN 0 ELSE Share("loose", call[g], Here(r), c)
    PROVE  Shares("loose", call, Calls, Here(r), c)
              = Shares("loose", next, Calls, Here(r), c)
                  + SumFunctionOnSet([g \in Calls |-> UnbufferedCost(g, c)], CallsOn(n))
<1> DEFINE f == [g \in Calls |-> Share("loose", next[g], Here(r), c)]
           k == [g \in Calls |-> IF NodeOf(g) = n THEN UnbufferedCost(g, c) ELSE 0]
           h == [g \in Calls |-> Share("loose", call[g], Here(r), c)]
           u == [g \in Calls |-> UnbufferedCost(g, c)]
           R == CallsOn(n)
<1>1. IsFiniteSet(Calls) /\ R \in SUBSET Calls /\ IsFiniteSet(R)
  BY FiniteAssumption, FS_Subset DEF CallsOn
<1>2. ASSUME NEW g \in Calls
      PROVE  /\ UnbufferedCost(g, c) \in Int
             /\ Share("loose", call[g], Here(r), c) \in Int
             /\ NodeOf(g) = n => Share("loose", call[g], Here(r), c) = UnbufferedCost(g, c)
  <2>1. call[g] \in CallRecords /\ call[g].reqs \in Seq(Requests)
    BY DEF CallRecords
  <2>2. SumFunctionOnSet(Costs(call[g].reqs, c), Part("loose", call[g])) \in Nat
    BY <2>1, PartType, SomeCosts
  <2>3. n \in Here(r)
    BY DEF Here
  <2> QED BY <2>1, <2>2, <2>3, UnbufferedIsLoose, ShareType DEF Share, NodeOf
<1>3. \A g \in Calls : f[g] \in Int /\ k[g] \in Int /\ h[g] = f[g] + k[g]
  BY <1>2
<1>4. \A g \in Calls : k[g] \in Int
  BY <1>2
<1>5. (\A g \in Calls \ R : k[g] = 0) /\ \A g \in R : u[g] \in Int /\ u[g] = k[g]
  BY <1>1, <1>2 DEF CallsOn
<1> HIDE DEF f, k, h, u, R
<1>6. SumFunctionOnSet(h, Calls) = SumFunctionOnSet(f, Calls) + SumFunctionOnSet(k, Calls)
  BY <1>1, <1>3, SumPlus
<1>7. SumFunctionOnSet(k, Calls) = SumFunctionOnSet(k, R)
  BY <1>1, <1>4, <1>5, SumSupport
<1>8. SumFunctionOnSet(u, R) = SumFunctionOnSet(k, R)
  BY <1>1, <1>5, SumSame
<1>9. SumFunctionOnSet(h, Calls) = SumFunctionOnSet(f, Calls) + SumFunctionOnSet(u, R)
  BY <1>6, <1>7, <1>8
<1> QED
  BY <1>9 DEF f, h, u, R, Shares

\* A restart loses the buffer and what the goroutines had not buffered.
LEMMA RestartFlow ==
    ASSUME FlowInv, ShareInv', NEW n \in Nodes, Restart(n)
    PROVE  FlowInv'
<1>1. /\ IndInv /\ IndInv' /\ CallsShaped /\ LostType /\ UNCHANGED <<origin, admitted>>
      /\ call \in [Calls -> CallRecords] /\ call' \in [Calls -> CallRecords]
      /\ buffer \in [Nodes -> Seq(Requests)] /\ buffer' \in [Nodes -> Seq(Requests)]
      /\ buffer' = [buffer EXCEPT ![n] = <<>>] /\ RegionOf[n] \in Regions
  BY TopologyAssumption DEF FlowInv, ShareInv, IndInv, TypeOK, Restart
<1> DEFINE U(c) == SumFunctionOnSet([g \in Calls |-> UnbufferedCost(g, c)], CallsOn(n))
<1>2. /\ lost \in [Regions -> [Cells -> Nat]]
      /\ lost' = [lost EXCEPT ![RegionOf[n]] =
                     [c \in Cells |-> @[c] + CostIn(buffer[n], c) + U(c)]]
  BY <1>1 DEF Restart, LostType
<1>3. ASSUME NEW r, NEW c \in Cells
      PROVE  Buffered(buffer', r, c)
               = Buffered(buffer, r, c) - (IF RegionOf[n] = r THEN CostIn(buffer[n], c) ELSE 0)
  <2>1. \A m \in Nodes : CostIn(buffer[m], c) \in Int /\ CostIn(buffer'[m], c) \in Int
    BY <1>1, CostInType
  <2>2. \A m \in Nodes \ {n} : buffer'[m] = buffer[m]
    BY <1>1
  <2>3. CostIn(buffer'[n], c) = 0
    <3>1. buffer'[n] = <<>> /\ <<>> \in Seq(Requests) /\ Len(<<>>) = 0 /\ 1..0 = {}
      BY <1>1
    <3>2. CostIn(<<>>, c) = SumFunctionOnSet(Costs(<<>>, c), {})
      BY <3>1, CostsType DEF CostIn, SumFunction
    <3> QED BY <3>1, <3>2, SumEmpty
  <2>4. Buffered(buffer', r, c) = Buffered(buffer, r, c)
          + (IF RegionOf[n] = r THEN CostIn(buffer'[n], c) - CostIn(buffer[n], c) ELSE 0)
    BY ONLY <2>1, <2>2, BufferedChange
  <2>5. Buffered(buffer, r, c) \in Nat /\ CostIn(buffer[n], c) \in Int
    BY <1>1, <2>1, BufferedType
  <2> QED BY ONLY <2>3, <2>4, <2>5
<1>4. ASSUME NEW r \in Regions, NEW c \in Cells, NEW g \in Calls
      PROVE  Share("loose", call'[g], Here(r), c)
               = IF NodeOf(g) = n THEN 0 ELSE Share("loose", call[g], Here(r), c)
  <2>1. "loose" \in Kinds /\ call'[g] \in CallRecords
    BY <1>1 DEF Kinds
  <2> QED BY <1>1, <2>1, RestartRecords, QuietShare
<1>5. ASSUME NEW c \in Cells
      PROVE  U(c) \in Nat
  <2>1. CallsOn(n) \in SUBSET Calls /\ IsFiniteSet(CallsOn(n))
    BY FiniteAssumption, FS_Subset DEF CallsOn
  <2> DEFINE u == [g \in Calls |-> UnbufferedCost(g, c)]
  <2>2. \A g \in CallsOn(n) : u[g] \in Nat
    <3> SUFFICES ASSUME NEW g \in Calls
                 PROVE  UnbufferedCost(g, c) \in Nat
      BY <2>1
    <3>1. call[g].reqs \in Seq(Requests)
      BY <1>1 DEF CallRecords
    <3> QED BY <3>1, UnbufferedIsLoose, PartType, SomeCosts
  <2> HIDE DEF u
  <2>3. SumFunctionOnSet(u, CallsOn(n)) \in Nat
    BY <2>1, <2>2, SumNat
  <2> QED BY <2>3 DEF u
<1>6. \A r \in Regions, c \in Cells :
        lost'[r][c] = lost[r][c] + (IF RegionOf[n] = r THEN CostIn(buffer[n], c) + U(c) ELSE 0)
  <2> HIDE DEF U
  <2> TAKE r \in Regions, c \in Cells
  <2>1. CostIn(buffer[n], c) \in Nat /\ U(c) \in Nat /\ lost[r][c] \in Nat
    BY <1>1, <1>2, <1>5, CostInType
  <2>2. CASE RegionOf[n] = r
    <3>1. lost'[r][c] = lost[r][c] + CostIn(buffer[n], c) + U(c)
      BY <1>1, <1>2, <2>2
    <3> QED BY <2>1, <2>2, <3>1
  <2>3. CASE RegionOf[n] # r
    <3>1. lost'[r][c] = lost[r][c]
      BY <1>1, <1>2, <2>3
    <3> QED BY <2>1, <2>3, <3>1
  <2> QED BY <2>2, <2>3
<1>7. LostType'
  <2> HIDE DEF U
  <2>1. \A r \in Regions, c \in Cells : lost'[r][c] \in Nat
    BY <1>1, <1>2, <1>5, <1>6, CostInType
  <2>2. lost' \in [Regions -> [Cells -> Nat]]
    <3> DEFINE row == [c \in Cells |-> lost[RegionOf[n]][c] + CostIn(buffer[n], c) + U(c)]
    <3>1. lost' = [lost EXCEPT ![RegionOf[n]] = row]
      BY <1>1, <1>2
    <3>2. row \in [Cells -> Nat]
      <4>1. \A c \in Cells : lost[RegionOf[n]][c] + CostIn(buffer[n], c) + U(c) \in Nat
        <5> TAKE c \in Cells
        <5>1. lost[RegionOf[n]][c] \in Nat /\ CostIn(buffer[n], c) \in Nat /\ U(c) \in Nat
          BY <1>1, <1>2, <1>5, CostInType
        <5> QED BY <5>1
      <4> QED BY <4>1
    <3> HIDE DEF row
    <3> QED BY <1>1, <1>2, <3>1, <3>2
  <2> QED BY <2>2 DEF LostType
<1>8. ASSUME NEW r \in Regions, NEW c \in Cells
      PROVE  Shares("loose", call, Calls, Here(r), c)
               = Shares("loose", call', Calls, Here(r), c) + (IF RegionOf[n] = r THEN U(c) ELSE 0)
  <2>1. \A g \in Calls : Share("loose", call'[g], Here(r), c)
                            = IF NodeOf(g) = n THEN 0 ELSE Share("loose", call[g], Here(r), c)
    BY <1>4
  <2>2. Shares("loose", call', Calls, Here(r), c) \in Nat
    <3>1. Calls \in SUBSET Calls
      OBVIOUS
    <3> QED BY <1>1, <3>1, SharesType
  <2>3. CASE RegionOf[n] = r
    <3>1. Shares("loose", call, Calls, Here(r), c) = Shares("loose", call', Calls, Here(r), c) + U(c)
      <4>1. call \in [Calls -> CallRecords]
        BY <1>1
      <4> QED BY ONLY <2>1, <2>3, <4>1, LooseSplits
    <3> QED BY <2>3, <3>1
  <2>4. CASE RegionOf[n] # r
    <3>1. \A g \in Calls : NodeOf(g) = n => Share("loose", call[g], Here(r), c) = 0
      BY <2>4 DEF Share, Here, NodeOf
    <3>2. \A g \in Calls : Share("loose", call'[g], Here(r), c) = Share("loose", call[g], Here(r), c)
      BY <2>1, <3>1
    <3>3. Shares("loose", call', Calls, Here(r), c) = Shares("loose", call, Calls, Here(r), c)
      BY <1>1, <3>2, SharesSame
    <3> QED BY <2>2, <2>4, <3>3
  <2> QED BY <2>3, <2>4
<1>9. ASSUME NEW r \in Regions, NEW c \in Cells
      PROVE  admitted'[r][c] - admitted[r][c]
                = (origin'[r][c] - origin[r][c])
                    + ((lost'[r][c] + Buffered(buffer', r, c)) - (lost[r][c] + Buffered(buffer, r, c)))
                    + (Shares("loose", call', Calls, Here(r), c)
                         - Shares("loose", call, Calls, Here(r), c))
  <2>1. U(c) \in Nat /\ CostIn(buffer[n], c) \in Nat
    BY <1>1, <1>5, CostInType
  <2> HIDE DEF U
  <2>2. Shares("loose", call', Calls, Here(r), c) \in Nat
    <3>1. Calls \in SUBSET Calls
      OBVIOUS
    <3> QED BY <1>1, <3>1, SharesType
  <2>3. admitted'[r][c] = admitted[r][c] /\ origin'[r][c] = origin[r][c]
    BY <1>1
  <2>4. lost'[r][c] = lost[r][c] + (IF RegionOf[n] = r THEN CostIn(buffer[n], c) + U(c) ELSE 0)
    BY <1>6
  <2>5. Buffered(buffer', r, c)
          = Buffered(buffer, r, c) - (IF RegionOf[n] = r THEN CostIn(buffer[n], c) ELSE 0)
    BY <1>3
  <2>6. Shares("loose", call, Calls, Here(r), c)
          = Shares("loose", call', Calls, Here(r), c) + (IF RegionOf[n] = r THEN U(c) ELSE 0)
    BY <1>8
  <2>7. /\ admitted[r][c] \in Int /\ origin[r][c] \in Int /\ lost[r][c] \in Nat
        /\ Buffered(buffer, r, c) \in Nat
    BY FlowTypes
  <2> QED BY ONLY <2>1, <2>2, <2>3, <2>4, <2>5, <2>6, <2>7
<1> QED
  BY <1>7, <1>9, FlowAfter

\* Nothing is admitted initially.
LEMMA FlowInit == Init => FlowInv
<1> SUFFICES ASSUME Init
             PROVE  FlowInv
  OBVIOUS
<1>1. ShareInv /\ LostType
  BY ShareInit DEF Init, LostType
<1>2. ASSUME NEW r \in Regions, NEW c \in Cells
      PROVE  /\ Buffered(buffer, r, c) = 0
             /\ Shares("loose", call, Calls, Here(r), c) = 0
  <2>1. \A n \in Nodes : CostIn(buffer[n], c) = 0
    <3>1. <<>> \in Seq(Requests) /\ Len(<<>>) = 0 /\ 1..0 = {}
      OBVIOUS
    <3>2. CostIn(<<>>, c) = SumFunctionOnSet(Costs(<<>>, c), {})
      BY <3>1, CostsType DEF CostIn, SumFunction
    <3>3. \A n \in Nodes : buffer[n] = <<>>
      BY DEF Init
    <3> QED BY <3>2, <3>3, SumEmpty
  <2> DEFINE f == [n \in Nodes |-> CostIn(buffer[n], c)]
  <2>2. \A n \in Here(r) : f[n] = 0
    BY <2>1 DEF Here
  <2> HIDE DEF f
  <2>3. IsFiniteSet(Here(r))
    BY FiniteAssumption, FS_Subset DEF Here
  <2>4. SumFunctionOnSet(f, Here(r)) = 0
    BY <2>2, <2>3, SumZero
  <2>5. Shares("loose", call, Calls, Here(r), c) = 0
    <3>1. call \in [Calls -> CallRecords] /\ "loose" \in Kinds /\ Calls \in SUBSET Calls
      BY <1>1 DEF ShareInv, IndInv, TypeOK, Kinds
    <3>2. \A g \in Calls : Quiet(call[g])
      <4>1. \A g \in Calls : call[g].pc = "idle"
        BY DEF Init, IdleCall
      <4> QED BY <4>1 DEF Quiet, CallStates
    <3> QED BY <3>1, <3>2, QuietShare, NoShares
  <2> QED BY <2>4, <2>5 DEF Buffered, f
<1>3. Conserved
  BY <1>2 DEF Init, Conserved
<1> QED
  BY <1>1, <1>3 DEF FlowInv

\* Every admitted unit stays accounted for in every step.
LEMMA FlowStep == FlowInv /\ [Next]_vars => FlowInv'
<1> SUFFICES ASSUME FlowInv, [Next]_vars
             PROVE  FlowInv'
  OBVIOUS
<1>1. ShareInv'
  BY ShareStep DEF FlowInv
<1>2. CASE RequestNext
  BY <1>1, <1>2, Steps, QuietFlow, BatchFlow, ReplayFlow
<1>3. CASE \E n \in Nodes : Restart(n)
  BY <1>1, <1>3, RestartFlow
<1>4. CASE UNCHANGED vars
  <2>1. UNCHANGED <<admitted, origin, lost, buffer, call>>
    BY <1>4 DEF vars, replayVars, ghostVars
  <2> QED BY <1>1, <2>1, FlowSame
<1> QED
  BY <1>2, <1>3, <1>4 DEF Next

\* The sums over fixed sets are those of the property.
LEMMA FlowConserves == FlowInv => OriginConservation
<1> SUFFICES ASSUME FlowInv, NEW r \in Regions, NEW c \in Cells
             PROVE  admitted[r][c] = origin[r][c] + lost[r][c]
                      + SumFunctionOnSet([n \in Nodes |-> CostIn(buffer[n], c)], Here(r))
                      + SumFunctionOnSet([g \in Calls |-> UnbufferedCost(g, c)],
                                         {g \in Calls : NodeOf(g) \in Here(r)})
  BY DEF OriginConservation, Here
<1> DEFINE u == [g \in Calls |-> UnbufferedCost(g, c)]
           h == [g \in Calls |-> Share("loose", call[g], Here(r), c)]
           R == {g \in Calls : NodeOf(g) \in Here(r)}
<1>1. IsFiniteSet(Calls) /\ R \in SUBSET Calls /\ IsFiniteSet(R)
  BY FiniteAssumption, FS_Subset
<1>2. \A g \in Calls : h[g] \in Int
  BY ShareType DEF FlowInv, ShareInv, IndInv, TypeOK
<1>3. \A g \in Calls \ R : h[g] = 0
  BY DEF Share, NodeOf
<1>4. \A g \in R : h[g] \in Int /\ h[g] = u[g]
  BY <1>2, UnbufferedIsLoose DEF Share, NodeOf
<1>5. SumFunctionOnSet(h, Calls) = Shares("loose", call, Calls, Here(r), c)
  BY DEF Shares
<1> HIDE DEF h, u, R
<1>6. SumFunctionOnSet(h, Calls) = SumFunctionOnSet(h, R)
  BY <1>1, <1>2, <1>3, SumSupport
<1>7. SumFunctionOnSet(h, R) = SumFunctionOnSet(u, R)
  BY <1>1, <1>4, SumSame
<1>8. admitted[r][c] = origin[r][c] + lost[r][c] + Buffered(buffer, r, c) + SumFunctionOnSet(u, R)
  BY <1>5, <1>6, <1>7 DEF FlowInv, Conserved
<1> QED
  BY <1>8 DEF u, R, Buffered

\* Every admitted unit is in Redis, buffered or between the decision and the buffer, or
\* counted as lost: whatever workers, drops, timeouts and restarts do, the replay path
\* neither counts an admission twice nor loses one silently.
THEOREM AdmissionsConserved == Spec => []OriginConservation
BY FlowConserves, FlowInit, FlowStep, PTL DEF Spec

----------------------------------------------------------------------------
\* No count comes from nowhere

\* The origin never holds more than the region has admitted.
LEMMA OriginIsAdmitted ==
    ASSUME FlowInv, NEW r \in Regions, NEW c \in Cells
    PROVE  origin[r][c] <= admitted[r][c]
<1>1. admitted[r][c] = origin[r][c] + lost[r][c] + Buffered(buffer, r, c)
                          + Shares("loose", call, Calls, Here(r), c)
  BY DEF FlowInv, Conserved
<1>2. /\ admitted[r][c] \in Int /\ origin[r][c] \in Int /\ lost[r][c] \in Nat
      /\ Buffered(buffer, r, c) \in Nat
      /\ Shares("loose", call, Calls, Here(r), c) \in Nat
  BY FlowTypes
<1> QED
  BY ONLY <1>1, <1>2

\* What a region has admitted only grows.
LEMMA AdmittedGrows ==
    ASSUME FlowInv, [Next]_vars, NEW r \in Regions, NEW c \in Cells
    PROVE  admitted'[r][c] >= admitted[r][c]
<1>1. admitted[r][c] \in Int
  BY FlowTypes
<1>2. ASSUME NEW g \in Calls, CasWins(g) \/ CommitRequest(g)
      PROVE  admitted'[r][c] >= admitted[r][c]
  <2>1. At(g) \in Active
    BY <1>2 DEF CasWins, CommitRequest, Active, CallStates
  <2>2. NodeOf(g) \in Nodes /\ Req(g) \in Requests /\ TypeOK
    BY <2>1, Standing DEF FlowInv, ShareInv, IndInv
  <2>3. Commit(NodeOf(g), Req(g))
    BY <1>2 DEF CasWins, CommitRequest
  <2>4. admitted'[r][c] = admitted[r][c] + Charge(NodeOf(g), Req(g), r, c)
    BY <2>2, <2>3, CommitAdds
  <2>5. Charge(NodeOf(g), Req(g), r, c) \in Nat
    BY <2>2, ChargeType
  <2> QED BY <1>1, <2>4, <2>5
<1>3. ASSUME NEW g \in Calls, QuietStep(g) \/ BatchStep(g), ~CasWins(g), ~CommitRequest(g)
      PROVE  admitted' = admitted
  BY <1>3 DEF QuietStep, BatchStep, Begin, FetchCold, FetchStale, StillFresh, MergeFetched,
              SkipStrict, FetchStrict, MergeStrict, Load, CasLoses, AddSpeculative, AddVal,
              Evaluate, UndoVal, UndoSpeculative, BufferRequest, ghostVars
<1>4. CASE RequestNext
  BY <1>1, <1>2, <1>3, <1>4, Steps, ReplayLeaves
<1>5. CASE \E n \in Nodes : Restart(n)
  <2>1. admitted' = admitted
    BY <1>5 DEF Restart
  <2> QED BY <1>1, <2>1
<1>6. CASE UNCHANGED vars
  <2>1. admitted' = admitted
    BY <1>6 DEF vars, ghostVars
  <2> QED BY <1>1, <2>1
<1> QED
  BY <1>4, <1>5, <1>6 DEF Next

Merges == {"coldMerge", "staleMerge", "strictMerge"}

\* Only the fetches lead to a merge, and only Load leads to the CompareAndSwap.
LEMMA Arrivals ==
    ASSUME IndInv, NEW g \in Calls, QuietStep(g) \/ BatchStep(g)
    PROVE  /\ call'[g].pc \in Merges => FetchCold(g) \/ FetchStale(g) \/ FetchStrict(g)
           /\ call'[g].pc = "cas" => Load(g)
<1>1. call \in [Calls -> CallRecords] /\ call[g] \in CallRecords
  BY DEF IndInv, TypeOK
<1>2. CASE FetchCold(g) \/ FetchStale(g) \/ FetchStrict(g) \/ StillFresh(g) \/ MergeFetched(g)
  <2>1. call'[g].pc \in {"coldMerge", "staleMerge", "strictMerge", "strict"}
    BY <1>1, <1>2 DEF FetchCold, FetchStale, FetchStrict, StillFresh, MergeFetched, CallRecords
  <2>2. ~(FetchCold(g) \/ FetchStale(g) \/ FetchStrict(g)) => call'[g].pc = "strict"
    BY <1>1, <1>2 DEF StillFresh, MergeFetched, CallRecords
  <2> QED BY <2>1, <2>2 DEF Merges
<1>3. CASE SkipStrict(g) \/ MergeStrict(g)
  <2>1. call'[g] = Prepared(g)
    BY <1>1, <1>3 DEF SkipStrict, MergeStrict
  <2>2. Prepared(g).pc \in {"ensure", "load", "addSpec"}
    BY <1>1 DEF Prepared, CallRecords
  <2> QED BY <2>1, <2>2 DEF Merges
<1>4. CASE Load(g)
  <2>1. call'[g].pc \in {"denied", "cas"}
    BY <1>1, <1>4 DEF Load, CallRecords
  <2> QED BY <1>4, <2>1 DEF Merges
<1>5. CASE CasWins(g) \/ CasLoses(g)
  <2>1. call'[g].pc \in {"denied", "allowed", "load"}
    BY <1>1, <1>5 DEF CasWins, CasLoses, CallRecords
  <2> QED BY <2>1 DEF Merges
<1>6. CASE \E n \in Nodes : Begin(g, n)
  <2>1. call'[g].pc = "ensure"
    BY ZenonT(40), <1>1, <1>6 DEF Begin, IdleCall
  <2> QED BY <2>1 DEF Merges
<1>7. CASE AddSpeculative(g) \/ Evaluate(g) \/ UndoVal(g)
  <2>1. call'[g].pc \in {"addVal", "commit", "undoVal", "undoSpec"}
    BY <1>1, <1>7 DEF AddSpeculative, Evaluate, UndoVal, CallRecords
  <2> QED BY <2>1 DEF Merges
<1>8. CASE AddVal(g)
  <2>1. call'[g].pc \in {"addSpec", "evaluate"}
    BY <1>1, <1>8 DEF AddVal, NextRound, CallRecords
  <2> QED BY <2>1 DEF Merges
<1>9. CASE UndoSpeculative(g) \/ CommitRequest(g) \/ BufferRequest(g)
  <2>1. \/ call'[g] = NextRound(g, "undoVal", "denied")
        \/ call'[g] = NextRound(g, "commit", "buffer")
        \/ call'[g] = NextRound(g, "buffer", "allowed")
    BY <1>1, <1>9 DEF UndoSpeculative, CommitRequest, BufferRequest
  <2>2. call'[g].pc \in {"undoVal", "denied", "commit", "buffer", "allowed"}
    BY <1>1, <2>1 DEF NextRound, CallRecords
  <2> QED BY <2>2 DEF Merges
<1> QED
  BY <1>2, <1>3, <1>4, <1>5, <1>6, <1>7, <1>8, <1>9 DEF QuietStep, BatchStep

\* A goroutine that comes to a merge brings what the origin held, or nothing.
LEMMA FetchedIsOrigin ==
    ASSUME IndInv, NEW g \in Calls, QuietStep(g) \/ BatchStep(g), call'[g].pc \in Merges
    PROVE  /\ call'[g].got \in FetchResults(NodeOf(g), CellOf(g))
           /\ call'[g].node = NodeOf(g) /\ call'[g].reqs[call'[g].i].cell = CellOf(g)
           /\ NodeOf(g) \in Nodes /\ CellOf(g) \in Cells
<1>1. call \in [Calls -> CallRecords] /\ call[g] \in CallRecords
  BY DEF IndInv, TypeOK
<1>2. CASE FetchCold(g) \/ FetchStale(g) \/ FetchStrict(g)
  <2>1. At(g) \in Active
    BY <1>2 DEF FetchCold, FetchStale, FetchStrict, Active, CallStates
  <2>2. \E got \in FetchResults(NodeOf(g), CellOf(g)) :
           \/ call' = [call EXCEPT ![g].pc = "coldMerge", ![g].got = got]
           \/ call' = [call EXCEPT ![g].pc = "staleMerge", ![g].got = got]
           \/ call' = [call EXCEPT ![g].pc = "strictMerge", ![g].got = got]
    <3>1. CASE FetchCold(g)
      BY <3>1, Zenon DEF FetchCold
    <3>2. CASE FetchStale(g)
      BY <3>2, Zenon DEF FetchStale
    <3>3. CASE FetchStrict(g)
      BY <3>3, Zenon DEF FetchStrict
    <3> QED BY <1>2, <3>1, <3>2, <3>3
  <2>3. /\ call'[g].got \in FetchResults(NodeOf(g), CellOf(g)) /\ call'[g].node = call[g].node
        /\ call'[g].reqs = call[g].reqs /\ call'[g].i = call[g].i
    BY <1>1, <2>2 DEF CallRecords
  <2>4. NodeOf(g) \in Nodes /\ CellOf(g) \in Cells
    BY <2>1, Standing
  <2> QED BY <2>3, <2>4 DEF NodeOf, CellOf, Req
<1> QED
  BY <1>2, Arrivals

\* Only goroutine g moves in its steps.
LEMMA CallsMove ==
    ASSUME IndInv, IndInv', CallsShaped, GlobalsCount, NEW g \in Calls,
           QuietStep(g) \/ BatchStep(g)
    PROVE  Moves(g) /\ \A h \in Calls \ {g} : call'[h] = call[h]
<1>1. Moves(g)
  BY QuietStepMoves, BatchStepMoves
<1>2. call \in [Calls -> CallRecords]
  BY DEF IndInv, TypeOK
<1> QED
  BY <1>1, <1>2 DEF Moves

\* A count on its way into val stays backed by what the region admitted.
LEMMA BackedCalls ==
    ASSUME FlowInv, FlowInv', Backed, [Next]_vars, NEW g \in Calls, call'[g].pc \in Merges
    PROVE  call'[g].got <= admitted'[RegionOf[call'[g].node]][call'[g].reqs[call'[g].i].cell]
<1>1. IndInv /\ IndInv' /\ CallsShaped /\ GlobalsCount
  BY DEF FlowInv, ShareInv
<1>2. /\ call[g] \in CallRecords /\ call'[g] \in CallRecords
      /\ call[g].got \in Int /\ call'[g].got \in Int
  BY <1>1 DEF IndInv, TypeOK, CallRecords
<1>3. ASSUME call'[g] = call[g]
      PROVE  call'[g].got <= admitted'[RegionOf[call'[g].node]][call'[g].reqs[call'[g].i].cell]
  <2>1. At(g) \in Merges /\ At(g) \in Active
    BY <1>3 DEF At, Merges, Active, CallStates
  <2>2. NodeOf(g) \in Nodes /\ CellOf(g) \in Cells /\ RegionOf[NodeOf(g)] \in Regions
    BY <1>1, <2>1, Standing, TopologyAssumption
  <2>3. call[g].got <= admitted[RegionOf[NodeOf(g)]][CellOf(g)]
    BY <2>1 DEF Backed, Merges
  <2>4. admitted'[RegionOf[NodeOf(g)]][CellOf(g)] >= admitted[RegionOf[NodeOf(g)]][CellOf(g)]
    BY <2>2, AdmittedGrows
  <2>5. /\ admitted'[RegionOf[NodeOf(g)]][CellOf(g)] \in Int
        /\ admitted[RegionOf[NodeOf(g)]][CellOf(g)] \in Int
    BY <1>1, <2>2 DEF IndInv, TypeOK
  <2>6. call[g].got <= admitted'[RegionOf[NodeOf(g)]][CellOf(g)]
    BY <1>2, <2>3, <2>4, <2>5
  <2> QED BY <1>3, <2>6 DEF NodeOf, CellOf, Req
<1>4. ASSUME QuietStep(g) \/ BatchStep(g)
      PROVE  call'[g].got <= admitted'[RegionOf[call'[g].node]][call'[g].reqs[call'[g].i].cell]
  <2> DEFINE r == RegionOf[NodeOf(g)]
             c == CellOf(g)
  <2>1. /\ call'[g].got \in FetchResults(NodeOf(g), c)
        /\ call'[g].node = NodeOf(g) /\ call'[g].reqs[call'[g].i].cell = c
        /\ NodeOf(g) \in Nodes /\ c \in Cells
    BY <1>1, <1>4, FetchedIsOrigin
  <2>2. r \in Regions
    BY <2>1, TopologyAssumption
  <2>3. call'[g].got = origin[r][c] \/ call'[g].got = -1
    BY <2>1 DEF FetchResults, Failed
  <2>4. origin[r][c] <= admitted[r][c] /\ admitted'[r][c] >= admitted[r][c] /\ admitted[r][c] >= 0
    BY <2>1, <2>2, OriginIsAdmitted, AdmittedGrows DEF Backed
  <2>5. origin[r][c] \in Int /\ admitted[r][c] \in Int /\ admitted'[r][c] \in Int
    BY <1>1, <2>1, <2>2 DEF IndInv, TypeOK
  <2>6. call'[g].got <= admitted'[r][c]
    <3> HIDE DEF r, c
    <3> QED BY <1>2, <2>3, <2>4, <2>5
  <2> QED BY <2>1, <2>6
<1>5. CASE RequestNext
  <2>1. CASE \E h \in Calls : QuietStep(h) \/ BatchStep(h)
    <3>1. PICK h \in Calls : QuietStep(h) \/ BatchStep(h)
      BY <2>1
    <3>2. h = g \/ call'[g] = call[g]
      BY <1>1, <3>1, CallsMove
    <3> QED BY <1>3, <1>4, <3>1, <3>2
  <2>2. CASE \E n \in Nodes, w \in Workers : ReplayStep(n, w)
    <3>1. call' = call
      BY <2>2, ReplayLeaves
    <3> QED BY <1>3, <3>1
  <2> QED BY <1>5, <2>1, <2>2, Steps
<1>6. CASE \E n \in Nodes : Restart(n)
  <2>1. call'[g] = call[g] \/ call'[g].pc = "crashed"
    BY <1>1, <1>6 DEF Restart, IndInv, TypeOK, CallRecords
  <2> QED BY <1>3, <2>1 DEF Merges
<1>7. CASE UNCHANGED vars
  <2>1. call' = call
    BY <1>7 DEF vars
  <2> QED BY <1>3, <2>1
<1> QED
  BY <1>5, <1>6, <1>7 DEF Next

\* The answer to a replay is a count that the region admitted.
LEMMA BackedAcks ==
    ASSUME FlowInv, FlowInv', Backed, [Next]_vars, NEW n \in Nodes, NEW w \in Workers,
           ack'[n][w] # NoAck
    PROVE  ack'[n][w].count <= admitted'[RegionOf[n]][ack'[n][w].cell]
<1> DEFINE r == RegionOf[n]
<1>1. /\ TypeOK /\ TypeOK' /\ r \in Regions
      /\ ack \in [Nodes -> [Workers -> [cell : Cells, count : Int] \cup {NoAck}]]
      /\ ack' \in [Nodes -> [Workers -> [cell : Cells, count : Int] \cup {NoAck}]]
      /\ admitted \in [Regions -> [Cells -> Int]] /\ admitted' \in [Regions -> [Cells -> Int]]
      /\ origin \in [Regions -> [Cells -> Int]]
  BY TopologyAssumption DEF FlowInv, ShareInv, IndInv, TypeOK
<1>2. ASSUME ack'[n][w] = ack[n][w]
      PROVE  ack'[n][w].count <= admitted'[r][ack'[n][w].cell]
  <2>1. ack[n][w].cell \in Cells /\ ack[n][w].count \in Int
    BY <1>1, <1>2
  <2>2. ack[n][w].count <= admitted[r][ack[n][w].cell]
    BY <1>2 DEF Backed
  <2>3. admitted'[r][ack[n][w].cell] >= admitted[r][ack[n][w].cell]
    BY <1>1, <2>1, AdmittedGrows
  <2>4. admitted'[r][ack[n][w].cell] \in Int /\ admitted[r][ack[n][w].cell] \in Int
    BY <1>1, <2>1
  <2> QED BY <1>2, <2>1, <2>2, <2>3, <2>4
<1>3. ASSUME ReplayIncrement(n, w)
      PROVE  ack'[n][w].count <= admitted'[r][ack'[n][w].cell]
  <2> DEFINE req == Head(buffer[n])
             c == req.cell
  <2>1. /\ buffer[n] # <<>> /\ buffer' = [buffer EXCEPT ![n] = Tail(@)] /\ admitted' = admitted
        /\ ack' = [ack EXCEPT ![n][w] = [cell |-> c, count |-> Incremented(n, req)]]
    BY <1>3 DEF ReplayIncrement, ghostVars
  <2>2. /\ req \in Requests
        /\ \A x \in Regions, d \in Cells :
              Buffered(buffer', x, d) + Charge(n, req, x, d) = Buffered(buffer, x, d)
    BY <1>1, <2>1, TakeKeeps
  <2>3. ack'[n][w] = [cell |-> c, count |-> Incremented(n, req)]
    BY <1>1, <2>1
  <2>4. c \in Cells /\ req.cost \in Nat
    BY <2>2 DEF Requests
  <2>5. Buffered(buffer', r, c) + req.cost = Buffered(buffer, r, c)
    BY <1>1, <2>2, <2>4 DEF Charge
  <2>6. Buffered(buffer', r, c) \in Nat
    BY <2>4, BufferedType DEF FlowInv, ShareInv, IndInv, TypeOK
  <2>7. admitted[r][c] = origin[r][c] + lost[r][c] + Buffered(buffer, r, c)
                            + Shares("loose", call, Calls, Here(r), c)
    BY <1>1, <2>4 DEF FlowInv, Conserved
  <2>8. /\ admitted[r][c] \in Int /\ origin[r][c] \in Int /\ lost[r][c] \in Nat
        /\ Buffered(buffer, r, c) \in Nat
        /\ Shares("loose", call, Calls, Here(r), c) \in Nat
    BY <1>1, <2>4, FlowTypes
  <2>9. ack'[n][w].cell = c /\ ack'[n][w].count = origin[r][c] + req.cost
        /\ admitted'[r][c] = admitted[r][c]
    BY <2>1, <2>3 DEF Incremented
  <2>10. req.cost \in Nat
    BY <2>4
  <2>11. origin[r][c] + req.cost <= admitted[r][c]
    <3> HIDE DEF r, c, req
    <3> QED BY ONLY <2>5, <2>6, <2>7, <2>8, <2>10
  <2> QED BY <2>9, <2>11
<1>4. CASE RequestNext
  <2>1. CASE \E g \in Calls : QuietStep(g) \/ BatchStep(g)
    <3>1. ack' = ack
      BY ZenonT(40), <2>1 DEF QuietStep, BatchStep, Begin, FetchCold, FetchStale, StillFresh, MergeFetched,
              SkipStrict, FetchStrict, MergeStrict, Load, CasLoses, CasWins, AddSpeculative, AddVal,
              Evaluate, UndoVal, UndoSpeculative, CommitRequest, BufferRequest, replayVars
    <3> QED BY <1>2, <3>1
  <2>2. CASE \E m \in Nodes, v \in Workers : ReplayStep(m, v)
    <3>1. PICK m \in Nodes, v \in Workers : ReplayStep(m, v)
      BY <2>2
    <3>2. CASE ReplayIncrement(m, v)
      <4>1. (m = n /\ v = w) \/ ack'[n][w] = ack[n][w]
        BY <1>1, <3>2 DEF ReplayIncrement
      <4> QED BY <1>2, <1>3, <3>2, <4>1
    <3>3. CASE ReplayTimesOut(m, v) \/ ReplayFails(m, v)
      <4>1. ack' = ack
        BY <3>3 DEF ReplayTimesOut, ReplayFails
      <4> QED BY <1>2, <4>1
    <3>4. CASE ReplayMerge(m, v)
      <4>1. ack' = [ack EXCEPT ![m][v] = NoAck]
        BY <3>4 DEF ReplayMerge
      <4>2. ack'[n][w] = NoAck \/ ack'[n][w] = ack[n][w]
        BY <1>1, <4>1
      <4> QED BY <1>2, <4>2
    <3> QED BY <3>1, <3>2, <3>3, <3>4 DEF ReplayStep
  <2> QED BY <1>4, <2>1, <2>2, Steps
<1>5. CASE \E m \in Nodes : Restart(m)
  <2>1. PICK m \in Nodes : ack' = [ack EXCEPT ![m] = [v \in Workers |-> NoAck]]
    BY <1>5 DEF Restart
  <2>2. ack'[n][w] = NoAck \/ ack'[n][w] = ack[n][w]
    BY <1>1, <2>1
  <2> QED BY <1>2, <2>2
<1>6. CASE UNCHANGED vars
  <2>1. ack' = ack
    BY <1>6 DEF vars, replayVars
  <2> QED BY <1>2, <2>1
<1> QED
  BY <1>4, <1>5, <1>6 DEF Next

\* val without the undecided batches, after a step that did not raise it.
LEMMA PhantomSame ==
    ASSUME PhantomInv, FlowInv', [Next]_vars,
           \A n \in Nodes, c \in Cells :
              val'[n][c] - inflight'[n][c] <= val[n][c] - inflight[n][c]
    PROVE  NoPhantomCount'
<1> SUFFICES ASSUME NEW n \in Nodes, NEW c \in Cells
             PROVE  val'[n][c] - inflight'[n][c] <= admitted'[RegionOf[n]][c]
  BY DEF NoPhantomCount
<1>1. FlowInv /\ RegionOf[n] \in Regions
  BY TopologyAssumption DEF PhantomInv
<1>2. val[n][c] - inflight[n][c] <= admitted[RegionOf[n]][c]
  BY DEF PhantomInv, NoPhantomCount
<1>3. admitted'[RegionOf[n]][c] >= admitted[RegionOf[n]][c]
  BY <1>1, AdmittedGrows
<1>4. /\ val[n][c] \in Int /\ val'[n][c] \in Int /\ inflight[n][c] \in Int /\ inflight'[n][c] \in Int
      /\ admitted[RegionOf[n]][c] \in Int /\ admitted'[RegionOf[n]][c] \in Int
  <2>1. TypeOK /\ TypeOK'
    BY <1>1 DEF FlowInv, ShareInv, IndInv
  <2>2. /\ val \in [Nodes -> [Cells -> Int]] /\ inflight \in [Nodes -> [Cells -> Int]]
        /\ admitted \in [Regions -> [Cells -> Int]]
    BY <2>1 DEF TypeOK, PerCell
  <2>3. /\ val' \in [Nodes -> [Cells -> Int]] /\ inflight' \in [Nodes -> [Cells -> Int]]
        /\ admitted' \in [Regions -> [Cells -> Int]]
    BY <2>1 DEF TypeOK, PerCell
  <2> QED BY ONLY <1>1, <2>2, <2>3, n \in Nodes, c \in Cells
<1>5. val'[n][c] - inflight'[n][c] <= val[n][c] - inflight[n][c]
  OBVIOUS
<1> QED
  BY ONLY <1>2, <1>3, <1>4, <1>5

\* A merge of a count the region has admitted.
LEMMA MergePhantom ==
    ASSUME PhantomInv, FlowInv', [Next]_vars, NEW m \in Nodes, NEW d \in Cells, NEW got \in Int,
           MergeOrigin(m, d, got), got <= admitted[RegionOf[m]][d], inflight' = inflight
    PROVE  NoPhantomCount'
<1> SUFFICES ASSUME NEW n \in Nodes, NEW c \in Cells
             PROVE  val'[n][c] - inflight'[n][c] <= admitted'[RegionOf[n]][c]
  BY DEF NoPhantomCount
<1>1. FlowInv /\ RegionOf[n] \in Regions /\ ShareInv
  BY TopologyAssumption DEF PhantomInv, FlowInv
<1>2. val[n][c] - inflight[n][c] <= admitted[RegionOf[n]][c]
  BY DEF PhantomInv, NoPhantomCount
<1>3. admitted'[RegionOf[n]][c] >= admitted[RegionOf[n]][c]
  BY <1>1, AdmittedGrows
<1>4. /\ val[n][c] \in Int /\ val'[n][c] \in Int /\ inflight[n][c] \in Int
      /\ admitted[RegionOf[n]][c] \in Int /\ admitted'[RegionOf[n]][c] \in Int
  <2>1. TypeOK /\ TypeOK'
    BY <1>1 DEF FlowInv, ShareInv, IndInv
  <2>2. /\ val \in [Nodes -> [Cells -> Int]] /\ inflight \in [Nodes -> [Cells -> Int]]
        /\ admitted \in [Regions -> [Cells -> Int]]
    BY <2>1 DEF TypeOK, PerCell
  <2>3. val' \in [Nodes -> [Cells -> Int]] /\ admitted' \in [Regions -> [Cells -> Int]]
    BY <2>1 DEF TypeOK, PerCell
  <2> QED BY <1>1, <2>2, <2>3
<1>5. inflight[n][c] >= 0
  BY <1>1, HeldIsAnnounced
<1>6. val'[n][c] = val[n][c] \/ (n = m /\ c = d /\ val'[n][c] = got)
  <2>1. val \in [Nodes -> [Cells -> Int]]
    BY <1>1 DEF ShareInv, IndInv, TypeOK, PerCell
  <2>2. val' = [val EXCEPT ![m][d] = AtomicMax(@, got)]
    BY DEF MergeOrigin
  <2> QED BY <2>1, <2>2 DEF AtomicMax
<1>7. val'[n][c] = val[n][c] \/ val'[n][c] <= admitted[RegionOf[n]][c]
  BY <1>6
<1>8. inflight'[n][c] = inflight[n][c]
  OBVIOUS
<1> QED
  BY ONLY <1>2, <1>3, <1>4, <1>5, <1>7, <1>8

\* A merge or a CAS of a single request invents no count.
LEMMA QuietPhantom ==
    ASSUME PhantomInv, FlowInv', [Next]_vars, NEW g \in Calls, QuietStep(g)
    PROVE  NoPhantomCount'
<1> DEFINE n == NodeOf(g)
           c == CellOf(g)
<1>1. FlowInv /\ ShareInv /\ IndInv /\ TypeOK
  BY DEF PhantomInv, FlowInv, ShareInv, IndInv
<1>2. /\ val \in [Nodes -> [Cells -> Int]] /\ inflight \in [Nodes -> [Cells -> Int]]
      /\ admitted \in [Regions -> [Cells -> Int]]
  BY <1>1 DEF TypeOK, PerCell
<1>3. CASE MergeFetched(g) \/ MergeStrict(g)
  <2>1. At(g) \in Merges /\ At(g) \in Active
    BY <1>3 DEF MergeFetched, MergeStrict, Merges, Active, CallStates
  <2>2. n \in Nodes /\ c \in Cells /\ call[g].got \in Int
    BY <1>1, <2>1, Standing DEF CallRecords
  <2>3. call[g].got <= admitted[RegionOf[n]][c]
    BY <2>1 DEF PhantomInv, Backed, Merges
  <2>4. MergeOrigin(n, c, call[g].got) /\ inflight' = inflight
    BY <1>3 DEF MergeFetched, MergeStrict
  <2> QED BY <2>2, <2>3, <2>4, MergePhantom
<1>4. CASE CasWins(g)
  <2>1. At(g) \in Active
    BY <1>4 DEF CasWins, Active, CallStates
  <2>2. n \in Nodes /\ c \in Cells /\ Req(g) \in Requests /\ Req(g).cost \in Nat
    BY <1>1, <2>1, Standing
  <2>3. /\ val' = [val EXCEPT ![n][c] = val[n][c] + Req(g).cost] /\ inflight' = inflight
        /\ Commit(n, Req(g))
    BY <1>4 DEF CasWins
  <2>4. \A r \in Regions, d \in Cells :
          admitted'[r][d] = admitted[r][d] + Charge(n, Req(g), r, d)
    BY <1>1, <2>2, <2>3, CommitAdds
  <2>5. ASSUME NEW m \in Nodes, NEW d \in Cells
        PROVE  val'[m][d] - inflight'[m][d] <= admitted'[RegionOf[m]][d]
    <3>1. RegionOf[m] \in Regions
      BY TopologyAssumption
    <3>2. val[m][d] - inflight[m][d] <= admitted[RegionOf[m]][d]
      BY DEF PhantomInv, NoPhantomCount
    <3>3. val[m][d] \in Int /\ inflight[m][d] \in Int /\ admitted[RegionOf[m]][d] \in Int
      BY <1>2, <3>1
    <3>4. admitted'[RegionOf[m]][d] = admitted[RegionOf[m]][d] + Charge(n, Req(g), RegionOf[m], d)
          /\ Charge(n, Req(g), RegionOf[m], d) \in Nat /\ inflight'[m][d] = inflight[m][d]
      BY <2>2, <2>3, <2>4, <3>1, ChargeType
    <3>5. \/ val'[m][d] = val[m][d]
          \/ m = n /\ d = c /\ val'[m][d] = val[m][d] + Req(g).cost
      <4> HIDE DEF n, c
      <4> QED BY <1>2, <2>2, <2>3
    <3>6. m = n /\ d = c => Charge(n, Req(g), RegionOf[m], d) = Req(g).cost
      BY DEF Charge, CellOf
    <3>7. Req(g).cost \in Nat
      BY <2>2
    <3> HIDE DEF n, c
    <3> QED BY ONLY <3>2, <3>3, <3>4, <3>5, <3>6, <3>7
  <2> QED BY <2>5 DEF NoPhantomCount
<1>5. CASE ~(MergeFetched(g) \/ MergeStrict(g) \/ CasWins(g))
  <2>1. val' = val /\ inflight' = inflight
    BY <1>5 DEF QuietStep, Begin, FetchCold, FetchStale, StillFresh, SkipStrict, FetchStrict,
                Load, CasLoses, entryVars, ghostVars
  <2>2. \A m \in Nodes, d \in Cells :
          val'[m][d] - inflight'[m][d] <= val[m][d] - inflight[m][d]
    BY <1>2, <2>1
  <2> QED BY <2>2, PhantomSame
<1> QED
  BY <1>3, <1>4, <1>5

\* Neither does a step of a batch.
LEMMA BatchPhantom ==
    ASSUME PhantomInv, FlowInv', [Next]_vars, NEW g \in Calls, BatchStep(g)
    PROVE  NoPhantomCount'
<1> DEFINE n == NodeOf(g)
           c == CellOf(g)
           k == Req(g).cost
<1>1. FlowInv /\ ShareInv /\ IndInv /\ IndInv' /\ TypeOK /\ CallsShaped
  BY DEF PhantomInv, FlowInv, ShareInv, IndInv
<1>2. /\ val \in [Nodes -> [Cells -> Int]] /\ inflight \in [Nodes -> [Cells -> Int]]
      /\ admitted \in [Regions -> [Cells -> Int]]
  BY <1>1 DEF TypeOK, PerCell
<1>3. At(g) \in Active
  BY <1>1, BatchStepMoves
<1>4. n \in Nodes /\ c \in Cells /\ Req(g) \in Requests /\ k \in Nat
  BY <1>1, <1>3, Standing
<1>5. CASE AddVal(g)
  <2>1. /\ val' = [val EXCEPT ![n][c] = @ + k] /\ inflight' = [inflight EXCEPT ![n][c] = @ + k]
    BY <1>5 DEF AddVal
  <2>2. \A m \in Nodes, d \in Cells :
          val'[m][d] - inflight'[m][d] <= val[m][d] - inflight[m][d]
    <3> HIDE DEF n, c, k
    <3> QED BY <1>2, <1>4, <2>1
  <2> QED BY <2>2, PhantomSame
<1>6. CASE UndoVal(g)
  <2>1. /\ val' = [val EXCEPT ![n][c] = @ - k] /\ inflight' = [inflight EXCEPT ![n][c] = @ - k]
    BY <1>6 DEF UndoVal
  <2>2. \A m \in Nodes, d \in Cells :
          val'[m][d] - inflight'[m][d] <= val[m][d] - inflight[m][d]
    <3> HIDE DEF n, c, k
    <3> QED BY <1>2, <1>4, <2>1
  <2> QED BY <2>2, PhantomSame
<1>7. CASE CommitRequest(g)
  <2>1. /\ val' = val /\ inflight' = [inflight EXCEPT ![n][c] = @ - k] /\ Commit(n, Req(g))
    BY <1>7 DEF CommitRequest
  <2>2. \A r \in Regions, d \in Cells :
          admitted'[r][d] = admitted[r][d] + Charge(n, Req(g), r, d)
    BY <1>1, <1>4, <2>1, CommitAdds
  <2>3. ASSUME NEW m \in Nodes, NEW d \in Cells
        PROVE  val'[m][d] - inflight'[m][d] <= admitted'[RegionOf[m]][d]
    <3>1. RegionOf[m] \in Regions
      BY TopologyAssumption
    <3>2. val[m][d] - inflight[m][d] <= admitted[RegionOf[m]][d]
      BY DEF PhantomInv, NoPhantomCount
    <3>3. val[m][d] \in Int /\ inflight[m][d] \in Int /\ admitted[RegionOf[m]][d] \in Int
      BY <1>2, <3>1
    <3>4. admitted'[RegionOf[m]][d] = admitted[RegionOf[m]][d] + Charge(n, Req(g), RegionOf[m], d)
          /\ Charge(n, Req(g), RegionOf[m], d) \in Nat /\ val'[m][d] = val[m][d]
      BY <1>4, <2>1, <2>2, <3>1, ChargeType
    <3>5. \/ inflight'[m][d] = inflight[m][d]
          \/ m = n /\ d = c /\ inflight'[m][d] = inflight[m][d] - k
      <4> HIDE DEF n, c, k
      <4> QED BY <1>2, <1>4, <2>1
    <3>6. m = n /\ d = c => Charge(n, Req(g), RegionOf[m], d) = k
      BY DEF Charge, CellOf
    <3>7. k \in Nat
      BY <1>4
    <3> HIDE DEF n, c, k
    <3> QED BY ONLY <3>2, <3>3, <3>4, <3>5, <3>6, <3>7
  <2> QED BY <2>3 DEF NoPhantomCount
<1>8. CASE ~(AddVal(g) \/ UndoVal(g) \/ CommitRequest(g))
  <2>1. val' = val /\ inflight' = inflight
    BY <1>8 DEF BatchStep, AddSpeculative, Evaluate, UndoSpeculative, BufferRequest,
                entryVars, ghostVars
  <2>2. \A m \in Nodes, d \in Cells :
          val'[m][d] - inflight'[m][d] <= val[m][d] - inflight[m][d]
    BY <1>2, <2>1
  <2> QED BY <2>2, PhantomSame
<1> QED
  BY <1>5, <1>6, <1>7, <1>8

\* Counts stay backed in every step.
LEMMA PhantomStep == PhantomInv /\ [Next]_vars => PhantomInv'
<1> SUFFICES ASSUME PhantomInv, [Next]_vars
             PROVE  PhantomInv'
  OBVIOUS
<1>1. FlowInv /\ FlowInv' /\ Backed /\ TypeOK
  BY FlowStep DEF PhantomInv, FlowInv, ShareInv, IndInv
<1>2. /\ val \in [Nodes -> [Cells -> Int]] /\ inflight \in [Nodes -> [Cells -> Int]]
      /\ admitted \in [Regions -> [Cells -> Int]] /\ admitted' \in [Regions -> [Cells -> Int]]
  BY <1>1 DEF FlowInv, ShareInv, IndInv, TypeOK, PerCell
<1>3. Backed'
  <2>1. \A r \in Regions, d \in Cells : admitted'[r][d] >= 0
    <3> TAKE r \in Regions, d \in Cells
    <3>1. admitted'[r][d] >= admitted[r][d] /\ admitted[r][d] >= 0
      BY <1>1, AdmittedGrows DEF Backed
    <3> QED BY <1>2, <3>1
  <2>2. \A g \in Calls : call'[g].pc \in Merges =>
           call'[g].got <= admitted'[RegionOf[call'[g].node]][call'[g].reqs[call'[g].i].cell]
    BY <1>1, BackedCalls
  <2>3. \A n \in Nodes, w \in Workers : ack'[n][w] # NoAck =>
           ack'[n][w].count <= admitted'[RegionOf[n]][ack'[n][w].cell]
    BY <1>1, BackedAcks
  <2> QED BY <2>1, <2>2, <2>3 DEF Backed, Merges, At, NodeOf, CellOf, Req
<1>4. NoPhantomCount'
  <2>1. CASE RequestNext
    <3>1. CASE \E g \in Calls : QuietStep(g) \/ BatchStep(g)
      BY <1>1, <3>1, QuietPhantom, BatchPhantom
    <3>2. CASE \E n \in Nodes, w \in Workers : ReplayStep(n, w)
      <4>1. PICK n \in Nodes, w \in Workers : ReplayStep(n, w)
        BY <3>2
      <4>2. inflight' = inflight
        BY <4>1, ReplayLeaves
      <4>3. CASE ReplayMerge(n, w)
        <5>1. ack[n][w] # NoAck /\ MergeOrigin(n, ack[n][w].cell, ack[n][w].count)
          BY <4>3 DEF ReplayMerge
        <5>2. ack[n][w].cell \in Cells /\ ack[n][w].count \in Int
          BY <1>1, <5>1 DEF TypeOK
        <5>3. ack[n][w].count <= admitted[RegionOf[n]][ack[n][w].cell]
          BY <1>1, <5>1 DEF Backed
        <5> QED BY <1>1, <4>2, <5>1, <5>2, <5>3, MergePhantom
      <4>4. CASE ~ReplayMerge(n, w)
        <5>1. val' = val
          BY <4>1, <4>4 DEF ReplayStep, ReplayIncrement, ReplayTimesOut, ReplayFails, entryVars
        <5>2. \A m \in Nodes, d \in Cells :
                val'[m][d] - inflight'[m][d] <= val[m][d] - inflight[m][d]
          BY <1>2, <4>2, <5>1
        <5> QED BY <1>1, <5>2, PhantomSame
      <4> QED BY <4>3, <4>4
    <3> QED BY <2>1, <3>1, <3>2, Steps
  <2>2. CASE \E n \in Nodes : Restart(n)
    <3>1. PICK n \in Nodes : Restart(n)
      BY <2>2
    <3>2. /\ val' = [val EXCEPT ![n] = [d \in Cells |-> 0]]
          /\ inflight' = [inflight EXCEPT ![n] = [d \in Cells |-> 0]] /\ admitted' = admitted
      BY <3>1 DEF Restart
    <3>3. ASSUME NEW m \in Nodes, NEW d \in Cells
          PROVE  val'[m][d] - inflight'[m][d] <= admitted'[RegionOf[m]][d]
      <4>1. RegionOf[m] \in Regions
        BY TopologyAssumption
      <4>2. val[m][d] - inflight[m][d] <= admitted[RegionOf[m]][d] /\ admitted[RegionOf[m]][d] >= 0
        BY <1>1, <4>1 DEF PhantomInv, NoPhantomCount, Backed
      <4>3. \/ val'[m][d] = 0 /\ inflight'[m][d] = 0
            \/ val'[m][d] = val[m][d] /\ inflight'[m][d] = inflight[m][d]
        BY <1>2, <3>2
      <4>4. val[m][d] \in Int /\ inflight[m][d] \in Int /\ admitted[RegionOf[m]][d] \in Int
            /\ admitted'[RegionOf[m]][d] = admitted[RegionOf[m]][d]
        BY <1>2, <3>2, <4>1
      <4> QED BY ONLY <4>2, <4>3, <4>4
    <3> QED BY <3>3 DEF NoPhantomCount
  <2>3. CASE UNCHANGED vars
    <3>1. val' = val /\ inflight' = inflight
      BY <2>3 DEF vars, entryVars, ghostVars
    <3>2. \A m \in Nodes, d \in Cells :
            val'[m][d] - inflight'[m][d] <= val[m][d] - inflight[m][d]
      BY <1>2, <3>1
    <3> QED BY <1>1, <3>2, PhantomSame
  <2> QED BY <2>1, <2>2, <2>3 DEF Next
<1> QED
  BY <1>1, <1>3, <1>4 DEF PhantomInv

\* Nothing is counted initially.
LEMMA PhantomInit == Init => PhantomInv
<1> SUFFICES ASSUME Init
             PROVE  PhantomInv
  OBVIOUS
<1>1. FlowInv
  BY FlowInit
<1>2. NoPhantomCount
  <2>1. \A n \in Nodes : RegionOf[n] \in Regions
    BY TopologyAssumption
  <2> QED BY <2>1 DEF Init, Atomics, NoPhantomCount
<1>3. Backed
  <2>1. \A g \in Calls : call[g].pc = "idle"
    BY DEF Init, IdleCall
  <2>2. \A n \in Nodes, w \in Workers : ack[n][w] = NoAck
    BY DEF Init
  <2>3. \A r \in Regions, c \in Cells : admitted[r][c] >= 0
    BY DEF Init
  <2> QED BY <2>1, <2>2, <2>3 DEF Backed, At
<1> QED
  BY <1>1, <1>2, <1>3 DEF PhantomInv

\* No interleaving of merges, CAS retries, batches and replays counts a request twice:
\* without the undecided batches, val is never more than the region has admitted.
THEOREM CountsAreBacked == Spec => []NoPhantomCount
<1>1. Spec => []PhantomInv
  BY PhantomInit, PhantomStep, PTL DEF Spec
<1>2. PhantomInv => NoPhantomCount
  BY DEF PhantomInv
<1> QED
  BY <1>1, <1>2, PTL

----------------------------------------------------------------------------
\* A process never admits more than the limit

\* The limit of a request is one of those of its cell.
LEMMA LimitForType ==
    ASSUME NEW c
    PROVE  /\ LimitFor(c) \in Nat
           /\ \A req \in AllRequests : req.cell = c => req.limit <= LimitFor(c)
<1> DEFINE S == {req.limit : req \in Requested(c)} \cup {0}
<1>1. \A req \in AllRequests : req \in Requests
  BY RequestAssumption DEF AllRequests, Range
<1>2. S \in SUBSET Nat
  BY <1>1 DEF Requested, Requests
<1>3. IsFiniteSet(S)
  <2>1. IsFiniteSet({req.limit : req \in Requested(c)})
    BY FiniteAssumption, FS_Subset DEF Requested
  <2> QED BY <2>1, FS_AddElement
<1>4. S # {}
  OBVIOUS
<1> HIDE DEF S
<1>5. PICK x \in S : \A y \in S : y <= x
  BY <1>2, <1>3, <1>4, LargestNatural
<1>6. \E z \in S : \A y \in S : z >= y
  BY <1>2, <1>5
<1>7. Max(S) \in S /\ \A y \in S : Max(S) >= y
  BY <1>6 DEF Max
<1>8. LimitFor(c) = Max(S)
  BY DEF LimitFor, S
<1>9. \A req \in AllRequests : req.cell = c => req.limit \in S
  BY DEF S, Requested
<1> QED
  BY <1>2, <1>7, <1>8, <1>9

\* Every pending request has a post-increment value.
LEMMA PendingCounted ==
    ASSUME NEW rec \in CallRecords, Shape(rec), NEW j \in Part("pending", rec)
    PROVE  /\ j \in 1..Len(rec.counts) /\ rec.counts[j] \in Int
           /\ j \in 1..Len(rec.reqs) /\ rec.reqs[j] \in AllRequests
<1>1. rec.counts \in Seq(Int) /\ rec.i \in Nat /\ rec.reqs \in Seq(Requests)
  BY DEF CallRecords
<1>2. j \in 1..Len(rec.reqs) /\ IsIn("pending", rec.pc, rec.i, j)
  BY DEF Part
<1>3. (rec.pc \in {"addSpec", "addVal"} /\ j < rec.i) \/ rec.pc = "evaluate"
  BY <1>2 DEF IsIn
<1>4. j \in 1..Len(rec.counts)
  BY <1>1, <1>2, <1>3 DEF Shape
<1> QED
  BY <1>1, <1>2, <1>4 DEF Shape

\* What fits still fits while the batches keep what they have seen.
LEMMA FitsKept ==
    ASSUME NEW calls \in [Calls -> CallRecords], NEW next, NEW sum \in Int, NEW new \in Int,
           NEW n \in Nodes, NEW c \in Cells, NEW G \in SUBSET Calls, NEW H \in SUBSET Calls,
           \A g \in G : Shape(calls[g]),
           Fits(calls, sum, n, c, G), new <= sum, G \subseteq H,
           \A g \in G : \A j \in Part("pending", calls[g]) : calls[g].node = n =>
              /\ next[g].node = calls[g].node /\ next[g].reqs = calls[g].reqs
              /\ j \in Part("pending", next[g]) /\ next[g].counts[j] = calls[g].counts[j]
    PROVE  Fits(next, new, n, c, H)
<1>1. CASE sum <= LimitFor(c)
  <2>1. new <= LimitFor(c)
    BY <1>1, LimitForType
  <2> QED BY <2>1 DEF Fits
<1>2. CASE ~(sum <= LimitFor(c))
  <2>1. PICK g \in G : /\ calls[g].node = n
                       /\ \E j \in Part("pending", calls[g]) :
                             calls[g].reqs[j].cell = c /\ sum <= calls[g].counts[j]
    BY <1>2 DEF Fits
  <2>2. PICK j \in Part("pending", calls[g]) :
           calls[g].reqs[j].cell = c /\ sum <= calls[g].counts[j]
    BY <2>1
  <2>3. calls[g] \in CallRecords /\ Shape(calls[g])
    OBVIOUS
  <2>4. calls[g].counts[j] \in Int
    BY <2>3, PendingCounted
  <2>5. /\ next[g].node = n /\ next[g].reqs = calls[g].reqs
        /\ j \in Part("pending", next[g]) /\ next[g].counts[j] = calls[g].counts[j]
    BY <2>1, <2>2
  <2>6. new <= next[g].counts[j]
    BY <2>2, <2>4, <2>5
  <2>7. next[g].reqs[j].cell = c /\ g \in H
    BY <2>2, <2>5
  <2> QED BY <2>5, <2>6, <2>7 DEF Fits
<1> QED
  BY <1>1, <1>2

\* What a batch holds is what it has pending or approved, or more.
LEMMA HeldParts ==
    ASSUME NEW rec \in CallRecords, NEW N, NEW c \in Cells
    PROVE  /\ Share("approved", rec, N, c) \in Nat /\ Share("pending", rec, N, c) \in Nat
           /\ Share("held", rec, N, c) \in Nat
           /\ Share("approved", rec, N, c) + Share("pending", rec, N, c) <= Share("held", rec, N, c)
<1>1. /\ Share("approved", rec, N, c) \in Nat /\ Share("pending", rec, N, c) \in Nat
      /\ Share("held", rec, N, c) \in Nat
  BY ShareType
<1>2. ASSUME NEW what, Part(what, rec) = {}
      PROVE  Share(what, rec, N, c) = 0
  BY <1>2, SumEmpty DEF Share
<1>3. ASSUME NEW what, Part(what, rec) = Part("held", rec)
      PROVE  Share(what, rec, N, c) = Share("held", rec, N, c)
  BY <1>3 DEF Share
<1>4. CASE rec.pc = "commit"
  <2>1. Part("pending", rec) = {} /\ Part("approved", rec) = Part("held", rec)
    BY <1>4 DEF Part, IsIn
  <2> QED BY <1>1, <1>2, <1>3, <2>1
<1>5. CASE rec.pc \in {"addSpec", "addVal", "evaluate"}
  <2>1. Part("approved", rec) = {} /\ Part("pending", rec) = Part("held", rec)
    BY <1>5 DEF Part, IsIn
  <2> QED BY <1>1, <1>2, <1>3, <2>1
<1>6. CASE rec.pc \notin {"commit", "addSpec", "addVal", "evaluate"}
  <2>1. Part("approved", rec) = {} /\ Part("pending", rec) = {}
    BY <1>6 DEF Part, IsIn
  <2> QED BY <1>1, <1>2, <2>1
<1> QED
  BY <1>4, <1>5, <1>6

\* Some goroutines less one of them.
LEMMA SharesWithout ==
    ASSUME NEW what, NEW calls \in [Calls -> CallRecords], NEW G \in SUBSET Calls, NEW g \in G,
           NEW N, NEW c \in Cells
    PROVE  Shares(what, calls, G, N, c) = Share(what, calls[g], N, c) + Shares(what, calls, G \ {g}, N, c)
<1> DEFINE f == [h \in Calls |-> Share(what, calls[h], N, c)]
<1>1. IsFiniteSet(G)
  BY FiniteAssumption, FS_Subset
<1>2. \A h \in G : f[h] \in Int
  BY ShareType
<1>3. f[g] = Share(what, calls[g], N, c)
  OBVIOUS
<1> HIDE DEF f
<1>4. SumFunctionOnSet(f, G) = f[g] + SumFunctionOnSet(f, G \ {g})
  BY <1>1, <1>2, SumRemove
<1> QED
  BY <1>3, <1>4 DEF Shares, f

\* What is admitted if all batches of G are approved is in val already.
LEMMA RoomIsCounted ==
    ASSUME ShareInv, NEW n \in Nodes, NEW c \in Cells, NEW G \in SUBSET Calls
    PROVE  Room(n, c, G) \in Int /\ Room(n, c, G) <= val[n][c]
<1>1. /\ call \in [Calls -> CallRecords] /\ committed[n][c] \in Int /\ val[n][c] \in Int
      /\ inflight[n][c] \in Int
  BY DEF ShareInv, IndInv, TypeOK, PerCell
<1>2. val[n][c] - inflight[n][c] >= committed[n][c]
  BY DEF ShareInv, IndInv, OwnCommitsCounted
<1>3. inflight[n][c] = Shares("held", call, Calls, {n}, c)
  BY DEF ShareInv, HeldIsInflight
<1> DEFINE f == [g \in Calls |-> Share("approved", call[g], {n}, c)]
           p == [g \in Calls |-> Share("pending", call[g], {n}, c)]
           q == [g \in Calls |-> IF g \in G THEN Share("pending", call[g], {n}, c) ELSE 0]
           s == [g \in Calls |-> Share("approved", call[g], {n}, c)
                                   + (IF g \in G THEN Share("pending", call[g], {n}, c) ELSE 0)]
           h == [g \in Calls |-> Share("held", call[g], {n}, c)]
<1>4. \A g \in Calls : /\ Share("approved", call[g], {n}, c) \in Nat
                       /\ Share("pending", call[g], {n}, c) \in Nat
                       /\ Share("held", call[g], {n}, c) \in Nat
                       /\ Share("approved", call[g], {n}, c) + Share("pending", call[g], {n}, c)
                             <= Share("held", call[g], {n}, c)
  BY <1>1, HeldParts
<1>5. /\ \A g \in Calls : f[g] \in Int /\ q[g] \in Int /\ s[g] = f[g] + q[g]
      /\ \A g \in Calls : s[g] \in Int /\ h[g] \in Int /\ s[g] <= h[g]
      /\ \A g \in Calls \ G : q[g] = 0
      /\ \A g \in G : p[g] \in Int /\ p[g] = q[g]
  <2>1. ASSUME NEW g \in Calls
        PROVE  /\ f[g] \in Nat /\ q[g] \in Nat /\ p[g] \in Nat /\ h[g] \in Nat
               /\ s[g] = f[g] + q[g] /\ f[g] + p[g] <= h[g]
               /\ q[g] = IF g \in G THEN p[g] ELSE 0
    BY <1>4
  <2> HIDE DEF f, p, q, s, h
  <2>2. ASSUME NEW g \in Calls
        PROVE  s[g] \in Int /\ s[g] <= h[g]
    BY <2>1
  <2> QED BY <2>1, <2>2
<1>6. IsFiniteSet(Calls) /\ IsFiniteSet(G)
  BY FiniteAssumption, FS_Subset
<1>7. /\ Shares("approved", call, Calls, {n}, c) = SumFunctionOnSet(f, Calls)
      /\ Shares("pending", call, G, {n}, c) = SumFunctionOnSet(p, G)
      /\ Shares("held", call, Calls, {n}, c) = SumFunctionOnSet(h, Calls)
  BY DEF Shares
<1> HIDE DEF f, p, q, s, h
<1>8. SumFunctionOnSet(s, Calls) = SumFunctionOnSet(f, Calls) + SumFunctionOnSet(q, Calls)
  BY <1>5, <1>6, SumPlus
<1>9. SumFunctionOnSet(s, Calls) <= SumFunctionOnSet(h, Calls)
  BY <1>5, <1>6, SumLeq
<1>10. SumFunctionOnSet(q, Calls) = SumFunctionOnSet(q, G)
  BY <1>5, <1>6, SumSupport
<1>11. SumFunctionOnSet(p, G) = SumFunctionOnSet(q, G)
  BY <1>5, <1>6, SumSame
<1>12. /\ SumFunctionOnSet(f, Calls) \in Int /\ SumFunctionOnSet(p, G) \in Int
       /\ SumFunctionOnSet(h, Calls) \in Int
  BY <1>5, <1>6, SumType
<1>13. Room(n, c, G) = committed[n][c] + SumFunctionOnSet(f, Calls) + SumFunctionOnSet(p, G)
  BY <1>7 DEF Room
<1>14. inflight[n][c] = SumFunctionOnSet(h, Calls)
  BY <1>3, <1>7
<1> QED
  BY ONLY <1>1, <1>2, <1>8, <1>9, <1>10, <1>11, <1>12, <1>13, <1>14

\* A step after which the batches of H still know what they have seen.
LEMMA RoomKept ==
    ASSUME RoomInv, NEW n \in Nodes, NEW c \in Cells, NEW G \in SUBSET Calls, NEW H \in SUBSET G,
           NEW new \in Int, new <= Room(n, c, H),
           \A h \in H : \/ call'[h] = call[h]
                        \/ Part("pending", call[h]) = {}
                        \/ call[h].node # n
                        \/ /\ Same(call[h], call'[h])
                           /\ \A j \in Part("pending", call[h]) :
                                 j \in Part("pending", call'[h])
                                 /\ call'[h].counts[j] = call[h].counts[j]
    PROVE  Fits(call', new, n, c, G)
<1>1. ShareInv /\ call \in [Calls -> CallRecords] /\ H \in SUBSET Calls
  BY DEF RoomInv, ShareInv, IndInv, TypeOK
<1>2. Room(n, c, H) \in Int
  BY <1>1, RoomIsCounted
<1>3. Fits(call, Room(n, c, H), n, c, H) /\ \A h \in H : Shape(call[h])
  BY <1>1 DEF RoomInv, BatchesFit, ShareInv, CallsShaped
<1>4. \A h \in H : \A j \in Part("pending", call[h]) : call[h].node = n =>
         /\ call'[h].node = call[h].node /\ call'[h].reqs = call[h].reqs
         /\ j \in Part("pending", call'[h]) /\ call'[h].counts[j] = call[h].counts[j]
  BY DEF Same
<1> HIDE DEF Room
<1> QED
  BY <1>1, <1>2, <1>3, <1>4, FitsKept

\* The sums of a node and a cell.
LEMMA RoomTypes ==
    ASSUME ShareInv, NEW n \in Nodes, NEW c \in Cells, NEW G \in SUBSET Calls
    PROVE  /\ committed[n][c] \in Int /\ Shares("approved", call, Calls, {n}, c) \in Nat
           /\ Shares("pending", call, G, {n}, c) \in Nat
<1>1. call \in [Calls -> CallRecords] /\ Calls \in SUBSET Calls
  BY DEF ShareInv, IndInv, TypeOK
<1>2. committed[n][c] \in Int
  BY DEF ShareInv, IndInv, TypeOK, PerCell
<1> QED
  BY <1>1, <1>2, SharesType

\* A step outside a batch leaves room for the pending ones, or they have seen it.
LEMMA QuietRoom ==
    ASSUME RoomInv, ShareInv', NEW g \in Calls, QuietStep(g)
    PROVE  BatchesFit'
<1>1. ShareInv /\ IndInv /\ IndInv' /\ CallsShaped /\ GlobalsCount
  BY DEF RoomInv, ShareInv
<1>2. Moves(g) /\ Quiet(call[g]) /\ Quiet(call'[g]) /\ \A h \in Calls \ {g} : call'[h] = call[h]
  BY <1>1, QuietStepMoves, CallsMove
<1>3. /\ call \in [Calls -> CallRecords] /\ call' \in [Calls -> CallRecords]
      /\ call[g] \in CallRecords
  BY <1>1 DEF IndInv, TypeOK
<1>4. Part("pending", call[g]) = {}
  BY <1>2, <1>3, QuietParts DEF Kinds
<1> SUFFICES ASSUME NEW n \in Nodes, NEW c \in Cells, NEW G \in SUBSET Calls
             PROVE  Fits(call', Room(n, c, G)', n, c, G)
  BY DEF BatchesFit
<1>5. /\ Shares("approved", call', Calls, {n}, c) = Shares("approved", call, Calls, {n}, c)
      /\ Shares("pending", call', G, {n}, c) = Shares("pending", call, G, {n}, c)
  <2>1. "approved" \in Kinds /\ "pending" \in Kinds /\ Calls \in SUBSET Calls
    BY DEF Kinds
  <2> QED BY <1>2, <1>3, <2>1, QuietShares
<1>6. Room(n, c, G) \in Int /\ Room(n, c, G) <= val[n][c]
  BY <1>1, RoomIsCounted
<1>7. ASSUME committed'[n][c] = committed[n][c]
      PROVE  Fits(call', Room(n, c, G)', n, c, G)
  <2>1. Room(n, c, G)' = Room(n, c, G)
    BY <1>5, <1>7 DEF Room
  <2>2. \A h \in G : call'[h] = call[h] \/ Part("pending", call[h]) = {}
    BY <1>2, <1>4
  <2> DEFINE new == Room(n, c, G)'
  <2>3. new \in Int /\ new <= Room(n, c, G) /\ G \in SUBSET G
    BY <1>6, <2>1
  <2> HIDE DEF new
  <2>4. Fits(call', new, n, c, G)
    BY <2>2, <2>3, RoomKept
  <2> QED BY <2>4 DEF new
<1>8. CASE CasWins(g)
  <2> DEFINE m == NodeOf(g)
             d == CellOf(g)
             k == Req(g).cost
  <2>1. At(g) \in Active /\ At(g) = "cas" /\ val[m][d] = call[g].got /\ Commit(m, Req(g))
    BY <1>8 DEF CasWins, Active, CallStates
  <2>2. m \in Nodes /\ d \in Cells /\ Req(g) \in Requests /\ k \in Nat /\ Req(g).limit \in Nat
    BY <1>1, <2>1, Standing
  <2>3. committed'[n][c] = IF n = m /\ c = d THEN committed[n][c] + k ELSE committed[n][c]
    BY <1>1, <2>1, <2>2, CommitType DEF IndInv, CellOf
  <2>4. CASE n = m /\ c = d
    <3>1. call[g].got + k <= Req(g).limit
      BY <2>1 DEF RoomInv, CasFits
    <3>2. Req(g) \in AllRequests
      BY <1>1, <2>1, Standing DEF CallsShaped, Shape, Req
    <3>3. Req(g).limit <= LimitFor(c) /\ LimitFor(c) \in Nat
      BY <2>4, <3>2, LimitForType DEF CellOf
    <3>4. Room(n, c, G)' = Room(n, c, G) + k
      <4>1. committed'[n][c] = committed[n][c] + k
        BY <2>3, <2>4
      <4>2. /\ committed[n][c] \in Int /\ Shares("approved", call, Calls, {n}, c) \in Nat
            /\ Shares("pending", call, G, {n}, c) \in Nat
        BY <1>1, RoomTypes
      <4>3. k \in Nat
        BY <2>2
      <4> HIDE DEF k
      <4> QED BY <1>5, <4>1, <4>2, <4>3 DEF Room
    <3>5. Room(n, c, G) <= call[g].got /\ call[g].got \in Int
      BY <1>3, <1>6, <2>1, <2>4 DEF CallRecords
    <3> DEFINE new == Room(n, c, G)'
               old == Room(n, c, G)
    <3>6. new = old + k /\ old <= call[g].got /\ old \in Int /\ k \in Nat
      BY <1>6, <2>2, <3>4, <3>5
    <3> HIDE DEF new, old, k
    <3>7. new <= LimitFor(c)
      BY <2>2, <3>1, <3>3, <3>5, <3>6
    <3> QED BY <3>7 DEF Fits, new
  <2>5. CASE ~(n = m /\ c = d)
    <3>1. committed'[n][c] = committed[n][c]
      BY <2>3, <2>5
    <3> QED BY <1>7, <3>1
  <2> QED BY <2>4, <2>5
<1>9. CASE ~CasWins(g)
  <2>1. committed' = committed
    BY <1>9 DEF QuietStep, Begin, FetchCold, FetchStale, StillFresh, MergeFetched, SkipStrict,
                FetchStrict, MergeStrict, Load, CasLoses, ghostVars
  <2> QED BY <1>7, <2>1
<1> QED
  BY <1>8, <1>9

\* A batch counts its next request.
LEMMA AddValRoom ==
    ASSUME RoomInv, ShareInv', NEW g \in Calls, AddVal(g)
    PROVE  BatchesFit'
<1> DEFINE m == NodeOf(g)
           d == CellOf(g)
<1>1. ShareInv /\ IndInv /\ IndInv' /\ CallsShaped /\ GlobalsCount
  BY DEF RoomInv, ShareInv
<1>2. At(g) \in Active /\ BatchStep(g)
  BY DEF AddVal, Active, CallStates, BatchStep
<1>3. /\ Moves(g) /\ Same(call[g], call'[g]) /\ Shape(call'[g])
      /\ Grows("pending", g) /\ Stays("approved", g)
      /\ call'[g].counts = Append(call[g].counts, val'[m][d])
      /\ Len(call[g].counts) = call[g].i - 1
  BY <1>1, AddValMoves
<1>4. \A h \in Calls \ {g} : call'[h] = call[h]
  BY <1>1, <1>2, CallsMove
<1>5. /\ call[g] \in CallRecords /\ call[g].i \in 1..Len(call[g].reqs) /\ call[g].i \in Nat
      /\ call[g].counts \in Seq(Int) /\ m \in Nodes /\ d \in Cells /\ Req(g).cost \in Nat
  BY <1>1, <1>2, Standing
<1>6. \A j \in Part("pending", call[g]) :
         j \in Part("pending", call'[g]) /\ call'[g].counts[j] = call[g].counts[j]
  <2> TAKE j \in Part("pending", call[g])
  <2>1. j \in 1..Len(call[g].counts)
    BY <1>1, <1>5, PendingCounted DEF CallsShaped
  <2> QED BY <1>3, <1>5, <2>1 DEF Grows
<1> SUFFICES ASSUME NEW n \in Nodes, NEW c \in Cells, NEW G \in SUBSET Calls
             PROVE  Fits(call', Room(n, c, G)', n, c, G)
  BY DEF BatchesFit
<1> DEFINE new == Room(n, c, G)'
           old == Room(n, c, G)
           k == IF g \in G THEN Delta(g, {n}, c) ELSE 0
<1>7. new = old + k /\ k \in Nat
  <2>1. committed' = committed
    BY DEF AddVal
  <2>2. /\ committed[n][c] \in Int /\ Shares("approved", call, Calls, {n}, c) \in Nat
        /\ Shares("pending", call, G, {n}, c) \in Nat
    BY <1>1, RoomTypes
  <2>3. Shares("approved", call', Calls, {n}, c) = Shares("approved", call, Calls, {n}, c)
    <3>1. Calls \in SUBSET Calls
      OBVIOUS
    <3> QED BY <1>1, <1>3, <3>1, SharesStay
  <2>4. Shares("pending", call', G, {n}, c) = Shares("pending", call, G, {n}, c) + k
    <3>1. CASE g \in G
      BY <1>1, <1>2, <1>3, <3>1, SharesGrow
    <3>2. CASE g \notin G
      <4>1. call \in [Calls -> CallRecords] /\ call' \in [Calls -> CallRecords]
        BY <1>1 DEF IndInv, TypeOK
      <4>2. Shares("pending", call', G, {n}, c) = Shares("pending", call, G, {n}, c)
        BY <1>3, <2>2, <3>2, <4>1, SharesAfter
      <4> QED BY <2>2, <3>2, <4>2
    <3> QED BY <3>1, <3>2
  <2>5. k \in Nat
    BY <1>1, <1>2, DeltaType
  <2> HIDE DEF k
  <2> QED BY <2>1, <2>2, <2>3, <2>4, <2>5 DEF Room
<1>8. old \in Int /\ old <= val[n][c] /\ val[n][c] \in Int
  BY SMTT(30), <1>1, RoomIsCounted DEF IndInv, TypeOK, PerCell
<1>9. CASE g \in G /\ n = m /\ c = d
  <2>1. k = Req(g).cost
    BY <1>9 DEF Delta
  <2>2. val'[n][c] = val[n][c] + Req(g).cost
    <3>1. val \in [Nodes -> [Cells -> Int]] /\ val' = [val EXCEPT ![m][d] = @ + Req(g).cost]
      BY <1>1 DEF IndInv, TypeOK, PerCell, AddVal
    <3> QED BY <1>9, <3>1
  <2> DEFINE i == call[g].i
  <2>3. /\ call'[g].counts[i] = val'[n][c] /\ i \in Part("pending", call'[g])
        /\ call'[g].reqs[i].cell = c /\ call'[g].node = n
    <3>1. Append(call[g].counts, val'[m][d])[Len(call[g].counts) + 1] = val'[m][d]
      BY <1>5
    <3>2. Len(call[g].counts) + 1 = i
      BY <1>3, <1>5
    <3> QED BY <1>3, <1>9, <3>1, <3>2 DEF Same, Grows, NodeOf, CellOf, Req
  <2> HIDE DEF new, old, k
  <2>4. new <= val'[n][c]
    BY <1>5, <1>7, <1>8, <2>1, <2>2
  <2>5. Fits(call', new, n, c, G)
    BY <1>9, <2>3, <2>4 DEF Fits
  <2> QED BY <2>5 DEF new
<1>10. CASE ~(g \in G /\ n = m /\ c = d)
  <2>1. k = 0
    BY <1>10 DEF Delta
  <2>2. new \in Int /\ new <= old
    <3> HIDE DEF new, old, k
    <3> QED BY <1>7, <1>8, <2>1
  <2>3. \A h \in G : \/ call'[h] = call[h]
                     \/ /\ Same(call[h], call'[h])
                        /\ \A j \in Part("pending", call[h]) :
                              j \in Part("pending", call'[h])
                              /\ call'[h].counts[j] = call[h].counts[j]
    BY <1>3, <1>4, <1>6
  <2> HIDE DEF new
  <2>4. new <= Room(n, c, G) /\ G \in SUBSET G
    BY <2>2
  <2>5. Fits(call', new, n, c, G)
    BY <2>2, <2>3, <2>4, RoomKept
  <2> QED BY <2>5 DEF new
<1> QED
  BY <1>9, <1>10

\* A batch is decided: if it passes, every value it has seen is within the limit.
LEMMA EvaluateRoom ==
    ASSUME RoomInv, ShareInv', NEW g \in Calls, Evaluate(g)
    PROVE  BatchesFit'
<1>1. ShareInv /\ IndInv /\ IndInv' /\ CallsShaped /\ GlobalsCount
  BY DEF RoomInv, ShareInv
<1>2. At(g) \in Active /\ BatchStep(g)
  BY DEF Evaluate, Active, CallStates, BatchStep
<1>3. /\ Moves(g) /\ Same(call[g], call'[g])
      /\ Part("pending", call'[g]) = {} /\ Part("approved", call[g]) = {}
      /\ \/ Part("approved", call'[g]) = {}
         \/ /\ Part("approved", call'[g]) = Part("pending", call[g])
            /\ \A j \in 1..Len(call[g].reqs) : call[g].counts[j] <= call[g].reqs[j].limit
  BY <1>1, EvaluateMoves
<1>4. \A h \in Calls \ {g} : call'[h] = call[h]
  BY <1>1, <1>2, CallsMove
<1>5. /\ call \in [Calls -> CallRecords] /\ call' \in [Calls -> CallRecords]
      /\ call[g] \in CallRecords /\ call'[g] \in CallRecords /\ Shape(call[g])
  BY <1>1 DEF IndInv, TypeOK, CallsShaped
<1> SUFFICES ASSUME NEW n \in Nodes, NEW c \in Cells, NEW G \in SUBSET Calls
             PROVE  Fits(call', Room(n, c, G)', n, c, G)
  BY DEF BatchesFit
<1> DEFINE new == Room(n, c, G)'
           P == Share("pending", call[g], {n}, c)
           rest == G \ {g}
           all == G \cup {g}
<1>6. /\ committed[n][c] \in Int /\ Shares("approved", call, Calls, {n}, c) \in Nat
      /\ Shares("pending", call, rest, {n}, c) \in Nat /\ committed' = committed
      /\ rest \in SUBSET Calls /\ all \in SUBSET Calls /\ P \in Nat
  BY <1>1, <1>5, RoomTypes, ShareType DEF Evaluate, ghostVars
<1>7. Shares("pending", call', G, {n}, c) = Shares("pending", call, rest, {n}, c)
  <2>1. Share("pending", call'[g], {n}, c) = 0
    BY <1>3, SumEmpty DEF Share
  <2>2. CASE g \in G
    <3>1. Shares("pending", call', G, {n}, c)
            = Shares("pending", call, G, {n}, c) + (Share("pending", call'[g], {n}, c) - P)
      BY <1>3, <1>5, <2>2, SharesAfter
    <3>2. Shares("pending", call, G, {n}, c) = P + Shares("pending", call, rest, {n}, c)
      BY <1>5, <2>2, SharesWithout
    <3> HIDE DEF P, rest
    <3> QED BY <1>6, <2>1, <3>1, <3>2
  <2>3. CASE g \notin G
    <3>1. rest = G
      BY <2>3
    <3>2. Shares("pending", call', G, {n}, c) = Shares("pending", call, G, {n}, c) + 0
      BY <1>3, <1>5, <2>3, SharesAfter
    <3> QED BY <1>6, <3>1, <3>2
  <2> QED BY <2>2, <2>3
<1>8. Shares("approved", call', Calls, {n}, c)
        = Shares("approved", call, Calls, {n}, c) + Share("approved", call'[g], {n}, c)
  <2>1. Share("approved", call[g], {n}, c) = 0
    BY <1>3, SumEmpty DEF Share
  <2>2. Share("approved", call'[g], {n}, c) \in Nat
    BY <1>5, ShareType
  <2>3. Shares("approved", call', Calls, {n}, c)
          = Shares("approved", call, Calls, {n}, c)
              + (Share("approved", call'[g], {n}, c) - Share("approved", call[g], {n}, c))
    <3>1. Calls \in SUBSET Calls
      OBVIOUS
    <3> QED BY <1>3, <1>5, <3>1, SharesAfter
  <2> QED BY <1>6, <2>1, <2>2, <2>3
<1>9. \A h \in rest : call'[h] = call[h]
  BY <1>4
<1>10. CASE Part("approved", call'[g]) = {}
  <2>1. Share("approved", call'[g], {n}, c) = 0
    BY <1>10, SumEmpty DEF Share
  <2>2. new = Room(n, c, rest) /\ Room(n, c, rest) \in Int
    BY <1>1, <1>6, <1>7, <1>8, <2>1, RoomIsCounted DEF Room
  <2>3. rest \in SUBSET G /\ new \in Int /\ new <= Room(n, c, rest)
    BY <2>2
  <2> HIDE DEF new, rest
  <2>4. Fits(call', new, n, c, G)
    BY <1>9, <2>3, RoomKept
  <2> QED BY <2>4 DEF new
<1>11. CASE Part("approved", call'[g]) # {}
  <2>1. /\ Part("approved", call'[g]) = Part("pending", call[g])
        /\ \A j \in 1..Len(call[g].reqs) : call[g].counts[j] <= call[g].reqs[j].limit
    BY <1>3, <1>11
  <2>2. Share("approved", call'[g], {n}, c) = P
    BY <1>3, <2>1 DEF Share, Same
  <2>3. Shares("pending", call, all, {n}, c) = P + Shares("pending", call, rest, {n}, c)
    <3>1. g \in all /\ all \ {g} = rest
      OBVIOUS
    <3>2. Shares("pending", call, all, {n}, c)
            = Share("pending", call[g], {n}, c) + Shares("pending", call, all \ {g}, {n}, c)
      BY <1>5, <1>6, <3>1, SharesWithout
    <3> QED BY <3>1, <3>2
  <2>4. new = Room(n, c, all) /\ Room(n, c, all) \in Int
    <3>1. Room(n, c, all) \in Int
      BY <1>1, <1>6, RoomIsCounted
    <3>2. committed'[n][c] = committed[n][c]
      BY <1>6
    <3> HIDE DEF P, rest, all
    <3> QED BY <1>6, <1>7, <1>8, <2>2, <2>3, <3>1, <3>2 DEF Room
  <2>5. Fits(call, new, n, c, all)
    BY <1>6, <2>4 DEF RoomInv, BatchesFit
  <2> HIDE DEF new
  <2> SUFFICES Fits(call', new, n, c, G)
    BY DEF new
  <2>6. CASE new <= LimitFor(c)
    BY <2>6 DEF Fits
  <2>7. CASE ~(new <= LimitFor(c))
    <3>1. PICK h \in all : /\ call[h].node = n
                           /\ \E j \in Part("pending", call[h]) :
                                 call[h].reqs[j].cell = c /\ new <= call[h].counts[j]
      BY <2>5, <2>7 DEF Fits
    <3>2. PICK j \in Part("pending", call[h]) :
             call[h].reqs[j].cell = c /\ new <= call[h].counts[j]
      BY <3>1
    <3>3. CASE h = g
      <4>1. /\ j \in 1..Len(call[g].reqs) /\ call[g].reqs[j] \in AllRequests
            /\ call[g].counts[j] \in Int
        BY <1>5, <3>2, <3>3, PendingCounted
      <4>2. call[g].reqs[j].limit <= LimitFor(c) /\ LimitFor(c) \in Nat
        BY <3>2, <3>3, <4>1, LimitForType
      <4>3. call[g].reqs[j].limit \in Nat
        <5>1. call[g].reqs \in Seq(Requests)
          BY <1>5 DEF CallRecords
        <5>2. call[g].reqs[j] \in Requests
          BY <4>1, <5>1
        <5> QED BY <5>2 DEF Requests
      <4>4. call[g].counts[j] <= call[g].reqs[j].limit
        BY <2>1, <4>1
      <4>5. new <= call[g].counts[j] /\ new \in Int
        BY <2>4, <3>2, <3>3
      <4>6. new <= LimitFor(c)
        BY ONLY <4>1, <4>2, <4>3, <4>4, <4>5
      <4> QED BY <2>7, <4>6
    <3>4. CASE h # g
      <4>1. h \in G /\ call'[h] = call[h]
        BY <1>4, <3>1, <3>4
      <4> QED BY <3>1, <3>2, <4>1 DEF Fits
    <3> QED BY <3>3, <3>4
  <2> QED BY <2>6, <2>7
<1> QED
  BY <1>10, <1>11

\* The other steps of a batch.
LEMMA BatchRoom ==
    ASSUME RoomInv, ShareInv', NEW g \in Calls, BatchStep(g)
    PROVE  BatchesFit'
<1>1. ShareInv /\ IndInv /\ IndInv' /\ CallsShaped /\ GlobalsCount
  BY DEF RoomInv, ShareInv
<1>2. Moves(g) /\ Same(call[g], call'[g]) /\ At(g) \in Active
  BY <1>1, BatchStepMoves
<1>3. \A h \in Calls \ {g} : call'[h] = call[h]
  BY <1>1, CallsMove
<1>4. ASSUME ~AddVal(g), ~Evaluate(g)
      PROVE  BatchesFit'
  <2>1. Stays("pending", g)
    BY <1>1, <1>4, AddSpeculativeMoves, UndoValMoves, UndoSpeculativeMoves, CommitRequestMoves,
       BufferRequestMoves DEF BatchStep
  <2>2. \/ Part("pending", call[g]) = {}
        \/ \A j \in Part("pending", call[g]) :
              j \in Part("pending", call'[g]) /\ call'[g].counts[j] = call[g].counts[j]
    <3>1. CASE AddSpeculative(g)
      BY <1>1, <2>1, <3>1, AddSpeculativeMoves DEF Stays
    <3>2. CASE ~AddSpeculative(g)
      <4>1. call[g].pc \in {"undoVal", "undoSpec", "commit", "buffer"}
        BY <1>4, <3>2 DEF BatchStep, UndoVal, UndoSpeculative, CommitRequest, BufferRequest, At
      <4> QED BY <4>1 DEF Part, IsIn
    <3> QED BY <3>1, <3>2
  <2> SUFFICES ASSUME NEW n \in Nodes, NEW c \in Cells, NEW G \in SUBSET Calls
               PROVE  Fits(call', Room(n, c, G)', n, c, G)
    BY DEF BatchesFit
  <2>3. /\ committed[n][c] \in Int /\ Shares("approved", call, Calls, {n}, c) \in Nat
        /\ Shares("pending", call, G, {n}, c) \in Nat /\ Calls \in SUBSET Calls
    BY <1>1, RoomTypes
  <2>4. Shares("pending", call', G, {n}, c) = Shares("pending", call, G, {n}, c)
    BY <1>1, <1>2, <2>1, SharesStay
  <2>5. committed'[n][c] + Shares("approved", call', Calls, {n}, c)
          = committed[n][c] + Shares("approved", call, Calls, {n}, c)
    <3>1. CASE CommitRequest(g)
      <4>1. Shrinks("approved", g) /\ Commit(NodeOf(g), Req(g))
        BY <1>1, <3>1, CommitRequestMoves DEF CommitRequest
      <4>2. Shares("approved", call', Calls, {n}, c)
              = Shares("approved", call, Calls, {n}, c) - Delta(g, {n}, c)
        BY <1>1, <1>2, <2>3, <4>1, SharesShrink
      <4>3. NodeOf(g) \in Nodes /\ Req(g) \in Requests /\ Req(g).cost \in Nat
        BY <1>1, <1>2, Standing
      <4>4. committed'[n][c] = IF n = NodeOf(g) /\ c = Req(g).cell THEN committed[n][c] + Req(g).cost
                               ELSE committed[n][c]
        BY <1>1, <4>1, <4>3, CommitType DEF IndInv
      <4>5. Delta(g, {n}, c) = IF n = NodeOf(g) /\ c = Req(g).cell THEN Req(g).cost ELSE 0
        BY DEF Delta, CellOf
      <4> QED BY <2>3, <4>2, <4>3, <4>4, <4>5
    <3>2. CASE ~CommitRequest(g)
      <4>1. Stays("approved", g)
        BY <1>1, <1>4, <3>2, AddSpeculativeMoves, UndoValMoves, UndoSpeculativeMoves,
           BufferRequestMoves DEF BatchStep
      <4>2. Shares("approved", call', Calls, {n}, c) = Shares("approved", call, Calls, {n}, c)
        BY <1>1, <1>2, <2>3, <4>1, SharesStay
      <4>3. committed' = committed
        BY <1>4, <3>2 DEF BatchStep, AddSpeculative, UndoVal, UndoSpeculative, BufferRequest, ghostVars
      <4> QED BY <4>2, <4>3
    <3> QED BY <3>1, <3>2
  <2>6. Room(n, c, G)' = Room(n, c, G)
    BY <2>4, <2>5 DEF Room
  <2>7. Room(n, c, G) \in Int
    BY <1>1, RoomIsCounted
  <2>8. \A h \in G : \/ call'[h] = call[h]
                     \/ Part("pending", call[h]) = {}
                     \/ /\ Same(call[h], call'[h])
                        /\ \A j \in Part("pending", call[h]) :
                              j \in Part("pending", call'[h])
                              /\ call'[h].counts[j] = call[h].counts[j]
    BY <1>2, <1>3, <2>2
  <2> DEFINE new == Room(n, c, G)'
  <2>9. new \in Int /\ new <= Room(n, c, G) /\ G \in SUBSET G
    BY <2>6, <2>7
  <2> HIDE DEF new
  <2>10. Fits(call', new, n, c, G)
    BY <2>8, <2>9, RoomKept
  <2> QED BY <2>10 DEF new
<1> QED
  BY <1>4, AddValRoom, EvaluateRoom

\* After a restart there is nothing pending on the node.
LEMMA RestartRoom ==
    ASSUME RoomInv, ShareInv', NEW m \in Nodes, Restart(m)
    PROVE  BatchesFit'
<1>1. ShareInv /\ IndInv /\ IndInv' /\ CallsShaped
  BY DEF RoomInv, ShareInv
<1> SUFFICES ASSUME NEW n \in Nodes, NEW c \in Cells, NEW G \in SUBSET Calls
             PROVE  Fits(call', Room(n, c, G)', n, c, G)
  BY DEF BatchesFit
<1>2. Calls \in SUBSET Calls /\ "approved" \in Kinds /\ "pending" \in Kinds
  BY DEF Kinds
<1>3. /\ Shares("approved", call', Calls, {n}, c)
            = IF n = m THEN 0 ELSE Shares("approved", call, Calls, {n}, c)
      /\ Shares("pending", call', G, {n}, c)
            = IF n = m THEN 0 ELSE Shares("pending", call, G, {n}, c)
  BY <1>1, <1>2, RestartParts
<1>4. committed'[n][c] = IF n = m THEN 0 ELSE committed[n][c]
  <2>1. /\ committed \in [Nodes -> [Cells -> Int]]
        /\ committed' = [committed EXCEPT ![m] = [d \in Cells |-> 0]]
    BY <1>1 DEF Restart, IndInv, TypeOK, PerCell
  <2> QED BY <2>1
<1> DEFINE new == Room(n, c, G)'
<1> SUFFICES Fits(call', new, n, c, G)
  OBVIOUS
<1>5. CASE n = m
  <2>1. new = 0
    BY <1>3, <1>4, <1>5 DEF Room
  <2> HIDE DEF new
  <2>2. new <= LimitFor(c)
    BY <2>1, LimitForType
  <2> QED BY <2>2 DEF Fits
<1>6. CASE n # m
  <2>1. new = Room(n, c, G)
    BY <1>3, <1>4, <1>6 DEF Room
  <2>2. new \in Int /\ new <= Room(n, c, G) /\ G \in SUBSET G
    BY <1>1, <2>1, RoomIsCounted
  <2>3. \A h \in G : call'[h] = call[h] \/ call[h].node # n
    BY <1>1, <1>6, RestartRecords DEF NodeOf
  <2> HIDE DEF new
  <2> QED BY <2>2, <2>3, RoomKept
<1> QED
  BY <1>5, <1>6

\* A request that reaches the CompareAndSwap fits below its limit.
LEMMA LoadFits ==
    ASSUME RoomInv, IndInv', NEW g \in Calls, QuietStep(g) \/ BatchStep(g), call'[g].pc = "cas"
    PROVE  /\ call'[g].reqs = call[g].reqs /\ call'[g].i = call[g].i
           /\ call'[g].got + Req(g).cost <= Req(g).limit
<1>1. ShareInv /\ IndInv /\ CallsShaped
  BY DEF RoomInv, ShareInv
<1>2. call \in [Calls -> CallRecords] /\ call[g] \in CallRecords
  BY <1>1 DEF IndInv, TypeOK
<1>3. CASE Load(g)
  <2> DEFINE n == NodeOf(g)
             c == CellOf(g)
  <2>1. At(g) \in Active /\ At(g) = "load"
    BY <1>3 DEF Load, Active, CallStates
  <2>2. /\ n \in Nodes /\ c \in Cells /\ Req(g).cost \in Nat /\ Req(g).limit \in Nat
        /\ call[g].i \in 1..Len(call[g].reqs) /\ Len(call[g].reqs) \in Nat
    BY <1>1, <2>1, Standing
  <2>3. call[g].globals[1] \in Nat
    <3>1. call[g].globals \in Seq(Nat) /\ Len(call[g].globals) = Len(call[g].reqs)
      BY <1>1, <2>1 DEF CallsShaped, Shape, At
    <3> QED BY SMTT(30), <2>2, <3>1
  <2>4. val[n][c] \in Int
    BY <1>1, <2>2 DEF IndInv, TypeOK, PerCell
  <2>5. PICK carry \in Carry :
           \/ call' = [call EXCEPT ![g].pc = "denied"]
           \/ /\ ~(SlidingWindowCount(val[n][c], call[g].globals[1], carry) + Req(g).cost > Req(g).limit)
              /\ call' = [call EXCEPT ![g].pc = "cas", ![g].got = val[n][c]]
    BY <1>3 DEF Load
  <2>6. ~(call' = [call EXCEPT ![g].pc = "denied"])
    BY <1>2 DEF CallRecords
  <2>7. carry \in Nat
    BY RequestAssumption
  <2>8. val[n][c] + call[g].globals[1] + carry + Req(g).cost <= Req(g).limit
    <3>1. ~(SlidingWindowCount(val[n][c], call[g].globals[1], carry) + Req(g).cost > Req(g).limit)
      BY <2>5, <2>6
    <3> QED BY <2>2, <2>3, <2>4, <2>7, <3>1 DEF SlidingWindowCount
  <2>9. val[n][c] + Req(g).cost <= Req(g).limit
    BY SMTT(30), <2>2, <2>3, <2>4, <2>7, <2>8
  <2>10. call'[g].reqs = call[g].reqs /\ call'[g].i = call[g].i /\ call'[g].got = val[n][c]
    BY <1>2, <2>5, <2>6 DEF CallRecords
  <2> QED BY <2>9, <2>10
<1> QED
  BY <1>1, <1>3, Arrivals

\* The room is preserved by every step.
LEMMA RoomStep == RoomInv /\ [Next]_vars => RoomInv'
<1> SUFFICES ASSUME RoomInv, [Next]_vars
             PROVE  RoomInv'
  OBVIOUS
<1>1. ShareInv /\ ShareInv' /\ IndInv /\ IndInv' /\ CallsShaped /\ GlobalsCount
  BY ShareStep DEF RoomInv, ShareInv
<1>2. ASSUME NEW g \in Calls, call'[g] = call[g], call'[g].pc = "cas"
      PROVE  call'[g].got + call'[g].reqs[call'[g].i].cost <= call'[g].reqs[call'[g].i].limit
  BY <1>2 DEF RoomInv, CasFits, At, Req
<1>3. ASSUME \A g \in Calls : call'[g] = call[g] \/ call'[g].pc # "cas"
                              \/ QuietStep(g) \/ BatchStep(g)
      PROVE  CasFits'
  <2>1. ASSUME NEW g \in Calls, call'[g].pc = "cas"
        PROVE  call'[g].got + call'[g].reqs[call'[g].i].cost <= call'[g].reqs[call'[g].i].limit
    <3>1. CASE QuietStep(g) \/ BatchStep(g)
      <4>1. /\ call'[g].reqs = call[g].reqs /\ call'[g].i = call[g].i
            /\ call'[g].got + Req(g).cost <= Req(g).limit
        BY <1>1, <2>1, <3>1, LoadFits
      <4> QED BY <4>1 DEF Req
    <3> QED BY <1>2, <1>3, <2>1, <3>1
  <2> QED BY <2>1 DEF CasFits, At, Req
<1>4. ASSUME UNCHANGED <<call, committed>>
      PROVE  CasFits' /\ BatchesFit'
  BY <1>4 DEF RoomInv, CasFits, BatchesFit, Room, At, Req
<1>5. CASE RequestNext
  <2>1. CASE \E g \in Calls : QuietStep(g) \/ BatchStep(g)
    <3>1. PICK g \in Calls : QuietStep(g) \/ BatchStep(g)
      BY <2>1
    <3>2. \A h \in Calls \ {g} : call'[h] = call[h]
      BY <1>1, <3>1, CallsMove
    <3> QED BY <1>1, <1>3, <3>1, <3>2, QuietRoom, BatchRoom DEF RoomInv
  <2>2. CASE \E n \in Nodes, w \in Workers : ReplayStep(n, w)
    BY <1>1, <1>4, <2>2, ReplayLeaves DEF RoomInv
  <2> QED BY <1>5, <2>1, <2>2, Steps
<1>6. CASE \E n \in Nodes : Restart(n)
  <2>1. PICK n \in Nodes : Restart(n)
    BY <1>6
  <2>2. \A g \in Calls : call'[g] = call[g] \/ call'[g].pc # "cas"
    BY <1>1, <2>1 DEF Restart, IndInv, TypeOK, CallRecords
  <2> QED BY <1>1, <1>3, <2>1, <2>2, RestartRoom DEF RoomInv
<1>7. CASE UNCHANGED vars
  BY <1>1, <1>4, <1>7 DEF vars, ghostVars, RoomInv
<1> QED
  BY <1>5, <1>6, <1>7 DEF Next

\* Nothing is admitted initially.
LEMMA RoomInit == Init => RoomInv
<1> SUFFICES ASSUME Init
             PROVE  RoomInv
  OBVIOUS
<1>1. ShareInv
  BY ShareInit
<1>2. \A g \in Calls : call[g].pc = "idle"
  BY DEF Init, IdleCall
<1>3. CasFits
  BY <1>2 DEF CasFits, At
<1>4. ASSUME NEW n \in Nodes, NEW c \in Cells, NEW G \in SUBSET Calls
      PROVE  Fits(call, Room(n, c, G), n, c, G)
  <2>1. \A g \in Calls : Quiet(call[g])
    BY <1>2 DEF Quiet, CallStates
  <2>2. call \in [Calls -> CallRecords] /\ "approved" \in Kinds /\ "pending" \in Kinds
        /\ Calls \in SUBSET Calls
    BY <1>1 DEF ShareInv, IndInv, TypeOK, Kinds
  <2>3. \A g \in Calls : /\ Share("approved", call[g], {n}, c) = 0
                         /\ Share("pending", call[g], {n}, c) = 0
    BY <2>1, <2>2, QuietShare
  <2>4. Shares("approved", call, Calls, {n}, c) = 0 /\ Shares("pending", call, G, {n}, c) = 0
    BY <2>2, <2>3, NoShares
  <2>5. committed[n][c] = 0
    BY DEF Init, Atomics
  <2>6. Room(n, c, G) <= LimitFor(c)
    BY <2>4, <2>5, LimitForType DEF Room
  <2> QED BY <2>6 DEF Fits
<1> QED
  BY <1>1, <1>3, <1>4 DEF RoomInv, BatchesFit

\* With nothing pending, what is admitted fits the limit.
LEMMA RoomBounds == RoomInv => NodeAdmissionBound
<1> SUFFICES ASSUME RoomInv, NEW n \in Nodes, NEW c \in Cells
             PROVE  committed[n][c] <= LimitFor(c)
  BY DEF NodeAdmissionBound
<1>1. ShareInv /\ {} \in SUBSET Calls
  BY DEF RoomInv
<1>2. Fits(call, Room(n, c, {}), n, c, {})
  BY <1>1 DEF RoomInv, BatchesFit
<1>3. Room(n, c, {}) <= LimitFor(c)
  BY <1>2 DEF Fits
<1>4. /\ committed[n][c] \in Int /\ Shares("approved", call, Calls, {n}, c) \in Nat
      /\ Shares("pending", call, {}, {n}, c) \in Nat
  BY <1>1, RoomTypes
<1>5. Room(n, c, {}) = committed[n][c] + Shares("approved", call, Calls, {n}, c)
                          + Shares("pending", call, {}, {n}, c)
  BY DEF Room
<1>6. LimitFor(c) \in Nat
  BY LimitForType
<1> QED
  BY ONLY <1>3, <1>4, <1>5, <1>6

\* However single requests, optimistic batches, rollbacks and merges race on a window,
\* one process never admits more than the largest limit asked for it.
THEOREM AdmissionsFit == Spec => []NodeAdmissionBound
BY RoomBounds, RoomInit, RoomStep, PTL DEF Spec
=============================================================================
