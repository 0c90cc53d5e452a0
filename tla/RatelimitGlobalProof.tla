------------------------ MODULE RatelimitGlobalProof -------------------------
(***************************************************************************)
(* What the push and pull goroutines of RatelimitGlobal may rely on and    *)
(* what they keep, for every number of regions, nodes, cells, goroutines   *)
(* and every chunk size: everything RatelimitProof and RatelimitCountProof *)
(* show of the request path that does not bound val from above, that       *)
(* lastPushed is published, and, without batches, that rows, imports and   *)
(* counts are backed by admissions. With batches the last three do not     *)
(* hold: a push may read val and speculative on two sides of a rollback.   *)
(***************************************************************************)
EXTENDS RatelimitGlobal, RatelimitCountProof

----------------------------------------------------------------------------
\* The inductive invariants

\* Everything shown of the request path that an import does not threaten.
SharedInv == FlowInv /\ RoomInv /\ GateInv

Pushers ==
    [pc : {"idle", "scan", "subtract"}, todo : SUBSET Cells, cell : Cells \cup {"none"},
     loaded : Int, pending : SUBSET [cell : Cells, count : Nat]]

GlobalTypeOK ==
    /\ table \in [Regions -> [Cells -> Nat]]
    /\ lastPushed \in PerCell(Nat)
    /\ pusher \in [Nodes -> Pushers]
    /\ pulled \in PerCell([regional : Nat, imported : Nat])

\* A push in progress stands at a cell, and what it has collected is finite.
PushesStand ==
    \A n \in Nodes : /\ pusher[n].pc = "subtract" => pusher[n].cell \in Cells
                     /\ IsFiniteSet(pusher[n].pending)

PublishInv == SharedInv /\ GlobalTypeOK /\ PushesStand /\ LastPushedIsPublished

\* Without batches every goroutine is before the decision on its one request, or has
\* made it.
Deciding == {"ensure", "coldMerge", "staleMerge", "strict", "strictMerge", "load", "cas"}
Alone(rec) ==
    \/ rec.pc \in {"idle", "allowed", "denied", "crashed"}
    \/ rec.pc \in Deciding /\ rec.kind = "one"
AllAlone == Batches = {} /\ \A g \in Calls : Alone(call[g])

\* What is on its way into the table, and from the table into the counts, was
\* admitted: by the node's own region, or by the other regions together.
PushBacked(p, counts) ==
    /\ p.pc = "subtract" => p.loaded <= counts[p.cell]
    /\ \A row \in p.pending : row.count <= counts[row.cell]
PushesBacked == \A n \in Nodes : PushBacked(pusher[n], admitted[RegionOf[n]])
PullsBacked ==
    \A n \in Nodes, c \in Cells :
        /\ pulled[n][c].regional <= admitted[RegionOf[n]][c]
        /\ pulled[n][c].imported <= Total(admitted, Others(n), c)

SharingInv ==
    /\ PublishInv /\ Backed /\ NoPhantomCount
    /\ AllAlone /\ PushesBacked /\ PullsBacked /\ RowsBackedByAdmissions /\ NoFeedback

----------------------------------------------------------------------------
\* Imports and the request path

\* A pull that is applied raises val or globalCount of one entry.
PullStep(n) == \E c \in Cells : PullApplyRegional(n, c) \/ PullApplyImported(n, c)

\* A step is one of the request path, a restart, a push, a query or an import.
LEMMA GlobalSteps ==
    ASSUME [GlobalNext]_allVars
    PROVE  \/ [Next]_vars /\ UNCHANGED globalVars
           \/ \E n \in Nodes : \/ Restart(n) /\ GlobalRestart(n)
                               \/ UNCHANGED vars /\ (PushStep(n) \/ PullQuery(n))
                               \/ PullStep(n)
<1>1. CASE UNCHANGED allVars
  BY <1>1 DEF allVars
<1>2. CASE RequestNext /\ UNCHANGED globalVars
  BY <1>2 DEF Next
<1>3. ASSUME NEW n \in Nodes, GlobalRestart(n)
      PROVE  Restart(n)
  BY <1>3 DEF GlobalRestart
<1>4. ASSUME NEW n \in Nodes, PushStep(n) \/ PullQuery(n)
      PROVE  UNCHANGED vars
  BY <1>4 DEF PushStep, PushTick, PushLoadSpeculative, PushDone, PushFails, PushChunk,
              PushLoadVal, PullQuery
<1> QED
  BY <1>1, <1>2, <1>3, <1>4 DEF GlobalNext, PullStep

\* What an applied pull leaves alone.
LEMMA PullLeaves ==
    ASSUME NEW n \in Nodes, PullStep(n)
    PROVE  /\ UNCHANGED <<speculative, hydration, staleMu, pushThreshold, strict>>
           /\ UNCHANGED <<origin, buffer, ack, lost>>
           /\ UNCHANGED <<call, restarts, committed, inflight, seenOrigin, admitted>>
           /\ UNCHANGED <<table, lastPushed, pusher>>
BY DEF PullStep, PullApplyRegional, PullApplyImported, entryVars, replayVars, ghostVars

\* One cell of one node is written.
LEMMA OneCell ==
    ASSUME NEW S, NEW f \in [Nodes -> [Cells -> S]], NEW n \in Nodes, NEW c \in Cells, NEW v \in S,
           NEW g, g = [f EXCEPT ![n][c] = v]
    PROVE  /\ g \in [Nodes -> [Cells -> S]] /\ g[n][c] = v
           /\ \A m \in Nodes, d \in Cells : ~(m = n /\ d = c) => g[m][d] = f[m][d]
OBVIOUS

\* atomicMax leaves a count or raises it.
LEMMA MergedCount ==
    ASSUME NEW x \in Int, NEW y \in Nat
    PROVE  /\ AtomicMax(x, y) \in Int
           /\ AtomicMax(x, y) = x \/ (AtomicMax(x, y) = y /\ AtomicMax(x, y) > x)
BY DEF AtomicMax

\* What it changes.
LEMMA PullEffect ==
    ASSUME TypeOK, GlobalTypeOK, NEW n \in Nodes, PullStep(n)
    PROVE  /\ val' \in PerCell(Int) /\ globalCount' \in PerCell(Int)
           /\ pulled' \in PerCell([regional : Nat, imported : Nat])
           /\ \A m \in Nodes, d \in Cells :
                 /\ \/ val'[m][d] = val[m][d]
                    \/ val'[m][d] = pulled[m][d].regional /\ val'[m][d] > val[m][d]
                 /\ \/ globalCount'[m][d] = globalCount[m][d]
                    \/ /\ globalCount'[m][d] = pulled[m][d].imported
                       /\ globalCount'[m][d] > globalCount[m][d]
                 /\ pulled'[m][d].regional \in {0, pulled[m][d].regional}
                 /\ pulled'[m][d].imported \in {0, pulled[m][d].imported}
<1>1. /\ val \in [Nodes -> [Cells -> Int]] /\ globalCount \in [Nodes -> [Cells -> Int]]
      /\ pulled \in [Nodes -> [Cells -> [regional : Nat, imported : Nat]]]
  BY DEF TypeOK, GlobalTypeOK, PerCell
<1>2. ASSUME NEW c \in Cells, PullApplyRegional(n, c)
      PROVE  /\ val' \in [Nodes -> [Cells -> Int]] /\ globalCount' = globalCount
             /\ pulled' \in [Nodes -> [Cells -> [regional : Nat, imported : Nat]]]
             /\ \A m \in Nodes, d \in Cells :
                   /\ \/ val'[m][d] = val[m][d]
                      \/ val'[m][d] = pulled[m][d].regional /\ val'[m][d] > val[m][d]
                   /\ pulled'[m][d].regional \in {0, pulled[m][d].regional}
                   /\ pulled'[m][d].imported \in {0, pulled[m][d].imported}
  <2> DEFINE row == [pulled[n][c] EXCEPT !.regional = 0]
             new == AtomicMax(val[n][c], pulled[n][c].regional)
  <2>1. /\ val' = [val EXCEPT ![n][c] = new] /\ globalCount' = globalCount
        /\ pulled' = [pulled EXCEPT ![n][c] = row]
    BY <1>1, <1>2 DEF PullApplyRegional
  <2>2. pulled[n][c] \in [regional : Nat, imported : Nat] /\ val[n][c] \in Int
        /\ pulled[n][c].regional \in Nat
    BY <1>1
  <2>3. /\ new \in Int
        /\ new = val[n][c] \/ (new = pulled[n][c].regional /\ new > val[n][c])
    BY <2>2, MergedCount
  <2>4. /\ row \in [regional : Nat, imported : Nat]
        /\ row.regional = 0 /\ row.imported = pulled[n][c].imported
    BY <2>2
  <2> HIDE DEF row, new
  <2>5. /\ val' \in [Nodes -> [Cells -> Int]] /\ val'[n][c] = new
        /\ \A m \in Nodes, d \in Cells : ~(m = n /\ d = c) => val'[m][d] = val[m][d]
    BY <1>1, <2>1, <2>3, OneCell
  <2>6. /\ pulled' \in [Nodes -> [Cells -> [regional : Nat, imported : Nat]]] /\ pulled'[n][c] = row
        /\ \A m \in Nodes, d \in Cells : ~(m = n /\ d = c) => pulled'[m][d] = pulled[m][d]
    BY <1>1, <2>1, <2>4, OneCell
  <2>7. ASSUME NEW m \in Nodes, NEW d \in Cells
        PROVE  /\ \/ val'[m][d] = val[m][d]
                  \/ val'[m][d] = pulled[m][d].regional /\ val'[m][d] > val[m][d]
               /\ pulled'[m][d].regional \in {0, pulled[m][d].regional}
               /\ pulled'[m][d].imported \in {0, pulled[m][d].imported}
    <3>1. CASE m = n /\ d = c
      BY ONLY <2>3, <2>4, <2>5, <2>6, <3>1
    <3>2. CASE ~(m = n /\ d = c)
      BY ONLY <2>5, <2>6, <3>2, m \in Nodes, d \in Cells
    <3> QED BY <3>1, <3>2
  <2> QED BY <2>1, <2>5, <2>6, <2>7
<1>3. ASSUME NEW c \in Cells, PullApplyImported(n, c)
      PROVE  /\ globalCount' \in [Nodes -> [Cells -> Int]] /\ val' = val
             /\ pulled' \in [Nodes -> [Cells -> [regional : Nat, imported : Nat]]]
             /\ \A m \in Nodes, d \in Cells :
                   /\ \/ globalCount'[m][d] = globalCount[m][d]
                      \/ /\ globalCount'[m][d] = pulled[m][d].imported
                         /\ globalCount'[m][d] > globalCount[m][d]
                   /\ pulled'[m][d].regional \in {0, pulled[m][d].regional}
                   /\ pulled'[m][d].imported \in {0, pulled[m][d].imported}
  <2> DEFINE new == AtomicMax(globalCount[n][c], pulled[n][c].imported)
  <2>1. /\ globalCount' = [globalCount EXCEPT ![n][c] = new] /\ val' = val
        /\ pulled' = [pulled EXCEPT ![n][c] = NoRow]
    BY <1>1, <1>3 DEF PullApplyImported, entryVars
  <2>2. pulled[n][c] \in [regional : Nat, imported : Nat] /\ globalCount[n][c] \in Int
        /\ pulled[n][c].imported \in Nat
    BY <1>1
  <2>3. /\ new \in Int
        /\ new = globalCount[n][c] \/ (new = pulled[n][c].imported /\ new > globalCount[n][c])
    BY <2>2, MergedCount
  <2>4. /\ NoRow \in [regional : Nat, imported : Nat] /\ NoRow.regional = 0 /\ NoRow.imported = 0
    BY DEF NoRow
  <2> HIDE DEF new
  <2>5. /\ globalCount' \in [Nodes -> [Cells -> Int]] /\ globalCount'[n][c] = new
        /\ \A m \in Nodes, d \in Cells : ~(m = n /\ d = c) => globalCount'[m][d] = globalCount[m][d]
    BY <1>1, <2>1, <2>3, OneCell
  <2>6. /\ pulled' \in [Nodes -> [Cells -> [regional : Nat, imported : Nat]]] /\ pulled'[n][c] = NoRow
        /\ \A m \in Nodes, d \in Cells : ~(m = n /\ d = c) => pulled'[m][d] = pulled[m][d]
    BY <1>1, <2>1, <2>4, OneCell
  <2>7. ASSUME NEW m \in Nodes, NEW d \in Cells
        PROVE  /\ \/ globalCount'[m][d] = globalCount[m][d]
                  \/ globalCount'[m][d] = pulled[m][d].imported /\ globalCount'[m][d] > globalCount[m][d]
               /\ pulled'[m][d].regional \in {0, pulled[m][d].regional}
               /\ pulled'[m][d].imported \in {0, pulled[m][d].imported}
    <3>1. CASE m = n /\ d = c
      BY ONLY <2>3, <2>4, <2>5, <2>6, <3>1
    <3>2. CASE ~(m = n /\ d = c)
      BY ONLY <2>5, <2>6, <3>2, m \in Nodes, d \in Cells
    <3> QED BY <3>1, <3>2
  <2> QED BY <2>1, <2>5, <2>6, <2>7
<1>4. PICK c \in Cells : PullApplyRegional(n, c) \/ PullApplyImported(n, c)
  BY DEF PullStep
<1>5. CASE PullApplyRegional(n, c)
  BY <1>1, <1>2, <1>5 DEF PerCell
<1>6. CASE PullApplyImported(n, c)
  BY <1>1, <1>3, <1>6 DEF PerCell
<1> QED
  BY <1>4, <1>5, <1>6

\* An import keeps what the request path relies on: it only raises val, and the
\* snapshots of globalCount stay natural numbers.
LEMMA PullKeeps ==
    ASSUME SharedInv, GlobalTypeOK, NEW n \in Nodes, PullStep(n)
    PROVE  SharedInv'
<1>1. FlowInv /\ ShareInv /\ IndInv /\ TypeOK
  BY DEF SharedInv, FlowInv, ShareInv, IndInv
<1>2. /\ val' \in PerCell(Int) /\ globalCount' \in PerCell(Int)
      /\ \A m \in Nodes, d \in Cells :
            /\ \/ val'[m][d] = val[m][d]
               \/ val'[m][d] = pulled[m][d].regional /\ val'[m][d] > val[m][d]
            /\ \/ globalCount'[m][d] = globalCount[m][d]
               \/ /\ globalCount'[m][d] = pulled[m][d].imported
                  /\ globalCount'[m][d] > globalCount[m][d]
  BY <1>1, PullEffect
<1>3. /\ UNCHANGED <<speculative, hydration, staleMu, pushThreshold, strict>>
      /\ UNCHANGED <<origin, buffer, ack, lost>>
      /\ UNCHANGED <<call, restarts, committed, inflight, seenOrigin, admitted>>
  BY PullLeaves
<1>4. IndInv'
  <2>1. TypeOK'
    BY <1>1, <1>2, <1>3 DEF TypeOK
  <2>2. CallsWellFormed'
    BY <1>1, <1>3 DEF IndInv, CallsWellFormed, At, NodeOf
  <2>3. ASSUME NEW m \in Nodes, NEW d \in Cells
        PROVE  val'[m][d] - inflight'[m][d] >= committed'[m][d]
    <3>1. val[m][d] - inflight[m][d] >= committed[m][d]
      BY <1>1 DEF IndInv, OwnCommitsCounted
    <3>2. /\ val[m][d] \in Int /\ val'[m][d] \in Int /\ inflight[m][d] \in Int
          /\ committed[m][d] \in Int
      BY <1>1, <1>2 DEF TypeOK, PerCell
    <3>3. val'[m][d] = val[m][d] \/ val'[m][d] > val[m][d]
      BY <1>2
    <3>4. inflight'[m][d] = inflight[m][d] /\ committed'[m][d] = committed[m][d]
      BY <1>3
    <3> QED BY ONLY <3>1, <3>2, <3>3, <3>4
  <2> QED BY <2>1, <2>2, <2>3 DEF IndInv, OwnCommitsCounted
<1>5. GlobalsCount'
  <2>1. ASSUME NEW m \in Nodes, NEW d \in Cells
        PROVE  globalCount'[m][d] >= 0
    <3>1. globalCount[m][d] >= 0 /\ globalCount[m][d] \in Int /\ globalCount'[m][d] \in Int
      BY <1>1, <1>2 DEF ShareInv, GlobalsCount, TypeOK, PerCell
    <3>2. globalCount'[m][d] = globalCount[m][d] \/ globalCount'[m][d] > globalCount[m][d]
      BY <1>2
    <3> QED BY ONLY <3>1, <3>2
  <2> QED BY <2>1 DEF GlobalsCount
<1>6. ShareInv'
  BY <1>1, <1>3, <1>4, <1>5
  DEF ShareInv, CallsShaped, HeldIsInflight, AnnouncedIsSpeculative
<1>7. FlowInv'
  BY <1>1, <1>3, <1>6 DEF FlowInv, LostType, Conserved
<1>8. RoomInv'
  BY <1>3, <1>6 DEF SharedInv, RoomInv, CasFits, BatchesFit, Room, At, Req
<1>9. GateInv'
  BY <1>3, <1>4 DEF SharedInv, GateInv, ColdOwned, StaleOwned, PassedIsWarm, NodeOf
<1> QED
  BY <1>7, <1>8, <1>9 DEF SharedInv

\* What the request path promises is preserved by every step of the composition.
LEMMA SharedStep ==
    ASSUME SharedInv, GlobalTypeOK, [GlobalNext]_allVars
    PROVE  SharedInv'
<1>1. ASSUME [Next]_vars
      PROVE  SharedInv'
  <2>1. FlowInv /\ RoomInv /\ GateInv /\ ShareInv
    BY DEF SharedInv, FlowInv
  <2> QED BY <1>1, <2>1, FlowStep, RoomStep, GateStep DEF SharedInv
<1>2. ASSUME NEW n \in Nodes, Restart(n)
      PROVE  [Next]_vars
  BY <1>2 DEF Next
<1>3. ASSUME NEW n \in Nodes, PullStep(n)
      PROVE  SharedInv'
  BY <1>3, PullKeeps
<1> QED
  BY <1>1, <1>2, <1>3, GlobalSteps

----------------------------------------------------------------------------
\* The push goroutine

\* A chunk raises a row to the largest count it carries for the cell.
LEMMA UpsertedIs ==
    ASSUME NEW row \in Nat, NEW c \in Cells, NEW chunk \in SUBSET [cell : Cells, count : Nat],
           IsFiniteSet(chunk)
    PROVE  /\ Upserted(row, c, chunk) \in Nat /\ Upserted(row, c, chunk) >= row
           /\ \A p \in chunk : p.cell = c => p.count <= Upserted(row, c, chunk)
           /\ \/ Upserted(row, c, chunk) = row
              \/ \E p \in chunk : p.cell = c /\ p.count = Upserted(row, c, chunk)
<1> DEFINE Q == {q \in chunk : q.cell = c}
           C == {p.count : p \in Q}
           S == {row} \cup C
<1>1. IsFiniteSet(Q) /\ Q \subseteq chunk
  BY FS_Subset
<1>2. IsFiniteSet(C)
  <2> DEFINE f == [p \in Q |-> p.count]
  <2>1. f \in Surjection(Q, C)
    BY DEF Surjection
  <2> QED BY <1>1, <2>1, FS_Surjection
<1>3. IsFiniteSet(S) /\ S # {} /\ S \in SUBSET Nat
  <2>1. IsFiniteSet(S)
    BY <1>2, FS_AddElement, S = C \cup {row}
  <2> QED BY <2>1
<1>4. PICK t \in S : \A m \in S : m <= t
  BY <1>3, LargestNatural
<1>5. Max(S) \in S /\ \A m \in S : m <= Max(S)
  <2>1. \E x \in S : \A y \in S : x >= y
    BY <1>3, <1>4
  <2> HIDE DEF S
  <2>2. Max(S) \in S /\ \A y \in S : Max(S) >= y
    BY <2>1 DEF Max
  <2> QED BY <1>3, <2>2
<1>6. Upserted(row, c, chunk) = Max(S)
  BY DEF Upserted
<1> DEFINE top == Max(S)
<1> HIDE DEF top
<1>7. top \in S /\ \A m \in S : m <= top
  BY <1>5 DEF top
<1>8. top \in Nat /\ top >= row
  BY <1>3, <1>7
<1>9. \A p \in chunk : p.cell = c => p.count <= top
  BY <1>7
<1>10. top = row \/ \E p \in chunk : p.cell = c /\ p.count = top
  BY <1>7
<1> QED
  BY <1>6, <1>8, <1>9, <1>10 DEF top

\* A chunk is a finite part of what is pending.
LEMMA ChunksAre ==
    ASSUME GlobalTypeOK, PushesStand, NEW n \in Nodes,
           NEW chunk \in Chunks(pusher[n].pending) \cup {{}}
    PROVE  /\ chunk \in SUBSET pusher[n].pending
           /\ chunk \in SUBSET [cell : Cells, count : Nat] /\ IsFiniteSet(chunk)
<1>1. chunk \in SUBSET pusher[n].pending
  BY DEF Chunks
<1>2. pusher[n].pending \in SUBSET [cell : Cells, count : Nat] /\ IsFiniteSet(pusher[n].pending)
  BY DEF GlobalTypeOK, PushesStand, Pushers
<1> QED
  BY <1>1, <1>2, FS_Subset

\* The rows of a region, or the lastPushed of a node, after a chunk.
LEMMA ChunkRaises ==
    ASSUME NEW rows \in [Cells -> Nat], NEW chunk \in SUBSET [cell : Cells, count : Nat],
           IsFiniteSet(chunk), NEW new, new = [c \in Cells |-> Upserted(rows[c], c, chunk)]
    PROVE  /\ new \in [Cells -> Nat]
           /\ \A c \in Cells : /\ new[c] >= rows[c]
                               /\ \A p \in chunk : p.cell = c => p.count <= new[c]
                               /\ \/ new[c] = rows[c]
                                  \/ \E p \in chunk : p.cell = c /\ p.count = new[c]
<1>1. ASSUME NEW c \in Cells
      PROVE  /\ new[c] \in Nat /\ new[c] >= rows[c]
             /\ \A p \in chunk : p.cell = c => p.count <= new[c]
             /\ \/ new[c] = rows[c]
                \/ \E p \in chunk : p.cell = c /\ p.count = new[c]
  <2>1. new[c] = Upserted(rows[c], c, chunk) /\ rows[c] \in Nat
    OBVIOUS
  <2> QED BY <2>1, UpsertedIs
<1> QED
  BY <1>1

\* A step that leaves one pusher in another state and the rest alone.
LEMMA OnePusher ==
    ASSUME GlobalTypeOK, PushesStand, NEW n \in Nodes, NEW rec \in Pushers,
           rec.pc = "subtract" => rec.cell \in Cells, IsFiniteSet(rec.pending),
           pusher' = [pusher EXCEPT ![n] = rec]
    PROVE  /\ pusher' \in [Nodes -> Pushers] /\ PushesStand' /\ pusher'[n] = rec
           /\ \A m \in Nodes \ {n} : pusher'[m] = pusher[m]
<1>1. pusher \in [Nodes -> Pushers]
  BY DEF GlobalTypeOK
<1>2. pusher' \in [Nodes -> Pushers] /\ pusher'[n] = rec
      /\ \A m \in Nodes \ {n} : pusher'[m] = pusher[m]
  BY <1>1
<1>3. ASSUME NEW m \in Nodes
      PROVE  (pusher'[m].pc = "subtract" => pusher'[m].cell \in Cells)
             /\ IsFiniteSet(pusher'[m].pending)
  BY <1>2 DEF PushesStand
<1> QED
  BY <1>2, <1>3 DEF PushesStand

\* A pusher between two ticks has nothing pending.
LEMMA IdlePusherType == IdlePusher \in Pushers /\ IdlePusher.pc = "idle" /\ IdlePusher.pending = {}
                        /\ IsFiniteSet({})
BY FS_EmptySet DEF IdlePusher, Pushers

\* A tick starts with nothing pending.
LEMMA ScanPusher ==
    LET rec == [IdlePusher EXCEPT !.pc = "scan", !.todo = Cells]
    IN  rec \in Pushers /\ rec.pc = "scan" /\ rec.pending = {}
<1> DEFINE one == [IdlePusher EXCEPT !.pc = "scan"]
           rec == [one EXCEPT !.todo = Cells]
<1>1. IdlePusher \in Pushers /\ IdlePusher.pending = {}
  BY IdlePusherType
<1>2. one \in Pushers /\ one.pc = "scan" /\ one.pending = {}
  BY <1>1 DEF Pushers
<1>3. [IdlePusher EXCEPT !.pc = "scan", !.todo = Cells] = rec
  OBVIOUS
<1> HIDE DEF one
<1>4. rec \in Pushers /\ rec.pc = "scan" /\ rec.pending = {}
  BY <1>2 DEF Pushers
<1> HIDE DEF rec
<1> QED
  BY <1>3, <1>4

Scanned(p, todo, cell, loaded, kept) ==
    [p EXCEPT !.pc = "scan", !.todo = todo, !.cell = cell, !.loaded = loaded, !.pending = kept]

\* A pusher that goes on in its scan is well-formed.
LEMMA ScannedPusher ==
    ASSUME NEW p \in Pushers, NEW todo \in SUBSET Cells, NEW cell \in Cells \cup {"none"},
           NEW loaded \in Int, NEW kept \in SUBSET [cell : Cells, count : Nat], NEW rec,
           rec = Scanned(p, todo, cell, loaded, kept)
    PROVE  rec \in Pushers /\ rec.pc = "scan" /\ rec.pending = kept
<1> DEFINE one == [p EXCEPT !.pc = "scan", !.todo = todo]
           two == [one EXCEPT !.cell = cell, !.loaded = loaded]
           new == [two EXCEPT !.pending = kept]
<1>1. one \in Pushers /\ one.pc = "scan"
  BY DEF Pushers
<1>2. rec = new
  BY DEF Scanned
<1> HIDE DEF one
<1>3. two \in Pushers /\ two.pc = "scan"
  BY <1>1 DEF Pushers
<1> HIDE DEF two
<1>4. new \in Pushers /\ new.pc = "scan" /\ new.pending = kept
  BY <1>3 DEF Pushers
<1> HIDE DEF new
<1> QED
  BY <1>2, <1>4

\* What the pusher of a node does, in terms of its record alone.
PusherMoves(n, rec) ==
    \/ rec.pc \in {"idle", "scan"} /\ rec.pending = {}
    \/ /\ rec.pc = "subtract" /\ rec.cell \in Cells /\ rec.loaded = val[n][rec.cell]
       /\ rec.pending = pusher[n].pending
    \/ /\ pusher[n].pc = "subtract" /\ rec.pc = "scan"
       /\ \/ rec.pending = pusher[n].pending
          \/ LET p == [cell |-> pusher[n].cell,
                       count |-> pusher[n].loaded - speculative[n][pusher[n].cell]]
             IN p.count > 0 /\ rec.pending = pusher[n].pending \cup {p}
    \/ rec.pc = "scan" /\ rec.pending \subseteq pusher[n].pending

\* A step of a push moves one pusher, and what it has pending stays finite.
LEMMA PushMoves ==
    ASSUME TypeOK, GlobalTypeOK, PushesStand, NEW n \in Nodes, PushStep(n)
    PROVE  \E rec \in Pushers : /\ pusher' = [pusher EXCEPT ![n] = rec] /\ PusherMoves(n, rec)
                                /\ IsFiniteSet(rec.pending)
<1>1. /\ pusher \in [Nodes -> Pushers] /\ pusher[n] \in Pushers
      /\ IsFiniteSet(pusher[n].pending)
  BY DEF GlobalTypeOK, PushesStand
<1>2. ASSUME NEW rec \in Pushers, pusher' = [pusher EXCEPT ![n] = rec], PusherMoves(n, rec),
             IsFiniteSet(rec.pending)
      PROVE  \E r \in Pushers : /\ pusher' = [pusher EXCEPT ![n] = r] /\ PusherMoves(n, r)
                                /\ IsFiniteSet(r.pending)
  BY <1>2
<1>3. CASE PushTick(n)
  <2> DEFINE rec == [IdlePusher EXCEPT !.pc = "scan", !.todo = Cells]
  <2>1. rec \in Pushers /\ rec.pc = "scan" /\ rec.pending = {}
    BY ScanPusher
  <2>2. pusher' = [pusher EXCEPT ![n] = rec]
    BY <1>3 DEF PushTick
  <2> HIDE DEF rec
  <2>3. IsFiniteSet(rec.pending) /\ PusherMoves(n, rec)
    BY <2>1, FS_EmptySet DEF PusherMoves
  <2> QED BY <1>2, <2>1, <2>2, <2>3
<1>4. CASE PushDone(n) \/ PushFails(n)
  <2>1. pusher' = [pusher EXCEPT ![n] = IdlePusher]
    BY <1>4 DEF PushDone, PushFails
  <2>2. PusherMoves(n, IdlePusher) /\ IsFiniteSet(IdlePusher.pending)
    BY IdlePusherType DEF PusherMoves
  <2> QED BY <1>2, <2>1, <2>2, IdlePusherType
<1>5. ASSUME NEW c \in Cells, PushLoadVal(n, c)
      PROVE  \E r \in Pushers : /\ pusher' = [pusher EXCEPT ![n] = r] /\ PusherMoves(n, r)
                                /\ IsFiniteSet(r.pending)
  <2> DEFINE rec == [pusher[n] EXCEPT !.pc = "subtract", !.cell = c, !.loaded = val[n][c]]
  <2>1. val[n][c] \in Int
    BY DEF TypeOK, PerCell
  <2>2. /\ rec \in Pushers /\ rec.pc = "subtract" /\ rec.cell = c /\ rec.loaded = val[n][c]
        /\ rec.pending = pusher[n].pending
    BY <1>1, <2>1 DEF Pushers
  <2>3. pusher' = [pusher EXCEPT ![n] = rec]
    BY <1>1, <1>5 DEF PushLoadVal, Pushers
  <2> HIDE DEF rec
  <2>4. PusherMoves(n, rec) /\ IsFiniteSet(rec.pending)
    BY <1>1, <2>2 DEF PusherMoves
  <2> QED BY <1>2, <2>2, <2>3, <2>4
<1>6. CASE PushLoadSpeculative(n)
  <2> DEFINE p == pusher[n]
             c == p.cell
             count == p.loaded - speculative[n][c]
             kept == IF count > 0 /\ ShouldPushGlobalCount(n, c, count)
                     THEN p.pending \cup {[cell |-> c, count |-> count]} ELSE p.pending
             rec == [p EXCEPT !.pc = "scan", !.todo = p.todo \ {c}, !.cell = "none", !.loaded = 0,
                              !.pending = kept]
  <2>1. p.pc = "subtract" /\ pusher' = [pusher EXCEPT ![n] = rec]
    BY <1>1, <1>6 DEF PushLoadSpeculative, Pushers
  <2>2. c \in Cells
    BY <2>1 DEF PushesStand
  <2>3. count \in Int
    BY <1>1, <2>2 DEF TypeOK, PerCell, Pushers
  <2>4. kept = p.pending \/ (count > 0 /\ kept = p.pending \cup {[cell |-> c, count |-> count]})
    OBVIOUS
  <2> HIDE DEF count, kept
  <2>5. kept \in SUBSET [cell : Cells, count : Nat]
    BY <1>1, <2>2, <2>3, <2>4 DEF Pushers
  <2>6. IsFiniteSet(kept)
    BY <1>1, <2>4, FS_AddElement
  <2>7. rec \in Pushers /\ rec.pc = "scan" /\ rec.pending = kept
    <3>1. p.todo \ {c} \in SUBSET Cells
      BY <1>1 DEF Pushers
    <3> DEFINE todo == p.todo \ {c}
    <3>2. /\ rec = Scanned(p, todo, "none", 0, kept)
          /\ "none" \in Cells \cup {"none"} /\ 0 \in Int
      BY DEF Scanned
    <3> HIDE DEF rec, todo
    <3>3. p \in Pushers /\ todo \in SUBSET Cells
      BY <1>1, <3>1 DEF todo
    <3> HIDE DEF p
    <3> QED BY ONLY <2>5, <3>2, <3>3, ScannedPusher
  <2> HIDE DEF rec
  <2>8. PusherMoves(n, rec)
    BY <2>1, <2>4, <2>7 DEF PusherMoves, count
  <2> QED BY <1>2, <2>1, <2>6, <2>7, <2>8
<1>7. CASE PushChunk(n)
  <2>1. PICK chunk \in Chunks(pusher[n].pending) :
           pusher' = [pusher EXCEPT ![n].pending = @ \ chunk]
    BY <1>7 DEF PushChunk
  <2> DEFINE rec == [pusher[n] EXCEPT !.pending = pusher[n].pending \ chunk]
  <2>2. pusher' = [pusher EXCEPT ![n] = rec] /\ pusher[n].pc = "scan"
    BY <1>1, <1>7, <2>1 DEF Pushers, PushChunk
  <2>3. /\ rec \in Pushers /\ rec.pc = "scan" /\ rec.pending = pusher[n].pending \ chunk
    BY <1>1, <2>2 DEF Pushers
  <2>4. IsFiniteSet(pusher[n].pending \ chunk)
    BY <1>1, FS_Difference
  <2> HIDE DEF rec
  <2>5. PusherMoves(n, rec)
    BY <2>3 DEF PusherMoves
  <2> QED BY <1>2, <2>2, <2>3, <2>4, <2>5
<1> QED
  BY <1>3, <1>4, <1>5, <1>6, <1>7 DEF PushStep

\* What one push does to the table and to lastPushed: nothing, or the chunk, in the
\* table alone when the answer is lost.
LEMMA PushWrites ==
    ASSUME GlobalTypeOK, PushesStand, NEW n \in Nodes, PushStep(n)
    PROVE  \/ UNCHANGED <<table, lastPushed>>
           \/ \E chunk \in SUBSET pusher[n].pending :
                /\ chunk \in SUBSET [cell : Cells, count : Nat] /\ IsFiniteSet(chunk)
                /\ table' = [table EXCEPT ![RegionOf[n]] =
                               [c \in Cells |-> Upserted(table[RegionOf[n]][c], c, chunk)]]
                /\ \/ lastPushed' = lastPushed
                   \/ lastPushed' = [lastPushed EXCEPT ![n] =
                                       [c \in Cells |-> Upserted(lastPushed[n][c], c, chunk)]]
<1>1. RegionOf[n] \in Regions /\ table \in [Regions -> [Cells -> Nat]]
      /\ lastPushed \in [Nodes -> [Cells -> Nat]]
  BY TopologyAssumption DEF GlobalTypeOK, PerCell
<1>2. CASE PushTick(n) \/ PushLoadSpeculative(n) \/ PushDone(n) \/ \E c \in Cells : PushLoadVal(n, c)
  BY <1>2 DEF PushTick, PushLoadSpeculative, PushDone, PushLoadVal
<1>3. CASE PushFails(n)
  <2>1. PICK chunk \in Chunks(pusher[n].pending) \cup {{}} :
           table' = [table EXCEPT ![RegionOf[n]] = [c \in Cells |-> Upserted(@[c], c, chunk)]]
    BY <1>3 DEF PushFails
  <2>2. lastPushed' = lastPushed
    BY <1>3 DEF PushFails
  <2>3. table' = [table EXCEPT ![RegionOf[n]] =
                    [c \in Cells |-> Upserted(table[RegionOf[n]][c], c, chunk)]]
    BY <1>1, <2>1
  <2> QED BY <2>2, <2>3, ChunksAre
<1>4. CASE PushChunk(n)
  <2>1. PICK chunk \in Chunks(pusher[n].pending) :
           /\ table' = [table EXCEPT ![RegionOf[n]] = [c \in Cells |-> Upserted(@[c], c, chunk)]]
           /\ lastPushed' = [lastPushed EXCEPT ![n] = [c \in Cells |-> Upserted(@[c], c, chunk)]]
    BY <1>4 DEF PushChunk
  <2>2. table' = [table EXCEPT ![RegionOf[n]] =
                    [c \in Cells |-> Upserted(table[RegionOf[n]][c], c, chunk)]]
    BY <1>1, <2>1
  <2>3. lastPushed' = [lastPushed EXCEPT ![n] =
                         [c \in Cells |-> Upserted(lastPushed[n][c], c, chunk)]]
    BY <1>1, <2>1
  <2> QED BY <2>2, <2>3, ChunksAre
<1> QED
  BY <1>2, <1>3, <1>4 DEF PushStep

\* Rows only grow, by counts the pusher had collected.
LEMMA PushRaises ==
    ASSUME GlobalTypeOK, PushesStand, LastPushedIsPublished, NEW n \in Nodes, PushStep(n)
    PROVE  /\ table' \in [Regions -> [Cells -> Nat]] /\ lastPushed' \in PerCell(Nat)
           /\ \A r \in Regions, c \in Cells :
                 \/ table'[r][c] = table[r][c]
                 \/ /\ r = RegionOf[n]
                    /\ \E p \in pusher[n].pending : p.cell = c /\ p.count = table'[r][c]
           /\ LastPushedIsPublished'
<1>1. /\ RegionOf[n] \in Regions /\ table \in [Regions -> [Cells -> Nat]]
      /\ lastPushed \in [Nodes -> [Cells -> Nat]]
      /\ \A m \in Nodes : RegionOf[m] \in Regions
  BY TopologyAssumption DEF GlobalTypeOK, PerCell
<1>2. CASE UNCHANGED <<table, lastPushed>>
  BY <1>1, <1>2 DEF PerCell, LastPushedIsPublished
<1>3. ASSUME NEW chunk \in SUBSET pusher[n].pending,
             chunk \in SUBSET [cell : Cells, count : Nat], IsFiniteSet(chunk),
             table' = [table EXCEPT ![RegionOf[n]] =
                         [c \in Cells |-> Upserted(table[RegionOf[n]][c], c, chunk)]],
             \/ lastPushed' = lastPushed
             \/ lastPushed' = [lastPushed EXCEPT ![n] =
                                 [c \in Cells |-> Upserted(lastPushed[n][c], c, chunk)]]
      PROVE  /\ table' \in [Regions -> [Cells -> Nat]] /\ lastPushed' \in PerCell(Nat)
             /\ \A r \in Regions, c \in Cells :
                   \/ table'[r][c] = table[r][c]
                   \/ /\ r = RegionOf[n]
                      /\ \E p \in pusher[n].pending : p.cell = c /\ p.count = table'[r][c]
             /\ LastPushedIsPublished'
  <2> DEFINE old == table[RegionOf[n]]
             rows == [c \in Cells |-> Upserted(old[c], c, chunk)]
             mine == [c \in Cells |-> Upserted(lastPushed[n][c], c, chunk)]
  <2>1. /\ rows \in [Cells -> Nat]
        /\ \A c \in Cells : /\ rows[c] >= table[RegionOf[n]][c]
                            /\ \A p \in chunk : p.cell = c => p.count <= rows[c]
                            /\ \/ rows[c] = table[RegionOf[n]][c]
                               \/ \E p \in chunk : p.cell = c /\ p.count = rows[c]
    <3>1. old \in [Cells -> Nat]
      BY <1>1
    <3> HIDE DEF old
    <3>2. /\ rows \in [Cells -> Nat]
          /\ \A c \in Cells : /\ rows[c] >= old[c]
                              /\ \A p \in chunk : p.cell = c => p.count <= rows[c]
                              /\ \/ rows[c] = old[c]
                                 \/ \E p \in chunk : p.cell = c /\ p.count = rows[c]
      <4>1. /\ rows = [c \in Cells |-> Upserted(old[c], c, chunk)]
            /\ chunk \in SUBSET [cell : Cells, count : Nat] /\ IsFiniteSet(chunk)
        BY <1>3
      <4> HIDE DEF rows
      <4> QED BY ONLY <3>1, <4>1, ChunkRaises
    <3> HIDE DEF rows
    <3> QED BY <3>2 DEF old
  <2>2. /\ mine \in [Cells -> Nat]
        /\ \A c \in Cells : \/ mine[c] = lastPushed[n][c]
                            \/ \E p \in chunk : p.cell = c /\ p.count = mine[c]
    <3> DEFINE was == lastPushed[n]
    <3>1. was \in [Cells -> Nat]
      BY <1>1
    <3>2. /\ mine = [c \in Cells |-> Upserted(was[c], c, chunk)]
          /\ chunk \in SUBSET [cell : Cells, count : Nat] /\ IsFiniteSet(chunk)
      BY <1>3
    <3> HIDE DEF mine, was
    <3>3. /\ mine \in [Cells -> Nat]
          /\ \A c \in Cells : \/ mine[c] = was[c]
                              \/ \E p \in chunk : p.cell = c /\ p.count = mine[c]
      BY ONLY <3>1, <3>2, ChunkRaises
    <3> QED BY <3>3 DEF was
  <2>3. /\ table' = [table EXCEPT ![RegionOf[n]] = rows]
        /\ lastPushed' = lastPushed \/ lastPushed' = [lastPushed EXCEPT ![n] = mine]
    BY <1>3
  <2> HIDE DEF rows, mine
  <2>4. table' \in [Regions -> [Cells -> Nat]] /\ lastPushed' \in [Nodes -> [Cells -> Nat]]
    BY <1>1, <2>1, <2>2, <2>3
  <2>5. ASSUME NEW r \in Regions, NEW c \in Cells
        PROVE  /\ \/ table'[r][c] = table[r][c]
                  \/ /\ r = RegionOf[n]
                     /\ \E p \in pusher[n].pending : p.cell = c /\ p.count = table'[r][c]
               /\ table'[r][c] >= table[r][c]
    <3>1. CASE r = RegionOf[n]
      <4>1. table'[r] = rows
        BY <1>1, <2>3, <3>1
      <4> QED BY <1>3, <2>1, <3>1, <4>1
    <3>2. CASE r # RegionOf[n]
      <4>1. table'[r] = table[r] /\ table[r][c] \in Nat
        BY <1>1, <2>3, <3>2
      <4> QED BY <4>1
    <3> QED BY <3>1, <3>2
  <2>6. ASSUME NEW m \in Nodes, NEW c \in Cells
        PROVE  lastPushed'[m][c] <= table'[RegionOf[m]][c]
    <3>1. /\ lastPushed[m][c] <= table[RegionOf[m]][c] /\ lastPushed[m][c] \in Nat
          /\ table[RegionOf[m]][c] \in Nat /\ table'[RegionOf[m]][c] \in Nat
          /\ table'[RegionOf[m]][c] >= table[RegionOf[m]][c]
      BY <1>1, <2>4, <2>5 DEF LastPushedIsPublished
    <3>2. CASE lastPushed'[m][c] = lastPushed[m][c]
      BY ONLY <3>1, <3>2
    <3>3. CASE lastPushed'[m][c] # lastPushed[m][c]
      <4>1. m = n /\ lastPushed'[n] = mine
        BY <1>1, <2>3, <3>3
      <4>2. PICK p \in chunk : p.cell = c /\ p.count = mine[c]
        BY <2>2, <3>3, <4>1
      <4>3. table'[RegionOf[n]] = rows
        BY <1>1, <2>3
      <4> QED BY <2>1, <4>1, <4>2, <4>3
    <3> QED BY <3>2, <3>3
  <2> QED BY <2>4, <2>5, <2>6 DEF PerCell, LastPushedIsPublished
<1> QED
  BY <1>2, <1>3, PushWrites

----------------------------------------------------------------------------
\* The pull goroutine

\* The sum over some regions' rows.
LEMMA TotalType ==
    ASSUME NEW counts \in [Regions -> [Cells -> Nat]], NEW S \in SUBSET Regions, NEW c \in Cells
    PROVE  Total(counts, S, c) \in Nat
<1> DEFINE f == [r \in S |-> counts[r][c]]
<1>1. \A r \in S : f[r] \in Nat
  OBVIOUS
<1>2. IsFiniteSet(S)
  BY FiniteAssumption, FS_Subset
<1> HIDE DEF f
<1>3. SumFunctionOnSet(f, S) \in Nat
  BY <1>1, <1>2, SumNat
<1> QED
  BY <1>3 DEF Total, f

\* A sum over regions is an integer.
LEMMA TotalInt ==
    ASSUME NEW counts \in [Regions -> [Cells -> Int]], NEW S \in SUBSET Regions, NEW c \in Cells
    PROVE  Total(counts, S, c) \in Int
<1> DEFINE f == [r \in S |-> counts[r][c]]
<1>1. \A r \in S : f[r] \in Int
  OBVIOUS
<1>2. IsFiniteSet(S)
  BY FiniteAssumption, FS_Subset
<1> HIDE DEF f
<1>3. SumFunctionOnSet(f, S) \in Int
  BY <1>1, <1>2, SumType
<1> QED
  BY <1>3 DEF Total, f

\* A sum over regions is monotone.
LEMMA TotalLeq ==
    ASSUME NEW low \in [Regions -> [Cells -> Int]], NEW high \in [Regions -> [Cells -> Int]],
           NEW S \in SUBSET Regions, NEW c \in Cells, \A r \in S : low[r][c] <= high[r][c]
    PROVE  Total(low, S, c) <= Total(high, S, c)
<1> DEFINE f == [r \in S |-> low[r][c]]
           g == [r \in S |-> high[r][c]]
<1>1. \A r \in S : f[r] \in Int /\ g[r] \in Int /\ f[r] <= g[r]
  OBVIOUS
<1>2. IsFiniteSet(S)
  BY FiniteAssumption, FS_Subset
<1> HIDE DEF f, g
<1>3. SumFunctionOnSet(f, S) <= SumFunctionOnSet(g, S)
  BY <1>1, <1>2, SumLeq
<1> QED
  BY <1>3 DEF Total, f, g

\* What a query puts aside to apply.
LEMMA QueryPulls ==
    ASSUME GlobalTypeOK, NEW n \in Nodes, PullQuery(n)
    PROVE  /\ pulled' \in PerCell([regional : Nat, imported : Nat])
           /\ \A m \in Nodes \ {n} : pulled'[m] = pulled[m]
           /\ \A c \in Cells : /\ pulled'[n][c].regional = table[RegionOf[n]][c]
                               /\ pulled'[n][c].imported = Total(table, Others(n), c)
<1> DEFINE rows == [c \in Cells |-> [regional |-> table[RegionOf[n]][c],
                                     imported |-> Total(table, Others(n), c)]]
<1>1. /\ pulled \in [Nodes -> [Cells -> [regional : Nat, imported : Nat]]]
      /\ table \in [Regions -> [Cells -> Nat]] /\ RegionOf[n] \in Regions
      /\ Others(n) \in SUBSET Regions
  BY TopologyAssumption DEF GlobalTypeOK, PerCell, Others
<1>2. \A c \in Cells : table[RegionOf[n]][c] \in Nat /\ Total(table, Others(n), c) \in Nat
  BY <1>1, TotalType
<1>3. rows \in [Cells -> [regional : Nat, imported : Nat]]
  BY <1>2
<1>4. \A c \in Cells : /\ rows[c].regional = table[RegionOf[n]][c]
                       /\ rows[c].imported = Total(table, Others(n), c)
  OBVIOUS
<1>5. pulled' = [pulled EXCEPT ![n] = rows]
  BY DEF PullQuery
<1> HIDE DEF rows
<1>6. /\ pulled' \in [Nodes -> [Cells -> [regional : Nat, imported : Nat]]]
      /\ pulled'[n] = rows /\ \A m \in Nodes \ {n} : pulled'[m] = pulled[m]
  BY <1>1, <1>3, <1>5
<1> QED
  BY <1>4, <1>6 DEF PerCell

----------------------------------------------------------------------------
\* lastPushed is published

\* A push raises the row before lastPushed, however it fails.
LEMMA PushKeeps ==
    ASSUME TypeOK, GlobalTypeOK, PushesStand, LastPushedIsPublished, NEW n \in Nodes, PushStep(n)
    PROVE  GlobalTypeOK' /\ PushesStand' /\ LastPushedIsPublished' /\ pulled' = pulled
<1>1. /\ table' \in [Regions -> [Cells -> Nat]] /\ lastPushed' \in PerCell(Nat)
      /\ LastPushedIsPublished'
  BY PushRaises
<1>2. PICK rec \in Pushers : /\ pusher' = [pusher EXCEPT ![n] = rec] /\ PusherMoves(n, rec)
                             /\ IsFiniteSet(rec.pending)
  BY PushMoves
<1>3. rec.pc = "subtract" => rec.cell \in Cells
  BY <1>2 DEF PusherMoves
<1>4. pusher' \in [Nodes -> Pushers] /\ PushesStand'
  BY <1>2, <1>3, OnePusher
<1>5. pulled' = pulled
  BY DEF PushStep, PushTick, PushLoadSpeculative, PushDone, PushFails, PushChunk, PushLoadVal
<1> QED
  BY <1>1, <1>4, <1>5 DEF GlobalTypeOK

\* A restart empties what the node's push and pull goroutines had.
LEMMA RestartClears ==
    ASSUME GlobalTypeOK, PushesStand, LastPushedIsPublished, NEW n \in Nodes, GlobalRestart(n)
    PROVE  /\ GlobalTypeOK' /\ PushesStand' /\ LastPushedIsPublished' /\ table' = table
           /\ pusher'[n] = IdlePusher /\ \A m \in Nodes \ {n} : pusher'[m] = pusher[m]
           /\ \A c \in Cells : pulled'[n][c].regional = 0 /\ pulled'[n][c].imported = 0
           /\ \A m \in Nodes \ {n} : pulled'[m] = pulled[m]
<1>1. /\ lastPushed' = [lastPushed EXCEPT ![n] = [c \in Cells |-> 0]]
      /\ pusher' = [pusher EXCEPT ![n] = IdlePusher]
      /\ pulled' = [pulled EXCEPT ![n] = [c \in Cells |-> NoRow]]
      /\ table' = table
  BY DEF GlobalRestart
<1>2. /\ pulled \in [Nodes -> [Cells -> [regional : Nat, imported : Nat]]]
      /\ lastPushed \in [Nodes -> [Cells -> Nat]] /\ table \in [Regions -> [Cells -> Nat]]
      /\ \A m \in Nodes : RegionOf[m] \in Regions
  BY TopologyAssumption DEF GlobalTypeOK, PerCell
<1>3. /\ pusher' \in [Nodes -> Pushers] /\ PushesStand' /\ pusher'[n] = IdlePusher
      /\ \A m \in Nodes \ {n} : pusher'[m] = pusher[m]
  BY <1>1, IdlePusherType, OnePusher
<1>4. NoRow \in [regional : Nat, imported : Nat] /\ NoRow.regional = 0 /\ NoRow.imported = 0
  BY DEF NoRow
<1>5. /\ pulled' \in [Nodes -> [Cells -> [regional : Nat, imported : Nat]]]
      /\ \A c \in Cells : pulled'[n][c] = NoRow
      /\ \A m \in Nodes \ {n} : pulled'[m] = pulled[m]
  BY <1>1, <1>2, <1>4
<1>6. lastPushed' \in [Nodes -> [Cells -> Nat]]
  BY <1>1, <1>2
<1>7. ASSUME NEW m \in Nodes, NEW c \in Cells
      PROVE  lastPushed'[m][c] <= table'[RegionOf[m]][c]
  <2>1. lastPushed[m][c] <= table[RegionOf[m]][c] /\ table[RegionOf[m]][c] \in Nat
    BY <1>2 DEF LastPushedIsPublished
  <2>2. lastPushed'[m][c] \in {0, lastPushed[m][c]}
    BY <1>1, <1>2
  <2> QED BY <1>1, <2>1, <2>2
<1> QED
  BY <1>1, <1>3, <1>4, <1>5, <1>6, <1>7 DEF GlobalTypeOK, PerCell, LastPushedIsPublished

\* Steps that touch neither the table nor a pusher keep what is published.
LEMMA GlobalsSame ==
    ASSUME GlobalTypeOK, PushesStand, LastPushedIsPublished, UNCHANGED <<table, lastPushed, pusher>>,
           pulled' \in PerCell([regional : Nat, imported : Nat])
    PROVE  GlobalTypeOK' /\ PushesStand' /\ LastPushedIsPublished'
BY DEF GlobalTypeOK, PushesStand, LastPushedIsPublished

\* What is published is preserved by every step.
LEMMA PublishStep == PublishInv /\ [GlobalNext]_allVars => PublishInv'
<1> SUFFICES ASSUME PublishInv, [GlobalNext]_allVars
             PROVE  PublishInv'
  OBVIOUS
<1>1. SharedInv /\ GlobalTypeOK /\ PushesStand /\ LastPushedIsPublished /\ TypeOK
  BY DEF PublishInv, SharedInv, FlowInv, ShareInv, IndInv
<1>2. SharedInv'
  BY <1>1, SharedStep
<1>3. GlobalTypeOK' /\ PushesStand' /\ LastPushedIsPublished'
  <2>1. CASE UNCHANGED globalVars
    BY <1>1, <2>1, GlobalsSame DEF globalVars, GlobalTypeOK
  <2>2. ASSUME NEW n \in Nodes, GlobalRestart(n)
        PROVE  GlobalTypeOK' /\ PushesStand' /\ LastPushedIsPublished'
    BY <1>1, <2>2, RestartClears
  <2>3. ASSUME NEW n \in Nodes, PushStep(n)
        PROVE  GlobalTypeOK' /\ PushesStand' /\ LastPushedIsPublished'
    BY <1>1, <2>3, PushKeeps
  <2>4. ASSUME NEW n \in Nodes, PullQuery(n)
        PROVE  GlobalTypeOK' /\ PushesStand' /\ LastPushedIsPublished'
    BY <1>1, <2>4, QueryPulls, GlobalsSame DEF PullQuery
  <2>5. ASSUME NEW n \in Nodes, PullStep(n)
        PROVE  GlobalTypeOK' /\ PushesStand' /\ LastPushedIsPublished'
    BY <1>1, <2>5, PullEffect, PullLeaves, GlobalsSame
  <2> QED BY <2>1, <2>2, <2>3, <2>4, <2>5, GlobalSteps
<1> QED
  BY <1>2, <1>3 DEF PublishInv

\* Nothing is published initially.
LEMMA PublishInit == GlobalInit => PublishInv
<1> SUFFICES ASSUME GlobalInit
             PROVE  PublishInv
  OBVIOUS
<1>1. SharedInv
  BY FlowInit, RoomInit, GateInit DEF GlobalInit, SharedInv
<1>2. NoRow \in [regional : Nat, imported : Nat]
  BY DEF NoRow
<1>3. GlobalTypeOK
  BY <1>2, IdlePusherType DEF GlobalInit, GlobalTypeOK, PerCell, Atomics
<1>4. PushesStand
  BY IdlePusherType DEF GlobalInit, PushesStand
<1>5. LastPushedIsPublished
  <2>1. \A n \in Nodes : RegionOf[n] \in Regions
    BY TopologyAssumption
  <2> QED BY <2>1 DEF GlobalInit, LastPushedIsPublished, Atomics
<1> QED
  BY <1>1, <1>3, <1>4, <1>5 DEF PublishInv

\* No node ever believes to have published more than its region's row holds, however
\* the chunks of its nodes overlap, writes fail, answers are lost and pods restart.
THEOREM PushesArePublished == GlobalSpec => []LastPushedIsPublished
<1>1. PublishInv => LastPushedIsPublished
  BY DEF PublishInv
<1> QED
  BY <1>1, PublishInit, PublishStep, PTL DEF GlobalSpec

\* Sharing counts with other regions keeps what the request path promises: every variable
\* keeps its type, no admission is forgotten, speculative covers what may be rolled back,
\* a process stays within the limit, every admitted unit is accounted for and every gate
\* has an owner. An import may raise val at any moment and breaks none of this.
THEOREM SharingKeepsTheCounts ==
    GlobalSpec => [](/\ TypeOK /\ OwnCommitsCounted /\ SpeculativeCoversInflight
                     /\ NodeAdmissionBound /\ OriginConservation /\ GateHasOwner)
<1>1. PublishInv => FlowInv /\ RoomInv /\ GateInv /\ ShareInv /\ IndInv
  BY DEF PublishInv, SharedInv, FlowInv, ShareInv
<1>2. ShareInv => SpeculativeCoversInflight
  BY HeldIsAnnounced
<1>3. IndInv => TypeOK /\ OwnCommitsCounted
  BY DEF IndInv
<1>4. PublishInv => /\ TypeOK /\ OwnCommitsCounted /\ SpeculativeCoversInflight
                    /\ NodeAdmissionBound /\ OriginConservation /\ GateHasOwner
  BY <1>1, <1>2, <1>3, FlowConserves, RoomBounds, GateOwners
<1> QED
  BY <1>4, PublishInit, PublishStep, PTL DEF GlobalSpec

----------------------------------------------------------------------------
\* Without batches: what is shared was admitted

\* Without batches nothing is in flight and nothing speculative.
LEMMA AloneIsQuiet ==
    ASSUME SharedInv, AllAlone, NEW n \in Nodes, NEW c \in Cells
    PROVE  inflight[n][c] = 0 /\ speculative[n][c] = 0
<1>1. ShareInv /\ call \in [Calls -> CallRecords] /\ "held" \in Kinds /\ "announced" \in Kinds
      /\ Calls \in SUBSET Calls
  BY DEF SharedInv, FlowInv, ShareInv, IndInv, TypeOK, Kinds
<1>2. \A g \in Calls : Quiet(call[g]) /\ call[g] \in CallRecords
  BY <1>1 DEF AllAlone, Alone, Deciding, Quiet, CallStates
<1>3. \A g \in Calls : Share("held", call[g], {n}, c) = 0 /\ Share("announced", call[g], {n}, c) = 0
  BY <1>1, <1>2, QuietShare
<1>4. Shares("held", call, Calls, {n}, c) = 0 /\ Shares("announced", call, Calls, {n}, c) = 0
  BY <1>1, <1>3, NoShares
<1> QED
  BY <1>1, <1>4 DEF ShareInv, HeldIsInflight, AnnouncedIsSpeculative

\* A goroutine that serves one request stays one that does.
LEMMA AloneMoves ==
    ASSUME IndInv, AllAlone, NEW g \in Calls, QuietStep(g)
    PROVE  Alone(call'[g])
<1>1. call \in [Calls -> CallRecords] /\ call[g] \in CallRecords /\ Alone(call[g]) /\ Batches = {}
  BY DEF IndInv, TypeOK, AllAlone
<1>2. ASSUME NEW pc, NEW got, call' = [call EXCEPT ![g].pc = pc, ![g].got = got]
      PROVE  call'[g].pc = pc /\ call'[g].kind = call[g].kind
  BY <1>1, <1>2 DEF CallRecords
<1>3. ASSUME NEW pc, call' = [call EXCEPT ![g].pc = pc]
      PROVE  call'[g].pc = pc /\ call'[g].kind = call[g].kind
  BY <1>1, <1>3 DEF CallRecords
<1>4. ASSUME At(g) \in Deciding, call'[g].kind = call[g].kind,
             call'[g].pc \in Deciding \cup {"allowed", "denied"}
      PROVE  Alone(call'[g])
  BY <1>1, <1>4 DEF Alone, Deciding, At
<1>5. CASE FetchCold(g) \/ FetchStale(g) \/ FetchStrict(g)
  <2>1. \E pc \in {"coldMerge", "staleMerge", "strictMerge"}, got \in FetchResults(NodeOf(g), CellOf(g)) :
           call' = [call EXCEPT ![g].pc = pc, ![g].got = got]
    BY <1>5 DEF FetchCold, FetchStale, FetchStrict
  <2>2. At(g) \in Deciding
    BY <1>5 DEF FetchCold, FetchStale, FetchStrict, Deciding
  <2>3. call'[g].pc \in Deciding /\ call'[g].kind = call[g].kind
    BY <1>2, <2>1 DEF Deciding
  <2> QED BY <1>4, <2>2, <2>3
<1>6. CASE StillFresh(g) \/ MergeFetched(g)
  <2>1. call' = [call EXCEPT ![g].pc = "strict"] /\ At(g) \in Deciding
    BY <1>6 DEF StillFresh, MergeFetched, Deciding
  <2>2. call'[g].pc \in Deciding /\ call'[g].kind = call[g].kind
    BY <1>3, <2>1 DEF Deciding
  <2> QED BY <1>4, <2>1, <2>2
<1>7. CASE SkipStrict(g) \/ MergeStrict(g)
  <2>1. call' = [call EXCEPT ![g] = Prepared(g)] /\ At(g) \in Deciding
    BY <1>7 DEF SkipStrict, MergeStrict, Deciding
  <2>2. call[g].kind = "one"
    BY <1>1, <2>1 DEF Alone, Deciding, At
  <2>3. Prepared(g).pc \in {"ensure", "load"} /\ Prepared(g).kind = "one"
    BY <1>1, <2>2 DEF Prepared, CallRecords
  <2>4. call'[g] = Prepared(g)
    BY <1>1, <2>1
  <2> QED BY <2>3, <2>4 DEF Alone, Deciding
<1>8. CASE Load(g)
  <2>1. \/ call' = [call EXCEPT ![g].pc = "denied"]
        \/ call' = [call EXCEPT ![g].pc = "cas", ![g].got = val[NodeOf(g)][CellOf(g)]]
    BY <1>8 DEF Load
  <2>2. At(g) \in Deciding
    BY <1>8 DEF Load, Deciding
  <2>3. call'[g].pc \in {"denied", "cas"} /\ call'[g].kind = call[g].kind
    BY <1>2, <1>3, <2>1
  <2> QED BY <1>4, <2>2, <2>3 DEF Deciding
<1>9. CASE CasWins(g)
  <2>1. call' = [call EXCEPT ![g].pc = "allowed"] /\ At(g) \in Deciding
    BY <1>9 DEF CasWins, Deciding
  <2>2. call'[g].pc = "allowed" /\ call'[g].kind = call[g].kind
    BY <1>3, <2>1
  <2> QED BY <1>4, <2>1, <2>2
<1>10. CASE CasLoses(g)
  <2> DEFINE pc == IF call[g].tries + 1 < MaxCASRetries THEN "load" ELSE "denied"
  <2>1. call' = [call EXCEPT ![g].tries = @ + 1, ![g].pc = pc] /\ At(g) \in Deciding
    BY <1>10 DEF CasLoses, Deciding
  <2>2. pc \in {"load", "denied"}
    OBVIOUS
  <2> HIDE DEF pc
  <2>3. call'[g].pc = pc /\ call'[g].kind = call[g].kind
    BY <1>1, <2>1 DEF CallRecords
  <2> QED BY <1>4, <2>1, <2>2, <2>3 DEF Deciding
<1>11. ASSUME NEW n \in Nodes, Begin(g, n)
       PROVE  Alone(call'[g])
  <2>1. PICK req \in Singles :
           call' = [call EXCEPT ![g] = [IdleCall EXCEPT !.pc = "ensure", !.node = n,
                                         !.kind = "one", !.reqs = <<req>>, !.i = 1]]
    BY <1>1, <1>11 DEF Begin
  <2>2. call'[g] = [IdleCall EXCEPT !.pc = "ensure", !.node = n, !.kind = "one",
                                    !.reqs = <<req>>, !.i = 1]
    BY <1>1, <2>1
  <2>3. call'[g].pc = "ensure" /\ call'[g].kind = "one"
    BY <2>2 DEF IdleCall
  <2> QED BY <2>3 DEF Alone, Deciding
<1> QED
  BY <1>5, <1>6, <1>7, <1>8, <1>9, <1>10, <1>11 DEF QuietStep

\* Without batches no step starts one.
LEMMA AloneStep ==
    ASSUME SharedInv, SharedInv', AllAlone, [Next]_vars
    PROVE  AllAlone'
<1>1. IndInv /\ IndInv' /\ CallsShaped /\ GlobalsCount /\ call \in [Calls -> CallRecords]
  BY DEF SharedInv, FlowInv, ShareInv, IndInv, TypeOK
<1>2. ASSUME NEW g \in Calls
      PROVE  Alone(call[g])
  BY DEF AllAlone
<1>3. ASSUME NEW g \in Calls
      PROVE  ~BatchStep(g)
  BY <1>2 DEF Alone, Deciding, BatchStep, AddSpeculative, AddVal, Evaluate, UndoVal,
              UndoSpeculative, CommitRequest, BufferRequest, At
<1>4. ASSUME NEW h \in Calls
      PROVE  Alone(call'[h])
  <2>1. CASE \E g \in Calls : QuietStep(g) \/ BatchStep(g)
    <3>1. PICK g \in Calls : QuietStep(g)
      BY <1>3, <2>1
    <3>2. \A k \in Calls \ {g} : call'[k] = call[k]
      BY <1>1, <3>1, CallsMove
    <3> QED BY <1>1, <1>2, <3>1, <3>2, AloneMoves
  <2>2. CASE \E n \in Nodes, w \in Workers : ReplayStep(n, w)
    BY <1>2, <2>2, ReplayLeaves
  <2>3. ASSUME NEW n \in Nodes, Restart(n)
        PROVE  Alone(call'[h])
    <3>1. call'[h] = call[h] \/ call'[h] = [call[h] EXCEPT !.pc = "crashed"]
      BY <2>3 DEF Restart
    <3>2. call'[h] = call[h] \/ call'[h].pc = "crashed"
      BY <1>1, <3>1 DEF CallRecords
    <3> QED BY <1>2, <3>2 DEF Alone
  <2>4. CASE UNCHANGED vars
    BY <1>2, <2>4 DEF vars
  <2> QED BY <2>1, <2>2, <2>3, <2>4, Steps DEF Next
<1> QED
  BY <1>4 DEF AllAlone

\* What a region has admitted only grows, imports and pushes included.
LEMMA AdmittedRises ==
    ASSUME SharedInv, SharedInv', [GlobalNext]_allVars
    PROVE  /\ admitted \in [Regions -> [Cells -> Int]] /\ admitted' \in [Regions -> [Cells -> Int]]
           /\ \A r \in Regions, c \in Cells : admitted[r][c] <= admitted'[r][c]
           /\ \A n \in Nodes, c \in Cells :
                 /\ Total(admitted, Others(n), c) \in Int /\ Total(admitted', Others(n), c) \in Int
                 /\ Total(admitted, Others(n), c) <= Total(admitted', Others(n), c)
<1>1. FlowInv /\ admitted \in [Regions -> [Cells -> Int]] /\ admitted' \in [Regions -> [Cells -> Int]]
  BY DEF SharedInv, FlowInv, ShareInv, IndInv, TypeOK
<1>2. ASSUME NEW r \in Regions, NEW c \in Cells
      PROVE  admitted[r][c] <= admitted'[r][c]
  <2>1. CASE [Next]_vars
    <3>1. admitted'[r][c] >= admitted[r][c]
      BY <1>1, <2>1, AdmittedGrows
    <3>2. admitted[r][c] \in Int /\ admitted'[r][c] \in Int
      BY <1>1
    <3> QED BY ONLY <3>1, <3>2
  <2>2. ASSUME NEW n \in Nodes, Restart(n)
        PROVE  [Next]_vars
    BY <2>2 DEF Next
  <2>3. ASSUME NEW n \in Nodes, PullStep(n)
        PROVE  admitted' = admitted
    BY <2>3, PullLeaves
  <2>4. CASE admitted' = admitted
    BY <1>1, <2>4
  <2> QED BY <2>1, <2>2, <2>3, <2>4, GlobalSteps
<1>3. ASSUME NEW n \in Nodes, NEW c \in Cells
      PROVE  /\ Total(admitted, Others(n), c) \in Int /\ Total(admitted', Others(n), c) \in Int
             /\ Total(admitted, Others(n), c) <= Total(admitted', Others(n), c)
  <2>1. Others(n) \in SUBSET Regions /\ \A r \in Others(n) : admitted[r][c] <= admitted'[r][c]
    BY <1>2 DEF Others
  <2>2. Total(admitted, Others(n), c) <= Total(admitted', Others(n), c)
    BY <1>1, <2>1, TotalLeq
  <2>3. Total(admitted, Others(n), c) \in Int /\ Total(admitted', Others(n), c) \in Int
    BY <1>1, <2>1, TotalInt
  <2> QED BY <2>2, <2>3
<1> QED
  BY <1>1, <1>2, <1>3

\* A pusher's counts stay backed while its region admits more.
LEMMA StillBacked ==
    ASSUME NEW p \in Pushers, NEW low \in [Cells -> Int], NEW high \in [Cells -> Int],
           p.pc = "subtract" => p.cell \in Cells, \A c \in Cells : low[c] <= high[c],
           PushBacked(p, low)
    PROVE  PushBacked(p, high)
<1>1. p.loaded \in Int /\ \A row \in p.pending : row.cell \in Cells /\ row.count \in Nat
  BY DEF Pushers
<1>2. p.pc = "subtract" => p.loaded <= high[p.cell]
  BY <1>1 DEF PushBacked
<1>3. ASSUME NEW row \in p.pending
      PROVE  row.count <= high[row.cell]
  <2>1. row.count <= low[row.cell] /\ low[row.cell] <= high[row.cell]
    BY <1>1 DEF PushBacked
  <2>2. row.count \in Int /\ low[row.cell] \in Int /\ high[row.cell] \in Int
    BY <1>1
  <2> QED BY ONLY <2>1, <2>2
<1> QED
  BY <1>2, <1>3 DEF PushBacked

\* A push that reads val and speculative collects no more than was admitted.
LEMMA PushCollects ==
    ASSUME SharingInv, NEW n \in Nodes, PushStep(n)
    PROVE  \A m \in Nodes : PushBacked(pusher'[m], admitted[RegionOf[m]])
<1>1. /\ SharedInv /\ GlobalTypeOK /\ PushesStand /\ TypeOK /\ AllAlone
      /\ PushesBacked /\ NoPhantomCount
  BY DEF SharingInv, PublishInv, SharedInv, FlowInv, ShareInv, IndInv
<1>2. PICK rec \in Pushers : /\ pusher' = [pusher EXCEPT ![n] = rec] /\ PusherMoves(n, rec)
                             /\ IsFiniteSet(rec.pending)
  BY <1>1, PushMoves
<1>3. rec.pc = "subtract" => rec.cell \in Cells
  BY <1>2 DEF PusherMoves
<1>4. pusher'[n] = rec /\ \A m \in Nodes \ {n} : pusher'[m] = pusher[m]
  BY <1>1, <1>2, <1>3, OnePusher
<1>5. PushBacked(pusher[n], admitted[RegionOf[n]])
  BY <1>1 DEF PushesBacked
<1> DEFINE adm == admitted[RegionOf[n]]
<1>6. \A row \in pusher[n].pending : row.count <= adm[row.cell]
  BY <1>5 DEF PushBacked
<1>7. PushBacked(rec, adm)
  <2>1. CASE rec.pc \in {"idle", "scan"} /\ rec.pending = {}
    BY <2>1 DEF PushBacked
  <2>2. CASE /\ rec.pc = "subtract" /\ rec.cell \in Cells /\ rec.loaded = val[n][rec.cell]
             /\ rec.pending = pusher[n].pending
    <3>1. inflight[n][rec.cell] = 0
      BY <1>1, <2>2, AloneIsQuiet
    <3>2. val[n][rec.cell] - inflight[n][rec.cell] <= adm[rec.cell]
      BY <1>1, <2>2 DEF NoPhantomCount
    <3>3. val[n][rec.cell] \in Int
      BY <1>1, <2>2 DEF TypeOK, PerCell
    <3>4. val[n][rec.cell] <= adm[rec.cell]
      BY <3>1, <3>2, <3>3
    <3> HIDE DEF adm
    <3> QED BY <1>6, <2>2, <3>4 DEF PushBacked
  <2>3. CASE rec.pc = "scan" /\ rec.pending \subseteq pusher[n].pending
    <3> HIDE DEF adm
    <3> QED BY <1>6, <2>3 DEF PushBacked
  <2>4. CASE /\ pusher[n].pc = "subtract" /\ rec.pc = "scan"
             /\ LET p == [cell |-> pusher[n].cell,
                          count |-> pusher[n].loaded - speculative[n][pusher[n].cell]]
                IN p.count > 0 /\ rec.pending = pusher[n].pending \cup {p}
    <3> DEFINE d == pusher[n].cell
               p == [cell |-> d, count |-> pusher[n].loaded - speculative[n][d]]
    <3>1. d \in Cells /\ pusher[n].loaded \in Int
      BY <1>1, <2>4 DEF PushesStand, GlobalTypeOK, Pushers
    <3>2. pusher[n].loaded <= adm[d]
      BY <1>5, <2>4 DEF PushBacked
    <3>3. speculative[n][d] = 0
      BY <1>1, <3>1, AloneIsQuiet
    <3>4. p.cell = d /\ p.count = pusher[n].loaded
      BY <3>1, <3>3
    <3>5. rec.pending = pusher[n].pending \cup {p}
      BY <2>4
    <3> HIDE DEF adm, p
    <3> QED BY <1>6, <2>4, <3>2, <3>4, <3>5 DEF PushBacked
  <2> QED
    BY <1>2, <2>1, <2>2, <2>3, <2>4 DEF PusherMoves
<1> QED
  BY <1>1, <1>4, <1>7 DEF PushesBacked

\* What a push has loaded was admitted, in every step.
LEMMA PushesBackedStep ==
    ASSUME SharingInv, PublishInv', [GlobalNext]_allVars
    PROVE  PushesBacked'
<1>1. /\ SharedInv /\ SharedInv' /\ GlobalTypeOK /\ PushesStand /\ LastPushedIsPublished
      /\ PushesBacked /\ GlobalTypeOK' /\ PushesStand'
  BY DEF SharingInv, PublishInv
<1>2. /\ admitted \in [Regions -> [Cells -> Int]] /\ admitted' \in [Regions -> [Cells -> Int]]
      /\ \A r \in Regions, c \in Cells : admitted[r][c] <= admitted'[r][c]
  BY <1>1, AdmittedRises
<1>3. ASSUME NEW m \in Nodes, PushBacked(pusher'[m], admitted[RegionOf[m]])
      PROVE  PushBacked(pusher'[m], admitted'[RegionOf[m]])
  <2>1. RegionOf[m] \in Regions
    BY TopologyAssumption
  <2>2. /\ admitted[RegionOf[m]] \in [Cells -> Int] /\ admitted'[RegionOf[m]] \in [Cells -> Int]
        /\ \A c \in Cells : admitted[RegionOf[m]][c] <= admitted'[RegionOf[m]][c]
    BY <1>2, <2>1
  <2>3. pusher'[m] \in Pushers /\ (pusher'[m].pc = "subtract" => pusher'[m].cell \in Cells)
    BY <1>1 DEF GlobalTypeOK, PushesStand
  <2> QED BY <1>3, <2>2, <2>3, StillBacked
<1>4. \A m \in Nodes : PushBacked(pusher[m], admitted[RegionOf[m]])
  BY <1>1 DEF PushesBacked
<1>5. ASSUME NEW m \in Nodes
      PROVE  PushBacked(pusher'[m], admitted[RegionOf[m]])
  <2>1. CASE pusher' = pusher
    BY <1>4, <2>1
  <2>2. ASSUME NEW n \in Nodes, GlobalRestart(n)
        PROVE  PushBacked(pusher'[m], admitted[RegionOf[m]])
    <3>1. pusher'[n] = IdlePusher /\ \A k \in Nodes \ {n} : pusher'[k] = pusher[k]
      BY <1>1, <2>2, RestartClears
    <3>2. PushBacked(IdlePusher, admitted[RegionOf[m]])
      BY IdlePusherType DEF PushBacked
    <3> QED BY <1>4, <3>1, <3>2
  <2>3. ASSUME NEW n \in Nodes, PushStep(n)
        PROVE  PushBacked(pusher'[m], admitted[RegionOf[m]])
    BY <2>3, PushCollects
  <2>4. ASSUME NEW n \in Nodes, PullStep(n) \/ PullQuery(n)
        PROVE  pusher' = pusher
    BY <2>4, PullLeaves DEF PullQuery
  <2>5. CASE UNCHANGED globalVars
    BY <2>1, <2>5 DEF globalVars
  <2> QED BY <2>1, <2>2, <2>3, <2>4, <2>5, GlobalSteps
<1> QED
  BY <1>3, <1>5 DEF PushesBacked

\* The rows stay backed: a push writes counts that are.
LEMMA RowsBackedStep ==
    ASSUME SharingInv, PublishInv', [GlobalNext]_allVars
    PROVE  RowsBackedByAdmissions'
<1>1. /\ SharedInv /\ SharedInv' /\ GlobalTypeOK /\ PushesStand /\ LastPushedIsPublished
      /\ PushesBacked /\ RowsBackedByAdmissions /\ GlobalTypeOK'
  BY DEF SharingInv, PublishInv
<1>2. /\ admitted \in [Regions -> [Cells -> Int]] /\ admitted' \in [Regions -> [Cells -> Int]]
      /\ \A r \in Regions, c \in Cells : admitted[r][c] <= admitted'[r][c]
  BY <1>1, AdmittedRises
<1>3. ASSUME NEW r \in Regions, NEW c \in Cells
      PROVE  table'[r][c] <= admitted[r][c]
  <2>1. CASE table' = table
    BY <1>1, <2>1 DEF RowsBackedByAdmissions
  <2>2. ASSUME NEW n \in Nodes, PushStep(n)
        PROVE  table'[r][c] <= admitted[r][c]
    <3>1. \/ table'[r][c] = table[r][c]
          \/ /\ r = RegionOf[n]
             /\ \E p \in pusher[n].pending : p.cell = c /\ p.count = table'[r][c]
      BY <1>1, <2>2, PushRaises
    <3>2. PushBacked(pusher[n], admitted[RegionOf[n]])
      BY <1>1 DEF PushesBacked
    <3>3. table[r][c] <= admitted[r][c]
      BY <1>1 DEF RowsBackedByAdmissions
    <3>4. \A p \in pusher[n].pending : p.count <= admitted[RegionOf[n]][p.cell]
      BY <3>2 DEF PushBacked
    <3> QED BY ONLY <3>1, <3>3, <3>4
  <2>3. ASSUME NEW n \in Nodes, GlobalRestart(n) \/ PullStep(n) \/ PullQuery(n)
        PROVE  table' = table
    BY <2>3, PullLeaves DEF PullQuery, GlobalRestart
  <2>4. CASE UNCHANGED globalVars
    BY <2>1, <2>4 DEF globalVars
  <2> QED BY <2>1, <2>2, <2>3, <2>4, GlobalSteps
<1>4. ASSUME NEW r \in Regions, NEW c \in Cells
      PROVE  table'[r][c] <= admitted'[r][c]
  <2>1. table'[r][c] <= admitted[r][c] /\ admitted[r][c] <= admitted'[r][c]
    BY <1>2, <1>3
  <2>2. table'[r][c] \in Nat /\ admitted[r][c] \in Int /\ admitted'[r][c] \in Int
    BY <1>1, <1>2 DEF GlobalTypeOK
  <2> QED BY ONLY <2>1, <2>2
<1> QED
  BY <1>4 DEF RowsBackedByAdmissions

\* What was queried stays backed: the snapshot held backed rows.
LEMMA PullsBackedStep ==
    ASSUME SharingInv, PublishInv', [GlobalNext]_allVars
    PROVE  PullsBacked'
<1>1. /\ SharedInv /\ SharedInv' /\ GlobalTypeOK /\ PushesStand /\ LastPushedIsPublished
      /\ PullsBacked /\ RowsBackedByAdmissions /\ GlobalTypeOK' /\ TypeOK /\ Backed
  BY DEF SharingInv, PublishInv, SharedInv, FlowInv, ShareInv, IndInv
<1>2. /\ admitted \in [Regions -> [Cells -> Int]] /\ admitted' \in [Regions -> [Cells -> Int]]
      /\ \A r \in Regions, c \in Cells : admitted[r][c] <= admitted'[r][c]
      /\ \A n \in Nodes, c \in Cells :
            /\ Total(admitted, Others(n), c) \in Int /\ Total(admitted', Others(n), c) \in Int
            /\ Total(admitted, Others(n), c) <= Total(admitted', Others(n), c)
  BY <1>1, AdmittedRises
<1>3. ASSUME NEW n \in Nodes, NEW c \in Cells
      PROVE  /\ admitted[RegionOf[n]][c] >= 0 /\ admitted[RegionOf[n]][c] \in Int
             /\ Total(admitted, Others(n), c) >= 0
             /\ table[RegionOf[n]][c] <= admitted[RegionOf[n]][c]
             /\ Total(table, Others(n), c) <= Total(admitted, Others(n), c)
  <2>1. RegionOf[n] \in Regions /\ Others(n) \in SUBSET Regions
    BY TopologyAssumption DEF Others
  <2>2. admitted[RegionOf[n]][c] >= 0 /\ admitted[RegionOf[n]][c] \in Int
        /\ table[RegionOf[n]][c] <= admitted[RegionOf[n]][c]
    BY <1>1, <1>2, <2>1 DEF Backed, RowsBackedByAdmissions
  <2>3. table \in [Regions -> [Cells -> Nat]] /\ table \in [Regions -> [Cells -> Int]]
    <3>1. table \in [Regions -> [Cells -> Nat]]
      BY <1>1 DEF GlobalTypeOK
    <3> QED BY <3>1
  <2>4. \A r \in Others(n) : table[r][c] <= admitted[r][c]
    BY <1>1, <2>1 DEF RowsBackedByAdmissions
  <2>5. Total(table, Others(n), c) <= Total(admitted, Others(n), c)
    BY <1>2, <2>1, <2>3, <2>4, TotalLeq
  <2>6. Total(table, Others(n), c) \in Nat
    BY <2>1, <2>3, TotalType
  <2>7. Total(admitted, Others(n), c) >= 0
    BY <1>2, <2>5, <2>6
  <2> QED BY <2>2, <2>5, <2>7
<1>4. ASSUME NEW m \in Nodes, NEW c \in Cells
      PROVE  /\ pulled[m][c].regional <= admitted[RegionOf[m]][c]
             /\ pulled[m][c].imported <= Total(admitted, Others(m), c)
  BY <1>1 DEF PullsBacked
<1>5. ASSUME NEW m \in Nodes, NEW c \in Cells
      PROVE  /\ pulled'[m][c].regional <= admitted[RegionOf[m]][c]
             /\ pulled'[m][c].imported <= Total(admitted, Others(m), c)
  <2>1. CASE pulled' = pulled
    BY <1>4, <2>1
  <2>2. ASSUME /\ pulled'[m][c].regional \in {0, pulled[m][c].regional}
               /\ pulled'[m][c].imported \in {0, pulled[m][c].imported}
        PROVE  /\ pulled'[m][c].regional <= admitted[RegionOf[m]][c]
               /\ pulled'[m][c].imported <= Total(admitted, Others(m), c)
    <3>1. /\ admitted[RegionOf[m]][c] >= 0 /\ admitted[RegionOf[m]][c] \in Int
          /\ Total(admitted, Others(m), c) >= 0 /\ Total(admitted, Others(m), c) \in Int
      BY <1>2, <1>3
    <3> QED BY <1>4, <2>2, <3>1
  <2>3. ASSUME NEW n \in Nodes, GlobalRestart(n)
        PROVE  /\ pulled'[m][c].regional \in {0, pulled[m][c].regional}
               /\ pulled'[m][c].imported \in {0, pulled[m][c].imported}
    BY <1>1, <2>3, RestartClears
  <2>4. ASSUME NEW n \in Nodes, PushStep(n)
        PROVE  pulled' = pulled
    BY <1>1, <2>4, PushKeeps
  <2>5. ASSUME NEW n \in Nodes, PullStep(n)
        PROVE  /\ pulled'[m][c].regional \in {0, pulled[m][c].regional}
               /\ pulled'[m][c].imported \in {0, pulled[m][c].imported}
    BY <1>1, <2>5, PullEffect
  <2>6. ASSUME NEW n \in Nodes, PullQuery(n)
        PROVE  /\ pulled'[m][c].regional <= admitted[RegionOf[m]][c]
               /\ pulled'[m][c].imported <= Total(admitted, Others(m), c)
    <3>1. /\ \A k \in Nodes \ {n} : pulled'[k] = pulled[k]
          /\ \A d \in Cells : /\ pulled'[n][d].regional = table[RegionOf[n]][d]
                              /\ pulled'[n][d].imported = Total(table, Others(n), d)
      BY <1>1, <2>6, QueryPulls
    <3>2. CASE m = n
      BY <1>3, <3>1, <3>2
    <3>3. CASE m # n
      BY <1>4, <3>1, <3>3
    <3> QED BY <3>2, <3>3
  <2>7. CASE UNCHANGED globalVars
    BY <2>1, <2>7 DEF globalVars
  <2> QED BY <2>1, <2>2, <2>3, <2>4, <2>5, <2>6, <2>7, GlobalSteps
<1>6. ASSUME NEW m \in Nodes, NEW c \in Cells
      PROVE  /\ pulled'[m][c].regional <= admitted'[RegionOf[m]][c]
             /\ pulled'[m][c].imported <= Total(admitted', Others(m), c)
  <2>1. RegionOf[m] \in Regions
    BY TopologyAssumption
  <2>2. pulled'[m][c].regional \in Nat /\ pulled'[m][c].imported \in Nat
    BY <1>1 DEF GlobalTypeOK, PerCell
  <2>3. /\ admitted[RegionOf[m]][c] \in Int /\ admitted'[RegionOf[m]][c] \in Int
        /\ admitted[RegionOf[m]][c] <= admitted'[RegionOf[m]][c]
    BY <1>2, <2>1
  <2>4. /\ pulled'[m][c].regional <= admitted[RegionOf[m]][c]
        /\ pulled'[m][c].imported <= Total(admitted, Others(m), c)
    BY <1>5
  <2>5. /\ Total(admitted, Others(m), c) \in Int /\ Total(admitted', Others(m), c) \in Int
        /\ Total(admitted, Others(m), c) <= Total(admitted', Others(m), c)
    BY <1>2
  <2>6. pulled'[m][c].regional <= admitted'[RegionOf[m]][c]
    BY ONLY <2>2, <2>3, <2>4
  <2>7. pulled'[m][c].imported <= Total(admitted', Others(m), c)
    BY ONLY <2>2, <2>4, <2>5
  <2> QED BY <2>6, <2>7
<1> QED
  BY <1>6 DEF PullsBacked, Others, Total

\* Requests and replays leave globalCount alone.
LEMMA GlobalCountKept ==
    ASSUME RequestNext
    PROVE  globalCount' = globalCount
<1>1. ASSUME NEW g \in Calls, CallStep(g) \/ \E n \in Nodes : Begin(g, n)
      PROVE  globalCount' = globalCount
  BY <1>1 DEF CallStep, Begin, FetchCold, FetchStale, StillFresh, MergeFetched, SkipStrict,
              FetchStrict, MergeStrict, Load, CasWins, CasLoses, AddSpeculative, AddVal, Evaluate,
              UndoVal, UndoSpeculative, CommitRequest, BufferRequest
<1> QED
  BY <1>1, ReplayLeaves DEF RequestNext

\* What a node counts for other regions stays backed: only an applied pull raises it.
LEMMA NoFeedbackStep ==
    ASSUME SharingInv, PublishInv', [GlobalNext]_allVars
    PROVE  NoFeedback'
<1>1. /\ SharedInv /\ SharedInv' /\ GlobalTypeOK /\ PullsBacked /\ NoFeedback /\ TypeOK /\ TypeOK'
      /\ PushesStand /\ LastPushedIsPublished /\ Backed
  BY DEF SharingInv, PublishInv, SharedInv, FlowInv, ShareInv, IndInv
<1>2. \A n \in Nodes, c \in Cells :
         /\ Total(admitted, Others(n), c) \in Int /\ Total(admitted', Others(n), c) \in Int
         /\ Total(admitted, Others(n), c) <= Total(admitted', Others(n), c)
  BY <1>1, AdmittedRises
<1>3. ASSUME NEW n \in Nodes, NEW c \in Cells
      PROVE  /\ globalCount[n][c] <= Total(admitted, Others(n), c)
             /\ pulled[n][c].imported <= Total(admitted, Others(n), c)
             /\ 0 <= Total(admitted, Others(n), c)
  <2>1. /\ globalCount[n][c] <= Total(admitted, Others(n), c)
        /\ pulled[n][c].imported <= Total(admitted, Others(n), c)
    BY <1>1 DEF NoFeedback, PullsBacked
  <2>2. pulled[n][c].imported \in Nat
    BY <1>1 DEF GlobalTypeOK, PerCell
  <2> QED BY <1>2, <2>1, <2>2
<1>4. ASSUME NEW n \in Nodes, NEW c \in Cells
      PROVE  globalCount'[n][c] <= Total(admitted, Others(n), c)
  <2>1. CASE globalCount' = globalCount
    BY <1>3, <2>1
  <2>2. CASE [Next]_vars
    <3>1. ASSUME NEW m \in Nodes, Restart(m)
          PROVE  globalCount'[n][c] \in {0, globalCount[n][c]}
      <4>1. globalCount' = [globalCount EXCEPT ![m] = [d \in Cells |-> 0]]
        BY <3>1 DEF Restart
      <4>2. globalCount \in [Nodes -> [Cells -> Int]]
        BY <1>1 DEF TypeOK, PerCell
      <4> QED BY <4>1, <4>2
    <3>2. CASE UNCHANGED vars
      BY <2>1, <3>2 DEF vars
    <3> QED BY <1>3, <2>1, <2>2, <3>1, <3>2, GlobalCountKept DEF Next
  <2>3. ASSUME NEW m \in Nodes, PullStep(m)
        PROVE  globalCount'[n][c] \in {pulled[n][c].imported, globalCount[n][c]}
    BY <1>1, <2>3, PullEffect
  <2>4. ASSUME NEW m \in Nodes, Restart(m)
        PROVE  [Next]_vars
    BY <2>4 DEF Next
  <2>5. CASE UNCHANGED vars
    BY <2>1, <2>5 DEF vars
  <2> QED BY <1>3, <2>2, <2>3, <2>4, <2>5, GlobalSteps
<1>5. ASSUME NEW n \in Nodes, NEW c \in Cells
      PROVE  globalCount'[n][c] <= Total(admitted', Others(n), c)
  <2>1. globalCount'[n][c] \in Int
    BY <1>1 DEF TypeOK, PerCell
  <2>2. /\ Total(admitted, Others(n), c) \in Int /\ Total(admitted', Others(n), c) \in Int
        /\ Total(admitted, Others(n), c) <= Total(admitted', Others(n), c)
        /\ globalCount'[n][c] <= Total(admitted, Others(n), c)
    BY <1>2, <1>4
  <2> QED BY ONLY <2>1, <2>2
<1> QED
  BY <1>5 DEF NoFeedback, Others, Total

\* val stays backed: an import is of the region's own row.
LEMMA PhantomShared ==
    ASSUME SharingInv, PublishInv', [GlobalNext]_allVars
    PROVE  Backed' /\ NoPhantomCount'
<1>1. /\ SharedInv /\ SharedInv' /\ GlobalTypeOK /\ PullsBacked /\ TypeOK /\ TypeOK'
      /\ PhantomInv /\ AllAlone /\ Backed /\ NoPhantomCount
  BY DEF SharingInv, PublishInv, SharedInv, FlowInv, ShareInv, IndInv, PhantomInv
<1>2. ASSUME [Next]_vars
      PROVE  Backed' /\ NoPhantomCount'
  BY <1>1, <1>2, PhantomStep DEF PhantomInv
<1>3. ASSUME NEW m \in Nodes, Restart(m)
      PROVE  [Next]_vars
  BY <1>3 DEF Next
<1>4. ASSUME NEW m \in Nodes, PullStep(m)
      PROVE  Backed' /\ NoPhantomCount'
  <2>1. UNCHANGED <<call, ack, admitted, inflight>>
    BY <1>4, PullLeaves
  <2>2. Backed'
    BY <1>1, <2>1 DEF Backed, At, NodeOf, CellOf, Req
  <2>3. ASSUME NEW n \in Nodes, NEW c \in Cells
        PROVE  val'[n][c] - inflight'[n][c] <= admitted'[RegionOf[n]][c]
    <3>1. val'[n][c] \in {val[n][c], pulled[n][c].regional}
      BY <1>1, <1>4, PullEffect
    <3>2. /\ inflight[n][c] = 0 /\ inflight'[n][c] = inflight[n][c]
          /\ admitted'[RegionOf[n]][c] = admitted[RegionOf[n]][c]
      BY <1>1, <2>1, AloneIsQuiet
    <3>3. /\ val[n][c] - inflight[n][c] <= admitted[RegionOf[n]][c]
          /\ pulled[n][c].regional <= admitted[RegionOf[n]][c]
      BY <1>1 DEF NoPhantomCount, PullsBacked
    <3>4. val[n][c] \in Int /\ pulled[n][c].regional \in Nat
      BY <1>1 DEF TypeOK, GlobalTypeOK, PerCell
    <3> QED BY ONLY <3>1, <3>2, <3>3, <3>4
  <2> QED BY <2>2, <2>3 DEF NoPhantomCount
<1> QED
  BY <1>2, <1>3, <1>4, GlobalSteps

\* Rows, imports and counts stay backed in every step.
LEMMA SharingStep == SharingInv /\ [GlobalNext]_allVars => SharingInv'
<1> SUFFICES ASSUME SharingInv, [GlobalNext]_allVars
             PROVE  SharingInv'
  OBVIOUS
<1>1. PublishInv /\ AllAlone /\ SharedInv
  BY DEF SharingInv, PublishInv
<1>2. PublishInv' /\ SharedInv'
  BY <1>1, PublishStep DEF PublishInv
<1>3. AllAlone'
  <2>1. CASE [Next]_vars
    BY <1>1, <1>2, <2>1, AloneStep
  <2>2. ASSUME NEW m \in Nodes, Restart(m)
        PROVE  [Next]_vars
    BY <2>2 DEF Next
  <2>3. ASSUME NEW m \in Nodes, PullStep(m)
        PROVE  AllAlone'
    BY <1>1, <2>3, PullLeaves DEF AllAlone
  <2> QED BY <2>1, <2>2, <2>3, GlobalSteps
<1>4. Backed' /\ NoPhantomCount'
  BY <1>2, PhantomShared
<1>5. PushesBacked' /\ PullsBacked' /\ RowsBackedByAdmissions' /\ NoFeedback'
  BY <1>2, PushesBackedStep, PullsBackedStep, RowsBackedStep, NoFeedbackStep
<1> QED
  BY <1>2, <1>3, <1>4, <1>5 DEF SharingInv

\* There are no rows initially.
LEMMA SharingInit == GlobalInit /\ Batches = {} => SharingInv
<1> SUFFICES ASSUME GlobalInit, Batches = {}
             PROVE  SharingInv
  OBVIOUS
<1>1. PublishInv /\ PhantomInv /\ Init
  BY PublishInit, PhantomInit DEF GlobalInit
<1>2. Backed /\ NoPhantomCount
  BY <1>1 DEF PhantomInv
<1>3. AllAlone
  BY <1>1 DEF Init, IdleCall, AllAlone, Alone
<1>4. PushesBacked
  BY IdlePusherType DEF GlobalInit, PushesBacked, PushBacked
<1>5. \A r \in Regions, c \in Cells : admitted[r][c] = 0 /\ table[r][c] = 0
  BY <1>1 DEF Init, GlobalInit
<1>6. admitted \in [Regions -> [Cells -> Nat]]
  BY <1>1 DEF Init
<1>7. \A n \in Nodes, c \in Cells : 0 <= Total(admitted, Others(n), c)
  <2>1. \A n \in Nodes : Others(n) \in SUBSET Regions
    BY DEF Others
  <2>2. \A n \in Nodes, c \in Cells : Total(admitted, Others(n), c) \in Nat
    BY <1>6, <2>1, TotalType
  <2> QED BY <2>2
<1>8. \A n \in Nodes, c \in Cells :
         /\ pulled[n][c].regional = 0 /\ pulled[n][c].imported = 0 /\ globalCount[n][c] = 0
         /\ RegionOf[n] \in Regions
  BY <1>1, TopologyAssumption DEF GlobalInit, Init, Atomics, NoRow
<1>9. PullsBacked /\ NoFeedback
  BY <1>5, <1>7, <1>8 DEF PullsBacked, NoFeedback
<1>10. RowsBackedByAdmissions
  BY <1>5 DEF RowsBackedByAdmissions
<1> QED
  BY <1>1, <1>2, <1>3, <1>4, <1>9, <1>10 DEF SharingInv

\* While only single requests are served, a region's row never holds more than the
\* region has admitted, in spite of lost answers, repeated writes and stale snapshots.
\* (With batches it may: the two loads of a push can lie on two sides of a rollback.)
THEOREM RowsAreBacked == GlobalSpec /\ Batches = {} => []RowsBackedByAdmissions
<1>1. SharingInv => RowsBackedByAdmissions
  BY DEF SharingInv
<1> QED
  BY <1>1, SharingInit, SharingStep, PTL DEF GlobalSpec

\* While only single requests are served, nothing a region has counted comes back to it
\* as the traffic of others: globalCount is bounded by what the other regions admitted.
THEOREM ImportsAreForeign == GlobalSpec /\ Batches = {} => []NoFeedback
<1>1. SharingInv => NoFeedback
  BY DEF SharingInv
<1> QED
  BY <1>1, SharingInit, SharingStep, PTL DEF GlobalSpec

\* While only single requests are served, imports and replays together never count a
\* request twice: val stays within what the region has admitted.
THEOREM SharedCountsAreBacked == GlobalSpec /\ Batches = {} => []NoPhantomCount
<1>1. SharingInv => NoPhantomCount
  BY DEF SharingInv
<1> QED
  BY <1>1, SharingInit, SharingStep, PTL DEF GlobalSpec
=============================================================================
