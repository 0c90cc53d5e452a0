----------------------------- MODULE MCRatelimit -----------------------------
(* Small instances of Ratelimit for TLC. *)
EXTENDS Ratelimit, TLC

CONSTANTS r1, n1, n2, g1, g2, g3, c1, c2, w1

OneRegion == [n \in Nodes |-> r1]
MCSingles == {[cell |-> c1, cost |-> 1, limit |-> 2]}
MCBatches == {<<[cell |-> c1, cost |-> 1, limit |-> 2], [cell |-> c2, cost |-> 2, limit |-> 2]>>}
\* A batch whose second request never fits, and requests of cost 1 and 2 beside it.
OneOrTwo == {[cell |-> c1, cost |-> k, limit |-> 2] : k \in {1, 2}}
FailingBatch == {<<[cell |-> c1, cost |-> 1, limit |-> 2], [cell |-> c2, cost |-> 3, limit |-> 2]>>}
\* States that differ only in what nothing reads any more count as one: the locals of a
\* call that has returned, the fetched count once it is merged, and seenOrigin, which the
\* properties of these runs do not mention.
Done == {g \in Calls : At(g) \in {"allowed", "denied", "crashed"}}
Reading == {g \in Calls : At(g) \in {"coldMerge", "staleMerge", "strictMerge", "cas"}}
Live == [g \in Calls |-> IF g \in Done THEN IdleCall
                         ELSE IF g \in Reading THEN call[g] ELSE [call[g] EXCEPT !.got = 0]]
View == <<entryVars, globalCount, replayVars, Live, Done, restarts, committed, inflight, admitted>>

Symm == Permutations(Calls) \cup Permutations(Nodes)
==============================================================================
