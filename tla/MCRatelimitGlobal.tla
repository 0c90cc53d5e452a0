-------------------------- MODULE MCRatelimitGlobal --------------------------
(* Small instances of RatelimitGlobal for TLC. *)
EXTENDS RatelimitGlobal, TLC

CONSTANTS ra, rb, n1, n2, n3, g1, g2, c1, c2, w1

MCRegionOf == [n \in Nodes |-> IF n = n3 THEN rb ELSE ra]
Symm == Permutations(Calls) \cup Permutations({n1, n2})

\* States that differ only in what nothing reads any more count as one: the locals of a
\* call that has returned, the fetched count once it is merged, and seenOrigin, which the
\* properties of these runs do not mention.
Done == {g \in Calls : At(g) \in {"allowed", "denied", "crashed"}}
Reading == {g \in Calls : At(g) \in {"coldMerge", "staleMerge", "strictMerge", "cas"}}
Live == [g \in Calls |-> IF g \in Done THEN IdleCall
                         ELSE IF g \in Reading THEN call[g] ELSE [call[g] EXCEPT !.got = 0]]
View == <<entryVars, globalCount, replayVars, Live, Done, restarts, committed, inflight,
          admitted, globalVars>>

MCSingles == {[cell |-> c1, cost |-> 1, limit |-> 2]}
NoBatches == {}
\* The second request of the batch never fits, so the batch always rolls back.
OneBatch == {<<[cell |-> c1, cost |-> 1, limit |-> 2], [cell |-> c2, cost |-> 3, limit |-> 2]>>}
==============================================================================
