----------------------------- MODULE MCBuildSlot -----------------------------
(* Small instances of BuildSlot for TLC. *)
EXTENDS BuildSlot, TLC

CONSTANTS p1, d1, d2

Symm == Permutations(Deployments \ Production)

\* The invocation is gone for good and nothing will make the gate look at its row again.
Settled(d) ==
    /\ inv[d] = "gone" /\ d \notin Resent /\ ~Tracked(d)
    /\ \A i \in DOMAIN inbox : inbox[i].id # d

\* States that differ only in what no action reads again count as one: the awakeable of
\* an invocation that is past the gate, the attempt stored in an entry that has left the
\* wait list, and the row of a settled deployment.
View ==
    <<active, ticket, timers, inbox, inv, attempt, limit, raised,
      [d \in Deployments |-> IF ticket[d] > 0 THEN entry[d] ELSE 0],
      [d \in Deployments |->
          IF inv[d] \in {"queued", "requesting", "parked"} THEN awake[d] ELSE "pending"],
      [d \in Deployments |-> IF Settled(d) THEN "ended" ELSE status[d]]>>
==============================================================================
