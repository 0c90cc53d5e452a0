------------------------------ MODULE BuildGate ------------------------------
(***************************************************************************)
(* What the build gate promises: deployments hold a slot or stand in line, *)
(* production before preview and each in order of arrival. Whoever leaves  *)
(* is replaced from the head of the line; a newcomer gets a slot only when *)
(* one is left over and nobody waits for it, and otherwise goes to the end *)
(* of the line. Who leaves, and when, is up to the users of the gate, so   *)
(* calls, leases, audits and the database do not appear here. BuildSlot    *)
(* implements it.                                                          *)
(***************************************************************************)
EXTENDS Naturals, FiniteSets

CONSTANTS
    Deployments,
    Production,     \* those that go first
    Limits          \* values the limit may take

VARIABLES
    holders,    \* the deployments that hold a slot
    place,      \* [Deployments -> Nat]  place in line, 0: not in line
    limit,
    raised      \* the limit has been raised: slots may idle until somebody leaves

gateVars == <<holders, place, limit, raised>>

Init ==
    /\ holders = {} /\ place = [d \in Deployments |-> 0]
    /\ limit \in Limits /\ raised = FALSE

Line == {d \in Deployments : place[d] > 0}

Precedes(p, q) ==
    \/ p \in Production /\ q \notin Production
    \/ (p \in Production <=> q \in Production) /\ place[p] < place[q]

\* The slots, the line and the places once `gone` have left and `promoted` moved up.
Held(gone, promoted) == (holders \ gone) \cup promoted
Left(gone, promoted) == Line \ (gone \cup promoted)
Vacated(gone, promoted) == [d \in Deployments |-> IF d \in gone \cup promoted THEN 0 ELSE place[d]]

\* The head of the line takes the slots that were given up: all of them, except those
\* that a lowered limit has taken away, and no others.
MovesUp(gone, promoted) ==
    /\ promoted \subseteq Line \ gone
    /\ \A p \in promoted, q \in Left(gone, promoted) : Precedes(p, q)
    /\ Cardinality(Held(gone, promoted)) <= Cardinality(holders)
    /\ Left(gone, promoted) # {} =>
          \/ Cardinality(Held(gone, promoted)) = Cardinality(holders)
          \/ Cardinality(Held(gone, promoted)) >= limit

Leave(gone, promoted) ==
    /\ MovesUp(gone, promoted)
    /\ holders' = Held(gone, promoted)
    /\ place' = Vacated(gone, promoted)
    /\ UNCHANGED <<limit, raised>>

\* A newcomer gets what is left over ...
Enter(d, gone, promoted) ==
    /\ d \notin holders \cup Line /\ MovesUp(gone, promoted)
    /\ Cardinality(Held(gone, promoted)) < limit
    /\ Left(gone, promoted) = {} \/ raised
    /\ holders' = Held(gone, promoted) \cup {d}
    /\ place' = Vacated(gone, promoted)
    /\ UNCHANGED <<limit, raised>>

\* ... or the last place in line.
Queue(d, gone, promoted) ==
    /\ d \notin holders \cup Line /\ MovesUp(gone, promoted)
    /\ Cardinality(Held(gone, promoted)) >= limit
    /\ holders' = Held(gone, promoted)
    /\ place' = [Vacated(gone, promoted) EXCEPT ![d] = place'[d]]
    /\ \A q \in Left(gone, promoted) : place[q] < place'[d]
    /\ place'[d] > 0
    /\ UNCHANGED <<limit, raised>>

SetLimit ==
    /\ limit' \in Limits \ {limit}
    /\ raised' = (raised \/ limit' > limit)
    /\ UNCHANGED <<holders, place>>

\* Most steps of an implementation leave the gate as it is; TLC tests that first.
Stay == UNCHANGED gateVars

Next ==
    \/ Stay \/ SetLimit
    \/ \E gone \in SUBSET (holders \cup Line), promoted \in SUBSET Line :
          \/ Leave(gone, promoted)
          \/ \E d \in Deployments : Enter(d, gone, promoted) \/ Queue(d, gone, promoted)

Spec == Init /\ [][Next]_gateVars
=============================================================================
