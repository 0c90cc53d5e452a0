---------------------------- MODULE CreditAccount ----------------------------
(***************************************************************************)
(* What the usage limiter promises: each region keeps an account of the    *)
(* key's credits. A request is admitted and charged in one step, and is    *)
(* denied only when the account does not cover it, as if nothing else were *)
(* going on. Nothing is promised any more once the account is disturbed:   *)
(* dropped, bypassed, or the credits set anew. UsageLimiter implements it. *)
(***************************************************************************)
EXTENDS Integers

CONSTANTS
    Regions,
    Calls,      \* requests
    Costs,      \* costs a request may have
    Openings    \* amounts that an account may start with

NotOpen == -1

VARIABLES
    left,       \* [Regions -> Int]  credits left on the account, or NotOpen
    request,    \* [Calls -> what has become of the request]
    disturbed

accountVars == <<left, request, disturbed>>

Asking(r, cost) == [state |-> "asking", region |-> r, cost |-> cost]
Now(state) == [state |-> state]

Init ==
    /\ left = [r \in Regions |-> NotOpen]
    /\ request = [g \in Calls |-> Now("new")]
    /\ disturbed = FALSE

\* The first request opens the account.
Balance(r) == IF left[r] = NotOpen THEN Openings ELSE {left[r]}

Becomes(S, state) == request' = [g \in Calls |-> IF g \in S THEN Now(state) ELSE request[g]]

Ask(g, r, cost) ==
    /\ request[g] = Now("new")
    /\ request' = [request EXCEPT ![g] = Asking(r, cost)]
    /\ UNCHANGED <<left, disturbed>>

Admit(g) ==
    LET r == request[g].region IN
    /\ request[g].state = "asking"
    /\ \E balance \in Balance(r) :
          /\ balance >= request[g].cost
          /\ left' = [left EXCEPT ![r] = balance - request[g].cost]
    /\ Becomes({g}, "admitted")
    /\ UNCHANGED disturbed

Deny(g) ==
    LET r == request[g].region IN
    /\ request[g].state = "asking"
    /\ \E balance \in Balance(r) :
          /\ balance < request[g].cost
          /\ left' = [left EXCEPT ![r] = balance]
    /\ Becomes({g}, "denied")
    /\ UNCHANGED disturbed

\* The caller learns that its request was admitted.
Confirm(g) ==
    /\ request[g] = Now("admitted")
    /\ Becomes({g}, "allowed")
    /\ UNCHANGED <<left, disturbed>>

\* Requests under way end with an error, or with the process that serves them.
Fail(S) ==
    /\ \A g \in S : request[g].state \in {"asking", "admitted"}
    /\ Becomes(S, "failed")
    /\ UNCHANGED <<left, disturbed>>

Disturb == disturbed'

\* Most steps of an implementation leave the accounts as they are; TLC tests that, and
\* whether there is anything left to promise, first.
Stay == UNCHANGED accountVars

Next ==
    \/ Disturb \/ Stay
    \/ \E g \in Calls :
          \/ Admit(g) \/ Deny(g) \/ Confirm(g)
          \/ \E r \in Regions, cost \in Costs : Ask(g, r, cost)
    \/ \E S \in SUBSET Calls : Fail(S)

Spec == Init /\ [][Next]_accountVars
=============================================================================
