---------------------------- MODULE CreditLedger ----------------------------
(***************************************************************************)
(* What the Deploy plan fee promises: an invoice that has been paid and    *)
(* entitles to usage credits is credited, in one step, once, and before    *)
(* the credits of its period expire. DeployCredits implements it.          *)
(***************************************************************************)
EXTENDS Naturals

CONSTANTS
    Invoices,
    Entitled,   \* the invoices with a positive net plan fee
    Expiry,     \* [Invoices -> Nat]: when their credits expire
    MaxTime     \* bound on time

VARIABLES paid, now, credits
ledgerVars == <<paid, now, credits>>

Init == paid = {} /\ now = 0 /\ credits = [i \in Invoices |-> 0]

Pay(i) ==
    /\ i \notin paid
    /\ paid' = paid \cup {i}
    /\ UNCHANGED <<now, credits>>

Credit(i) ==
    /\ i \in paid \cap Entitled
    /\ credits[i] = 0
    /\ now < Expiry[i]
    /\ credits' = [credits EXCEPT ![i] = 1]
    /\ UNCHANGED <<paid, now>>

Tick ==
    /\ now < MaxTime
    /\ now' = now + 1
    /\ UNCHANGED <<paid, credits>>

Next == Tick \/ \E i \in Invoices : Pay(i) \/ Credit(i)

Spec == Init /\ [][Next]_ledgerVars
=============================================================================
