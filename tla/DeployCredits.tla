---------------------------- MODULE DeployCredits ----------------------------
(***************************************************************************)
(* The usage credits a paid Deploy plan fee entitles to: the handlers of   *)
(* invoice.paid and invoice.payment_succeeded in the Stripe webhook, which *)
(* both call grantDeployCreditsForInvoice (lib/stripe/deployCredits.ts),   *)
(* and deployIncludedCreditCents, which reads the grants.                  *)
(*                                                                         *)
(* Stripe announces one payment with up to two events, delivers each at    *)
(* least once, in any order and to functions that run concurrently, and    *)
(* keeps an idempotency key for a day. The lines of an invoice never       *)
(* change, so a grant is known by its invoice.                             *)
(*                                                                         *)
(* A definition marked "Seeded fault" is not part of the specification: it *)
(* is a plausible bug of the definition after it, kept to show that the    *)
(* properties notice it (see PROJECT.json, mutants).                       *)
(***************************************************************************)
EXTENDS Integers, Sequences, FiniteSets, FiniteSetsExt, Functions

CONSTANTS
    Invoices,
    Lines,              \* [Invoices -> Seq(Line)]
    Grace,              \* EXPIRY_GRACE_SECONDS
    Workers,            \* invocations of the webhook that can run at a time
    None,               \* no event
    MaxTime,            \* bound on time
    MaxFailures,        \* bound on calls that fail
    MaxRedeliveries     \* bound on answers that are lost

(* A line of an invoice: whether its price is a plan fee of the billing    *)
(* config it was sold under, what it charges, its discounts and the end of *)
(* its period.                                                             *)
Line == [fee : BOOLEAN, amount : Int, discount : Nat, end : Nat]

EventTypes == {"paid", "payment_succeeded"}
Event == [type : EventTypes, invoice : Invoices]

ASSUME FiniteAssumption == IsFiniteSet(Invoices)
ASSUME LineAssumption == Lines \in [Invoices -> Seq(Line)]
ASSUME TimeAssumption == {Grace, MaxTime, MaxFailures, MaxRedeliveries} \subseteq Nat
ASSUME NoEventAssumption == None \notin Event

VARIABLES
    paid,       \* invoices that are paid
    now,        \* time
    events,     \* webhook events Stripe has yet to deliver
    handler,    \* [Workers -> Handler]
    grants,     \* [Invoices -> Nat], Stripe's credit grants with that metadata
    keys,       \* [Invoices -> KeyStates], what deploy-credit-grant:<invoice> answers
    missed,     \* events due a grant that were answered 200 without one (history)
    failures, redeliveries

stripeVars == <<grants, keys>>
boundVars == <<failures, redeliveries>>
vars == <<paid, now, events, handler, stripeVars, missed, boundVars>>

(* A key Stripe does not know, and one whose first call succeeded or       *)
(* failed, which is what every later call under it is answered.            *)
KeyStates == {"unknown", "granted", "failed"}

Handler == [pc : {"idle", "list", "create"}, ev : Event \cup {None}]
Idle == [pc |-> "idle", ev |-> None]

Init ==
    /\ paid = {}
    /\ now = 0
    /\ events = {}
    /\ handler = [w \in Workers |-> Idle]
    /\ grants = [i \in Invoices |-> 0]
    /\ keys = [i \in Invoices |-> "unknown"]
    /\ missed = {}
    /\ failures = 0 /\ redeliveries = 0

-------------------------------------------------------------------------------
(* The fee of an invoice. *)

(* The positions of the lines whose price is a plan fee. *)
DeployPlanFeeLines(i) == {k \in DOMAIN Lines[i] : Lines[i][k].fee}

NetDeployFee ==
    [i \in Invoices |->
        SumFunctionOnSet([k \in DOMAIN Lines[i] |-> Lines[i][k].amount - Lines[i][k].discount],
                         DeployPlanFeeLines(i))]

(* When the credits of an invoice expire: a grace after the latest period  *)
(* of its fee lines.                                                       *)
ExpiresAt ==
    [i \in Invoices |->
        IF DeployPlanFeeLines(i) = {} THEN 0
        ELSE Max({Lines[i][k].end : k \in DeployPlanFeeLines(i)}) + Grace]

Entitles(i) == NetDeployFee[i] > 0
Open(i) == now < ExpiresAt[i]

-------------------------------------------------------------------------------
(* The handlers. *)

Invoice(w) == handler[w].ev.invoice

(* The handler answers 200. The answer may be lost, and Stripe delivers    *)
(* the event again.                                                        *)
Answer(w) ==
    /\ handler' = [handler EXCEPT ![w] = Idle]
    /\ \/ UNCHANGED <<events, redeliveries>>
       \/ /\ redeliveries < MaxRedeliveries
          /\ redeliveries' = redeliveries + 1
          /\ events' = events \cup {handler[w].ev}

(* Seeded fault: a failed grant is answered with 200. *)
AnswerError_Swallowed(w) ==
    /\ handler' = [handler EXCEPT ![w] = Idle]
    /\ UNCHANGED <<events, redeliveries>>

(* The grant threw: 500, so that Stripe delivers the event again. *)
AnswerError(w) ==
    /\ handler' = [handler EXCEPT ![w] = Idle]
    /\ events' = events \cup {handler[w].ev}
    /\ UNCHANGED redeliveries

(* No plan-fee lines, a net of zero or less, or a period that is closed:   *)
(* there is nothing to grant, whatever config is resolved.                 *)
Skip(w, e) ==
    /\ handler[w].pc = "idle"
    /\ ~(Entitles(e.invoice) /\ Open(e.invoice))
    /\ events' = events \ {e}
    /\ UNCHANGED <<paid, now, handler, stripeVars, missed, boundVars>>

(* There is a grant to make, but deployBillingConfig returns null, as it   *)
(* does while one lookup_key has no active price, or knows none of the     *)
(* invoice's prices any more, after a reprice. The answer is 200 all the   *)
(* same: Stripe does not deliver the event again.                          *)
SkipUnresolved(w, e) ==
    /\ handler[w].pc = "idle"
    /\ Entitles(e.invoice) /\ Open(e.invoice)
    /\ events' = events \ {e}
    /\ missed' = missed \cup {e}
    /\ UNCHANGED <<paid, now, handler, stripeVars, boundVars>>

Receive(w, e) ==
    /\ handler[w].pc = "idle"
    /\ Entitles(e.invoice) /\ Open(e.invoice)
    /\ events' = events \ {e}
    /\ handler' = [handler EXCEPT ![w] = [pc |-> "list", ev |-> e]]
    /\ UNCHANGED <<paid, now, stripeVars, missed, boundVars>>

(* Seeded fault: the idempotency key is all that guards against replays. *)
List_NoCheck(w) ==
    /\ handler[w].pc = "list"
    /\ handler' = [handler EXCEPT ![w].pc = "create"]
    /\ UNCHANGED <<paid, now, events, stripeVars, missed, boundVars>>

(* creditGrants.list: a grant whose metadata names the invoice ends it. *)
List(w) ==
    /\ handler[w].pc = "list"
    /\ IF grants[Invoice(w)] > 0
         THEN Answer(w)
         ELSE /\ handler' = [handler EXCEPT ![w].pc = "create"]
              /\ UNCHANGED <<events, redeliveries>>
    /\ UNCHANGED <<paid, now, stripeVars, missed, failures>>

(* Seeded fault: creditGrants.create is called without a key. *)
CreateFirst_NoKey(w) ==
    /\ handler[w].pc = "create"
    /\ Open(Invoice(w))
    /\ grants' = [grants EXCEPT ![Invoice(w)] = @ + 1]
    /\ Answer(w)
    /\ UNCHANGED <<paid, now, keys, missed, failures>>

(* creditGrants.create under a key Stripe does not know. The grant is      *)
(* made; when its answer is lost the call throws all the same.             *)
CreateFirst(w) ==
    /\ handler[w].pc = "create"
    /\ keys[Invoice(w)] = "unknown"
    /\ Open(Invoice(w))
    /\ grants' = [grants EXCEPT ![Invoice(w)] = @ + 1]
    /\ keys' = [keys EXCEPT ![Invoice(w)] = "granted"]
    /\ \/ Answer(w) /\ UNCHANGED failures
       \/ /\ failures < MaxFailures
          /\ failures' = failures + 1
          /\ AnswerError(w)
    /\ UNCHANGED <<paid, now, missed>>

(* Stripe replays the answer of the first call. *)
CreateReplay(w) ==
    /\ handler[w].pc = "create"
    /\ \/ keys[Invoice(w)] = "granted" /\ Answer(w)
       \/ keys[Invoice(w)] = "failed" /\ AnswerError(w)
    /\ UNCHANGED <<paid, now, stripeVars, missed, failures>>

(* The period has closed meanwhile: expires_at is in the past, which       *)
(* Stripe refuses.                                                         *)
CreateRefused(w) ==
    /\ handler[w].pc = "create"
    /\ keys[Invoice(w)] = "unknown"
    /\ ~Open(Invoice(w))
    /\ AnswerError(w)
    /\ UNCHANGED <<paid, now, stripeVars, missed, failures>>

(* The call in progress throws. A create that fails within Stripe fails    *)
(* for as long as Stripe keeps its key.                                    *)
Fail(w) ==
    /\ handler[w].pc # "idle"
    /\ failures < MaxFailures
    /\ failures' = failures + 1
    /\ AnswerError(w)
    /\ \/ UNCHANGED keys
       \/ /\ handler[w].pc = "create"
          /\ keys[Invoice(w)] = "unknown"
          /\ keys' = [keys EXCEPT ![Invoice(w)] = "failed"]
    /\ UNCHANGED <<paid, now, grants, missed>>

-------------------------------------------------------------------------------
(* Stripe. *)

(* An invoice is paid: by a card, or out of band and by credits, which     *)
(* only invoice.paid announces.                                            *)
InvoicePaid(i) ==
    /\ i \notin paid
    /\ paid' = paid \cup {i}
    /\ \E types \in {EventTypes, {"paid"}} :
         events' = events \cup {[type |-> t, invoice |-> i] : t \in types}
    /\ UNCHANGED <<now, handler, stripeVars, missed, boundVars>>

(* Stripe forgets a key, at least 24 hours after its first use. A function *)
(* runs for minutes, so none that listed the grants before this one was    *)
(* made has yet to create.                                                 *)
KeyExpires(i) ==
    /\ keys[i] # "unknown"
    /\ keys[i] = "granted" =>
          \A w \in Workers : handler[w].pc = "create" => Invoice(w) # i
    /\ keys' = [keys EXCEPT ![i] = "unknown"]
    /\ UNCHANGED <<paid, now, events, handler, grants, missed, boundVars>>

Tick ==
    /\ now < MaxTime
    /\ now' = now + 1
    /\ UNCHANGED <<paid, events, handler, stripeVars, missed, boundVars>>

-------------------------------------------------------------------------------
Step(w) == List(w) \/ CreateFirst(w) \/ CreateReplay(w) \/ CreateRefused(w)
Deliver(e) ==
    e \in events /\ \E w \in Workers : Skip(w, e) \/ SkipUnresolved(w, e) \/ Receive(w, e)

Next ==
    \/ \E w \in Workers : Step(w) \/ Fail(w)
    \/ \E e \in Event : Deliver(e)
    \/ \E i \in Invoices : InvoicePaid(i) \/ KeyExpires(i)
    \/ Tick

Spec == Init /\ [][Next]_vars

(* Functions that run go on. Stripe delivers the events of an invoice      *)
(* until they are answered with 200, to a new function when the others are *)
(* taken, and does forget keys.                                            *)
Fairness ==
    /\ WF_vars(\E w \in Workers : Step(w))
    /\ \A i \in Invoices : SF_vars(\E t \in EventTypes : Deliver([type |-> t, invoice |-> i]))
    /\ \A i \in Invoices : WF_vars(KeyExpires(i))

FairSpec == Spec /\ Fairness

-------------------------------------------------------------------------------
(* Reading the grants. *)

Cents(S) == SumFunctionOnSet([i \in Invoices |-> grants[i] * NetDeployFee[i]], S)

(* Seeded fault: every grant that has not expired counts. *)
DeployIncludedCreditCents_AllOpen == Cents({i \in Invoices : Open(i)})

(* deployIncludedCreditCents: the grants of the latest period that have    *)
(* not expired. *)
DeployIncludedCreditCents ==
    LET live == {i \in Invoices : grants[i] > 0 /\ Open(i)}
    IN  IF live = {} THEN 0
          ELSE Cents({i \in live : ExpiresAt[i] = Max({ExpiresAt[j] : j \in live})})

-------------------------------------------------------------------------------
TypeOK ==
    /\ paid \subseteq Invoices
    /\ now \in 0..MaxTime
    /\ events \subseteq Event
    /\ handler \in [Workers -> Handler]
    /\ grants \in [Invoices -> Nat]
    /\ keys \in [Invoices -> KeyStates]
    /\ missed \subseteq Event
    /\ failures \in 0..MaxFailures
    /\ redeliveries \in 0..MaxRedeliveries

(* An invoice is granted at most once, by however many deliveries of its   *)
(* two events, concurrent ones, retries of a create that did take effect   *)
(* and replays beyond the life of the key included: "retries cannot        *)
(* double-grant" (route.ts).                                               *)
GrantOnce == \A i \in Invoices : grants[i] <= 1

(* The webhook implements the ledger: what a customer sees of all of this  *)
(* is that each entitled invoice is credited in one step, once, after it   *)
(* is paid and before its credits expire.                                  *)
Ledger == INSTANCE CreditLedger WITH
    Entitled <- {i \in Invoices : NetDeployFee[i] > 0},
    Expiry <- ExpiresAt,
    credits <- grants
ImplementsLedger == Ledger!Spec

(* The invoice.paid of an invoice, which Stripe sends however it is paid,  *)
(* met a billing config that could not tell the fee.                       *)
Missed(i) == [type |-> "paid", invoice |-> i] \in missed

(* The allowance the estimated bill is netted against is what has been     *)
(* paid for the current period, once the webhooks are handled: a downgrade *)
(* takes nothing back, and the grant of the period before does not count   *)
(* during its grace. A payment whose invoice.paid met an unresolved config *)
(* counts only if the other event, or a redelivery, still granted it.      *)
AllowanceIsPaid ==
    events = {} /\ (\A w \in Workers : handler[w].pc = "idle") =>
        LET due == {i \in paid : Entitles(i) /\ Open(i) /\ (Missed(i) => grants[i] > 0)}
            current == {i \in due : \A j \in due : ExpiresAt[j] <= ExpiresAt[i]}
        IN  DeployIncludedCreditCents = SumFunctionOnSet(NetDeployFee, current)

(* A paid invoice is credited, its period closes, or its invoice.paid met  *)
(* an unresolved config: no call that throws, lost answer or failure that  *)
(* Stripe keeps replaying loses the credit, nor does whatever becomes of   *)
(* invoice.payment_succeeded. (An invoice stays paid, and a credit         *)
(* granted, so that again and again nothing due is missing says it of      *)
(* every payment.)                                                         *)
CreditArrives ==
    []<>(\A i \in paid : Entitles(i) /\ Open(i) => grants[i] = 1 \/ Missed(i))
===============================================================================
