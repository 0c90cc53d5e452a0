-------------------------- MODULE DeployCreditsProof --------------------------
(***************************************************************************)
(* DeployCredits grants an invoice at most once, implements CreditLedger   *)
(* and reads back what was paid, for any invoices, any number of           *)
(* concurrent handlers, failures, redeliveries and expired keys. The       *)
(* grant theorems hold for whatever NetDeployFee and ExpiresAt compute;    *)
(* the allowance needs that the one is an integer and the other a time.    *)
(***************************************************************************)
EXTENDS DeployCredits, SumTheorems, TLAPS

\* A handler that runs has an event, and only paid invoices that entitle get that far.
HandlerOK ==
    \A w \in Workers : handler[w].pc # "idle" =>
        handler[w].ev \in Event /\ Invoice(w) \in paid /\ Entitles(Invoice(w))

\* Stripe announces payments only.
EventsPaid == \A e \in events : e.invoice \in paid

\* While a handler that has found no grant has yet to create one, either there still is none
\* or the key answers for it.
KeyGuards ==
    \A w \in Workers : handler[w].pc = "create" =>
        grants[Invoice(w)] = 0 \/ keys[Invoice(w)] = "granted"

Inv == TypeOK /\ HandlerOK /\ EventsPaid /\ KeyGuards /\ GrantOnce

----------------------------------------------------------------------------
\* The invoice of an event is one.
LEMMA EventFields ==
    ASSUME NEW e \in Event
    PROVE  e.invoice \in Invoices /\ e.type \in EventTypes
  BY DEF Event

\* The invoice of a handler that runs is one.
LEMMA InvoiceType ==
    ASSUME Inv, NEW w \in Workers, handler[w].pc # "idle"
    PROVE  Invoice(w) \in Invoices
  BY EventFields DEF Inv, HandlerOK, Invoice

\* Nothing runs initially.
LEMMA IdleType == Idle \in Handler /\ Idle.pc = "idle" /\ Idle.ev = None
  BY DEF Idle, Handler

\* Going idle keeps what concerns the handlers, as long as the key of a new grant is known.
LEMMA GoesIdle ==
    ASSUME Inv, NEW w \in Workers, handler' = [handler EXCEPT ![w] = Idle],
           paid' = paid,
           \A i \in Invoices : \/ grants'[i] = grants[i] /\ keys'[i] = keys[i]
                               \/ keys'[i] = "granted"
                               \/ grants'[i] = 0
    PROVE  handler' \in [Workers -> Handler] /\ HandlerOK' /\ KeyGuards'
  <1>1. handler' \in [Workers -> Handler]
    BY IdleType DEF Inv, TypeOK
  <1>2. ASSUME NEW v \in Workers, handler'[v].pc # "idle"
        PROVE  handler'[v] = handler[v]
    BY <1>2, IdleType DEF Inv, TypeOK
  <1>3. HandlerOK'
    BY <1>2 DEF Inv, HandlerOK, Invoice, Entitles
  <1>4. KeyGuards'
    <2> SUFFICES ASSUME NEW v \in Workers, handler'[v].pc = "create"
                 PROVE  (grants[Invoice(v)] = 0 \/ keys[Invoice(v)] = "granted")'
      BY DEF KeyGuards
    <2>1. handler'[v] = handler[v] /\ handler[v].pc = "create"
      BY <1>2
    <2>2. Invoice(v)' = Invoice(v) /\ Invoice(v) \in Invoices
      BY <2>1, InvoiceType DEF Invoice
    <2> QED BY <2>1, <2>2 DEF Inv, KeyGuards
  <1> QED BY <1>1, <1>3, <1>4

\* Either answer sends the handler idle and brings back at most the event of its invoice.
LEMMA Answers ==
    ASSUME Inv, NEW w \in Workers, handler[w].pc # "idle", Answer(w) \/ AnswerError(w),
           paid' = paid
    PROVE  /\ handler' = [handler EXCEPT ![w] = Idle]
           /\ events' \subseteq Event /\ EventsPaid'
           /\ redeliveries' \in 0..MaxRedeliveries
  <1>1. handler[w].ev \in Event /\ handler[w].ev.invoice \in paid
    BY DEF Inv, HandlerOK, Invoice
  <1>2. events' = events \/ events' = events \cup {handler[w].ev}
    BY DEF Answer, AnswerError
  <1>3. events' \subseteq Event /\ EventsPaid'
    BY <1>1, <1>2 DEF Inv, TypeOK, EventsPaid
  <1>4. redeliveries' \in 0..MaxRedeliveries
    BY TimeAssumption DEF Answer, AnswerError, Inv, TypeOK
  <1> QED BY <1>3, <1>4 DEF Answer, AnswerError

\* The initial states satisfy the invariant.
LEMMA InitInv == Init => Inv
  BY TimeAssumption, IdleType
  DEF Init, Inv, TypeOK, HandlerOK, EventsPaid, KeyGuards, GrantOnce, KeyStates

----------------------------------------------------------------------------
\* Either skip only takes an event away.
LEMMA SkipInv ==
    ASSUME Inv, NEW w \in Workers, NEW e \in events, Skip(w, e) \/ SkipUnresolved(w, e)
    PROVE  Inv'
  BY DEF Skip, SkipUnresolved, Inv, TypeOK, HandlerOK, EventsPaid, KeyGuards, GrantOnce, stripeVars, boundVars,
     Invoice, Entitles

\* Receive starts a handler on a paid invoice that entitles.
LEMMA ReceiveInv == ASSUME Inv, NEW w \in Workers, NEW e \in events, Receive(w, e) PROVE Inv'
  <1>1. e \in Event /\ e.invoice \in paid /\ Entitles(e.invoice)
    BY DEF Inv, TypeOK, EventsPaid, Receive
  <1>2. [pc |-> "list", ev |-> e] \in Handler
    BY <1>1 DEF Handler
  <1>3. handler' \in [Workers -> Handler]
    BY <1>2 DEF Receive, Inv, TypeOK
  <1>4. ASSUME NEW v \in Workers
        PROVE  handler'[v] = IF v = w THEN [pc |-> "list", ev |-> e] ELSE handler[v]
    BY DEF Receive, Inv, TypeOK
  <1>5. HandlerOK'
    BY <1>1, <1>4 DEF Receive, Inv, HandlerOK, Invoice, Entitles
  <1>6. KeyGuards'
    BY <1>4 DEF Receive, Inv, KeyGuards, Invoice, stripeVars
  <1>7. TypeOK' /\ EventsPaid' /\ GrantOnce'
    BY <1>3 DEF Receive, Inv, TypeOK, EventsPaid, GrantOnce, stripeVars, boundVars
  <1> QED BY <1>5, <1>6, <1>7 DEF Inv

\* List goes on to create only where there is no grant.
LEMMA ListInv == ASSUME Inv, NEW w \in Workers, List(w) PROVE Inv'
  <1> USE DEF stripeVars
  <1>1. Invoice(w) \in Invoices /\ handler[w].pc # "idle"
    BY InvoiceType DEF List
  <1>2. CASE Answer(w)
    <2>1. paid' = paid /\ grants' = grants /\ keys' = keys /\ now' = now
          /\ failures' = failures /\ missed' = missed
      BY DEF List
    <2>2. /\ handler' = [handler EXCEPT ![w] = Idle]
          /\ events' \subseteq Event /\ EventsPaid'
          /\ redeliveries' \in 0..MaxRedeliveries
      BY <1>1, <1>2, <2>1, Answers
    <2>3. handler' \in [Workers -> Handler] /\ HandlerOK' /\ KeyGuards'
      BY <2>1, <2>2, GoesIdle
    <2> QED BY <2>1, <2>2, <2>3 DEF Inv, TypeOK, GrantOnce
  <1>3. CASE /\ grants[Invoice(w)] = 0
             /\ handler' = [handler EXCEPT ![w].pc = "create"]
             /\ UNCHANGED <<events, redeliveries>>
    <2>1. ASSUME NEW v \in Workers
          PROVE  /\ handler'[v] \in Handler
                 /\ handler'[v].ev = handler[v].ev
                 /\ v # w => handler'[v] = handler[v]
      BY <1>3 DEF Inv, TypeOK, Handler
    <2>2. handler' \in [Workers -> Handler]
      BY <1>3, <2>1 DEF Inv, TypeOK
    <2>3. HandlerOK'
      BY <1>1, <2>1 DEF List, Inv, HandlerOK, Invoice, Entitles
    <2>4. KeyGuards'
      BY <1>3, <2>1 DEF List, Inv, KeyGuards, Invoice
    <2> QED BY <1>3, <2>2, <2>3, <2>4 DEF List, Inv, TypeOK, GrantOnce, EventsPaid
  <1>4. grants[Invoice(w)] \in Nat
    BY <1>1 DEF Inv, TypeOK
  <1> QED BY <1>2, <1>3, <1>4 DEF List

\* The heart of the proof: under an unknown key there is no grant yet, and from then on the
\* key answers for it.
LEMMA CreateFirstInv == ASSUME Inv, NEW w \in Workers, CreateFirst(w) PROVE Inv'
  <1> DEFINE i == Invoice(w)
  <1>1. i \in Invoices /\ handler[w].pc # "idle" /\ paid' = paid
    BY InvoiceType DEF CreateFirst
  <1>2. grants[i] = 0
    BY DEF CreateFirst, Inv, KeyGuards
  <1>3. /\ grants' = [grants EXCEPT ![i] = grants[i] + 1]
        /\ keys' = [keys EXCEPT ![i] = "granted"]
    BY DEF CreateFirst
  <1> HIDE DEF i
  <1>4. grants' \in [Invoices -> Nat] /\ GrantOnce'
    BY <1>1, <1>2, <1>3 DEF Inv, TypeOK, GrantOnce
  <1>5. keys' \in [Invoices -> KeyStates] /\ keys'[i] = "granted"
    BY <1>1, <1>3 DEF Inv, TypeOK, KeyStates
  <1>6. \A j \in Invoices : j # i => grants'[j] = grants[j] /\ keys'[j] = keys[j]
    BY <1>3 DEF Inv, TypeOK
  <1>7. Answer(w) \/ AnswerError(w)
    BY DEF CreateFirst
  <1>8. /\ handler' = [handler EXCEPT ![w] = Idle]
        /\ events' \subseteq Event /\ EventsPaid'
        /\ redeliveries' \in 0..MaxRedeliveries
    BY <1>1, <1>7, Answers
  <1>9. handler' \in [Workers -> Handler] /\ HandlerOK' /\ KeyGuards'
    BY <1>1, <1>5, <1>6, <1>8, GoesIdle
  <1>10. now' = now /\ missed' = missed /\ failures' \in 0..MaxFailures
    BY TimeAssumption DEF CreateFirst, Inv, TypeOK
  <1> QED BY <1>1, <1>4, <1>5, <1>8, <1>9, <1>10 DEF Inv, TypeOK

\* A replayed or refused create changes nothing in Stripe.
LEMMA CreateAnswersInv ==
    ASSUME Inv, NEW w \in Workers, CreateReplay(w) \/ CreateRefused(w) PROVE Inv'
  <1>1. /\ paid' = paid /\ now' = now /\ grants' = grants /\ keys' = keys
        /\ failures' = failures /\ missed' = missed
    BY DEF CreateReplay, CreateRefused, stripeVars
  <1>2. handler[w].pc # "idle"
    BY DEF CreateReplay, CreateRefused
  <1>3. Answer(w) \/ AnswerError(w)
    BY DEF CreateReplay, CreateRefused
  <1>4. /\ handler' = [handler EXCEPT ![w] = Idle]
        /\ events' \subseteq Event /\ EventsPaid'
        /\ redeliveries' \in 0..MaxRedeliveries
    BY <1>1, <1>2, <1>3, Answers
  <1>5. handler' \in [Workers -> Handler] /\ HandlerOK' /\ KeyGuards'
    BY <1>1, <1>4, GoesIdle
  <1> QED BY <1>1, <1>4, <1>5 DEF Inv, TypeOK, GrantOnce

\* A key that is made to fail was unknown, so that there is no grant for it.
LEMMA FailInv == ASSUME Inv, NEW w \in Workers, Fail(w) PROVE Inv'
  <1>1. /\ handler[w].pc # "idle" /\ AnswerError(w)
        /\ paid' = paid /\ now' = now /\ grants' = grants /\ missed' = missed
    BY DEF Fail
  <1>2. Invoice(w) \in Invoices
    BY <1>1, InvoiceType
  <1>3. /\ handler' = [handler EXCEPT ![w] = Idle]
        /\ events' \subseteq Event /\ EventsPaid'
        /\ redeliveries' \in 0..MaxRedeliveries
    BY <1>1, Answers
  <1>4. /\ keys' \in [Invoices -> KeyStates]
        /\ \A j \in Invoices : keys'[j] = keys[j] \/ grants[j] = 0
    BY <1>2 DEF Fail, Inv, TypeOK, KeyGuards, KeyStates
  <1>5. handler' \in [Workers -> Handler] /\ HandlerOK' /\ KeyGuards'
    BY <1>1, <1>3, <1>4, GoesIdle
  <1>6. failures' \in 0..MaxFailures
    BY TimeAssumption DEF Fail, Inv, TypeOK
  <1> QED BY <1>1, <1>3, <1>4, <1>5, <1>6 DEF Inv, TypeOK, GrantOnce

\* A payment adds a paid invoice and its events.
LEMMA InvoicePaidInv == ASSUME Inv, NEW i \in Invoices, InvoicePaid(i) PROVE Inv'
  <1>1. PICK types \in {EventTypes, {"paid"}} :
            events' = events \cup {[type |-> t, invoice |-> i] : t \in types}
    BY DEF InvoicePaid
  <1>2. \A t \in types : [type |-> t, invoice |-> i] \in Event
    BY DEF Event, EventTypes
  <1>3. events' \subseteq Event
    BY <1>1, <1>2 DEF Inv, TypeOK
  <1>4. EventsPaid'
    BY <1>1 DEF InvoicePaid, Inv, EventsPaid
  <1>5. paid \subseteq paid' /\ paid' \subseteq Invoices
    BY DEF InvoicePaid, Inv, TypeOK
  <1>6. HandlerOK' /\ KeyGuards' /\ GrantOnce'
    BY <1>5 DEF InvoicePaid, Inv, HandlerOK, KeyGuards, GrantOnce, Invoice, Entitles, stripeVars
  <1>7. TypeOK'
    BY <1>3, <1>5 DEF InvoicePaid, Inv, TypeOK, stripeVars, boundVars
  <1> QED BY <1>4, <1>6, <1>7 DEF Inv

\* A key of a grant is forgotten only when nobody is about to create again.
LEMMA KeyExpiresInv == ASSUME Inv, NEW i \in Invoices, KeyExpires(i) PROVE Inv'
  <1>1. keys' \in [Invoices -> KeyStates]
    BY DEF KeyExpires, Inv, TypeOK, KeyStates
  <1>2. KeyGuards'
    <2> SUFFICES ASSUME NEW w \in Workers, handler[w].pc = "create"
                 PROVE  grants[Invoice(w)] = 0 \/ keys'[Invoice(w)] = "granted"
      BY DEF KeyGuards, KeyExpires, Invoice
    <2>1. Invoice(w) \in Invoices
      BY InvoiceType
    <2>2. CASE Invoice(w) = i
      BY <2>2 DEF KeyExpires, Inv, KeyGuards
    <2>3. CASE Invoice(w) # i
      BY <2>1, <2>3 DEF KeyExpires, Inv, TypeOK, KeyGuards
    <2> QED BY <2>2, <2>3
  <1> QED BY <1>1, <1>2 DEF KeyExpires, Inv, TypeOK, HandlerOK, EventsPaid, GrantOnce, Invoice,
             Entitles, boundVars

\* Time concerns none of it.
LEMMA TickInv == ASSUME Inv, Tick PROVE Inv'
  BY TimeAssumption DEF Tick, Inv, TypeOK, HandlerOK, EventsPaid, KeyGuards, GrantOnce, Invoice,
     Entitles, stripeVars, boundVars

\* Every step keeps the invariant.
LEMMA NextInv == Inv /\ [Next]_vars => Inv'
  <1> SUFFICES ASSUME Inv, [Next]_vars PROVE Inv'
    OBVIOUS
  <1>1. ASSUME NEW w \in Workers, Step(w) \/ Fail(w) PROVE Inv'
    BY <1>1, ListInv, CreateFirstInv, CreateAnswersInv, FailInv DEF Step
  <1>2. ASSUME NEW e \in Event, Deliver(e) PROVE Inv'
    BY <1>2, SkipInv, ReceiveInv DEF Deliver
  <1>3. ASSUME NEW i \in Invoices, InvoicePaid(i) \/ KeyExpires(i) PROVE Inv'
    BY <1>3, InvoicePaidInv, KeyExpiresInv
  <1>4. CASE UNCHANGED vars
    BY <1>4 DEF vars, Inv, TypeOK, HandlerOK, EventsPaid, KeyGuards, GrantOnce, Invoice, Entitles,
       stripeVars, boundVars
  <1> QED BY <1>1, <1>2, <1>3, <1>4, TickInv DEF Next

\* The invariant holds throughout.
LEMMA Invariance == Spec => []Inv
  BY InitInv, NextInv, PTL DEF Spec

\* Every variable keeps its type.
THEOREM TypeCorrect == Spec => []TypeOK
  <1>1. Inv => TypeOK
    BY DEF Inv
  <1> QED BY <1>1, Invariance, PTL

\* For any number of deliveries, concurrent handlers, failures and expired keys an invoice
\* is granted at most once: the check of the grants and the idempotency key together leave
\* no gap, although each alone does.
THEOREM AtMostOneGrant == Spec => []GrantOnce
  <1>1. Inv => GrantOnce
    BY DEF Inv
  <1> QED BY <1>1, Invariance, PTL

----------------------------------------------------------------------------
\* Steps that neither pay, nor grant, nor let time pass are stutters of the ledger.
Silent == UNCHANGED <<paid, now, grants>>

\* The first create under a key is the ledger's Credit.
LEMMA CreateCredits ==
    ASSUME Inv, NEW w \in Workers, CreateFirst(w)
    PROVE  Ledger!Credit(Invoice(w)) /\ Invoice(w) \in Invoices
  <1>1. Invoice(w) \in Invoices /\ handler[w].pc # "idle"
    BY InvoiceType DEF CreateFirst
  <1>2. Invoice(w) \in paid /\ NetDeployFee[Invoice(w)] > 0
    BY <1>1 DEF Inv, HandlerOK, Entitles
  <1>3. grants[Invoice(w)] = 0
    BY DEF CreateFirst, Inv, KeyGuards
  <1>4. grants' = [grants EXCEPT ![Invoice(w)] = 1]
    BY <1>3 DEF CreateFirst
  <1> QED BY <1>1, <1>2, <1>3, <1>4 DEF CreateFirst, Ledger!Credit, Open

\* Every step is a step of the ledger or none.
LEMMA StepRefines ==
    ASSUME Inv, [Next]_vars PROVE [Ledger!Next]_(Ledger!ledgerVars)
  <1> USE DEF stripeVars, boundVars
  <1>1. ASSUME NEW w \in Workers, Step(w) \/ Fail(w)
        PROVE  Silent \/ \E i \in Invoices : Ledger!Credit(i)
    BY <1>1, CreateCredits DEF Step, List, CreateReplay, CreateRefused, Fail, Silent
  <1>2. ASSUME NEW e \in Event, Deliver(e) PROVE Silent
    BY <1>2 DEF Deliver, Skip, SkipUnresolved, Receive, Silent
  <1>3. ASSUME NEW i \in Invoices, InvoicePaid(i) PROVE Ledger!Pay(i)
    BY <1>3 DEF InvoicePaid, Ledger!Pay
  <1>4. ASSUME NEW i \in Invoices, KeyExpires(i) PROVE Silent
    BY <1>4 DEF KeyExpires, Silent
  <1>5. Tick => Ledger!Tick
    BY DEF Tick, Ledger!Tick
  <1>6. UNCHANGED vars => Silent
    BY DEF vars, Silent
  <1>7. \/ Silent \/ Ledger!Tick
        \/ \E i \in Invoices : Ledger!Pay(i) \/ Ledger!Credit(i)
    BY <1>1, <1>2, <1>3, <1>4, <1>5, <1>6 DEF Next
  <1> QED BY <1>7 DEF Silent, Ledger!Next, Ledger!ledgerVars

\* The webhook's handlers implement the ledger, for every set of invoices: deliveries,
\* replays and failures are invisible, and the only visible effect is one credit for a paid
\* invoice with a positive net fee, before it expires.
THEOREM LedgerImplemented == Spec => ImplementsLedger
  <1>1. Init => Ledger!Init
    BY DEF Init, Ledger!Init
  <1>2. Inv /\ [Next]_vars => [Ledger!Next]_(Ledger!ledgerVars)
    BY StepRefines
  <1> QED BY <1>1, <1>2, Invariance, PTL DEF Spec, ImplementsLedger, Ledger!Spec
----------------------------------------------------------------------------
\* What the invoices are worth

\* The largest of finitely many natural numbers.
LEMMA LargestValue ==
    ASSUME NEW S, IsFiniteSet(S), S # {}, NEW f, \A x \in S : f[x] \in Nat,
           NEW E, \A x \in S : f[x] \in E, \A y \in E : \E x \in S : y = f[x]
    PROVE  /\ Max(E) \in Nat
           /\ \E x \in S : f[x] = Max(E)
           /\ \A x \in S : f[x] <= Max(E)
  <1> DEFINE g == [x \in S |-> f[x]]
  <1>1. E \in SUBSET Nat /\ E # {}
    OBVIOUS
  <1>2. IsFiniteSet(E)
    <2>1. g \in Surjection(S, E)
      BY DEF Surjection
    <2> QED BY <2>1, FS_Surjection
  <1>3. \E n \in E : \A m \in E : m <= n
    BY <1>1, <1>2, LargestNatural
  <1>4. \E n \in E : \A m \in E : n >= m
    BY <1>1, <1>3
  <1>5. Max(E) \in E /\ \A m \in E : Max(E) >= m
    BY <1>4 DEF Max
  <1>6. Max(E) \in Nat /\ \A m \in E : m \in Nat /\ m <= Max(E)
    BY <1>1, <1>5
  <1> QED BY <1>5, <1>6

\* The plan fee of an invoice and the end of its credits are numbers.
LEMMA InvoiceValues ==
    ASSUME NEW i \in Invoices
    PROVE  NetDeployFee[i] \in Int /\ ExpiresAt[i] \in Nat
  <1> DEFINE S == DeployPlanFeeLines(i)
             D == DOMAIN Lines[i]
             f == [k \in D |-> Lines[i][k].amount - Lines[i][k].discount]
             e == [k \in D |-> Lines[i][k].end]
  <1>1. Lines[i] \in Seq(Line)
    BY LineAssumption
  <1>2. /\ D = 1..Len(Lines[i]) /\ Len(Lines[i]) \in Nat
        /\ \A k \in D : Lines[i][k] \in Line
    BY <1>1
  <1>3. S \in SUBSET D /\ IsFiniteSet(S)
    <2>1. S \in SUBSET D
      BY DEF DeployPlanFeeLines
    <2>2. IsFiniteSet(1..Len(Lines[i]))
      BY <1>2, FS_Interval
    <2>3. IsFiniteSet(D)
      BY ONLY <1>2, <2>2
    <2> HIDE DEF S, D
    <2> QED BY ONLY <2>1, <2>3, FS_Subset
  <1>4. \A k \in D : f[k] \in Int /\ e[k] \in Nat
    BY <1>2 DEF Line
  <1>5. /\ NetDeployFee[i] = SumFunctionOnSet(f, S)
        /\ ExpiresAt[i] = IF S = {} THEN 0 ELSE Max({Lines[i][k].end : k \in S}) + Grace
    BY DEF NetDeployFee, ExpiresAt
  <1>6. {Lines[i][k].end : k \in S} = {e[k] : k \in S}
    BY <1>3
  <1> HIDE DEF S, D, f, e
  <1>7. NetDeployFee[i] \in Int
    BY <1>3, <1>4, <1>5, SumType
  <1>8. ExpiresAt[i] \in Nat
    <2>1. CASE S = {}
      BY <1>5, <2>1
    <2>2. CASE S # {}
      <3>1. Max({e[k] : k \in S}) \in Nat
        <4> DEFINE E == {e[k] : k \in S}
        <4>1. \A k \in S : e[k] \in Nat
          BY <1>3, <1>4
        <4>2. /\ \A k \in S : e[k] \in E
              /\ \A y \in E : \E k \in S : y = e[k]
          OBVIOUS
        <4> HIDE DEF E
        <4>3. Max(E) \in Nat
          BY ONLY <1>3, <2>2, <4>1, <4>2, LargestValue
        <4> QED BY <4>3 DEF E
      <3>2. Max({Lines[i][k].end : k \in S}) \in Nat
        BY <1>6, <3>1
      <3>3. ExpiresAt[i] = Max({Lines[i][k].end : k \in S}) + Grace
        BY <1>5, <2>2
      <3> QED BY <3>2, <3>3, TimeAssumption
    <2> QED BY <2>1, <2>2
  <1> QED BY <1>7, <1>8

----------------------------------------------------------------------------
\* What Stripe remembers as granted is, and only paid fees are.
GrantsKnown ==
    \A i \in Invoices :
        /\ keys[i] = "granted" => grants[i] > 0
        /\ grants[i] > 0 => i \in paid /\ Entitles(i)

\* The event every payment has.
PaidEvent(i) == [type |-> "paid", invoice |-> i]

\* A handler is at work on it.
AtWork(i) == \E w \in Workers : handler[w].pc # "idle" /\ handler[w].ev = PaidEvent(i)

\* A payment that is due is granted, or its invoice.paid is to be delivered, at work or was
\* answered under an unresolved config: no failed call, lost answer or refused create makes
\* Stripe and the webhook both forget it.
Announced ==
    \A i \in paid : Entitles(i) /\ Open(i) =>
        grants[i] > 0 \/ AtWork(i) \/ PaidEvent(i) \in events \/ Missed(i)

AllowanceInv == Inv /\ GrantsKnown /\ Announced

\* Nothing is granted or paid initially.
LEMMA AllowanceInit == Init => AllowanceInv
  <1> SUFFICES ASSUME Init PROVE AllowanceInv
    OBVIOUS
  <1>1. Inv
    BY InitInv
  <1>2. GrantsKnown /\ Announced
    BY DEF Init, GrantsKnown, Announced
  <1> QED BY <1>1, <1>2 DEF AllowanceInv

\* A handler that goes idle with its invoice granted, or its event back, loses no payment.
LEMMA IdleKeeps ==
    ASSUME AllowanceInv, NEW w \in Workers, handler[w].pc # "idle",
           handler' = [handler EXCEPT ![w] = Idle],
           paid' = paid, now' = now, missed' = missed, events \subseteq events',
           \A i \in Invoices : grants'[i] >= grants[i] /\ grants'[i] \in Nat,
           grants'[Invoice(w)] > 0 \/ handler[w].ev \in events'
    PROVE  Announced'
  <1> SUFFICES ASSUME NEW i \in paid, Entitles(i), Open(i)
               PROVE  \/ grants'[i] > 0
                      \/ \E v \in Workers : handler'[v].pc # "idle" /\ handler'[v].ev = PaidEvent(i)
                      \/ PaidEvent(i) \in events'
                      \/ Missed(i)
    BY DEF Announced, AtWork, PaidEvent, Missed, Entitles, Open
  <1>1. i \in Invoices /\ grants[i] \in Nat
    BY DEF AllowanceInv, Inv, TypeOK
  <1>2. CASE grants[i] > 0
    BY <1>1, <1>2
  <1>3. CASE PaidEvent(i) \in events \/ Missed(i)
    BY <1>3
  <1>4. ASSUME NEW v \in Workers, handler[v].pc # "idle", handler[v].ev = PaidEvent(i)
        PROVE  \/ grants'[i] > 0
               \/ \E u \in Workers : handler'[u].pc # "idle" /\ handler'[u].ev = PaidEvent(i)
               \/ PaidEvent(i) \in events'
    <2>1. CASE v = w
      BY <1>4, <2>1 DEF Invoice, PaidEvent
    <2>2. CASE v # w
      <3>1. handler'[v] = handler[v]
        BY <2>2 DEF AllowanceInv, Inv, TypeOK
      <3> QED BY <1>4, <3>1
    <2> QED BY <2>1, <2>2
  <1> QED BY <1>2, <1>3, <1>4 DEF AllowanceInv, Announced, AtWork

\* What the answers do to the events.
LEMMA AnswerEvents ==
    ASSUME NEW w \in Workers
    PROVE  /\ Answer(w) => handler' = [handler EXCEPT ![w] = Idle] /\ events \subseteq events'
           /\ AnswerError(w) => /\ handler' = [handler EXCEPT ![w] = Idle]
                                /\ events \subseteq events' /\ handler[w].ev \in events'
  BY DEF Answer, AnswerError

\* Every step of a handler keeps it.
LEMMA HandlerKeeps ==
    ASSUME AllowanceInv, NEW w \in Workers, Step(w) \/ Fail(w)
    PROVE  GrantsKnown' /\ Announced'
  <1>0. /\ handler[w].pc # "idle" /\ paid' = paid /\ now' = now /\ missed' = missed
    BY DEF Step, List, CreateFirst, CreateReplay, CreateRefused, Fail
  <1>1. /\ Invoice(w) \in Invoices /\ Invoice(w) \in paid /\ Entitles(Invoice(w))
        /\ grants \in [Invoices -> Nat] /\ keys \in [Invoices -> KeyStates]
    BY <1>0, InvoiceType DEF AllowanceInv, Inv, HandlerOK, TypeOK
  <1>2. CASE List(w)
    <2>1. grants' = grants /\ keys' = keys
      BY <1>2 DEF List, stripeVars
    <2>2. GrantsKnown'
      BY <1>0, <2>1 DEF AllowanceInv, GrantsKnown, Entitles
    <2>3. CASE grants[Invoice(w)] > 0 /\ Answer(w)
      <3>1. Announced'
        BY <1>0, <1>1, <2>1, <2>3, AnswerEvents, IdleKeeps
      <3> QED BY <2>2, <3>1
    <2>4. CASE /\ handler' = [handler EXCEPT ![w].pc = "create"]
               /\ UNCHANGED <<events, redeliveries>>
      <3>1. \A v \in Workers : /\ handler'[v].ev = handler[v].ev
                               /\ handler[v].pc # "idle" => handler'[v].pc # "idle"
        BY <2>4 DEF AllowanceInv, Inv, TypeOK, Handler
      <3>2. Announced'
        BY <1>0, <2>1, <2>4, <3>1
        DEF AllowanceInv, Announced, AtWork, PaidEvent, Missed, Entitles, Open
      <3> QED BY <2>2, <3>2
    <2> QED BY <1>2, <2>3, <2>4 DEF List
  <1>3. CASE CreateFirst(w)
    <2> DEFINE i == Invoice(w)
    <2>1. /\ grants' = [grants EXCEPT ![i] = grants[i] + 1]
          /\ keys' = [keys EXCEPT ![i] = "granted"]
          /\ Answer(w) \/ AnswerError(w)
      BY <1>3 DEF CreateFirst
    <2> HIDE DEF i
    <2>2. /\ i \in Invoices /\ grants[i] \in Nat /\ grants'[i] = grants[i] + 1
          /\ \A j \in Invoices \ {i} : grants'[j] = grants[j] /\ keys'[j] = keys[j]
      BY <1>1, <2>1 DEF i
    <2>3. GrantsKnown'
      BY <1>0, <1>1, <2>2 DEF AllowanceInv, GrantsKnown, Entitles, i
    <2>4. \A j \in Invoices : grants'[j] >= grants[j] /\ grants'[j] \in Nat
      BY <1>1, <2>2
    <2>5. grants'[Invoice(w)] > 0
      BY <2>2 DEF i
    <2>6. Announced'
      BY <1>0, <2>1, <2>4, <2>5, AnswerEvents, IdleKeeps
    <2> QED BY <2>3, <2>6
  <1>4. CASE CreateReplay(w) \/ CreateRefused(w)
    <2>1. grants' = grants /\ keys' = keys
      BY <1>4 DEF CreateReplay, CreateRefused, stripeVars
    <2>2. GrantsKnown'
      BY <1>0, <2>1 DEF AllowanceInv, GrantsKnown, Entitles
    <2>3. CASE keys[Invoice(w)] = "granted" /\ Answer(w)
      <3>1. grants[Invoice(w)] > 0
        BY <1>1, <2>3 DEF AllowanceInv, GrantsKnown
      <3>2. Announced'
        BY <1>0, <1>1, <2>1, <2>3, <3>1, AnswerEvents, IdleKeeps
      <3> QED BY <2>2, <3>2
    <2>4. CASE AnswerError(w)
      <3>1. Announced'
        BY <1>0, <1>1, <2>1, <2>4, AnswerEvents, IdleKeeps
      <3> QED BY <2>2, <3>1
    <2> QED BY <1>4, <2>3, <2>4 DEF CreateReplay, CreateRefused
  <1>5. CASE Fail(w)
    <2>1. /\ grants' = grants /\ AnswerError(w)
          /\ keys' = keys \/ keys' = [keys EXCEPT ![Invoice(w)] = "failed"]
      BY <1>5 DEF Fail
    <2>2. \A j \in Invoices : keys'[j] = keys[j] \/ keys'[j] = "failed"
      BY <1>1, <2>1
    <2>3. GrantsKnown'
      BY <1>0, <2>1, <2>2 DEF AllowanceInv, GrantsKnown, Entitles
    <2>4. Announced'
      BY <1>0, <1>1, <2>1, AnswerEvents, IdleKeeps
    <2> QED BY <2>3, <2>4
  <1> QED BY <1>2, <1>3, <1>4, <1>5 DEF Step

\* A delivery drops the event of a payment only when nothing is due for it or its config
\* is unresolved.
LEMMA DeliverKeeps ==
    ASSUME AllowanceInv, NEW e \in Event, Deliver(e)
    PROVE  GrantsKnown' /\ Announced'
  <1>1. PICK w \in Workers : Skip(w, e) \/ SkipUnresolved(w, e) \/ Receive(w, e)
    BY DEF Deliver
  <1>2. /\ handler[w].pc = "idle" /\ events' = events \ {e} /\ missed \subseteq missed'
        /\ paid' = paid /\ now' = now /\ grants' = grants /\ keys' = keys
    BY <1>1 DEF Skip, SkipUnresolved, Receive, stripeVars
  <1>3. GrantsKnown'
    BY <1>2 DEF AllowanceInv, GrantsKnown, Entitles
  <1>4. \A v \in Workers : handler[v].pc # "idle" => handler'[v] = handler[v]
    BY <1>1, <1>2 DEF Skip, SkipUnresolved, Receive, AllowanceInv, Inv, TypeOK
  <1>5. ASSUME NEW i \in paid, Entitles(i), Open(i)
        PROVE  \/ grants[i] > 0
               \/ \E v \in Workers : handler'[v].pc # "idle" /\ handler'[v].ev = PaidEvent(i)
               \/ PaidEvent(i) \in events'
               \/ PaidEvent(i) \in missed'
    <2>1. CASE grants[i] > 0
      BY <2>1
    <2>2. CASE AtWork(i)
      BY <1>4, <2>2 DEF AtWork
    <2>3. CASE Missed(i)
      BY <1>2, <2>3 DEF Missed, PaidEvent
    <2>4. CASE PaidEvent(i) \in events /\ PaidEvent(i) # e
      BY <1>2, <2>4
    <2>5. CASE PaidEvent(i) = e
      <3>1. e.invoice = i
        BY <2>5 DEF PaidEvent
      <3>2. ~Skip(w, e)
        BY <1>5, <3>1 DEF Skip
      <3>3. CASE SkipUnresolved(w, e)
        BY <2>5, <3>3 DEF SkipUnresolved
      <3>4. CASE Receive(w, e)
        <4>1. handler'[w] = [pc |-> "list", ev |-> e]
          BY <3>4 DEF Receive, AllowanceInv, Inv, TypeOK
        <4> QED BY <2>5, <4>1
      <3> QED BY <1>1, <3>2, <3>3, <3>4
    <2> QED BY <1>5, <2>1, <2>2, <2>3, <2>4, <2>5 DEF AllowanceInv, Announced
  <1>6. Announced'
    BY <1>2, <1>5 DEF Announced, AtWork, PaidEvent, Missed, Entitles, Open
  <1> QED BY <1>3, <1>6

\* A payment is announced; a forgotten key and the time make nothing due.
LEMMA StripeKeeps ==
    ASSUME AllowanceInv,
           Tick \/ \E i \in Invoices : InvoicePaid(i) \/ KeyExpires(i)
    PROVE  GrantsKnown' /\ Announced'
  <1>1. CASE Tick
    <2>1. /\ UNCHANGED <<paid, events, handler, grants, keys, missed>> /\ now' = now + 1
      BY <1>1 DEF Tick, stripeVars
    <2>2. \A i \in Invoices : (Open(i))' => Open(i)
      <3> SUFFICES ASSUME NEW i \in Invoices, now + 1 < ExpiresAt[i] PROVE now < ExpiresAt[i]
        BY <2>1 DEF Open
      <3>1. now \in Nat /\ ExpiresAt[i] \in Nat
        BY InvoiceValues DEF AllowanceInv, Inv, TypeOK
      <3> QED BY <3>1
    <2>3. paid \subseteq Invoices
      BY DEF AllowanceInv, Inv, TypeOK
    <2>4. GrantsKnown'
      BY <2>1 DEF AllowanceInv, GrantsKnown, Entitles
    <2>5. Announced'
      BY <2>1, <2>2, <2>3 DEF AllowanceInv, Announced, AtWork, PaidEvent, Missed, Entitles
    <2> QED BY <2>4, <2>5
  <1>2. ASSUME NEW i \in Invoices, InvoicePaid(i) PROVE GrantsKnown' /\ Announced'
    <2>1. /\ UNCHANGED <<now, handler, grants, keys, missed>> /\ paid' = paid \cup {i}
          /\ events \subseteq events'
      BY <1>2 DEF InvoicePaid, stripeVars
    <2>2. PaidEvent(i) \in events'
      <3>1. PICK types \in {EventTypes, {"paid"}} :
                events' = events \cup {[type |-> t, invoice |-> i] : t \in types}
        BY <1>2 DEF InvoicePaid
      <3>2. "paid" \in types
        BY DEF EventTypes
      <3>3. [type |-> "paid", invoice |-> i] \in events'
        BY <3>1, <3>2
      <3> QED BY <3>3 DEF PaidEvent
    <2>3. GrantsKnown'
      BY <2>1 DEF AllowanceInv, GrantsKnown, Entitles
    <2>4. Announced'
      BY <2>1, <2>2 DEF AllowanceInv, Announced, AtWork, PaidEvent, Missed, Entitles, Open
    <2> QED BY <2>3, <2>4
  <1>3. ASSUME NEW i \in Invoices, KeyExpires(i) PROVE GrantsKnown' /\ Announced'
    <2>1. /\ UNCHANGED <<paid, now, events, handler, grants, missed>>
          /\ keys' = [keys EXCEPT ![i] = "unknown"]
      BY <1>3 DEF KeyExpires
    <2>2. \A j \in Invoices : keys'[j] = keys[j] \/ keys'[j] = "unknown"
      BY <2>1 DEF AllowanceInv, Inv, TypeOK
    <2>3. GrantsKnown'
      BY <2>1, <2>2 DEF AllowanceInv, GrantsKnown, Entitles
    <2>4. Announced'
      BY <2>1 DEF AllowanceInv, Announced, AtWork, PaidEvent, Missed, Entitles, Open
    <2> QED BY <2>3, <2>4
  <1> QED BY <1>1, <1>2, <1>3

\* Every step keeps it.
LEMMA AllowanceNext == AllowanceInv /\ [Next]_vars => AllowanceInv'
  <1> SUFFICES ASSUME AllowanceInv, [Next]_vars PROVE AllowanceInv'
    OBVIOUS
  <1>1. Inv'
    BY NextInv DEF AllowanceInv
  <1>2. CASE UNCHANGED vars
    <2>1. GrantsKnown' /\ Announced'
      BY <1>2 DEF vars, stripeVars, AllowanceInv, GrantsKnown, Announced, AtWork, PaidEvent,
                  Missed, Entitles, Open
    <2> QED BY <1>1, <2>1 DEF AllowanceInv
  <1>3. CASE Next
    <2>1. GrantsKnown' /\ Announced'
      BY <1>3, HandlerKeeps, DeliverKeeps, StripeKeeps DEF Next
    <2> QED BY <1>1, <2>1 DEF AllowanceInv
  <1> QED BY <1>2, <1>3

\* Where nothing is under way, the grants that count are the payments that are due.
LEMMA AllowanceShows == AllowanceInv => AllowanceIsPaid
  <1> SUFFICES ASSUME AllowanceInv, events = {}, \A w \in Workers : handler[w].pc = "idle"
               PROVE  LET due == {i \in paid : Entitles(i) /\ Open(i) /\ (Missed(i) => grants[i] > 0)}
                          current == {i \in due : \A j \in due : ExpiresAt[j] <= ExpiresAt[i]}
                      IN  DeployIncludedCreditCents = SumFunctionOnSet(NetDeployFee, current)
    BY DEF AllowanceIsPaid
  <1> DEFINE due == {i \in paid : Entitles(i) /\ Open(i) /\ (Missed(i) => grants[i] > 0)}
             current == {i \in due : \A j \in due : ExpiresAt[j] <= ExpiresAt[i]}
             live == {i \in Invoices : grants[i] > 0 /\ Open(i)}
             E == {ExpiresAt[j] : j \in live}
             latest == {i \in live : ExpiresAt[i] = Max(E)}
             c == [i \in Invoices |-> grants[i] * NetDeployFee[i]]
  <1>1. \A i \in due : grants[i] > 0
    BY DEF AllowanceInv, Announced, AtWork
  <1>2. live = due
    BY <1>1 DEF AllowanceInv, GrantsKnown, Inv, TypeOK
  <1>3. live \in SUBSET Invoices /\ IsFiniteSet(live)
    BY FiniteAssumption, FS_Subset
  <1>4. \A i \in Invoices : NetDeployFee[i] \in Int /\ ExpiresAt[i] \in Nat
    BY InvoiceValues
  <1>5. \A i \in live : grants[i] = 1
    BY DEF AllowanceInv, Inv, GrantOnce, TypeOK
  <1>6. \A i \in live : c[i] = NetDeployFee[i]
    BY <1>3, <1>4, <1>5
  <1>7. DeployIncludedCreditCents = IF live = {} THEN 0 ELSE SumFunctionOnSet(c, latest)
    BY DEF DeployIncludedCreditCents, Cents
  <1> HIDE DEF live, c
  <1>8. CASE live = {}
    <2>1. current = {}
      BY <1>2, <1>8
    <2> QED BY <1>7, <1>8, <2>1, SumEmpty
  <1>9. CASE live # {}
    <2>1. /\ Max(E) \in Nat
          /\ \E i \in live : ExpiresAt[i] = Max(E)
          /\ \A i \in live : ExpiresAt[i] <= Max(E)
      <3>1. \A i \in live : ExpiresAt[i] \in Nat
        BY <1>3, <1>4
      <3>2. /\ \A i \in live : ExpiresAt[i] \in E
            /\ \A y \in E : \E i \in live : y = ExpiresAt[i]
        OBVIOUS
      <3> HIDE DEF E, due, current, latest
      <3> QED BY ONLY <1>3, <1>9, <3>1, <3>2, LargestValue
    <2> HIDE DEF E
    <2>2. current = {i \in live : \A j \in live : ExpiresAt[j] <= ExpiresAt[i]}
      BY <1>2
    <2>3. latest = current
      <3>1. ASSUME NEW i \in live, ExpiresAt[i] = Max(E) PROVE i \in current
        BY <2>1, <2>2, <3>1
      <3>2. ASSUME NEW i \in current PROVE i \in live /\ ExpiresAt[i] = Max(E)
        <4>1. i \in live /\ ExpiresAt[i] \in Nat /\ \A j \in live : ExpiresAt[j] <= ExpiresAt[i]
          BY <1>3, <1>4, <2>2, <3>2
        <4>2. Max(E) <= ExpiresAt[i] /\ ExpiresAt[i] <= Max(E)
          BY <2>1, <4>1
        <4> QED BY <2>1, <4>1, <4>2
      <3>3. \A i \in latest : i \in current
        BY <3>1
      <3>4. \A i \in current : i \in latest
        BY <3>2
      <3> HIDE DEF current, latest
      <3> QED BY <3>3, <3>4
    <2>4. latest \in SUBSET live /\ IsFiniteSet(latest)
      BY <1>3, FS_Subset
    <2>5. \A i \in latest : c[i] \in Int /\ c[i] = NetDeployFee[i]
      BY <1>3, <1>4, <1>6, <2>4
    <2> HIDE DEF current, latest
    <2>6. SumFunctionOnSet(c, latest) = SumFunctionOnSet(NetDeployFee, latest)
      BY <2>4, <2>5, SumSame
    <2>7. SumFunctionOnSet(NetDeployFee, latest) = SumFunctionOnSet(NetDeployFee, current)
      BY <2>3
    <2> QED BY <1>7, <1>9, <2>6, <2>7 DEF current
  <1> QED BY <1>8, <1>9

\* For all invoices, lines, handlers and failures: whenever the webhooks are handled, what
\* deployIncludedCreditCents reads is the net fee paid for the current period, leaving out
\* only payments whose invoice.paid met an unresolved billing config and that were not
\* granted through the other event either.
THEOREM AllowanceAdequate == Spec => []AllowanceIsPaid
  BY AllowanceInit, AllowanceNext, AllowanceShows, PTL DEF Spec

=============================================================================
