---------------------------- MODULE FlowPayments ----------------------------
(***************************************************************************)
(* Credit packs bought, and exceptionally refunded, through Flow:          *)
(* billing/settlement (dispatch_payment, confirm, recover, _settle and     *)
(* grant_due), billing/refunds, and what both need of billing/wallet.      *)
(*                                                                         *)
(* Flow offers no idempotency key, its callbacks are lost, repeated and    *)
(* reordered, and a POST whose reply is lost may have happened.  So a      *)
(* mutation is claimed in a transaction of its own, sent at most once, and *)
(* what became of it is only ever learnt by a GET, made outside every      *)
(* lock and folded into the row later.                                     *)
(***************************************************************************)
EXTENDS Integers, FiniteSets

CONSTANTS
  Orders,    \* pack orders: one billing_orders row and one grant schedule each
  Refunds,   \* operation keys of refunds
  Procs,     \* requests, callbacks and operator commands
  None,
  Amount,    \* what an order costs
  Credits    \* what its grant is worth

ASSUME AmountAssumption == {Amount, Credits} \subseteq Nat \ {0}

ASSUME NullAssumption == None \notin Orders \cup Refunds

ASSUME RefundsAssumption == IsFiniteSet(Refunds)

VARIABLES
  order,       \* billing_orders.state
  events,      \* payment_events: the verified observations, per order
  lot,         \* the credit lot of the order's grant
  refund,      \* flow_lifecycle_operations of kind refund
  payment,     \* Flow: the payment of an order, and how often it was asked for
  reversal,    \* Flow: the refund of an operation, likewise
  proc

vars == <<order, events, lot, refund, payment, reversal, proc>>

OrderStates ==
  {"prepared", "dispatching", "pending", "uncertain", "succeeded", "failed"}

\* Payment statuses of Flow: 1 pending, 2 paid, 3 rejected and 4 annulled.
Statuses == {"pending", "paid", "rejected", "annulled"}

\* A request that was "sent" may still arrive, late or never.
Payments == [status : Statuses \cup {"none", "sent"}, posts : Nat]

\* Only `refunded` matters to the code; "created" stands for accepted too, and
\* "rejected" for canceled.
Reversals ==
  [status : {"none", "sent", "created", "refunded", "rejected"}, posts : Nat]

\* spent counts the lot's AI_DEBIT movements; the lot exists once granted.
Lots == [granted : BOOLEAN, remaining : Nat, spent : Nat]

RefundStates ==
  {"none", "prepared", "dispatching", "uncertain", "confirmed", "needs_admin"}

RefundRows ==
  [state   : RefundStates,
   order   : Orders \cup {None},
   amount  : 0 .. Amount,
   reverse : BOOLEAN,          \* the order's grant is among grant_ids
   bound   : BOOLEAN]          \* preview holds the token's hash

Done == {"confirmed", "needs_admin"}

Phases == {"idle", "post", "store", "lost", "settle",
           "rpost", "rstore", "rconfirm", "rapply", "rlost"}

ProcRows ==
  [at  : Phases,
   on  : Orders \cup Refunds \cup {None},
   saw : Statuses \cup {"none", "sent", "created", "refunded"}]

Idle == [at |-> "idle", on |-> None, saw |-> "none"]

TypeOK ==
  /\ order \in [Orders -> OrderStates]
  /\ events \in [Orders -> SUBSET Statuses]
  /\ lot \in [Orders -> Lots]
  /\ refund \in [Refunds -> RefundRows]
  /\ payment \in [Orders -> Payments]
  /\ reversal \in [Refunds -> Reversals]
  /\ proc \in [Procs -> ProcRows]
  /\ \A p \in Procs :
       /\ proc[p].at \in {"post", "store", "lost", "settle"} =>
            proc[p].on \in Orders
       /\ proc[p].at = "settle" => proc[p].saw \in Statuses
       /\ proc[p].at \in {"rpost", "rstore", "rconfirm", "rapply", "rlost"} =>
            proc[p].on \in Refunds

\* orders.prepare has stored the order and its grant schedule.
Init ==
  /\ order = [o \in Orders |-> "prepared"]
  /\ events = [o \in Orders |-> {}]
  /\ lot = [o \in Orders |-> [granted |-> FALSE, remaining |-> 0, spent |-> 0]]
  /\ refund = [r \in Refunds |->
       [state |-> "none", order |-> None, amount |-> 0, reverse |-> FALSE,
        bound |-> FALSE]]
  /\ payment = [o \in Orders |-> [status |-> "none", posts |-> 0]]
  /\ reversal = [r \in Refunds |-> [status |-> "none", posts |-> 0]]
  /\ proc = [p \in Procs |-> Idle]

Goto(p, at, x, saw) ==
  proc' = [proc EXCEPT ![p] = [at |-> at, on |-> x, saw |-> saw]]

Return(p) == Goto(p, "idle", None, "none")
-----------------------------------------------------------------------------
(* Paying for an order                                                     *)

\* MUTANT: an uncertain order is sent again.
DispatchClaimAgain(p, o) ==
  /\ proc[p].at = "idle"
  /\ order[o] \in {"prepared", "uncertain"}
  /\ order' = [order EXCEPT ![o] = "dispatching"]
  /\ Goto(p, "post", o, "none")
  /\ UNCHANGED <<events, lot, refund, payment, reversal>>

\* dispatch_payment claims the order before any network I/O; another state
\* than prepared is flow_reconciliation_required.
DispatchClaim(p, o) ==
  /\ proc[p].at = "idle"
  /\ order[o] = "prepared"
  /\ order' = [order EXCEPT ![o] = "dispatching"]
  /\ Goto(p, "post", o, "none")
  /\ UNCHANGED <<events, lot, refund, payment, reversal>>

\* POST /payment/create.  A reply that is lost or unusable is a FlowError.
CreatePayment(p) ==
  LET o == proc[p].on IN
  /\ proc[p].at = "post"
  /\ \E replied \in BOOLEAN :
       /\ payment' = [payment EXCEPT ![o] =
            [status |-> IF replied THEN "pending" ELSE "sent",
             posts  |-> @.posts + 1]]
       /\ Goto(p, IF replied THEN "store" ELSE "lost", o, "none")
  /\ UNCHANGED <<order, events, lot, refund, reversal>>

StoreCreated(p) ==
  LET o == proc[p].on IN
  /\ proc[p].at = "store"
  /\ order' = [order EXCEPT ![o] = IF @ = "dispatching" THEN "pending" ELSE @]
  /\ Return(p)
  /\ UNCHANGED <<events, lot, refund, payment, reversal>>

DispatchUncertain(p) ==
  LET o == proc[p].on IN
  /\ proc[p].at = "lost"
  /\ order' = [order EXCEPT ![o] = IF @ = "dispatching" THEN "uncertain" ELSE @]
  /\ Return(p)
  /\ UNCHANGED <<events, lot, refund, payment, reversal>>

\* The GET of confirm (a callback) or of recover (a checkout sent again).
Observe(p, o) ==
  /\ proc[p].at = "idle"
  /\ payment[o].status \in Statuses
  /\ Goto(p, "settle", o, payment[o].status)
  /\ UNCHANGED <<order, events, lot, refund, payment, reversal>>

StateOf(status) ==
  CASE status = "pending" -> "pending"
    [] status = "paid"    -> "succeeded"
    [] OTHER              -> "failed"

\* A late observation cannot undo a captured payment, nor a pending one a
\* rejection; a later success repairs a rejection.
Folded(old, status) ==
  IF old = "succeeded" \/ (old = "failed" /\ status = "pending")
    THEN old ELSE StateOf(status)

\* MUTANT: an order is recorded once, whatever was observed.
SeenOrder(o, status) == events[o] # {}

\* The observation is already in payment_events.
Seen(o, status) == status \in events[o]

\* grant_due, at the end of wallet.reconcile: paid orders whose grant has no
\* ledger entry yet.
GrantDue(states) ==
  [o \in Orders |->
     IF states[o] = "succeeded" /\ ~ lot[o].granted
       THEN [granted |-> TRUE, remaining |-> Credits, spent |-> 0]
       ELSE lot[o]]

Settle(p) ==
  LET o      == proc[p].on
      status == proc[p].saw
  IN
  /\ proc[p].at = "settle"
  /\ order' = IF Seen(o, status) THEN order
              ELSE [order EXCEPT ![o] = Folded(@, status)]
  /\ events' = [events EXCEPT ![o] = @ \cup {status}]
  /\ lot' = GrantDue(order')
  /\ Return(p)
  /\ UNCHANGED <<refund, payment, reversal>>

\* The GET fails, a callback is lost with its process, or a process dies
\* between two of its transactions.
Crash(p) ==
  /\ proc[p].at # "idle"
  /\ Return(p)
  /\ UNCHANGED <<order, events, lot, refund, payment, reversal>>

\* consume_lot, for an AI_DEBIT of one credit.
Debited(x) ==
  [granted |-> x.granted, remaining |-> x.remaining - 1, spent |-> x.spent + 1]

\* wallet.debit takes from this lot; which one is the order of expiry of all
\* the organisation's lots, and these have none.
Debit(o) ==
  /\ lot[o].remaining > 0
  /\ lot' = [lot EXCEPT ![o] = Debited(@)]
  /\ UNCHANGED <<order, events, refund, payment, reversal, proc>>
-----------------------------------------------------------------------------
(* Refunds                                                                 *)

\* A sum of amounts is counted unit by unit, as the cardinality of a set of
\* pairs: the provers know cardinalities, but no sum over a set.

\* MUTANT: an operation that ended no longer counts.
ReservedOpen(o) ==
  Cardinality({u \in Refunds \X (1 .. Amount) :
                 /\ refund[u[1]].order = o /\ u[2] <= refund[u[1]].amount
                 /\ refund[u[1]].state \notin Done})

\* What was already asked back of an order, whatever became of it.
Reserved(o) ==
  Cardinality({u \in Refunds \X (1 .. Amount) :
                 refund[u[1]].order = o /\ u[2] <= refund[u[1]].amount})

\* refunds.prepare, by an operator.  A key is used once.
RefundPrepare(r, o, amount, reverse) ==
  /\ refund[r].state = "none"
  /\ order[o] = "succeeded"
  /\ Reserved(o) + amount <= Amount
  /\ reverse => lot[o].granted
  /\ refund' = [refund EXCEPT ![r] =
       [state |-> "prepared", order |-> o, amount |-> amount,
        reverse |-> reverse, bound |-> FALSE]]
  /\ UNCHANGED <<order, events, lot, payment, reversal, proc>>

\* refunds.dispatch: the claim.
RefundClaim(p, r) ==
  /\ proc[p].at = "idle"
  /\ refund[r].state = "prepared"
  /\ refund' = [refund EXCEPT ![r] = [@ EXCEPT !.state = "dispatching"]]
  /\ Goto(p, "rpost", r, "none")
  /\ UNCHANGED <<order, events, lot, payment, reversal>>

\* POST /refund/create.
CreateRefund(p) ==
  LET r == proc[p].on IN
  /\ proc[p].at = "rpost"
  /\ \E replied \in BOOLEAN :
       /\ reversal' = [reversal EXCEPT ![r] =
            [status |-> IF replied THEN "created" ELSE "sent",
             posts  |-> @.posts + 1]]
       /\ Goto(p, IF replied THEN "rstore" ELSE "rlost", r, "none")
  /\ UNCHANGED <<order, events, lot, refund, payment>>

\* The token of the reply is what later callbacks must present.
StoreToken(p) ==
  LET r == proc[p].on IN
  /\ proc[p].at = "rstore"
  /\ refund' = [refund EXCEPT ![r] = [@ EXCEPT !.bound = TRUE]]
  /\ Goto(p, "rconfirm", r, "none")
  /\ UNCHANGED <<order, events, lot, payment, reversal>>

\* dispatch goes on to confirm; a GET that fails is a FlowError of dispatch.
RefundConfirm(p) ==
  LET r == proc[p].on IN
  /\ proc[p].at = "rconfirm"
  /\ \/ Goto(p, "rapply", r, reversal[r].status)
     \/ Goto(p, "rlost", r, "none")
  /\ UNCHANGED <<order, events, lot, refund, payment, reversal>>

\* A callback; before the token is stored it is a binding mismatch.
RefundCallback(p, r) ==
  /\ proc[p].at = "idle"
  /\ refund[r].bound
  /\ Goto(p, "rapply", r, reversal[r].status)
  /\ UNCHANGED <<order, events, lot, refund, payment, reversal>>

RefundUncertain(p) ==
  LET r == proc[p].on IN
  /\ proc[p].at = "rlost"
  /\ refund' = [refund EXCEPT ![r] =
       IF @.state = "dispatching" THEN [@ EXCEPT !.state = "uncertain"] ELSE @]
  /\ Return(p)
  /\ UNCHANGED <<order, events, lot, payment, reversal>>

\* MUTANT: consumption is not looked at.
CompensableAnyway(r) == TRUE

\* _compensate refuses when a credit of the lot was consumed.
Compensable(r) == refund[r].reverse => lot[refund[r].order].spent = 0

\* REFUND_REVERSAL empties the lot.
Compensated(r) ==
  [o \in Orders |->
     IF refund[r].reverse /\ refund[r].order = o
       THEN [lot[o] EXCEPT !.remaining = 0] ELSE lot[o]]

\* A finished operation is left alone.
Verdict(r, saw) ==
  IF refund[r].state \in Done THEN refund[r].state
  ELSE IF saw # "refunded" THEN "dispatching"
  ELSE IF Compensable(r) THEN "confirmed" ELSE "needs_admin"

\* confirm, with what its GET saw.
RefundApply(p) ==
  LET r == proc[p].on
      s == Verdict(r, proc[p].saw)
  IN
  /\ proc[p].at = "rapply"
  /\ refund' = [refund EXCEPT ![r] = [@ EXCEPT !.state = s]]
  /\ lot' = IF refund[r].state \notin Done /\ s = "confirmed"
              THEN Compensated(r) ELSE lot
  /\ Return(p)
  /\ UNCHANGED <<order, events, payment, reversal>>
-----------------------------------------------------------------------------
(* Flow                                                                    *)

\* A request arrives after all; the payer pays, fails, or tries again.
FlowDecides(o) ==
  /\ payment[o].status \in {"sent", "pending", "rejected"}
  /\ \E status \in IF payment[o].status = "sent" THEN {"pending"} ELSE Statuses :
       payment' = [payment EXCEPT ![o] = [@ EXCEPT !.status = status]]
  /\ UNCHANGED <<order, events, lot, refund, reversal, proc>>

FlowReverses(r) ==
  /\ reversal[r].status \in {"sent", "created"}
  /\ \E status \in IF reversal[r].status = "sent" THEN {"created"}
                                                ELSE {"refunded", "rejected"} :
       reversal' = [reversal EXCEPT ![r] = [@ EXCEPT !.status = status]]
  /\ UNCHANGED <<order, events, lot, refund, payment, proc>>
-----------------------------------------------------------------------------
Pay(p) ==
  \/ \E o \in Orders : DispatchClaim(p, o) \/ Observe(p, o)
  \/ CreatePayment(p) \/ StoreCreated(p) \/ DispatchUncertain(p) \/ Settle(p)

GiveBack(p) ==
  \/ \E r \in Refunds : RefundClaim(p, r) \/ RefundCallback(p, r)
  \/ CreateRefund(p) \/ StoreToken(p) \/ RefundConfirm(p)
  \/ RefundUncertain(p) \/ RefundApply(p)

Next ==
  \/ \E p \in Procs : Pay(p) \/ GiveBack(p) \/ Crash(p)
  \/ \E o \in Orders : Debit(o) \/ FlowDecides(o)
  \/ \E r \in Refunds : FlowReverses(r)
  \/ \E r \in Refunds, o \in Orders, amount \in 1 .. Amount, reverse \in BOOLEAN :
       RefundPrepare(r, o, amount, reverse)

Spec == Init /\ [][Next]_vars
-----------------------------------------------------------------------------
(* Properties                                                              *)

\* No charge and no refund is ever sent twice, whoever retries, whatever reply
\* was lost and whichever process died: "never POST retry".
SentAtMostOnce ==
  /\ \A o \in Orders : payment[o].posts <= 1
  /\ \A r \in Refunds : reversal[r].posts <= 1

\* Credits are granted exactly for the payments whose capture was verified,
\* however observations are repeated and reordered: a recorded success is
\* never lost to an earlier or later observation, and no other state grants.
PaidIffGranted ==
  \A o \in Orders :
    /\ "paid" \in events[o] <=> order[o] = "succeeded"
    /\ lot[o].granted <=> order[o] = "succeeded"
    /\ lot[o].granted => payment[o].status = "paid"

\* A grant is worth what was sold: credits left and consumed never exceed it,
\* although every observation runs grant_due again.
GrantedOnce == \A o \in Orders : lot[o].remaining + lot[o].spent <= Credits

\* Flow is never asked to return more of an order than it cost, all its
\* refunds and all their POSTs together.
RefundsCovered ==
  \A o \in Orders :
    Cardinality(UNION {{r} \X (1 .. reversal[r].posts * refund[r].amount) :
                         r \in {x \in Refunds : refund[x].order = o}}) <= Amount

\* Nobody keeps both the money and the credits: once a refund that reverses a
\* grant is confirmed, the money went back and not one credit of the grant was
\* or can be consumed.
MoneyOrCredits ==
  \A r \in Refunds :
    refund[r].state = "confirmed" =>
      /\ reversal[r].status = "refunded"
      /\ refund[r].reverse => lot[refund[r].order].remaining = 0
                              /\ lot[refund[r].order].spent = 0

\* A verified outcome is final, whatever older observation is applied after
\* it: a captured payment, and a refund that was compensated or left to the
\* administrator.
OutcomesStay ==
  [][/\ \A o \in Orders : order[o] = "succeeded" => order'[o] = "succeeded"
     /\ \A r \in Refunds :
          refund[r].state \in Done => refund'[r].state = refund[r].state]_vars
=============================================================================
