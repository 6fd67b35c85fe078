-------------------------- MODULE FlowPaymentsProofs --------------------------
(* Proofs about FlowPayments for every set of orders, refunds and processes,  *)
(* every price and every size of a grant.                                    *)
EXTENDS FlowPayments, FiniteSetTheorems, TLAPS

(***************************************************************************)
(* The inductive invariant.  A claim is what keeps a POST single: a row    *)
(* that nobody claimed was never sent, and between the claim and the POST  *)
(* exactly one process knows of it.                                        *)
(***************************************************************************)
PaymentClaim ==
  /\ \A o \in Orders :
       /\ payment[o].posts <= 1
       /\ order[o] = "prepared" => payment[o].posts = 0
       /\ payment[o].posts = 0 <=> payment[o].status = "none"
  /\ \A p \in Procs : proc[p].at = "post" =>
       /\ order[proc[p].on] # "prepared" /\ payment[proc[p].on].posts = 0
       /\ \A q \in Procs :
            proc[q].at = "post" /\ proc[q].on = proc[p].on => q = p

RefundClaimed ==
  /\ \A r \in Refunds :
       /\ reversal[r].posts <= 1
       /\ refund[r].state \in {"none", "prepared"} => reversal[r].posts = 0
       /\ refund[r].bound => refund[r].state \notin {"none", "prepared"}
       /\ reversal[r].posts = 0 <=> reversal[r].status = "none"
  /\ \A p \in Procs : proc[p].at = "rpost" =>
       /\ refund[proc[p].on].state \notin {"none", "prepared"}
       /\ reversal[proc[p].on].posts = 0
       /\ \A q \in Procs :
            proc[q].at = "rpost" /\ proc[q].on = proc[p].on => q = p

\* An observation under way is one Flow made, and success is final at Flow.
Observed ==
  \A p \in Procs :
    /\ proc[p].at = "settle" =>
         /\ order[proc[p].on] # "prepared"
         /\ proc[p].saw = "paid" => payment[proc[p].on].status = "paid"
    /\ proc[p].at \in {"rstore", "rconfirm", "rapply", "rlost"} =>
         refund[proc[p].on].state \notin {"none", "prepared"}
    /\ proc[p].at = "rapply" /\ proc[p].saw = "refunded" =>
         reversal[proc[p].on].status = "refunded"

\* A refund is of a paid order, and a lot holds nothing before its grant.
RefundOfPaid ==
  /\ \A r \in Refunds : refund[r].state # "none" =>
       /\ refund[r].order \in Orders
       /\ order[refund[r].order] = "succeeded"
  /\ \A o \in Orders :
       ~ lot[o].granted => lot[o].remaining = 0 /\ lot[o].spent = 0

IInv ==
  /\ TypeOK /\ PaymentClaim /\ RefundClaimed /\ Observed /\ RefundOfPaid
  /\ PaidIffGranted /\ GrantedOnce /\ MoneyOrCredits
-----------------------------------------------------------------------------
(* One lemma per action                                                    *)

\* Setting the state of a refund changes nothing else of it.
LEMMA RefundState ==
  ASSUME NEW x \in RefundRows, NEW s \in RefundStates
  PROVE  /\ [x EXCEPT !.state = s] \in RefundRows
         /\ [x EXCEPT !.state = s].state = s
         /\ [x EXCEPT !.state = s].order = x.order
         /\ [x EXCEPT !.state = s].reverse = x.reverse
         /\ [x EXCEPT !.state = s].bound = x.bound
BY DEF RefundRows

\* Nor does storing its token.
LEMMA RefundBound ==
  ASSUME NEW x \in RefundRows
  PROVE  [x EXCEPT !.bound = TRUE] \in RefundRows
BY DEF RefundRows

\* A debit moves one credit.
LEMMA DebitedLot ==
  ASSUME NEW x \in Lots, x.remaining > 0
  PROVE  /\ Debited(x) \in Lots
         /\ Debited(x).granted = x.granted
         /\ Debited(x).remaining + Debited(x).spent = x.remaining + x.spent
BY DEF Lots, Debited

\* A reversal leaves what was consumed as it is.
LEMMA EmptiedLot ==
  ASSUME NEW x \in Lots
  PROVE  LET e == [x EXCEPT !.remaining = 0]
         IN  /\ e \in Lots
             /\ e.granted = x.granted /\ e.spent = x.spent
             /\ e.remaining = 0
BY DEF Lots

\* A claim is taken once: afterwards the order is no longer prepared.
LEMMA DispatchClaimStep ==
  ASSUME IInv, NEW p \in Procs, NEW o \in Orders, DispatchClaim(p, o)
  PROVE  IInv'
<1> USE DEF IInv, DispatchClaim, Goto
<1>1. TypeOK'
  BY DEF TypeOK, OrderStates, ProcRows, Phases, Statuses
<1>2. PaymentClaim'
  BY DEF TypeOK, PaymentClaim
<1>3. RefundClaimed'
  BY DEF TypeOK, RefundClaimed
<1>4. Observed'
  BY DEF TypeOK, Observed
<1>5. RefundOfPaid'
  BY DEF TypeOK, RefundOfPaid
<1>6. PaidIffGranted'
  BY DEF TypeOK, PaidIffGranted
<1>7. (GrantedOnce /\ MoneyOrCredits)'
  BY DEF GrantedOnce, MoneyOrCredits
<1> QED
  BY <1>1, <1>2, <1>3, <1>4, <1>5, <1>6, <1>7

\* The one process that claimed the order sends its one POST.
LEMMA CreatePaymentStep ==
  ASSUME IInv, NEW p \in Procs, CreatePayment(p)
  PROVE  IInv'
<1> USE DEF IInv, CreatePayment, Goto
<1>1. TypeOK'
  BY DEF TypeOK, Payments, Statuses, ProcRows, Phases
<1>2. PaymentClaim'
  BY DEF TypeOK, PaymentClaim
<1>3. RefundClaimed'
  BY DEF TypeOK, RefundClaimed
<1>4. Observed'
  BY DEF TypeOK, Observed, PaymentClaim
<1>5. PaidIffGranted'
  BY DEF TypeOK, PaidIffGranted, PaymentClaim
<1>6. (RefundOfPaid /\ GrantedOnce /\ MoneyOrCredits)'
  BY DEF RefundOfPaid, GrantedOnce, MoneyOrCredits
<1> QED
  BY <1>1, <1>2, <1>3, <1>4, <1>5, <1>6

\* The reply of the POST only moves an order that is still dispatching.
LEMMA StoreCreatedStep ==
  ASSUME IInv, NEW p \in Procs, StoreCreated(p)
  PROVE  IInv'
<1> USE DEF IInv, StoreCreated, Goto, Return
<1>1. TypeOK'
  BY DEF TypeOK, OrderStates, ProcRows, Phases, Statuses
<1>2. PaymentClaim'
  BY DEF TypeOK, PaymentClaim
<1>3. RefundClaimed'
  BY DEF TypeOK, RefundClaimed
<1>4. Observed'
  BY DEF TypeOK, Observed
<1>5. RefundOfPaid'
  BY DEF TypeOK, RefundOfPaid
<1>6. PaidIffGranted'
  BY DEF TypeOK, PaidIffGranted
<1>7. (GrantedOnce /\ MoneyOrCredits)'
  BY DEF GrantedOnce, MoneyOrCredits
<1> QED
  BY <1>1, <1>2, <1>3, <1>4, <1>5, <1>6, <1>7

\* So does a FlowError.
LEMMA DispatchUncertainStep ==
  ASSUME IInv, NEW p \in Procs, DispatchUncertain(p)
  PROVE  IInv'
<1> USE DEF IInv, DispatchUncertain, Goto, Return
<1>1. TypeOK'
  BY DEF TypeOK, OrderStates, ProcRows, Phases, Statuses
<1>2. PaymentClaim'
  BY DEF TypeOK, PaymentClaim
<1>3. RefundClaimed'
  BY DEF TypeOK, RefundClaimed
<1>4. Observed'
  BY DEF TypeOK, Observed
<1>5. RefundOfPaid'
  BY DEF TypeOK, RefundOfPaid
<1>6. PaidIffGranted'
  BY DEF TypeOK, PaidIffGranted
<1>7. (GrantedOnce /\ MoneyOrCredits)'
  BY DEF GrantedOnce, MoneyOrCredits
<1> QED
  BY <1>1, <1>2, <1>3, <1>4, <1>5, <1>6, <1>7

\* What a GET saw was true at Flow.
LEMMA ObserveStep ==
  ASSUME IInv, NEW p \in Procs, NEW o \in Orders, Observe(p, o)
  PROVE  IInv'
<1> USE DEF IInv, Observe, Goto
<1>1. TypeOK'
  BY DEF TypeOK, ProcRows, Phases, Statuses
<1>2. PaymentClaim'
  BY DEF TypeOK, PaymentClaim
<1>3. RefundClaimed'
  BY DEF TypeOK, RefundClaimed
<1>4. Observed'
  BY DEF TypeOK, Observed, PaymentClaim, OrderStates, RefundRows,
      RefundStates, Payments, Statuses, Reversals, ProcRows, Phases
<1>5. (RefundOfPaid /\ PaidIffGranted /\ GrantedOnce /\ MoneyOrCredits)'
  BY DEF RefundOfPaid, PaidIffGranted, GrantedOnce, MoneyOrCredits
<1> QED
  BY <1>1, <1>2, <1>3, <1>4, <1>5

\* Folding an observation, old or new, keeps payment, evidence and grant together.
LEMMA SettleStep ==
  ASSUME IInv, NEW p \in Procs, Settle(p)
  PROVE  IInv'
<1> USE DEF IInv, Settle, Goto, Return
<1>1. TypeOK'
  BY AmountAssumption DEF TypeOK, OrderStates, Statuses, Lots, ProcRows,
      Phases, Seen, Folded, StateOf, GrantDue
<1>2. PaymentClaim'
  BY DEF TypeOK, PaymentClaim, Seen, Folded, StateOf, GrantDue
<1>3. RefundClaimed'
  BY DEF TypeOK, RefundClaimed, Seen, Folded, StateOf, GrantDue
<1>4. Observed'
  BY DEF TypeOK, Observed, Seen, Folded, StateOf, GrantDue
<1>5. RefundOfPaid'
  BY DEF TypeOK, RefundOfPaid, Seen, Folded, StateOf, GrantDue
<1>6. PaidIffGranted'
  BY DEF TypeOK, PaidIffGranted, Observed, Seen, Folded, StateOf, GrantDue
<1>7. GrantedOnce'
  <2> SUFFICES ASSUME NEW x \in Orders
               PROVE  lot'[x].remaining + lot'[x].spent <= Credits
    BY DEF GrantedOnce
  <2>1. lot'[x] = IF order'[x] = "succeeded" /\ ~ lot[x].granted
          THEN [granted |-> TRUE, remaining |-> Credits, spent |-> 0]
          ELSE lot[x]
    BY DEF GrantDue
  <2> QED
    BY <2>1, AmountAssumption DEF GrantedOnce
<1>8. MoneyOrCredits'
  <2> SUFFICES ASSUME NEW r \in Refunds, refund[r].state = "confirmed"
               PROVE  lot'[refund[r].order] = lot[refund[r].order]
    BY DEF MoneyOrCredits
  <2>1. refund[r].order \in Orders /\ lot[refund[r].order].granted
    BY DEF RefundOfPaid, PaidIffGranted
  <2> QED
    BY <2>1 DEF GrantDue
<1> QED
  BY <1>1, <1>2, <1>3, <1>4, <1>5, <1>6, <1>7, <1>8

\* A process that dies leaves only its claim behind.
LEMMA CrashStep ==
  ASSUME IInv, NEW p \in Procs, Crash(p)
  PROVE  IInv'
<1> USE DEF IInv, Crash, Goto, Return
<1>1. TypeOK'
  BY DEF TypeOK, ProcRows, Phases, Statuses
<1>2. PaymentClaim'
  BY DEF TypeOK, PaymentClaim
<1>3. RefundClaimed'
  BY DEF TypeOK, RefundClaimed
<1>4. Observed'
  BY DEF TypeOK, Observed
<1>5. (RefundOfPaid /\ PaidIffGranted /\ GrantedOnce /\ MoneyOrCredits)'
  BY DEF RefundOfPaid, PaidIffGranted, GrantedOnce, MoneyOrCredits
<1> QED
  BY <1>1, <1>2, <1>3, <1>4, <1>5

\* Credits move from remaining to spent; a reversed lot has none left.
LEMMA DebitStep ==
  ASSUME IInv, NEW o \in Orders, Debit(o)
  PROVE  IInv'
<1> USE DEF IInv, Debit
<1>1. TypeOK'
  <2>1. lot[o] \in Lots
    BY DEF TypeOK
  <2> QED
    BY <2>1, DebitedLot DEF TypeOK
<1>2. RefundOfPaid'
  BY DEF TypeOK, RefundOfPaid, OrderStates, Lots, RefundRows, RefundStates,
      Debited
<1>3. PaidIffGranted'
  BY DEF TypeOK, PaidIffGranted, OrderStates, Statuses, Lots, Payments,
      Debited
<1>4. GrantedOnce'
  <2>1. lot[o] \in Lots
    BY DEF TypeOK
  <2> QED
    BY <2>1, DebitedLot DEF TypeOK, GrantedOnce
<1>5. MoneyOrCredits'
  BY DEF TypeOK, MoneyOrCredits, Debited
<1>6. (PaymentClaim /\ RefundClaimed /\ Observed)'
  BY DEF PaymentClaim, RefundClaimed, Observed
<1> QED
  BY <1>1, <1>2, <1>3, <1>4, <1>5, <1>6

\* Only a paid order gets a refund.
LEMMA RefundPrepareStep ==
  ASSUME IInv, NEW r \in Refunds, NEW o \in Orders,
         NEW amount \in 1 .. Amount, NEW reverse \in BOOLEAN, RefundPrepare(r, o, amount, reverse)
  PROVE  IInv'
<1> USE DEF IInv, RefundPrepare
<1>1. TypeOK'
  BY DEF TypeOK, RefundRows, RefundStates
<1>2. RefundClaimed'
  BY DEF TypeOK, RefundClaimed
<1>3. Observed'
  BY DEF TypeOK, Observed
<1>4. RefundOfPaid'
  BY DEF TypeOK, RefundOfPaid
<1>5. MoneyOrCredits'
  BY DEF TypeOK, MoneyOrCredits
<1>6. (PaymentClaim /\ PaidIffGranted /\ GrantedOnce)'
  BY DEF PaymentClaim, PaidIffGranted, GrantedOnce
<1> QED
  BY <1>1, <1>2, <1>3, <1>4, <1>5, <1>6

\* A refund is claimed once, like a payment.
LEMMA RefundClaimStep ==
  ASSUME IInv, NEW p \in Procs, NEW r \in Refunds, RefundClaim(p, r)
  PROVE  IInv'
<1> USE DEF IInv, RefundClaim, Goto
<1>1. TypeOK'
  <2>1. refund[r] \in RefundRows /\ "dispatching" \in RefundStates
    BY DEF TypeOK, RefundStates
  <2>2. [refund[r] EXCEPT !.state = "dispatching"] \in RefundRows
    BY <2>1, RefundState
  <2>3. refund' \in [Refunds -> RefundRows]
    BY <2>2 DEF TypeOK
  <2> QED
    BY <2>3 DEF TypeOK, ProcRows, Phases
<1>2. PaymentClaim'
  BY DEF TypeOK, PaymentClaim, Done
<1>3. RefundClaimed'
  BY DEF TypeOK, RefundClaimed, Done
<1>4. Observed'
  BY DEF TypeOK, Observed, Done
<1>5. RefundOfPaid'
  BY DEF TypeOK, RefundOfPaid, Done
<1>6. MoneyOrCredits'
  BY DEF TypeOK, MoneyOrCredits, Done
<1>7. (PaidIffGranted /\ GrantedOnce)'
  BY DEF PaidIffGranted, GrantedOnce
<1> QED
  BY <1>1, <1>2, <1>3, <1>4, <1>5, <1>6, <1>7

\* The one process that claimed the refund sends its one POST.
LEMMA CreateRefundStep ==
  ASSUME IInv, NEW p \in Procs, CreateRefund(p)
  PROVE  IInv'
<1> USE DEF IInv, CreateRefund, Goto
<1>1. TypeOK'
  BY DEF TypeOK, Reversals, ProcRows, Phases, Statuses
<1>2. PaymentClaim'
  BY DEF TypeOK, PaymentClaim
<1>3. RefundClaimed'
  BY DEF TypeOK, RefundClaimed
<1>4. Observed'
  BY DEF TypeOK, Observed, RefundClaimed
<1>5. MoneyOrCredits'
  BY DEF TypeOK, MoneyOrCredits, RefundClaimed
<1>6. (RefundOfPaid /\ PaidIffGranted /\ GrantedOnce)'
  BY DEF RefundOfPaid, PaidIffGranted, GrantedOnce
<1> QED
  BY <1>1, <1>2, <1>3, <1>4, <1>5, <1>6

\* Storing the token changes no state.
LEMMA StoreTokenStep ==
  ASSUME IInv, NEW p \in Procs, StoreToken(p)
  PROVE  IInv'
<1> USE DEF IInv, StoreToken, Goto
<1>1. TypeOK'
  <2>1. proc[p].on \in Refunds
    BY DEF TypeOK
  <2>2. [refund[proc[p].on] EXCEPT !.bound = TRUE] \in RefundRows
    BY <2>1, RefundBound DEF TypeOK
  <2>3. refund' \in [Refunds -> RefundRows]
    BY <2>1, <2>2 DEF TypeOK
  <2> QED
    BY <2>1, <2>3 DEF TypeOK, ProcRows, Phases
<1>2. PaymentClaim'
  BY DEF TypeOK, PaymentClaim
<1>3. RefundClaimed'
  BY DEF TypeOK, RefundClaimed, Observed
<1>4. Observed'
  BY DEF TypeOK, Observed
<1>5. RefundOfPaid'
  BY DEF TypeOK, RefundOfPaid
<1>6. MoneyOrCredits'
  BY DEF TypeOK, MoneyOrCredits
<1>7. (PaidIffGranted /\ GrantedOnce)'
  BY DEF PaidIffGranted, GrantedOnce
<1> QED
  BY <1>1, <1>2, <1>3, <1>4, <1>5, <1>6, <1>7

\* dispatch goes on with what its GET saw, or with a FlowError.
LEMMA RefundConfirmStep ==
  ASSUME IInv, NEW p \in Procs, RefundConfirm(p)
  PROVE  IInv'
<1> USE DEF IInv, RefundConfirm, Goto
<1>1. TypeOK'
  <2> DEFINE r == proc[p].on
  <2>1. r \in Refunds /\ reversal[r].status \in
           {"none", "sent", "created", "refunded", "rejected"}
    BY DEF TypeOK, Reversals
  <2>2. /\ [at |-> "rapply", on |-> r, saw |-> reversal[r].status] \in ProcRows
        /\ [at |-> "rlost", on |-> r, saw |-> "none"] \in ProcRows
    BY <2>1 DEF ProcRows, Phases, Statuses
  <2>3. proc' \in [Procs -> ProcRows]
    BY <2>2 DEF TypeOK
  <2> QED
    BY <2>1, <2>3 DEF TypeOK
<1>2. PaymentClaim'
  BY DEF TypeOK, PaymentClaim
<1>3. RefundClaimed'
  BY DEF TypeOK, RefundClaimed
<1>4. Observed'
  BY DEF TypeOK, Observed
<1>5. (RefundOfPaid /\ PaidIffGranted /\ GrantedOnce /\ MoneyOrCredits)'
  BY DEF RefundOfPaid, PaidIffGranted, GrantedOnce, MoneyOrCredits
<1> QED
  BY <1>1, <1>2, <1>3, <1>4, <1>5

\* A callback needs the token, so the refund was claimed.
LEMMA RefundCallbackStep ==
  ASSUME IInv, NEW p \in Procs, NEW r \in Refunds, RefundCallback(p, r)
  PROVE  IInv'
<1> USE DEF IInv, RefundCallback, Goto
<1>1. TypeOK'
  BY AmountAssumption DEF TypeOK, OrderStates, Statuses, Payments, Reversals,
      Lots, RefundStates, RefundRows, Phases, ProcRows
<1>2. PaymentClaim'
  BY DEF TypeOK, PaymentClaim
<1>3. RefundClaimed'
  BY DEF TypeOK, RefundClaimed
<1>4. Observed'
  BY DEF TypeOK, Observed, RefundClaimed
<1>5. (RefundOfPaid /\ PaidIffGranted /\ GrantedOnce /\ MoneyOrCredits)'
  BY DEF RefundOfPaid, PaidIffGranted, GrantedOnce, MoneyOrCredits
<1> QED
  BY <1>1, <1>2, <1>3, <1>4, <1>5

\* A FlowError only moves a refund that is still dispatching.
LEMMA RefundUncertainStep ==
  ASSUME IInv, NEW p \in Procs, RefundUncertain(p)
  PROVE  IInv'
<1> USE DEF IInv, RefundUncertain, Goto, Return
<1>1. TypeOK'
  BY DEF TypeOK, RefundRows, RefundStates, ProcRows, Phases, Statuses
<1>2. PaymentClaim'
  BY DEF TypeOK, PaymentClaim
<1>3. RefundClaimed'
  BY DEF TypeOK, RefundClaimed
<1>4. Observed'
  BY DEF TypeOK, Observed
<1>5. RefundOfPaid'
  BY DEF TypeOK, RefundOfPaid
<1>6. MoneyOrCredits'
  BY DEF TypeOK, MoneyOrCredits
<1>7. (PaidIffGranted /\ GrantedOnce)'
  BY DEF PaidIffGranted, GrantedOnce
<1> QED
  BY <1>1, <1>2, <1>3, <1>4, <1>5, <1>6, <1>7

\* Compensation empties an unspent lot; a finished refund is left alone.
LEMMA RefundApplyStep ==
  ASSUME IInv, NEW p \in Procs, RefundApply(p)
  PROVE  IInv'
<1> USE DEF IInv, RefundApply, Goto, Return
<1> DEFINE r == proc[p].on
           s == Verdict(r, proc[p].saw)
           x == [refund[r] EXCEPT !.state = s]
<1>a. r \in Refunds /\ refund[r] \in RefundRows
  BY DEF TypeOK
<1>b. s \in RefundStates /\ s \notin {"none", "prepared"}
  BY <1>a DEF RefundStates, Done, Verdict
<1>c. /\ x \in RefundRows /\ x.state = s /\ x.order = refund[r].order
      /\ x.reverse = refund[r].reverse /\ x.bound = refund[r].bound
  <2> HIDE DEF s
  <2> QED  BY <1>a, <1>b, RefundState
<1>d. refund' = [refund EXCEPT ![r] = x]
  OBVIOUS
\* Every lot is as it was, or the refund is confirmed now and this one is its.
<1>e. \A o \in Orders :
        /\ lot'[o] \in Lots
        /\ lot'[o].granted = lot[o].granted /\ lot'[o].spent = lot[o].spent
        /\ lot'[o].remaining \in {lot[o].remaining, 0}
        /\ o = refund[r].order /\ refund[r].reverse /\ s = "confirmed"
              /\ refund[r].state \notin Done =>
             lot'[o].remaining = 0 /\ lot[o].spent = 0
  <2> SUFFICES ASSUME NEW o \in Orders
               PROVE  /\ lot'[o] \in Lots
                      /\ lot'[o].granted = lot[o].granted
                      /\ lot'[o].spent = lot[o].spent
                      /\ lot'[o].remaining \in {lot[o].remaining, 0}
                      /\ o = refund[r].order /\ refund[r].reverse
                            /\ s = "confirmed" /\ refund[r].state \notin Done =>
                           lot'[o].remaining = 0 /\ lot[o].spent = 0
    OBVIOUS
  <2> DEFINE e == [lot[o] EXCEPT !.remaining = 0]
  <2>1. lot[o] \in Lots
    BY DEF TypeOK
  <2>2. e \in Lots /\ e.granted = lot[o].granted /\ e.spent = lot[o].spent
          /\ e.remaining = 0
    BY <2>1, EmptiedLot
  <2>3. lot'[o] = IF /\ refund[r].state \notin Done /\ s = "confirmed"
                     /\ refund[r].reverse /\ refund[r].order = o
                    THEN e ELSE lot[o]
    BY DEF Compensated
  <2> HIDE DEF e
  <2> QED
    BY <2>1, <2>2, <2>3 DEF Verdict, Compensable, Done
<1>f. lot' \in [Orders -> Lots]
  <2>1. lot' = [o \in Orders |-> lot'[o]]
    BY DEF TypeOK, Compensated
  <2> QED
    BY <1>e, <2>1
<1>g. /\ proc' = [proc EXCEPT ![p] = [at |-> "idle", on |-> None, saw |-> "none"]]
      /\ proc[p].at = "rapply"
      /\ UNCHANGED <<order, events, payment, reversal>>
  OBVIOUS
<1>h. s = "confirmed" => refund[r].state = "confirmed" \/ proc[p].saw = "refunded"
  BY DEF Done, Verdict
<1> HIDE DEF r, s, x, RefundApply
<1>1. TypeOK'
  <2>1. refund' \in [Refunds -> RefundRows]
    BY <1>a, <1>c, <1>d DEF TypeOK
  <2> QED
    BY <2>1, <1>f, <1>g DEF TypeOK, ProcRows, Phases
<1>2. PaymentClaim'
  BY <1>g DEF TypeOK, PaymentClaim
<1>3. RefundClaimed'
  BY <1>a, <1>b, <1>c, <1>d, <1>g DEF r, TypeOK, RefundClaimed, Observed
<1>4. Observed'
  BY <1>a, <1>b, <1>c, <1>d, <1>g DEF TypeOK, Observed
<1>5. RefundOfPaid'
  <2>1. refund[r].state # "none"
    BY <1>g DEF Observed, r
  <2> QED
    BY <2>1, <1>a, <1>c, <1>d, <1>e, <1>g DEF TypeOK, RefundOfPaid
<1>6. PaidIffGranted'
  BY <1>e, <1>g DEF PaidIffGranted
<1>7. GrantedOnce'
  <2> SUFFICES ASSUME NEW o \in Orders
               PROVE  lot'[o].remaining + lot'[o].spent <= Credits
    BY DEF GrantedOnce
  <2>1. /\ lot[o].remaining \in Nat /\ lot[o].spent \in Nat
        /\ lot[o].remaining + lot[o].spent <= Credits
    BY DEF TypeOK, Lots, GrantedOnce
  <2>2. lot'[o].spent = lot[o].spent
          /\ lot'[o].remaining \in {lot[o].remaining, 0}
    BY <1>e
  <2> QED
    BY <2>1, <2>2, AmountAssumption
<1>8. MoneyOrCredits'
  <2> SUFFICES ASSUME NEW q \in Refunds, refund'[q].state = "confirmed"
               PROVE  /\ reversal[q].status = "refunded"
                      /\ refund'[q].reverse =>
                           /\ lot'[refund'[q].order].remaining = 0
                           /\ lot'[refund'[q].order].spent = 0
    BY <1>g DEF MoneyOrCredits
  <2>1. CASE q = r /\ refund[r].state \notin Done
    <3>1. s = "confirmed" /\ refund'[q] = x
      BY <2>1, <1>a, <1>c, <1>d DEF TypeOK
    <3>2. reversal[q].status = "refunded"
      BY <2>1, <3>1, <1>g, <1>h DEF Observed, r, Done
    <3>3. refund[r].order \in Orders
      BY <1>a, <1>g DEF Observed, RefundOfPaid, r
    <3> QED
      BY <2>1, <3>1, <3>2, <3>3, <1>c, <1>e
  <2>2. CASE q # r \/ refund[r].state \in Done
    <3>1. /\ refund'[q].order = refund[q].order
          /\ refund'[q].reverse = refund[q].reverse
          /\ refund[q].state = "confirmed"
      BY <2>2, <1>a, <1>c, <1>d DEF s, Verdict, TypeOK
    <3>2. refund[q].order \in Orders
      BY <3>1 DEF RefundOfPaid
    <3> QED
      BY <3>1, <3>2, <1>e DEF MoneyOrCredits, TypeOK, Lots
  <2> QED
    BY <2>1, <2>2
<1> QED
  BY <1>1, <1>2, <1>3, <1>4, <1>5, <1>6, <1>7, <1>8

\* Flow never takes a capture back.
LEMMA FlowDecidesStep ==
  ASSUME IInv, NEW o \in Orders, FlowDecides(o)
  PROVE  IInv'
<1> USE DEF IInv, FlowDecides
<1>1. TypeOK'
  BY DEF TypeOK, Payments, Statuses
<1>2. PaymentClaim'
  BY DEF TypeOK, PaymentClaim, OrderStates, Payments, Statuses, ProcRows,
      Phases
<1>3. Observed'
  BY DEF TypeOK, Observed
<1>4. PaidIffGranted'
  BY DEF TypeOK, PaidIffGranted
<1>5. (RefundClaimed /\ RefundOfPaid /\ GrantedOnce /\ MoneyOrCredits)'
  BY DEF RefundClaimed, RefundOfPaid, GrantedOnce, MoneyOrCredits
<1> QED
  BY <1>1, <1>2, <1>3, <1>4, <1>5

\* Flow never takes a refund back.
LEMMA FlowReversesStep ==
  ASSUME IInv, NEW r \in Refunds, FlowReverses(r)
  PROVE  IInv'
<1> USE DEF IInv, FlowReverses
<1>1. TypeOK'
  BY DEF TypeOK, Reversals
<1>2. RefundClaimed'
  BY DEF TypeOK, RefundClaimed
<1>3. Observed'
  BY DEF TypeOK, Observed
<1>4. MoneyOrCredits'
  BY DEF TypeOK, MoneyOrCredits
<1>5. (PaymentClaim /\ RefundOfPaid /\ PaidIffGranted /\ GrantedOnce)'
  BY DEF PaymentClaim, RefundOfPaid, PaidIffGranted, GrantedOnce
<1> QED
  BY <1>1, <1>2, <1>3, <1>4, <1>5

-----------------------------------------------------------------------------
(* The invariant                                                           *)

\* Prepared orders that nobody sent.
LEMMA InitIInv == Init => IInv
<1> SUFFICES ASSUME Init PROVE IInv
  OBVIOUS
<1> USE DEF Init
<1>1. TypeOK
  BY AmountAssumption
  DEF TypeOK, OrderStates, Lots, RefundRows, RefundStates, Payments, Reversals,
      Idle, ProcRows, Phases
<1>2. PaymentClaim /\ RefundClaimed /\ Observed
  BY DEF PaymentClaim, RefundClaimed, Observed, Idle
<1>3. RefundOfPaid /\ PaidIffGranted /\ GrantedOnce /\ MoneyOrCredits
  BY AmountAssumption
  DEF RefundOfPaid, PaidIffGranted, GrantedOnce, MoneyOrCredits
<1> QED
  BY <1>1, <1>2, <1>3 DEF IInv

\* Every step of a process, of Flow and of the operator keeps it.
LEMMA NextIInv == IInv /\ [Next]_vars => IInv'
<1> SUFFICES ASSUME IInv, [Next]_vars PROVE IInv'
  OBVIOUS
<1>1. ASSUME NEW p \in Procs, Pay(p) PROVE IInv'
  BY <1>1, DispatchClaimStep, ObserveStep, CreatePaymentStep, StoreCreatedStep,
     DispatchUncertainStep, SettleStep DEF Pay
<1>2. ASSUME NEW p \in Procs, GiveBack(p) PROVE IInv'
  BY <1>2, RefundClaimStep, RefundCallbackStep, CreateRefundStep,
     StoreTokenStep, RefundConfirmStep, RefundUncertainStep, RefundApplyStep
  DEF GiveBack
<1>3. ASSUME NEW p \in Procs, Crash(p) PROVE IInv'
  BY <1>3, CrashStep
<1>4. ASSUME NEW o \in Orders, Debit(o) \/ FlowDecides(o) PROVE IInv'
  BY <1>4, DebitStep, FlowDecidesStep
<1>5. ASSUME NEW r \in Refunds, FlowReverses(r) PROVE IInv'
  BY <1>5, FlowReversesStep
<1>6. ASSUME NEW r \in Refunds, NEW o \in Orders, NEW amount \in 1 .. Amount,
             NEW reverse \in BOOLEAN, RefundPrepare(r, o, amount, reverse)
      PROVE  IInv'
  BY <1>6, RefundPrepareStep
<1>7. CASE UNCHANGED vars
  BY <1>7 DEF vars, IInv, TypeOK, PaymentClaim, RefundClaimed, Observed,
     RefundOfPaid, PaidIffGranted, GrantedOnce, MoneyOrCredits
<1> QED
  BY <1>1, <1>2, <1>3, <1>4, <1>5, <1>6, <1>7 DEF Next

\* The invariant holds in every reachable state.
LEMMA Invariance == Spec => []IInv
BY InitIInv, NextIInv, PTL DEF Spec

-----------------------------------------------------------------------------
(* The theorems                                                            *)

\* Rows, observations and processes stay well typed, and no lot of
\* credit_lots is ever overdrawn.
THEOREM TypeCorrect == Spec => []TypeOK
<1>1. IInv => TypeOK
  BY DEF IInv
<1> QED
  BY <1>1, Invariance, PTL

\* dispatch_payment and refunds.dispatch send each mutation at most once, for
\* any number of processes, retries, lost replies and crashes.
THEOREM NeverSentTwice == Spec => []SentAtMostOnce
<1>1. IInv => SentAtMostOnce
  BY DEF IInv, PaymentClaim, RefundClaimed, SentAtMostOnce
<1> QED
  BY <1>1, Invariance, PTL

\* _settle and grant_due grant credits exactly for verified captures, in
\* whatever order and however often observations arrive.
THEOREM GrantFollowsPayment == Spec => []PaidIffGranted
<1>1. IInv => PaidIffGranted
  BY DEF IInv
<1> QED
  BY <1>1, Invariance, PTL

\* However often a capture is observed, its lot is worth one grant.
THEOREM OneGrant == Spec => []GrantedOnce
<1>1. IInv => GrantedOnce
  BY DEF IInv
<1> QED
  BY <1>1, Invariance, PTL

\* refunds.confirm never leaves a customer with money and credits.
THEOREM NeverBoth == Spec => []MoneyOrCredits
<1>1. IInv => MoneyOrCredits
  BY DEF IInv
<1> QED
  BY <1>1, Invariance, PTL

\* The outcome of a refund changes in confirm only, and there not once it is
\* final.
LEMMA RefundOutcomeStays ==
  ASSUME IInv, [Next]_vars, NEW r \in Refunds, refund[r].state \in Done
  PROVE  refund'[r].state = refund[r].state
<1> USE DEF IInv, Done
<1>0. refund \in [Refunds -> RefundRows]
  BY DEF TypeOK
<1>1. ASSUME NEW q \in Refunds, NEW o \in Orders, NEW amount \in 1 .. Amount,
             NEW reverse \in BOOLEAN, RefundPrepare(q, o, amount, reverse)
      PROVE  refund'[r] = refund[r]
  BY <1>1, <1>0 DEF RefundPrepare
<1>2. ASSUME NEW p \in Procs, NEW q \in Refunds, RefundClaim(p, q)
      PROVE  refund'[r] = refund[r]
  BY <1>2, <1>0 DEF RefundClaim
<1>3. ASSUME NEW p \in Procs, StoreToken(p)
      PROVE  refund'[r].state = refund[r].state
  BY <1>3, <1>0 DEF StoreToken, RefundRows
<1>4. ASSUME NEW p \in Procs, RefundUncertain(p)
      PROVE  refund'[r] = refund[r]
  BY <1>4, <1>0 DEF RefundUncertain
<1>5. ASSUME NEW p \in Procs, RefundApply(p)
      PROVE  refund'[r].state = refund[r].state
  BY <1>5, <1>0 DEF RefundApply, Verdict, RefundRows
<1> QED
  BY <1>1, <1>2, <1>3, <1>4, <1>5
  DEF Next, vars, Pay, GiveBack, Crash, Debit, FlowDecides, FlowReverses,
      DispatchClaim, Observe, CreatePayment, StoreCreated, DispatchUncertain,
      Settle, RefundCallback, CreateRefund, RefundConfirm

\* A captured payment stays captured.
LEMMA CaptureStays ==
  ASSUME IInv, [Next]_vars, NEW o \in Orders, order[o] = "succeeded"
  PROVE  order'[o] = "succeeded"
<1>0. order \in [Orders -> OrderStates]
  BY DEF IInv, TypeOK
<1>1. ASSUME NEW p \in Procs, Settle(p) PROVE order'[o] = "succeeded"
  BY <1>1, <1>0 DEF Settle, Folded
<1>2. ASSUME NEW p \in Procs, NEW q \in Orders, DispatchClaim(p, q)
      PROVE  order'[o] = "succeeded"
  BY <1>2, <1>0 DEF DispatchClaim
<1>3. ASSUME NEW p \in Procs, StoreCreated(p) \/ DispatchUncertain(p)
      PROVE  order'[o] = "succeeded"
  BY <1>3, <1>0 DEF StoreCreated, DispatchUncertain
<1> QED
  BY <1>1, <1>2, <1>3
  DEF Next, vars, Pay, GiveBack, Crash, Debit, FlowDecides, FlowReverses,
      Observe, CreatePayment, RefundClaim, RefundCallback, CreateRefund,
      StoreToken, RefundConfirm, RefundUncertain, RefundApply, RefundPrepare

\* A verified outcome of _settle or refunds.confirm is final.
THEOREM Final == Spec => OutcomesStay
<1>1. IInv /\ [Next]_vars =>
        [/\ \A o \in Orders : order[o] = "succeeded" => order'[o] = "succeeded"
         /\ \A r \in Refunds :
              refund[r].state \in Done =>
                refund'[r].state = refund[r].state]_vars
  BY RefundOutcomeStays, CaptureStays
<1> QED
  BY <1>1, Invariance, PTL DEF Spec, OutcomesStay

-----------------------------------------------------------------------------
(* What Flow is asked to return.  RefundPrepare counts every operation of  *)
(* the order, whatever became of it; the sum it keeps within the price is  *)
(* an invariant on top of IInv, and what was sent is part of it.           *)

\* The units of an order's price that its refunds ask back.
Asked(o) ==
  {u \in Refunds \X (1 .. Amount) :
     refund[u[1]].order = o /\ u[2] <= refund[u[1]].amount}

AskedCovered == \A o \in Orders : Reserved(o) <= Amount

\* Two finite sets have together at most as many elements as one by one.
LEMMA UnionBound ==
  ASSUME NEW S, NEW T, IsFiniteSet(S), IsFiniteSet(T)
  PROVE  /\ IsFiniteSet(S \cup T)
         /\ Cardinality(S \cup T) <= Cardinality(S) + Cardinality(T)
<1>1. Cardinality(S \cup T)
        = Cardinality(S) + Cardinality(T) - Cardinality(S \cap T)
      /\ IsFiniteSet(S \cup T)
  BY FS_Union
<1>2. /\ Cardinality(S \cap T) \in Nat /\ Cardinality(S) \in Nat
      /\ Cardinality(T) \in Nat
  BY FS_Intersection, FS_CardinalityType
<1> QED
  BY <1>1, <1>2

\* There are finitely many units to ask for.
LEMMA AskedFinite ==
  ASSUME NEW o
  PROVE  /\ IsFiniteSet(Asked(o))
         /\ Reserved(o) = Cardinality(Asked(o)) /\ Reserved(o) \in Nat
<1>1. IsFiniteSet(1 .. Amount)
  BY AmountAssumption, FS_Interval
<1>2. IsFiniteSet(Refunds \X (1 .. Amount))
  BY <1>1, RefundsAssumption, FS_Product
<1>3. IsFiniteSet(Asked(o))
  BY <1>2, FS_Subset DEF Asked
<1>4. Reserved(o) = Cardinality(Asked(o))
  BY DEF Asked, Reserved
<1> QED
  BY <1>3, <1>4, FS_CardinalityType

\* Once prepared, a refund keeps its order and its amount.
LEMMA RefundTerms ==
  ASSUME IInv, [Next]_vars, NEW r \in Refunds,
         \A q \in Refunds, o \in Orders, amount \in 1 .. Amount,
            reverse \in BOOLEAN : ~ RefundPrepare(q, o, amount, reverse)
  PROVE  refund'[r].order = refund[r].order /\ refund'[r].amount = refund[r].amount
<1>0. refund \in [Refunds -> RefundRows]
  BY DEF IInv, TypeOK
<1>1. ASSUME NEW p \in Procs, NEW q \in Refunds, RefundClaim(p, q)
      PROVE  refund'[r].order = refund[r].order
             /\ refund'[r].amount = refund[r].amount
  BY <1>1, <1>0 DEF RefundClaim, RefundRows
<1>2. ASSUME NEW p \in Procs, StoreToken(p) \/ RefundUncertain(p) \/ RefundApply(p)
      PROVE  refund'[r].order = refund[r].order
             /\ refund'[r].amount = refund[r].amount
  BY <1>2, <1>0 DEF StoreToken, RefundUncertain, RefundApply, RefundRows
<1> QED
  BY <1>1, <1>2
  DEF Next, vars, Pay, GiveBack, Crash, Debit, FlowDecides, FlowReverses,
      DispatchClaim, Observe, CreatePayment, StoreCreated, DispatchUncertain,
      Settle, RefundCallback, CreateRefund, RefundConfirm

\* A refund that is prepared asks for its own amount and nothing else.
LEMMA PrepareCovered ==
  ASSUME IInv, AskedCovered, NEW r \in Refunds, NEW o \in Orders,
         NEW amount \in 1 .. Amount, NEW reverse \in BOOLEAN,
         RefundPrepare(r, o, amount, reverse)
  PROVE  AskedCovered'
<1> SUFFICES ASSUME NEW z \in Orders PROVE Reserved(z)' <= Amount
  BY DEF AskedCovered
<1>0. refund \in [Refunds -> RefundRows] /\ refund' = [refund EXCEPT ![r] =
        [state |-> "prepared", order |-> o, amount |-> amount,
         reverse |-> reverse, bound |-> FALSE]]
  BY DEF IInv, TypeOK, RefundPrepare
<1> DEFINE own == {r} \X (1 .. amount)
<1>1. IsFiniteSet(own) /\ Cardinality(own) = amount
  <2>1. IsFiniteSet(1 .. amount) /\ Cardinality(1 .. amount) = amount
    BY FS_Interval
  <2>2. IsFiniteSet({r}) /\ Cardinality({r}) = 1
    BY FS_Singleton
  <2>3. IsFiniteSet(own) /\ Cardinality(own) = 1 * amount
    BY <2>1, <2>2, FS_Product
  <2> QED
    BY <2>3
<1>2. IsFiniteSet(Asked(z)) /\ Reserved(z) = Cardinality(Asked(z))
      /\ Reserved(z) \in Nat /\ Reserved(z) <= Amount
  BY AskedFinite DEF AskedCovered
<1>3. Reserved(z)' = Cardinality(Asked(z)')
  BY DEF Asked, Reserved
<1>4. CASE z = o
  <2>1. Asked(z)' \subseteq Asked(z) \cup own
    <3> SUFFICES ASSUME NEW u \in Asked(z)', u \notin own PROVE u \in Asked(z)
      OBVIOUS
    <3>1. u \in Refunds \X (1 .. Amount)
          /\ refund'[u[1]].order = z /\ u[2] <= refund'[u[1]].amount
      BY DEF Asked
    <3>2. u[1] # r
      <4> SUFFICES ASSUME u[1] = r PROVE FALSE
        OBVIOUS
      <4>1. refund'[r].amount = amount
        BY <1>0
      <4>2. u[2] \in 1 .. amount
        BY <3>1, <4>1
      <4> QED
        BY <3>1, <4>2
    <3>3. refund'[u[1]] = refund[u[1]]
      BY <1>0, <3>1, <3>2
    <3> QED
      BY <3>1, <3>3 DEF Asked
  <2>2. IsFiniteSet(Asked(z) \cup own)
        /\ Cardinality(Asked(z) \cup own) <= Reserved(z) + amount
    BY <1>1, <1>2, UnionBound
  <2>3. Cardinality(Asked(z)') <= Cardinality(Asked(z) \cup own)
    BY <2>1, <2>2, FS_Subset
  <2>4. Reserved(z) + amount <= Amount
    BY <1>4 DEF RefundPrepare
  <2>5. Cardinality(Asked(z)') \in Nat /\ Cardinality(Asked(z) \cup own) \in Nat
    BY <2>1, <2>2, FS_Subset, FS_CardinalityType
  <2> QED
    BY <1>2, <1>3, <2>2, <2>3, <2>4, <2>5, AmountAssumption
<1>5. CASE z # o
  <2>1. Asked(z)' \subseteq Asked(z)
    <3> SUFFICES ASSUME NEW u \in Asked(z)' PROVE u \in Asked(z)
      OBVIOUS
    <3>1. u \in Refunds \X (1 .. Amount)
          /\ refund'[u[1]].order = z /\ u[2] <= refund'[u[1]].amount
      BY DEF Asked
    <3>2. u[1] # r /\ refund'[u[1]] = refund[u[1]]
      BY <1>0, <1>5, <3>1
    <3> QED
      BY <3>1, <3>2 DEF Asked
  <2>2. Cardinality(Asked(z)') <= Cardinality(Asked(z))
        /\ Cardinality(Asked(z)') \in Nat
    BY <1>2, <2>1, FS_Subset, FS_CardinalityType
  <2> QED
    BY <1>2, <1>3, <2>2, AmountAssumption
<1> QED
  BY <1>4, <1>5

\* The refunds of an order never ask for more than it cost.
LEMMA AskedInvariance == Spec => [](IInv /\ AskedCovered)
<1>1. Init => AskedCovered
  <2> SUFFICES ASSUME Init, NEW o \in Orders PROVE Reserved(o) <= Amount
    BY DEF AskedCovered
  <2>1. Asked(o) = {}
    BY NullAssumption DEF Asked, Init
  <2> QED
    BY <2>1, FS_EmptySet, AskedFinite, AmountAssumption
<1>2. IInv /\ AskedCovered /\ [Next]_vars => AskedCovered'
  <2> SUFFICES ASSUME IInv, AskedCovered, [Next]_vars PROVE AskedCovered'
    OBVIOUS
  <2>1. CASE \E r \in Refunds, o \in Orders, amount \in 1 .. Amount,
               reverse \in BOOLEAN : RefundPrepare(r, o, amount, reverse)
    BY <2>1, PrepareCovered
  <2>2. CASE \A r \in Refunds, o \in Orders, amount \in 1 .. Amount,
               reverse \in BOOLEAN : ~ RefundPrepare(r, o, amount, reverse)
    <3> SUFFICES ASSUME NEW o \in Orders PROVE Reserved(o)' <= Amount
      BY DEF AskedCovered
    <3>1. \A r \in Refunds : /\ refund'[r].order = refund[r].order
                             /\ refund'[r].amount = refund[r].amount
      BY <2>2, RefundTerms
    <3>2. Asked(o)' = Asked(o)
      BY <3>1 DEF Asked
    <3> QED
      BY <3>2, AskedFinite DEF AskedCovered, Asked, Reserved
  <2> QED
    BY <2>1, <2>2
<1> QED
  BY <1>1, <1>2, Invariance, PTL DEF Spec

\* refunds.dispatch never asks Flow for more of an order than refunds.prepare
\* let its operations reserve, and those together never for more than it cost.
THEOREM RefundsWithinPrice == Spec => []RefundsCovered
<1>1. IInv /\ AskedCovered => RefundsCovered
  <2> SUFFICES ASSUME IInv, AskedCovered, NEW o \in Orders
               PROVE  Cardinality(UNION {{r} \X (1 .. reversal[r].posts * refund[r].amount) :
                         r \in {x \in Refunds : refund[x].order = o}}) <= Amount
    BY DEF RefundsCovered
  <2> DEFINE sent == UNION {{r} \X (1 .. reversal[r].posts * refund[r].amount) :
                         r \in {x \in Refunds : refund[x].order = o}}
  <2>1. sent \subseteq Asked(o)
    <3> SUFFICES ASSUME NEW u \in sent PROVE u \in Asked(o)
      OBVIOUS
    <3>1. PICK r \in Refunds :
            refund[r].order = o
            /\ u \in {r} \X (1 .. reversal[r].posts * refund[r].amount)
      OBVIOUS
    <3>2. refund[r].amount \in 0 .. Amount /\ reversal[r].posts \in {0, 1}
      <4>1. refund[r] \in RefundRows /\ reversal[r] \in Reversals
            /\ reversal[r].posts <= 1
        BY DEF IInv, TypeOK, RefundClaimed
      <4>2. refund[r].amount \in 0 .. Amount
        BY <4>1 DEF RefundRows
      <4>3. reversal[r].posts \in Nat
        BY <4>1 DEF Reversals
      <4> QED
        BY <4>1, <4>2, <4>3
    <3>3. reversal[r].posts * refund[r].amount <= refund[r].amount
      BY <3>2, AmountAssumption
    <3>4. u[1] = r /\ u[2] \in 1 .. reversal[r].posts * refund[r].amount
          /\ u = <<u[1], u[2]>>
      BY <3>1
    <3>5. u[2] \in 1 .. Amount /\ u[2] <= refund[r].amount
      BY <3>2, <3>3, <3>4, AmountAssumption
    <3> QED
      BY <3>1, <3>4, <3>5 DEF Asked
  <2>2. IsFiniteSet(Asked(o)) /\ Cardinality(Asked(o)) \in Nat
        /\ Cardinality(Asked(o)) <= Amount
    BY AskedFinite DEF AskedCovered
  <2>3. Cardinality(sent) <= Cardinality(Asked(o)) /\ Cardinality(sent) \in Nat
    BY <2>1, <2>2, FS_Subset, FS_CardinalityType
  <2> QED
    BY <2>2, <2>3, AmountAssumption
<1> QED
  BY <1>1, AskedInvariance, PTL
=============================================================================
