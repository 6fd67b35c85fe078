---------------------------- MODULE PaymentLinks ----------------------------
(***************************************************************************)
(* The collection of one sealed CLP deal: projects/payment_links (a charge *)
(* through Flow), projects/simulated_flow (the same without Flow) and the  *)
(* payments a user records or voids by hand in projects/payments.  All     *)
(* three write one ledger.                                                 *)
(*                                                                         *)
(* A link is claimed, POSTed and its outcome learnt by GETs whose answers  *)
(* are folded in later, in any order.  The payer's portal commits the      *)
(* claim before the POST.  The office's view runs the whole of create_link *)
(* inside its own transaction: nobody sees the row before the reply is     *)
(* stored, the project's row stays locked meanwhile, and an error or a     *)
(* death takes the row back with whatever had been written on it.          *)
(*                                                                         *)
(* Elsewhere that row lock makes each transaction below one step.  Voiding *)
(* takes no lock, but it only lowers the sum a settlement has read, so     *)
(* its commit may be placed after the settlement's.                        *)
(***************************************************************************)
EXTENDS Integers, FiniteSets

CONSTANTS
  Links,      \* operation keys of links
  Staff,      \* those that the office mints; the others are the portal's
  Manual,     \* operation keys of payments recorded by hand
  Procs,      \* requests and callbacks at work
  None,
  Total,      \* the sealed total of the deal
  Simulate,   \* collection_preferences.simulation_enabled
  Retriable,  \* Flow lets the payer of a rejected order try again
  MaxPosts,   \* bound: POSTs of one key
  Crashable   \* the processes that may die, each once

ASSUME TotalAssumption == Total \in Nat \ {0}

ASSUME KeysAssumption ==
  /\ Links \cap Manual = {} /\ Staff \subseteq Links /\ MaxPosts \in Nat
  /\ None \notin Links
  /\ IsFiniteSet(Links \cup Manual)
  /\ Crashable \subseteq Procs
  /\ {Simulate, Retriable} \subseteq BOOLEAN

VARIABLES
  link,     \* project_payment_links
  ledger,   \* project_payments, by operation key
  flow,     \* Flow: the order of a link and how often it was asked for
  proc,
  orphaned, \* history: the keys whose claim was rolled back after its POST
  crashed

vars == <<link, ledger, flow, proc, orphaned, crashed>>

Keys == Links \cup Manual

Amounts == 1 .. Total

\* "NONE": no row.  CANCELLED is only ever a simulated link's.
LinkRows ==
  [status : {"NONE", "DISPATCHING", "PENDING", "UNCERTAIN", "PAID", "FAILED",
             "CANCELLED"},
   amount : 0 .. Total,
   sim    : BOOLEAN,     \* environment = 'simulated'
   url    : BOOLEAN,     \* the payer's address is stored
   past   : BOOLEAN]     \* a simulated link after expires_at

\* amount 0: no row; over is the excess the note asks to give back.
PaymentRows == [amount : 0 .. Total, over : Nat, voided : BOOLEAN]

\* Flow's statuses 1 to 4.  A POST "sent" without a reply may still arrive.
Statuses == {"pending", "paid", "rejected", "annulled"}

FlowOrders == [status : Statuses \cup {"none", "sent"}, posts : Nat]

ProcRows ==
  [at  : {"idle", "post", "store", "lost", "settle"},
   on  : Links \cup {None},
   saw : Statuses \cup {"none"}]

Idle == [at |-> "idle", on |-> None, saw |-> "none"]

TypeOK ==
  /\ link \in [Links -> LinkRows]
  /\ ledger \in [Keys -> PaymentRows]
  /\ flow \in [Links -> FlowOrders]
  /\ proc \in [Procs -> ProcRows]
  /\ orphaned \subseteq Staff
  /\ crashed \subseteq Crashable
  /\ \A p \in Procs :
       /\ proc[p].at # "idle" => proc[p].on \in Links
       /\ proc[p].at = "settle" => proc[p].saw \in Statuses

NoLink == [status |-> "NONE", amount |-> 0, sim |-> FALSE, url |-> FALSE,
           past |-> FALSE]

Init ==
  /\ link = [k \in Links |-> NoLink]
  /\ ledger = [k \in Keys |-> [amount |-> 0, over |-> 0, voided |-> FALSE]]
  /\ flow = [k \in Links |-> [status |-> "none", posts |-> 0]]
  /\ proc = [p \in Procs |-> Idle]
  /\ orphaned = {}
  /\ crashed = {}

Goto(p, at, k, saw) ==
  proc' = [proc EXCEPT ![p] = [at |-> at, on |-> k, saw |-> saw]]

Return(p) == proc' = [proc EXCEPT ![p] = Idle]

Standing(k) == ledger[k].amount > 0 /\ ~ledger[k].voided

\* The money of some payments, one pair of key and number for each unit: the
\* cardinality of this set is the sum of their amounts.
Money(V) == {u \in V \X Amounts : u[2] <= ledger[u[1]].amount}

\* SUM(amount) ... WHERE voided_at IS NULL, and what collection_summary makes
\* of it and the total.
Collected == Cardinality(Money({k \in Keys : Standing(k)}))

Balance == Total - Collected

Excess(a) == IF a > Balance THEN a - Balance ELSE 0
-----------------------------------------------------------------------------
(* Minting a charge                                                        *)

Minting(p) == proc[p].at \in {"post", "store", "lost"}

\* The row of k is written in a transaction of the office that is still open.
Uncommitted(k) == k \in Staff /\ \E p \in Procs : Minting(p) /\ proc[p].on = k

\* Such a transaction has the project's row: who else wants it waits.
ProjectLocked == \E k \in Links : Uncommitted(k)

\* MUTANT: a claim still at Flow does not count as a live charge.
LivePending(k) == link[k].status \in {"PENDING", "UNCERTAIN"}

\* What blocks another charge.  A simulated one blocks past its expiry too.
Live(k) == link[k].status \in {"DISPATCHING", "PENDING", "UNCERTAIN"}

\* create_link up to the claim, which the portal commits.  A key that has a row
\* returns it, an identical charge with a payer's address is handed out again,
\* and any other live charge is a 409: none of the three changes anything.
CreateClaim(p, k, a) ==
  /\ proc[p].at = "idle" /\ ~ProjectLocked
  /\ link[k].status = "NONE" /\ flow[k].posts < MaxPosts
  /\ a <= Balance
  /\ ~ \E j \in Links : Live(j)
  /\ link' = [link EXCEPT ![k] =
       [status |-> "DISPATCHING", amount |-> a, sim |-> FALSE,
        url |-> FALSE, past |-> FALSE]]
  /\ Goto(p, "post", k, "none")
  /\ UNCHANGED <<ledger, flow, orphaned, crashed>>

\* client.create_payment.  No reply, or an unusable one, is a FlowError.  Flow
\* may turn down a key it has had before, or make a new order of it.
CreatePayment(p) ==
  LET k == proc[p].on IN
  /\ proc[p].at = "post"
  /\ \E s \in {"pending", "sent"} \cup (IF flow[k].posts > 0 THEN {flow[k].status} ELSE {}),
        to \in {"store", "lost"} :
       /\ to = "store" => s = "pending"
       /\ flow' = [flow EXCEPT ![k] = [status |-> s, posts |-> @.posts + 1]]
       /\ Goto(p, to, k, "none")
  /\ UNCHANGED <<link, ledger, orphaned, crashed>>

\* The reply is stored unless an observation has closed the link meanwhile.
StoreCreated(p) ==
  LET k == proc[p].on IN
  /\ proc[p].at = "store"
  /\ link' = IF link[k].status \in {"DISPATCHING", "PENDING"}
               THEN [link EXCEPT ![k].status = "PENDING", ![k].url = TRUE]
               ELSE link
  /\ Return(p)
  /\ UNCHANGED <<ledger, flow, orphaned, crashed>>

\* The UNCERTAIN mark stays on the portal's path; the 503 that follows it takes
\* the office's whole transaction back.
MarkUncertain(p) ==
  LET k == proc[p].on IN
  /\ proc[p].at = "lost"
  /\ IF k \in Staff
       THEN link' = [link EXCEPT ![k] = NoLink] /\ orphaned' = orphaned \cup {k}
       ELSE /\ link' = IF link[k].status = "DISPATCHING"
                         THEN [link EXCEPT ![k].status = "UNCERTAIN"]
                         ELSE link
            /\ UNCHANGED orphaned
  /\ Return(p)
  /\ UNCHANGED <<ledger, flow, crashed>>
-----------------------------------------------------------------------------
(* Learning the outcome                                                    *)

\* confirm_link: Flow calls back with the order's token, which the code only
\* uses to ask for the status.  Calls are repeated and come late.
ConfirmLink(p, k) ==
  /\ proc[p].at = "idle"
  /\ link[k].status # "NONE" /\ ~Uncommitted(k)
  /\ ~link[k].sim
  /\ flow[k].status \in Statuses
  /\ Goto(p, "settle", k, flow[k].status)
  /\ UNCHANGED <<link, ledger, flow, orphaned, crashed>>

\* recover_link asks by commerceOrder; an order Flow does not know is an error.
RecoverLink(p, k) ==
  /\ proc[p].at = "idle"
  /\ link[k].status \notin {"NONE", "PAID"} /\ ~Uncommitted(k)
  /\ ~link[k].sim
  /\ flow[k].status \in Statuses
  /\ Goto(p, "settle", k, flow[k].status)
  /\ UNCHANGED <<link, ledger, flow, orphaned, crashed>>

\* _settle, the link already PAID.
SettleAgain(p) ==
  LET k == proc[p].on IN
  /\ proc[p].at = "settle" /\ ~ProjectLocked
  /\ link[k].status = "PAID"
  /\ Return(p)
  /\ UNCHANGED <<link, ledger, flow, orphaned, crashed>>

\* _settle, status 1: no payer's address comes with it, and an UNCERTAIN link
\* stays UNCERTAIN.
SettlePending(p) ==
  LET k == proc[p].on IN
  /\ proc[p].at = "settle" /\ ~ProjectLocked
  /\ proc[p].saw = "pending"
  /\ link[k].status # "PAID"
  /\ link' = IF link[k].status = "DISPATCHING"
               THEN [link EXCEPT ![k].status = "PENDING"]
               ELSE link
  /\ Return(p)
  /\ UNCHANGED <<ledger, flow, orphaned, crashed>>

\* MUTANT: a failure seen earlier overwrites a payment.
SettleFailedLate(p) ==
  LET k == proc[p].on IN
  /\ proc[p].at = "settle" /\ ~ProjectLocked
  /\ proc[p].saw \in {"rejected", "annulled"}
  /\ link' = [link EXCEPT ![k].status = "FAILED"]
  /\ Return(p)
  /\ UNCHANGED <<ledger, flow, orphaned, crashed>>


\* _settle, status 3 or 4.
SettleFailed(p) ==
  LET k == proc[p].on IN
  /\ proc[p].at = "settle" /\ ~ProjectLocked
  /\ proc[p].saw \in {"rejected", "annulled"}
  /\ link[k].status # "PAID"
  /\ link' = [link EXCEPT ![k].status = "FAILED"]
  /\ Return(p)
  /\ UNCHANGED <<ledger, flow, orphaned, crashed>>

\* MUTANT: the amount was checked when the link was minted, so it fits.
SettlePaidTrusting(p) ==
  LET k == proc[p].on IN
  /\ proc[p].at = "settle" /\ ~ProjectLocked
  /\ proc[p].saw = "paid"
  /\ link[k].status # "PAID"
  /\ ledger' = [ledger EXCEPT ![k] =
       [amount |-> link[k].amount, over |-> 0, voided |-> FALSE]]
  /\ link' = [link EXCEPT ![k].status = "PAID"]
  /\ Return(p)
  /\ UNCHANGED <<flow, orphaned, crashed>>

\* _settle, status 2: the money has arrived, so it is recorded whatever became
\* of the balance, and the note names the excess.
SettlePaid(p) ==
  LET k == proc[p].on IN
  /\ proc[p].at = "settle" /\ ~ProjectLocked
  /\ proc[p].saw = "paid"
  /\ link[k].status # "PAID"
  /\ ledger' = IF ledger[k].amount > 0
                 THEN ledger
                 ELSE [ledger EXCEPT ![k] =
                        [amount |-> link[k].amount,
                         over   |-> Excess(link[k].amount),
                         voided |-> FALSE]]
  /\ link' = [link EXCEPT ![k].status = "PAID"]
  /\ Return(p)
  /\ UNCHANGED <<flow, orphaned, crashed>>
-----------------------------------------------------------------------------
(* Simulated links: no provider, no process between two transactions       *)

\* A simulated link that expired is cancelled here, and only here.  The form
\* that a key belongs to is simulated from the start or not at all.
SimulatedCreate(k, a) ==
  LET expired == {j \in Links : link[j].sim /\ link[j].status = "PENDING"
                                /\ link[j].past}
  IN
  /\ Simulate /\ ~ProjectLocked
  /\ link[k].status = "NONE" /\ flow[k].posts = 0
  /\ a <= Balance
  /\ ~ \E j \in Links \ expired : Live(j)
  /\ link' = [j \in Links |->
       IF j = k THEN [status |-> "PENDING", amount |-> a, sim |-> TRUE,
                      url |-> TRUE, past |-> FALSE]
       ELSE IF j \in expired THEN [link[j] EXCEPT !.status = "CANCELLED"]
       ELSE link[j]]
  /\ UNCHANGED <<ledger, flow, proc, orphaned, crashed>>

Expire(k) ==
  /\ link[k].sim /\ link[k].status = "PENDING" /\ ~link[k].past
  /\ link' = [link EXCEPT ![k].past = TRUE]
  /\ UNCHANGED <<ledger, flow, proc, orphaned, crashed>>

\* simulated_flow.confirm.  Unlike real money it is refused over the balance.
SimulatedConfirm(k, paid) ==
  /\ Simulate /\ ~ProjectLocked
  /\ link[k].sim /\ link[k].status = "PENDING" /\ ~link[k].past
  /\ link[k].amount <= Balance
  /\ link' = [link EXCEPT ![k].status = IF paid THEN "PAID" ELSE "FAILED"]
  /\ ledger' = IF paid
                 THEN [ledger EXCEPT ![k] = [amount |-> link[k].amount,
                                             over |-> 0, voided |-> FALSE]]
                 ELSE ledger
  /\ UNCHANGED <<flow, proc, orphaned, crashed>>
-----------------------------------------------------------------------------
(* The ledger by hand                                                      *)

\* record_payment: live links are not looked at.
RecordPayment(k, a) ==
  /\ ledger[k].amount = 0 /\ ~ProjectLocked
  /\ a <= Balance
  /\ ledger' = [ledger EXCEPT ![k] = [amount |-> a, over |-> 0,
                                      voided |-> FALSE]]
  /\ UNCHANGED <<link, flow, proc, orphaned, crashed>>

VoidPayment(k) ==
  /\ Standing(k)
  /\ ledger' = [ledger EXCEPT ![k].voided = TRUE]
  /\ UNCHANGED <<link, flow, proc, orphaned, crashed>>
-----------------------------------------------------------------------------
(* Flow and the payer.  The address is only known from the reply, so nobody *)
(* can pay an order whose reply was not stored.                            *)

FlowTo(k, s) ==
  /\ flow' = [flow EXCEPT ![k].status = s]
  /\ UNCHANGED <<link, ledger, proc, orphaned, crashed>>

Arrive(k) == flow[k].status = "sent" /\ FlowTo(k, "pending")

\* Flow takes money for this order if its payer tries.
Payable(k) ==
  /\ link[k].url
  /\ flow[k].status \in
       (IF Retriable THEN {"pending", "rejected"} ELSE {"pending"})

Pay(k) == Payable(k) /\ FlowTo(k, "paid")

Reject(k) == Payable(k) /\ flow[k].status = "pending" /\ FlowTo(k, "rejected")

\* The order's timeout, sent with the POST.
Annul(k) == flow[k].status = "pending" /\ FlowTo(k, "annulled")

\* A death in the office's transaction leaves no row.
Crash(p) ==
  LET k == proc[p].on IN
  /\ p \in Crashable \ crashed
  /\ proc[p].at # "idle"
  /\ crashed' = crashed \cup {p}
  /\ IF Minting(p) /\ k \in Staff
       THEN /\ link' = [link EXCEPT ![k] = NoLink]
            /\ orphaned' = IF proc[p].at = "post" THEN orphaned ELSE orphaned \cup {k}
       ELSE UNCHANGED <<link, orphaned>>
  /\ Return(p)
  /\ UNCHANGED <<ledger, flow>>
-----------------------------------------------------------------------------
Settle(p) == SettleAgain(p) \/ SettlePending(p) \/ SettleFailed(p) \/ SettlePaid(p)

Verify(p, k) == ConfirmLink(p, k) \/ RecoverLink(p, k)

Proceed(p) ==
  CreatePayment(p) \/ StoreCreated(p) \/ MarkUncertain(p) \/ Settle(p)

Provider(k) == Arrive(k) \/ Pay(k) \/ Reject(k) \/ Annul(k)

Next ==
  \/ \E p \in Procs : Proceed(p) \/ Crash(p)
  \/ \E p \in Procs, k \in Links, a \in Amounts : CreateClaim(p, k, a)
  \/ \E p \in Procs, k \in Links : Verify(p, k)
  \/ \E k \in Links, a \in Amounts : SimulatedCreate(k, a)
  \/ \E k \in Links, paid \in BOOLEAN : SimulatedConfirm(k, paid)
  \/ \E k \in Links : Expire(k) \/ Provider(k)
  \/ \E k \in Manual, a \in Amounts : RecordPayment(k, a)
  \/ \E k \in Keys : VoidPayment(k)

Spec == Init /\ [][Next]_vars

\* A request that is not killed returns, an order that nobody pays runs into its
\* timeout, and somebody keeps asking after a charge that blocks others: the
\* office has a button for PENDING and UNCERTAIN links, and a DISPATCHING one is
\* the portal's, whose payer the proposal leads to a page that asks.
Fairness ==
  /\ \A p \in Procs : WF_vars(Proceed(p))
  /\ \A k \in Links : /\ SF_vars(Live(k) /\ \E p \in Procs : RecoverLink(p, k))
                      /\ WF_vars(Annul(k))

\* A POST whose reply was lost does reach Flow.
FairSpec == Spec /\ Fairness /\ \A k \in Links : WF_vars(Arrive(k))
-----------------------------------------------------------------------------
(* Properties                                                              *)

\* The ledger and the links agree: a link is PAID exactly when the ledger has
\* its payment, of its amount, and a real one only when Flow took the money.
\* Observations are applied late and twice, and _settle must not undo PAID.
LedgerMatchesLinks ==
  \A k \in Links :
    /\ link[k].status = "PAID" <=> ledger[k].amount > 0
    /\ ledger[k].amount > 0 => ledger[k].amount = link[k].amount
    /\ ledger[k].amount > 0 /\ ~link[k].sim => flow[k].status = "paid"

\* Flow holds an order of k open for a payer, or is about to.
Waiting(k) == flow[k].status \in {"sent", "pending"}

\* create_link's live check: no two orders of the deal wait for a payer at Flow
\* at a time, whatever processes mint, crash and observe, except for orders that
\* a rolled back transaction of the office has left there without a row; and of
\* all of them no two can be paid.
OneOutstanding ==
  \A j, k \in Links :
    Waiting(j) /\ Waiting(k) /\ j # k =>
      /\ {j, k} \cap orphaned # {}
      /\ ~(link[j].url /\ link[k].url)

\* Money over the total is never silent: while the ledger exceeds the deal, a
\* standing payment's note asks for at least that excess to be given back.
ExcessNoted ==
  Collected > Total =>
    \E k \in Links : Standing(k) /\ ledger[k].over >= Collected - Total

\* A charge that blocks others and has no outcome.  What Flow answers for a key
\* that it was sent more than once is not known.
Unsettled(k) == Live(k) /\ flow[k].posts > 0 /\ k \notin orphaned

=============================================================================
