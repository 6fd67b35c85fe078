------------------------------- MODULE Stock -------------------------------
(***************************************************************************)
(* Stock held for work orders: the append-only inventory ledger, the        *)
(* reservation report kept in an order's plan, the stations that consume    *)
(* it, the receipts and manual corrections that change what is on hand, and *)
(* the offcut (remnant) a plan may claim.                                    *)
(*                                                                         *)
(* Every operation on a work order runs in one transaction that locks the   *)
(* order's row first, so an order has at most one transaction.  Planning    *)
(* and rechecking lock the items one by one, in the order of the plan, and  *)
(* keep them to the end: those two are modelled statement by statement.  The *)
(* others read only rows their own lock protects and are one step.           *)
(***************************************************************************)
EXTENDS Integers, Sequences, FiniteSets

CONSTANTS
    Orders,     \* work orders
    Items,      \* inventory items (one per sku and variant)
    Routing,    \* the stations of an order, in sequence
    Plans,      \* the plans the optimizer may compute
    Ordered,    \* [Items -> Nat]: the lines of the purchase order
    Receipts,   \* deliveries the shop may post: [key, item, good, confirm]
    Corrections,\* manual movements: [type, item, quantity]
    Blockable   \* bound: the orders with a station that may be blocked

Materials == {"BAR", "SHEET", "HARDWARE_KIT", "FITTING", "PANEL"}

ASSUME PlansAssumption ==
    \A p \in Plans : /\ p.remnant \in BOOLEAN /\ p.unmapped \in BOOLEAN
                     /\ p.needs \in Seq([kind : Materials, item : Items, needed : Nat \ {0}])

\* Deliveries and manual movements are of items of the catalogue, in whole
\* pieces, and a delivery is never negative.
ASSUME MovesAssumption ==
    /\ IsFiniteSet(Orders)
    /\ \A r \in Receipts : r.item \in Items /\ r.good \in Nat
    /\ \A c \in Corrections : c.item \in Items /\ c.quantity \in Int

Stations == DOMAIN Routing

StepConsumedKinds ==
    [c \in {"CUT", "PROFILE_CUT", "REINFORCEMENT_CUT", "ASSEMBLE", "HARDWARE", "GLAZE"} |->
       CASE c = "CUT" -> {"BAR", "SHEET"}
         [] c \in {"PROFILE_CUT", "REINFORCEMENT_CUT"} -> {"BAR"}
         [] c \in {"ASSEMBLE", "HARDWARE"} -> {"HARDWARE_KIT", "FITTING"}
         [] c = "GLAZE" -> {"PANEL"}]

Kinds(s) == IF Routing[s] \in DOMAIN StepConsumedKinds
            THEN StepConsumedKinds[Routing[s]] ELSE {}

\* Stations that work the plan, consuming stock or not.
Physical(s) == \/ Routing[s] \in DOMAIN StepConsumedKinds
               \/ Routing[s] = "MACHINING"

\* _routing lands a station for every kind of material the order carries.
ASSUME RoutingAssumption ==
    /\ Stations \subseteq Nat
    /\ \A p \in Plans : \A k \in DOMAIN p.needs : \E s \in Stations : p.needs[k].kind \in Kinds(s)

VARIABLES
    onHand,   \* [Items -> Int]: receipts, returns and adjustments less consumption and scrap
    held,     \* [Orders -> [Items -> Int]]: reservations less releases and consumption
    used,     \* [Orders -> [Items -> Nat]]: consumption
    posted,   \* receipts and corrections on the ledger
    plan,     \* [Orders -> payload_json.optimization]
    steps,    \* [Orders -> the statuses of the stations]
    status,   \* [Orders -> orders.status]
    remnant,  \* the offcut: [state, order]
    tx        \* [Orders -> the planning transaction that holds the order's row]

stockVars == <<onHand, held, used, posted, plan, steps, status, remnant, tx>>

NoOrder == "none"

NoPlan == [made |-> FALSE, report |-> <<>>, remnant |-> FALSE,
           unmapped |-> FALSE, invalidated |-> FALSE]

NoTx == [op |-> "none", next |-> 1, plan |-> NoPlan,
         delta |-> [i \in Items |-> 0], locks |-> {}]

\* A sum of amounts, counted piece by piece.
Pieces(f) == UNION {{x} \X (1..f[x]) : x \in DOMAIN f}

SumOf(f) == Cardinality(Pieces(f))

Min2(a, b) == IF a < b THEN a ELSE b

Max0(a) == IF a > 0 THEN a ELSE 0

\* The rows of an order's report that still hold an item, and what they hold.
OpenRows(report, i) == {k \in DOMAIN report : report[k].item = i /\ ~report[k].consumed}

Open(report, i) == SumOf([k \in OpenRows(report, i) |-> report[k].reserved])

\* What the ledger holds of an item, for all orders together.
Held(i) == SumOf([o \in Orders |-> held[o][i]])

StockInit ==
    /\ onHand = [i \in Items |-> 0]
    /\ held = [o \in Orders |-> [i \in Items |-> 0]]
    /\ used = [o \in Orders |-> [i \in Items |-> 0]]
    /\ posted = {}
    /\ plan = [o \in Orders |-> NoPlan]
    /\ steps = [o \in Orders |-> [s \in Stations |-> "READY"]]
    /\ status = [o \in Orders |-> "RELEASED"]
    /\ remnant = [state |-> "AVAILABLE", order |-> NoOrder]
    /\ tx = [o \in Orders |-> NoTx]

----------------------------------------------------------------------------
(* Planning: optimize_work_order and recheck_work_order_material            *)

\* The row lock of the order: nobody else is in a transaction on it.
Unlocked(o) == tx[o].op = "none"

Blank(need) == [kind |-> need.kind, item |-> need.item, needed |-> need.needed,
                reserved |-> 0, short |-> need.needed, consumed |-> FALSE]

\* The offcut as release_reservations leaves it for this order to claim.
Claimable(o) ==
    /\ remnant.state = "AVAILABLE" \/ remnant = [state |-> "RESERVED", order |-> o]
    /\ \A p \in Orders : tx[p].op = "optimize" => ~tx[p].plan.remnant

\* A new plan: refused once a physical station is running or finished.  What
\* the order held is released, its offcut freed and the new one claimed.
BeginOptimize(o) ==
    /\ Unlocked(o)
    /\ status[o] \in {"RELEASED", "IN_PROGRESS", "HOLD"}
    /\ \A s \in Stations : Physical(s) => steps[o][s] \notin {"DONE", "IN_PROGRESS"}
    /\ \E p \in Plans :
         /\ p.remnant => Claimable(o)
         /\ tx' = [tx EXCEPT ![o] =
               [op |-> "optimize", next |-> 1,
                plan |-> [made |-> TRUE,
                          report |-> [k \in DOMAIN p.needs |-> Blank(p.needs[k])],
                          remnant |-> p.remnant, unmapped |-> p.unmapped,
                          invalidated |-> FALSE],
                delta |-> [i \in Items |-> -Max0(held[o][i])], locks |-> {}]]
    /\ UNCHANGED <<onHand, held, used, posted, plan, steps, status, remnant>>

\* Top up the short rows of the plan from live stock.
BeginRecheck(o) ==
    /\ Unlocked(o)
    /\ status[o] # "CANCELLED"
    /\ plan[o].made /\ ~plan[o].invalidated
    /\ tx' = [tx EXCEPT ![o] = [NoTx EXCEPT !.op = "recheck", !.plan = plan[o]]]
    /\ UNCHANGED <<onHand, held, used, posted, plan, steps, status, remnant>>

\* The rows of the report that still ask for stock: consumed rows and rows that
\* lack nothing are passed over.
Rows(o) == {k \in DOMAIN tx[o].plan.report :
              k >= tx[o].next /\ ~tx[o].plan.report[k].consumed /\ tx[o].plan.report[k].short > 0}

First(o) == CHOOSE k \in Rows(o) : \A j \in Rows(o) : k <= j

Asks(o) == tx[o].op # "none" /\ Rows(o) # {}

Entry(o) == tx[o].plan.report[First(o)]

\* What _balances reads: committed rows and this transaction's own.
Available(o, i) == onHand[i] - Held(i) - tx[o].delta[i]

Blockers(o) == {p \in Orders \ {o} : Asks(o) /\ Entry(o).item \in tx[p].locks}

\* A row of the report that gained what was granted to it.
TopUp(row, grant) == [row EXCEPT !.reserved = row.reserved + grant, !.short = row.short - grant]

Granted(o, grant, locks) ==
    LET t == tx[o]
        i == Entry(o).item
    IN  tx' = [tx EXCEPT ![o] =
                 [t EXCEPT !.next = First(o) + 1,
                           !.delta = [t.delta EXCEPT ![i] = t.delta[i] + grant],
                           !.plan.report[First(o)] = TopUp(Entry(o), grant),
                           !.locks = t.locks \cup locks]]

\* MUTANT: the balance is read without locking the item's row.
ReserveUnlocked(o) ==
    /\ Asks(o)
    /\ LET i == Entry(o).item
       IN  Granted(o, Min2(Entry(o).short, Max0(Available(o, i))), {})
    /\ UNCHANGED <<onHand, held, used, posted, plan, steps, status, remnant>>

\* Lock the item, read its balance, hold what is there up to what is missing.
Reserve(o) ==
    /\ Asks(o) /\ Blockers(o) = {}
    /\ LET i == Entry(o).item
       IN  Granted(o, Min2(Entry(o).short, Max0(Available(o, i))), {i})
    /\ UNCHANGED <<onHand, held, used, posted, plan, steps, status, remnant>>

\* The offcut after the plan's transaction: released, then claimed if planned.
RemnantOf(o) ==
    IF tx[o].op = "recheck" THEN remnant
    ELSE IF tx[o].plan.remnant THEN [state |-> "RESERVED", order |-> o]
    ELSE IF remnant = [state |-> "RESERVED", order |-> o]
         THEN [state |-> "AVAILABLE", order |-> NoOrder]
    ELSE remnant

\* The plan is written to the order's payload and everything commits.
Commit(o) ==
    /\ tx[o].op # "none" /\ ~Asks(o)
    /\ held' = [held EXCEPT ![o] = [i \in Items |-> held[o][i] + tx[o].delta[i]]]
    /\ plan' = [plan EXCEPT ![o] = tx[o].plan]
    /\ remnant' = RemnantOf(o)
    /\ tx' = [tx EXCEPT ![o] = NoTx]
    /\ UNCHANGED <<onHand, used, posted, steps, status>>

\* The request dies or is refused: nothing of the transaction remains.
Rollback(o) ==
    /\ tx[o].op # "none"
    /\ tx' = [tx EXCEPT ![o] = NoTx]
    /\ UNCHANGED <<onHand, held, used, posted, plan, steps, status, remnant>>

\* Plans that take the same items in different orders wait on each other.
Deadlocked(o) ==
    \E C \in SUBSET Orders :
      /\ o \in C
      /\ \A p \in C : /\ Blockers(p) \cap C # {}
                     /\ \E q \in C : p \in Blockers(q)

\* PostgreSQL ends one transaction of a cycle of waits.
DeadlockAbort(o) ==
    /\ Deadlocked(o)
    /\ tx' = [tx EXCEPT ![o] = NoTx]
    /\ UNCHANGED <<onHand, held, used, posted, plan, steps, status, remnant>>

----------------------------------------------------------------------------
(* The floor: transition_step, cancel_work_order, dispatch                  *)

\* _refresh_order_status.
Aggregate(st) ==
    CASE \A s \in Stations : st[s] = "DONE" -> "COMPLETED"
      [] \E s \in Stations : st[s] = "BLOCKED" -> "HOLD"
      [] /\ \A s \in Stations : st[s] # "BLOCKED"
         /\ \E s \in Stations : st[s] \in {"DONE", "IN_PROGRESS"}
         /\ \E s \in Stations : st[s] # "DONE" -> "IN_PROGRESS"
      [] OTHER -> "RELEASED"

Moves(o, s, to) ==
    /\ steps' = [steps EXCEPT ![o][s] = to]
    /\ status' = [status EXCEPT ![o] = Aggregate(steps'[o])]

OnFloor(o) == Unlocked(o) /\ status[o] \in {"RELEASED", "IN_PROGRESS", "HOLD"}

Start(o, s) ==
    /\ OnFloor(o)
    /\ steps[o][s] = "READY"
    /\ \A e \in Stations : e < s => steps[o][e] = "DONE"
    /\ Physical(s) => plan[o].made /\ ~plan[o].invalidated
    /\ Moves(o, s, "IN_PROGRESS")
    /\ UNCHANGED <<onHand, held, used, posted, plan, remnant, tx>>

\* BLOCK, or a failed check that blocks the station.
Block(o, s) ==
    /\ OnFloor(o) /\ o \in Blockable
    /\ steps[o][s] \in {"READY", "IN_PROGRESS"}
    /\ Moves(o, s, "BLOCKED")
    /\ UNCHANGED <<onHand, held, used, posted, plan, remnant, tx>>

Unblock(o, s) ==
    /\ OnFloor(o)
    /\ steps[o][s] = "BLOCKED"
    /\ Moves(o, s, "READY")
    /\ UNCHANGED <<onHand, held, used, posted, plan, remnant, tx>>

\* The rows of the plan a station settles.
Settled(o, s) == {k \in DOMAIN plan[o].report :
                    plan[o].report[k].kind \in Kinds(s) /\ ~plan[o].report[k].consumed}

\* A consuming station needs a live plan with nothing short or unmapped.
MaterialReady(o, s) ==
    /\ plan[o].made /\ ~plan[o].invalidated /\ ~plan[o].unmapped
    /\ \A k \in Settled(o, s) : plan[o].report[k].short = 0

\* The planned offcut is still this order's, or already consumed by it.
RemnantReady(o) ==
    plan[o].remnant => remnant.order = o /\ remnant.state \in {"RESERVED", "CONSUMED"}

\* consume_for_order: what the settled rows held of an item.
Quantity(o, s, i) ==
    SumOf([k \in {j \in Settled(o, s) : plan[o].report[j].item = i} |-> plan[o].report[k].reserved])

\* The report once the station's rows that held something are stamped.
Stamped(o, s) ==
    LET report == plan[o].report
    IN  [k \in DOMAIN report |->
           [report[k] EXCEPT !.consumed =
              report[k].consumed \/ (k \in Settled(o, s) /\ report[k].reserved > 0)]]

\* MUTANT: rows are consumed without the stamp that closes them.
ConsumeUnstamped(o, s) ==
    /\ onHand' = [i \in Items |-> onHand[i] - Quantity(o, s, i)]
    /\ held' = [held EXCEPT ![o] = [i \in Items |-> held[o][i] - Quantity(o, s, i)]]
    /\ used' = [used EXCEPT ![o] = [i \in Items |-> used[o][i] + Quantity(o, s, i)]]
    /\ UNCHANGED plan

\* Consumption rows for what was held, the rows of the report stamped.
Consume(o, s) ==
    /\ onHand' = [i \in Items |-> onHand[i] - Quantity(o, s, i)]
    /\ held' = [held EXCEPT ![o] = [i \in Items |-> held[o][i] - Quantity(o, s, i)]]
    /\ used' = [used EXCEPT ![o] = [i \in Items |-> used[o][i] + Quantity(o, s, i)]]
    /\ plan' = [plan EXCEPT ![o].report = Stamped(o, s)]

\* MUTANT: the offcut stays reserved after the saw has cut it.
KeepRemnant(o) == UNCHANGED remnant

\* consume_order_remnants.
ConsumeRemnant(o) ==
    remnant' = IF remnant = [state |-> "RESERVED", order |-> o]
               THEN [state |-> "CONSUMED", order |-> o] ELSE remnant

Complete(o, s) ==
    /\ OnFloor(o)
    /\ steps[o][s] = "IN_PROGRESS"
    /\ Physical(s) => plan[o].made /\ ~plan[o].invalidated
    /\ Moves(o, s, "DONE")
    /\ IF "BAR" \in Kinds(s) THEN RemnantReady(o) /\ ConsumeRemnant(o)
                             ELSE UNCHANGED remnant
    /\ IF Kinds(s) # {} THEN MaterialReady(o, s) /\ Consume(o, s)
                       ELSE UNCHANGED <<onHand, held, used, plan>>
    /\ UNCHANGED <<posted, tx>>

\* Cancelling releases what is still held; what was consumed stays consumed.
Cancel(o) ==
    /\ Unlocked(o)
    /\ status[o] \notin {"CANCELLED", "DISPATCHED"}
    /\ status' = [status EXCEPT ![o] = "CANCELLED"]
    /\ held' = [held EXCEPT ![o] = [i \in Items |-> @[i] - Max0(@[i])]]
    /\ remnant' = IF remnant = [state |-> "RESERVED", order |-> o]
                  THEN [state |-> "AVAILABLE", order |-> NoOrder] ELSE remnant
    /\ UNCHANGED <<onHand, used, posted, plan, steps, tx>>

Dispatch(o) ==
    /\ Unlocked(o)
    /\ status[o] = "COMPLETED"
    /\ status' = [status EXCEPT ![o] = "DISPATCHED"]
    /\ UNCHANGED <<onHand, held, used, posted, plan, steps, remnant, tx>>

VoidDispatch(o) ==
    /\ Unlocked(o)
    /\ status[o] = "DISPATCHED"
    /\ status' = [status EXCEPT ![o] = "COMPLETED"]
    /\ UNCHANGED <<onHand, held, used, posted, plan, steps, remnant, tx>>

\* An operator returns a reserved offcut; the plan that claimed it is void.
Unreserve(o) ==
    /\ Unlocked(o)
    /\ remnant = [state |-> "RESERVED", order |-> o]
    /\ \A p \in Orders : tx[p].op = "optimize" => ~tx[p].plan.remnant
    /\ remnant' = [state |-> "AVAILABLE", order |-> NoOrder]
    /\ plan' = [plan EXCEPT ![o].invalidated = TRUE, ![o].remnant = FALSE]
    /\ UNCHANGED <<onHand, held, used, posted, steps, status, tx>>

----------------------------------------------------------------------------
(* Goods in and manual corrections                                          *)

Locked(i) == \E o \in Orders : i \in tx[o].locks

Usable(i) == SumOf([r \in {q \in posted \cap Receipts : q.item = i} |-> r.good])

Fulfilled == \A i \in Items : Usable(i) >= Ordered[i]

\* A receipt against the purchase order; the key makes a retry harmless.
Receive(r) ==
    /\ ~Locked(r.item)
    /\ r.key \notin {q.key : q \in posted \cap Receipts}
    /\ ~Fulfilled
    /\ r.good <= Max0(Ordered[r.item] - Usable(r.item)) \/ r.confirm
    /\ onHand' = [onHand EXCEPT ![r.item] = @ + r.good]
    /\ posted' = posted \cup {r}
    /\ UNCHANGED <<held, used, plan, steps, status, remnant, tx>>

Signed(c) == IF c.type = "SCRAP" THEN -c.quantity ELSE c.quantity

\* A manual movement locks nothing and is compared with nothing.
Correct(c) ==
    /\ c \notin posted
    /\ onHand' = [onHand EXCEPT ![c.item] = @ + Signed(c)]
    /\ posted' = posted \cup {c}
    /\ UNCHANGED <<held, used, plan, steps, status, remnant, tx>>

StockNext ==
    \/ \E o \in Orders :
         \/ BeginOptimize(o) \/ BeginRecheck(o) \/ Reserve(o) \/ Commit(o)
         \/ Rollback(o) \/ DeadlockAbort(o)
         \/ Cancel(o) \/ Dispatch(o) \/ VoidDispatch(o) \/ Unreserve(o)
         \/ \E s \in Stations : Start(o, s) \/ Block(o, s) \/ Unblock(o, s) \/ Complete(o, s)
    \/ \E r \in Receipts : Receive(r)
    \/ \E c \in Corrections : Correct(c)

StockSpec == StockInit /\ [][StockNext]_stockVars

----------------------------------------------------------------------------
(* Properties                                                               *)

Entries == [kind : Materials, item : Items,
            needed : Nat, reserved : Nat, short : Nat, consumed : BOOLEAN]

PlanRows == [made : BOOLEAN, report : Seq(Entries), remnant : BOOLEAN,
             unmapped : BOOLEAN, invalidated : BOOLEAN]

Transactions == [op : {"none", "optimize", "recheck"}, next : Nat, plan : PlanRows,
                 delta : [Items -> Int], locks : SUBSET Items]

StockTypeOK ==
    /\ onHand \in [Items -> Int]
    /\ held \in [Orders -> [Items -> Nat]]
    /\ used \in [Orders -> [Items -> Nat]]
    /\ posted \subseteq Receipts \cup Corrections
    /\ plan \in [Orders -> PlanRows]
    /\ steps \in [Orders -> [Stations -> {"READY", "IN_PROGRESS", "BLOCKED", "DONE"}]]
    /\ status \in [Orders -> {"RELEASED", "IN_PROGRESS", "HOLD", "COMPLETED",
                             "DISPATCHED", "CANCELLED"}]
    /\ remnant \in [state : {"AVAILABLE", "RESERVED", "CONSUMED"}, order : Orders \cup {NoOrder}]
    /\ tx \in [Orders -> Transactions]

\* A manual movement took pieces of the item away.
Scrapped(i) == \E c \in posted \cap Corrections : c.item = i /\ Signed(c) < 0

\* Work orders never hold more of an item than there is: whatever plans,
\* rechecks, consumption, cancellations and receipts interleave, what is held
\* is backed by what is on hand (reserve_for_order under the item's row lock),
\* until somebody scraps pieces of it by hand.
HeldIsBacked ==
    \A i \in Items : ~Scrapped(i) => Held(i) <= onHand[i]

\* The report in an order's plan and the ledger tell the same story: what the
\* unconsumed rows say is reserved is exactly what the ledger holds for the
\* order, through replans, top-ups and consumption by station, a cancelled
\* order holds nothing, and an order whose stations are all done holds nothing
\* and has consumed exactly what its plan needed.
ReportIsLedger ==
    \A o \in Orders, i \in Items :
      /\ held[o][i] = IF status[o] = "CANCELLED" THEN 0 ELSE Open(plan[o].report, i)
      /\ status[o] \in {"COMPLETED", "DISPATCHED"} =>
           /\ held[o][i] = 0
           /\ used[o][i] = SumOf([k \in {j \in DOMAIN plan[o].report : plan[o].report[j].item = i} |->
                                    plan[o].report[k].needed])

\* A bar is cut before any other work on the plan begins.
CutsFirst == \A s \in Stations : Physical(s) => \E e \in Stations : e <= s /\ "BAR" \in Kinds(e)

\* A plan that lost its offcut can always be made again: no physical station
\* of a live order is finished under a void plan, so the replan is never
\* refused for good (optimize_work_order refuses after a finished station),
\* where the stations begin with a saw.
VoidPlanReplannable ==
    CutsFirst =>
      \A o \in Orders : plan[o].invalidated /\ status[o] # "CANCELLED" =>
        \A s \in Stations : Physical(s) => steps[o][s] # "DONE"

=============================================================================
