---------------------------- MODULE ProjectProofs ----------------------------
(* Proofs about a project and what its sale sets going: the links its        *)
(* customer pays it with (PaymentLinks), for every number of links, payments *)
(* by hand and processes and every total of the deal; the stock its work     *)
(* orders hold and consume (Stock), for all orders, items, plans and         *)
(* routings; and the editor its windows are drawn in (PositionEditor), for   *)
(* all designs, catalogues, users and bounds.                                *)
EXTENDS PaymentLinks, Stock, PositionEditor, FiniteSetTheorems,
        SequenceTheorems, WellFoundedInduction, TLAPS

(***************************************************************************)
(* The inductive invariant.  A claim belongs to one process until it is    *)
(* POSTed, and to the office's transaction until that ends; an order that  *)
(* Flow still holds open has a live link, or no row because the claim was  *)
(* rolled back; there is one live link; an outcome that was observed is    *)
(* still true at Flow.                                                     *)
(***************************************************************************)
\* A key is POSTed by the process that claimed it, and once unless a claim of
\* it was rolled back.
Claimed ==
  /\ \A k \in Links :
       /\ flow[k].posts = 0 <=> flow[k].status = "none"
       /\ k \notin orphaned => flow[k].posts <= 1
  /\ \A p \in Procs : proc[p].at = "post" =>
       /\ link[proc[p].on].status = "DISPATCHING"
       /\ proc[p].on \notin orphaned => flow[proc[p].on].status = "none"
  /\ \A p \in Procs : Minting(p) /\ proc[p].on \in Staff =>
       link[proc[p].on].status = "DISPATCHING"

\* Nobody else works on a link that is not POSTed yet or not committed.
Sole ==
  \A p, q \in Procs :
    /\ proc[p].at = "post" \/ (Minting(p) /\ proc[p].on \in Staff)
    /\ proc[q].at # "idle" /\ proc[q].on = proc[p].on
    => q = p

\* What a process works on is a real link, and what it saw has happened.
Observed ==
  \A p \in Procs : proc[p].at # "idle" =>
    /\ link[proc[p].on].status # "NONE" /\ ~ link[proc[p].on].sim
    /\ proc[p].at \in {"store", "lost", "settle"} => flow[proc[p].on].status # "none"
    /\ proc[p].at = "settle" /\ proc[p].saw = "paid" => flow[proc[p].on].status = "paid"
    /\ proc[p].at = "settle" /\ proc[p].saw \in {"rejected", "annulled"} =>
         flow[proc[p].on].status \in {"paid", "rejected", "annulled"}

\* A row has an amount, and an order at Flow that still waits a live link, or no
\* row at all after a rollback.
Linked ==
  \A k \in Links :
    /\ link[k].status # "NONE" => link[k].amount \in Amounts
    /\ link[k].status = "NONE" => ~ link[k].url
    /\ link[k].sim \/ (link[k].status = "NONE" /\ k \notin orphaned) =>
         flow[k].status = "none"
    /\ Waiting(k) => Live(k) \/ (link[k].status = "NONE" /\ k \in orphaned)

OneLive == \A j, k \in Links : Live(j) /\ Live(k) => j = k

IInv ==
  /\ TypeOK /\ Claimed /\ Sole /\ Observed /\ Linked /\ OneLive /\ LedgerMatchesLinks

LinkStatuses ==
  {"NONE", "DISPATCHING", "PENDING", "UNCERTAIN", "PAID", "FAILED", "CANCELLED"}

-----------------------------------------------------------------------------
(* Sums of amounts                                                         *)

\* The money of payments is countable.
LEMMA MoneyFinite ==
  ASSUME NEW V \in SUBSET Keys
  PROVE  IsFiniteSet(Money(V)) /\ Cardinality(Money(V)) \in Nat
<1>1. IsFiniteSet(V)
  BY KeysAssumption, FS_Subset DEF Keys
<1>2. IsFiniteSet(Amounts)
  BY TotalAssumption, FS_Interval DEF Amounts
<1>3. IsFiniteSet(V \X Amounts)
  BY <1>1, <1>2, FS_Product
<1> QED
  BY <1>3, FS_Subset, FS_CardinalityType DEF Money

\* A union has no more members than its parts.
LEMMA UnionBound ==
  ASSUME NEW S, NEW T, IsFiniteSet(S), IsFiniteSet(T)
  PROVE  /\ IsFiniteSet(S \cup T)
         /\ Cardinality(S \cup T) <= Cardinality(S) + Cardinality(T)
<1>1. Cardinality(S \cup T)
        = Cardinality(S) + Cardinality(T) - Cardinality(S \cap T)
      /\ IsFiniteSet(S \cup T)
  BY FS_Union
<1>2. /\ Cardinality(S \cap T) \in Nat /\ Cardinality(S) \in Nat
      /\ Cardinality(T) \in Nat
  BY FS_Intersection, FS_CardinalityType
<1> QED
  BY <1>1, <1>2

\* So are the sums, and an excess is no less than zero.
LEMMA ExcessNat ==
  ASSUME NEW a \in Amounts
  PROVE  Collected \in Nat /\ Excess(a) \in Nat /\ Excess(a) >= a + Collected - Total
<1>1. Collected \in Nat
  BY MoneyFinite DEF Collected
<1> QED
  BY <1>1, TotalAssumption DEF Excess, Balance, Amounts

-----------------------------------------------------------------------------
(* Rows and processes                                                      *)

\* The status of k becomes s; its amount and kind, and other links, stay.
LinkTo(k, s) ==
  /\ link' \in [Links -> LinkRows]
  /\ link'[k].status = s /\ link'[k].amount = link[k].amount
  /\ link'[k].sim = link[k].sim
  /\ \A j \in Links : j # k => link'[j] = link[j]

\* A row changes its status.
LEMMA StatusTo ==
  ASSUME TypeOK, NEW k \in Links, NEW s \in LinkStatuses,
         link' = [link EXCEPT ![k].status = s]
  PROVE  LinkTo(k, s)
<1>1. link \in [Links -> LinkRows] /\ link[k] \in LinkRows
  BY DEF TypeOK
<1>2. [link[k] EXCEPT !.status = s] \in LinkRows
  BY <1>1 DEF LinkRows, LinkStatuses
<1>3. link' = [link EXCEPT ![k] = [link[k] EXCEPT !.status = s]]
  BY <1>1
<1>4. /\ [link[k] EXCEPT !.status = s].status = s
      /\ [link[k] EXCEPT !.status = s].amount = link[k].amount
      /\ [link[k] EXCEPT !.status = s].sim = link[k].sim
  BY <1>1 DEF LinkRows
<1> QED
  BY <1>1, <1>2, <1>3, <1>4 DEF LinkTo

\* A row that stays has its status.
LEMMA StatusStays ==
  ASSUME TypeOK, NEW k \in Links, link' = link
  PROVE  LinkTo(k, link[k].status)
BY DEF TypeOK, LinkTo

\* A process goes on, or returns.
LEMMA ProcTo ==
  ASSUME TypeOK, NEW p \in Procs, NEW x \in ProcRows, proc' = [proc EXCEPT ![p] = x]
  PROVE  /\ proc' \in [Procs -> ProcRows] /\ proc'[p] = x
         /\ \A q \in Procs : q # p => proc'[q] = proc[q]
BY DEF TypeOK

\* Idle is a process row.
LEMMA IdleRow == Idle \in ProcRows /\ Idle.at = "idle"
BY DEF Idle, ProcRows

\* A process that returns has no claim and no observation left, and a link
\* that stays live, ends as Flow says or was nothing keeps the rest.
LEMMA ReturnStep ==
  ASSUME IInv, NEW p \in Procs, NEW k \in Links, NEW s \in LinkStatuses,
         LinkTo(k, s), Return(p), UNCHANGED <<ledger, flow, orphaned, crashed>>,
         proc[p].at \in {"store", "lost", "settle"}, proc[p].on = k,
         s \in {"DISPATCHING", "PENDING", "UNCERTAIN"} => Live(k),
         flow[k].status \in {"sent", "pending"} => s \in {"DISPATCHING", "PENDING", "UNCERTAIN"},
         s = "PAID" <=> link[k].status = "PAID", s # "NONE"
  PROVE  IInv'
<1> USE DEF IInv
<1>1. /\ proc' \in [Procs -> ProcRows] /\ proc'[p] = Idle /\ Idle.at = "idle"
      /\ \A q \in Procs : q # p => proc'[q] = proc[q]
  BY ProcTo, IdleRow DEF Return
<1>2. TypeOK'
  BY <1>1 DEF TypeOK, LinkTo
<1>3. /\ flow[k].status # "none"
      /\ \A q \in Procs : q # p /\ Minting(q) /\ proc[q].on = k =>
           proc[q].at # "post" /\ k \notin Staff
  BY DEF Observed, Sole, Minting
<1>4. Claimed' /\ Sole'
  BY <1>1, <1>3 DEF TypeOK, Claimed, LinkTo, Sole, Minting
<1>5. Observed'
  BY <1>1 DEF TypeOK, Observed, LinkTo
<1>6. Linked'
  <2>1. /\ link[k].status # "NONE" /\ ~ link[k].sim /\ link[k].amount \in Amounts
        /\ flow[k].status \in {"sent", "pending"} => Live(k)'
    BY DEF Observed, Linked, LinkTo, Live
  <2>2. \A j \in Links : j # k => link'[j] = link[j] /\ (Live(j)' <=> Live(j))
    BY DEF LinkTo, Live
  <2>3. SUFFICES ASSUME NEW j \in Links
                 PROVE  /\ link'[j].status # "NONE" => link'[j].amount \in Amounts
                        /\ link'[j].status = "NONE" => ~ link'[j].url
                        /\ link'[j].sim \/ (link'[j].status = "NONE" /\ j \notin orphaned) =>
                             flow[j].status = "none"
                        /\ Waiting(j) => Live(j)' \/ (link'[j].status = "NONE" /\ j \in orphaned)
    BY DEF Linked, Waiting
  <2>4. CASE j = k
    BY <2>1, <2>4 DEF LinkTo, Waiting
  <2>5. CASE j # k
    BY <2>2, <2>5 DEF Linked
  <2> QED
    BY <2>4, <2>5
<1>7. OneLive'
  BY DEF OneLive, LinkTo, Live
<1>8. LedgerMatchesLinks'
  BY DEF LedgerMatchesLinks, LinkTo
<1> QED
  BY <1>2, <1>4, <1>5, <1>6, <1>7, <1>8

-----------------------------------------------------------------------------
(* One lemma per action                                                    *)

\* create_link claims a key when no charge is live.
LEMMA CreateClaimStep ==
  ASSUME IInv, NEW p \in Procs, NEW k \in Links, NEW a \in Amounts,
         CreateClaim(p, k, a)
  PROVE  IInv'
<1> USE DEF IInv, CreateClaim, Goto
<1> DEFINE x == [status |-> "DISPATCHING", amount |-> a, sim |-> FALSE,
                 url |-> FALSE, past |-> FALSE]
           y == [at |-> "post", on |-> k, saw |-> "none"]
<1>1. x \in LinkRows /\ y \in ProcRows
  BY TotalAssumption DEF LinkRows, ProcRows, Amounts
<1>2. /\ link' \in [Links -> LinkRows] /\ link'[k] = x
      /\ \A j \in Links : j # k => link'[j] = link[j]
  BY <1>1 DEF TypeOK
<1>3. /\ proc' \in [Procs -> ProcRows] /\ proc'[p] = y
      /\ \A q \in Procs : q # p => proc'[q] = proc[q]
  BY <1>1, ProcTo
<1>4. TypeOK'
  BY <1>2, <1>3 DEF TypeOK
<1>5. /\ k \notin orphaned => flow[k].status = "none"
      /\ \A q \in Procs : proc[q].at # "idle" => proc[q].on # k
  BY DEF Linked, Observed
<1>6. Claimed' /\ Sole'
  BY <1>2, <1>3, <1>5 DEF TypeOK, Claimed, Sole, Minting
<1>7. Observed'
  BY <1>2, <1>3, <1>5 DEF TypeOK, Observed
<1>8. Linked'
  BY <1>2, <1>5 DEF Linked, Live, Waiting
<1>9. OneLive'
  BY <1>2 DEF OneLive, Live
<1>10. LedgerMatchesLinks'
  BY <1>2 DEF LedgerMatchesLinks
<1> QED
  BY <1>4, <1>6, <1>7, <1>8, <1>9, <1>10

\* The POST of the one process that claimed the key.
LEMMA CreatePaymentStep ==
  ASSUME IInv, NEW p \in Procs, CreatePayment(p)
  PROVE  IInv'
<1> USE DEF IInv
<1>0. PICK k \in Links : k = proc[p].on
  BY DEF CreatePayment, TypeOK
<1>1. /\ proc[p].at = "post" /\ UNCHANGED <<link, ledger, orphaned, crashed>>
      /\ link[k].status = "DISPATCHING" /\ ~ link[k].sim
      /\ k \notin orphaned => flow[k].posts = 0
      /\ \A q \in Procs : q # p /\ proc[q].at # "idle" => proc[q].on # k
  <2>1. proc[p].at = "post" /\ UNCHANGED <<link, ledger, orphaned, crashed>>
    BY DEF CreatePayment
  <2> QED
    BY <1>0, <2>1 DEF Claimed, Observed, Sole
<1>2. PICK s \in {"pending", "sent", flow[k].status}, to \in {"store", "lost"} :
        /\ s = "none" => flow[k].posts = 0 /\ s \in {"pending", "sent"}
        /\ flow' = [flow EXCEPT ![k] = [status |-> s, posts |-> @.posts + 1]]
        /\ proc' = [proc EXCEPT ![p] = [at |-> to, on |-> k, saw |-> "none"]]
  <2>1. PICK s \in {"pending", "sent"} \cup (IF flow[k].posts > 0 THEN {flow[k].status} ELSE {}),
             to \in {"store", "lost"} :
          /\ flow' = [flow EXCEPT ![k] = [status |-> s, posts |-> @.posts + 1]]
          /\ proc' = [proc EXCEPT ![p] = [at |-> to, on |-> k, saw |-> "none"]]
    BY <1>0 DEF CreatePayment, Goto
  <2>2. flow[k].posts > 0 => flow[k].status # "none"
    BY DEF Claimed, TypeOK, FlowOrders
  <2> QED
    BY <2>1, <2>2
<1> DEFINE n == flow[k].posts + 1
           x == [status |-> s, posts |-> n]
           y == [at |-> to, on |-> k, saw |-> "none"]
<1>2a. flow' = [flow EXCEPT ![k] = x] /\ proc' = [proc EXCEPT ![p] = y]
  BY <1>2 DEF TypeOK
<1>2b. /\ s # "none" /\ s \in Statuses \cup {"none", "sent"}
       /\ n \in Nat /\ n # 0 /\ (k \notin orphaned => n = 1)
  BY <1>1, <1>2 DEF TypeOK, FlowOrders, Statuses
<1> HIDE DEF n
<1>3. x \in FlowOrders /\ y \in ProcRows
  BY <1>2b DEF FlowOrders, Statuses, ProcRows
<1>4. /\ flow' \in [Links -> FlowOrders] /\ flow'[k] = x
      /\ \A j \in Links : j # k => flow'[j] = flow[j]
  BY <1>2a, <1>3 DEF TypeOK
<1>5. /\ proc' \in [Procs -> ProcRows] /\ proc'[p] = y
      /\ \A q \in Procs : q # p => proc'[q] = proc[q]
  BY <1>2a, <1>3, ProcTo
<1>6. TypeOK'
  BY <1>1, <1>4, <1>5 DEF TypeOK
<1>7. Claimed' /\ Sole'
  <2>1. Claimed'
    BY <1>0, <1>1, <1>4, <1>5, <1>2b DEF TypeOK, Claimed, Minting
  <2>2. Sole'
    BY <1>0, <1>1, <1>5 DEF Sole, Minting
  <2> QED
    BY <2>1, <2>2
<1>8. Observed'
  BY <1>1, <1>4, <1>5, <1>2b DEF TypeOK, Observed
<1>9. Linked' /\ OneLive'
  BY <1>1, <1>4, <1>2b DEF Linked, OneLive, Live, Waiting
<1>10. LedgerMatchesLinks'
  BY <1>1, <1>4 DEF LedgerMatchesLinks
<1> QED
  BY <1>6, <1>7, <1>8, <1>9, <1>10

\* The reply is stored in a link that is still open.
LEMMA StoreCreatedStep ==
  ASSUME IInv, NEW p \in Procs, StoreCreated(p)
  PROVE  IInv'
<1> USE DEF IInv
<1>0. PICK k \in Links : k = proc[p].on
  BY DEF StoreCreated, TypeOK
<1>1. /\ proc[p].at = "store" /\ Return(p) /\ UNCHANGED <<ledger, flow, orphaned, crashed>>
      /\ link[k].status # "NONE" /\ link[k] \in LinkRows
  BY <1>0 DEF StoreCreated, TypeOK, Observed
<1>2. CASE link[k].status \in {"DISPATCHING", "PENDING"}
  <2> DEFINE x == [link[k] EXCEPT !.status = "PENDING", !.url = TRUE]
  <2>1. link' = [link EXCEPT ![k] = x]
    BY <1>0, <1>2 DEF StoreCreated, TypeOK
  <2>2. /\ x \in LinkRows /\ x.status = "PENDING" /\ x.amount = link[k].amount
        /\ x.sim = link[k].sim
    BY <1>1 DEF LinkRows
  <2> HIDE DEF x
  <2>3. LinkTo(k, "PENDING")
    BY <2>1, <2>2 DEF LinkTo, TypeOK
  <2> QED
    BY <1>0, <1>1, <1>2, <2>3, ReturnStep DEF Live, LinkStatuses
<1>3. CASE link[k].status \notin {"DISPATCHING", "PENDING"}
  <2>1. link' = link
    BY <1>0, <1>3 DEF StoreCreated
  <2>2. LinkTo(k, link[k].status) /\ link[k].status \in LinkStatuses
    BY <1>1, <2>1, StatusStays DEF LinkRows, LinkStatuses
  <2> QED
    BY <1>0, <1>1, <2>2, ReturnStep DEF Live, Linked, Waiting
<1> QED
  BY <1>2, <1>3

\* The office's transaction goes back: the row is gone, and an order that was
\* POSTed has none.
LEMMA MintRolledBack ==
  ASSUME IInv, NEW p \in Procs, NEW k \in Staff, proc[p].on = k, Minting(p), Return(p),
         link' = [link EXCEPT ![k] = NoLink], UNCHANGED <<ledger, flow>>,
         orphaned' \in {orphaned, orphaned \cup {k}},
         proc[p].at # "post" => orphaned' = orphaned \cup {k}, crashed' \subseteq Crashable
  PROVE  IInv'
<1> USE DEF IInv
<1>0. k \in Links
  BY KeysAssumption
<1>1. /\ proc' \in [Procs -> ProcRows] /\ proc'[p] = Idle /\ Idle.at = "idle"
      /\ \A q \in Procs : q # p => proc'[q] = proc[q]
  BY ProcTo, IdleRow DEF Return
<1>2. NoLink \in LinkRows /\ NoLink.status = "NONE" /\ NoLink.url = FALSE /\ NoLink.sim = FALSE
  BY TotalAssumption DEF NoLink, LinkRows
<1>3. /\ link' \in [Links -> LinkRows] /\ link'[k] = NoLink
      /\ \A j \in Links : j # k => link'[j] = link[j]
  BY <1>0, <1>2 DEF TypeOK
<1>4. /\ link[k].status = "DISPATCHING"
      /\ \A q \in Procs : q # p /\ proc[q].at # "idle" => proc[q].on # k
  BY DEF Claimed, Sole
<1>5. k \notin orphaned' => flow[k].status = "none"
  BY DEF Claimed
<1>6. TypeOK'
  BY <1>1, <1>3 DEF TypeOK
<1>7. Claimed' /\ Sole'
  <2>1. Claimed'
    BY <1>1, <1>3, <1>4 DEF TypeOK, Claimed, Minting
  <2>2. Sole'
    BY <1>1 DEF Sole, Minting
  <2> QED
    BY <2>1, <2>2
<1>8. Observed'
  BY <1>1, <1>3, <1>4 DEF TypeOK, Observed
<1>9. Linked'
  BY <1>2, <1>3, <1>5 DEF Linked, Live, Waiting
<1>10. OneLive'
  BY <1>2, <1>3 DEF OneLive, Live
<1>11. LedgerMatchesLinks'
  BY <1>2, <1>3, <1>4 DEF LedgerMatchesLinks
<1> QED
  BY <1>6, <1>7, <1>8, <1>9, <1>10, <1>11

\* A lost reply leaves a link of the portal that is still claimed uncertain.
LEMMA MarkUncertainStep ==
  ASSUME IInv, NEW p \in Procs, MarkUncertain(p)
  PROVE  IInv'
<1> USE DEF IInv
<1>0. PICK k \in Links : k = proc[p].on
  BY DEF MarkUncertain, TypeOK
<1>1. /\ proc[p].at = "lost" /\ Return(p) /\ UNCHANGED <<ledger, flow, crashed>>
      /\ link[k].status # "NONE" /\ link[k] \in LinkRows
  BY <1>0 DEF MarkUncertain, TypeOK, Observed
<1>4. CASE k \in Staff
  <2>1. link' = [link EXCEPT ![k] = NoLink] /\ orphaned' = orphaned \cup {k}
    BY <1>0, <1>4 DEF MarkUncertain
  <2>2. Minting(p) /\ crashed' \subseteq Crashable
    BY <1>1 DEF Minting, TypeOK
  <2> QED
    BY <1>0, <1>1, <1>4, <2>1, <2>2, MintRolledBack
<1>2. CASE k \notin Staff /\ link[k].status = "DISPATCHING"
  <2>1. LinkTo(k, "UNCERTAIN") /\ UNCHANGED orphaned
    BY <1>0, <1>2, StatusTo DEF MarkUncertain, LinkStatuses
  <2> QED
    BY <1>0, <1>1, <1>2, <2>1, ReturnStep DEF Live, LinkStatuses
<1>3. CASE k \notin Staff /\ link[k].status # "DISPATCHING"
  <2>1. link' = link /\ UNCHANGED orphaned
    BY <1>0, <1>3 DEF MarkUncertain
  <2>2. LinkTo(k, link[k].status) /\ link[k].status \in LinkStatuses
    BY <1>1, <2>1, StatusStays DEF LinkRows, LinkStatuses
  <2> QED
    BY <1>0, <1>1, <2>1, <2>2, ReturnStep DEF Live, Linked, Waiting
<1> QED
  BY <1>2, <1>3, <1>4

\* A GET sees what Flow says at that moment.
LEMMA VerifyStep ==
  ASSUME IInv, NEW p \in Procs, NEW k \in Links, Verify(p, k)
  PROVE  IInv'
<1> USE DEF IInv
<1>1. /\ proc[p].at = "idle" /\ link[k].status # "NONE" /\ ~ link[k].sim /\ ~ Uncommitted(k)
      /\ flow[k].status \in Statuses /\ UNCHANGED <<link, ledger, flow, orphaned, crashed>>
      /\ proc' = [proc EXCEPT ![p] = [at |-> "settle", on |-> k, saw |-> flow[k].status]]
  BY DEF Verify, ConfirmLink, RecoverLink, Goto
<1> DEFINE y == [at |-> "settle", on |-> k, saw |-> flow[k].status]
<1>2. y \in ProcRows
  BY <1>1 DEF ProcRows
<1>3. /\ proc' \in [Procs -> ProcRows] /\ proc'[p] = y
      /\ \A q \in Procs : q # p => proc'[q] = proc[q]
  BY <1>1, <1>2, ProcTo
<1>4. TypeOK'
  BY <1>1, <1>3 DEF TypeOK
<1>5. Claimed' /\ Sole'
  <2>1. Claimed'
    BY <1>1, <1>3 DEF TypeOK, Claimed, Minting
  <2>2. \A q \in Procs : proc[q].on = k => proc[q].at # "post" /\ ~ (Minting(q) /\ k \in Staff)
    <3>1. k \in Staff =>
            \A q \in Procs : proc[q].on = k => proc[q].at # "post" /\ ~ Minting(q)
      BY <1>1 DEF Uncommitted, Minting
    <3>2. k \notin Staff => k \notin orphaned
      BY DEF TypeOK
    <3>3. k \notin Staff => \A q \in Procs : proc[q].on = k => proc[q].at # "post"
      BY <1>1, <3>2 DEF Claimed, Statuses
    <3> QED
      BY <3>1, <3>3
  <2>3. Sole'
    BY <1>3, <2>2 DEF Sole, Minting
  <2> QED
    BY <2>1, <2>3
<1>6. Observed'
  BY <1>1, <1>3 DEF TypeOK, Observed, Statuses
<1>7. Linked' /\ OneLive' /\ LedgerMatchesLinks'
  BY <1>1 DEF Linked, OneLive, LedgerMatchesLinks, Live, Waiting
<1> QED
  BY <1>4, <1>5, <1>6, <1>7

\* An observation of a paid link, a pending one or a failure.
LEMMA SettleStep ==
  ASSUME IInv, NEW p \in Procs,
         SettleAgain(p) \/ SettlePending(p) \/ SettleFailed(p)
  PROVE  IInv'
<1> USE DEF IInv
<1>0. PICK k \in Links : k = proc[p].on
  BY DEF SettleAgain, SettlePending, SettleFailed, TypeOK
<1>1. /\ proc[p].at = "settle" /\ Return(p) /\ UNCHANGED <<ledger, flow, orphaned, crashed>>
      /\ link[k].status # "NONE" /\ link[k] \in LinkRows
  BY <1>0 DEF SettleAgain, SettlePending, SettleFailed, TypeOK, Observed
<1>2. CASE link' = link
  <2>1. LinkTo(k, link[k].status) /\ link[k].status \in LinkStatuses
    BY <1>1, <1>2, StatusStays DEF LinkRows, LinkStatuses
  <2> QED
    BY <1>0, <1>1, <2>1, ReturnStep DEF Live, Linked, Waiting
<1>3. CASE SettlePending(p) /\ link' # link
  <2>1. link[k].status = "DISPATCHING" /\ link' = [link EXCEPT ![k].status = "PENDING"]
    BY <1>0, <1>3 DEF SettlePending
  <2>2. LinkTo(k, "PENDING")
    BY <2>1, StatusTo DEF LinkStatuses
  <2> QED
    BY <1>0, <1>1, <2>1, <2>2, ReturnStep DEF Live, LinkStatuses
<1>4. CASE SettleFailed(p)
  <2>1. /\ link[k].status # "PAID" /\ link' = [link EXCEPT ![k].status = "FAILED"]
        /\ flow[k].status \in {"paid", "rejected", "annulled"}
    BY <1>0, <1>1, <1>4 DEF SettleFailed, Observed
  <2>2. LinkTo(k, "FAILED")
    BY <2>1, StatusTo DEF LinkStatuses
  <2> QED
    BY <1>0, <1>1, <2>1, <2>2, ReturnStep DEF LinkStatuses
<1>5. SettleAgain(p) => link' = link
  BY DEF SettleAgain
<1> QED
  BY <1>2, <1>3, <1>4, <1>5

\* The payment is recorded together with the status, of a real link that Flow
\* has the money of.
LEMMA SettlePaidStep ==
  ASSUME IInv, NEW p \in Procs, SettlePaid(p)
  PROVE  IInv'
<1> USE DEF IInv
<1>0. PICK k \in Links : k = proc[p].on
  BY DEF SettlePaid, TypeOK
<1>1. /\ proc[p].at = "settle" /\ Return(p) /\ UNCHANGED <<flow, orphaned, crashed>>
      /\ link[k].status \notin {"NONE", "PAID"} /\ ~ link[k].sim
      /\ flow[k].status = "paid" /\ link' = [link EXCEPT ![k].status = "PAID"]
  BY <1>0 DEF SettlePaid, Observed
<1>2. link[k].amount \in Amounts /\ ~ (ledger[k].amount > 0) /\ k \in Keys
  BY <1>1 DEF Linked, LedgerMatchesLinks, Keys
<1>3. PICK x : x = Excess(link[k].amount)
  OBVIOUS
<1>4. ledger' = [ledger EXCEPT ![k] =
                   [amount |-> link[k].amount, over |-> x, voided |-> FALSE]]
  BY <1>0, <1>2, <1>3 DEF SettlePaid
<1>5. LinkTo(k, "PAID")
  BY <1>1, StatusTo DEF LinkStatuses
<1>6. x \in Nat
  BY <1>2, <1>3, ExcessNat
<1> DEFINE y == [amount |-> link[k].amount, over |-> x, voided |-> FALSE]
<1>7. y \in PaymentRows
  BY <1>2, <1>6, TotalAssumption DEF PaymentRows, Amounts
<1>8. /\ ledger' \in [Keys -> PaymentRows] /\ ledger'[k] = y
      /\ \A j \in Keys : j # k => ledger'[j] = ledger[j]
  BY <1>2, <1>4, <1>7 DEF TypeOK
<1>9. /\ proc' \in [Procs -> ProcRows] /\ proc'[p] = Idle /\ Idle.at = "idle"
      /\ \A q \in Procs : q # p => proc'[q] = proc[q]
  BY <1>1, ProcTo, IdleRow DEF Return
<1>10. TypeOK'
  BY <1>1, <1>5, <1>8, <1>9 DEF TypeOK, LinkTo
<1>11. \A q \in Procs : q # p /\ Minting(q) /\ proc[q].on = k =>
         proc[q].at # "post" /\ k \notin Staff
  BY <1>0, <1>1 DEF Sole, Minting
<1>12. Claimed' /\ Sole'
  BY <1>1, <1>5, <1>9, <1>11 DEF TypeOK, Claimed, LinkTo, Sole, Minting
<1>13. Observed'
  BY <1>1, <1>5, <1>9 DEF TypeOK, Observed, LinkTo
<1>14. Linked'
  BY <1>1, <1>2, <1>5 DEF Linked, LinkTo, Live, Waiting
<1>15. OneLive'
  BY <1>1, <1>5 DEF OneLive, LinkTo, Live
<1>16. LedgerMatchesLinks'
  BY <1>1, <1>2, <1>5, <1>8, TotalAssumption DEF LedgerMatchesLinks, LinkTo, Amounts, Keys
<1> QED
  BY <1>10, <1>12, <1>13, <1>14, <1>15, <1>16

\* The one open simulated link gives way when it has expired.
LEMMA SimulatedCreateStep ==
  ASSUME IInv, NEW k \in Links, NEW a \in Amounts, SimulatedCreate(k, a)
  PROVE  IInv'
<1> USE DEF IInv
<1> DEFINE expired == {j \in Links : link[j].sim /\ link[j].status = "PENDING"
                                      /\ link[j].past}
           x == [status |-> "PENDING", amount |-> a, sim |-> TRUE,
                 url |-> TRUE, past |-> FALSE]
<1>1. /\ link[k].status = "NONE" /\ flow[k].posts = 0 /\ ~ \E j \in Links \ expired : Live(j)
      /\ UNCHANGED <<ledger, flow, proc, orphaned, crashed>>
      /\ link' = [j \in Links |->
           IF j = k THEN x
           ELSE IF j \in expired THEN [link[j] EXCEPT !.status = "CANCELLED"]
           ELSE link[j]]
  BY DEF SimulatedCreate
<1>2. x \in LinkRows /\ x.status = "PENDING" /\ x.amount = a /\ x.sim
  BY TotalAssumption DEF LinkRows, Amounts
<1>3. ASSUME NEW j \in Links
      PROVE  /\ [link[j] EXCEPT !.status = "CANCELLED"] \in LinkRows
             /\ [link[j] EXCEPT !.status = "CANCELLED"].status = "CANCELLED"
             /\ [link[j] EXCEPT !.status = "CANCELLED"].amount = link[j].amount
             /\ [link[j] EXCEPT !.status = "CANCELLED"].sim = link[j].sim
  BY DEF TypeOK, LinkRows
<1>4. \A j \in Links : j \in expired => link[j].sim /\ link[j].status = "PENDING"
  OBVIOUS
<1> HIDE DEF x, expired
<1>5. link' \in [Links -> LinkRows] /\ link'[k] = x
  BY <1>1, <1>2, <1>3 DEF TypeOK
<1>6. \A j \in Links \ {k} :
        /\ link'[j].amount = link[j].amount /\ link'[j].sim = link[j].sim
        /\ j \in expired => link'[j].status = "CANCELLED"
        /\ j \notin expired => link'[j] = link[j]
  BY <1>1, <1>3
<1>7. TypeOK'
  BY <1>1, <1>5 DEF TypeOK
<1>8. flow[k].status = "none" /\ \A p \in Procs : proc[p].at # "idle" => proc[p].on # k
  BY <1>1 DEF Claimed, Observed
<1>9. \A p \in Procs : proc[p].at # "idle" => proc[p].on \in Links \ ({k} \cup expired)
  BY <1>4, <1>8 DEF Observed, TypeOK
<1>10. Claimed' /\ Sole'
  BY <1>1, <1>6, <1>9 DEF Claimed, Sole, Minting
<1>11. Observed'
  BY <1>1, <1>6, <1>9 DEF Observed
<1>12. Linked'
  BY <1>1, <1>2, <1>4, <1>5, <1>6, <1>8 DEF Linked, Live, Waiting
<1>13. OneLive'
  BY <1>1, <1>2, <1>5, <1>6 DEF OneLive, Live
<1>14. LedgerMatchesLinks'
  BY <1>1, <1>2, <1>4, <1>5, <1>6, <1>8 DEF LedgerMatchesLinks
<1> QED
  BY <1>7, <1>10, <1>11, <1>12, <1>13, <1>14

\* An expiry changes no status.
LEMMA ExpireStep ==
  ASSUME IInv, NEW k \in Links, Expire(k)
  PROVE  IInv'
<1> USE DEF IInv
<1>1. UNCHANGED <<ledger, flow, proc, orphaned, crashed>>
      /\ link' = [link EXCEPT ![k] = [link[k] EXCEPT !.past = TRUE]]
  BY DEF Expire, TypeOK
<1>2. /\ link' \in [Links -> LinkRows]
      /\ \A j \in Links : /\ link'[j].status = link[j].status
                          /\ link'[j].amount = link[j].amount
                          /\ link'[j].sim = link[j].sim
                          /\ link'[j].url = link[j].url
  BY <1>1 DEF TypeOK, LinkRows
<1>3. TypeOK'
  BY <1>1, <1>2 DEF TypeOK
<1>4. Claimed' /\ Observed' /\ Sole'
  BY <1>1, <1>2 DEF TypeOK, Claimed, Observed, Sole, Minting
<1>5. Linked' /\ OneLive' /\ LedgerMatchesLinks'
  BY <1>1, <1>2 DEF Linked, OneLive, LedgerMatchesLinks, Live, Waiting
<1> QED
  BY <1>3, <1>4, <1>5

\* A simulated link is paid or fails in one transaction.
LEMMA SimulatedConfirmStep ==
  ASSUME IInv, NEW k \in Links, NEW paid \in BOOLEAN, SimulatedConfirm(k, paid)
  PROVE  IInv'
<1> USE DEF IInv
<1>1. /\ link[k].sim /\ link[k].status = "PENDING" /\ UNCHANGED <<flow, proc, orphaned, crashed>>
      /\ k \in Keys /\ link[k].amount \in Amounts /\ flow[k].status = "none"
      /\ \A p \in Procs : proc[p].at # "idle" => proc[p].on # k
      /\ ~ (ledger[k].amount > 0)
  BY DEF SimulatedConfirm, Linked, Keys, Observed, LedgerMatchesLinks
<1>2. PICK s \in {"PAID", "FAILED"} :
        link' = [link EXCEPT ![k].status = s] /\ (s = "PAID" <=> paid)
  BY DEF SimulatedConfirm
<1>3. LinkTo(k, s)
  BY <1>2, StatusTo DEF LinkStatuses
<1> DEFINE y == [amount |-> link[k].amount, over |-> 0, voided |-> FALSE]
<1>4. y \in PaymentRows /\ y.amount = link[k].amount
  BY <1>1, TotalAssumption DEF PaymentRows, Amounts
<1>5. ledger' = IF paid THEN [ledger EXCEPT ![k] = y] ELSE ledger
  BY DEF SimulatedConfirm
<1> HIDE DEF y
<1>6. /\ ledger' \in [Keys -> PaymentRows]
      /\ s = "PAID" => ledger'[k].amount = link[k].amount
      /\ s # "PAID" => ledger'[k] = ledger[k]
      /\ \A j \in Keys : j # k => ledger'[j] = ledger[j]
  BY <1>1, <1>2, <1>4, <1>5 DEF TypeOK
<1>7. TypeOK'
  BY <1>1, <1>3, <1>6 DEF TypeOK, LinkTo
<1>8. Claimed' /\ Observed' /\ Sole'
  BY <1>1, <1>3 DEF TypeOK, Claimed, Observed, LinkTo, Sole, Minting
<1>9. Linked' /\ OneLive'
  BY <1>1, <1>3 DEF Linked, OneLive, LinkTo, Live, Waiting
<1>10. LedgerMatchesLinks'
  <2>1. /\ link'[k].status = s /\ link'[k].amount = link[k].amount /\ link'[k].sim
        /\ link[k].amount > 0
    BY <1>1, <1>3, TotalAssumption DEF LinkTo, Amounts
  <2>2. /\ s = "PAID" <=> ledger'[k].amount > 0
        /\ ledger'[k].amount > 0 => ledger'[k].amount = link'[k].amount
    BY <1>1, <1>6, <2>1
  <2>3. \A j \in Links : j # k => link'[j] = link[j] /\ ledger'[j] = ledger[j]
    BY <1>3, <1>6 DEF LinkTo, Keys
  <2> QED
    BY <1>1, <2>1, <2>2, <2>3 DEF LedgerMatchesLinks
<1> QED
  BY <1>7, <1>8, <1>9, <1>10

\* What a user records has a key that is no link's.
LEMMA RecordPaymentStep ==
  ASSUME IInv, NEW k \in Manual, NEW a \in Amounts, RecordPayment(k, a)
  PROVE  IInv'
<1> USE DEF IInv
<1> DEFINE y == [amount |-> a, over |-> 0, voided |-> FALSE]
<1>1. /\ UNCHANGED <<link, flow, proc, orphaned, crashed>> /\ ledger' = [ledger EXCEPT ![k] = y]
      /\ k \in Keys /\ k \notin Links
  BY KeysAssumption DEF RecordPayment, Keys
<1>2. y \in PaymentRows
  BY TotalAssumption DEF PaymentRows, Amounts
<1> HIDE DEF y
<1>3. ledger' \in [Keys -> PaymentRows] /\ \A j \in Links : ledger'[j] = ledger[j]
  BY <1>1, <1>2 DEF TypeOK, Keys
<1> QED
  BY <1>1, <1>3 DEF TypeOK, Claimed, Sole, Minting, Observed, Linked, Waiting, OneLive, Live,
     LedgerMatchesLinks

\* A voided payment keeps its amount.
LEMMA VoidPaymentStep ==
  ASSUME IInv, NEW k \in Keys, VoidPayment(k)
  PROVE  IInv'
<1> USE DEF IInv
<1> DEFINE y == [ledger[k] EXCEPT !.voided = TRUE]
<1>1. UNCHANGED <<link, flow, proc, orphaned, crashed>> /\ ledger' = [ledger EXCEPT ![k] = y]
  BY DEF VoidPayment, TypeOK
<1>2. y \in PaymentRows /\ y.amount = ledger[k].amount
  BY DEF TypeOK, PaymentRows
<1> HIDE DEF y
<1>3. ledger' \in [Keys -> PaymentRows] /\ \A j \in Links : ledger'[j].amount = ledger[j].amount
  BY <1>1, <1>2 DEF TypeOK, Keys
<1> QED
  BY <1>1, <1>3 DEF TypeOK, Claimed, Sole, Minting, Observed, Linked, Waiting, OneLive, Live,
     LedgerMatchesLinks

\* What Flow has observed as final it keeps, but for a payment tried again.
LEMMA ProviderStep ==
  ASSUME IInv, NEW k \in Links, Provider(k)
  PROVE  IInv'
<1> USE DEF IInv
<1>1. PICK s \in Statuses : FlowTo(k, s)
        /\ flow[k].status \in {"sent", "pending", "rejected"}
        /\ (s = "pending" => flow[k].status = "sent")
  BY DEF Provider, Arrive, Pay, Reject, Annul, Payable, Statuses
<1>2. /\ UNCHANGED <<link, ledger, proc, orphaned, crashed>>
      /\ flow' = [flow EXCEPT ![k] = [flow[k] EXCEPT !.status = s]]
  BY <1>1 DEF FlowTo, TypeOK
<1>3. /\ flow' \in [Links -> FlowOrders]
      /\ flow'[k].status = s /\ flow'[k].posts = flow[k].posts
      /\ \A j \in Links : j # k => flow'[j] = flow[j]
  BY <1>2 DEF TypeOK, FlowOrders
<1>4. TypeOK'
  BY <1>2, <1>3 DEF TypeOK
<1>5. Claimed' /\ Sole'
  BY <1>1, <1>2, <1>3 DEF TypeOK, Claimed, Statuses, Sole, Minting
<1>6. Observed'
  BY <1>1, <1>2, <1>3 DEF TypeOK, Observed, Statuses
<1>7. Linked' /\ OneLive' /\ LedgerMatchesLinks'
  BY <1>1, <1>2, <1>3 DEF Linked, OneLive, LedgerMatchesLinks, Live, Statuses, Waiting
<1> QED
  BY <1>4, <1>5, <1>6, <1>7

\* A process that dies leaves what it committed.
LEMMA CrashStep ==
  ASSUME IInv, NEW p \in Procs, Crash(p)
  PROVE  IInv'
<1> USE DEF IInv
<1>1. UNCHANGED <<ledger, flow>> /\ Return(p) /\ crashed' \subseteq Crashable
  BY DEF Crash, TypeOK
<1>2. CASE Minting(p) /\ proc[p].on \in Staff
  <2>1. /\ link' = [link EXCEPT ![proc[p].on] = NoLink]
        /\ orphaned' = IF proc[p].at = "post" THEN orphaned ELSE orphaned \cup {proc[p].on}
    BY <1>2 DEF Crash
  <2> QED
    BY <1>1, <1>2, <2>1, MintRolledBack
<1>3. CASE ~ (Minting(p) /\ proc[p].on \in Staff)
  <2>1. UNCHANGED <<link, orphaned>>
    BY <1>3 DEF Crash
  <2>2. /\ proc' \in [Procs -> ProcRows] /\ proc'[p] = Idle /\ Idle.at = "idle"
        /\ \A q \in Procs : q # p => proc'[q] = proc[q]
    BY <1>1, ProcTo, IdleRow DEF Return
  <2>3. TypeOK'
    BY <1>1, <2>1, <2>2 DEF TypeOK
  <2>4. Claimed' /\ Sole' /\ Observed'
    BY <1>1, <2>1, <2>2 DEF Claimed, Sole, Minting, Observed
  <2> QED
    BY <1>1, <2>1, <2>3, <2>4 DEF Linked, Waiting, OneLive, Live, LedgerMatchesLinks
<1> QED
  BY <1>2, <1>3


-----------------------------------------------------------------------------
(* The specification                                                       *)

LEMMA InitIInv == Init => IInv
<1> SUFFICES ASSUME Init PROVE IInv
  OBVIOUS
<1>1. TypeOK
  <2>1. /\ NoLink \in LinkRows
        /\ [amount |-> 0, over |-> 0, voided |-> FALSE] \in PaymentRows
        /\ [status |-> "none", posts |-> 0] \in FlowOrders
    BY TotalAssumption DEF NoLink, LinkRows, PaymentRows, FlowOrders
  <2> QED
    BY <2>1, IdleRow DEF Init, TypeOK
<1>2. Claimed /\ Sole /\ Observed
  BY IdleRow DEF Init, Claimed, Sole, Minting, Observed
<1>3. Linked /\ OneLive /\ LedgerMatchesLinks
  BY DEF Init, NoLink, Linked, Waiting, OneLive, Live, LedgerMatchesLinks, Keys
<1> QED
  BY <1>1, <1>2, <1>3 DEF IInv

LEMMA NextIInv == IInv /\ [Next]_vars => IInv'
<1> SUFFICES ASSUME IInv, [Next]_vars PROVE IInv'
  OBVIOUS
<1>1. ASSUME NEW p \in Procs, Proceed(p) PROVE IInv'
  BY <1>1, CreatePaymentStep, StoreCreatedStep, MarkUncertainStep, SettleStep, SettlePaidStep
  DEF Proceed, Settle
<1>2. ASSUME NEW p \in Procs, Crash(p) PROVE IInv'
  BY <1>2, CrashStep
<1>3. ASSUME NEW p \in Procs, NEW k \in Links, NEW a \in Amounts, CreateClaim(p, k, a)
      PROVE  IInv'
  BY <1>3, CreateClaimStep
<1>4. ASSUME NEW p \in Procs, NEW k \in Links, Verify(p, k) PROVE IInv'
  BY <1>4, VerifyStep
<1>5. ASSUME NEW k \in Links, NEW a \in Amounts, SimulatedCreate(k, a) PROVE IInv'
  BY <1>5, SimulatedCreateStep
<1>6. ASSUME NEW k \in Links, NEW paid \in BOOLEAN, SimulatedConfirm(k, paid) PROVE IInv'
  BY <1>6, SimulatedConfirmStep
<1>7. ASSUME NEW k \in Links, Expire(k) \/ Provider(k) PROVE IInv'
  BY <1>7, ExpireStep, ProviderStep
<1>8. ASSUME NEW k \in Manual, NEW a \in Amounts, RecordPayment(k, a) PROVE IInv'
  BY <1>8, RecordPaymentStep
<1>9. ASSUME NEW k \in Keys, VoidPayment(k) PROVE IInv'
  BY <1>9, VoidPaymentStep
<1>10. CASE UNCHANGED vars
  BY <1>10 DEF vars, IInv, TypeOK, Claimed, Sole, Minting, Observed, Linked, Waiting, OneLive,
     Live, LedgerMatchesLinks
<1> QED
  BY <1>1, <1>2, <1>3, <1>4, <1>5, <1>6, <1>7, <1>8, <1>9, <1>10 DEF Next

LEMMA Invariance == Spec => []IInv
BY InitIInv, NextIInv, PTL DEF Spec

\* Links, payments, orders and processes stay well typed; a recorded amount is
\* one of the deal's, also when the deal is paid twice.
THEOREM TypeCorrect == Spec => []TypeOK
<1>1. IInv => TypeOK
  BY DEF IInv
<1> QED
  BY <1>1, Invariance, PTL

\* The live check of create_link and of simulated_flow lets one charge of a
\* deal wait for its payer at a time, however requests interleave and die: an
\* order that waits beside another is one that the office's transaction left
\* without a row, and then only one of the two can be paid.
THEOREM OneCharge == Spec => []OneOutstanding
<1>1. IInv => OneOutstanding
  BY DEF IInv, Linked, OneLive, OneOutstanding, Live
<1> QED
  BY <1>1, Invariance, PTL

\* The claim that create_link commits before it asks Flow for an order keeps a
\* key of the portal from being POSTed twice, also when its process dies before
\* it learns the reply; a key of the office is POSTed again only after its
\* transaction was rolled back behind a POST.
THEOREM PostedOnce ==
  Spec => [](\A k \in Links : flow[k].posts > 1 => k \in orphaned /\ k \in Staff)
<1>1. IInv => \A k \in Links : flow[k].posts > 1 => k \in orphaned /\ k \in Staff
  BY DEF IInv, Claimed, TypeOK, FlowOrders
<1> QED
  BY <1>1, Invariance, PTL

\* _settle keeps link and ledger together under answers of Flow that are late,
\* repeated or out of order.
THEOREM LinksAndLedger == Spec => []LedgerMatchesLinks
<1>1. IInv => LedgerMatchesLinks
  BY DEF IInv
<1> QED
  BY <1>1, Invariance, PTL

-----------------------------------------------------------------------------
(* Money over the total.  The excess of all standing payments is noted     *)
(* because the excess of any of them is: the payment that a void takes     *)
(* away may be the one with the note, and the rest must then account for   *)
(* itself.                                                                 *)

\* Whichever standing payments exceed the deal, the note of one of them covers
\* what they exceed it by.
Noted ==
  \A V \in SUBSET {k \in Keys : Standing(k)} :
    Cardinality(Money(V)) > Total =>
      \E k \in V \cap Links : ledger[k].over >= Cardinality(Money(V)) - Total

\* A payment joins the ledger within the balance, or a link's with its excess
\* in the note.
LEMMA PaymentNoted ==
  ASSUME TypeOK, Noted, NEW k \in Keys, NEW a \in Amounts, NEW o \in Nat,
         ledger' = [ledger EXCEPT ![k] = [amount |-> a, over |-> o, voided |-> FALSE]],
         a + Collected <= Total \/ (k \in Links /\ o >= a + Collected - Total)
  PROVE  Noted'
<1> DEFINE S == {j \in Keys : Standing(j)}
<1>0. S \in SUBSET Keys /\ Collected = Cardinality(Money(S)) /\ Collected \in Nat
  BY MoneyFinite DEF Collected
<1>1. /\ ledger'[k].amount = a /\ ledger'[k].over = o
      /\ \A j \in Keys : j # k => ledger'[j] = ledger[j]
  BY DEF TypeOK
<1> SUFFICES ASSUME NEW V \in SUBSET {j \in Keys : Standing(j)'}, Cardinality(Money(V)') > Total
             PROVE  \E j \in V \cap Links : ledger'[j].over >= Cardinality(Money(V)') - Total
  BY DEF Noted
<1>2. ASSUME k \notin V
      PROVE  \E j \in V \cap Links : ledger'[j].over >= Cardinality(Money(V)') - Total
  <2>1. V \in SUBSET S /\ \A j \in V : ledger'[j] = ledger[j]
    BY <1>1, <1>2 DEF Standing
  <2>2. Money(V)' = Money(V)
    BY <2>1 DEF Money
  <2>3. PICK j \in V \cap Links : ledger[j].over >= Cardinality(Money(V)) - Total
    BY <2>1, <2>2 DEF Noted
  <2> QED
    BY <2>1, <2>2, <2>3
<1>3. ASSUME k \in V
      PROVE  \E j \in V \cap Links : ledger'[j].over >= Cardinality(Money(V)') - Total
  <2>1. \A j \in V : j # k => j \in S
    BY <1>1 DEF Standing
  <2>2. Money(V)' \subseteq Money(S) \cup ({k} \X (1 .. a))
    BY <1>1, <2>1 DEF Money, Amounts
  <2>3. IsFiniteSet({k} \X (1 .. a)) /\ Cardinality({k} \X (1 .. a)) = a
    <3>1. IsFiniteSet({k}) /\ Cardinality({k}) = 1
      BY FS_Singleton
    <3>2. IsFiniteSet(1 .. a) /\ Cardinality(1 .. a) = a
      BY FS_Interval, TotalAssumption DEF Amounts
    <3>3. IsFiniteSet({k} \X (1 .. a))
          /\ Cardinality({k} \X (1 .. a)) = Cardinality({k}) * Cardinality(1 .. a)
      BY <3>1, <3>2, FS_Product
    <3> QED
      BY <3>1, <3>2, <3>3, TotalAssumption DEF Amounts
  <2>4. Cardinality(Money(V)') \in Nat /\ Cardinality(Money(V)') <= Collected + a
    <3>1. IsFiniteSet(Money(S))
      BY <1>0, MoneyFinite
    <3>2. /\ IsFiniteSet(Money(S) \cup ({k} \X (1 .. a)))
          /\ Cardinality(Money(S) \cup ({k} \X (1 .. a))) <= Collected + a
      BY <1>0, <2>3, <3>1, UnionBound
    <3>3. /\ IsFiniteSet(Money(V)')
          /\ Cardinality(Money(V)') <= Cardinality(Money(S) \cup ({k} \X (1 .. a)))
      BY <2>2, <3>2, FS_Subset
    <3>4. Cardinality(Money(V)') \in Nat
          /\ Cardinality(Money(S) \cup ({k} \X (1 .. a))) \in Nat
      BY <3>2, <3>3, FS_CardinalityType
    <3> QED
      BY <1>0, <3>2, <3>3, <3>4 DEF Amounts
  <2>5. k \in Links /\ o >= Cardinality(Money(V)') - Total
    BY <1>0, <2>4, TotalAssumption DEF Amounts
  <2> QED
    BY <1>1, <1>3, <2>5
<1> QED
  BY <1>2, <1>3

\* A void takes payments away, and the rest were noted among themselves.
LEMMA VoidNoted ==
  ASSUME TypeOK, Noted, NEW k \in Keys, VoidPayment(k)
  PROVE  Noted'
<1>1. /\ ledger'[k].amount = ledger[k].amount /\ ledger'[k].over = ledger[k].over
      /\ ledger'[k].voided
      /\ \A j \in Keys : j # k => ledger'[j] = ledger[j]
  <2>1. ledger[k] \in PaymentRows /\ ledger \in [Keys -> PaymentRows]
    BY DEF TypeOK
  <2>2. ledger' = [ledger EXCEPT ![k] = [ledger[k] EXCEPT !.voided = TRUE]]
    BY <2>1 DEF VoidPayment
  <2>3. /\ [ledger[k] EXCEPT !.voided = TRUE].amount = ledger[k].amount
        /\ [ledger[k] EXCEPT !.voided = TRUE].over = ledger[k].over
        /\ [ledger[k] EXCEPT !.voided = TRUE].voided
    BY <2>1 DEF PaymentRows
  <2> QED
    BY <2>1, <2>2, <2>3
<1> SUFFICES ASSUME NEW V \in SUBSET {j \in Keys : Standing(j)'}, Cardinality(Money(V)') > Total
             PROVE  \E j \in V \cap Links : ledger'[j].over >= Cardinality(Money(V)') - Total
  BY DEF Noted
<1>2. V \in SUBSET {j \in Keys : Standing(j)} /\ \A j \in V : ledger'[j] = ledger[j]
  BY <1>1 DEF Standing
<1>3. Money(V)' = Money(V)
  BY <1>2 DEF Money
<1>4. PICK j \in V \cap Links : ledger[j].over >= Cardinality(Money(V)) - Total
  BY <1>2, <1>3 DEF Noted
<1> QED
  BY <1>2, <1>3, <1>4

\* A step that leaves the ledger alone leaves its notes.
LEMMA QuietNoted ==
  ASSUME Noted, ledger' = ledger
  PROVE  Noted'
<1>1. \A j \in Keys : Standing(j)' <=> Standing(j)
  BY DEF Standing
<1>2. \A V \in SUBSET Keys : Money(V)' = Money(V)
  BY DEF Money
<1> SUFFICES ASSUME NEW V \in SUBSET {j \in Keys : Standing(j)'}, Cardinality(Money(V)') > Total
             PROVE  \E j \in V \cap Links : ledger'[j].over >= Cardinality(Money(V)') - Total
  BY DEF Noted
<1>3. V \in SUBSET {j \in Keys : Standing(j)} /\ Money(V)' = Money(V)
  BY <1>1, <1>2
<1> QED
  BY <1>3 DEF Noted

\* Of the steps that record a payment, only _settle may pass the balance, and
\* it writes the excess into the note.
LEMMA NotedStep == IInv /\ Noted /\ [Next]_vars => Noted'
<1> SUFFICES ASSUME IInv, Noted, [Next]_vars PROVE Noted'
  OBVIOUS
<1>0. TypeOK /\ Linked /\ Observed
  BY DEF IInv
<1>1. ASSUME NEW p \in Procs, SettlePaid(p) PROVE Noted'
  <2>0. PICK k \in Links : k = proc[p].on
    BY <1>0, <1>1 DEF SettlePaid, TypeOK
  <2>1. k \in Keys /\ link[k].amount \in Amounts
    BY <1>0, <1>1, <2>0 DEF SettlePaid, Observed, Linked, Keys
  <2>2. CASE ledger[k].amount > 0
    BY <1>1, <2>0, <2>2, QuietNoted DEF SettlePaid
  <2>3. CASE ~ (ledger[k].amount > 0)
    <3>1. ledger' = [ledger EXCEPT ![k] = [amount |-> link[k].amount,
                       over |-> Excess(link[k].amount), voided |-> FALSE]]
      BY <1>1, <2>0, <2>3 DEF SettlePaid
    <3> QED
      BY <1>0, <2>1, <3>1, ExcessNat, PaymentNoted
  <2> QED
    BY <2>2, <2>3
<1>2. ASSUME NEW k \in Links, NEW paid \in BOOLEAN, SimulatedConfirm(k, paid) PROVE Noted'
  <2>1. k \in Keys /\ link[k].amount \in Amounts /\ link[k].amount <= Balance
    BY <1>0, <1>2 DEF SimulatedConfirm, Linked, Keys
  <2>2. link[k].amount + Collected <= Total
    BY <2>1, ExcessNat, TotalAssumption DEF Balance, Amounts
  <2>3. CASE paid
    BY <1>0, <1>2, <2>1, <2>2, <2>3, PaymentNoted DEF SimulatedConfirm
  <2>4. CASE ~ paid
    BY <1>2, <2>4, QuietNoted DEF SimulatedConfirm
  <2> QED
    BY <2>3, <2>4
<1>3. ASSUME NEW k \in Manual, NEW a \in Amounts, RecordPayment(k, a) PROVE Noted'
  <2>1. k \in Keys /\ a <= Balance
    BY <1>3 DEF RecordPayment, Keys
  <2>2. a + Collected <= Total
    BY <2>1, ExcessNat, TotalAssumption DEF Balance, Amounts
  <2> QED
    BY <1>0, <1>3, <2>1, <2>2, PaymentNoted DEF RecordPayment
<1>4. ASSUME NEW k \in Keys, VoidPayment(k) PROVE Noted'
  BY <1>0, <1>4, VoidNoted
<1>5. ASSUME ledger' = ledger PROVE Noted'
  BY <1>5, QuietNoted
<1>6. ASSUME NEW p \in Procs, Proceed(p), ~ SettlePaid(p) PROVE ledger' = ledger
  BY <1>6 DEF Proceed, Settle, CreatePayment, StoreCreated, MarkUncertain, SettleAgain,
     SettlePending, SettleFailed
<1>7. ASSUME NEW p \in Procs, \/ Crash(p) \/ \E k \in Links : Verify(p, k)
                              \/ \E k \in Links, a \in Amounts : CreateClaim(p, k, a)
      PROVE  ledger' = ledger
  BY <1>7 DEF Crash, Verify, ConfirmLink, RecoverLink, CreateClaim
<1>8. ASSUME NEW k \in Links, Expire(k) \/ Provider(k)
                              \/ \E a \in Amounts : SimulatedCreate(k, a)
      PROVE  ledger' = ledger
  BY <1>8 DEF Expire, Provider, Arrive, Pay, Reject, Annul, FlowTo, SimulatedCreate
<1>9. UNCHANGED vars => ledger' = ledger
  BY DEF vars
<1> QED
  BY <1>1, <1>2, <1>3, <1>4, <1>5, <1>6, <1>7, <1>8, <1>9 DEF Next

\* Nothing stands in an empty ledger.
LEMMA InitNoted == Init => Noted
<1> SUFFICES ASSUME Init PROVE Noted
  OBVIOUS
<1>1. {k \in Keys : Standing(k)} = {}
  BY DEF Init, Standing
<1>2. Money({}) = {}
  BY DEF Money
<1>3. Cardinality(Money({})) = 0
  BY <1>2, FS_EmptySet
<1> QED
  BY <1>1, <1>3, TotalAssumption DEF Noted

\* Flow's money is recorded whatever became of the balance, and while that
\* makes the ledger exceed the deal a standing note of _settle asks for the
\* excess back, whatever a user voids and records besides.
THEOREM ExcessNeverSilent == Spec => []ExcessNoted
<1>1. Noted => ExcessNoted
  <2> SUFFICES ASSUME Noted, Collected > Total
               PROVE  \E k \in Links : Standing(k) /\ ledger[k].over >= Collected - Total
    BY DEF ExcessNoted
  <2> DEFINE S == {k \in Keys : Standing(k)}
  <2>1. PICK k \in S \cap Links : ledger[k].over >= Cardinality(Money(S)) - Total
    BY DEF Noted, Collected
  <2> QED
    BY <2>1 DEF Collected
<1> QED
  BY <1>1, InitNoted, NotedStep, Invariance, PTL DEF Spec

-----------------------------------------------------------------------------
(* Stock: sums of amounts.                                                  *)

\* Amounts that can be summed.
Counts(f) == IsFiniteSet(DOMAIN f) /\ \A x \in DOMAIN f : f[x] \in Nat

\* A finite sum of amounts is a number.
LEMMA SumIsNat ==
  ASSUME NEW f, Counts(f)
  PROVE  IsFiniteSet(Pieces(f)) /\ SumOf(f) \in Nat
<1> DEFINE C == {{x} \X (1..f[x]) : x \in DOMAIN f}
           g == [x \in DOMAIN f |-> {x} \X (1..f[x])]
<1>1. IsFiniteSet(C)
  <2>1. g \in Surjection(DOMAIN f, C)
    BY DEF Surjection
  <2> QED
    BY <2>1, FS_Surjection DEF Counts
<1>2. \A T \in C : IsFiniteSet(T)
  <2> SUFFICES ASSUME NEW x \in DOMAIN f PROVE IsFiniteSet({x} \X (1..f[x]))
    OBVIOUS
  <2>1. IsFiniteSet({x})
    BY FS_Singleton
  <2>2. f[x] \in Int
    BY DEF Counts
  <2>3. IsFiniteSet(1..f[x])
    BY <2>2, FS_Interval
  <2> QED
    BY <2>1, <2>3, FS_Product
<1>3. IsFiniteSet(Pieces(f))
  <2> HIDE DEF C
  <2>1. IsFiniteSet(UNION C)
    BY <1>1, <1>2, FS_UNION
  <2> QED
    BY <2>1 DEF C, Pieces
<1> QED
  BY <1>3, FS_CardinalityType DEF SumOf

\* A sum over two disjoint parts.
LEMMA SumSplit ==
  ASSUME NEW f, NEW g, NEW h, Counts(f), Counts(g), Counts(h),
         DOMAIN f = DOMAIN g \cup DOMAIN h, DOMAIN g \cap DOMAIN h = {},
         \A x \in DOMAIN g : f[x] = g[x], \A x \in DOMAIN h : f[x] = h[x]
  PROVE  SumOf(f) = SumOf(g) + SumOf(h)
<1>1. Pieces(f) = Pieces(g) \cup Pieces(h)
  BY DEF Pieces
<1>2. Pieces(g) \cap Pieces(h) = {}
  BY DEF Pieces
<1>3. IsFiniteSet(Pieces(g)) /\ IsFiniteSet(Pieces(h)) /\ SumOf(g) \in Nat /\ SumOf(h) \in Nat
  BY SumIsNat
<1>4. Cardinality(Pieces(g) \cup Pieces(h)) = SumOf(g) + SumOf(h) - Cardinality(Pieces(g) \cap Pieces(h))
  BY <1>3, FS_Union DEF SumOf
<1>5. Cardinality(Pieces(g) \cap Pieces(h)) = 0
  BY <1>2, FS_EmptySet
<1> QED
  BY <1>1, <1>3, <1>4, <1>5 DEF SumOf

\* A sum of one amount.
LEMMA SumOfOne ==
  ASSUME NEW x, NEW n \in Nat
  PROVE  Counts([y \in {x} |-> n]) /\ SumOf([y \in {x} |-> n]) = n
<1>1. Pieces([y \in {x} |-> n]) = {x} \X (1..n)
  BY DEF Pieces
<1>2. IsFiniteSet({x}) /\ Cardinality({x}) = 1
  BY FS_Singleton
<1>3. IsFiniteSet(1..n) /\ Cardinality(1..n) = n
  BY FS_Interval
<1>4. Cardinality({x} \X (1..n)) = Cardinality({x}) * Cardinality(1..n)
  BY <1>2, <1>3, FS_Product
<1>5. SumOf([y \in {x} |-> n]) = n
  <2>1. Cardinality({x}) * Cardinality(1..n) = n
    BY <1>2, <1>3
  <2> QED
    BY <1>1, <1>4, <2>1, Zenon DEF SumOf
<1>6. Counts([y \in {x} |-> n])
  BY <1>2 DEF Counts
<1> QED
  BY <1>5, <1>6

\* A sum of nothing.
LEMMA SumOfNone ==
  ASSUME NEW f, DOMAIN f = {}
  PROVE  Counts(f) /\ SumOf(f) = 0
<1>1. Pieces(f) = {}
  BY DEF Pieces
<1> QED
  BY <1>1, FS_EmptySet DEF SumOf, Counts

\* A sum of zeros.
LEMMA SumOfZeros ==
  ASSUME NEW f, Counts(f), \A x \in DOMAIN f : f[x] = 0
  PROVE  SumOf(f) = 0
<1>1. Pieces(f) = {}
  <2> SUFFICES ASSUME NEW x \in DOMAIN f PROVE {x} \X (1..f[x]) = {}
    BY DEF Pieces
  <2>1. 1..f[x] = {}
    OBVIOUS
  <2> QED
    BY <2>1
<1> QED
  BY <1>1, FS_EmptySet DEF SumOf

\* One amount taken out of a sum.
LEMMA SumWithout ==
  ASSUME NEW f, Counts(f), NEW x \in DOMAIN f
  PROVE  /\ SumOf(f) = SumOf([y \in DOMAIN f \ {x} |-> f[y]]) + f[x]
         /\ SumOf([y \in DOMAIN f \ {x} |-> f[y]]) \in Nat
<1> DEFINE r == [y \in DOMAIN f \ {x} |-> f[y]]
           h == [y \in {x} |-> f[x]]
<1>1. Counts(r)
  BY FS_Subset DEF Counts
<1>2. f[x] \in Nat
  BY DEF Counts
<1>3. Counts(h) /\ SumOf(h) = f[x]
  BY <1>2, SumOfOne
<1>4. DOMAIN f = DOMAIN r \cup DOMAIN h
  OBVIOUS
<1>5. DOMAIN r \cap DOMAIN h = {}
  OBVIOUS
<1>6. \A y \in DOMAIN r : f[y] = r[y]
  OBVIOUS
<1>7. \A y \in DOMAIN h : f[y] = h[y]
  OBVIOUS
<1>8. SumOf(r) \in Nat
  BY <1>1, SumIsNat
<1> HIDE DEF r, h
<1>9. SumOf(f) = SumOf(r) + SumOf(h)
  BY <1>1, <1>3, <1>4, <1>5, <1>6, <1>7, SumSplit
<1> QED
  BY <1>3, <1>8, <1>9 DEF r

\* One amount changes.
LEMMA SumChanges ==
  ASSUME NEW f, NEW g, Counts(f), Counts(g), DOMAIN f = DOMAIN g,
         NEW x \in DOMAIN f, \A y \in DOMAIN f : y # x => f[y] = g[y]
  PROVE  SumOf(g) = SumOf(f) - f[x] + g[x] /\ SumOf(f) - f[x] \in Nat
<1>1. [y \in DOMAIN f \ {x} |-> f[y]] = [y \in DOMAIN g \ {x} |-> g[y]]
  OBVIOUS
<1>2. f[x] \in Nat /\ g[x] \in Nat
  BY DEF Counts
<1> DEFINE t == SumOf([y \in DOMAIN f \ {x} |-> f[y]])
<1>3. SumOf(f) = t + f[x] /\ t \in Nat
  BY SumWithout
<1>4. SumOf(g) = t + g[x]
  BY <1>1, SumWithout, Zenon
<1> HIDE DEF t
<1> QED
  BY <1>2, <1>3, <1>4

\* A set of numbers has a least one.
LEMMA LeastExists ==
  ASSUME NEW S, S \subseteq Nat, S # {}
  PROVE  \E k \in S : \A j \in S : k <= j
<1>1. PICK k \in S : \A j \in S : ~(<<j, k>> \in OpToRel(<, Nat))
  BY WFMin, NatLessThanWellFounded
<1>2. \A j \in S : ~(j < k)
  BY <1>1 DEF OpToRel
<1> QED
  BY <1>2

-----------------------------------------------------------------------------
(* Stock: the inductive invariant.                                          *)

\* The rows of an item that a station has consumed.
Taken(report, i) == {k \in DOMAIN report : report[k].item = i /\ report[k].consumed}

\* What those rows asked for.
UsedBy(report, i) == SumOf([k \in Taken(report, i) |-> report[k].needed])

\* A row asks for what is reserved and what is short, a station settles it,
\* and it is consumed exactly when its station is done.
RowOK(o, row) ==
    /\ row.reserved + row.short = row.needed /\ row.needed > 0
    /\ row.consumed => row.short = 0
    /\ row.consumed => \E s \in Stations : row.kind \in Kinds(s) /\ steps[o][s] = "DONE"
    /\ \A s \in Stations : row.kind \in Kinds(s) /\ steps[o][s] = "DONE" => row.consumed
    /\ \E s \in Stations : row.kind \in Kinds(s)

Sound(o, report) == \A k \in DOMAIN report : RowOK(o, report[k])

\* The report and the ledger agree about what is held and what was used.
Books(o) ==
    /\ Sound(o, plan[o].report)
    /\ \A i \in Items :
         /\ held[o][i] = IF status[o] = "CANCELLED" THEN 0 ELSE Open(plan[o].report, i)
         /\ used[o][i] = UsedBy(plan[o].report, i)

\* So they will when the transaction that is open commits.
Pending(o) ==
    tx[o].op # "none" =>
      /\ status[o] # "CANCELLED"
      /\ ~tx[o].plan.invalidated
      /\ Sound(o, tx[o].plan.report)
      /\ \A i \in Items : /\ held[o][i] + tx[o].delta[i] = Open(tx[o].plan.report, i)
                          /\ used[o][i] = UsedBy(tx[o].plan.report, i)
      /\ tx[o].op = "optimize" => \A s \in Stations : Physical(s) => steps[o][s] # "DONE"

\* Stations finish in order, a completed order finished all of them, and an
\* offcut still reserved has not been cut.
Floor(o) ==
    /\ status[o] \in {"COMPLETED", "DISPATCHED"} => \A s \in Stations : steps[o][s] = "DONE"
    /\ \A s \in Stations : steps[o][s] \in {"DONE", "IN_PROGRESS"} =>
         \A e \in Stations : e < s => steps[o][e] = "DONE"
    /\ remnant = [state |-> "RESERVED", order |-> o] =>
         \A s \in Stations : "BAR" \in Kinds(s) => steps[o][s] # "DONE"

\* A transaction only takes from items it has locked, and locks exclude.
Locking(o) ==
    /\ tx[o].op = "none" => tx[o].locks = {}
    /\ \A i \in Items \ tx[o].locks : tx[o].delta[i] <= 0
    /\ \A p \in Orders \ {o} : tx[o].locks \cap tx[p].locks = {}

\* What is held, with what the transaction that has the lock adds, is there.
Backed ==
    \A i \in Items : ~Scrapped(i) =>
      /\ Held(i) <= onHand[i]
      /\ \A o \in Orders : i \in tx[o].locks => Held(i) + tx[o].delta[i] <= onHand[i]

StockInv ==
        /\ StockTypeOK
        /\ \A o \in Orders : Books(o) /\ Pending(o) /\ Floor(o) /\ Locking(o)
        /\ Backed
        /\ VoidPlanReplannable

-----------------------------------------------------------------------------
(* Reports.                                                                 *)

\* A report has finitely many rows.
LEMMA ReportIsFinite ==
  ASSUME NEW report \in Seq(Entries)
  PROVE  IsFiniteSet(DOMAIN report) /\ \A k \in DOMAIN report : report[k] \in Entries
<1>1. DOMAIN report = 1..Len(report) /\ Len(report) \in Int
  OBVIOUS
<1> QED
  BY <1>1, FS_Interval

\* Any set of rows may be summed.
LEMMA RowsSum ==
  ASSUME NEW report \in Seq(Entries), NEW S, S \subseteq DOMAIN report
  PROVE  /\ Counts([k \in S |-> report[k].reserved]) /\ SumOf([k \in S |-> report[k].reserved]) \in Nat
         /\ Counts([k \in S |-> report[k].needed]) /\ SumOf([k \in S |-> report[k].needed]) \in Nat
<1>1. IsFiniteSet(S)
  BY ReportIsFinite, FS_Subset
<1>2. \A k \in S : report[k].reserved \in Nat /\ report[k].needed \in Nat
  BY ReportIsFinite DEF Entries
<1>3. Counts([k \in S |-> report[k].reserved]) /\ Counts([k \in S |-> report[k].needed])
  BY <1>1, <1>2 DEF Counts
<1> QED
  BY <1>3, SumIsNat

\* What a report still holds and what it used are numbers.
LEMMA BooksType ==
  ASSUME NEW report \in Seq(Entries), NEW i
  PROVE  Open(report, i) \in Nat /\ UsedBy(report, i) \in Nat
<1>1. OpenRows(report, i) \subseteq DOMAIN report /\ Taken(report, i) \subseteq DOMAIN report
  BY DEF OpenRows, Taken
<1> QED
  BY <1>1, RowsSum DEF Open, UsedBy

\* What the ledger holds of an item is a number.
LEMMA HeldType ==
  ASSUME StockTypeOK, NEW i \in Items
  PROVE  Counts([o \in Orders |-> held[o][i]]) /\ Held(i) \in Nat
<1>1. Counts([o \in Orders |-> held[o][i]])
  BY MovesAssumption DEF Counts, StockTypeOK
<1> QED
  BY <1>1, SumIsNat DEF Held

\* The quantities of an item are numbers.
LEMMA NumberTypes ==
  ASSUME StockTypeOK, NEW o \in Orders, NEW i \in Items
  PROVE  /\ onHand[i] \in Int /\ Held(i) \in Nat
         /\ held[o][i] \in Nat /\ used[o][i] \in Nat /\ tx[o].delta[i] \in Int
<1>1. Held(i) \in Nat
  BY HeldType
<1> QED
  BY <1>1 DEF StockTypeOK, Transactions

\* One order's holding changes.
LEMMA HeldChanges ==
  ASSUME StockTypeOK, StockTypeOK', NEW o \in Orders, NEW i \in Items,
         \A p \in Orders \ {o} : held'[p] = held[p]
  PROVE  Held(i)' = Held(i) - held[o][i] + held'[o][i]
<1> DEFINE f == [p \in Orders |-> held[p][i]]
           g == [p \in Orders |-> held'[p][i]]
<1>1. Counts(f) /\ Counts(g)
  BY MovesAssumption DEF Counts, StockTypeOK
<1>2. DOMAIN f = Orders /\ DOMAIN g = Orders /\ \A p \in Orders : p # o => f[p] = g[p]
  OBVIOUS
<1>3. f[o] = held[o][i] /\ g[o] = held'[o][i]
  OBVIOUS
<1>4. Held(i) = SumOf(f) /\ Held(i)' = SumOf(g)
  BY DEF Held
<1> HIDE DEF f, g
<1>5. SumOf(g) = SumOf(f) - f[o] + g[o]
  BY <1>1, <1>2, SumChanges
<1> QED
  BY <1>3, <1>4, <1>5

-----------------------------------------------------------------------------
(* What a step leaves alone.                                                *)

\* The offcut is this order's.
Reserved(o) == [state |-> "RESERVED", order |-> o]

\* A step is of one order: the rows of every other one stay.
StepOf(o) ==
    \A p \in Orders \ {o} :
      /\ held'[p] = held[p] /\ used'[p] = used[p] /\ plan'[p] = plan[p]
      /\ steps'[p] = steps[p] /\ status'[p] = status[p] /\ tx'[p] = tx[p]
      /\ remnant' = Reserved(p) => remnant = Reserved(p)

\* The books of an order its step leaves alone.
LEMMA BooksKept ==
  ASSUME NEW o, Books(o), held'[o] = held[o], used'[o] = used[o], plan'[o] = plan[o],
         steps'[o] = steps[o], status'[o] = status[o]
  PROVE  Books(o)'
<1>1. Sound(o, plan[o].report)'
  BY DEF Books, Sound, RowOK
<1> QED
  BY <1>1 DEF Books

\* A pending plan the step leaves alone.
LEMMA PendingKept ==
  ASSUME NEW o, Pending(o), held'[o] = held[o], used'[o] = used[o], tx'[o] = tx[o],
         steps'[o] = steps[o], status'[o] = status[o]
  PROVE  Pending(o)'
<1>1. Sound(o, tx[o].plan.report) => Sound(o, tx[o].plan.report)'
  BY DEF Sound, RowOK
<1> QED
  BY <1>1 DEF Pending

\* An order on the floor the step leaves alone.
LEMMA FloorKept ==
  ASSUME NEW o, Floor(o), steps'[o] = steps[o], status'[o] = status[o],
         remnant' = Reserved(o) => remnant = Reserved(o)
  PROVE  Floor(o)'
  BY DEF Floor, Reserved

\* A step of one order keeps the invariant of the others.
LEMMA OthersKept ==
  ASSUME StockInv, NEW o \in Orders, StepOf(o)
  PROVE  \A p \in Orders \ {o} : Books(p)' /\ Pending(p)' /\ Floor(p)'
<1> TAKE p \in Orders \ {o}
<1>1. Books(p) /\ Pending(p) /\ Floor(p)
  BY DEF StockInv
<1> QED
  BY <1>1, BooksKept, PendingKept, FloorKept DEF StepOf

\* One transaction takes locks nobody else has, or lets go of its own.
LEMMA LockingStep ==
  ASSUME StockInv, NEW o \in Orders, \A p \in Orders \ {o} : tx'[p] = tx[p],
         tx'[o].op = "none" => tx'[o].locks = {},
         \A i \in Items \ tx'[o].locks : tx'[o].delta[i] <= 0,
         \A p \in Orders \ {o} : tx'[o].locks \cap tx[p].locks = {}
  PROVE  \A p \in Orders : Locking(p)'
<1> SUFFICES ASSUME NEW p \in Orders PROVE Locking(p)'
  OBVIOUS
<1>1. Locking(p)
  BY DEF StockInv
<1>2. CASE p = o
  BY <1>2 DEF Locking
<1>3. CASE p # o
  BY <1>1, <1>3 DEF Locking
<1> QED
  BY <1>2, <1>3

\* The locks when no transaction moves.
LEMMA LockingSame ==
  ASSUME StockInv, tx' = tx
  PROVE  \A p \in Orders : Locking(p)'
  BY DEF StockInv, Locking

\* A step of one order keeps void plans replannable if that order's is.
LEMMA VoidStep ==
  ASSUME StockInv, NEW o \in Orders, StepOf(o),
         CutsFirst /\ plan'[o].invalidated /\ status'[o] # "CANCELLED" =>
           \A s \in Stations : Physical(s) => steps'[o][s] # "DONE"
  PROVE  VoidPlanReplannable'
<1> SUFFICES ASSUME CutsFirst', NEW p \in Orders, plan'[p].invalidated, status'[p] # "CANCELLED",
                    NEW s \in Stations, Physical(s)'
             PROVE  steps'[p][s] # "DONE"
  BY DEF VoidPlanReplannable
<1>1. CutsFirst /\ Physical(s)
  BY DEF CutsFirst, Physical, Kinds, Stations
<1>2. CASE p = o
  BY <1>1, <1>2
<1>3. CASE p # o
  BY <1>1, <1>3 DEF StockInv, VoidPlanReplannable, StepOf
<1> QED
  BY <1>2, <1>3

\* A step that moves nothing but the transaction of one order.
LEMMA TxStep ==
  ASSUME StockInv, NEW o \in Orders, tx' \in [Orders -> Transactions],
         \A p \in Orders \ {o} : tx'[p] = tx[p],
         UNCHANGED <<onHand, held, used, posted, plan, steps, status, remnant>>,
         Pending(o)',
         tx'[o].op = "none" => tx'[o].locks = {},
         \A i \in Items \ tx'[o].locks : tx'[o].delta[i] <= 0,
         \A p \in Orders \ {o} : tx'[o].locks \cap tx[p].locks = {},
         \A i \in tx'[o].locks : ~Scrapped(i) => Held(i) + tx'[o].delta[i] <= onHand[i]
  PROVE  StockInv'
<1>1. StockTypeOK'
  BY DEF StockInv, StockTypeOK
<1>2. StepOf(o)
  BY DEF StepOf
<1>3. \A p \in Orders : Books(p)' /\ Floor(p)'
  BY BooksKept, FloorKept DEF StockInv
<1>4. \A p \in Orders : Pending(p)'
  BY <1>2, OthersKept
<1>5. \A p \in Orders : Locking(p)'
  BY LockingStep
<1>6. VoidPlanReplannable'
  BY <1>2, VoidStep DEF StockInv, VoidPlanReplannable
<1>7. Backed'
  <2> SUFFICES ASSUME NEW i \in Items, ~Scrapped(i)'
               PROVE  /\ Held(i)' <= onHand'[i]
                      /\ \A p \in Orders : i \in tx'[p].locks => Held(i)' + tx'[p].delta[i] <= onHand'[i]
    BY DEF Backed
  <2>1. ~Scrapped(i)
    BY DEF Scrapped, Signed
  <2>2. Held(i)' = Held(i)
    BY DEF Held
  <2> QED
    BY <2>1, <2>2 DEF StockInv, Backed
<1> QED
  BY <1>1, <1>3, <1>4, <1>5, <1>6, <1>7 DEF StockInv

-----------------------------------------------------------------------------
(* Planning.                                                                *)

\* No transaction is well formed.
LEMMA NoTxType == NoTx \in Transactions
<1>1. <<>> \in Seq(Entries)
  OBVIOUS
<1> QED
  BY <1>1 DEF NoTx, NoPlan, Transactions, PlanRows

\* A transaction that ends without writing anything.
LEMMA Dropped ==
  ASSUME StockInv, NEW o \in Orders, tx' = [tx EXCEPT ![o] = NoTx],
         UNCHANGED <<onHand, held, used, posted, plan, steps, status, remnant>>
  PROVE  StockInv'
<1>1. tx' \in [Orders -> Transactions] /\ tx'[o] = NoTx /\ \A p \in Orders \ {o} : tx'[p] = tx[p]
  BY NoTxType DEF StockInv, StockTypeOK
<1>2. NoTx.op = "none" /\ NoTx.locks = {} /\ \A i \in Items : NoTx.delta[i] = 0
  BY DEF NoTx
<1>3. Pending(o)'
  BY <1>1, <1>2 DEF Pending
<1>4. \A i \in Items \ tx'[o].locks : tx'[o].delta[i] <= 0
  BY <1>1, <1>2
<1> QED
  BY <1>1, <1>2, <1>3, <1>4, TxStep

\* Rollback, and the victim of a deadlock.
LEMMA RollbackStep ==
  ASSUME StockInv, NEW o \in Orders, Rollback(o) \/ DeadlockAbort(o)
  PROVE  StockInv'
  BY Dropped DEF Rollback, DeadlockAbort

\* recheck_work_order_material begins with the plan as it is written.
LEMMA BeginRecheckStep ==
  ASSUME StockInv, NEW o \in Orders, BeginRecheck(o)
  PROVE  StockInv'
<1> DEFINE t == [NoTx EXCEPT !.op = "recheck", !.plan = plan[o]]
<1>1. /\ t.op = "recheck" /\ t.plan = plan[o] /\ t.locks = {}
      /\ t.delta = [i \in Items |-> 0] /\ t \in Transactions
  BY NoTxType DEF NoTx, StockInv, StockTypeOK, Transactions
<1>2. tx' \in [Orders -> Transactions] /\ tx'[o] = t /\ \A p \in Orders \ {o} : tx'[p] = tx[p]
  BY <1>1 DEF BeginRecheck, StockInv, StockTypeOK
<1> HIDE DEF t
<1>3. UNCHANGED <<onHand, held, used, posted, plan, steps, status, remnant>>
  BY DEF BeginRecheck
<1>4. Pending(o)'
  <2>1. Books(o)' /\ status'[o] # "CANCELLED" /\ ~plan[o].invalidated
    BY <1>3, BooksKept DEF StockInv, BeginRecheck
  <2>2. \A i \in Items : held'[o][i] + t.delta[i] = held'[o][i]
    BY <1>1, <1>3 DEF StockInv, StockTypeOK
  <2>3. ~(t.op = "optimize")
    BY <1>1
  <2> QED
    BY <1>1, <1>2, <1>3, <2>1, <2>2, <2>3 DEF Pending, Books
<1>5. /\ tx'[o].locks = {} /\ ~(tx'[o].op = "none")
      /\ \A i \in Items \ tx'[o].locks : tx'[o].delta[i] <= 0
  BY <1>1, <1>2
<1> QED
  BY <1>2, <1>3, <1>4, <1>5, TxStep

\* A station that consumes is one of the plan's.
LEMMA KindIsPhysical ==
  ASSUME NEW s, NEW k \in Kinds(s)
  PROVE  Physical(s)
  BY DEF Kinds, Physical

\* What a plan asks for, before anything is reserved.
LEMMA BlankReport ==
  ASSUME NEW o, NEW p \in Plans,
         \A s \in Stations : Physical(s) => steps[o][s] # "DONE",
         NEW report, report = [k \in DOMAIN p.needs |-> Blank(p.needs[k])]
  PROVE  /\ report \in Seq(Entries) /\ Sound(o, report)
         /\ \A i \in Items : Open(report, i) = 0 /\ UsedBy(report, i) = 0
<1> DEFINE N == [kind : Materials, item : Items, needed : Nat \ {0}]
<1>1. p.needs \in Seq(N)
  BY PlansAssumption
<1>2. DOMAIN p.needs = 1..Len(p.needs) /\ Len(p.needs) \in Nat
  BY <1>1
<1>3. \A k \in DOMAIN p.needs : p.needs[k] \in N
  <2> HIDE DEF N
  <2> QED
    BY <1>1, <1>2, ElementOfSeq
<1>4. \A k \in DOMAIN report : report[k] \in Entries /\ report[k] = Blank(p.needs[k])
  BY <1>3 DEF Blank, Entries
<1>5. report \in Seq(Entries)
  <2>1. report \in [1..Len(p.needs) -> Entries]
    BY <1>2, <1>4
  <2> QED
    BY <1>2, <2>1, SeqDef
<1>6. Sound(o, report)
  <2> SUFFICES ASSUME NEW k \in DOMAIN report PROVE RowOK(o, report[k])
    BY DEF Sound
  <2>1. p.needs[k] \in N /\ k \in DOMAIN p.needs
    BY <1>3
  <2>2. \E s \in Stations : p.needs[k].kind \in Kinds(s)
    BY <2>1, RoutingAssumption
  <2>3. report[k] = [kind |-> p.needs[k].kind, item |-> p.needs[k].item, needed |-> p.needs[k].needed,
                     reserved |-> 0, short |-> p.needs[k].needed, consumed |-> FALSE]
    BY <1>4 DEF Blank
  <2>4. \A s \in Stations : report[k].kind \in Kinds(s) => steps[o][s] # "DONE"
    BY KindIsPhysical
  <2> QED
    BY <2>1, <2>2, <2>3, <2>4 DEF RowOK
<1>7. ASSUME NEW i \in Items PROVE Open(report, i) = 0
  <2>1. OpenRows(report, i) \subseteq DOMAIN report
    BY DEF OpenRows
  <2>2. \A k \in OpenRows(report, i) : report[k].reserved = 0
    BY <1>4, <2>1 DEF Blank
  <2>3. Counts([k \in OpenRows(report, i) |-> report[k].reserved])
    BY <1>5, <2>1, RowsSum
  <2> QED
    BY <2>2, <2>3, SumOfZeros DEF Open
<1>8. ASSUME NEW i \in Items PROVE UsedBy(report, i) = 0
  <2>1. Taken(report, i) = {}
    BY <1>4 DEF Taken, Blank
  <2> QED
    BY <2>1, SumOfNone DEF UsedBy
<1> QED
  BY <1>5, <1>6, <1>7, <1>8

\* optimize_work_order begins with a blank report and its holdings released.
LEMMA BeginOptimizeStep ==
  ASSUME StockInv, NEW o \in Orders, BeginOptimize(o)
  PROVE  StockInv'
<1>1. PICK p \in Plans :
        tx' = [tx EXCEPT ![o] =
               [op |-> "optimize", next |-> 1,
                plan |-> [made |-> TRUE,
                          report |-> [k \in DOMAIN p.needs |-> Blank(p.needs[k])],
                          remnant |-> p.remnant, unmapped |-> p.unmapped,
                          invalidated |-> FALSE],
                delta |-> [i \in Items |-> -Max0(held[o][i])], locks |-> {}]]
  BY DEF BeginOptimize
<1>2. PICK report : report = [k \in DOMAIN p.needs |-> Blank(p.needs[k])]
  OBVIOUS
<1>3. /\ \A s \in Stations : Physical(s) => steps[o][s] # "DONE"
      /\ status[o] # "CANCELLED"
      /\ UNCHANGED <<onHand, held, used, posted, plan, steps, status, remnant>>
  BY DEF BeginOptimize
<1>4. /\ report \in Seq(Entries) /\ Sound(o, report)
      /\ \A i \in Items : Open(report, i) = 0 /\ UsedBy(report, i) = 0
  BY <1>2, <1>3, BlankReport
<1> DEFINE t == [op |-> "optimize", next |-> 1,
                 plan |-> [made |-> TRUE, report |-> report, remnant |-> p.remnant,
                           unmapped |-> p.unmapped, invalidated |-> FALSE],
                 delta |-> [i \in Items |-> -Max0(held[o][i])], locks |-> {}]
<1>5. /\ t.op = "optimize" /\ t.locks = {} /\ t.plan.report = report /\ t.plan.invalidated = FALSE
      /\ \A i \in Items : t.delta[i] = -Max0(held[o][i])
  OBVIOUS
<1>6. \A i \in Items : held[o][i] \in Nat /\ Max0(held[o][i]) = held[o][i]
  BY DEF StockInv, StockTypeOK, Max0
<1>7. t \in Transactions
  BY <1>4, <1>6, PlansAssumption DEF Transactions, PlanRows
<1>8. tx' = [tx EXCEPT ![o] = t]
  BY <1>1, <1>2
<1> HIDE DEF t
<1>9. tx' \in [Orders -> Transactions] /\ tx'[o] = t /\ \A q \in Orders \ {o} : tx'[q] = tx[q]
  BY <1>7, <1>8 DEF StockInv, StockTypeOK
<1>10. \A i \in Items : used[o][i] = 0
  <2> SUFFICES ASSUME NEW i \in Items PROVE UsedBy(plan[o].report, i) = 0
    BY DEF StockInv, Books
  <2>1. Taken(plan[o].report, i) = {}
    BY <1>3, KindIsPhysical DEF StockInv, Books, Sound, RowOK, Taken
  <2> QED
    BY <2>1, SumOfNone DEF UsedBy
<1>11. Pending(o)'
  <2>1. Sound(o, report)'
    BY <1>3, <1>4 DEF Sound, RowOK
  <2>2. \A i \in Items : held'[o][i] + t.delta[i] = 0 /\ used'[o][i] = 0
    BY <1>3, <1>5, <1>6, <1>10
  <2> QED
    BY <1>3, <1>4, <1>5, <1>9, <2>1, <2>2 DEF Pending
<1>12. \A i \in Items \ tx'[o].locks : tx'[o].delta[i] <= 0
  BY <1>5, <1>6, <1>9
<1>13. tx'[o].locks = {} /\ tx'[o].op # "none"
  BY <1>5, <1>9
<1> QED
  BY <1>3, <1>9, <1>11, <1>12, <1>13, TxStep

\* One row of a report gains what was granted to it.
LEMMA Topped ==
  ASSUME NEW r \in Seq(Entries), NEW q \in Seq(Entries), NEW k \in DOMAIN r, NEW g \in Nat,
         ~r[k].consumed, DOMAIN q = DOMAIN r, \A j \in DOMAIN r : j # k => q[j] = r[j],
         q[k].item = r[k].item, q[k].consumed = r[k].consumed, q[k].reserved = r[k].reserved + g
  PROVE  /\ Open(q, r[k].item) = Open(r, r[k].item) + g
         /\ \A i \in Items : i # r[k].item => Open(q, i) = Open(r, i)
         /\ \A i \in Items : UsedBy(q, i) = UsedBy(r, i)
<1>1. \A i : OpenRows(q, i) = OpenRows(r, i) /\ Taken(q, i) = Taken(r, i)
  BY DEF OpenRows, Taken
<1>2. Open(q, r[k].item) = Open(r, r[k].item) + g
  <2> DEFINE U == OpenRows(r, r[k].item)
             f == [j \in U |-> r[j].reserved]
             h == [j \in U |-> q[j].reserved]
  <2>1. U \subseteq DOMAIN r /\ k \in U
    BY DEF OpenRows
  <2>2. Counts(f) /\ Counts(h)
    BY <2>1, RowsSum
  <2>3. DOMAIN f = U /\ DOMAIN h = U /\ \A j \in U : j # k => f[j] = h[j]
    BY <2>1
  <2>4. f[k] = r[k].reserved /\ h[k] = r[k].reserved + g /\ r[k].reserved \in Nat
    BY <2>1, ReportIsFinite DEF Entries
  <2>5. Open(r, r[k].item) = SumOf(f) /\ Open(q, r[k].item) = SumOf(h)
    BY <1>1, Zenon DEF Open
  <2>6. SumOf(f) \in Nat
    BY <2>2, SumIsNat
  <2> HIDE DEF f, h, U
  <2>7. SumOf(h) = SumOf(f) - f[k] + h[k]
    BY <2>1, <2>2, <2>3, SumChanges
  <2> QED
    BY <2>4, <2>5, <2>6, <2>7
<1>3. ASSUME NEW i \in Items, i # r[k].item PROVE Open(q, i) = Open(r, i)
  <2>1. [j \in OpenRows(r, i) |-> q[j].reserved] = [j \in OpenRows(r, i) |-> r[j].reserved]
    BY <1>3 DEF OpenRows
  <2> QED
    BY <1>1, <2>1, Zenon DEF Open
<1>4. ASSUME NEW i \in Items PROVE UsedBy(q, i) = UsedBy(r, i)
  <2>1. [j \in Taken(r, i) |-> q[j].needed] = [j \in Taken(r, i) |-> r[j].needed]
    BY DEF Taken
  <2> QED
    BY <1>1, <2>1, Zenon DEF UsedBy
<1> QED
  BY <1>2, <1>3, <1>4

\* The next row that asks for stock is one of the report's.
LEMMA FirstIsRow ==
  ASSUME StockTypeOK, NEW o \in Orders, Asks(o)
  PROVE  First(o) \in Rows(o)
<1>1. Rows(o) \subseteq Nat
  <2>1. tx[o].plan.report \in Seq(Entries)
    BY DEF StockTypeOK, Transactions, PlanRows
  <2> QED
    BY <2>1 DEF Rows
<1>2. \E k \in Rows(o) : \A j \in Rows(o) : k <= j
  BY <1>1, LeastExists DEF Asks
<1> QED
  BY <1>2 DEF First

\* What a grant makes of a row.
LEMMA TopUpRow ==
  ASSUME NEW row \in Entries, NEW g \in Nat, g <= row.short
  PROVE  /\ TopUp(row, g) \in Entries
         /\ TopUp(row, g).kind = row.kind /\ TopUp(row, g).item = row.item
         /\ TopUp(row, g).needed = row.needed /\ TopUp(row, g).consumed = row.consumed
         /\ TopUp(row, g).reserved = row.reserved + g /\ TopUp(row, g).short = row.short - g
<1>1. row.reserved + g \in Nat /\ row.short - g \in Nat
  BY DEF Entries
<1> DEFINE e == [row EXCEPT !.reserved = row.reserved + g]
<1>2. /\ e \in Entries /\ e.kind = row.kind /\ e.item = row.item /\ e.needed = row.needed
      /\ e.consumed = row.consumed /\ e.reserved = row.reserved + g
  BY <1>1 DEF Entries
<1>3. TopUp(row, g) = [e EXCEPT !.short = row.short - g]
  BY DEF TopUp
<1> HIDE DEF e
<1> QED
  BY <1>1, <1>2, <1>3 DEF Entries

\* What a grant makes of the transaction.
LEMMA GrantedTx ==
  ASSUME StockTypeOK, NEW o \in Orders, NEW g \in Nat, NEW L \in SUBSET Items, Granted(o, g, L),
         NEW k, k = First(o), NEW r, r = tx[o].plan.report, k \in DOMAIN r, g <= r[k].short
  PROVE  /\ tx' \in [Orders -> Transactions] /\ \A p \in Orders \ {o} : tx'[p] = tx[p]
         /\ tx'[o].op = tx[o].op /\ tx'[o].locks = tx[o].locks \cup L
         /\ tx'[o].delta = [tx[o].delta EXCEPT ![r[k].item] = tx[o].delta[r[k].item] + g]
         /\ tx'[o].plan.invalidated = tx[o].plan.invalidated
         /\ tx'[o].plan.report = [r EXCEPT ![k] = TopUp(r[k], g)]
<1>1. r \in Seq(Entries) /\ tx[o] \in Transactions /\ tx[o].plan \in PlanRows /\ tx \in [Orders -> Transactions]
  BY DEF StockTypeOK, Transactions, PlanRows
<1>2. r[k] \in Entries /\ k \in Nat
  BY <1>1, ReportIsFinite
<1> DEFINE q == [r EXCEPT ![k] = TopUp(r[k], g)]
           d == [tx[o].delta EXCEPT ![r[k].item] = tx[o].delta[r[k].item] + g]
           pl == [tx[o].plan EXCEPT !.report = q]
           t == [tx[o] EXCEPT !.next = k + 1, !.delta = d, !.plan = pl, !.locks = tx[o].locks \cup L]
<1>3. tx' = [tx EXCEPT ![o] = t]
  BY DEF Granted, Entry
<1>4. TopUp(r[k], g) \in Entries /\ r[k].item \in Items
  BY <1>2, TopUpRow DEF Entries
<1>5. q \in Seq(Entries)
  <2>1. r \in [1..Len(r) -> Entries] /\ Len(r) \in Nat
    BY <1>1
  <2>2. q \in [1..Len(r) -> Entries]
    BY <1>4, <2>1
  <2> QED
    BY <2>1, <2>2, SeqDef
<1>6. d \in [Items -> Int]
  BY <1>1, <1>4 DEF Transactions
<1>7. pl \in PlanRows /\ pl.report = q /\ pl.invalidated = tx[o].plan.invalidated
  <2> HIDE DEF q
  <2> QED
    BY <1>1, <1>5 DEF PlanRows
<1> HIDE DEF d, pl
<1>8. /\ t \in Transactions /\ t.op = tx[o].op /\ t.locks = tx[o].locks \cup L
      /\ t.delta = d /\ t.plan = pl
  <2>1. tx[o].locks \cup L \in SUBSET Items /\ k + 1 \in Nat
    BY <1>1, <1>2 DEF Transactions
  <2> DEFINE t1 == [tx[o] EXCEPT !.next = k + 1]
             t2 == [t1 EXCEPT !.delta = d]
             t3 == [t2 EXCEPT !.plan = pl]
  <2>2. t1 \in Transactions /\ t1.op = tx[o].op /\ t1.locks = tx[o].locks
    BY <1>1, <2>1 DEF Transactions
  <2>3. t = [t3 EXCEPT !.locks = tx[o].locks \cup L]
    OBVIOUS
  <2> HIDE DEF t1, t
  <2>4. t2 \in Transactions /\ t2.op = tx[o].op /\ t2.locks = tx[o].locks /\ t2.delta = d
    BY <1>6, <2>2 DEF Transactions
  <2> HIDE DEF t2
  <2>5. t3 \in Transactions /\ t3.op = tx[o].op /\ t3.delta = d /\ t3.plan = pl
    BY <1>7, <2>4 DEF Transactions
  <2> HIDE DEF t3
  <2> QED
    BY <2>1, <2>3, <2>5 DEF Transactions
<1> HIDE DEF t, q
<1>9. tx' \in [Orders -> Transactions] /\ tx'[o] = t /\ \A p \in Orders \ {o} : tx'[p] = tx[p]
  BY <1>1, <1>3, <1>8
<1> QED
  BY <1>7, <1>8, <1>9 DEF d, q

\* reserve_for_order: with the item's row locked, what is granted was there,
\* and nobody else can take it before this transaction ends.
LEMMA ReserveStep ==
  ASSUME StockInv, NEW o \in Orders, Reserve(o)
  PROVE  StockInv'
<1>1. PICK k : k = First(o)
  OBVIOUS
<1>2. PICK r : r = tx[o].plan.report
  OBVIOUS
<1>3. StockTypeOK /\ Books(o) /\ Pending(o) /\ Locking(o) /\ Backed
  BY DEF StockInv
<1>4. /\ r \in Seq(Entries) /\ k \in DOMAIN r /\ r[k] \in Entries /\ ~r[k].consumed
      /\ tx[o].op # "none"
  <2>1. k \in Rows(o) /\ tx[o].op # "none"
    BY <1>1, <1>3, FirstIsRow DEF Reserve, Asks
  <2>2. r \in Seq(Entries)
    BY <1>2, <1>3 DEF StockTypeOK, Transactions, PlanRows
  <2> QED
    BY <1>2, <2>1, <2>2, ReportIsFinite DEF Rows
<1>5. PICK i : i = r[k].item
  OBVIOUS
<1>6. i \in Items
  BY <1>4, <1>5 DEF Entries
<1>7. onHand[i] \in Int /\ Held(i) \in Nat /\ \A j \in Items : tx[o].delta[j] \in Int /\ held[o][j] \in Nat
  BY <1>3, <1>6, NumberTypes
<1>8. PICK g : g = Min2(r[k].short, Max0(onHand[i] - Held(i) - tx[o].delta[i]))
  OBVIOUS
<1>9. /\ g \in Nat /\ g <= r[k].short
      /\ g > 0 => Held(i) + tx[o].delta[i] + g <= onHand[i]
  <2>1. r[k].short \in Nat
    BY <1>4 DEF Entries
  <2>2. PICK a : a = onHand[i] - Held(i) - tx[o].delta[i]
    OBVIOUS
  <2>3. tx[o].delta[i] \in Int /\ a \in Int
    BY <1>6, <1>7, <2>2
  <2>4. g = IF r[k].short < (IF a > 0 THEN a ELSE 0) THEN r[k].short ELSE IF a > 0 THEN a ELSE 0
    BY <1>8, <2>2 DEF Min2, Max0
  <2>5. g \in Nat /\ g <= r[k].short /\ (g > 0 => g <= a)
    BY <2>1, <2>3, <2>4
  <2> QED
    BY <1>7, <2>2, <2>3, <2>5
<1>10. Granted(o, g, {i})
  BY <1>1, <1>2, <1>5, <1>8 DEF Reserve, Entry, Available
<1>11. /\ tx' \in [Orders -> Transactions] /\ \A p \in Orders \ {o} : tx'[p] = tx[p]
       /\ tx'[o].op = tx[o].op /\ tx'[o].locks = tx[o].locks \cup {i}
       /\ tx'[o].delta = [tx[o].delta EXCEPT ![i] = tx[o].delta[i] + g]
       /\ tx'[o].plan.invalidated = tx[o].plan.invalidated
       /\ tx'[o].plan.report = [r EXCEPT ![k] = TopUp(r[k], g)]
  <2>1. {i} \in SUBSET Items /\ StockTypeOK /\ k \in DOMAIN r /\ g \in Nat /\ g <= r[k].short
    BY <1>3, <1>4, <1>6, <1>9
  <2>2. /\ tx' \in [Orders -> Transactions] /\ \A p \in Orders \ {o} : tx'[p] = tx[p]
        /\ tx'[o].op = tx[o].op /\ tx'[o].locks = tx[o].locks \cup {i}
        /\ tx'[o].delta = [tx[o].delta EXCEPT ![r[k].item] = tx[o].delta[r[k].item] + g]
        /\ tx'[o].plan.invalidated = tx[o].plan.invalidated
        /\ tx'[o].plan.report = [r EXCEPT ![k] = TopUp(r[k], g)]
    BY <1>1, <1>2, <1>10, <2>1, GrantedTx
  <2> QED
    BY <1>5, <2>2, Zenon
<1>12. PICK q : q = tx'[o].plan.report
  OBVIOUS
<1>13. q \in Seq(Entries) /\ DOMAIN q = DOMAIN r /\ q[k] = TopUp(r[k], g) /\ \A j \in DOMAIN r : j # k => q[j] = r[j]
  BY <1>4, <1>11, <1>12 DEF Transactions, PlanRows
<1>14. /\ q[k].kind = r[k].kind /\ q[k].item = r[k].item /\ q[k].needed = r[k].needed
       /\ q[k].consumed = r[k].consumed /\ q[k].reserved = r[k].reserved + g
       /\ q[k].short = r[k].short - g
  BY <1>4, <1>9, <1>13, TopUpRow
<1>15. /\ Open(q, i) = Open(r, i) + g
       /\ \A j \in Items : j # i => Open(q, j) = Open(r, j)
       /\ \A j \in Items : UsedBy(q, j) = UsedBy(r, j)
  BY <1>4, <1>5, <1>9, <1>13, <1>14, Topped
<1>16. \A j \in Items : tx'[o].delta[j] = IF j = i THEN tx[o].delta[i] + g ELSE tx[o].delta[j]
  BY <1>3, <1>6, <1>11 DEF StockTypeOK, Transactions
<1>17. UNCHANGED <<onHand, held, used, posted, plan, steps, status, remnant>>
  BY DEF Reserve
<1>18. Pending(o)'
  <2>1. Sound(o, q)'
    <3>1. Sound(o, r)
      BY <1>2, <1>3, <1>4 DEF Pending
    <3>2. ASSUME NEW j \in DOMAIN q, j # k PROVE RowOK(o, q[j])'
      BY <1>13, <1>17, <3>1, <3>2 DEF Sound, RowOK
    <3>3. RowOK(o, q[k])'
      <4>1. RowOK(o, r[k])
        BY <1>4, <3>1 DEF Sound
      <4>2. q[k].reserved + q[k].short = q[k].needed
        BY <1>4, <1>9, <1>14, <4>1 DEF RowOK, Entries
      <4> QED
        BY <1>4, <1>14, <1>17, <4>1, <4>2 DEF RowOK
    <3> QED
      BY <3>2, <3>3 DEF Sound
  <2>2. ASSUME NEW j \in Items PROVE held'[o][j] + tx'[o].delta[j] = Open(q, j)
    <3>1. held[o][j] + tx[o].delta[j] = Open(r, j)
      BY <1>2, <1>3, <1>4 DEF Pending
    <3> QED
      BY <1>6, <1>7, <1>9, <1>15, <1>16, <1>17, <3>1
  <2> QED
    BY <1>2, <1>3, <1>4, <1>11, <1>12, <1>15, <1>17, <2>1, <2>2 DEF Pending
<1>19. \A j \in Items \ tx'[o].locks : tx'[o].delta[j] <= 0
  BY <1>3, <1>11, <1>16 DEF Locking
<1>20. \A p \in Orders \ {o} : tx'[o].locks \cap tx[p].locks = {}
  <2>1. \A p \in Orders \ {o} : i \notin tx[p].locks
    BY <1>1, <1>2, <1>5 DEF Reserve, Blockers, Entry
  <2> QED
    BY <1>3, <1>11, <2>1 DEF Locking
<1>21. ASSUME NEW j \in tx'[o].locks, ~Scrapped(j) PROVE Held(j) + tx'[o].delta[j] <= onHand[j]
  <2>1. j \in Items
    BY <1>11 DEF Transactions
  <2>2. CASE j # i
    BY <1>3, <1>11, <1>16, <1>21, <2>1, <2>2 DEF Backed
  <2>3. CASE j = i /\ g > 0
    BY <1>7, <1>9, <1>16, <2>1, <2>3
  <2>4. CASE j = i /\ g = 0
    <3>1. Held(i) <= onHand[i] /\ (i \in tx[o].locks => Held(i) + tx[o].delta[i] <= onHand[i])
      BY <1>3, <1>6, <1>21, <2>4 DEF Backed
    <3>2. i \notin tx[o].locks => tx[o].delta[i] <= 0
      BY <1>3, <1>6 DEF Locking
    <3> QED
      BY <1>6, <1>7, <1>16, <2>4, <3>1, <3>2
  <2> QED
    BY <1>9, <2>2, <2>3, <2>4
<1> QED
  BY <1>4, <1>11, <1>17, <1>18, <1>19, <1>20, <1>21, TxStep

\* The plan and its reservations are written together.
LEMMA CommitStep ==
  ASSUME StockInv, NEW o \in Orders, Commit(o)
  PROVE  StockInv'
<1>1. StockTypeOK /\ Books(o) /\ Pending(o) /\ Floor(o) /\ Locking(o) /\ Backed
  BY DEF StockInv
<1>2. tx[o].op # "none" /\ UNCHANGED <<onHand, used, posted, steps, status>>
  BY DEF Commit
<1>3. tx[o].plan \in PlanRows /\ tx[o].plan.report \in Seq(Entries)
  BY <1>1 DEF StockTypeOK, Transactions, PlanRows
<1>4. /\ held'[o] = [i \in Items |-> held[o][i] + tx[o].delta[i]]
      /\ \A i \in Items : held'[o][i] = Open(tx[o].plan.report, i) /\ held'[o][i] \in Nat
  <2>1. held'[o] = [i \in Items |-> held[o][i] + tx[o].delta[i]]
    BY <1>1 DEF Commit, StockTypeOK
  <2>2. \A i \in Items : held[o][i] + tx[o].delta[i] = Open(tx[o].plan.report, i)
    BY <1>1, <1>2 DEF Pending
  <2> QED
    BY <1>3, <2>1, <2>2, BooksType
<1>5. plan'[o] = tx[o].plan /\ tx'[o] = NoTx /\ tx' \in [Orders -> Transactions]
  BY <1>1, NoTxType DEF Commit, StockTypeOK
<1>6. StockTypeOK'
  <2>1. held' \in [Orders -> [Items -> Nat]]
    <3>1. held'[o] \in [Items -> Nat]
      BY <1>4
    <3> QED
      BY <1>1, <3>1 DEF Commit, StockTypeOK
  <2>2. plan' \in [Orders -> PlanRows]
    BY <1>1, <1>3 DEF Commit, StockTypeOK
  <2>3. remnant' \in [state : {"AVAILABLE", "RESERVED", "CONSUMED"}, order : Orders \cup {NoOrder}]
    BY <1>1 DEF Commit, StockTypeOK, RemnantOf
  <2> QED
    BY <1>1, <1>2, <1>5, <2>1, <2>2, <2>3 DEF StockTypeOK
<1>7. StepOf(o)
  <2>1. ASSUME NEW p \in Orders \ {o}, remnant' = Reserved(p) PROVE remnant = Reserved(p)
    BY <2>1 DEF Commit, RemnantOf, Reserved
  <2> QED
    BY <1>1, <1>2, <2>1 DEF StepOf, Commit, StockTypeOK
<1>8. Books(o)'
  <2>1. Sound(o, plan[o].report)'
    BY <1>1, <1>2, <1>5 DEF Pending, Sound, RowOK
  <2>2. status'[o] # "CANCELLED" /\ \A i \in Items : used'[o][i] = UsedBy(plan'[o].report, i)
    BY <1>1, <1>2, <1>5 DEF Pending
  <2> QED
    BY <1>4, <1>5, <2>1, <2>2 DEF Books
<1>9. NoTx.op = "none" /\ NoTx.locks = {} /\ \A i \in Items : NoTx.delta[i] = 0
  BY DEF NoTx
<1>10. Pending(o)'
  BY <1>5, <1>9 DEF Pending
<1>11. Floor(o)'
  <2>1. remnant' = Reserved(o) => \A s \in Stations : "BAR" \in Kinds(s) => steps[o][s] # "DONE"
    <3>1. CASE tx[o].op = "recheck"
      BY <1>1, <3>1 DEF Commit, RemnantOf, Floor, Reserved
    <3>2. CASE tx[o].op = "optimize"
      BY <1>1, <3>2, KindIsPhysical DEF Pending
    <3> QED
      BY <1>1, <1>2, <3>1, <3>2 DEF StockTypeOK, Transactions
  <2> QED
    BY <1>1, <1>2, <2>1 DEF Floor, Reserved
<1>12. \A p \in Orders : Locking(p)'
  BY <1>5, <1>7, <1>9, LockingStep DEF StepOf
<1>13. Backed'
  <2> SUFFICES ASSUME NEW i \in Items, ~Scrapped(i)'
               PROVE  /\ Held(i)' <= onHand'[i]
                      /\ \A p \in Orders : i \in tx'[p].locks => Held(i)' + tx'[p].delta[i] <= onHand'[i]
    BY DEF Backed
  <2>1. ~Scrapped(i)
    BY <1>2 DEF Scrapped, Signed
  <2>2. Held(i)' = Held(i) + tx[o].delta[i]
    <3>1. Held(i)' = Held(i) - held[o][i] + held'[o][i]
      BY <1>1, <1>6, <1>7, HeldChanges DEF StepOf
    <3>2. Held(i) \in Nat /\ held[o][i] \in Nat /\ tx[o].delta[i] \in Int
      BY <1>1, NumberTypes
    <3> QED
      BY <1>4, <3>1, <3>2
  <2>3. /\ Held(i) \in Nat /\ onHand[i] \in Int
        /\ \A p \in Orders : tx[p].delta[i] \in Int
    BY <1>1, NumberTypes
  <2>4. Held(i) + tx[o].delta[i] <= onHand[i]
    BY <1>1, <2>1, <2>3 DEF Backed, Locking
  <2>5. ASSUME NEW p \in Orders, i \in tx'[p].locks PROVE Held(i)' + tx'[p].delta[i] <= onHand[i]
    <3>1. p # o /\ tx'[p] = tx[p]
      BY <1>5, <1>7, <1>9, <2>5 DEF StepOf
    <3>2. tx[o].delta[i] <= 0
      BY <1>1, <2>5, <3>1 DEF Locking
    <3>3. Held(i) + tx[p].delta[i] <= onHand[i]
      BY <1>1, <2>1, <2>5, <3>1 DEF Backed
    <3> QED
      BY <2>2, <2>3, <3>1, <3>2, <3>3
  <2> QED
    BY <1>2, <2>2, <2>4, <2>5
<1>14. VoidPlanReplannable'
  <2>1. ~plan'[o].invalidated
    BY <1>1, <1>2, <1>5 DEF Pending
  <2> QED
    BY <1>7, <2>1, VoidStep
<1> QED
  BY <1>6, <1>7, <1>8, <1>10, <1>11, <1>12, <1>13, <1>14, OthersKept DEF StockInv

-----------------------------------------------------------------------------
(* The floor.                                                               *)

\* What _refresh_order_status may answer.
LEMMA AggregateStatus ==
  ASSUME NEW st
  PROVE  /\ Aggregate(st) \in {"COMPLETED", "HOLD", "IN_PROGRESS", "RELEASED"}
         /\ Aggregate(st) = "COMPLETED" => \A s \in Stations : st[s] = "DONE"
<1>1. CASE \A s \in Stations : st[s] = "DONE"
  BY <1>1 DEF Aggregate
<1>2. CASE ~(\A s \in Stations : st[s] = "DONE")
  BY <1>2 DEF Aggregate
<1> QED
  BY <1>1, <1>2

\* A step of one order that is in no transaction.
LEMMA FloorStep ==
  ASSUME StockInv, NEW o \in Orders, Unlocked(o), tx' = tx, StepOf(o), StockTypeOK', Backed',
         Books(o)', Floor(o)',
         CutsFirst /\ plan'[o].invalidated /\ status'[o] # "CANCELLED" =>
           \A s \in Stations : Physical(s) => steps'[o][s] # "DONE"
  PROVE  StockInv'
<1>1. Pending(o)'
  BY DEF Pending, Unlocked
<1>2. VoidPlanReplannable'
  BY VoidStep
<1> QED
  BY <1>1, <1>2, LockingSame, OthersKept DEF StockInv

\* The backing when nothing of it moves.
LEMMA BackedSame ==
  ASSUME StockInv, UNCHANGED <<onHand, held, posted, tx>>
  PROVE  Backed'
<1> SUFFICES ASSUME NEW i \in Items, ~Scrapped(i)'
             PROVE  /\ Held(i)' <= onHand'[i]
                    /\ \A p \in Orders : i \in tx'[p].locks => Held(i)' + tx'[p].delta[i] <= onHand'[i]
  BY DEF Backed
<1>1. ~Scrapped(i) /\ Held(i)' = Held(i)
  BY DEF Scrapped, Signed, Held
<1> QED
  BY <1>1 DEF StockInv, Backed

\* A station moves, and the order's status follows.
LEMMA MovesStation ==
  ASSUME StockTypeOK, NEW o \in Orders, NEW s \in Stations, NEW to \in {"READY", "IN_PROGRESS", "BLOCKED", "DONE"},
         Moves(o, s, to)
  PROVE  /\ steps' \in [Orders -> [Stations -> {"READY", "IN_PROGRESS", "BLOCKED", "DONE"}]]
         /\ steps'[o][s] = to /\ \A e \in Stations \ {s} : steps'[o][e] = steps[o][e]
         /\ status' \in [Orders -> {"RELEASED", "IN_PROGRESS", "HOLD", "COMPLETED", "DISPATCHED", "CANCELLED"}]
         /\ status'[o] \notin {"CANCELLED", "DISPATCHED"}
         /\ status'[o] = "COMPLETED" => \A e \in Stations : steps'[o][e] = "DONE"
         /\ \A p \in Orders \ {o} : steps'[p] = steps[p] /\ status'[p] = status[p]
<1>1. /\ steps' \in [Orders -> [Stations -> {"READY", "IN_PROGRESS", "BLOCKED", "DONE"}]]
      /\ steps'[o][s] = to /\ \A e \in Stations \ {s} : steps'[o][e] = steps[o][e]
      /\ \A p \in Orders \ {o} : steps'[p] = steps[p]
  BY DEF Moves, StockTypeOK
<1>2. PICK a : a = Aggregate(steps'[o])
  OBVIOUS
<1>3. /\ a \in {"COMPLETED", "HOLD", "IN_PROGRESS", "RELEASED"}
      /\ a = "COMPLETED" => \A e \in Stations : steps'[o][e] = "DONE"
  BY <1>2, AggregateStatus
<1>4. status' = [status EXCEPT ![o] = a]
  BY <1>2 DEF Moves
<1> QED
  BY <1>1, <1>3, <1>4 DEF StockTypeOK

\* A station that moves short of DONE touches no stock.
LEMMA MovedStep ==
  ASSUME StockInv, NEW o \in Orders, NEW s \in Stations, NEW to \in {"READY", "IN_PROGRESS", "BLOCKED"},
         OnFloor(o), steps[o][s] # "DONE", Moves(o, s, to),
         to = "IN_PROGRESS" => \A e \in Stations : e < s => steps[o][e] = "DONE",
         UNCHANGED <<onHand, held, used, posted, plan, remnant, tx>>
  PROVE  StockInv'
<1>1. StockTypeOK /\ Books(o) /\ Floor(o)
  BY DEF StockInv
<1>2. /\ steps' \in [Orders -> [Stations -> {"READY", "IN_PROGRESS", "BLOCKED", "DONE"}]]
      /\ steps'[o][s] = to /\ \A e \in Stations \ {s} : steps'[o][e] = steps[o][e]
      /\ status' \in [Orders -> {"RELEASED", "IN_PROGRESS", "HOLD", "COMPLETED", "DISPATCHED", "CANCELLED"}]
      /\ status'[o] \notin {"CANCELLED", "DISPATCHED"}
      /\ status'[o] = "COMPLETED" => \A e \in Stations : steps'[o][e] = "DONE"
      /\ \A p \in Orders \ {o} : steps'[p] = steps[p] /\ status'[p] = status[p]
  BY <1>1, MovesStation
<1>3. \A e \in Stations : steps'[o][e] = "DONE" <=> steps[o][e] = "DONE"
  BY <1>2
<1>4. StockTypeOK'
  BY <1>1, <1>2 DEF StockTypeOK
<1>5. StepOf(o)
  BY <1>2 DEF StepOf
<1>6. Books(o)'
  <2>1. Sound(o, plan[o].report)'
    BY <1>1, <1>3 DEF Books, Sound, RowOK
  <2>2. status[o] # "CANCELLED"
    BY DEF OnFloor
  <2> QED
    BY <1>1, <1>2, <2>1, <2>2 DEF Books
<1>7. Floor(o)'
  <2>1. ASSUME NEW x \in Stations, steps'[o][x] \in {"DONE", "IN_PROGRESS"},
               NEW e \in Stations, e < x
        PROVE  steps'[o][e] = "DONE"
    BY <1>1, <1>2, <1>3, <2>1 DEF Floor
  <2> QED
    BY <1>1, <1>2, <1>3, <2>1 DEF Floor
<1>8. Backed'
  BY BackedSame
<1>9. CutsFirst /\ plan'[o].invalidated /\ status'[o] # "CANCELLED" =>
        \A x \in Stations : Physical(x) => steps'[o][x] # "DONE"
  BY <1>3 DEF StockInv, VoidPlanReplannable, OnFloor
<1> QED
  BY <1>4, <1>5, <1>6, <1>7, <1>8, <1>9, FloorStep DEF OnFloor

\* Starting, blocking and unblocking a station.
LEMMA StartStep ==
  ASSUME StockInv, NEW o \in Orders, NEW s \in Stations, Start(o, s) \/ Block(o, s) \/ Unblock(o, s)
  PROVE  StockInv'
<1>1. CASE Start(o, s)
  BY <1>1, MovedStep DEF Start
<1>2. CASE Block(o, s)
  BY <1>2, MovedStep DEF Block
<1>3. CASE Unblock(o, s)
  BY <1>3, MovedStep DEF Unblock
<1> QED
  BY <1>1, <1>2, <1>3

\* Dispatch, and its annulment.
LEMMA DispatchStep ==
  ASSUME StockInv, NEW o \in Orders, Dispatch(o) \/ VoidDispatch(o)
  PROVE  StockInv'
<1>1. /\ Unlocked(o) /\ UNCHANGED <<onHand, held, used, posted, plan, steps, remnant, tx>>
      /\ status[o] \in {"COMPLETED", "DISPATCHED"} /\ status'[o] \in {"COMPLETED", "DISPATCHED"}
      /\ status' \in [Orders -> {"RELEASED", "IN_PROGRESS", "HOLD", "COMPLETED", "DISPATCHED", "CANCELLED"}]
      /\ \A p \in Orders \ {o} : status'[p] = status[p]
  BY DEF Dispatch, VoidDispatch, StockInv, StockTypeOK
<1>2. StockTypeOK' /\ StepOf(o)
  BY <1>1 DEF StockInv, StockTypeOK, StepOf
<1>3. Books(o)'
  <2>1. Sound(o, plan[o].report)'
    BY <1>1 DEF StockInv, Books, Sound, RowOK
  <2> QED
    BY <1>1, <2>1 DEF StockInv, Books
<1>4. Floor(o)'
  BY <1>1 DEF StockInv, Floor
<1>5. Backed'
  BY <1>1, BackedSame
<1>6. CutsFirst /\ plan'[o].invalidated /\ status'[o] # "CANCELLED" =>
        \A x \in Stations : Physical(x) => steps'[o][x] # "DONE"
  BY <1>1 DEF StockInv, VoidPlanReplannable
<1> QED
  BY <1>1, <1>2, <1>3, <1>4, <1>5, <1>6, FloorStep

\* Cancelling gives back everything the order holds.
LEMMA CancelStep ==
  ASSUME StockInv, NEW o \in Orders, Cancel(o)
  PROVE  StockInv'
<1>1. StockTypeOK /\ Books(o) /\ Floor(o)
  BY DEF StockInv
<1>2. Unlocked(o) /\ UNCHANGED <<onHand, used, posted, plan, steps, tx>>
  BY DEF Cancel
<1>3. held'[o] = [i \in Items |-> 0]
  <2>1. \A i \in Items : held[o][i] - Max0(held[o][i]) = 0
    BY <1>1 DEF StockTypeOK, Max0
  <2>2. held'[o] = [i \in Items |-> held[o][i] - Max0(held[o][i])]
    BY <1>1 DEF Cancel, StockTypeOK
  <2> QED
    BY <2>1, <2>2
<1>4. held' \in [Orders -> [Items -> Nat]] /\ \A p \in Orders \ {o} : held'[p] = held[p]
  <2>1. held'[o] \in [Items -> Nat]
    BY <1>3
  <2> QED
    BY <1>1, <2>1 DEF Cancel, StockTypeOK
<1>5. StockTypeOK'
  BY <1>1, <1>2, <1>4 DEF StockTypeOK, Cancel
<1>6. status'[o] = "CANCELLED" /\ \A p \in Orders \ {o} : status'[p] = status[p]
  BY <1>1 DEF Cancel, StockTypeOK
<1>7. remnant' # Reserved(o) /\ \A p \in Orders : remnant' = Reserved(p) => remnant = Reserved(p)
  BY DEF Cancel, Reserved
<1>8. StepOf(o)
  BY <1>2, <1>4, <1>6, <1>7 DEF StepOf
<1>9. Books(o)'
  <2>1. Sound(o, plan[o].report)'
    BY <1>1, <1>2 DEF Books, Sound, RowOK
  <2> QED
    BY <1>1, <1>2, <1>3, <1>6, <2>1 DEF Books
<1>10. Floor(o)'
  BY <1>1, <1>2, <1>6, <1>7 DEF Floor, Reserved
<1>11. Backed'
  <2> SUFFICES ASSUME NEW i \in Items, ~Scrapped(i)'
               PROVE  /\ Held(i)' <= onHand'[i]
                      /\ \A p \in Orders : i \in tx'[p].locks => Held(i)' + tx'[p].delta[i] <= onHand'[i]
    BY DEF Backed
  <2>1. ~Scrapped(i)
    BY <1>2 DEF Scrapped, Signed
  <2>2. Held(i)' = Held(i) - held[o][i] + held'[o][i]
    BY <1>1, <1>5, <1>4, HeldChanges
  <2>3. /\ onHand[i] \in Int /\ Held(i) \in Nat /\ held[o][i] \in Nat /\ held'[o][i] = 0
        /\ \A p \in Orders : tx[p].delta[i] \in Int
    BY <1>1, <1>3, NumberTypes
  <2>4. Held(i)' <= Held(i) /\ Held(i)' \in Int
    BY <2>2, <2>3
  <2>5. Held(i) <= onHand[i] /\ \A p \in Orders : i \in tx[p].locks => Held(i) + tx[p].delta[i] <= onHand[i]
    BY <2>1 DEF StockInv, Backed
  <2> QED
    BY <1>2, <2>3, <2>4, <2>5
<1> QED
  BY <1>2, <1>5, <1>6, <1>8, <1>9, <1>10, <1>11, FloorStep

\* An offcut still reserved was not cut: no saw is done, so a shop that cuts
\* first has finished nothing of the plan it voids.
LEMMA UnreserveStep ==
  ASSUME StockInv, NEW o \in Orders, Unreserve(o)
  PROVE  StockInv'
<1>1. StockTypeOK /\ Books(o) /\ Floor(o)
  BY DEF StockInv
<1>2. /\ Unlocked(o) /\ UNCHANGED <<onHand, held, used, posted, steps, status, tx>>
      /\ remnant = Reserved(o)
  BY DEF Unreserve, Reserved
<1>3. \A p \in Orders : remnant' # Reserved(p)
  BY DEF Unreserve, Reserved
<1>4. /\ plan' \in [Orders -> PlanRows] /\ plan'[o].report = plan[o].report
      /\ \A p \in Orders \ {o} : plan'[p] = plan[p]
  BY <1>1 DEF Unreserve, StockTypeOK, PlanRows
<1>5. StockTypeOK'
  BY <1>1, <1>2, <1>4 DEF StockTypeOK, Unreserve
<1>6. StepOf(o)
  BY <1>2, <1>3, <1>4 DEF StepOf
<1>7. Books(o)'
  <2>1. Sound(o, plan[o].report)'
    BY <1>1, <1>2, <1>4 DEF Books, Sound, RowOK
  <2> QED
    BY <1>1, <1>2, <1>4, <2>1 DEF Books
<1>8. Floor(o)'
  BY <1>1, <1>2, <1>3 DEF Floor, Reserved
<1>9. ASSUME CutsFirst, NEW x \in Stations, Physical(x) PROVE steps'[o][x] # "DONE"
  <2>1. PICK e \in Stations : e <= x /\ "BAR" \in Kinds(e)
    BY <1>9 DEF CutsFirst
  <2>2. steps[o][e] # "DONE"
    BY <1>1, <1>2, <2>1 DEF Floor, Reserved
  <2>3. e < x \/ e = x
    BY <2>1, RoutingAssumption
  <2> QED
    BY <1>1, <1>2, <2>2, <2>3 DEF Floor
<1>10. Backed'
  BY <1>2, BackedSame
<1> QED
  BY <1>2, <1>5, <1>6, <1>7, <1>8, <1>9, <1>10, FloorStep

-----------------------------------------------------------------------------
(* Consumption at a station.                                                *)

\* The rows a station settles, stamped: what they held leaves the open rows
\* and is what the order has used.
LEMMA StampedSums ==
  ASSUME StockTypeOK, NEW o \in Orders, NEW s \in Stations, NEW i \in Items, Books(o), MaterialReady(o, s),
         NEW r, r = plan[o].report, NEW q, q = Stamped(o, s)
  PROVE  /\ q \in Seq(Entries) /\ DOMAIN q = DOMAIN r
         /\ \A k \in DOMAIN r : /\ q[k].kind = r[k].kind /\ q[k].item = r[k].item
                                /\ q[k].needed = r[k].needed /\ q[k].reserved = r[k].reserved
                                /\ q[k].short = r[k].short
                                /\ q[k].consumed <=> (r[k].consumed \/ r[k].kind \in Kinds(s))
         /\ Quantity(o, s, i) \in Nat
         /\ Open(r, i) = Open(q, i) + Quantity(o, s, i)
         /\ UsedBy(q, i) = UsedBy(r, i) + Quantity(o, s, i)
<1>1. r \in Seq(Entries) /\ r \in [1..Len(r) -> Entries] /\ Len(r) \in Nat
  BY DEF StockTypeOK, PlanRows
<1>2. \A k \in DOMAIN r : r[k] \in Entries
  BY <1>1
<1>3. \A k \in Settled(o, s) : r[k].reserved = r[k].needed /\ r[k].reserved > 0
  <2> SUFFICES ASSUME NEW k \in Settled(o, s) PROVE r[k].reserved = r[k].needed /\ r[k].reserved > 0
    OBVIOUS
  <2>1. k \in DOMAIN r /\ r[k].short = 0
    BY DEF MaterialReady, Settled
  <2>2. r[k].reserved + r[k].short = r[k].needed /\ r[k].needed > 0
    BY <2>1 DEF Books, Sound, RowOK
  <2>3. r[k].reserved \in Nat /\ r[k].needed \in Nat
    BY <1>2, <2>1 DEF Entries
  <2> QED
    BY <2>1, <2>2, <2>3
<1>4. DOMAIN q = DOMAIN r
  BY DEF Stamped
<1>5. ASSUME NEW k \in DOMAIN r
      PROVE  /\ q[k] \in Entries /\ q[k].kind = r[k].kind /\ q[k].item = r[k].item
             /\ q[k].needed = r[k].needed /\ q[k].reserved = r[k].reserved
             /\ q[k].short = r[k].short
             /\ q[k].consumed <=> (r[k].consumed \/ r[k].kind \in Kinds(s))
  <2>1. PICK b : b = (r[k].consumed \/ (k \in Settled(o, s) /\ r[k].reserved > 0))
    OBVIOUS
  <2>2. b \in BOOLEAN
    BY <2>1
  <2>3. q[k] = [r[k] EXCEPT !.consumed = b]
    BY <2>1 DEF Stamped
  <2>4. r[k] \in Entries
    BY <1>2
  <2>5. /\ q[k] \in Entries /\ q[k].kind = r[k].kind /\ q[k].item = r[k].item
        /\ q[k].needed = r[k].needed /\ q[k].reserved = r[k].reserved
        /\ q[k].short = r[k].short /\ q[k].consumed = b
    BY <2>2, <2>3, <2>4 DEF Entries
  <2>6. b <=> (r[k].consumed \/ r[k].kind \in Kinds(s))
    BY <1>3, <2>1 DEF Settled
  <2> QED
    BY <2>5, <2>6
<1>6. q \in Seq(Entries)
  <2>2. q \in [1..Len(r) -> Entries]
    BY <1>1, <1>4, <1>5 DEF Stamped
  <2> QED
    BY <1>1, <2>2, SeqDef
<1> DEFINE S == {j \in Settled(o, s) : r[j].item = i}
<1>7. S \subseteq DOMAIN r /\ OpenRows(q, i) \subseteq DOMAIN r /\ OpenRows(r, i) \subseteq DOMAIN r
      /\ Taken(q, i) \subseteq DOMAIN r /\ Taken(r, i) \subseteq DOMAIN r
  BY <1>4 DEF Settled, OpenRows, Taken
<1>8. OpenRows(r, i) = OpenRows(q, i) \cup S /\ OpenRows(q, i) \cap S = {}
  BY <1>4, <1>5 DEF Settled, OpenRows
<1>9. Taken(q, i) = Taken(r, i) \cup S /\ Taken(r, i) \cap S = {}
  BY <1>4, <1>5 DEF Settled, Taken
<1>10. Quantity(o, s, i) = SumOf([k \in S |-> r[k].reserved])
  BY DEF Quantity
<1>11. \A k \in S : r[k].needed = r[k].reserved
  BY <1>3
<1> HIDE DEF S
<1>12. Open(r, i) = Open(q, i) + Quantity(o, s, i)
  <2> DEFINE f == [k \in OpenRows(r, i) |-> r[k].reserved]
             g == [k \in OpenRows(q, i) |-> q[k].reserved]
             h == [k \in S |-> r[k].reserved]
  <2>1. Counts(f) /\ Counts(g) /\ Counts(h)
    BY <1>1, <1>4, <1>6, <1>7, RowsSum
  <2>2. DOMAIN f = DOMAIN g \cup DOMAIN h /\ DOMAIN g \cap DOMAIN h = {}
    BY <1>8
  <2>3. \A x \in DOMAIN g : f[x] = g[x]
    BY <1>5, <1>7, <1>8
  <2>4. \A x \in DOMAIN h : f[x] = h[x]
    BY <1>8
  <2>5. Open(r, i) = SumOf(f) /\ Open(q, i) = SumOf(g)
    BY DEF Open
  <2> HIDE DEF f, g, h
  <2>6. SumOf(f) = SumOf(g) + SumOf(h)
    BY <2>1, <2>2, <2>3, <2>4, SumSplit
  <2> QED
    BY <1>10, <2>5, <2>6 DEF h
<1>13. UsedBy(q, i) = UsedBy(r, i) + Quantity(o, s, i)
  <2> DEFINE f == [k \in Taken(q, i) |-> q[k].needed]
             g == [k \in Taken(r, i) |-> r[k].needed]
             h == [k \in S |-> r[k].reserved]
  <2>1. Counts(f) /\ Counts(g) /\ Counts(h)
    BY <1>1, <1>4, <1>6, <1>7, RowsSum
  <2>2. DOMAIN f = DOMAIN g \cup DOMAIN h /\ DOMAIN g \cap DOMAIN h = {}
    BY <1>9
  <2>3. \A x \in DOMAIN g : f[x] = g[x]
    BY <1>5, <1>7, <1>9
  <2>4. \A x \in DOMAIN h : f[x] = h[x]
    BY <1>5, <1>7, <1>9, <1>11
  <2>5. UsedBy(q, i) = SumOf(f) /\ UsedBy(r, i) = SumOf(g)
    BY DEF UsedBy
  <2> HIDE DEF f, g, h
  <2>6. SumOf(f) = SumOf(g) + SumOf(h)
    BY <2>1, <2>2, <2>3, <2>4, SumSplit
  <2> QED
    BY <1>10, <2>5, <2>6 DEF h
<1>14. Quantity(o, s, i) \in Nat
  BY <1>1, <1>7, <1>10, RowsSum
<1> QED
  BY <1>4, <1>5, <1>6, <1>12, <1>13, <1>14

\* A finished station consumes what its rows hold, no more and no less.
LEMMA CompleteStep ==
  ASSUME StockInv, NEW o \in Orders, NEW s \in Stations, Complete(o, s)
  PROVE  StockInv'
<1>1. StockTypeOK /\ Books(o) /\ Floor(o)
  BY DEF StockInv
<1>2. /\ Unlocked(o) /\ UNCHANGED <<posted, tx>>
      /\ status[o] # "CANCELLED" /\ steps[o][s] = "IN_PROGRESS"
      /\ Physical(s) => ~plan[o].invalidated
  BY DEF Complete, OnFloor
<1>3. /\ steps' \in [Orders -> [Stations -> {"READY", "IN_PROGRESS", "BLOCKED", "DONE"}]]
      /\ steps'[o][s] = "DONE" /\ \A e \in Stations \ {s} : steps'[o][e] = steps[o][e]
      /\ status' \in [Orders -> {"RELEASED", "IN_PROGRESS", "HOLD", "COMPLETED", "DISPATCHED", "CANCELLED"}]
      /\ status'[o] \notin {"CANCELLED", "DISPATCHED"}
      /\ status'[o] = "COMPLETED" => \A e \in Stations : steps'[o][e] = "DONE"
      /\ \A p \in Orders \ {o} : steps'[p] = steps[p] /\ status'[p] = status[p]
  BY <1>1, MovesStation DEF Complete
<1>4. /\ remnant' \in [state : {"AVAILABLE", "RESERVED", "CONSUMED"}, order : Orders \cup {NoOrder}]
      /\ \A p \in Orders : remnant' = Reserved(p) => remnant = Reserved(p)
      /\ "BAR" \in Kinds(s) => remnant' # Reserved(o)
  <2>1. CASE "BAR" \in Kinds(s)
    BY <1>1, <2>1 DEF Complete, ConsumeRemnant, Reserved, StockTypeOK
  <2>2. CASE "BAR" \notin Kinds(s)
    BY <1>1, <2>2 DEF Complete, StockTypeOK
  <2> QED
    BY <2>1, <2>2
<1>5. Floor(o)'
  <2>1. ASSUME NEW x \in Stations, steps'[o][x] \in {"DONE", "IN_PROGRESS"},
               NEW e \in Stations, e < x
        PROVE  steps'[o][e] = "DONE"
    <3>1. steps[o][x] \in {"DONE", "IN_PROGRESS"}
      BY <1>2, <1>3, <2>1
    <3>2. steps[o][e] = "DONE"
      BY <1>1, <2>1, <3>1 DEF Floor
    <3> QED
      BY <1>3, <3>2
  <2>2. remnant' = Reserved(o) => \A x \in Stations : "BAR" \in Kinds(x) => steps'[o][x] # "DONE"
    BY <1>1, <1>3, <1>4 DEF Floor, Reserved
  <2> QED
    BY <1>3, <2>1, <2>2 DEF Floor, Reserved
<1>6. ASSUME plan'[o].invalidated = plan[o].invalidated
      PROVE  CutsFirst /\ plan'[o].invalidated /\ status'[o] # "CANCELLED" =>
               \A x \in Stations : Physical(x) => steps'[o][x] # "DONE"
  <2> SUFFICES ASSUME CutsFirst, plan'[o].invalidated, NEW x \in Stations, Physical(x)
               PROVE  steps'[o][x] # "DONE"
    OBVIOUS
  <2>1. plan[o].invalidated
    BY <1>6, Zenon
  <2>2. steps[o][x] # "DONE"
    BY <1>2, <2>1 DEF StockInv, VoidPlanReplannable
  <2> QED
    BY <1>2, <1>3, <2>1, <2>2
<1>7. CASE Kinds(s) = {}
  <2>1. UNCHANGED <<onHand, held, used, plan>>
    BY <1>7 DEF Complete
  <2>2. StockTypeOK' /\ StepOf(o)
    BY <1>1, <1>2, <1>3, <1>4, <2>1 DEF StockTypeOK, StepOf
  <2>3. Books(o)'
    <3>1. \A x \in Stations : Kinds(x) # {} => (steps'[o][x] = "DONE" <=> steps[o][x] = "DONE")
      BY <1>3, <1>7
    <3>2. Sound(o, plan[o].report)'
      BY <1>1, <2>1, <3>1 DEF Books, Sound, RowOK
    <3> QED
      BY <1>1, <1>2, <1>3, <2>1, <3>2 DEF Books
  <2>4. Backed'
    BY <1>2, <2>1, BackedSame
  <2> QED
    BY <1>2, <1>5, <1>6, <2>1, <2>2, <2>3, <2>4, FloorStep
<1>8. CASE Kinds(s) # {}
  <2>1. MaterialReady(o, s) /\ Consume(o, s)
    BY <1>8 DEF Complete
  <2>2. PICK r : r = plan[o].report
    OBVIOUS
  <2>3. PICK q : q = Stamped(o, s)
    OBVIOUS
  <2>4. ASSUME NEW i \in Items
        PROVE  /\ q \in Seq(Entries) /\ DOMAIN q = DOMAIN r
               /\ \A k \in DOMAIN r : /\ q[k].kind = r[k].kind /\ q[k].item = r[k].item
                                      /\ q[k].needed = r[k].needed /\ q[k].reserved = r[k].reserved
                                      /\ q[k].short = r[k].short
                                      /\ q[k].consumed <=> (r[k].consumed \/ r[k].kind \in Kinds(s))
               /\ Quantity(o, s, i) \in Nat
               /\ Open(r, i) = Open(q, i) + Quantity(o, s, i)
               /\ UsedBy(q, i) = UsedBy(r, i) + Quantity(o, s, i)
    BY <1>1, <2>1, <2>2, <2>3, StampedSums
  <2>5. \A i \in Items : Open(q, i) \in Nat /\ UsedBy(r, i) \in Nat
    BY <1>1, <2>2, <2>4, BooksType DEF StockTypeOK, PlanRows
  <2>6. /\ held'[o] = [i \in Items |-> held[o][i] - Quantity(o, s, i)]
        /\ used'[o] = [i \in Items |-> used[o][i] + Quantity(o, s, i)]
        /\ onHand' = [i \in Items |-> onHand[i] - Quantity(o, s, i)]
        /\ \A p \in Orders \ {o} : held'[p] = held[p] /\ used'[p] = used[p]
    BY <1>1, <2>1 DEF Consume, StockTypeOK
  <2>7. ASSUME NEW i \in Items
        PROVE  /\ held[o][i] = Open(r, i) /\ used[o][i] = UsedBy(r, i)
               /\ held'[o][i] = Open(q, i) /\ used'[o][i] = UsedBy(q, i)
               /\ held'[o][i] \in Nat /\ used'[o][i] \in Nat
    <3>1. held[o][i] = Open(r, i) /\ used[o][i] = UsedBy(r, i)
      BY <1>1, <1>2, <2>2 DEF Books
    <3> QED
      BY <2>4, <2>5, <2>6, <3>1
  <2>8. held' \in [Orders -> [Items -> Nat]] /\ used' \in [Orders -> [Items -> Nat]]
    <3>1. held'[o] \in [Items -> Nat] /\ used'[o] \in [Items -> Nat]
      BY <2>6, <2>7
    <3>2. \E f : held' = [held EXCEPT ![o] = f]
      BY <2>1 DEF Consume
    <3>3. \E f : used' = [used EXCEPT ![o] = f]
      BY <2>1 DEF Consume
    <3> QED
      BY <1>1, <3>1, <3>2, <3>3 DEF StockTypeOK
  <2>9. onHand' \in [Items -> Int]
    BY <1>1, <2>4, <2>6 DEF StockTypeOK
  <2>10. q \in Seq(Entries) /\ DOMAIN q = DOMAIN r
         /\ \A k \in DOMAIN r : /\ q[k].kind = r[k].kind /\ q[k].item = r[k].item
                                /\ q[k].needed = r[k].needed /\ q[k].reserved = r[k].reserved
                                /\ q[k].short = r[k].short
                                /\ q[k].consumed <=> (r[k].consumed \/ r[k].kind \in Kinds(s))
    <3>1. CASE Items # {}
      BY <2>4, <3>1
    <3>2. CASE Items = {}
      <4>1. r \in Seq(Entries) /\ Entries = {}
        BY <1>1, <2>2, <3>2 DEF StockTypeOK, PlanRows, Entries
      <4>2. DOMAIN r = {} /\ r = <<>>
        BY <4>1, ReportIsFinite
      <4>3. q = <<>>
        BY <2>2, <2>3, <4>2 DEF Stamped
      <4> QED
        BY <4>1, <4>2, <4>3
    <3> QED
      BY <3>1, <3>2
  <2>11. /\ plan' \in [Orders -> PlanRows] /\ plan'[o].report = q
         /\ plan'[o].invalidated = plan[o].invalidated
         /\ \A p \in Orders \ {o} : plan'[p] = plan[p]
    <3>1. plan' = [plan EXCEPT ![o].report = q]
      BY <2>1, <2>3 DEF Consume
    <3> DEFINE pl == [plan[o] EXCEPT !.report = q]
    <3>2. plan[o] \in PlanRows
      BY <1>1 DEF StockTypeOK
    <3>3. pl \in PlanRows /\ pl.report = q /\ pl.invalidated = plan[o].invalidated
      BY <2>10, <3>2 DEF PlanRows
    <3>4. plan' = [plan EXCEPT ![o] = pl]
      BY <3>1
    <3> HIDE DEF pl
    <3> QED
      BY <1>1, <3>3, <3>4 DEF StockTypeOK
  <2>12. StockTypeOK'
    BY <1>1, <1>2, <1>3, <1>4, <2>8, <2>9, <2>11 DEF StockTypeOK
  <2>13. StepOf(o)
    BY <1>2, <1>3, <1>4, <2>6, <2>11 DEF StepOf
  <2>14. Books(o)'
    <3>1. Sound(o, q)'
      <4> SUFFICES ASSUME NEW k \in DOMAIN q PROVE RowOK(o, q[k])'
        BY DEF Sound
      <4>1. RowOK(o, r[k])
        BY <1>1, <2>2, <2>10 DEF Books, Sound
      <4>2. q[k].reserved + q[k].short = q[k].needed /\ q[k].needed > 0
        BY <2>10, <4>1 DEF RowOK
      <4>3. q[k].consumed => q[k].short = 0
        <5>1. r[k].kind \in Kinds(s) /\ ~r[k].consumed => r[k].short = 0
          BY <2>1, <2>2, <2>10 DEF MaterialReady, Settled
        <5> QED
          BY <2>10, <4>1, <5>1 DEF RowOK
      <4>4. q[k].consumed => \E x \in Stations : q[k].kind \in Kinds(x) /\ steps'[o][x] = "DONE"
        BY <1>3, <2>10, <4>1 DEF RowOK
      <4>5. \A x \in Stations : q[k].kind \in Kinds(x) /\ steps'[o][x] = "DONE" => q[k].consumed
        BY <1>3, <2>10, <4>1 DEF RowOK
      <4>6. \E x \in Stations : q[k].kind \in Kinds(x)
        BY <2>10, <4>1 DEF RowOK
      <4> QED
        BY <4>2, <4>3, <4>4, <4>5, <4>6 DEF RowOK
    <3> QED
      BY <1>3, <2>7, <2>11, <3>1 DEF Books
  <2>15. Backed'
    <3> SUFFICES ASSUME NEW i \in Items, ~Scrapped(i)'
                 PROVE  /\ Held(i)' <= onHand'[i]
                        /\ \A p \in Orders : i \in tx'[p].locks => Held(i)' + tx'[p].delta[i] <= onHand'[i]
      BY DEF Backed
    <3>1. ~Scrapped(i)
      BY <1>2 DEF Scrapped, Signed
    <3>2. Held(i)' = Held(i) - held[o][i] + held'[o][i]
      BY <1>1, <2>6, <2>12, HeldChanges
    <3>3. /\ onHand[i] \in Int /\ Held(i) \in Nat /\ held[o][i] \in Nat
          /\ \A p \in Orders : tx[p].delta[i] \in Int
      BY <1>1, NumberTypes
    <3>4. Quantity(o, s, i) \in Nat
      BY <2>4
    <3>5. Held(i)' = Held(i) - Quantity(o, s, i) /\ onHand'[i] = onHand[i] - Quantity(o, s, i)
      BY <2>6, <3>2, <3>3, <3>4
    <3>6. Held(i) <= onHand[i] /\ \A p \in Orders : i \in tx[p].locks => Held(i) + tx[p].delta[i] <= onHand[i]
      BY <3>1 DEF StockInv, Backed
    <3> QED
      BY <1>2, <3>3, <3>4, <3>5, <3>6
  <2> QED
    BY <1>2, <1>5, <1>6, <2>11, <2>12, <2>13, <2>14, <2>15, FloorStep
<1> QED
  BY <1>7, <1>8

-----------------------------------------------------------------------------
(* Goods in and corrections.                                                *)

\* A movement of an item by hand or by delivery: more pieces, or a scrap.
LEMMA MovementStep ==
  ASSUME StockInv, NEW m \in Receipts \cup Corrections, NEW d \in Int, m.item \in Items,
         onHand' = [onHand EXCEPT ![m.item] = @ + d], posted' = posted \cup {m},
         d < 0 => Scrapped(m.item)',
         UNCHANGED <<held, used, plan, steps, status, remnant, tx>>
  PROVE  StockInv'
<1>1. StockTypeOK'
  BY DEF StockInv, StockTypeOK
<1>2. \A o \in Orders : Books(o)' /\ Pending(o)' /\ Floor(o)' /\ Locking(o)'
  BY BooksKept, PendingKept, FloorKept, LockingSame DEF StockInv
<1>3. VoidPlanReplannable'
  BY DEF StockInv, VoidPlanReplannable, CutsFirst, Physical, Kinds, Stations
<1>4. Backed'
  <2> SUFFICES ASSUME NEW i \in Items, ~Scrapped(i)'
               PROVE  /\ Held(i)' <= onHand'[i]
                      /\ \A p \in Orders : i \in tx'[p].locks => Held(i)' + tx'[p].delta[i] <= onHand'[i]
    BY DEF Backed
  <2>1. ~Scrapped(i) /\ Held(i)' = Held(i)
    BY DEF Scrapped, Signed, Held
  <2>2. /\ onHand[i] \in Int /\ Held(i) \in Nat
        /\ \A p \in Orders : tx[p].delta[i] \in Int
    BY HeldType DEF StockInv, StockTypeOK, Transactions
  <2>3. onHand'[i] \in Int /\ onHand'[i] >= onHand[i]
    BY <2>2 DEF StockInv, StockTypeOK
  <2>4. Held(i) <= onHand[i] /\ \A p \in Orders : i \in tx[p].locks => Held(i) + tx[p].delta[i] <= onHand[i]
    BY <2>1 DEF StockInv, Backed
  <2> QED
    BY <2>1, <2>2, <2>3, <2>4
<1> QED
  BY <1>1, <1>2, <1>3, <1>4 DEF StockInv

\* A delivery brings pieces.
LEMMA ReceiveStep ==
  ASSUME StockInv, NEW r \in Receipts, Receive(r)
  PROVE  StockInv'
<1>1. r.item \in Items /\ r.good \in Int /\ ~(r.good < 0)
  BY MovesAssumption
<1> QED
  BY <1>1, MovementStep DEF Receive

\* A manual movement brings pieces, or scraps them.
LEMMA CorrectStep ==
  ASSUME StockInv, NEW c \in Corrections, Correct(c)
  PROVE  StockInv'
<1>1. c.item \in Items /\ Signed(c) \in Int
  BY MovesAssumption DEF Signed
<1>2. Signed(c) < 0 => Scrapped(c.item)'
  BY DEF Scrapped, Correct, Signed
<1> QED
  BY <1>1, <1>2, MovementStep DEF Correct

\* The invariant holds initially.
LEMMA StockInitInv ==
  ASSUME StockInit
  PROVE  StockInv
<1>1. NoPlan \in PlanRows /\ NoPlan.report = <<>> /\ ~NoPlan.invalidated
  <2>1. <<>> \in Seq(Entries)
    OBVIOUS
  <2> QED
    BY <2>1 DEF NoPlan, PlanRows
<1>2. StockTypeOK
  BY <1>1, NoTxType DEF StockInit, StockTypeOK
<1>3. NoTx.op = "none" /\ NoTx.locks = {} /\ \A i \in Items : NoTx.delta[i] = 0
  BY DEF NoTx
<1>4. ASSUME NEW o \in Orders PROVE Books(o) /\ Pending(o) /\ Floor(o) /\ Locking(o)
  <2>1. plan[o] = NoPlan /\ status[o] = "RELEASED" /\ \A p \in Orders : tx[p] = NoTx
    BY DEF StockInit
  <2>2. ASSUME NEW i \in Items PROVE Open(<<>>, i) = 0 /\ UsedBy(<<>>, i) = 0
    <3>1. OpenRows(<<>>, i) = {} /\ Taken(<<>>, i) = {}
      BY DEF OpenRows, Taken
    <3> QED
      BY <3>1, SumOfNone DEF Open, UsedBy
  <2>3. Books(o)
    BY <1>1, <2>1, <2>2 DEF Books, Sound, StockInit
  <2>4. Floor(o)
    BY DEF Floor, StockInit
  <2>5. Pending(o) /\ Locking(o)
    BY <1>3, <2>1 DEF Pending, Locking
  <2> QED
    BY <2>3, <2>4, <2>5
<1>5. Backed
  <2>1. ASSUME NEW i \in Items PROVE Held(i) = 0
    <3>1. \A o \in Orders : [p \in Orders |-> held[p][i]][o] = 0
      BY DEF StockInit
    <3> QED
      BY <1>2, <3>1, HeldType, SumOfZeros DEF Held
  <2> QED
    BY <1>3, <2>1 DEF Backed, StockInit
<1>6. VoidPlanReplannable
  BY <1>1 DEF VoidPlanReplannable, StockInit
<1> QED
  BY <1>2, <1>4, <1>5, <1>6 DEF StockInv

\* Every step preserves the invariant.
LEMMA StockNextInv ==
  ASSUME StockInv, [StockNext]_stockVars
  PROVE  StockInv'
<1>1. CASE UNCHANGED stockVars
  <2>1. StockTypeOK'
    BY <1>1 DEF StockInv, StockTypeOK, stockVars
  <2>2. \A o \in Orders : Books(o)' /\ Pending(o)' /\ Floor(o)' /\ Locking(o)'
    BY <1>1, BooksKept, PendingKept, FloorKept, LockingSame DEF StockInv, stockVars
  <2>3. VoidPlanReplannable'
    BY <1>1 DEF StockInv, VoidPlanReplannable, CutsFirst, Physical, Kinds, Stations, stockVars
  <2>4. Backed'
    BY <1>1, BackedSame DEF stockVars
  <2> QED
    BY <2>1, <2>2, <2>3, <2>4 DEF StockInv
<1>2. ASSUME NEW o \in Orders,
             \/ BeginOptimize(o) \/ BeginRecheck(o) \/ Reserve(o) \/ Commit(o)
             \/ Rollback(o) \/ DeadlockAbort(o)
      PROVE  StockInv'
  BY <1>2, BeginOptimizeStep, BeginRecheckStep, ReserveStep, CommitStep, RollbackStep
<1>3. ASSUME NEW o \in Orders, Cancel(o) \/ Dispatch(o) \/ VoidDispatch(o) \/ Unreserve(o)
      PROVE  StockInv'
  BY <1>3, CancelStep, DispatchStep, UnreserveStep
<1>4. ASSUME NEW o \in Orders, NEW s \in Stations,
             Start(o, s) \/ Block(o, s) \/ Unblock(o, s) \/ Complete(o, s)
      PROVE  StockInv'
  BY <1>4, StartStep, CompleteStep
<1> QED
  BY <1>1, <1>2, <1>3, <1>4, ReceiveStep, CorrectStep DEF StockNext

\* The invariant always holds.
LEMMA StockInvariant == StockSpec => []StockInv
<1>1. StockInit => StockInv
  BY StockInitInv
<1>2. StockInv /\ [StockNext]_stockVars => StockInv'
  BY StockNextInv
<1> QED
  BY <1>1, <1>2, PTL DEF StockSpec

\* Every state of the stock ledger, the plans and the stations is well formed.
\* In particular no order ever holds a negative quantity: consumption and
\* release (consume_for_order, release_reservations) never take more than was
\* reserved.
THEOREM StockTypes == StockSpec => []StockTypeOK
<1>1. StockInv => StockTypeOK
  BY DEF StockInv
<1> QED
  BY <1>1, StockInvariant, PTL

\* Whatever orders, items, plans and stations there are, work orders never
\* hold more of an item than is on hand until pieces of it are scrapped by
\* hand: reserve_for_order reads the balance under the item's row lock.
THEOREM HeldStockIsBacked == StockSpec => []HeldIsBacked
<1>1. StockInv => HeldIsBacked
  BY DEF StockInv, Backed, HeldIsBacked
<1> QED
  BY <1>1, StockInvariant, PTL

\* For every plan and routing, the report in an order's payload says exactly
\* what the ledger holds for it, and a completed order has consumed exactly
\* what its plan needed (consume_for_order stamps what it consumes).
THEOREM ReportMatchesLedger == StockSpec => []ReportIsLedger
<1>1. ASSUME StockInv PROVE ReportIsLedger
  <2> SUFFICES ASSUME NEW o \in Orders, NEW i \in Items, status[o] \in {"COMPLETED", "DISPATCHED"}
               PROVE  /\ Open(plan[o].report, i) = 0
                      /\ UsedBy(plan[o].report, i) =
                           SumOf([k \in {j \in DOMAIN plan[o].report : plan[o].report[j].item = i} |->
                                    plan[o].report[k].needed])
    BY <1>1 DEF StockInv, Books, ReportIsLedger
  <2>1. \A k \in DOMAIN plan[o].report : plan[o].report[k].consumed
    BY <1>1 DEF StockInv, Books, Floor, Sound, RowOK
  <2>2. OpenRows(plan[o].report, i) = {}
    BY <2>1 DEF OpenRows
  <2>3. Taken(plan[o].report, i) = {j \in DOMAIN plan[o].report : plan[o].report[j].item = i}
    BY <2>1 DEF Taken
  <2> QED
    BY <2>2, <2>3, SumOfNone DEF Open, UsedBy
<1> QED
  BY <1>1, StockInvariant, PTL

\* Where the stations begin with a saw, a plan that lost its offcut never has
\* a finished physical station, so optimize_work_order is not refused for good.
THEOREM VoidPlansReplannable == StockSpec => []VoidPlanReplannable
<1>1. StockInv => VoidPlanReplannable
  BY DEF StockInv
<1> QED
  BY <1>1, StockInvariant, PTL

-----------------------------------------------------------------------------
(***************************************************************************)
(* PositionEditor.  A tab with nothing on it holds nothing; a page has one *)
(* save in flight and is busy with it; a token it holds or sent is of a    *)
(* version that was on its canvas; and the newest edit of a user who       *)
(* answers what the page offers is on the canvas, or on offer, or, while   *)
(* the design is not there, in the draft.                                  *)
(***************************************************************************)
\* The state of the workspace and the histories, apart from what names a row.
Workspaces == [loaded : BOOLEAN, saved : Tokens, baseline : Designs \cup {Nothing},
               busy : BOOLEAN, uncertain : BOOLEAN, conflict : BOOLEAN,
               pending : Designs \cup {Nothing}, result : Designs \cup {Nothing}]

\* The designs somebody drew.
Drawn == Mine \cup Theirs

\* A save in flight whose answer is for the page that is open.
LiveAt(i) == reqs[i].live /\ Flying(reqs[i])

\* A save of this page was stored and its handlers have not ended.
StoredLive == \E i \in DOMAIN reqs : reqs[i].live /\ reqs[i].st = "stored"

\* The route creates a window.
Creating == world.mode = "new" /\ route = 0

\* A page that is not there, or has loaded nothing, has nothing.
Mounted ==
  /\ page = "gone" => ~ ed.loaded /\ load = NoRetrieve
  /\ ~ ed.loaded => ed = Fresh /\ canvas = Empty /\ probe = NoRetrieve /\ ~ timer

\* The route of a window that exists names a row, and a retrieve is of it; a
\* new window retrieves nothing and is there at once.
Named ==
  /\ world.mode # "new" => rows # <<>>
  /\ Creating => load = NoRetrieve /\ (page = "open" => ed.loaded)
  /\ load # NoRetrieve => load.id = Source

\* While creating there is no conflict, and no token until the create is stored.
Created ==
  route = 0 => /\ ~ ed.conflict
               /\ ed.saved # NoRow \/ probe # NoRetrieve => StoredLive

\* A page has one save in flight, and is busy with it; what was saved is a row,
\* and a save of a creation has no token.
Requested ==
  /\ \A i \in DOMAIN reqs :
       /\ reqs[i].live => reqs[i].here
       /\ reqs[i].st \in {"ok", "stored"} => reqs[i].id \in DOMAIN rows
       /\ LiveAt(i) => /\ ed.loaded /\ ed.busy
                       /\ route = 0 => reqs[i].saved = NoRow
  /\ \A i, j \in DOMAIN reqs : LiveAt(i) /\ LiveAt(j) => i = j

\* The shape of the editor.
Shape == Mounted /\ Named /\ Created /\ Requested

\* A row of the server.
RowList == [ver : Nat, design : Designs, by : {"init", "me", "other"}]

-----------------------------------------------------------------------------
(* PositionEditor: types.                                                 *)

\* The rows are a sequence of them.
LEMMA RowTypes ==
  ASSUME EditorTypeOK
  PROVE  /\ rows \in Seq(RowList)
         /\ DOMAIN rows = 1..Len(rows) /\ DOMAIN rows \subseteq Nat
         /\ \A i \in DOMAIN rows :
              rows[i] \in RowList /\ rows[i].ver \in Nat /\ rows[i].design \in Designs
  <1>1. rows \in Seq(RowList)
    BY DEF EditorTypeOK, RowList
  <1>2. /\ DOMAIN rows = 1..Len(rows) /\ DOMAIN rows \subseteq Nat
        /\ \A i \in DOMAIN rows : rows[i] \in RowList
    BY <1>1, ElementOfSeq, LenProperties
  <1> QED
    BY <1>1, <1>2 DEF RowList

\* A token names a row.
LEMMA TokenShape ==
  ASSUME NEW t, t \in Tokens, EditorTypeOK
  PROVE  /\ t.id \in Nat /\ t.ver \in Nat
         /\ t # NoRow => t.id \in DOMAIN rows
  BY RowTypes DEF Tokens, NoRow

\* What a step leaves of the workspace's state, and what Redraw makes of the
\* result, the draft and its timer.
SameBase == ed'.loaded = ed.loaded /\ ed'.saved = ed.saved /\ ed'.baseline = ed.baseline

SameFlags == ed'.busy = ed.busy /\ ed'.uncertain = ed.uncertain /\ ed'.conflict = ed.conflict

\* The result shown is of the design on the canvas, and calculated.
Evaluated == ed'.result = Nothing \/ (ed'.result = canvas' /\ canvas' \in calc')

\* The draft is s, or was removed because the editor is clean.
DraftOr(s) == draft' = s \/ (ed'.loaded /\ canvas' = ed'.baseline /\ draft' = Nothing)

\* The timer of the draft runs only for a dirty editor, or went on running.
Timed ==
  timer' => \/ ed'.loaded /\ Dirty'
            \/ /\ timer /\ canvas' = canvas
               /\ ed'.loaded = ed.loaded /\ ed'.baseline = ed.baseline

\* What the effects that run after a render leave.
LEMMA RedrawResult ==
  ASSUME EditorTypeOK, NEW e \in Workspaces, NEW s \in Designs \cup {Nothing},
         NEW fresh \in BOOLEAN, canvas' \in Designs, Redraw(e, s, fresh)
  PROVE  /\ ed' \in Workspaces
         /\ ed'.loaded = e.loaded /\ ed'.saved = e.saved
         /\ ed'.baseline = e.baseline /\ ed'.busy = e.busy
         /\ ed'.uncertain = e.uncertain /\ ed'.conflict = e.conflict
         /\ ed'.pending = e.pending
         /\ Evaluated \/ (ed'.result = e.result /\ canvas' = canvas)
         /\ draft' \in Designs \cup {Nothing} /\ DraftOr(s)
         /\ timer' \in BOOLEAN /\ Timed
  <1>1. /\ Published(e) \in Designs \cup {Nothing}
        /\ \/ Published(e) = e.result /\ canvas' = canvas
           \/ Published(e) = Nothing
           \/ Published(e) = canvas' /\ canvas' \in calc'
    BY DEF Published, currentEvaluation, Workspaces
  <1>2. /\ ed' \in Workspaces /\ ed'.result = Published(e)
        /\ ed'.loaded = e.loaded /\ ed'.saved = e.saved
        /\ ed'.baseline = e.baseline /\ ed'.busy = e.busy
        /\ ed'.uncertain = e.uncertain /\ ed'.conflict = e.conflict
        /\ ed'.pending = e.pending
    BY <1>1 DEF Workspaces, Redraw
  <1>3. /\ draft' \in Designs \cup {Nothing}
        /\ draft' = s \/ (e.loaded /\ canvas' = e.baseline /\ draft' = Nothing)
    BY DEF Redraw
  <1>4. /\ timer' \in BOOLEAN
        /\ timer' => \/ e.loaded /\ (e.baseline = Nothing \/ canvas' # e.baseline)
                     \/ /\ timer /\ canvas' = canvas
                        /\ e.loaded = ed.loaded /\ e.baseline = ed.baseline
    BY DEF Redraw, Workspaces, EditorTypeOK
  <1> QED
    BY <1>1, <1>2, <1>3, <1>4 DEF Evaluated, DraftOr, Timed, Dirty

\* What the row's own type gives where no row changes.
LEMMA SameRows ==
  ASSUME rows' = rows
  PROVE  /\ Tokens' = Tokens /\ Retrieves' = Retrieves /\ Requests' = Requests
         /\ Workspaces' = Workspaces
  BY DEF Tokens, Retrieves, Requests, Workspaces

\* The state of the workspace is well typed.
LEMMA WorkspaceTypes ==
  ASSUME EditorTypeOK
  PROVE  ed \in Workspaces
  BY DEF EditorTypeOK, Workspaces

\* The canvas store after a design was put in it.
LEMMA ShowTypes ==
  ASSUME NEW d \in Designs, Show(d)
  PROVE  /\ canvas' \in Designs /\ canvas' = Resolve[d]
         /\ past' = <<>> /\ future' = <<>> /\ touched' = TRUE
         /\ past' \in Seq(Designs) /\ future' \in Seq(Designs)
         /\ Len(past') + Len(future') <= HistoryLimit
  BY EditorAssumption DEF Show, Resolved

\* A retrieve that leaves is well typed.
LEMMA AskedTypes ==
  ASSUME NEW id \in DOMAIN rows
  PROVE  /\ Asked(id) \in Retrieves /\ Asked(id).st = "sent"
         /\ Asked(id).id = id /\ Asked(id) # NoRetrieve
  BY DEF Asked, Retrieves, NoRetrieve, Nothing

\* And one that was answered.
LEMMA AnsweredTypes ==
  ASSUME EditorTypeOK, NEW q \in Retrieves, q.st = "sent"
  PROVE  /\ Answered(q) \in Retrieves /\ Answered(q).st = "read"
         /\ Answered(q).id = q.id /\ q.id \in DOMAIN rows
         /\ Answered(q).ver = rows[q.id].ver
         /\ Answered(q).design = rows[q.id].design
         /\ Answered(q) # NoRetrieve
  <1>1. /\ q \in [st : {"sent"}, id : DOMAIN rows, ver : {0}, design : {Nothing}]
    BY DEF Retrieves, NoRetrieve
  <1> QED
    BY <1>1, RowTypes DEF Answered, Retrieves, NoRetrieve

\* What an answered retrieve carries.
LEMMA ReadTypes ==
  ASSUME NEW q \in Retrieves
  PROVE  /\ q.st \in {"none", "sent", "read"}
         /\ q.st = "none" <=> q = NoRetrieve
         /\ q.st # "none" => q.id \in DOMAIN rows
         /\ q.st = "read" => q.ver \in Nat /\ q.design \in Designs
  BY DEF Retrieves, NoRetrieve

\* The server answers a retrieve: the state stays well typed.
LEMMA ServerReadsTypes ==
  ASSUME EditorTypeOK, ServerReads
  PROVE  EditorTypeOK'
  BY AnsweredTypes, SameRows DEF EditorTypeOK, ServerReads, store

\* A retrieve fails: the state stays well typed.
LEMMA LoadFailsTypes ==
  ASSUME EditorTypeOK, LoadFails
  PROVE  EditorTypeOK'
  BY SameRows DEF EditorTypeOK, LoadFails, store, Retrieves

\* The draft is written: the state stays well typed.
LEMMA WriteDraftTypes ==
  ASSUME EditorTypeOK, WriteDraft
  PROVE  EditorTypeOK'
  BY SameRows DEF EditorTypeOK, WriteDraft, store

\* The measurements are confirmed: the state stays well typed.
LEMMA ConfirmTypes ==
  ASSUME EditorTypeOK, Confirm
  PROVE  EditorTypeOK'
  <1>1. ed.saved \in Tokens /\ ed.saved # NoRow
    BY DEF EditorTypeOK, Confirm
  <1>2. probe' \in Retrieves
    BY <1>1, TokenShape, AskedTypes DEF Confirm
  <1> QED
    BY <1>2, SameRows DEF EditorTypeOK, Confirm, store

\* The server answers the measurements: the state stays well typed.
LEMMA ProbeReadsTypes ==
  ASSUME EditorTypeOK, ProbeReads
  PROVE  EditorTypeOK'
  BY AnsweredTypes, SameRows DEF EditorTypeOK, ProbeReads, store

\* The measurements bring a token: the state stays well typed.
LEMMA ProbeAnswersTypes ==
  ASSUME EditorTypeOK, ProbeAnswers
  PROVE  EditorTypeOK'
  <1>1. probe.id \in DOMAIN rows /\ probe.ver \in Nat
    BY ReadTypes DEF EditorTypeOK, ProbeAnswers
  <1>2. ed' \in Workspaces
    BY <1>1, WorkspaceTypes DEF Workspaces, ProbeAnswers, Tokens
  <1>3. probe' \in Retrieves
    BY DEF ProbeAnswers, Retrieves
  <1> QED
    BY <1>2, <1>3, SameRows DEF EditorTypeOK, ProbeAnswers, store, Workspaces

\* How far a save can be.
Ends == {"sent", "ok", "conflict", "refused", "lost", "stored", "over"}

\* The saves are a sequence of requests.
LEMMA RequestTypes ==
  ASSUME EditorTypeOK
  PROVE  /\ reqs \in Seq(Requests)
         /\ DOMAIN reqs = 1..Len(reqs) /\ DOMAIN reqs \subseteq Nat
         /\ \A i \in DOMAIN reqs :
              /\ reqs[i] \in Requests
              /\ reqs[i].saved \in Tokens /\ reqs[i].design \in Designs
              /\ reqs[i].st \in Ends /\ reqs[i].ver \in Nat
              /\ reqs[i].id \in 0..Len(rows)
              /\ reqs[i].live \in BOOLEAN /\ reqs[i].here \in BOOLEAN
  <1>1. reqs \in Seq(Requests)
    BY DEF EditorTypeOK
  <1>2. /\ DOMAIN reqs = 1..Len(reqs) /\ DOMAIN reqs \subseteq Nat
        /\ \A i \in DOMAIN reqs : reqs[i] \in Requests
    BY <1>1, ElementOfSeq, LenProperties
  <1> QED
    BY <1>1, <1>2 DEF Requests, Ends

\* A request goes on: only its state changes.
LEMMA MovesRequest ==
  ASSUME EditorTypeOK, NEW i \in DOMAIN reqs, NEW s \in Ends,
         reqs' = [reqs EXCEPT ![i].st = s]
  PROVE  /\ reqs' \in Seq(Requests) /\ Len(reqs') = Len(reqs)
         /\ DOMAIN reqs' = DOMAIN reqs
         /\ \A j \in DOMAIN reqs : j # i => reqs'[j] = reqs[j]
         /\ \A j \in DOMAIN reqs :
              /\ reqs'[j].saved = reqs[j].saved /\ reqs'[j].design = reqs[j].design
              /\ reqs'[j].ver = reqs[j].ver /\ reqs'[j].id = reqs[j].id
              /\ reqs'[j].live = reqs[j].live /\ reqs'[j].here = reqs[j].here
         /\ reqs'[i].st = s
  <1>1. \A j \in DOMAIN reqs : reqs[j] \in Requests
    BY RequestTypes
  <1>2. reqs \in Seq(Requests)
    BY RequestTypes
  <1>3. [reqs[i] EXCEPT !.st = s] \in Requests
    BY <1>1 DEF Requests, Ends
  <1>4. reqs' = [reqs EXCEPT ![i] = [reqs[i] EXCEPT !.st = s]]
    OBVIOUS
  <1>5. reqs' \in Seq(Requests) /\ Len(reqs') = Len(reqs)
    BY <1>2, <1>3, <1>4, ExceptSeq, RequestTypes
  <1>6. DOMAIN reqs' = DOMAIN reqs /\ \A j \in DOMAIN reqs : j # i => reqs'[j] = reqs[j]
    BY <1>4
  <1>7. reqs'[i] = [reqs[i] EXCEPT !.st = s]
    BY <1>4
  <1>8. /\ reqs'[i].saved = reqs[i].saved /\ reqs'[i].design = reqs[i].design
        /\ reqs'[i].ver = reqs[i].ver /\ reqs'[i].id = reqs[i].id
        /\ reqs'[i].live = reqs[i].live /\ reqs'[i].here = reqs[i].here
        /\ reqs'[i].st = s
    BY <1>1, <1>7 DEF Requests
  <1> QED
    BY <1>5, <1>6, <1>8

\* The answers of this page are no longer its own.
LEMMA CleansRequests ==
  ASSUME EditorTypeOK, NEW here \in BOOLEAN, Cleanup(here)
  PROVE  /\ reqs' \in Seq(Requests) /\ Len(reqs') = Len(reqs)
         /\ DOMAIN reqs' = DOMAIN reqs
         /\ \A j \in DOMAIN reqs :
              /\ reqs'[j].saved = reqs[j].saved /\ reqs'[j].design = reqs[j].design
              /\ reqs'[j].ver = reqs[j].ver /\ reqs'[j].id = reqs[j].id
              /\ reqs'[j].live = FALSE /\ reqs'[j].st = reqs[j].st
  <1>1. \A j \in DOMAIN reqs : reqs[j] \in Requests
    BY RequestTypes
  <1>2. reqs' = [j \in DOMAIN reqs |-> [reqs[j] EXCEPT !.live = FALSE, !.here = @ /\ here]]
    BY DEF Cleanup
  <1>3. \A j \in DOMAIN reqs :
          /\ reqs'[j] \in Requests
          /\ reqs'[j].saved = reqs[j].saved /\ reqs'[j].design = reqs[j].design
          /\ reqs'[j].ver = reqs[j].ver /\ reqs'[j].id = reqs[j].id
          /\ reqs'[j].live = FALSE /\ reqs'[j].st = reqs[j].st
    BY <1>1, <1>2 DEF Requests
  <1>4. reqs' \in Seq(Requests) /\ Len(reqs') = Len(reqs) /\ DOMAIN reqs' = DOMAIN reqs
    <2>1. /\ DOMAIN reqs = 1..Len(reqs) /\ Len(reqs) \in Nat
      BY RequestTypes, LenProperties
    <2>2. reqs' \in [1..Len(reqs) -> Requests]
      BY <1>2, <1>3, <2>1
    <2>3. reqs' \in Seq(Requests)
      BY <2>1, <2>2, SeqDef
    <2> QED
      BY <2>1, <2>2, <2>3, LenProperties
  <1> QED
    BY <1>3, <1>4

\* The server refuses a save: the state stays well typed.
LEMMA refuse_positionTypes ==
  ASSUME EditorTypeOK, NEW i \in DOMAIN reqs, refuse_position(i)
  PROVE  EditorTypeOK'
  BY MovesRequest, SameRows DEF EditorTypeOK, refuse_position, store, Ends

\* The connection of a save fails: the state stays well typed.
LEMMA LoseTypes ==
  ASSUME EditorTypeOK, NEW i \in DOMAIN reqs, Lose(i)
  PROVE  EditorTypeOK'
  BY MovesRequest, SameRows DEF EditorTypeOK, Lose, store, Ends

\* The answer of a save comes after its page left: the state stays well typed.
LEMMA IgnoredTypes ==
  ASSUME EditorTypeOK, NEW i \in DOMAIN reqs, Ignored(i)
  PROVE  EditorTypeOK'
  BY MovesRequest, SameRows DEF EditorTypeOK, Ignored, store, Ends

\* The user draws: what that leaves.
LEMMA EditEffect ==
  ASSUME EditorTypeOK, NEW d \in Designs, Edit(d)
  PROVE  /\ ed' \in Workspaces /\ canvas' \in Designs
         /\ draft' \in Designs \cup {Nothing} /\ timer' \in BOOLEAN /\ Timed
         /\ SameBase /\ SameFlags /\ ed'.pending = ed.pending /\ Evaluated
         /\ DraftOr(draft)
  <1> DEFINE e == [ed EXCEPT !.result = Nothing]
  <1> USE DEF Render
  <1>1. ed \in Workspaces
    BY WorkspaceTypes
  <1>2. e \in Workspaces
    BY <1>1 DEF Workspaces, EditorTypeOK
  <1>3. canvas' \in Designs
    BY EditorAssumption DEF Edit, Resolved
  <1>4. Redraw(e, draft, FALSE)
    BY DEF Edit
  <1>5. (draft) \in Designs \cup {Nothing}
    BY DEF EditorTypeOK
  <1> HIDE DEF e
  <1>6. /\ ed' \in Workspaces
        /\ ed'.loaded = e.loaded /\ ed'.saved = e.saved
        /\ ed'.baseline = e.baseline /\ ed'.busy = e.busy
        /\ ed'.uncertain = e.uncertain /\ ed'.conflict = e.conflict
        /\ ed'.pending = e.pending
        /\ Evaluated \/ (ed'.result = e.result /\ canvas' = canvas)
        /\ draft' \in Designs \cup {Nothing} /\ DraftOr(draft)
        /\ timer' \in BOOLEAN /\ Timed
    BY <1>2, <1>3, <1>4, <1>5, RedrawResult
  <1> QED
    BY <1>1, <1>3, <1>6 DEF e, Workspaces, Evaluated, SameBase, SameFlags

\* The user goes back: what that leaves.
LEMMA UndoEffect ==
  ASSUME EditorTypeOK, Undo
  PROVE  /\ ed' \in Workspaces /\ canvas' \in Designs
         /\ draft' \in Designs \cup {Nothing} /\ timer' \in BOOLEAN /\ Timed
         /\ SameBase /\ SameFlags /\ ed'.pending = ed.pending /\ Evaluated
         /\ DraftOr(draft)
  <1> DEFINE e == [ed EXCEPT !.result = Nothing]
  <1> USE DEF Render
  <1>1. ed \in Workspaces
    BY WorkspaceTypes
  <1>2. e \in Workspaces
    BY <1>1 DEF Workspaces, EditorTypeOK
  <1>3. canvas' \in Designs
    BY ElementOfSeq, LenProperties, EmptySeq DEF Undo, EditorTypeOK
  <1>4. Redraw(e, draft, FALSE)
    BY DEF Undo
  <1>5. (draft) \in Designs \cup {Nothing}
    BY DEF EditorTypeOK
  <1> HIDE DEF e
  <1>6. /\ ed' \in Workspaces
        /\ ed'.loaded = e.loaded /\ ed'.saved = e.saved
        /\ ed'.baseline = e.baseline /\ ed'.busy = e.busy
        /\ ed'.uncertain = e.uncertain /\ ed'.conflict = e.conflict
        /\ ed'.pending = e.pending
        /\ Evaluated \/ (ed'.result = e.result /\ canvas' = canvas)
        /\ draft' \in Designs \cup {Nothing} /\ DraftOr(draft)
        /\ timer' \in BOOLEAN /\ Timed
    BY <1>2, <1>3, <1>4, <1>5, RedrawResult
  <1> QED
    BY <1>1, <1>3, <1>6 DEF e, Workspaces, Evaluated, SameBase, SameFlags

\* The user goes forward again: what that leaves.
LEMMA RedoEffect ==
  ASSUME EditorTypeOK, Redo
  PROVE  /\ ed' \in Workspaces /\ canvas' \in Designs
         /\ draft' \in Designs \cup {Nothing} /\ timer' \in BOOLEAN /\ Timed
         /\ SameBase /\ SameFlags /\ ed'.pending = ed.pending /\ Evaluated
         /\ DraftOr(draft)
  <1> DEFINE e == [ed EXCEPT !.result = Nothing]
  <1> USE DEF Render
  <1>1. ed \in Workspaces
    BY WorkspaceTypes
  <1>2. e \in Workspaces
    BY <1>1 DEF Workspaces, EditorTypeOK
  <1>3. canvas' \in Designs
    BY ElementOfSeq, LenProperties, EmptySeq DEF Redo, EditorTypeOK
  <1>4. Redraw(e, draft, FALSE)
    BY DEF Redo
  <1>5. (draft) \in Designs \cup {Nothing}
    BY DEF EditorTypeOK
  <1> HIDE DEF e
  <1>6. /\ ed' \in Workspaces
        /\ ed'.loaded = e.loaded /\ ed'.saved = e.saved
        /\ ed'.baseline = e.baseline /\ ed'.busy = e.busy
        /\ ed'.uncertain = e.uncertain /\ ed'.conflict = e.conflict
        /\ ed'.pending = e.pending
        /\ Evaluated \/ (ed'.result = e.result /\ canvas' = canvas)
        /\ draft' \in Designs \cup {Nothing} /\ DraftOr(draft)
        /\ timer' \in BOOLEAN /\ Timed
    BY <1>2, <1>3, <1>4, <1>5, RedrawResult
  <1> QED
    BY <1>1, <1>3, <1>6 DEF e, Workspaces, Evaluated, SameBase, SameFlags

\* The pause of the calculation ends: what that leaves.
LEMMA DesignSettlesEffect ==
  ASSUME EditorTypeOK, DesignSettles
  PROVE  /\ ed' \in Workspaces /\ canvas' \in Designs
         /\ draft' \in Designs \cup {Nothing} /\ timer' \in BOOLEAN /\ Timed
         /\ SameBase /\ SameFlags /\ ed'.pending = ed.pending
         /\ Evaluated \/ (ed'.result = ed.result /\ canvas' = canvas)
         /\ DraftOr(draft)
  <1> DEFINE e == ed
  <1> USE DEF Render
  <1>1. ed \in Workspaces
    BY WorkspaceTypes
  <1>2. e \in Workspaces
    BY <1>1 DEF Workspaces, EditorTypeOK
  <1>3. canvas' \in Designs
    BY DEF DesignSettles, EditorTypeOK, store
  <1>4. Redraw(e, draft, FALSE)
    BY DEF DesignSettles
  <1>5. (draft) \in Designs \cup {Nothing}
    BY DEF EditorTypeOK
  <1> HIDE DEF e
  <1>6. /\ ed' \in Workspaces
        /\ ed'.loaded = e.loaded /\ ed'.saved = e.saved
        /\ ed'.baseline = e.baseline /\ ed'.busy = e.busy
        /\ ed'.uncertain = e.uncertain /\ ed'.conflict = e.conflict
        /\ ed'.pending = e.pending
        /\ Evaluated \/ (ed'.result = e.result /\ canvas' = canvas)
        /\ draft' \in Designs \cup {Nothing} /\ DraftOr(draft)
        /\ timer' \in BOOLEAN /\ Timed
    BY <1>2, <1>3, <1>4, <1>5, RedrawResult
  <1> QED
    BY <1>1, <1>3, <1>6 DEF e, Workspaces, Evaluated, SameBase, SameFlags

\* The engine answers: what that leaves.
LEMMA CalculatedEffect ==
  ASSUME EditorTypeOK, Calculated
  PROVE  /\ ed' \in Workspaces /\ canvas' \in Designs
         /\ draft' \in Designs \cup {Nothing} /\ timer' \in BOOLEAN /\ Timed
         /\ SameBase /\ SameFlags /\ ed'.pending = ed.pending
         /\ Evaluated \/ (ed'.result = ed.result /\ canvas' = canvas)
         /\ DraftOr(draft)
  <1> DEFINE e == ed
  <1> USE DEF Render
  <1>1. ed \in Workspaces
    BY WorkspaceTypes
  <1>2. e \in Workspaces
    BY <1>1 DEF Workspaces, EditorTypeOK
  <1>3. canvas' \in Designs
    BY DEF Calculated, EditorTypeOK, store
  <1>4. Redraw(e, draft, FALSE)
    BY DEF Calculated
  <1>5. (draft) \in Designs \cup {Nothing}
    BY DEF EditorTypeOK
  <1> HIDE DEF e
  <1>6. /\ ed' \in Workspaces
        /\ ed'.loaded = e.loaded /\ ed'.saved = e.saved
        /\ ed'.baseline = e.baseline /\ ed'.busy = e.busy
        /\ ed'.uncertain = e.uncertain /\ ed'.conflict = e.conflict
        /\ ed'.pending = e.pending
        /\ Evaluated \/ (ed'.result = e.result /\ canvas' = canvas)
        /\ draft' \in Designs \cup {Nothing} /\ DraftOr(draft)
        /\ timer' \in BOOLEAN /\ Timed
    BY <1>2, <1>3, <1>4, <1>5, RedrawResult
  <1> QED
    BY <1>1, <1>3, <1>6 DEF e, Workspaces, Evaluated, SameBase, SameFlags

\* The offered draft is discarded: what that leaves.
LEMMA DropOfferEffect ==
  ASSUME EditorTypeOK, DropOffer
  PROVE  /\ ed' \in Workspaces /\ canvas' \in Designs
         /\ draft' \in Designs \cup {Nothing} /\ timer' \in BOOLEAN /\ Timed
         /\ SameBase /\ SameFlags /\ ed'.pending = Nothing
         /\ Evaluated \/ (ed'.result = ed.result /\ canvas' = canvas)
         /\ draft' = Nothing
  <1> DEFINE e == [ed EXCEPT !.pending = Nothing]
  <1> USE DEF Render
  <1>1. ed \in Workspaces
    BY WorkspaceTypes
  <1>2. e \in Workspaces
    BY <1>1 DEF Workspaces, EditorTypeOK
  <1>3. canvas' \in Designs
    BY DEF DropOffer, EditorTypeOK, store
  <1>4. Redraw(e, Nothing, FALSE)
    BY DEF DropOffer
  <1>5. (Nothing) \in Designs \cup {Nothing}
    BY DEF EditorTypeOK
  <1> HIDE DEF e
  <1>6. /\ ed' \in Workspaces
        /\ ed'.loaded = e.loaded /\ ed'.saved = e.saved
        /\ ed'.baseline = e.baseline /\ ed'.busy = e.busy
        /\ ed'.uncertain = e.uncertain /\ ed'.conflict = e.conflict
        /\ ed'.pending = e.pending
        /\ Evaluated \/ (ed'.result = e.result /\ canvas' = canvas)
        /\ draft' \in Designs \cup {Nothing} /\ DraftOr(Nothing)
        /\ timer' \in BOOLEAN /\ Timed
    BY <1>2, <1>3, <1>4, <1>5, RedrawResult
  <1> QED
    BY <1>1, <1>3, <1>6 DEF DraftOr, e, Workspaces, Evaluated, SameBase, SameFlags

\* The offered draft is put on the canvas: what that leaves.
LEMMA RestoreEffect ==
  ASSUME EditorTypeOK, Restore
  PROVE  /\ ed' \in Workspaces /\ canvas' \in Designs
         /\ draft' \in Designs \cup {Nothing} /\ timer' \in BOOLEAN /\ Timed
         /\ SameBase /\ SameFlags /\ ed'.pending = Nothing
         /\ Evaluated \/ (ed'.result = ed.result /\ canvas' = canvas)
         /\ DraftOr(draft)
         /\ ed.pending \in Designs /\ canvas' = Resolve[ed.pending]
  <1> DEFINE e == [ed EXCEPT !.pending = Nothing]
  <1> USE DEF Render
  <1>1. ed \in Workspaces
    BY WorkspaceTypes
  <1>0. ed.pending \in Designs
    BY <1>1 DEF Restore, Workspaces
  <1>2. e \in Workspaces
    BY <1>1, <1>0 DEF Workspaces, EditorTypeOK
  <1>3. canvas' \in Designs
    BY <1>0, ShowTypes DEF Restore
  <1>4. Redraw(e, draft, TRUE)
    BY DEF Restore
  <1>5. (draft) \in Designs \cup {Nothing}
    BY <1>0 DEF EditorTypeOK
  <1> HIDE DEF e
  <1>6. /\ ed' \in Workspaces
        /\ ed'.loaded = e.loaded /\ ed'.saved = e.saved
        /\ ed'.baseline = e.baseline /\ ed'.busy = e.busy
        /\ ed'.uncertain = e.uncertain /\ ed'.conflict = e.conflict
        /\ ed'.pending = e.pending
        /\ Evaluated \/ (ed'.result = e.result /\ canvas' = canvas)
        /\ draft' \in Designs \cup {Nothing} /\ DraftOr(draft)
        /\ timer' \in BOOLEAN /\ Timed
    BY <1>2, <1>3, <1>4, <1>5, RedrawResult
  <1> QED
    BY <1>0, <1>1, <1>3, <1>6, ShowTypes
    DEF Restore, e, Workspaces, Evaluated, SameBase, SameFlags

\* The conflict banner reloads the saved window: what that leaves.
LEMMA LoadSavedEffect ==
  ASSUME EditorTypeOK, LoadSaved
  PROVE  /\ ed' \in Workspaces /\ canvas' \in Designs
         /\ draft' \in Designs \cup {Nothing} /\ timer' \in BOOLEAN /\ Timed
         /\ SameBase /\ ed'.busy = ed.busy /\ ed'.uncertain = ed.uncertain
         /\ ed'.conflict = FALSE /\ ed'.pending = ed.pending
         /\ Evaluated \/ (ed'.result = ed.result /\ canvas' = canvas)
         /\ DraftOr(draft) /\ canvas' = Empty
  <1> DEFINE e == [ed EXCEPT !.conflict = FALSE]
  <1> USE DEF Render
  <1>1. ed \in Workspaces
    BY WorkspaceTypes
  <1>0. Show(Empty) => canvas' = Empty /\ canvas' \in Designs
    BY EditorAssumption DEF Show, Resolved, Designs
  <1>2. e \in Workspaces
    BY <1>1, <1>0 DEF Workspaces, EditorTypeOK
  <1>3. canvas' \in Designs
    BY <1>0 DEF LoadSaved, Cleanup
  <1>4. Redraw(e, draft, FALSE)
    BY DEF LoadSaved
  <1>5. (draft) \in Designs \cup {Nothing}
    BY <1>0 DEF EditorTypeOK
  <1> HIDE DEF e
  <1>6. /\ ed' \in Workspaces
        /\ ed'.loaded = e.loaded /\ ed'.saved = e.saved
        /\ ed'.baseline = e.baseline /\ ed'.busy = e.busy
        /\ ed'.uncertain = e.uncertain /\ ed'.conflict = e.conflict
        /\ ed'.pending = e.pending
        /\ Evaluated \/ (ed'.result = e.result /\ canvas' = canvas)
        /\ draft' \in Designs \cup {Nothing} /\ DraftOr(draft)
        /\ timer' \in BOOLEAN /\ Timed
    BY <1>2, <1>3, <1>4, <1>5, RedrawResult
  <1> QED
    BY <1>0, <1>1, <1>3, <1>6
    DEF LoadSaved, Cleanup, e, Workspaces, Evaluated, SameBase, SameFlags

\* A retrieve fills the editor: what that leaves.
LEMMA LoadedEffect ==
  ASSUME EditorTypeOK, Loaded
  PROVE  /\ ed' \in Workspaces /\ canvas' \in Designs
         /\ draft' \in Designs \cup {Nothing} /\ timer' \in BOOLEAN /\ Timed
         /\ SameFlags /\ ed'.loaded = TRUE /\ ed'.pending = Offer(load.design)
         /\ ed'.saved = IF route = 0 THEN NoRow ELSE [id |-> route, ver |-> load.ver]
         /\ ed'.baseline = IF route = 0 THEN Nothing ELSE load.design
         /\ Evaluated \/ (ed'.result = ed.result /\ canvas' = canvas)
         /\ DraftOr(IF draft = load.design THEN Nothing ELSE draft)
         /\ load.design \in Designs /\ load.ver \in Nat /\ load.id \in DOMAIN rows
         /\ canvas' = Resolve[load.design]
  <1> DEFINE e == [ed EXCEPT !.loaded = TRUE, !.pending = Offer(load.design),
                   !.saved = IF route = 0 THEN NoRow ELSE [id |-> route, ver |-> load.ver],
                   !.baseline = IF route = 0 THEN Nothing ELSE load.design]
             s == IF draft = load.design THEN Nothing ELSE draft
  <1> USE DEF Render
  <1>1. ed \in Workspaces
    BY WorkspaceTypes
  <1>2. /\ load.design \in Designs /\ load.ver \in Nat /\ load.id \in DOMAIN rows
        /\ route # 0 => route \in DOMAIN rows
        /\ Offer(load.design) \in Designs \cup {Nothing}
    <2>1. load \in Retrieves /\ load.st = "read"
      BY DEF EditorTypeOK, Loaded
    <2>2. route \in 0..Len(rows)
      BY DEF EditorTypeOK
    <2>3. Offer(load.design) \in Designs \cup {Nothing}
      BY <1>1 DEF Offer, Workspaces, EditorTypeOK
    <2> QED
      BY <2>1, <2>2, <2>3, ReadTypes, RowTypes
  <1>3. e \in Workspaces /\ s \in Designs \cup {Nothing}
    BY <1>1, <1>2 DEF Workspaces, EditorTypeOK, Tokens
  <1>4. canvas' \in Designs
    BY <1>2, ShowTypes DEF Loaded
  <1>5. Redraw(e, s, TRUE)
    BY DEF Loaded
  <1> HIDE DEF e, s
  <1>6. /\ ed' \in Workspaces
        /\ ed'.loaded = e.loaded /\ ed'.saved = e.saved
        /\ ed'.baseline = e.baseline /\ ed'.busy = e.busy
        /\ ed'.uncertain = e.uncertain /\ ed'.conflict = e.conflict
        /\ ed'.pending = e.pending
        /\ Evaluated \/ (ed'.result = e.result /\ canvas' = canvas)
        /\ draft' \in Designs \cup {Nothing} /\ DraftOr(s)
        /\ timer' \in BOOLEAN /\ Timed
    BY <1>3, <1>4, <1>5, RedrawResult
  <1> QED
    BY <1>1, <1>2, <1>4, <1>6, ShowTypes DEF Loaded, e, s, Workspaces, SameFlags

\* A save was stored: what that leaves.
LEMMA StoredEffect ==
  ASSUME EditorTypeOK, NEW i \in DOMAIN reqs, reqs[i].id \in DOMAIN rows, Stored(i)
  PROVE  /\ ed' \in Workspaces /\ canvas' \in Designs
         /\ draft' \in Designs \cup {Nothing} /\ timer' \in BOOLEAN /\ Timed
         /\ SameFlags /\ ed'.loaded = ed.loaded /\ ed'.pending = ed.pending
         /\ ed'.saved = [id |-> reqs[i].id, ver |-> reqs[i].ver]
         /\ ed'.baseline = reqs[i].design
         /\ Evaluated \/ (ed'.result = reqs[i].design /\ canvas' = canvas)
         /\ DraftOr(draft)
  <1> DEFINE e == [ed EXCEPT !.saved = [id |-> reqs[i].id, ver |-> reqs[i].ver],
                   !.result = reqs[i].design, !.baseline = reqs[i].design]
             s == draft
  <1> USE DEF Render
  <1>1. ed \in Workspaces
    BY WorkspaceTypes
  <1>2. reqs[i].design \in Designs /\ reqs[i].ver \in Nat
    BY RequestTypes
  <1>3. e \in Workspaces /\ s \in Designs \cup {Nothing}
    BY <1>1, <1>2 DEF Workspaces, EditorTypeOK, Tokens
  <1>4. canvas' \in Designs
    BY DEF Stored, store, EditorTypeOK
  <1>5. Redraw(e, s, FALSE)
    BY DEF Stored
  <1> HIDE DEF e, s
  <1>6. /\ ed' \in Workspaces
        /\ ed'.loaded = e.loaded /\ ed'.saved = e.saved
        /\ ed'.baseline = e.baseline /\ ed'.busy = e.busy
        /\ ed'.uncertain = e.uncertain /\ ed'.conflict = e.conflict
        /\ ed'.pending = e.pending
        /\ Evaluated \/ (ed'.result = e.result /\ canvas' = canvas)
        /\ draft' \in Designs \cup {Nothing} /\ DraftOr(s)
        /\ timer' \in BOOLEAN /\ Timed
    BY <1>3, <1>4, <1>5, RedrawResult
  <1> QED
    BY <1>1, <1>2, <1>4, <1>6 DEF e, s, Workspaces, SameFlags

\* A save failed: what that leaves.
LEMMA FailedEffect ==
  ASSUME EditorTypeOK, NEW i \in DOMAIN reqs, Failed(i)
  PROVE  /\ ed' \in Workspaces /\ canvas' \in Designs
         /\ draft' \in Designs \cup {Nothing} /\ timer' \in BOOLEAN /\ Timed
         /\ SameBase /\ ed'.busy = FALSE /\ ed'.pending = ed.pending
         /\ ed'.conflict = (ed.conflict \/ (reqs[i].st = "conflict" /\ reqs[i].saved # NoRow))
         /\ Evaluated \/ (ed'.result = ed.result /\ canvas' = canvas)
         /\ DraftOr(IF reqs[i].st = "conflict" /\ reqs[i].saved # NoRow
                    THEN reqs[i].design ELSE draft)
  <1> DEFINE e == [ed EXCEPT !.busy = FALSE,
                   !.uncertain = reqs[i].st = "lost" /\ reqs[i].saved = NoRow,
                   !.conflict = @ \/ (reqs[i].st = "conflict" /\ reqs[i].saved # NoRow)]
             s == IF reqs[i].st = "conflict" /\ reqs[i].saved # NoRow THEN reqs[i].design ELSE draft
  <1> USE DEF Render
  <1>1. ed \in Workspaces
    BY WorkspaceTypes
  <1>2. reqs[i].design \in Designs
    BY RequestTypes
  <1>3. e \in Workspaces /\ s \in Designs \cup {Nothing}
    BY <1>1, <1>2 DEF Workspaces, EditorTypeOK
  <1>4. canvas' \in Designs
    BY DEF Failed, EditorTypeOK
  <1>5. Redraw(e, s, FALSE)
    BY DEF Failed
  <1> HIDE DEF e, s
  <1>6. /\ ed' \in Workspaces
        /\ ed'.loaded = e.loaded /\ ed'.saved = e.saved
        /\ ed'.baseline = e.baseline /\ ed'.busy = e.busy
        /\ ed'.uncertain = e.uncertain /\ ed'.conflict = e.conflict
        /\ ed'.pending = e.pending
        /\ Evaluated \/ (ed'.result = e.result /\ canvas' = canvas)
        /\ draft' \in Designs \cup {Nothing} /\ DraftOr(s)
        /\ timer' \in BOOLEAN /\ Timed
    BY <1>3, <1>4, <1>5, RedrawResult
  <1> QED
    BY <1>1, <1>2, <1>4, <1>6 DEF e, s, Workspaces, SameBase

\* The page of a new window starts at once.
Starts == OpenEditor /\ Creating

\* A new window starts: what that leaves.
LEMMA StartsEffect ==
  ASSUME EditorTypeOK, Starts
  PROVE  /\ ed' \in Workspaces /\ canvas' \in Designs
         /\ draft' \in Designs \cup {Nothing} /\ timer' \in BOOLEAN /\ Timed
         /\ ed'.loaded = TRUE /\ ed'.saved = NoRow /\ ed'.baseline = NewWindow
         /\ ed'.busy = FALSE /\ ed'.conflict = FALSE /\ ed'.pending = Offer(NewWindow)
         /\ Evaluated \/ (ed'.result = Nothing /\ canvas' = canvas)
         /\ DraftOr(draft) /\ canvas' = NewWindow
  <1> DEFINE e == [Fresh EXCEPT !.loaded = TRUE, !.baseline = NewWindow, !.pending = Offer(NewWindow)]
             s == draft
  <1> USE DEF Render
  <1>1. ed \in Workspaces
    BY WorkspaceTypes
  <1>2. Offer(NewWindow) \in Designs \cup {Nothing} /\ Fresh \in Workspaces
    BY <1>1 DEF Offer, Workspaces, EditorTypeOK, Fresh, Tokens
  <1>3. e \in Workspaces /\ s \in Designs \cup {Nothing}
    BY <1>1, <1>2 DEF Workspaces, EditorTypeOK, Fresh, Tokens, Designs
  <1>4. canvas' \in Designs
    BY EditorAssumption, ShowTypes DEF Starts, OpenEditor, Creating, Designs
  <1>5. Redraw(e, s, FALSE)
    BY DEF Starts, OpenEditor, Creating
  <1> HIDE DEF e, s
  <1>6. /\ ed' \in Workspaces
        /\ ed'.loaded = e.loaded /\ ed'.saved = e.saved
        /\ ed'.baseline = e.baseline /\ ed'.busy = e.busy
        /\ ed'.uncertain = e.uncertain /\ ed'.conflict = e.conflict
        /\ ed'.pending = e.pending
        /\ Evaluated \/ (ed'.result = e.result /\ canvas' = canvas)
        /\ draft' \in Designs \cup {Nothing} /\ DraftOr(s)
        /\ timer' \in BOOLEAN /\ Timed
    BY <1>3, <1>4, <1>5, RedrawResult
  <1> QED
    BY <1>1, <1>2, <1>4, <1>6, EditorAssumption
    DEF Show, Resolved, OpenEditor, Starts, Creating, e, s, Workspaces, Fresh

\* commitInputs keeps at most HISTORY_LIMIT designs.
LEMMA HistoryCut ==
  ASSUME EditorTypeOK
  PROVE  Committed \in Seq(Designs) /\ Len(Committed) <= HistoryLimit
  <1> DEFINE n == Len(past)
             m == IF n > HistoryLimit - 1 THEN n - HistoryLimit + 2 ELSE 1
  <1>1. /\ past \in Seq(Designs) /\ canvas \in Designs /\ n \in Nat
        /\ HistoryLimit \in Nat /\ HistoryLimit > 1 /\ n <= HistoryLimit
    <2>1. /\ past \in Seq(Designs) /\ future \in Seq(Designs) /\ canvas \in Designs
          /\ Len(past) + Len(future) <= HistoryLimit
      BY DEF EditorTypeOK
    <2>2. Len(past) \in Nat /\ Len(future) \in Nat
      BY <2>1, LenProperties
    <2> QED
      BY <2>1, <2>2, EditorAssumption
  <1>2. m \in Nat /\ m >= 1 /\ m <= n + 1 /\ n - m + 1 < HistoryLimit
    <2>1. CASE n > HistoryLimit - 1
      <3>1. n = HistoryLimit /\ m = 2
        BY <1>1, <2>1
      <3> HIDE DEF m, n
      <3> QED
        BY <1>1, <3>1
    <2>2. CASE ~ (n > HistoryLimit - 1)
      <3>1. n < HistoryLimit /\ m = 1
        BY <1>1, <2>2
      <3> HIDE DEF m, n
      <3> QED
        BY <1>1, <3>1
    <2> QED
      BY <2>1, <2>2
  <1> HIDE DEF m, n
  <1>3. \A i \in m..n : past[i] \in Designs
    BY <1>1, <1>2, ElementOfSeq DEF n
  <1>4. /\ SubSeq(past, m, n) \in Seq(Designs)
        /\ Len(SubSeq(past, m, n)) = IF m <= n THEN n - m + 1 ELSE 0
    BY <1>1, <1>2, <1>3, SubSeqProperties
  <1>5. Committed = Append(SubSeq(past, m, n), canvas)
    BY DEF Committed, m, n
  <1>6. /\ Committed \in Seq(Designs)
        /\ Len(Committed) = Len(SubSeq(past, m, n)) + 1
    BY <1>1, <1>4, <1>5, AppendProperties
  <1> QED
    BY <1>1, <1>2, <1>4, <1>6

\* One design moves from one history to the other.
LEMMA HistoryMoves ==
  ASSUME NEW a \in Seq(Designs), NEW b \in Seq(Designs), NEW c \in Designs, a # <<>>
  PROVE  /\ SubSeq(a, 1, Len(a) - 1) \in Seq(Designs)
         /\ Append(b, c) \in Seq(Designs)
         /\ Len(SubSeq(a, 1, Len(a) - 1)) + Len(Append(b, c)) = Len(a) + Len(b)
  <1>1. Len(a) \in Nat /\ Len(a) > 0 /\ Len(b) \in Nat
    BY EmptySeq, LenProperties
  <1> DEFINE n == Len(a) - 1
  <1>2. /\ SubSeq(a, 1, n) \in Seq(Designs)
        /\ Len(SubSeq(a, 1, n)) = n
    <2>1. n \in Int /\ n >= 0 /\ \A i \in 1..n : a[i] \in Designs
      BY <1>1, ElementOfSeq
    <2> HIDE DEF n
    <2>2. /\ SubSeq(a, 1, n) \in Seq(Designs)
          /\ Len(SubSeq(a, 1, n)) = IF 1 <= n THEN n - 1 + 1 ELSE 0
      BY <2>1, SubSeqProperties
    <2> QED
      BY <2>1, <2>2
  <1>3. Append(b, c) \in Seq(Designs) /\ Len(Append(b, c)) = Len(b) + 1
    BY AppendProperties
  <1> DEFINE x == Len(SubSeq(a, 1, Len(a) - 1))
             y == Len(Append(b, c))
  <1>4. x = Len(a) - 1 /\ y = Len(b) + 1
    BY <1>2, <1>3
  <1> HIDE DEF x, y
  <1>5. x + y = Len(a) + Len(b)
    BY <1>1, <1>4
  <1> QED
    BY <1>2, <1>3, <1>5 DEF x, y

\* The user draws: the state stays well typed.
LEMMA EditTypes ==
  ASSUME EditorTypeOK, NEW d \in Designs, Edit(d)
  PROVE  EditorTypeOK'
  <1>1. /\ past' \in Seq(Designs) /\ future' \in Seq(Designs)
        /\ Len(past') + Len(future') <= HistoryLimit
    BY HistoryCut, EmptySeq, LenProperties, EditorAssumption DEF Edit
  <1>2. edit' \in Designs \cup {Nothing}
    BY EditEffect DEF Edit, Newest
  <1>3. count' \in [edits : Nat, others : Nat, visits : Nat, reloads : Nat]
    <2>1. count \in [edits : Nat, others : Nat, visits : Nat, reloads : Nat]
      BY DEF EditorTypeOK
    <2> QED
      BY <2>1 DEF Edit
  <1>4. touched' \in BOOLEAN
    BY DEF Edit
  <1>5. /\ UNCHANGED <<world, settled, calc>>
        /\ UNCHANGED <<rows, page, route, load, reqs, probe, known>>
    BY DEF Edit
  <1> QED
    BY <1>1, <1>2, <1>3, <1>4, <1>5, EditEffect, SameRows DEF EditorTypeOK, Workspaces

\* The user goes back: the state stays well typed.
LEMMA UndoTypes ==
  ASSUME EditorTypeOK, Undo
  PROVE  EditorTypeOK'
  <1>1. /\ past' \in Seq(Designs) /\ future' \in Seq(Designs)
        /\ Len(past') + Len(future') <= HistoryLimit
    <2>1. /\ past \in Seq(Designs) /\ future \in Seq(Designs) /\ canvas \in Designs
          /\ Len(past) + Len(future) <= HistoryLimit
      BY DEF EditorTypeOK
    <2>2. /\ past # <<>> /\ past' = SubSeq(past, 1, Len(past) - 1)
          /\ future' = Append(future, canvas)
      BY DEF Undo
    <2>3. /\ past' \in Seq(Designs) /\ future' \in Seq(Designs)
          /\ Len(past') + Len(future') = Len(past) + Len(future)
      BY <2>1, <2>2, HistoryMoves
    <2>4. /\ Len(past) \in Nat /\ Len(future) \in Nat
          /\ Len(past') \in Nat /\ Len(future') \in Nat
      BY <2>1, <2>3, LenProperties
    <2> QED
      BY <2>1, <2>3, <2>4
  <1>2. edit' \in Designs \cup {Nothing}
    BY UndoEffect DEF Undo, Newest
  <1>3. touched' \in BOOLEAN
    BY DEF Undo
  <1>4. /\ UNCHANGED <<world, settled, calc>>
        /\ UNCHANGED <<rows, page, route, load, reqs, probe, known, count>>
    BY DEF Undo
  <1> QED
    BY <1>1, <1>2, <1>3, <1>4, UndoEffect, SameRows DEF EditorTypeOK, Workspaces

\* The user goes forward again: the state stays well typed.
LEMMA RedoTypes ==
  ASSUME EditorTypeOK, Redo
  PROVE  EditorTypeOK'
  <1>1. /\ past' \in Seq(Designs) /\ future' \in Seq(Designs)
        /\ Len(past') + Len(future') <= HistoryLimit
    <2>1. /\ past \in Seq(Designs) /\ future \in Seq(Designs) /\ canvas \in Designs
          /\ Len(past) + Len(future) <= HistoryLimit
      BY DEF EditorTypeOK
    <2>2. /\ future # <<>> /\ future' = SubSeq(future, 1, Len(future) - 1)
          /\ past' = Append(past, canvas)
      BY DEF Redo
    <2>3. /\ future' \in Seq(Designs) /\ past' \in Seq(Designs)
          /\ Len(future') + Len(past') = Len(future) + Len(past)
      BY <2>1, <2>2, HistoryMoves
    <2>4. /\ Len(past) \in Nat /\ Len(future) \in Nat
          /\ Len(past') \in Nat /\ Len(future') \in Nat
      BY <2>1, <2>3, LenProperties
    <2> QED
      BY <2>1, <2>3, <2>4
  <1>2. edit' \in Designs \cup {Nothing}
    BY RedoEffect DEF Redo, Newest
  <1>3. touched' \in BOOLEAN
    BY DEF Redo
  <1>4. /\ UNCHANGED <<world, settled, calc>>
        /\ UNCHANGED <<rows, page, route, load, reqs, probe, known, count>>
    BY DEF Redo
  <1> QED
    BY <1>1, <1>2, <1>3, <1>4, RedoEffect, SameRows DEF EditorTypeOK, Workspaces

\* The pause of the calculation ends: the state stays well typed.
LEMMA DesignSettlesTypes ==
  ASSUME EditorTypeOK, DesignSettles
  PROVE  EditorTypeOK'
  BY DesignSettlesEffect, SameRows DEF EditorTypeOK, Workspaces, DesignSettles, store

\* The engine answers: the state stays well typed.
LEMMA CalculatedTypes ==
  ASSUME EditorTypeOK, Calculated
  PROVE  EditorTypeOK'
  <1>1. settled \in Mine \cup Theirs
    BY DEF Calculated, Designs
  <1> QED
    BY <1>1, CalculatedEffect, SameRows DEF EditorTypeOK, Workspaces, Calculated, store

\* The offered draft is discarded: the state stays well typed.
LEMMA DropOfferTypes ==
  ASSUME EditorTypeOK, DropOffer
  PROVE  EditorTypeOK'
  <1>1. edit' \in Designs \cup {Nothing}
    BY DEF DropOffer, EditorTypeOK
  <1> QED
    BY <1>1, DropOfferEffect, SameRows DEF EditorTypeOK, Workspaces, DropOffer, store

\* The offered draft is put on the canvas: the state stays well typed.
LEMMA RestoreTypes ==
  ASSUME EditorTypeOK, Restore
  PROVE  EditorTypeOK'
  <1>1. ed.pending \in Designs /\ Show(ed.pending)
    BY RestoreEffect DEF Restore
  <1>2. edit' \in Designs \cup {Nothing}
    BY <1>1, EditorAssumption DEF Restore, Newest, Resolved
  <1>3. /\ UNCHANGED <<world, settled, calc>>
        /\ UNCHANGED <<rows, page, route, load, reqs, probe, known, count>>
    BY DEF Restore
  <1> QED
    BY <1>1, <1>2, <1>3, ShowTypes, RestoreEffect, SameRows DEF EditorTypeOK, Workspaces

\* A retrieve fills the editor: the state stays well typed.
LEMMA LoadedTypes ==
  ASSUME EditorTypeOK, Loaded
  PROVE  EditorTypeOK'
  <1>1. /\ load.design \in Designs /\ Show(load.design)
        /\ load.ver \in Nat /\ load.id \in Nat
    BY LoadedEffect, RowTypes DEF Loaded
  <1>2. edit' \in Designs \cup {Nothing} /\ known' \subseteq Nat \X Nat
    BY <1>1 DEF Loaded, EditorTypeOK
  <1>3. settled' \in Designs
    BY LoadedEffect DEF Loaded, EditorTypeOK
  <1>4. /\ load' = NoRetrieve /\ UNCHANGED calc
        /\ UNCHANGED <<world, rows, page, route, reqs, probe, count>>
    BY DEF Loaded
  <1>5. load' \in Retrieves
    BY <1>4 DEF Retrieves
  <1> QED
    BY <1>1, <1>2, <1>3, <1>4, <1>5, ShowTypes, LoadedEffect, SameRows
    DEF EditorTypeOK, Workspaces

\* A save was stored: the state stays well typed.
LEMMA StoredTypes ==
  ASSUME EditorTypeOK, NEW i \in DOMAIN reqs, reqs[i].id \in DOMAIN rows, Stored(i)
  PROVE  EditorTypeOK'
  <1>1. reqs' = [reqs EXCEPT ![i].st = "stored"]
    BY DEF Stored
  <1>2. reqs' \in Seq(Requests) /\ Len(reqs') = Len(reqs)
    BY <1>1, MovesRequest DEF Ends
  <1>3. edit' \in Designs \cup {Nothing}
    BY DEF Stored, EditorTypeOK
  <1>4. /\ UNCHANGED <<world, store, settled, calc>>
        /\ UNCHANGED <<rows, page, route, load, probe, known, count>>
    BY DEF Stored
  <1> QED
    BY <1>2, <1>3, <1>4, StoredEffect, SameRows DEF EditorTypeOK, Workspaces, store

\* A save failed: the state stays well typed.
LEMMA FailedTypes ==
  ASSUME EditorTypeOK, NEW i \in DOMAIN reqs, Failed(i)
  PROVE  EditorTypeOK'
  <1>1. reqs' = [reqs EXCEPT ![i].st = "over"]
    BY DEF Failed
  <1>2. reqs' \in Seq(Requests) /\ Len(reqs') = Len(reqs)
    BY <1>1, MovesRequest DEF Ends
  <1>3. touched' \in BOOLEAN
    BY DEF Failed, EditorTypeOK
  <1>4. /\ UNCHANGED <<world, canvas, past, future, settled, calc>>
        /\ UNCHANGED <<rows, page, route, load, probe, edit, known, count>>
    BY DEF Failed
  <1> QED
    BY <1>2, <1>3, <1>4, FailedEffect, SameRows DEF EditorTypeOK, Workspaces

\* What is retrieved is a row.
LEMMA SourceNamed ==
  ASSUME EditorTypeOK, Named, ~ Creating
  PROVE  Source \in DOMAIN rows
  <1>1. route \in 0..Len(rows) /\ Len(rows) \in Nat /\ DOMAIN rows = 1..Len(rows)
    BY RowTypes, LenProperties DEF EditorTypeOK
  <1>2. CASE route # 0
    BY <1>1, <1>2 DEF Source
  <1>3. CASE route = 0
    <2>1. rows # <<>>
      BY <1>3 DEF Named, Creating
    <2>2. Len(rows) > 0
      BY <1>1, <2>1, RowTypes, EmptySeq
    <2> QED
      BY <1>1, <1>3, <2>2 DEF Source
  <1> QED
    BY <1>2, <1>3

\* The page opens: the state stays well typed.
LEMMA OpenEditorTypes ==
  ASSUME EditorTypeOK, Named, OpenEditor
  PROVE  EditorTypeOK'
  <1>1. count' \in [edits : Nat, others : Nat, visits : Nat, reloads : Nat]
    <2>1. count \in [edits : Nat, others : Nat, visits : Nat, reloads : Nat]
      BY DEF EditorTypeOK
    <2> QED
      BY <2>1 DEF OpenEditor
  <1>2. /\ UNCHANGED <<world, rows, route, reqs, probe, edit, known>>
        /\ page' = "open"
    BY DEF OpenEditor
  <1>3. CASE Creating
    <2>1. Starts
      BY <1>3 DEF Starts
    <2>2. NewWindow \in Designs /\ Show(NewWindow) /\ settled' = NewWindow
      BY <1>3 DEF Designs, OpenEditor, Creating
    <2>3. UNCHANGED <<calc, load>>
      BY <1>3 DEF OpenEditor, Creating
    <2> QED
      BY <1>1, <1>2, <2>1, <2>2, <2>3, StartsEffect, ShowTypes, SameRows
      DEF EditorTypeOK, Workspaces
  <1>4. CASE ~ Creating
    <2>1. load' = Asked(Source) /\ UNCHANGED <<store, ed, settled, calc, draft, timer>>
      BY <1>4 DEF OpenEditor, Creating
    <2>2. load' \in Retrieves
      BY <1>4, <2>1, SourceNamed, AskedTypes
    <2> QED
      BY <1>1, <1>2, <2>1, <2>2, SameRows DEF EditorTypeOK, store
  <1> QED
    BY <1>3, <1>4

\* The canvas store after it was emptied.
LEMMA EmptyShown ==
  ASSUME Show(Empty)
  PROVE  /\ canvas' = Empty /\ canvas' \in Designs
         /\ past' \in Seq(Designs) /\ future' \in Seq(Designs)
         /\ Len(past') + Len(future') <= HistoryLimit
         /\ touched' = TRUE
  BY ShowTypes, EditorAssumption DEF Designs

\* The error screen asks again: the state stays well typed.
LEMMA RetryLoadTypes ==
  ASSUME EditorTypeOK, Named, RetryLoad
  PROVE  EditorTypeOK'
  <1>1. count' \in [edits : Nat, others : Nat, visits : Nat, reloads : Nat]
    <2>1. count \in [edits : Nat, others : Nat, visits : Nat, reloads : Nat]
      BY DEF EditorTypeOK
    <2> QED
      BY <2>1 DEF RetryLoad
  <1>2. /\ UNCHANGED <<world, rows, page, route, ed, settled, calc, draft, timer, probe>>
        /\ UNCHANGED <<edit, known>> /\ load' = Asked(Source) /\ Cleanup(TRUE)
    BY DEF RetryLoad
  <1>3. load' \in Retrieves
    BY <1>2, SourceNamed, AskedTypes DEF RetryLoad, Named
  <1>4. Show(Empty)
    BY <1>2 DEF Cleanup
  <1> QED
    BY <1>1, <1>2, <1>3, <1>4, EmptyShown, CleansRequests, SameRows DEF EditorTypeOK

\* The conflict banner reloads the saved window: the state stays well typed.
LEMMA LoadSavedTypes ==
  ASSUME EditorTypeOK, Named, Created, LoadSaved
  PROVE  EditorTypeOK'
  <1>1. count' \in [edits : Nat, others : Nat, visits : Nat, reloads : Nat]
    <2>1. count \in [edits : Nat, others : Nat, visits : Nat, reloads : Nat]
      BY DEF EditorTypeOK
    <2> QED
      BY <2>1 DEF LoadSaved
  <1>2. /\ UNCHANGED <<world, settled, calc>> /\ Cleanup(TRUE) /\ load' = Asked(Source)
        /\ UNCHANGED <<rows, page, route, probe, edit, known>>
    BY DEF LoadSaved
  <1>3. load' \in Retrieves
    BY <1>2, SourceNamed, AskedTypes DEF LoadSaved, Created, Creating
  <1>4. Show(Empty)
    BY <1>2 DEF Cleanup
  <1> QED
    BY <1>1, <1>2, <1>3, <1>4, LoadSavedEffect, EmptyShown, CleansRequests, SameRows
    DEF EditorTypeOK, Workspaces

\* A save that leaves.
Sent == [saved |-> ed.saved, design |-> canvas, st |-> "sent", ver |-> 0, id |-> 0,
         live |-> TRUE, here |-> TRUE]

\* A save adds one request that has just left.
LEMMA SaveSends ==
  ASSUME EditorTypeOK, Save
  PROVE  /\ reqs' = Append(reqs, Sent) /\ Sent \in Requests
         /\ reqs' \in Seq(Requests) /\ Len(reqs') = Len(reqs) + 1
         /\ Len(reqs) \in Nat
         /\ DOMAIN reqs' = 1..(Len(reqs) + 1) /\ DOMAIN reqs = 1..Len(reqs)
         /\ \A i \in DOMAIN reqs : reqs'[i] = reqs[i]
         /\ reqs'[Len(reqs) + 1] = Sent
         /\ ed' \in Workspaces /\ ed'.busy = TRUE /\ SameBase
         /\ ed'.conflict = ed.conflict /\ ed'.pending = ed.pending
         /\ ed'.result = ed.result
  <1>1. ed \in Workspaces
    BY WorkspaceTypes
  <1>2. canvas \in Designs /\ rows \in Seq(RowList)
    BY RowTypes DEF EditorTypeOK
  <1>3. Sent \in Requests
    BY <1>1, <1>2, LenProperties DEF Sent, Requests, Workspaces
  <1>4. reqs' = Append(reqs, Sent)
    BY DEF Save, Sent
  <1>5. reqs \in Seq(Requests) /\ Len(reqs) \in Nat /\ DOMAIN reqs = 1..Len(reqs)
    BY RequestTypes, LenProperties
  <1>6. /\ reqs' \in Seq(Requests) /\ Len(reqs') = Len(reqs) + 1
        /\ \A i \in 1..Len(reqs) : reqs'[i] = reqs[i]
        /\ reqs'[Len(reqs) + 1] = Sent
    BY <1>3, <1>4, <1>5, AppendProperties
  <1>7. DOMAIN reqs' = 1..(Len(reqs) + 1)
    BY <1>6, LenProperties
  <1>8. /\ ed' \in Workspaces /\ ed'.busy = TRUE /\ SameBase
        /\ ed'.conflict = ed.conflict /\ ed'.pending = ed.pending
        /\ ed'.result = ed.result
    BY <1>1 DEF Save, Workspaces, SameBase
  <1> QED
    BY <1>3, <1>4, <1>5, <1>6, <1>7, <1>8

\* A save leaves: the state stays well typed.
LEMMA SaveTypes ==
  ASSUME EditorTypeOK, Save
  PROVE  EditorTypeOK'
  <1>1. world \in Worlds /\ Len(reqs) < world.saves
    BY DEF EditorTypeOK, Save
  <1>2. world.saves \in Nat
    BY <1>1, EditorAssumption DEF TabWorlds
  <1>3. Len(reqs') <= world.saves
    BY <1>1, <1>2, SaveSends
  <1>4. /\ UNCHANGED <<world, rows, page, route, store, settled, calc, draft, timer, load>>
        /\ UNCHANGED <<probe, edit, known, count>>
    BY DEF Save
  <1> QED
    BY <1>3, <1>4, SaveSends, SameRows DEF EditorTypeOK, Workspaces, store

\* More rows, more names of rows.
LEMMA MoreRows ==
  ASSUME DOMAIN rows \subseteq DOMAIN rows', 0..Len(rows) \subseteq 0..Len(rows')
  PROVE  /\ Tokens \subseteq Tokens' /\ Retrieves \subseteq Retrieves'
         /\ Requests \subseteq Requests' /\ Workspaces \subseteq Workspaces'
  <1>1. Tokens \subseteq Tokens'
    BY DEF Tokens
  <1>2. Retrieves \subseteq Retrieves'
    BY DEF Retrieves
  <1>3. Requests \subseteq Requests'
    BY <1>1 DEF Requests
  <1>4. Workspaces \subseteq Workspaces'
    BY <1>1 DEF Workspaces
  <1> QED
    BY <1>1, <1>2, <1>3, <1>4

\* What the server writes when it saves: one row, and the answer of the save.
LEMMA PutEffect ==
  ASSUME EditorTypeOK, NEW i \in DOMAIN reqs, NEW id \in Nat, NEW ver \in Nat,
         NEW r \in RowList, id \in DOMAIN rows \/ id = Len(rows) + 1, Put(i, id, ver, r)
  PROVE  /\ rows' \in Seq(RowList) /\ DOMAIN rows \subseteq DOMAIN rows'
         /\ 0..Len(rows) \subseteq 0..Len(rows') /\ id \in DOMAIN rows'
         /\ rows'[id] = r /\ \A j \in DOMAIN rows' : j # id => rows'[j] = rows[j]
         /\ DOMAIN rows' = DOMAIN rows \cup {id}
         /\ reqs' \in Seq(Requests') /\ Len(reqs') = Len(reqs)
         /\ DOMAIN reqs' = DOMAIN reqs
         /\ \A j \in DOMAIN reqs : j # i => reqs'[j] = reqs[j]
         /\ reqs'[i].st = "ok" /\ reqs'[i].id = id /\ reqs'[i].ver = ver
         /\ reqs'[i].saved = reqs[i].saved /\ reqs'[i].design = reqs[i].design
         /\ reqs'[i].live = reqs[i].live /\ reqs'[i].here = reqs[i].here
         /\ known' = known \cup {<<id, ver>>}
         /\ <<reqs'[i].id, reqs'[i].ver>> \in known'
  <1>1. rows \in Seq(RowList) /\ DOMAIN rows = 1..Len(rows) /\ Len(rows) \in Nat
    BY RowTypes, LenProperties
  <1>2. /\ rows' \in Seq(RowList) /\ DOMAIN rows \subseteq DOMAIN rows'
        /\ 0..Len(rows) \subseteq 0..Len(rows') /\ id \in DOMAIN rows'
        /\ rows'[id] = r /\ \A j \in DOMAIN rows' : j # id => rows'[j] = rows[j]
        /\ DOMAIN rows' = DOMAIN rows \cup {id}
    <2>1. CASE id \in DOMAIN rows
      <3>1. rows' = [rows EXCEPT ![id] = r]
        BY <2>1 DEF Put
      <3>2. rows' \in Seq(RowList) /\ Len(rows') = Len(rows)
        BY <1>1, <2>1, <3>1, ExceptSeq
      <3> QED
        BY <1>1, <2>1, <3>1, <3>2
    <2>2. CASE id \notin DOMAIN rows
      <3>1. rows' = Append(rows, r) /\ id = Len(rows) + 1
        BY <2>2 DEF Put
      <3>2. /\ rows' \in Seq(RowList) /\ Len(rows') = Len(rows) + 1
            /\ \A j \in 1..Len(rows) : rows'[j] = rows[j]
            /\ rows'[Len(rows) + 1] = r
        BY <1>1, <3>1, AppendProperties
      <3>3. DOMAIN rows' = 1..(Len(rows) + 1)
        BY <3>2, LenProperties
      <3> QED
        BY <1>1, <3>1, <3>2, <3>3
    <2> QED
      BY <2>1, <2>2
  <1>3. \A j \in DOMAIN reqs : reqs[j] \in Requests'
    BY <1>2, MoreRows, RequestTypes
  <1>4. /\ Len(rows') \in Nat /\ DOMAIN rows' = 1..Len(rows')
    BY <1>2, LenProperties
  <1> DEFINE q == [reqs[i] EXCEPT !.st = "ok", !.ver = ver, !.id = id]
  <1>5. /\ q \in Requests' /\ q.st = "ok" /\ q.id = id /\ q.ver = ver
        /\ q.saved = reqs[i].saved /\ q.design = reqs[i].design
        /\ q.live = reqs[i].live /\ q.here = reqs[i].here
    <2>1. reqs[i] \in Requests
      BY RequestTypes
    <2>2. /\ q.st = "ok" /\ q.id = id /\ q.ver = ver
          /\ q.saved = reqs[i].saved /\ q.design = reqs[i].design
          /\ q.live = reqs[i].live /\ q.here = reqs[i].here
          /\ q \in [saved : Tokens, design : Designs, st : Ends, ver : Nat, id : {id},
                    live : BOOLEAN, here : BOOLEAN]
      BY <2>1 DEF Requests, Ends
    <2>3. Tokens \subseteq Tokens' /\ id \in 0..Len(rows')
      BY <1>2, <1>4, MoreRows
    <2> HIDE DEF q
    <2> QED
      BY <2>2, <2>3 DEF Requests, Ends
  <1>6. reqs' = [reqs EXCEPT ![i] = q]
    BY DEF Put
  <1> HIDE DEF q
  <1>7. reqs \in Seq(Requests') /\ i \in 1..Len(reqs)
    <2>1. reqs \in Seq(Requests) /\ Requests \subseteq Requests'
      BY <1>2, MoreRows, RequestTypes
    <2> QED
      BY <2>1, SeqMonotonic, RequestTypes
  <1>8. reqs' \in Seq(Requests') /\ Len(reqs') = Len(reqs)
    BY <1>5, <1>6, <1>7, ExceptSeq
  <1>9. /\ DOMAIN reqs' = DOMAIN reqs /\ reqs'[i] = q
        /\ \A j \in DOMAIN reqs : j # i => reqs'[j] = reqs[j]
    BY <1>6
  <1> QED
    BY <1>2, <1>5, <1>8, <1>9 DEF Put

\* The server writes the row of the token, or a new row, or finds the token stale.
LEMMA save_positionCases ==
  ASSUME EditorTypeOK, NEW i \in DOMAIN reqs, save_position(i)
  PROVE  \/ /\ reqs' = [reqs EXCEPT ![i].st = "conflict"]
            /\ UNCHANGED <<rows, known>>
         \/ \E id, ver \in Nat : \E r \in RowList :
              /\ Put(i, id, ver, r) /\ r.by = "me" /\ r.design = reqs[i].design
              /\ \/ id = Len(rows) + 1
                 \/ /\ id \in DOMAIN rows /\ reqs[i].saved # NoRow
                    /\ id = reqs[i].saved.id /\ rows[id].ver = reqs[i].saved.ver
  <1>1. /\ reqs[i].design \in Designs /\ reqs[i].saved \in Tokens /\ Len(rows) \in Nat
    BY RequestTypes, RowTypes, LenProperties
  <1>2. CASE reqs[i].saved = NoRow
    <2> DEFINE r == [ver |-> 1, design |-> reqs[i].design, by |-> "me"]
    <2>1. Put(i, Len(rows) + 1, 1, r)
      BY <1>2 DEF save_position
    <2>2. r \in RowList /\ r.by = "me" /\ r.design = reqs[i].design
      BY <1>1 DEF RowList
    <2> HIDE DEF r
    <2>3. Len(rows) + 1 \in Nat /\ 1 \in Nat
      BY <1>1
    <2> QED
      BY <2>1, <2>2, <2>3, Zenon
  <1>3. CASE reqs[i].saved # NoRow /\ rows[reqs[i].saved.id].ver = reqs[i].saved.ver
    <2> DEFINE r == [ver |-> reqs[i].saved.ver + 1, design |-> reqs[i].design, by |-> "me"]
    <2>1. /\ reqs[i].saved.id \in DOMAIN rows /\ reqs[i].saved.id \in Nat
          /\ reqs[i].saved.ver \in Nat
      BY <1>1, <1>3, TokenShape
    <2>2. Put(i, reqs[i].saved.id, reqs[i].saved.ver + 1, r)
      BY <1>3 DEF save_position
    <2>3. r \in RowList /\ r.by = "me" /\ r.design = reqs[i].design
      BY <1>1, <2>1 DEF RowList
    <2> HIDE DEF r
    <2>4. reqs[i].saved.ver + 1 \in Nat
      BY <2>1
    <2> QED
      BY <1>3, <2>1, <2>2, <2>3, <2>4, Zenon
  <1>4. CASE reqs[i].saved # NoRow /\ rows[reqs[i].saved.id].ver # reqs[i].saved.ver
    BY <1>4 DEF save_position
  <1> QED
    BY <1>2, <1>3, <1>4

\* The server saves: the state stays well typed.
LEMMA save_positionTypes ==
  ASSUME EditorTypeOK, NEW i \in DOMAIN reqs, save_position(i)
  PROVE  EditorTypeOK'
  <1>1. /\ UNCHANGED <<world, page, route, canvas, past, future, touched, ed, settled>>
        /\ UNCHANGED <<calc, draft, timer, load, probe, edit, count>>
    BY DEF save_position, store
  <1>2. CASE reqs' = [reqs EXCEPT ![i].st = "conflict"] /\ UNCHANGED <<rows, known>>
    BY <1>1, <1>2, MovesRequest, SameRows DEF EditorTypeOK, Ends
  <1>3. ASSUME NEW id \in Nat, NEW ver \in Nat, NEW r \in RowList, Put(i, id, ver, r),
               id \in DOMAIN rows \/ id = Len(rows) + 1
        PROVE  EditorTypeOK'
    <2>1. /\ rows' \in Seq(RowList) /\ DOMAIN rows \subseteq DOMAIN rows'
          /\ 0..Len(rows) \subseteq 0..Len(rows') /\ known' = known \cup {<<id, ver>>}
          /\ reqs' \in Seq(Requests') /\ Len(reqs') = Len(reqs)
      BY <1>3, PutEffect
    <2>2. ed' \in Workspaces'
      BY <1>1, <2>1, MoreRows, WorkspaceTypes
    <2>3. {load, probe}' \subseteq Retrieves'
      BY <1>1, <2>1, MoreRows DEF EditorTypeOK
    <2>4. known' \subseteq Nat \X Nat
      BY <2>1 DEF EditorTypeOK
    <2>5. route' \in 0..Len(rows')
      BY <1>1, <2>1 DEF EditorTypeOK
    <2> QED
      BY <1>1, <2>1, <2>2, <2>3, <2>4, <2>5 DEF EditorTypeOK, Workspaces, RowList
  <1> QED
    BY <1>2, <1>3, save_positionCases

\* A stored save ends: the state stays well typed.
LEMMA FinishTypes ==
  ASSUME EditorTypeOK, NEW i \in DOMAIN reqs, reqs[i].id \in DOMAIN rows, Finish(i)
  PROVE  EditorTypeOK'
  <1>1. UNCHANGED <<world, rows, page, settled, calc, edit, known, count>>
    BY DEF Finish
  <1>2. CASE reqs[i].live /\ route = 0
    <2>1. /\ route' = reqs[i].id /\ load' = Asked(reqs[i].id) /\ probe' = NoRetrieve
          /\ ed' = Fresh /\ draft' = Nothing /\ timer' = FALSE /\ Show(Empty)
      BY <1>2 DEF Finish
    <2>6. reqs' = [j \in DOMAIN reqs |->
                      [reqs[j] EXCEPT !.live = FALSE, !.here = FALSE,
                                      !.st = IF j = i THEN "over" ELSE @]]
      BY <1>2 DEF Finish
    <2>2. route' \in 0..Len(rows)
      <3>1. DOMAIN rows = 1..Len(rows) /\ Len(rows) \in Nat
        BY RowTypes, LenProperties
      <3>2. 1..Len(rows) \subseteq 0..Len(rows) /\ route' \in DOMAIN rows
        BY <2>1, <3>1
      <3> QED
        BY <3>1, <3>2
    <2>3. {load', probe'} \subseteq Retrieves
      BY <2>1, AskedTypes DEF Retrieves
    <2>4. ed' \in Workspaces
      BY <2>1 DEF Fresh, Workspaces, Tokens
    <2>5. reqs' \in Seq(Requests) /\ Len(reqs') = Len(reqs)
      <3>1. \A j \in DOMAIN reqs : reqs[j] \in Requests
        BY RequestTypes
      <3>2. \A j \in DOMAIN reqs : reqs'[j] \in Requests
        BY <2>6, <3>1 DEF Requests
      <3>3. DOMAIN reqs = 1..Len(reqs) /\ Len(reqs) \in Nat
        BY RequestTypes, LenProperties
      <3>4. reqs' \in [1..Len(reqs) -> Requests]
        BY <2>6, <3>2, <3>3
      <3>5. reqs' \in Seq(Requests)
        BY <3>3, <3>4, SeqDef
      <3> QED
        BY <3>3, <3>4, <3>5, LenProperties
    <2> QED
      BY <1>1, <2>1, <2>2, <2>3, <2>4, <2>5, EmptyShown, SameRows
      DEF EditorTypeOK, Workspaces
  <1>3. CASE ~ (reqs[i].live /\ route = 0)
    <2>1. /\ reqs' = [reqs EXCEPT ![i].st = "over"]
          /\ ed' = IF reqs[i].live THEN [ed EXCEPT !.busy = FALSE] ELSE ed
          /\ UNCHANGED <<route, load, probe, draft, timer, store>>
      BY <1>3 DEF Finish
    <2>2. ed' \in Workspaces
      BY <2>1, WorkspaceTypes DEF Workspaces
    <2> QED
      BY <1>1, <2>1, <2>2, MovesRequest, SameRows DEF EditorTypeOK, Workspaces, store, Ends
  <1> QED
    BY <1>2, <1>3

\* The page goes: the state stays well typed.
LEMMA UnmountTypes ==
  ASSUME EditorTypeOK, Unmount, UNCHANGED <<world, rows, route, known, count>>,
         draft' \in Designs \cup {Nothing}, edit' \in Designs \cup {Nothing},
         calc' \subseteq Mine \cup Theirs
  PROVE  EditorTypeOK'
  <1>1. /\ page' = "gone" /\ load' = NoRetrieve /\ probe' = NoRetrieve /\ ed' = Fresh
        /\ settled' = Empty /\ timer' = FALSE /\ Cleanup(FALSE) /\ Show(Empty)
    BY DEF Unmount, Cleanup
  <1>2. ed' \in Workspaces
    BY <1>1 DEF Fresh, Workspaces, Tokens
  <1>3. load' \in Retrieves /\ probe' \in Retrieves /\ settled' \in Designs
    BY <1>1 DEF Retrieves, Designs
  <1> QED
    BY <1>1, <1>2, <1>3, EmptyShown, CleansRequests, SameRows DEF EditorTypeOK, Workspaces

\* The user leaves the page: the state stays well typed.
LEMMA LeaveTypes ==
  ASSUME EditorTypeOK, Leave
  PROVE  EditorTypeOK'
  BY UnmountTypes DEF Leave, EditorTypeOK

\* The user refreshes the page: the state stays well typed.
LEMMA RefreshTypes ==
  ASSUME EditorTypeOK, Refresh
  PROVE  EditorTypeOK'
  BY UnmountTypes DEF Refresh, EditorTypeOK

\* Somebody else saves: what that leaves.
LEMMA OtherSavesEffect ==
  ASSUME EditorTypeOK, OtherSaves
  PROVE  /\ rows' \in Seq(RowList) /\ DOMAIN rows' = DOMAIN rows /\ Len(rows') = Len(rows)
         /\ \A j \in DOMAIN rows : rows'[j] = rows[j] \/ (rows'[j].by = "other" /\ rows'[j].design \in Theirs)
  <1>1. PICK d \in Theirs :
          rows' = [rows EXCEPT ![route] = [ver |-> @.ver + 1, design |-> d, by |-> "other"]]
    BY DEF OtherSaves
  <1>2. /\ rows \in Seq(RowList) /\ DOMAIN rows = 1..Len(rows) /\ Len(rows) \in Nat
        /\ route \in DOMAIN rows
    BY RowTypes, LenProperties DEF EditorTypeOK, OtherSaves
  <1> DEFINE r == [ver |-> rows[route].ver + 1, design |-> d, by |-> "other"]
  <1>3. r \in RowList /\ r.by = "other" /\ r.design \in Theirs
    BY <1>2, RowTypes DEF RowList, Designs
  <1>4. rows' = [rows EXCEPT ![route] = r]
    BY <1>1
  <1> HIDE DEF r
  <1> QED
    BY <1>2, <1>3, <1>4, ExceptSeq

\* Somebody else saves: the state stays well typed.
LEMMA OtherSavesTypes ==
  ASSUME EditorTypeOK, OtherSaves
  PROVE  EditorTypeOK'
  <1>1. count' \in [edits : Nat, others : Nat, visits : Nat, reloads : Nat]
    <2>1. count \in [edits : Nat, others : Nat, visits : Nat, reloads : Nat]
      BY DEF EditorTypeOK
    <2> QED
      BY <2>1 DEF OtherSaves
  <1>2. /\ UNCHANGED <<world, page, route, store, ed, settled, calc, draft, timer, load>>
        /\ UNCHANGED <<reqs, probe, edit, known>>
    BY DEF OtherSaves
  <1>3. /\ Tokens' = Tokens /\ Retrieves' = Retrieves /\ Requests' = Requests
    BY OtherSavesEffect DEF Tokens, Retrieves, Requests
  <1> QED
    BY <1>1, <1>2, <1>3, OtherSavesEffect DEF EditorTypeOK, store, RowList

-----------------------------------------------------------------------------
(* PositionEditor: the shape of the tab.                                  *)

\* The requests keep their shape when only rows are added.
LEMMA SameRequests ==
  ASSUME Requested, UNCHANGED <<reqs, route>>, DOMAIN rows \subseteq DOMAIN rows',
         ed.loaded => ed'.loaded, ed.busy => ed'.busy
  PROVE  Requested' /\ StoredLive' = StoredLive
  BY DEF Requested, LiveAt, Flying, StoredLive

\* A workspace that has loaded nothing still has nothing.
LEMMA StillFresh ==
  ASSUME ed = Fresh, ed' \in Workspaces, SameBase, SameFlags, ed'.pending = ed.pending,
         ed'.result = Nothing
  PROVE  ed' = Fresh
  BY DEF Fresh, Workspaces, SameBase, SameFlags

\* An empty canvas has no result.
LEMMA EmptyNotEvaluated ==
  ASSUME EditorTypeOK', canvas' = Empty, Evaluated
  PROVE  ed'.result = Nothing
  BY EditorAssumption DEF EditorTypeOK, Evaluated

\* The server answers a retrieve: the shape is kept.
LEMMA ServerReadsShape ==
  ASSUME EditorTypeOK, EditorTypeOK', Shape, ServerReads
  PROVE  Shape'
  <1>0. load' # NoRetrieve /\ load'.id = load.id /\ load # NoRetrieve
    BY AnsweredTypes, ReadTypes DEF ServerReads, EditorTypeOK
  <1>1. Mounted'
    BY <1>0 DEF ServerReads, Shape, Mounted, store
  <1>2. Named'
    BY <1>0 DEF ServerReads, Shape, Named, Creating, Source
  <1>3. Created'
    BY <1>0, SameRequests DEF ServerReads, Shape, Created
  <1>4. Requested'
    BY <1>0, SameRequests DEF ServerReads, Shape
  <1> QED
    BY <1>1, <1>2, <1>3, <1>4 DEF Shape

\* A retrieve fails: the shape is kept.
LEMMA LoadFailsShape ==
  ASSUME EditorTypeOK, EditorTypeOK', Shape, LoadFails
  PROVE  Shape'
  <1>0. UNCHANGED ed
    BY DEF LoadFails
  <1>1. Mounted'
    BY <1>0 DEF LoadFails, Shape, Mounted, store
  <1>2. Named'
    BY <1>0 DEF LoadFails, Shape, Named, Creating, Source
  <1>3. Created'
    BY <1>0, SameRequests DEF LoadFails, Shape, Created
  <1>4. Requested'
    BY <1>0, SameRequests DEF LoadFails, Shape
  <1> QED
    BY <1>1, <1>2, <1>3, <1>4 DEF Shape

\* The draft is written: the shape is kept.
LEMMA WriteDraftShape ==
  ASSUME EditorTypeOK, EditorTypeOK', Shape, WriteDraft
  PROVE  Shape'
  <1>0. UNCHANGED ed
    BY DEF WriteDraft
  <1>1. Mounted'
    BY <1>0 DEF WriteDraft, Shape, Mounted, store
  <1>2. Named'
    BY <1>0 DEF WriteDraft, Shape, Named, Creating, Source
  <1>3. Created'
    BY <1>0, SameRequests DEF WriteDraft, Shape, Created
  <1>4. Requested'
    BY <1>0, SameRequests DEF WriteDraft, Shape
  <1> QED
    BY <1>1, <1>2, <1>3, <1>4 DEF Shape

\* The measurements are confirmed: the shape is kept.
LEMMA ConfirmShape ==
  ASSUME EditorTypeOK, EditorTypeOK', Shape, Confirm
  PROVE  Shape'
  <1>0. UNCHANGED ed
    BY DEF Confirm
  <1>1. Mounted'
    BY <1>0 DEF Confirm, Shape, Mounted, store
  <1>2. Named'
    BY <1>0 DEF Confirm, Shape, Named, Creating, Source
  <1>3. Created'
    BY <1>0, SameRequests DEF Confirm, Shape, Created
  <1>4. Requested'
    BY <1>0, SameRequests DEF Confirm, Shape
  <1> QED
    BY <1>1, <1>2, <1>3, <1>4 DEF Shape

\* The server answers the measurements: the shape is kept.
LEMMA ProbeReadsShape ==
  ASSUME EditorTypeOK, EditorTypeOK', Shape, ProbeReads
  PROVE  Shape'
  <1>0. probe # NoRetrieve /\ UNCHANGED <<load, ed>>
    BY ReadTypes DEF ProbeReads, EditorTypeOK
  <1>1. Mounted'
    BY <1>0 DEF ProbeReads, Shape, Mounted, store
  <1>2. Named'
    BY <1>0 DEF ProbeReads, Shape, Named, Creating, Source
  <1>3. Created'
    BY <1>0, SameRequests DEF ProbeReads, Shape, Created
  <1>4. Requested'
    BY <1>0, SameRequests DEF ProbeReads, Shape
  <1> QED
    BY <1>1, <1>2, <1>3, <1>4 DEF Shape

\* The measurements bring a token: the shape is kept.
LEMMA ProbeAnswersShape ==
  ASSUME EditorTypeOK, EditorTypeOK', Shape, ProbeAnswers
  PROVE  Shape'
  <1>0. /\ probe # NoRetrieve /\ probe' = NoRetrieve /\ UNCHANGED load
        /\ ed'.loaded = ed.loaded /\ ed'.busy = ed.busy /\ ed'.conflict = ed.conflict
    <2>1. ed \in Workspaces
      BY WorkspaceTypes
    <2> QED
      BY <2>1, ReadTypes DEF ProbeAnswers, EditorTypeOK, Workspaces
  <1>1. Mounted'
    BY <1>0 DEF ProbeAnswers, Shape, Mounted, store
  <1>2. Named'
    BY <1>0 DEF ProbeAnswers, Shape, Named, Creating, Source
  <1>3. Created'
    BY <1>0, SameRequests DEF ProbeAnswers, Shape, Created
  <1>4. Requested'
    BY <1>0, SameRequests DEF ProbeAnswers, Shape
  <1> QED
    BY <1>1, <1>2, <1>3, <1>4 DEF Shape

\* The user draws: the shape is kept.
LEMMA EditShape ==
  ASSUME EditorTypeOK, EditorTypeOK', Shape, NEW d \in Designs, Edit(d)
  PROVE  Shape'
  <1>0. /\ ed'.loaded = ed.loaded /\ ed'.saved = ed.saved
        /\ ed'.busy = ed.busy /\ ed'.conflict = ed.conflict
    BY EditEffect DEF SameBase, SameFlags
  <1>1. Mounted'
    BY <1>0 DEF Edit, Shape, Mounted, Editable
  <1>2. Named'
    BY <1>0 DEF Edit, Shape, Named, Creating, Source
  <1>3. Created'
    BY <1>0, SameRequests DEF Edit, Shape, Created
  <1>4. Requested'
    BY <1>0, SameRequests DEF Edit, Shape
  <1> QED
    BY <1>1, <1>2, <1>3, <1>4 DEF Shape

\* The user goes back: the shape is kept.
LEMMA UndoShape ==
  ASSUME EditorTypeOK, EditorTypeOK', Shape, Undo
  PROVE  Shape'
  <1>0. /\ ed'.loaded = ed.loaded /\ ed'.saved = ed.saved
        /\ ed'.busy = ed.busy /\ ed'.conflict = ed.conflict
    BY UndoEffect DEF SameBase, SameFlags
  <1>1. Mounted'
    BY <1>0 DEF Undo, Shape, Mounted, Editable
  <1>2. Named'
    BY <1>0 DEF Undo, Shape, Named, Creating, Source
  <1>3. Created'
    BY <1>0, SameRequests DEF Undo, Shape, Created
  <1>4. Requested'
    BY <1>0, SameRequests DEF Undo, Shape
  <1> QED
    BY <1>1, <1>2, <1>3, <1>4 DEF Shape

\* The user goes forward again: the shape is kept.
LEMMA RedoShape ==
  ASSUME EditorTypeOK, EditorTypeOK', Shape, Redo
  PROVE  Shape'
  <1>0. /\ ed'.loaded = ed.loaded /\ ed'.saved = ed.saved
        /\ ed'.busy = ed.busy /\ ed'.conflict = ed.conflict
    BY RedoEffect DEF SameBase, SameFlags
  <1>1. Mounted'
    BY <1>0 DEF Redo, Shape, Mounted, Editable
  <1>2. Named'
    BY <1>0 DEF Redo, Shape, Named, Creating, Source
  <1>3. Created'
    BY <1>0, SameRequests DEF Redo, Shape, Created
  <1>4. Requested'
    BY <1>0, SameRequests DEF Redo, Shape
  <1> QED
    BY <1>1, <1>2, <1>3, <1>4 DEF Shape

\* The offered draft is discarded: the shape is kept.
LEMMA DropOfferShape ==
  ASSUME EditorTypeOK, EditorTypeOK', Shape, DropOffer
  PROVE  Shape'
  <1>0. /\ ed'.loaded = ed.loaded /\ ed'.saved = ed.saved
        /\ ed'.busy = ed.busy /\ ed'.conflict = ed.conflict
    BY DropOfferEffect DEF SameBase, SameFlags
  <1>1. Mounted'
    BY <1>0 DEF DropOffer, Shape, Mounted, Editable
  <1>2. Named'
    BY <1>0 DEF DropOffer, Shape, Named, Creating, Source
  <1>3. Created'
    BY <1>0, SameRequests DEF DropOffer, Shape, Created
  <1>4. Requested'
    BY <1>0, SameRequests DEF DropOffer, Shape
  <1> QED
    BY <1>1, <1>2, <1>3, <1>4 DEF Shape

\* The offered draft is put on the canvas: the shape is kept.
LEMMA RestoreShape ==
  ASSUME EditorTypeOK, EditorTypeOK', Shape, Restore
  PROVE  Shape'
  <1>0. /\ ed'.loaded = ed.loaded /\ ed'.saved = ed.saved
        /\ ed'.busy = ed.busy /\ ed'.conflict = ed.conflict
    BY RestoreEffect DEF SameBase, SameFlags
  <1>1. Mounted'
    BY <1>0 DEF Restore, Shape, Mounted, Editable
  <1>2. Named'
    BY <1>0 DEF Restore, Shape, Named, Creating, Source
  <1>3. Created'
    BY <1>0, SameRequests DEF Restore, Shape, Created
  <1>4. Requested'
    BY <1>0, SameRequests DEF Restore, Shape
  <1> QED
    BY <1>1, <1>2, <1>3, <1>4 DEF Shape

\* The pause of the calculation ends: the shape is kept.
LEMMA DesignSettlesShape ==
  ASSUME EditorTypeOK, EditorTypeOK', Shape, DesignSettles
  PROVE  Shape'
  <1>0. /\ ed'.loaded = ed.loaded /\ ed'.saved = ed.saved
        /\ ed'.busy = ed.busy /\ ed'.conflict = ed.conflict
    BY DesignSettlesEffect DEF SameBase, SameFlags
  <1>1. Mounted'
    <2>1. CASE ~ ed.loaded
      <3>1. ed = Fresh /\ canvas = Empty /\ probe = NoRetrieve /\ ~ timer
        BY <2>1 DEF Shape, Mounted
      <3>2. ed.result = Nothing /\ canvas' = Empty /\ ed.baseline = Nothing
        BY <3>1 DEF Fresh, DesignSettles, store
      <3>3. ed'.result = Nothing
        BY <3>2, DesignSettlesEffect, EmptyNotEvaluated
      <3>4. ed' = Fresh
        BY <3>1, <3>3, DesignSettlesEffect, StillFresh
      <3>5. ~ timer'
        BY <2>1, <3>1, DesignSettlesEffect, <1>0 DEF Timed
      <3> QED
        BY <2>1, <3>1, <3>2, <3>4, <3>5, <1>0 DEF Mounted, DesignSettles
    <2>2. CASE ed.loaded
      BY <2>2, <1>0 DEF Shape, Mounted, DesignSettles
    <2> QED
      BY <2>1, <2>2
  <1>2. Named'
    BY <1>0 DEF DesignSettles, Shape, Named, Creating, Source
  <1>3. Created'
    BY <1>0, SameRequests DEF DesignSettles, Shape, Created
  <1>4. Requested'
    BY <1>0, SameRequests DEF DesignSettles, Shape
  <1> QED
    BY <1>1, <1>2, <1>3, <1>4 DEF Shape

\* The engine answers: the shape is kept.
LEMMA CalculatedShape ==
  ASSUME EditorTypeOK, EditorTypeOK', Shape, Calculated
  PROVE  Shape'
  <1>0. /\ ed'.loaded = ed.loaded /\ ed'.saved = ed.saved
        /\ ed'.busy = ed.busy /\ ed'.conflict = ed.conflict
    BY CalculatedEffect DEF SameBase, SameFlags
  <1>1. Mounted'
    <2>1. CASE ~ ed.loaded
      <3>1. ed = Fresh /\ canvas = Empty /\ probe = NoRetrieve /\ ~ timer
        BY <2>1 DEF Shape, Mounted
      <3>2. ed.result = Nothing /\ canvas' = Empty /\ ed.baseline = Nothing
        BY <3>1 DEF Fresh, Calculated, store
      <3>3. ed'.result = Nothing
        BY <3>2, CalculatedEffect, EmptyNotEvaluated
      <3>4. ed' = Fresh
        BY <3>1, <3>3, CalculatedEffect, StillFresh
      <3>5. ~ timer'
        BY <2>1, <3>1, CalculatedEffect, <1>0 DEF Timed
      <3> QED
        BY <2>1, <3>1, <3>2, <3>4, <3>5, <1>0 DEF Mounted, Calculated
    <2>2. CASE ed.loaded
      BY <2>2, <1>0 DEF Shape, Mounted, Calculated
    <2> QED
      BY <2>1, <2>2
  <1>2. Named'
    BY <1>0 DEF Calculated, Shape, Named, Creating, Source
  <1>3. Created'
    BY <1>0, SameRequests DEF Calculated, Shape, Created
  <1>4. Requested'
    BY <1>0, SameRequests DEF Calculated, Shape
  <1> QED
    BY <1>1, <1>2, <1>3, <1>4 DEF Shape

\* A retrieve fills the editor: the shape is kept.
LEMMA LoadedShape ==
  ASSUME EditorTypeOK, EditorTypeOK', Shape, Loaded
  PROVE  Shape'
  <1>0. /\ ed'.loaded = TRUE /\ ed'.busy = ed.busy /\ ed'.conflict = ed.conflict
        /\ load' = NoRetrieve /\ page = "open"
        /\ route = 0 => ed'.saved = NoRow
        /\ UNCHANGED <<world, rows, page, route, reqs, probe>>
    <2>1. load # NoRetrieve
      BY ReadTypes DEF Loaded, EditorTypeOK
    <2>2. page = "open"
      BY <2>1 DEF Shape, Mounted, EditorTypeOK
    <2> QED
      BY <2>2, LoadedEffect DEF Loaded, SameFlags
  <1>1. Mounted'
    BY <1>0 DEF Shape, Mounted
  <1>2. Named'
    BY <1>0 DEF Shape, Named, Creating, Source
  <1>3. Created'
    BY <1>0, SameRequests DEF Shape, Created
  <1>4. Requested'
    BY <1>0, SameRequests DEF Shape
  <1> QED
    BY <1>1, <1>2, <1>3, <1>4 DEF Shape

\* The page opens: the shape is kept.
LEMMA OpenEditorShape ==
  ASSUME EditorTypeOK, EditorTypeOK', Shape, OpenEditor
  PROVE  Shape'
  <1>0. /\ UNCHANGED <<world, rows, route, reqs, probe>> /\ page' = "open"
        /\ ed = Fresh /\ canvas = Empty /\ load = NoRetrieve /\ ~ timer /\ probe = NoRetrieve
        /\ ~ ed.loaded /\ ~ ed.busy
    BY DEF OpenEditor, Shape, Mounted, Fresh
  <1>5. Creating => /\ ed'.loaded = TRUE /\ ed'.conflict = FALSE /\ ed'.saved = NoRow
                     /\ UNCHANGED load
    BY StartsEffect DEF Starts, OpenEditor, Creating
  <1>6. ~ Creating => /\ load' = Asked(Source) /\ load'.id = Source
                       /\ UNCHANGED <<ed, canvas, timer>>
    BY SourceNamed, AskedTypes DEF OpenEditor, Creating, Shape, store
  <1>1. Mounted'
    BY <1>0, <1>5, <1>6 DEF Mounted
  <1>2. Named'
    BY <1>0, <1>5, <1>6 DEF Shape, Named, Creating, Source
  <1>3. Created'
    BY <1>0, <1>5, <1>6, SameRequests DEF Shape, Created, Fresh
  <1>4. Requested'
    BY <1>0, <1>5, <1>6, SameRequests DEF Shape
  <1> QED
    BY <1>1, <1>2, <1>3, <1>4 DEF Shape

\* Somebody else saves: the shape is kept.
LEMMA OtherSavesShape ==
  ASSUME EditorTypeOK, EditorTypeOK', Shape, OtherSaves
  PROVE  Shape'
  <1>0. UNCHANGED <<world, page, route, canvas, ed, timer, load, reqs, probe>>
    BY DEF OtherSaves, store
  <1>1. Mounted'
    BY <1>0 DEF Shape, Mounted
  <1>2. Named'
    BY <1>0, OtherSavesEffect, RowTypes, EmptySeq DEF Shape, Named, Creating, Source
  <1>3. Created'
    BY <1>0, SameRequests, OtherSavesEffect DEF Shape, Created
  <1>4. Requested'
    BY <1>0, SameRequests, OtherSavesEffect DEF Shape
  <1> QED
    BY <1>1, <1>2, <1>3, <1>4 DEF Shape

\* A request goes on, or ends and frees the workspace.
LEMMA MovedRequests ==
  ASSUME EditorTypeOK, Requested, NEW i \in DOMAIN reqs, NEW s \in Ends,
         reqs' = [reqs EXCEPT ![i].st = s], UNCHANGED <<rows, route>>,
         s \in {"ok", "stored"} => reqs[i].id \in DOMAIN rows,
         s # "over" => Flying(reqs[i]),
         ed.loaded => ed'.loaded,
         ed.busy => ed'.busy \/ (s = "over" /\ LiveAt(i))
  PROVE  /\ Requested'
         /\ StoredLive /\ reqs[i].st # "stored" => StoredLive'
         /\ s = "stored" /\ reqs[i].live => StoredLive'
  <1>1. /\ DOMAIN reqs' = DOMAIN reqs
        /\ \A j \in DOMAIN reqs : j # i => reqs'[j] = reqs[j]
        /\ \A j \in DOMAIN reqs :
              /\ reqs'[j].saved = reqs[j].saved /\ reqs'[j].id = reqs[j].id
              /\ reqs'[j].live = reqs[j].live /\ reqs'[j].here = reqs[j].here
        /\ reqs'[i].st = s
    BY MovesRequest
  <1>2. \A j \in DOMAIN reqs :
          LiveAt(j)' => LiveAt(j) /\ (j = i => s # "over")
    BY <1>1 DEF LiveAt, Flying, Ends
  <1>3. \A j \in DOMAIN reqs : LiveAt(j)' => ed'.busy /\ ed'.loaded
    BY <1>2 DEF Requested
  <1>4. Requested'
    <2>1. \A j \in DOMAIN reqs' :
            /\ reqs'[j].live => reqs'[j].here
            /\ reqs'[j].st \in {"ok", "stored"} => reqs'[j].id \in DOMAIN rows'
      BY <1>1 DEF Requested
    <2>2. \A j \in DOMAIN reqs' :
            LiveAt(j)' => ed'.loaded /\ ed'.busy /\ (route' = 0 => reqs'[j].saved = NoRow)
      BY <1>1, <1>2, <1>3 DEF Requested
    <2>3. \A j, k \in DOMAIN reqs' : LiveAt(j)' /\ LiveAt(k)' => j = k
      BY <1>1, <1>2 DEF Requested
    <2> QED
      BY <2>1, <2>2, <2>3 DEF Requested
  <1>5. StoredLive /\ reqs[i].st # "stored" => StoredLive'
    BY <1>1 DEF StoredLive
  <1>6. s = "stored" /\ reqs[i].live => StoredLive'
    BY <1>1 DEF StoredLive
  <1> QED
    BY <1>4, <1>5, <1>6

\* No request is this page's any more.
LEMMA CleanedRequests ==
  ASSUME EditorTypeOK, Requested, NEW here \in BOOLEAN, Cleanup(here), UNCHANGED rows
  PROVE  Requested'
  <1>1. \A j \in DOMAIN reqs' : ~ reqs'[j].live
    BY CleansRequests
  <1>2. \A j \in DOMAIN reqs' :
          reqs'[j].st \in {"ok", "stored"} => reqs'[j].id \in DOMAIN rows'
    BY CleansRequests DEF Requested
  <1> QED
    BY <1>1, <1>2 DEF Requested, LiveAt

\* The server refuses a save: the shape is kept.
LEMMA refuse_positionShape ==
  ASSUME EditorTypeOK, EditorTypeOK', Shape, NEW i \in DOMAIN reqs, refuse_position(i)
  PROVE  Shape'
  <1>0. UNCHANGED <<world, rows, page, route, canvas, ed, timer, load, probe>>
    BY DEF refuse_position, store
  <1>5. Requested' /\ (StoredLive => StoredLive')
    <2>1. PICK s \in Ends : /\ reqs' = [reqs EXCEPT ![i].st = s]
                            /\ s \notin {"ok", "stored"}
      BY DEF refuse_position, Ends
    <2>2. Flying(reqs[i]) /\ reqs[i].st # "stored"
      BY DEF refuse_position, Flying
    <2> QED
      BY <1>0, <2>1, <2>2, MovedRequests DEF Shape
  <1>1. Mounted'
    BY <1>0 DEF Shape, Mounted
  <1>2. Named'
    BY <1>0 DEF Shape, Named, Creating, Source
  <1>3. Requested'
    BY <1>5
  <1>4. Created'
    BY <1>0, <1>5 DEF Shape, Created
  <1> QED
    BY <1>1, <1>2, <1>3, <1>4 DEF Shape

\* The connection of a save fails: the shape is kept.
LEMMA LoseShape ==
  ASSUME EditorTypeOK, EditorTypeOK', Shape, NEW i \in DOMAIN reqs, Lose(i)
  PROVE  Shape'
  <1>0. UNCHANGED <<world, rows, page, route, canvas, ed, timer, load, probe>>
    BY DEF Lose, store
  <1>5. Requested' /\ (StoredLive => StoredLive')
    <2>1. PICK s \in Ends : /\ reqs' = [reqs EXCEPT ![i].st = s]
                            /\ s \notin {"ok", "stored"}
      BY DEF Lose, Ends
    <2>2. Flying(reqs[i]) /\ reqs[i].st # "stored"
      BY DEF Lose, Flying
    <2> QED
      BY <1>0, <2>1, <2>2, MovedRequests DEF Shape
  <1>1. Mounted'
    BY <1>0 DEF Shape, Mounted
  <1>2. Named'
    BY <1>0 DEF Shape, Named, Creating, Source
  <1>3. Requested'
    BY <1>5
  <1>4. Created'
    BY <1>0, <1>5 DEF Shape, Created
  <1> QED
    BY <1>1, <1>2, <1>3, <1>4 DEF Shape

\* The answer of a save comes after its page left: the shape is kept.
LEMMA IgnoredShape ==
  ASSUME EditorTypeOK, EditorTypeOK', Shape, NEW i \in DOMAIN reqs, Ignored(i)
  PROVE  Shape'
  <1>0. UNCHANGED <<world, rows, page, route, canvas, ed, timer, load, probe>>
    BY DEF Ignored, store
  <1>5. Requested' /\ (StoredLive => StoredLive')
    <2>1. PICK s \in Ends : /\ reqs' = [reqs EXCEPT ![i].st = s]
                            /\ s \notin {"ok", "stored"}
      BY DEF Ignored, Ends
    <2>2. Flying(reqs[i]) /\ reqs[i].st # "stored"
      BY DEF Ignored, Flying
    <2> QED
      BY <1>0, <2>1, <2>2, MovedRequests DEF Shape
  <1>1. Mounted'
    BY <1>0 DEF Shape, Mounted
  <1>2. Named'
    BY <1>0 DEF Shape, Named, Creating, Source
  <1>3. Requested'
    BY <1>5
  <1>4. Created'
    BY <1>0, <1>5 DEF Shape, Created
  <1> QED
    BY <1>1, <1>2, <1>3, <1>4 DEF Shape

\* A save was stored: the shape is kept.
LEMMA StoredShape ==
  ASSUME EditorTypeOK, EditorTypeOK', Shape, NEW i \in DOMAIN reqs, Stored(i)
  PROVE  Shape'
  <1>0. UNCHANGED <<world, rows, page, route, canvas, load, probe>>
    BY DEF Stored, store
  <1>5. /\ reqs[i].id \in DOMAIN rows /\ ed.loaded /\ ed.busy
        /\ ed'.loaded = ed.loaded /\ ed'.busy = ed.busy /\ ed'.conflict = ed.conflict
    <2>1. reqs[i].id \in DOMAIN rows /\ LiveAt(i)
      BY DEF Stored, Shape, Requested, LiveAt, Flying
    <2> QED
      BY <2>1, StoredEffect DEF Shape, Requested, SameFlags
  <1>6. Requested' /\ StoredLive'
    <2>1. reqs' = [reqs EXCEPT ![i].st = "stored"] /\ reqs[i].live /\ Flying(reqs[i])
      BY DEF Stored, Flying
    <2> QED
      BY <1>0, <1>5, <2>1, MovedRequests DEF Shape, Ends
  <1>1. Mounted'
    BY <1>0, <1>5 DEF Shape, Mounted
  <1>2. Named'
    BY <1>0, <1>5 DEF Shape, Named, Creating, Source
  <1>3. Requested'
    BY <1>6
  <1>4. Created'
    BY <1>0, <1>5, <1>6 DEF Shape, Created
  <1> QED
    BY <1>1, <1>2, <1>3, <1>4 DEF Shape

\* A save failed: the shape is kept.
LEMMA FailedShape ==
  ASSUME EditorTypeOK, EditorTypeOK', Shape, NEW i \in DOMAIN reqs, Failed(i)
  PROVE  Shape'
  <1>0. UNCHANGED <<world, rows, page, route, canvas, load, probe>>
    BY DEF Failed
  <1>5. /\ LiveAt(i) /\ ed.loaded /\ ed'.loaded = ed.loaded /\ ed'.saved = ed.saved
        /\ route = 0 => ed'.conflict = ed.conflict
    <2>1. LiveAt(i)
      BY DEF Failed, LiveAt, Flying
    <2>2. ed.loaded /\ (route = 0 => reqs[i].saved = NoRow)
      BY <2>1 DEF Shape, Requested
    <2> QED
      BY <2>1, <2>2, FailedEffect, WorkspaceTypes DEF SameBase, Workspaces
  <1>6. Requested' /\ (StoredLive => StoredLive')
    <2>1. reqs' = [reqs EXCEPT ![i].st = "over"] /\ reqs[i].st # "stored"
      BY DEF Failed
    <2> QED
      BY <1>0, <1>5, <2>1, MovedRequests DEF Shape, Ends
  <1>1. Mounted'
    BY <1>0, <1>5 DEF Shape, Mounted
  <1>2. Named'
    BY <1>0, <1>5 DEF Shape, Named, Creating, Source
  <1>3. Requested'
    BY <1>6
  <1>4. Created'
    BY <1>0, <1>5, <1>6 DEF Shape, Created
  <1> QED
    BY <1>1, <1>2, <1>3, <1>4 DEF Shape

\* The error screen asks again: the shape is kept.
LEMMA RetryLoadShape ==
  ASSUME EditorTypeOK, EditorTypeOK', Shape, RetryLoad
  PROVE  Shape'
  <1>0. /\ UNCHANGED <<world, rows, page, route, ed, timer, probe>> /\ Cleanup(TRUE)
        /\ ed = Fresh /\ probe = NoRetrieve /\ canvas' = Empty /\ page = "open"
        /\ ~ ed.loaded /\ ~ Creating /\ load'.id = Source
    <2>1. ~ Creating
      BY DEF RetryLoad, Shape, Named
    <2>2. Asked(Source).id = Source
      BY <2>1, SourceNamed, AskedTypes DEF Shape
    <2> QED
      BY <2>1, <2>2, EmptyShown DEF RetryLoad, Cleanup, Shape, Mounted
  <1>1. Mounted'
    BY <1>0 DEF Shape, Mounted
  <1>2. Named'
    BY <1>0 DEF Shape, Named, Creating, Source
  <1>3. Requested'
    BY <1>0, CleanedRequests DEF Shape
  <1>4. Created'
    BY <1>0 DEF Created, Fresh
  <1> QED
    BY <1>1, <1>2, <1>3, <1>4 DEF Shape

\* The conflict banner reloads the saved window: the shape is kept.
LEMMA LoadSavedShape ==
  ASSUME EditorTypeOK, EditorTypeOK', Shape, LoadSaved
  PROVE  Shape'
  <1>0. /\ UNCHANGED <<world, rows, page, route>> /\ Cleanup(TRUE)
        /\ ed'.loaded = TRUE /\ page # "gone" /\ route # 0 /\ load'.id = Source
    <2>1. route # 0
      BY DEF LoadSaved, Shape, Created
    <2>2. ed.loaded = TRUE
      BY WorkspaceTypes DEF LoadSaved, Shape, Mounted, Fresh, Workspaces
    <2>3. Asked(Source).id = Source
      BY <2>1, SourceNamed, AskedTypes DEF Shape, Creating
    <2> QED
      BY <2>1, <2>2, <2>3, LoadSavedEffect DEF LoadSaved, SameBase, Shape, Mounted
  <1>1. Mounted'
    BY <1>0 DEF Mounted
  <1>2. Named'
    BY <1>0 DEF Shape, Named, Creating, Source
  <1>3. Requested'
    BY <1>0, CleanedRequests DEF Shape
  <1>4. Created'
    BY <1>0 DEF Created
  <1> QED
    BY <1>1, <1>2, <1>3, <1>4 DEF Shape

\* A save leaves: the shape is kept.
LEMMA SaveShape ==
  ASSUME EditorTypeOK, EditorTypeOK', Shape, Save
  PROVE  Shape'
  <1>0. /\ UNCHANGED <<world, rows, page, route, canvas, timer, load, probe>>
        /\ ed.loaded /\ ed'.loaded /\ ed'.saved = ed.saved /\ ed'.conflict = ed.conflict
    BY SaveSends DEF Save, store, SameBase
  <1>5. /\ \A i \in DOMAIN reqs : ~ LiveAt(i)
        /\ ~ StoredLive /\ (route = 0 => ed.saved = NoRow)
    <2>1. \A i \in DOMAIN reqs : ~ LiveAt(i)
      BY DEF Save, SaveGuard, mutationLock, Shape, Requested, LiveAt
    <2>2. ~ StoredLive
      BY <2>1 DEF StoredLive, LiveAt, Flying
    <2> QED
      BY <2>1, <2>2 DEF Shape, Created
  <1>1. Mounted'
    BY <1>0 DEF Shape, Mounted
  <1>2. Named'
    BY <1>0 DEF Shape, Named, Creating, Source
  <1>3. Requested'
    <2>1. \A i \in DOMAIN reqs : ~ LiveAt(i)
      BY <1>5
    <2>2. \A i \in DOMAIN reqs' : LiveAt(i)' => i = Len(reqs) + 1
      BY <2>1, SaveSends DEF LiveAt
    <2>3. \A i \in DOMAIN reqs' : i \in DOMAIN reqs \/ i = Len(reqs) + 1
      BY SaveSends
    <2>4. /\ Sent.live /\ Sent.here /\ Sent.st = "sent"
          /\ route = 0 => Sent.saved = NoRow
      BY <1>5 DEF Sent
    <2>5. \A i \in DOMAIN reqs' :
            /\ reqs'[i].live => reqs'[i].here
            /\ reqs'[i].st \in {"ok", "stored"} => reqs'[i].id \in DOMAIN rows'
      BY <1>0, <2>3, <2>4, SaveSends DEF Shape, Requested
    <2>6. \A i \in DOMAIN reqs' :
            LiveAt(i)' => ed'.loaded /\ ed'.busy /\ (route' = 0 => reqs'[i].saved = NoRow)
      BY <1>0, <2>2, <2>4, SaveSends
    <2> QED
      BY <2>2, <2>5, <2>6 DEF Requested
  <1>4. Created'
    BY <1>0, <1>3, <1>5 DEF Shape, Created
  <1> QED
    BY <1>1, <1>2, <1>3, <1>4 DEF Shape

\* The user leaves the page: the shape is kept.
LEMMA LeaveShape ==
  ASSUME EditorTypeOK, EditorTypeOK', Shape, Leave
  PROVE  Shape'
  <1>0. /\ UNCHANGED <<world, rows, route>> /\ Cleanup(FALSE) /\ canvas' = Empty
        /\ page' = "gone" /\ load' = NoRetrieve /\ probe' = NoRetrieve
        /\ ed' = Fresh /\ ~ ed'.loaded /\ ~ timer'
    BY EmptyShown DEF Leave, Unmount, Cleanup, Fresh
  <1>1. Mounted'
    BY <1>0 DEF Mounted
  <1>2. Named'
    BY <1>0 DEF Shape, Named, Creating, Source
  <1>3. Requested'
    BY <1>0, CleanedRequests DEF Shape
  <1>4. Created'
    BY <1>0 DEF Created, Fresh
  <1> QED
    BY <1>1, <1>2, <1>3, <1>4 DEF Shape

\* The user refreshes the page: the shape is kept.
LEMMA RefreshShape ==
  ASSUME EditorTypeOK, EditorTypeOK', Shape, Refresh
  PROVE  Shape'
  <1>0. /\ UNCHANGED <<world, rows, route>> /\ Cleanup(FALSE) /\ canvas' = Empty
        /\ page' = "gone" /\ load' = NoRetrieve /\ probe' = NoRetrieve
        /\ ed' = Fresh /\ ~ ed'.loaded /\ ~ timer'
    BY EmptyShown DEF Refresh, Unmount, Cleanup, Fresh
  <1>1. Mounted'
    BY <1>0 DEF Mounted
  <1>2. Named'
    BY <1>0 DEF Shape, Named, Creating, Source
  <1>3. Requested'
    BY <1>0, CleanedRequests DEF Shape
  <1>4. Created'
    BY <1>0 DEF Created, Fresh
  <1> QED
    BY <1>1, <1>2, <1>3, <1>4 DEF Shape

\* A creation that is stored moves to the route of its row.
LEMMA MovesOn ==
  ASSUME EditorTypeOK, NEW i \in DOMAIN reqs, Finish(i), reqs[i].live, route = 0
  PROVE  /\ route' = reqs[i].id /\ load' = Asked(reqs[i].id) /\ probe' = NoRetrieve
         /\ ed' = Fresh /\ ~ ed'.loaded /\ draft' = Nothing /\ ~ timer' /\ canvas' = Empty
         /\ touched' = TRUE
         /\ DOMAIN reqs' = DOMAIN reqs
         /\ \A j \in DOMAIN reqs :
              /\ reqs'[j].saved = reqs[j].saved /\ reqs'[j].design = reqs[j].design
              /\ reqs'[j].ver = reqs[j].ver /\ reqs'[j].id = reqs[j].id
              /\ reqs'[j].live = FALSE
              /\ reqs'[j].st = reqs[j].st \/ reqs'[j].st = "over"
  <1>1. /\ route' = reqs[i].id /\ load' = Asked(reqs[i].id) /\ probe' = NoRetrieve
        /\ ed' = Fresh /\ draft' = Nothing /\ timer' = FALSE /\ Show(Empty)
    BY DEF Finish
  <1>2. reqs' = [j \in DOMAIN reqs |->
                   [reqs[j] EXCEPT !.live = FALSE, !.here = FALSE,
                                   !.st = IF j = i THEN "over" ELSE @]]
    BY DEF Finish
  <1>3. \A j \in DOMAIN reqs : reqs[j] \in Requests
    BY RequestTypes
  <1>4. \A j \in DOMAIN reqs :
          /\ reqs'[j].saved = reqs[j].saved /\ reqs'[j].design = reqs[j].design
          /\ reqs'[j].ver = reqs[j].ver /\ reqs'[j].id = reqs[j].id
          /\ reqs'[j].live = FALSE
          /\ reqs'[j].st = reqs[j].st \/ reqs'[j].st = "over"
    BY <1>2, <1>3 DEF Requests
  <1>5. DOMAIN reqs' = DOMAIN reqs
    BY <1>2
  <1> QED
    BY <1>1, <1>4, <1>5, EmptyShown DEF Fresh

\* Another save only ends.
LEMMA SaveEnds ==
  ASSUME EditorTypeOK, NEW i \in DOMAIN reqs, Finish(i), ~ (reqs[i].live /\ route = 0)
  PROVE  /\ reqs' = [reqs EXCEPT ![i].st = "over"]
         /\ UNCHANGED <<route, load, probe, draft, timer, store>>
         /\ SameBase /\ ed'.conflict = ed.conflict /\ ed'.pending = ed.pending
         /\ ed'.result = ed.result
         /\ ~ reqs[i].live => ed' = ed
  <1>1. /\ reqs' = [reqs EXCEPT ![i].st = "over"]
        /\ ed' = IF reqs[i].live THEN [ed EXCEPT !.busy = FALSE] ELSE ed
        /\ UNCHANGED <<route, load, probe, draft, timer, store>>
    BY DEF Finish
  <1>2. ed \in Workspaces
    BY WorkspaceTypes
  <1>3. /\ SameBase /\ ed'.conflict = ed.conflict /\ ed'.pending = ed.pending
        /\ ed'.result = ed.result
    BY <1>1, <1>2 DEF Workspaces, SameBase
  <1> QED
    BY <1>1, <1>3

\* A stored save ends: the shape is kept.
LEMMA FinishShape ==
  ASSUME EditorTypeOK, EditorTypeOK', Shape, NEW i \in DOMAIN reqs, Finish(i)
  PROVE  Shape'
  <1>1. UNCHANGED <<world, rows, page>>
    BY DEF Finish
  <1>2. reqs[i].id \in DOMAIN rows
    BY DEF Finish, Shape, Requested
  <1>3. CASE reqs[i].live /\ route = 0
    <2>1. route' # 0
      <3>1. route' = reqs[i].id
        BY <1>3, MovesOn
      <3>2. DOMAIN rows = 1..Len(rows) /\ Len(rows) \in Nat
        BY RowTypes, LenProperties
      <3> QED
        BY <1>2, <3>1, <3>2
    <2>2. load'.id = route'
      BY <1>2, <1>3, MovesOn, AskedTypes
    <2>3. page # "gone"
      <3>1. LiveAt(i)
        BY <1>3 DEF Finish, LiveAt, Flying
      <3> QED
        BY <3>1 DEF Shape, Requested, Mounted
    <2>4. Mounted' /\ Named' /\ Created'
      BY <1>1, <1>3, <2>1, <2>2, <2>3, MovesOn
      DEF Shape, Mounted, Named, Created, Creating, Source
    <2>5. Requested'
      BY <1>1, <1>3, <2>1, MovesOn DEF Shape, Requested, LiveAt
    <2> QED
      BY <2>4, <2>5 DEF Shape
  <1>4. CASE ~ (reqs[i].live /\ route = 0)
    <2>1. /\ UNCHANGED <<route, load, probe, timer, canvas>>
          /\ reqs' = [reqs EXCEPT ![i].st = "over"]
          /\ ed'.loaded = ed.loaded /\ ed'.saved = ed.saved /\ ed'.conflict = ed.conflict
          /\ ~ reqs[i].live => ed' = ed
      BY <1>4, SaveEnds DEF SameBase, store
    <2>2. reqs[i].live => LiveAt(i) /\ ed.loaded
      BY DEF Finish, Shape, Requested, LiveAt, Flying
    <2>3. Requested'
      BY <1>1, <2>1, <2>2, MovedRequests DEF Shape, Ends
    <2>4. route = 0 /\ StoredLive => StoredLive'
      <3> SUFFICES ASSUME route = 0, StoredLive PROVE StoredLive'
        OBVIOUS
      <3>1. PICK j \in DOMAIN reqs : reqs[j].live /\ reqs[j].st = "stored"
        BY DEF StoredLive
      <3>2. j # i
        BY <1>4, <3>1
      <3>3. reqs'[j] = reqs[j] /\ j \in DOMAIN reqs'
        BY <2>1, <3>2, MovesRequest DEF Ends
      <3> QED
        BY <3>1, <3>3 DEF StoredLive
    <2>5. Mounted'
      BY <1>1, <2>1, <2>2 DEF Shape, Mounted
    <2>6. Named'
      BY <1>1, <2>1 DEF Shape, Named, Creating, Source
    <2>7. Created'
      BY <1>1, <2>1, <2>4 DEF Shape, Created
    <2> QED
      BY <2>3, <2>5, <2>6, <2>7 DEF Shape
  <1> QED
    BY <1>3, <1>4

\* The server saves: the shape is kept.
LEMMA save_positionShape ==
  ASSUME EditorTypeOK, EditorTypeOK', Shape, NEW i \in DOMAIN reqs, save_position(i)
  PROVE  Shape'
  <1>1. /\ UNCHANGED <<world, page, route, canvas, ed, timer, load, probe>>
        /\ reqs[i].st = "sent"
    BY DEF save_position, store
  <1>2. Mounted'
    BY <1>1 DEF Shape, Mounted
  <1>3. CASE reqs' = [reqs EXCEPT ![i].st = "conflict"] /\ UNCHANGED <<rows, known>>
    <2>1. Requested' /\ (StoredLive => StoredLive')
      BY <1>1, <1>3, MovedRequests DEF Shape, Ends, Flying
    <2>2. Named'
      BY <1>1, <1>3 DEF Shape, Named, Creating, Source
    <2>3. Created'
      BY <1>1, <2>1 DEF Shape, Created
    <2> QED
      BY <1>2, <2>1, <2>2, <2>3 DEF Shape
  <1>4. ASSUME NEW id \in Nat, NEW ver \in Nat, NEW r \in RowList, Put(i, id, ver, r),
               id \in DOMAIN rows \/ id = Len(rows) + 1
        PROVE  Shape'
    <2>1. /\ rows' \in Seq(RowList) /\ DOMAIN rows \subseteq DOMAIN rows'
          /\ id \in DOMAIN rows'
          /\ DOMAIN reqs' = DOMAIN reqs
          /\ \A j \in DOMAIN reqs : j # i => reqs'[j] = reqs[j]
          /\ reqs'[i].st = "ok" /\ reqs'[i].id = id
          /\ reqs'[i].saved = reqs[i].saved
          /\ reqs'[i].live = reqs[i].live /\ reqs'[i].here = reqs[i].here
      BY <1>4, PutEffect
    <2>2. \A j \in DOMAIN reqs : LiveAt(j)' <=> LiveAt(j)
      BY <1>1, <2>1 DEF LiveAt, Flying
    <2>3. Requested'
      <3>1. \A j \in DOMAIN reqs' :
              /\ reqs'[j].live => reqs'[j].here
              /\ reqs'[j].st \in {"ok", "stored"} => reqs'[j].id \in DOMAIN rows'
        BY <2>1 DEF Shape, Requested
      <3>2. \A j \in DOMAIN reqs' :
              LiveAt(j)' => /\ ed'.loaded /\ ed'.busy
                            /\ route' = 0 => reqs'[j].saved = NoRow
        BY <1>1, <2>1, <2>2 DEF Shape, Requested
      <3>3. \A j, k \in DOMAIN reqs' : LiveAt(j)' /\ LiveAt(k)' => j = k
        BY <2>1, <2>2 DEF Shape, Requested
      <3> QED
        BY <3>1, <3>2, <3>3 DEF Requested
    <2>4. StoredLive => StoredLive'
      BY <1>1, <2>1 DEF StoredLive
    <2>5. rows' # <<>>
      BY <2>1
    <2>6. Named'
      BY <1>1, <2>5 DEF Shape, Named, Creating, Source
    <2>7. Created'
      BY <1>1, <2>4 DEF Shape, Created
    <2> QED
      BY <1>2, <2>3, <2>6, <2>7 DEF Shape
  <1> QED
    BY <1>3, <1>4, save_positionCases

\* At the start: the shape is kept.
LEMMA EditorInitShape ==
  ASSUME EditorInit
  PROVE  EditorTypeOK /\ Shape
  <1> DEFINE o == CHOOSE d \in Theirs : TRUE
             r == [ver |-> 1, design |-> o, by |-> "init"]
  <1>1. o \in Theirs
    BY EditorAssumption
  <1>2. r \in RowList
    BY <1>1 DEF RowList, Designs
  <1>3. rows = IF world.mode = "new" THEN <<>> ELSE <<r>>
    BY DEF EditorInit
  <1> HIDE DEF r
  <1>4. /\ rows \in Seq(RowList) /\ Len(rows) = IF world.mode = "new" THEN 0 ELSE 1
    BY <1>2, <1>3
  <1>5. /\ world \in Worlds /\ world.saves \in Nat
    BY EditorAssumption DEF EditorInit, TabWorlds
  <1>6. route \in 0..Len(rows)
    BY <1>4 DEF EditorInit
  <1>7. /\ canvas \in Designs /\ settled \in Designs /\ ed \in Workspaces
        /\ load \in Retrieves /\ probe \in Retrieves
    BY DEF EditorInit, Designs, Fresh, Workspaces, Tokens, Retrieves
  <1>8. /\ past \in Seq(Designs) /\ future \in Seq(Designs) /\ reqs \in Seq(Requests)
        /\ Len(past) + Len(future) <= HistoryLimit /\ Len(reqs) <= world.saves
    BY <1>5, EditorAssumption DEF EditorInit
  <1>9. count \in [edits : Nat, others : Nat, visits : Nat, reloads : Nat]
    BY DEF EditorInit
  <1>10. EditorTypeOK
    <2>1. /\ page \in {"gone", "open"} /\ calc \subseteq Mine \cup Theirs
          /\ draft \in Designs \cup {Nothing} /\ edit \in Designs \cup {Nothing}
          /\ timer \in BOOLEAN /\ touched \in BOOLEAN /\ known \subseteq Nat \X Nat
      BY DEF EditorInit
    <2> QED
      BY <1>4, <1>5, <1>6, <1>7, <1>8, <1>9, <2>1 DEF EditorTypeOK, Workspaces, RowList
  <1>11. Mounted /\ Created
    BY DEF EditorInit, Mounted, Created, Fresh
  <1>12. Named
    BY <1>3, <1>4 DEF EditorInit, Named, Creating
  <1>13. Requested
    BY DEF EditorInit, Requested
  <1> QED
    BY <1>10, <1>11, <1>12, <1>13 DEF Shape

\* What a step of the editor may be, with the names of EditorNext's parts.
LEMMA EditorStep ==
  ASSUME EditorTypeOK, EditorNext
  PROVE  \/ OpenEditor \/ ServerReads \/ Loaded \/ LoadFails \/ RetryLoad \/ LoadSaved
         \/ \E d \in Designs : Edit(d)
         \/ Undo \/ Redo \/ DesignSettles \/ Calculated \/ WriteDraft \/ Save
         \/ Restore \/ DropOffer \/ Confirm \/ ProbeReads \/ ProbeAnswers
         \/ Leave \/ Refresh \/ OtherSaves
         \/ \E i \in DOMAIN reqs :
              \/ save_position(i) \/ refuse_position(i) \/ Lose(i) \/ Ignored(i)
              \/ Stored(i) \/ Finish(i) \/ Failed(i)
  <1>1. world.draws \subseteq Designs
    BY EditorAssumption DEF EditorTypeOK, TabWorlds, Designs
  <1> QED
    BY <1>1 DEF EditorNext, Arrives

\* Every step keeps the types and the shape.
LEMMA ShapeNext ==
  ASSUME EditorTypeOK, Shape, [EditorNext]_editorVars
  PROVE  EditorTypeOK' /\ Shape'
  <1>1. CASE OpenEditor
    BY <1>1, OpenEditorTypes, OpenEditorShape DEF Shape
  <1>2. CASE ServerReads
    BY <1>2, ServerReadsTypes, ServerReadsShape DEF Shape
  <1>3. CASE Loaded
    BY <1>3, LoadedTypes, LoadedShape DEF Shape
  <1>4. CASE LoadFails
    BY <1>4, LoadFailsTypes, LoadFailsShape DEF Shape
  <1>5. CASE RetryLoad
    BY <1>5, RetryLoadTypes, RetryLoadShape DEF Shape
  <1>6. CASE LoadSaved
    BY <1>6, LoadSavedTypes, LoadSavedShape DEF Shape
  <1>7. CASE Undo
    BY <1>7, UndoTypes, UndoShape DEF Shape
  <1>8. CASE Redo
    BY <1>8, RedoTypes, RedoShape DEF Shape
  <1>9. CASE DesignSettles
    BY <1>9, DesignSettlesTypes, DesignSettlesShape DEF Shape
  <1>10. CASE Calculated
    BY <1>10, CalculatedTypes, CalculatedShape DEF Shape
  <1>11. CASE WriteDraft
    BY <1>11, WriteDraftTypes, WriteDraftShape DEF Shape
  <1>12. CASE Save
    BY <1>12, SaveTypes, SaveShape DEF Shape
  <1>13. CASE Restore
    BY <1>13, RestoreTypes, RestoreShape DEF Shape
  <1>14. CASE DropOffer
    BY <1>14, DropOfferTypes, DropOfferShape DEF Shape
  <1>15. CASE Confirm
    BY <1>15, ConfirmTypes, ConfirmShape DEF Shape
  <1>16. CASE ProbeReads
    BY <1>16, ProbeReadsTypes, ProbeReadsShape DEF Shape
  <1>17. CASE ProbeAnswers
    BY <1>17, ProbeAnswersTypes, ProbeAnswersShape DEF Shape
  <1>18. CASE Leave
    BY <1>18, LeaveTypes, LeaveShape DEF Shape
  <1>19. CASE Refresh
    BY <1>19, RefreshTypes, RefreshShape DEF Shape
  <1>20. CASE OtherSaves
    BY <1>20, OtherSavesTypes, OtherSavesShape DEF Shape
  <1>21. ASSUME NEW d \in Designs, Edit(d) PROVE EditorTypeOK' /\ Shape'
    BY <1>21, EditTypes, EditShape
  <1>22. ASSUME NEW i \in DOMAIN reqs, save_position(i) PROVE EditorTypeOK' /\ Shape'
    BY <1>22, save_positionTypes, save_positionShape
  <1>23. ASSUME NEW i \in DOMAIN reqs, refuse_position(i) PROVE EditorTypeOK' /\ Shape'
    BY <1>23, refuse_positionTypes, refuse_positionShape
  <1>24. ASSUME NEW i \in DOMAIN reqs, Lose(i) PROVE EditorTypeOK' /\ Shape'
    BY <1>24, LoseTypes, LoseShape
  <1>25. ASSUME NEW i \in DOMAIN reqs, Ignored(i) PROVE EditorTypeOK' /\ Shape'
    BY <1>25, IgnoredTypes, IgnoredShape
  <1>26. ASSUME NEW i \in DOMAIN reqs, Stored(i) PROVE EditorTypeOK' /\ Shape'
    BY <1>26, StoredTypes, StoredShape DEF Shape, Requested, Stored
  <1>27. ASSUME NEW i \in DOMAIN reqs, Finish(i) PROVE EditorTypeOK' /\ Shape'
    BY <1>27, FinishTypes, FinishShape DEF Shape, Requested, Finish
  <1>28. ASSUME NEW i \in DOMAIN reqs, Failed(i) PROVE EditorTypeOK' /\ Shape'
    BY <1>28, FailedTypes, FailedShape
  <1>29. CASE UNCHANGED editorVars
    BY <1>29 DEF editorVars, EditorTypeOK, Tokens, Retrieves, Requests, Shape, Mounted,
       Named, Created, Requested, Creating, Source, StoredLive, LiveAt, Flying
  <1> QED
    BY <1>1, <1>2, <1>3, <1>4, <1>5, <1>6, <1>7, <1>8, <1>9, <1>10, <1>11,
       <1>12, <1>13, <1>14, <1>15, <1>16, <1>17, <1>18, <1>19, <1>20, <1>21,
       <1>22, <1>23, <1>24, <1>25, <1>26, <1>27, <1>28, <1>29, EditorStep

-----------------------------------------------------------------------------
(* PositionEditor: the tokens.                                            *)

\* A token that names a version that was on the canvas or saved from it.
Seen(t) == t = NoRow \/ <<t.id, t.ver>> \in known

\* The token a save was sent with, and the version it stored, were shown or
\* saved here.
Kept(q) == Seen(q.saved) /\ (q.st \in {"ok", "stored"} => <<q.id, q.ver>> \in known)

\* Without the measurements panel, every token the tab holds or sent is of a
\* version that was on its canvas or saved from it.
TokensSeen ==
  ~ world.measures =>
    /\ probe = NoRetrieve /\ Seen(ed.saved)
    /\ \A i \in DOMAIN reqs : Kept(reqs[i])

\* Tokens that do not change, or are dropped, stay seen.
LEMMA SeenStays ==
  ASSUME TokensSeen, UNCHANGED <<world, known>>,
         probe' \in {probe, NoRetrieve}, ed'.saved \in {ed.saved, NoRow},
         DOMAIN reqs' = DOMAIN reqs,
         \A i \in DOMAIN reqs :
           /\ reqs'[i].saved = reqs[i].saved /\ reqs'[i].id = reqs[i].id
           /\ reqs'[i].ver = reqs[i].ver
           /\ reqs'[i].st \in {"ok", "stored"} => reqs[i].st \in {"ok", "stored"}
  PROVE  TokensSeen'
  BY DEF TokensSeen, Kept, Seen

\* The server answers a retrieve: every token was still shown here.
LEMMA ServerReadsSeen ==
  ASSUME TokensSeen, ServerReads
  PROVE  TokensSeen'
  BY SeenStays DEF ServerReads

\* A retrieve fails: every token was still shown here.
LEMMA LoadFailsSeen ==
  ASSUME TokensSeen, LoadFails
  PROVE  TokensSeen'
  BY SeenStays DEF LoadFails

\* The draft is written: every token was still shown here.
LEMMA WriteDraftSeen ==
  ASSUME TokensSeen, WriteDraft
  PROVE  TokensSeen'
  BY SeenStays DEF WriteDraft

\* Somebody else saves: every token was still shown here.
LEMMA OtherSavesSeen ==
  ASSUME TokensSeen, OtherSaves
  PROVE  TokensSeen'
  BY SeenStays DEF OtherSaves

\* The user goes back: every token was still shown here.
LEMMA UndoSeen ==
  ASSUME EditorTypeOK, TokensSeen, Undo
  PROVE  TokensSeen'
  BY SeenStays, UndoEffect DEF Undo, SameBase

\* The user goes forward again: every token was still shown here.
LEMMA RedoSeen ==
  ASSUME EditorTypeOK, TokensSeen, Redo
  PROVE  TokensSeen'
  BY SeenStays, RedoEffect DEF Redo, SameBase

\* The pause of the calculation ends: every token was still shown here.
LEMMA DesignSettlesSeen ==
  ASSUME EditorTypeOK, TokensSeen, DesignSettles
  PROVE  TokensSeen'
  BY SeenStays, DesignSettlesEffect DEF DesignSettles, SameBase

\* The engine answers: every token was still shown here.
LEMMA CalculatedSeen ==
  ASSUME EditorTypeOK, TokensSeen, Calculated
  PROVE  TokensSeen'
  BY SeenStays, CalculatedEffect DEF Calculated, SameBase

\* The offered draft is discarded: every token was still shown here.
LEMMA DropOfferSeen ==
  ASSUME EditorTypeOK, TokensSeen, DropOffer
  PROVE  TokensSeen'
  BY SeenStays, DropOfferEffect DEF DropOffer, SameBase

\* The offered draft is put on the canvas: every token was still shown here.
LEMMA RestoreSeen ==
  ASSUME EditorTypeOK, TokensSeen, Restore
  PROVE  TokensSeen'
  BY SeenStays, RestoreEffect DEF Restore, SameBase

\* The user draws: every token was still shown here.
LEMMA EditSeen ==
  ASSUME EditorTypeOK, TokensSeen, NEW d \in Designs, Edit(d)
  PROVE  TokensSeen'
  BY SeenStays, EditEffect DEF Edit, SameBase

\* The server refuses a save: every token was still shown here.
LEMMA refuse_positionSeen ==
  ASSUME EditorTypeOK, TokensSeen, NEW i \in DOMAIN reqs, refuse_position(i)
  PROVE  TokensSeen'
  <1>1. PICK s \in Ends : reqs' = [reqs EXCEPT ![i].st = s] /\ s \notin {"ok", "stored"}
    BY DEF refuse_position, Ends
  <1>2. UNCHANGED <<world, known, probe, ed>>
    BY DEF refuse_position
  <1> QED
    BY <1>1, <1>2, MovesRequest, SeenStays

\* The connection of a save fails: every token was still shown here.
LEMMA LoseSeen ==
  ASSUME EditorTypeOK, TokensSeen, NEW i \in DOMAIN reqs, Lose(i)
  PROVE  TokensSeen'
  <1>1. PICK s \in Ends : reqs' = [reqs EXCEPT ![i].st = s] /\ s \notin {"ok", "stored"}
    BY DEF Lose, Ends
  <1>2. UNCHANGED <<world, known, probe, ed>>
    BY DEF Lose
  <1> QED
    BY <1>1, <1>2, MovesRequest, SeenStays

\* The answer of a save comes after its page left: every token was still shown here.
LEMMA IgnoredSeen ==
  ASSUME EditorTypeOK, TokensSeen, NEW i \in DOMAIN reqs, Ignored(i)
  PROVE  TokensSeen'
  <1>1. PICK s \in Ends : reqs' = [reqs EXCEPT ![i].st = s] /\ s \notin {"ok", "stored"}
    BY DEF Ignored, Ends
  <1>2. UNCHANGED <<world, known, probe, ed>>
    BY DEF Ignored
  <1> QED
    BY <1>1, <1>2, MovesRequest, SeenStays

\* A save failed: every token was still shown here.
LEMMA FailedSeen ==
  ASSUME EditorTypeOK, TokensSeen, NEW i \in DOMAIN reqs, Failed(i)
  PROVE  TokensSeen'
  <1>1. reqs' = [reqs EXCEPT ![i].st = "over"] /\ UNCHANGED <<world, known, probe>>
    BY DEF Failed
  <1>2. ed'.saved = ed.saved
    BY FailedEffect DEF SameBase
  <1> QED
    BY <1>1, <1>2, MovesRequest, SeenStays DEF Ends

\* A stored save ends: every token was still shown here.
LEMMA FinishSeen ==
  ASSUME EditorTypeOK, TokensSeen, NEW i \in DOMAIN reqs, Finish(i)
  PROVE  TokensSeen'
  <1>1. UNCHANGED <<world, known>>
    BY DEF Finish
  <1>2. CASE reqs[i].live /\ route = 0
    <2>1. ed' = Fresh /\ probe' = NoRetrieve
      BY <1>2, MovesOn
    <2>2. ed'.saved = NoRow
      BY <2>1 DEF Fresh
    <2>3. /\ DOMAIN reqs' = DOMAIN reqs
          /\ \A j \in DOMAIN reqs :
               /\ reqs'[j].saved = reqs[j].saved /\ reqs'[j].id = reqs[j].id
               /\ reqs'[j].ver = reqs[j].ver
               /\ reqs'[j].st = reqs[j].st \/ reqs'[j].st = "over"
      BY <1>2, MovesOn
    <2> QED
      BY <1>1, <2>1, <2>2, <2>3, SeenStays
  <1>3. CASE ~ (reqs[i].live /\ route = 0)
    BY <1>1, <1>3, SaveEnds, MovesRequest, SeenStays DEF Ends, SameBase
  <1> QED
    BY <1>2, <1>3

\* A save was stored: every token was still shown here.
LEMMA StoredSeen ==
  ASSUME EditorTypeOK, Requested, TokensSeen, NEW i \in DOMAIN reqs, Stored(i)
  PROVE  TokensSeen'
  <1>1. /\ reqs' = [reqs EXCEPT ![i].st = "stored"] /\ UNCHANGED <<world, known, probe>>
        /\ reqs[i].st = "ok"
    BY DEF Stored
  <1>2. ed'.saved = [id |-> reqs[i].id, ver |-> reqs[i].ver]
    BY <1>1, StoredEffect DEF Requested
  <1>3. ~ world.measures => Seen(ed.saved)'
    <2>1. ed'.saved.id = reqs[i].id /\ ed'.saved.ver = reqs[i].ver
      BY <1>2
    <2>2. ~ world.measures => <<reqs[i].id, reqs[i].ver>> \in known
      BY <1>1 DEF TokensSeen, Kept
    <2> QED
      BY <1>1, <2>1, <2>2 DEF Seen
  <1>4. ~ world.measures => \A j \in DOMAIN reqs' : Kept(reqs[j])'
    BY <1>1, MovesRequest DEF TokensSeen, Kept, Seen, Ends
  <1> QED
    BY <1>1, <1>3, <1>4 DEF TokensSeen

\* A save leaves: every token was still shown here.
LEMMA SaveSeen ==
  ASSUME EditorTypeOK, TokensSeen, Save
  PROVE  TokensSeen'
  <1>1. UNCHANGED <<world, known, probe>> /\ ed'.saved = ed.saved
    BY SaveSends DEF Save, SameBase
  <1>2. Sent.saved = ed.saved /\ Sent.st = "sent"
    BY DEF Sent
  <1>3. \A j \in DOMAIN reqs' : j \in DOMAIN reqs \/ j = Len(reqs) + 1
    BY SaveSends
  <1>4. ~ world.measures => \A j \in DOMAIN reqs' : Kept(reqs[j])'
    BY <1>1, <1>2, <1>3, SaveSends DEF TokensSeen, Kept, Seen
  <1> QED
    BY <1>1, <1>4 DEF TokensSeen, Seen

\* The server saves: every token was still shown here.
LEMMA save_positionSeen ==
  ASSUME EditorTypeOK, TokensSeen, NEW i \in DOMAIN reqs, save_position(i)
  PROVE  TokensSeen'
  <1>1. UNCHANGED <<world, probe, ed>> /\ reqs[i].st = "sent"
    BY DEF save_position
  <1>2. CASE reqs' = [reqs EXCEPT ![i].st = "conflict"] /\ UNCHANGED <<rows, known>>
    BY <1>1, <1>2, MovesRequest, SeenStays DEF Ends
  <1>3. ASSUME NEW id \in Nat, NEW ver \in Nat, NEW r \in RowList, Put(i, id, ver, r),
               id \in DOMAIN rows \/ id = Len(rows) + 1
        PROVE  TokensSeen'
    <2>1. known' = known \cup {<<id, ver>>}
      BY <1>3 DEF Put
    <2>2. /\ rows' \in Seq(RowList) /\ DOMAIN rows \subseteq DOMAIN rows'
          /\ id \in DOMAIN rows'
          /\ DOMAIN reqs' = DOMAIN reqs
          /\ \A j \in DOMAIN reqs : j # i => reqs'[j] = reqs[j]
          /\ reqs'[i].st = "ok" /\ reqs'[i].id = id
          /\ reqs'[i].saved = reqs[i].saved
          /\ reqs'[i].live = reqs[i].live /\ reqs'[i].here = reqs[i].here
      BY <1>3, PutEffect
    <2>3. <<reqs'[i].id, reqs'[i].ver>> \in known'
      BY <1>3, PutEffect
    <2> QED
      BY <1>1, <2>1, <2>2, <2>3 DEF TokensSeen, Kept, Seen
  <1> QED
    BY <1>2, <1>3, save_positionCases

\* A retrieve fills the editor: every token was still shown here.
LEMMA LoadedSeen ==
  ASSUME EditorTypeOK, Named, TokensSeen, Loaded
  PROVE  TokensSeen'
  <1>1. /\ UNCHANGED <<world, reqs, probe>> /\ known' = known \cup {<<load.id, load.ver>>}
    BY DEF Loaded
  <1>2. ed'.saved = IF route = 0 THEN NoRow ELSE [id |-> route, ver |-> load.ver]
    BY LoadedEffect
  <1>3. route # 0 => load.id = route
    BY ReadTypes DEF Loaded, Named, Source, EditorTypeOK
  <1>4. Seen(ed.saved)'
    BY <1>1, <1>2, <1>3 DEF Seen
  <1> QED
    BY <1>1, <1>4 DEF TokensSeen, Kept, Seen

\* The page opens: every token was still shown here.
LEMMA OpenEditorSeen ==
  ASSUME EditorTypeOK, TokensSeen, OpenEditor
  PROVE  TokensSeen'
  <1>1. UNCHANGED <<world, known, probe, reqs>>
    BY DEF OpenEditor
  <1>2. ed'.saved \in {ed.saved, NoRow}
    <2>1. CASE Creating
      BY <2>1, StartsEffect DEF Starts
    <2>2. CASE ~ Creating
      BY <2>2 DEF OpenEditor, Creating
    <2> QED
      BY <2>1, <2>2
  <1> QED
    BY <1>1, <1>2, SeenStays

\* The error screen asks again: every token was still shown here.
LEMMA RetryLoadSeen ==
  ASSUME EditorTypeOK, TokensSeen, RetryLoad
  PROVE  TokensSeen'
  BY CleansRequests, SeenStays DEF RetryLoad

\* The conflict banner reloads the saved window: every token was still shown here.
LEMMA LoadSavedSeen ==
  ASSUME EditorTypeOK, TokensSeen, LoadSaved
  PROVE  TokensSeen'
  BY CleansRequests, LoadSavedEffect, SeenStays DEF LoadSaved, SameBase

\* The user leaves the page: every token was still shown here.
LEMMA LeaveSeen ==
  ASSUME EditorTypeOK, TokensSeen, Leave
  PROVE  TokensSeen'
  BY CleansRequests, SeenStays DEF Leave, Unmount, Fresh

\* The user refreshes the page: every token was still shown here.
LEMMA RefreshSeen ==
  ASSUME EditorTypeOK, TokensSeen, Refresh
  PROVE  TokensSeen'
  BY CleansRequests, SeenStays DEF Refresh, Unmount, Fresh

\* The measurements are confirmed: every token was still shown here.
LEMMA ConfirmSeen ==
  ASSUME TokensSeen, Confirm
  PROVE  TokensSeen'
  BY DEF TokensSeen, Confirm

\* The server answers the measurements: every token was still shown here.
LEMMA ProbeReadsSeen ==
  ASSUME EditorTypeOK, TokensSeen, ProbeReads
  PROVE  TokensSeen'
  <1>1. probe # NoRetrieve /\ UNCHANGED world
    BY ReadTypes DEF ProbeReads, EditorTypeOK
  <1> QED
    BY <1>1 DEF TokensSeen

\* The measurements bring a token: every token was still shown here.
LEMMA ProbeAnswersSeen ==
  ASSUME EditorTypeOK, TokensSeen, ProbeAnswers
  PROVE  TokensSeen'
  <1>1. probe # NoRetrieve /\ UNCHANGED world
    BY ReadTypes DEF ProbeAnswers, EditorTypeOK
  <1> QED
    BY <1>1 DEF TokensSeen

\* Every step keeps that.
LEMMA SeenNext ==
  ASSUME EditorTypeOK, Shape, TokensSeen, [EditorNext]_editorVars
  PROVE  TokensSeen'
  <1>1. CASE OpenEditor
    BY <1>1, OpenEditorSeen
  <1>2. CASE ServerReads
    BY <1>2, ServerReadsSeen
  <1>3. CASE Loaded
    BY <1>3, LoadedSeen DEF Shape
  <1>4. CASE LoadFails
    BY <1>4, LoadFailsSeen
  <1>5. CASE RetryLoad
    BY <1>5, RetryLoadSeen
  <1>6. CASE LoadSaved
    BY <1>6, LoadSavedSeen
  <1>7. CASE Undo
    BY <1>7, UndoSeen
  <1>8. CASE Redo
    BY <1>8, RedoSeen
  <1>9. CASE DesignSettles
    BY <1>9, DesignSettlesSeen
  <1>10. CASE Calculated
    BY <1>10, CalculatedSeen
  <1>11. CASE WriteDraft
    BY <1>11, WriteDraftSeen
  <1>12. CASE Save
    BY <1>12, SaveSeen
  <1>13. CASE Restore
    BY <1>13, RestoreSeen
  <1>14. CASE DropOffer
    BY <1>14, DropOfferSeen
  <1>15. CASE Confirm
    BY <1>15, ConfirmSeen
  <1>16. CASE ProbeReads
    BY <1>16, ProbeReadsSeen
  <1>17. CASE ProbeAnswers
    BY <1>17, ProbeAnswersSeen
  <1>18. CASE Leave
    BY <1>18, LeaveSeen
  <1>19. CASE Refresh
    BY <1>19, RefreshSeen
  <1>20. CASE OtherSaves
    BY <1>20, OtherSavesSeen
  <1>21. ASSUME NEW d \in Designs, Edit(d) PROVE TokensSeen'
    BY <1>21, EditSeen
  <1>22. ASSUME NEW i \in DOMAIN reqs, save_position(i) PROVE TokensSeen'
    BY <1>22, save_positionSeen
  <1>23. ASSUME NEW i \in DOMAIN reqs, refuse_position(i) PROVE TokensSeen'
    BY <1>23, refuse_positionSeen
  <1>24. ASSUME NEW i \in DOMAIN reqs, Lose(i) PROVE TokensSeen'
    BY <1>24, LoseSeen
  <1>25. ASSUME NEW i \in DOMAIN reqs, Ignored(i) PROVE TokensSeen'
    BY <1>25, IgnoredSeen
  <1>26. ASSUME NEW i \in DOMAIN reqs, Stored(i) PROVE TokensSeen'
    BY <1>26, StoredSeen DEF Shape
  <1>27. ASSUME NEW i \in DOMAIN reqs, Finish(i) PROVE TokensSeen'
    BY <1>27, FinishSeen
  <1>28. ASSUME NEW i \in DOMAIN reqs, Failed(i) PROVE TokensSeen'
    BY <1>28, FailedSeen
  <1>29. CASE UNCHANGED editorVars
    BY <1>29 DEF editorVars, TokensSeen, Kept, Seen
  <1> QED
    BY <1>1, <1>2, <1>3, <1>4, <1>5, <1>6, <1>7, <1>8, <1>9, <1>10, <1>11,
       <1>12, <1>13, <1>14, <1>15, <1>16, <1>17, <1>18, <1>19, <1>20, <1>21,
       <1>22, <1>23, <1>24, <1>25, <1>26, <1>27, <1>28, <1>29, EditorStep

\* At the start: every token was still shown here.
LEMMA EditorInitSeen ==
  ASSUME EditorInit
  PROVE  TokensSeen
  BY DEF EditorInit, TokensSeen, Seen, Fresh

\* Only save_position writes a row in this tab's name, and the row is the one of
\* the token it compared.
LEMMA WritesSeen ==
  ASSUME EditorTypeOK, TokensSeen, [EditorNext]_editorVars, ~ world.measures,
         NEW k \in DOMAIN rows, rows'[k] # rows[k], rows'[k].by = "me"
  PROVE  <<k, rows[k].ver>> \in known
  <1>1. ASSUME NEW i \in DOMAIN reqs, save_position(i)
        PROVE  <<k, rows[k].ver>> \in known
    <2>1. ASSUME NEW id \in Nat, NEW ver \in Nat, NEW r \in RowList, Put(i, id, ver, r),
                 \/ id = Len(rows) + 1
                 \/ /\ id \in DOMAIN rows /\ reqs[i].saved # NoRow
                    /\ id = reqs[i].saved.id /\ rows[id].ver = reqs[i].saved.ver
          PROVE  <<k, rows[k].ver>> \in known
      <3>1. /\ \A j \in DOMAIN rows' : j # id => rows'[j] = rows[j]
            /\ DOMAIN rows \subseteq DOMAIN rows'
        BY <2>1, PutEffect
      <3>2. k = id
        BY <3>1
      <3>3. id # Len(rows) + 1
        <4>1. DOMAIN rows = 1..Len(rows) /\ Len(rows) \in Nat
          BY RowTypes, LenProperties
        <4> QED
          BY <3>2, <4>1
      <3> QED
        BY <2>1, <3>2, <3>3 DEF TokensSeen, Kept, Seen
    <2> QED
      BY <1>1, <2>1, save_positionCases
  <1>2. CASE OtherSaves
    BY <1>2, OtherSavesEffect
  <1>3. CASE UNCHANGED rows
    BY <1>3
  <1>4. EditorNext => \/ UNCHANGED rows \/ OtherSaves
                     \/ \E i \in DOMAIN reqs : save_position(i)
    BY EditorStep
    DEF OpenEditor, ServerReads, Loaded, LoadFails, RetryLoad, LoadSaved, Edit,
       Undo, Redo, DesignSettles, Calculated, WriteDraft, Save, Restore, DropOffer, Confirm,
       ProbeReads, ProbeAnswers, Leave, Refresh, refuse_position, Lose, Ignored, Stored,
       Finish, Failed
  <1>5. UNCHANGED editorVars => UNCHANGED rows
    BY DEF editorVars
  <1> QED
    BY <1>1, <1>2, <1>3, <1>4, <1>5

-----------------------------------------------------------------------------
(* PositionEditor: where the newest edit is.                              *)

\* What is saved, loaded or sent was drawn.
AllDrawn ==
  /\ \A i \in DOMAIN rows : rows[i].design \in Drawn
  /\ load.st = "read" => load.design \in Drawn
  /\ \A i \in DOMAIN reqs : reqs[i].design \in Drawn
  /\ ed.baseline \in Drawn \cup {NewWindow, Nothing}
  /\ ed.result \in {Nothing} \cup ({canvas} \cap Drawn)

\* Where the newest edit is: on the canvas or on offer, or in the draft while
\* the design is not there.
InHand ==
  /\ ed.loaded /\ ~ Loading => edit \in {Nothing, canvas, ed.pending}
  /\ ed.loaded /\ ~ Loading /\ edit # Nothing => edit # ed.baseline
  /\ ed.loaded /\ Loading => canvas = Empty /\ ed.pending = Nothing
  /\ ~ ed.loaded \/ Loading => edit \in {Nothing, draft}

\* When the draft is written, and what it may be.
Drafted ==
  /\ timer => Dirty
  /\ ~ touched => ed.conflict /\ canvas \in {draft, ed.baseline}
  /\ Creating => draft # NewWindow /\ (ed.loaded => ed.baseline = NewWindow \/ StoredLive)

\* A save in flight is of what the canvas shows.
Sending ==
  \A i \in DOMAIN reqs : LiveAt(i) =>
    /\ ~ Loading /\ canvas = reqs[i].design
    /\ reqs[i].st = "stored" => ed.baseline = canvas
    /\ route = 0 => ed.pending = Nothing

\* Where the newest edit of a patient user is, at every moment.
AtHand == AllDrawn /\ InHand /\ Drafted /\ Sending

\* The empty canvas, the new window and no design are not designs of anybody.
LEMMA DrawnIsNotSpecial ==
  /\ Empty \notin Drawn /\ NewWindow \notin Drawn /\ Nothing \notin Drawn
  /\ Nothing \notin Designs /\ Empty # NewWindow /\ Empty # Nothing /\ NewWindow # Nothing
  BY EditorAssumption DEF Drawn, Designs, Empty, NewWindow, Nothing

\* The user draws: no save is in flight and the design is there.
LEMMA DrawingHeld ==
  ASSUME EditorTypeOK, EditorTypeOK', Shape, AtHand,
         UNCHANGED <<world, rows, route, load, reqs>>,
         ed.loaded, ~ Loading, \A i \in DOMAIN reqs : ~ LiveAt(i),
         ed'.loaded = ed.loaded, ed'.baseline = ed.baseline, touched', Timed, DraftOr(draft),
         Evaluated \/ (ed'.result = ed.result /\ canvas' = canvas),
         edit' = IF ed.baseline # Nothing /\ canvas' = ed.baseline THEN Nothing ELSE canvas'
  PROVE  AtHand'
  <1>1. AllDrawn'
    <2>1. calc' \subseteq Drawn
      BY DEF EditorTypeOK, Drawn
    <2> QED
      BY <2>1 DEF AtHand, AllDrawn, Evaluated
  <1>2. InHand'
    BY DEF InHand, Loading
  <1>3. Drafted'
    <2>1. timer' => Dirty'
      BY DEF AtHand, Drafted, Timed, Dirty
    <2>2. Creating' => draft' # NewWindow
      BY DrawnIsNotSpecial DEF AtHand, Drafted, DraftOr, Creating
    <2>3. Creating' => ed'.baseline = NewWindow \/ StoredLive'
      BY DEF AtHand, Drafted, Creating, StoredLive
    <2> QED
      BY <2>1, <2>2, <2>3 DEF Drafted
  <1>4. Sending'
    BY DEF Sending, LiveAt, Flying
  <1> QED
    BY <1>1, <1>2, <1>3, <1>4 DEF AtHand

\* The canvas and the requests stay.
LEMMA StayingHeld ==
  ASSUME EditorTypeOK, EditorTypeOK', Shape, AtHand,
         UNCHANGED <<world, rows, route, load, reqs, canvas, touched>>,
         ed'.loaded = ed.loaded, ed'.baseline = ed.baseline, ed'.conflict = ed.conflict,
         ed'.pending \in {ed.pending, Nothing}, Timed,
         Evaluated \/ ed'.result = ed.result,
         \/ DraftOr(draft) /\ edit' = edit /\ ed'.pending = ed.pending
         \/ /\ ~ Loading /\ ed.loaded /\ draft' = Nothing /\ ~ ed.conflict
            /\ edit' = IF edit = canvas THEN edit ELSE Nothing
  PROVE  AtHand'
  <1>1. AllDrawn'
    <2>1. calc' \subseteq Drawn
      BY DEF EditorTypeOK, Drawn
    <2> QED
      BY <2>1 DEF AtHand, AllDrawn, Evaluated
  <1>2. InHand'
    <2>1. Loading' = Loading
      BY DEF Loading
    <2>2. CASE ed.loaded /\ ~ Loading
      BY <2>1, <2>2 DEF InHand, AtHand
    <2>3. CASE ~ ed.loaded
      BY <2>1, <2>3 DEF InHand, AtHand, DraftOr
    <2>4. CASE ed.loaded /\ Loading
      <3>1. canvas' = Empty /\ Empty # ed.baseline
        BY <2>4, DrawnIsNotSpecial DEF AtHand, InHand, AllDrawn
      <3> QED
        BY <2>1, <2>4, <3>1 DEF InHand, AtHand, DraftOr
    <2> QED
      BY <2>2, <2>3, <2>4
  <1>3. Drafted'
    <2>1. timer' => Dirty'
      BY DEF AtHand, Drafted, Timed, Dirty
    <2>2. Creating' => draft' # NewWindow
      BY DrawnIsNotSpecial DEF AtHand, Drafted, DraftOr, Creating
    <2>3. Creating' /\ ed'.loaded => ed'.baseline = NewWindow \/ StoredLive'
      BY DEF AtHand, Drafted, Creating, StoredLive
    <2>4. ~ touched' => ed'.conflict /\ canvas' \in {draft', ed'.baseline}
      BY DEF AtHand, Drafted, DraftOr
    <2> QED
      BY <2>1, <2>2, <2>3, <2>4 DEF Drafted
  <1>4. Sending'
    BY DEF AtHand, Sending, LiveAt, Flying, Loading
  <1> QED
    BY <1>1, <1>2, <1>3, <1>4 DEF AtHand

\* The user draws: the newest edit is still at hand.
LEMMA EditHeld ==
  ASSUME EditorTypeOK, EditorTypeOK', Shape, Patient, AtHand, NEW d \in Designs, Edit(d)
  PROVE  AtHand'
  <1>1. /\ UNCHANGED <<world, rows, route, load, reqs>> /\ ed.loaded /\ ~ ed.busy
        /\ ~ Loading /\ touched'
    BY DEF Edit, Patient, Editable
  <1>2. \A i \in DOMAIN reqs : ~ LiveAt(i)
    BY <1>1 DEF Shape, Requested
  <1>3. edit' = IF ed.baseline # Nothing /\ canvas' = ed.baseline THEN Nothing ELSE canvas'
    BY DEF Edit, Newest
  <1> QED
    BY <1>1, <1>2, <1>3, EditEffect, DrawingHeld DEF SameBase

\* The user goes back: the newest edit is still at hand.
LEMMA UndoHeld ==
  ASSUME EditorTypeOK, EditorTypeOK', Shape, Patient, AtHand, Undo
  PROVE  AtHand'
  <1>1. /\ UNCHANGED <<world, rows, route, load, reqs>> /\ ed.loaded /\ ~ ed.busy
        /\ ~ Loading /\ touched'
    BY DEF Undo, Patient, Editable
  <1>2. \A i \in DOMAIN reqs : ~ LiveAt(i)
    BY <1>1 DEF Shape, Requested
  <1>3. edit' = IF ed.baseline # Nothing /\ canvas' = ed.baseline THEN Nothing ELSE canvas'
    BY DEF Undo, Newest
  <1> QED
    BY <1>1, <1>2, <1>3, UndoEffect, DrawingHeld DEF SameBase

\* The user goes forward again: the newest edit is still at hand.
LEMMA RedoHeld ==
  ASSUME EditorTypeOK, EditorTypeOK', Shape, Patient, AtHand, Redo
  PROVE  AtHand'
  <1>1. /\ UNCHANGED <<world, rows, route, load, reqs>> /\ ed.loaded /\ ~ ed.busy
        /\ ~ Loading /\ touched'
    BY DEF Redo, Patient, Editable
  <1>2. \A i \in DOMAIN reqs : ~ LiveAt(i)
    BY <1>1 DEF Shape, Requested
  <1>3. edit' = IF ed.baseline # Nothing /\ canvas' = ed.baseline THEN Nothing ELSE canvas'
    BY DEF Redo, Newest
  <1> QED
    BY <1>1, <1>2, <1>3, RedoEffect, DrawingHeld DEF SameBase

\* The offered draft is put on the canvas: the newest edit is still at hand.
LEMMA RestoreHeld ==
  ASSUME EditorTypeOK, EditorTypeOK', Shape, Patient, AtHand, Restore
  PROVE  AtHand'
  <1>1. /\ UNCHANGED <<world, rows, route, load, reqs>> /\ ed.loaded /\ ~ ed.busy
        /\ ~ Loading /\ touched'
    BY DEF Restore, Patient, Show
  <1>2. \A i \in DOMAIN reqs : ~ LiveAt(i)
    BY <1>1 DEF Shape, Requested
  <1>3. edit' = IF ed.baseline # Nothing /\ canvas' = ed.baseline THEN Nothing ELSE canvas'
    BY DEF Restore, Newest, Show
  <1> QED
    BY <1>1, <1>2, <1>3, RestoreEffect, DrawingHeld DEF SameBase

\* The pause of the calculation ends: the newest edit is still at hand.
LEMMA DesignSettlesHeld ==
  ASSUME EditorTypeOK, EditorTypeOK', Shape, Patient, AtHand, DesignSettles
  PROVE  AtHand'
  <1>1. /\ UNCHANGED <<world, rows, route, load, reqs, canvas, touched>>
    BY DEF DesignSettles, store
  <1>2. edit' = edit
    BY DEF DesignSettles
  <1> QED
    BY <1>1, <1>2, DesignSettlesEffect, StayingHeld DEF SameBase, SameFlags

\* The engine answers: the newest edit is still at hand.
LEMMA CalculatedHeld ==
  ASSUME EditorTypeOK, EditorTypeOK', Shape, Patient, AtHand, Calculated
  PROVE  AtHand'
  <1>1. /\ UNCHANGED <<world, rows, route, load, reqs, canvas, touched>>
    BY DEF Calculated, store
  <1>2. edit' = edit
    BY DEF Calculated
  <1> QED
    BY <1>1, <1>2, CalculatedEffect, StayingHeld DEF SameBase, SameFlags

\* The offered draft is discarded: the newest edit is still at hand.
LEMMA DropOfferHeld ==
  ASSUME EditorTypeOK, EditorTypeOK', Shape, Patient, AtHand, DropOffer
  PROVE  AtHand'
  <1>1. /\ UNCHANGED <<world, rows, route, load, reqs, canvas, touched>>
    BY DEF DropOffer, store
  <1>2. /\ ~ Loading /\ ed.loaded /\ ~ ed.conflict
        /\ edit' = IF edit = canvas THEN edit ELSE Nothing
    BY DEF DropOffer, Patient
  <1> QED
    BY <1>1, <1>2, DropOfferEffect, StayingHeld DEF SameBase, SameFlags

\* Nothing of the tab changes but how far its requests are.
LEMMA MovingHeld ==
  ASSUME AtHand, UNCHANGED <<world, route, load, canvas, ed, draft, timer, touched, edit>>,
         \A i \in DOMAIN rows' : rows'[i].design \in Drawn,
         DOMAIN reqs' = DOMAIN reqs, StoredLive => StoredLive',
         \A i \in DOMAIN reqs :
           /\ reqs'[i].design = reqs[i].design /\ reqs'[i].live = reqs[i].live
           /\ Flying(reqs'[i]) => Flying(reqs[i])
           /\ reqs'[i].st = "stored" => reqs[i].st = "stored"
  PROVE  AtHand'
  <1>1. AllDrawn'
    BY DEF AtHand, AllDrawn
  <1>2. InHand'
    BY DEF AtHand, InHand, Loading
  <1>3. Drafted'
    BY DEF AtHand, Drafted, Dirty, Creating
  <1>4. Sending'
    BY DEF AtHand, Sending, LiveAt, Loading
  <1> QED
    BY <1>1, <1>2, <1>3, <1>4 DEF AtHand

\* The measurements are confirmed: the newest edit is still at hand.
LEMMA ConfirmHeld ==
  ASSUME EditorTypeOK, EditorTypeOK', Shape, Patient, AtHand, Confirm
  PROVE  AtHand'
  BY MovingHeld DEF Confirm, store, AtHand, AllDrawn, StoredLive

\* The server answers the measurements: the newest edit is still at hand.
LEMMA ProbeReadsHeld ==
  ASSUME EditorTypeOK, EditorTypeOK', Shape, Patient, AtHand, ProbeReads
  PROVE  AtHand'
  BY MovingHeld DEF ProbeReads, store, AtHand, AllDrawn, StoredLive

\* Somebody else saves: the newest edit is still at hand.
LEMMA OtherSavesHeld ==
  ASSUME EditorTypeOK, EditorTypeOK', Shape, Patient, AtHand, OtherSaves
  PROVE  AtHand'
  <1>1. \A i \in DOMAIN rows' : rows'[i].design \in Drawn
    BY OtherSavesEffect DEF AtHand, AllDrawn, Drawn
  <1>2. UNCHANGED <<world, route, load, canvas, ed, draft, timer, touched, edit, reqs>>
    BY DEF OtherSaves, store
  <1> QED
    BY <1>1, <1>2, MovingHeld DEF StoredLive

\* The server refuses a save: the newest edit is still at hand.
LEMMA refuse_positionHeld ==
  ASSUME EditorTypeOK, EditorTypeOK', Shape, Patient, AtHand,
         NEW i \in DOMAIN reqs, refuse_position(i)
  PROVE  AtHand'
  <1>1. PICK s \in Ends : reqs' = [reqs EXCEPT ![i].st = s] /\ s \notin {"ok", "stored"}
    BY DEF refuse_position, Ends
  <1>2. /\ UNCHANGED <<world, rows, route, load, canvas, ed, draft, timer, touched, edit>>
        /\ Flying(reqs[i]) /\ reqs[i].st # "stored"
    BY DEF refuse_position, store, Flying
  <1>3. /\ DOMAIN reqs' = DOMAIN reqs /\ reqs'[i].st = s
        /\ \A j \in DOMAIN reqs : j # i => reqs'[j] = reqs[j]
        /\ \A j \in DOMAIN reqs :
             reqs'[j].design = reqs[j].design /\ reqs'[j].live = reqs[j].live
    BY <1>1, MovesRequest
  <1>4. StoredLive => StoredLive'
    BY <1>2, <1>3 DEF StoredLive
  <1> QED
    BY <1>1, <1>2, <1>3, <1>4, MovingHeld DEF AtHand, AllDrawn

\* The connection of a save fails: the newest edit is still at hand.
LEMMA LoseHeld ==
  ASSUME EditorTypeOK, EditorTypeOK', Shape, Patient, AtHand, NEW i \in DOMAIN reqs, Lose(i)
  PROVE  AtHand'
  <1>1. PICK s \in Ends : reqs' = [reqs EXCEPT ![i].st = s] /\ s \notin {"ok", "stored"}
    BY DEF Lose, Ends
  <1>2. /\ UNCHANGED <<world, rows, route, load, canvas, ed, draft, timer, touched, edit>>
        /\ Flying(reqs[i]) /\ reqs[i].st # "stored"
    BY DEF Lose, store, Flying
  <1>3. /\ DOMAIN reqs' = DOMAIN reqs /\ reqs'[i].st = s
        /\ \A j \in DOMAIN reqs : j # i => reqs'[j] = reqs[j]
        /\ \A j \in DOMAIN reqs :
             reqs'[j].design = reqs[j].design /\ reqs'[j].live = reqs[j].live
    BY <1>1, MovesRequest
  <1>4. StoredLive => StoredLive'
    BY <1>2, <1>3 DEF StoredLive
  <1> QED
    BY <1>1, <1>2, <1>3, <1>4, MovingHeld DEF AtHand, AllDrawn

\* The answer of a save comes after its page left: the newest edit is still at hand.
LEMMA IgnoredHeld ==
  ASSUME EditorTypeOK, EditorTypeOK', Shape, Patient, AtHand,
         NEW i \in DOMAIN reqs, Ignored(i)
  PROVE  AtHand'
  <1>1. PICK s \in Ends : reqs' = [reqs EXCEPT ![i].st = s] /\ s \notin {"ok", "stored"}
    BY DEF Ignored, Ends
  <1>2. /\ UNCHANGED <<world, rows, route, load, canvas, ed, draft, timer, touched, edit>>
        /\ Flying(reqs[i]) /\ reqs[i].st # "stored"
    BY DEF Ignored, store, Flying
  <1>3. /\ DOMAIN reqs' = DOMAIN reqs /\ reqs'[i].st = s
        /\ \A j \in DOMAIN reqs : j # i => reqs'[j] = reqs[j]
        /\ \A j \in DOMAIN reqs :
             reqs'[j].design = reqs[j].design /\ reqs'[j].live = reqs[j].live
    BY <1>1, MovesRequest
  <1>4. StoredLive => StoredLive'
    BY <1>2, <1>3 DEF StoredLive
  <1> QED
    BY <1>1, <1>2, <1>3, <1>4, MovingHeld DEF AtHand, AllDrawn

\* The server saves: the newest edit is still at hand.
LEMMA save_positionHeld ==
  ASSUME EditorTypeOK, EditorTypeOK', Shape, Patient, AtHand,
         NEW i \in DOMAIN reqs, save_position(i)
  PROVE  AtHand'
  <1>1. /\ UNCHANGED <<world, route, load, canvas, ed, draft, timer, touched, edit>>
        /\ Flying(reqs[i]) /\ reqs[i].st # "stored"
    BY DEF save_position, store, Flying
  <1> DEFINE Answer ==
        /\ DOMAIN reqs' = DOMAIN reqs /\ reqs'[i].st \in {"ok", "conflict"}
        /\ \A j \in DOMAIN reqs : j # i => reqs'[j] = reqs[j]
        /\ reqs'[i].design = reqs[i].design /\ reqs'[i].live = reqs[i].live
        /\ \A j \in DOMAIN rows' : rows'[j].design \in Drawn
  <1>2. Answer
    <2>1. CASE reqs' = [reqs EXCEPT ![i].st = "conflict"] /\ UNCHANGED <<rows, known>>
      BY <2>1, MovesRequest DEF Ends, AtHand, AllDrawn
    <2>2. ASSUME NEW id \in Nat, NEW ver \in Nat, NEW r \in RowList, Put(i, id, ver, r),
                 r.design = reqs[i].design, id \in DOMAIN rows \/ id = Len(rows) + 1
          PROVE  Answer
      <3>1. /\ DOMAIN reqs' = DOMAIN reqs /\ reqs'[i].st = "ok"
            /\ \A j \in DOMAIN reqs : j # i => reqs'[j] = reqs[j]
            /\ reqs'[i].design = reqs[i].design /\ reqs'[i].live = reqs[i].live
            /\ DOMAIN rows' = DOMAIN rows \cup {id}
            /\ \A j \in DOMAIN rows' : j # id => rows'[j] = rows[j]
        BY <2>2, PutEffect
      <3>2. rows'[id] = r
        <4>1. rows' = IF id \in DOMAIN rows THEN [rows EXCEPT ![id] = r] ELSE Append(rows, r)
          BY <2>2 DEF Put
        <4>2. rows \in Seq(RowList)
          BY RowTypes
        <4> QED
          BY <2>2, <4>1, <4>2, AppendProperties
      <3> QED
        BY <2>2, <3>1, <3>2 DEF AtHand, AllDrawn
    <2> HIDE DEF Answer
    <2> QED
      BY <2>1, <2>2, save_positionCases
  <1>3. StoredLive => StoredLive'
    BY <1>1, <1>2 DEF StoredLive
  <1> QED
    BY <1>1, <1>2, <1>3, MovingHeld

\* The server answers a retrieve: the newest edit is still at hand.
LEMMA ServerReadsHeld ==
  ASSUME EditorTypeOK, EditorTypeOK', Shape, Patient, AtHand, ServerReads
  PROVE  AtHand'
  <1>1. /\ UNCHANGED <<world, rows, route, canvas, ed, draft, timer, touched, edit, reqs>>
        /\ load.st = "sent" /\ load' = Answered(load)
    BY DEF ServerReads, store
  <1>2. load'.st = "read" /\ load.id \in DOMAIN rows /\ load'.design = rows[load.id].design
    BY <1>1, AnsweredTypes DEF EditorTypeOK
  <1>3. AllDrawn'
    BY <1>1, <1>2 DEF AtHand, AllDrawn
  <1>4. InHand'
    BY <1>1, <1>2 DEF AtHand, InHand, Loading
  <1>5. Drafted'
    BY <1>1 DEF AtHand, Drafted, Dirty, Creating, StoredLive
  <1>6. Sending'
    BY <1>1, <1>2 DEF AtHand, Sending, LiveAt, Loading, Flying
  <1> QED
    BY <1>3, <1>4, <1>5, <1>6 DEF AtHand

\* The measurements bring a token: the newest edit is still at hand.
LEMMA ProbeAnswersHeld ==
  ASSUME EditorTypeOK, EditorTypeOK', Shape, Patient, AtHand, ProbeAnswers
  PROVE  AtHand'
  <1>1. /\ UNCHANGED <<world, rows, route, canvas, load, draft, timer, touched, edit, reqs>>
        /\ ed'.loaded = ed.loaded /\ ed'.baseline = ed.baseline
        /\ ed'.conflict = ed.conflict /\ ed'.pending = ed.pending /\ ed'.result = ed.result
    BY WorkspaceTypes DEF ProbeAnswers, store, Workspaces
  <1>2. AllDrawn'
    BY <1>1 DEF AtHand, AllDrawn
  <1>3. InHand'
    BY <1>1 DEF AtHand, InHand, Loading
  <1>4. Drafted'
    BY <1>1 DEF AtHand, Drafted, Dirty, Creating, StoredLive
  <1>5. Sending'
    BY <1>1 DEF AtHand, Sending, LiveAt, Loading, Flying
  <1> QED
    BY <1>2, <1>3, <1>4, <1>5 DEF AtHand

\* The draft is written: the newest edit is still at hand.
LEMMA WriteDraftHeld ==
  ASSUME EditorTypeOK, EditorTypeOK', Shape, Patient, AtHand, WriteDraft
  PROVE  AtHand'
  <1>1. /\ UNCHANGED <<world, rows, route, canvas, ed, load, touched, edit, reqs>>
        /\ timer /\ ~ timer' /\ draft' = canvas /\ ~ Loading
    BY DEF WriteDraft, store, Patient
  <1>2. ed.loaded /\ Dirty
    BY <1>1 DEF Shape, Mounted, AtHand, Drafted
  <1>3. AllDrawn'
    BY <1>1 DEF AtHand, AllDrawn
  <1>4. InHand'
    BY <1>1, <1>2 DEF AtHand, InHand, Loading
  <1>5. Creating => canvas # NewWindow
    <2> SUFFICES ASSUME Creating PROVE canvas # NewWindow
      OBVIOUS
    <2>1. CASE ed.baseline = NewWindow
      BY <1>2, <2>1, DrawnIsNotSpecial DEF Dirty
    <2>2. CASE StoredLive
      <3>1. PICK i \in DOMAIN reqs : reqs[i].live /\ reqs[i].st = "stored"
        BY <2>2 DEF StoredLive
      <3>2. canvas = reqs[i].design
        BY <3>1 DEF AtHand, Sending, LiveAt, Flying
      <3> QED
        BY <3>2, DrawnIsNotSpecial DEF AtHand, AllDrawn
    <2> QED
      BY <1>2, <2>1, <2>2 DEF AtHand, Drafted
  <1>6. Drafted'
    BY <1>1, <1>5 DEF AtHand, Drafted, Creating, StoredLive
  <1>7. Sending'
    BY <1>1 DEF AtHand, Sending, LiveAt, Loading, Flying
  <1> QED
    BY <1>3, <1>4, <1>6, <1>7 DEF AtHand

\* A retrieve fails: the newest edit is still at hand.
LEMMA LoadFailsHeld ==
  ASSUME EditorTypeOK, EditorTypeOK', Shape, Patient, AtHand, LoadFails
  PROVE  AtHand'
  <1>1. /\ UNCHANGED <<world, rows, route, canvas, ed, draft, timer, touched, edit, reqs>>
        /\ Loading /\ load' = NoRetrieve /\ ~ ed.loaded
    BY DEF LoadFails, store, Patient
  <1>2. ~ Loading' /\ load'.st # "read"
    BY <1>1 DEF Loading, NoRetrieve
  <1>3. AllDrawn'
    BY <1>1, <1>2 DEF AtHand, AllDrawn
  <1>4. InHand'
    BY <1>1 DEF AtHand, InHand
  <1>5. Drafted'
    BY <1>1 DEF AtHand, Drafted, Dirty, Creating, StoredLive
  <1>6. Sending'
    BY <1>1, <1>2 DEF AtHand, Sending, LiveAt, Flying
  <1> QED
    BY <1>3, <1>4, <1>5, <1>6 DEF AtHand

\* The error screen asks again: the newest edit is still at hand.
LEMMA RetryLoadHeld ==
  ASSUME EditorTypeOK, EditorTypeOK', Shape, Patient, AtHand, RetryLoad
  PROVE  AtHand'
  <1>1. /\ UNCHANGED <<world, rows, route, ed, draft, timer, edit>>
        /\ load' = Asked(Source) /\ Cleanup(TRUE) /\ ~ ed.loaded /\ ~ Creating
    BY DEF RetryLoad, Shape, Named
  <1>2. load'.st # "read"
    BY <1>1, SourceNamed, AskedTypes DEF Shape
  <1>3. canvas' = Empty /\ touched' /\ ed = Fresh /\ ~ timer
    BY <1>1, EmptyShown DEF Cleanup, Shape, Mounted
  <1>4. \A i \in DOMAIN reqs' : ~ reqs'[i].live /\ reqs'[i].design \in Drawn
    BY <1>1, CleansRequests DEF AtHand, AllDrawn
  <1>5. AllDrawn'
    BY <1>1, <1>2, <1>3, <1>4 DEF AtHand, AllDrawn, Fresh
  <1>6. InHand'
    BY <1>1 DEF AtHand, InHand
  <1>7. Drafted'
    BY <1>1, <1>3 DEF Drafted, Creating
  <1>8. Sending'
    BY <1>4 DEF Sending, LiveAt
  <1> QED
    BY <1>5, <1>6, <1>7, <1>8 DEF AtHand

\* A retrieve fills the editor: the newest edit is still at hand.
LEMMA LoadedHeld ==
  ASSUME EditorTypeOK, EditorTypeOK', Shape, Patient, AtHand, Loaded
  PROVE  AtHand'
  <1>1. /\ UNCHANGED <<world, rows, route, reqs>> /\ load' = NoRetrieve /\ touched'
        /\ load.st = "read" /\ Loading /\ edit' = IF edit = load.design THEN Nothing ELSE edit
    BY DEF Loaded, Loading, Show
  <1>2. /\ ~ Loading' /\ load'.st # "read"
    BY <1>1 DEF Loading, NoRetrieve
  <1>3. /\ ed.pending = Nothing /\ edit \in {Nothing, draft} /\ load.design \in Drawn
    BY <1>1 DEF AtHand, InHand, AllDrawn, Shape, Mounted, Fresh
  <1>4. \A i \in DOMAIN reqs : ~ LiveAt(i)
    BY <1>1 DEF AtHand, Sending
  <1>5. ~ Creating
    BY <1>1 DEF Shape, Named, NoRetrieve
  <1>6. AllDrawn'
    <2>1. calc' \subseteq Drawn
      BY DEF EditorTypeOK, Drawn
    <2> QED
      BY <1>1, <1>2, <1>3, <2>1, LoadedEffect DEF AtHand, AllDrawn, Evaluated
  <1>7. InHand'
    <2>1. ed'.pending = IF draft \in {Nothing, load.design} THEN Nothing ELSE draft
      BY <1>3, LoadedEffect DEF Offer
    <2>2. ed'.baseline \in {Nothing, load.design} /\ ed'.loaded
      BY LoadedEffect
    <2> QED
      BY <1>1, <1>2, <1>3, <2>1, <2>2 DEF InHand
  <1>8. Drafted'
    BY <1>1, <1>5, LoadedEffect DEF AtHand, Drafted, Timed, Dirty, Creating
  <1>9. Sending'
    BY <1>1, <1>4 DEF Sending, LiveAt, Flying
  <1> QED
    BY <1>6, <1>7, <1>8, <1>9 DEF AtHand

\* The conflict banner reloads the saved window: the newest edit is still at hand.
LEMMA LoadSavedHeld ==
  ASSUME EditorTypeOK, EditorTypeOK', Shape, Patient, AtHand, LoadSaved
  PROVE  AtHand'
  <1>1. /\ UNCHANGED <<world, rows, route, edit>> /\ load' = Asked(Source) /\ Cleanup(TRUE)
        /\ ed.conflict /\ ~ ed.busy /\ ed.pending = Nothing
        /\ touched => canvas \in {draft, ed.baseline}
    BY DEF LoadSaved, Patient
  <1>2. ed.loaded /\ route # 0
    BY <1>1 DEF Shape, Mounted, Created, Fresh
  <1>3. /\ ed'.loaded = ed.loaded /\ ed'.baseline = ed.baseline /\ ed'.pending = Nothing
        /\ canvas' = Empty
    BY <1>1, LoadSavedEffect DEF SameBase
  <1>4. Empty # ed.baseline
    BY DrawnIsNotSpecial DEF AtHand, AllDrawn
  <1>5. draft' = draft
    BY <1>3, <1>4, LoadSavedEffect DEF DraftOr
  <1>6. edit \in {Nothing, draft}
    BY <1>1, <1>2 DEF AtHand, InHand, Drafted
  <1>7. load'.st = "sent"
    BY <1>1, <1>2, SourceNamed, AskedTypes DEF Shape, Creating
  <1>8. \A i \in DOMAIN reqs' : ~ reqs'[i].live /\ reqs'[i].design \in Drawn
    BY <1>1, CleansRequests DEF AtHand, AllDrawn
  <1>9. AllDrawn'
    <2>1. calc' \subseteq Drawn
      BY DEF EditorTypeOK, Drawn
    <2> QED
      BY <1>1, <1>3, <1>7, <1>8, <2>1, LoadSavedEffect DEF AtHand, AllDrawn, Evaluated
  <1>10. InHand'
    BY <1>1, <1>2, <1>3, <1>5, <1>6, <1>7 DEF InHand, Loading
  <1>11. Drafted'
    <2>1. touched'
      BY <1>1, EmptyShown DEF Cleanup
    <2> QED
      BY <1>1, <1>2, <1>3, <2>1, LoadSavedEffect DEF AtHand, Drafted, Timed, Dirty, Creating
  <1>12. Sending'
    BY <1>8 DEF Sending, LiveAt
  <1> QED
    BY <1>9, <1>10, <1>11, <1>12 DEF AtHand

\* A save leaves: the newest edit is still at hand.
LEMMA SaveHeld ==
  ASSUME EditorTypeOK, EditorTypeOK', Shape, Patient, AtHand, Save
  PROVE  AtHand'
  <1>1. /\ UNCHANGED <<world, rows, route, load, canvas, draft, timer, touched, edit>>
        /\ ~ Loading /\ ed.result # Nothing /\ (route = 0 => ed.pending = Nothing)
    BY DEF Save, store, Patient, SaveGuard
  <1>2. /\ ed'.loaded = ed.loaded /\ ed'.baseline = ed.baseline
        /\ ed'.conflict = ed.conflict /\ ed'.pending = ed.pending /\ ed'.result = ed.result
    BY SaveSends DEF SameBase
  <1>3. Sent.design = canvas /\ canvas \in Drawn /\ Sent.st = "sent"
    BY <1>1 DEF Sent, AtHand, AllDrawn
  <1>4. /\ \A i \in DOMAIN reqs' : i \in DOMAIN reqs \/ i = Len(reqs) + 1
        /\ \A i \in DOMAIN reqs : i \in DOMAIN reqs' /\ reqs'[i] = reqs[i]
        /\ reqs'[Len(reqs) + 1] = Sent
    BY SaveSends
  <1>5. \A i \in DOMAIN reqs : ~ LiveAt(i)
    BY DEF Save, SaveGuard, mutationLock, Shape, Requested, LiveAt
  <1>6. AllDrawn'
    BY <1>1, <1>2, <1>3, <1>4 DEF AtHand, AllDrawn
  <1>7. InHand'
    BY <1>1, <1>2 DEF AtHand, InHand, Loading
  <1>8. Drafted'
    <2>1. StoredLive => StoredLive'
      BY <1>4 DEF StoredLive
    <2> QED
      BY <1>1, <1>2, <2>1 DEF AtHand, Drafted, Dirty, Creating
  <1>9. Sending'
    <2>1. \A i \in DOMAIN reqs' : LiveAt(i)' => reqs'[i] = Sent
      BY <1>4, <1>5 DEF LiveAt
    <2> QED
      BY <1>1, <1>2, <1>3, <2>1 DEF Sending, Loading
  <1> QED
    BY <1>6, <1>7, <1>8, <1>9 DEF AtHand

\* A save was stored: the newest edit is still at hand.
LEMMA StoredHeld ==
  ASSUME EditorTypeOK, EditorTypeOK', Shape, Patient, AtHand,
         NEW i \in DOMAIN reqs, Stored(i)
  PROVE  AtHand'
  <1>1. /\ UNCHANGED <<world, rows, route, load, canvas, touched>>
        /\ reqs' = [reqs EXCEPT ![i].st = "stored"] /\ reqs[i].st = "ok" /\ reqs[i].live
        /\ edit' = IF edit = reqs[i].design THEN Nothing ELSE edit
    BY DEF Stored, store
  <1>2. LiveAt(i)
    BY <1>1 DEF LiveAt, Flying
  <1>3. /\ ~ Loading /\ canvas = reqs[i].design /\ canvas \in Drawn
        /\ route = 0 => ed.pending = Nothing
    BY <1>2 DEF AtHand, Sending, AllDrawn
  <1>4. /\ ed.loaded /\ reqs[i].id \in DOMAIN rows
        /\ \A j \in DOMAIN reqs : LiveAt(j) => j = i
    BY <1>1, <1>2 DEF Shape, Requested
  <1>5. /\ ed'.loaded = ed.loaded /\ ed'.pending = ed.pending /\ ed'.baseline = canvas
        /\ ed'.conflict = ed.conflict /\ DraftOr(draft) /\ Timed
        /\ Evaluated \/ ed'.result = canvas
    BY <1>3, <1>4, StoredEffect DEF SameFlags
  <1>6. /\ DOMAIN reqs' = DOMAIN reqs /\ reqs'[i].st = "stored"
        /\ \A j \in DOMAIN reqs : j # i => reqs'[j] = reqs[j]
        /\ \A j \in DOMAIN reqs :
             reqs'[j].design = reqs[j].design /\ reqs'[j].live = reqs[j].live
    BY <1>1, MovesRequest DEF Ends
  <1>7. AllDrawn'
    <2>1. calc' \subseteq Drawn
      BY DEF EditorTypeOK, Drawn
    <2> QED
      BY <1>1, <1>3, <1>5, <1>6, <2>1 DEF AtHand, AllDrawn, Evaluated
  <1>8. InHand'
    BY <1>1, <1>3, <1>4, <1>5 DEF AtHand, InHand, Loading
  <1>9. Drafted'
    <2>1. StoredLive'
      BY <1>1, <1>6 DEF StoredLive
    <2>2. timer' => Dirty'
      BY <1>5 DEF AtHand, Drafted, Timed, Dirty
    <2>3. Creating' => draft' # NewWindow
      BY <1>1, <1>5, DrawnIsNotSpecial DEF AtHand, Drafted, DraftOr, Creating
    <2> QED
      BY <1>1, <1>5, <2>1, <2>2, <2>3 DEF AtHand, Drafted
  <1>10. Sending'
    <2>1. \A j \in DOMAIN reqs' : LiveAt(j)' => j = i
      BY <1>4, <1>6 DEF LiveAt
    <2> QED
      BY <1>1, <1>3, <1>5, <1>6, <2>1 DEF Sending, Loading
  <1> QED
    BY <1>7, <1>8, <1>9, <1>10 DEF AtHand

\* A save failed: the newest edit is still at hand.
LEMMA FailedHeld ==
  ASSUME EditorTypeOK, EditorTypeOK', Shape, Patient, AtHand,
         NEW i \in DOMAIN reqs, Failed(i)
  PROVE  AtHand'
  <1> DEFINE stale == reqs[i].st = "conflict" /\ reqs[i].saved # NoRow
  <1>1. /\ UNCHANGED <<world, rows, route, load, canvas, edit>>
        /\ reqs' = [reqs EXCEPT ![i].st = "over"] /\ reqs[i].live
        /\ reqs[i].st \in {"conflict", "refused", "lost"}
        /\ touched' = (touched /\ ~ stale)
    BY DEF Failed
  <1>2. LiveAt(i)
    BY <1>1 DEF LiveAt, Flying
  <1>3. ~ Loading /\ canvas = reqs[i].design /\ canvas \in Drawn
    BY <1>2 DEF AtHand, Sending, AllDrawn
  <1>4. ed.loaded /\ \A j \in DOMAIN reqs : LiveAt(j) => j = i
    BY <1>2 DEF Shape, Requested
  <1>5. /\ ed'.loaded = ed.loaded /\ ed'.pending = ed.pending /\ ed'.baseline = ed.baseline
        /\ ed'.conflict = (ed.conflict \/ stale) /\ Timed
        /\ DraftOr(IF stale THEN canvas ELSE draft)
        /\ Evaluated \/ ed'.result = ed.result
    BY <1>3, FailedEffect DEF SameBase
  <1>6. /\ DOMAIN reqs' = DOMAIN reqs /\ reqs'[i].st = "over"
        /\ \A j \in DOMAIN reqs : j # i => reqs'[j] = reqs[j]
        /\ \A j \in DOMAIN reqs : reqs'[j].design = reqs[j].design
    BY <1>1, MovesRequest DEF Ends
  <1>7. ~ StoredLive
    BY <1>1, <1>4 DEF StoredLive, LiveAt, Flying
  <1> HIDE DEF stale
  <1>8. AllDrawn'
    <2>1. calc' \subseteq Drawn
      BY DEF EditorTypeOK, Drawn
    <2> QED
      BY <1>1, <1>5, <1>6, <2>1 DEF AtHand, AllDrawn, Evaluated
  <1>9. InHand'
    BY <1>1, <1>3, <1>4, <1>5 DEF AtHand, InHand, Loading
  <1>10. Drafted'
    <2>1. timer' => Dirty'
      BY <1>1, <1>5 DEF AtHand, Drafted, Timed, Dirty
    <2>2. Creating' => draft' # NewWindow
      BY <1>1, <1>3, <1>5, DrawnIsNotSpecial DEF AtHand, Drafted, DraftOr, Creating
    <2>3. Creating' => ed'.baseline = NewWindow
      BY <1>1, <1>4, <1>5, <1>7 DEF AtHand, Drafted, Creating
    <2>4. ~ touched' => ed'.conflict /\ canvas' \in {draft', ed'.baseline}
      <3>1. CASE stale
        BY <1>1, <1>5, <3>1 DEF DraftOr
      <3>2. CASE ~ stale
        BY <1>1, <1>5, <3>2 DEF DraftOr, AtHand, Drafted, EditorTypeOK
      <3> QED
        BY <3>1, <3>2
    <2> QED
      BY <2>1, <2>2, <2>3, <2>4 DEF Drafted
  <1>11. Sending'
    BY <1>4, <1>6 DEF Sending, LiveAt, Flying
  <1> QED
    BY <1>8, <1>9, <1>10, <1>11 DEF AtHand

\* A stored save ends: the newest edit is still at hand.
LEMMA FinishHeld ==
  ASSUME EditorTypeOK, EditorTypeOK', Shape, Patient, AtHand,
         NEW i \in DOMAIN reqs, Finish(i)
  PROVE  AtHand'
  <1>1. UNCHANGED <<world, rows, edit>> /\ reqs[i].st = "stored"
    BY DEF Finish
  <1>2. CASE reqs[i].live /\ route = 0
    <2>1. LiveAt(i)
      BY <1>1, <1>2 DEF LiveAt, Flying
    <2>2. /\ ~ Loading /\ ed.baseline = canvas /\ ed.pending = Nothing
      BY <1>1, <1>2, <2>1 DEF AtHand, Sending
    <2>3. ed.loaded /\ reqs[i].id \in DOMAIN rows
      BY <1>1, <2>1 DEF Shape, Requested
    <2>4. edit = Nothing
      BY <2>2, <2>3 DEF AtHand, InHand
    <2>5. route' # 0
      <3>1. route' = reqs[i].id
        BY <1>2, MovesOn
      <3>2. DOMAIN rows = 1..Len(rows) /\ Len(rows) \in Nat
        BY RowTypes, LenProperties
      <3> QED
        BY <2>3, <3>1, <3>2
    <2>6. load'.st = "sent"
      BY <1>2, <2>3, MovesOn, AskedTypes
    <2>7. \A j \in DOMAIN reqs' : ~ reqs'[j].live /\ reqs'[j].design \in Drawn
      BY <1>2, MovesOn DEF AtHand, AllDrawn
    <2>8. ed' = Fresh /\ ~ timer' /\ touched'
      BY <1>2, MovesOn
    <2>9. AllDrawn'
      BY <1>1, <2>6, <2>7, <2>8 DEF AtHand, AllDrawn, Fresh
    <2>10. InHand'
      BY <1>1, <2>4, <2>8 DEF InHand, Fresh
    <2>11. Drafted'
      BY <2>5, <2>8 DEF Drafted, Creating
    <2>12. Sending'
      BY <2>7 DEF Sending, LiveAt
    <2> QED
      BY <2>9, <2>10, <2>11, <2>12 DEF AtHand
  <1>3. CASE ~ (reqs[i].live /\ route = 0)
    <2>1. /\ UNCHANGED <<route, load, canvas, draft, timer, touched>>
          /\ reqs' = [reqs EXCEPT ![i].st = "over"]
          /\ ed'.loaded = ed.loaded /\ ed'.pending = ed.pending
          /\ ed'.baseline = ed.baseline
          /\ ed'.conflict = ed.conflict /\ ed'.result = ed.result
      BY <1>3, SaveEnds DEF SameBase, store
    <2>2. /\ DOMAIN reqs' = DOMAIN reqs /\ reqs'[i].st = "over"
          /\ \A j \in DOMAIN reqs : j # i => reqs'[j] = reqs[j]
          /\ \A j \in DOMAIN reqs : reqs'[j].design = reqs[j].design
      BY <2>1, MovesRequest DEF Ends
    <2>3. route = 0 /\ StoredLive => StoredLive'
      BY <1>3, <2>2 DEF StoredLive
    <2>4. AllDrawn'
      BY <1>1, <2>1, <2>2 DEF AtHand, AllDrawn
    <2>5. InHand'
      BY <1>1, <2>1 DEF AtHand, InHand, Loading
    <2>6. Drafted'
      BY <1>1, <2>1, <2>3 DEF AtHand, Drafted, Dirty, Creating
    <2>7. Sending'
      BY <2>1, <2>2 DEF AtHand, Sending, LiveAt, Flying, Loading
    <2> QED
      BY <2>4, <2>5, <2>6, <2>7 DEF AtHand
  <1> QED
    BY <1>2, <1>3

\* The page goes: what is not in the draft was given up.
LEMMA UnmountHeld ==
  ASSUME EditorTypeOK, EditorTypeOK', Shape, Patient, AtHand,
         Unmount, UNCHANGED <<world, rows, route>>,
         draft' \in {draft, Nothing}, edit' \in {Nothing, draft'}
  PROVE  AtHand'
  <1>1. /\ load' = NoRetrieve /\ ed' = Fresh /\ ~ timer' /\ Cleanup(FALSE)
    BY DEF Unmount
  <1>2. touched'
    BY <1>1, EmptyShown DEF Cleanup
  <1>3. \A i \in DOMAIN reqs' : ~ reqs'[i].live /\ reqs'[i].design \in Drawn
    BY <1>1, CleansRequests DEF AtHand, AllDrawn
  <1>4. AllDrawn'
    BY <1>1, <1>3 DEF AtHand, AllDrawn, Fresh, NoRetrieve
  <1>5. InHand'
    BY <1>1 DEF InHand, Fresh
  <1>6. Drafted'
    BY <1>1, <1>2, DrawnIsNotSpecial DEF AtHand, Drafted, Creating, Fresh
  <1>7. Sending'
    BY <1>3 DEF Sending, LiveAt
  <1> QED
    BY <1>4, <1>5, <1>6, <1>7 DEF AtHand

\* When the page may go without asking, the newest edit is in the draft.
LEMMA NothingToLose ==
  ASSUME Shape, AtHand, ed.loaded => ~ Dirty, ed.pending # Nothing => Dirty
  PROVE  edit \in {Nothing, draft}
  <1>1. CASE ~ ed.loaded
    BY <1>1 DEF AtHand, InHand
  <1>2. CASE ed.loaded
    <2>1. canvas = ed.baseline /\ ed.pending = Nothing
      BY <1>2 DEF Dirty
    <2> QED
      BY <1>2, <2>1 DEF AtHand, InHand
  <1> QED
    BY <1>1, <1>2

\* The user leaves the page: the newest edit is still at hand.
LEMMA LeaveHeld ==
  ASSUME EditorTypeOK, EditorTypeOK', Shape, Patient, AtHand, Leave
  PROVE  AtHand'
  <1>1. UNCHANGED <<world, rows, route>> /\ Unmount /\ (ed.pending # Nothing => Dirty)
    BY DEF Leave, Patient
  <1>2. CASE ed.loaded /\ Dirty
    BY <1>1, <1>2, UnmountHeld DEF Leave
  <1>3. CASE ~ (ed.loaded /\ Dirty)
    BY <1>1, <1>3, NothingToLose, UnmountHeld DEF Leave
  <1> QED
    BY <1>2, <1>3

\* The user refreshes the page: the newest edit is still at hand.
LEMMA RefreshHeld ==
  ASSUME EditorTypeOK, EditorTypeOK', Shape, Patient, AtHand, Refresh
  PROVE  AtHand'
  <1>1. /\ UNCHANGED <<world, rows, route, draft>> /\ Unmount
        /\ ed.pending # Nothing => Dirty
    BY DEF Refresh, Patient
  <1>2. CASE ed.loaded /\ Dirty
    BY <1>1, <1>2, UnmountHeld DEF Refresh
  <1>3. CASE ~ (ed.loaded /\ Dirty)
    BY <1>1, <1>3, NothingToLose, UnmountHeld DEF Refresh
  <1> QED
    BY <1>2, <1>3

\* The page opens: the newest edit is still at hand.
LEMMA OpenEditorHeld ==
  ASSUME EditorTypeOK, EditorTypeOK', Shape, Patient, AtHand, OpenEditor
  PROVE  AtHand'
  <1>1. /\ UNCHANGED <<world, rows, route, reqs, edit>>
        /\ ed = Fresh /\ ~ ed.loaded /\ load = NoRetrieve /\ ~ timer
        /\ edit \in {Nothing, draft}
    BY DEF OpenEditor, Shape, Mounted, AtHand, InHand
  <1>2. \A i \in DOMAIN reqs : ~ LiveAt(i)
    BY <1>1 DEF Shape, Requested
  <1>3. Sending'
    BY <1>1, <1>2 DEF Sending, LiveAt, Flying
  <1>4. CASE Creating
    <2>1. Starts
      BY <1>4 DEF Starts
    <2>2. UNCHANGED load /\ touched'
      BY <1>4 DEF OpenEditor, Creating, Show
    <2>3. ed'.pending = IF draft \in {Nothing, NewWindow} THEN Nothing ELSE draft
      BY <1>1, <2>1, StartsEffect DEF Offer, Fresh
    <2>4. ed'.loaded /\ ed'.baseline = NewWindow /\ DraftOr(draft) /\ Timed
      BY <2>1, StartsEffect
    <2>5. ~ Loading' /\ load'.st # "read"
      BY <1>1, <2>2 DEF Loading, NoRetrieve
    <2>6. draft # NewWindow
      BY <1>4 DEF AtHand, Drafted
    <2>7. AllDrawn'
      <3>1. calc' \subseteq Drawn
        BY DEF EditorTypeOK, Drawn
      <3>2. Evaluated \/ ed'.result = Nothing
        BY <2>1, StartsEffect
      <3> QED
        BY <1>1, <2>4, <2>5, <3>1, <3>2 DEF AtHand, AllDrawn, Evaluated
    <2>8. InHand'
      BY <1>1, <2>3, <2>4, <2>5, <2>6 DEF InHand
    <2>9. Drafted'
      BY <1>1, <2>2, <2>4, <2>6, DrawnIsNotSpecial DEF Drafted, Timed, DraftOr
    <2> QED
      BY <1>3, <2>7, <2>8, <2>9 DEF AtHand
  <1>5. CASE ~ Creating
    <2>1. load' = Asked(Source) /\ UNCHANGED <<canvas, touched, ed, draft, timer>>
      BY <1>5 DEF OpenEditor, Creating, store
    <2>2. load'.st = "sent"
      BY <1>5, <2>1, SourceNamed, AskedTypes DEF Shape
    <2>3. AllDrawn'
      BY <1>1, <2>1, <2>2 DEF AtHand, AllDrawn
    <2>4. InHand'
      BY <1>1, <2>1 DEF InHand
    <2>5. Drafted'
      BY <1>1, <2>1 DEF AtHand, Drafted, Dirty, Creating, StoredLive
    <2> QED
      BY <1>3, <2>3, <2>4, <2>5 DEF AtHand
  <1> QED
    BY <1>4, <1>5

\* At the start: the newest edit is still at hand.
LEMMA EditorInitHeld ==
  ASSUME EditorInit
  PROVE  AtHand
  <1>1. AllDrawn
    <2>1. (CHOOSE d \in Theirs : TRUE) \in Drawn
      BY EditorAssumption DEF Drawn
    <2> DEFINE o == CHOOSE d \in Theirs : TRUE
    <2>2. rows = IF world.mode = "new" THEN <<>>
                 ELSE <<[ver |-> 1, design |-> o, by |-> "init"]>>
      BY DEF EditorInit
    <2> HIDE DEF o
    <2>3. \A i \in DOMAIN rows : rows[i].design = o
      <3>1. CASE world.mode = "new"
        BY <2>2, <3>1
      <3>2. CASE world.mode # "new"
        <4> DEFINE r == [ver |-> 1, design |-> o, by |-> "init"]
        <4>1. r.design = o
          OBVIOUS
        <4>2. rows = <<r>>
          BY <2>2, <3>2
        <4> HIDE DEF r
        <4>3. DOMAIN rows = 1..1 /\ rows[1] = r
          BY <4>2
        <4> QED
          BY <4>1, <4>3
      <3> QED
        BY <3>1, <3>2
    <2>4. \A i \in DOMAIN rows : rows[i].design \in Drawn
      BY <2>1, <2>3 DEF o
    <2>5. load.st # "read" /\ reqs = << >>
      BY DEF EditorInit, NoRetrieve
    <2>6. ed.baseline = Nothing /\ ed.result = Nothing
      BY DEF EditorInit, Fresh
    <2> QED
      BY <2>4, <2>5, <2>6 DEF AllDrawn
  <1>2. InHand
    BY DEF EditorInit, InHand, Fresh
  <1>3. Drafted
    BY DrawnIsNotSpecial DEF EditorInit, Drafted, Fresh
  <1>4. Sending
    BY DEF EditorInit, Sending
  <1> QED
    BY <1>1, <1>2, <1>3, <1>4 DEF AtHand

\* Every step of a patient user keeps the newest edit at hand.
LEMMA HeldNext ==
  ASSUME EditorTypeOK, EditorTypeOK', Shape, Patient, AtHand, [EditorNext]_editorVars
  PROVE  AtHand'
  <1>1. CASE OpenEditor
    BY <1>1, OpenEditorHeld
  <1>2. CASE ServerReads
    BY <1>2, ServerReadsHeld
  <1>3. CASE Loaded
    BY <1>3, LoadedHeld
  <1>4. CASE LoadFails
    BY <1>4, LoadFailsHeld
  <1>5. CASE RetryLoad
    BY <1>5, RetryLoadHeld
  <1>6. CASE LoadSaved
    BY <1>6, LoadSavedHeld
  <1>7. CASE Undo
    BY <1>7, UndoHeld
  <1>8. CASE Redo
    BY <1>8, RedoHeld
  <1>9. CASE DesignSettles
    BY <1>9, DesignSettlesHeld
  <1>10. CASE Calculated
    BY <1>10, CalculatedHeld
  <1>11. CASE WriteDraft
    BY <1>11, WriteDraftHeld
  <1>12. CASE Save
    BY <1>12, SaveHeld
  <1>13. CASE Restore
    BY <1>13, RestoreHeld
  <1>14. CASE DropOffer
    BY <1>14, DropOfferHeld
  <1>15. CASE Confirm
    BY <1>15, ConfirmHeld
  <1>16. CASE ProbeReads
    BY <1>16, ProbeReadsHeld
  <1>17. CASE ProbeAnswers
    BY <1>17, ProbeAnswersHeld
  <1>18. CASE Leave
    BY <1>18, LeaveHeld
  <1>19. CASE Refresh
    BY <1>19, RefreshHeld
  <1>20. CASE OtherSaves
    BY <1>20, OtherSavesHeld
  <1>21. ASSUME NEW d \in Designs, Edit(d) PROVE AtHand'
    BY <1>21, EditHeld
  <1>22. ASSUME NEW i \in DOMAIN reqs, save_position(i) PROVE AtHand'
    BY <1>22, save_positionHeld
  <1>23. ASSUME NEW i \in DOMAIN reqs, refuse_position(i) PROVE AtHand'
    BY <1>23, refuse_positionHeld
  <1>24. ASSUME NEW i \in DOMAIN reqs, Lose(i) PROVE AtHand'
    BY <1>24, LoseHeld
  <1>25. ASSUME NEW i \in DOMAIN reqs, Ignored(i) PROVE AtHand'
    BY <1>25, IgnoredHeld
  <1>26. ASSUME NEW i \in DOMAIN reqs, Stored(i) PROVE AtHand'
    BY <1>26, StoredHeld
  <1>27. ASSUME NEW i \in DOMAIN reqs, Finish(i) PROVE AtHand'
    BY <1>27, FinishHeld
  <1>28. ASSUME NEW i \in DOMAIN reqs, Failed(i) PROVE AtHand'
    BY <1>28, FailedHeld
  <1>29. CASE UNCHANGED editorVars
    BY <1>29 DEF editorVars, AtHand, AllDrawn, InHand, Drafted, Sending, Loading,
       Dirty, Creating, StoredLive, LiveAt, Flying
  <1> QED
    BY <1>1, <1>2, <1>3, <1>4, <1>5, <1>6, <1>7, <1>8, <1>9, <1>10, <1>11,
       <1>12, <1>13, <1>14, <1>15, <1>16, <1>17, <1>18, <1>19, <1>20, <1>21,
       <1>22, <1>23, <1>24, <1>25, <1>26, <1>27, <1>28, <1>29, EditorStep

-----------------------------------------------------------------------------
(* PositionEditor: the invariant, and the theorems.                       *)

\* The whole inductive invariant.
EditorInv == EditorTypeOK /\ Shape /\ TokensSeen /\ (Patient => AtHand)

\* Every step keeps the invariant.
LEMMA EditorInvNext ==
  ASSUME EditorInv, [EditorNext]_editorVars
  PROVE  EditorInv'
  <1>1. EditorTypeOK' /\ Shape'
    BY ShapeNext DEF EditorInv
  <1>2. TokensSeen'
    BY SeenNext DEF EditorInv
  <1>3. world' = world
    BY EditorStep
    DEF EditorInv, editorVars, OpenEditor, ServerReads, Loaded, LoadFails, RetryLoad,
       LoadSaved, Edit, Undo, Redo, DesignSettles, Calculated, WriteDraft, Save, Restore,
       DropOffer, Confirm, ProbeReads, ProbeAnswers, Leave, Refresh, OtherSaves,
       save_position, refuse_position, Lose, Ignored, Stored, Finish, Failed
  <1>4. Patient' => AtHand'
    BY <1>1, <1>3, HeldNext DEF EditorInv, Patient
  <1> QED
    BY <1>1, <1>2, <1>4 DEF EditorInv

\* The invariant holds always: the shape of the tab, the tokens it holds, and
\* where the newest edit is (ProjectPositionEditor.tsx).
THEOREM EditorInvariant == EditorSpec => []EditorInv
  <1>1. EditorInit => EditorInv
    BY EditorInitShape, EditorInitSeen, EditorInitHeld DEF EditorInv
  <1>2. EditorInv /\ [EditorNext]_editorVars => EditorInv'
    BY EditorInvNext
  <1> QED
    BY <1>1, <1>2, PTL DEF EditorSpec

\* The rows, the canvas store, the requests and the tokens stay well typed, and
\* what can be undone and redone never exceeds HISTORY_LIMIT (canvasStore.ts).
THEOREM EditorTypes == EditorSpec => []EditorTypeOK
  <1>1. EditorInv => EditorTypeOK
    BY DEF EditorInv
  <1> QED
    BY <1>1, EditorInvariant, PTL

\* For any designs, catalogue and number of edits, saves, visits and reloads, the
\* newest edit of a user who answers what the page offers is on the canvas, in the
\* draft or on offer until it is saved or given up, whatever fails, conflicts or
\* arrives late (ProjectPositionEditor.tsx: the draft, the conflict banner).
THEOREM EditsAreKept == EditorSpec => []EditKept
  <1>1. EditorInv => EditKept
    BY DEF EditorInv, EditKept, AtHand, InHand
  <1> QED
    BY <1>1, EditorInvariant, PTL

\* However retrieves, saves, lost answers, reloads and other people interleave, a
\* save of this tab replaces only a version that was on its canvas or saved from it
\* (projects/service.py save_position: updated_at under the row's lock).
THEOREM NoUnseenOverwrite == EditorSpec => NoLostUpdate
  <1>1. EditorInv /\ [EditorNext]_editorVars =>
          [~ world.measures =>
             \A i \in DOMAIN rows :
               rows'[i] # rows[i] /\ rows'[i].by = "me"
                 => <<i, rows[i].ver>> \in known]_editorVars
    BY WritesSeen DEF EditorInv
  <1> QED
    BY <1>1, EditorInvariant, PTL DEF EditorSpec, NoLostUpdate

=============================================================================
