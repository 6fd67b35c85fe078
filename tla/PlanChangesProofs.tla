------------------------- MODULE PlanChangesProofs -------------------------
(***************************************************************************)
(* A plan change is POSTed once, one is under way at a time, and only what  *)
(* Flow carried out changes an entitlement; and whenever none is under way  *)
(* the local plan is Flow's, for any number of operations, callers, plans   *)
(* and periods.                                                             *)
(***************************************************************************)
EXTENDS PlanChanges, FiniteSetTheorems, TLAPS

Kinds == {"upgrade", "downgrade", "cancel", "cancelNow"}
Steps == {"idle", "store", "claim", "post", "remember", "verify", "apply", "fail"}
AnyOp == CHOOSE k \in Ops : TRUE
Replies == [known : BOOLEAN, period : Nat]
Rows == [state : States, kind : Kinds \cup {"none"}, old : Plans, target : Plans, period : Nat, result : Replies]
Calls == [pc : Steps, op : Rows, id : Ops \cup {AnyOp}, reply : Replies]
Subscriptions == [plan : Plans, next : Plans, period : Nat, stops : BOOLEAN, active : BOOLEAN]

\* Every variable is well typed.
Types ==
  /\ op \in [Ops -> Rows]
  /\ paid \in Nat /\ flow \in Subscriptions /\ paid <= flow.period
  /\ log \in SUBSET Ops
  /\ posts \in [Ops -> Nat]
  /\ call \in [Callers -> Calls]
  /\ \A e \in events : e.op \in Ops /\ e.plan \in Plans

\* A request beyond "idle" works on an operation of a known kind; what it is
\* about to store is new.
Working ==
  /\ \A c \in Callers : call[c].pc # "idle" => call[c].id \in Ops /\ call[c].op.kind \in Kinds
  /\ \A c \in Callers : call[c].pc = "store" =>
        call[c].op.state = "prepared" /\ ~call[c].op.result.known
  /\ \A k \in Ops : op[k].state # "none" => op[k].kind \in Kinds

Sent == {"remember", "verify", "apply", "fail"}
Known == {"remember", "verify", "apply"}

\* An operation is sent by the one request that moved it out of "prepared",
\* and a reply is known only of one that was sent.
Sending ==
  /\ \A k \in Ops : posts[k] <= 1
  /\ \A k \in Ops : op[k].state \in {"none", "prepared", "abandoned"} => posts[k] = 0
  /\ \A k \in Ops : op[k].result.known => posts[k] = 1
  /\ \A c \in Callers : call[c].pc = "post" =>
        op[call[c].id].state = "dispatching" /\ posts[call[c].id] = 0
  /\ \A c, d \in Callers : call[c].pc = "post" /\ call[d].pc = "post" /\ call[c].id = call[d].id => c = d
  /\ \A c \in Callers : call[c].pc \in Sent => posts[call[c].id] = 1

\* What is known to have a reply was carried out, and an event closes its
\* operation.
Confirming ==
  /\ \A k \in Ops : op[k].result.known => k \in log
  /\ \A c \in Callers : call[c].pc \in Known => call[c].id \in log
  /\ \A e \in events : op[e.op].state = "confirmed"

\* At most one operation waits.
Single == \A j, k \in Pending : j = k

IInv == Types /\ Working /\ Sending /\ Confirming /\ Single /\ EventIsFlows

USE PlansAssumption

LEMMA NoOpIsRow == NoOp \in Rows /\ NoReply \in Replies
BY DEF NoOp, NoReply, Rows, Replies, States

LEMMA IdleIsCall == Idle \in Calls /\ Idle.pc = "idle"
BY NoOpIsRow DEF Idle, Calls, Steps, AnyOp

LEMMA InitIInv == Init => IInv
<1> SUFFICES ASSUME Init PROVE IInv
  OBVIOUS
<1>1. Types
  BY NoOpIsRow, IdleIsCall DEF Init, Types, Subscriptions
<1>2. \A c \in Callers : call[c].pc = "idle"
  BY IdleIsCall DEF Init
<1>3. \A k \in Ops : op[k].state = "none" /\ ~op[k].result.known /\ posts[k] = 0
  BY DEF Init, NoOp, NoReply
<1>4. Working /\ Sending
  BY <1>2, <1>3 DEF Working, Sending, Sent
<1>5. Confirming /\ EventIsFlows
  BY <1>2, <1>3 DEF Init, Confirming, EventIsFlows, Known
<1>6. Single
  BY <1>3 DEF Single, Pending
<1> QED
  BY <1>1, <1>4, <1>5, <1>6 DEF IInv

\* One request moves.
LEMMA CallMoves ==
  ASSUME Types, NEW c \in Callers, NEW x \in Calls, call' = [call EXCEPT ![c] = x]
  PROVE  call' \in [Callers -> Calls] /\ call'[c] = x /\ \A d \in Callers : d # c => call'[d] = call[d]
BY DEF Types

\* One operation changes its state.
LEMMA RowMoves ==
  ASSUME Types, NEW k \in Ops, NEW x \in Rows, op' = [op EXCEPT ![k] = x]
  PROVE  op' \in [Ops -> Rows] /\ op'[k] = x /\ \A j \in Ops : j # k => op'[j] = op[j]
BY DEF Types

\* What a request that ends or goes on with the same operation may do.
CallOnly(c) ==
  /\ UNCHANGED <<op, events, paid, flow, log, posts>>
  /\ call' \in [Callers -> Calls]
  /\ \A d \in Callers : d # c => call'[d] = call[d]
  /\ call'[c].pc # "idle" => call'[c].id \in Ops /\ call'[c].op.kind \in Kinds
  /\ call'[c].pc = "store" => call'[c].op.state = "prepared" /\ ~call'[c].op.result.known
  /\ call'[c].pc # "post"
  /\ call'[c].pc \in Sent => posts[call'[c].id] = 1
  /\ call'[c].pc \in Known => call'[c].id \in log

LEMMA CallOnlyStep ==
  ASSUME IInv, NEW c \in Callers, CallOnly(c)
  PROVE  IInv'
<1> USE DEF IInv, CallOnly
<1>1. Types'
  BY DEF Types
<1>2. Working'
  BY DEF Working
<1>3. Sending'
  BY DEF Sending
<1>4. Confirming' /\ EventIsFlows' /\ Single'
  BY DEF Confirming, EventIsFlows, Single, Pending
<1> QED
  BY <1>1, <1>2, <1>3, <1>4

LEMMA PrepareStep ==
  ASSUME IInv, NEW c \in Callers, PrepareRead(c)
  PROVE  IInv'
<1>1. Types
  BY DEF IInv
<1>2. PICK k \in {j \in Ops : op[j].state = "none"}, t \in Plans, kind \in {"change", "cancel", "cancelNow"} :
        call' = [call EXCEPT ![c] = [Idle EXCEPT !.pc = "store", !.id = k, !.op = Prepared(t, kind)]]
  BY DEF PrepareRead
<1> DEFINE g == IF kind = "change" THEN Kind(LocalPlan, t) ELSE kind
           o == Prepared(t, kind)
           x == [Idle EXCEPT !.pc = "store", !.id = k, !.op = o]
<1>3. g \in Kinds
  BY DEF Kind, Kinds
<1>4. LocalPlan \in Plans /\ paid \in Nat
  BY <1>1 DEF PrepareRead, Types, Subscriptions
<1>5. o \in Rows /\ o.state = "prepared" /\ ~o.result.known /\ o.kind \in Kinds
  <2>1. o = [state |-> "prepared", kind |-> g, old |-> LocalPlan, target |-> t, period |-> paid,
             result |-> NoReply]
    BY DEF Prepared
  <2> HIDE DEF g, o
  <2> QED
    BY <2>1, <1>3, <1>4, NoOpIsRow DEF Rows, States, NoReply
<1>6. x \in Calls /\ x.pc = "store" /\ x.id = k /\ x.op = o
  <2> HIDE DEF o
  <2>1. ASSUME NEW i \in Calls
        PROVE  /\ [i EXCEPT !.pc = "store", !.id = k, !.op = o] \in Calls
               /\ [i EXCEPT !.pc = "store", !.id = k, !.op = o].pc = "store"
               /\ [i EXCEPT !.pc = "store", !.id = k, !.op = o].id = k
               /\ [i EXCEPT !.pc = "store", !.id = k, !.op = o].op = o
    BY <1>5 DEF Calls, Steps
  <2> QED
    BY <2>1, IdleIsCall
<1>7. call' = [call EXCEPT ![c] = x]
  BY <1>2
<1> HIDE DEF x
<1>8. call' \in [Callers -> Calls] /\ call'[c] = x /\ \A d \in Callers : d # c => call'[d] = call[d]
  BY <1>1, <1>6, <1>7, CallMoves
<1>9. CallOnly(c)
  BY <1>5, <1>6, <1>8 DEF CallOnly, PrepareRead, Sent, Known
<1> QED
  BY <1>9, CallOnlyStep

\* A request reads an operation and goes on to claim it.
LEMMA DispatchReadStep ==
  ASSUME IInv, NEW c \in Callers, DispatchRead(c)
  PROVE  IInv'
<1>1. PICK k \in Ops :
        /\ op[k].state = "prepared"
        /\ call' = [call EXCEPT ![c] = [Idle EXCEPT !.pc = "claim", !.id = k, !.op = op[k]]]
  BY DEF DispatchRead
<1> DEFINE x == [Idle EXCEPT !.pc = "claim", !.id = k, !.op = op[k]]
<1>2. op[k] \in Rows /\ op[k].kind \in Kinds
  BY <1>1 DEF IInv, Types, Working
<1>3. x \in Calls /\ x.pc = "claim" /\ x.id = k /\ x.op = op[k]
  BY <1>2, IdleIsCall DEF Calls, Steps
<1>4. call' \in [Callers -> Calls] /\ call'[c] = x /\ \A d \in Callers : d # c => call'[d] = call[d]
  BY <1>1, <1>3, CallMoves DEF IInv
<1>5. CallOnly(c)
  BY <1>2, <1>3, <1>4 DEF CallOnly, DispatchRead, Sent, Known
<1> QED
  BY <1>5, CallOnlyStep

\* A recovery takes up an operation whose reply is stored: it was sent and
\* carried out.
LEMMA RecoverStep ==
  ASSUME IInv, NEW c \in Callers, Recover(c)
  PROVE  IInv'
<1>1. PICK k \in Ops :
        /\ op[k].state \in {"dispatching", "uncertain"} /\ op[k].result.known
        /\ call' = [call EXCEPT ![c] =
              [Idle EXCEPT !.pc = "verify", !.id = k, !.op = op[k], !.reply = op[k].result]]
  BY DEF Recover
<1> DEFINE x == [Idle EXCEPT !.pc = "verify", !.id = k, !.op = op[k], !.reply = op[k].result]
<1>2. op[k] \in Rows /\ op[k].result \in Replies /\ op[k].kind \in Kinds
  BY <1>1 DEF IInv, Types, Working, Rows
<1>3. x \in Calls /\ x.pc = "verify" /\ x.id = k /\ x.op = op[k]
  BY <1>2, IdleIsCall DEF Calls, Steps
<1>4. call' \in [Callers -> Calls] /\ call'[c] = x /\ \A d \in Callers : d # c => call'[d] = call[d]
  BY <1>1, <1>3, CallMoves DEF IInv
<1>5. posts[k] = 1 /\ k \in log
  BY <1>1 DEF IInv, Sending, Confirming
<1>6. CallOnly(c)
  BY <1>2, <1>3, <1>4, <1>5 DEF CallOnly, Recover
<1> QED
  BY <1>6, CallOnlyStep

\* The answer of Flow decides where the request goes, not what it works on.
LEMMA VerifyStep ==
  ASSUME IInv, NEW c \in Callers, Verify(c)
  PROVE  IInv'
<1> DEFINE to == IF Confirms(call[c].op) THEN "apply" ELSE "fail"
           x == [call[c] EXCEPT !.pc = to]
<1>1. to \in {"apply", "fail"}
  OBVIOUS
<1>2. call[c] \in Calls /\ call[c].pc = "verify" /\ call' = [call EXCEPT ![c] = x]
  BY DEF IInv, Types, Verify, At
<1> HIDE DEF to
<1>3. x \in Calls /\ x.pc \in {"apply", "fail"} /\ x.id = call[c].id /\ x.op = call[c].op
  BY <1>1, <1>2 DEF Calls, Steps
<1>4. call' \in [Callers -> Calls] /\ call'[c] = x /\ \A d \in Callers : d # c => call'[d] = call[d]
  BY <1>2, <1>3, CallMoves DEF IInv
<1>5. /\ call[c].id \in Ops /\ call[c].op.kind \in Kinds
      /\ posts[call[c].id] = 1 /\ call[c].id \in log
  BY <1>2 DEF IInv, Working, Sending, Confirming, Sent, Known
<1>6. CallOnly(c)
  BY <1>3, <1>4, <1>5 DEF CallOnly, Verify
<1> QED
  BY <1>6, CallOnlyStep

\* What a crash leaves behind is what the rows say.
LEMMA CrashStep ==
  ASSUME IInv, NEW c \in Callers, Crash(c)
  PROVE  IInv'
<1>1. call' \in [Callers -> Calls] /\ call'[c] = Idle /\ \A d \in Callers : d # c => call'[d] = call[d]
  BY IdleIsCall, CallMoves DEF IInv, Crash
<1>2. CallOnly(c)
  BY <1>1, IdleIsCall DEF CallOnly, Crash, Sent, Known
<1> QED
  BY <1>2, CallOnlyStep

\* One operation changes, and perhaps the request that changes it: what the
\* invariant asks of the new row, and that no request is about to send it.
RowOnly(k, c) ==
  /\ UNCHANGED <<events, paid, flow, log, posts>>
  /\ op' \in [Ops -> Rows] /\ \A j \in Ops : j # k => op'[j] = op[j]
  /\ call' \in [Callers -> Calls] /\ \A d \in Callers : d # c => call'[d] = call[d]
  /\ op'[k].state # "none" => op'[k].kind \in Kinds
  /\ op'[k].state \in {"none", "prepared", "abandoned"} => posts[k] = 0
  /\ op'[k].result.known => posts[k] = 1 /\ k \in log
  /\ \A d \in Callers : d # c /\ call[d].pc = "post" => call[d].id # k
  /\ \A e \in events : e.op = k => op'[k].state = "confirmed"
  /\ Single'

\* What it asks of the request afterwards.
CallFits(c) ==
  /\ call'[c].pc # "idle" => call'[c].id \in Ops /\ call'[c].op.kind \in Kinds
  /\ call'[c].pc # "store"
  /\ call'[c].pc = "post" => op'[call'[c].id].state = "dispatching" /\ posts[call'[c].id] = 0
  /\ call'[c].pc \in Sent => posts[call'[c].id] = 1
  /\ call'[c].pc \in Known => call'[c].id \in log

LEMMA RowOnlyStep ==
  ASSUME IInv, NEW k \in Ops, NEW c \in Callers, RowOnly(k, c), CallFits(c),
         call'[c].pc = "post" => call'[c].id = k
  PROVE  IInv'
<1> USE DEF IInv, RowOnly, CallFits
<1>1. Types'
  BY DEF Types
<1>2. Working'
  BY DEF Working
<1>3. Sending'
  BY DEF Types, Sending, Working
<1>4. Confirming' /\ EventIsFlows'
  BY DEF Types, Confirming, EventIsFlows
<1> QED
  BY <1>1, <1>2, <1>3, <1>4

\* An operation is stored only when none is pending.
LEMMA StoreStep ==
  ASSUME IInv, NEW c \in Callers, Store(c)
  PROVE  IInv'
<1>1. call[c].pc = "store" /\ call' = [call EXCEPT ![c] = Idle] /\ UNCHANGED <<events, paid, flow, log, posts>>
  BY DEF Store, At
<1>2. call' \in [Callers -> Calls] /\ call'[c] = Idle /\ \A d \in Callers : d # c => call'[d] = call[d]
  BY <1>1, IdleIsCall, CallMoves DEF IInv
<1>3. CASE op' = op
  <2>1. CallOnly(c)
    BY <1>1, <1>2, <1>3, IdleIsCall DEF CallOnly, Sent, Known
  <2> QED
    BY <2>1, CallOnlyStep
<1>4. CASE op' # op
  <2> DEFINE k == call[c].id
  <2>1. op[k].state = "none" /\ Pending = {} /\ op' = [op EXCEPT ![k] = call[c].op]
    BY <1>4 DEF Store
  <2>2. /\ k \in Ops /\ call[c].op \in Rows /\ call[c].op.kind \in Kinds
        /\ call[c].op.state = "prepared" /\ ~call[c].op.result.known
    BY <1>1 DEF IInv, Types, Working, Calls
  <2>3. op' \in [Ops -> Rows] /\ op'[k] = call[c].op /\ \A j \in Ops : j # k => op'[j] = op[j]
    BY <2>1, <2>2, RowMoves DEF IInv
  <2>4. posts[k] = 0 /\ \A d \in Callers : call[d].pc = "post" => call[d].id # k
    BY <2>1, <2>2 DEF IInv, Sending
  <2>5. \A e \in events : e.op # k
    BY <2>1 DEF IInv, Confirming
  <2>6. Single'
    BY <2>1, <2>3 DEF Single, Pending
  <2>7. RowOnly(k, c)
    BY <1>1, <1>2, <2>2, <2>3, <2>4, <2>5, <2>6 DEF RowOnly
  <2>8. CallFits(c) /\ call'[c].pc # "post"
    BY <1>2, IdleIsCall DEF CallFits, Sent, Known
  <2> QED
    BY <2>2, <2>7, <2>8, RowOnlyStep
<1> QED
  BY <1>3, <1>4

\* The request that moves an operation out of "prepared" is the one that sends it.
LEMMA ClaimStep ==
  ASSUME IInv, NEW c \in Callers, Claim(c)
  PROVE  IInv'
<1> DEFINE k == call[c].id
<1>1. /\ call[c] \in Calls /\ call[c].pc = "claim" /\ k \in Ops /\ call[c].op.kind \in Kinds
      /\ op[k] \in Rows
  BY DEF Claim, At, IInv, Types, Working
<1>2. CASE op[k].state = "prepared"
  <2> DEFINE x == [op[k] EXCEPT !.state = "dispatching"]
             y == [call[c] EXCEPT !.pc = "post"]
  <2>1. op' = [op EXCEPT ![k] = x] /\ call' = [call EXCEPT ![c] = y] /\ UNCHANGED <<events, paid, flow, log, posts>>
    BY <1>1, <1>2 DEF Claim, IInv, Types
  <2>2. /\ x \in Rows /\ x.state = "dispatching" /\ x.kind = op[k].kind /\ x.result = op[k].result
        /\ y \in Calls /\ y.pc = "post" /\ y.id = k /\ y.op = call[c].op
    BY <1>1 DEF Rows, States, Calls, Steps
  <2>3. op' \in [Ops -> Rows] /\ op'[k] = x /\ \A j \in Ops : j # k => op'[j] = op[j]
    BY <1>1, <2>1, <2>2, RowMoves DEF IInv
  <2>4. call' \in [Callers -> Calls] /\ call'[c] = y /\ \A d \in Callers : d # c => call'[d] = call[d]
    BY <2>1, <2>2, CallMoves DEF IInv
  <2>5. posts[k] = 0 /\ ~op[k].result.known /\ op[k].kind \in Kinds
    BY <1>1, <1>2 DEF IInv, Sending, Working
  <2>6. \A d \in Callers : call[d].pc = "post" => call[d].id # k
    BY <1>2 DEF IInv, Sending
  <2>7. \A e \in events : e.op # k
    BY <1>2 DEF IInv, Confirming
  <2> HIDE DEF x, y
  <2>8. Single'
    BY <1>2, <2>2, <2>3 DEF IInv, Single, Pending
  <2>9. RowOnly(k, c)
    BY <2>1, <2>2, <2>3, <2>4, <2>5, <2>6, <2>7, <2>8 DEF RowOnly
  <2>10. CallFits(c) /\ call'[c].id = k
    BY <1>1, <2>1, <2>2, <2>3, <2>4, <2>5 DEF CallFits, Sent, Known
  <2> QED
    BY <1>1, <2>9, <2>10, RowOnlyStep
<1>3. CASE op[k].state # "prepared"
  <2>1. call' = [call EXCEPT ![c] = Idle] /\ UNCHANGED <<op, events, paid, flow, log, posts>>
    BY <1>3 DEF Claim
  <2>2. call' \in [Callers -> Calls] /\ call'[c] = Idle /\ \A d \in Callers : d # c => call'[d] = call[d]
    BY <2>1, IdleIsCall, CallMoves DEF IInv
  <2>3. CallOnly(c)
    BY <2>1, <2>2, IdleIsCall DEF CallOnly, Sent, Known
  <2> QED
    BY <2>3, CallOnlyStep
<1> QED
  BY <1>2, <1>3

\* The one POST: a reply is only had of what was carried out.
LEMMA PostStep ==
  ASSUME IInv, NEW c \in Callers, Post(c)
  PROVE  IInv'
<1> DEFINE k == call[c].id
<1>1. /\ call[c] \in Calls /\ call[c].pc = "post" /\ k \in Ops /\ call[c].op.kind \in Kinds
      /\ call[c].op.target \in Plans /\ op[k].state = "dispatching" /\ posts[k] = 0
      /\ flow \in Subscriptions /\ posts \in [Ops -> Nat]
  BY DEF Post, At, IInv, Types, Working, Sending, Calls, Rows
<1>2. posts' = [posts EXCEPT ![k] = 1] /\ UNCHANGED <<op, events, paid>>
  BY <1>1 DEF Post
<1>3. posts' \in [Ops -> Nat] /\ posts'[k] = 1 /\ \A j \in Ops : j # k => posts'[j] = posts[j]
  BY <1>1, <1>2
<1>4. flow' \in Subscriptions /\ flow'.period = flow.period
  <2>1. Mutated(call[c].op) \in Subscriptions /\ Mutated(call[c].op).period = flow.period
    BY <1>1 DEF Mutated, Subscriptions, Kinds
  <2> QED
    BY <1>1, <2>1 DEF Post
<1> DEFINE f == [call[c] EXCEPT !.pc = "fail"]
           r == [call[c] EXCEPT !.pc = "remember", !.reply = [known |-> TRUE, period |-> flow.period]]
<1>5. /\ f \in Calls /\ f.pc = "fail" /\ f.id = k /\ f.op = call[c].op
      /\ r \in Calls /\ r.pc = "remember" /\ r.id = k /\ r.op = call[c].op
  BY <1>1 DEF Calls, Steps, Replies, Subscriptions
<1>6. \/ call' = [call EXCEPT ![c] = f] /\ log' \in {log, log \cup {k}}
      \/ call' = [call EXCEPT ![c] = r] /\ log' = log \cup {k}
  BY DEF Post, IInv, Types
<1> HIDE DEF f, r
<1>7. /\ call' \in [Callers -> Calls] /\ \A d \in Callers : d # c => call'[d] = call[d]
      /\ call'[c].pc \in {"fail", "remember"} /\ call'[c].id = k /\ call'[c].op = call[c].op
      /\ call'[c].pc = "remember" => k \in log'
  <2>1. CASE call' = [call EXCEPT ![c] = f]
    BY <1>5, <2>1, CallMoves DEF IInv
  <2>2. CASE call' = [call EXCEPT ![c] = r] /\ log' = log \cup {k}
    BY <1>5, <2>2, CallMoves DEF IInv
  <2> QED
    BY <1>6, <2>1, <2>2
<1>8. log \subseteq log' /\ log' \subseteq Ops
  BY <1>1, <1>6 DEF IInv, Types
<1>9. Types'
  BY <1>2, <1>3, <1>4, <1>7, <1>8 DEF IInv, Types
<1>10. Working'
  BY <1>1, <1>2, <1>7 DEF IInv, Working
<1>11. Sending'
  <2>1. \A j \in Ops : posts'[j] <= 1
    BY <1>3 DEF IInv, Sending
  <2>2. \A j \in Ops : op'[j].state \in {"none", "prepared", "abandoned"} => posts'[j] = 0
    BY <1>1, <1>2, <1>3 DEF IInv, Sending
  <2>3. \A j \in Ops : op'[j].result.known => posts'[j] = 1
    BY <1>2, <1>3 DEF IInv, Sending
  <2>4. \A d \in Callers : call'[d].pc = "post" =>
          d # c /\ call[d].pc = "post" /\ call'[d] = call[d] /\ call[d].id # k /\ call[d].id \in Ops
    BY <1>1, <1>7 DEF IInv, Sending, Working
  <2>5. \A d \in Callers : call'[d].pc \in Sent => call'[d].id \in Ops /\ posts'[call'[d].id] = 1
    <3> SUFFICES ASSUME NEW d \in Callers, call'[d].pc \in Sent
                 PROVE  call'[d].id \in Ops /\ posts'[call'[d].id] = 1
      OBVIOUS
    <3>1. CASE d = c
      BY <1>1, <1>3, <1>7, <3>1
    <3>2. CASE d # c
      <4>1. call'[d] = call[d] /\ call[d].pc # "idle"
        BY <1>7, <3>2 DEF Sent
      <4>2. call[d].id \in Ops /\ posts[call[d].id] = 1
        BY <4>1 DEF IInv, Sending, Working
      <4> QED
        BY <1>1, <1>3, <4>1, <4>2
    <3> QED
      BY <3>1, <3>2
  <2>6. \A d \in Callers : call'[d].pc = "post" =>
          op'[call'[d].id].state = "dispatching" /\ posts'[call'[d].id] = 0
    BY <1>2, <1>3, <2>4 DEF IInv, Sending
  <2>7. \A d, e \in Callers :
          call'[d].pc = "post" /\ call'[e].pc = "post" /\ call'[d].id = call'[e].id => d = e
    BY <2>4 DEF IInv, Sending
  <2> QED
    BY <2>1, <2>2, <2>3, <2>5, <2>6, <2>7 DEF Sending
<1>12. Confirming' /\ EventIsFlows'
  BY <1>2, <1>7, <1>8 DEF IInv, Confirming, EventIsFlows, Known
<1>13. Single'
  BY <1>2 DEF IInv, Single, Pending
<1> QED
  BY <1>9, <1>10, <1>11, <1>12, <1>13 DEF IInv

\* The reply stored is of an operation that was sent and carried out.
LEMMA RememberStep ==
  ASSUME IInv, NEW c \in Callers, Remember(c)
  PROVE  IInv'
<1> DEFINE k == call[c].id
           kept == IF op[k].result.known THEN op[k].result ELSE call[c].reply
           x == [op[k] EXCEPT !.result = kept]
           y == [call[c] EXCEPT !.pc = "verify", !.reply = kept]
<1>1. /\ call[c] \in Calls /\ call[c].pc = "remember" /\ k \in Ops /\ call[c].op.kind \in Kinds
      /\ op[k] \in Rows /\ posts[k] = 1 /\ k \in log
  BY DEF Remember, At, IInv, Types, Working, Sending, Confirming, Sent, Known
<1>2. kept \in Replies
  BY <1>1 DEF Calls, Rows
<1>3. op' = [op EXCEPT ![k] = x] /\ call' = [call EXCEPT ![c] = y] /\ UNCHANGED <<events, paid, flow, log, posts>>
  BY <1>1 DEF Remember, IInv, Types
<1> HIDE DEF kept
<1>4. /\ x \in Rows /\ x.state = op[k].state /\ x.kind = op[k].kind
      /\ y \in Calls /\ y.pc = "verify" /\ y.id = k /\ y.op = call[c].op
  BY <1>1, <1>2 DEF Rows, Calls, Steps
<1>5. op' \in [Ops -> Rows] /\ op'[k] = x /\ \A j \in Ops : j # k => op'[j] = op[j]
  BY <1>1, <1>3, <1>4, RowMoves DEF IInv
<1>6. call' \in [Callers -> Calls] /\ call'[c] = y /\ \A d \in Callers : d # c => call'[d] = call[d]
  BY <1>3, <1>4, CallMoves DEF IInv
<1> HIDE DEF x, y
<1>7. \A d \in Callers : call[d].pc = "post" => call[d].id # k
  BY <1>1 DEF IInv, Sending
<1>8. op[k].state \notin {"none", "prepared", "abandoned"} /\ op[k].kind \in Kinds
  BY <1>1 DEF IInv, Sending, Working
<1>9. \A e \in events : e.op = k => op[k].state = "confirmed"
  BY DEF IInv, Confirming
<1>10. Single'
  BY <1>4, <1>5 DEF IInv, Single, Pending
<1>11. RowOnly(k, c)
  BY <1>1, <1>3, <1>4, <1>5, <1>6, <1>7, <1>8, <1>9, <1>10 DEF RowOnly
<1>12. CallFits(c) /\ call'[c].pc # "post"
  BY <1>1, <1>4, <1>6 DEF CallFits
<1> QED
  BY <1>1, <1>11, <1>12, RowOnlyStep

\* A failure leaves an operation that was sent uncertain.
LEMMA FailStep ==
  ASSUME IInv, NEW c \in Callers, Fail(c)
  PROVE  IInv'
<1> DEFINE k == call[c].id
           x == [op[k] EXCEPT !.state = "uncertain"]
<1>1. /\ call[c].pc = "fail" /\ k \in Ops /\ op[k] \in Rows /\ posts[k] = 1
      /\ UNCHANGED <<events, paid, flow, log, posts>>
  BY DEF Fail, At, IInv, Types, Working, Sending, Sent
<1>2. call' \in [Callers -> Calls] /\ call'[c] = Idle /\ \A d \in Callers : d # c => call'[d] = call[d]
  BY IdleIsCall, CallMoves DEF IInv, Fail
<1>3. CASE op' = op
  <2>1. CallOnly(c)
    BY <1>1, <1>2, <1>3, IdleIsCall DEF CallOnly, Sent, Known
  <2> QED
    BY <2>1, CallOnlyStep
<1>4. CASE op' # op
  <2>1. op[k].state = "dispatching" /\ op' = [op EXCEPT ![k] = x]
    BY <1>1, <1>4 DEF Fail, IInv, Types
  <2>2. x \in Rows /\ x.state = "uncertain" /\ x.kind = op[k].kind /\ x.result = op[k].result
    BY <1>1 DEF Rows, States
  <2>3. op' \in [Ops -> Rows] /\ op'[k] = x /\ \A j \in Ops : j # k => op'[j] = op[j]
    BY <1>1, <2>1, <2>2, RowMoves DEF IInv
  <2> HIDE DEF x
  <2>4. /\ \A d \in Callers : call[d].pc = "post" => call[d].id # k
        /\ op[k].result.known => k \in log
        /\ op[k].kind \in Kinds
    BY <1>1, <2>1 DEF IInv, Sending, Confirming, Working
  <2>5. \A e \in events : e.op # k
    BY <2>1 DEF IInv, Confirming
  <2>6. Single'
    BY <2>1, <2>2, <2>3 DEF IInv, Single, Pending
  <2>7. RowOnly(k, c)
    BY <1>1, <1>2, <2>2, <2>3, <2>4, <2>5, <2>6 DEF RowOnly
  <2>8. CallFits(c) /\ call'[c].pc # "post"
    BY <1>2, IdleIsCall DEF CallFits, Sent, Known
  <2> QED
    BY <1>1, <2>7, <2>8, RowOnlyStep
<1> QED
  BY <1>3, <1>4

\* An operation is confirmed, with its event, by the first request that finds
\* it open; the next one finds it closed.
LEMMA ApplyStep ==
  ASSUME IInv, NEW c \in Callers, Apply(c)
  PROVE  IInv'
<1> DEFINE k == call[c].id
           x == [op[k] EXCEPT !.state = "confirmed"]
           v == [seq |-> Cardinality(events) + 1, op |-> k, kind |-> op[k].kind,
                 plan |-> op[k].target, period |-> op[k].period]
<1>1. /\ call[c].pc = "apply" /\ k \in Ops /\ op[k] \in Rows /\ posts[k] = 1 /\ k \in log
      /\ UNCHANGED <<paid, flow, log, posts>>
  BY DEF Apply, At, IInv, Types, Working, Sending, Confirming, Sent, Known
<1>2. call' \in [Callers -> Calls] /\ call'[c] = Idle /\ \A d \in Callers : d # c => call'[d] = call[d]
  BY IdleIsCall, CallMoves DEF IInv, Apply
<1>3. CASE op[k].state \in {"dispatching", "uncertain"}
  <2>1. events' = events \cup {v} /\ op' = [op EXCEPT ![k] = x]
    BY <1>1, <1>3 DEF Apply, IInv, Types
  <2>2. x \in Rows /\ x.state = "confirmed" /\ x.kind = op[k].kind /\ x.result = op[k].result
    BY <1>1 DEF Rows, States
  <2>3. op' \in [Ops -> Rows] /\ op'[k] = x /\ \A j \in Ops : j # k => op'[j] = op[j]
    BY <1>1, <2>1, <2>2, RowMoves DEF IInv
  <2>4. v.op = k /\ v.plan \in Plans
    BY <1>1 DEF Rows
  <2> HIDE DEF x, v
  <2>5. \A e \in events : e.op \in Ops /\ e.op # k
    BY <1>3 DEF IInv, Types, Confirming
  <2>6. \A d \in Callers : call[d].pc = "post" => call[d].id # k
    BY <1>1 DEF IInv, Sending
  <2>7. Types'
    BY <1>1, <1>2, <2>1, <2>3, <2>4 DEF IInv, Types
  <2>8. Working'
    BY <1>1, <1>2, <1>3, <2>2, <2>3, IdleIsCall DEF IInv, Working
  <2>9. Sending'
    BY <1>1, <1>2, <2>2, <2>3, <2>6, IdleIsCall DEF IInv, Sending, Working, Sent
  <2>10. Confirming'
    BY <1>1, <1>2, <2>1, <2>2, <2>3, <2>4, <2>5, IdleIsCall DEF IInv, Confirming, Known
  <2>11. EventIsFlows'
    BY <1>1, <2>1, <2>4, <2>5 DEF IInv, EventIsFlows
  <2>12. Single'
    BY <2>2, <2>3 DEF IInv, Single, Pending
  <2> QED
    BY <2>7, <2>8, <2>9, <2>10, <2>11, <2>12 DEF IInv
<1>4. CASE op[k].state \notin {"dispatching", "uncertain"}
  <2>1. UNCHANGED <<op, events>>
    BY <1>4 DEF Apply
  <2>2. CallOnly(c)
    BY <1>1, <1>2, <2>1, IdleIsCall DEF CallOnly, Sent, Known
  <2> QED
    BY <2>2, CallOnlyStep
<1> QED
  BY <1>3, <1>4

\* What is abandoned was never sent.
LEMMA AbandonStep ==
  ASSUME IInv, NEW k \in Ops, Abandon(k)
  PROVE  IInv'
<1> DEFINE x == [op[k] EXCEPT !.state = "abandoned"]
<1>1. /\ op[k] \in Rows /\ op[k].state = "prepared" /\ op' = [op EXCEPT ![k] = x]
      /\ UNCHANGED <<events, paid, flow, log, posts, call>>
  BY DEF Abandon, IInv, Types
<1>2. x \in Rows /\ x.state = "abandoned" /\ x.kind = op[k].kind /\ x.result = op[k].result
  BY <1>1 DEF Rows, States
<1>3. op' \in [Ops -> Rows] /\ op'[k] = x /\ \A j \in Ops : j # k => op'[j] = op[j]
  BY <1>1, <1>2, RowMoves DEF IInv
<1> HIDE DEF x
<1>4. Types' /\ Working'
  BY <1>1, <1>2, <1>3 DEF IInv, Types, Working
<1>5. Sending'
  BY <1>1, <1>2, <1>3 DEF IInv, Sending, Working
<1>6. Confirming' /\ EventIsFlows'
  BY <1>1, <1>2, <1>3 DEF IInv, Types, Confirming, EventIsFlows
<1>7. Single'
  BY <1>2, <1>3 DEF IInv, Single, Pending
<1> QED
  BY <1>4, <1>5, <1>6, <1>7 DEF IInv

\* A renewal, and its payment, touch no operation.
LEMMA PeriodStep ==
  ASSUME IInv, Renew \/ RecordPeriod
  PROVE  IInv'
<1>1. UNCHANGED <<op, events, log, posts, call>>
  BY DEF Renew, RecordPeriod
<1>2. flow' \in Subscriptions /\ paid' \in Nat /\ paid' <= flow'.period
  <2>1. flow \in Subscriptions /\ paid \in Nat /\ paid <= flow.period /\ flow.period \in Nat
    BY DEF IInv, Types, Subscriptions
  <2>2. CASE RecordPeriod
    BY <2>1, <2>2 DEF RecordPeriod
  <2>3. CASE Renew
    <3> DEFINE on == ~flow.stops
               p == flow.period + 1
               q == flow.next
    <3>1. on \in BOOLEAN /\ p \in Nat /\ q \in Plans /\ paid <= p
      BY <2>1 DEF Subscriptions
    <3>2. paid' = paid /\ flow' = [flow EXCEPT !.period = p, !.plan = q, !.active = on]
      BY <2>3 DEF Renew
    <3> HIDE DEF on, p, q
    <3>3. flow' \in Subscriptions /\ flow'.period = p
      BY <2>1, <3>1, <3>2 DEF Subscriptions
    <3> QED
      BY <2>1, <3>1, <3>2, <3>3
  <2> QED
    BY <2>2, <2>3
<1>3. Types'
  BY <1>1, <1>2 DEF IInv, Types
<1>4. Working' /\ Sending' /\ Confirming' /\ EventIsFlows' /\ Single'
  BY <1>1 DEF IInv, Working, Sending, Confirming, EventIsFlows, Single, Pending
<1> QED
  BY <1>3, <1>4 DEF IInv

LEMMA NextIInv == IInv /\ [Next]_vars => IInv'
<1> SUFFICES ASSUME IInv, [Next]_vars PROVE IInv'
  OBVIOUS
<1>1. CASE Renew \/ RecordPeriod
  BY <1>1, PeriodStep
<1>2. CASE \E k \in Ops : Abandon(k)
  BY <1>2, AbandonStep
<1>3. ASSUME NEW c \in Callers, PrepareRead(c) PROVE IInv'
  BY <1>3, PrepareStep
<1>4. ASSUME NEW c \in Callers, Store(c) PROVE IInv'
  BY <1>4, StoreStep
<1>5. ASSUME NEW c \in Callers, DispatchRead(c) PROVE IInv'
  BY <1>5, DispatchReadStep
<1>6. ASSUME NEW c \in Callers, Claim(c) PROVE IInv'
  BY <1>6, ClaimStep
<1>7. ASSUME NEW c \in Callers, Post(c) PROVE IInv'
  BY <1>7, PostStep
<1>8. ASSUME NEW c \in Callers, Remember(c) PROVE IInv'
  BY <1>8, RememberStep
<1>9. ASSUME NEW c \in Callers, Recover(c) PROVE IInv'
  BY <1>9, RecoverStep
<1>10. ASSUME NEW c \in Callers, Verify(c) PROVE IInv'
  BY <1>10, VerifyStep
<1>11. ASSUME NEW c \in Callers, Apply(c) PROVE IInv'
  BY <1>11, ApplyStep
<1>12. ASSUME NEW c \in Callers, Fail(c) PROVE IInv'
  BY <1>12, FailStep
<1>13. ASSUME NEW c \in Callers, Crash(c) PROVE IInv'
  BY <1>13, CrashStep
<1>14. CASE UNCHANGED vars
  BY <1>14 DEF vars, IInv, Types, Working, Sending, Confirming, Single, Pending, EventIsFlows
<1> QED
  BY <1>1, <1>2, <1>3, <1>4, <1>5, <1>6, <1>7, <1>8, <1>9, <1>10, <1>11, <1>12, <1>13, <1>14
  DEF Next

LEMMA Invariance == Spec => []IInv
BY InitIInv, NextIInv, PTL DEF Spec

\* Rows, the subscription and the events stay well typed, and the local period
\* never runs ahead of Flow's.
THEOREM TypeCorrect == Spec => []TypeOK
<1>1. IInv => TypeOK
  BY DEF IInv, Types, TypeOK, Rows, Subscriptions
<1> QED
  BY <1>1, Invariance, PTL

\* The POST of a plan change is never repeated, whoever dispatches, crashes,
\* recovers or abandons, and never sent for an abandoned operation.
THEOREM NeverAnotherPost == Spec => []PostedOnce
<1>1. IInv => PostedOnce
  BY DEF IInv, Sending, PostedOnce
<1> QED
  BY <1>1, Invariance, PTL

\* _store and the states of the operations keep one change under way.
THEOREM OneAtATime == Spec => []OneUnderWay
<1>1. IInv => OneUnderWay
  <2> SUFFICES ASSUME IInv PROVE Cardinality(Pending) <= 1
    BY DEF OneUnderWay
  <2>1. CASE Pending = {}
    BY <2>1, FS_EmptySet
  <2>2. CASE Pending # {}
    <3>1. PICK k : Pending = {k}
      BY <2>2 DEF IInv, Single
    <3> QED
      BY <3>1, FS_Singleton
  <2> QED
    BY <2>1, <2>2
<1> QED
  BY <1>1, Invariance, PTL

\* An entitlement changes only for an operation Flow carried out, and once.
THEOREM OnlyFlowChanges == Spec => []EventIsFlows
<1>1. IInv => EventIsFlows
  BY DEF IInv
<1> QED
  BY <1>1, Invariance, PTL
-----------------------------------------------------------------------------
(* The two sides agree, on top of IInv.  While nothing under way was carried *)
(* out, the events give what Flow has; between the POST and the event they   *)
(* do once the event is added that Apply will add, as long as it still can:  *)
(* in the operation's own period, or after the GET that confirmed it.        *)

Changing == {"upgrade", "downgrade"}

\* A change that is in effect in period n.
InForce(e, n) ==
  e.kind \in Changing /\ IF e.kind = "downgrade" THEN e.period < n ELSE e.period <= n

\* p is the plan of the last of the events, or the first plan.
IsLast(E, p) ==
  \/ E = {} /\ p = FirstPlan
  \/ \E e \in E : e.plan = p /\ \A f \in E : f.seq <= e.seq

\* The events E give what the subscription f has.
Agrees(E, f) ==
  /\ IsLast({e \in E : e.kind \in Changing}, f.next)
  /\ IsLast({e \in E : InForce(e, f.period)}, f.plan)
  /\ f.stops /\ f.active => \E e \in E : e.kind = "cancel" /\ e.period >= f.period

\* The event that confirms an operation.
EventOf(k) ==
  [seq |-> Cardinality(events) + 1, op |-> k, kind |-> op[k].kind,
   plan |-> op[k].target, period |-> op[k].period]

Taken == {"claim", "post", "remember", "verify", "apply", "fail"}

Ledger ==
  /\ IsFiniteSet(events)
  /\ \A e \in events :
       e.seq \in 1 .. Cardinality(events) /\ e.kind \in Kinds /\ e.period \in 0 .. flow.period
  /\ \A e, f \in events : e.seq = f.seq => e = f

\* What a request carries of an operation is what the row says.
Terms ==
  /\ \A k \in Ops : op[k].state # "none" => op[k].period <= flow.period
  /\ \A c \in Callers : call[c].pc = "store" => call[c].op.period <= flow.period
  /\ \A c \in Callers : call[c].pc \in Taken =>
       /\ op[call[c].id].state # "none"
       /\ call[c].op.kind = op[call[c].id].kind
       /\ call[c].op.target = op[call[c].id].target
       /\ call[c].op.period = op[call[c].id].period

Logged == \A k \in log : posts[k] = 1

Applying(k) == \E c \in Callers : call[c].pc = "apply" /\ call[c].id = k

Agreement ==
  /\ (\A k \in Pending : k \notin log) => Agrees(events, flow)
  /\ \A k \in Pending \cap log :
       op[k].period = flow.period \/ Applying(k) => Agrees(events \cup {EventOf(k)}, flow)

AInv == Ledger /\ Terms /\ Logged /\ Agreement

\* A renewal puts every change in force, and ends what was to stop.
LEMMA RenewedAgrees ==
  ASSUME NEW E, NEW f, NEW g, Agrees(E, f), f.period \in Nat,
         \A e \in E : e.period \in 0 .. f.period,
         g.period = f.period + 1, g.plan = f.next, g.next = f.next,
         g.stops = f.stops, g.active = ~f.stops
  PROVE  Agrees(E, g)
<1>1. {e \in E : InForce(e, g.period)} = {e \in E : e.kind \in Changing}
  <2>1. \A e \in E : InForce(e, g.period) <=> e.kind \in Changing
    BY DEF InForce
  <2> QED
    BY <2>1
<1>2. IsLast({e \in E : e.kind \in Changing}, f.next)
  BY DEF Agrees
<1>3. ~ (g.stops /\ g.active)
  OBVIOUS
<1> QED
  BY <1>1, <1>2, <1>3 DEF Agrees

\* The newest event decides.
LEMMA NewestIsLast ==
  ASSUME NEW E, NEW v, v.seq \in Nat, \A e \in E : e.seq \in Nat /\ e.seq < v.seq
  PROVE  IsLast(E \cup {v}, v.plan)
<1>1. \A f \in E \cup {v} : f.seq <= v.seq
  OBVIOUS
<1> QED
  BY <1>1 DEF IsLast

\* Flow carries out what an event then says.
LEMMA MutatedAgrees ==
  ASSUME NEW E, NEW v, flow \in Subscriptions, Agrees(E, flow),
         NEW o, o.kind = v.kind, o.target = v.plan, v.plan \in Plans,
         v.kind \in Kinds, v.period = flow.period,
         v.seq \in Nat, \A e \in E : e.seq \in Nat /\ e.seq < v.seq
  PROVE  Agrees(E \cup {v}, Mutated(o))
<1> DEFINE F == E \cup {v}
           C == {e \in E : e.kind \in Changing}
           N == {e \in E : InForce(e, flow.period)}
<1>0. flow.period \in Nat
  BY DEF Subscriptions
<1>1. IsLast(C, flow.next) /\ IsLast(N, flow.plan)
      /\ (flow.stops /\ flow.active => \E e \in E : e.kind = "cancel" /\ e.period >= flow.period)
  BY DEF Agrees
<1>2. CASE v.kind = "upgrade"
  <2>1. Mutated(o) = [flow EXCEPT !.plan = v.plan, !.next = v.plan]
    BY <1>2 DEF Mutated
  <2>2. /\ Mutated(o).plan = v.plan /\ Mutated(o).next = v.plan
        /\ Mutated(o).period = flow.period /\ Mutated(o).stops = flow.stops
        /\ Mutated(o).active = flow.active
    BY <2>1 DEF Subscriptions
  <2>3. {e \in F : e.kind \in Changing} = C \cup {v}
    BY <1>2 DEF Changing
  <2>4. InForce(v, flow.period)
    BY <1>0, <1>2 DEF InForce, Changing
  <2>5. {e \in F : InForce(e, flow.period)} = N \cup {v}
    BY <2>4
  <2>6. IsLast(C \cup {v}, v.plan) /\ IsLast(N \cup {v}, v.plan)
    BY NewestIsLast
  <2> HIDE DEF C, N
  <2> QED
    BY <1>1, <2>2, <2>3, <2>5, <2>6 DEF Agrees
<1>3. CASE v.kind = "downgrade"
  <2>1. Mutated(o) = [flow EXCEPT !.next = v.plan]
    BY <1>3 DEF Mutated
  <2>2. /\ Mutated(o).plan = flow.plan /\ Mutated(o).next = v.plan
        /\ Mutated(o).period = flow.period /\ Mutated(o).stops = flow.stops
        /\ Mutated(o).active = flow.active
    BY <2>1 DEF Subscriptions
  <2>3. {e \in F : e.kind \in Changing} = C \cup {v}
    BY <1>3 DEF Changing
  <2>4. ~ InForce(v, flow.period)
    BY <1>0, <1>3 DEF InForce
  <2>5. {e \in F : InForce(e, flow.period)} = N
    BY <2>4
  <2>6. IsLast(C \cup {v}, v.plan)
    BY NewestIsLast
  <2> HIDE DEF C, N
  <2> QED
    BY <1>1, <2>2, <2>3, <2>5, <2>6 DEF Agrees
<1>4. CASE v.kind \in {"cancel", "cancelNow"}
  <2>1. {e \in F : e.kind \in Changing} = C
    BY <1>4 DEF Changing
  <2>2. ~ InForce(v, flow.period)
    BY <1>4 DEF InForce, Changing
  <2>3. {e \in F : InForce(e, flow.period)} = N
    BY <2>2
  <2>4. CASE v.kind = "cancel"
    <3>1. Mutated(o) = [flow EXCEPT !.stops = TRUE]
      BY <2>4 DEF Mutated
    <3>2. Mutated(o).plan = flow.plan /\ Mutated(o).next = flow.next
          /\ Mutated(o).period = flow.period
      BY <3>1 DEF Subscriptions
    <3>3. v \in F /\ v.period >= flow.period
      BY <1>0
    <3> HIDE DEF C, N
    <3> QED
      BY <1>1, <2>1, <2>3, <2>4, <3>2, <3>3 DEF Agrees
  <2>5. CASE v.kind = "cancelNow"
    <3>1. Mutated(o) = [flow EXCEPT !.active = FALSE]
      BY <2>5 DEF Mutated
    <3>2. Mutated(o).plan = flow.plan /\ Mutated(o).next = flow.next
          /\ Mutated(o).period = flow.period /\ ~ Mutated(o).active
      BY <3>1 DEF Subscriptions
    <3> HIDE DEF C, N
    <3> QED
      BY <1>1, <2>1, <2>3, <3>2 DEF Agrees
  <2> QED
    BY <1>4, <2>4, <2>5
<1> QED
  BY <1>2, <1>3, <1>4 DEF Kinds

\* A row that exists keeps what was asked for.
LEMMA RowTerms ==
  ASSUME IInv, [Next]_vars, NEW k \in Ops, op[k].state # "none"
  PROVE  /\ op'[k].kind = op[k].kind /\ op'[k].target = op[k].target
         /\ op'[k].period = op[k].period /\ op'[k].state # "none"
<1>0. op \in [Ops -> Rows]
  BY DEF IInv, Types
<1>1. ASSUME NEW j \in Ops, Abandon(j) PROVE op'[k].kind = op[k].kind /\ op'[k].target = op[k].target
         /\ op'[k].period = op[k].period /\ op'[k].state # "none"
  BY <1>0, <1>1 DEF Abandon, Rows
<1>2. ASSUME NEW c \in Callers, Store(c) PROVE op'[k] = op[k]
  BY <1>0, <1>2 DEF Store
<1>3. ASSUME NEW c \in Callers, Claim(c) \/ Apply(c) \/ Fail(c)
      PROVE op'[k].kind = op[k].kind /\ op'[k].target = op[k].target
         /\ op'[k].period = op[k].period /\ op'[k].state # "none"
  BY <1>0, <1>3 DEF Claim, Apply, Fail, Rows
<1>4. ASSUME NEW c \in Callers, Remember(c)
      PROVE op'[k].kind = op[k].kind /\ op'[k].target = op[k].target
         /\ op'[k].period = op[k].period /\ op'[k].state # "none"
  <2> DEFINE r == IF op[call[c].id].result.known THEN op[call[c].id].result ELSE call[c].reply
  <2>1. op' = [op EXCEPT ![call[c].id].result = r]
    BY <1>4 DEF Remember
  <2> HIDE DEF r
  <2> QED
    BY <1>0, <2>1 DEF Rows
<1> QED
  BY <1>1, <1>2, <1>3, <1>4
  DEF Next, vars, Renew, RecordPeriod, PrepareRead, DispatchRead, Post, Recover, Verify, Crash

\* A request that took an operation up keeps it, or has just read its row.
LEMMA CallTerms ==
  ASSUME IInv, [Next]_vars, NEW d \in Callers, call'[d].pc \in Taken
  PROVE  \/ call[d].pc \in Taken /\ call'[d].id = call[d].id /\ call'[d].op = call[d].op
         \/ /\ call'[d].id \in Ops /\ op[call'[d].id].state # "none"
            /\ call'[d].op = op[call'[d].id]
<1> DEFINE Same == call[d].pc \in Taken /\ call'[d].id = call[d].id /\ call'[d].op = call[d].op
           Read == /\ call'[d].id \in Ops /\ op[call'[d].id].state # "none"
                   /\ call'[d].op = op[call'[d].id]
<1>0. call \in [Callers -> Calls] /\ Idle \in Calls /\ Idle.pc = "idle" /\ op \in [Ops -> Rows]
  BY IdleIsCall DEF IInv, Types
<1>1. ASSUME NEW c \in Callers, PrepareRead(c) PROVE Same
  <2>1. PICK k, o : call' = [call EXCEPT ![c] = [Idle EXCEPT !.pc = "store", !.id = k, !.op = o]]
    BY <1>1 DEF PrepareRead
  <2>2. [Idle EXCEPT !.pc = "store", !.id = k, !.op = o].pc = "store"
    BY <1>0 DEF Calls
  <2> QED
    BY <1>0, <2>1, <2>2 DEF Taken
<1>2. ASSUME NEW c \in Callers, Store(c) \/ Apply(c) \/ Fail(c) \/ Crash(c) PROVE Same
  BY <1>0, <1>2 DEF Store, Apply, Fail, Crash, Taken
<1>3. ASSUME NEW c \in Callers, DispatchRead(c) PROVE Same \/ Read
  <2>1. PICK k \in Ops : op[k].state = "prepared"
          /\ call' = [call EXCEPT ![c] = [Idle EXCEPT !.pc = "claim", !.id = k, !.op = op[k]]]
    BY <1>3 DEF DispatchRead
  <2> DEFINE x == [Idle EXCEPT !.pc = "claim", !.id = k, !.op = op[k]]
  <2>2. x.id = k /\ x.op = op[k]
    BY <1>0 DEF Calls
  <2> HIDE DEF x
  <2> QED
    BY <1>0, <2>1, <2>2
<1>4. ASSUME NEW c \in Callers, Recover(c) PROVE Same \/ Read
  <2>1. PICK k \in Ops : op[k].state \in {"dispatching", "uncertain"}
          /\ call' = [call EXCEPT ![c] = [Idle EXCEPT !.pc = "verify", !.id = k, !.op = op[k],
                                                    !.reply = op[k].result]]
    BY <1>4 DEF Recover
  <2> DEFINE x == [Idle EXCEPT !.pc = "verify", !.id = k, !.op = op[k], !.reply = op[k].result]
  <2>2. x.id = k /\ x.op = op[k]
    BY <1>0 DEF Calls
  <2> HIDE DEF x
  <2> QED
    BY <1>0, <2>1, <2>2
<1>5. ASSUME NEW c \in Callers, Claim(c) PROVE Same
  BY <1>0, <1>5 DEF Claim, At, Taken, Calls
<1>6. ASSUME NEW c \in Callers, Post(c) PROVE Same
  <2> DEFINE r == [known |-> TRUE, period |-> flow.period]
  <2>1. \/ call' = [call EXCEPT ![c].pc = "fail"]
        \/ call' = [call EXCEPT ![c].pc = "remember", ![c].reply = r]
    BY <1>6 DEF Post
  <2>2. call[c].pc = "post"
    BY <1>6 DEF Post, At
  <2> HIDE DEF r
  <2> QED
    BY <1>0, <2>1, <2>2 DEF Taken, Calls
<1>7. ASSUME NEW c \in Callers, Remember(c) PROVE Same
  <2>1. PICK r : call' = [call EXCEPT ![c].pc = "verify", ![c].reply = r]
    BY <1>7 DEF Remember
  <2>2. call[c].pc = "remember"
    BY <1>7 DEF Remember, At
  <2> QED
    BY <1>0, <2>1, <2>2 DEF Taken, Calls
<1>8. ASSUME NEW c \in Callers, Verify(c) PROVE Same
  <2>1. PICK to : call' = [call EXCEPT ![c].pc = to]
    BY <1>8 DEF Verify
  <2>2. call[c].pc = "verify"
    BY <1>8 DEF Verify, At
  <2> QED
    BY <1>0, <2>1, <2>2 DEF Taken, Calls
<1> HIDE DEF Same, Read
<1>9. ASSUME UNCHANGED call PROVE Same
  BY <1>9 DEF Same, Taken
<1>10. Same \/ Read
  BY <1>1, <1>2, <1>3, <1>4, <1>5, <1>6, <1>7, <1>8, <1>9
  DEF Next, vars, Renew, RecordPeriod, Abandon
<1> QED
  BY <1>10 DEF Same, Read

\* A request gets to "apply" only from a GET that confirmed the operation.
LEMMA ApplyFrom ==
  ASSUME IInv, [Next]_vars, NEW d \in Callers, call'[d].pc = "apply"
  PROVE  \/ call[d].pc = "apply" /\ call'[d].id = call[d].id
         \/ call[d].pc = "verify" /\ call'[d].id = call[d].id
            /\ flow.period = call[d].op.period /\ flow' = flow
<1> DEFINE Same == call[d].pc = "apply" /\ call'[d].id = call[d].id
           Read == call[d].pc = "verify" /\ call'[d].id = call[d].id
                   /\ flow.period = call[d].op.period /\ flow' = flow
<1>0. call \in [Callers -> Calls] /\ Idle \in Calls /\ Idle.pc = "idle"
  BY IdleIsCall DEF IInv, Types
<1>1. ASSUME NEW c \in Callers, NEW x, x.pc # "apply", call' = [call EXCEPT ![c] = x] PROVE Same
  BY <1>0, <1>1
<1>2. ASSUME NEW k, NEW o, NEW r
      PROVE  /\ [Idle EXCEPT !.pc = "store", !.id = k, !.op = o].pc = "store"
             /\ [Idle EXCEPT !.pc = "claim", !.id = k, !.op = o].pc = "claim"
             /\ [Idle EXCEPT !.pc = "verify", !.id = k, !.op = o, !.reply = r].pc = "verify"
  BY <1>0 DEF Calls
<1>3. ASSUME NEW c \in Callers, PrepareRead(c) \/ DispatchRead(c) \/ Recover(c) PROVE Same
  <2>1. ASSUME PrepareRead(c) PROVE Same
    <3>1. PICK k, o : call' = [call EXCEPT ![c] = [Idle EXCEPT !.pc = "store", !.id = k, !.op = o]]
      BY <2>1 DEF PrepareRead
    <3> QED
      BY <1>1, <1>2, <3>1
  <2>2. ASSUME DispatchRead(c) PROVE Same
    <3>1. PICK k, o : call' = [call EXCEPT ![c] = [Idle EXCEPT !.pc = "claim", !.id = k, !.op = o]]
      BY <2>2 DEF DispatchRead
    <3> QED
      BY <1>1, <1>2, <3>1
  <2>3. ASSUME Recover(c) PROVE Same
    <3>1. PICK k \in Ops :
            call' = [call EXCEPT ![c] = [Idle EXCEPT !.pc = "verify", !.id = k, !.op = op[k],
                                                    !.reply = op[k].result]]
      BY <2>3 DEF Recover
    <3> DEFINE x == [Idle EXCEPT !.pc = "verify", !.id = k, !.op = op[k], !.reply = op[k].result]
    <3>2. x.pc = "verify"
      BY <1>2
    <3>3. call' = [call EXCEPT ![c] = x]
      BY <3>1
    <3> HIDE DEF x
    <3> QED
      BY <1>1, <3>2, <3>3
  <2> QED
    BY <1>3, <2>1, <2>2, <2>3
<1>4. ASSUME NEW c \in Callers, Store(c) \/ Apply(c) \/ Fail(c) \/ Crash(c) PROVE Same
  BY <1>0, <1>4 DEF Store, Apply, Fail, Crash
<1>5. ASSUME NEW c \in Callers, Claim(c) PROVE Same
  BY <1>0, <1>5 DEF Claim, Calls
<1>6. ASSUME NEW c \in Callers, Post(c) PROVE Same
  <2>1. PICK r : \/ call' = [call EXCEPT ![c].pc = "fail"]
                 \/ call' = [call EXCEPT ![c].pc = "remember", ![c].reply = r]
    BY <1>6 DEF Post
  <2> QED
    BY <1>0, <2>1 DEF Calls
<1>7. ASSUME NEW c \in Callers, Remember(c) PROVE Same
  <2>1. PICK r : call' = [call EXCEPT ![c].pc = "verify", ![c].reply = r]
    BY <1>7 DEF Remember
  <2> QED
    BY <1>0, <2>1 DEF Calls
<1>8. ASSUME NEW c \in Callers, Verify(c) PROVE Same \/ Read
  <2>1. /\ call[c].pc = "verify" /\ flow' = flow
        /\ \/ call' = [call EXCEPT ![c].pc = "apply"] /\ flow.period = call[c].op.period
           \/ call' = [call EXCEPT ![c].pc = "fail"]
    BY <1>8 DEF Verify, At, Confirms
  <2> QED
    BY <1>0, <2>1 DEF Calls
<1> HIDE DEF Same, Read
<1>9. ASSUME UNCHANGED call PROVE Same
  BY <1>9 DEF Same, Taken
<1>10. Same \/ Read
  BY <1>3, <1>4, <1>5, <1>6, <1>7, <1>8, <1>9 DEF Next, vars, Renew, RecordPeriod, Abandon
<1> QED
  BY <1>10 DEF Same, Read

\* What a request leaves alone.
LEMMA Unmoved ==
  ASSUME NEW c \in Callers
  PROVE  /\ PrepareRead(c) => UNCHANGED <<op, events, paid, flow, log, posts>>
         /\ DispatchRead(c) => UNCHANGED <<op, events, paid, flow, log, posts>>
         /\ Recover(c) => UNCHANGED <<op, events, paid, flow, log, posts>>
         /\ Verify(c) => UNCHANGED <<op, events, paid, flow, log, posts>>
         /\ Crash(c) => UNCHANGED <<op, events, paid, flow, log, posts>>
         /\ Store(c) => UNCHANGED <<events, paid, flow, log, posts>>
         /\ Claim(c) => UNCHANGED <<events, paid, flow, log, posts>>
         /\ Remember(c) => UNCHANGED <<events, paid, flow, log, posts>>
         /\ Fail(c) => UNCHANGED <<events, paid, flow, log, posts>>
         /\ Apply(c) => UNCHANGED <<paid, flow, log, posts>>
         /\ Post(c) => UNCHANGED <<op, events, paid>>
<1>1. PrepareRead(c) => UNCHANGED <<op, events, paid, flow, log, posts>>
  BY DEF PrepareRead
<1>2. DispatchRead(c) => UNCHANGED <<op, events, paid, flow, log, posts>>
  BY DEF DispatchRead
<1>3. Recover(c) => UNCHANGED <<op, events, paid, flow, log, posts>>
  BY DEF Recover
<1>4. Verify(c) \/ Crash(c) => UNCHANGED <<op, events, paid, flow, log, posts>>
  BY DEF Verify, Crash
<1>5. Store(c) \/ Claim(c) => UNCHANGED <<events, paid, flow, log, posts>>
  BY DEF Store, Claim
<1>6. Remember(c) \/ Fail(c) => UNCHANGED <<events, paid, flow, log, posts>>
  BY DEF Remember, Fail
<1>7. Apply(c) => UNCHANGED <<paid, flow, log, posts>>
  BY DEF Apply
<1>8. Post(c) => UNCHANGED <<op, events, paid>>
  BY DEF Post
<1> QED
  BY <1>1, <1>2, <1>3, <1>4, <1>5, <1>6, <1>7, <1>8

\* Periods only grow.
LEMMA PeriodGrows ==
  ASSUME IInv, [Next]_vars
  PROVE  flow.period \in Nat /\ flow'.period \in Nat /\ flow.period <= flow'.period
<1>0. flow \in Subscriptions /\ flow.period \in Nat
  BY DEF IInv, Types, Subscriptions
<1>1. CASE Renew
  <2> DEFINE on == ~flow.stops
  <2>1. flow' = [flow EXCEPT !.period = flow.period + 1, !.plan = flow.next, !.active = on]
    BY <1>1 DEF Renew
  <2> HIDE DEF on
  <2> QED
    BY <1>0, <2>1 DEF Subscriptions
<1>2. ASSUME NEW c \in Callers, Post(c) PROVE flow'.period = flow.period
  <2>1. call[c].op.kind \in Kinds
    BY <1>2 DEF Post, At, IInv, Working
  <2>2. Mutated(call[c].op).period = flow.period
    BY <1>0, <2>1 DEF Mutated, Subscriptions, Kinds
  <2> QED
    BY <1>2, <2>2 DEF Post
<1>3. CASE UNCHANGED flow
  BY <1>0, <1>3
<1>4. ASSUME NEW c \in Callers, ~ Post(c),
             \/ PrepareRead(c) \/ Store(c) \/ DispatchRead(c) \/ Claim(c) \/ Remember(c)
             \/ Recover(c) \/ Verify(c) \/ Apply(c) \/ Fail(c) \/ Crash(c)
      PROVE  UNCHANGED flow
  BY <1>4, Unmoved
<1>5. ASSUME RecordPeriod \/ (\E k \in Ops : Abandon(k)) \/ UNCHANGED vars PROVE UNCHANGED flow
  BY <1>5 DEF RecordPeriod, Abandon, vars
<1> QED
  BY <1>0, <1>1, <1>2, <1>3, <1>4, <1>5 DEF Next

\* A row comes into being by _store, as the request prepared it.
LEMMA NewRow ==
  ASSUME IInv, [Next]_vars, NEW k \in Ops, op[k].state = "none", op'[k].state # "none"
  PROVE  \E c \in Callers : Store(c) /\ call[c].pc = "store" /\ op'[k] = call[c].op
<1>0. op \in [Ops -> Rows]
  BY DEF IInv, Types
<1>1. ASSUME NEW j \in Ops, Abandon(j) PROVE FALSE
  BY <1>0, <1>1 DEF Abandon
<1>2. ASSUME NEW c \in Callers, Claim(c) \/ Apply(c) \/ Fail(c) PROVE FALSE
  BY <1>0, <1>2 DEF Claim, Apply, Fail
<1>3. ASSUME NEW c \in Callers, Remember(c) PROVE FALSE
  <2>1. PICK r : op' = [op EXCEPT ![call[c].id].result = r]
    BY <1>3 DEF Remember
  <2> QED
    BY <1>0, <2>1 DEF Rows
<1>4. ASSUME NEW c \in Callers, Store(c)
      PROVE  call[c].pc = "store" /\ op'[k] = call[c].op
  BY <1>0, <1>4 DEF Store, At
<1>5. ASSUME NEW c \in Callers,
             PrepareRead(c) \/ DispatchRead(c) \/ Post(c) \/ Recover(c) \/ Verify(c) \/ Crash(c)
      PROVE  FALSE
  BY <1>5, Unmoved
<1>6. ~ UNCHANGED vars /\ ~ Renew /\ ~ RecordPeriod
  BY DEF vars, Renew, RecordPeriod
<1> QED
  BY <1>1, <1>2, <1>3, <1>4, <1>5, <1>6 DEF Next

\* What a request prepares.
LEMMA PreparedCall ==
  ASSUME NEW c \in Callers, PrepareRead(c)
  PROVE  \E k \in {j \in Ops : op[j].state = "none"}, t \in Plans,
            kind \in {"change", "cancel", "cancelNow"} :
           call' = [call EXCEPT ![c] = [Idle EXCEPT !.pc = "store", !.id = k, !.op = Prepared(t, kind)]]
BY DEF PrepareRead

\* A request is about to store what it has just prepared, or still is.
LEMMA StoreFrom ==
  ASSUME IInv, [Next]_vars, NEW d \in Callers, call'[d].pc = "store"
  PROVE  \/ call[d].pc = "store" /\ call'[d] = call[d]
         \/ call'[d].op.period = paid
<1>0. call \in [Callers -> Calls] /\ Idle \in Calls /\ Idle.pc = "idle"
  BY IdleIsCall DEF IInv, Types
<1> DEFINE Same == call[d].pc = "store" /\ call'[d] = call[d]
           Read == call'[d].op.period = paid
<1>1. ASSUME NEW c \in Callers, PrepareRead(c) PROVE Same \/ Read
  <2>1. PICK k \in {j \in Ops : op[j].state = "none"}, t \in Plans,
             kind \in {"change", "cancel", "cancelNow"} :
          call' = [call EXCEPT ![c] = [Idle EXCEPT !.pc = "store", !.id = k, !.op = Prepared(t, kind)]]
    BY <1>1, PreparedCall
  <2> DEFINE o == Prepared(t, kind)
             x == [Idle EXCEPT !.pc = "store", !.id = k, !.op = o]
  <2>2. o.period = paid
    BY DEF Prepared
  <2> HIDE DEF o
  <2>3. x.op = o
    BY <1>0 DEF Calls
  <2>4. call' = [call EXCEPT ![c] = x]
    BY <2>1 DEF o
  <2> HIDE DEF x
  <2> QED
    BY <1>0, <2>2, <2>3, <2>4
<1>2. ASSUME NEW c \in Callers, Store(c) \/ Apply(c) \/ Fail(c) \/ Crash(c) PROVE Same
  BY <1>0, <1>2 DEF Store, Apply, Fail, Crash
<1>3. ASSUME NEW c \in Callers, NEW x, x.pc # "store", call' = [call EXCEPT ![c] = x] PROVE Same
  BY <1>0, <1>3
<1>4. ASSUME NEW c \in Callers, DispatchRead(c) PROVE Same
  <2>1. PICK k \in Ops :
          call' = [call EXCEPT ![c] = [Idle EXCEPT !.pc = "claim", !.id = k, !.op = op[k]]]
    BY <1>4 DEF DispatchRead
  <2> DEFINE x == [Idle EXCEPT !.pc = "claim", !.id = k, !.op = op[k]]
  <2>2. x.pc = "claim"
    BY <1>0 DEF Calls
  <2>3. call' = [call EXCEPT ![c] = x]
    BY <2>1
  <2> HIDE DEF x
  <2> QED
    BY <1>3, <2>2, <2>3
<1>5. ASSUME NEW c \in Callers, Recover(c) PROVE Same
  <2>1. PICK k \in Ops :
          call' = [call EXCEPT ![c] = [Idle EXCEPT !.pc = "verify", !.id = k, !.op = op[k],
                                                  !.reply = op[k].result]]
    BY <1>5 DEF Recover
  <2> DEFINE x == [Idle EXCEPT !.pc = "verify", !.id = k, !.op = op[k], !.reply = op[k].result]
  <2>2. x.pc = "verify"
    BY <1>0 DEF Calls
  <2>3. call' = [call EXCEPT ![c] = x]
    BY <2>1
  <2> HIDE DEF x
  <2> QED
    BY <1>3, <2>2, <2>3
<1>6. ASSUME NEW c \in Callers, Claim(c) PROVE Same
  BY <1>0, <1>6 DEF Claim, Calls
<1>7. ASSUME NEW c \in Callers, Post(c) PROVE Same
  <2>1. PICK r : \/ call' = [call EXCEPT ![c].pc = "fail"]
                 \/ call' = [call EXCEPT ![c].pc = "remember", ![c].reply = r]
    BY <1>7 DEF Post
  <2> QED
    BY <1>0, <2>1 DEF Calls
<1>8. ASSUME NEW c \in Callers, Remember(c) PROVE Same
  <2>1. PICK r : call' = [call EXCEPT ![c].pc = "verify", ![c].reply = r]
    BY <1>8 DEF Remember
  <2> QED
    BY <1>0, <2>1 DEF Calls
<1>9. ASSUME NEW c \in Callers, Verify(c) PROVE Same
  <2>1. \/ call' = [call EXCEPT ![c].pc = "apply"]
        \/ call' = [call EXCEPT ![c].pc = "fail"]
    BY <1>9 DEF Verify
  <2> QED
    BY <1>0, <2>1 DEF Calls
<1> HIDE DEF Same, Read
<1>10. ASSUME UNCHANGED call PROVE Same
  BY <1>10 DEF Same
<1>11. Same \/ Read
  BY <1>1, <1>2, <1>4, <1>5, <1>6, <1>7, <1>8, <1>9, <1>10 DEF Next, vars, Renew, RecordPeriod, Abandon
<1> QED
  BY <1>11 DEF Same, Read

\* Rows and requests keep telling the same about an operation.
LEMMA TermsStep ==
  ASSUME IInv, Terms, [Next]_vars
  PROVE  Terms'
<1>0. /\ op \in [Ops -> Rows] /\ call \in [Callers -> Calls] /\ paid \in Nat /\ paid <= flow.period
      /\ flow.period \in Nat /\ flow'.period \in Nat /\ flow.period <= flow'.period
  BY PeriodGrows DEF IInv, Types
<1>1. ASSUME NEW k \in Ops, op'[k].state # "none" PROVE op'[k].period <= flow'.period
  <2>1. CASE op[k].state # "none"
    <3>1. op'[k].period = op[k].period /\ op[k].period <= flow.period /\ op[k].period \in Nat
      BY <1>0, <2>1, RowTerms DEF Terms, Rows
    <3> QED
      BY <1>0, <3>1
  <2>2. CASE op[k].state = "none"
    <3>1. PICK c \in Callers : call[c].pc = "store" /\ op'[k] = call[c].op
      BY <1>1, <2>2, NewRow
    <3>2. call[c].op.period <= flow.period /\ call[c].op.period \in Nat
      BY <1>0, <3>1 DEF Terms, Calls, Rows
    <3> QED
      BY <1>0, <3>1, <3>2
  <2> QED
    BY <2>1, <2>2
<1>2. ASSUME NEW d \in Callers, call'[d].pc = "store" PROVE call'[d].op.period <= flow'.period
  <2>1. CASE call[d].pc = "store" /\ call'[d] = call[d]
    <3>1. call[d].op.period <= flow.period /\ call[d].op.period \in Nat
      BY <1>0, <2>1 DEF Terms, Calls, Rows
    <3> QED
      BY <1>0, <2>1, <3>1
  <2>2. CASE call'[d].op.period = paid
    BY <1>0, <2>2
  <2> QED
    BY <1>2, <2>1, <2>2, StoreFrom
<1>3. ASSUME NEW d \in Callers, call'[d].pc \in Taken
      PROVE  /\ op'[call'[d].id].state # "none"
             /\ call'[d].op.kind = op'[call'[d].id].kind
             /\ call'[d].op.target = op'[call'[d].id].target
             /\ call'[d].op.period = op'[call'[d].id].period
  <2>1. PICK k : k = call'[d].id
    OBVIOUS
  <2>2. CASE call[d].pc \in Taken /\ call'[d].id = call[d].id /\ call'[d].op = call[d].op
    <3>1. k \in Ops /\ op[k].state # "none"
      BY <2>1, <2>2 DEF IInv, Working, Terms, Taken
    <3> QED
      BY <2>1, <2>2, <3>1, RowTerms DEF Terms
  <2>3. CASE k \in Ops /\ op[k].state # "none" /\ call'[d].op = op[k]
    BY <2>1, <2>3, RowTerms
  <2> QED
    BY <1>3, <2>1, <2>2, <2>3, CallTerms
<1> QED
  BY <1>1, <1>2, <1>3 DEF Terms

\* What is carried out was sent.
LEMMA LoggedStep ==
  ASSUME IInv, Logged, [Next]_vars
  PROVE  Logged'
<1>0. log \subseteq Ops /\ posts \in [Ops -> Nat]
  BY DEF IInv, Types
<1>1. ASSUME NEW c \in Callers, Post(c) PROVE Logged'
  <2> DEFINE k == call[c].id
  <2>1. k \in Ops /\ posts[k] = 0
    BY <1>1 DEF Post, At, IInv, Sending, Working
  <2>2. posts' = [posts EXCEPT ![k] = 1] /\ log' \in {log, log \cup {k}}
    BY <1>1, <2>1 DEF Post
  <2> HIDE DEF k
  <2> QED
    BY <1>0, <2>1, <2>2 DEF Logged
<1>2. ASSUME UNCHANGED <<log, posts>> PROVE Logged'
  BY <1>2 DEF Logged
<1>3. ASSUME NEW c \in Callers, ~ Post(c),
             \/ PrepareRead(c) \/ Store(c) \/ DispatchRead(c) \/ Claim(c) \/ Remember(c)
             \/ Recover(c) \/ Verify(c) \/ Apply(c) \/ Fail(c) \/ Crash(c)
      PROVE  UNCHANGED <<log, posts>>
  BY <1>3, Unmoved
<1>4. ASSUME Renew \/ RecordPeriod \/ (\E k \in Ops : Abandon(k)) \/ UNCHANGED vars
      PROVE  UNCHANGED <<log, posts>>
  BY <1>4 DEF Renew, RecordPeriod, Abandon, vars
<1> QED
  BY <1>1, <1>2, <1>3, <1>4 DEF Next

\* Only Apply adds an event: of a pending operation, newer than the others.
LEMMA EventsGrow ==
  ASSUME IInv, Terms, [Next]_vars
  PROVE  \/ events' = events
         \/ \E c \in Callers : LET k == call[c].id IN
              /\ Apply(c) /\ call[c].pc = "apply" /\ k \in Pending \cap log
              /\ events' = events \cup {EventOf(k)} /\ flow' = flow /\ log' = log
              /\ op' = [op EXCEPT ![k].state = "confirmed"]
<1>1. ASSUME NEW c \in Callers, Apply(c), events' # events
      PROVE  LET k == call[c].id IN
              /\ call[c].pc = "apply" /\ k \in Pending \cap log
              /\ events' = events \cup {EventOf(k)} /\ flow' = flow /\ log' = log
              /\ op' = [op EXCEPT ![k].state = "confirmed"]
  BY <1>1 DEF Apply, At, IInv, Working, Confirming, Known, Pending, EventOf
<1>2. ASSUME NEW c \in Callers, ~ Apply(c),
             \/ PrepareRead(c) \/ Store(c) \/ DispatchRead(c) \/ Claim(c) \/ Remember(c) \/ Post(c)
             \/ Recover(c) \/ Verify(c) \/ Fail(c) \/ Crash(c)
      PROVE  events' = events
  BY <1>2, Unmoved
<1>3. ASSUME Renew \/ RecordPeriod \/ (\E k \in Ops : Abandon(k)) \/ UNCHANGED vars
      PROVE  events' = events
  BY <1>3 DEF Renew, RecordPeriod, Abandon, vars
<1> QED
  BY <1>1, <1>2, <1>3 DEF Next

\* The event of a pending operation is the newest.
LEMMA EventIsNew ==
  ASSUME IInv, Ledger, Terms, NEW k \in Pending
  PROVE  LET v == EventOf(k) IN
         /\ v.seq = Cardinality(events) + 1 /\ v.seq \in Nat /\ v.kind = op[k].kind
         /\ v.plan = op[k].target /\ v.period = op[k].period
         /\ v.kind \in Kinds /\ v.plan \in Plans /\ v.period \in 0 .. flow.period
         /\ \A e \in events : e.seq \in Nat /\ e.seq < v.seq
<1>1. k \in Ops /\ op[k].state # "none" /\ op[k] \in Rows
  BY DEF Pending, IInv, Types
<1>2. op[k].kind \in Kinds /\ op[k].target \in Plans /\ op[k].period \in Nat
      /\ op[k].period <= flow.period /\ flow.period \in Nat
  BY <1>1 DEF IInv, Types, Working, Terms, Rows, Subscriptions
<1>3. Cardinality(events) \in Nat
  BY FS_CardinalityType DEF Ledger
<1>4. \A e \in events : e.seq \in 1 .. Cardinality(events)
  BY DEF Ledger
<1> QED
  BY <1>2, <1>3, <1>4 DEF EventOf

\* Events stay numbered in the order they were confirmed.
LEMMA LedgerStep ==
  ASSUME IInv, Ledger, Terms, [Next]_vars
  PROVE  Ledger'
<1>0. flow.period \in Nat /\ flow'.period \in Nat /\ flow.period <= flow'.period
  BY PeriodGrows
<1>1. CASE events' = events
  BY <1>0, <1>1 DEF Ledger
<1>2. ASSUME NEW k \in Pending, events' = events \cup {EventOf(k)}, flow' = flow PROVE Ledger'
  <2> DEFINE v == EventOf(k)
  <2>1. /\ v.seq = Cardinality(events) + 1 /\ v.seq \in Nat
        /\ v.kind \in Kinds /\ v.period \in 0 .. flow.period
        /\ \A e \in events : e.seq \in Nat /\ e.seq < v.seq
    BY <1>2, EventIsNew
  <2> HIDE DEF v
  <2>2. events' = events \cup {v} /\ v \notin events /\ IsFiniteSet(events)
    BY <1>2, <2>1 DEF v, Ledger
  <2>3. IsFiniteSet(events') /\ Cardinality(events') = Cardinality(events) + 1
        /\ Cardinality(events) \in Nat
    BY <2>2, FS_AddElement, FS_CardinalityType
  <2>4. \A e \in events' :
          e.seq \in 1 .. Cardinality(events') /\ e.kind \in Kinds /\ e.period \in 0 .. flow'.period
    BY <1>2, <2>1, <2>2, <2>3 DEF Ledger
  <2>5. \A e, f \in events' : e.seq = f.seq => e = f
    BY <2>1, <2>2 DEF Ledger
  <2> QED
    BY <2>3, <2>4, <2>5 DEF Ledger
<1> QED
  BY <1>1, <1>2, EventsGrow

\* A step that changes no event, nothing at Flow and no pending operation's
\* terms, and whose new request at "apply" is in the operation's period.
LEMMA QuietAgreement ==
  ASSUME Agreement, UNCHANGED <<events, flow, log>>, Pending' = Pending,
         \A k \in Pending : EventOf(k)' = EventOf(k) /\ op'[k].period = op[k].period,
         \A k \in Pending : Applying(k)' => Applying(k) \/ op[k].period = flow.period
  PROVE  Agreement'
<1>1. (\A k \in Pending' : k \notin log') => Agrees(events', flow')
  BY DEF Agreement
<1>2. ASSUME NEW k \in Pending' \cap log', op'[k].period = flow'.period \/ Applying(k)'
      PROVE  Agrees(events' \cup {EventOf(k)'}, flow')
  BY <1>2 DEF Agreement
<1> QED
  BY <1>1, <1>2 DEF Agreement

\* Requests that leave every operation pending are quiet.
LEMMA QuietStep ==
  ASSUME IInv, Terms, Agreement, [Next]_vars, UNCHANGED <<events, flow, log>>,
         Pending' = Pending
  PROVE  Agreement'
<1>1. ASSUME NEW k \in Pending
      PROVE  EventOf(k)' = EventOf(k) /\ op'[k].period = op[k].period
  <2>1. k \in Ops /\ op[k].state # "none"
    BY DEF Pending
  <2> QED
    BY <2>1, RowTerms DEF EventOf
<1>2. ASSUME NEW k \in Pending, Applying(k)'
      PROVE  Applying(k) \/ op[k].period = flow.period
  <2>1. PICK d \in Callers : call'[d].pc = "apply" /\ call'[d].id = k
    BY <1>2 DEF Applying
  <2>2. CASE call[d].pc = "apply" /\ call'[d].id = call[d].id
    BY <2>1, <2>2 DEF Applying
  <2>3. CASE call[d].pc = "verify" /\ call'[d].id = call[d].id /\ flow.period = call[d].op.period
    BY <2>1, <2>3 DEF Terms, Taken
  <2> QED
    BY <2>1, <2>2, <2>3, ApplyFrom
<1> QED
  BY <1>1, <1>2, QuietAgreement

\* Flow carries a pending operation out: only now, and only once.
LEMMA PostAgreement ==
  ASSUME IInv, AInv, NEW c \in Callers, Post(c)
  PROVE  Agreement'
<1>0. PICK k : k = call[c].id
  OBVIOUS
<1>1. /\ k \in Ops /\ call[c].pc = "post" /\ op[k].state = "dispatching" /\ posts[k] = 0
      /\ k \in Pending /\ flow \in Subscriptions /\ call[c].op.kind \in Kinds
  BY <1>0 DEF Post, At, IInv, Types, Working, Sending, Pending
<1>2. k \notin log /\ \A j \in Pending : j = k
  BY <1>1 DEF AInv, Logged, IInv, Single
<1>3. Agrees(events, flow)
  BY <1>2 DEF AInv, Agreement
<1>4. UNCHANGED <<op, events>> /\ Pending' = Pending /\ EventOf(k)' = EventOf(k)
  BY Unmoved DEF Pending, EventOf
<1>5. CASE flow' = flow /\ log' = log
  <2>1. Agrees(events', flow')
    BY <1>3, <1>4, <1>5
  <2>2. \A j \in Pending' : j \notin log'
    BY <1>2, <1>4, <1>5
  <2> QED
    BY <2>1, <2>2 DEF Agreement
<1>6. CASE flow' = Mutated(call[c].op) /\ log' = log \cup {k}
  <2>1. flow'.period = flow.period
    BY <1>1, <1>6 DEF Mutated, Subscriptions, Kinds
  <2>2. ~ Applying(k)'
    <3>1. ASSUME NEW d \in Callers, call'[d].pc = "apply", call'[d].id = k PROVE FALSE
      <4>1. [Next]_vars
        BY DEF Next
      <4>2. call[d].pc \in {"apply", "verify"} /\ call[d].id = k
        BY <3>1, <4>1, ApplyFrom
      <4> QED
        BY <1>2, <4>2 DEF IInv, Confirming, Known
    <3> QED
      BY <3>1 DEF Applying
  <2>3. ASSUME op[k].period = flow.period
        PROVE  Agrees(events \cup {EventOf(k)}, flow')
    <3> DEFINE v == EventOf(k)
    <3>1. /\ v.kind = op[k].kind /\ v.plan = op[k].target /\ v.period = op[k].period
          /\ v.kind \in Kinds /\ v.plan \in Plans /\ v.seq \in Nat
          /\ \A e \in events : e.seq \in Nat /\ e.seq < v.seq
      BY <1>1, EventIsNew DEF AInv
    <3> HIDE DEF v
    <3>2. call[c].op.kind = v.kind /\ call[c].op.target = v.plan
      BY <1>0, <1>1, <3>1 DEF AInv, Terms, Taken
    <3>3. Agrees(events \cup {v}, Mutated(call[c].op))
      BY <1>1, <1>3, <2>3, <3>1, <3>2, MutatedAgrees
    <3> QED
      BY <1>6, <3>3 DEF v
  <2>4. \A j \in Pending' \cap log' : j = k
    BY <1>2, <1>4
  <2>5. k \in Pending' /\ k \in log'
    BY <1>1, <1>4, <1>6
  <2> QED
    BY <1>4, <2>1, <2>2, <2>3, <2>4, <2>5 DEF Agreement
<1> QED
  BY <1>0, <1>5, <1>6 DEF Post

\* Flow renews: changes come into force on both sides at the same moment.
LEMMA RenewAgreement ==
  ASSUME IInv, AInv, Renew
  PROVE  Agreement'
<1> DEFINE on == ~flow.stops
<1>0. flow \in Subscriptions /\ flow.period \in Nat
  BY DEF IInv, Types, Subscriptions
<1>1. flow' = [flow EXCEPT !.period = flow.period + 1, !.plan = flow.next, !.active = on]
      /\ UNCHANGED <<op, events, log, call>>
  BY DEF Renew
<1>2. /\ flow'.period = flow.period + 1 /\ flow'.plan = flow.next /\ flow'.next = flow.next
      /\ flow'.stops = flow.stops /\ flow'.active = on
  <2> HIDE DEF on
  <2> QED
    BY <1>0, <1>1 DEF Subscriptions
<1>3. Pending' = Pending /\ \A k : EventOf(k)' = EventOf(k) /\ (Applying(k)' <=> Applying(k))
  BY <1>1 DEF Pending, EventOf, Applying
<1>4. \A e \in events : e.period \in 0 .. flow.period
  BY DEF AInv, Ledger
<1>5. ASSUME Agrees(events, flow) PROVE Agrees(events, flow')
  BY <1>0, <1>2, <1>4, <1>5, RenewedAgrees
<1>6. ASSUME NEW k \in Pending, Agrees(events \cup {EventOf(k)}, flow)
      PROVE  Agrees(events \cup {EventOf(k)}, flow')
  <2>1. EventOf(k).period \in 0 .. flow.period
    BY EventIsNew DEF AInv
  <2>2. \A e \in events \cup {EventOf(k)} : e.period \in 0 .. flow.period
    BY <1>4, <2>1
  <2> QED
    BY <1>0, <1>2, <1>6, <2>2, RenewedAgrees
<1>7. ASSUME NEW k \in Pending \cap log PROVE op[k].period # flow'.period
  <2>1. k \in Ops /\ op[k].state # "none" /\ op[k] \in Rows
    BY <1>7 DEF Pending, IInv, Types
  <2>2. op[k].period \in Nat /\ op[k].period <= flow.period
    BY <2>1 DEF AInv, Terms, Rows
  <2> QED
    BY <1>0, <1>2, <2>2
<1>8. (\A k \in Pending' : k \notin log') => Agrees(events', flow')
  BY <1>1, <1>3, <1>5 DEF AInv, Agreement
<1>9. ASSUME NEW k \in Pending' \cap log', op'[k].period = flow'.period \/ Applying(k)'
      PROVE  Agrees(events' \cup {EventOf(k)'}, flow')
  <2>1. k \in Pending \cap log /\ Applying(k)
    BY <1>1, <1>3, <1>7, <1>9
  <2>2. Agrees(events \cup {EventOf(k)}, flow)
    BY <2>1 DEF AInv, Agreement
  <2> QED
    BY <1>1, <1>3, <1>6, <2>1, <2>2
<1> QED
  BY <1>8, <1>9 DEF Agreement

\* The event closes the gap that the POST opened.
LEMMA ApplyAgreement ==
  ASSUME IInv, AInv, NEW c \in Callers, NEW k, k = call[c].id, call[c].pc = "apply",
         k \in Pending \cap log, events' = events \cup {EventOf(k)}, flow' = flow,
         op' = [op EXCEPT ![k].state = "confirmed"]
  PROVE  Agreement'
<1>1. Agrees(events', flow')
  BY DEF AInv, Agreement, Applying
<1>2. op \in [Ops -> Rows] /\ k \in Ops /\ \A j \in Pending : j = k
  BY DEF IInv, Types, Single, Pending
<1>3. Pending' = {}
  BY <1>2 DEF Pending, Rows
<1> QED
  BY <1>1, <1>3 DEF Agreement

\* Nothing else opens one.
LEMMA AgreementStep ==
  ASSUME IInv, AInv, [Next]_vars
  PROVE  Agreement'
<1>0. op \in [Ops -> Rows]
  BY DEF IInv, Types
<1>a. ASSUME UNCHANGED <<events, flow, log>>, Pending' = Pending PROVE Agreement'
  BY <1>a, QuietStep DEF AInv
<1>1. ASSUME NEW c \in Callers, Apply(c) PROVE Agreement'
  <2>1. flow' = flow /\ log' = log
    BY <1>1, Unmoved
  <2>2. CASE events' = events
    <3>1. op' = op
      <4>1. CASE op[call[c].id].state \notin {"dispatching", "uncertain"}
        BY <1>1, <4>1 DEF Apply
      <4>2. CASE op[call[c].id].state \in {"dispatching", "uncertain"}
        <5>1. PICK k \in Ops : k = call[c].id
          BY <1>1 DEF Apply, At, IInv, Working
        <5>2. k \in Pending
          BY <4>2, <5>1 DEF Pending
        <5>3. EventOf(k) \in events
          BY <1>1, <2>2, <4>2, <5>1 DEF Apply, EventOf
        <5>4. EventOf(k) \notin events
          BY <5>2, EventIsNew DEF AInv
        <5> QED
          BY <5>3, <5>4
      <4> QED
        BY <4>1, <4>2
    <3>2. Pending' = Pending
      BY <3>1 DEF Pending
    <3> QED
      BY <1>a, <2>1, <2>2, <3>2
  <2>3. CASE events' # events
    <3>1. PICK k : k = call[c].id
      OBVIOUS
    <3>2. /\ call[c].pc = "apply" /\ k \in Pending \cap log
          /\ events' = events \cup {EventOf(k)}
          /\ op' = [op EXCEPT ![k].state = "confirmed"]
      BY <1>1, <2>3, <3>1 DEF Apply, At, IInv, Working, Confirming, Known, Pending, EventOf
    <3> QED
      BY <2>1, <3>1, <3>2, ApplyAgreement
  <2> QED
    BY <2>2, <2>3
<1>2. ASSUME NEW c \in Callers, Store(c) PROVE Agreement'
  <2>1. UNCHANGED <<events, flow, log>>
    BY <1>2, Unmoved
  <2>2. CASE op' = op
    BY <1>a, <2>1, <2>2 DEF Pending
  <2>3. CASE op' # op
    <3>1. PICK k \in Ops : k = call[c].id
      BY <1>2 DEF Store, At, IInv, Working
    <3>2. op[k].state = "none" /\ Pending = {} /\ op' = [op EXCEPT ![k] = call[c].op]
      BY <1>2, <2>3, <3>1 DEF Store
    <3>3. k \notin log
      BY <3>2 DEF AInv, Logged, IInv, Sending
    <3>4. Pending' \subseteq {k}
      BY <1>0, <3>2 DEF Pending
    <3>5. Agrees(events, flow)
      BY <3>2 DEF AInv, Agreement
    <3>6. Agrees(events', flow') /\ \A j \in Pending' : j \notin log'
      BY <2>1, <3>3, <3>4, <3>5
    <3> QED
      BY <3>6 DEF Agreement
  <2> QED
    BY <2>2, <2>3
<1>3. ASSUME NEW k \in Ops, Abandon(k) PROVE Agreement'
  <2>1. UNCHANGED <<events, flow, log>> /\ op[k].state = "prepared"
        /\ op' = [op EXCEPT ![k].state = "abandoned"]
    BY <1>3 DEF Abandon
  <2>2. k \notin log /\ k \in Pending /\ \A j \in Pending : j = k
    BY <2>1 DEF AInv, Logged, IInv, Sending, Single, Pending
  <2>3. Agrees(events, flow)
    BY <2>2 DEF AInv, Agreement
  <2>4. Pending' \subseteq Pending
    BY <1>0, <2>1 DEF Pending, Rows
  <2>5. Agrees(events', flow') /\ \A j \in Pending' : j \notin log'
    BY <2>1, <2>2, <2>3, <2>4
  <2> QED
    BY <2>5 DEF Agreement
<1>4. ASSUME NEW c \in Callers, Claim(c) \/ Fail(c) PROVE Agreement'
  <2>1. Pending' = Pending
    BY <1>0, <1>4 DEF Claim, Fail, Pending, Rows
  <2> QED
    BY <1>a, <1>4, <2>1, Unmoved
<1>5. ASSUME NEW c \in Callers, Remember(c) PROVE Agreement'
  <2>1. PICK r : op' = [op EXCEPT ![call[c].id].result = r]
    BY <1>5 DEF Remember
  <2>2. \A k \in Ops : op'[k].state = op[k].state
    BY <1>0, <2>1 DEF Rows
  <2>3. Pending' = Pending
    BY <2>2 DEF Pending
  <2> QED
    BY <1>a, <1>5, <2>3, Unmoved
<1>6. ASSUME NEW c \in Callers,
             PrepareRead(c) \/ DispatchRead(c) \/ Recover(c) \/ Verify(c) \/ Crash(c)
      PROVE  Agreement'
  <2>1. UNCHANGED <<op, events, flow, log>>
    BY <1>6, Unmoved
  <2> QED
    BY <1>a, <2>1 DEF Pending
<1>7. ASSUME RecordPeriod \/ UNCHANGED vars PROVE Agreement'
  <2>1. UNCHANGED <<op, events, flow, log>>
    BY <1>7 DEF RecordPeriod, vars
  <2> QED
    BY <1>a, <2>1 DEF Pending
<1> QED
  BY <1>1, <1>2, <1>3, <1>4, <1>5, <1>6, <1>7, PostAgreement, RenewAgreement DEF Next

\* Nothing was asked for yet.
LEMMA InitAInv == Init => AInv
<1> SUFFICES ASSUME Init PROVE AInv
  OBVIOUS
<1>1. Ledger
  BY FS_EmptySet DEF Init, Ledger
<1>2. \A k \in Ops : op[k].state = "none"
  BY DEF Init, NoOp
<1>3. \A c \in Callers : call[c].pc = "idle"
  BY IdleIsCall DEF Init
<1>4. Terms /\ Logged
  BY <1>2, <1>3 DEF Init, Terms, Logged, Taken
<1>5. Pending = {} /\ Agrees(events, flow)
  BY <1>2 DEF Pending, Init, Agrees, IsLast
<1> QED
  BY <1>1, <1>4, <1>5 DEF AInv, Agreement

LEMMA AgreedInvariance == Spec => [](IInv /\ AInv)
<1>1. IInv /\ AInv /\ [Next]_vars => AInv'
  BY LedgerStep, TermsStep, LoggedStep, AgreementStep DEF AInv
<1> QED
  BY <1>1, InitAInv, Invariance, PTL DEF Spec

\* Local entitlements and Flow's subscription agree whenever no change is under
\* way: the plan _current derives from the events is the plan Flow charges, and
\* what Flow will do at the next renewal is scheduled here, whichever caller
\* died, whichever reply was lost and whenever the subscription renewed.
THEOREM SidesAgree == Spec => []PlansAgree
<1>1. IInv /\ AInv => PlansAgree
  <2> SUFFICES ASSUME IInv, AInv, Pending = {}
               PROVE  /\ flow.plan = LocalPlan
                      /\ flow.next # flow.plan \/ flow.stops => Scheduled \/ ~flow.active
    BY DEF PlansAgree
  <2> DEFINE now == {e \in events : Effective(e)}
             C == {e \in events : e.kind \in Changing}
  <2>0. flow.period \in Nat /\ \A e \in events : e.seq \in Nat /\ e.period \in 0 .. flow.period
    BY DEF IInv, Types, Subscriptions, AInv, Ledger
  <2>1. Agrees(events, flow)
    BY DEF AInv, Agreement
  <2>2. \A e \in events : Effective(e) <=> InForce(e, flow.period)
    BY DEF Effective, Deferred, InForce, Changing
  <2>3. {e \in events : InForce(e, flow.period)} = now
    BY <2>2
  <2>4. IsLast(now, flow.plan) /\ IsLast(C, flow.next)
        /\ (flow.stops /\ flow.active => \E e \in events : e.kind = "cancel" /\ e.period >= flow.period)
    BY <2>1, <2>3 DEF Agrees
  <2>5. \A e, f \in events : e.seq = f.seq => e = f
    BY DEF AInv, Ledger
  <2>6. ASSUME NEW e \in now, \A f \in now : f.seq <= e.seq PROVE LocalPlan = e.plan
    <3>1. \A x \in now : (\A f \in now : f.seq <= x.seq) => x = e
      BY <2>0, <2>5, <2>6
    <3>2. (CHOOSE x \in now : \A f \in now : f.seq <= x.seq) = e
      BY <2>6, <3>1
    <3>3. now # {}
      BY <2>6
    <3> QED
      BY <3>2, <3>3 DEF LocalPlan
  <2>7. flow.plan = LocalPlan
    <3>1. CASE now = {}
      BY <2>4, <3>1 DEF IsLast, LocalPlan
    <3>2. CASE now # {}
      <4>1. PICK e \in now : e.plan = flow.plan /\ \A f \in now : f.seq <= e.seq
        BY <2>4, <3>2 DEF IsLast
      <4> HIDE DEF now
      <4> QED
        BY <2>6, <4>1
    <3> QED
      BY <3>1, <3>2
  <2>8. ASSUME flow.next # flow.plan PROVE Scheduled
    <3>1. CASE C = {}
      <4>1. now = {}
        BY <2>2, <3>1 DEF InForce
      <4> QED
        BY <2>4, <2>8, <3>1, <4>1 DEF IsLast
    <3>2. CASE C # {}
      <4>1. PICK e \in C : e.plan = flow.next /\ \A f \in C : f.seq <= e.seq
        BY <2>4, <3>2 DEF IsLast
      <4>2. \A f \in now : f \in C
        BY <2>2 DEF InForce
      <4>3. e \notin now
        <5> SUFFICES ASSUME e \in now PROVE FALSE
          OBVIOUS
        <5>1. LocalPlan = e.plan
          BY <2>6, <4>1, <4>2
        <5> QED
          BY <2>7, <2>8, <4>1, <5>1
      <4>4. e.kind \in Changing /\ ~ InForce(e, flow.period) /\ e.period \in 0 .. flow.period
        BY <2>0, <2>2, <4>3
      <4>5. Deferred(e.kind) /\ e.period >= flow.period
        BY <2>0, <4>4 DEF InForce, Changing, Deferred
      <4> QED
        BY <4>5 DEF Scheduled
    <3> QED
      BY <3>1, <3>2
  <2>9. ASSUME flow.stops, flow.active PROVE Scheduled
    BY <2>4, <2>9 DEF Scheduled, Deferred
  <2>10. flow.active \in BOOLEAN
    BY DEF IInv, Types, Subscriptions
  <2> QED
    BY <2>7, <2>8, <2>9, <2>10
<1> QED
  BY <1>1, AgreedInvariance, PTL
=============================================================================
