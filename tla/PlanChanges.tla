---------------------------- MODULE PlanChanges ----------------------------
(***************************************************************************)
(* Changes and cancellations of a paid subscription at Flow: an operation   *)
(* is prepared, dispatched with one POST that is never repeated, its reply  *)
(* remembered, and accepted after a signed GET confirms it; a reply that    *)
(* was remembered can be accepted later by a recovery.                      *)
(*                                                                         *)
(* Callers run the HTTP handlers; each step between two calls is one commit *)
(* or one request.  Time is the number of the subscription's period: Flow   *)
(* renews at the boundary, the local period row follows when it is paid.    *)
(***************************************************************************)
EXTENDS Integers, FiniteSets

CONSTANTS
    Ops,        \* operations a user may ask for
    Callers,    \* requests in flight
    Plans,      \* tiers, ordered by allowance
    FirstPlan,  \* the tier the subscription started with
    MaxPeriod   \* bound: renewals considered

ASSUME PlansAssumption == Plans \subseteq Nat /\ FirstPlan \in Plans /\ MaxPeriod \in Nat

VARIABLES
    op,      \* [Ops -> row of flow_lifecycle_operations]
    events,  \* rows of billing_lifecycle_events: [op, kind, plan, period]
    paid,    \* the last period recorded in billing_periods
    flow,    \* the subscription at Flow
    log,     \* operations Flow carried out
    posts,   \* [Ops -> POSTs sent]
    call     \* [Callers -> what the request is at]

vars == <<op, events, paid, flow, log, posts, call>>

NoReply == [known |-> FALSE, period |-> 0]

NoOp == [state |-> "none", kind |-> "none", old |-> FirstPlan, target |-> FirstPlan,
         period |-> 0, result |-> NoReply]

Idle == [pc |-> "idle", op |-> NoOp, id |-> CHOOSE k \in Ops : TRUE, reply |-> NoReply]

Init ==
    /\ op = [k \in Ops |-> NoOp]
    /\ events = {}
    /\ paid = 0
    /\ flow = [plan |-> FirstPlan, next |-> FirstPlan, period |-> 0,
               stops |-> FALSE, active |-> TRUE]
    /\ log = {}
    /\ posts = [k \in Ops |-> 0]
    /\ call = [c \in Callers |-> Idle]

Deferred(kind) == kind \in {"downgrade", "cancel"}

----------------------------------------------------------------------------
(* Flow                                                                     *)

\* The subscription renews: a scheduled plan starts, a cancelled one ends.
Renew ==
    /\ flow.period < MaxPeriod /\ flow.active
    /\ flow' = [flow EXCEPT !.period = @ + 1, !.plan = flow.next, !.active = ~flow.stops]
    /\ UNCHANGED <<op, events, paid, log, posts, call>>

\* Flow carries an operation out on the subscription.
Mutated(o) ==
    CASE o.kind = "upgrade" -> [flow EXCEPT !.plan = o.target, !.next = o.target]
      [] o.kind = "downgrade" -> [flow EXCEPT !.next = o.target]
      [] o.kind = "cancel" -> [flow EXCEPT !.stops = TRUE]
      [] o.kind = "cancelNow" -> [flow EXCEPT !.active = FALSE]

----------------------------------------------------------------------------
(* The local view                                                           *)

\* MUTANT: a scheduled change counts from the moment it is confirmed.
EffectiveAtOnce(e) == e.kind \in {"upgrade", "downgrade"} /\ e.period <= flow.period

\* _current: the plan of the last confirmed change that is in effect.
Effective(e) == e.kind \in {"upgrade", "downgrade"}
                /\ IF Deferred(e.kind) THEN e.period < flow.period ELSE e.period <= flow.period

LocalPlan ==
    LET now == {e \in events : Effective(e)}
    IN  IF now = {} THEN FirstPlan
        ELSE (CHOOSE e \in now : \A f \in now : f.seq <= e.seq).plan

\* A change or cancellation that waits for the end of the period.
Scheduled == \E e \in events : Deferred(e.kind) /\ e.period >= flow.period

Pending == {k \in Ops : op[k].state \in {"prepared", "dispatching", "uncertain"}}

\* The renewal's payment is settled: record_paid_period.
RecordPeriod ==
    /\ paid < flow.period /\ flow.active
    /\ paid' = paid + 1
    /\ UNCHANGED <<op, events, flow, log, posts, call>>

----------------------------------------------------------------------------
(* Preparing                                                                *)

At(c, pc) == call[c].pc = pc

Kind(current, target) == IF target > current THEN "upgrade" ELSE "downgrade"

\* The row of an operation as it is prepared.
Prepared(t, kind) ==
    [state |-> "prepared", kind |-> IF kind = "change" THEN Kind(LocalPlan, t) ELSE kind,
     old |-> LocalPlan, target |-> t, period |-> paid, result |-> NoReply]

\* prepare_change and prepare_cancel read the local view and Flow's.
PrepareRead(c) ==
    /\ At(c, "idle")
    /\ paid = flow.period
    /\ flow.plan = LocalPlan /\ flow.active
    /\ \E k \in {j \in Ops : op[j].state = "none"}, t \in Plans, kind \in {"change", "cancel", "cancelNow"} :
         /\ kind = "change" => t # LocalPlan
         /\ kind # "change" => t = LocalPlan
         /\ call' = [call EXCEPT ![c] =
               [Idle EXCEPT !.pc = "store", !.id = k, !.op = Prepared(t, kind)]]
    /\ UNCHANGED <<op, events, paid, flow, log, posts>>

\* _store: one operation at a time, and none while one is scheduled.
Store(c) ==
    /\ At(c, "store")
    /\ op' = IF op[call[c].id].state = "none" /\ Pending = {} /\ ~Scheduled
             THEN [op EXCEPT ![call[c].id] = call[c].op] ELSE op
    /\ call' = [call EXCEPT ![c] = Idle]
    /\ UNCHANGED <<events, paid, flow, log, posts>>

Abandon(k) ==
    /\ op[k].state = "prepared"
    /\ op' = [op EXCEPT ![k].state = "abandoned"]
    /\ UNCHANGED <<events, paid, flow, log, posts, call>>

----------------------------------------------------------------------------
(* Dispatching and accepting                                                *)

\* dispatch reads the row and checks it against Flow.
DispatchRead(c) ==
    /\ At(c, "idle")
    /\ \E k \in Ops :
         /\ op[k].state = "prepared"
         /\ op[k].period = flow.period
         /\ flow.plan = op[k].old /\ flow.active
         /\ call' = [call EXCEPT ![c] = [Idle EXCEPT !.pc = "claim", !.id = k, !.op = op[k]]]
    /\ UNCHANGED <<op, events, paid, flow, log, posts>>

\* MUTANT: an operation that is already dispatched is claimed again.
ClaimAgain(c) ==
    /\ At(c, "claim")
    /\ IF op[call[c].id].state \in {"prepared", "dispatching", "uncertain"}
       THEN /\ op' = [op EXCEPT ![call[c].id].state = "dispatching"]
            /\ call' = [call EXCEPT ![c].pc = "post"]
       ELSE /\ call' = [call EXCEPT ![c] = Idle]
            /\ UNCHANGED op
    /\ UNCHANGED <<events, paid, flow, log, posts>>

Claim(c) ==
    /\ At(c, "claim")
    /\ IF op[call[c].id].state = "prepared"
       THEN /\ op' = [op EXCEPT ![call[c].id].state = "dispatching"]
            /\ call' = [call EXCEPT ![c].pc = "post"]
       ELSE /\ call' = [call EXCEPT ![c] = Idle]
            /\ UNCHANGED op
    /\ UNCHANGED <<events, paid, flow, log, posts>>

\* The POST: refused or lost on the way, carried out and answered, or carried
\* out with the answer lost.
Post(c) ==
    /\ At(c, "post")
    /\ posts' = [posts EXCEPT ![call[c].id] = @ + 1]
    /\ \/ /\ call' = [call EXCEPT ![c].pc = "fail"]
          /\ UNCHANGED <<flow, log>>
       \/ /\ flow.active
          /\ flow' = Mutated(call[c].op)
          /\ log' = log \cup {call[c].id}
          /\ \/ call' = [call EXCEPT ![c].pc = "remember",
                                     ![c].reply = [known |-> TRUE, period |-> flow.period]]
             \/ call' = [call EXCEPT ![c].pc = "fail"]
    /\ UNCHANGED <<op, events, paid>>

\* _remember: the first reply stored is the one everybody accepts.
Remember(c) ==
    /\ At(c, "remember")
    /\ LET kept == IF op[call[c].id].result.known THEN op[call[c].id].result ELSE call[c].reply
       IN  /\ op' = [op EXCEPT ![call[c].id].result = kept]
           /\ call' = [call EXCEPT ![c].pc = "verify", ![c].reply = kept]
    /\ UNCHANGED <<events, paid, flow, log, posts>>

\* MUTANT: an operation whose caller died while dispatching is not recovered.
RecoverUncertain(c) ==
    /\ At(c, "idle")
    /\ \E k \in Ops :
         /\ op[k].state = "uncertain" /\ op[k].result.known
         /\ call' = [call EXCEPT ![c] = [Idle EXCEPT !.pc = "verify", !.id = k, !.op = op[k],
                                                    !.reply = op[k].result]]
    /\ UNCHANGED <<op, events, paid, flow, log, posts>>

\* recover: only a remembered reply can be accepted again.
Recover(c) ==
    /\ At(c, "idle")
    /\ \E k \in Ops :
         /\ op[k].state \in {"dispatching", "uncertain"} /\ op[k].result.known
         /\ call' = [call EXCEPT ![c] = [Idle EXCEPT !.pc = "verify", !.id = k, !.op = op[k],
                                                    !.reply = op[k].result]]
    /\ UNCHANGED <<op, events, paid, flow, log, posts>>

\* accept asks Flow again: same period, and the change is in force there.
Confirms(o) ==
    /\ flow.period = o.period
    /\ CASE o.kind = "upgrade" -> flow.plan = o.target /\ flow.active
         [] o.kind = "downgrade" -> TRUE
         [] o.kind = "cancel" -> flow.stops
         [] o.kind = "cancelNow" -> ~flow.active

Verify(c) ==
    /\ At(c, "verify")
    /\ call' = [call EXCEPT ![c].pc = IF Confirms(call[c].op) THEN "apply" ELSE "fail"]
    /\ UNCHANGED <<op, events, paid, flow, log, posts>>

\* The event and the state of the operation, in one transaction.
Apply(c) ==
    /\ At(c, "apply")
    /\ LET k == call[c].id
       IN  IF op[k].state \in {"dispatching", "uncertain"}
           THEN /\ events' = events \cup {[seq |-> Cardinality(events) + 1, op |-> k, kind |-> op[k].kind,
                                           plan |-> op[k].target, period |-> op[k].period]}
                /\ op' = [op EXCEPT ![k].state = "confirmed"]
           ELSE UNCHANGED <<events, op>>
    /\ call' = [call EXCEPT ![c] = Idle]
    /\ UNCHANGED <<paid, flow, log, posts>>

\* FlowError in dispatch: the outcome is uncertain.  In recover it changes nothing.
Fail(c) ==
    /\ At(c, "fail")
    /\ op' = IF call[c].op.state = "prepared" /\ op[call[c].id].state = "dispatching"
             THEN [op EXCEPT ![call[c].id].state = "uncertain"] ELSE op
    /\ call' = [call EXCEPT ![c] = Idle]
    /\ UNCHANGED <<events, paid, flow, log, posts>>

\* The process dies between two steps.
Crash(c) ==
    /\ ~At(c, "idle")
    /\ call' = [call EXCEPT ![c] = Idle]
    /\ UNCHANGED <<op, events, paid, flow, log, posts>>

Next ==
    \/ Renew \/ RecordPeriod
    \/ \E k \in Ops : Abandon(k)
    \/ \E c \in Callers :
         \/ PrepareRead(c) \/ Store(c) \/ DispatchRead(c) \/ Claim(c) \/ Post(c)
         \/ Remember(c) \/ Recover(c) \/ Verify(c) \/ Apply(c) \/ Fail(c) \/ Crash(c)

Spec == Init /\ [][Next]_vars

\* A request that is not interrupted goes on, and somebody keeps asking to
\* recover an operation whose reply is stored.
Fairness ==
    /\ \A c \in Callers : WF_vars(Store(c) \/ Claim(c) \/ Post(c) \/ Remember(c)
                                  \/ Verify(c) \/ Apply(c) \/ Fail(c))
    /\ SF_vars(\E c \in Callers : Recover(c))
    /\ SF_vars(\E c \in Callers : Verify(c))
    /\ SF_vars(\E c \in Callers : Apply(c))

FairSpec == Spec /\ Fairness

----------------------------------------------------------------------------
(* Properties                                                               *)

States == {"none", "prepared", "dispatching", "uncertain", "confirmed", "abandoned"}

TypeOK ==
    /\ \A k \in Ops : op[k].state \in States /\ op[k].target \in Plans
    /\ paid \in 0..flow.period
    /\ flow.plan \in Plans /\ flow.next \in Plans
    /\ log \subseteq Ops
    /\ \A e \in events : e.op \in Ops /\ e.plan \in Plans

\* Flow is asked for a change once: whoever dispatches, dies, recovers or
\* abandons, an operation is POSTed at most once, and never after it was
\* abandoned ("never another POST", recover).
PostedOnce ==
    \A k \in Ops : posts[k] <= 1 /\ (op[k].state = "abandoned" => posts[k] = 0)

\* At most one change or cancellation is under way: the proration one caller
\* previewed is not overtaken by another operation on the same subscription.
OneUnderWay == Cardinality(Pending) <= 1

\* Entitlements change only for what Flow carried out, once per operation.
EventIsFlows ==
    /\ \A e \in events : e.op \in log
    /\ \A e, f \in events : e.op = f.op => e = f

\* With nothing under way the two sides agree: the plan the events give is
\* the plan Flow charges, and what is scheduled here is what Flow will do.
PlansAgree ==
    Pending = {} /\ (\A c \in Callers : call[c].pc \notin {"post", "remember"}) =>
      /\ flow.plan = LocalPlan
      /\ flow.next # flow.plan \/ flow.stops => Scheduled \/ ~flow.active

\* A reply that was remembered is applied in the end, whichever caller dies,
\* unless Flow renews first: a recovery refuses the reply of an earlier period.
RememberedApplied ==
    \A k \in Ops :
      op[k].result.known ~> op[k].state = "confirmed" \/ flow.period # op[k].period

=============================================================================
