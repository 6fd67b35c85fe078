--------------------------- MODULE JobQueueProofs ---------------------------
(* Proofs about JobQueue for every number of jobs, workers and requests     *)
(* and every timing that satisfies TimingAssumption.                       *)
EXTENDS JobQueue, FiniteSetTheorems, TLAPS

-----------------------------------------------------------------------------
(* What the row-building operators return                                  *)

\* The insertion rank is a number because the table is finite.
LEMMA NextBornNat == NextBorn \in Nat
<1> DEFINE S == {j \in Jobs : row[j].state # "ABSENT"}
<1>1. IsFiniteSet(S)
  BY FiniteAssumption, FS_Subset
<1>2. Cardinality(S) \in Nat
  BY <1>1, FS_CardinalityType
<1> QED
  BY <1>2 DEF NextBorn

\* requeue_terminal resets everything but the row's rank.
LEMMA RequeuedRow ==
  ASSUME RowsOK, NEW j \in Jobs, NEW p \in Payloads, NEW m \in Budgets
  PROVE  /\ Requeued(j, p, m) \in Rows
         /\ Requeued(j, p, m).state = "QUEUED"
         /\ Requeued(j, p, m).payload = p
         /\ Requeued(j, p, m).max = m
         /\ Requeued(j, p, m).attempt = 0
         /\ Requeued(j, p, m).lockedBy = None
         /\ Requeued(j, p, m).result = None
BY BudgetAssumption DEF RowsOK, Rows, States, Requeued

\* The freshly inserted row differs from a requeued one by its rank only.
LEMMA InsertedRow ==
  ASSUME RowsOK, NEW j \in Jobs, NEW p \in Payloads, NEW m \in Budgets
  PROVE  /\ Inserted(j, p, m) \in Rows
         /\ Inserted(j, p, m).state = "QUEUED"
         /\ Inserted(j, p, m).payload = p
         /\ Inserted(j, p, m).max = m
         /\ Inserted(j, p, m).attempt = 0
         /\ Inserted(j, p, m).lockedBy = None
         /\ Inserted(j, p, m).result = None
<1> DEFINE q == Requeued(j, p, m)
<1>1. q \in Rows /\ q.state = "QUEUED" /\ q.payload = p /\ q.max = m
        /\ q.attempt = 0 /\ q.lockedBy = None /\ q.result = None
  BY RequeuedRow
<1> HIDE DEF q
<1> QED
  BY <1>1, NextBornNat DEF Rows, q, Inserted

\* Unlocked clears the lock columns and nothing else.
LEMMA UnlockedRow ==
  ASSUME NEW x \in Rows
  PROVE  /\ Unlocked(x) \in Rows
         /\ Unlocked(x).state = x.state
         /\ Unlocked(x).payload = x.payload
         /\ Unlocked(x).max = x.max
         /\ Unlocked(x).attempt = x.attempt
         /\ Unlocked(x).lockedBy = None
         /\ Unlocked(x).result = x.result
BY DEF Rows, Unlocked

\* release_stale ends the job or queues it again, by the row's own budget.
LEMMA ReleasedRow ==
  ASSUME RowsOK, NEW j \in Jobs
  PROVE  /\ Released(j) \in Rows
         /\ Released(j).state =
              IF row[j].attempt >= row[j].max THEN "FAILED" ELSE "QUEUED"
         /\ Released(j).payload = row[j].payload
         /\ Released(j).max = row[j].max
         /\ Released(j).attempt = row[j].attempt
         /\ Released(j).lockedBy = None
         /\ Released(j).result = row[j].result
<1> DEFINE u == Unlocked(row[j])
<1>0. row[j] \in Rows
  BY DEF RowsOK
<1>1. /\ u \in Rows /\ u.payload = row[j].payload /\ u.max = row[j].max
      /\ u.attempt = row[j].attempt /\ u.lockedBy = None
      /\ u.result = row[j].result
  BY <1>0, UnlockedRow
<1> HIDE DEF u
<1> QED
  BY <1>1 DEF Rows, States, Released, u

\* claim_next locks the row and counts the attempt.
LEMMA ClaimedRow ==
  ASSUME RowsOK, NEW j \in Jobs, NEW w \in Workers
  PROVE  /\ Claimed(j, w) \in Rows
         /\ Claimed(j, w).state = "RUNNING"
         /\ Claimed(j, w).payload = row[j].payload
         /\ Claimed(j, w).max = row[j].max
         /\ Claimed(j, w).attempt = row[j].attempt + 1
         /\ Claimed(j, w).lockedBy = w
         /\ Claimed(j, w).lockAge = 0
         /\ Claimed(j, w).result = row[j].result
<1>2. row[j] \in Rows /\ row[j].attempt + 1 \in Nat
  BY DEF RowsOK, Rows
<1>3. Claimed(j, w) =
        [row[j] EXCEPT !.state = "RUNNING", !.lockedBy = w, !.lockAge = 0,
                       !.attempt = row[j].attempt + 1]
  BY DEF Claimed
<1> DEFINE y == row[j]
           n == row[j].attempt + 1
           c == Claimed(j, w)
<1>4. /\ y \in Rows /\ n \in Nat
      /\ c = [y EXCEPT !.state = "RUNNING", !.lockedBy = w,
                       !.lockAge = 0, !.attempt = n]
  BY <1>2, <1>3
<1>5. /\ c \in Rows /\ c.state = "RUNNING" /\ c.payload = y.payload
      /\ c.max = y.max /\ c.attempt = n /\ c.lockedBy = w
      /\ c.lockAge = 0 /\ c.result = y.result
  <2> HIDE DEF y, n, c
  <2> QED
    BY ONLY <1>4, w \in Workers DEF Rows, States
<1> QED
  BY <1>5

\* The row under a terminal write, unlocked.
LEMMA UnlockedJob ==
  ASSUME TypeOK, NEW w \in Workers, worker[w].phase \in Executing,
         NEW u, u = Unlocked(row[worker[w].job]),
         NEW y, y = row[worker[w].job]
  PROVE  /\ u \in Rows /\ u.payload = y.payload /\ u.max = y.max
         /\ u.attempt = y.attempt /\ u.lockedBy = None /\ u.result = y.result
<1>0. y \in Rows
  BY DEF TypeOK, RowsOK, WorkersOK
<1> QED
  BY <1>0, UnlockedRow

\* succeed stores a result computed from the payload the worker claimed.
LEMMA SucceededRow ==
  ASSUME TypeOK, NEW w \in Workers, worker[w].phase \in Executing,
         NEW y, y = row[worker[w].job]
  PROVE  /\ Succeeded(w) \in Rows
         /\ Succeeded(w).state = "SUCCEEDED"
         /\ Succeeded(w).payload = y.payload
         /\ Succeeded(w).max = y.max
         /\ Succeeded(w).attempt = y.attempt
         /\ Succeeded(w).lockedBy = None
         /\ Succeeded(w).result = worker[w].payload
<1> DEFINE u == Unlocked(row[worker[w].job])
<1>1. /\ u \in Rows /\ u.payload = y.payload /\ u.max = y.max
      /\ u.attempt = y.attempt /\ u.lockedBy = None /\ u.result = y.result
  BY UnlockedJob
<1>2. worker[w].payload \in Payloads
  BY DEF TypeOK, WorkersOK
<1>3. Succeeded(w) =
        [u EXCEPT !.state = "SUCCEEDED", !.result = worker[w].payload]
  BY DEF Succeeded
<1> HIDE DEF u
<1> QED
  BY <1>1, <1>2, <1>3 DEF Rows, States

\* fail_permanent changes the state only.
LEMMA FailedRow ==
  ASSUME TypeOK, NEW w \in Workers, worker[w].phase \in Executing,
         NEW y, y = row[worker[w].job]
  PROVE  /\ Failed(w) \in Rows
         /\ Failed(w).state = "FAILED"
         /\ Failed(w).payload = y.payload
         /\ Failed(w).max = y.max
         /\ Failed(w).attempt = y.attempt
         /\ Failed(w).lockedBy = None
         /\ Failed(w).result = y.result
<1> DEFINE u == Unlocked(row[worker[w].job])
<1>1. /\ u \in Rows /\ u.payload = y.payload /\ u.max = y.max
      /\ u.attempt = y.attempt /\ u.lockedBy = None /\ u.result = y.result
  BY UnlockedJob
<1>2. Failed(w) = [u EXCEPT !.state = "FAILED"]
  BY DEF Failed
<1> HIDE DEF u
<1> QED
  BY <1>1, <1>2 DEF Rows, States

\* fail_or_retry decides by the worker's memory of the claimed row.
LEMMA FailedOrRetriedRow ==
  ASSUME TypeOK, NEW w \in Workers, worker[w].phase \in Executing,
         NEW y, y = row[worker[w].job]
  PROVE  /\ FailedOrRetried(w) \in Rows
         /\ FailedOrRetried(w).state = IF worker[w].attempt >= worker[w].max
                                         THEN "FAILED" ELSE "QUEUED"
         /\ FailedOrRetried(w).payload = y.payload
         /\ FailedOrRetried(w).max = y.max
         /\ FailedOrRetried(w).attempt = y.attempt
         /\ FailedOrRetried(w).lockedBy = None
         /\ FailedOrRetried(w).result = y.result
<1> DEFINE u == Unlocked(row[worker[w].job])
           b == BackoffUnit * worker[w].attempt * worker[w].attempt
           s == IF worker[w].attempt >= worker[w].max
                  THEN "FAILED" ELSE "QUEUED"
<1>1. /\ u \in Rows /\ u.payload = y.payload /\ u.max = y.max
      /\ u.attempt = y.attempt /\ u.lockedBy = None /\ u.result = y.result
  BY UnlockedJob
<1>2. worker[w].attempt \in Nat
  BY DEF TypeOK, WorkersOK, Processes
<1>3. b \in Nat
  BY <1>2, TimingAssumption
<1>4. FailedOrRetried(w) = [u EXCEPT !.state = s, !.wait = b]
  BY DEF FailedOrRetried
<1>5. s \in States
  BY DEF States
<1> HIDE DEF u, b, s
<1>6. /\ FailedOrRetried(w) \in Rows
      /\ FailedOrRetried(w).state = s
      /\ FailedOrRetried(w).payload = y.payload
      /\ FailedOrRetried(w).max = y.max
      /\ FailedOrRetried(w).attempt = y.attempt
      /\ FailedOrRetried(w).lockedBy = None
      /\ FailedOrRetried(w).result = y.result
  BY <1>1, <1>3, <1>4, <1>5 DEF Rows, States
<1> QED
  BY <1>6 DEF s
-----------------------------------------------------------------------------
(* Replacing one row or one process                                        *)

\* A well-formed row can replace any row.
LEMMA RowUpdate ==
  ASSUME RowsOK, NEW j \in Jobs, NEW x \in Rows,
         x.state # "ABSENT" => x.payload \in Payloads /\ x.max \in Budgets,
         row' = [row EXCEPT ![j] = x]
  PROVE  RowsOK' /\ row'[j] = x /\ \A k \in Jobs : k # j => row'[k] = row[k]
BY DEF RowsOK

\* A process with no job in hand can replace any process.
LEMMA WorkerIdle ==
  ASSUME WorkersOK, NEW w \in Workers, NEW ph \in {"poll", "claim", "dead"},
         NEW n \in Nat, worker' = [worker EXCEPT ![w] = Idle(ph, n)]
  PROVE  /\ WorkersOK'
         /\ worker'[w].phase \notin Executing
         /\ \A v \in Workers : v # w => worker'[v] = worker[v]
<1> DEFINE x == Idle(ph, n)
<1>1. x \in Processes /\ x.phase = ph
  BY DEF Processes, Phases, Idle
<1>2. worker' = [worker EXCEPT ![w] = x]
  OBVIOUS
<1> HIDE DEF x
<1> QED
  BY <1>1, <1>2 DEF WorkersOK, Executing

\* After a job the process has none, whichever way the pass goes on.
LEMMA PassIdle ==
  ASSUME WorkersOK, NEW w \in Workers,
         worker' = PassContinues(w) \/ worker' = PassAborts(w)
  PROVE  /\ WorkersOK'
         /\ worker'[w].phase \notin Executing
         /\ \A v \in Workers : v # w => worker'[v] = worker[v]
<1>1. worker[w].processed + 1 \in Nat
  BY DEF WorkersOK, Processes
<1>2. \E ph \in {"poll", "claim", "dead"}, n \in Nat :
        worker' = [worker EXCEPT ![w] = Idle(ph, n)]
  <2>1. CASE worker' = PassAborts(w)
    BY <2>1 DEF PassAborts
  <2>2. CASE worker' = PassContinues(w)
    <3>1. CASE worker[w].processed + 1 < Batch
      BY <1>1, <2>2, <3>1 DEF PassContinues
    <3>2. CASE ~ (worker[w].processed + 1 < Batch)
      BY <2>2, <3>2 DEF PassContinues
    <3> QED
      BY <3>1, <3>2
  <2> QED
    BY <2>1, <2>2
<1> QED
  BY <1>2, WorkerIdle

\* A process that keeps its job changes only its phase and timers.
LEMMA WorkerKeepsJob ==
  ASSUME WorkersOK, NEW w \in Workers, worker[w].phase \in Executing,
         NEW ph \in Executing, NEW b \in Nat, NEW m \in Nat,
         worker' = Working(w, ph, b, m)
  PROVE  /\ WorkersOK'
         /\ worker'[w].phase = ph /\ worker'[w].beat = b
         /\ worker'[w].missed = m
         /\ worker'[w].job = worker[w].job
         /\ worker'[w].payload = worker[w].payload
         /\ worker'[w].attempt = worker[w].attempt
         /\ worker'[w].max = worker[w].max
         /\ \A v \in Workers : v # w => worker'[v] = worker[v]
<1> DEFINE y == worker[w]
           x == [y EXCEPT !.phase = ph, !.beat = b, !.missed = m]
<1>1. y \in Processes /\ y.job \in Jobs /\ y.payload \in Payloads
  BY DEF WorkersOK
<1>2. /\ x \in Processes /\ x.phase = ph /\ x.beat = b /\ x.missed = m
      /\ x.job = y.job /\ x.payload = y.payload
      /\ x.attempt = y.attempt /\ x.max = y.max
  <2> HIDE DEF y
  <2> QED
    BY ONLY <1>1, ph \in Executing, b \in Nat, m \in Nat
       DEF Processes, Phases, Executing, x
<1>3. worker' = [worker EXCEPT ![w] = x]
  BY DEF Working
<1> HIDE DEF x
<1> QED
  BY <1>1, <1>2, <1>3 DEF WorkersOK
-----------------------------------------------------------------------------
(* The inductive invariant                                                 *)

\* The fence needs the lock column (who could pass it), the budget needs the
\* fence (whose attempt is compared): the four parts are inductive together.
Inv == TypeOK /\ AttemptBudget /\ LeaseFence /\ LockOnlyWhileRunning

\* Every worker that executes after the step executed the same claim before.
NoNewClaim ==
  \A v \in Workers :
    worker'[v].phase \in Executing =>
      /\ worker[v].phase \in Executing
      /\ worker'[v].job = worker[v].job
      /\ worker'[v].payload = worker[v].payload
      /\ worker'[v].attempt = worker[v].attempt
      /\ worker'[v].max = worker[v].max

\* Nothing but timers differs between two rows.
SameClaim(x, y) ==
  /\ x.state = y.state /\ x.payload = y.payload /\ x.attempt = y.attempt
  /\ x.max = y.max /\ x.lockedBy = y.lockedBy

\* A row nobody runs, with attempts left if it waits.
AtRest(x) ==
  /\ x.state # "RUNNING"
  /\ x.lockedBy = None
  /\ x.state = "QUEUED" => x.attempt < x.max

\* A step without a claim keeps the invariant if every row it touches is put
\* to rest or only has its timers changed.
LEMMA CalmStep ==
  ASSUME Inv, TypeOK', NoNewClaim,
         \A j \in Jobs : SameClaim(row'[j], row[j]) \/ AtRest(row'[j])
  PROVE  Inv'
<1>1. AttemptBudget'
  BY DEF Inv, AttemptBudget, SameClaim, AtRest
<1>2. LockOnlyWhileRunning'
  BY DEF Inv, LockOnlyWhileRunning, SameClaim, AtRest
<1>3. LeaseFence'
  <2> SUFFICES ASSUME NEW w \in Workers, worker'[w].phase \in Executing,
                      Holds(w, worker[w].job)'
               PROVE  /\ worker'[w].payload = row'[worker'[w].job].payload
                      /\ worker'[w].attempt = row'[worker'[w].job].attempt
                      /\ worker'[w].max = row'[worker'[w].job].max
    BY DEF LeaseFence
  <2> DEFINE j == worker[w].job
  <2>1. /\ worker[w].phase \in Executing /\ worker'[w].job = j
        /\ worker'[w].payload = worker[w].payload
        /\ worker'[w].attempt = worker[w].attempt
        /\ worker'[w].max = worker[w].max
    BY DEF NoNewClaim
  <2>2. j \in Jobs
    BY <2>1 DEF Inv, TypeOK, WorkersOK
  <2>3. row'[j].lockedBy = w /\ row'[j].state = "RUNNING"
    BY <2>1 DEF Holds
  <2>4. SameClaim(row'[j], row[j])
    BY <2>2, <2>3 DEF AtRest
  <2>5. Holds(w, j)
    BY <2>3, <2>4 DEF Holds, SameClaim
  <2> QED
    BY <2>1, <2>4, <2>5 DEF Inv, LeaseFence, SameClaim
<1> QED
  BY <1>1, <1>2, <1>3 DEF Inv

\* Requests create rows or wake dead ones; both come to rest QUEUED.
LEMMA RequestStep ==
  ASSUME Inv, NEW r \in Requests, Enqueue(r) \/ Retry(r) \/ RequeueTerminal(r)
  PROVE  Inv'
<1> USE DEF Inv, TypeOK
<1>0. NoNewClaim /\ WorkersOK'
  <2>1. worker' = worker
    BY DEF Enqueue, EnqueueNew, EnqueueReplay, Retry, RetryRead,
           RequeueTerminal
  <2> QED
    BY <2>1 DEF NoNewClaim, WorkersOK
<1>1. ASSUME NEW j \in Jobs, NEW x \in Rows, x.state = "QUEUED",
             x.attempt = 0, x.lockedBy = None, x.payload \in Payloads,
             x.max \in Budgets, row' = [row EXCEPT ![j] = x], RequestsOK'
      PROVE  Inv'
  <2>1. RowsOK' /\ row'[j] = x /\ \A k \in Jobs : k # j => row'[k] = row[k]
    BY <1>1, RowUpdate
  <2>2. AtRest(x)
    <3>1. x.max \in Nat \ {0}
      BY <1>1, BudgetAssumption
    <3> QED
      BY ONLY <3>1, x.state = "QUEUED", x.attempt = 0, x.lockedBy = None
         DEF AtRest
  <2>3. \A k \in Jobs : SameClaim(row'[k], row[k]) \/ AtRest(row'[k])
    BY <2>1, <2>2 DEF SameClaim
  <2>4. TypeOK'
    BY <1>0, <1>1, <2>1
  <2> HIDE DEF Inv, TypeOK
  <2> QED
    BY <1>0, <2>3, <2>4, CalmStep
<1>2. ASSUME row' = row, RequestsOK'
      PROVE  Inv'
  <2>1. RowsOK' /\ \A k \in Jobs : SameClaim(row'[k], row[k])
    BY <1>2 DEF RowsOK, SameClaim
  <2> QED
    BY <1>0, <1>2, <2>1, CalmStep
<1>3. ASSUME request' = [request EXCEPT ![r] = NoCall("done")]
      PROVE  RequestsOK'
  BY <1>3 DEF RequestsOK, Calls, NoCall
<1>4. CASE Enqueue(r)
  <2> PICK j \in Jobs, p \in Payloads, m \in Budgets :
        EnqueueNew(r, j, p, m) \/ EnqueueReplay(r, j, p, m)
    BY <1>4 DEF Enqueue
  <2>1. CASE EnqueueNew(r, j, p, m)
    <3> DEFINE x == Inserted(j, p, m)
    <3>1. /\ x \in Rows /\ x.state = "QUEUED" /\ x.attempt = 0
          /\ x.lockedBy = None /\ x.payload = p /\ x.max = m
      BY InsertedRow
    <3>2. row' = [row EXCEPT ![j] = x]
      BY <2>1 DEF EnqueueNew
    <3>3. RequestsOK'
      BY <1>3, <2>1 DEF EnqueueNew
    <3> HIDE DEF x, Inv, TypeOK
    <3> QED
      BY <1>1, <3>1, <3>2, <3>3
  <2>2. CASE EnqueueReplay(r, j, p, m)
    <3>1. RequestsOK'
      BY <2>2, BudgetAssumption
         DEF EnqueueReplay, RequestsOK, Calls, NoCall
    <3> QED
      BY <1>2, <2>2, <3>1 DEF EnqueueReplay
  <2> QED
    BY <2>1, <2>2
<1>5. CASE Retry(r)
  <2> PICK j \in Jobs : RetryRead(r, j)
    BY <1>5 DEF Retry
  <2>1. row[j].payload \in Payloads /\ row[j].max \in Budgets
    BY DEF RetryRead, RowsOK, Dead
  <2>2. RequestsOK'
    BY <2>1, BudgetAssumption DEF RetryRead, RequestsOK, Calls
  <2> QED
    BY <1>2, <2>2 DEF RetryRead
<1>6. CASE RequeueTerminal(r)
  <2> DEFINE j == request[r].job
             p == request[r].payload
             m == request[r].max
             x == Requeued(j, p, m)
  <2>1. j \in Jobs /\ p \in Payloads /\ m \in Budgets
    BY <1>6 DEF RequeueTerminal, RequestsOK
  <2>2. /\ x \in Rows /\ x.state = "QUEUED" /\ x.attempt = 0
        /\ x.lockedBy = None /\ x.payload = p /\ x.max = m
    <3> HIDE DEF j, p, m
    <3> QED
      BY <2>1, RequeuedRow
  <2>3. RequestsOK' /\ (row' = row \/ row' = [row EXCEPT ![j] = x])
    BY <1>3, <1>6 DEF RequeueTerminal
  <2> HIDE DEF j, p, m, x
  <2> QED
    BY <1>1, <1>2, <2>1, <2>2, <2>3
<1> QED
  BY <1>4, <1>5, <1>6

\* renew_lock touches the lease age of one row.
LEMMA RenewedRows ==
  ASSUME TypeOK, NEW w \in Workers, worker[w].phase \in Executing,
         row' = RenewedRow(w)
  PROVE  /\ RowsOK'
         /\ \A k \in Jobs : SameClaim(row'[k], row[k])
         /\ \A k \in Jobs : row'[k].lockAge \in {0, row[k].lockAge}
         /\ \A k \in Jobs : row'[k].result = row[k].result
         /\ Holds(w, worker[w].job) => row'[worker[w].job].lockAge = 0
<1> DEFINE j == worker[w].job
           x == [row[j] EXCEPT !.lockAge = 0]
<1>1. j \in Jobs
  BY DEF TypeOK, WorkersOK
<1>2. row[j] \in Rows
  BY <1>1 DEF TypeOK, RowsOK
<1>3. /\ x \in Rows /\ x.state = row[j].state /\ x.payload = row[j].payload
      /\ x.attempt = row[j].attempt /\ x.max = row[j].max
      /\ x.lockedBy = row[j].lockedBy /\ x.lockAge = 0
      /\ x.result = row[j].result
  BY <1>2 DEF Rows
<1>4. CASE Holds(w, j)
  <2>1. row' = [row EXCEPT ![j] = x]
    BY <1>4 DEF RenewedRow
  <2>2. RowsOK' /\ row'[j] = x /\ \A k \in Jobs : k # j => row'[k] = row[k]
    <3> HIDE DEF x, j
    <3>1. x.state # "ABSENT" => x.payload \in Payloads /\ x.max \in Budgets
      BY <1>1, <1>3 DEF TypeOK, RowsOK
    <3> QED
      BY <1>1, <1>3, <2>1, <3>1, RowUpdate DEF TypeOK
  <2> HIDE DEF x
  <2> QED
    BY <1>3, <2>2 DEF SameClaim
<1>5. CASE ~ Holds(w, j)
  <2>1. row' = row
    BY <1>5 DEF RenewedRow
  <2> QED
    BY <1>5, <2>1 DEF SameClaim, RowsOK, TypeOK
<1> QED
  BY <1>4, <1>5

\* A terminal write puts the worker's own row to rest, or changes nothing.
LEMMA TerminalRows ==
  ASSUME Inv, NEW w \in Workers, worker[w].phase \in Executing,
         NEW x \in {Succeeded(w), Failed(w), FailedOrRetried(w)},
         TerminalUpdate(w, x)
  PROVE  /\ RowsOK'
         /\ \A k \in Jobs : SameClaim(row'[k], row[k]) \/ AtRest(row'[k])
<1> DEFINE j == worker[w].job
<1>0. TypeOK /\ j \in Jobs /\ RowsOK
  BY DEF Inv, TypeOK, WorkersOK
<1>1. CASE Holds(w, j)
  <2>1. row' = [row EXCEPT ![j] = x]
    BY <1>1 DEF TerminalUpdate
  <2>2. worker[w].attempt = row[j].attempt /\ worker[w].max = row[j].max
    BY <1>1 DEF Inv, LeaseFence
  <2>3. row[j].attempt \in Nat /\ row[j].max \in Nat
    BY <1>0 DEF RowsOK, Rows
  <2>4. row[j].payload \in Payloads /\ row[j].max \in Budgets
    BY <1>0, <1>1 DEF RowsOK, Holds
  <2>5. /\ x \in Rows /\ AtRest(x)
        /\ x.payload = row[j].payload /\ x.max = row[j].max
    <3>1. CASE x = Succeeded(w)
      BY <1>0, <3>1, SucceededRow DEF AtRest
    <3>2. CASE x = Failed(w)
      BY <1>0, <3>2, FailedRow DEF AtRest
    <3>3. CASE x = FailedOrRetried(w)
      <4>1. /\ x \in Rows /\ x.payload = row[j].payload
            /\ x.max = row[j].max /\ x.attempt = row[j].attempt
            /\ x.lockedBy = None
            /\ x.state = IF row[j].attempt >= row[j].max
                           THEN "FAILED" ELSE "QUEUED"
        BY <1>0, <2>2, <3>3, FailedOrRetriedRow
      <4> QED
        BY <2>3, <4>1 DEF AtRest
    <3> QED
      BY <3>1, <3>2, <3>3
  <2>6. RowsOK' /\ row'[j] = x /\ \A k \in Jobs : k # j => row'[k] = row[k]
    <3> HIDE DEF j
    <3> QED
      BY <1>0, <2>1, <2>4, <2>5, RowUpdate
  <2> QED
    BY <2>5, <2>6 DEF SameClaim
<1>2. CASE ~ Holds(w, j)
  <2>1. row' = row
    BY <1>2 DEF TerminalUpdate
  <2> QED
    BY <1>0, <2>1 DEF SameClaim, RowsOK
<1> QED
  BY <1>1, <1>2

\* Dropping a job, or going on with it, claims nothing.
LEMMA DropsClaim ==
  ASSUME WorkersOK, NEW w \in Workers,
         worker' = PassContinues(w) \/ worker' = PassAborts(w)
  PROVE  WorkersOK' /\ NoNewClaim
BY PassIdle DEF NoNewClaim

\* The same for a process whose phase and timers alone move.
LEMMA KeepsClaim ==
  ASSUME WorkersOK, NEW w \in Workers, worker[w].phase \in Executing,
         NEW ph \in Executing, NEW b \in Nat, NEW m \in Nat,
         worker' = Working(w, ph, b, m)
  PROVE  WorkersOK' /\ NoNewClaim
BY WorkerKeepsJob DEF NoNewClaim

\* release_stale puts expired rows to rest and leaves the others alone.
LEMMA ReleaseStep ==
  ASSUME Inv, NEW w \in Workers, ReleaseStale(w)
  PROVE  Inv'
<1>0. TypeOK /\ RowsOK /\ WorkersOK
  BY DEF Inv, TypeOK
<1>1. \A j \in Jobs : row'[j] = IF Stale(j) THEN Released(j) ELSE row[j]
  BY DEF ReleaseStale
<1>2. ASSUME NEW j \in Jobs
      PROVE  /\ row'[j] \in Rows
             /\ row'[j].state # "ABSENT" =>
                  row'[j].payload \in Payloads /\ row'[j].max \in Budgets
             /\ SameClaim(row'[j], row[j]) \/ AtRest(row'[j])
  <2>1. CASE Stale(j)
    <3>1. row[j].attempt \in Nat /\ row[j].max \in Nat
      BY <1>0 DEF RowsOK, Rows
    <3>2. row[j].payload \in Payloads /\ row[j].max \in Budgets
      BY <1>0, <2>1 DEF RowsOK, Stale
    <3>3. row'[j] = Released(j)
      BY <1>1, <2>1
    <3>4. /\ row'[j] \in Rows /\ row'[j].payload = row[j].payload
          /\ row'[j].max = row[j].max /\ row'[j].attempt = row[j].attempt
          /\ row'[j].lockedBy = None
          /\ row'[j].state = IF row[j].attempt >= row[j].max
                               THEN "FAILED" ELSE "QUEUED"
      BY <1>0, <3>3, ReleasedRow
    <3>5. AtRest(row'[j])
      BY <3>1, <3>4 DEF AtRest
    <3> QED
      BY <3>2, <3>4, <3>5
  <2>2. CASE ~ Stale(j)
    BY <1>0, <1>1, <2>2 DEF SameClaim, RowsOK
  <2> QED
    BY <2>1, <2>2
<1>3. RowsOK'
  <2>1. row' = [j \in Jobs |-> row'[j]]
    BY DEF ReleaseStale
  <2> QED
    BY <1>2, <2>1 DEF RowsOK
<1>4. WorkersOK' /\ NoNewClaim
  <2>1. worker' = [worker EXCEPT ![w] = Idle("claim", 0)]
    BY DEF ReleaseStale
  <2> QED
    BY <1>0, <2>1, WorkerIdle DEF NoNewClaim
<1>5. RequestsOK'
  BY DEF Inv, TypeOK, ReleaseStale, RequestsOK
<1> QED
  BY <1>2, <1>3, <1>4, <1>5, CalmStep DEF TypeOK

\* A claim takes a waiting row, so no other worker holds it, and starts an
\* attempt the row's budget still allows.
LEMMA ClaimStep ==
  ASSUME Inv, NEW w \in Workers, Claim(w)
  PROVE  Inv'
<1>0. TypeOK /\ RowsOK /\ WorkersOK /\ worker[w].phase = "claim"
  BY DEF Inv, TypeOK, Claim, ClaimNext, ClaimReplyLost, ClaimNothing
<1>1. RequestsOK'
  BY DEF Inv, TypeOK, Claim, ClaimNext, ClaimReplyLost, ClaimNothing,
         RequestsOK
<1>2. CASE ClaimNothing(w)
  <2>1. row' = row /\ worker' = PassAborts(w)
    BY <1>2 DEF ClaimNothing
  <2>2. RowsOK' /\ \A k \in Jobs : SameClaim(row'[k], row[k])
    BY <1>0, <2>1 DEF RowsOK, SameClaim
  <2>3. WorkersOK' /\ NoNewClaim
    BY <1>0, <2>1, DropsClaim
  <2> QED
    BY <1>1, <2>2, <2>3, CalmStep DEF TypeOK
<1>3. ASSUME NEW j \in Jobs, Oldest(j), row' = [row EXCEPT ![j] = Claimed(j, w)],
             WorkersOK',
             \A v \in Workers : v # w => worker'[v] = worker[v],
             worker'[w].phase \in Executing =>
               /\ worker'[w].job = j
               /\ worker'[w].payload = row[j].payload
               /\ worker'[w].attempt = row[j].attempt + 1
               /\ worker'[w].max = row[j].max
      PROVE  Inv'
  <2> DEFINE x == Claimed(j, w)
  <2>1. /\ x \in Rows /\ x.state = "RUNNING" /\ x.payload = row[j].payload
        /\ x.max = row[j].max /\ x.attempt = row[j].attempt + 1
        /\ x.lockedBy = w
    BY <1>0, ClaimedRow
  <2>2. row[j].state = "QUEUED"
    BY <1>3 DEF Oldest, Ready
  <2>3. /\ row[j].payload \in Payloads /\ row[j].max \in Budgets
        /\ row[j].attempt \in Nat /\ row[j].max \in Nat
    BY <1>0, <2>2 DEF RowsOK, Rows
  <2>4. RowsOK' /\ row'[j] = x /\ \A k \in Jobs : k # j => row'[k] = row[k]
    <3> HIDE DEF x
    <3>1. row' = [row EXCEPT ![j] = x]
      BY <1>3 DEF x
    <3> QED
      BY <1>0, <2>1, <2>3, <3>1, RowUpdate
  <2> HIDE DEF x
  <2>5. row[j].attempt < row[j].max
    BY <2>2 DEF Inv, AttemptBudget
  <2>6. AttemptBudget'
    BY <2>1, <2>3, <2>4, <2>5 DEF Inv, AttemptBudget
  <2>7. LockOnlyWhileRunning'
    BY <2>1, <2>4, NullAssumption DEF Inv, LockOnlyWhileRunning
  <2>8. LeaseFence'
    <3> SUFFICES ASSUME NEW v \in Workers, worker'[v].phase \in Executing,
                        Holds(v, worker[v].job)'
                 PROVE  /\ worker'[v].payload = row'[worker'[v].job].payload
                        /\ worker'[v].attempt = row'[worker'[v].job].attempt
                        /\ worker'[v].max = row'[worker'[v].job].max
      BY DEF LeaseFence
    <3>1. CASE v = w
      BY <1>3, <2>1, <2>4, <3>1
    <3>2. CASE v # w
      <4> DEFINE k == worker[v].job
      <4>1. worker'[v] = worker[v] /\ k \in Jobs
        BY <1>0, <1>3, <3>2 DEF WorkersOK
      <4>2. row'[k].lockedBy = v /\ row'[k].state = "RUNNING"
        BY <4>1 DEF Holds
      <4>3. k # j
        BY <2>1, <2>4, <3>2, <4>2
      <4>4. row'[k] = row[k]
        BY <2>4, <4>1, <4>3
      <4> QED
        BY <4>1, <4>2, <4>4 DEF Inv, LeaseFence, Holds
    <3> QED
      BY <3>1, <3>2
  <2> QED
    BY <1>1, <1>3, <2>4, <2>6, <2>7, <2>8 DEF Inv, TypeOK
<1>4. ASSUME NEW j \in Jobs, ClaimNext(w, j)
      PROVE  Inv'
  <2> DEFINE y == worker[w]
             n == row[j].attempt + 1
             x == [y EXCEPT !.phase = "begin", !.job = j,
                     !.payload = row[j].payload, !.attempt = n,
                     !.max = row[j].max, !.beat = 0, !.missed = 0]
  <2>1. y \in Processes
    BY <1>0 DEF WorkersOK
  <2>2. /\ row[j].payload \in Payloads /\ row[j].max \in Nat /\ n \in Nat
    BY <1>0, <1>4 DEF RowsOK, Rows, ClaimNext, Oldest, Ready
  <2>3. /\ x \in Processes /\ x.phase = "begin" /\ x.job = j
        /\ x.payload = row[j].payload /\ x.attempt = n /\ x.max = row[j].max
    <3> HIDE DEF y, n
    <3> QED
      BY ONLY <2>1, <2>2, j \in Jobs DEF Processes, Phases, x
  <2>4. worker' = [worker EXCEPT ![w] = x]
    BY <1>4 DEF ClaimNext
  <2>5. /\ WorkersOK' /\ worker'[w] = x
        /\ \A v \in Workers : v # w => worker'[v] = worker[v]
    <3> HIDE DEF x
    <3> QED
      BY <1>0, <2>2, <2>3, <2>4 DEF WorkersOK, Executing
  <2>6. Oldest(j) /\ row' = [row EXCEPT ![j] = Claimed(j, w)]
    BY <1>4 DEF ClaimNext
  <2> HIDE DEF x
  <2> QED
    BY <1>3, <2>3, <2>5, <2>6
<1>5. ASSUME NEW j \in Jobs, ClaimReplyLost(w, j)
      PROVE  Inv'
  <2>1. Oldest(j) /\ row' = [row EXCEPT ![j] = Claimed(j, w)]
          /\ worker' = PassAborts(w)
    BY <1>5 DEF ClaimReplyLost
  <2> QED
    BY <1>0, <1>3, <2>1, PassIdle
<1> QED
  BY <1>2, <1>4, <1>5 DEF Claim

\* Every other step of a worker keeps or drops its claim and renews, rests or
\* leaves the row.
LEMMA ExecuteStep ==
  ASSUME Inv, NEW w \in Workers,
         \/ Start(w) \/ Heartbeat(w) \/ HeartbeatBlip(w)
         \/ ReportProgress(w) \/ ReportLockLost(w) \/ HandlerEnds(w)
         \/ Finish(w) \/ Crash(w)
  PROVE  Inv'
<1>0. TypeOK /\ RowsOK /\ WorkersOK
  BY DEF Inv, TypeOK
<1>1. RequestsOK'
  BY DEF Inv, TypeOK, Start, Begin, FailUnregistered, Heartbeat,
         HeartbeatBlip, ReportProgress, ReportLockLost, HandlerEnds, Finish,
         Succeed, FailOrRetry, FailPermanent, WriteFails, Crash, RequestsOK
<1>2. worker[w].beat \in Nat /\ worker[w].missed \in Nat
  BY <1>0 DEF WorkersOK, Processes
<1>3. ASSUME row' = row, WorkersOK', NoNewClaim
      PROVE  Inv'
  <2>1. RowsOK' /\ \A k \in Jobs : SameClaim(row'[k], row[k])
    BY <1>0, <1>3 DEF RowsOK, SameClaim
  <2> QED
    BY <1>1, <1>3, <2>1, CalmStep DEF TypeOK
<1>4. ASSUME worker[w].phase \in Executing, row' = RenewedRow(w), WorkersOK',
             NoNewClaim
      PROVE  Inv'
  <2>1. RowsOK' /\ \A k \in Jobs : SameClaim(row'[k], row[k])
    BY <1>0, <1>4, RenewedRows
  <2> QED
    BY <1>1, <1>4, <2>1, CalmStep DEF TypeOK
<1>5. ASSUME worker[w].phase \in Executing,
             NEW x \in {Succeeded(w), Failed(w), FailedOrRetried(w)},
             TerminalUpdate(w, x),
             worker' = PassContinues(w) \/ worker' = PassAborts(w)
      PROVE  Inv'
  <2>1. /\ RowsOK'
        /\ \A k \in Jobs : SameClaim(row'[k], row[k]) \/ AtRest(row'[k])
    BY <1>5, TerminalRows
  <2>2. WorkersOK' /\ NoNewClaim
    BY <1>0, <1>5, DropsClaim
  <2> QED
    BY <1>1, <2>1, <2>2, CalmStep DEF TypeOK
<1>6. CASE Begin(w)
  <2>1. /\ worker[w].phase \in Executing /\ row' = RenewedRow(w)
        /\ worker' = Working(w, "run", 0, 0)
    BY <1>6 DEF Begin, Executing
  <2>2. WorkersOK' /\ NoNewClaim
    BY <1>0, <2>1, KeepsClaim DEF Executing
  <2> QED
    BY <1>4, <2>1, <2>2
<1>7. CASE Heartbeat(w)
  <2>1. /\ worker[w].phase \in Executing /\ row' = RenewedRow(w)
        /\ worker' = Working(w, worker[w].phase, 0, 0)
    BY <1>7 DEF Heartbeat, Executing, Beating
  <2>2. WorkersOK' /\ NoNewClaim
    BY <1>0, <2>1, KeepsClaim
  <2> QED
    BY <1>4, <2>1, <2>2
<1>8. CASE HeartbeatBlip(w)
  <2>1. /\ worker[w].phase \in Executing /\ row' = row
        /\ worker' = Working(w, worker[w].phase, 0, worker[w].missed + 1)
    BY <1>8 DEF HeartbeatBlip, Executing, Beating
  <2>2. WorkersOK' /\ NoNewClaim
    <3> DEFINE n == worker[w].missed + 1
    <3>1. n \in Nat /\ worker' = Working(w, worker[w].phase, 0, n)
      BY <1>2, <2>1
    <3> HIDE DEF n
    <3> QED
      BY <1>0, <2>1, <3>1, KeepsClaim
  <2> QED
    BY <1>3, <2>1, <2>2
<1>9. CASE ReportProgress(w)
  <2>1. /\ worker[w].phase \in Executing /\ row' = RenewedRow(w)
        /\ worker' = worker
    BY <1>9 DEF ReportProgress, Executing
  <2>2. WorkersOK' /\ NoNewClaim
    BY <1>0, <2>1 DEF WorkersOK, NoNewClaim
  <2> QED
    BY <1>4, <2>1, <2>2
<1>10. CASE ReportLockLost(w) \/ WriteFails(w)
  <2>1. row' = row /\ (worker' = PassContinues(w) \/ worker' = PassAborts(w))
    BY <1>10 DEF ReportLockLost, WriteFails
  <2> QED
    BY <1>0, <1>3, <2>1, DropsClaim
<1>11. CASE HandlerEnds(w)
  <2>1. PICK outcome \in {"ok", "perm", "error"} :
          worker' = Working(w, outcome, worker[w].beat, worker[w].missed)
    BY <1>11 DEF HandlerEnds
  <2>2. worker[w].phase \in Executing /\ row' = row /\ outcome \in Executing
    BY <1>11 DEF HandlerEnds, Executing
  <2>3. WorkersOK' /\ NoNewClaim
    BY <1>0, <1>2, <2>1, <2>2, KeepsClaim
  <2> QED
    BY <1>3, <2>2, <2>3
<1>12. CASE Succeed(w) \/ FailOrRetry(w) \/ FailPermanent(w)
              \/ FailUnregistered(w)
  <2>1. worker[w].phase \in Executing
    BY <1>12 DEF Succeed, FailOrRetry, FailPermanent, FailUnregistered,
                 Executing
  <2>2. worker' = PassContinues(w) \/ worker' = PassAborts(w)
    BY <1>12 DEF Succeed, FailOrRetry, FailPermanent, FailUnregistered
  <2>3. \E x \in {Succeeded(w), Failed(w), FailedOrRetried(w)} :
          TerminalUpdate(w, x)
    BY <1>12 DEF Succeed, FailOrRetry, FailPermanent, FailUnregistered
  <2> QED
    BY <1>5, <2>1, <2>2, <2>3
<1>13. CASE Crash(w)
  <2>1. row' = row /\ worker' = [worker EXCEPT ![w] = Idle("dead", 0)]
    BY <1>13 DEF Crash
  <2>2. WorkersOK' /\ NoNewClaim
    BY <1>0, <2>1, WorkerIdle DEF NoNewClaim
  <2> QED
    BY <1>3, <2>1, <2>2
<1> QED
  BY <1>6, <1>7, <1>8, <1>9, <1>10, <1>11, <1>12, <1>13 DEF Start, Finish

\* The clock moves lease ages, delays and heartbeat timers and nothing else.
LEMMA TickEffect ==
  ASSUME TypeOK, Tick
  PROVE  /\ TypeOK'
         /\ \A j \in Jobs :
              /\ SameClaim(row'[j], row[j])
              /\ row'[j].result = row[j].result
              /\ row'[j].lockAge <= row[j].lockAge + 1
         /\ \A w \in Workers :
              /\ worker'[w].phase = worker[w].phase
              /\ worker'[w].job = worker[w].job
              /\ worker'[w].payload = worker[w].payload
              /\ worker'[w].attempt = worker[w].attempt
              /\ worker'[w].max = worker[w].max
              /\ worker'[w].missed = worker[w].missed
              /\ worker'[w].beat =
                   IF worker[w].phase \in Executing
                        /\ worker[w].beat < RenewEvery + TailTime
                     THEN worker[w].beat + 1 ELSE worker[w].beat
<1> DEFINE age(j) == IF row[j].state = "RUNNING" /\ row[j].lockAge <= StaleAfter
                       THEN row[j].lockAge + 1 ELSE row[j].lockAge
           delay(j) == IF row[j].wait > 0 THEN row[j].wait - 1 ELSE 0
           beat(w) == IF worker[w].phase \in Executing
                           /\ worker[w].beat < RenewEvery + TailTime
                        THEN worker[w].beat + 1 ELSE worker[w].beat
<1>1. row' = [j \in Jobs |->
                [row[j] EXCEPT !.lockAge = age(j), !.wait = delay(j)]]
  BY DEF Tick
<1>2. worker' = [w \in Workers |-> [worker[w] EXCEPT !.beat = beat(w)]]
  BY DEF Tick
<1>3. request' = request
  BY DEF Tick
<1>4. ASSUME NEW j \in Jobs
      PROVE  /\ row[j] \in Rows /\ age(j) \in Nat /\ delay(j) \in Nat
             /\ age(j) <= row[j].lockAge + 1
  BY DEF TypeOK, RowsOK, Rows
<1>5. ASSUME NEW w \in Workers
      PROVE  worker[w] \in Processes /\ beat(w) \in Nat
  BY DEF TypeOK, WorkersOK, Processes
<1> HIDE DEF age, delay, beat
<1>6. ASSUME NEW j \in Jobs
      PROVE  /\ row'[j] \in Rows /\ SameClaim(row'[j], row[j])
             /\ row'[j].result = row[j].result /\ row'[j].lockAge = age(j)
  <2> DEFINE y == row[j]
             x == row'[j]
  <2>1. /\ y \in Rows /\ age(j) \in Nat /\ delay(j) \in Nat
        /\ x = [y EXCEPT !.lockAge = age(j), !.wait = delay(j)]
    BY <1>1, <1>4
  <2>2. x \in Rows /\ SameClaim(x, y) /\ x.result = y.result
          /\ x.lockAge = age(j)
    <3> HIDE DEF x, y
    <3> QED
      BY ONLY <2>1 DEF Rows, SameClaim
  <2> QED
    BY <2>2
<1>7. ASSUME NEW w \in Workers
      PROVE  /\ worker'[w] \in Processes
             /\ worker'[w].phase = worker[w].phase
             /\ worker'[w].job = worker[w].job
             /\ worker'[w].payload = worker[w].payload
             /\ worker'[w].attempt = worker[w].attempt
             /\ worker'[w].max = worker[w].max
             /\ worker'[w].missed = worker[w].missed
             /\ worker'[w].beat = beat(w)
  <2> DEFINE y == worker[w]
             x == worker'[w]
  <2>1. /\ y \in Processes /\ beat(w) \in Nat
        /\ x = [y EXCEPT !.beat = beat(w)]
    BY <1>2, <1>5
  <2>2. /\ x \in Processes /\ x.phase = y.phase /\ x.job = y.job
        /\ x.payload = y.payload /\ x.attempt = y.attempt /\ x.max = y.max
        /\ x.missed = y.missed /\ x.beat = beat(w)
    <3> HIDE DEF x, y
    <3> QED
      BY ONLY <2>1 DEF Processes
  <2> QED
    BY <2>2
<1>8. RowsOK'
  <2>1. row' = [j \in Jobs |-> row'[j]]
    BY <1>1
  <2> QED
    BY <1>6, <2>1 DEF TypeOK, RowsOK, SameClaim
<1>9. WorkersOK'
  <2>1. worker' = [w \in Workers |-> worker'[w]]
    BY <1>2
  <2> QED
    <3>1. worker' \in [Workers -> Processes]
      BY <1>7, <2>1
    <3>2. \A w \in Workers :
            worker'[w].phase \in Executing =>
              worker'[w].job \in Jobs /\ worker'[w].payload \in Payloads
      BY <1>7 DEF TypeOK, WorkersOK
    <3> QED
      BY <3>1, <3>2 DEF WorkersOK
<1>10. RequestsOK'
  BY <1>3 DEF TypeOK, RequestsOK
<1>11. \A w \in Workers : worker'[w].beat =
                   IF worker[w].phase \in Executing
                        /\ worker[w].beat < RenewEvery + TailTime
                     THEN worker[w].beat + 1 ELSE worker[w].beat
  BY <1>7 DEF beat
<1>12. \A j \in Jobs : row'[j].lockAge <= row[j].lockAge + 1
  BY <1>4, <1>6
<1> QED
  BY <1>6, <1>7, <1>8, <1>9, <1>10, <1>11, <1>12 DEF TypeOK

\* The initial state satisfies the invariant.
LEMMA InitInv ==
  Init => Inv
<1> SUFFICES ASSUME Init PROVE Inv
  OBVIOUS
<1>1. RowsOK
  BY DEF Init, RowsOK, Rows, States
<1>2. WorkersOK
  BY DEF Init, WorkersOK, Processes, Phases, Executing, Idle
<1>3. RequestsOK
  BY DEF Init, RequestsOK, Calls, NoCall
<1>4. AttemptBudget /\ LockOnlyWhileRunning
  BY DEF Init, AttemptBudget, LockOnlyWhileRunning
<1>5. LeaseFence
  BY DEF Init, LeaseFence, Executing, Idle
<1> QED
  BY <1>1, <1>2, <1>3, <1>4, <1>5 DEF Inv, TypeOK

\* Every step preserves the invariant.
LEMMA NextInv ==
  Inv /\ [Next]_vars => Inv'
<1> SUFFICES ASSUME Inv, [Next]_vars PROVE Inv'
  OBVIOUS
<1>1. ASSUME NEW r \in Requests, Enqueue(r) \/ Retry(r) \/ RequeueTerminal(r)
      PROVE  Inv'
  BY <1>1, RequestStep
<1>2. ASSUME NEW w \in Workers, ReleaseStale(w)
      PROVE  Inv'
  BY <1>2, ReleaseStep
<1>3. ASSUME NEW w \in Workers, Claim(w)
      PROVE  Inv'
  BY <1>3, ClaimStep
<1>4. ASSUME NEW w \in Workers,
             \/ Start(w) \/ Heartbeat(w) \/ HeartbeatBlip(w)
             \/ ReportProgress(w) \/ ReportLockLost(w) \/ HandlerEnds(w)
             \/ Finish(w) \/ Crash(w)
      PROVE  Inv'
  BY <1>4, ExecuteStep
<1>5. CASE Tick
  <2>1. TypeOK
    BY DEF Inv
  <2>2. TypeOK' /\ NoNewClaim /\ \A j \in Jobs : SameClaim(row'[j], row[j])
    BY <1>5, <2>1, TickEffect DEF NoNewClaim
  <2> QED
    BY <2>2, CalmStep
<1>6. CASE UNCHANGED vars
  BY <1>6 DEF vars, Inv, TypeOK, RowsOK, WorkersOK, RequestsOK, AttemptBudget,
              LeaseFence, LockOnlyWhileRunning, Holds
<1> QED
  BY <1>1, <1>2, <1>3, <1>4, <1>5, <1>6 DEF Next

\* The four parts hold together in every reachable state.
THEOREM Invariance ==
  Spec => []Inv
BY InitInv, NextInv, PTL DEF Spec

\* Rows, processes and requests stay well typed, and no write of the code
\* dereferences a missing payload, job or budget.
THEOREM TypeCorrect ==
  Spec => []TypeOK
BY Invariance, PTL DEF Inv

\* No job is started more often than its caller allowed, and none waits with
\* its attempts used up.
THEOREM BudgetKept ==
  Spec => []AttemptBudget
BY Invariance, PTL DEF Inv

\* A worker that can still write to a row remembers that row's own claim.
THEOREM Fenced ==
  Spec => []LeaseFence
BY Invariance, PTL DEF Inv

\* Every requeue, release and terminal write clears locked_by, and every claim
\* sets it: a row is owned exactly while it is RUNNING.
THEOREM OwnedWhileRunning ==
  Spec => []LockOnlyWhileRunning
BY Invariance, PTL DEF Inv
-----------------------------------------------------------------------------
(* A worker that meets its timers keeps its lease                          *)

\* The age of a prompt worker's lease is bounded by the time since its
\* heartbeat last woke plus one period for every renewal that failed.
LeaseTimer(w) ==
  worker[w].phase \in Executing =>
    /\ Holds(w, worker[w].job)
    /\ row[worker[w].job].lockAge <= worker[w].beat + RenewEvery * worker[w].missed
    /\ worker[w].missed <= MaxBlips
    /\ worker[w].beat <= Patience(w)

PromptInv == \A w \in Prompt : LeaseTimer(w)

\* Multiplication is monotonic: the two facts the timer argument needs.
LEMMA Times ==
  ASSUME NEW a \in Nat, NEW b \in Nat, NEW c \in Nat
  PROVE  /\ a * b \in Nat
         /\ a * (b + 1) = a * b + a
         /\ b <= c => a * b <= a * c
<1>1. a * b \in Nat /\ a * (b + 1) = a * b + a
  OBVIOUS
<1>2. ASSUME b <= c
      PROVE  a * b <= a * c
  <2>1. PICK d \in Nat : c = b + d
    <3>1. c - b \in Nat /\ c = b + (c - b)
      BY <1>2
    <3> QED
      BY <3>1
  <2>2. a * c = a * b + a * d /\ a * d \in Nat /\ a * b \in Nat
    BY <2>1
  <2> QED
    BY <2>2
<1> QED
  BY <1>1, <1>2

\* A prompt worker's lease is never stale: TimingAssumption at work.
LEMMA NeverStale ==
  ASSUME Inv, PromptInv, NEW v \in Prompt, worker[v].phase \in Executing
  PROVE  ~ Stale(worker[v].job)
<1> DEFINE j == worker[v].job
           m == worker[v].missed
           b == worker[v].beat
<1>1. v \in Workers /\ j \in Jobs /\ m \in Nat /\ b \in Nat
        /\ row[j].lockAge \in Nat
  BY PromptAssumption DEF Inv, TypeOK, WorkersOK, RowsOK, Processes, Rows
<1>2. /\ row[j].lockAge <= b + RenewEvery * m /\ m <= MaxBlips
      /\ b <= Patience(v)
  BY DEF PromptInv, LeaseTimer
<1>3. /\ RenewEvery \in Nat /\ TailTime \in Nat /\ MaxBlips \in Nat
      /\ StaleAfter \in Nat
      /\ RenewEvery * MaxBlips + RenewEvery + TailTime <= StaleAfter
  BY TimingAssumption
<1>4. b <= RenewEvery + TailTime
  BY <1>1, <1>2, <1>3 DEF Patience
<1>5. RenewEvery * m \in Nat /\ RenewEvery * MaxBlips \in Nat
        /\ RenewEvery * m <= RenewEvery * MaxBlips
  BY <1>1, <1>2, <1>3, Times
<1> HIDE DEF j, m, b
<1>6. row[j].lockAge <= StaleAfter
  BY <1>1, <1>2, <1>3, <1>4, <1>5
<1> QED
  BY <1>1, <1>3, <1>6 DEF Stale, j

\* A step that keeps a prompt worker's process and the claim columns of its
\* row, and does not age the lease, keeps its timer.
LEMMA TimerKept ==
  ASSUME Inv, PromptInv, NEW v \in Prompt, worker'[v] = worker[v],
         worker[v].phase \in Executing =>
           /\ SameClaim(row'[worker[v].job], row[worker[v].job])
           /\ row'[worker[v].job].lockAge \in {0, row[worker[v].job].lockAge}
  PROVE  LeaseTimer(v)'
<1> SUFFICES ASSUME worker[v].phase \in Executing
             PROVE  LeaseTimer(v)'
  BY DEF LeaseTimer
<1> DEFINE j == worker[v].job
<1>1. /\ row[j].lockAge \in Nat /\ worker[v].missed \in Nat
      /\ worker[v].beat \in Nat
  BY PromptAssumption DEF Inv, TypeOK, WorkersOK, RowsOK, Processes, Rows
<1>2. /\ Holds(v, j) /\ worker[v].missed <= MaxBlips
      /\ row[j].lockAge <= worker[v].beat + RenewEvery * worker[v].missed
      /\ worker[v].beat <= Patience(v)
  BY DEF PromptInv, LeaseTimer
<1>3. RenewEvery * worker[v].missed \in Nat
  BY <1>1, TimingAssumption, Times
<1>4. /\ worker'[v].job = j /\ worker'[v].missed = worker[v].missed
      /\ worker'[v].beat = worker[v].beat /\ Patience(v)' = Patience(v)
  BY DEF Patience
<1>5. row'[j].lockAge <= worker[v].beat + RenewEvery * worker[v].missed
  BY <1>1, <1>2, <1>3
<1>6. Holds(v, worker[v].job)'
  BY <1>2, <1>4 DEF Holds, SameClaim
<1> QED
  BY <1>2, <1>4, <1>5, <1>6 DEF LeaseTimer

\* What one process or request does to the row another worker holds: renewing
\* is the most it can do.
LEMMA ForeignStep ==
  ASSUME Inv, NEW k \in Jobs, NEW v \in Workers, Holds(v, k),
         \/ \E r \in Requests : Enqueue(r) \/ Retry(r) \/ RequeueTerminal(r)
         \/ \E w \in Workers \ {v} :
              \/ Claim(w) \/ Start(w) \/ Heartbeat(w) \/ HeartbeatBlip(w)
              \/ ReportProgress(w) \/ ReportLockLost(w) \/ HandlerEnds(w)
              \/ Finish(w) \/ Crash(w)
  PROVE  SameClaim(row'[k], row[k]) /\ row'[k].lockAge \in {0, row[k].lockAge}
<1>0. TypeOK /\ RowsOK /\ row[k].state = "RUNNING" /\ row[k].lockedBy = v
  BY DEF Inv, TypeOK, Holds
<1>1. ASSUME row'[k] = row[k]
      PROVE  SameClaim(row'[k], row[k])
               /\ row'[k].lockAge \in {0, row[k].lockAge}
  BY <1>1 DEF SameClaim
<1>2. ASSUME NEW j \in Jobs, NEW x, row[j].state # "RUNNING",
             row' = [row EXCEPT ![j] = x]
      PROVE  row'[k] = row[k]
  BY <1>0, <1>2 DEF RowsOK
<1>3. ASSUME NEW r \in Requests, Enqueue(r) \/ Retry(r) \/ RequeueTerminal(r)
      PROVE  row'[k] = row[k]
  <2>1. ASSUME NEW j \in Jobs, NEW p \in Payloads, NEW m \in Budgets,
               EnqueueNew(r, j, p, m) \/ EnqueueReplay(r, j, p, m)
        PROVE  row'[k] = row[k]
    BY <2>1, <1>2 DEF EnqueueNew, EnqueueReplay
  <2>2. ASSUME RequeueTerminal(r)
        PROVE  row'[k] = row[k]
    <3>1. request[r].job \in Jobs
      BY <1>0, <2>2 DEF TypeOK, RequestsOK, RequeueTerminal
    <3> QED
      BY <1>2, <2>2, <3>1 DEF RequeueTerminal, Dead
  <2> QED
    BY <1>3, <2>1, <2>2 DEF Enqueue, Retry, RetryRead
<1>4. ASSUME NEW w \in Workers \ {v}, Claim(w)
      PROVE  row'[k] = row[k]
  <2>1. ASSUME NEW j \in Jobs, ClaimNext(w, j) \/ ClaimReplyLost(w, j)
        PROVE  row'[k] = row[k]
    BY <1>2, <2>1 DEF ClaimNext, ClaimReplyLost, Oldest, Ready
  <2> QED
    BY <1>4, <2>1 DEF Claim, ClaimNothing
<1>5. ASSUME NEW w \in Workers \ {v}, NEW x, worker[w].phase \in Executing,
             TerminalUpdate(w, x)
      PROVE  row'[k] = row[k]
  <2>1. worker[w].job \in Jobs
    BY <1>0, <1>5 DEF TypeOK, WorkersOK
  <2>2. CASE Holds(w, worker[w].job)
    <3>1. worker[w].job # k
      BY <1>0, <2>2 DEF Holds
    <3> QED
      BY <1>0, <1>5, <2>1, <2>2, <3>1 DEF TerminalUpdate, RowsOK
  <2>3. CASE ~ Holds(w, worker[w].job)
    BY <1>5, <2>3 DEF TerminalUpdate
  <2> QED
    BY <2>2, <2>3
<1>6. ASSUME NEW w \in Workers \ {v}, worker[w].phase \in Executing,
             row' = RenewedRow(w)
      PROVE  SameClaim(row'[k], row[k])
               /\ row'[k].lockAge \in {0, row[k].lockAge}
  BY <1>0, <1>6, RenewedRows
<1>7. ASSUME NEW w \in Workers \ {v},
             \/ Start(w) \/ Heartbeat(w) \/ HeartbeatBlip(w)
             \/ ReportProgress(w) \/ ReportLockLost(w) \/ HandlerEnds(w)
             \/ Finish(w) \/ Crash(w)
      PROVE  SameClaim(row'[k], row[k])
               /\ row'[k].lockAge \in {0, row[k].lockAge}
  <2>1. CASE Begin(w) \/ Heartbeat(w) \/ ReportProgress(w)
    BY <1>6, <2>1 DEF Begin, Heartbeat, ReportProgress, Executing, Beating
  <2>2. CASE \/ HeartbeatBlip(w) \/ ReportLockLost(w) \/ HandlerEnds(w)
             \/ WriteFails(w) \/ Crash(w)
    BY <1>1, <2>2 DEF HeartbeatBlip, ReportLockLost, HandlerEnds, WriteFails,
                      Crash
  <2>3. CASE \/ Succeed(w) \/ FailOrRetry(w) \/ FailPermanent(w)
             \/ FailUnregistered(w)
    BY <1>1, <1>5, <2>3 DEF Succeed, FailOrRetry, FailPermanent,
                            FailUnregistered, Executing
  <2> QED
    BY <1>7, <2>1, <2>2, <2>3 DEF Start, Finish
<1> QED
  BY <1>1, <1>3, <1>4, <1>7

\* A process other than the worker's own is untouched by the worker's step.
LEMMA OtherProcess ==
  ASSUME Inv, NEW w \in Workers, NEW v \in Workers \ {w},
         \/ ReleaseStale(w)
         \/ Claim(w) \/ Start(w) \/ Heartbeat(w) \/ HeartbeatBlip(w)
         \/ ReportProgress(w) \/ ReportLockLost(w) \/ HandlerEnds(w)
         \/ Finish(w) \/ Crash(w)
  PROVE  worker'[v] = worker[v]
<1>1. worker' = worker \/ \E x : worker' = [worker EXCEPT ![w] = x]
  BY DEF ReleaseStale, Claim, ClaimNext, ClaimReplyLost, ClaimNothing, Start,
         Begin, FailUnregistered, Heartbeat, HeartbeatBlip, ReportProgress,
         ReportLockLost, HandlerEnds, Finish, Succeed, FailOrRetry,
         FailPermanent, WriteFails, Crash, PassContinues, PassAborts, Working
<1> QED
  BY <1>1 DEF Inv, TypeOK, WorkersOK

\* The worker's own steps: a claim and a renewal reset the lease, a failed
\* renewal comes exactly one period after the last waking, and the tail after
\* the handler is bounded.
LEMMA OwnStep ==
  ASSUME Inv, PromptInv, NEW v \in Prompt,
         \/ ReleaseStale(v)
         \/ Claim(v) \/ Start(v) \/ Heartbeat(v) \/ HeartbeatBlip(v)
         \/ ReportProgress(v) \/ ReportLockLost(v) \/ HandlerEnds(v)
         \/ Finish(v) \/ Crash(v)
  PROVE  LeaseTimer(v)'
<1>0. v \in Workers /\ TypeOK /\ RowsOK /\ WorkersOK
  BY PromptAssumption DEF Inv, TypeOK
<1>t. RenewEvery \in Nat /\ TailTime \in Nat /\ MaxBlips \in Nat
  BY TimingAssumption
<1>1. ASSUME worker'[v].phase \notin Executing
      PROVE  LeaseTimer(v)'
  BY <1>1 DEF LeaseTimer
<1>2. ASSUME worker' = PassContinues(v) \/ worker' = PassAborts(v)
      PROVE  LeaseTimer(v)'
  BY <1>0, <1>1, <1>2, PassIdle
<1>3. CASE ReleaseStale(v) \/ Crash(v)
  <2>1. \E ph \in {"poll", "claim", "dead"} :
          worker' = [worker EXCEPT ![v] = Idle(ph, 0)]
    BY <1>3 DEF ReleaseStale, Crash
  <2> QED
    BY <1>0, <1>1, <2>1, WorkerIdle
<1>4. CASE \/ ClaimNothing(v) \/ ReportLockLost(v) \/ Finish(v)
           \/ FailUnregistered(v) \/ \E j \in Jobs : ClaimReplyLost(v, j)
  BY <1>2, <1>4 DEF ClaimNothing, ReportLockLost, Finish, Succeed,
       FailOrRetry, FailPermanent, WriteFails, FailUnregistered,
       ClaimReplyLost
<1>5. ASSUME NEW j \in Jobs, ClaimNext(v, j)
      PROVE  LeaseTimer(v)'
  <2>1. Claimed(j, v).state = "RUNNING" /\ Claimed(j, v).lockedBy = v
          /\ Claimed(j, v).lockAge = 0
    BY <1>0, ClaimedRow
  <2>2. row'[j] = Claimed(j, v)
    BY <1>0, <1>5 DEF ClaimNext, RowsOK
  <2> DEFINE y == worker[v]
             x == worker'[v]
             n == row[j].attempt + 1
  <2>3. y \in Processes
    BY <1>0 DEF WorkersOK
  <2>4. x = [y EXCEPT !.phase = "begin", !.job = j,
               !.payload = row[j].payload, !.attempt = n,
               !.max = row[j].max, !.beat = 0, !.missed = 0]
    BY <1>0, <1>5 DEF ClaimNext, WorkersOK
  <2>5. x.phase = "begin" /\ x.job = j /\ x.beat = 0 /\ x.missed = 0
    <3> HIDE DEF x, y, n
    <3> QED
      BY ONLY <2>3, <2>4 DEF Processes
  <2>6. RenewEvery * 0 = 0
    BY <1>t
  <2> QED
    BY <1>t, <2>1, <2>2, <2>5, <2>6 DEF LeaseTimer, Holds, Patience
<1>6. CASE Begin(v) \/ Heartbeat(v) \/ ReportProgress(v)
  <2> DEFINE j == worker[v].job
  <2>1. worker[v].phase \in Executing /\ row' = RenewedRow(v)
    BY <1>6 DEF Begin, Heartbeat, ReportProgress, Executing, Beating
  <2>2. Holds(v, j) /\ worker[v].missed <= MaxBlips
          /\ worker[v].beat <= Patience(v)
    BY <2>1 DEF PromptInv, LeaseTimer
  <2>3. j \in Jobs /\ worker[v].missed \in Nat /\ worker[v].beat \in Nat
    BY <1>0, <2>1 DEF WorkersOK, Processes
  <2>4. SameClaim(row'[j], row[j]) /\ row'[j].lockAge = 0
    BY <1>0, <2>1, <2>2, <2>3, RenewedRows
  <2>5. /\ worker'[v].job = j /\ worker'[v].phase \in Executing
        /\ worker'[v].beat \in Nat /\ worker'[v].missed \in Nat
        /\ worker'[v].missed <= MaxBlips /\ worker'[v].beat <= Patience(v)'
    <3>1. CASE ReportProgress(v)
      BY <2>1, <2>2, <2>3, <3>1 DEF ReportProgress, Patience
    <3>2. CASE Begin(v) \/ Heartbeat(v)
      <4>1. PICK ph \in Executing : worker' = Working(v, ph, 0, 0)
        BY <2>1, <3>2 DEF Begin, Heartbeat, Executing
      <4>2. /\ worker'[v].phase = ph /\ worker'[v].beat = 0
            /\ worker'[v].missed = 0 /\ worker'[v].job = worker[v].job
        BY <1>0, <2>1, <4>1, WorkerKeepsJob
      <4>3. 0 <= Patience(v)'
        BY <1>t DEF Patience
      <4> QED
        BY <1>t, <4>2, <4>3
    <3> QED
      BY <1>6, <3>1, <3>2
  <2>6. RenewEvery * worker'[v].missed \in Nat
    BY <1>t, <2>5, Times
  <2>7. Holds(v, worker[v].job)'
    BY <2>2, <2>4, <2>5 DEF Holds, SameClaim
  <2> QED
    BY <2>4, <2>5, <2>6, <2>7 DEF LeaseTimer
<1>7. CASE HeartbeatBlip(v) \/ HandlerEnds(v)
  <2> DEFINE j == worker[v].job
             b == worker[v].beat
             m == worker[v].missed
  <2>1. worker[v].phase \in Executing /\ row' = row
    BY <1>7 DEF HeartbeatBlip, HandlerEnds, Executing, Beating
  <2>2. /\ Holds(v, j) /\ m <= MaxBlips
        /\ row[j].lockAge <= b + RenewEvery * m
        /\ b <= Patience(v)
    BY <2>1 DEF PromptInv, LeaseTimer
  <2>3. j \in Jobs /\ m \in Nat /\ b \in Nat /\ row[j].lockAge \in Nat
    BY <1>0, <2>1 DEF WorkersOK, Processes, RowsOK, Rows
  <2>4. b <= RenewEvery
    BY <1>7, <2>2 DEF HeartbeatBlip, HandlerEnds, Beating, Patience
  <2>5. CASE HeartbeatBlip(v)
    <3> DEFINE n == m + 1
    <3>1. n \in Nat /\ n <= MaxBlips /\ b = RenewEvery
      BY <1>t, <2>3, <2>4, <2>5 DEF HeartbeatBlip
    <3>2. worker' = Working(v, worker[v].phase, 0, n)
      BY <2>5 DEF HeartbeatBlip
    <3>3. RenewEvery * n = RenewEvery * m + RenewEvery /\ RenewEvery * m \in Nat
      BY <1>t, <2>3, Times
    <3> HIDE DEF n
    <3>4. /\ worker'[v].phase = worker[v].phase /\ worker'[v].beat = 0
          /\ worker'[v].missed = n /\ worker'[v].job = j
      BY <1>0, <2>1, <3>1, <3>2, WorkerKeepsJob
    <3>5. row[j].lockAge <= 0 + RenewEvery * n
      BY <1>t, <2>2, <2>3, <3>1, <3>3
    <3>6. 0 <= Patience(v)'
      BY <1>t DEF Patience
    <3>7. Holds(v, worker[v].job)'
      BY <2>1, <2>2, <3>4 DEF Holds
    <3> QED
      BY <2>1, <3>1, <3>4, <3>5, <3>6, <3>7 DEF LeaseTimer
  <2>6. CASE HandlerEnds(v)
    <3>1. PICK ph \in {"ok", "perm", "error"} : worker' = Working(v, ph, b, m)
      BY <2>6 DEF HandlerEnds
    <3>2. /\ worker'[v].phase = ph /\ worker'[v].beat = b
          /\ worker'[v].missed = m /\ worker'[v].job = j
      BY <1>0, <2>1, <2>3, <3>1, WorkerKeepsJob DEF Executing
    <3>3. b <= Patience(v)'
      BY <1>t, <2>3, <2>4 DEF Patience
    <3>4. Holds(v, worker[v].job)'
      BY <2>1, <2>2, <3>2 DEF Holds
    <3> QED
      BY <2>1, <2>2, <3>2, <3>3, <3>4 DEF LeaseTimer
  <2> QED
    BY <1>7, <2>5, <2>6
<1> QED
  BY <1>3, <1>4, <1>5, <1>6, <1>7 DEF Claim, Start

\* Every step keeps every prompt worker's timer.
LEMMA PromptNext ==
  ASSUME Inv, PromptInv, [Next]_vars
  PROVE  PromptInv'
<1> SUFFICES ASSUME NEW v \in Prompt
             PROVE  LeaseTimer(v)'
  BY DEF PromptInv
<1> DEFINE j == worker[v].job
<1>0. v \in Workers /\ TypeOK
  BY PromptAssumption DEF Inv
<1>1. ASSUME worker[v].phase \in Executing
      PROVE  j \in Jobs /\ Holds(v, j)
  BY <1>0, <1>1 DEF TypeOK, WorkersOK, PromptInv, LeaseTimer
<1>2. ASSUME NEW r \in Requests, Enqueue(r) \/ Retry(r) \/ RequeueTerminal(r)
      PROVE  LeaseTimer(v)'
  <2>1. worker' = worker
    BY <1>2 DEF Enqueue, EnqueueNew, EnqueueReplay, Retry, RetryRead,
                RequeueTerminal
  <2>2. worker[v].phase \in Executing =>
          /\ SameClaim(row'[j], row[j])
          /\ row'[j].lockAge \in {0, row[j].lockAge}
    BY <1>0, <1>1, <1>2, ForeignStep
  <2> QED
    BY <2>1, <2>2, TimerKept
<1>3. ASSUME NEW w \in Workers, w # v, ReleaseStale(w)
      PROVE  LeaseTimer(v)'
  <2>1. worker'[v] = worker[v]
    BY <1>0, <1>3, OtherProcess
  <2>2. ASSUME worker[v].phase \in Executing
        PROVE  row'[j] = row[j]
    <3>1. ~ Stale(j) /\ j \in Jobs
      BY <1>1, <2>2, NeverStale
    <3> QED
      BY <1>3, <3>1 DEF ReleaseStale
  <2> QED
    BY <2>1, <2>2, TimerKept DEF SameClaim
<1>4. ASSUME NEW w \in Workers, w # v,
             \/ Claim(w) \/ Start(w) \/ Heartbeat(w) \/ HeartbeatBlip(w)
             \/ ReportProgress(w) \/ ReportLockLost(w) \/ HandlerEnds(w)
             \/ Finish(w) \/ Crash(w)
      PROVE  LeaseTimer(v)'
  <2>1. worker'[v] = worker[v]
    BY <1>0, <1>4, OtherProcess
  <2>2. worker[v].phase \in Executing =>
          /\ SameClaim(row'[j], row[j])
          /\ row'[j].lockAge \in {0, row[j].lockAge}
    BY <1>0, <1>1, <1>4, ForeignStep
  <2> QED
    BY <2>1, <2>2, TimerKept
<1>5. ASSUME \/ ReleaseStale(v)
             \/ Claim(v) \/ Start(v) \/ Heartbeat(v) \/ HeartbeatBlip(v)
             \/ ReportProgress(v) \/ ReportLockLost(v) \/ HandlerEnds(v)
             \/ Finish(v) \/ Crash(v)
      PROVE  LeaseTimer(v)'
  BY <1>5, OwnStep
<1>6. CASE Tick
  <2> SUFFICES ASSUME worker'[v].phase \in Executing
               PROVE  LeaseTimer(v)'
    BY DEF LeaseTimer
  <2> DEFINE b == worker[v].beat
             m == worker[v].missed
  <2>1. /\ worker'[v].phase = worker[v].phase /\ worker'[v].job = j
        /\ worker'[v].missed = m
        /\ worker'[v].beat = IF worker[v].phase \in Executing
                                  /\ b < RenewEvery + TailTime
                               THEN b + 1 ELSE b
    BY <1>0, <1>6, TickEffect
  <2>2. worker[v].phase \in Executing /\ j \in Jobs /\ Holds(v, j)
    BY <1>1, <2>1
  <2>3. SameClaim(row'[j], row[j]) /\ row'[j].lockAge <= row[j].lockAge + 1
    BY <1>0, <1>6, <2>2, TickEffect
  <2>4. /\ m <= MaxBlips /\ row[j].lockAge <= b + RenewEvery * m
    BY <2>2 DEF PromptInv, LeaseTimer
  <2>5. b < Patience(v) /\ Patience(v)' = Patience(v)
    BY <1>6, <2>1, <2>2 DEF Tick, Patience
  <2>6. /\ m \in Nat /\ b \in Nat /\ row[j].lockAge \in Nat
        /\ RenewEvery \in Nat /\ TailTime \in Nat
    BY <1>0, <2>2, TimingAssumption
       DEF TypeOK, WorkersOK, RowsOK, Processes, Rows
  <2>7. worker'[v].beat = b + 1
    BY <2>1, <2>2, <2>5, <2>6 DEF Patience
  <2>8. TypeOK'
    BY <1>0, <1>6, TickEffect
  <2>9. row'[j].lockAge \in Nat
    BY <2>2, <2>8 DEF TypeOK, RowsOK, Rows
  <2>10. RenewEvery * m \in Nat
    BY <2>6, Times
  <2>11. Patience(v) \in Nat
    BY <2>6 DEF Patience
  <2>12. /\ row'[j].lockAge <= (b + 1) + RenewEvery * m
         /\ b + 1 <= Patience(v)
    <3> HIDE DEF b, m, j
    <3> QED
      BY <2>3, <2>4, <2>5, <2>6, <2>9, <2>10, <2>11
  <2>13. Holds(v, worker[v].job)'
    BY <2>1, <2>2, <2>3 DEF Holds, SameClaim
  <2> QED
    BY <2>1, <2>4, <2>5, <2>7, <2>12, <2>13 DEF LeaseTimer
<1>7. CASE UNCHANGED vars
  BY <1>7, TimerKept DEF vars, SameClaim
<1> QED
  BY <1>2, <1>3, <1>4, <1>5, <1>6, <1>7 DEF Next

\* The lease timers hold in every reachable state.
THEOREM PromptInvariance ==
  Spec => []PromptInv
<1>1. Init => PromptInv
  BY PromptAssumption DEF Init, PromptInv, LeaseTimer, Idle, Executing
<1>2. Inv /\ PromptInv /\ [Next]_vars => PromptInv'
  BY PromptNext
<1> QED
  BY <1>1, <1>2, Invariance, PTL DEF Spec

\* release_stale never takes a job from a worker that meets its timers, however
\* many workers, jobs and requests there are, as long as the renewals that may
\* fail in a row and the time to write the result fit into STALE_LOCK_SECONDS.
THEOREM LeaseKept ==
  Spec => []PromptKeepsLease
<1>1. PromptInv => PromptKeepsLease
  BY DEF PromptInv, LeaseTimer, PromptKeepsLease
<1> QED
  BY <1>1, PromptInvariance, PTL

\* Two prompt workers never execute the same job at the same time.
THEOREM Exclusive ==
  Spec => []PromptExclusive
<1>1. PromptKeepsLease => PromptExclusive
  BY DEF PromptKeepsLease, PromptExclusive, Holds
<1> QED
  BY <1>1, LeaseKept, PTL
-----------------------------------------------------------------------------
(* The queue implements its contract                                       *)

\* Initially no job exists for either.
LEMMA ContractInit ==
  Init => Contract!Init
BY DEF Init, Contract!Init, Status

\* What the contract sees of a row.
SameJob(x, y) ==
  /\ Status(x.state) = Status(y.state) /\ x.payload = y.payload
  /\ x.result = y.result /\ x.attempt = y.attempt /\ x.max = y.max

\* Leases, delays and the difference between QUEUED and RUNNING are invisible.
LEMMA Invisible ==
  ASSUME \A j \in Jobs : SameJob(row'[j], row[j])
  PROVE  UNCHANGED Contract!vars
BY DEF SameJob, Contract!vars

\* A new or requeued row is a submission.
LEMMA Submits ==
  ASSUME NEW j \in Jobs, \A k \in Jobs : k # j => row'[k] = row[k],
         row[j].state \in {"ABSENT", "FAILED", "CANCELED"},
         row'[j].state = "QUEUED", row'[j].payload \in Payloads,
         row'[j].max \in Budgets, row'[j].attempt = 0, row'[j].result = None
  PROVE  Contract!Submit(j)
<1>1. Status(row[j].state) \in {"none", "failed"} /\ Status(row'[j].state) = "open"
  BY DEF Status
<1> QED
  BY <1>1 DEF Contract!Submit

\* A claim is a start.
LEMMA Starts ==
  ASSUME NEW j \in Jobs, \A k \in Jobs : k # j => row'[k] = row[k],
         row[j].state = "QUEUED", row[j].attempt < row[j].max,
         row'[j].state = "RUNNING", row'[j].payload = row[j].payload,
         row'[j].max = row[j].max, row'[j].attempt = row[j].attempt + 1,
         row'[j].result = row[j].result
  PROVE  Contract!Start(j)
<1>1. Status(row[j].state) = "open" /\ Status(row'[j].state) = "open"
  BY DEF Status
<1> QED
  BY <1>1 DEF Contract!Start

\* A success is the answer to the stored input.
LEMMA Answers ==
  ASSUME NEW j \in Jobs, \A k \in Jobs : k # j => row'[k] = row[k],
         row[j].state = "RUNNING", row[j].attempt > 0,
         row'[j].state = "SUCCEEDED", row'[j].payload = row[j].payload,
         row'[j].max = row[j].max, row'[j].attempt = row[j].attempt,
         row'[j].result = row[j].payload
  PROVE  Contract!Answer(j)
<1>1. Status(row[j].state) = "open" /\ Status(row'[j].state) = "done"
  BY DEF Status
<1> QED
  BY <1>1 DEF Contract!Answer

\* Failing some jobs and leaving the others as they look gives them up.
LEMMA GivesUp ==
  ASSUME NEW S \in SUBSET Jobs,
         \A j \in Jobs \ S : SameJob(row'[j], row[j]),
         \A j \in S :
           /\ row[j].state = "RUNNING" /\ row[j].attempt > 0
           /\ row'[j].state = "FAILED" /\ row'[j].payload = row[j].payload
           /\ row'[j].max = row[j].max /\ row'[j].attempt = row[j].attempt
           /\ row'[j].result = row[j].result
  PROVE  Contract!GiveUp(S)
<1>1. \A j \in S : Status(row[j].state) = "open" /\ Status(row'[j].state) = "failed"
  BY DEF Status
<1>2. \A j \in Jobs : /\ row'[j].payload = row[j].payload
                      /\ row'[j].result = row[j].result
                      /\ row'[j].max = row[j].max
                      /\ row'[j].attempt = row[j].attempt
  BY DEF SameJob
<1>3. \A j \in Jobs : Status(row'[j].state) =
        IF j \in S THEN "failed" ELSE Status(row[j].state)
  BY <1>1 DEF SameJob
<1> QED
  BY <1>1, <1>2, <1>3 DEF Contract!GiveUp

\* Every step of the queue is a step of the contract or invisible to it.
LEMMA ContractNext ==
  ASSUME Inv, [Next]_vars
  PROVE  [Contract!Next]_(Contract!vars)
<1>0. TypeOK /\ RowsOK /\ WorkersOK /\ RequestsOK
  BY DEF Inv, TypeOK
<1>1. ASSUME row' = row
      PROVE  UNCHANGED Contract!vars
  BY <1>1, Invisible DEF SameJob
<1>2. ASSUME NEW r \in Requests, Enqueue(r) \/ Retry(r) \/ RequeueTerminal(r)
      PROVE  [Contract!Next]_(Contract!vars)
  <2>1. ASSUME NEW j \in Jobs, NEW p \in Payloads, NEW m \in Budgets,
               EnqueueNew(r, j, p, m)
        PROVE  Contract!Submit(j)
    <3> DEFINE x == Inserted(j, p, m)
    <3>1. /\ x.state = "QUEUED" /\ x.attempt = 0 /\ x.result = None
          /\ x.payload = p /\ x.max = m
      BY <1>0, InsertedRow
    <3>2. /\ row'[j] = x /\ \A k \in Jobs : k # j => row'[k] = row[k]
          /\ row[j].state = "ABSENT"
      BY <1>0, <2>1 DEF EnqueueNew, RowsOK
    <3> HIDE DEF x
    <3> QED
      BY <3>1, <3>2, Submits
  <2>2. CASE Enqueue(r)
    BY <1>1, <2>1, <2>2 DEF Enqueue, EnqueueReplay, Contract!Next
  <2>3. CASE Retry(r)
    BY <1>1, <2>3 DEF Retry, RetryRead
  <2>4. CASE RequeueTerminal(r)
    <3>1. PICK j \in Jobs, p \in Payloads, m \in Budgets :
            j = request[r].job /\ p = request[r].payload /\ m = request[r].max
      BY <1>0, <2>4 DEF RequestsOK, RequeueTerminal
    <3> DEFINE x == Requeued(j, p, m)
    <3>2. /\ x.state = "QUEUED" /\ x.attempt = 0 /\ x.result = None
          /\ x.payload = p /\ x.max = m
      BY <1>0, RequeuedRow
    <3>3. CASE row[j].state \in Dead
      <4>1. row'[j] = x /\ \A k \in Jobs : k # j => row'[k] = row[k]
        BY <1>0, <2>4, <3>1, <3>3 DEF RequeueTerminal, RowsOK
      <4> HIDE DEF x
      <4>2. Contract!Submit(j)
        BY <3>2, <3>3, <4>1, Submits DEF Dead
      <4> QED
        BY <4>2 DEF Contract!Next
    <3>4. CASE row[j].state \notin Dead
      BY <1>1, <2>4, <3>1, <3>4 DEF RequeueTerminal
    <3> QED
      BY <3>3, <3>4
  <2> QED
    BY <1>2, <2>2, <2>3, <2>4
<1>3. ASSUME NEW w \in Workers, ReleaseStale(w)
      PROVE  [Contract!Next]_(Contract!vars)
  <2> DEFINE S == {j \in Jobs : Stale(j) /\ row[j].attempt >= row[j].max}
  <2>1. ASSUME NEW j \in Jobs, Stale(j)
        PROVE  /\ row[j].state = "RUNNING" /\ row[j].attempt > 0
               /\ row'[j].payload = row[j].payload
               /\ row'[j].result = row[j].result
               /\ row'[j].max = row[j].max
               /\ row'[j].attempt = row[j].attempt
               /\ row'[j].state = IF row[j].attempt >= row[j].max
                                    THEN "FAILED" ELSE "QUEUED"
    <3>1. row'[j] = Released(j) /\ row[j].state = "RUNNING"
      BY <1>3, <2>1 DEF ReleaseStale, Stale
    <3>2. row[j].attempt > 0
      <4>1. row[j].attempt \in 1 .. row[j].max /\ row[j].max \in Nat
        BY <1>0, <3>1 DEF Inv, AttemptBudget, RowsOK, Rows
      <4> QED
        BY <4>1
    <3> QED
      BY <1>0, <3>1, <3>2, ReleasedRow
  <2>2. ASSUME NEW j \in Jobs, ~ Stale(j)
        PROVE  SameJob(row'[j], row[j])
    BY <1>3, <2>2 DEF ReleaseStale, SameJob
  <2>3. ASSUME NEW j \in Jobs \ S
        PROVE  SameJob(row'[j], row[j])
    <3>1. CASE Stale(j)
      <4>1. Status("QUEUED") = Status("RUNNING")
        BY DEF Status
      <4> QED
        BY <2>1, <3>1, <4>1 DEF SameJob
    <3>2. CASE ~ Stale(j)
      BY <2>2, <3>2
    <3> QED
      BY <3>1, <3>2
  <2>4. \A j \in S :
          /\ row[j].state = "RUNNING" /\ row[j].attempt > 0
          /\ row'[j].state = "FAILED" /\ row'[j].payload = row[j].payload
          /\ row'[j].max = row[j].max /\ row'[j].attempt = row[j].attempt
          /\ row'[j].result = row[j].result
    BY <2>1
  <2>5. S \in SUBSET Jobs
    OBVIOUS
  <2> HIDE DEF S
  <2>6. Contract!GiveUp(S)
    BY <2>3, <2>4, <2>5, GivesUp
  <2> QED
    BY <2>5, <2>6 DEF Contract!Next
<1>4. ASSUME NEW w \in Workers, Claim(w)
      PROVE  [Contract!Next]_(Contract!vars)
  <2>1. ASSUME NEW j \in Jobs, ClaimNext(w, j) \/ ClaimReplyLost(w, j)
        PROVE  Contract!Start(j)
    <3> DEFINE x == Claimed(j, w)
    <3>1. row[j].state = "QUEUED"
      BY <2>1 DEF ClaimNext, ClaimReplyLost, Oldest, Ready
    <3>2. row[j].attempt < row[j].max
      BY <3>1 DEF Inv, AttemptBudget
    <3>3. row'[j] = x /\ \A k \in Jobs : k # j => row'[k] = row[k]
      BY <1>0, <2>1 DEF ClaimNext, ClaimReplyLost, RowsOK
    <3>4. /\ x.state = "RUNNING" /\ x.payload = row[j].payload
          /\ x.max = row[j].max /\ x.attempt = row[j].attempt + 1
          /\ x.result = row[j].result
      BY <1>0, ClaimedRow
    <3> HIDE DEF x
    <3> QED
      BY <3>1, <3>2, <3>3, <3>4, Starts
  <2> QED
    BY <1>1, <1>4, <2>1 DEF Claim, ClaimNothing, Contract!Next
<1>5. ASSUME NEW w \in Workers, worker[w].phase \in Executing,
             NEW x \in {Succeeded(w), Failed(w), FailedOrRetried(w)},
             TerminalUpdate(w, x)
      PROVE  [Contract!Next]_(Contract!vars)
  <2>0. PICK j \in Jobs : j = worker[w].job
    BY <1>0, <1>5 DEF WorkersOK
  <2>1. CASE ~ Holds(w, j)
    BY <1>1, <1>5, <2>0, <2>1 DEF TerminalUpdate
  <2>2. CASE Holds(w, j)
    <3>1. row'[j] = x /\ \A k \in Jobs : k # j => row'[k] = row[k]
      BY <1>0, <1>5, <2>0, <2>2 DEF TerminalUpdate, RowsOK
    <3>2. row[j].state = "RUNNING" /\ row[j].attempt > 0
      <4>1. row[j].state = "RUNNING"
        BY <2>2 DEF Holds
      <4>2. row[j].attempt \in 1 .. row[j].max /\ row[j].max \in Nat
        BY <1>0, <2>0, <4>1 DEF Inv, AttemptBudget, RowsOK, Rows
      <4> QED
        BY <4>1, <4>2
    <3>3. worker[w].payload = row[j].payload
      BY <1>5, <2>0, <2>2 DEF Inv, LeaseFence
    <3>4. CASE x = Succeeded(w)
      <4>1. /\ x.state = "SUCCEEDED" /\ x.payload = row[j].payload
            /\ x.max = row[j].max /\ x.attempt = row[j].attempt
            /\ x.result = row[j].payload
        BY <1>0, <1>5, <2>0, <3>3, <3>4, SucceededRow
      <4>2. Contract!Answer(j)
        BY <3>1, <3>2, <4>1, Answers
      <4> QED
        BY <4>2 DEF Contract!Next
    <3>5. ASSUME x.state = "FAILED", x.payload = row[j].payload,
                 x.max = row[j].max, x.attempt = row[j].attempt,
                 x.result = row[j].result
          PROVE  [Contract!Next]_(Contract!vars)
      <4> DEFINE S == {j}
      <4>1. S \in SUBSET Jobs /\ \A k \in Jobs \ S : SameJob(row'[k], row[k])
        BY <2>0, <3>1 DEF SameJob
      <4>2. \A k \in S :
              /\ row[k].state = "RUNNING" /\ row[k].attempt > 0
              /\ row'[k].state = "FAILED" /\ row'[k].payload = row[k].payload
              /\ row'[k].max = row[k].max /\ row'[k].attempt = row[k].attempt
              /\ row'[k].result = row[k].result
        BY <3>1, <3>2, <3>5
      <4> HIDE DEF S
      <4>3. Contract!GiveUp(S)
        BY <4>1, <4>2, GivesUp
      <4> QED
        BY <4>1, <4>3 DEF Contract!Next
    <3>6. CASE x = Failed(w)
      BY <1>0, <1>5, <2>0, <3>5, <3>6, FailedRow
    <3>7. CASE x = FailedOrRetried(w)
      <4>1. /\ x.payload = row[j].payload /\ x.max = row[j].max
            /\ x.attempt = row[j].attempt /\ x.result = row[j].result
            /\ x.state \in {"FAILED", "QUEUED"}
        BY <1>0, <1>5, <2>0, <3>7, FailedOrRetriedRow
      <4>2. CASE x.state = "FAILED"
        BY <3>5, <4>1, <4>2
      <4>3. CASE x.state = "QUEUED"
        <5>1. Status(x.state) = Status(row[j].state)
          BY <3>2, <4>3 DEF Status
        <5>2. \A k \in Jobs : SameJob(row'[k], row[k])
          BY <3>1, <4>1, <5>1 DEF SameJob
        <5> QED
          BY <5>2, Invisible
      <4> QED
        BY <4>1, <4>2, <4>3
    <3> QED
      BY <3>4, <3>6, <3>7
  <2> QED
    BY <2>1, <2>2
<1>6. ASSUME NEW w \in Workers,
             \/ Start(w) \/ Heartbeat(w) \/ HeartbeatBlip(w)
             \/ ReportProgress(w) \/ ReportLockLost(w) \/ HandlerEnds(w)
             \/ Finish(w) \/ Crash(w)
      PROVE  [Contract!Next]_(Contract!vars)
  <2>1. CASE Begin(w) \/ Heartbeat(w) \/ ReportProgress(w)
    <3>1. worker[w].phase \in Executing /\ row' = RenewedRow(w)
      BY <2>1 DEF Begin, Heartbeat, ReportProgress, Executing, Beating
    <3>2. \A k \in Jobs : SameClaim(row'[k], row[k])
                           /\ row'[k].result = row[k].result
      BY <1>0, <3>1, RenewedRows
    <3> QED
      BY <3>2, Invisible DEF SameClaim, SameJob
  <2>2. CASE \/ HeartbeatBlip(w) \/ ReportLockLost(w) \/ HandlerEnds(w)
             \/ WriteFails(w) \/ Crash(w)
    BY <1>1, <2>2 DEF HeartbeatBlip, ReportLockLost, HandlerEnds, WriteFails,
                      Crash
  <2>3. CASE \/ Succeed(w) \/ FailOrRetry(w) \/ FailPermanent(w)
             \/ FailUnregistered(w)
    <3>1. worker[w].phase \in Executing
      BY <2>3 DEF Succeed, FailOrRetry, FailPermanent, FailUnregistered,
                  Executing
    <3>2. \E x \in {Succeeded(w), Failed(w), FailedOrRetried(w)} :
            TerminalUpdate(w, x)
      BY <2>3 DEF Succeed, FailOrRetry, FailPermanent, FailUnregistered
    <3> QED
      BY <1>5, <3>1, <3>2
  <2> QED
    BY <1>6, <2>1, <2>2, <2>3 DEF Start, Finish
<1>7. CASE Tick
  <2>1. \A k \in Jobs : SameClaim(row'[k], row[k])
                         /\ row'[k].result = row[k].result
    BY <1>0, <1>7, TickEffect
  <2> QED
    BY <2>1, Invisible DEF SameClaim, SameJob
<1>8. CASE UNCHANGED vars
  BY <1>1, <1>8 DEF vars
<1> QED
  BY <1>2, <1>3, <1>4, <1>6, <1>7, <1>8 DEF Next

\* The lease protocol implements the contract: a submission is started at most
\* max_attempts times, a success answers the stored input and is final, and a
\* failed job reopens only through a new enqueue or retry.
THEOREM Refinement ==
  Spec => KeepsContract
<1>1. Init => Contract!Init
  BY ContractInit
<1>2. Inv /\ [Next]_vars => [Contract!Next]_(Contract!vars)
  BY ContractNext
<1> QED
  BY <1>1, <1>2, Invariance, PTL DEF Spec, KeepsContract, Contract!Spec
=============================================================================
