------------------------------ MODULE JobQueue ------------------------------
(***************************************************************************)
(* The durable job queue of backend/jobs: rows of job_runs, the worker     *)
(* processes that claim and execute them under a renewable lease, and the  *)
(* requests that enqueue and retry them.                                   *)
(*                                                                         *)
(* A job is an (organisation, type, idempotency key).  Payloads are        *)
(* opaque; a result is identified by the payload it was computed from.     *)
(* Time is relative: Tick ages every lease and shortens every delay.  Each *)
(* SQL statement is one step, because each runs in its own transaction.    *)
(***************************************************************************)
EXTENDS Integers, FiniteSets

CONSTANTS
  Jobs, Workers, Requests, Payloads, None,
  Budgets,      \* max_attempts values callers pass
  Registered,   \* jobs whose type the worker build knows
  Crashable,    \* workers that may die
  Prompt,       \* workers that are never paused: they meet their own timers
  StaleAfter,   \* STALE_LOCK_SECONDS, in ticks
  RenewEvery,   \* LEASE_RENEW_SECONDS, in ticks
  TailTime,     \* ticks a prompt worker may need from handler end to write
  MaxBlips,     \* consecutive lease renewals that may fail on the database
  BackoffUnit,  \* the 15 s of the quadratic backoff, in ticks
  Batch         \* jobs one pass executes at most

ASSUME TimingAssumption ==
  /\ {StaleAfter, RenewEvery, TailTime, MaxBlips, BackoffUnit} \subseteq Nat
  /\ RenewEvery * MaxBlips + RenewEvery + TailTime <= StaleAfter

ASSUME BudgetAssumption == Budgets \subseteq Nat \ {0} /\ Batch \in Nat \ {0}

ASSUME PromptAssumption == Prompt \subseteq Workers

ASSUME FiniteAssumption == IsFiniteSet(Jobs)

ASSUME NullAssumption == None \notin Payloads \cup Workers \cup Jobs

VARIABLES
  row,     \* job_runs, one row per job
  worker,  \* what each worker process is doing
  request  \* what each HTTP request or emitter is doing

vars == <<row, worker, request>>

States == {"QUEUED", "RUNNING", "SUCCEEDED", "FAILED", "CANCELED"}
Dead == {"FAILED", "CANCELED"}

Rows ==
  [state    : States \cup {"ABSENT"},
   payload  : Payloads \cup {None},
   attempt  : Nat,
   max      : Nat,
   lockedBy : Workers \cup {None},
   lockAge  : Nat,                    \* now - locked_at
   wait     : Nat,                    \* run_after - now, never negative
   born     : Nat,                    \* rank of created_at
   result   : Payloads \cup {None}]

Phases == {"poll", "claim", "begin", "run", "ok", "perm", "error", "dead"}
Executing == {"begin", "run", "ok", "perm", "error"}
\* The heartbeat thread outlives the handler until the `finally` block.
Beating == {"run", "perm", "error"}

Processes ==
  [phase     : Phases,
   job       : Jobs \cup {None},
   payload   : Payloads \cup {None},  \* the claimed row, as claim_next
   attempt   : Nat,                   \*   returned it
   max       : Nat,
   processed : Nat,
   beat      : Nat,                   \* since the heartbeat last woke
   missed    : Nat]                   \* renewals failed since the last one

Calls ==
  [at      : {"idle", "enqueue", "retry", "done"},
   job     : Jobs \cup {None},
   payload : Payloads \cup {None},
   max     : Nat]

RowsOK ==
  /\ row \in [Jobs -> Rows]
  /\ \A j \in Jobs :
       row[j].state # "ABSENT" =>
         row[j].payload \in Payloads /\ row[j].max \in Budgets

WorkersOK ==
  /\ worker \in [Workers -> Processes]
  /\ \A w \in Workers :
       worker[w].phase \in Executing =>
         worker[w].job \in Jobs /\ worker[w].payload \in Payloads

RequestsOK ==
  /\ request \in [Requests -> Calls]
  /\ \A r \in Requests :
       request[r].at \in {"enqueue", "retry"} =>
         /\ request[r].job \in Jobs
         /\ request[r].payload \in Payloads
         /\ request[r].max \in Budgets

\* Types, and no missing value where the code dereferences one: an existing
\* row, a claimed row and a pending requeue each carry a payload and a budget.
TypeOK == RowsOK /\ WorkersOK /\ RequestsOK

\* A process with no job in hand; what it remembered of the last one is gone.
Idle(phase, processed) ==
  [phase |-> phase, job |-> None, payload |-> None, attempt |-> 0, max |-> 0,
   processed |-> processed, beat |-> 0, missed |-> 0]

NoCall(at) == [at |-> at, job |-> None, payload |-> None, max |-> 0]

Init ==
  /\ row = [j \in Jobs |->
       [state |-> "ABSENT", payload |-> None, attempt |-> 0, max |-> 0,
        lockedBy |-> None, lockAge |-> 0, wait |-> 0, born |-> 0,
        result |-> None]]
  /\ worker = [w \in Workers |-> Idle("poll", 0)]
  /\ request = [r \in Requests |-> NoCall("idle")]
-----------------------------------------------------------------------------
(* Requests                                                                *)

\* created_at orders rows by insertion, and rows are never deleted.
NextBorn == 1 + Cardinality({j \in Jobs : row[j].state # "ABSENT"})

Requeued(j, p, m) ==
  [row[j] EXCEPT !.state = "QUEUED", !.payload = p, !.attempt = 0,
                 !.max = m, !.lockedBy = None, !.lockAge = 0, !.wait = 0,
                 !.result = None]

Inserted(j, p, m) == [Requeued(j, p, m) EXCEPT !.born = NextBorn]

\* insert_job creates the row.
EnqueueNew(r, j, p, m) ==
  /\ request[r].at = "idle"
  /\ row[j].state = "ABSENT"
  /\ row' = [row EXCEPT ![j] = Inserted(j, p, m)]
  /\ request' = [request EXCEPT ![r] = NoCall("done")]
  /\ UNCHANGED worker

\* insert_job meets the key: a live or succeeded row is the answer, a dead one
\* is requeued by a later statement.
EnqueueReplay(r, j, p, m) ==
  /\ request[r].at = "idle"
  /\ row[j].state # "ABSENT"
  /\ request' = [request EXCEPT ![r] =
       IF row[j].state \in Dead
         THEN [at |-> "enqueue", job |-> j, payload |-> p, max |-> m]
         ELSE NoCall("done")]
  /\ UNCHANGED <<row, worker>>

\* retry reads the row and refuses unless it is dead.
RetryRead(r, j) ==
  /\ request[r].at = "idle"
  /\ row[j].state \in Dead
  /\ request' = [request EXCEPT ![r] =
       [at |-> "retry", job |-> j, payload |-> row[j].payload,
        max |-> row[j].max]]
  /\ UNCHANGED <<row, worker>>

\* requeue_terminal, for both callers; a lost race changes nothing.
RequeueTerminal(r) ==
  /\ request[r].at \in {"enqueue", "retry"}
  /\ LET j == request[r].job IN
       row' = IF row[j].state \in Dead
                THEN [row EXCEPT ![j] =
                        Requeued(j, request[r].payload, request[r].max)]
                ELSE row
  /\ request' = [request EXCEPT ![r] = NoCall("done")]
  /\ UNCHANGED worker
-----------------------------------------------------------------------------
(* Workers                                                                 *)

Holds(w, j) == row[j].lockedBy = w /\ row[j].state = "RUNNING"

\* The pass goes on with the next job, or ends after a full batch.
PassContinues(w) ==
  [worker EXCEPT ![w] = IF @.processed + 1 < Batch
                          THEN Idle("claim", @.processed + 1)
                          ELSE Idle("poll", 0)]

\* The process goes on with its job; its timers are set.
Working(w, phase, beat, missed) ==
  [worker EXCEPT ![w] =
     [@ EXCEPT !.phase = phase, !.beat = beat, !.missed = missed]]

\* An exception leaves run_once; run_forever catches it.
PassAborts(w) == [worker EXCEPT ![w] = Idle("poll", 0)]

Unlocked(rec) == [rec EXCEPT !.lockedBy = None, !.lockAge = 0]

\* MUTANT: a lease exactly at the cutoff counts as stale.
StaleAtCutoff(j) == row[j].state = "RUNNING" /\ row[j].lockAge >= StaleAfter

\* MUTANT: only jobs with attempts left are released.
StaleWithBudget(j) ==
  /\ row[j].state = "RUNNING"
  /\ row[j].lockAge > StaleAfter
  /\ row[j].attempt < row[j].max

Stale(j) == row[j].state = "RUNNING" /\ row[j].lockAge > StaleAfter

Released(j) ==
  [Unlocked(row[j]) EXCEPT
     !.state = IF row[j].attempt >= row[j].max THEN "FAILED" ELSE "QUEUED"]

\* run_once begins: release_stale over the whole table.
ReleaseStale(w) ==
  /\ worker[w].phase = "poll"
  /\ row' = [j \in Jobs |-> IF Stale(j) THEN Released(j) ELSE row[j]]
  /\ worker' = [worker EXCEPT ![w] = Idle("claim", 0)]
  /\ UNCHANGED request

Ready(j) == row[j].state = "QUEUED" /\ row[j].wait = 0

Oldest(j) == Ready(j) /\ \A k \in Jobs : Ready(k) => row[j].born <= row[k].born

Claimed(j, w) ==
  [row[j] EXCEPT !.state = "RUNNING", !.lockedBy = w, !.lockAge = 0,
                 !.attempt = @ + 1]

ClaimNext(w, j) ==
  /\ worker[w].phase = "claim"
  /\ Oldest(j)
  /\ row' = [row EXCEPT ![j] = Claimed(j, w)]
  /\ worker' = [worker EXCEPT ![w] =
       [@ EXCEPT !.phase = "begin", !.job = j, !.payload = row[j].payload,
                 !.attempt = row[j].attempt + 1, !.max = row[j].max,
                 !.beat = 0, !.missed = 0]]
  /\ UNCHANGED request

\* The claim commits but its reply is lost: run_forever logs and polls again.
ClaimReplyLost(w, j) ==
  /\ worker[w].phase = "claim"
  /\ Oldest(j)
  /\ row' = [row EXCEPT ![j] = Claimed(j, w)]
  /\ worker' = PassAborts(w)
  /\ UNCHANGED request

ClaimNothing(w) ==
  /\ worker[w].phase = "claim"
  /\ ~ \E j \in Jobs : Ready(j)
  /\ worker' = PassAborts(w)
  /\ UNCHANGED <<row, request>>

\* renew_lock, guarded by the lease like every write of a worker.
RenewedRow(w) ==
  LET j == worker[w].job
  IN  IF Holds(w, j) THEN [row EXCEPT ![j].lockAge = 0] ELSE row

\* _execute with a known type: renew the lease, start heartbeat and handler.
\* The result of this renewal is not looked at.
Begin(w) ==
  /\ worker[w].phase = "begin"
  /\ worker[w].job \in Registered
  /\ row' = RenewedRow(w)
  /\ worker' = Working(w, "run", 0, 0)
  /\ UNCHANGED request

\* The heartbeat wakes after RenewEvery and renews.  Once it has found the lease gone
\* it returns; the renewals it would have tried would change nothing.
Heartbeat(w) ==
  /\ worker[w].phase \in Beating
  /\ worker[w].beat >= RenewEvery
  /\ row' = RenewedRow(w)
  /\ worker' = Working(w, worker[w].phase, 0, 0)
  /\ UNCHANGED request

\* A database error in a renewal is logged; the next one is RenewEvery away.
HeartbeatBlip(w) ==
  /\ worker[w].phase \in Beating
  /\ worker[w].beat >= RenewEvery
  /\ worker[w].missed < MaxBlips
  /\ worker' = Working(w, worker[w].phase, 0, worker[w].missed + 1)
  /\ UNCHANGED <<row, request>>

\* The handler reports progress, which renews the lease.
ReportProgress(w) ==
  /\ worker[w].phase = "run"
  /\ Holds(w, worker[w].job)
  /\ row' = RenewedRow(w)
  /\ UNCHANGED <<worker, request>>

\* ... or finds the lease gone and is aborted by LockLostError.
ReportLockLost(w) ==
  /\ worker[w].phase = "run"
  /\ ~ Holds(w, worker[w].job)
  /\ worker' = PassContinues(w)
  /\ UNCHANGED <<row, request>>

\* The handler returns, raises JobPermanentError, or raises anything else.
HandlerEnds(w) ==
  /\ worker[w].phase = "run"
  /\ \E outcome \in {"ok", "perm", "error"} :
       worker' = Working(w, outcome, worker[w].beat, worker[w].missed)
  /\ UNCHANGED <<row, request>>

Succeeded(w) ==
  [Unlocked(row[worker[w].job]) EXCEPT
     !.state = "SUCCEEDED", !.result = worker[w].payload]

Failed(w) == [Unlocked(row[worker[w].job]) EXCEPT !.state = "FAILED"]

\* The verdict and the backoff use the attempt and budget of the claimed row.
FailedOrRetried(w) ==
  [Unlocked(row[worker[w].job]) EXCEPT
     !.state = IF worker[w].attempt >= worker[w].max
                 THEN "FAILED" ELSE "QUEUED",
     !.wait = BackoffUnit * worker[w].attempt * worker[w].attempt]

\* MUTANT: the write is keyed by id only.
TerminalUpdateUnfenced(w, rec) == row' = [row EXCEPT ![worker[w].job] = rec]

\* _terminal_update: the write happens only under the lease.
TerminalUpdate(w, rec) ==
  row' = IF Holds(w, worker[w].job)
           THEN [row EXCEPT ![worker[w].job] = rec] ELSE row

Succeed(w) ==
  /\ worker[w].phase = "ok"
  /\ TerminalUpdate(w, Succeeded(w))
  /\ worker' = PassContinues(w)
  /\ UNCHANGED request

FailOrRetry(w) ==
  /\ worker[w].phase = "error"
  /\ TerminalUpdate(w, FailedOrRetried(w))
  /\ worker' = PassContinues(w)
  /\ UNCHANGED request

\* Nothing catches the LockLostError of this write inside run_once.
FailPermanent(w) ==
  /\ worker[w].phase = "perm"
  /\ TerminalUpdate(w, Failed(w))
  /\ worker' = IF Holds(w, worker[w].job) THEN PassContinues(w)
                                          ELSE PassAborts(w)
  /\ UNCHANGED request

\* A job whose type this build does not know goes through fail_or_retry.
FailUnregistered(w) ==
  /\ worker[w].phase = "begin"
  /\ worker[w].job \notin Registered
  /\ TerminalUpdate(w, FailedOrRetried(w))
  /\ worker' = IF Holds(w, worker[w].job) THEN PassContinues(w)
                                          ELSE PassAborts(w)
  /\ UNCHANGED request

\* A terminal write fails on the database: the row stays RUNNING.
WriteFails(w) ==
  /\ worker[w].phase \in {"ok", "perm", "error"}
  /\ worker' = PassAborts(w)
  /\ UNCHANGED <<row, request>>

\* A restarted process has a new worker id: it is another member of Workers.
Crash(w) ==
  /\ w \in Crashable
  /\ worker[w].phase # "dead"
  /\ worker' = [worker EXCEPT ![w] = Idle("dead", 0)]
  /\ UNCHANGED <<row, request>>
-----------------------------------------------------------------------------
(* Time                                                                    *)

\* The longest a prompt worker goes without waking up.
Patience(w) ==
  IF worker[w].phase = "ok" THEN RenewEvery + TailTime ELSE RenewEvery

Tick ==
  /\ \A w \in Prompt :
       worker[w].phase \in Executing => worker[w].beat < Patience(w)
  /\ row' = [j \in Jobs |->
       [row[j] EXCEPT
          !.lockAge = IF row[j].state = "RUNNING" /\ @ <= StaleAfter
                        THEN @ + 1 ELSE @,
          !.wait = IF @ > 0 THEN @ - 1 ELSE 0]]
  /\ worker' = [w \in Workers |->
       [worker[w] EXCEPT
          !.beat = IF worker[w].phase \in Executing
                       /\ @ < RenewEvery + TailTime
                     THEN @ + 1 ELSE @]]
  /\ UNCHANGED request
-----------------------------------------------------------------------------
Enqueue(r) ==
  \E j \in Jobs, p \in Payloads, m \in Budgets :
    EnqueueNew(r, j, p, m) \/ EnqueueReplay(r, j, p, m)

Retry(r) == \E j \in Jobs : RetryRead(r, j)

Claim(w) ==
  \/ \E j \in Jobs : ClaimNext(w, j) \/ ClaimReplyLost(w, j)
  \/ ClaimNothing(w)

Start(w) == Begin(w) \/ FailUnregistered(w)

Finish(w) == Succeed(w) \/ FailOrRetry(w) \/ FailPermanent(w) \/ WriteFails(w)

Next ==
  \/ \E r \in Requests : Enqueue(r) \/ Retry(r) \/ RequeueTerminal(r)
  \/ \E w \in Workers :
       \/ ReleaseStale(w) \/ Claim(w) \/ Start(w)
       \/ Heartbeat(w) \/ HeartbeatBlip(w)
       \/ ReportProgress(w) \/ ReportLockLost(w)
       \/ HandlerEnds(w) \/ Finish(w) \/ Crash(w)
  \/ Tick

Spec == Init /\ [][Next]_vars

(* A live process keeps running (run_forever never returns), every handler *)
(* ends, and the clock advances.  A process that hangs for ever is a       *)
(* crashed one.                                                            *)
Fairness ==
  /\ WF_vars(Tick)
  /\ \A w \in Workers :
       WF_vars(ReleaseStale(w) \/ Claim(w) \/ Start(w) \/ HandlerEnds(w) \/ Finish(w))

FairSpec == Spec /\ Fairness
-----------------------------------------------------------------------------
(* Properties                                                              *)

\* A waiting row can still be started and a running one was started at least
\* once and never more often than the caller allowed, although fail_or_retry
\* decides by the attempt its worker remembers from the claim, not by the row.
AttemptBudget ==
  \A j \in Jobs :
    /\ row[j].state = "QUEUED" => row[j].attempt < row[j].max
    /\ row[j].state = "RUNNING" => row[j].attempt \in 1 .. row[j].max

\* Whenever a worker would pass the guard of a lease-conditional write
\* (locked_by = me AND state = RUNNING), the payload, attempt and budget it
\* remembers are those of the row: no zombie can write for a later claim.
LeaseFence ==
  \A w \in Workers :
    worker[w].phase \in Executing /\ Holds(w, worker[w].job) =>
      /\ worker[w].payload = row[worker[w].job].payload
      /\ worker[w].attempt = row[worker[w].job].attempt
      /\ worker[w].max = row[worker[w].job].max

\* At most one live worker can pass that guard for a job, and a row that is
\* not RUNNING belongs to nobody (requeue, release and terminal writes all
\* clear locked_by).
LockOnlyWhileRunning ==
  \A j \in Jobs : row[j].state = "RUNNING" <=> row[j].lockedBy # None

\* A worker that meets its timers keeps its lease until its own terminal
\* write, even when MaxBlips renewals in a row fail: release_stale never takes
\* a job from it.
PromptKeepsLease ==
  \A w \in Prompt :
    worker[w].phase \in Executing => Holds(w, worker[w].job)

\* Hence no two prompt workers ever execute the same job at the same time.
PromptExclusive ==
  \A v, w \in Prompt :
    /\ worker[v].phase \in Executing
    /\ worker[w].phase \in Executing
    /\ worker[v].job = worker[w].job
    => v = w

\* The queue keeps the contract stated in JobContract.
Status(s) ==
  CASE s = "ABSENT" -> "none"
    [] s \in {"QUEUED", "RUNNING"} -> "open"
    [] s = "SUCCEEDED" -> "done"
    [] OTHER -> "failed"

Contract == INSTANCE JobContract WITH
  status <- [j \in Jobs |-> Status(row[j].state)],
  input  <- [j \in Jobs |-> row[j].payload],
  output <- [j \in Jobs |-> row[j].result],
  starts <- [j \in Jobs |-> row[j].attempt],
  budget <- [j \in Jobs |-> row[j].max]

\* Every submission is started at most max_attempts times, is answered from
\* the input stored with it, keeps a successful answer for ever, and reopens
\* after failure only through a new enqueue or retry.
KeepsContract == Contract!Spec

\* A submitted job is eventually answered or given up, whatever workers crash,
\* pause or lose their leases, as long as one of them survives.
EveryJobSettles ==
  \A j \in Jobs :
    row[j].state \in {"QUEUED", "RUNNING"} ~>
      row[j].state \in {"SUCCEEDED", "FAILED"}
=============================================================================
