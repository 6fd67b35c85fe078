----------------------------- MODULE AgentJobs -----------------------------
(***************************************************************************)
(* One agent job (a row of ai_jobs) and the durable runs (rows of job_runs)*)
(* that carry its rounds: the requests that queue, repeat, retry and       *)
(* cancel a round, and the handler ai_agent_run, whose claim, run marker,  *)
(* act transaction and bookkeeping commit one by one.  A run is also the   *)
(* key of its request, so a request that is sent again finds its run.      *)
(***************************************************************************)
EXTENDS Integers, Sequences, FiniteSets

CONSTANTS
  Workers,        \* worker processes
  MaxRuns,        \* bound: rounds requested
  MaxAttempts,    \* max_attempts of a run
  MaxErrorTurns,  \* MAX_ERROR_TURNS
  MaxCancel,      \* bound: cancels
  MaxLoad         \* bound: rounds requested, deaths of workers, leases that expire
                  \* under a live worker, requests sent again, memberships
                  \* withdrawn and approvals, together

ASSUME ConstantsAssumption ==
  /\ MaxRuns \in Nat \ {0} /\ MaxAttempts \in Nat \ {0} /\ MaxErrorTurns \in Nat \ {0}
  /\ MaxCancel \in Nat /\ MaxLoad \in Nat

Runs == 1..MaxRuns
None == "none"

Settled    == {"WAITING_FOR_USER", "WAITING_FOR_APPROVAL", "FAILED_RETRYABLE", "SUCCEEDED"}
Terminal   == {"SUCCEEDED", "FAILED", "CANCELED"}
InProgress == {"QUEUED", "PLANNING", "RUNNING"}

VARIABLES
  state,      \* ai_jobs.state
  transcript, \* ai_jobs.transcript: the rounds it records, how they ended, and
              \* the approvals marked on them, in the order of their writing
  owner,      \* the run whose claim the row last accepted
  runs,       \* job_runs
  work,       \* what each worker is doing
  signal,     \* the row of ai_job_cancel_signals: the round it was meant for, or 0
  asking,     \* a cancel that found the row busy and has not left its signal, or 0
  sweep,      \* release_stale has failed a run and not yet its job
  approval,   \* AiJobApproveView: the stores it may have left and the transcript it read
  used        \* what counted against the bounds, and the rounds that a sweep or
              \* an approval overtook

vars == <<state, transcript, owner, runs, work, signal, asking, sweep, approval, used>>

NoRun == [state |-> "ABSENT", mode |-> "new", keyed |-> FALSE, attempt |-> 0,
          holder |-> None, fresh |-> FALSE]
Queued(mode, keyed) == [NoRun EXCEPT !.state = "QUEUED", !.mode = mode, !.keyed = keyed]
NoApproval == [left |-> 0, read |-> << >>]
Idle == [pc |-> "idle", run |-> 0, before |-> << >>, ok |-> FALSE]

(* AiAgentView.post has submitted the job: its row and its first run.      *)
Init ==
  /\ state = "QUEUED" /\ transcript = << >> /\ owner = 0
  /\ runs = [r \in Runs |-> IF r = 1 THEN Queued("new", TRUE) ELSE NoRun]
  /\ work = [w \in Workers |-> Idle]
  /\ signal = 0 /\ asking = 0 /\ sweep = FALSE /\ approval = NoApproval
  /\ used = [crash |-> 0, stall |-> 0, resend |-> 0, cancel |-> 0, revoke |-> 0,
             approve |-> 0, overtaken |-> 0]

Count(what) == used' = [used EXCEPT ![what] = @ + 1]
Spare ==
  Cardinality({r \in Runs : runs[r].state # "ABSENT"})
    + used.crash + used.stall + used.resend + used.revoke + used.approve < MaxLoad
Fault(what) == Spare /\ Count(what)

(* finish_job holds the row until the act transaction commits.             *)
RowFree == \A w \in Workers : work[w].pc # "finishing"

(* A loop at work on the round that the row is in.                         *)
AtWork(w) == work[w].pc \in {"planning", "marked", "acting", "finishing", "failing"}

Go(w, pc) == work' = [work EXCEPT ![w].pc = pc]

----------------------------------------------------------------------------
(* The requests.  Each is one transaction.                                 *)

Unused(r) ==
  /\ runs[r].state = "ABSENT" /\ \A q \in 1..(r - 1) : runs[q].state # "ABSENT"
  /\ Spare

mark_queued ==
  /\ RowFree /\ state \in Settled
  /\ state' = "QUEUED"

(* AiJobMessagesView: a follow-up with a key of its own.                   *)
Message(r) ==
  /\ Unused(r) /\ mark_queued
  /\ runs' = [runs EXCEPT ![r] = Queued("resume", TRUE)]
  /\ UNCHANGED <<transcript, owner, work, signal, asking, sweep, approval, used>>

(* The reply was lost and the client sends its key again: a run that       *)
(* failed is queued once more, any other answers for the request.          *)
Requeue(r) ==
  runs' = IF runs[r].state = "FAILED"
            THEN [runs EXCEPT ![r] = Queued(@.mode, TRUE)] ELSE runs

ResendMessage(r) ==
  /\ runs[r].keyed /\ runs[r].mode = "resume" /\ runs[r].state # "ABSENT"
  /\ mark_queued /\ Requeue(r) /\ Fault("resend")
  /\ UNCHANGED <<transcript, owner, work, signal, asking, sweep, approval>>

ResendSubmit ==
  /\ Requeue(1) /\ Fault("resend")
  /\ UNCHANGED <<state, transcript, owner, work, signal, asking, sweep, approval>>

(* AiJobRetryView.                                                         *)
Retry(r) ==
  /\ state = "FAILED_RETRYABLE" /\ Unused(r) /\ mark_queued
  /\ runs' = [runs EXCEPT ![r] = Queued("resume", FALSE)]
  /\ UNCHANGED <<transcript, owner, work, signal, asking, sweep, approval, used>>

(* request_cancel: a free row is canceled; a row it waited for in vain is  *)
(* read, and a signal left once it is known not to be terminal.            *)
Cancel ==
  /\ RowFree /\ state \notin Terminal /\ used.cancel < MaxCancel /\ Count("cancel")
  /\ state' = "CANCELED"
  /\ UNCHANGED <<transcript, owner, runs, work, signal, asking, sweep, approval>>

CancelBusy ==
  /\ ~RowFree /\ asking = 0 /\ used.cancel < MaxCancel /\ Count("cancel")
  /\ asking' = owner
  /\ UNCHANGED <<state, transcript, owner, runs, work, signal, sweep, approval>>

CancelSignal ==
  /\ asking # 0 /\ asking' = 0
  /\ signal' = IF signal = 0 THEN asking ELSE signal
  /\ UNCHANGED <<state, transcript, owner, runs, work, sweep, approval, used>>

(* record_outcome: the last gated step of an approval is decided.          *)
record_outcome ==
  /\ RowFree /\ state = "WAITING_FOR_APPROVAL"
  /\ state' = "SUCCEEDED"
  /\ UNCHANGED <<transcript, owner, runs, work, signal, asking, sweep, approval, used>>

(* AiJobApproveView reads a job that no round is working on and applies    *)
(* the steps that its latest agent turn prepared.  The positions are       *)
(* stored in the transaction that read them, a quote step in a later one,  *)
(* each with the transcript of the reading and its markers.                *)
Approve ==
  /\ state \notin InProgress /\ \E i \in DOMAIN transcript : transcript[i][2] = "ok"
  /\ Fault("approve")
  /\ approval' = [left |-> 2, read |-> transcript]
  /\ UNCHANGED <<state, transcript, owner, runs, work, signal, asking, sweep>>

Marked(t) == Append(t, <<0, "approved">>)

(* The row is asked for nothing but its state: a canceled job comes back,  *)
(* and what a later round recorded is written over.                        *)
store_approval ==
  /\ RowFree /\ approval.left > 0
  /\ \/ approval' = NoApproval
     \/ approval.left = 2 /\ approval' = [left |-> 1, read |-> Marked(approval.read)]
  /\ IF state \in InProgress THEN UNCHANGED <<state, transcript, used>>
     ELSE /\ state' \in {"WAITING_FOR_APPROVAL", "SUCCEEDED"}
          /\ transcript' = Marked(approval.read)
          /\ IF \E w \in Workers : AtWork(w) THEN Count("overtaken") ELSE UNCHANGED used
  /\ UNCHANGED <<owner, runs, work, signal, asking, sweep>>

----------------------------------------------------------------------------
(* The handler.                                                            *)

Holds(w) == LET run == runs[work[w].run] IN run.state = "RUNNING" /\ run.holder = w

(* The oldest queued run is claimed first.                                 *)
claim_next(w, r) ==
  /\ work[w].pc = "idle" /\ runs[r].state = "QUEUED"
  /\ \A q \in 1..(r - 1) : runs[q].state # "QUEUED"
  /\ runs' = [runs EXCEPT ![r].state = "RUNNING", ![r].holder = w, ![r].fresh = TRUE,
                          ![r].attempt = @ + 1]
  /\ work' = [work EXCEPT ![w] = [Idle EXCEPT !.pc = "claim", !.run = r]]
  /\ UNCHANGED <<state, transcript, owner, signal, asking, sweep, approval, used>>

Mode(w) == runs[work[w].run].mode

(* The membership is gone, or a report finds the lease lost: the handler   *)
(* leaves before its try.                                                  *)
LeaveEarly(w) ==
  /\ work[w].pc = "claim"
  /\ work' = [work EXCEPT ![w] = Idle]
  /\ IF Holds(w)
       THEN /\ Fault("revoke")
            /\ runs' = [runs EXCEPT ![work[w].run].state = "FAILED",
                                    ![work[w].run].holder = None]
       ELSE UNCHANGED <<runs, used>>
  /\ UNCHANGED <<state, transcript, owner, signal, asking, sweep, approval>>

(* Some worker has a fresh lease on a run of this job.                     *)
RunLeaseLive == \E r \in Runs : runs[r].state = "RUNNING" /\ runs[r].fresh

\* MUTANT: a round in progress is claimed again, whoever holds it.
ClaimableAnyway(w) == state \in InProgress

(* claim_queued_job and resume_job.                                        *)
Claimable(w) ==
  \/ state = "QUEUED"
  \/ Mode(w) = "new" /\ state \in {"PLANNING", "RUNNING"} /\ ~RunLeaseLive

ClaimAi(w) ==
  /\ work[w].pc = "claim" /\ RowFree
  /\ IF ~Claimable(w)
       THEN Go(w, "clear") /\ UNCHANGED <<state, owner>>
     ELSE IF signal # 0
       THEN /\ Go(w, "canceling")
            /\ UNCHANGED <<state, owner>>
     ELSE /\ state' = "PLANNING" /\ owner' = work[w].run
          /\ work' = [work EXCEPT ![w].pc = "planning", ![w].before = transcript]
  /\ UNCHANGED <<transcript, runs, signal, asking, sweep, approval, used>>

mark_running(w) ==
  /\ work[w].pc = "planning" /\ RowFree
  /\ IF state = "PLANNING" THEN state' = "RUNNING" /\ Go(w, "marked")
                           ELSE Go(w, "clear") /\ UNCHANGED state
  /\ UNCHANGED <<transcript, owner, runs, signal, asking, sweep, approval, used>>

BeginAct(w) ==
  /\ work[w].pc = "marked"
  /\ Go(w, IF state = "RUNNING" THEN "acting" ELSE "canceling")
  /\ UNCHANGED <<state, transcript, owner, runs, signal, asking, sweep, approval, used>>

(* Before a round the loop looks for a cancel; a provider that fails, and  *)
(* a report that finds the lease lost, leave it by an exception.           *)
CancelSeen(w) ==
  /\ work[w].pc = "acting"
  /\ signal # 0 \/ state = "CANCELED"
  /\ Go(w, "canceling")
  /\ UNCHANGED <<state, transcript, owner, runs, signal, asking, sweep, approval, used>>

RoundFails(w) ==
  /\ work[w].pc = "acting" /\ Go(w, "failing")
  /\ UNCHANGED <<state, transcript, owner, runs, signal, asking, sweep, approval, used>>

\* MUTANT: the result is written whatever the state of the row.
FinishAnyState(w) ==
  /\ work[w].pc = "acting" /\ RowFree
  /\ Go(w, "finishing")
  /\ UNCHANGED <<state, transcript, owner, runs, signal, asking, sweep, approval, used>>

(* finish_job writes a row that still runs, and its transaction commits.   *)
finish_job(w) ==
  /\ work[w].pc = "acting" /\ RowFree
  /\ Go(w, IF state = "RUNNING" THEN "finishing" ELSE "failing")
  /\ UNCHANGED <<state, transcript, owner, runs, signal, asking, sweep, approval, used>>

FinishCommit(w) ==
  /\ work[w].pc = "finishing"
  /\ state' \in {"WAITING_FOR_USER", "WAITING_FOR_APPROVAL", "SUCCEEDED"}
  /\ transcript' = Append(work[w].before, <<work[w].run, "ok">>)
  /\ Go(w, "report")
  /\ UNCHANGED <<owner, runs, signal, asking, sweep, approval, used>>

(* report(95), after the commit and still inside the try.                  *)
Report(w) ==
  /\ work[w].pc = "report"
  /\ work' = [work EXCEPT ![w].pc = IF Holds(w) THEN "clear" ELSE "failing",
                          ![w].ok = Holds(w)]
  /\ UNCHANGED <<state, transcript, owner, runs, signal, asking, sweep, approval, used>>

Errors(t) == Cardinality({i \in DOMAIN t : t[i][2] = "error"})

(* record_failure is bound to the transcript this round resumed.           *)
record_failure(w) ==
  LET failed == Append(transcript, <<work[w].run, "error">>) IN
  IF state \in {"PLANNING", "RUNNING"} /\ transcript = work[w].before
    THEN /\ transcript' = failed
         /\ state' = IF Errors(failed) >= MaxErrorTurns THEN "FAILED" ELSE "FAILED_RETRYABLE"
    ELSE UNCHANGED <<state, transcript>>

fail_queued_job(w) ==
  IF state \in InProgress
    THEN state' = "FAILED_RETRYABLE" /\ transcript' = << <<work[w].run, "error">> >>
    ELSE UNCHANGED <<state, transcript>>

\* MUTANT: a failed round leaves without bookkeeping.
FailingStuck(w) ==
  /\ work[w].pc = "failing" /\ RowFree
  /\ IF state = "CANCELED" THEN signal' = 0 ELSE UNCHANGED signal
  /\ Go(w, "clear")
  /\ UNCHANGED <<state, transcript, owner, runs, asking, sweep, approval, used>>

(* The bookkeeping of a failure; a cancel that came first is kept.         *)
Failing(w) ==
  /\ work[w].pc = "failing" /\ RowFree
  /\ IF state = "CANCELED" THEN signal' = 0 /\ UNCHANGED <<state, transcript>>
     ELSE /\ IF Mode(w) = "resume" THEN record_failure(w) ELSE fail_queued_job(w)
          /\ UNCHANGED signal
  /\ Go(w, "clear")
  /\ UNCHANGED <<owner, runs, asking, sweep, approval, used>>

(* cancel_job and clear_cancel_signal.                                     *)
Canceling(w) ==
  /\ work[w].pc = "canceling" /\ RowFree
  /\ state' = IF state \in Terminal THEN state ELSE "CANCELED"
  /\ signal' = 0
  /\ Go(w, "clear")
  /\ UNCHANGED <<transcript, owner, runs, asking, sweep, approval, used>>

(* The finally of the handler, and the worker's last write, which needs    *)
(* the lease.                                                              *)
EndRun(w) ==
  /\ work[w].pc = "clear"
  /\ signal' = 0
  /\ runs' = IF Holds(w)
               THEN [runs EXCEPT ![work[w].run].state = IF work[w].ok THEN "SUCCEEDED" ELSE "FAILED",
                                 ![work[w].run].holder = None]
               ELSE runs
  /\ work' = [work EXCEPT ![w] = Idle]
  /\ UNCHANGED <<state, transcript, owner, asking, sweep, approval, used>>

----------------------------------------------------------------------------
(* Deaths, leases and the sweep.                                           *)

Crash(w) ==
  /\ work[w].pc # "idle" /\ Fault("crash")
  /\ work' = [work EXCEPT ![w] = Idle]
  /\ UNCHANGED <<state, transcript, owner, runs, signal, asking, sweep, approval>>

Attended(r) == \E w \in Workers : work[w].run = r /\ runs[r].holder = w

(* The lease of a dead worker expires; a live one's only when it stalls.   *)
Expire(r) ==
  /\ runs[r].state = "RUNNING" /\ runs[r].fresh
  /\ IF Attended(r) THEN Fault("stall") ELSE UNCHANGED used
  /\ runs' = [runs EXCEPT ![r].fresh = FALSE]
  /\ UNCHANGED <<state, transcript, owner, work, signal, asking, sweep, approval>>

renew_lock(r) ==
  /\ runs[r].state = "RUNNING" /\ ~runs[r].fresh /\ Attended(r)
  /\ runs' = [runs EXCEPT ![r].fresh = TRUE]
  /\ UNCHANGED <<state, transcript, owner, work, signal, asking, sweep, approval, used>>

(* release_stale: the first statement; a run without attempts left fails   *)
(* and its job is settled by the second.                                   *)
release_stale(r) ==
  LET spent == runs[r].attempt >= MaxAttempts IN
  /\ runs[r].state = "RUNNING" /\ ~runs[r].fresh
  /\ runs' = [runs EXCEPT ![r].state = IF spent THEN "FAILED" ELSE "QUEUED", ![r].holder = None]
  /\ sweep' = (sweep \/ spent)
  /\ UNCHANGED <<state, transcript, owner, work, signal, asking, approval, used>>

(* The second statement asks for no run: a round that a later run has      *)
(* begun meanwhile is settled too.                                         *)
SettleStranded ==
  /\ sweep /\ RowFree /\ sweep' = FALSE
  /\ state' = IF state \in InProgress THEN "FAILED_RETRYABLE" ELSE state
  /\ IF state \in InProgress /\ \E w \in Workers : AtWork(w)
       THEN Count("overtaken") ELSE UNCHANGED used
  /\ UNCHANGED <<transcript, owner, runs, work, signal, asking, approval>>

(* The sweeper dies between the two: at most once for each run that failed *)
(* there, so no bound of its own is needed.                                *)
SweepDies ==
  /\ sweep /\ sweep' = FALSE /\ Count("crash")
  /\ UNCHANGED <<state, transcript, owner, runs, work, signal, asking, approval>>

----------------------------------------------------------------------------
Step(w) ==
  \/ LeaveEarly(w) \/ ClaimAi(w) \/ mark_running(w) \/ BeginAct(w) \/ CancelSeen(w)
  \/ RoundFails(w) \/ finish_job(w) \/ FinishCommit(w) \/ Report(w)
  \/ Failing(w) \/ Canceling(w) \/ EndRun(w)

Sweep == SettleStranded \/ \E r \in Runs : release_stale(r) \/ (Expire(r) /\ ~Attended(r))

Next ==
  \/ \E r \in Runs : Message(r) \/ ResendMessage(r) \/ Retry(r)
  \/ ResendSubmit \/ Cancel \/ CancelBusy \/ CancelSignal \/ record_outcome
  \/ Approve \/ store_approval
  \/ \E w \in Workers, r \in Runs : claim_next(w, r)
  \/ \E w \in Workers : Step(w) \/ Crash(w)
  \/ \E r \in Runs : Expire(r) \/ renew_lock(r) \/ release_stale(r)
  \/ SettleStranded \/ SweepDies

Spec == Init /\ [][Next]_vars

(* Workers poll and go on, and each pass of a worker sweeps first.         *)
FairSpec ==
  /\ Spec /\ WF_vars(Sweep)
  /\ \A w \in Workers : WF_vars(Step(w))
  /\ WF_vars(\E w \in Workers, r \in Runs : claim_next(w, r))

----------------------------------------------------------------------------
TypeOK ==
  /\ state \in Settled \cup Terminal \cup InProgress
  /\ transcript \in Seq((0..MaxRuns) \X {"ok", "error", "approved"})
  /\ owner \in 0..MaxRuns /\ signal \in 0..MaxRuns /\ asking \in 0..MaxRuns
  /\ runs \in [Runs -> [state : {"ABSENT", "QUEUED", "RUNNING", "SUCCEEDED", "FAILED"},
                        mode : {"new", "resume"}, keyed : BOOLEAN,
                        attempt : 0..MaxAttempts, holder : Workers \cup {None},
                        fresh : BOOLEAN]]
  /\ work \in [Workers ->
       [pc : {"idle", "claim", "planning", "marked", "acting", "finishing",
              "report", "failing", "canceling", "clear"},
        run : 0..MaxRuns, before : Seq((0..MaxRuns) \X {"ok", "error", "approved"}), ok : BOOLEAN]]
  /\ \A w \in Workers : work[w].pc # "idle" => work[w].run # 0
  /\ sweep \in BOOLEAN
  /\ used \in [crash : Nat, stall : Nat, resend : Nat, cancel : Nat, revoke : Nat,
                approve : Nat, overtaken : Nat]
  /\ approval \in [left : 0..2, read : Seq((0..MaxRuns) \X {"ok", "error", "approved"})]

(* No lease has expired under a live worker, no request came twice, no     *)
(* membership was withdrawn, and no sweep or approval settled a job with a *)
(* loop at work on it.                                                     *)
Quiet == used.stall = 0 /\ used.resend = 0 /\ used.revoke = 0 /\ used.overtaken = 0

(* A loop at work, and the result it writes, belong to the round the row   *)
(* is in: nothing has claimed the job from under it, unless a sweep or the *)
(* approval of an earlier round first settled it there.                    *)
LoopOwnsRound ==
  Quiet =>
    \A w \in Workers : work[w].pc \in {"acting", "finishing"} => owner = work[w].run

(* What a person canceled stays canceled: no late result, failure or sweep *)
(* brings the job back, only a person who approves what an earlier round   *)
(* prepared, and then the row records what that person read and nothing    *)
(* of the canceled round.                                                  *)
CancelSticks ==
  [][state = "CANCELED" =>
       \/ state' = "CANCELED"
       \/ approval.left > 0 /\ transcript' = Marked(approval.read)]_vars

(* Every round ends: the job leaves the states in which it is worked on.   *)
RoundSettles == state \in InProgress ~> state \notin InProgress \/ used.crash > 0 \/ ~Quiet
=============================================================================
