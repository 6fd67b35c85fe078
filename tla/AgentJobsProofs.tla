--------------------------- MODULE AgentJobsProofs ----------------------------
(* Proofs about AgentJobs for every number of workers, rounds, attempts,     *)
(* error turns, cancels and faults.                                          *)
EXTENDS AgentJobs, TLAPS

(***************************************************************************)
(* The inductive invariant.  While nothing overtakes a worker it has the   *)
(* lease of its run, so no second claim passes; and while a loop is at     *)
(* work the row is in its round or canceled, so no request queues another. *)
(***************************************************************************)
\* A queued run has an attempt left.
Budget == \A r \in Runs : runs[r].state = "QUEUED" => runs[r].attempt < MaxAttempts

\* The transaction of finish_job holds the row, alone, in the state it found.
RowHeld ==
  /\ \A w \in Workers : work[w].pc = "finishing" => state = "RUNNING"
  /\ \A v, w \in Workers : work[v].pc = "finishing" /\ work[w].pc = "finishing" => v = w

\* A worker that never stalled has a fresh lease on its run.
Leases ==
  Quiet => \A w \in Workers : work[w].pc # "idle" =>
    /\ runs[work[w].run].state = "RUNNING" /\ runs[work[w].run].holder = w
    /\ runs[work[w].run].fresh

\* A loop at work is the row's, and the row is in its round or canceled.
Rounds ==
  Quiet => \A w \in Workers : AtWork(w) =>
    owner = work[w].run /\ state \in {"PLANNING", "RUNNING", "CANCELED"}

IInv == TypeOK /\ Budget /\ RowHeld /\ Leases /\ Rounds


RunRows ==
  [state : {"ABSENT", "QUEUED", "RUNNING", "SUCCEEDED", "FAILED"},
   mode : {"new", "resume"}, keyed : BOOLEAN, attempt : 0..MaxAttempts,
   holder : Workers \cup {None}, fresh : BOOLEAN]

Places ==
  {"idle", "claim", "planning", "marked", "acting", "finishing", "report", "failing",
   "canceling", "clear"}

Turns == Seq((0..MaxRuns) \X {"ok", "error", "approved"})

WorkRows == [pc : Places, run : 0..MaxRuns, before : Turns, ok : BOOLEAN]

UsedRows ==
  [crash : Nat, stall : Nat, resend : Nat, cancel : Nat, revoke : Nat, approve : Nat,
   overtaken : Nat]

Approvals == [left : 0..2, read : Turns]

-----------------------------------------------------------------------------
(* Rows and counters                                                       *)

\* The type invariant with the rows named.
LEMMA Typed ==
  TypeOK <=>
    /\ state \in Settled \cup Terminal \cup InProgress /\ transcript \in Turns
    /\ owner \in 0..MaxRuns /\ signal \in 0..MaxRuns /\ asking \in 0..MaxRuns
    /\ runs \in [Runs -> RunRows] /\ work \in [Workers -> WorkRows]
    /\ \A w \in Workers : work[w].pc # "idle" => work[w].run # 0
    /\ sweep \in BOOLEAN /\ used \in UsedRows /\ approval \in Approvals
BY DEF TypeOK, Turns, RunRows, WorkRows, Places, UsedRows, Approvals

LEMMA TypedNext ==
  ASSUME state' \in Settled \cup Terminal \cup InProgress, transcript' \in Turns,
         owner' \in 0..MaxRuns, signal' \in 0..MaxRuns, asking' \in 0..MaxRuns,
         runs' \in [Runs -> RunRows], work' \in [Workers -> WorkRows],
         \A w \in Workers : work'[w].pc # "idle" => work'[w].run # 0,
         sweep' \in BOOLEAN, used' \in UsedRows, approval' \in Approvals
  PROVE  TypeOK'
BY DEF TypeOK, Turns, RunRows, WorkRows, Places, UsedRows, Approvals

\* A worker that is not idle works on a run.
LEMMA HasRun ==
  ASSUME TypeOK, NEW w \in Workers, work[w].pc # "idle"
  PROVE  work[w].run \in Runs /\ work[w] \in WorkRows
<1>1. work[w] \in WorkRows /\ work[w].run # 0
  BY Typed
<1> QED
  BY <1>1, ConstantsAssumption DEF WorkRows, Runs

\* A fault that takes the quiet away, or does not.
LEMMA Counts ==
  ASSUME TypeOK
  PROVE  /\ Count("crash") => used' \in UsedRows /\ (Quiet' <=> Quiet)
         /\ Count("cancel") => used' \in UsedRows /\ (Quiet' <=> Quiet)
         /\ Count("stall") => used' \in UsedRows /\ ~ Quiet'
         /\ Count("resend") => used' \in UsedRows /\ ~ Quiet'
         /\ Count("revoke") => used' \in UsedRows /\ ~ Quiet'
         /\ Count("approve") => used' \in UsedRows /\ (Quiet' <=> Quiet)
         /\ Count("overtaken") => used' \in UsedRows /\ ~ Quiet'
<1>1. used \in UsedRows
  BY Typed
<1> QED
  BY <1>1 DEF Count, UsedRows, Quiet

\* Worker w goes to pc with its run.
Moves(w, pc) ==
  /\ work' \in [Workers -> WorkRows]
  /\ work'[w].pc = pc /\ work'[w].run = work[w].run
  /\ \A v \in Workers : v # w => work'[v] = work[v]

\* Go moves a worker.
LEMMA GoMoves ==
  ASSUME TypeOK, NEW w \in Workers, NEW pc \in Places, Go(w, pc)
  PROVE  Moves(w, pc)
<1>1. work \in [Workers -> WorkRows] /\ work[w] \in WorkRows
  BY Typed
<1>2. work' = [work EXCEPT ![w] = [work[w] EXCEPT !.pc = pc]]
  BY <1>1 DEF Go
<1>3. /\ [work[w] EXCEPT !.pc = pc] \in WorkRows
      /\ [work[w] EXCEPT !.pc = pc].pc = pc
      /\ [work[w] EXCEPT !.pc = pc].run = work[w].run
  BY <1>1 DEF WorkRows
<1> QED
  BY <1>1, <1>2, <1>3 DEF Moves

\* A worker leaves its run.
LEMMA Leaves ==
  ASSUME TypeOK, NEW w \in Workers, work' = [work EXCEPT ![w] = Idle]
  PROVE  /\ work' \in [Workers -> WorkRows] /\ work'[w].pc = "idle"
         /\ \A v \in Workers : v # w => work'[v] = work[v]
<1>1. << >> \in Turns
  BY DEF Turns
<1>2. Idle \in WorkRows /\ Idle.pc = "idle"
  BY <1>1, ConstantsAssumption DEF Idle, WorkRows, Places
<1> QED
  BY <1>2, Typed

\* A run changes.
LEMMA RunTo ==
  ASSUME TypeOK, NEW r \in Runs, NEW x \in RunRows, runs' = [runs EXCEPT ![r] = x]
  PROVE  /\ runs' \in [Runs -> RunRows] /\ runs'[r] = x
         /\ \A q \in Runs : q # r => runs'[q] = runs[q]
BY Typed

\* A queued run is at no attempt.
LEMMA QueuedRow ==
  ASSUME NEW mode \in {"new", "resume"}, NEW keyed \in BOOLEAN
  PROVE  /\ Queued(mode, keyed) \in RunRows /\ Queued(mode, keyed).state = "QUEUED"
         /\ Queued(mode, keyed).attempt = 0 /\ 0 < MaxAttempts
<1> DEFINE x == [NoRun EXCEPT !.state = "QUEUED"]
           y == [x EXCEPT !.mode = mode]
<1>1. 0 < MaxAttempts /\ NoRun \in RunRows /\ NoRun.attempt = 0
  BY ConstantsAssumption DEF NoRun, RunRows
<1>2. x \in RunRows /\ x.state = "QUEUED" /\ x.attempt = 0
  BY <1>1 DEF RunRows
<1>3. y \in RunRows /\ y.state = "QUEUED" /\ y.attempt = 0
  <2> HIDE DEF x
  <2> QED
    BY <1>2 DEF RunRows
<1>4. Queued(mode, keyed) = [y EXCEPT !.keyed = keyed]
  BY DEF Queued
<1> HIDE DEF y
<1> QED
  BY <1>1, <1>3, <1>4 DEF RunRows

\* Of the loops at work while nothing overtakes them there is one.
LEMMA Single ==
  ASSUME IInv, Quiet, NEW v \in Workers, NEW w \in Workers,
         AtWork(v), AtWork(w)
  PROVE  v = w
<1>1. work[v].run = work[w].run
  BY DEF IInv, Rounds
<1>2. runs[work[v].run].holder = v /\ runs[work[w].run].holder = w
  BY DEF IInv, Leases, AtWork
<1> QED
  BY <1>1, <1>2

\* A row that a request may queue has no loop at work.
LEMMA NobodyAtWork ==
  ASSUME IInv, Quiet, state \notin {"PLANNING", "RUNNING", "CANCELED"},
         NEW w \in Workers
  PROVE  ~ AtWork(w)
BY DEF IInv, Rounds


-----------------------------------------------------------------------------
(* The requests                                                            *)

\* A request that queues a run of its own finds the row settled.
LEMMA QueueStep ==
  ASSUME IInv, NEW r \in Runs, Message(r) \/ Retry(r)
  PROVE  IInv'
<1> USE DEF IInv
<1>1. /\ RowFree /\ state \in Settled /\ state' = "QUEUED" /\ runs[r].state = "ABSENT"
      /\ UNCHANGED <<transcript, owner, work, signal, asking, sweep, approval, used>>
  BY DEF Message, Retry, mark_queued, Unused
<1>2. PICK keyed \in BOOLEAN : runs' = [runs EXCEPT ![r] = Queued("resume", keyed)]
  BY DEF Message, Retry
<1>3. /\ runs' \in [Runs -> RunRows] /\ runs'[r].state = "QUEUED"
      /\ runs'[r].attempt < MaxAttempts
      /\ \A q \in Runs : q # r => runs'[q] = runs[q]
  BY <1>2, QueuedRow, RunTo
<1>4. TypeOK'
  <2>1. state' \in Settled \cup Terminal \cup InProgress
    BY <1>1 DEF InProgress
  <2> QED
    BY <1>1, <1>3, <2>1 DEF TypeOK, RunRows
<1>5. Budget' /\ RowHeld'
  BY <1>1, <1>3 DEF Budget, RowHeld, RowFree
<1>6. Leases'
  <2>1. Quiet' => \A w \in Workers : work[w].pc # "idle" =>
          work[w].run \in Runs /\ runs[work[w].run].state = "RUNNING"
    BY <1>1, HasRun DEF Leases, Quiet
  <2> QED
    BY <1>1, <1>3, <2>1 DEF Leases, Quiet
<1>7. Rounds'
  <2>1. state \notin {"PLANNING", "RUNNING", "CANCELED"}
    BY <1>1 DEF Settled
  <2> QED
    BY <1>1, <2>1, NobodyAtWork DEF Rounds, AtWork, Quiet
<1> QED
  BY <1>4, <1>5, <1>6, <1>7

\* A request that is sent again queues the run that failed, at most.
LEMMA RequeueTo ==
  ASSUME TypeOK, Budget, NEW r \in Runs, Requeue(r)
  PROVE  runs' \in [Runs -> RunRows] /\ Budget'
<1>1. runs \in [Runs -> RunRows] /\ runs[r].mode \in {"new", "resume"}
  BY Typed DEF RunRows
<1>2. CASE runs[r].state = "FAILED"
  <2>1. runs' = [runs EXCEPT ![r] = Queued(runs[r].mode, TRUE)]
    BY <1>1, <1>2 DEF Requeue
  <2> QED
    BY <1>1, <2>1, QueuedRow, RunTo DEF Budget
<1>3. CASE runs[r].state # "FAILED"
  BY <1>1, <1>3 DEF Requeue, Budget
<1> QED
  BY <1>2, <1>3

LEMMA ResendStep ==
  ASSUME IInv, ResendSubmit \/ \E r \in Runs : ResendMessage(r)
  PROVE  IInv'
<1> USE DEF IInv
<1>1. /\ Count("resend") /\ UNCHANGED <<transcript, owner, work, signal, asking, sweep, approval>>
      /\ (state' = state \/ (RowFree /\ state' = "QUEUED"))
  BY DEF ResendSubmit, ResendMessage, Fault, mark_queued
<1>2. PICK r \in Runs : Requeue(r)
  BY ConstantsAssumption DEF ResendSubmit, ResendMessage, Runs
<1>3. runs' \in [Runs -> RunRows] /\ Budget'
  BY <1>2, RequeueTo
<1>4. used' \in UsedRows /\ ~ Quiet'
  BY <1>1, Counts
<1>5. TypeOK'
  <2>1. state' \in Settled \cup Terminal \cup InProgress
    BY <1>1, Typed DEF InProgress
  <2> QED
    BY <1>1, <1>3, <1>4, <2>1 DEF TypeOK, RunRows, UsedRows
<1>6. RowHeld'
  BY <1>1 DEF RowHeld, RowFree
<1> QED
  BY <1>3, <1>4, <1>5, <1>6 DEF Leases, Rounds

\* A cancel of a free row, or the outcome of an approval, ends the round.
LEMMA EndStep ==
  ASSUME IInv, Cancel \/ record_outcome
  PROVE  IInv'
<1> USE DEF IInv
<1>1. /\ RowFree /\ UNCHANGED <<transcript, owner, runs, work, signal, asking, sweep, approval>>
      /\ state' = "CANCELED" \/ (state = "WAITING_FOR_APPROVAL" /\ state' = "SUCCEEDED")
  BY DEF Cancel, record_outcome
<1>2. used' \in UsedRows /\ (Quiet' <=> Quiet)
  <2>1. CASE Cancel
    BY <2>1, Counts DEF Cancel
  <2>2. CASE record_outcome
    BY <2>2, Typed DEF record_outcome, Quiet
  <2> QED
    BY <2>1, <2>2
<1>3. TypeOK'
  <2>1. state' \in Settled \cup Terminal \cup InProgress
    BY <1>1 DEF Terminal
  <2> QED
    BY <1>1, <1>2, <2>1 DEF TypeOK, UsedRows
<1>4. Budget' /\ RowHeld'
  BY <1>1 DEF Budget, RowHeld, RowFree
<1>5. Leases'
  BY <1>1, <1>2 DEF Leases
<1>6. Rounds'
  BY <1>1, <1>2 DEF Rounds, AtWork
<1> QED
  BY <1>3, <1>4, <1>5, <1>6

\* A cancel that leaves a signal writes no row.
LEMMA SignalStep ==
  ASSUME IInv, CancelBusy \/ CancelSignal
  PROVE  IInv'
<1> USE DEF IInv
<1>1. /\ UNCHANGED <<state, transcript, owner, runs, work, sweep, approval>>
      /\ signal' \in 0..MaxRuns /\ asking' \in 0..MaxRuns
  BY Typed, ConstantsAssumption DEF CancelBusy, CancelSignal
<1>2. used' \in UsedRows /\ (Quiet' <=> Quiet)
  <2>1. CASE CancelBusy
    BY <2>1, Counts DEF CancelBusy
  <2>2. CASE CancelSignal
    BY <2>2, Typed DEF CancelSignal, Quiet
  <2> QED
    BY <2>1, <2>2
<1>3. TypeOK'
  BY <1>1, <1>2 DEF TypeOK, UsedRows
<1>4. Budget' /\ RowHeld' /\ Leases' /\ Rounds'
  BY <1>1, <1>2 DEF Budget, RowHeld, Leases, Rounds, AtWork
<1> QED
  BY <1>3, <1>4

\* An approval that has only read changes no row.
LEMMA ApproveStep ==
  ASSUME IInv, Approve
  PROVE  IInv'
<1> USE DEF IInv
<1>1. /\ UNCHANGED <<state, transcript, owner, runs, work, signal, asking, sweep>>
      /\ Count("approve") /\ approval' = [left |-> 2, read |-> transcript]
  BY DEF Approve, Fault
<1>2. used' \in UsedRows /\ (Quiet' <=> Quiet)
  BY <1>1, Counts
<1>3. approval' \in Approvals
  BY <1>1, Typed DEF Approvals
<1>4. TypeOK'
  BY <1>1, <1>2, <1>3 DEF TypeOK, UsedRows, Approvals, Turns
<1>5. Budget' /\ RowHeld' /\ Leases' /\ Rounds'
  BY <1>1, <1>2 DEF Budget, RowHeld, Leases, Rounds, AtWork
<1> QED
  BY <1>4, <1>5

\* store_approval settles a row that no round is in, and overtakes a loop that
\* is at work there.
LEMMA StoreStep ==
  ASSUME IInv, store_approval
  PROVE  IInv'
<1> USE DEF IInv
<1>1. RowFree /\ UNCHANGED <<owner, runs, work, signal, asking, sweep>>
  BY DEF store_approval
<1>2. approval \in Approvals /\ Marked(approval.read) \in Turns /\ << >> \in Turns
  <2>1. approval.read \in Turns
    BY Typed DEF Approvals
  <2>2. <<0, "approved">> \in (0..MaxRuns) \X {"ok", "error", "approved"}
    BY ConstantsAssumption
  <2> QED
    BY <2>1, <2>2, Typed DEF Marked, Turns
<1>3. approval' \in Approvals
  BY <1>2 DEF store_approval, NoApproval, Approvals
<1>4. CASE state \in InProgress
  <2>1. UNCHANGED <<state, transcript, used>>
    BY <1>4 DEF store_approval
  <2>2. TypeOK'
    BY <1>1, <1>3, <2>1, Typed DEF TypeOK, Approvals, Turns
  <2> QED
    BY <1>1, <2>1, <2>2 DEF Budget, RowHeld, Leases, Rounds, AtWork, Quiet
<1>5. CASE state \notin InProgress
  <2>1. /\ state' \in {"WAITING_FOR_APPROVAL", "SUCCEEDED"}
        /\ transcript' = Marked(approval.read)
        /\ IF \E w \in Workers : AtWork(w) THEN Count("overtaken") ELSE UNCHANGED used
    BY <1>5 DEF store_approval
  <2>2. /\ used' \in UsedRows
        /\ Quiet' => used' = used /\ \A w \in Workers : ~ AtWork(w)
    BY <2>1, Counts, Typed
  <2>3. TypeOK'
    <3>1. state' \in Settled \cup Terminal \cup InProgress /\ transcript' \in Turns
      BY <1>2, <2>1 DEF Settled
    <3> QED
      BY <1>1, <1>3, <2>2, <3>1 DEF TypeOK, UsedRows, Approvals, Turns
  <2>4. Budget' /\ RowHeld'
    BY <1>1 DEF Budget, RowHeld, RowFree
  <2>5. Leases' /\ Rounds'
    BY <1>1, <2>2 DEF Leases, Rounds, AtWork, Quiet
  <2> QED
    BY <2>3, <2>4, <2>5
<1> QED
  BY <1>4, <1>5


-----------------------------------------------------------------------------
(* The handler                                                             *)

\* A worker that only moves, and is at work only if it was.
LEMMA MoveStep ==
  ASSUME IInv, NEW w \in Workers, NEW pc \in Places, Moves(w, pc),
         work[w].pc # "idle", pc # "finishing",
         pc \in {"planning", "marked", "acting", "failing"} => AtWork(w),
         UNCHANGED <<state, transcript, owner, runs, signal, asking, sweep, approval, used>>
  PROVE  IInv'
<1> USE DEF IInv
<1>1. work[w].run # 0
  BY DEF TypeOK
<1>2. TypeOK'
  BY <1>1 DEF TypeOK, Moves, WorkRows, Places, Turns
<1>3. Budget' /\ RowHeld'
  BY DEF Budget, RowHeld, Moves
<1>4. Leases' /\ Rounds'
  BY DEF Leases, Rounds, AtWork, Quiet, Moves
<1> QED
  BY <1>2, <1>3, <1>4

\* claim_queued_job and resume_job: a quiet row is claimed when it is queued,
\* because the claimer's own lease is live.
LEMMA ClaimAiStep ==
  ASSUME IInv, NEW w \in Workers, ClaimAi(w)
  PROVE  IInv'
<1> USE DEF IInv
<1>0. /\ work[w].pc = "claim" /\ RowFree
      /\ UNCHANGED <<transcript, runs, signal, asking, sweep, approval, used>>
  BY DEF ClaimAi
<1>1. CASE ~ Claimable(w) \/ signal # 0
  <2>1. PICK pc \in {"clear", "canceling"} : Go(w, pc) /\ UNCHANGED <<state, owner>>
    BY <1>1 DEF ClaimAi
  <2> QED
    BY <1>0, <2>1, GoMoves, MoveStep DEF Places
<1>2. CASE Claimable(w) /\ signal = 0
  <2>0. work[w].run \in Runs /\ work[w] \in WorkRows /\ transcript \in Turns
    BY <1>0, HasRun, Typed
  <2> DEFINE x == [work[w] EXCEPT !.pc = "planning", !.before = transcript]
  <2>1. /\ state' = "PLANNING" /\ owner' = work[w].run
        /\ work' = [work EXCEPT ![w] = x]
    BY <1>2, Typed DEF ClaimAi
  <2>2. x \in WorkRows /\ x.pc = "planning" /\ x.run = work[w].run
    BY <2>0 DEF WorkRows, Places
  <2> HIDE DEF x
  <2>3. Moves(w, "planning")
    BY <2>1, <2>2, Typed DEF Moves
  <2>4. TypeOK'
    <3>1. state' \in Settled \cup Terminal \cup InProgress /\ owner' \in 0..MaxRuns
      BY <2>0, <2>1 DEF InProgress, WorkRows
    <3>2. work[w].run # 0
      BY <1>0 DEF TypeOK
    <3> QED
      BY <1>0, <2>3, <3>1, <3>2, Typed, TypedNext DEF Moves
  <2>5. Budget' /\ RowHeld'
    BY <1>0, <2>3 DEF Budget, RowHeld, RowFree, Moves
  <2>6. Leases'
    BY <1>0, <2>3 DEF Leases, Quiet, Moves
  <2>7. Rounds'
    <3> SUFFICES ASSUME Quiet, NEW v \in Workers, AtWork(v)'
                 PROVE  owner' = work'[v].run /\ state' \in {"PLANNING", "RUNNING", "CANCELED"}
      BY <1>0 DEF Rounds, Quiet
    <3>1. RunLeaseLive
      BY <1>0, <2>0 DEF Leases, RunLeaseLive
    <3>2. state = "QUEUED"
      BY <1>2, <3>1 DEF Claimable
    <3>3. \A u \in Workers : ~ AtWork(u)
      BY <3>2, NobodyAtWork
    <3>4. v = w
      BY <2>3, <3>3 DEF AtWork, Moves
    <3> QED
      BY <2>1, <2>3, <3>4 DEF Moves
  <2> QED
    BY <2>4, <2>5, <2>6, <2>7
<1> QED
  BY <1>1, <1>2

\* The running mark.
LEMMA MarkRunningStep ==
  ASSUME IInv, NEW w \in Workers, mark_running(w)
  PROVE  IInv'
<1> USE DEF IInv
<1>0. /\ work[w].pc = "planning" /\ RowFree
      /\ UNCHANGED <<transcript, owner, runs, signal, asking, sweep, approval, used>>
  BY DEF mark_running
<1>1. CASE state # "PLANNING"
  <2>1. Go(w, "clear") /\ UNCHANGED state
    BY <1>1 DEF mark_running
  <2> QED
    BY <1>0, <2>1, GoMoves, MoveStep DEF Places
<1>2. CASE state = "PLANNING"
  <2>1. state' = "RUNNING" /\ Moves(w, "marked") /\ work[w].run # 0
    BY <1>0, <1>2, GoMoves DEF mark_running, Places, TypeOK
  <2>2. TypeOK'
    <3>1. state' \in Settled \cup Terminal \cup InProgress
      BY <2>1 DEF InProgress
    <3> QED
      BY <1>0, <2>1, <3>1 DEF TypeOK, Moves, WorkRows, Places, Turns
  <2>3. Budget' /\ RowHeld'
    BY <1>0, <2>1 DEF Budget, RowHeld, RowFree, Moves
  <2>4. Leases' /\ Rounds'
    BY <1>0, <2>1 DEF Leases, Rounds, AtWork, Quiet, Moves
  <2> QED
    BY <2>2, <2>3, <2>4
<1> QED
  BY <1>1, <1>2

\* The loop begins, sees a cancel or fails, and reports its end.
LEMMA LoopStep ==
  ASSUME IInv, NEW w \in Workers,
         BeginAct(w) \/ CancelSeen(w) \/ RoundFails(w) \/ Report(w)
  PROVE  IInv'
<1> USE DEF IInv
<1>0. UNCHANGED <<state, transcript, owner, runs, signal, asking, sweep, approval, used>>
  BY DEF BeginAct, CancelSeen, RoundFails, Report
<1>1. CASE BeginAct(w) \/ CancelSeen(w) \/ RoundFails(w)
  <2>1. PICK pc \in {"acting", "canceling", "failing"} : Go(w, pc)
    BY <1>1 DEF BeginAct, CancelSeen, RoundFails
  <2>2. work[w].pc \in {"marked", "acting"}
    BY <1>1 DEF BeginAct, CancelSeen, RoundFails
  <2> QED
    BY <1>0, <2>1, <2>2, GoMoves, MoveStep DEF Places, AtWork
<1>2. CASE Report(w)
  <2> DEFINE pc == IF Holds(w) THEN "clear" ELSE "failing"
             x == [work[w] EXCEPT !.pc = pc, !.ok = Holds(w)]
  <2>0. work[w].pc = "report" /\ work[w] \in WorkRows /\ work[w].run \in Runs
    BY <1>2, HasRun DEF Report
  <2>1. work' = [work EXCEPT ![w] = x]
    BY <1>2, Typed DEF Report
  <2>2. Holds(w) \in BOOLEAN /\ pc \in {"clear", "failing"}
    BY DEF Holds
  <2>3. x \in WorkRows /\ x.pc = pc /\ x.run = work[w].run
    <3> HIDE DEF pc
    <3> QED
      BY <2>0, <2>2 DEF WorkRows, Places
  <2>4. Moves(w, pc)
    <3> HIDE DEF x, pc
    <3> QED
      BY <2>1, <2>3, Typed DEF Moves
  <2>5. Quiet => pc = "clear"
    BY <2>0 DEF Leases, Holds
  <2> HIDE DEF pc, x
  <2>6. TypeOK'
    <3>1. \A v \in Workers : work'[v].pc # "idle" => work'[v].run # 0
      BY <2>0, <2>4, Typed DEF Moves, Runs
    <3> QED
      BY <1>0, <2>4, <3>1, Typed, TypedNext DEF Moves
  <2>7. Budget' /\ RowHeld'
    BY <1>0, <2>2, <2>4 DEF Budget, RowHeld, Moves
  <2>8. Leases' /\ Rounds'
    BY <1>0, <2>0, <2>4, <2>5 DEF Leases, Rounds, AtWork, Quiet, Moves
  <2> QED
    BY <2>6, <2>7, <2>8
<1> QED
  BY <1>1, <1>2

\* finish_job takes the row while it runs.
LEMMA FinishJobStep ==
  ASSUME IInv, NEW w \in Workers, finish_job(w)
  PROVE  IInv'
<1> USE DEF IInv
<1>0. /\ work[w].pc = "acting" /\ RowFree
      /\ UNCHANGED <<state, transcript, owner, runs, signal, asking, sweep, approval, used>>
  BY DEF finish_job
<1>1. CASE state # "RUNNING"
  <2>1. Go(w, "failing")
    BY <1>1 DEF finish_job
  <2> QED
    BY <1>0, <2>1, GoMoves, MoveStep DEF Places, AtWork
<1>2. CASE state = "RUNNING"
  <2>1. Moves(w, "finishing") /\ work[w].run # 0
    BY <1>0, <1>2, GoMoves DEF finish_job, Places, TypeOK
  <2>2. TypeOK'
    BY <1>0, <2>1, Typed, TypedNext DEF Moves
  <2>3. Budget' /\ RowHeld'
    BY <1>0, <1>2, <2>1 DEF Budget, RowHeld, RowFree, Moves
  <2>4. Leases' /\ Rounds'
    BY <1>0, <2>1 DEF Leases, Rounds, AtWork, Quiet, Moves
  <2> QED
    BY <2>2, <2>3, <2>4
<1> QED
  BY <1>1, <1>2

\* A worker that leaves its round settles it: it was the only one at work.
LEMMA SettleRound ==
  ASSUME IInv, NEW w \in Workers, AtWork(w), NEW pc \in {"report", "clear"}, Moves(w, pc),
         \A v \in Workers : v # w => work[v].pc # "finishing",
         state' \in Settled \cup Terminal \cup InProgress, transcript' \in Turns,
         signal' \in 0..MaxRuns, UNCHANGED <<owner, runs, asking, sweep, approval, used>>
  PROVE  IInv'
<1> USE DEF IInv
<1>1. work[w].run # 0
  BY DEF TypeOK, AtWork
<1>2. TypeOK'
  BY <1>1 DEF TypeOK, Moves, WorkRows, Places, Turns
<1>3. Budget' /\ RowHeld'
  BY DEF Budget, RowHeld, Moves
<1>4. Leases'
  BY DEF Leases, Quiet, Moves, AtWork
<1>5. Rounds'
  <2> SUFFICES ASSUME Quiet, NEW v \in Workers, AtWork(v)' PROVE FALSE
    BY DEF Rounds, Quiet
  <2>1. v # w /\ AtWork(v)
    BY DEF AtWork, Moves
  <2> QED
    BY <2>1, Single
<1> QED
  BY <1>2, <1>3, <1>4, <1>5

\* The result is committed.
LEMMA FinishCommitStep ==
  ASSUME IInv, NEW w \in Workers, FinishCommit(w)
  PROVE  IInv'
<1> USE DEF IInv
<1>1. /\ work[w].pc = "finishing" /\ Go(w, "report")
      /\ UNCHANGED <<owner, runs, signal, asking, sweep, approval, used>>
      /\ state' \in {"WAITING_FOR_USER", "WAITING_FOR_APPROVAL", "SUCCEEDED"}
      /\ transcript' = Append(work[w].before, <<work[w].run, "ok">>)
  BY DEF FinishCommit
<1>2. work[w].before \in Turns /\ <<work[w].run, "ok">> \in (0..MaxRuns) \X {"ok", "error", "approved"}
  BY <1>1, HasRun DEF WorkRows
<1>3. transcript' \in Turns
  BY <1>1, <1>2 DEF Turns
<1>4. Moves(w, "report") /\ AtWork(w) /\ \A v \in Workers : v # w => work[v].pc # "finishing"
  BY <1>1, GoMoves DEF Places, AtWork, RowHeld
<1>5. state' \in Settled \cup Terminal \cup InProgress /\ signal' \in 0..MaxRuns
  BY <1>1 DEF Settled, TypeOK
<1> QED
  BY <1>1, <1>3, <1>4, <1>5, SettleRound

\* What a failure writes is a state and a transcript.
LEMMA FailureTypes ==
  ASSUME TypeOK, NEW w \in Workers, work[w].pc # "idle",
         record_failure(w) \/ fail_queued_job(w) \/ UNCHANGED <<state, transcript>>
  PROVE  state' \in Settled \cup Terminal \cup InProgress /\ transcript' \in Turns
<1>1. /\ <<work[w].run, "error">> \in (0..MaxRuns) \X {"ok", "error", "approved"}
      /\ transcript \in Turns
  BY HasRun, Typed DEF WorkRows
<1>2. /\ Append(transcript, <<work[w].run, "error">>) \in Turns
      /\ << <<work[w].run, "error">> >> \in Turns
  BY <1>1 DEF Turns
<1>3. transcript' \in Turns
  BY <1>1, <1>2 DEF record_failure, fail_queued_job
<1>4. state' \in {state, "FAILED", "FAILED_RETRYABLE"}
  BY DEF record_failure, fail_queued_job
<1> QED
  BY <1>3, <1>4, Typed DEF Settled, Terminal

\* The bookkeeping of a failure.
LEMMA FailingStep ==
  ASSUME IInv, NEW w \in Workers, Failing(w)
  PROVE  IInv'
<1> USE DEF IInv
<1>1. /\ work[w].pc = "failing" /\ RowFree /\ Go(w, "clear")
      /\ UNCHANGED <<owner, runs, asking, sweep, approval, used>>
      /\ record_failure(w) \/ fail_queued_job(w) \/ UNCHANGED <<state, transcript>>
  BY DEF Failing
<1>2. signal' \in 0..MaxRuns
  BY Typed, ConstantsAssumption DEF Failing
<1>3. state' \in Settled \cup Terminal \cup InProgress /\ transcript' \in Turns
  BY <1>1, FailureTypes
<1>4. Moves(w, "clear") /\ AtWork(w) /\ \A v \in Workers : v # w => work[v].pc # "finishing"
  BY <1>1, GoMoves DEF Places, AtWork, RowFree
<1> QED
  BY <1>1, <1>2, <1>3, <1>4, SettleRound

\* cancel_job leaves a row canceled that a loop may be at work on.
LEMMA CancelingStep ==
  ASSUME IInv, NEW w \in Workers, Canceling(w)
  PROVE  IInv'
<1> USE DEF IInv
<1>1. /\ work[w].pc = "canceling" /\ RowFree /\ signal' = 0
      /\ state' = IF state \in Terminal THEN state ELSE "CANCELED"
      /\ UNCHANGED <<transcript, owner, runs, asking, sweep, approval, used>>
  BY DEF Canceling
<1>2. Moves(w, "clear") /\ work[w].run # 0
  BY <1>1, GoMoves DEF Canceling, Places, TypeOK
<1>3. TypeOK'
  <2>1. state' \in Settled \cup Terminal \cup InProgress /\ signal' \in 0..MaxRuns
    BY <1>1, ConstantsAssumption DEF Terminal
  <2> QED
    BY <1>1, <1>2, <2>1 DEF TypeOK, Moves, WorkRows, Places, Turns
<1>4. Budget' /\ RowHeld'
  BY <1>1, <1>2 DEF Budget, RowHeld, RowFree, Moves
<1>5. Leases' /\ Rounds'
  BY <1>1, <1>2 DEF Leases, Rounds, AtWork, Quiet, Moves, Terminal
<1> QED
  BY <1>3, <1>4, <1>5


\* A worker that leaves its run, or dies in it, leaves the rest as it is.
LEMMA LeaveStep ==
  ASSUME IInv, NEW w \in Workers, work[w].pc # "idle", work' = [work EXCEPT ![w] = Idle],
         runs' \in [Runs -> RunRows], Budget', signal' \in 0..MaxRuns, used' \in UsedRows,
         Quiet' => /\ Quiet
                   /\ \A q \in Runs : q # work[w].run => runs'[q] = runs[q],
         UNCHANGED <<state, transcript, owner, asking, sweep, approval>>
  PROVE  IInv'
<1> USE DEF IInv
<1>1. /\ work' \in [Workers -> WorkRows] /\ work'[w].pc = "idle"
      /\ \A v \in Workers : v # w => work'[v] = work[v]
  BY Leaves
<1>2. TypeOK'
  BY <1>1 DEF TypeOK, RunRows, WorkRows, Places, Turns, UsedRows
<1>3. RowHeld'
  BY <1>1 DEF RowHeld
<1>4. Leases'
  <2> SUFFICES ASSUME Quiet', NEW v \in Workers, work'[v].pc # "idle"
               PROVE  /\ runs'[work'[v].run].state = "RUNNING"
                      /\ runs'[work'[v].run].holder = v /\ runs'[work'[v].run].fresh
    BY DEF Leases
  <2>1. v # w /\ work'[v] = work[v] /\ work[v].run \in Runs
    BY <1>1, HasRun
  <2>2. /\ runs[work[v].run].state = "RUNNING" /\ runs[work[v].run].holder = v
        /\ runs[work[v].run].fresh /\ work[v].run # work[w].run
    BY <2>1 DEF Leases
  <2> QED
    BY <2>1, <2>2
<1>5. Rounds'
  BY <1>1 DEF Rounds, AtWork
<1> QED
  BY <1>2, <1>3, <1>4, <1>5

\* A run whose worker lets it go, in any of the states that end it.
LEMMA ReleasedRun ==
  ASSUME TypeOK, Budget, NEW r \in Runs, NEW s \in {"SUCCEEDED", "FAILED"},
         runs' = [runs EXCEPT ![r].state = s, ![r].holder = None]
  PROVE  /\ runs' \in [Runs -> RunRows] /\ Budget'
         /\ \A q \in Runs : q # r => runs'[q] = runs[q]
<1> DEFINE x == [runs[r] EXCEPT !.state = s, !.holder = None]
<1>1. runs \in [Runs -> RunRows] /\ runs[r] \in RunRows
  BY Typed
<1>2. runs' = [runs EXCEPT ![r] = x]
  BY <1>1
<1>3. x \in RunRows /\ x.state = s
  BY <1>1 DEF RunRows
<1> HIDE DEF x
<1> QED
  BY <1>1, <1>2, <1>3 DEF Budget

\* The handler leaves before its try, and the last write of a worker.
LEMMA EndRunStep ==
  ASSUME IInv, NEW w \in Workers, LeaveEarly(w) \/ EndRun(w)
  PROVE  IInv'
<1> USE DEF IInv
<1>0. PICK r \in Runs : r = work[w].run
  BY HasRun DEF LeaveEarly, EndRun
<1>1. /\ work[w].pc # "idle" /\ work' = [work EXCEPT ![w] = Idle]
      /\ signal' \in 0..MaxRuns /\ UNCHANGED <<state, transcript, owner, asking, sweep, approval>>
  BY Typed, ConstantsAssumption DEF LeaveEarly, EndRun
<1>2. /\ runs' \in [Runs -> RunRows] /\ Budget'
      /\ \A q \in Runs : q # r => runs'[q] = runs[q]
  <2>1. CASE runs' = runs
    BY <2>1, Typed DEF Budget
  <2>2. CASE runs' # runs
    <3>1. PICK s \in {"SUCCEEDED", "FAILED"} :
            runs' = [runs EXCEPT ![r].state = s, ![r].holder = None]
      BY <1>0, <2>2 DEF LeaveEarly, EndRun
    <3> QED
      BY <3>1, ReleasedRun
  <2> QED
    BY <2>1, <2>2
<1>3. used' \in UsedRows /\ (Quiet' => Quiet)
  <2>1. used' = used \/ Count("revoke")
    BY DEF LeaveEarly, EndRun, Fault
  <2> QED
    BY <2>1, Counts, Typed DEF Quiet
<1> QED
  BY <1>0, <1>1, <1>2, <1>3, LeaveStep

\* A worker dies; its run keeps the lease until that expires.
LEMMA CrashStep ==
  ASSUME IInv, NEW w \in Workers, Crash(w)
  PROVE  IInv'
<1> USE DEF IInv
<1>1. /\ work[w].pc # "idle" /\ work' = [work EXCEPT ![w] = Idle] /\ Count("crash")
      /\ UNCHANGED <<state, transcript, owner, runs, signal, asking, sweep, approval>>
  BY DEF Crash, Fault
<1>2. runs' \in [Runs -> RunRows] /\ Budget' /\ signal' \in 0..MaxRuns
  BY <1>1, Typed DEF Budget
<1> QED
  BY <1>1, <1>2, Counts, LeaveStep

\* A queued run is nobody's, and its claim is an attempt that is left.
LEMMA ClaimNextStep ==
  ASSUME IInv, NEW w \in Workers, NEW r \in Runs, claim_next(w, r)
  PROVE  IInv'
<1> USE DEF IInv
<1> DEFINE x == [runs[r] EXCEPT !.state = "RUNNING", !.holder = w, !.fresh = TRUE,
                                !.attempt = runs[r].attempt + 1]
           y == [Idle EXCEPT !.pc = "claim", !.run = r]
<1>1. /\ work[w].pc = "idle" /\ runs[r].state = "QUEUED"
      /\ UNCHANGED <<state, transcript, owner, signal, asking, sweep, approval, used>>
      /\ work' = [work EXCEPT ![w] = y]
  BY DEF claim_next
<1>2. runs[r] \in RunRows /\ runs \in [Runs -> RunRows]
  BY Typed
<1>3. runs' = [runs EXCEPT ![r] = x]
  BY <1>2 DEF claim_next
<1>4. /\ x \in RunRows /\ x.state = "RUNNING" /\ x.holder = w /\ x.fresh = TRUE
  <2>1. runs[r].attempt + 1 \in 0..MaxAttempts
    BY <1>1, <1>2, ConstantsAssumption DEF Budget, RunRows
  <2> QED
    BY <1>2, <2>1 DEF RunRows
<1>5. y \in WorkRows /\ y.pc = "claim" /\ y.run = r /\ r # 0
  <2>1. << >> \in Turns /\ r \in 0..MaxRuns /\ r # 0
    BY ConstantsAssumption DEF Turns, Runs
  <2> QED
    BY <2>1 DEF Idle, WorkRows, Places
<1> HIDE DEF x, y
<1>6. /\ runs' \in [Runs -> RunRows] /\ runs'[r] = x
      /\ \A q \in Runs : q # r => runs'[q] = runs[q]
  BY <1>3, <1>4, RunTo
<1>7. /\ work' \in [Workers -> WorkRows] /\ work'[w] = y
      /\ \A v \in Workers : v # w => work'[v] = work[v]
  BY <1>1, <1>5, Typed
<1>8. TypeOK'
  BY <1>1, <1>5, <1>6, <1>7 DEF TypeOK, RunRows, WorkRows, Places, Turns
<1>9. Budget' /\ RowHeld'
  BY <1>1, <1>4, <1>5, <1>6, <1>7 DEF Budget, RowHeld
<1>10. Leases'
  <2> SUFFICES ASSUME Quiet, NEW v \in Workers, work'[v].pc # "idle"
               PROVE  /\ runs'[work'[v].run].state = "RUNNING"
                      /\ runs'[work'[v].run].holder = v /\ runs'[work'[v].run].fresh
    BY <1>1 DEF Leases, Quiet
  <2>1. CASE v = w
    BY <1>4, <1>5, <1>6, <1>7, <2>1
  <2>2. CASE v # w
    <3>1. work'[v] = work[v] /\ work[v].run \in Runs
      BY <1>7, <2>2, HasRun
    <3>2. /\ runs[work[v].run].state = "RUNNING" /\ runs[work[v].run].holder = v
          /\ runs[work[v].run].fresh /\ work[v].run # r
      BY <1>1, <3>1 DEF Leases
    <3> QED
      BY <1>6, <3>1, <3>2
  <2> QED
    BY <2>1, <2>2
<1>11. Rounds'
  BY <1>1, <1>5, <1>7 DEF Rounds, AtWork, Quiet
<1> QED
  BY <1>8, <1>9, <1>10, <1>11

-----------------------------------------------------------------------------
(* Leases and the sweep                                                    *)

\* A step on a run that no quiet worker has.
LEMMA RunStep ==
  ASSUME IInv, NEW r \in Runs, NEW x \in RunRows, runs' = [runs EXCEPT ![r] = x],
         x.state = "QUEUED" => x.attempt < MaxAttempts,
         Quiet' => /\ Quiet
                   /\ \/ x.state = "RUNNING" /\ x.holder = runs[r].holder /\ x.fresh = TRUE
                      \/ \A w \in Workers : work[w].pc # "idle" => work[w].run # r,
         used' \in UsedRows, sweep' \in BOOLEAN,
         UNCHANGED <<state, transcript, owner, work, signal, asking, approval>>
  PROVE  IInv'
<1> USE DEF IInv
<1>1. /\ runs' \in [Runs -> RunRows] /\ runs'[r] = x
      /\ \A q \in Runs : q # r => runs'[q] = runs[q]
  BY RunTo
<1>2. TypeOK'
  BY <1>1 DEF TypeOK, RunRows, UsedRows
<1>3. Budget' /\ RowHeld'
  BY <1>1 DEF Budget, RowHeld
<1>4. Leases'
  <2> SUFFICES ASSUME Quiet', NEW v \in Workers, work[v].pc # "idle"
               PROVE  /\ runs'[work[v].run].state = "RUNNING"
                      /\ runs'[work[v].run].holder = v /\ runs'[work[v].run].fresh
    BY DEF Leases
  <2>1. work[v].run \in Runs
    BY HasRun
  <2>2. /\ runs[work[v].run].state = "RUNNING" /\ runs[work[v].run].holder = v
        /\ runs[work[v].run].fresh
    BY DEF Leases
  <2> QED
    BY <1>1, <2>1, <2>2
<1>5. Rounds'
  BY DEF Rounds, AtWork
<1> QED
  BY <1>2, <1>3, <1>4, <1>5

\* A lease expires under a live worker only as a fault, and is renewed only
\* where it is held.
LEMMA LeaseStep ==
  ASSUME IInv, NEW r \in Runs, Expire(r) \/ renew_lock(r)
  PROVE  IInv'
<1> USE DEF IInv
<1>1. /\ runs[r].state = "RUNNING" /\ runs[r] \in RunRows /\ runs \in [Runs -> RunRows]
      /\ UNCHANGED <<state, transcript, owner, work, signal, asking, sweep, approval>>
      /\ sweep' \in BOOLEAN
  BY Typed DEF Expire, renew_lock
<1>2. CASE Expire(r)
  <2> DEFINE x == [runs[r] EXCEPT !.fresh = FALSE]
  <2>1. runs' = [runs EXCEPT ![r] = x]
    BY <1>1, <1>2 DEF Expire
  <2>2. x \in RunRows /\ x.state = "RUNNING"
    BY <1>1 DEF RunRows
  <2>3. used' \in UsedRows /\ (Quiet' => Quiet /\ used' = used /\ ~ Attended(r))
    <3>1. CASE Attended(r)
      BY <1>2, <3>1, Counts DEF Expire, Fault
    <3>2. CASE ~ Attended(r)
      BY <1>2, <3>2, Typed DEF Expire, Quiet
    <3> QED
      BY <3>1, <3>2
  <2>4. Quiet' => \A w \in Workers : work[w].pc # "idle" => work[w].run # r
    BY <2>3 DEF Leases, Attended
  <2> HIDE DEF x
  <2> QED
    BY <1>1, <2>1, <2>2, <2>3, <2>4, RunStep
<1>3. CASE renew_lock(r)
  <2> DEFINE x == [runs[r] EXCEPT !.fresh = TRUE]
  <2>1. runs' = [runs EXCEPT ![r] = x] /\ used' = used
    BY <1>1, <1>3 DEF renew_lock
  <2>2. x \in RunRows /\ x.state = "RUNNING" /\ x.holder = runs[r].holder /\ x.fresh = TRUE
    BY <1>1 DEF RunRows
  <2>3. used' \in UsedRows /\ (Quiet' => Quiet)
    BY <2>1, Typed DEF Quiet
  <2> HIDE DEF x
  <2> QED
    BY <1>1, <2>1, <2>2, <2>3, RunStep
<1> QED
  BY <1>2, <1>3

\* release_stale takes a run whose lease is dead, and queues it while attempts
\* are left.
LEMMA ReleaseStep ==
  ASSUME IInv, NEW r \in Runs, release_stale(r)
  PROVE  IInv'
<1> USE DEF IInv
<1> DEFINE spent == runs[r].attempt >= MaxAttempts
           s == IF spent THEN "FAILED" ELSE "QUEUED"
           x == [runs[r] EXCEPT !.state = s, !.holder = None]
<1>1. /\ ~ runs[r].fresh /\ sweep' \in BOOLEAN
      /\ UNCHANGED <<state, transcript, owner, work, signal, asking, approval, used>>
  BY Typed DEF release_stale
<1>2. runs[r] \in RunRows /\ runs \in [Runs -> RunRows]
  BY Typed
<1>3. runs' = [runs EXCEPT ![r] = x]
  BY <1>2 DEF release_stale
<1>4. s \in {"FAILED", "QUEUED"} /\ (s = "QUEUED" => runs[r].attempt < MaxAttempts)
  BY <1>2, ConstantsAssumption DEF RunRows
<1> HIDE DEF spent, s
<1>5. x \in RunRows /\ x.state = s /\ x.attempt = runs[r].attempt
  BY <1>2, <1>4 DEF RunRows
<1>6. Quiet => \A w \in Workers : work[w].pc # "idle" => work[w].run # r
  BY <1>1 DEF Leases
<1>7. used' \in UsedRows /\ (Quiet' <=> Quiet)
  BY <1>1, Typed DEF Quiet
<1> HIDE DEF x
<1> QED
  BY <1>1, <1>3, <1>4, <1>5, <1>6, <1>7, RunStep

\* The second statement of release_stale settles a round that nobody works on,
\* or has overtaken it.
LEMMA SweepStep ==
  ASSUME IInv, SettleStranded \/ SweepDies
  PROVE  IInv'
<1> USE DEF IInv
<1>1. CASE SettleStranded
  <2>1. /\ RowFree /\ sweep' = FALSE /\ UNCHANGED <<transcript, owner, runs, work, signal, asking, approval>>
        /\ state' = IF state \in InProgress THEN "FAILED_RETRYABLE" ELSE state
    BY <1>1 DEF SettleStranded
  <2>2. /\ used' \in UsedRows
        /\ Quiet' =>
             /\ used' = used
             /\ state \in InProgress => \A w \in Workers : ~ AtWork(w)
    <3>1. CASE state \in InProgress /\ \E w \in Workers : AtWork(w)
      <4>1. Count("overtaken")
        BY <1>1, <3>1 DEF SettleStranded
      <4> QED
        BY <4>1, Counts
    <3>2. CASE ~ (state \in InProgress /\ \E w \in Workers : AtWork(w))
      <4>1. used' = used
        BY <1>1, <3>2 DEF SettleStranded
      <4> QED
        BY <3>2, <4>1, Typed
    <3> QED
      BY <3>1, <3>2
  <2>3. Quiet' => Quiet
    <3>1. used' = used \/ Count("overtaken")
      BY <1>1 DEF SettleStranded
    <3>2. used \in UsedRows
      BY Typed
    <3> QED
      BY <3>1, <3>2 DEF Count, UsedRows, Quiet
  <2>4. TypeOK'
    <3>1. state' \in Settled \cup Terminal \cup InProgress
      BY <2>1, Typed DEF Settled
    <3> QED
      BY <2>1, <2>2, <3>1 DEF TypeOK, UsedRows
  <2>5. Budget' /\ RowHeld' /\ Leases'
    BY <2>1, <2>3 DEF Budget, RowHeld, RowFree, Leases
  <2>6. Rounds'
    BY <2>1, <2>2, <2>3 DEF Rounds, AtWork
  <2> QED
    BY <2>4, <2>5, <2>6
<1>2. CASE SweepDies
  <2>1. /\ sweep' = FALSE /\ Count("crash")
        /\ UNCHANGED <<state, transcript, owner, runs, work, signal, asking, approval>>
    BY <1>2 DEF SweepDies
  <2>2. used' \in UsedRows /\ (Quiet' <=> Quiet)
    BY <2>1, Counts
  <2>3. TypeOK'
    BY <2>1, <2>2 DEF TypeOK, UsedRows
  <2> QED
    BY <2>1, <2>2, <2>3 DEF Budget, RowHeld, Leases, Rounds, AtWork
<1> QED
  BY <1>1, <1>2

-----------------------------------------------------------------------------
(* The specification                                                       *)

LEMMA InitIInv == Init => IInv
<1> SUFFICES ASSUME Init PROVE IInv
  OBVIOUS
<1>1. /\ NoRun \in RunRows /\ Queued("new", TRUE) \in RunRows /\ NoRun.state = "ABSENT"
      /\ Queued("new", TRUE).attempt = 0 /\ 0 < MaxAttempts /\ 0 \in 0..MaxRuns
  <2>1. 0 \in 0..MaxAttempts /\ 0 \in 0..MaxRuns
    BY ConstantsAssumption
  <2>2. NoRun \in RunRows /\ NoRun.state = "ABSENT"
    BY <2>1 DEF NoRun, RunRows
  <2>3. /\ Queued("new", TRUE) \in RunRows /\ Queued("new", TRUE).attempt = 0
        /\ 0 < MaxAttempts
    <3>1. "new" \in {"new", "resume"} /\ TRUE \in BOOLEAN
      OBVIOUS
    <3> QED
      BY <3>1, QueuedRow
  <2> QED
    BY <2>1, <2>2, <2>3
<1>2. << >> \in Turns
  BY DEF Turns
<1>3. Idle \in WorkRows /\ Idle.pc = "idle"
  BY <1>1, <1>2 DEF Idle, WorkRows, Places
<1>4. used \in UsedRows /\ approval \in Approvals
  BY <1>2 DEF Init, UsedRows, Approvals, NoApproval
<1>5. TypeOK
  <2>1. state \in Settled \cup Terminal \cup InProgress
    BY DEF Init, InProgress
  <2>2. runs \in [Runs -> RunRows]
    BY <1>1 DEF Init
  <2>3. work \in [Workers -> WorkRows] /\ \A w \in Workers : work[w].pc = "idle"
    BY <1>3 DEF Init
  <2>4. /\ owner = 0 /\ signal = 0 /\ asking = 0 /\ sweep \in BOOLEAN /\ transcript \in Turns
    BY <1>2 DEF Init
  <2> QED
    BY <1>1, <1>4, <2>1, <2>2, <2>3, <2>4, Typed
<1>6. Budget
  BY <1>1 DEF Init, Budget
<1>7. RowHeld /\ Leases /\ Rounds
  BY <1>3 DEF Init, RowHeld, Leases, Rounds, AtWork
<1> QED
  BY <1>5, <1>6, <1>7 DEF IInv

LEMMA NextIInv == IInv /\ [Next]_vars => IInv'
<1> SUFFICES ASSUME IInv, [Next]_vars PROVE IInv'
  OBVIOUS
<1>1. ASSUME NEW r \in Runs, Message(r) \/ Retry(r) PROVE IInv'
  BY <1>1, QueueStep
<1>2. CASE ResendSubmit \/ \E r \in Runs : ResendMessage(r)
  BY <1>2, ResendStep
<1>3. CASE Cancel \/ record_outcome
  BY <1>3, EndStep
<1>4. CASE CancelBusy \/ CancelSignal
  BY <1>4, SignalStep
<1>12. CASE Approve \/ store_approval
  BY <1>12, ApproveStep, StoreStep
<1>5. ASSUME NEW w \in Workers, NEW r \in Runs, claim_next(w, r) PROVE IInv'
  BY <1>5, ClaimNextStep
<1>6. ASSUME NEW w \in Workers, Step(w) PROVE IInv'
  BY <1>6, EndRunStep, ClaimAiStep, MarkRunningStep, LoopStep, FinishJobStep,
     FinishCommitStep, FailingStep, CancelingStep DEF Step
<1>7. ASSUME NEW w \in Workers, Crash(w) PROVE IInv'
  BY <1>7, CrashStep
<1>8. ASSUME NEW r \in Runs, Expire(r) \/ renew_lock(r) PROVE IInv'
  BY <1>8, LeaseStep
<1>9. ASSUME NEW r \in Runs, release_stale(r) PROVE IInv'
  BY <1>9, ReleaseStep
<1>10. CASE SettleStranded \/ SweepDies
  BY <1>10, SweepStep
<1>11. CASE UNCHANGED vars
  BY <1>11 DEF vars, IInv, TypeOK, Budget, RowHeld, Leases, Rounds, AtWork, Quiet
<1> QED
  BY <1>1, <1>2, <1>3, <1>4, <1>5, <1>6, <1>7, <1>8, <1>9, <1>10, <1>11, <1>12 DEF Next

LEMMA Invariance == Spec => []IInv
BY InitIInv, NextIInv, PTL DEF Spec

\* The row, its runs and their workers stay well typed; a run is started no
\* more often than max_attempts.
THEOREM TypeCorrect == Spec => []TypeOK
<1>1. IInv => TypeOK
  BY DEF IInv
<1> QED
  BY <1>1, Invariance, PTL

\* claim_queued_job and resume_job keep one loop on a transcript: the round of
\* a loop at work is the row's, unless its lease or its membership is lost, a
\* request is repeated, or a sweep or an approval settles the job over it.
THEOREM OneLoop == Spec => []LoopOwnsRound
<1>1. IInv => LoopOwnsRound
  BY DEF IInv, Rounds, LoopOwnsRound, AtWork
<1> QED
  BY <1>1, Invariance, PTL

\* No step but an approval's writes over a cancel: finish_job's transaction
\* began on a running row and holds it, and every other write asks for the
\* states it may leave.
LEMMA CancelKept ==
  IInv /\ [Next]_vars =>
    (state = "CANCELED" =>
       state' = "CANCELED" \/ (approval.left > 0 /\ transcript' = Marked(approval.read)))
<1> SUFFICES ASSUME IInv, [Next]_vars, state = "CANCELED", ~ store_approval
             PROVE  state' = "CANCELED"
  BY DEF store_approval, InProgress
<1> USE DEF Settled, Terminal, InProgress
<1>1. ASSUME NEW r \in Runs, Message(r) \/ ResendMessage(r) \/ Retry(r) PROVE FALSE
  BY <1>1 DEF Message, ResendMessage, Retry, mark_queued
<1>2. CASE ResendSubmit \/ Cancel \/ CancelBusy \/ CancelSignal \/ record_outcome \/ Approve
  BY <1>2 DEF ResendSubmit, Cancel, CancelBusy, CancelSignal, record_outcome, Approve
<1>3. ASSUME NEW w \in Workers, NEW r \in Runs, claim_next(w, r) PROVE state' = "CANCELED"
  BY <1>3 DEF claim_next
<1>4. ASSUME NEW w \in Workers, FinishCommit(w) PROVE FALSE
  BY <1>4 DEF FinishCommit, IInv, RowHeld
<1>5. ASSUME NEW w \in Workers, Step(w), ~ FinishCommit(w) PROVE state' = "CANCELED"
  <2>1. CASE LeaveEarly(w) \/ BeginAct(w) \/ CancelSeen(w) \/ RoundFails(w) \/ finish_job(w)
             \/ Report(w) \/ EndRun(w)
    BY <2>1 DEF LeaveEarly, BeginAct, CancelSeen, RoundFails, finish_job, Report, EndRun
  <2>2. CASE ClaimAi(w)
    BY <2>2 DEF ClaimAi, Claimable
  <2>3. CASE mark_running(w)
    BY <2>3 DEF mark_running
  <2>4. CASE Failing(w) \/ Canceling(w)
    BY <2>4 DEF Failing, Canceling
  <2> QED
    BY <1>5, <2>1, <2>2, <2>3, <2>4 DEF Step
<1>6. ASSUME NEW w \in Workers, Crash(w) PROVE state' = "CANCELED"
  BY <1>6 DEF Crash
<1>7. ASSUME NEW r \in Runs, Expire(r) \/ renew_lock(r) \/ release_stale(r)
      PROVE  state' = "CANCELED"
  BY <1>7 DEF Expire, renew_lock, release_stale
<1>8. CASE SettleStranded \/ SweepDies
  BY <1>8 DEF SettleStranded, SweepDies
<1>9. CASE UNCHANGED vars
  BY <1>9 DEF vars
<1> QED
  BY <1>1, <1>2, <1>3, <1>4, <1>5, <1>6, <1>7, <1>8, <1>9 DEF Next

\* request_cancel is final but for a person's approval of an earlier round: no
\* result, failure or sweep brings the job back, and an approval that does
\* records only what its author read.
THEOREM CancelIsFinal == Spec => CancelSticks
<1>1. IInv /\ [Next]_vars =>
        [state = "CANCELED" =>
           \/ state' = "CANCELED"
           \/ approval.left > 0 /\ transcript' = Marked(approval.read)]_vars
  BY CancelKept
<1> QED
  BY <1>1, Invariance, PTL DEF Spec, CancelSticks
=============================================================================
