----------------------------- MODULE AiExchange -----------------------------
(***************************************************************************)
(* Paid AI exchanges of one organisation: ai_gateway/service.invoke with   *)
(* the credit holds, the provider usage rows and the wallet it drives.     *)
(*                                                                         *)
(* A key is an operation key together with the request it stands for.  An  *)
(* invoke is a sequence of database transactions around one provider call: *)
(*   Enter, AdmitRead, AdmitReserve, Begin, (provider), UsageFinish and    *)
(*   Settle or HoldFinish.                                                 *)
(* Admission, usage rows and the release of a hold commit on their own     *)
(* connection (usage.independent).  Enter and Settle are the caller's: for *)
(* a key in Nested the caller already is in a transaction (an HTTP request *)
(* in authenticated_rls_context, an agent round), so the organisation row  *)
(* stays locked and nothing is visible to others until that one ends.      *)
(***************************************************************************)
EXTENDS Integers, FiniteSets

CONSTANTS
  Calls,      \* threads that run invoke, each for one request after another
  Keys,       \* operation keys
  Nested,     \* keys whose callers wrap invoke in a transaction of their own
  Agent,      \* of those, the rounds of an agent job (ai_job_id is set)
  None,
  Cost,       \* route.credits_cost
  Pack,       \* purchased credits, which never expire
  Quota,      \* monthly allowance of the plan
  Paid,       \* service windows that are paid for
  MaxWindow,  \* bound: the last service window that is explored
  Crashable,  \* threads whose process may die
  Paused,     \* whether a live thread may stall for STALE_AFTER
  Budget      \* ai_settings.monthly_budget_credits

ASSUME KeyAssumption == Agent \subseteq Nested /\ Nested \subseteq Keys

ASSUME AmountAssumption ==
  /\ Cost \in Nat \ {0}
  /\ {Pack, Quota, MaxWindow, Budget} \subseteq Nat
  /\ IsFiniteSet(Keys)
  /\ Paused \in BOOLEAN

ASSUME NullAssumption == None \notin Calls \cup Keys

VARIABLES
  window,    \* the service window the clock is in
  wallet,    \* the organisation's committed credits
  hold,      \* credit_holds, per key
  usage,     \* ai_provider_usage, per key
  audits,    \* keys with a committed audit and its AI_DEBIT
  orgLock,   \* holder of the organisation row between transactions
  answers,   \* answers of the provider that a thread received, per key
  charged,   \* attempts it charged, or may have charged unheard, per key
  call       \* what each thread is doing

\* What the provider did, and what is known of it: history.
history == <<answers, charged>>

vars == <<window, wallet, hold, usage, audits, orgLock, history, call>>

\* A key is OPEN once it may be sent again though it may have been charged.
Charges == {"NONE", "ONCE", "TWICE", "OPEN"}

Wallets ==
  [credits : Nat,      \* credits_balance
   monthly : Nat,      \* the part of it in the lot that expires
   upto    : Nat,      \* the window reconcile last brought it to
   plan    : BOOLEAN]  \* capabilities.entitled

Holds ==
  [status : {"NONE", "ACTIVE", "SETTLED", "RELEASED", "UNCERTAIN"},
   old    : BOOLEAN]   \* created before now - STALE_AFTER

\* The latest attempt.  FAILED has no token count, CHARGED failed with one.
Usages ==
  [last    : {"NONE", "RUNNING", "SUCCEEDED", "FAILED", "CHARGED"},
   counted : Nat]      \* finished attempts that count against the budget

\* "large" is an answer above MAX_OUTPUT_CHARS; "charged" an error with token
\* counts; "error" ai_provider_error; "unsent" any code that is not billed.
Outcomes == {"ok", "large", "charged", "timeout", "error", "unsent"}
Answered == {"ok", "large", "charged"}

Phases == {"idle", "admit", "reserve", "begin", "provider", "finish",
           "settle", "release", "open", "cleanup"}

Threads ==
  [at      : Phases,
   key     : Keys \cup {None},
   outcome : Outcomes \cup {"refused", "none"},
   seen    : Nat,              \* balance read by admit
   swept   : SUBSET Keys,      \* holds its sweep has resolved, uncommitted
   staged  : SUBSET Keys,      \* audits and debits of an open transaction
   draft   : Wallets]          \* the wallet as that transaction sees it

\* Types; credits never go below zero, as credits_balance >= 0 demands.
TypeOK ==
  /\ window \in 0 .. MaxWindow
  /\ wallet \in Wallets
  /\ hold \in [Keys -> Holds]
  /\ usage \in [Keys -> Usages]
  /\ audits \subseteq Keys
  /\ orgLock \in Calls \cup {None}
  /\ answers \in [Keys -> Nat]
  /\ charged \in [Keys -> Charges]
  /\ call \in [Calls -> Threads]
  /\ \A c \in Calls :
       call[c].at \notin {"idle", "open", "cleanup"} => call[c].key \in Keys
-----------------------------------------------------------------------------
(* The wallet                                                              *)

\* wallet.reconcile: due allowances are granted, lots past their expiry are
\* emptied, and without a paid window the plan falls back to STARTER.
Allowance(n) == IF n \in Paid THEN Quota ELSE 0

\* MUTANT: an expired lot is taken from the balance a second time.
ReconciledTwice(w) ==
  IF w.upto = window
    THEN w
    ELSE [credits |-> w.credits - 2 * w.monthly + Allowance(window),
          monthly |-> Allowance(window), upto |-> window,
          plan |-> window \in Paid]

Reconciled(w) ==
  IF w.upto = window
    THEN w
    ELSE [credits |-> w.credits - w.monthly + Allowance(window),
          monthly |-> Allowance(window),
          upto    |-> window,
          plan    |-> window \in Paid]

\* wallet.debit refuses without a plan or the credits.
CanPay(w) == w.plan /\ w.credits >= Cost

\* wallet.debit takes the credits from the lot that expires first.
Debited(w) ==
  [w EXCEPT !.credits = @ - Cost,
            !.monthly = IF @ > Cost THEN @ - Cost ELSE 0]

NewWallet ==
  [credits |-> Pack + Allowance(0), monthly |-> Allowance(0), upto |-> 0,
   plan |-> 0 \in Paid]

Resting(at) ==
  [at |-> at, key |-> None, outcome |-> "none", seen |-> 0, swept |-> {},
   staged |-> {}, draft |-> NewWallet]

Init ==
  /\ window = 0
  /\ wallet = NewWallet
  /\ hold = [k \in Keys |-> [status |-> "NONE", old |-> FALSE]]
  /\ usage = [k \in Keys |-> [last |-> "NONE", counted |-> 0]]
  /\ audits = {}
  /\ orgLock = None
  /\ answers = [k \in Keys |-> 0]
  /\ charged = [k \in Keys |-> "NONE"]
  /\ call = [c \in Calls |-> Resting("idle")]
-----------------------------------------------------------------------------
(* Transactions and row locks                                              *)

\* A thread inside its caller's transaction sees its own uncommitted wallet.
View(c) == IF orgLock = c THEN call[c].draft ELSE wallet

OrgFree(c) == orgLock \in {None, c}

\* A hold row written by a transaction that has not ended.
Locked(k) ==
  \E d \in Calls :
    \/ k \in call[d].staged
    \/ call[d].at = "reserve" /\ (k = call[d].key \/ k \in call[d].swept)

\* The advisory lock of admissions, held by a thread between its two reads.
Admitting == \E d \in Calls : call[d].at = "reserve"

\* An exception leaves invoke: the caller's transaction, if any, rolls back;
\* an agent job then runs its `finally` block.
Raised(c) ==
  [call EXCEPT ![c] =
     Resting(IF call[c].key \in Agent THEN "cleanup" ELSE "idle")]

Unlocked(c) == IF orgLock = c THEN None ELSE orgLock

Fails(c) ==
  /\ call' = Raised(c)
  /\ orgLock' = Unlocked(c)
  /\ UNCHANGED <<window, wallet, hold, usage, audits>>

Raise(c) == Fails(c) /\ UNCHANGED history

\* Another thread is at work on the key.
Shared(c, k) == \E d \in Calls \ {c} : call[d].key = k

\* A thread knows of a timeout that the hold does not yet tell.
Doubtful(k) ==
  \E d \in Calls : /\ call[d].key = k
                    /\ call[d].at \in {"finish", "release"}
                    /\ call[d].outcome = "timeout"

\* Those of the keys become OPEN that have such a timeout.
Opened(S) ==
  [k \in Keys |-> IF k \in S /\ charged[k] = "ONCE" /\ Doubtful(k)
                    THEN "OPEN" ELSE charged[k]]

\* The next step of invoke, inside the same transactions.
Goto(c, at) == [call EXCEPT ![c] = [@ EXCEPT !.at = at]]

\* A transaction of invoke ends.  On its own it commits; in the caller's it
\* only adds to what that transaction has not yet committed.
Ends(c, k, w, at, debits) ==
  /\ wallet' = IF k \in Nested THEN wallet ELSE w
  /\ audits' = IF k \in Nested THEN audits ELSE audits \cup debits
  /\ orgLock' = IF k \in Nested THEN c ELSE orgLock
  /\ call' = [call EXCEPT ![c] =
       IF k \in Nested
         THEN [Resting(at) EXCEPT !.key = k, !.draft = w,
                                  !.staged = call[c].staged \cup debits]
         ELSE IF at = "open" THEN Resting("idle")
                             ELSE [Resting(at) EXCEPT !.key = k]]
-----------------------------------------------------------------------------
(* invoke, up to the provider call                                         *)

\* A thread takes a request, or an open transaction goes on to its next one.
MayInvoke(c, k) ==
  \/ call[c].at = "idle"
  \/ call[c].at = "open" /\ k \in Nested /\ (k \in Agent <=> call[c].key \in Agent)

Replay(c, k) == k \in audits \cup call[c].staged

\* The stored response of a completed operation is the answer.
EnterReplay(c, k) ==
  /\ MayInvoke(c, k) /\ OrgFree(c)
  /\ Replay(c, k)
  /\ Ends(c, k, Reconciled(View(c)), "open", {})
  /\ UNCHANGED <<window, hold, usage, history>>

\* No plan or an obviously short balance.
EnterRefused(c, k) ==
  /\ MayInvoke(c, k) /\ OrgFree(c)
  /\ ~ Replay(c, k)
  /\ ~ CanPay(Reconciled(View(c)))
  /\ Raise(c)

Enter(c, k) ==
  /\ MayInvoke(c, k) /\ OrgFree(c)
  /\ ~ Replay(c, k)
  /\ CanPay(Reconciled(View(c)))
  /\ Ends(c, k, Reconciled(View(c)), "admit", {})
  /\ charged' = Opened({k})
  /\ UNCHANGED <<window, hold, usage, answers>>

\* holds.sweep: old ACTIVE holds whose exchange is not running; rows locked by
\* others are skipped.
Stale ==
  {k \in Keys : /\ hold[k].status = "ACTIVE" /\ hold[k].old
                /\ usage[k].last # "RUNNING"
                /\ ~ Locked(k)}

\* MUTANT: the sweep does not look for the debit.
SweptAllSettled(S) ==
  [k \in Keys |->
     IF k \in S THEN [hold[k] EXCEPT !.status = "SETTLED"] ELSE hold[k]]

Swept(S) ==
  [k \in Keys |->
     IF k \in S
       THEN [hold[k] EXCEPT
               !.status = IF k \in audits THEN "SETTLED" ELSE "RELEASED"]
       ELSE hold[k]]

\* MUTANT: admission locks the organisation row.
AdmitReadLockingOrg(c) ==
  LET k == call[c].key IN
  /\ call[c].at = "admit" /\ ~ Admitting /\ ~ Locked(k)
  /\ orgLock = None
  /\ Swept(Stale)[k].status \in {"NONE", "RELEASED"}
  /\ call' = [call EXCEPT ![c] =
       [@ EXCEPT !.at = "reserve", !.seen = wallet.credits, !.swept = Stale]]
  /\ UNCHANGED <<window, wallet, hold, usage, audits, orgLock, history>>

\* holds.admit up to the balance it reads; its sweep is not yet committed.
AdmitRead(c) ==
  LET k == call[c].key IN
  /\ call[c].at = "admit" /\ ~ Admitting /\ ~ Locked(k)
  /\ Swept(Stale)[k].status \in {"NONE", "RELEASED"}
  /\ call' = [call EXCEPT ![c] =
       [@ EXCEPT !.at = "reserve", !.seen = wallet.credits, !.swept = Stale]]
  /\ UNCHANGED <<window, wallet, hold, usage, audits, orgLock, history>>

\* A retry of the same exchange reuses its hold.
AdmitReuse(c) ==
  LET k == call[c].key IN
  /\ call[c].at = "admit" /\ ~ Admitting /\ ~ Locked(k)
  /\ Swept(Stale)[k].status \in {"ACTIVE", "SETTLED"}
  /\ hold' = Swept(Stale)
  /\ call' = Goto(c, "begin")
  /\ UNCHANGED <<window, wallet, usage, audits, orgLock, history>>

\* ai_operation_uncertain; the sweep rolls back with the exception.
AdmitUncertain(c) ==
  LET k == call[c].key IN
  /\ call[c].at = "admit" /\ ~ Admitting /\ ~ Locked(k)
  /\ Swept(Stale)[k].status = "UNCERTAIN"
  /\ Raise(c)

\* holds.held, a statement of its own: it sees what committed since the
\* balance was read.
Reserved(c) ==
  Cost * Cardinality({k \in Keys \ {call[c].key} :
                        /\ hold[k].status \in {"ACTIVE", "UNCERTAIN"}
                        /\ k \notin call[c].swept})

AdmitReserve(c) ==
  LET k == call[c].key IN
  /\ call[c].at = "reserve"
  /\ call[c].seen - Reserved(c) >= Cost
  /\ hold' = [Swept(call[c].swept) EXCEPT ![k] =
                [status |-> "ACTIVE", old |-> FALSE]]
  /\ call' = [call EXCEPT ![c] =
       [@ EXCEPT !.at = "begin", !.seen = 0, !.swept = {}]]
  /\ UNCHANGED <<window, wallet, usage, audits, orgLock, history>>

AdmitRefused(c) ==
  /\ call[c].at = "reserve"
  /\ call[c].seen - Reserved(c) < Cost
  /\ Raise(c)

Running(k) == IF usage[k].last = "RUNNING" THEN 1 ELSE 0

\* This month's attempts that cost, or may have cost, something, each a pair
\* of its key and its number.
Attempts == UNION {{k} \X (1 .. usage[k].counted + Running(k)) : k \in Keys}

\* The sum of their credits.
Consumed == Cost * Cardinality(Attempts)

\* MUTANT: attempts in flight are not counted.
MayBeginUncounted(k) ==
  /\ usage[k].last \in {"NONE", "FAILED"}
  /\ Cost * Cardinality(UNION {{j} \X (1 .. usage[j].counted) : j \in Keys})
       + Cost <= Budget

\* usage.begin takes the key's next attempt only when no earlier one runs,
\* succeeded or was charged, and the month's budget allows it.
MayBegin(k) ==
  /\ usage[k].last \in {"NONE", "FAILED"}
  /\ Consumed + Cost <= Budget

Begin(c) ==
  LET k == call[c].key IN
  /\ call[c].at = "begin"
  /\ MayBegin(k)
  /\ usage' = [usage EXCEPT ![k] = [@ EXCEPT !.last = "RUNNING"]]
  /\ call' = Goto(c, "provider")
  /\ UNCHANGED <<window, wallet, hold, audits, orgLock, history>>

\* ai_operation_in_progress or ai_budget_exceeded.
BeginRefused(c) ==
  /\ call[c].at = "begin"
  /\ ~ MayBegin(call[c].key)
  /\ call' = [call EXCEPT ![c] =
       [@ EXCEPT !.at = "release", !.outcome = "refused"]]
  /\ UNCHANGED <<window, wallet, hold, usage, audits, orgLock, history>>
-----------------------------------------------------------------------------
(* The exchange and its settlement                                         *)

\* The provider charges an attempt of the key.
Charge(k, first) ==
  [charged EXCEPT ![k] = CASE @ = "NONE" -> first
                           [] @ = "OPEN" -> "OPEN"
                           [] OTHER      -> "TWICE"]

\* Whether the hold is there to become UNCERTAIN, and no other thread has been
\* admitted with it, when the attempt of this one times out.
Standing(c, k) ==
  IF hold[k] = [status |-> "ACTIVE", old |-> FALSE] /\ ~ Shared(c, k)
    THEN "ONCE" ELSE "OPEN"

\* The provider answers or fails.  It has charged an attempt it answered, and
\* may have charged one that timed out.  An error may hide a charge as well (the
\* transport repeats a transmission that failed on the wire), but the gateway
\* retries it by design, and charged does not follow it.
ProviderEnds(c) ==
  LET k == call[c].key IN
  /\ call[c].at = "provider"
  /\ \E o \in Outcomes :
       /\ call' = [call EXCEPT ![c] =
            [@ EXCEPT !.at = "finish", !.outcome = o]]
       /\ answers' = [answers EXCEPT ![k] = IF o \in Answered THEN @ + 1 ELSE @]
       /\ charged' = CASE o \in Answered -> Charge(k, "ONCE")
                       [] o = "timeout"  -> Charge(k, Standing(c, k))
                       [] OTHER          -> charged
  /\ UNCHANGED <<window, wallet, hold, usage, audits, orgLock>>

Finished(u, o) ==
  [last    |-> CASE o \in {"ok", "large"} -> "SUCCEEDED"
                 [] o = "charged"         -> "CHARGED"
                 [] OTHER                 -> "FAILED",
   counted |-> IF o = "unsent" THEN u.counted ELSE u.counted + 1]

UsageFinish(c) ==
  LET k == call[c].key IN
  /\ call[c].at = "finish"
  /\ usage' = [usage EXCEPT ![k] =
       IF @.last = "RUNNING" THEN Finished(@, call[c].outcome) ELSE @]
  /\ call' = Goto(c, IF call[c].outcome = "ok" THEN "settle" ELSE "release")
  /\ UNCHANGED <<window, wallet, hold, audits, orgLock, history>>

\* MUTANT: a timeout is released like every other failure.
WithoutDebitReleased(k, o) ==
  [hold EXCEPT ![k] =
     IF @.status = "ACTIVE" THEN [@ EXCEPT !.status = "RELEASED"] ELSE @]

\* finish_without_debit: only an ACTIVE hold changes.
WithoutDebit(k, o) ==
  [hold EXCEPT ![k] =
     IF @.status = "ACTIVE"
       THEN [@ EXCEPT !.status = IF o = "timeout" THEN "UNCERTAIN"
                                                  ELSE "RELEASED"]
       ELSE @]

HoldFinish(c) ==
  LET k == call[c].key IN
  /\ call[c].at = "release" /\ ~ Locked(k)
  /\ hold' = WithoutDebit(k, call[c].outcome)
  /\ call' = Raised(c)
  /\ orgLock' = Unlocked(c)
  /\ UNCHANGED <<window, wallet, usage, audits, history>>

\* holds.settle, in the transaction of the debit.
Settled(S) ==
  [k \in Keys |->
     IF k \in S /\ hold[k].status = "ACTIVE"
       THEN [hold[k] EXCEPT !.status = "SETTLED"] ELSE hold[k]]

\* MUTANT: the hold is settled on a connection of its own.
SettleOnItsOwn(c) ==
  LET k == call[c].key
      w == Reconciled(View(c))
  IN
  /\ call[c].at = "settle" /\ OrgFree(c) /\ ~ Locked(k)
  /\ CanPay(w)
  /\ hold' = Settled({k})
  /\ Ends(c, k, Debited(w), "open", {k})
  /\ UNCHANGED <<window, usage, history>>

\* The last transaction of invoke: replay the winner of a race, or audit,
\* debit and settle.
Settle(c) ==
  LET k == call[c].key
      w == Reconciled(View(c))
  IN
  /\ call[c].at = "settle" /\ OrgFree(c) /\ ~ Locked(k)
  /\ Replay(c, k) \/ CanPay(w)
  /\ IF Replay(c, k)
       THEN /\ hold' = WithoutDebit(k, "replayed")
            /\ Ends(c, k, w, "open", {})
       ELSE /\ hold' = IF k \in Nested THEN hold ELSE Settled({k})
            /\ Ends(c, k, Debited(w), "open", {k})
  /\ UNCHANGED <<window, usage, history>>

\* The debit is refused: the audit rolls back and the hold stays ACTIVE.
SettleRefused(c) ==
  LET k == call[c].key IN
  /\ call[c].at = "settle" /\ OrgFree(c) /\ ~ Locked(k)
  /\ ~ Replay(c, k)
  /\ ~ CanPay(Reconciled(View(c)))
  /\ Raise(c)
-----------------------------------------------------------------------------
(* The caller's transaction                                                *)

\* The request or the round commits: debits, audits and settled holds.
Commit(c) ==
  /\ call[c].at = "open"
  /\ wallet' = call[c].draft
  /\ audits' = audits \cup call[c].staged
  /\ hold' = Settled(call[c].staged)
  /\ call' = Raised(c)
  /\ orgLock' = None
  /\ UNCHANGED <<window, usage, history>>

\* The caller rejects the answer, or the job is cancelled.
Rollback(c) ==
  /\ call[c].at = "open"
  /\ Raise(c)

\* holds.release_job, after every agent round whatever its end.
ReleaseJob(c) ==
  /\ call[c].at = "cleanup"
  /\ \A k \in Agent : ~ Locked(k)
  /\ hold' = [k \in Keys |-> IF k \in Agent THEN WithoutDebit(k, "rollback")[k]
                                            ELSE hold[k]]
  /\ call' = [call EXCEPT ![c] = Resting("idle")]
  /\ charged' = Opened(Agent)
  /\ UNCHANGED <<window, wallet, usage, audits, orgLock, answers>>

\* A database error.  It raises; in the `finally` block it is swallowed.
WriteFails(c) ==
  /\ call[c].at \in {"admit", "finish", "release", "settle", "cleanup"}
  /\ Fails(c)
  /\ charged' = IF call[c].at = "release" THEN Opened({call[c].key}) ELSE charged
  /\ UNCHANGED answers

\* The process dies; its connections close and their transactions roll back.
\* What it had sent to the provider may be charged all the same.
Crash(c) ==
  /\ c \in Crashable /\ call[c].at # "idle"
  /\ call' = [call EXCEPT ![c] = Resting("idle")]
  /\ orgLock' = Unlocked(c)
  /\ charged' = CASE call[c].at = "provider" -> Charge(call[c].key, "ONCE")
                  [] call[c].at = "release"  -> Opened({call[c].key})
                  [] OTHER                   -> charged
  /\ UNCHANGED <<window, wallet, hold, usage, audits, answers>>
-----------------------------------------------------------------------------
(* Time                                                                    *)

\* Twenty minutes pass over a hold.
Age(k) ==
  /\ hold[k].status = "ACTIVE" /\ ~ hold[k].old
  /\ Paused \/ \A c \in Calls : call[c].key # k
  /\ hold' = [hold EXCEPT ![k] = [@ EXCEPT !.old = TRUE]]
  /\ charged' = Opened({k})
  /\ UNCHANGED <<window, wallet, usage, audits, orgLock, answers, call>>

NextWindow ==
  /\ window < MaxWindow
  /\ window' = window + 1
  /\ UNCHANGED <<wallet, hold, usage, audits, orgLock, history, call>>
-----------------------------------------------------------------------------
Invoke(c) ==
  \E k \in Keys : EnterReplay(c, k) \/ EnterRefused(c, k) \/ Enter(c, k)

Admit(c) == AdmitRead(c) \/ AdmitReuse(c) \/ AdmitUncertain(c)

Reserve(c) == AdmitReserve(c) \/ AdmitRefused(c)

Attempt(c) == Begin(c) \/ BeginRefused(c)

Finish(c) == Settle(c) \/ SettleRefused(c)

Leave(c) == Commit(c) \/ Rollback(c)

\* Steps that wait for a lock, and steps that do not.
Waiting(c) == Admit(c) \/ HoldFinish(c) \/ Finish(c) \/ ReleaseJob(c)

Working(c) ==
  \/ Reserve(c) \/ Attempt(c) \/ ProviderEnds(c) \/ UsageFinish(c) \/ Leave(c)

Next ==
  \/ \E c \in Calls :
       Invoke(c) \/ Waiting(c) \/ Working(c) \/ WriteFails(c) \/ Crash(c)
  \/ \E k \in Keys : Age(k)
  \/ NextWindow

Spec == Init /\ [][Next]_vars

(* Every statement and every provider call ends (the transport has a       *)
(* timeout), and PostgreSQL queues the waiters of a lock: a thread whose   *)
(* lock becomes free again and again gets it.                              *)
Fairness == \A c \in Calls : WF_vars(Working(c)) /\ SF_vars(Waiting(c))

FairSpec == Spec /\ Fairness
-----------------------------------------------------------------------------
(* Properties                                                              *)

\* No answer is bought twice: usage rows commit on their own and usage.begin
\* refuses a key that runs, succeeded or was charged.  Nor is an attempt
\* repeated that the provider may have charged unheard, because it timed out or
\* its process died, except for the OPEN keys: the timed-out attempt's hold was
\* gone, another thread worked on the key, or before the hold was UNCERTAIN
\* another round of the job released it or the thread was lost or stalled.
PaidOnce ==
  \A k \in Keys :
    /\ answers[k] <= 1
    /\ charged[k] # "TWICE"

\* The organisation is debited only for an exchange the provider answered,
\* and a hold is SETTLED only together with a committed debit, never with
\* one that rolled back with the caller's work.
DebitedForAnAnswer ==
  /\ \A k \in audits : answers[k] = 1
  /\ \A k \in Keys : hold[k].status = "SETTLED" => k \in audits

\* The second replay check of invoke, made "before spending again", never
\* finds anything: at most one thread per key gets from usage.begin to the
\* debit, and none once the key is audited.
OneSettler ==
  \A c \in Calls :
    call[c].at \in {"provider", "finish", "settle"} =>
      /\ ~ Replay(c, call[c].key)
      /\ \A d \in Calls \ {c} :
           call[d].at \in {"provider", "finish", "settle"} =>
             call[d].key # call[c].key

\* Concurrent exchanges never take the month above the owner's budget.
BudgetRespected == Consumed <= Budget

\* Every invoke returns: admission never waits for the organisation row its
\* own caller holds, and no lock is kept by a thread that is gone.
EveryCallReturns == \A c \in Calls : call[c].at # "idle" ~> call[c].at = "idle"
=============================================================================
