--------------------------- MODULE AiExchangeProofs ---------------------------
(* Proofs about AiExchange for every number of threads and keys, every cost, *)
(* balance and budget, and every choice of the callers' transactions.        *)
EXTENDS AiExchange, FiniteSetTheorems, TLAPS

USE DEF history

(***************************************************************************)
(* The inductive invariant.  The usage row is the authority on a key: it   *)
(* commits on its own, so it tells what the provider was asked even when   *)
(* the thread that asked is gone and its caller's work rolled back.        *)
(***************************************************************************)
\* The lot that expires is part of the balance, also in an open transaction.
Backed(w) == w.monthly <= w.credits

WalletsBacked ==
  /\ Backed(wallet)
  /\ \A c \in Calls : Backed(call[c].draft)

Exchanging == {"provider", "finish", "settle"}

\* Where a thread is between usage.begin and its debit, the row says so.
Attempted ==
  \A c \in Calls :
    /\ call[c].at \in {"provider", "finish"} =>
         usage[call[c].key].last = "RUNNING"
    /\ call[c].at = "provider" => answers[call[c].key] = 0
    /\ call[c].at = "finish" =>
         /\ call[c].outcome \in Outcomes
         /\ answers[call[c].key] =
              IF call[c].outcome \in Answered THEN 1 ELSE 0
    /\ call[c].at = "settle" => usage[call[c].key].last = "SUCCEEDED"

\* A row that allows another attempt belongs to a key that never was charged.
AnsweredOnce ==
  \A k \in Keys :
    /\ answers[k] <= 1
    /\ usage[k].last \in {"NONE", "FAILED"} => answers[k] = 0
    /\ usage[k].last = "SUCCEEDED" => answers[k] = 1

\* Only a key whose attempt succeeded is audited, committed or not.
Audited ==
  /\ \A k \in audits : usage[k].last = "SUCCEEDED"
  /\ \A c \in Calls : \A k \in call[c].staged : usage[k].last = "SUCCEEDED"

\* A key has one thread between usage.begin and the debit, and no audit yet.
Alone ==
  \A c \in Calls :
    call[c].at \in Exchanging =>
      /\ call[c].key \notin audits
      /\ \A d \in Calls :
           /\ call[c].key \notin call[d].staged
           /\ d # c /\ call[d].at \in Exchanging => call[d].key # call[c].key

SettledAudited == \A k \in Keys : hold[k].status = "SETTLED" => k \in audits

IInv ==
  /\ TypeOK /\ WalletsBacked /\ Attempted /\ AnsweredOnce /\ Audited /\ Alone
  /\ SettledAudited
-----------------------------------------------------------------------------
(* What the operators return                                               *)

\* The monthly allowance is a number of credits.
LEMMA AllowanceNat == \A n : Allowance(n) \in Nat
BY AmountAssumption DEF Allowance

\* The opening balance.
LEMMA NewWalletOK == NewWallet \in Wallets /\ Backed(NewWallet)
<1> DEFINE a == Allowance(0)
<1>1. a \in Nat /\ Pack \in Nat
  BY AllowanceNat, AmountAssumption
<1>2. NewWallet = [credits |-> Pack + a, monthly |-> a, upto |-> 0,
                   plan |-> 0 \in Paid]
  BY DEF NewWallet
<1> HIDE DEF a
<1> QED
  BY <1>1, <1>2 DEF Wallets, Backed

\* wallet.reconcile empties a lot that is part of the balance, so credits stay
\* natural.
LEMMA ReconciledOK ==
  ASSUME window \in Nat, NEW w \in Wallets, Backed(w)
  PROVE  Reconciled(w) \in Wallets /\ Backed(Reconciled(w))
<1> DEFINE a == Allowance(window)
<1>1. a \in Nat
  BY AllowanceNat
<1>2. CASE w.upto = window
  BY <1>2 DEF Reconciled
<1>3. CASE w.upto # window
  <2>1. Reconciled(w) = [credits |-> w.credits - w.monthly + a, monthly |-> a,
                         upto |-> window, plan |-> window \in Paid]
    BY <1>3 DEF Reconciled
  <2> HIDE DEF a
  <2> QED
    BY <1>1, <2>1 DEF Wallets, Backed
<1> QED
  BY <1>2, <1>3

\* wallet.debit takes no more than there is, first from the lot that expires.
LEMMA DebitedOK ==
  ASSUME NEW w \in Wallets, Backed(w), CanPay(w)
  PROVE  Debited(w) \in Wallets /\ Backed(Debited(w))
<1>1. Cost \in Nat
  BY AmountAssumption
<1> DEFINE m == IF w.monthly > Cost THEN w.monthly - Cost ELSE 0
<1>2. /\ m \in Nat /\ w.credits - Cost \in Nat /\ m <= w.credits - Cost
  BY <1>1 DEF Wallets, Backed, CanPay
<1>3. Debited(w) = [w EXCEPT !.credits = w.credits - Cost, !.monthly = m]
  BY DEF Debited
<1> HIDE DEF m
<1> QED
  BY <1>2, <1>3 DEF Wallets, Backed

\* A thread without an exchange.
LEMMA RestingOK ==
  ASSUME NEW at \in Phases
  PROVE  /\ Resting(at) \in Threads
         /\ Resting(at).at = at /\ Resting(at).key = None
         /\ Resting(at).staged = {} /\ Backed(Resting(at).draft)
<1> DEFINE n == NewWallet
<1>1. n \in Wallets /\ Backed(n)
  BY NewWalletOK
<1>2. Resting(at) = [at |-> at, key |-> None, outcome |-> "none", seen |-> 0,
                     swept |-> {}, staged |-> {}, draft |-> n]
  BY DEF Resting
<1> HIDE DEF n
<1> QED
  BY <1>1, <1>2 DEF Threads

\* A thread with an exchange of its own.
LEMMA ExchangeOK ==
  ASSUME NEW at \in Phases, NEW k \in Keys
  PROVE  LET u == [Resting(at) EXCEPT !.key = k]
         IN  /\ u \in Threads /\ u.at = at /\ u.key = k /\ u.staged = {}
             /\ Backed(u.draft)
<1> DEFINE n == NewWallet
<1>1. n \in Wallets /\ Backed(n)
  BY NewWalletOK
<1>2. [Resting(at) EXCEPT !.key = k] =
        [at |-> at, key |-> k, outcome |-> "none", seen |-> 0, swept |-> {},
         staged |-> {}, draft |-> n]
  BY DEF Resting
<1> HIDE DEF n
<1> QED
  BY <1>1, <1>2 DEF Threads

\* A thread inside its caller's transaction.
LEMMA TransactionOK ==
  ASSUME NEW at \in Phases, NEW k \in Keys, NEW w \in Wallets, Backed(w),
         NEW S \in SUBSET Keys
  PROVE  LET t == [Resting(at) EXCEPT !.key = k, !.draft = w, !.staged = S]
         IN  /\ t \in Threads /\ t.at = at /\ t.key = k /\ t.staged = S
             /\ Backed(t.draft)
<1> DEFINE n == NewWallet
           r == [at |-> at, key |-> None, outcome |-> "none", seen |-> 0,
                 swept |-> {}, staged |-> {}, draft |-> n]
<1>1. n \in Wallets
  BY NewWalletOK
<1>2. Resting(at) = r
  BY DEF Resting
<1>3. [r EXCEPT !.key = k, !.draft = w, !.staged = S] \in Threads
  <2> HIDE DEF n
  <2> QED
    BY <1>1 DEF Threads
<1>4. LET t == [r EXCEPT !.key = k, !.draft = w, !.staged = S]
      IN  t.at = at /\ t.key = k /\ t.staged = S /\ t.draft = w
  <2> HIDE DEF n
  <2> QED
    OBVIOUS
<1> HIDE DEF r
<1> QED
  BY <1>2, <1>3, <1>4

\* What a thread sees of the wallet.
LEMMA ViewOK ==
  ASSUME IInv, NEW c \in Calls
  PROVE  View(c) \in Wallets /\ Backed(View(c)) /\ window \in Nat
BY AmountAssumption DEF IInv, TypeOK, WalletsBacked, View, Threads

-----------------------------------------------------------------------------
(* Steps that leave the usage rows and the provider alone                  *)

\* The thread is outside the exchange, with no new audit of its own.
Rests(c, t) ==
  /\ t \in Threads /\ t.at \notin Exchanging
  /\ t.at \notin {"idle", "open", "cleanup"} => t.key \in Keys
  /\ t.staged \subseteq call[c].staged
  /\ Backed(t.draft)

ThreadsOK ==
  /\ call \in [Calls -> Threads]
  /\ \A c \in Calls :
       call[c].at \notin {"idle", "open", "cleanup"} => call[c].key \in Keys
  /\ \A c \in Calls : Backed(call[c].draft)

\* A thread that comes to rest, be it by an error, a commit or a refusal, and
\* audits at most what its transaction had staged.
LEMMA ThreadRests ==
  ASSUME IInv, NEW c \in Calls, NEW t, Rests(c, t),
         call' = [call EXCEPT ![c] = t], UNCHANGED <<usage, answers>>,
         audits \subseteq audits', audits' \subseteq audits \cup call[c].staged
  PROVE  ThreadsOK' /\ Attempted' /\ AnsweredOnce' /\ Audited' /\ Alone'
<1> USE DEF IInv, Rests
<1>1. ThreadsOK'
  BY DEF TypeOK, WalletsBacked, ThreadsOK
<1>2. Attempted'
  BY DEF TypeOK, Attempted, Exchanging
<1>3. AnsweredOnce'
  BY DEF AnsweredOnce
<1>4. Audited'
  BY DEF TypeOK, Audited
<1>5. Alone'
  BY DEF TypeOK, Alone
<1> QED
  BY <1>1, <1>2, <1>3, <1>4, <1>5

\* An exception: Raised and Unlocked.
LEMMA RaisedRests ==
  ASSUME IInv, NEW c \in Calls
  PROVE  \E t : Rests(c, t) /\ Raised(c) = [call EXCEPT ![c] = t]
<1> DEFINE at == IF call[c].key \in Agent THEN "cleanup" ELSE "idle"
<1>1. at \in Phases /\ at \in {"cleanup", "idle"}
  BY DEF Phases
<1>2. Rests(c, Resting(at))
  BY <1>1, RestingOK DEF Rests, Exchanging
<1>3. Raised(c) = [call EXCEPT ![c] = Resting(at)]
  BY DEF Raised
<1> QED
  BY <1>2, <1>3

\* The lock of a transaction that ended.
LEMMA UnlockedOK ==
  ASSUME IInv, NEW c \in Calls
  PROVE  Unlocked(c) \in Calls \cup {None}
BY DEF IInv, TypeOK, Unlocked

\* What the history says of charges.
LEMMA OpenedOK ==
  ASSUME charged \in [Keys -> Charges], NEW S
  PROVE  /\ Opened(S) \in [Keys -> Charges]
         /\ \A k \in Keys : Opened(S)[k] \in {charged[k], "OPEN"}
BY DEF Opened, Charges

\* A charge.
LEMMA ChargeOK ==
  ASSUME charged \in [Keys -> Charges], NEW k \in Keys,
         NEW first \in {"ONCE", "OPEN"}
  PROVE  /\ Charge(k, first) \in [Keys -> Charges]
         /\ \A j \in Keys \ {k} : Charge(k, first)[j] = charged[j]
         /\ charged[k] = "NONE" => Charge(k, first)[k] = first
         /\ charged[k] = "OPEN" => Charge(k, first)[k] = "OPEN"
         /\ Charge(k, first)[k] # "NONE"
<1> DEFINE v == CASE charged[k] = "NONE" -> first
                  [] charged[k] = "OPEN" -> "OPEN"
                  [] OTHER               -> "TWICE"
<1>1. /\ v \in Charges /\ v # "NONE"
      /\ charged[k] = "NONE" => v = first
      /\ charged[k] = "OPEN" => v = "OPEN"
  BY DEF Charges
<1>2. Charge(k, first) = [charged EXCEPT ![k] = v]
  BY DEF Charge
<1> HIDE DEF v
<1> QED
  BY <1>1, <1>2

\* An exception leaves the usage rows and the audits alone.
LEMMA FailsStep ==
  ASSUME IInv, NEW c \in Calls, Fails(c), answers' = answers,
         charged' \in [Keys -> Charges]
  PROVE  IInv'
<1>1. PICK t : Rests(c, t) /\ Raised(c) = [call EXCEPT ![c] = t]
  BY RaisedRests
<1>2. ThreadsOK' /\ Attempted' /\ AnsweredOnce' /\ Audited' /\ Alone'
  BY <1>1, ThreadRests DEF Fails
<1>3. orgLock' \in Calls \cup {None}
  BY UnlockedOK DEF Fails
<1> QED
  BY <1>2, <1>3 DEF IInv, TypeOK, WalletsBacked, SettledAudited, ThreadsOK, Fails

\* One that the history does not see.
LEMMA RaiseStep ==
  ASSUME IInv, NEW c \in Calls, Raise(c)
  PROVE  IInv'
BY FailsStep DEF Raise, IInv, TypeOK

\* A database error.
LEMMA WriteFailsStep ==
  ASSUME IInv, NEW c \in Calls, WriteFails(c)
  PROVE  IInv'
BY FailsStep, OpenedOK DEF WriteFails, IInv, TypeOK

\* So does the death of the process.
LEMMA CrashStep ==
  ASSUME IInv, NEW c \in Calls, Crash(c)
  PROVE  IInv'
<1>1. Rests(c, Resting("idle"))
  BY RestingOK DEF Rests, Phases, Exchanging
<1>2. ThreadsOK' /\ Attempted' /\ AnsweredOnce' /\ Audited' /\ Alone'
  BY <1>1, ThreadRests DEF Crash
<1>3. orgLock' \in Calls \cup {None}
  BY UnlockedOK DEF Crash
<1>4. charged' \in [Keys -> Charges]
  <2>1. CASE call[c].at = "provider"
    <3>1. call[c].key \in Keys /\ charged' = Charge(call[c].key, "ONCE")
      BY <2>1 DEF Crash, IInv, TypeOK
    <3> QED
      BY <3>1, ChargeOK DEF IInv, TypeOK
  <2>2. CASE call[c].at # "provider"
    BY <2>2, OpenedOK DEF Crash, IInv, TypeOK
  <2> QED
    BY <2>1, <2>2
<1> QED
  BY <1>2, <1>3, <1>4 DEF IInv, TypeOK, WalletsBacked, SettledAudited, ThreadsOK, Crash

\* A step inside invoke that touches neither the outcome, the audits nor the
\* wallet of the thread.
LEMMA MovesOK ==
  ASSUME NEW x \in Threads, NEW at \in Phases
  PROVE  LET t == [x EXCEPT !.at = at]
         IN  /\ t \in Threads /\ t.at = at /\ t.key = x.key
             /\ t.outcome = x.outcome /\ t.staged = x.staged
             /\ t.draft = x.draft
BY DEF Threads

\* holds.admit, up to the balance it reads.
LEMMA AdmitReadStep ==
  ASSUME IInv, NEW c \in Calls, AdmitRead(c)
  PROVE  IInv'
<1> DEFINE S == Stale
           n == wallet.credits
           t == [call[c] EXCEPT !.at = "reserve", !.seen = n, !.swept = S]
<1>1. /\ call[c] \in Threads /\ n \in Nat /\ S \in SUBSET Keys
      /\ call[c].key \in Keys /\ Backed(call[c].draft)
  BY DEF IInv, TypeOK, WalletsBacked, Wallets, Stale, AdmitRead
<1>2. call' = [call EXCEPT ![c] = t]
  BY DEF AdmitRead
<1>3. Rests(c, t)
  <2> HIDE DEF S, n
  <2> QED
    BY <1>1 DEF Rests, Threads, Phases, Exchanging
<1> HIDE DEF t
<1>4. ThreadsOK' /\ Attempted' /\ AnsweredOnce' /\ Audited' /\ Alone'
  BY <1>2, <1>3, ThreadRests DEF AdmitRead
<1> QED
  BY <1>4 DEF IInv, TypeOK, WalletsBacked, SettledAudited, ThreadsOK, AdmitRead

\* holds.sweep settles only what is audited.
LEMMA SweptOK ==
  ASSUME IInv, NEW S
  PROVE  /\ Swept(S) \in [Keys -> Holds]
         /\ \A k \in Keys : Swept(S)[k].status = "SETTLED" => k \in audits
BY DEF IInv, TypeOK, SettledAudited, Swept, Holds

\* holds.admit of a key that has a hold.
LEMMA AdmitReuseStep ==
  ASSUME IInv, NEW c \in Calls, AdmitReuse(c)
  PROVE  IInv'
<1> DEFINE t == [call[c] EXCEPT !.at = "begin"]
<1>1. /\ call[c] \in Threads /\ call[c].key \in Keys /\ Backed(call[c].draft)
  BY DEF IInv, TypeOK, WalletsBacked, AdmitReuse
<1>2. Rests(c, t)
  BY <1>1, MovesOK DEF Rests, Phases, Exchanging
<1>3. call' = [call EXCEPT ![c] = t]
  BY DEF AdmitReuse, Goto
<1> HIDE DEF t
<1>4. ThreadsOK' /\ Attempted' /\ AnsweredOnce' /\ Audited' /\ Alone'
  BY <1>2, <1>3, ThreadRests DEF AdmitReuse
<1>5. hold' \in [Keys -> Holds] /\ SettledAudited'
  BY SweptOK DEF AdmitReuse, SettledAudited
<1> QED
  BY <1>4, <1>5 DEF IInv, TypeOK, WalletsBacked, ThreadsOK, AdmitReuse

\* holds.admit, the hold and its sweep committed.
LEMMA AdmitReserveStep ==
  ASSUME IInv, NEW c \in Calls, AdmitReserve(c)
  PROVE  IInv'
<1> DEFINE t == [call[c] EXCEPT !.at = "begin", !.seen = 0, !.swept = {}]
           H == Swept(call[c].swept)
           h == [status |-> "ACTIVE", old |-> FALSE]
<1>1. /\ call[c] \in Threads /\ call[c].key \in Keys /\ Backed(call[c].draft)
  BY DEF IInv, TypeOK, WalletsBacked, AdmitReserve
<1>2. Rests(c, t)
  BY <1>1 DEF Rests, Threads, Phases, Exchanging
<1>3. call' = [call EXCEPT ![c] = t]
  BY DEF AdmitReserve
<1>4. hold' = [H EXCEPT ![call[c].key] = h]
  BY DEF AdmitReserve
<1>5. /\ H \in [Keys -> Holds]
      /\ \A k \in Keys : H[k].status = "SETTLED" => k \in audits
  BY SweptOK
<1>6. h \in Holds /\ h.status # "SETTLED"
  BY DEF Holds
<1> HIDE DEF t, H, h
<1>7. ThreadsOK' /\ Attempted' /\ AnsweredOnce' /\ Audited' /\ Alone'
  BY <1>2, <1>3, ThreadRests DEF AdmitReserve
<1>8. hold' \in [Keys -> Holds] /\ SettledAudited'
  BY <1>1, <1>4, <1>5, <1>6 DEF AdmitReserve, SettledAudited
<1> QED
  BY <1>7, <1>8 DEF IInv, TypeOK, WalletsBacked, ThreadsOK, AdmitReserve

\* usage.begin refuses.
LEMMA BeginRefusedStep ==
  ASSUME IInv, NEW c \in Calls, BeginRefused(c)
  PROVE  IInv'
<1> DEFINE t == [call[c] EXCEPT !.at = "release", !.outcome = "refused"]
<1>1. /\ call[c] \in Threads /\ call[c].key \in Keys /\ Backed(call[c].draft)
  BY DEF IInv, TypeOK, WalletsBacked, BeginRefused
<1>2. Rests(c, t)
  BY <1>1 DEF Rests, Threads, Phases, Exchanging
<1>3. call' = [call EXCEPT ![c] = t]
  BY DEF BeginRefused
<1> HIDE DEF t
<1>4. ThreadsOK' /\ Attempted' /\ AnsweredOnce' /\ Audited' /\ Alone'
  BY <1>2, <1>3, ThreadRests DEF BeginRefused
<1> QED
  BY <1>4 DEF IInv, TypeOK, WalletsBacked, SettledAudited, ThreadsOK, BeginRefused

\* finish_without_debit settles nothing.
LEMMA WithoutDebitOK ==
  ASSUME IInv, NEW k \in Keys, NEW o
  PROVE  /\ WithoutDebit(k, o) \in [Keys -> Holds]
         /\ \A j \in Keys :
              WithoutDebit(k, o)[j].status = "SETTLED" => j \in audits
BY DEF IInv, TypeOK, SettledAudited, WithoutDebit, Holds

\* The hold of an exchange that ended without a debit.
LEMMA HoldFinishStep ==
  ASSUME IInv, NEW c \in Calls, HoldFinish(c)
  PROVE  IInv'
<1>1. PICK t : Rests(c, t) /\ Raised(c) = [call EXCEPT ![c] = t]
  BY RaisedRests
<1>2. ThreadsOK' /\ Attempted' /\ AnsweredOnce' /\ Audited' /\ Alone'
  BY <1>1, ThreadRests DEF HoldFinish
<1>3. orgLock' \in Calls \cup {None}
  BY UnlockedOK DEF HoldFinish
<1>4. call[c].key \in Keys
  BY DEF IInv, TypeOK, HoldFinish
<1>5. hold' \in [Keys -> Holds] /\ SettledAudited'
  BY <1>4, WithoutDebitOK DEF HoldFinish, SettledAudited
<1> QED
  BY <1>2, <1>3, <1>5 DEF IInv, TypeOK, WalletsBacked, ThreadsOK, HoldFinish

\* The holds an agent job leaves behind.
LEMMA ReleaseJobStep ==
  ASSUME IInv, NEW c \in Calls, ReleaseJob(c)
  PROVE  IInv'
<1>1. Rests(c, Resting("idle"))
  BY RestingOK DEF Rests, Phases, Exchanging
<1>2. ThreadsOK' /\ Attempted' /\ AnsweredOnce' /\ Audited' /\ Alone'
  BY <1>1, ThreadRests DEF ReleaseJob
<1>3. hold' = [k \in Keys |-> IF k \in Agent THEN WithoutDebit(k, "rollback")[k]
                                            ELSE hold[k]]
  BY DEF ReleaseJob
<1>4. hold' \in [Keys -> Holds]
  BY <1>3, WithoutDebitOK DEF IInv, TypeOK
<1>5. SettledAudited'
  BY <1>3, WithoutDebitOK DEF IInv, SettledAudited, ReleaseJob
<1>6. charged' \in [Keys -> Charges]
  BY OpenedOK DEF ReleaseJob, IInv, TypeOK
<1> QED
  BY <1>2, <1>4, <1>5, <1>6 DEF IInv, TypeOK, WalletsBacked, ThreadsOK, ReleaseJob

\* holds.settle.
LEMMA SettledOK ==
  ASSUME IInv, NEW S \in SUBSET Keys
  PROVE  /\ Settled(S) \in [Keys -> Holds]
         /\ \A k \in Keys : Settled(S)[k].status = "SETTLED" => k \in audits \cup S
BY DEF IInv, TypeOK, SettledAudited, Settled, Holds

\* The caller's transaction commits what it staged: audits and holds at once.
LEMMA CommitStep ==
  ASSUME IInv, NEW c \in Calls, Commit(c)
  PROVE  IInv'
<1>1. PICK t : Rests(c, t) /\ Raised(c) = [call EXCEPT ![c] = t]
  BY RaisedRests
<1>2. ThreadsOK' /\ Attempted' /\ AnsweredOnce' /\ Audited' /\ Alone'
  BY <1>1, ThreadRests DEF Commit
<1>3. /\ call[c].staged \in SUBSET Keys
      /\ call[c].draft \in Wallets /\ Backed(call[c].draft)
  BY DEF IInv, TypeOK, Threads, WalletsBacked
<1>4. hold' \in [Keys -> Holds] /\ SettledAudited'
  BY <1>3, SettledOK DEF Commit, SettledAudited
<1> QED
  BY <1>2, <1>3, <1>4 DEF IInv, TypeOK, WalletsBacked, ThreadsOK, Commit

\* Time passes over a hold.
LEMMA AgeStep ==
  ASSUME IInv, NEW k \in Keys, Age(k)
  PROVE  IInv'
<1>1. hold' \in [Keys -> Holds] /\ SettledAudited'
  BY DEF IInv, TypeOK, Holds, SettledAudited, Age
<1>2. charged' \in [Keys -> Charges]
  BY OpenedOK DEF Age, IInv, TypeOK
<1> QED
  BY <1>1, <1>2
  DEF IInv, TypeOK, WalletsBacked, Attempted, AnsweredOnce, Audited, Alone, Age

\* Time passes over the wallet.
LEMMA NextWindowStep ==
  ASSUME IInv, NextWindow
  PROVE  IInv'
<1>1. window' \in 0 .. MaxWindow
  BY AmountAssumption DEF IInv, TypeOK, NextWindow
<1> QED
  BY <1>1 DEF IInv, TypeOK, WalletsBacked, Attempted, AnsweredOnce, Audited, Alone,
              SettledAudited, NextWindow

-----------------------------------------------------------------------------
(* Steps that end a transaction of invoke                                  *)

\* A thread outside the exchange that audits no more than D beyond its own.
Audits(c, t, D) ==
  /\ t \in Threads /\ t.at \notin Exchanging
  /\ t.at \notin {"idle", "open", "cleanup"} => t.key \in Keys
  /\ t.staged \subseteq call[c].staged \cup D
  /\ Backed(t.draft)

\* Ends writes the wallet it is given, into the database or into the draft of
\* the caller's transaction, and audits no more than its debits.
LEMMA EndsOK ==
  ASSUME IInv, NEW c \in Calls, NEW k \in Keys, NEW w \in Wallets, Backed(w),
         NEW at \in {"admit", "open"}, NEW D \in SUBSET Keys,
         Ends(c, k, w, at, D)
  PROVE  /\ wallet' \in Wallets /\ Backed(wallet')
         /\ orgLock' \in Calls \cup {None}
         /\ audits \subseteq audits' /\ audits' \subseteq audits \cup D
         /\ k \notin Nested => audits' = audits \cup D
         /\ \E t : Audits(c, t, D) /\ call' = [call EXCEPT ![c] = t]
<1>1. /\ wallet' \in Wallets /\ Backed(wallet')
      /\ orgLock' \in Calls \cup {None}
      /\ audits \subseteq audits' /\ audits' \subseteq audits \cup D
      /\ k \notin Nested => audits' = audits \cup D
  BY DEF IInv, TypeOK, WalletsBacked, Ends
<1>2. /\ at \in Phases /\ at \notin Exchanging /\ "idle" \in Phases
      /\ "idle" \notin Exchanging
  BY DEF Phases, Exchanging
<1>3. call[c].staged \cup D \in SUBSET Keys
  BY DEF IInv, TypeOK, Threads
<1>4. CASE k \in Nested
  <2> DEFINE S == call[c].staged \cup D
             t == [Resting(at) EXCEPT !.key = k, !.draft = w, !.staged = S]
  <2>1. call' = [call EXCEPT ![c] = t]
    BY <1>4 DEF Ends
  <2>2. t \in Threads /\ t.at = at /\ t.key = k /\ t.staged = S /\ Backed(t.draft)
    <3> HIDE DEF S
    <3>1. S \in SUBSET Keys
      BY <1>3 DEF S
    <3> QED
      BY <1>2, <3>1, TransactionOK
  <2> HIDE DEF t
  <2>3. Audits(c, t, D)
    BY <1>2, <2>2 DEF Audits
  <2> QED
    BY <1>1, <2>1, <2>3
<1>5. CASE k \notin Nested /\ at = "open"
  <2>1. call' = [call EXCEPT ![c] = Resting("idle")]
    BY <1>5 DEF Ends
  <2>2. Audits(c, Resting("idle"), D)
    BY <1>2, RestingOK DEF Audits
  <2> QED
    BY <1>1, <2>1, <2>2
<1>6. CASE k \notin Nested /\ at # "open"
  <2> DEFINE t == [Resting(at) EXCEPT !.key = k]
  <2>1. call' = [call EXCEPT ![c] = t]
    BY <1>6 DEF Ends
  <2>2. t \in Threads /\ t.at = at /\ t.key = k /\ t.staged = {} /\ Backed(t.draft)
    BY <1>2, ExchangeOK
  <2> HIDE DEF t
  <2>3. Audits(c, t, D)
    BY <1>2, <2>2 DEF Audits
  <2> QED
    BY <1>1, <2>1, <2>3
<1> QED
  BY <1>4, <1>5, <1>6

\* The wallet a thread works on after its reconcile.
LEMMA ReconciledViewOK ==
  ASSUME IInv, NEW c \in Calls
  PROVE  Reconciled(View(c)) \in Wallets /\ Backed(Reconciled(View(c)))
BY ViewOK, ReconciledOK

\* A transaction without a debit.
LEMMA EndsWithoutDebit ==
  ASSUME IInv, NEW c \in Calls, NEW k \in Keys, NEW at \in {"admit", "open"},
         Ends(c, k, Reconciled(View(c)), at, {}),
         UNCHANGED <<window, usage, answers>>, charged' \in [Keys -> Charges],
         hold' \in [Keys -> Holds],
         \A j \in Keys : hold'[j].status = "SETTLED" => j \in audits
  PROVE  IInv'
<1>1. Reconciled(View(c)) \in Wallets /\ Backed(Reconciled(View(c)))
  BY ReconciledViewOK
<1>2. /\ wallet' \in Wallets /\ Backed(wallet')
      /\ orgLock' \in Calls \cup {None} /\ audits' = audits
      /\ \E t : Audits(c, t, {}) /\ call' = [call EXCEPT ![c] = t]
  <2> DEFINE w == Reconciled(View(c))
  <2> HIDE DEF w
  <2>1. w \in Wallets /\ Backed(w) /\ Ends(c, k, w, at, {})
    BY <1>1 DEF w
  <2>2. {} \in SUBSET Keys
    OBVIOUS
  <2>3. /\ wallet' \in Wallets /\ Backed(wallet')
        /\ orgLock' \in Calls \cup {None}
        /\ audits \subseteq audits' /\ audits' \subseteq audits \cup {}
        /\ \E t : Audits(c, t, {}) /\ call' = [call EXCEPT ![c] = t]
    BY <2>1, <2>2, EndsOK
  <2> QED
    BY <2>3
<1>3. PICK t : Audits(c, t, {}) /\ call' = [call EXCEPT ![c] = t]
  BY <1>2
<1>4. Rests(c, t)
  BY <1>3 DEF Audits, Rests
<1>5. ThreadsOK' /\ Attempted' /\ AnsweredOnce' /\ Audited' /\ Alone'
  BY <1>2, <1>3, <1>4, ThreadRests
<1> QED
  BY <1>2, <1>5 DEF IInv, TypeOK, WalletsBacked, SettledAudited, ThreadsOK

\* invoke answers from the audit.
LEMMA EnterReplayStep ==
  ASSUME IInv, NEW c \in Calls, NEW k \in Keys, EnterReplay(c, k)
  PROVE  IInv'
<1>1. /\ hold' \in [Keys -> Holds]
      /\ \A j \in Keys : hold'[j].status = "SETTLED" => j \in audits
  BY DEF EnterReplay, IInv, TypeOK, SettledAudited
<1> QED
  BY <1>1, EndsWithoutDebit DEF EnterReplay, IInv, TypeOK

\* invoke passes the plan and the cheap balance check.
LEMMA EnterStep ==
  ASSUME IInv, NEW c \in Calls, NEW k \in Keys, Enter(c, k)
  PROVE  IInv'
<1>1. /\ hold' \in [Keys -> Holds]
      /\ \A j \in Keys : hold'[j].status = "SETTLED" => j \in audits
  BY DEF Enter, IInv, TypeOK, SettledAudited
<1>2. charged' \in [Keys -> Charges]
  BY OpenedOK DEF Enter, IInv, TypeOK
<1> QED
  BY <1>1, <1>2, EndsWithoutDebit DEF Enter

\* The debit: the thread was alone with its key, whose attempt succeeded.
LEMMA SettleStep ==
  ASSUME IInv, NEW c \in Calls, Settle(c)
  PROVE  IInv'
<1> DEFINE k == call[c].key
           w == Reconciled(View(c))
<1>1. /\ call[c].at = "settle" /\ k \in Keys /\ usage[k].last = "SUCCEEDED"
      /\ UNCHANGED <<window, usage, answers, charged>>
  BY DEF IInv, TypeOK, Attempted, Settle
<1>2. w \in Wallets /\ Backed(w)
  BY ReconciledViewOK
<1>3. CASE Replay(c, k)
  <2>1. /\ hold' \in [Keys -> Holds]
        /\ \A j \in Keys : hold'[j].status = "SETTLED" => j \in audits
    BY <1>1, <1>3, WithoutDebitOK DEF Settle
  <2>2. Ends(c, k, Reconciled(View(c)), "open", {})
    BY <1>3 DEF Settle
  <2> QED
    BY <1>1, <2>1, <2>2, EndsWithoutDebit DEF IInv, TypeOK
<1>4. CASE ~ Replay(c, k)
  <2> DEFINE v == Debited(w)
  <2>1. CanPay(w)
    BY <1>4 DEF Settle
  <2>2. v \in Wallets /\ Backed(v)
    BY <1>2, <2>1, DebitedOK
  <2>3. /\ Ends(c, k, v, "open", {k})
        /\ hold' = IF k \in Nested THEN hold ELSE Settled({k})
    BY <1>4 DEF Settle
  <2> HIDE DEF v, w
  <2>4. {k} \in SUBSET Keys
    BY <1>1
  <2>5. /\ wallet' \in Wallets /\ Backed(wallet')
        /\ orgLock' \in Calls \cup {None}
        /\ audits \subseteq audits' /\ audits' \subseteq audits \cup {k}
        /\ k \notin Nested => audits' = audits \cup {k}
        /\ \E t : Audits(c, t, {k}) /\ call' = [call EXCEPT ![c] = t]
    BY <1>1, <2>2, <2>3, <2>4, EndsOK
  <2>6. PICK t : Audits(c, t, {k}) /\ call' = [call EXCEPT ![c] = t]
    BY <2>5
  <2>7. hold' \in [Keys -> Holds] /\ SettledAudited'
    <3>1. CASE k \in Nested
      BY <2>3, <2>5, <3>1 DEF IInv, TypeOK, SettledAudited
    <3>2. CASE k \notin Nested
      BY <2>3, <2>4, <2>5, <3>2, SettledOK DEF SettledAudited
    <3> QED
      BY <3>1, <3>2
  <2>8. ThreadsOK'
    BY <2>6 DEF IInv, TypeOK, WalletsBacked, ThreadsOK, Audits
  <2>9. Attempted'
    BY <1>1, <2>6 DEF IInv, TypeOK, Attempted, Exchanging, Audits
  <2>10. Audited'
    BY <1>1, <2>5, <2>6 DEF IInv, TypeOK, Audited, Audits
  <2>11. Alone'
    BY <1>1, <2>5, <2>6 DEF IInv, TypeOK, Alone, Exchanging, Audits
  <2> QED
    BY <1>1, <2>5, <2>7, <2>8, <2>9, <2>10, <2>11
    DEF IInv, TypeOK, WalletsBacked, ThreadsOK, AnsweredOnce
<1> QED
  BY <1>3, <1>4
-----------------------------------------------------------------------------
(* The exchange                                                            *)

\* usage.begin starts an attempt only where nothing runs, succeeded or was
\* charged: no other thread is in the exchange and nothing is audited.
LEMMA BeginStep ==
  ASSUME IInv, NEW c \in Calls, Begin(c)
  PROVE  IInv'
<1> DEFINE k == call[c].key
           t == [call[c] EXCEPT !.at = "provider"]
           u == [usage[k] EXCEPT !.last = "RUNNING"]
<1>1. /\ call[c] \in Threads /\ k \in Keys /\ Backed(call[c].draft)
      /\ usage[k] \in Usages /\ usage[k].last \in {"NONE", "FAILED"}
      /\ UNCHANGED <<window, wallet, hold, audits, orgLock, answers, charged>>
  BY DEF IInv, TypeOK, WalletsBacked, Begin, MayBegin
<1>2. t \in Threads /\ t.at = "provider" /\ t.key = k
      /\ t.staged = call[c].staged /\ t.draft = call[c].draft
  BY <1>1, MovesOK DEF Phases
<1>3. u \in Usages /\ u.last = "RUNNING"
  BY <1>1 DEF Usages
<1>4. call' = [call EXCEPT ![c] = t] /\ usage' = [usage EXCEPT ![k] = u]
  BY DEF Begin, Goto
<1> HIDE DEF t, u
<1>5. TypeOK' /\ WalletsBacked' /\ SettledAudited'
  BY <1>1, <1>2, <1>3, <1>4 DEF IInv, TypeOK, WalletsBacked, SettledAudited
<1>6. Attempted'
  BY <1>1, <1>2, <1>3, <1>4 DEF IInv, TypeOK, Attempted, AnsweredOnce
<1>7. AnsweredOnce'
  BY <1>1, <1>3, <1>4 DEF IInv, TypeOK, AnsweredOnce
<1>8. Audited'
  BY <1>1, <1>2, <1>3, <1>4 DEF IInv, TypeOK, Audited
<1>9. Alone'
  BY <1>1, <1>2, <1>4 DEF IInv, TypeOK, Alone, Attempted, Audited, Exchanging
<1> QED
  BY <1>5, <1>6, <1>7, <1>8, <1>9 DEF IInv

\* The provider answers the one attempt that runs.
LEMMA ProviderEndsStep ==
  ASSUME IInv, NEW c \in Calls, ProviderEnds(c)
  PROVE  IInv'
<1> DEFINE k == call[c].key
<1>1. /\ call[c] \in Threads /\ k \in Keys /\ Backed(call[c].draft)
      /\ call[c].at = "provider" /\ usage[k].last = "RUNNING"
      /\ answers \in [Keys -> Nat] /\ answers[k] = 0
      /\ UNCHANGED <<window, wallet, hold, usage, audits, orgLock>>
  BY DEF IInv, TypeOK, WalletsBacked, Attempted, ProviderEnds
<1>2. PICK o \in Outcomes :
        /\ call' = [call EXCEPT ![c] =
             [call[c] EXCEPT !.at = "finish", !.outcome = o]]
        /\ answers' = [answers EXCEPT ![k] =
             IF o \in Answered THEN answers[k] + 1 ELSE answers[k]]
        /\ charged' = CASE o \in Answered -> Charge(k, "ONCE")
                        [] o = "timeout"  -> Charge(k, Standing(c, k))
                        [] OTHER          -> charged
  BY DEF ProviderEnds
<1> DEFINE t == [call[c] EXCEPT !.at = "finish", !.outcome = o]
           n == IF o \in Answered THEN 1 ELSE 0
           C == [answers EXCEPT ![k] = n]
<1>3. t \in Threads /\ t.at = "finish" /\ t.key = k /\ t.outcome = o
      /\ t.staged = call[c].staged /\ t.draft = call[c].draft
  BY <1>1 DEF Threads, Phases
<1>4. n \in {0, 1} /\ C \in [Keys -> Nat]
  BY <1>1
<1>5. call' = [call EXCEPT ![c] = t] /\ answers' = C
  BY <1>1, <1>2
<1>6. C[k] = n /\ \A j \in Keys \ {k} : C[j] = answers[j]
  BY <1>1
<1>7. n = IF o \in Answered THEN 1 ELSE 0
  OBVIOUS
<1> HIDE DEF t, n, C
<1>8. answers' \in [Keys -> Nat] /\ answers' = C
  BY <1>4, <1>5
<1>a. charged' \in [Keys -> Charges]
  <2>1. Standing(c, k) \in {"ONCE", "OPEN"}
    BY DEF Standing
  <2>2. /\ Charge(k, "ONCE") \in [Keys -> Charges]
        /\ Charge(k, Standing(c, k)) \in [Keys -> Charges]
        /\ charged \in [Keys -> Charges]
    BY <1>1, <2>1, ChargeOK DEF IInv, TypeOK
  <2> QED
    BY <1>2, <2>2
<1>9. TypeOK' /\ WalletsBacked' /\ SettledAudited'
  BY <1>1, <1>3, <1>5, <1>8, <1>a
  DEF IInv, TypeOK, WalletsBacked, SettledAudited
<1>10. Attempted'
  BY <1>1, <1>3, <1>5, <1>6, <1>7, <1>8
  DEF IInv, TypeOK, Attempted, Alone, Exchanging
<1>11. AnsweredOnce'
  BY <1>1, <1>4, <1>6, <1>8 DEF IInv, TypeOK, AnsweredOnce
<1>12. Audited'
  BY <1>1, <1>3, <1>5 DEF IInv, TypeOK, Audited
<1>13. Alone'
  BY <1>1, <1>3, <1>5 DEF IInv, TypeOK, Alone, Exchanging
<1> QED
  BY <1>9, <1>10, <1>11, <1>12, <1>13 DEF IInv

\* usage.finish records what the provider said, so that the row tells a charged
\* key from one that may be attempted again.
LEMMA UsageFinishStep ==
  ASSUME IInv, NEW c \in Calls, UsageFinish(c)
  PROVE  IInv'
<1> DEFINE k == call[c].key
           o == call[c].outcome
           at == IF o = "ok" THEN "settle" ELSE "release"
           t == [call[c] EXCEPT !.at = at]
           u == Finished(usage[k], o)
<1>1. /\ call[c] \in Threads /\ k \in Keys /\ Backed(call[c].draft)
      /\ call[c].at = "finish" /\ usage[k].last = "RUNNING"
      /\ usage[k] \in Usages /\ o \in Outcomes
      /\ answers[k] = IF o \in Answered THEN 1 ELSE 0
      /\ UNCHANGED <<window, wallet, hold, audits, orgLock, answers, charged>>
  BY DEF IInv, TypeOK, WalletsBacked, Attempted, UsageFinish
<1>2. at \in Phases /\ (at = "settle" <=> o = "ok")
      /\ at \in {"settle", "release"}
  BY DEF Phases
<1>3. call' = [call EXCEPT ![c] = t] /\ usage' = [usage EXCEPT ![k] = u]
  BY <1>1 DEF UsageFinish, Goto
<1>4. u \in Usages
  BY <1>1 DEF Finished, Usages
<1>5. /\ o = "ok" => u.last = "SUCCEEDED"
      /\ u.last \in {"NONE", "FAILED"} => answers[k] = 0
      /\ u.last = "SUCCEEDED" => answers[k] = 1
  BY <1>1 DEF Finished, Outcomes, Answered
<1> HIDE DEF u, at, o
<1>6. t \in Threads /\ t.at = at /\ t.key = k
      /\ t.staged = call[c].staged /\ t.draft = call[c].draft
  BY <1>1, <1>2, MovesOK
<1> HIDE DEF t
<1>7. TypeOK' /\ WalletsBacked' /\ SettledAudited'
  BY <1>1, <1>3, <1>4, <1>6 DEF IInv, TypeOK, WalletsBacked, SettledAudited
<1>8. Attempted'
  BY <1>1, <1>2, <1>3, <1>4, <1>5, <1>6
  DEF IInv, TypeOK, Attempted, Alone, Exchanging
<1>9. AnsweredOnce'
  BY <1>1, <1>3, <1>5 DEF IInv, TypeOK, AnsweredOnce
<1>10. Audited'
  BY <1>1, <1>3, <1>6 DEF IInv, TypeOK, Audited, Alone, Exchanging
<1>11. Alone'
  BY <1>1, <1>2, <1>3, <1>6 DEF IInv, TypeOK, Alone, Exchanging
<1> QED
  BY <1>7, <1>8, <1>9, <1>10, <1>11 DEF IInv
-----------------------------------------------------------------------------
(* The invariant holds                                                     *)

\* The opening state.
LEMMA InitIInv == Init => IInv
<1> SUFFICES ASSUME Init PROVE IInv
  OBVIOUS
<1> DEFINE r == Resting("idle")
<1>1. /\ r \in Threads /\ r.at = "idle" /\ r.staged = {} /\ Backed(r.draft)
  BY RestingOK DEF Phases
<1>2. call = [c \in Calls |-> r]
  BY DEF Init
<1> HIDE DEF r
<1>3. wallet \in Wallets /\ Backed(wallet)
  BY NewWalletOK DEF Init
<1>4. /\ hold \in [Keys -> Holds]
      /\ \A k \in Keys : hold[k].status # "SETTLED"
  BY DEF Init, Holds
<1>5. /\ usage \in [Keys -> Usages]
  BY DEF Init, Usages
<1>6. /\ answers \in [Keys -> Nat] /\ \A k \in Keys : answers[k] = 0
      /\ charged \in [Keys -> Charges]
  BY DEF Init, Charges
<1>7. \A k \in Keys : usage[k].last = "NONE"
  BY DEF Init
<1>8. /\ window \in 0 .. MaxWindow /\ audits = {} /\ orgLock = None
  BY AmountAssumption DEF Init
<1> QED
  BY <1>1, <1>2, <1>3, <1>4, <1>5, <1>6, <1>7, <1>8
  DEF IInv, TypeOK, WalletsBacked, Attempted, AnsweredOnce, Audited, Alone,
      SettledAudited, Exchanging

\* Every step preserves it.
LEMMA NextIInv == IInv /\ [Next]_vars => IInv'
<1> SUFFICES ASSUME IInv, [Next]_vars PROVE IInv'
  OBVIOUS
<1>1. CASE UNCHANGED vars
  BY <1>1 DEF vars, IInv, TypeOK, WalletsBacked, Attempted, AnsweredOnce, Audited,
              Alone, SettledAudited
<1>2. ASSUME NEW c \in Calls, Invoke(c) PROVE IInv'
  <2>1. PICK k \in Keys : EnterReplay(c, k) \/ EnterRefused(c, k) \/ Enter(c, k)
    BY <1>2 DEF Invoke
  <2>2. EnterRefused(c, k) => Raise(c)
    BY DEF EnterRefused
  <2> QED
    BY <2>1, <2>2, EnterReplayStep, RaiseStep, EnterStep
<1>3. ASSUME NEW c \in Calls, Waiting(c) PROVE IInv'
  <2>1. AdmitUncertain(c) => Raise(c)
    BY DEF AdmitUncertain
  <2>2. SettleRefused(c) => Raise(c)
    BY DEF SettleRefused
  <2> QED
    BY <1>3, <2>1, <2>2, AdmitReadStep, AdmitReuseStep, RaiseStep,
       HoldFinishStep, SettleStep, ReleaseJobStep
    DEF Waiting, Admit, Finish
<1>4. ASSUME NEW c \in Calls, Working(c) PROVE IInv'
  <2>1. AdmitRefused(c) => Raise(c)
    BY DEF AdmitRefused
  <2>2. Rollback(c) => Raise(c)
    BY DEF Rollback
  <2> QED
    BY <1>4, <2>1, <2>2, AdmitReserveStep, RaiseStep, BeginStep,
       BeginRefusedStep, ProviderEndsStep, UsageFinishStep, CommitStep
    DEF Working, Reserve, Attempt, Leave
<1>5. ASSUME NEW c \in Calls, WriteFails(c) PROVE IInv'
  BY <1>5, WriteFailsStep
<1>6. ASSUME NEW c \in Calls, Crash(c) PROVE IInv'
  BY <1>6, CrashStep
<1> QED
  BY <1>1, <1>2, <1>3, <1>4, <1>5, <1>6, AgeStep, NextWindowStep DEF Next

\* IInv is an invariant of the specification.
LEMMA Invariance == Spec => []IInv
BY InitIInv, NextIInv, PTL DEF Spec

\* Types, for every cost, allowance and window: the balance and its expiring
\* part never go below zero.
THEOREM TypeCorrect == Spec => []TypeOK
BY Invariance, PTL DEF IInv

\* A committed debit has its paid answer, and a settled hold its debit.
THEOREM DebitFollowsAnswer == Spec => []DebitedForAnAnswer
<1>1. IInv => DebitedForAnAnswer
  BY DEF IInv, TypeOK, AnsweredOnce, Audited, SettledAudited, DebitedForAnAnswer
<1> QED
  BY <1>1, Invariance, PTL

\* One thread per key gets from usage.begin to the debit: the replay check of
\* the last transaction of invoke never finds anything.
THEOREM SingleSettler == Spec => []OneSettler
<1>1. IInv => OneSettler
  BY DEF IInv, Alone, Exchanging, OneSettler, Replay
<1> QED
  BY <1>1, Invariance, PTL
-----------------------------------------------------------------------------
(* The charges, on top of IInv.  A key whose attempt may have been charged *)
(* unheard is held back by its RUNNING row, then by the one thread that    *)
(* knows of the timeout, then by the UNCERTAIN hold: no step leaves a gap  *)
(* between them that another thread could pass.                            *)

Fresh(k) == hold[k] = [status |-> "ACTIVE", old |-> FALSE]

\* This thread knows of the timeout of a key that is not OPEN.
Doubts(c) ==
  /\ call[c].at \in {"finish", "release"} /\ call[c].outcome = "timeout"
  /\ call[c].key \in Keys

NotTwice == \A k \in Keys : charged[k] # "TWICE"

\* An attempt is under way only where nothing was charged before.
Unpaid ==
  \A c \in Calls :
    call[c].at = "provider" => charged[call[c].key] \in {"NONE", "OPEN"}

\* Only an answer or a timeout makes a charge.
Explained ==
  \A c \in Calls :
    /\ Doubts(c) => charged[call[c].key] # "NONE"
    /\ call[c].at = "finish" /\ charged[call[c].key] = "ONCE" =>
         call[c].outcome \in Answered \cup {"timeout"}

\* A thread that knows of a timeout has the hold and the key for itself.
Keeper ==
  \A c \in Calls :
    Doubts(c) /\ charged[call[c].key] = "ONCE" =>
      /\ Fresh(call[c].key)
      /\ call[c].at = "release" => usage[call[c].key].last = "FAILED"
      /\ \A d \in Calls :
           d # c /\ call[d].key = call[c].key => call[d].at = "open"

\* A row that would allow another attempt is guarded by that thread, or by the
\* hold it left behind.
Barred ==
  \A k \in Keys :
    charged[k] = "ONCE" /\ usage[k].last \in {"NONE", "FAILED"} =>
      \/ \E c \in Calls : /\ call[c].at = "release" /\ call[c].key = k
                          /\ call[c].outcome = "timeout"
      \/ /\ hold[k].status = "UNCERTAIN"
         /\ \A c \in Calls : call[c].key = k =>
                               call[c].at \notin {"reserve", "begin"}

\* The sweep of an admission under way has no UNCERTAIN or fresh hold.
Sweeping ==
  /\ \A c, d \in Calls :
       call[c].at = "reserve" /\ call[d].at = "reserve" => c = d
  /\ \A c \in Calls : call[c].at = "reserve" =>
       \A j \in call[c].swept : hold[j].status # "UNCERTAIN" /\ ~ Fresh(j)

DInv ==
  /\ NotTwice /\ Unpaid /\ Explained /\ Keeper /\ Barred /\ Sweeping

\* A thread that leaves the exchange, or begins one, frees no key: holds only
\* go from ACTIVE to an end that is not UNCERTAIN, and never that of a keeper.
LEMMA QuietStep ==
  ASSUME IInv, DInv, NEW c \in Calls, NEW t \in Threads,
         call' = [call EXCEPT ![c] = t], usage' = usage,
         t.at \in {"idle", "open", "cleanup", "admit"},
         t.at \in {"idle", "cleanup"} => t.key = None,
         \A j \in Keys : charged'[j] \in {charged[j], "OPEN"},
         Doubts(c) /\ call[c].at = "release" => charged'[call[c].key] # "ONCE",
         t.at = "admit" =>
           \A d \in Calls : Doubts(d) /\ call[d].key = t.key =>
                              charged'[t.key] # "ONCE",
         \A j \in Keys :
           \/ hold'[j] = hold[j]
           \/ /\ hold[j].status = "ACTIVE"
              /\ hold'[j].status \in {"SETTLED", "RELEASED"}
              /\ \A d \in Calls \ {c} : Doubts(d) /\ call[d].key = j =>
                                          charged'[j] # "ONCE"
  PROVE  DInv'
<1> USE DEF DInv
<1>0. /\ call \in [Calls -> Threads] /\ None \notin Keys
      /\ \A d \in Calls : call[d].swept \subseteq Keys
      /\ \A d \in Calls : call[d].at \notin {"idle", "open", "cleanup"} =>
                            call[d].key \in Keys
  BY NullAssumption DEF IInv, TypeOK, Threads
<1>1. /\ call'[c] = t
      /\ \A d \in Calls \ {c} : call'[d] = call[d]
  BY <1>0
<1>2. \A d \in Calls : Doubts(d)' => d # c /\ Doubts(d)
  BY <1>0, <1>1 DEF Doubts
<1>3. NotTwice'
  BY DEF NotTwice
<1>4. Unpaid'
  BY <1>0, <1>1 DEF Unpaid
<1>5. Explained'
  BY <1>0, <1>1, <1>2 DEF Explained, Doubts
<1>6. Keeper'
  <2> SUFFICES ASSUME NEW d \in Calls, Doubts(d)', charged'[call'[d].key] = "ONCE"
               PROVE  /\ Fresh(call[d].key)'
                      /\ call'[d].at = "release" =>
                           usage'[call'[d].key].last = "FAILED"
                      /\ \A e \in Calls :
                           e # d /\ call'[e].key = call'[d].key =>
                             call'[e].at = "open"
    BY DEF Keeper
  <2>1. /\ d # c /\ Doubts(d) /\ call'[d] = call[d] /\ call[d].key \in Keys
        /\ charged[call[d].key] = "ONCE"
    BY <1>1, <1>2 DEF Doubts
  <2>2. /\ Fresh(call[d].key)
        /\ call[d].at = "release" => usage[call[d].key].last = "FAILED"
        /\ \A e \in Calls :
             e # d /\ call[e].key = call[d].key => call[e].at = "open"
    BY <2>1 DEF Keeper
  <2>3. Fresh(call[d].key)'
    BY <2>1, <2>2 DEF Fresh
  <2>4. ASSUME NEW e \in Calls, e # d, call'[e].key = call'[d].key
        PROVE  call'[e].at = "open"
    <3>1. CASE e = c
      BY <1>0, <1>1, <2>1, <2>4, <3>1
    <3>2. CASE e # c
      BY <1>1, <2>1, <2>2, <2>4, <3>2
    <3> QED
      BY <3>1, <3>2
  <2> QED
    BY <2>1, <2>2, <2>3, <2>4
<1>7. Barred'
  <2> SUFFICES ASSUME NEW k \in Keys, charged'[k] = "ONCE",
                      usage'[k].last \in {"NONE", "FAILED"}
               PROVE  \/ \E d \in Calls : /\ call'[d].at = "release"
                                          /\ call'[d].key = k
                                          /\ call'[d].outcome = "timeout"
                      \/ /\ hold'[k].status = "UNCERTAIN"
                         /\ \A d \in Calls : call'[d].key = k =>
                              call'[d].at \notin {"reserve", "begin"}
    BY DEF Barred
  <2>1. charged[k] = "ONCE" /\ usage[k].last \in {"NONE", "FAILED"}
    OBVIOUS
  <2>2. CASE \E d \in Calls : /\ call[d].at = "release" /\ call[d].key = k
                              /\ call[d].outcome = "timeout"
    <3>1. PICK d \in Calls : /\ call[d].at = "release" /\ call[d].key = k
                             /\ call[d].outcome = "timeout"
      BY <2>2
    <3>2. d # c
      BY <3>1 DEF Doubts
    <3> QED
      BY <1>1, <3>1, <3>2
  <2>3. CASE /\ hold[k].status = "UNCERTAIN"
             /\ \A d \in Calls : call[d].key = k =>
                                   call[d].at \notin {"reserve", "begin"}
    BY <1>1, <2>3
  <2> QED
    BY <2>1, <2>2, <2>3 DEF Barred
<1>8. Sweeping'
  BY <1>0, <1>1 DEF Sweeping, Fresh
<1> QED
  BY <1>3, <1>4, <1>5, <1>6, <1>7, <1>8

\* What Opened says of a key whose timeout a thread knows.
LEMMA OpenedDoubts ==
  ASSUME charged \in [Keys -> Charges], NEW S, NEW d \in Calls, Doubts(d),
         call[d].key \in S
  PROVE  Opened(S)[call[d].key] # "ONCE"
BY DEF Opened, Doubtful, Doubts, Charges

\* An exception, a commit or the end of a hold.
LEMMA QuietRaised ==
  ASSUME IInv, DInv, NEW c \in Calls, call' = Raised(c), usage' = usage,
         \A j \in Keys : charged'[j] \in {charged[j], "OPEN"},
         Doubts(c) /\ call[c].at = "release" => charged'[call[c].key] # "ONCE",
         \A j \in Keys :
           \/ hold'[j] = hold[j]
           \/ /\ hold[j].status = "ACTIVE"
              /\ hold'[j].status \in {"SETTLED", "RELEASED"}
              /\ \A d \in Calls \ {c} : Doubts(d) /\ call[d].key = j =>
                                          charged'[j] # "ONCE"
  PROVE  DInv'
<1> DEFINE at == IF call[c].key \in Agent THEN "cleanup" ELSE "idle"
           t == Resting(at)
<1>1. at \in Phases /\ at \in {"cleanup", "idle"}
  BY DEF Phases
<1>2. t \in Threads /\ t.at = at /\ t.key = None
  BY <1>1, RestingOK
<1>3. call' = [call EXCEPT ![c] = t]
  BY DEF Raised
<1> HIDE DEF t, at
<1> QED
  BY <1>1, <1>2, <1>3, QuietStep

\* An exception that the history does not see.
LEMMA DRaise ==
  ASSUME IInv, DInv, NEW c \in Calls, Raise(c), call[c].at # "release"
  PROVE  DInv'
<1>1. /\ call' = Raised(c) /\ usage' = usage
      /\ \A j \in Keys : charged'[j] \in {charged[j], "OPEN"}
      /\ \A j \in Keys : hold'[j] = hold[j]
  BY DEF Raise, Fails
<1> QED
  BY <1>1, QuietRaised

\* A database error.
LEMMA DWriteFails ==
  ASSUME IInv, DInv, NEW c \in Calls, WriteFails(c)
  PROVE  DInv'
<1>0. charged \in [Keys -> Charges]
  BY DEF IInv, TypeOK
<1>1. /\ call' = Raised(c) /\ usage' = usage
      /\ \A j \in Keys : hold'[j] = hold[j]
      /\ charged' = IF call[c].at = "release" THEN Opened({call[c].key})
                                              ELSE charged
  BY DEF WriteFails, Fails
<1>2. \A j \in Keys : charged'[j] \in {charged[j], "OPEN"}
  BY <1>0, <1>1, OpenedOK
<1>3. Doubts(c) /\ call[c].at = "release" => charged'[call[c].key] # "ONCE"
  BY <1>0, <1>1, OpenedDoubts
<1> QED
  BY <1>1, <1>2, <1>3, QuietRaised

\* The process dies.  While it waited for the provider nothing had been charged.
LEMMA DCrash ==
  ASSUME IInv, DInv, NEW c \in Calls, Crash(c)
  PROVE  DInv'
<1> DEFINE t == Resting("idle")
<1>0. /\ charged \in [Keys -> Charges] /\ call \in [Calls -> Threads]
      /\ None \notin Keys
      /\ \A d \in Calls : call[d].at \notin {"idle", "open", "cleanup"} =>
                            call[d].key \in Keys
  BY NullAssumption DEF IInv, TypeOK
<1>1. t \in Threads /\ t.at = "idle" /\ t.key = None
  BY RestingOK DEF Phases
<1>2. /\ call' = [call EXCEPT ![c] = t] /\ usage' = usage /\ hold' = hold
  BY DEF Crash
<1> HIDE DEF t
<1>3. CASE call[c].at # "provider"
  <2>1. charged' = IF call[c].at = "release" THEN Opened({call[c].key})
                                             ELSE charged
    BY <1>3 DEF Crash
  <2>2. \A j \in Keys : charged'[j] \in {charged[j], "OPEN"}
    BY <1>0, <2>1, OpenedOK
  <2>3. Doubts(c) /\ call[c].at = "release" => charged'[call[c].key] # "ONCE"
    BY <1>0, <2>1, OpenedDoubts
  <2> QED
    BY <1>1, <1>2, <2>2, <2>3, QuietStep
<1>4. CASE call[c].at = "provider"
  <2> DEFINE k == call[c].key
  <2>1. /\ k \in Keys /\ charged' = Charge(k, "ONCE")
        /\ charged[k] \in {"NONE", "OPEN"} /\ usage[k].last = "RUNNING"
    BY <1>0, <1>4 DEF Crash, DInv, Unpaid, IInv, Attempted
  <2>2. /\ charged' \in [Keys -> Charges]
        /\ \A j \in Keys \ {k} : charged'[j] = charged[j]
        /\ charged[k] = "NONE" => charged'[k] = "ONCE"
        /\ charged[k] = "OPEN" => charged'[k] = "OPEN"
    BY <1>0, <2>1, ChargeOK
  <2>3. /\ call'[c] = t /\ \A d \in Calls \ {c} : call'[d] = call[d]
    BY <1>0, <1>2
  <2>4. \A d \in Calls : Doubts(d)' => /\ d # c /\ Doubts(d)
                                       /\ charged[call[d].key] # "NONE"
    BY <1>1, <2>3 DEF Doubts, DInv, Explained
  <2>5. \A d \in Calls \ {c} : call[d].at \in {"provider", "finish"} =>
                                 call[d].key # k
    BY <1>4 DEF IInv, Alone, Exchanging
  <2> HIDE DEF k
  <2>6. NotTwice'
    BY <2>1, <2>2 DEF DInv, NotTwice
  <2>7. Unpaid'
    BY <1>0, <1>1, <2>2, <2>3, <2>5 DEF DInv, Unpaid
  <2>8. Explained'
    <3>1. \A d \in Calls : Doubts(d)' => charged'[call'[d].key] # "NONE"
      BY <2>1, <2>2, <2>3, <2>4 DEF Doubts
    <3>2. ASSUME NEW d \in Calls, call'[d].at = "finish",
                 charged'[call'[d].key] = "ONCE"
          PROVE  call'[d].outcome \in Answered \cup {"timeout"}
      <4>1. d # c /\ call'[d] = call[d] /\ call[d].key \in Keys \ {k}
        BY <1>0, <1>1, <2>3, <2>5, <3>2
      <4> QED
        BY <2>2, <3>2, <4>1 DEF DInv, Explained
    <3> QED
      BY <3>1, <3>2 DEF Explained
  <2>9. Keeper'
    <3> SUFFICES ASSUME NEW d \in Calls, Doubts(d)', charged'[call'[d].key] = "ONCE"
                 PROVE  /\ Fresh(call[d].key)'
                        /\ call'[d].at = "release" =>
                             usage'[call'[d].key].last = "FAILED"
                        /\ \A e \in Calls :
                             e # d /\ call'[e].key = call'[d].key =>
                               call'[e].at = "open"
      BY DEF Keeper
    <3>1. /\ d # c /\ Doubts(d) /\ call'[d] = call[d] /\ call[d].key \in Keys
          /\ charged[call[d].key] = "ONCE"
      BY <2>1, <2>2, <2>3, <2>4 DEF Doubts
    <3>2. /\ Fresh(call[d].key)
          /\ call[d].at = "release" => usage[call[d].key].last = "FAILED"
          /\ \A e \in Calls :
               e # d /\ call[e].key = call[d].key => call[e].at = "open"
      BY <3>1 DEF DInv, Keeper
    <3> QED
      BY <1>0, <1>1, <1>2, <2>3, <3>1, <3>2 DEF Fresh
  <2>10. Barred'
    BY <1>1, <1>2, <1>4, <2>1, <2>2, <2>3, <1>0 DEF DInv, Barred
  <2>11. Sweeping'
    BY <1>1, <1>2, <2>3 DEF DInv, Sweeping, Fresh
  <2> QED
    BY <2>6, <2>7, <2>8, <2>9, <2>10, <2>11 DEF DInv
<1> QED
  BY <1>3, <1>4

\* Where Ends leaves its thread.
LEMMA EndsThread ==
  ASSUME IInv, NEW c \in Calls, NEW k \in Keys, NEW w \in Wallets, Backed(w),
         NEW at \in {"admit", "open"}, NEW D \in SUBSET Keys,
         Ends(c, k, w, at, D)
  PROVE  \E t \in Threads : /\ call' = [call EXCEPT ![c] = t]
                            /\ \/ t.at = at /\ t.key = k
                               \/ t.at = "idle" /\ t.key = None
<1>1. at \in Phases /\ "idle" \in Phases
  BY DEF Phases
<1>2. CASE k \in Nested
  <2> DEFINE S == call[c].staged \cup D
             t == [Resting(at) EXCEPT !.key = k, !.draft = w, !.staged = S]
  <2>1. call' = [call EXCEPT ![c] = t]
    BY <1>2 DEF Ends
  <2>2. S \in SUBSET Keys
    BY DEF IInv, TypeOK, Threads
  <2> HIDE DEF S
  <2>3. t \in Threads /\ t.at = at /\ t.key = k /\ t.staged = S /\ Backed(t.draft)
    BY <1>1, <2>2, TransactionOK
  <2> HIDE DEF t
  <2> QED
    BY <2>1, <2>3
<1>3. CASE k \notin Nested /\ at = "open"
  <2> DEFINE t == Resting("idle")
  <2>1. call' = [call EXCEPT ![c] = t]
    BY <1>3 DEF Ends
  <2>2. t \in Threads /\ t.at = "idle" /\ t.key = None
    BY <1>1, RestingOK
  <2> HIDE DEF t
  <2> QED
    BY <2>1, <2>2
<1>4. CASE k \notin Nested /\ at # "open"
  <2> DEFINE t == [Resting(at) EXCEPT !.key = k]
  <2>1. call' = [call EXCEPT ![c] = t]
    BY <1>4 DEF Ends
  <2>2. t \in Threads /\ t.at = at /\ t.key = k
    BY <1>1, ExchangeOK
  <2> HIDE DEF t
  <2> QED
    BY <2>1, <2>2
<1> QED
  BY <1>2, <1>3, <1>4

\* invoke answers from the audit.
LEMMA DEnterReplay ==
  ASSUME IInv, DInv, NEW c \in Calls, NEW k \in Keys, EnterReplay(c, k)
  PROVE  DInv'
<1> DEFINE w == Reconciled(View(c))
<1>1. w \in Wallets /\ Backed(w) /\ Ends(c, k, w, "open", {})
  BY ReconciledViewOK DEF EnterReplay
<1> HIDE DEF w
<1>2. PICK t \in Threads : /\ call' = [call EXCEPT ![c] = t]
                           /\ \/ t.at = "open" /\ t.key = k
                              \/ t.at = "idle" /\ t.key = None
  <2>1. {} \in SUBSET Keys
    OBVIOUS
  <2> QED
    BY <1>1, <2>1, EndsThread
<1>3. /\ usage' = usage /\ charged' = charged /\ hold' = hold
      /\ call[c].at # "release"
  BY DEF EnterReplay, MayInvoke
<1> QED
  BY <1>2, <1>3, QuietStep

\* invoke begins: a timeout that only its thread knows of is OPEN from now on.
LEMMA DEnter ==
  ASSUME IInv, DInv, NEW c \in Calls, NEW k \in Keys, Enter(c, k)
  PROVE  DInv'
<1> DEFINE w == Reconciled(View(c))
<1>0. charged \in [Keys -> Charges]
  BY DEF IInv, TypeOK
<1>1. w \in Wallets /\ Backed(w) /\ Ends(c, k, w, "admit", {})
  BY ReconciledViewOK DEF Enter
<1> HIDE DEF w
<1>2. PICK t \in Threads : /\ call' = [call EXCEPT ![c] = t]
                           /\ \/ t.at = "admit" /\ t.key = k
                              \/ t.at = "idle" /\ t.key = None
  <2>1. {} \in SUBSET Keys
    OBVIOUS
  <2> QED
    BY <1>1, <2>1, EndsThread
<1>3. /\ usage' = usage /\ charged' = Opened({k}) /\ hold' = hold
      /\ call[c].at # "release"
  BY DEF Enter, MayInvoke
<1>4. \A j \in Keys : charged'[j] \in {charged[j], "OPEN"}
  BY <1>0, <1>3, OpenedOK
<1>5. t.at = "admit" =>
        \A d \in Calls : Doubts(d) /\ call[d].key = t.key =>
                           charged'[t.key] # "ONCE"
  BY <1>0, <1>2, <1>3, OpenedDoubts
<1> QED
  BY <1>2, <1>3, <1>4, <1>5, QuietStep

\* The debit: no other thread doubts the key of one that got so far.
LEMMA DSettle ==
  ASSUME IInv, DInv, NEW c \in Calls, Settle(c)
  PROVE  DInv'
<1> DEFINE k == call[c].key
           w == Reconciled(View(c))
<1>1. /\ call[c].at = "settle" /\ k \in Keys /\ k = call[c].key
      /\ UNCHANGED <<usage, charged>> /\ hold \in [Keys -> Holds]
  BY DEF IInv, TypeOK, Settle
<1>2. w \in Wallets /\ Backed(w)
  BY ReconciledViewOK
<1>3. PICK v \in Wallets, D \in SUBSET Keys :
        Backed(v) /\ Ends(c, k, v, "open", D)
  <2>1. CASE Replay(c, k)
    <3>1. Ends(c, k, w, "open", {}) /\ {} \in SUBSET Keys
      BY <2>1 DEF Settle
    <3> QED
      BY <1>2, <3>1
  <2>2. CASE ~ Replay(c, k)
    <3>1. Ends(c, k, Debited(w), "open", {k}) /\ {k} \in SUBSET Keys /\ CanPay(w)
      BY <1>1, <2>2 DEF Settle
    <3>2. Debited(w) \in Wallets /\ Backed(Debited(w))
      BY <1>2, <3>1, DebitedOK
    <3> QED
      BY <3>1, <3>2
  <2> QED
    BY <2>1, <2>2
<1>4. \A j \in Keys :
        \/ hold'[j] = hold[j]
        \/ /\ j = k /\ hold[j].status = "ACTIVE"
           /\ hold'[j].status \in {"SETTLED", "RELEASED"}
  <2>1. CASE Replay(c, k)
    <3>1. hold' = WithoutDebit(k, "replayed")
      BY <2>1 DEF Settle
    <3> QED
      BY <1>1, <3>1 DEF WithoutDebit, Holds
  <2>2. CASE ~ Replay(c, k)
    <3>1. hold' = IF k \in Nested THEN hold ELSE Settled({k})
      BY <2>2 DEF Settle
    <3> QED
      BY <1>1, <3>1 DEF Settled, Holds
  <2> QED
    BY <2>1, <2>2
<1>5. PICK t \in Threads : /\ call' = [call EXCEPT ![c] = t]
                           /\ \/ t.at = "open" /\ t.key = k
                              \/ t.at = "idle" /\ t.key = None
  <2> HIDE DEF k
  <2> QED
    BY <1>1, <1>3, EndsThread
<1>6. \A d \in Calls \ {c} : Doubts(d) /\ call[d].key = k => charged[k] # "ONCE"
  BY <1>1 DEF DInv, Keeper
<1> HIDE DEF k
<1>7. \A j \in Keys : charged'[j] \in {charged[j], "OPEN"}
  BY <1>1
<1>8. \A j \in Keys :
        \/ hold'[j] = hold[j]
        \/ /\ hold[j].status = "ACTIVE"
           /\ hold'[j].status \in {"SETTLED", "RELEASED"}
           /\ \A d \in Calls \ {c} : Doubts(d) /\ call[d].key = j =>
                                       charged'[j] # "ONCE"
  BY <1>1, <1>4, <1>6
<1> QED
  BY <1>1, <1>5, <1>7, <1>8, QuietStep

\* The caller commits: what it staged has succeeded, and is doubted by nobody.
LEMMA DCommit ==
  ASSUME IInv, DInv, NEW c \in Calls, Commit(c)
  PROVE  DInv'
<1>1. /\ call' = Raised(c) /\ UNCHANGED <<usage, charged>>
      /\ call[c].at = "open" /\ hold \in [Keys -> Holds]
      /\ hold' = Settled(call[c].staged)
  BY DEF IInv, TypeOK, Commit
<1>2. \A d \in Calls : Doubts(d) /\ call[d].key \in call[c].staged =>
                         charged[call[d].key] # "ONCE"
  <2> SUFFICES ASSUME NEW d \in Calls, Doubts(d), call[d].key \in call[c].staged,
                      charged[call[d].key] = "ONCE"
               PROVE  FALSE
    OBVIOUS
  <2>1. usage[call[d].key].last = "SUCCEEDED"
    BY DEF IInv, Audited
  <2>2. CASE call[d].at = "finish"
    BY <2>1, <2>2 DEF IInv, Attempted
  <2>3. CASE call[d].at = "release"
    BY <2>1, <2>3 DEF DInv, Keeper
  <2> QED
    BY <2>2, <2>3 DEF Doubts
<1>3. \A j \in Keys :
        \/ hold'[j] = hold[j]
        \/ /\ hold[j].status = "ACTIVE" /\ j \in call[c].staged
           /\ hold'[j].status \in {"SETTLED", "RELEASED"}
  BY <1>1 DEF Settled, Holds
<1>4. \A j \in Keys :
        \/ hold'[j] = hold[j]
        \/ /\ hold[j].status = "ACTIVE"
           /\ hold'[j].status \in {"SETTLED", "RELEASED"}
           /\ \A d \in Calls \ {c} : Doubts(d) /\ call[d].key = j =>
                                       charged'[j] # "ONCE"
  BY <1>1, <1>2, <1>3
<1> QED
  BY <1>1, <1>4, QuietRaised

\* The holds an agent job leaves behind.
LEMMA DReleaseJob ==
  ASSUME IInv, DInv, NEW c \in Calls, ReleaseJob(c)
  PROVE  DInv'
<1> DEFINE t == Resting("idle")
<1>0. /\ charged \in [Keys -> Charges] /\ hold \in [Keys -> Holds]
      /\ Agent \subseteq Keys
  BY KeyAssumption DEF IInv, TypeOK
<1>1. t \in Threads /\ t.at = "idle" /\ t.key = None
  BY RestingOK DEF Phases
<1>2. /\ call' = [call EXCEPT ![c] = t] /\ usage' = usage
      /\ call[c].at = "cleanup" /\ charged' = Opened(Agent)
      /\ hold' = [k \in Keys |-> IF k \in Agent THEN WithoutDebit(k, "rollback")[k]
                                               ELSE hold[k]]
  BY DEF ReleaseJob
<1> HIDE DEF t
<1>3. \A j \in Keys : charged'[j] \in {charged[j], "OPEN"}
  BY <1>0, <1>2, OpenedOK
<1>4. \A j \in Keys :
        \/ hold'[j] = hold[j]
        \/ /\ hold[j].status = "ACTIVE" /\ j \in Agent
           /\ hold'[j].status \in {"SETTLED", "RELEASED"}
  BY <1>0, <1>2 DEF WithoutDebit, Holds
<1>5. \A d \in Calls : Doubts(d) /\ call[d].key \in Agent =>
                         charged'[call[d].key] # "ONCE"
  BY <1>0, <1>2, OpenedDoubts
<1>6. \A j \in Keys :
        \/ hold'[j] = hold[j]
        \/ /\ hold[j].status = "ACTIVE"
           /\ hold'[j].status \in {"SETTLED", "RELEASED"}
           /\ \A d \in Calls \ {c} : Doubts(d) /\ call[d].key = j =>
                                       charged'[j] # "ONCE"
  BY <1>4, <1>5
<1> QED
  BY <1>1, <1>2, <1>3, <1>6, QuietStep

\* The hold takes over from the thread that knew of the timeout.
LEMMA DHoldFinish ==
  ASSUME IInv, DInv, NEW c \in Calls, HoldFinish(c)
  PROVE  DInv'
<1> DEFINE k == call[c].key
           o == call[c].outcome
<1>0. /\ charged \in [Keys -> Charges] /\ hold \in [Keys -> Holds]
      /\ call \in [Calls -> Threads] /\ None \notin Keys
      /\ \A d \in Calls : call[d].swept \subseteq Keys
      /\ \A d \in Calls : call[d].at \notin {"idle", "open", "cleanup"} =>
                            call[d].key \in Keys
  BY NullAssumption DEF IInv, TypeOK, Threads
<1>1. /\ call' = Raised(c) /\ UNCHANGED <<usage, charged>>
      /\ call[c].at = "release" /\ k \in Keys /\ ~ Locked(k)
      /\ hold' = WithoutDebit(k, o)
  BY <1>0 DEF HoldFinish
<1>2. /\ \A j \in Keys \ {k} : hold'[j] = hold[j]
      /\ hold[k].status # "ACTIVE" => hold'[k] = hold[k]
      /\ hold[k].status = "ACTIVE" =>
           hold'[k].status = IF o = "timeout" THEN "UNCERTAIN" ELSE "RELEASED"
  BY <1>0, <1>1 DEF WithoutDebit, Holds
<1>3. \A d \in Calls \ {c} : Doubts(d) /\ call[d].key = k => charged[k] # "ONCE"
  BY <1>1 DEF DInv, Keeper
<1>4. CASE o # "timeout" \/ (charged[k] # "ONCE" /\ hold[k].status # "ACTIVE")
  <2>1. Doubts(c) => charged'[k] # "ONCE"
    BY <1>1, <1>4 DEF Doubts
  <2>2. \A j \in Keys :
          \/ hold'[j] = hold[j]
          \/ /\ hold[j].status = "ACTIVE"
             /\ hold'[j].status \in {"SETTLED", "RELEASED"}
             /\ \A d \in Calls \ {c} : Doubts(d) /\ call[d].key = j =>
                                         charged'[j] # "ONCE"
    BY <1>1, <1>2, <1>3, <1>4
  <2> QED
    BY <1>1, <2>1, <2>2, QuietRaised
<1>5. CASE o = "timeout" /\ (charged[k] = "ONCE" \/ hold[k].status = "ACTIVE")
  <2>0. Doubts(c)
    BY <1>1, <1>5 DEF Doubts
  <2>1. charged[k] = "ONCE" =>
          /\ hold'[k].status = "UNCERTAIN"
          /\ \A d \in Calls : d # c /\ call[d].key = k => call[d].at = "open"
    BY <1>2, <1>5, <2>0 DEF DInv, Keeper, Fresh
  <2>2. hold'[k].status = "UNCERTAIN"
    BY <1>2, <1>5, <2>1
  <2>3. PICK t : Rests(c, t) /\ Raised(c) = [call EXCEPT ![c] = t]
                 /\ t.at \in {"idle", "cleanup"} /\ t.key = None
    <3> DEFINE at == IF k \in Agent THEN "cleanup" ELSE "idle"
    <3>1. at \in Phases /\ at \in {"cleanup", "idle"}
      BY DEF Phases
    <3>2. Rests(c, Resting(at)) /\ Resting(at).at = at /\ Resting(at).key = None
      BY <3>1, RestingOK DEF Rests, Exchanging
    <3>3. Raised(c) = [call EXCEPT ![c] = Resting(at)]
      BY DEF Raised
    <3> HIDE DEF at
    <3> QED
      BY <3>1, <3>2, <3>3
  <2>4. /\ call'[c] = t /\ \A d \in Calls \ {c} : call'[d] = call[d]
    BY <1>0, <1>1, <2>3
  <2>5. \A d \in Calls : Doubts(d)' => d # c /\ Doubts(d)
    BY <2>3, <2>4 DEF Doubts
  <2> HIDE DEF k, o
  <2>6. NotTwice' /\ Unpaid'
    BY <1>1, <2>3, <2>4 DEF DInv, NotTwice, Unpaid
  <2>7. Explained'
    BY <1>1, <2>3, <2>4, <2>5 DEF DInv, Explained
  <2>8. Keeper'
    <3> SUFFICES ASSUME NEW d \in Calls, Doubts(d)', charged'[call'[d].key] = "ONCE"
                 PROVE  /\ Fresh(call[d].key)'
                        /\ call'[d].at = "release" =>
                             usage'[call'[d].key].last = "FAILED"
                        /\ \A e \in Calls :
                             e # d /\ call'[e].key = call'[d].key =>
                               call'[e].at = "open"
      BY DEF Keeper
    <3>1. /\ d # c /\ Doubts(d) /\ call'[d] = call[d] /\ call[d].key \in Keys
          /\ charged[call[d].key] = "ONCE" /\ call[d].key # k
      BY <1>1, <1>3, <2>4, <2>5 DEF Doubts
    <3>2. /\ Fresh(call[d].key)
          /\ call[d].at = "release" => usage[call[d].key].last = "FAILED"
          /\ \A e \in Calls :
               e # d /\ call[e].key = call[d].key => call[e].at = "open"
      BY <3>1 DEF DInv, Keeper
    <3> QED
      BY <1>0, <1>1, <1>2, <2>3, <2>4, <3>1, <3>2 DEF Fresh
  <2>9. Barred'
    <3> SUFFICES ASSUME NEW j \in Keys, charged'[j] = "ONCE",
                        usage'[j].last \in {"NONE", "FAILED"}
                 PROVE  \/ \E d \in Calls : /\ call'[d].at = "release"
                                            /\ call'[d].key = j
                                            /\ call'[d].outcome = "timeout"
                        \/ /\ hold'[j].status = "UNCERTAIN"
                           /\ \A d \in Calls : call'[d].key = j =>
                                call'[d].at \notin {"reserve", "begin"}
      BY DEF Barred
    <3>1. CASE j = k
      BY <1>0, <1>1, <2>1, <2>2, <2>3, <2>4, <3>1
    <3>2. CASE j # k
      <4>1. \/ \E d \in Calls : /\ call[d].at = "release" /\ call[d].key = j
                                /\ call[d].outcome = "timeout"
            \/ /\ hold[j].status = "UNCERTAIN"
               /\ \A d \in Calls : call[d].key = j =>
                                     call[d].at \notin {"reserve", "begin"}
        BY <1>1 DEF DInv, Barred
      <4> QED
        BY <1>0, <1>1, <1>2, <2>3, <2>4, <3>2, <4>1 DEF k
    <3> QED
      BY <3>1, <3>2
  <2>10. Sweeping'
    <3>1. \A d \in Calls : call[d].at = "reserve" => k \notin call[d].swept
      BY <1>1 DEF Locked
    <3> QED
      BY <1>0, <1>2, <2>3, <2>4, <3>1 DEF DInv, Sweeping, Fresh
  <2> QED
    BY <2>6, <2>7, <2>8, <2>9, <2>10 DEF DInv
<1> QED
  BY <1>4, <1>5

\* What every step below uses of the types.
LEMMA Typed ==
  ASSUME IInv
  PROVE  /\ charged \in [Keys -> Charges] /\ hold \in [Keys -> Holds]
         /\ usage \in [Keys -> Usages]
         /\ call \in [Calls -> Threads] /\ None \notin Keys
         /\ \A d \in Calls : call[d].swept \subseteq Keys
         /\ \A d \in Calls : call[d].at \notin {"idle", "open", "cleanup"} =>
                               call[d].key \in Keys
BY NullAssumption DEF IInv, TypeOK, Threads

\* The sweep takes stale holds, which no keeper has and which are not UNCERTAIN.
LEMMA SweptKeeps ==
  ASSUME IInv, NEW S,
         \A j \in S \cap Keys : hold[j].status # "UNCERTAIN" /\ ~ Fresh(j)
  PROVE  \A j \in Keys :
           /\ Fresh(j) => Swept(S)[j] = hold[j]
           /\ hold[j].status = "UNCERTAIN" => Swept(S)[j] = hold[j]
BY DEF Swept, Fresh

\* Stale holds are neither.
LEMMA StaleOld ==
  \A j \in Stale : hold[j].status # "UNCERTAIN" /\ ~ Fresh(j)
BY DEF Stale, Fresh

\* Admission reads: a key with an UNCERTAIN hold does not get past it.
LEMMA DAdmitRead ==
  ASSUME IInv, DInv, NEW c \in Calls, AdmitRead(c)
  PROVE  DInv'
<1> DEFINE S == Stale
           n == wallet.credits
           k == call[c].key
           t == [call[c] EXCEPT !.at = "reserve", !.seen = n, !.swept = S]
<1>1. /\ UNCHANGED <<usage, charged, hold>> /\ call' = [call EXCEPT ![c] = t]
      /\ call[c].at = "admit" /\ ~ Admitting /\ k \in Keys
      /\ Swept(S)[k].status \in {"NONE", "RELEASED"}
  BY Typed DEF AdmitRead
<1>2. t.at = "reserve" /\ t.key = k /\ t.swept = S
  <2> HIDE DEF S, n
  <2> QED
    BY Typed DEF Threads
<1>3. hold[k].status # "UNCERTAIN"
  BY <1>1, StaleOld, SweptKeeps
<1>4. \A j \in S : hold[j].status # "UNCERTAIN" /\ ~ Fresh(j)
  BY StaleOld
<1> HIDE DEF t, S, k, n
<1>5. /\ call'[c] = t /\ \A d \in Calls \ {c} : call'[d] = call[d]
  BY <1>1, Typed
<1>6. \A d \in Calls : Doubts(d)' => d # c /\ Doubts(d)
  BY <1>2, <1>5 DEF Doubts
<1>7. NotTwice' /\ Unpaid'
  BY <1>1, <1>2, <1>5 DEF DInv, NotTwice, Unpaid
<1>8. Explained'
  BY <1>1, <1>2, <1>5, <1>6 DEF DInv, Explained
<1>9. Keeper'
  BY <1>1, <1>2, <1>5, <1>6 DEF DInv, Keeper, Fresh, k
<1>10. Barred'
  BY <1>1, <1>2, <1>3, <1>5 DEF DInv, Barred
<1>11. Sweeping'
  BY <1>1, <1>2, <1>4, <1>5 DEF DInv, Sweeping, Fresh, Admitting
<1> QED
  BY <1>7, <1>8, <1>9, <1>10, <1>11 DEF DInv

\* A thread is admitted to a key, its own hold in place: no keeper has that key.
LEMMA DAdmitted ==
  ASSUME IInv, DInv, NEW c \in Calls, NEW t \in Threads,
         call' = [call EXCEPT ![c] = t], UNCHANGED <<usage, charged>>,
         call[c].at \in {"admit", "reserve"},
         t.at = "begin", t.key = call[c].key,
         \A d \in Calls \ {c} : call[d].at # "reserve",
         \A j \in Keys \ {call[c].key} :
           /\ Fresh(j) => hold'[j] = hold[j]
           /\ hold[j].status = "UNCERTAIN" => hold'[j] = hold[j],
         call[c].at = "admit" => hold[call[c].key].status # "UNCERTAIN"
  PROVE  DInv'
<1> DEFINE k == call[c].key
<1>1. k \in Keys
  BY Typed
<1>2. /\ call'[c] = t /\ \A d \in Calls \ {c} : call'[d] = call[d]
  BY Typed
<1>3. \A d \in Calls : Doubts(d)' => d # c /\ Doubts(d)
  BY <1>2 DEF Doubts
<1>4. \A d \in Calls : Doubts(d) /\ charged[call[d].key] = "ONCE" =>
                         call[d].key # k
  BY DEF DInv, Keeper, Doubts
<1>5. NotTwice' /\ Unpaid'
  BY <1>2 DEF DInv, NotTwice, Unpaid
<1>6. Explained'
  BY <1>2, <1>3 DEF DInv, Explained
<1>7. Keeper'
  <2> SUFFICES ASSUME NEW d \in Calls, Doubts(d)', charged'[call'[d].key] = "ONCE"
               PROVE  /\ Fresh(call[d].key)'
                      /\ call'[d].at = "release" =>
                           usage'[call'[d].key].last = "FAILED"
                      /\ \A e \in Calls :
                           e # d /\ call'[e].key = call'[d].key =>
                             call'[e].at = "open"
    BY DEF Keeper
  <2>1. /\ d # c /\ Doubts(d) /\ call'[d] = call[d] /\ call[d].key \in Keys
        /\ charged[call[d].key] = "ONCE" /\ call[d].key # k
    BY <1>2, <1>3, <1>4 DEF Doubts
  <2>2. /\ Fresh(call[d].key)
        /\ call[d].at = "release" => usage[call[d].key].last = "FAILED"
        /\ \A e \in Calls :
             e # d /\ call[e].key = call[d].key => call[e].at = "open"
    BY <2>1 DEF DInv, Keeper
  <2>3. Fresh(call[d].key)'
    BY <2>1, <2>2 DEF Fresh
  <2> QED
    BY <1>2, <2>1, <2>2, <2>3
<1>8. Barred'
  <2> SUFFICES ASSUME NEW j \in Keys, charged'[j] = "ONCE",
                      usage'[j].last \in {"NONE", "FAILED"}
               PROVE  \/ \E d \in Calls : /\ call'[d].at = "release"
                                          /\ call'[d].key = j
                                          /\ call'[d].outcome = "timeout"
                      \/ /\ hold'[j].status = "UNCERTAIN"
                         /\ \A d \in Calls : call'[d].key = j =>
                              call'[d].at \notin {"reserve", "begin"}
    BY DEF Barred
  <2>1. \/ \E d \in Calls : /\ call[d].at = "release" /\ call[d].key = j
                            /\ call[d].outcome = "timeout"
        \/ /\ hold[j].status = "UNCERTAIN"
           /\ \A d \in Calls : call[d].key = j =>
                                 call[d].at \notin {"reserve", "begin"}
    BY DEF DInv, Barred
  <2>2. CASE j = k
    <3>1. \A d \in Calls : ~ (/\ call[d].at = "release" /\ call[d].key = j
                             /\ call[d].outcome = "timeout")
      BY <1>4, <2>2 DEF Doubts
    <3> QED
      BY <2>1, <2>2, <3>1
  <2>3. CASE j # k
    BY <1>2, <2>1, <2>3
  <2> QED
    BY <2>2, <2>3
<1>9. Sweeping'
  BY <1>2 DEF Sweeping
<1> QED
  BY <1>5, <1>6, <1>7, <1>8, <1>9 DEF DInv

\* Admission to a hold that is there.
LEMMA DAdmitReuse ==
  ASSUME IInv, DInv, NEW c \in Calls, AdmitReuse(c)
  PROVE  DInv'
<1> DEFINE t == [call[c] EXCEPT !.at = "begin"]
<1>1. /\ UNCHANGED <<usage, charged>> /\ call' = [call EXCEPT ![c] = t]
      /\ call[c].at = "admit" /\ ~ Admitting /\ call[c].key \in Keys
      /\ Swept(Stale)[call[c].key].status \in {"ACTIVE", "SETTLED"}
      /\ hold' = Swept(Stale)
  BY Typed DEF AdmitReuse, Goto
<1>2. t \in Threads /\ t.at = "begin" /\ t.key = call[c].key
  BY Typed DEF Threads, Phases
<1>3. \A j \in Keys : /\ Fresh(j) => hold'[j] = hold[j]
                      /\ hold[j].status = "UNCERTAIN" => hold'[j] = hold[j]
  BY <1>1, StaleOld, SweptKeeps
<1>4. hold[call[c].key].status # "UNCERTAIN"
  BY <1>1, <1>3
<1>5. \A d \in Calls \ {c} : call[d].at # "reserve"
  BY <1>1 DEF Admitting
<1> HIDE DEF t
<1> QED
  BY <1>1, <1>2, <1>3, <1>4, <1>5, DAdmitted

\* Admission with a new hold.
LEMMA DAdmitReserve ==
  ASSUME IInv, DInv, NEW c \in Calls, AdmitReserve(c)
  PROVE  DInv'
<1> DEFINE t == [call[c] EXCEPT !.at = "begin", !.seen = 0, !.swept = {}]
           S == call[c].swept
           k == call[c].key
           h == [status |-> "ACTIVE", old |-> FALSE]
<1>1. /\ UNCHANGED <<usage, charged>> /\ call' = [call EXCEPT ![c] = t]
      /\ call[c].at = "reserve" /\ k \in Keys /\ S \subseteq Keys
      /\ hold' = [Swept(S) EXCEPT ![k] = h]
  BY Typed DEF AdmitReserve
<1>2. t \in Threads /\ t.at = "begin" /\ t.key = k
  BY Typed DEF Threads, Phases
<1>3. \A j \in S : hold[j].status # "UNCERTAIN" /\ ~ Fresh(j)
  BY <1>1 DEF DInv, Sweeping
<1>4. \A j \in Keys : /\ Fresh(j) => Swept(S)[j] = hold[j]
                      /\ hold[j].status = "UNCERTAIN" => Swept(S)[j] = hold[j]
  BY <1>3, SweptKeeps
<1>5. \A j \in Keys \ {k} : hold'[j] = Swept(S)[j]
  BY <1>1, SweptOK
<1>6. \A d \in Calls \ {c} : call[d].at # "reserve"
  BY <1>1 DEF DInv, Sweeping
<1> HIDE DEF t, S, h
<1> QED
  BY <1>1, <1>2, <1>4, <1>5, <1>6, DAdmitted

\* A thread moves on inside the exchange; holds and charges stay.
LEMMA MovesTo ==
  ASSUME IInv, NEW c \in Calls, NEW t, call' = [call EXCEPT ![c] = t]
  PROVE  /\ call'[c] = t /\ \A d \in Calls \ {c} : call'[d] = call[d]
BY Typed

\* usage.begin: the key is charged by nobody yet, or OPEN.
LEMMA DBegin ==
  ASSUME IInv, DInv, NEW c \in Calls, Begin(c)
  PROVE  DInv'
<1> DEFINE k == call[c].key
           t == [call[c] EXCEPT !.at = "provider"]
           u == [usage[k] EXCEPT !.last = "RUNNING"]
<1>1. /\ UNCHANGED <<hold, charged>> /\ call[c].at = "begin" /\ k \in Keys
      /\ call' = [call EXCEPT ![c] = t] /\ usage' = [usage EXCEPT ![k] = u]
      /\ usage[k].last \in {"NONE", "FAILED"}
  BY Typed DEF Begin, MayBegin, Goto
<1>2. t.at = "provider" /\ t.key = k /\ u.last = "RUNNING"
  BY <1>1, Typed DEF Threads, Usages
<1>3. /\ usage'[k].last = "RUNNING" /\ \A j \in Keys \ {k} : usage'[j] = usage[j]
  BY <1>1, <1>2, Typed
<1> HIDE DEF t, u
<1>4. /\ call'[c] = t /\ \A d \in Calls \ {c} : call'[d] = call[d]
  BY <1>1, MovesTo
<1>5. \A d \in Calls : Doubts(d) /\ charged[call[d].key] = "ONCE" =>
                         call[d].key # k
  BY <1>1 DEF DInv, Keeper, Doubts
<1>6. charged[k] \in {"NONE", "OPEN"}
  <2>1. charged[k] \in Charges /\ charged[k] # "TWICE"
    BY <1>1, Typed DEF DInv, NotTwice
  <2>2. ~ \E d \in Calls : /\ call[d].at = "release" /\ call[d].key = k
                           /\ call[d].outcome = "timeout" /\ charged[k] = "ONCE"
    BY <1>1, <1>5 DEF Doubts
  <2>3. charged[k] # "ONCE"
    BY <1>1, <2>2 DEF DInv, Barred
  <2> QED
    BY <2>1, <2>3 DEF Charges
<1>7. \A d \in Calls : Doubts(d)' => d # c /\ Doubts(d)
  BY <1>2, <1>4 DEF Doubts
<1> HIDE DEF k
<1>8. NotTwice' /\ Unpaid'
  BY <1>1, <1>2, <1>4, <1>6 DEF DInv, NotTwice, Unpaid
<1>9. Explained'
  BY <1>1, <1>2, <1>4, <1>7 DEF DInv, Explained
<1>10. Keeper'
  <2> SUFFICES ASSUME NEW d \in Calls, Doubts(d)', charged'[call'[d].key] = "ONCE"
               PROVE  /\ Fresh(call[d].key)'
                      /\ call'[d].at = "release" =>
                           usage'[call'[d].key].last = "FAILED"
                      /\ \A e \in Calls :
                           e # d /\ call'[e].key = call'[d].key =>
                             call'[e].at = "open"
    BY DEF Keeper
  <2>1. /\ d # c /\ Doubts(d) /\ call'[d] = call[d] /\ call[d].key \in Keys
        /\ charged[call[d].key] = "ONCE" /\ call[d].key # k
    BY <1>1, <1>4, <1>5, <1>7 DEF Doubts
  <2>2. /\ Fresh(call[d].key)
        /\ call[d].at = "release" => usage[call[d].key].last = "FAILED"
        /\ \A e \in Calls :
             e # d /\ call[e].key = call[d].key => call[e].at = "open"
    BY <2>1 DEF DInv, Keeper
  <2> QED
    BY <1>1, <1>2, <1>3, <1>4, <2>1, <2>2 DEF Fresh
<1>11. Barred'
  BY <1>1, <1>2, <1>3, <1>4 DEF DInv, Barred
<1>12. Sweeping'
  BY <1>1, <1>2, <1>4 DEF DInv, Sweeping, Fresh
<1> QED
  BY <1>8, <1>9, <1>10, <1>11, <1>12 DEF DInv

\* usage.begin refuses.
LEMMA DBeginRefused ==
  ASSUME IInv, DInv, NEW c \in Calls, BeginRefused(c)
  PROVE  DInv'
<1> DEFINE t == [call[c] EXCEPT !.at = "release", !.outcome = "refused"]
<1>1. /\ UNCHANGED <<hold, charged, usage>> /\ call[c].at = "begin"
      /\ call' = [call EXCEPT ![c] = t]
  BY DEF BeginRefused
<1>2. t.at = "release" /\ t.key = call[c].key /\ t.outcome = "refused"
  BY Typed DEF Threads
<1> HIDE DEF t
<1>3. /\ call'[c] = t /\ \A d \in Calls \ {c} : call'[d] = call[d]
  BY <1>1, MovesTo
<1>4. \A d \in Calls : Doubts(d)' => d # c /\ Doubts(d)
  BY <1>2, <1>3 DEF Doubts
<1>5. NotTwice' /\ Unpaid'
  BY <1>1, <1>2, <1>3 DEF DInv, NotTwice, Unpaid
<1>6. Explained'
  BY <1>1, <1>2, <1>3, <1>4 DEF DInv, Explained
<1>7. Keeper'
  BY <1>1, <1>2, <1>3, <1>4 DEF DInv, Keeper, Fresh
<1>8. Barred'
  BY <1>1, <1>2, <1>3 DEF DInv, Barred
<1>9. Sweeping'
  BY <1>1, <1>2, <1>3 DEF DInv, Sweeping, Fresh
<1> QED
  BY <1>5, <1>6, <1>7, <1>8, <1>9 DEF DInv

\* The provider answers, fails or is not heard of again.
LEMMA DProviderEnds ==
  ASSUME IInv, DInv, NEW c \in Calls, ProviderEnds(c)
  PROVE  DInv'
<1> DEFINE k == call[c].key
<1>1. /\ UNCHANGED <<hold, usage>> /\ call[c].at = "provider" /\ k \in Keys
      /\ charged[k] \in {"NONE", "OPEN"} /\ usage[k].last = "RUNNING"
  BY Typed DEF ProviderEnds, DInv, Unpaid, IInv, Attempted
<1>2. PICK o \in Outcomes :
        /\ call' = [call EXCEPT ![c] =
             [call[c] EXCEPT !.at = "finish", !.outcome = o]]
        /\ charged' = CASE o \in Answered -> Charge(k, "ONCE")
                        [] o = "timeout"  -> Charge(k, Standing(c, k))
                        [] OTHER          -> charged
  BY DEF ProviderEnds
<1> DEFINE t == [call[c] EXCEPT !.at = "finish", !.outcome = o]
<1>3. t.at = "finish" /\ t.key = k /\ t.outcome = o
  BY Typed DEF Threads
<1>4. /\ \A j \in Keys \ {k} : charged'[j] = charged[j]
      /\ charged'[k] \in {"NONE", "ONCE", "OPEN"}
      /\ charged[k] = "OPEN" => charged'[k] = "OPEN"
      /\ charged'[k] = "ONCE" => o \in Answered \cup {"timeout"}
      /\ o = "timeout" => charged'[k] # "NONE"
      /\ o = "timeout" /\ charged'[k] = "ONCE" => Fresh(k) /\ ~ Shared(c, k)
  <2>1. Standing(c, k) \in {"ONCE", "OPEN"}
        /\ (Standing(c, k) = "ONCE" => Fresh(k) /\ ~ Shared(c, k))
    BY DEF Standing, Fresh
  <2>2. CASE o \in Answered
    <3>1. charged' = Charge(k, "ONCE") /\ o # "timeout"
      BY <1>2, <2>2 DEF Answered
    <3> QED
      BY <1>1, <2>2, <3>1, ChargeOK, Typed
  <2>3. CASE o = "timeout"
    <3>1. charged' = Charge(k, Standing(c, k))
      BY <1>2, <2>3 DEF Answered
    <3> QED
      BY <1>1, <2>1, <2>3, <3>1, ChargeOK, Typed
  <2>4. CASE o \notin Answered /\ o # "timeout"
    BY <1>1, <1>2, <2>4
  <2> QED
    BY <2>2, <2>3, <2>4
<1>5. call' = [call EXCEPT ![c] = t]
  BY <1>2
<1> HIDE DEF t
<1>6. /\ call'[c] = t /\ \A d \in Calls \ {c} : call'[d] = call[d]
  BY <1>5, MovesTo
<1>7. \A d \in Calls \ {c} : Doubts(d)' => /\ Doubts(d)
                                           /\ charged[call[d].key] # "NONE"
  BY <1>6 DEF Doubts, DInv, Explained
<1>8. \A d \in Calls \ {c} : call[d].at \in {"provider", "finish"} =>
                               call[d].key # k
  BY <1>1 DEF IInv, Alone, Exchanging
<1> HIDE DEF k
<1>9. NotTwice'
  BY <1>4 DEF DInv, NotTwice
<1>10. Unpaid'
  BY <1>3, <1>4, <1>6, <1>8, Typed DEF DInv, Unpaid
<1>11. Explained'
  <2> SUFFICES ASSUME NEW d \in Calls
               PROVE  /\ Doubts(d)' => charged'[call'[d].key] # "NONE"
                      /\ call'[d].at = "finish" /\ charged'[call'[d].key] = "ONCE" =>
                           call'[d].outcome \in Answered \cup {"timeout"}
    BY DEF Explained
  <2>1. CASE d = c
    BY <1>3, <1>4, <1>6, <2>1 DEF Doubts
  <2>2. CASE d # c
    <3>1. call'[d] = call[d]
      BY <1>6, <2>2
    <3>2. Doubts(d)' => charged'[call'[d].key] # "NONE"
      BY <1>1, <1>4, <1>7, <2>2, <3>1 DEF Doubts
    <3>3. call[d].at = "finish" => call[d].key \in Keys \ {k}
      BY <1>8, <2>2, Typed
    <3> QED
      BY <1>4, <3>1, <3>2, <3>3 DEF DInv, Explained
  <2> QED
    BY <2>1, <2>2
<1>12. Keeper'
  <2> SUFFICES ASSUME NEW d \in Calls, Doubts(d)', charged'[call'[d].key] = "ONCE"
               PROVE  /\ Fresh(call[d].key)'
                      /\ call'[d].at = "release" =>
                           usage'[call'[d].key].last = "FAILED"
                      /\ \A e \in Calls :
                           e # d /\ call'[e].key = call'[d].key =>
                             call'[e].at = "open"
    BY DEF Keeper
  <2>1. CASE d = c
    <3>1. o = "timeout" /\ charged'[k] = "ONCE"
      BY <1>3, <1>6, <2>1 DEF Doubts
    <3>2. Fresh(k) /\ \A e \in Calls \ {c} : call[e].key # k
      BY <1>4, <3>1 DEF Shared
    <3> QED
      BY <1>1, <1>3, <1>6, <2>1, <3>2 DEF Fresh
  <2>2. CASE d # c
    <3>1. /\ Doubts(d) /\ call'[d] = call[d] /\ call[d].key \in Keys
          /\ charged[call[d].key] = "ONCE"
      BY <1>1, <1>4, <1>6, <1>7, <2>2 DEF Doubts
    <3>2. call[d].key # k
      BY <1>1, <3>1 DEF k
    <3>3. /\ Fresh(call[d].key)
          /\ call[d].at = "release" => usage[call[d].key].last = "FAILED"
          /\ \A e \in Calls :
               e # d /\ call[e].key = call[d].key => call[e].at = "open"
      BY <3>1 DEF DInv, Keeper
    <3> QED
      BY <1>1, <1>3, <1>6, <2>2, <3>1, <3>2, <3>3 DEF Fresh
  <2> QED
    BY <2>1, <2>2
<1>13. Barred'
  BY <1>1, <1>3, <1>4, <1>6 DEF DInv, Barred
<1>14. Sweeping'
  BY <1>1, <1>3, <1>6 DEF DInv, Sweeping, Fresh
<1> QED
  BY <1>9, <1>10, <1>11, <1>12, <1>13, <1>14 DEF DInv

\* usage.finish: a row that says FAILED is guarded by the thread that wrote it.
LEMMA DUsageFinish ==
  ASSUME IInv, DInv, NEW c \in Calls, UsageFinish(c)
  PROVE  DInv'
<1> DEFINE k == call[c].key
           o == call[c].outcome
           at == IF o = "ok" THEN "settle" ELSE "release"
           t == [call[c] EXCEPT !.at = at]
           u == Finished(usage[k], o)
<1>1. /\ UNCHANGED <<hold, charged>> /\ call[c].at = "finish" /\ k \in Keys
      /\ usage[k].last = "RUNNING" /\ o \in Outcomes
      /\ call' = [call EXCEPT ![c] = t] /\ usage' = [usage EXCEPT ![k] = u]
  BY Typed DEF UsageFinish, IInv, Attempted, Goto
<1>2. /\ at \in {"settle", "release"} /\ (at = "settle" <=> o = "ok")
      /\ u.last \in {"SUCCEEDED", "CHARGED", "FAILED"}
      /\ o = "timeout" => u.last = "FAILED"
      /\ o \in Answered => u.last # "FAILED"
  BY <1>1 DEF Finished, Answered
<1> HIDE DEF at, u
<1>3. t.at = at /\ t.key = k /\ t.outcome = o
  BY Typed DEF Threads
<1>4. /\ usage'[k] = u /\ \A j \in Keys \ {k} : usage'[j] = usage[j]
  BY <1>1, Typed
<1> HIDE DEF t
<1>5. /\ call'[c] = t /\ \A d \in Calls \ {c} : call'[d] = call[d]
  BY <1>1, MovesTo
<1>6. /\ \A d \in Calls : Doubts(d)' => Doubts(d)
      /\ \A d \in Calls : call'[d].key = call[d].key
  BY <1>1, <1>2, <1>3, <1>5 DEF Doubts
<1>7. \A d \in Calls \ {c} : call[d].at \in {"provider", "finish"} =>
                               call[d].key # k
  BY <1>1 DEF IInv, Alone, Exchanging
<1>8. NotTwice' /\ Unpaid'
  BY <1>1, <1>2, <1>3, <1>5 DEF DInv, NotTwice, Unpaid
<1>9. Explained'
  BY <1>1, <1>2, <1>3, <1>5, <1>6 DEF DInv, Explained
<1>10. Keeper'
  <2> SUFFICES ASSUME NEW d \in Calls, Doubts(d)', charged'[call'[d].key] = "ONCE"
               PROVE  /\ Fresh(call[d].key)'
                      /\ call'[d].at = "release" =>
                           usage'[call'[d].key].last = "FAILED"
                      /\ \A e \in Calls :
                           e # d /\ call'[e].key = call'[d].key =>
                             call'[e].at = "open"
    BY DEF Keeper
  <2>1. Doubts(d) /\ charged[call[d].key] = "ONCE" /\ call[d].key \in Keys
    BY <1>1, <1>6 DEF Doubts
  <2>2. /\ Fresh(call[d].key)
        /\ call[d].at = "release" => usage[call[d].key].last = "FAILED"
        /\ \A e \in Calls :
             e # d /\ call[e].key = call[d].key => call[e].at = "open"
    BY <2>1 DEF DInv, Keeper
  <2>3. d # c => call[d].key # k
    BY <1>1, <2>2
  <2>4. Fresh(call[d].key)'
    BY <1>1, <1>6, <2>2 DEF Fresh
  <2>5. CASE d = c
    <3>1. o = "timeout"
      BY <2>1, <2>5 DEF Doubts
    <3> QED
      BY <1>2, <1>3, <1>4, <1>5, <1>6, <2>2, <2>4, <2>5, <3>1
  <2>6. CASE d # c
    BY <1>1, <1>4, <1>5, <1>6, <2>1, <2>2, <2>3, <2>4, <2>6
  <2> QED
    BY <2>5, <2>6
<1>11. Barred'
  <2> SUFFICES ASSUME NEW j \in Keys, charged'[j] = "ONCE",
                      usage'[j].last \in {"NONE", "FAILED"}
               PROVE  \/ \E d \in Calls : /\ call'[d].at = "release"
                                          /\ call'[d].key = j
                                          /\ call'[d].outcome = "timeout"
                      \/ /\ hold'[j].status = "UNCERTAIN"
                         /\ \A d \in Calls : call'[d].key = j =>
                              call'[d].at \notin {"reserve", "begin"}
    BY DEF Barred
  <2>1. CASE j = k
    <3>1. o = "timeout"
      BY <1>1, <1>2, <1>4, <2>1 DEF DInv, Explained
    <3> QED
      BY <1>2, <1>3, <1>5, <2>1, <3>1
  <2>2. CASE j # k
    <3>1. \/ \E d \in Calls : /\ call[d].at = "release" /\ call[d].key = j
                              /\ call[d].outcome = "timeout"
          \/ /\ hold[j].status = "UNCERTAIN"
             /\ \A d \in Calls : call[d].key = j =>
                                   call[d].at \notin {"reserve", "begin"}
      BY <1>1, <1>4, <2>2 DEF DInv, Barred
    <3> QED
      BY <1>1, <1>2, <1>3, <1>5, <2>2, <3>1
  <2> QED
    BY <2>1, <2>2
<1>12. Sweeping'
  BY <1>1, <1>2, <1>3, <1>5 DEF DInv, Sweeping, Fresh
<1> QED
  BY <1>8, <1>9, <1>10, <1>11, <1>12 DEF DInv

\* Time passes over a hold: one that a keeper has makes its key OPEN.
LEMMA DAge ==
  ASSUME IInv, DInv, NEW k \in Keys, Age(k)
  PROVE  DInv'
<1>1. /\ UNCHANGED <<usage, call>> /\ charged' = Opened({k})
      /\ hold[k].status = "ACTIVE"
      /\ hold' = [hold EXCEPT ![k] = [hold[k] EXCEPT !.old = TRUE]]
  BY DEF Age
<1>2. /\ hold'[k].status = "ACTIVE" /\ hold'[k].old
      /\ \A j \in Keys \ {k} : hold'[j] = hold[j]
  BY <1>1, Typed DEF Holds
<1>3. \A j \in Keys : charged'[j] \in {charged[j], "OPEN"}
  BY <1>1, OpenedOK, Typed
<1>4. \A d \in Calls : Doubts(d) /\ call[d].key = k => charged'[k] # "ONCE"
  BY <1>1, OpenedDoubts, Typed
<1>5. \A d \in Calls : Doubts(d)' <=> Doubts(d)
  BY <1>1 DEF Doubts
<1>6. NotTwice'
  BY <1>3 DEF DInv, NotTwice
<1>7. Unpaid' /\ Explained'
  BY <1>1, <1>3, <1>5, Typed DEF DInv, Unpaid, Explained, Doubts
<1>8. Keeper'
  <2> SUFFICES ASSUME NEW d \in Calls, Doubts(d)', charged'[call'[d].key] = "ONCE"
               PROVE  /\ Fresh(call[d].key)'
                      /\ call'[d].at = "release" =>
                           usage'[call'[d].key].last = "FAILED"
                      /\ \A e \in Calls :
                           e # d /\ call'[e].key = call'[d].key =>
                             call'[e].at = "open"
    BY DEF Keeper
  <2>1. /\ Doubts(d) /\ call[d].key \in Keys \ {k}
        /\ charged[call[d].key] = "ONCE"
    BY <1>1, <1>3, <1>4, <1>5 DEF Doubts
  <2> QED
    BY <1>1, <1>2, <2>1 DEF DInv, Keeper, Fresh
<1>9. Barred'
  <2> SUFFICES ASSUME NEW j \in Keys, charged'[j] = "ONCE",
                      usage'[j].last \in {"NONE", "FAILED"}
               PROVE  \/ \E d \in Calls : /\ call'[d].at = "release"
                                          /\ call'[d].key = j
                                          /\ call'[d].outcome = "timeout"
                      \/ /\ hold'[j].status = "UNCERTAIN"
                         /\ \A d \in Calls : call'[d].key = j =>
                              call'[d].at \notin {"reserve", "begin"}
    BY DEF Barred
  <2>1. \/ \E d \in Calls : /\ call[d].at = "release" /\ call[d].key = j
                            /\ call[d].outcome = "timeout"
        \/ /\ hold[j].status = "UNCERTAIN"
           /\ \A d \in Calls : call[d].key = j =>
                                 call[d].at \notin {"reserve", "begin"}
    BY <1>1, <1>3 DEF DInv, Barred
  <2> QED
    BY <1>1, <1>2, <2>1
<1>10. Sweeping'
  BY <1>1, <1>2, Typed DEF DInv, Sweeping, Fresh
<1> QED
  BY <1>6, <1>7, <1>8, <1>9, <1>10 DEF DInv

\* Every step preserves it.
LEMMA NextDInv == IInv /\ DInv /\ [Next]_vars => DInv'
<1> SUFFICES ASSUME IInv, DInv, [Next]_vars PROVE DInv'
  OBVIOUS
<1>1. CASE UNCHANGED <<call, usage, hold, charged>>
  BY <1>1 DEF DInv, NotTwice, Unpaid, Explained, Keeper, Barred, Sweeping,
              Doubts, Fresh
<1>2. ASSUME NEW c \in Calls, Invoke(c) PROVE DInv'
  <2>1. PICK k \in Keys : EnterReplay(c, k) \/ EnterRefused(c, k) \/ Enter(c, k)
    BY <1>2 DEF Invoke
  <2>2. EnterRefused(c, k) => Raise(c) /\ call[c].at # "release"
    BY DEF EnterRefused, MayInvoke
  <2> QED
    BY <2>1, <2>2, DEnterReplay, DRaise, DEnter
<1>3. ASSUME NEW c \in Calls, Waiting(c) PROVE DInv'
  <2>1. AdmitUncertain(c) => Raise(c) /\ call[c].at # "release"
    BY DEF AdmitUncertain
  <2>2. SettleRefused(c) => Raise(c) /\ call[c].at # "release"
    BY DEF SettleRefused
  <2> QED
    BY <1>3, <2>1, <2>2, DAdmitRead, DAdmitReuse, DRaise, DHoldFinish, DSettle,
       DReleaseJob
    DEF Waiting, Admit, Finish
<1>4. ASSUME NEW c \in Calls, Working(c) PROVE DInv'
  <2>1. AdmitRefused(c) => Raise(c) /\ call[c].at # "release"
    BY DEF AdmitRefused
  <2>2. Rollback(c) => Raise(c) /\ call[c].at # "release"
    BY DEF Rollback
  <2> QED
    BY <1>4, <2>1, <2>2, DAdmitReserve, DRaise, DBegin, DBeginRefused,
       DProviderEnds, DUsageFinish, DCommit
    DEF Working, Reserve, Attempt, Leave
<1>5. ASSUME NEW c \in Calls, WriteFails(c) PROVE DInv'
  BY <1>5, DWriteFails
<1>6. ASSUME NEW c \in Calls, Crash(c) PROVE DInv'
  BY <1>6, DCrash
<1>7. CASE NextWindow
  BY <1>1, <1>7 DEF NextWindow
<1> QED
  BY <1>1, <1>2, <1>3, <1>4, <1>5, <1>6, <1>7, DAge DEF Next, vars

\* No answer is bought twice, and no attempt that the provider may have charged
\* unheard is repeated, but for the OPEN keys: usage.begin refuses what runs or
\* was answered, and holds.admit what timed out.
THEOREM ChargedOnce == Spec => []PaidOnce
<1>1. Init => DInv
  <2> SUFFICES ASSUME Init PROVE DInv
    OBVIOUS
  <2> DEFINE r == Resting("idle")
  <2>1. r.at = "idle"
    BY RestingOK DEF Phases
  <2>2. call = [c \in Calls |-> r] /\ charged = [k \in Keys |-> "NONE"]
    BY DEF Init
  <2> HIDE DEF r
  <2> QED
    BY <2>1, <2>2 DEF DInv, NotTwice, Unpaid, Explained, Keeper, Barred, Sweeping,
                      Doubts
<1>2. IInv /\ DInv => PaidOnce
  BY DEF IInv, AnsweredOnce, DInv, NotTwice, PaidOnce
<1> QED
  BY <1>1, <1>2, NextDInv, Invariance, PTL DEF Spec
-----------------------------------------------------------------------------
(* The budget, on top of IInv.  usage.begin adds one attempt to those it   *)
(* counted, usage.finish none: it turns the running one into a finished    *)
(* one that counts, or drops it.                                           *)

WithinBudget == IsFiniteSet(Attempts) /\ Consumed <= Budget

\* What an attempt is.
LEMMA AttemptIs ==
  /\ \A u : u \in Attempts <=>
       \E k \in Keys : u \in {k} \X (1 .. usage[k].counted + Running(k))
  /\ \A u : u \in Attempts' <=>
       \E k \in Keys : u \in {k} \X (1 .. usage'[k].counted + Running(k)')
BY DEF Attempts

\* An attempt of a key is the key with a number.
LEMMA PairOf ==
  ASSUME NEW k, NEW T, NEW u \in {k} \X T
  PROVE  u = <<k, u[2]>> /\ u[2] \in T
OBVIOUS

\* No more attempts cost no more.
LEMMA FewerAttempts ==
  ASSUME WithinBudget, Attempts' \subseteq Attempts
  PROVE  WithinBudget'
<1> DEFINE m == Cardinality(Attempts)
           n == Cardinality(Attempts')
<1>1. IsFiniteSet(Attempts') /\ n <= m /\ n \in Nat /\ m \in Nat
  BY FS_Subset, FS_CardinalityType DEF WithinBudget
<1>2. Cost * m <= Budget /\ Cost \in Nat /\ Budget \in Nat
  BY AmountAssumption DEF WithinBudget, Consumed
<1>3. Consumed' = Cost * n
  BY DEF Consumed
<1> HIDE DEF m, n
<1>4. Cost * n <= Cost * m
  BY <1>1, <1>2
<1>5. Cost * n \in Nat /\ Cost * m \in Nat
  BY <1>1, <1>2
<1> QED
  BY <1>1, <1>2, <1>3, <1>4, <1>5 DEF WithinBudget

\* usage.begin adds the attempt it had room for.
LEMMA BeginWithinBudget ==
  ASSUME IInv, WithinBudget, NEW c \in Calls, Begin(c)
  PROVE  WithinBudget'
<1>0. PICK k \in Keys : k = call[c].key
  BY DEF IInv, TypeOK, Begin
<1> DEFINE new == <<k, usage[k].counted + 1>>
<1>1. /\ usage \in [Keys -> Usages]
      /\ usage' = [usage EXCEPT ![k] = [usage[k] EXCEPT !.last = "RUNNING"]]
      /\ Consumed + Cost <= Budget
  BY <1>0 DEF IInv, TypeOK, Begin, MayBegin
<1>2. \A j \in Keys : usage'[j].counted = usage[j].counted
                      /\ usage[j].counted \in Nat
  BY <1>1 DEF Usages
<1>3. \A j \in Keys : j # k => Running(j)' = Running(j)
  BY <1>1 DEF Running
<1>4. Running(k)' \in {0, 1}
  BY DEF Running
<1>5. Attempts' \subseteq Attempts \cup {new}
  <2> SUFFICES ASSUME NEW u \in Attempts', u # new PROVE u \in Attempts
    OBVIOUS
  <2>1. PICK j \in Keys : u \in {j} \X (1 .. usage'[j].counted + Running(j)')
    BY AttemptIs
  <2>2. CASE j # k
    BY <1>2, <1>3, <2>1, <2>2, AttemptIs
  <2>3. CASE j = k
    <3>1. u = <<k, u[2]>> /\ u[2] \in 1 .. usage'[k].counted + Running(k)'
      BY <2>1, <2>3, PairOf
    <3>2. u[2] # usage[k].counted + 1
      BY <3>1
    <3>3. u[2] \in 1 .. usage[k].counted
      BY <1>1, <1>2, <1>4, <3>1, <3>2
    <3>4. usage[k].counted \in Nat /\ Running(k) \in {0, 1}
      BY <1>1, <1>2 DEF Running
    <3>5. u[2] \in 1 .. usage[k].counted + Running(k)
      BY <3>3, <3>4
    <3> QED
      BY <1>1, <3>1, <3>5, AttemptIs
  <2> QED
    BY <2>2, <2>3
<1> HIDE DEF new
<1> DEFINE m == Cardinality(Attempts)
           n == Cardinality(Attempts')
<1>6. /\ IsFiniteSet(Attempts \cup {new}) /\ m \in Nat
      /\ Cardinality(Attempts \cup {new}) \in {m, m + 1}
  BY FS_AddElement, FS_CardinalityType DEF WithinBudget
<1>7. IsFiniteSet(Attempts') /\ n <= m + 1 /\ n \in Nat
  <2>1. IsFiniteSet(Attempts') /\ n <= Cardinality(Attempts \cup {new})
    BY <1>5, <1>6, FS_Subset
  <2>2. n \in Nat
    BY <2>1, FS_CardinalityType
  <2> QED
    BY <1>6, <2>1, <2>2
<1>8. Cost * m + Cost <= Budget /\ Cost \in Nat /\ Budget \in Nat
      /\ Consumed' = Cost * n
  BY <1>1, AmountAssumption DEF Consumed
<1> HIDE DEF m, n
<1>9. Cost * n <= Cost * (m + 1)
  BY <1>6, <1>7, <1>8
<1>10. Cost * (m + 1) = Cost * m + Cost
  BY <1>6, <1>8
<1>11. Cost * n \in Nat /\ Cost * m \in Nat
  BY <1>6, <1>7, <1>8
<1> QED
  BY <1>7, <1>8, <1>9, <1>10, <1>11 DEF WithinBudget

\* usage.finish keeps the number of the attempt it ends.
LEMMA FinishWithinBudget ==
  ASSUME IInv, WithinBudget, NEW c \in Calls, UsageFinish(c)
  PROVE  WithinBudget'
<1>0. PICK k \in Keys : k = call[c].key
  BY DEF IInv, TypeOK, UsageFinish
<1> DEFINE o == call[c].outcome
           f == Finished(usage[k], o)
<1>1. /\ usage \in [Keys -> Usages] /\ usage[k].last = "RUNNING"
      /\ usage' = [usage EXCEPT ![k] = f]
  BY <1>0 DEF IInv, TypeOK, Attempted, UsageFinish
<1>2. f.counted \in {usage[k].counted, usage[k].counted + 1} /\ f.last # "RUNNING"
  BY DEF Finished
<1>a. usage[k].counted \in Nat
  BY <1>1 DEF Usages
<1> HIDE DEF f
<1>3. \A j \in Keys : j # k => usage'[j] = usage[j] /\ Running(j)' = Running(j)
  BY <1>1 DEF Running
<1>4. /\ Running(k) = 1 /\ Running(k)' = 0
      /\ usage'[k].counted \in {usage[k].counted, usage[k].counted + 1}
      /\ usage[k].counted \in Nat
  BY <1>1, <1>2, <1>a DEF Running
<1>5. Attempts' \subseteq Attempts
  <2> SUFFICES ASSUME NEW u \in Attempts' PROVE u \in Attempts
    OBVIOUS
  <2>1. PICK j \in Keys : u \in {j} \X (1 .. usage'[j].counted + Running(j)')
    BY AttemptIs
  <2>2. CASE j # k
    BY <1>3, <2>1, <2>2, AttemptIs
  <2>3. CASE j = k
    <3>1. u = <<k, u[2]>> /\ u[2] \in 1 .. usage'[k].counted + Running(k)'
      BY <2>1, <2>3, PairOf
    <3>2. u[2] \in 1 .. usage[k].counted + Running(k)
      BY <1>4, <3>1
    <3> QED
      BY <1>1, <3>1, <3>2, AttemptIs
  <2> QED
    BY <2>2, <2>3
<1> QED
  BY <1>5, FewerAttempts

\* Only these two steps touch a usage row.
LEMMA UsageStays ==
  ASSUME [Next]_vars, \A c \in Calls : ~ Begin(c) /\ ~ UsageFinish(c)
  PROVE  usage' = usage
BY DEF Next, vars, Invoke, EnterReplay, EnterRefused, Enter, Waiting, Admit,
       AdmitRead, AdmitReuse, AdmitUncertain, HoldFinish, Finish, Settle,
       SettleRefused, ReleaseJob, Working, Reserve, AdmitReserve, AdmitRefused,
       Attempt, BeginRefused, ProviderEnds, Leave, Commit, Rollback,
       WriteFails, Crash, Raise, Fails, Age, NextWindow

\* Concurrent exchanges together stay within the owner's monthly budget: no
\* interleaving of usage.begin and usage.finish loses an attempt that counts.
THEOREM NeverOverBudget == Spec => []BudgetRespected
<1>1. Init => WithinBudget
  <2> SUFFICES ASSUME Init PROVE WithinBudget
    OBVIOUS
  <2>1. \A k \in Keys : usage[k].counted = 0 /\ Running(k) = 0
    BY DEF Init, Running
  <2>2. Attempts = {}
    BY <2>1, AttemptIs
  <2> QED
    BY <2>2, FS_EmptySet, AmountAssumption DEF WithinBudget, Consumed
<1>2. IInv /\ WithinBudget /\ [Next]_vars => WithinBudget'
  <2> SUFFICES ASSUME IInv, WithinBudget, [Next]_vars PROVE WithinBudget'
    OBVIOUS
  <2>1. CASE \A c \in Calls : ~ Begin(c) /\ ~ UsageFinish(c)
    <3>1. usage' = usage
      BY <2>1, UsageStays
    <3>2. Attempts' = Attempts
      BY <3>1 DEF Attempts, Running
    <3> QED
      BY <3>2, FewerAttempts
  <2> QED
    BY <2>1, BeginWithinBudget, FinishWithinBudget
<1>3. WithinBudget => BudgetRespected
  BY DEF WithinBudget, BudgetRespected
<1> QED
  BY <1>1, <1>2, <1>3, Invariance, PTL DEF Spec
=============================================================================
