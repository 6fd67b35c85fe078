----------------------------- MODULE MailOutbox -----------------------------
(***************************************************************************)
(* A customer's mail from the click to the mail server: the composer and   *)
(* the history of frontend/features/notifications/MailPanels, sealing,     *)
(* dispatch, reconciliation and recovery in notifications/service, and the *)
(* job of at most one attempt that each queueing makes.                    *)
(*                                                                         *)
(* A mail server has no idempotency key.  So a retry of the click reuses   *)
(* the operation key kept in the browser's session, a dispatch is claimed  *)
(* before the server is contacted, and only a person who checked that      *)
(* nothing arrived may send again.                                         *)
(***************************************************************************)
EXTENDS Integers, FiniteSets

CONSTANTS
  Keys,         \* operation keys; one mail_outbox row each
  Watched,      \* bound: the mails followed past their sealing
  Workers,
  None,
  MaxAttempts,  \* bound on dispatches of a mail
  Deaths        \* bound on worker deaths

ASSUME BoundAssumption ==
  /\ MaxAttempts \in Nat \ {0}
  /\ Deaths \in Nat
  /\ None \notin Keys /\ IsFiniteSet(Keys)
  /\ Watched \subseteq Keys

VARIABLES
  composer,   \* PaymentMailComposer
  pending,    \* sessionStorage: the key of a send without an answer
  requests,   \* sends on their way to the server
  intents,    \* sends confirmed while none was unanswered
  mail,       \* mail_outbox
  run,        \* job_runs of mail.deliver, by mail and attempt
  worker,
  accepted,   \* the mail server: the attempts it took, per mail
  checked,    \* attempts that a person found absent, per mail
  void,       \* what a mail announces was withdrawn
  overtaken,  \* mails reconciled while a delivery was still under way
  deaths

clientVars == <<composer, pending, requests, intents>>

serverVars == <<mail, run, worker, accepted, checked, void, overtaken, deaths>>

vars == <<clientVars, serverVars>>

Attempts == 0 .. MaxAttempts

Closed == [key |-> None, busy |-> FALSE, sent |-> FALSE]

Idle == [at |-> "idle", on |-> None, run |-> 0, attempt |-> 0, to |-> "SENT"]

States == {"QUEUED", "DISPATCHING", "SENT", "FAILED", "UNCERTAIN"}

TypeOK ==
  /\ composer \in [key : Keys \cup {None}, busy : BOOLEAN, sent : BOOLEAN]
  /\ composer.key = None => composer = Closed
  /\ pending \in Keys \cup {None}
  /\ requests \subseteq Keys
  /\ intents \in 0 .. Cardinality(Keys)
  /\ mail \in [Keys -> [state : States \cup {"NONE"}, attempt : Attempts]]
  /\ run \in [Keys \X Attempts -> {"none", "queued", "running", "done", "failed"}]
  /\ worker \in [Workers ->
       [at : {"idle", "claimed", "deliver", "finish"}, on : Keys \cup {None},
        run : Attempts, attempt : Attempts, to : States]]
  /\ accepted \in [Keys -> SUBSET Attempts]
  /\ checked \in [Keys -> SUBSET Attempts]
  /\ void \in [Keys -> BOOLEAN]
  /\ overtaken \subseteq Keys
  /\ deaths \in 0 .. Deaths

Init ==
  /\ composer = Closed
  /\ pending = None
  /\ requests = {}
  /\ intents = 0
  /\ mail = [k \in Keys |-> [state |-> "NONE", attempt |-> 0]]
  /\ run = [r \in Keys \X Attempts |-> "none"]
  /\ worker = [w \in Workers |-> Idle]
  /\ accepted = [k \in Keys |-> {}]
  /\ checked = [k \in Keys |-> {}]
  /\ void = [k \in Keys |-> FALSE]
  /\ overtaken = {}
  /\ deaths = 0
-----------------------------------------------------------------------------
(* The composer                                                            *)

\* crypto.randomUUID(): a key nobody has used.
Fresh(k) == mail[k].state = "NONE" /\ k \notin requests /\ k # pending

\* MUTANT: the composer forgets the send it was not answered about.
OpenFresh(k) ==
  /\ composer.key = None
  /\ Fresh(k)
  /\ composer' = [Closed EXCEPT !.key = k]
  /\ UNCHANGED <<pending, requests, intents, serverVars>>

\* The preview is shown: a stored intention for the same recipient and document
\* gives its key, else a new one is drawn.
Open(k) ==
  /\ composer.key = None
  /\ IF pending # None THEN k = pending ELSE Fresh(k)
  /\ composer' = [Closed EXCEPT !.key = k]
  /\ UNCHANGED <<pending, requests, intents, serverVars>>

\* The intention is stored before the request leaves.
Send ==
  /\ composer.key # None
  /\ ~composer.busy /\ ~composer.sent
  /\ pending' = composer.key
  /\ intents' = intents + (IF pending = None THEN 1 ELSE 0)
  /\ requests' = requests \cup {composer.key}
  /\ composer' = [composer EXCEPT !.busy = TRUE]
  /\ UNCHANGED serverVars

\* The request or its answer is lost; a request may still arrive later.
SendFails ==
  /\ composer.busy
  /\ composer' = [composer EXCEPT !.busy = FALSE]
  /\ UNCHANGED <<pending, requests, intents, serverVars>>

\* The panel is closed, or the page is reloaded in the middle of a send.
Reload ==
  /\ composer.key # None
  /\ composer' = Closed
  /\ UNCHANGED <<pending, requests, intents, serverVars>>
-----------------------------------------------------------------------------
(* Sealing                                                                 *)

\* MUTANT: the job is keyed by the mail alone.
QueueJobPerMail(k, n) ==
  run' = [run EXCEPT ![<<k, 0>>] = IF @ \in {"none", "failed"} THEN "queued" ELSE @]

\* _queue_job: keyed by mail and attempt; a finished run is not run again, a
\* failed one is.
QueueJob(k, n) ==
  run' = [run EXCEPT ![<<k, n>>] = IF @ \in {"none", "failed"} THEN "queued" ELSE @]

\* send_payment: a mail that exists is returned as it is, else it is sealed and
\* its job queued.  The answer may be lost.
ServerSend(k) ==
  /\ k \in requests
  /\ requests' = requests \ {k}
  /\ IF mail[k].state = "NONE"
       THEN /\ mail' = [mail EXCEPT ![k].state = "QUEUED"]
            /\ QueueJob(k, 0)
       ELSE UNCHANGED <<mail, run>>
  /\ \/ /\ composer.busy /\ composer.key = k
        /\ composer' = [composer EXCEPT !.busy = FALSE, !.sent = TRUE]
        /\ pending' = IF pending = k THEN None ELSE pending
     \/ UNCHANGED <<composer, pending>>
  /\ UNCHANGED <<intents, worker, accepted, checked, void, overtaken, deaths>>
-----------------------------------------------------------------------------
(* Dispatch                                                                *)

Claim(w, k, n) ==
  /\ k \in Watched
  /\ worker[w].at = "idle"
  /\ run[<<k, n>>] = "queued"
  /\ run' = [run EXCEPT ![<<k, n>>] = "running"]
  /\ worker' = [worker EXCEPT ![w] =
       [Idle EXCEPT !.at = "claimed", !.on = k, !.run = n]]
  /\ UNCHANGED <<clientVars, mail, accepted, checked, void, overtaken, deaths>>

Done(w) ==
  /\ run' = [run EXCEPT ![<<worker[w].on, worker[w].run>>] = "done"]
  /\ worker' = [worker EXCEPT ![w] = Idle]

\* dispatch up to its commit.  A row in another state belongs to somebody else;
\* a failed preflight takes an attempt too, but skips the delivery.
Dispatch(w) ==
  LET k == worker[w].on IN
  /\ worker[w].at = "claimed"
  /\ IF mail[k].state # "QUEUED"
       THEN Done(w) /\ UNCHANGED mail
       ELSE /\ mail' = [mail EXCEPT ![k] = [state   |-> "DISPATCHING",
                                            attempt |-> @.attempt + 1]]
            /\ worker' = [worker EXCEPT
                 ![w].at = IF void[k] THEN "finish" ELSE "deliver",
                 ![w].to = IF void[k] THEN "FAILED" ELSE "SENT",
                 ![w].attempt = mail[k].attempt + 1]
            /\ UNCHANGED run
  /\ UNCHANGED <<clientVars, accepted, checked, void, overtaken, deaths>>

\* adapters.deliver: an error says nothing of whether the server took it.
Deliver(w) ==
  LET k == worker[w].on IN
  /\ worker[w].at = "deliver"
  /\ \E took, replied \in BOOLEAN :
       /\ replied => took
       /\ accepted' = IF took
            THEN [accepted EXCEPT ![k] = @ \cup {worker[w].attempt}]
            ELSE accepted
       /\ worker' = [worker EXCEPT ![w].at = "finish",
            ![w].to = IF replied THEN "SENT" ELSE "UNCERTAIN"]
  /\ UNCHANGED <<clientVars, mail, run, checked, void, overtaken, deaths>>

\* MUTANT: a late worker writes whatever attempt the row is at.
FinishAnyAttempt(w) ==
  LET k == worker[w].on IN
  /\ worker[w].at = "finish"
  /\ mail' = IF mail[k].state = "DISPATCHING"
               THEN [mail EXCEPT ![k].state = worker[w].to]
               ELSE mail
  /\ Done(w)
  /\ UNCHANGED <<clientVars, accepted, checked, void, overtaken, deaths>>

\* _finish: only the attempt that is still under way.
Finish(w) ==
  LET k == worker[w].on IN
  /\ worker[w].at = "finish"
  /\ mail' = IF mail[k].state = "DISPATCHING" /\ mail[k].attempt = worker[w].attempt
               THEN [mail EXCEPT ![k].state = worker[w].to]
               ELSE mail
  /\ Done(w)
  /\ UNCHANGED <<clientVars, accepted, checked, void, overtaken, deaths>>

\* The worker dies and release_stale finds its run with no attempt left.
Die(w) ==
  /\ deaths < Deaths
  /\ worker[w].at # "idle"
  /\ deaths' = deaths + 1
  /\ run' = [run EXCEPT ![<<worker[w].on, worker[w].run>>] = "failed"]
  /\ worker' = [worker EXCEPT ![w] = Idle]
  /\ UNCHANGED <<clientVars, mail, accepted, checked, void, overtaken>>
-----------------------------------------------------------------------------
(* Recovery                                                                *)

Delivering(k) ==
  \E w \in Workers : worker[w].at \in {"deliver", "finish"} /\ worker[w].on = k

\* reconcile_stale, two minutes after the dispatch began, whether or not the
\* delivery goes on.
ReconcileStale(k) ==
  /\ mail[k].state = "DISPATCHING"
  /\ mail' = [mail EXCEPT ![k].state = "UNCERTAIN"]
  /\ overtaken' = IF Delivering(k) THEN overtaken \cup {k} ELSE overtaken
  /\ UNCHANGED <<clientVars, run, worker, accepted, checked, void, deaths>>

\* A person reads the row and makes sure that the mail did not arrive; the
\* request to send again follows when it may.
ConfirmAbsence(k) ==
  /\ mail[k].state \in {"FAILED", "UNCERTAIN"}
  /\ accepted[k] = {}
  /\ checked' = [checked EXCEPT ![k] = @ \cup {mail[k].attempt}]
  /\ UNCHANGED <<clientVars, mail, run, worker, accepted, void, overtaken, deaths>>

\* MUTANT: the attempt that was checked is not compared.
RecoverAnyAttempt(k, n) ==
  /\ n \in checked[k]
  /\ mail[k].state \in {"FAILED", "UNCERTAIN"}
  /\ mail[k].attempt < MaxAttempts
  /\ mail' = [mail EXCEPT ![k].state = "QUEUED"]
  /\ QueueJob(k, mail[k].attempt)
  /\ UNCHANGED <<clientVars, worker, accepted, checked, void, overtaken, deaths>>

\* recover: the row must be at the attempt that was checked.
Recover(k, n) ==
  /\ n \in checked[k]
  /\ mail[k].state \in {"FAILED", "UNCERTAIN"}
  /\ mail[k].attempt = n
  /\ mail[k].attempt < MaxAttempts
  /\ mail' = [mail EXCEPT ![k].state = "QUEUED"]
  /\ QueueJob(k, mail[k].attempt)
  /\ UNCHANGED <<clientVars, worker, accepted, checked, void, overtaken, deaths>>

\* The payment is voided or the quotation's link revoked.
Withdraw(k) ==
  /\ k \in Watched
  /\ mail[k].state # "NONE" /\ ~void[k]
  /\ void' = [void EXCEPT ![k] = TRUE]
  /\ UNCHANGED <<clientVars, mail, run, worker, accepted, checked, overtaken, deaths>>
-----------------------------------------------------------------------------
Step(w) == Dispatch(w) \/ Deliver(w) \/ Finish(w)

Next ==
  \/ Send \/ SendFails \/ Reload
  \/ \E k \in Keys : \/ Open(k) \/ ServerSend(k) \/ ReconcileStale(k)
                     \/ ConfirmAbsence(k) \/ Withdraw(k)
  \/ \E k \in Keys, n \in Attempts : Recover(k, n)
  \/ \E w \in Workers : Step(w) \/ Die(w)
  \/ \E w \in Workers, k \in Keys, n \in Attempts : Claim(w, k, n)

Spec == Init /\ [][Next]_vars

\* Workers keep claiming and stepping, and the history page keeps reconciling.
Fairness ==
  /\ \A w \in Workers : WF_vars(Step(w))
  /\ WF_vars(\E k \in Keys : ReconcileStale(k))
  /\ WF_vars(\E w \in Workers, k \in Keys, n \in Attempts : Claim(w, k, n))

FairSpec == Spec /\ Fairness
-----------------------------------------------------------------------------
(* Properties                                                              *)

\* The intention kept in the session: lost requests, lost answers, repeated
\* clicks and reloads never make more mails than the user confirmed sends.
OneMailPerIntent == Cardinality({k \in Keys : mail[k].state # "NONE"}) <= intents

\* A late worker never speaks for an attempt that is not its own: a row says
\* SENT only if the server took the attempt the row is at, and FAILED only if
\* the server never saw it.
StateIsOfAttempt ==
  \A k \in Keys :
    /\ mail[k].state = "SENT" => mail[k].attempt \in accepted[k]
    /\ mail[k].state = "FAILED" => mail[k].attempt \notin accepted[k]

\* While its deliveries end within the two minutes, a mail that persons only
\* send again after checking is never delivered twice, however stale their page.
DeliveredOnce ==
  \A k \in Keys \ overtaken : Cardinality(accepted[k]) <= 1

\* A sealed or recovered mail reaches an outcome that its user sees, also when
\* a worker dies in the delivery.  The exception is the worker that dies between
\* claiming the job and the commit of dispatch: the job has no second attempt.
MailSettles ==
  \A k \in Watched :
    mail[k].state \in {"QUEUED", "DISPATCHING"} ~>
      \/ mail[k].state \in {"SENT", "FAILED", "UNCERTAIN"}
      \/ mail[k].state = "QUEUED" /\ run[<<k, mail[k].attempt>>] = "failed"
=============================================================================
