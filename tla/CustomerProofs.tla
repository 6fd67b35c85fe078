--------------------------- MODULE CustomerProofs ---------------------------
(***************************************************************************)
(* Proofs about what reaches the customer.  The mail outbox (MailOutbox),  *)
(* for every number of keys, workers, attempts and deaths; then the        *)
(* quotation (Quotation), and the commercial numbers as an instance of     *)
(* Numbering.                                                              *)
(***************************************************************************)
EXTENDS MailOutbox, Quotation, FiniteSetTheorems, TLAPS

MailRows == [state : States \cup {"NONE"}, attempt : Attempts]

RunStates == {"none", "queued", "running", "done", "failed"}

WorkerRows ==
  [at : {"idle", "claimed", "deliver", "finish"}, on : Keys \cup {None},
   run : Attempts, attempt : Attempts, to : States]

(***************************************************************************)
(* The inductive invariant, client side.  A confirmed intention is a key   *)
(* that the session, the network or the outbox knows, and a composer that  *)
(* may begin a new one holds a key that none of them knows.                *)
(***************************************************************************)
ClientOK ==
  /\ composer \in [key : Keys \cup {None}, busy : BOOLEAN, sent : BOOLEAN]
  /\ composer.key = None => composer = Closed
  /\ pending \in Keys \cup {None}
  /\ requests \subseteq Keys

Sealed == {k \in Keys : mail[k].state # "NONE"}

Used == Sealed \cup requests \cup ({pending} \ {None})

Counted == Cardinality(Used) = intents

Intention ==
  /\ composer.busy => composer.key # None /\ pending = composer.key
  /\ composer.key # None /\ pending # None => pending = composer.key
  /\ composer.key # None /\ pending = None /\ ~ composer.sent => composer.key \notin Used

ClientInv == ClientOK /\ Counted /\ Intention

(***************************************************************************)
(* Server side.  An attempt has one worker; what it will write is what the *)
(* mail server did with that attempt; and while no delivery is overtaken,  *)
(* the row follows its worker.                                             *)
(***************************************************************************)
ServerOK ==
  /\ mail \in [Keys -> MailRows]
  /\ run \in [Keys \X Attempts -> RunStates]
  /\ worker \in [Workers -> WorkerRows]
  /\ accepted \in [Keys -> SUBSET Attempts]
  /\ checked \in [Keys -> SUBSET Attempts]
  /\ void \in [Keys -> BOOLEAN]
  /\ overtaken \subseteq Keys
  /\ deaths \in 0 .. Deaths

Active(w) == worker[w].at \in {"deliver", "finish"}

\* A worker past its claim has an attempt of its own, none ahead of the row's.
OwnAttempt ==
  /\ \A w \in Workers : worker[w].at # "idle" => worker[w].on \in Keys
  /\ \A w \in Workers : Active(w) =>
       /\ worker[w].attempt <= mail[worker[w].on].attempt
       /\ mail[worker[w].on].state # "NONE"
  /\ \A v, w \in Workers :
       Active(v) /\ Active(w) /\ worker[v].on = worker[w].on
         /\ worker[v].attempt = worker[w].attempt => v = w

\* The attempts that a row counts, that the mail server took and that somebody
\* checked.
Rows ==
  \A k \in Keys :
    /\ mail[k].state = "NONE" => mail[k].attempt = 0
    /\ mail[k].state = "QUEUED" => mail[k].attempt < MaxAttempts
    /\ \A n \in accepted[k] : n <= mail[k].attempt
    /\ \A n \in checked[k] : n <= mail[k].attempt
    /\ mail[k].state = "DISPATCHING" => mail[k].attempt \notin checked[k]

\* What a worker will write is true of its attempt, and nobody is at work on
\* an attempt that failed.
Outcomes ==
  /\ \A w \in Workers : worker[w].at = "finish" =>
       /\ worker[w].to \in {"SENT", "FAILED", "UNCERTAIN"}
       /\ worker[w].to = "SENT" => worker[w].attempt \in accepted[worker[w].on]
       /\ worker[w].to = "FAILED" => worker[w].attempt \notin accepted[worker[w].on]
  /\ \A k \in Keys : mail[k].state = "FAILED" =>
       \A w \in Workers : Active(w) /\ worker[w].on = k =>
         worker[w].attempt # mail[k].attempt

\* A mail that was never overtaken: its row follows its one worker, and it is
\* sent, or sent again, only while the mail server has nothing of it.
Followed ==
  \A k \in Keys \ overtaken :
    /\ \A w \in Workers : Active(w) /\ worker[w].on = k =>
         /\ mail[k].state = "DISPATCHING" /\ mail[k].attempt = worker[w].attempt
         /\ worker[w].at = "deliver" => accepted[k] = {}
    /\ mail[k].state \in {"NONE", "QUEUED"} => accepted[k] = {}
    /\ mail[k].state \in {"FAILED", "UNCERTAIN"} /\ mail[k].attempt \in checked[k] =>
         accepted[k] = {}
    /\ \A m, n \in accepted[k] : m = n

ServerInv ==
  ServerOK /\ OwnAttempt /\ Rows /\ Outcomes /\ StateIsOfAttempt /\ Followed

IInv == ClientInv /\ ServerInv

-----------------------------------------------------------------------------
(* The client                                                              *)

\* Only as many intentions as keys.
LEMMA UsedFinite ==
  ASSUME ClientOK
  PROVE  /\ Used \subseteq Keys /\ IsFiniteSet(Used)
         /\ Cardinality(Used) \in Nat /\ Cardinality(Used) <= Cardinality(Keys)
         /\ Cardinality(Keys) \in Nat
<1>1. Used \subseteq Keys
  BY DEF ClientOK, Used, Sealed
<1> QED
  BY <1>1, BoundAssumption, FS_Subset, FS_CardinalityType

\* A step of the server that seals and unseals nothing.
LEMMA QuietClient ==
  ASSUME ClientInv, Sealed' = Sealed, UNCHANGED clientVars
  PROVE  ClientInv'
<1> USE DEF ClientInv, clientVars
<1>1. Used' = Used
  BY DEF Used
<1> QED
  BY <1>1 DEF ClientOK, Counted, Intention

\* Opening draws the session's key or one that nothing knows.
LEMMA OpenStep ==
  ASSUME ClientInv, NEW k \in Keys, Open(k)
  PROVE  ClientInv'
<1> USE DEF ClientInv
<1>1. /\ composer'.key = k /\ ~ composer'.busy /\ ~ composer'.sent
      /\ composer' \in [key : Keys \cup {None}, busy : BOOLEAN, sent : BOOLEAN]
  BY DEF Open, Closed
<1>2. k # None /\ UNCHANGED <<pending, requests, intents, mail>>
  BY BoundAssumption DEF Open, serverVars
<1>3. Used' = Used
  BY <1>2 DEF Used, Sealed
<1>4. ClientOK' /\ Counted'
  BY <1>1, <1>2, <1>3 DEF ClientOK, Counted
<1>5. pending = None => k \notin Used
  BY DEF Open, Fresh, Used, Sealed
<1>6. pending # None => k = pending
  BY DEF Open
<1> QED
  BY <1>1, <1>2, <1>3, <1>4, <1>5, <1>6 DEF Intention

\* A send without an unanswered one counts a key that nothing knew.
LEMMA SendStep ==
  ASSUME ClientInv, Send
  PROVE  ClientInv'
<1> USE DEF ClientInv
<1> DEFINE k == composer.key
<1>0. PICK c \in Keys : c = k
  BY DEF Send, ClientOK
<1>1. /\ composer'.key = c /\ composer'.busy /\ composer'.sent = composer.sent
      /\ composer' \in [key : Keys \cup {None}, busy : BOOLEAN, sent : BOOLEAN]
  BY <1>0 DEF Send, ClientOK
<1>2. /\ c # None /\ pending' = c /\ requests' = requests \cup {c} /\ mail' = mail
      /\ intents' = intents + (IF pending = None THEN 1 ELSE 0) /\ ~ composer.sent
  BY <1>0, BoundAssumption DEF Send, serverVars
<1>3. Used' = Used \cup {c}
  <2>1. Sealed' = Sealed
    BY <1>2 DEF Sealed
  <2>2. pending = None \/ pending = c
    BY <1>0, <1>2 DEF Intention
  <2> QED
    BY <1>2, <2>1, <2>2 DEF Used
<1>4. Counted'
  <2>1. CASE pending = None
    <3>1. c \notin Used
      BY <1>0, <1>2, <2>1 DEF Intention
    <3>2. Cardinality(Used \cup {c}) = Cardinality(Used) + 1
      BY <3>1, UsedFinite, FS_AddElement
    <3> QED
      BY <1>2, <1>3, <2>1, <3>2 DEF Counted
  <2>2. CASE pending # None
    <3>1. pending = c
      BY <1>0, <1>2, <2>2 DEF Intention
    <3>2. c \in Used
      BY <1>2, <3>1 DEF Used
    <3>3. Used \cup {c} = Used
      BY <3>2
    <3> QED
      BY <1>2, <1>3, <2>2, <3>3, UsedFinite DEF Counted
  <2> QED
    BY <2>1, <2>2
<1> QED
  BY <1>1, <1>2, <1>4 DEF ClientOK, Intention

\* Giving up on an answer, or leaving, keeps the session.
LEMMA LeaveStep ==
  ASSUME ClientInv, SendFails \/ Reload
  PROVE  ClientInv'
<1> USE DEF ClientInv
<1>1. UNCHANGED <<pending, requests, intents, mail>>
  BY DEF SendFails, Reload, serverVars
<1>2. Used' = Used
  BY <1>1 DEF Used, Sealed
<1>3. CASE SendFails
  <2>1. /\ composer'.key = composer.key /\ ~ composer'.busy /\ composer'.sent = composer.sent
        /\ composer' \in [key : Keys \cup {None}, busy : BOOLEAN, sent : BOOLEAN]
        /\ composer.key # None
    BY <1>3 DEF SendFails, ClientOK, Intention
  <2> QED
    BY <1>1, <1>2, <2>1 DEF ClientOK, Counted, Intention
<1>4. CASE Reload
  BY <1>1, <1>2, <1>4 DEF Reload, Closed, ClientOK, Counted, Intention
<1> QED
  BY <1>3, <1>4

\* A request that arrives hands its key over to the outbox; an answer that the
\* composer still waits for ends the intention.
LEMMA ServerSendClient ==
  ASSUME ClientInv, ServerOK, NEW k \in Keys, ServerSend(k)
  PROVE  ClientInv'
<1> USE DEF ClientInv
<1>1. k \in requests /\ requests' = requests \ {k} /\ intents' = intents
  BY DEF ServerSend
<1>2. Sealed' = Sealed \cup {k}
  <2>1. CASE mail[k].state = "NONE"
    BY <2>1 DEF ServerSend, Sealed, ServerOK, MailRows
  <2>2. CASE mail[k].state # "NONE"
    BY <2>2 DEF ServerSend, Sealed
  <2> QED
    BY <2>1, <2>2
<1>3. CASE composer.busy /\ composer.key = k
           /\ composer' = [composer EXCEPT !.busy = FALSE, !.sent = TRUE]
           /\ pending' = IF pending = k THEN None ELSE pending
  <2>1. /\ composer'.key = k /\ ~ composer'.busy /\ composer'.sent
        /\ composer' \in [key : Keys \cup {None}, busy : BOOLEAN, sent : BOOLEAN]
        /\ pending = k /\ pending' = None /\ k # None
    BY <1>3, BoundAssumption DEF ClientOK, Intention
  <2>2. Used' = Used
    BY <1>1, <1>2, <2>1 DEF Used
  <2> QED
    BY <1>1, <2>1, <2>2 DEF ClientOK, Counted, Intention
<1>4. CASE UNCHANGED <<composer, pending>>
  <2>1. Used' = Used
    BY <1>1, <1>2, <1>4 DEF Used
  <2> QED
    BY <1>1, <1>4, <2>1 DEF ClientOK, Counted, Intention
<1> QED
  BY <1>3, <1>4 DEF ServerSend


-----------------------------------------------------------------------------
(* Rows and workers                                                        *)

\* The row of k is in state s at attempt n; other rows stay.
MailTo(k, s, n) ==
  /\ mail' \in [Keys -> MailRows]
  /\ mail'[k].state = s /\ mail'[k].attempt = n
  /\ \A j \in Keys : j # k => mail'[j] = mail[j]

\* A row changes its state.
LEMMA StateTo ==
  ASSUME ServerOK, NEW k \in Keys, NEW s \in States, mail' = [mail EXCEPT ![k].state = s]
  PROVE  MailTo(k, s, mail[k].attempt)
<1>1. mail \in [Keys -> MailRows] /\ mail[k] \in MailRows
  BY DEF ServerOK
<1>2. mail' = [mail EXCEPT ![k] = [mail[k] EXCEPT !.state = s]]
  BY <1>1
<1>3. /\ [mail[k] EXCEPT !.state = s] \in MailRows
      /\ [mail[k] EXCEPT !.state = s].state = s
      /\ [mail[k] EXCEPT !.state = s].attempt = mail[k].attempt
  BY <1>1 DEF MailRows
<1> QED
  BY <1>1, <1>2, <1>3 DEF MailTo

\* A sealed row that changes its state stays sealed.
LEMMA StaysSealed ==
  ASSUME NEW k \in Keys, NEW s \in States, NEW n, MailTo(k, s, n), mail[k].state # "NONE"
  PROVE  Sealed' = Sealed
BY DEF MailTo, Sealed, States

\* A worker goes on to x.
WorkerTo(w, x) ==
  /\ worker' \in [Workers -> WorkerRows] /\ worker'[w] = x
  /\ \A v \in Workers : v # w => worker'[v] = worker[v]

LEMMA WorkerGoes ==
  ASSUME ServerOK, NEW w \in Workers, NEW x \in WorkerRows,
         worker' = [worker EXCEPT ![w] = x]
  PROVE  WorkerTo(w, x)
BY DEF ServerOK, WorkerTo

LEMMA IdleRow == Idle \in WorkerRows /\ Idle.at = "idle"
BY BoundAssumption DEF Idle, WorkerRows, Attempts, States

\* A run that ends is a run of the table.
LEMMA RunTo ==
  ASSUME ServerOK, NEW r \in Keys \X Attempts, NEW s \in RunStates,
         run' = [run EXCEPT ![r] = s]
  PROVE  run' \in [Keys \X Attempts -> RunStates]
BY DEF ServerOK

\* Queueing keeps the table of runs.
LEMMA QueueType ==
  ASSUME ServerOK, NEW k \in Keys, NEW n \in Attempts, QueueJob(k, n)
  PROVE  run' \in [Keys \X Attempts -> RunStates]
<1>1. <<k, n>> \in Keys \X Attempts
  OBVIOUS
<1>2. run[<<k, n>>] \in RunStates
  BY <1>1 DEF ServerOK
<1>3. PICK s \in RunStates : run' = [run EXCEPT ![<<k, n>>] = s]
  <2>1. CASE run[<<k, n>>] \in {"none", "failed"}
    BY <1>1, <2>1 DEF QueueJob, RunStates, ServerOK
  <2>2. CASE run[<<k, n>>] \notin {"none", "failed"}
    BY <1>1, <1>2, <2>2 DEF QueueJob, ServerOK
  <2> QED
    BY <2>1, <2>2
<1> QED
  BY <1>1, <1>3, RunTo

\* A worker that ends its run, well or not, is idle.
LEMMA EndsRun ==
  ASSUME ServerOK, OwnAttempt, NEW w \in Workers, worker[w].at # "idle",
         NEW s \in RunStates,
         run' = [run EXCEPT ![<<worker[w].on, worker[w].run>>] = s],
         worker' = [worker EXCEPT ![w] = Idle]
  PROVE  WorkerTo(w, Idle) /\ run' \in [Keys \X Attempts -> RunStates]
<1>1. <<worker[w].on, worker[w].run>> \in Keys \X Attempts
  BY DEF ServerOK, OwnAttempt, WorkerRows
<1> QED
  BY <1>1, RunTo, WorkerGoes, IdleRow

-----------------------------------------------------------------------------
(* One lemma per action of the server                                      *)

\* A sealed mail is at no attempt yet.
LEMMA SealStep ==
  ASSUME ServerInv, NEW k \in Keys, ServerSend(k)
  PROVE  ServerInv'
<1> USE DEF ServerInv
<1>1. UNCHANGED <<worker, accepted, checked, void, overtaken, deaths>>
  BY DEF ServerSend
<1>2. CASE mail[k].state # "NONE"
  <2>1. UNCHANGED <<mail, run>>
    BY <1>2 DEF ServerSend
  <2> QED
    BY <1>1, <2>1 DEF ServerOK, OwnAttempt, Active, Rows, Outcomes, StateIsOfAttempt, Followed
<1>3. CASE mail[k].state = "NONE"
  <2>1. MailTo(k, "QUEUED", mail[k].attempt) /\ mail[k].attempt = 0
    BY <1>3, StateTo DEF ServerSend, States, Rows
  <2>2. run' \in [Keys \X Attempts -> RunStates]
    <3>1. 0 \in Attempts /\ QueueJob(k, 0)
      BY <1>3, BoundAssumption DEF ServerSend, Attempts
    <3> QED
      BY <3>1, QueueType
  <2>3. ServerOK'
    BY <1>1, <2>1, <2>2 DEF ServerOK, MailTo
  <2>4. \A w \in Workers : Active(w) => worker[w].on # k
    BY <1>3 DEF OwnAttempt
  <2>5. OwnAttempt'
    BY <1>1, <2>1, <2>4 DEF OwnAttempt, Active, MailTo
  <2>6. Rows'
    BY <1>1, <2>1, BoundAssumption DEF Rows, MailTo
  <2>7. Outcomes' /\ StateIsOfAttempt'
    BY <1>1, <2>1 DEF Outcomes, Active, StateIsOfAttempt, MailTo
  <2>8. Followed'
    BY <1>1, <1>3, <2>1, <2>4 DEF Followed, Active, MailTo
  <2> QED
    BY <2>3, <2>5, <2>6, <2>7, <2>8
<1> QED
  BY <1>2, <1>3

\* A claim of a run touches no mail.
LEMMA ClaimStep ==
  ASSUME ServerInv, NEW w \in Workers, NEW k \in Keys, NEW n \in Attempts, Claim(w, k, n)
  PROVE  ServerInv'
<1> USE DEF ServerInv
<1> DEFINE x == [Idle EXCEPT !.at = "claimed", !.on = k, !.run = n]
<1>1. x \in WorkerRows /\ x.at = "claimed" /\ x.on = k
  BY IdleRow DEF WorkerRows, Idle
<1>2. UNCHANGED <<mail, accepted, checked, void, overtaken, deaths>>
      /\ worker' = [worker EXCEPT ![w] = x]
  BY DEF Claim
<1> HIDE DEF x
<1>3. WorkerTo(w, x)
  BY <1>1, <1>2, WorkerGoes
<1>4. run' \in [Keys \X Attempts -> RunStates]
  BY RunTo DEF Claim, RunStates
<1>5. ServerOK'
  BY <1>2, <1>3, <1>4 DEF ServerOK, WorkerTo
<1>6. OwnAttempt'
  BY <1>1, <1>2, <1>3 DEF OwnAttempt, Active, WorkerTo
<1>7. Rows' /\ StateIsOfAttempt'
  BY <1>2 DEF Rows, StateIsOfAttempt
<1>8. Outcomes' /\ Followed'
  BY <1>1, <1>2, <1>3 DEF Outcomes, Followed, Active, WorkerTo
<1> QED
  BY <1>5, <1>6, <1>7, <1>8

\* A worker that ends leaves its mail to what it wrote.
LEMMA IdleStep ==
  ASSUME ServerInv, NEW w \in Workers, WorkerTo(w, Idle),
         run' \in [Keys \X Attempts -> RunStates],
         UNCHANGED <<mail, accepted, checked, void, overtaken>>, deaths' \in 0 .. Deaths
  PROVE  ServerInv'
<1> USE DEF ServerInv
<1>1. ServerOK'
  BY DEF ServerOK, WorkerTo
<1>2. OwnAttempt'
  BY IdleRow DEF OwnAttempt, Active, WorkerTo
<1>3. Rows' /\ StateIsOfAttempt'
  BY DEF Rows, StateIsOfAttempt
<1>4. Outcomes' /\ Followed'
  BY IdleRow DEF Outcomes, Followed, Active, WorkerTo
<1> QED
  BY <1>1, <1>2, <1>3, <1>4

\* dispatch takes the next attempt of a queued mail, which nobody is at.
LEMMA DispatchStep ==
  ASSUME ServerInv, NEW w \in Workers, Dispatch(w)
  PROVE  ServerInv' /\ Sealed' = Sealed
<1> USE DEF ServerInv
<1>0. PICK k \in Keys : k = worker[w].on
  BY DEF Dispatch, OwnAttempt
<1>1. /\ UNCHANGED <<accepted, checked, void, overtaken, deaths>>
      /\ worker[w].at = "claimed" /\ worker[w] \in WorkerRows
  BY DEF Dispatch, ServerOK
<1>2. CASE mail[k].state # "QUEUED"
  <2>1. UNCHANGED mail /\ Done(w)
    BY <1>0, <1>2 DEF Dispatch
  <2>2. WorkerTo(w, Idle) /\ run' \in [Keys \X Attempts -> RunStates]
    BY <1>1, <2>1, EndsRun DEF Done, RunStates
  <2> QED
    BY <1>1, <2>1, <2>2, IdleStep DEF Sealed, ServerOK
<1>3. CASE mail[k].state = "QUEUED"
  <2> DEFINE n == mail[k].attempt + 1
             m == [state |-> "DISPATCHING", attempt |-> n]
             at == IF void[k] THEN "finish" ELSE "deliver"
             to == IF void[k] THEN "FAILED" ELSE "SENT"
             x == [worker[w] EXCEPT !.at = at, !.to = to, !.attempt = n]
  <2>1. /\ mail \in [Keys -> MailRows] /\ mail[k].attempt \in Attempts
        /\ mail[k].attempt \in Nat /\ n \in Attempts
    BY <1>3, BoundAssumption DEF ServerOK, MailRows, Rows, Attempts
  <2>2. mail' = [mail EXCEPT ![k] = m] /\ worker' = [worker EXCEPT ![w] = x] /\ run' = run
    BY <1>0, <1>3, <2>1 DEF Dispatch, ServerOK
  <2>3. /\ x \in WorkerRows /\ x.at = at /\ x.to = to /\ x.attempt = n /\ x.on = k
        /\ at \in {"finish", "deliver"} /\ (at = "finish" => to = "FAILED")
    BY <1>0, <1>1, <2>1 DEF WorkerRows, States
  <2>4. m \in MailRows /\ m.state = "DISPATCHING" /\ m.attempt = n
    BY <2>1 DEF MailRows, States
  <2> HIDE DEF m, x, at, to
  <2>5. MailTo(k, "DISPATCHING", n) /\ WorkerTo(w, x)
    BY <2>1, <2>2, <2>3, <2>4, WorkerGoes DEF MailTo
  <2>6. ServerOK'
    BY <1>1, <2>2, <2>5 DEF ServerOK, MailTo, WorkerTo
  <2>7. /\ \A v \in Workers : Active(v) /\ worker[v].on = k => worker[v].attempt < n
        /\ \A j \in accepted[k] \cup checked[k] : j < n
    <3>1. /\ \A v \in Workers : worker[v].attempt \in Nat
          /\ \A j \in accepted[k] \cup checked[k] : j \in Nat
      BY DEF ServerOK, WorkerRows, Attempts
    <3> QED
      BY <2>1, <3>1 DEF OwnAttempt, Rows
  <2>7a. \A v \in Workers : worker[v].attempt \in Nat
    BY DEF ServerOK, WorkerRows, Attempts
  <2>8. OwnAttempt'
    BY <2>1, <2>3, <2>5, <2>7, <2>7a DEF OwnAttempt, Active, MailTo, WorkerTo
  <2>9. Rows'
    <3>1. n \notin checked[k] /\ \A j \in accepted[k] \cup checked[k] : j <= n
      <4>1. \A j \in accepted[k] \cup checked[k] : j \in Nat
        BY DEF ServerOK, Attempts
      <4> QED
        BY <2>1, <2>7, <4>1
    <3> QED
      BY <1>1, <2>5, <3>1 DEF Rows, MailTo
  <2>10. Outcomes' /\ StateIsOfAttempt'
    <3>1. n \notin accepted[k]
      BY <2>1, <2>7
    <3> QED
      BY <1>1, <2>3, <2>5, <3>1 DEF Outcomes, StateIsOfAttempt, Active, MailTo, WorkerTo
  <2>11. Followed'
    BY <1>1, <1>3, <2>3, <2>5 DEF Followed, Active, MailTo, WorkerTo
  <2>12. Sealed' = Sealed
    BY <1>3, <2>5, StaysSealed DEF States
  <2> QED
    BY <2>6, <2>8, <2>9, <2>10, <2>11, <2>12
<1> QED
  BY <1>2, <1>3

\* The mail server takes an attempt from the one worker that has it.
LEMMA DeliverStep ==
  ASSUME ServerInv, NEW w \in Workers, Deliver(w)
  PROVE  ServerInv' /\ Sealed' = Sealed
<1> USE DEF ServerInv
<1>0. PICK k \in Keys : k = worker[w].on
  BY DEF Deliver, OwnAttempt
<1>1. /\ UNCHANGED <<mail, run, checked, void, overtaken, deaths>>
      /\ worker[w].at = "deliver" /\ Active(w) /\ worker[w] \in WorkerRows
      /\ worker[w].attempt \in Attempts
  BY DEF Deliver, ServerOK, Active, WorkerRows
<1>2. PICK took \in BOOLEAN, replied \in BOOLEAN :
        /\ replied => took
        /\ accepted' = IF took
             THEN [accepted EXCEPT ![k] = @ \cup {worker[w].attempt}]
             ELSE accepted
        /\ worker' = [worker EXCEPT ![w].at = "finish",
             ![w].to = IF replied THEN "SENT" ELSE "UNCERTAIN"]
  BY <1>0 DEF Deliver
<1> DEFINE n == worker[w].attempt
           to == IF replied THEN "SENT" ELSE "UNCERTAIN"
           x == [worker[w] EXCEPT !.at = "finish", !.to = to]
<1>3. worker' = [worker EXCEPT ![w] = x]
  BY <1>2 DEF ServerOK
<1>4. /\ x \in WorkerRows /\ x.at = "finish" /\ x.to = to /\ x.attempt = n /\ x.on = k
      /\ to \in {"SENT", "UNCERTAIN"} /\ (to = "SENT" => took)
  BY <1>0, <1>1, <1>2 DEF WorkerRows, States
<1> HIDE DEF x, to
<1>5. WorkerTo(w, x)
  BY <1>3, <1>4, WorkerGoes
<1>6. /\ accepted' \in [Keys -> SUBSET Attempts]
      /\ \A j \in Keys : j # k => accepted'[j] = accepted[j]
      /\ accepted'[k] = IF took THEN accepted[k] \cup {n} ELSE accepted[k]
  BY <1>1, <1>2 DEF ServerOK
<1>7. ServerOK'
  BY <1>1, <1>5, <1>6 DEF ServerOK, WorkerTo
<1>8. OwnAttempt'
  BY <1>0, <1>1, <1>4, <1>5 DEF OwnAttempt, Active, WorkerTo
<1>9. Rows'
  BY <1>0, <1>1, <1>6 DEF Rows, OwnAttempt
<1>10. Outcomes'
  <2>1. ASSUME NEW v \in Workers, worker'[v].at = "finish"
        PROVE  /\ worker'[v].to \in {"SENT", "FAILED", "UNCERTAIN"}
               /\ worker'[v].to = "SENT" => worker'[v].attempt \in accepted'[worker'[v].on]
               /\ worker'[v].to = "FAILED" => worker'[v].attempt \notin accepted'[worker'[v].on]
    <3>1. CASE v = w
      BY <1>4, <1>5, <1>6, <3>1 DEF WorkerTo
    <3>2. CASE v # w
      <4>1. worker'[v] = worker[v] /\ worker[v].at = "finish" /\ Active(v)
        BY <1>5, <2>1, <3>2 DEF WorkerTo, Active
      <4>2. worker[v].on = k => worker[v].attempt # n
        BY <1>0, <1>1, <3>2, <4>1 DEF OwnAttempt
      <4>3. worker[v].on \in Keys
        BY <4>1 DEF OwnAttempt
      <4> QED
        BY <1>6, <4>1, <4>2, <4>3 DEF Outcomes
    <3> QED
      BY <3>1, <3>2
  <2>2. \A j \in Keys : mail'[j].state = "FAILED" =>
          \A v \in Workers : Active(v)' /\ worker'[v].on = j =>
            worker'[v].attempt # mail'[j].attempt
    BY <1>0, <1>1, <1>4, <1>5 DEF Outcomes, Active, WorkerTo
  <2> QED
    BY <2>1, <2>2 DEF Outcomes
<1>11. StateIsOfAttempt'
  BY <1>0, <1>1, <1>6 DEF StateIsOfAttempt, Outcomes
<1>12. Followed'
  <2>1. ASSUME k \notin overtaken
        PROVE  /\ mail[k].state = "DISPATCHING" /\ mail[k].attempt = n /\ accepted[k] = {}
               /\ \A v \in Workers : Active(v) /\ worker[v].on = k => v = w
    <3>1. /\ mail[k].state = "DISPATCHING" /\ mail[k].attempt = n /\ accepted[k] = {}
          /\ \A v \in Workers : Active(v) /\ worker[v].on = k => worker[v].attempt = n
      BY <1>0, <1>1, <2>1 DEF Followed
    <3> QED
      BY <1>0, <1>1, <3>1 DEF OwnAttempt
  <2> QED
    BY <1>1, <1>4, <1>5, <1>6, <2>1 DEF Followed, Active, WorkerTo
<1> QED
  BY <1>1, <1>7, <1>8, <1>9, <1>10, <1>11, <1>12 DEF Sealed


\* _finish writes the outcome of the attempt that the row is at, and no other.
LEMMA FinishStep ==
  ASSUME ServerInv, NEW w \in Workers, Finish(w)
  PROVE  ServerInv' /\ Sealed' = Sealed
<1> USE DEF ServerInv
<1>0. PICK k \in Keys : k = worker[w].on
  BY DEF Finish, OwnAttempt
<1>1. /\ UNCHANGED <<accepted, checked, void, overtaken, deaths>>
      /\ worker[w].at = "finish" /\ Active(w) /\ Done(w)
  BY DEF Finish, Active
<1>2. WorkerTo(w, Idle) /\ run' \in [Keys \X Attempts -> RunStates]
  BY <1>1, EndsRun DEF Done, RunStates
<1>3. CASE ~ (mail[k].state = "DISPATCHING" /\ mail[k].attempt = worker[w].attempt)
  <2>1. mail' = mail
    BY <1>0, <1>3 DEF Finish
  <2> QED
    BY <1>1, <1>2, <2>1, IdleStep DEF Sealed, ServerOK
<1>4. CASE mail[k].state = "DISPATCHING" /\ mail[k].attempt = worker[w].attempt
  <2> DEFINE n == mail[k].attempt
  <2>1. PICK s \in {"SENT", "FAILED", "UNCERTAIN"} : s = worker[w].to
    BY <1>1 DEF Outcomes
  <2>2. s \in States /\ s # "NONE" /\ MailTo(k, s, n)
    <3>1. s \in States /\ mail' = [mail EXCEPT ![k].state = s]
      BY <1>0, <1>4, <2>1 DEF Finish, States
    <3> QED
      BY <3>1, StateTo DEF States
  <2>3. /\ s = "SENT" => n \in accepted[k]
        /\ s = "FAILED" => n \notin accepted[k]
        /\ n \notin checked[k]
        /\ \A v \in Workers : v # w /\ Active(v) /\ worker[v].on = k => worker[v].attempt # n
    BY <1>0, <1>1, <1>4, <2>1 DEF Outcomes, Rows, OwnAttempt
  <2>4. ServerOK'
    BY <1>1, <1>2, <2>2 DEF ServerOK, MailTo, WorkerTo
  <2>5. OwnAttempt'
    BY <1>2, <2>2, IdleRow DEF OwnAttempt, Active, MailTo, WorkerTo
  <2>6. Rows' /\ StateIsOfAttempt'
    BY <1>1, <2>2, <2>3 DEF Rows, StateIsOfAttempt, MailTo
  <2>7. Outcomes'
    BY <1>1, <1>2, <2>2, <2>3, IdleRow DEF Outcomes, Active, MailTo, WorkerTo
  <2>8. Followed'
    BY <1>1, <1>2, <1>4, <2>2, <2>3, IdleRow DEF Followed, Active, MailTo, WorkerTo
  <2>9. Sealed' = Sealed
    BY <1>4, <2>2, StaysSealed
  <2> QED
    BY <2>4, <2>5, <2>6, <2>7, <2>8, <2>9
<1> QED
  BY <1>3, <1>4

\* A worker that dies leaves its mail to reconciliation.
LEMMA DieStep ==
  ASSUME ServerInv, NEW w \in Workers, Die(w)
  PROVE  ServerInv' /\ Sealed' = Sealed
<1>1. WorkerTo(w, Idle) /\ run' \in [Keys \X Attempts -> RunStates]
  BY EndsRun DEF ServerInv, Die, RunStates
<1>2. deaths' \in 0 .. Deaths
  BY BoundAssumption DEF ServerInv, ServerOK, Die
<1> QED
  BY <1>1, <1>2, IdleStep DEF Die, Sealed

\* reconcile_stale overtakes the delivery that still goes on.
LEMMA ReconcileStep ==
  ASSUME ServerInv, NEW k \in Keys, ReconcileStale(k)
  PROVE  ServerInv' /\ Sealed' = Sealed
<1> USE DEF ServerInv
<1>1. /\ UNCHANGED <<run, worker, accepted, checked, void, deaths>>
      /\ mail[k].state = "DISPATCHING" /\ overtaken \subseteq overtaken'
      /\ overtaken' \subseteq overtaken \cup {k}
      /\ k \notin overtaken' => ~ Delivering(k)
  BY DEF ReconcileStale
<1>2. MailTo(k, "UNCERTAIN", mail[k].attempt)
  BY StateTo DEF ReconcileStale, States
<1>3. ServerOK'
  BY <1>1, <1>2 DEF ServerOK, MailTo
<1>4. OwnAttempt'
  BY <1>1, <1>2 DEF OwnAttempt, Active, MailTo
<1>5. Rows' /\ StateIsOfAttempt'
  BY <1>1, <1>2 DEF Rows, StateIsOfAttempt, MailTo
<1>6. Outcomes'
  BY <1>1, <1>2 DEF Outcomes, Active, MailTo
<1>7. Followed'
  <2>1. mail[k].attempt \notin checked[k]
    BY <1>1 DEF Rows
  <2> QED
    BY <1>1, <1>2, <2>1 DEF Followed, Active, Delivering, MailTo
<1>8. Sealed' = Sealed
  BY <1>1, <1>2, StaysSealed DEF States
<1> QED
  BY <1>3, <1>4, <1>5, <1>6, <1>7, <1>8

\* A person checks the attempt that the page shows.
LEMMA ConfirmAbsenceStep ==
  ASSUME ServerInv, NEW k \in Keys, ConfirmAbsence(k)
  PROVE  ServerInv' /\ Sealed' = Sealed
<1> USE DEF ServerInv
<1>1. /\ UNCHANGED <<mail, run, worker, accepted, void, overtaken, deaths>>
      /\ mail[k].state \in {"FAILED", "UNCERTAIN"} /\ accepted[k] = {}
      /\ mail[k].attempt \in Attempts /\ mail[k].attempt \in Int
  BY DEF ConfirmAbsence, ServerOK, MailRows, Attempts
<1>2. /\ checked' \in [Keys -> SUBSET Attempts]
      /\ checked'[k] = checked[k] \cup {mail[k].attempt}
      /\ \A j \in Keys : j # k => checked'[j] = checked[j]
  BY <1>1 DEF ConfirmAbsence, ServerOK
<1>3. ServerOK'
  BY <1>1, <1>2 DEF ServerOK
<1>4. OwnAttempt' /\ Outcomes' /\ StateIsOfAttempt' /\ Sealed' = Sealed
  BY <1>1 DEF OwnAttempt, Outcomes, StateIsOfAttempt, Active, Sealed
<1>5. Rows'
  BY <1>1, <1>2 DEF Rows
<1>6. Followed'
  BY <1>1, <1>2 DEF Followed, Active
<1> QED
  BY <1>3, <1>4, <1>5, <1>6

\* recover queues a mail whose present attempt was found absent.
LEMMA RecoverStep ==
  ASSUME ServerInv, NEW k \in Keys, NEW n \in Attempts, Recover(k, n)
  PROVE  ServerInv' /\ Sealed' = Sealed
<1> USE DEF ServerInv
<1>1. /\ UNCHANGED <<worker, accepted, checked, void, overtaken, deaths>>
      /\ mail[k].state \in {"FAILED", "UNCERTAIN"} /\ mail[k].attempt = n
      /\ n \in checked[k] /\ n < MaxAttempts
  BY DEF Recover
<1>2. MailTo(k, "QUEUED", n)
  BY <1>1, StateTo DEF Recover, States
<1>3. run' \in [Keys \X Attempts -> RunStates]
  BY <1>1, QueueType DEF Recover
<1>4. ServerOK'
  BY <1>1, <1>2, <1>3 DEF ServerOK, MailTo
<1>5. OwnAttempt'
  BY <1>1, <1>2 DEF OwnAttempt, Active, MailTo
<1>6. Rows' /\ StateIsOfAttempt'
  BY <1>1, <1>2 DEF Rows, StateIsOfAttempt, MailTo
<1>7. Outcomes'
  BY <1>1, <1>2 DEF Outcomes, Active, MailTo
<1>8. Followed'
  BY <1>1, <1>2 DEF Followed, Active, MailTo
<1>9. Sealed' = Sealed
  BY <1>1, <1>2, StaysSealed DEF States
<1> QED
  BY <1>4, <1>5, <1>6, <1>7, <1>8, <1>9

\* What is withdrawn is no mail's state.
LEMMA WithdrawStep ==
  ASSUME ServerInv, NEW k \in Keys, Withdraw(k)
  PROVE  ServerInv' /\ Sealed' = Sealed
BY DEF ServerInv, Withdraw, ServerOK, OwnAttempt, Active, Rows, Outcomes, StateIsOfAttempt,
   Followed, Sealed

-----------------------------------------------------------------------------
(* The specification                                                       *)

LEMMA InitIInv == Init => IInv
<1> SUFFICES ASSUME Init PROVE IInv
  OBVIOUS
<1>1. Used = {} /\ Cardinality({}) = 0
  BY FS_EmptySet DEF Init, Used, Sealed
<1>2. ClientInv
  BY <1>1 DEF Init, ClientInv, ClientOK, Counted, Intention, Closed
<1>3. ServerOK
  <2>1. 0 \in Attempts /\ 0 \in 0 .. Deaths
    BY BoundAssumption DEF Attempts
  <2>2. [state |-> "NONE", attempt |-> 0] \in MailRows
    BY <2>1 DEF MailRows
  <2> QED
    BY <2>1, <2>2, IdleRow DEF Init, ServerOK, RunStates
<1>4. OwnAttempt /\ Rows /\ Outcomes
  BY IdleRow DEF Init, OwnAttempt, Active, Rows, Outcomes
<1>5. StateIsOfAttempt /\ Followed
  BY IdleRow DEF Init, StateIsOfAttempt, Followed, Active
<1> QED
  BY <1>2, <1>3, <1>4, <1>5 DEF IInv, ServerInv

LEMMA NextIInv == IInv /\ [Next]_vars => IInv'
<1> SUFFICES ASSUME IInv, [Next]_vars PROVE IInv'
  OBVIOUS
<1>0. ClientInv /\ ServerInv /\ ServerOK
  BY DEF IInv, ServerInv
<1>a. ASSUME UNCHANGED serverVars PROVE ServerInv'
  BY <1>0, <1>a DEF serverVars, ServerInv, ServerOK, OwnAttempt, Active, Rows, Outcomes,
     StateIsOfAttempt, Followed
<1>b. ASSUME ServerInv', Sealed' = Sealed, UNCHANGED clientVars PROVE IInv'
  BY <1>0, <1>b, QuietClient DEF IInv
<1>1. CASE Send \/ SendFails \/ Reload
  <2>1. ClientInv'
    BY <1>0, <1>1, SendStep, LeaveStep
  <2>2. UNCHANGED serverVars
    BY <1>1 DEF Send, SendFails, Reload
  <2> QED
    BY <2>1, <2>2, <1>a DEF IInv
<1>2. ASSUME NEW k \in Keys, Open(k) PROVE IInv'
  <2>1. ClientInv'
    BY <1>0, <1>2, OpenStep
  <2>2. UNCHANGED serverVars
    BY <1>2 DEF Open
  <2> QED
    BY <2>1, <2>2, <1>a DEF IInv
<1>3. ASSUME NEW k \in Keys, ServerSend(k) PROVE IInv'
  BY <1>0, <1>3, ServerSendClient, SealStep DEF IInv
<1>4. ASSUME NEW k \in Keys, ReconcileStale(k) PROVE IInv'
  BY <1>0, <1>b, <1>4, ReconcileStep DEF ReconcileStale
<1>5. ASSUME NEW k \in Keys, ConfirmAbsence(k) PROVE IInv'
  BY <1>0, <1>b, <1>5, ConfirmAbsenceStep DEF ConfirmAbsence
<1>6. ASSUME NEW k \in Keys, Withdraw(k) PROVE IInv'
  BY <1>0, <1>b, <1>6, WithdrawStep DEF Withdraw
<1>7. ASSUME NEW k \in Keys, NEW n \in Attempts, Recover(k, n) PROVE IInv'
  BY <1>0, <1>b, <1>7, RecoverStep DEF Recover
<1>8. ASSUME NEW w \in Workers, Dispatch(w) PROVE IInv'
  BY <1>0, <1>b, <1>8, DispatchStep DEF Dispatch
<1>9. ASSUME NEW w \in Workers, Deliver(w) PROVE IInv'
  BY <1>0, <1>b, <1>9, DeliverStep DEF Deliver
<1>10. ASSUME NEW w \in Workers, Finish(w) PROVE IInv'
  BY <1>0, <1>b, <1>10, FinishStep DEF Finish
<1>11. ASSUME NEW w \in Workers, Die(w) PROVE IInv'
  BY <1>0, <1>b, <1>11, DieStep DEF Die
<1>12. ASSUME NEW w \in Workers, NEW k \in Keys, NEW n \in Attempts, Claim(w, k, n)
       PROVE  IInv'
  <2>1. Sealed' = Sealed /\ UNCHANGED clientVars
    BY <1>12 DEF Claim, Sealed
  <2> QED
    BY <1>0, <1>b, <1>12, <2>1, ClaimStep
<1>13. CASE UNCHANGED vars
  <2>1. UNCHANGED serverVars /\ UNCHANGED clientVars /\ Sealed' = Sealed
    BY <1>13 DEF vars, serverVars, Sealed
  <2> QED
    BY <1>a, <1>b, <2>1
<1> QED
  BY <1>1, <1>2, <1>3, <1>4, <1>5, <1>6, <1>7, <1>8, <1>9, <1>10, <1>11, <1>12, <1>13
  DEF Next, Step

LEMMA Invariance == Spec => []IInv
BY InitIInv, NextIInv, PTL DEF Spec

\* The composer, the outbox, its runs and workers stay well typed: no attempt
\* passes the bound, and no more sends are confirmed than there are keys.
THEOREM TypeCorrect == Spec => []TypeOK
<1>1. IInv => TypeOK
  <2> SUFFICES ASSUME IInv PROVE TypeOK
    OBVIOUS
  <2>1. intents \in 0 .. Cardinality(Keys)
    BY UsedFinite DEF IInv, ClientInv, Counted
  <2> QED
    BY <2>1 DEF IInv, ClientInv, ClientOK, ServerInv, ServerOK, TypeOK, MailRows, RunStates,
       WorkerRows
<1> QED
  BY <1>1, Invariance, PTL

\* PaymentMailComposer and send_payment: whatever is lost, repeated or reloaded,
\* a mail is sealed for each confirmed send at most.
THEOREM NoExtraMail == Spec => []OneMailPerIntent
<1>1. IInv => OneMailPerIntent
  <2> SUFFICES ASSUME IInv PROVE Cardinality(Sealed) <= intents
    BY DEF OneMailPerIntent, Sealed
  <2>1. Sealed \subseteq Used
    BY DEF Used
  <2> QED
    BY <2>1, UsedFinite, FS_Subset DEF IInv, ClientInv, Counted
<1> QED
  BY <1>1, Invariance, PTL

\* _finish compares the attempt, so a late worker never speaks for another's.
THEOREM OwnOutcome == Spec => []StateIsOfAttempt
<1>1. IInv => StateIsOfAttempt
  BY DEF IInv, ServerInv
<1> QED
  BY <1>1, Invariance, PTL

\* recover compares the attempt that a person checked: unless reconcile_stale
\* overtook a delivery, the mail server takes a mail at most once.
THEOREM NeverDeliveredTwice == Spec => []DeliveredOnce
<1>1. IInv => DeliveredOnce
  <2> SUFFICES ASSUME IInv, NEW k \in Keys \ overtaken PROVE Cardinality(accepted[k]) <= 1
    BY DEF DeliveredOnce
  <2>1. \A m, n \in accepted[k] : m = n
    BY DEF IInv, ServerInv, Followed
  <2>2. CASE accepted[k] = {}
    BY <2>2, FS_EmptySet
  <2>3. CASE accepted[k] # {}
    <3>1. PICK n \in accepted[k] : TRUE
      BY <2>3
    <3>2. accepted[k] = {n}
      BY <2>1, <3>1
    <3>3. Cardinality({n}) = 1
      BY FS_Singleton
    <3> QED
      BY <3>2, <3>3
  <2> QED
    BY <2>2, <2>3
<1> QED
  BY <1>1, Invariance, PTL

-----------------------------------------------------------------------------
(***************************************************************************)
(* The quotation (Quotation): one answer per revision, and commitments     *)
(* follow it, for any number of revisions, links and requests.             *)
(***************************************************************************)
QuoteStates == {"DRAFT", "QUOTED", "APPROVED", "IN_PRODUCTION"}
LinkStates == {"free", "PENDING", "REVOKED", "APPROVED", "DECLINED", "CHANGES_REQUESTED"}
LinkRows == [state : LinkStates, rev : Revs, source : {"SHARE", "DOCUMENT"}, again : BOOLEAN]
Kinds == {"none", "APPROVED", "DECLINED", "CHANGES_REQUESTED"}
Phases == {"idle", "share", "mint", "decide", "release"}
Calls == [pc : Phases, link : Links \cup {Nobody}, was : LinkStates, rev : Revs, seen : SUBSET Links]

\* Every variable is well typed.
Types ==
  /\ project \in [status : QuoteStates, rev : Revs]
  /\ sealed \in SUBSET Revs /\ office \in SUBSET sealed
  /\ link \in [Links -> LinkRows]
  /\ choice \in [Revs -> [kind : Kinds, sel : Revs]]
  /\ orders \in SUBSET sealed /\ finished \in SUBSET orders /\ bought \in SUBSET sealed /\ billed \in SUBSET sealed
  /\ req \in [Requests -> Calls]
  /\ lock \in Requests \cup {Nobody}

\* The last revision that was issued: the current one, unless it is a draft.
LastIssued == IF project.status = "DRAFT" THEN project.rev - 1 ELSE project.rev

\* Revisions are issued one after the other.
Newest == sealed = 1..LastIssued

\* What a request or a link refers to has been issued.
Issued ==
  /\ \A q \in Requests : req[q].pc \in {"share", "mint", "release"} => req[q].rev \in sealed
  /\ \A q \in Requests : req[q].pc = "decide" => req[q].link \in Links /\ link[req[q].link].state # "free"
  /\ \A l \in Links : link[l].state # "free" => link[l].rev \in sealed

\* Only an issued revision has an answer, and the office's closes it.
Answers ==
  /\ \A r \in Revs : choice[r].kind = "none" => choice[r] = NoChoice
  /\ \A r \in Revs : choice[r].kind # "none" => r \in sealed /\ choice[r].sel \in sealed
  /\ project.rev \in office => project.status \in {"APPROVED", "IN_PRODUCTION"}

\* A release in progress holds the lock and builds what was accepted.
Releasing ==
  \A q \in Requests : req[q].pc = "release" =>
     /\ lock = q
     /\ choice[project.rev].kind = "APPROVED" => req[q].rev = choice[project.rev].sel

QuoteInv == Types /\ Newest /\ Issued /\ Answers /\ Releasing /\ OneAnswer /\ CommittedIsChosen

USE RevAssumption DEF Revs, RevAssumption

LEMMA InitQuoteInv == QInit => QuoteInv
<1> SUFFICES ASSUME QInit PROVE QuoteInv
  OBVIOUS
<1>1. Types
  BY DEF QInit, Types, Free, NoChoice, NoRequest, QuoteStates, LinkRows, LinkStates, Kinds, Calls, Phases
<1>2. Newest /\ Answers /\ Releasing /\ Issued
  BY DEF QInit, Newest, LastIssued, Issued, Answers, Releasing, NoRequest, NoChoice, Free
<1>3. OneAnswer /\ CommittedIsChosen
  BY DEF QInit, OneAnswer, CommittedIsChosen, NoChoice
<1> QED
  BY <1>1, <1>2, <1>3 DEF QuoteInv

\* The newest version is the current revision's, unless that is a draft.
LEMMA LatestIs ==
  ASSUME Types, Newest, sealed # {}
  PROVE  Latest = LastIssued /\ LastIssued \in sealed
<1>0. LastIssued \in Int
  BY DEF Types, LastIssued
<1>1. LastIssued \in Int /\ LastIssued \in sealed
  BY <1>0 DEF Newest
<1>2. \A s \in sealed : s <= LastIssued
  BY <1>1 DEF Newest
<1>3. Latest \in sealed /\ \A s \in sealed : s <= Latest
  BY <1>1, <1>2 DEF Latest
<1>4. Latest \in Int
  BY <1>3 DEF Newest
<1> QED
  BY <1>1, <1>2, <1>3, <1>4

LEMMA IssueStep ==
  ASSUME QuoteInv, Issue
  PROVE  QuoteInv'
<1> USE DEF QuoteInv
<1>1. PICK l \in Links : link[l].state = "free" /\ link' = [link EXCEPT ![l] = Minted(l, project.rev, "DOCUMENT")]
  BY DEF Issue
<1>2. Types'
  BY <1>1 DEF Types, Issue, Minted, LinkRows, LinkStates, QuoteStates
<1>3. Newest'
  BY DEF Types, Newest, LastIssued, Issue, QuoteStates
<1>4. Issued'
  BY <1>1 DEF Types, Issued, Issue, Minted
<1>5. Answers'
  BY DEF Types, Newest, LastIssued, Answers, Issue
<1>6. Releasing'
  BY DEF Types, Releasing, Issue
<1>7. (OneAnswer /\ CommittedIsChosen)'
  BY DEF Types, OneAnswer, CommittedIsChosen, Issue
<1> QED
  BY <1>2, <1>3, <1>4, <1>5, <1>6, <1>7

\* A new revision has no answer yet, so nothing is promised about it.
LEMMA SuccessorStep ==
  ASSUME QuoteInv, StartSuccessor
  PROVE  QuoteInv'
<1> USE DEF QuoteInv
<1>a. project \in [status : QuoteStates, rev : Revs] /\ project.status # "DRAFT"
      /\ project.rev + 1 \in Revs
  BY DEF Types, StartSuccessor, Live, Revs
<1>b. project' \in [status : QuoteStates, rev : Revs]
  BY <1>a DEF StartSuccessor, QuoteStates
<1>c. Types'
  BY <1>b DEF Types, StartSuccessor
<1>d. Newest'
  BY <1>a DEF Types, Newest, LastIssued, StartSuccessor, Revs
<1>1. Types' /\ Newest'
  BY <1>c, <1>d
<1>2. choice'[project'.rev].kind = "none" /\ project'.rev \notin office'
  BY DEF Types, Newest, LastIssued, Answers, StartSuccessor, Live, QuoteStates
<1>3. Issued'
  BY DEF Issued, StartSuccessor
<1>4. Answers' /\ Releasing'
  BY <1>2 DEF Answers, Releasing, StartSuccessor
<1>5. (OneAnswer /\ CommittedIsChosen)'
  BY <1>2 DEF OneAnswer, CommittedIsChosen, StartSuccessor
<1> QED
  BY <1>1, <1>3, <1>4, <1>5

\* What an action on links and requests alone may do.
OnlyLinks ==
  /\ UNCHANGED <<project, sealed, choice, office, orders, finished, bought, billed, lock>>
  /\ link' \in [Links -> LinkRows]
  /\ \A l \in Links : link'[l].state # "free" => link'[l].rev \in sealed
  /\ \A l \in Links : link[l].state # "free" => link'[l].state # "free"
  /\ req' \in [Requests -> Calls]
  /\ \A q \in Requests :
       \/ req'[q] = req[q]
       \/ req'[q].pc = "idle"
       \/ req'[q].pc \in {"share", "mint"} /\ req'[q].rev \in sealed
       \/ req'[q].pc = "decide" /\ req'[q].link \in Links /\ link[req'[q].link].state # "free"

\* It keeps the invariant.
LEMMA OnlyLinksStep ==
  ASSUME QuoteInv, OnlyLinks
  PROVE  QuoteInv'
<1> USE DEF QuoteInv, OnlyLinks
<1>1. Types' /\ Newest'
  BY DEF Types, Newest, LastIssued
<1>2. Issued'
  BY DEF Issued
<1>3. Releasing'
  BY DEF Releasing
<1>4. (Answers /\ OneAnswer /\ CommittedIsChosen)'
  BY DEF Answers, OneAnswer, CommittedIsChosen
<1> QED
  BY <1>1, <1>2, <1>3, <1>4

LEMMA NoRequestIsCall == NoRequest \in Calls
BY DEF NoRequest, Calls, Phases, LinkStates

\* A link that is revoked keeps its revision and its type.
LEMMA RowRevoked ==
  ASSUME NEW x \in LinkRows
  PROVE  /\ [x EXCEPT !.state = "REVOKED"] \in LinkRows
         /\ [x EXCEPT !.state = "REVOKED", !.again = TRUE] \in LinkRows
         /\ [x EXCEPT !.state = "REVOKED"].state = "REVOKED" /\ [x EXCEPT !.state = "REVOKED"].rev = x.rev
         /\ [x EXCEPT !.state = "REVOKED", !.again = TRUE].state = "REVOKED"
         /\ [x EXCEPT !.state = "REVOKED", !.again = TRUE].rev = x.rev
BY DEF LinkRows, LinkStates

LEMMA RowMinted ==
  ASSUME NEW l \in Links, NEW r \in Revs, NEW source \in {"SHARE", "DOCUMENT"}
  PROVE  Minted(l, r, source) \in LinkRows /\ Minted(l, r, source).rev = r
           /\ Minted(l, r, source).state = "PENDING"
BY DEF Minted, LinkRows, LinkStates

\* Issued and typed links that stay are as good as before.
LEMMA LinksStay ==
  ASSUME QuoteInv, link' = link
  PROVE  /\ link' \in [Links -> LinkRows]
         /\ \A l \in Links : link'[l].state # "free" => link'[l].rev \in sealed
         /\ \A l \in Links : link[l].state # "free" => link'[l].state # "free"
BY DEF QuoteInv, Types, Issued

\* One request moves.
LEMMA CallMoves ==
  ASSUME QuoteInv, NEW q \in Requests, NEW c \in Calls, req' = [req EXCEPT ![q] = c]
  PROVE  /\ req' \in [Requests -> Calls] /\ req'[q] = c
         /\ \A p \in Requests : p # q => req'[p] = req[p]
BY DEF QuoteInv, Types

LEMMA ShareStep ==
  ASSUME QuoteInv, NEW q \in Requests, ShareRead(q) \/ ShareRevoke(q) \/ ShareMint(q)
  PROVE  QuoteInv'
<1>0. /\ sealed \in SUBSET Revs /\ link \in [Links -> LinkRows] /\ req \in [Requests -> Calls]
      /\ Types /\ Newest /\ Issued
  BY DEF QuoteInv, Types
<1>1. CASE ShareRead(q)
  <2> DEFINE c == [NoRequest EXCEPT !.pc = "share", !.rev = Latest]
  <2>1. sealed # {}
    BY <1>0, <1>1 DEF ShareRead, Types, Newest, LastIssued, Live
  <2>2. Latest \in sealed
    BY <1>0, <2>1, LatestIs
  <2>3. c \in Calls /\ c.pc = "share" /\ c.rev = Latest
    BY <1>0, <2>2 DEF NoRequest, Calls, Phases, LinkStates
  <2>4. req' = [req EXCEPT ![q] = c] /\ link' = link
          /\ UNCHANGED <<project, sealed, choice, office, orders, finished, bought, billed, lock>>
    BY <1>1 DEF ShareRead
  <2> HIDE DEF c
  <2>5. req' \in [Requests -> Calls] /\ req'[q] = c /\ \A p \in Requests : p # q => req'[p] = req[p]
    BY <2>3, <2>4, CallMoves
  <2>6. OnlyLinks
    BY <2>2, <2>3, <2>4, <2>5, LinksStay DEF OnlyLinks
  <2> QED
    BY <2>6, OnlyLinksStep
<1>2. CASE ShareRevoke(q)
  <2> DEFINE c == [req[q] EXCEPT !.pc = "mint", !.seen = Outstanding(req[q].rev)]
  <2>1. req[q].rev \in sealed
    BY <1>0, <1>2 DEF ShareRevoke, At, Issued
  <2>2. Outstanding(req[q].rev) \in SUBSET Links
    BY DEF Outstanding
  <2>3. c \in Calls /\ c.pc = "mint" /\ c.rev = req[q].rev
    BY <1>0, <2>2 DEF Calls, Phases
  <2>4. req' = [req EXCEPT ![q] = c] /\ link' = link
          /\ UNCHANGED <<project, sealed, choice, office, orders, finished, bought, billed, lock>>
    BY <1>0, <1>2 DEF ShareRevoke
  <2> HIDE DEF c
  <2>5. req' \in [Requests -> Calls] /\ req'[q] = c /\ \A p \in Requests : p # q => req'[p] = req[p]
    BY <2>3, <2>4, CallMoves
  <2>6. OnlyLinks
    BY <2>1, <2>3, <2>4, <2>5, LinksStay DEF OnlyLinks
  <2> QED
    BY <2>6, OnlyLinksStep
<1>3. CASE ShareMint(q)
  <2>1. PICK l \in Links : link[l].state = "free" /\ Mint(l, req[q].rev, req[q].seen)
    BY <1>3 DEF ShareMint
  <2>2. req[q].rev \in sealed /\ req[q].rev \in Revs
    BY <1>0, <1>3 DEF ShareMint, At, Issued
  <2>3. \A k \in Links : link'[k] = link[k] \/ link'[k] = Minted(l, req[q].rev, "SHARE")
                           \/ (link'[k] = [link[k] EXCEPT !.state = "REVOKED"] /\ link[k].state = "PENDING")
    BY <2>1 DEF Mint
  <2>4. \A k \in Links : /\ link'[k] \in LinkRows
                         /\ link'[k].state # "free" => link'[k].rev \in sealed
                         /\ link[k].state # "free" => link'[k].state # "free"
    <3> TAKE k \in Links
    <3>1. link[k] \in LinkRows /\ (link[k].state # "free" => link[k].rev \in sealed)
      BY <1>0 DEF Issued
    <3>2. Minted(l, req[q].rev, "SHARE") \in LinkRows /\ Minted(l, req[q].rev, "SHARE").rev = req[q].rev
            /\ Minted(l, req[q].rev, "SHARE").state = "PENDING"
      BY <2>2, RowMinted
    <3>3. [link[k] EXCEPT !.state = "REVOKED"] \in LinkRows
            /\ [link[k] EXCEPT !.state = "REVOKED"].state = "REVOKED"
            /\ [link[k] EXCEPT !.state = "REVOKED"].rev = link[k].rev
      BY <3>1, RowRevoked
    <3>4. CASE link'[k] = link[k]
      BY <3>1, <3>4
    <3>5. CASE link'[k] = Minted(l, req[q].rev, "SHARE")
      BY <2>2, <3>2, <3>5
    <3>6. CASE link'[k] = [link[k] EXCEPT !.state = "REVOKED"] /\ link[k].state = "PENDING"
      BY <3>1, <3>3, <3>6
    <3> QED
      BY <2>3, <3>4, <3>5, <3>6
  <2>5. link' \in [Links -> LinkRows]
    <3>1. link' = [k \in Links |-> link'[k]]
      BY <2>1 DEF Mint
    <3> QED
      BY <2>4, <3>1
  <2>6. req' = [req EXCEPT ![q] = NoRequest]
          /\ UNCHANGED <<project, sealed, choice, office, orders, finished, bought, billed, lock>>
    BY <1>3 DEF ShareMint
  <2>7. req' \in [Requests -> Calls] /\ req'[q] = NoRequest /\ \A p \in Requests : p # q => req'[p] = req[p]
    BY <2>6, NoRequestIsCall, CallMoves DEF QuoteInv
  <2>8. NoRequest.pc = "idle"
    BY DEF NoRequest
  <2>9. OnlyLinks
    BY <2>4, <2>5, <2>6, <2>7, <2>8 DEF OnlyLinks
  <2> QED
    BY <2>9, OnlyLinksStep
<1> QED
  BY <1>1, <1>2, <1>3

LEMMA RevokeStep ==
  ASSUME QuoteInv, NEW l \in Links, Revoke(l) \/ Regenerate(l)
  PROVE  QuoteInv'
<1>0. link \in [Links -> LinkRows] /\ Issued /\ Types /\ Newest /\ req \in [Requests -> Calls]
  BY DEF QuoteInv, Types
<1>1. /\ UNCHANGED <<project, sealed, choice, office, orders, finished, bought, billed, lock>>
      /\ req' \in [Requests -> Calls] /\ \A q \in Requests : req'[q] = req[q]
  BY <1>0 DEF Revoke, Regenerate
<1>2. CASE Revoke(l)
  <2>1. link' = [link EXCEPT ![l] = [link[l] EXCEPT !.state = "REVOKED"]]
    BY <1>0, <1>2 DEF Revoke
  <2>2. link[l].state = "PENDING" /\ link[l] \in LinkRows
    BY <1>0, <1>2 DEF Revoke
  <2>3. [link[l] EXCEPT !.state = "REVOKED"] \in LinkRows
          /\ [link[l] EXCEPT !.state = "REVOKED"].state = "REVOKED"
          /\ [link[l] EXCEPT !.state = "REVOKED"].rev = link[l].rev
    BY <2>2, RowRevoked
  <2> DEFINE x == [link[l] EXCEPT !.state = "REVOKED"]
  <2> HIDE DEF x
  <2>4. link' = [link EXCEPT ![l] = x] /\ x \in LinkRows /\ x.state = "REVOKED" /\ x.rev = link[l].rev
    BY <2>1, <2>3 DEF x
  <2>5. link' \in [Links -> LinkRows] /\ link'[l] = x /\ \A k \in Links : k # l => link'[k] = link[k]
    BY <1>0, <2>4
  <2>6. OnlyLinks
    BY <1>0, <1>1, <2>2, <2>4, <2>5 DEF OnlyLinks, Issued
  <2> QED
    BY <2>6, OnlyLinksStep
<1>3. CASE Regenerate(l)
  <2>1. PICK k \in Links :
          /\ link[k].state = "free"
          /\ link' = [j \in Links |->
               IF j = k THEN Minted(k, project.rev, "SHARE")
               ELSE IF j = l THEN [link[l] EXCEPT !.state = "REVOKED", !.again = TRUE]
               ELSE IF j \in Outstanding(project.rev) THEN [link[j] EXCEPT !.state = "REVOKED"]
               ELSE link[j]]
    BY <1>3 DEF Regenerate
  <2>2. project.rev \in sealed /\ project.rev \in Revs
    BY <1>0, <1>3 DEF Regenerate, Types, Newest, LastIssued, Live
  <2>3. \A j \in Links : link'[j] = link[j] \/ link'[j] = Minted(k, project.rev, "SHARE")
          \/ (link'[j] = [link[j] EXCEPT !.state = "REVOKED", !.again = TRUE] /\ link[j].state # "free")
          \/ (link'[j] = [link[j] EXCEPT !.state = "REVOKED"] /\ link[j].state # "free")
    BY <1>3, <2>1 DEF Regenerate, Outstanding
  <2>4. \A j \in Links : /\ link'[j] \in LinkRows
                         /\ link'[j].state # "free" => link'[j].rev \in sealed
                         /\ link[j].state # "free" => link'[j].state # "free"
    <3> TAKE j \in Links
    <3>1. link[j] \in LinkRows /\ (link[j].state # "free" => link[j].rev \in sealed)
      BY <1>0 DEF Issued
    <3>2. Minted(k, project.rev, "SHARE") \in LinkRows /\ Minted(k, project.rev, "SHARE").rev = project.rev
            /\ Minted(k, project.rev, "SHARE").state = "PENDING"
      BY <2>2, RowMinted
    <3>3. CASE link'[j] = link[j]
      BY <3>1, <3>3
    <3>4. CASE link'[j] = Minted(k, project.rev, "SHARE")
      BY <2>2, <3>2, <3>4
    <3>5. CASE link'[j] = [link[j] EXCEPT !.state = "REVOKED", !.again = TRUE] /\ link[j].state # "free"
      <4>1. link'[j] \in LinkRows /\ link'[j].state = "REVOKED" /\ link'[j].rev = link[j].rev
        BY <3>1, <3>5, RowRevoked
      <4> QED
        BY <3>1, <3>5, <4>1
    <3>6. CASE link'[j] = [link[j] EXCEPT !.state = "REVOKED"] /\ link[j].state # "free"
      <4>1. link'[j] \in LinkRows /\ link'[j].state = "REVOKED" /\ link'[j].rev = link[j].rev
        BY <3>1, <3>6, RowRevoked
      <4> QED
        BY <3>1, <3>6, <4>1
    <3> QED
      BY <2>3, <3>3, <3>4, <3>5, <3>6
  <2>5. link' \in [Links -> LinkRows]
    <3>1. link' = [j \in Links |-> link'[j]]
      BY <2>1
    <3> QED
      BY <2>4, <3>1
  <2>6. OnlyLinks
    BY <1>1, <2>4, <2>5 DEF OnlyLinks
  <2> QED
    BY <2>6, OnlyLinksStep
<1> QED
  BY <1>2, <1>3

LEMMA DecideReadStep ==
  ASSUME QuoteInv, NEW q \in Requests, DecideRead(q)
  PROVE  QuoteInv'
<1>0. link \in [Links -> LinkRows]
  BY DEF QuoteInv, Types
<1>1. PICK l \in Links :
        /\ link[l].state \notin {"free", "REVOKED"}
        /\ req' = [req EXCEPT ![q] = [NoRequest EXCEPT !.pc = "decide", !.link = l, !.was = link[l].state]]
  BY DEF DecideRead
<1> DEFINE c == [NoRequest EXCEPT !.pc = "decide", !.link = l, !.was = link[l].state]
<1>2. link[l].state \in LinkStates
  BY <1>0 DEF LinkRows
<1>3. c \in Calls /\ c.pc = "decide" /\ c.link = l
  <2> DEFINE w == link[l].state
  <2> HIDE DEF w
  <2>1. w \in LinkStates
    BY <1>2 DEF w
  <2>2. NoRequest \in Calls
    BY NoRequestIsCall DEF QuoteInv
  <2>3. ASSUME NEW i \in Calls
        PROVE  /\ [i EXCEPT !.pc = "decide", !.link = l, !.was = w] \in Calls
               /\ [i EXCEPT !.pc = "decide", !.link = l, !.was = w].pc = "decide"
               /\ [i EXCEPT !.pc = "decide", !.link = l, !.was = w].link = l
    BY <2>1 DEF Calls, Phases
  <2> QED
    BY <2>2, <2>3 DEF w
<1>4. link' = link /\ UNCHANGED <<project, sealed, choice, office, orders, finished, bought, billed, lock>>
  BY DEF DecideRead
<1> HIDE DEF c
<1>5. req' = [req EXCEPT ![q] = c]
  BY <1>1 DEF c
<1>6. req' \in [Requests -> Calls] /\ req'[q] = c /\ \A p \in Requests : p # q => req'[p] = req[p]
  BY <1>3, <1>5, CallMoves
<1>7. OnlyLinks
  BY <1>1, <1>3, <1>4, <1>6, LinksStay DEF OnlyLinks
<1> QED
  BY <1>7, OnlyLinksStep

\* A decision: the link is that of the current, quoted, unanswered revision.
LEMMA DecideStep ==
  ASSUME QuoteInv, NEW q \in Requests, Decide(q)
  PROVE  QuoteInv'
<1>1. req' \in [Requests -> Calls] /\ req'[q].pc = "idle"
        /\ \A c \in Requests : c # q => req'[c] = req[c]
  BY NoRequestIsCall DEF Decide, QuoteInv, Types, NoRequest
<1>2. CASE UNCHANGED <<choice, link, project>>
  <2>1. OnlyLinks
    BY <1>1, <1>2, LinksStay DEF Decide, OnlyLinks
  <2> QED
    BY <2>1, OnlyLinksStep
<1>3. CASE /\ MayDecide(q)
           /\ \E kind \in {"APPROVED", "DECLINED", "CHANGES_REQUESTED"}, s \in sealed :
               /\ s <= link[req[q].link].rev
               /\ kind = "APPROVED" /\ s # link[req[q].link].rev => ~Committed(s)
               /\ Record(req[q].link, kind, s)
  <2> USE DEF QuoteInv
  <2> DEFINE l == req[q].link
             r == link[l].rev
  <2>1. PICK kind \in {"APPROVED", "DECLINED", "CHANGES_REQUESTED"}, s \in sealed :
               /\ kind = "APPROVED" /\ s # r => ~Committed(s)
               /\ Record(l, kind, s)
    BY <1>3
  <2>2. /\ l \in Links /\ link[l].state # "free" /\ r \in sealed /\ r \in Revs
        /\ project.rev = r /\ project.status = "QUOTED" /\ choice[r].kind = "none"
        /\ r \notin office
        /\ lock = Nobody
    BY <1>3 DEF Decide, At, MayDecide, Issued, Answers, Types
  <2>3. /\ choice' = [choice EXCEPT ![r] = [kind |-> kind, sel |-> s]]
        /\ link' = IF link[l].state = "PENDING" THEN [link EXCEPT ![l].state = kind] ELSE link
        /\ project' = IF kind = "APPROVED" /\ l \notin orphaned
                      THEN [project EXCEPT !.status = "APPROVED"] ELSE project
        /\ UNCHANGED <<sealed, office, orders, finished, bought, billed, lock>>
    BY <2>1 DEF Record, Decide
  <2>4. project'.rev = r /\ project' \in [status : QuoteStates, rev : Revs]
          /\ (project'.status = "QUOTED" \/ (project'.status = "APPROVED" /\ kind = "APPROVED"))
    BY <2>2, <2>3 DEF Types, QuoteStates
  <2>5. link' \in [Links -> LinkRows]
          /\ \A k \in Links : link'[k].rev = link[k].rev /\ (link'[k].state = "free" => link[k].state = "free")
    <3> DEFINE x == [link[l] EXCEPT !.state = kind]
    <3>1. link \in [Links -> LinkRows] /\ link[l] \in LinkRows
      BY <2>2 DEF Types
    <3>2. kind \in LinkStates /\ kind # "free"
      BY DEF LinkStates
    <3>3. x \in LinkRows /\ x.rev = link[l].rev /\ x.state # "free"
      BY <3>1, <3>2 DEF LinkRows
    <3>4. link' = [link EXCEPT ![l] = x] \/ link' = link
      BY <2>3, <3>1
    <3> HIDE DEF x, l
    <3> QED
      BY <2>2, <3>1, <3>3, <3>4
  <2>13. Types'
    <3>1. choice' \in [Revs -> [kind : Kinds, sel : Revs]]
      BY <2>2, <2>3 DEF Types, Kinds
    <3> QED
      BY <1>1, <2>3, <2>4, <2>5, <3>1 DEF Types
  <2>6. Newest'
    BY <2>2, <2>3, <2>4 DEF Newest, LastIssued
  <2>7. Issued'
    <3>1. \A k \in Links : link'[k].state # "free" => link'[k].rev \in sealed'
      BY <2>3, <2>5 DEF Issued
    <3>2. ASSUME NEW c \in Requests PROVE req'[c] = req[c] \/ req'[c].pc = "idle"
      BY <1>1
    <3> QED
      BY <2>3, <2>5, <3>1, <3>2 DEF Issued
  <2>8. choice'[r] = [kind |-> kind, sel |-> s] /\ \A t \in Revs : t # r => choice'[t] = choice[t]
    BY <2>2, <2>3 DEF Types
  <2>9. Answers'
    BY <2>2, <2>3, <2>4, <2>8 DEF Answers, Types
  <2>10. Releasing'
    <3>1. \A c \in Requests : req[c].pc # "release"
      BY <2>2 DEF Types, Releasing
    <3>2. \A c \in Requests : req'[c].pc # "release"
      BY <1>1, <3>1
    <3> QED
      BY <3>2 DEF Releasing
  <2>11. OneAnswer'
    BY <2>2, <2>3, <2>4, <2>8 DEF OneAnswer, Types
  <2>12. CommittedIsChosen'
    BY <2>1, <2>2, <2>3, <2>4, <2>8 DEF CommittedIsChosen, Committed
  <2> QED
    BY <2>13, <2>6, <2>7, <2>9, <2>10, <2>11, <2>12
<1> QED
  BY <1>2, <1>3 DEF Decide

LEMMA ApproveStep ==
  ASSUME QuoteInv, ApproveInternal
  PROVE  QuoteInv'
<1> USE DEF QuoteInv
<1>1. project.rev \in sealed /\ project.rev \in Revs
  BY DEF ApproveInternal, Types, Newest, LastIssued
<1>2. Types'
  <2>1. project' \in [status : QuoteStates, rev : Revs]
    BY DEF ApproveInternal, Types, QuoteStates
  <2>2. link' \in [Links -> LinkRows]
    <3> SUFFICES ASSUME NEW l \in Links PROVE link'[l] \in LinkRows
      BY DEF ApproveInternal
    <3>1. link[l] \in LinkRows
      BY DEF Types
    <3>2. [link[l] EXCEPT !.state = "REVOKED"] \in LinkRows
      BY <3>1 DEF LinkRows, LinkStates
    <3> QED
      BY <3>1, <3>2 DEF ApproveInternal
  <2> QED
    BY <1>1, <2>1, <2>2 DEF ApproveInternal, Types
<1>3. Newest' /\ Releasing'
  BY DEF ApproveInternal, Types, Newest, LastIssued, Releasing
<1>4. Issued'
  BY DEF ApproveInternal, Issued, Types, LinkRows
<1>5. (Answers /\ OneAnswer /\ CommittedIsChosen)'
  BY <1>1 DEF ApproveInternal, Answers, OneAnswer, CommittedIsChosen, Types
<1> QED
  BY <1>2, <1>3, <1>4, <1>5

LEMMA ReleaseReadStep ==
  ASSUME QuoteInv, NEW q \in Requests, ReleaseRead(q)
  PROVE  QuoteInv'
<1> USE DEF QuoteInv
<1>1. Latest = project.rev /\ project.rev \in sealed
  BY LatestIs DEF ReleaseRead, Types, Newest, LastIssued
<1>2. Selected(Latest) \in sealed /\ Selected(Latest) \in Revs
  BY <1>1 DEF Selected, Answers, Types
<1>3. req' = [req EXCEPT ![q] = [NoRequest EXCEPT !.pc = "release", !.rev = Selected(Latest)]]
  BY DEF ReleaseRead
<1>4. [NoRequest EXCEPT !.pc = "release", !.rev = Selected(Latest)] \in Calls
  BY <1>2, NoRequestIsCall DEF Calls, Phases
<1>5. req'[q].pc = "release" /\ req'[q].rev = Selected(Latest)
  BY <1>3 DEF Types, NoRequest
<1>6. Types' /\ Newest'
  BY <1>3, <1>4 DEF ReleaseRead, Types, Newest, LastIssued
<1>7. Issued'
  BY <1>2, <1>3, <1>5 DEF ReleaseRead, Issued, Types
<1>8. Releasing'
  BY <1>1, <1>3, <1>5 DEF ReleaseRead, Releasing, Selected, Types
<1>9. (Answers /\ OneAnswer /\ CommittedIsChosen)'
  BY DEF ReleaseRead, Answers, OneAnswer, CommittedIsChosen
<1> QED
  BY <1>6, <1>7, <1>8, <1>9

LEMMA ReleaseStep ==
  ASSUME QuoteInv, NEW q \in Requests, Release(q)
  PROVE  QuoteInv'
<1> USE DEF QuoteInv
<1>1. req[q].rev \in sealed /\ lock = q
        /\ (choice[project.rev].kind = "APPROVED" => req[q].rev = choice[project.rev].sel)
  BY DEF Release, At, Issued, Releasing
<1>2. req' \in [Requests -> Calls] /\ req'[q].pc = "idle"
        /\ \A c \in Requests : c # q => req'[c] = req[c]
  BY NoRequestIsCall DEF Release, Types, NoRequest
<1>3. /\ project' \in [status : QuoteStates, rev : Revs] /\ project'.rev = project.rev
      /\ project'.status = project.status
         \/ (project'.status = "IN_PRODUCTION" /\ project.status \in Live)
  BY DEF Release, Types, QuoteStates
<1>4. Types'
  BY <1>1, <1>2, <1>3 DEF Release, Types
<1>5. Newest'
  BY <1>3 DEF Release, Newest, LastIssued, Live
<1>6. Issued' /\ Releasing'
  BY <1>1, <1>2 DEF Release, Issued, Releasing, Types
<1>7. Answers' /\ OneAnswer'
  BY <1>3 DEF Release, Answers, OneAnswer, Live
<1>8. CommittedIsChosen'
  BY <1>1, <1>3 DEF Release, CommittedIsChosen
<1> QED
  BY <1>4, <1>5, <1>6, <1>7, <1>8

LEMMA CommitStep ==
  ASSUME QuoteInv, Bill \/ \E r \in Revs : FinishOrders(r) \/ CancelOrders(r) \/ Buy(r) \/ CancelPurchase(r)
  PROVE  QuoteInv'
<1> USE DEF QuoteInv
<1>1. CASE Bill
  <2>1. Latest = LastIssued /\ LastIssued \in sealed
    BY <1>1, LatestIs DEF Bill
  <2>2. Selected(Latest) \in sealed
    BY <2>1 DEF Selected, Answers, Types
  <2>3. ASSUME choice[project.rev].kind = "APPROVED" PROVE Selected(Latest) = choice[project.rev].sel
    <3>1. project.rev \in sealed
      BY <2>3 DEF Answers, Types
    <3>2. LastIssued = project.rev
      BY <3>1 DEF Newest, LastIssued, Types
    <3> QED
      BY <2>1, <2>3, <3>2 DEF Selected
  <2>4. Types' /\ Newest' /\ Issued' /\ Releasing'
    BY <1>1, <2>2 DEF Bill, Types, Newest, LastIssued, Issued, Releasing
  <2>5. (Answers /\ OneAnswer /\ CommittedIsChosen)'
    BY <1>1, <2>3 DEF Bill, Answers, OneAnswer, CommittedIsChosen
  <2> QED
    BY <2>4, <2>5
<1>2. ASSUME NEW r \in Revs, FinishOrders(r) \/ CancelOrders(r) \/ Buy(r) \/ CancelPurchase(r) PROVE QuoteInv'
  <2>1. Types' /\ Newest' /\ Issued' /\ Releasing'
    BY <1>2 DEF FinishOrders, CancelOrders, Buy, CancelPurchase, Types, Newest, LastIssued, Issued, Releasing
  <2>2. (Answers /\ OneAnswer)'
    BY <1>2 DEF FinishOrders, CancelOrders, Buy, CancelPurchase, Answers, OneAnswer
  <2>3. CommittedIsChosen'
    BY <1>2 DEF FinishOrders, CancelOrders, Buy, CancelPurchase, CommittedIsChosen
  <2> QED
    BY <2>1, <2>2, <2>3
<1> QED
  BY <1>1, <1>2

LEMMA NextQuoteInv == QuoteInv /\ [QNext]_quoteVars => QuoteInv'
<1> SUFFICES ASSUME QuoteInv, [QNext]_quoteVars PROVE QuoteInv'
  OBVIOUS
<1>0. req \in [Requests -> Calls]
  BY DEF QuoteInv, Types
<1>1. CASE UNCHANGED quoteVars
  <2>1. OnlyLinks
    BY <1>0, <1>1, LinksStay DEF quoteVars, OnlyLinks
  <2> QED
    BY <2>1, OnlyLinksStep
<1>2. CASE CreatorLeaves
  <2>1. OnlyLinks
    BY <1>0, <1>2, LinksStay DEF CreatorLeaves, OnlyLinks
  <2> QED
    BY <2>1, OnlyLinksStep
<1> QED
  BY <1>1, <1>2, IssueStep, SuccessorStep, ShareStep, RevokeStep, DecideReadStep, DecideStep,
     ApproveStep, ReleaseReadStep, ReleaseStep, CommitStep
  DEF QNext

LEMMA QuoteInvariance == QSpec => []QuoteInv
BY InitQuoteInv, NextQuoteInv, PTL DEF QSpec

\* Rows, links and requests stay well typed, and only issued revisions are
\* approved, built, bought or invoiced.
THEOREM QuoteTyped == QSpec => []QTypeOK
<1>1. QuoteInv => QTypeOK
  BY DEF QuoteInv, Types, QTypeOK, QuoteStates, LinkRows, LinkStates
<1> QED
  BY <1>1, QuoteInvariance, PTL

\* decide and approve_internal never both answer one revision, and a project
\* is approved on the strength of an answer to its current revision.
THEOREM Answered == QSpec => []OneAnswer
<1>1. QuoteInv => OneAnswer
  BY DEF QuoteInv
<1> QED
  BY <1>1, QuoteInvariance, PTL

\* Once a client took an alternative, release_production, purchases and
\* invoices follow it while that offering is current.
THEOREM FollowsChoice == QSpec => []CommittedIsChosen
<1>1. QuoteInv => CommittedIsChosen
  BY DEF QuoteInv
<1> QED
  BY <1>1, QuoteInvariance, PTL

-----------------------------------------------------------------------------
(* The number that a work takes with its first preview (Numbering).        *)
CONSTANTS Projects, Savers, MaxNumber
VARIABLES next, number, save

N == INSTANCE Numbering

\* The next number is of no help: saving may move it back.  What carries the
\* argument is that an assignment looks at the numbers themselves.
Numbered == number \in [Projects -> Int] /\ N!NoClash

\* Nobody has a number.
LEMMA InitNumbered == N!Init => Numbered
BY DEF N!Init, Numbered, N!NoClash

\* The number taken is none of those in use, so it clashes with nobody's.
LEMMA AssignNumbered ==
  ASSUME Numbered, NEW p \in Projects, N!Assign(p)
  PROVE  Numbered'
<1>1. PICK n \in next..(MaxNumber - 1) :
        /\ n \notin N!Used
        /\ number' = [number EXCEPT ![p] = n]
  BY DEF N!Assign
<1>2. \A q \in Projects : number[q] # n
  BY <1>1 DEF N!Used
<1> QED
  BY <1>1, <1>2 DEF Numbered, N!NoClash

LEMMA NextNumbered == Numbered /\ [N!Next]_N!vars => Numbered'
<1> SUFFICES ASSUME Numbered, [N!Next]_N!vars PROVE Numbered'
  OBVIOUS
<1>1. CASE number' = number
  BY <1>1 DEF Numbered, N!NoClash
<1>2. ASSUME NEW p \in Projects, N!Assign(p) PROVE Numbered'
  BY <1>2, AssignNumbered
<1> QED
  BY <1>1, <1>2 DEF N!Next, N!vars, N!SaveRead, N!SaveWrite

\* assign_commercial_number never runs into the unique index, although
\* save_settings may write a next number that is already in use.
THEOREM NumbersDistinct == N!Spec => []N!NoClash
<1>1. N!Spec => []Numbered
  BY InitNumbered, NextNumbered, PTL DEF N!Spec
<1> QED
  BY <1>1, PTL DEF Numbered
=============================================================================
