---------------------------- MODULE JobContract ----------------------------
(***************************************************************************)
(* What the durable job queue promises its callers, without workers,      *)
(* leases or clocks.  A submitted job is open until it is answered; the    *)
(* answer is computed from the input that is stored with the job; a        *)
(* successful answer is final; a failed job reopens only through a new     *)
(* submission, with a fresh budget of starts.                              *)
(***************************************************************************)
EXTENDS Naturals

CONSTANTS Jobs,       \* (organisation, type, idempotency key)
          Payloads,   \* validated inputs
          Budgets,    \* how often one submission may be started
          None        \* "no value yet"

VARIABLES status,  \* status[j]: none, open, done or failed
          input,   \* input[j]: the input of the last submission
          output,  \* output[j]: the input the stored answer was computed from
          starts,  \* starts[j]: executions begun since that submission
          budget   \* budget[j]: the starts that submission allows

vars == <<status, input, output, starts, budget>>

Init ==
  /\ status = [j \in Jobs |-> "none"]
  /\ input = [j \in Jobs |-> None]
  /\ output = [j \in Jobs |-> None]
  /\ starts = [j \in Jobs |-> 0]
  /\ budget = [j \in Jobs |-> 0]

\* A job is created, or a failed one reopened, by a caller.
Submit(j) ==
  /\ status[j] \in {"none", "failed"}
  /\ status' = [status EXCEPT ![j] = "open"]
  /\ \E p \in Payloads : input' = [input EXCEPT ![j] = p]
  /\ \E m \in Budgets : budget' = [budget EXCEPT ![j] = m]
  /\ output' = [output EXCEPT ![j] = None]
  /\ starts' = [starts EXCEPT ![j] = 0]

Start(j) ==
  /\ status[j] = "open"
  /\ starts[j] < budget[j]
  /\ starts' = [starts EXCEPT ![j] = @ + 1]
  /\ UNCHANGED <<status, input, output, budget>>

Answer(j) ==
  /\ status[j] = "open"
  /\ starts[j] > 0
  /\ status' = [status EXCEPT ![j] = "done"]
  /\ output' = [output EXCEPT ![j] = input[j]]
  /\ UNCHANGED <<input, starts, budget>>

\* Several jobs may be given up in one step: one sweep finds every expired
\* lease.
GiveUp(S) ==
  /\ \A j \in S : status[j] = "open" /\ starts[j] > 0
  /\ status' = [j \in Jobs |-> IF j \in S THEN "failed" ELSE status[j]]
  /\ UNCHANGED <<input, output, starts, budget>>

Next ==
  \/ \E j \in Jobs : Submit(j) \/ Start(j) \/ Answer(j)
  \/ \E S \in SUBSET Jobs : GiveUp(S)

Spec == Init /\ [][Next]_vars
=============================================================================
