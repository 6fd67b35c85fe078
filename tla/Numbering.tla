----------------------------- MODULE Numbering -----------------------------
(***************************************************************************)
(* Commercial numbers of quotations: a work takes the next free number with *)
(* its first preview, and the company may change the next number meanwhile. *)
(* An assignment holds the organisation's row (a concurrent change of that  *)
(* row makes it start over), saving checks before it writes.                *)
(***************************************************************************)
EXTENDS Integers

CONSTANTS
    Projects,   \* works of one company
    Savers,     \* requests that save the numbering settings
    MaxNumber   \* the CHECK of quotation_next_number

VARIABLES
    next,    \* tenancy_organizations.quotation_next_number
    number,  \* [Projects -> commercial_number], 0 when there is none
    save     \* [Savers -> the number being saved], 0 when idle

vars == <<next, number, save>>

Init ==
    /\ next = 1
    /\ number = [p \in Projects |-> 0]
    /\ save = [s \in Savers |-> 0]

Used == {number[p] : p \in Projects}

\* assign_commercial_number: the first free number from the next one on.
Assign(p) ==
    /\ number[p] = 0
    /\ \E n \in next..(MaxNumber - 1) :
         /\ n \notin Used /\ \A m \in next..(n - 1) : m \in Used
         /\ number' = [number EXCEPT ![p] = n]
         /\ next' = n + 1
    /\ UNCHANGED save

\* save_settings compares with the highest number assigned so far.
SaveRead(s) ==
    /\ save[s] = 0
    /\ \E v \in 1..MaxNumber :
         /\ \A p \in Projects : number[p] < v
         /\ save' = [save EXCEPT ![s] = v]
    /\ UNCHANGED <<next, number>>

SaveWrite(s) ==
    /\ save[s] # 0
    /\ next' = save[s]
    /\ save' = [save EXCEPT ![s] = 0]
    /\ UNCHANGED number

Next ==
    \/ \E p \in Projects : Assign(p)
    \/ \E s \in Savers : SaveRead(s) \/ SaveWrite(s)

Spec == Init /\ [][Next]_vars

----------------------------------------------------------------------------

\* Two works never share a number, whatever was saved and when: an assignment
\* never runs into the unique index projects_commercial_number_per_org.
NoClash ==
    \A p, q \in Projects : number[p] # 0 /\ number[p] = number[q] => p = q

=============================================================================
