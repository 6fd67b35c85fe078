--------------------------- MODULE MCFieldOutbox ---------------------------
(* The field outbox on four devices: one tab with a fault and an erasure,  *)
(* two tabs that share two commands, one tab that changes organization,    *)
(* and two tabs of which one erases.                                       *)
EXTENDS FieldOutbox

Device(tabs, orgs, n, c, f, q) ==
  [tabs |-> tabs, orgs |-> orgs, commands |-> n, clears |-> c, faults |-> f, queue |-> q,
   tab |-> CHOOSE t \in tabs : TRUE,
   scope |-> CHOOSE s \in FieldScopes : s[2] \in orgs]

MCFleet ==
  LET t == CHOOSE x \in Tabs : TRUE
      o == CHOOSE x \in FieldOrgs : TRUE
  IN {Device({t}, {o}, 2, 1, 1, 1), Device(Tabs, {o}, 2, 0, 0, 1),
      Device({t}, FieldOrgs, 1, 1, 1, 2), Device(Tabs, {o}, 1, 1, 0, 1)}
=============================================================================
