---------------------------- MODULE FieldOutbox ----------------------------
(***************************************************************************)
(* The offline outbox of the field page (frontend/src/features/field):     *)
(* an agenda copy and a list of commands kept in IndexedDB for one actor   *)
(* in one organization, sent in order when there is signal, and erased     *)
(* when the actor leaves.  Several tabs share the database; the generation *)
(* counters and the flush lock live in the memory of each tab.             *)
(*                                                                         *)
(* A command is a number: the order of the enqueue calls, which is the     *)
(* order of savedAt.  The transactions a tab opens run in the order of its *)
(* open() calls; those of two tabs interleave.                             *)
(***************************************************************************)
EXTENDS Integers, Sequences, FiniteSets

CONSTANTS
  Tabs,        \* browser tabs on the same IndexedDB
  Actors,      \* users of the device
  FieldOrgs,   \* organizations
  MaxCommands, \* bound on enqueue calls
  Fleet,       \* the devices considered, each a member of Devices
  NoScope      \* no field page context

FieldScopes == Actors \X FieldOrgs
Ids         == 1..MaxCommands

(* A device: the tabs open on it, the organizations its users belong to,   *)
(* and the bounds on enqueue calls, on clearActor and clearScope calls, on *)
(* faults (reloads, aborts, lost replies, context changes) and on the      *)
(* transactions a tab has open.  tab and scope are the flush that fairness *)
(* and FlushEnds follow.                                                   *)
Devices == [tabs : SUBSET Tabs, orgs : SUBSET FieldOrgs, commands : 0..MaxCommands,
            clears : Nat, faults : Nat, queue : Nat, tab : Tabs, scope : FieldScopes]

ASSUME CommandsAssumption == MaxCommands \in Nat
ASSUME FleetAssumption ==
  Fleet # {} /\ \A w \in Fleet : w \in Devices /\ w.scope[2] \in w.orgs
ASSUME ScopeAssumption == NoScope \notin FieldScopes

VARIABLES
  copies,   \* object store "copies": the scopes that have an agenda copy
  stored,   \* object store "commands": the rows present
  failure,  \* failureStatus of a row: none, retry (uncertain) or rejected
  db,       \* per tab, the transactions opened and not yet finished
  gen,      \* per tab, actorGeneration and scopeGeneration
  page,     \* per tab, the actor and organization whose context is resolved:
            \* isLive() compares with it
  header,   \* per tab, the organization apiMutator reads from the session
  flushes,  \* per tab and scope, the flush under way
  call,     \* per command, how far its enqueue call is
  stray,    \* requests the client gave up on and the network still holds
  receipts, \* field_receipts of the server
  access,   \* the scopes whose membership and assignment are in force
  clears,   \* clear calls made so far
  faults,   \* faults so far
  device,   \* the device; it never changes
  \* what happened, for the properties
  owner,     \* the scope a command was enqueued in
  tabOf,     \* the tab that enqueued it
  prior,     \* the commands reported saved when its enqueue was called
  count,     \* times the server applied it
  discarded, \* rows the user discarded
  erased,    \* reported rows deleted by a clear called after their report,
             \* or by a clear of another tab
  cleanBy    \* per scope, tabs that called a clear with no later write call

store   == <<copies, stored, failure, db, gen>>
context == <<page, header>>
server  == <<stray, receipts, access, count>>
bounds  == <<clears, faults, device>>
history == <<owner, tabOf, prior, discarded, erased, cleanBy>>
fieldVars == <<store, context, flushes, call, server, bounds, history>>

Idle == [pc |-> "idle", todo |-> {}, item |-> 0, answer |-> "none"]

(* The tuple generation() formats: the actor's and the scope's counters.   *)
Stamp(t, s) == <<gen[t].actor[s[1]], gen[t].scope[s]>>

MineIn(s, ids) == {i \in ids : owner[i] = s}
Earliest(ids)  == CHOOSE i \in ids : \A j \in ids : i <= j

CanOpen(t) == Len(db[t]) < device.queue
Opened(t, tx) == [db EXCEPT ![t] = Append(@, tx)]

(* Every fault counts against one bound.                                   *)
Fault == faults < device.faults /\ faults' = faults + 1 /\ UNCHANGED device

FieldInit ==
  /\ copies = {} /\ stored = {}
  /\ failure = [i \in Ids |-> "none"]
  /\ db = [t \in Tabs |-> << >>]
  /\ gen = [t \in Tabs |-> [actor |-> [a \in Actors |-> 0],
                            scope |-> [s \in FieldScopes |-> 0]]]
  /\ page = [t \in Tabs |-> NoScope]
  /\ device \in Fleet
  /\ header = [t \in Tabs |-> device.scope[2]]
  /\ flushes = [t \in Tabs |-> [s \in FieldScopes |-> Idle]]
  /\ call = [i \in Ids |-> "none"]
  /\ stray = {} /\ receipts = {}
  /\ access = FieldScopes
  /\ clears = 0 /\ faults = 0
  /\ owner = [i \in Ids |-> NoScope]
  /\ tabOf = [i \in Ids |-> NoScope]
  /\ prior = [i \in Ids |-> {}]
  /\ count = [i \in Ids |-> 0]
  /\ discarded = {} /\ erased = {}
  /\ cleanBy = [s \in FieldScopes |-> {}]

----------------------------------------------------------------------------
(* The page and its session, as the provider changes them.                 *)

(* The context resolves: the page works for a scope and the header with it. *)
Enter(t, s) ==
  /\ page[t] = NoScope /\ t \in device.tabs /\ s[2] \in device.orgs
  /\ page' = [page EXCEPT ![t] = s]
  /\ header' = [header EXCEPT ![t] = s[2]]
  /\ UNCHANGED <<store, flushes, call, server, bounds, history>>

(* A session event re-reads the selection another tab has stored, before   *)
(* the page learns of it.                                                  *)
Reselect(t, o) ==
  /\ page[t] # NoScope /\ o \in device.orgs
  /\ header' = [header EXCEPT ![t] = o]
  /\ Fault
  /\ UNCHANGED <<store, page, flushes, call, server, clears, history>>

(* clearActor and clearScope bump the generation and open the transaction. *)
(* Sign-out clears with the page still there; a change of actor or of      *)
(* organization leaves the page first.                                     *)
ClearTx(t, which) ==
  [kind |-> "clear", which |-> which, saved |-> {i \in Ids : call[i] = "saved"}]

BeginClear(t, which, bumped, leave) ==
  /\ CanOpen(t) /\ clears < device.clears
  /\ clears' = clears + 1
  /\ gen' = [gen EXCEPT ![t] = bumped]
  /\ db' = Opened(t, ClearTx(t, which))
  /\ page' = IF leave THEN [page EXCEPT ![t] = NoScope] ELSE page
  /\ cleanBy' = [s \in FieldScopes |-> IF s \in which THEN cleanBy[s] \cup {t} ELSE cleanBy[s]]
  /\ UNCHANGED <<copies, stored, failure, header, flushes, call, server, faults, device,
                 owner, tabOf, prior, discarded, erased>>

clearActor(t, leave) ==
  /\ page[t] # NoScope
  /\ LET a == page[t][1] IN
     BeginClear(t, {s \in FieldScopes : s[1] = a},
                [gen[t] EXCEPT !.actor[a] = @ + 1], leave)

clearScope(t, leave) ==
  /\ page[t] # NoScope
  /\ BeginClear(t, {page[t]}, [gen[t] EXCEPT !.scope[page[t]] = @ + 1], leave)

(* A clear that never commits has erased nothing.                          *)
Unclean(t, txs) ==
  [s \in FieldScopes |-> IF \E k \in 1..Len(txs) : txs[k].kind = "clear" /\ s \in txs[k].which
                          THEN cleanBy[s] \ {t} ELSE cleanBy[s]]

(* The tab is closed or reloaded: what it held in memory is gone, the rows *)
(* of IndexedDB are not.                                                   *)
Reload(t) ==
  /\ t \in device.tabs /\ Fault
  /\ db' = [db EXCEPT ![t] = << >>]
  /\ gen' = [gen EXCEPT ![t] = [actor |-> [a \in Actors |-> 0],
                                scope |-> [s \in FieldScopes |-> 0]]]
  /\ flushes' = [flushes EXCEPT ![t] = [s \in FieldScopes |-> Idle]]
  /\ call' = [i \in Ids |-> IF tabOf[i] = t /\ call[i] = "open"
                              THEN "dead" ELSE call[i]]
  /\ stray' = stray \cup {flushes[t][s].item : s \in {r \in FieldScopes :
                /\ flushes[t][r].pc = "sent" /\ flushes[t][r].answer = "none"}}
  /\ page' = [page EXCEPT ![t] = NoScope]
  /\ cleanBy' = Unclean(t, db[t])
  /\ UNCHANGED <<copies, stored, failure, header, receipts, access, count, clears,
                 owner, tabOf, prior, discarded, erased>>

----------------------------------------------------------------------------
(* Writes: the agenda copy of a load, and a command.                       *)

(* A fresh agenda arrives while the page is live: saveCopy takes its stamp *)
(* and opens the transaction.                                              *)
saveCopy(t) ==
  /\ page[t] # NoScope /\ CanOpen(t)
  /\ LET s == page[t] IN
     /\ db' = Opened(t, [kind |-> "copy", id |-> 0, scope |-> s, stamp |-> Stamp(t, s),
                       write |-> "undecided"])
     /\ cleanBy' = [cleanBy EXCEPT ![s] = {}]
  /\ UNCHANGED <<copies, stored, failure, gen, context, flushes, call, server,
                 bounds, owner, tabOf, prior, discarded, erased>>

(* The next command: its key and savedAt are taken before the transaction. *)
Fresh(i) == i <= device.commands /\ call[i] = "none" /\ \A j \in Ids : j < i => call[j] # "none"

enqueue(t, i) ==
  /\ page[t] # NoScope /\ CanOpen(t) /\ Fresh(i)
  /\ LET s == page[t] IN
     /\ call' = [call EXCEPT ![i] = "open"]
     /\ owner' = [owner EXCEPT ![i] = s]
     /\ tabOf' = [tabOf EXCEPT ![i] = t]
     /\ prior' = [prior EXCEPT ![i] = {j \in Ids : call[j] = "saved" /\ owner[j] = s}]
     /\ db' = Opened(t, [kind |-> "add", id |-> i, scope |-> s, stamp |-> Stamp(t, s),
                       write |-> "undecided"])
     /\ cleanBy' = [cleanBy EXCEPT ![s] = {}]
  /\ UNCHANGED <<copies, stored, failure, gen, context, flushes, server, bounds,
                 discarded, erased>>

----------------------------------------------------------------------------
(* The transactions.  Each one runs when it is the oldest of its tab; the  *)
(* continuation of its caller runs with it, before any other event of the  *)
(* tab.  A write compares its stamp when the transaction starts, some time *)
(* before it completes.                                                    *)

Running(t, kind) == db[t] # << >> /\ Head(db[t]).kind = kind
Done(t) == [db EXCEPT ![t] = Tail(@)]
Then(t, tx) == [db EXCEPT ![t] = Append(Tail(@), tx)]

Decided(t, tx) ==
  [kind |-> tx.kind, id |-> tx.id, scope |-> tx.scope, stamp |-> tx.stamp,
   write |-> IF tx.stamp = Stamp(t, tx.scope) THEN "put" ELSE "get"]

StartWrite(t) ==
  /\ Running(t, "copy") \/ Running(t, "add")
  /\ LET tx == Head(db[t]) IN
     /\ tx.write = "undecided"
     /\ db' = [db EXCEPT ![t] = <<Decided(t, tx)>> \o Tail(@)]
  /\ UNCHANGED <<copies, stored, failure, gen, context, flushes, call, server, bounds, history>>

CommitCopy(t) ==
  /\ Running(t, "copy") /\ Head(db[t]).write # "undecided"
  /\ LET tx == Head(db[t]) IN
     copies' = IF tx.write = "put" THEN copies \cup {tx.scope} ELSE copies
  /\ db' = Done(t)
  /\ UNCHANGED <<stored, failure, gen, context, flushes, call, server, bounds, history>>

\* MUTANT: the generation is not compared again after the write.
ToldSaved(t, tx) == "saved"

(* add, never put.  The stamp is compared again before the caller is told  *)
(* that the command is saved.                                              *)
Told(t, tx) == IF tx.stamp = Stamp(t, tx.scope) THEN "saved" ELSE "refused"

CommitAdd(t) ==
  /\ Running(t, "add") /\ Head(db[t]).write # "undecided"
  /\ LET tx == Head(db[t]) IN
     /\ stored' = IF tx.write = "put" THEN stored \cup {tx.id} ELSE stored
     /\ call' = [call EXCEPT ![tx.id] = Told(t, tx)]
  /\ db' = Done(t)
  /\ UNCHANGED <<copies, failure, gen, context, flushes, server, bounds, history>>

(* clearMatching deletes from both stores in one transaction.              *)
CommitClear(t) ==
  /\ Running(t, "clear")
  /\ LET tx   == Head(db[t])
         gone == {i \in stored : owner[i] \in tx.which}
     IN /\ copies' = copies \ tx.which
        /\ stored' = stored \ gone
        /\ erased' = erased \cup {i \in gone : i \in tx.saved \/ tabOf[i] # t}
  /\ db' = Done(t)
  /\ UNCHANGED <<failure, gen, context, flushes, call, server, bounds,
                 owner, tabOf, prior, discarded, cleanBy>>

(* A transaction aborts (storage full): the write is not done, the flush   *)
(* that asked for it ends, the caller is told.                             *)
Abort(t) ==
  /\ db[t] # << >> /\ Fault
  /\ LET tx == Head(db[t]) IN
     /\ call' = IF tx.kind = "add" THEN [call EXCEPT ![tx.id] = "refused"] ELSE call
     /\ IF tx.kind = "delete"
          THEN /\ db' = Then(t, [kind |-> "mark", id |-> tx.id, scope |-> tx.scope,
                                  status |-> "retry"])
               /\ UNCHANGED flushes
          ELSE /\ db' = Done(t)
               /\ flushes' = IF tx.kind \in {"list", "mark"}
                               THEN [flushes EXCEPT ![t][tx.scope] = Idle] ELSE flushes
     /\ cleanBy' = Unclean(t, <<tx>>)
  /\ UNCHANGED <<copies, stored, failure, gen, context, server, clears,
                 owner, tabOf, prior, discarded, erased>>

----------------------------------------------------------------------------
(* flush: one per tab and scope, oldest first, stopping at a failure.      *)

BeginFlush(t) ==
  /\ page[t] # NoScope /\ CanOpen(t)
  /\ flushes[t][page[t]].pc = "idle"
  /\ flushes' = [flushes EXCEPT ![t][page[t]] = [Idle EXCEPT !.pc = "list"]]
  /\ db' = Opened(t, [kind |-> "list", scope |-> page[t]])
  /\ UNCHANGED <<copies, stored, failure, gen, context, call, server, bounds, history>>

CommitList(t) ==
  /\ Running(t, "list")
  /\ LET s == Head(db[t]).scope IN
     flushes' = [flushes EXCEPT ![t][s] = [Idle EXCEPT !.pc = "loop",
                                                       !.todo = MineIn(s, stored)]]
  /\ db' = Done(t)
  /\ UNCHANGED <<copies, stored, failure, gen, context, call, server, bounds, history>>

(* Nothing is left to send, or there is no signal or no live context.      *)
EndFlush(t, s) ==
  /\ flushes[t][s].pc = "loop"
  /\ flushes' = [flushes EXCEPT ![t][s] = Idle]
  /\ UNCHANGED <<store, context, call, server, bounds, history>>

(* The request leaves under the header of its scope, or apiMutator refuses *)
(* it as stale_organization (409) without sending it.                      *)
Send(t, s) ==
  /\ flushes[t][s].pc = "loop" /\ flushes[t][s].todo # {} /\ page[t] = s
  /\ LET i == Earliest(flushes[t][s].todo)
         rest == flushes[t][s].todo \ {i}
     IN IF header[t] = s[2]
          THEN /\ flushes' = [flushes EXCEPT ![t][s] =
                     [pc |-> "sent", todo |-> rest, item |-> i, answer |-> "none"]]
               /\ UNCHANGED db
          ELSE /\ flushes' = [flushes EXCEPT ![t][s] =
                     [pc |-> "store", todo |-> rest, item |-> i, answer |-> "none"]]
               /\ db' = Opened(t, [kind |-> "mark", id |-> i, scope |-> s,
                                   status |-> "rejected"])
  /\ UNCHANGED <<copies, stored, failure, gen, context, call, server, bounds, history>>

(* command(): authorization precedes even a replay; a receipt answers a    *)
(* replay; otherwise the command is applied with its receipt, or refused.  *)
Handle(i, answer) ==
  \/ /\ owner[i] \notin access
     /\ answer = "rejected" /\ UNCHANGED <<receipts, count>>
  \/ /\ owner[i] \in access /\ i \in receipts
     /\ answer = "ok" /\ UNCHANGED <<receipts, count>>
  \/ /\ owner[i] \in access /\ i \notin receipts
     /\ answer = "ok"
     /\ receipts' = receipts \cup {i}
     /\ count' = [count EXCEPT ![i] = @ + 1]
  \/ /\ owner[i] \in access /\ i \notin receipts
     /\ answer = "rejected" /\ UNCHANGED <<receipts, count>>

Serve(t, s) ==
  /\ flushes[t][s].pc = "sent" /\ flushes[t][s].answer = "none"
  /\ \E answer \in {"ok", "rejected"} :
       /\ Handle(flushes[t][s].item, answer)
       /\ flushes' = [flushes EXCEPT ![t][s].answer = answer]
  /\ UNCHANGED <<store, context, call, stray, access, bounds, history>>

ServeStray(i) ==
  /\ i \in stray
  /\ stray' = stray \ {i}
  /\ \E answer \in {"ok", "rejected"} : Handle(i, answer)
  /\ UNCHANGED <<store, context, flushes, call, access, bounds, history>>

(* Membership or assignment granted or withdrawn by the office.            *)
Reassign(s) ==
  /\ access' = IF s \in access THEN access \ {s} ELSE access \cup {s}
  /\ s[2] \in device.orgs
  /\ IF s \in access THEN Fault ELSE UNCHANGED <<faults, device>>
  /\ UNCHANGED <<store, context, flushes, call, stray, receipts, count, clears, history>>

(* The answer arrives: a receipt deletes the row, a refusal marks it.      *)
Receive(t, s) ==
  /\ flushes[t][s].pc = "sent" /\ flushes[t][s].answer # "none"
  /\ LET i == flushes[t][s].item IN
     db' = Opened(t, IF flushes[t][s].answer = "ok"
                       THEN [kind |-> "delete", id |-> i, scope |-> s]
                       ELSE [kind |-> "mark", id |-> i, scope |-> s, status |-> "rejected"])
  /\ flushes' = [flushes EXCEPT ![t][s].pc = "store"]
  /\ UNCHANGED <<copies, stored, failure, gen, context, call, server, bounds, history>>

(* The connection drops: the request may be lost, handled already, or      *)
(* still on its way.                                                       *)
Lose(t, s) ==
  /\ flushes[t][s].pc = "sent" /\ Fault
  /\ LET i == flushes[t][s].item IN
     /\ db' = Opened(t, [kind |-> "mark", id |-> i, scope |-> s, status |-> "retry"])
     /\ \/ UNCHANGED stray
        \/ flushes[t][s].answer = "none" /\ stray' = stray \cup {i}
  /\ flushes' = [flushes EXCEPT ![t][s].pc = "store"]
  /\ UNCHANGED <<copies, stored, failure, gen, context, call, receipts, access, count,
                 clears, history>>

CommitDelete(t) ==
  /\ Running(t, "delete")
  /\ LET tx == Head(db[t]) IN
     /\ stored' = stored \ {tx.id}
     /\ flushes' = [flushes EXCEPT ![t][tx.scope].pc = "loop"]
  /\ db' = Done(t)
  /\ UNCHANGED <<copies, failure, gen, context, call, server, bounds, history>>

(* markFailed, and what its flush does next.                               *)
Marked(t, rows, after) ==
  /\ Running(t, "mark")
  /\ LET tx == Head(db[t]) IN
     /\ failure' = IF tx.id \in rows THEN [failure EXCEPT ![tx.id] = tx.status] ELSE failure
     /\ flushes' = [flushes EXCEPT ![t][tx.scope] =
                    IF after = "idle" THEN Idle ELSE [@ EXCEPT !.pc = after]]
  /\ stored' = rows
  /\ db' = Done(t)
  /\ UNCHANGED <<copies, gen, context, call, server, bounds, history>>

\* MUTANT: the failure is written with put, whether or not the row is there.
CommitMarkPut(t) == Running(t, "mark") /\ Marked(t, stored \cup {Head(db[t]).id}, "idle")

\* MUTANT: a failed command does not stop the flush.
CommitMarkGoOn(t) == Marked(t, stored, "loop")

\* MUTANT: the lock is kept when the flush throws.
CommitMarkLocked(t) == Marked(t, stored, "store")

(* It never recreates a row, and the flush ends by throwing.               *)
CommitMark(t) == Marked(t, stored, "idle")

----------------------------------------------------------------------------
(* discardRejected: reads the row, then deletes it in a transaction of its *)
(* own.  The page offers it while no sync of the tab is busy.              *)

discardRejected(t, i) ==
  /\ page[t] # NoScope /\ CanOpen(t)
  /\ i \in MineIn(page[t], stored) /\ failure[i] = "rejected"
  /\ flushes[t][page[t]].pc = "idle"
  /\ db' = Opened(t, [kind |-> "check", id |-> i])
  /\ UNCHANGED <<copies, stored, failure, gen, context, flushes, call, server, bounds, history>>

CommitCheck(t) ==
  /\ Running(t, "check")
  /\ LET i == Head(db[t]).id IN
     db' = IF i \in stored /\ failure[i] = "rejected"
             THEN Then(t, [kind |-> "drop", id |-> i]) ELSE Done(t)
  /\ UNCHANGED <<copies, stored, failure, gen, context, flushes, call, server, bounds, history>>

CommitDrop(t) ==
  /\ Running(t, "drop")
  /\ LET i == Head(db[t]).id IN
     /\ stored' = stored \ {i}
     /\ discarded' = IF i \in stored THEN discarded \cup {i} ELSE discarded
  /\ db' = Done(t)
  /\ UNCHANGED <<copies, failure, gen, context, flushes, call, server, bounds,
                 owner, tabOf, prior, erased, cleanBy>>

----------------------------------------------------------------------------
Commit(t) ==
  \/ StartWrite(t) \/ CommitCopy(t) \/ CommitAdd(t) \/ CommitClear(t)
  \/ CommitList(t) \/ CommitDelete(t) \/ CommitMark(t)
  \/ CommitCheck(t) \/ CommitDrop(t)

FieldNext ==
  \/ \E t \in Tabs :
       \/ Commit(t) \/ Abort(t) \/ Reload(t)
       \/ saveCopy(t) \/ BeginFlush(t)
       \/ \E leave \in BOOLEAN : clearActor(t, leave) \/ clearScope(t, leave)
       \/ \E o \in FieldOrgs : Reselect(t, o)
       \/ \E i \in Ids : enqueue(t, i) \/ discardRejected(t, i)
       \/ \E s \in FieldScopes : \/ Enter(t, s) \/ EndFlush(t, s) \/ Send(t, s)
                                 \/ Serve(t, s) \/ Receive(t, s) \/ Lose(t, s)
  \/ \E i \in Ids : ServeStray(i)
  \/ \E s \in FieldScopes : Reassign(s)

FieldSpec == FieldInit /\ [][FieldNext]_fieldVars

(* Fairness: a transaction that started ends, a fetch answers or fails,    *)
(* and the loop of a flush goes on.  Tabs and scopes are alike: it is      *)
(* stated for the flush the device follows.                                *)
Loops(t, s)   == Send(t, s) \/ EndFlush(t, s)
Fetches(t, s) == Serve(t, s) \/ Receive(t, s) \/ Lose(t, s)

FieldFairSpec ==
  /\ FieldSpec
  /\ WF_fieldVars(Commit(device.tab))
  /\ WF_fieldVars(Loops(device.tab, device.scope))
  /\ WF_fieldVars(Fetches(device.tab, device.scope))

----------------------------------------------------------------------------
(* The transactions a tab may have open: a write of the agenda copy or of  *)
(* a command, an erasure, and those of a flush and of a discard.           *)
Writes       == [kind : {"copy", "add"}, id : Nat, scope : FieldScopes,
                 stamp : Nat \X Nat, write : {"undecided", "put", "get"}]
Erasures     == [kind : {"clear"}, which : SUBSET FieldScopes, saved : SUBSET Ids]
Lists        == [kind : {"list"}, scope : FieldScopes]
Deletes      == [kind : {"delete"}, id : Ids, scope : FieldScopes]
Marks        == [kind : {"mark"}, id : Ids, scope : FieldScopes, status : {"retry", "rejected"}]
Checks       == [kind : {"check", "drop"}, id : Ids]
Transactions == Writes \cup Erasures \cup Lists \cup Deletes \cup Marks \cup Checks

FlushRows == [pc : {"idle", "list", "loop", "sent", "store"}, todo : SUBSET Ids,
              item : Nat, answer : {"none", "ok", "rejected"}]

FieldTypeOK ==
  /\ copies \subseteq FieldScopes /\ stored \subseteq Ids
  /\ failure \in [Ids -> {"none", "retry", "rejected"}]
  /\ db \in [Tabs -> Seq(Transactions)]
  /\ gen \in [Tabs -> [actor : [Actors -> Nat], scope : [FieldScopes -> Nat]]]
  /\ page \in [Tabs -> FieldScopes \cup {NoScope}]
  /\ header \in [Tabs -> FieldOrgs] /\ device \in Fleet
  /\ flushes \in [Tabs -> [FieldScopes -> FlushRows]]
  /\ call \in [Ids -> {"none", "open", "saved", "refused", "dead"}]
  /\ stray \subseteq Ids /\ receipts \subseteq Ids /\ access \subseteq FieldScopes
  /\ clears \in Nat /\ faults \in Nat
  /\ owner \in [Ids -> FieldScopes \cup {NoScope}] /\ tabOf \in [Ids -> Tabs \cup {NoScope}]
  /\ prior \in [Ids -> SUBSET Ids] /\ count \in [Ids -> Nat]
  /\ discarded \subseteq Ids /\ erased \subseteq Ids
  /\ cleanBy \in [FieldScopes -> SUBSET Tabs]

Erasing(s) == \E t \in Tabs : \E k \in 1..Len(db[t]) :
  db[t][k].kind = "clear" /\ s \in db[t][k].which

(* What outbox.ts keeps is private to the actor and the organization: once *)
(* every tab has finished erasing a scope, and until someone works in it   *)
(* again, nothing of it is stored - no late reply, failed receipt or write *)
(* opened before the erasure brings it back (outbox.ts 121-180).           *)
ErasedStaysErased ==
  \A s \in FieldScopes :
    cleanBy[s] = device.tabs /\ ~Erasing(s) => s \notin copies /\ MineIn(s, stored) = {}

(* A command the page was told is saved (enqueue returned) is never lost   *)
(* in silence: it is stored, or the server holds its receipt, or the user  *)
(* discarded it, or an erasure asked for after the report deleted it.      *)
NoSilentLoss ==
  \A i \in Ids : call[i] = "saved" => i \in stored \cup receipts \cup discarded \cup erased

(* Ordered causality (outbox.ts 199): the server never applies a command   *)
(* while an earlier one, already saved when it was recorded, is still      *)
(* waiting; from whichever tab either of them is sent.                     *)
CausalOrder ==
  \A j \in Ids : \A i \in prior[j] :
    count[j] > 0 => count[i] > 0 \/ i \in discarded \cup erased

(* A flush always ends, so the lock of its scope is always released        *)
(* (outbox.ts 185-208).                                                    *)
FlushEnds ==
  LET pc == flushes[device.tab][device.scope].pc IN pc # "idle" ~> pc = "idle"
=============================================================================
