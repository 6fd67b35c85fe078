----------------------------- MODULE Quotation -----------------------------
(***************************************************************************)
(* An issued quotation and what may be done on the strength of it: approval *)
(* links are shared, revoked and regenerated, a client answers through one  *)
(* of them, staff may record an approval of their own, a successor revision *)
(* may be opened, and production, purchases and invoices commit to one of   *)
(* the revisions.                                                           *)
(*                                                                         *)
(* A decision, an internal approval, a release, a purchase and an invoice   *)
(* take the project's quote lock (lock_quote); links are shared and revoked *)
(* and successors opened without it.  A revision is its number.             *)
(*                                                                         *)
(* The specification's own names begin with Q: CustomerProofs extends this  *)
(* module beside MailOutbox.                                                *)
(***************************************************************************)
EXTENDS Integers, FiniteSets

CONSTANTS
    MaxRev,    \* bound: revisions issued
    Links,     \* approval links that may be minted
    Requests,  \* requests in flight
    Nobody     \* no holder of the quote lock, no link

ASSUME RevAssumption == MaxRev \in Nat \ {0} /\ Nobody \notin Requests \cup Links

Revs == 1..MaxRev

VARIABLES
    project,   \* status and current_revision of the projects row
    sealed,    \* revisions with a project_versions row
    link,      \* [Links -> customer_approvals row]
    orphaned,  \* links whose creator is no longer a member
    choice,    \* [Revs -> quote_decisions row of the offering]
    office,    \* revisions approved by staff
    orders,    \* revisions with work orders that are not cancelled
    finished,  \* those of them whose orders are all finished
    bought,    \* revisions with live purchase orders
    billed,    \* revisions with an invoice
    req,       \* [Requests -> what a request has read so far]
    lock       \* holder of the quote lock across steps

quoteVars == <<project, sealed, link, orphaned, choice, office, orders, finished, bought, billed, req, lock>>

Free == [state |-> "free", rev |-> 1, source |-> "SHARE", again |-> FALSE]

NoChoice == [kind |-> "none", sel |-> 1]

NoRequest == [pc |-> "idle", link |-> Nobody, was |-> "free", rev |-> 1, seen |-> {}]

QInit ==
    /\ project = [status |-> "DRAFT", rev |-> 1]
    /\ sealed = {}
    /\ link = [l \in Links |-> Free]
    /\ orphaned = {}
    /\ choice = [r \in Revs |-> NoChoice]
    /\ office = {} /\ orders = {} /\ finished = {} /\ bought = {} /\ billed = {}
    /\ req = [q \in Requests |-> NoRequest]
    /\ lock = Nobody

Live == {"QUOTED", "APPROVED"}

\* The revision issued last.
Latest == CHOOSE r \in sealed : \A s \in sealed : s <= r

\* What the client accepted of an offering, else the offering itself.
Selected(r) == IF choice[r].kind = "APPROVED" THEN choice[r].sel ELSE r

At(q, pc) == req[q].pc = pc

Minted(l, r, source) == [state |-> "PENDING", rev |-> r, source |-> source, again |-> FALSE]

----------------------------------------------------------------------------
(* Issuing and revising                                                     *)

\* issue_preview: the draft is sealed and its PDF carries a link of its own.
Issue ==
    /\ project.status = "DRAFT"
    /\ \E l \in Links :
         /\ link[l].state = "free"
         /\ link' = [link EXCEPT ![l] = Minted(l, project.rev, "DOCUMENT")]
    /\ sealed' = sealed \cup {project.rev}
    /\ project' = [project EXCEPT !.status = "QUOTED"]
    /\ UNCHANGED <<orphaned, choice, office, orders, finished, bought, billed, req, lock>>

\* start_successor: production in flight stops it once the deal is approved;
\* finished orders do not.
StartSuccessor ==
    /\ project.status \in Live
    /\ project.status = "APPROVED" => orders \subseteq finished
    /\ project.rev < MaxRev
    /\ project' = [status |-> "DRAFT", rev |-> project.rev + 1]
    /\ UNCHANGED <<sealed, link, orphaned, choice, office, orders, finished, bought, billed, req, lock>>

----------------------------------------------------------------------------
(* Links                                                                    *)

\* share_quote reads the latest version, then renders its PDF.
ShareRead(q) ==
    /\ At(q, "idle")
    /\ project.status \in Live
    /\ req' = [req EXCEPT ![q] = [NoRequest EXCEPT !.pc = "share", !.rev = Latest]]
    /\ UNCHANGED <<project, sealed, link, orphaned, choice, office, orders, finished, bought, billed, lock>>

Outstanding(r) == {l \in Links : link[l].state = "PENDING" /\ link[l].source = "SHARE" /\ link[l].rev = r}

\* The statement that revokes the links still out sees what is committed now.
ShareRevoke(q) ==
    /\ At(q, "share")
    /\ req' = [req EXCEPT ![q].pc = "mint", ![q].seen = Outstanding(req[q].rev)]
    /\ UNCHANGED <<project, sealed, link, orphaned, choice, office, orders, finished, bought, billed, lock>>

Mint(l, r, revoked) ==
    link' = [k \in Links |-> IF k = l THEN Minted(l, r, "SHARE")
                             ELSE IF k \in revoked /\ link[k].state = "PENDING"
                             THEN [link[k] EXCEPT !.state = "REVOKED"] ELSE link[k]]

ShareMint(q) ==
    /\ At(q, "mint")
    /\ \E l \in Links : link[l].state = "free" /\ Mint(l, req[q].rev, req[q].seen)
    /\ req' = [req EXCEPT ![q] = NoRequest]
    /\ UNCHANGED <<project, sealed, orphaned, choice, office, orders, finished, bought, billed, lock>>

Revoke(l) ==
    /\ link[l].state = "PENDING"
    /\ link' = [link EXCEPT ![l].state = "REVOKED"]
    /\ UNCHANGED <<project, sealed, orphaned, choice, office, orders, finished, bought, billed, req, lock>>

\* regenerate: under the project's row, once per link.
Regenerate(k) ==
    /\ link[k].state \in {"PENDING", "REVOKED"}
    /\ link[k].rev = project.rev /\ ~link[k].again
    /\ project.status \in Live
    /\ \E l \in Links :
         /\ link[l].state = "free"
         /\ link' = [j \in Links |->
               IF j = l THEN Minted(l, project.rev, "SHARE")
               ELSE IF j = k THEN [link[k] EXCEPT !.state = "REVOKED", !.again = TRUE]
               ELSE IF j \in Outstanding(project.rev) THEN [link[j] EXCEPT !.state = "REVOKED"]
               ELSE link[j]]
    /\ UNCHANGED <<project, sealed, orphaned, choice, office, orders, finished, bought, billed, req, lock>>

\* The member who minted the links leaves the organisation.
CreatorLeaves ==
    /\ orphaned' = {l \in Links : link[l].state # "free"}
    /\ orphaned' # orphaned
    /\ UNCHANGED <<project, sealed, link, choice, office, orders, finished, bought, billed, req, lock>>

----------------------------------------------------------------------------
(* Answers                                                                  *)

\* decide: the link is read before the quote lock is taken.
DecideRead(q) ==
    /\ At(q, "idle")
    /\ \E l \in Links :
         /\ link[l].state \notin {"free", "REVOKED"}
         /\ req' = [req EXCEPT ![q] = [NoRequest EXCEPT !.pc = "decide", !.link = l, !.was = link[l].state]]
    /\ UNCHANGED <<project, sealed, link, orphaned, choice, office, orders, finished, bought, billed, lock>>

\* MUTANT: only work orders stand in the way of another option.
CommittedOrders(s) == orders # {}

\* quote_option_committed: another option may not be accepted any more.
Committed(s) == orders # {} \/ bought \ {s} # {} \/ billed \ {s} # {}

\* MUTANT: the link being open when it was read is enough.
MayDecideClosed(q) ==
    LET r == link[req[q].link].rev
    IN  /\ choice[r].kind = "none" /\ req[q].was = "PENDING"
        /\ project.rev = r

\* Under the lock: first answer wins, the offering is current and still open.
MayDecide(q) ==
    LET r == link[req[q].link].rev
    IN  /\ choice[r].kind = "none" /\ req[q].was = "PENDING"
        /\ project.rev = r /\ project.status = "QUOTED"

Record(l, kind, s) ==
    LET r == link[l].rev
    IN  /\ choice' = [choice EXCEPT ![r] = [kind |-> kind, sel |-> s]]
        /\ link' = IF link[l].state = "PENDING" THEN [link EXCEPT ![l].state = kind] ELSE link
        /\ project' = IF kind = "APPROVED" /\ l \notin orphaned
                      THEN [project EXCEPT !.status = "APPROVED"] ELSE project

Decide(q) ==
    /\ At(q, "decide") /\ lock = Nobody
    /\ \/ /\ MayDecide(q)
          /\ \E kind \in {"APPROVED", "DECLINED", "CHANGES_REQUESTED"}, s \in sealed :
               /\ s <= link[req[q].link].rev
               /\ kind = "APPROVED" /\ s # link[req[q].link].rev => ~Committed(s)
               /\ Record(req[q].link, kind, s)
       \/ UNCHANGED <<choice, link, project>>
    /\ req' = [req EXCEPT ![q] = NoRequest]
    /\ UNCHANGED <<sealed, orphaned, office, orders, finished, bought, billed, lock>>

\* approve_internal: not once the client has answered.
ApproveInternal ==
    /\ lock = Nobody
    /\ project.status = "QUOTED"
    /\ choice[project.rev].kind = "none"
    /\ office' = office \cup {project.rev}
    /\ link' = [l \in Links |-> IF link[l].state = "PENDING" /\ link[l].rev = project.rev
                                THEN [link[l] EXCEPT !.state = "REVOKED"] ELSE link[l]]
    /\ project' = [project EXCEPT !.status = "APPROVED"]
    /\ UNCHANGED <<sealed, orphaned, choice, orders, finished, bought, billed, req, lock>>

----------------------------------------------------------------------------
(* Commitments                                                              *)

\* release_production: the version is checked, then its orders are written.
ReleaseRead(q) ==
    /\ At(q, "idle") /\ lock = Nobody
    /\ sealed # {} /\ project.rev = Latest
    /\ lock' = q
    /\ req' = [req EXCEPT ![q] = [NoRequest EXCEPT !.pc = "release", !.rev = Selected(Latest)]]
    /\ UNCHANGED <<project, sealed, link, orphaned, choice, office, orders, finished, bought, billed>>

Release(q) ==
    /\ At(q, "release")
    /\ orders' = orders \cup {req[q].rev}
    /\ project' = IF project.status \in Live THEN [project EXCEPT !.status = "IN_PRODUCTION"] ELSE project
    /\ lock' = Nobody
    /\ req' = [req EXCEPT ![q] = NoRequest]
    /\ UNCHANGED <<sealed, link, orphaned, choice, office, finished, bought, billed>>

\* The last step of the last order is done.
FinishOrders(r) ==
    /\ r \in orders \ finished
    /\ finished' = finished \cup {r}
    /\ UNCHANGED <<project, sealed, link, orphaned, choice, office, orders, bought, billed, req, lock>>

\* Finished orders can be cancelled too, until they leave the workshop.
CancelOrders(r) ==
    /\ r \in orders
    /\ orders' = orders \ {r} /\ finished' = finished \ {r}
    /\ UNCHANGED <<project, sealed, link, orphaned, choice, office, bought, billed, req, lock>>

\* A purchase: only of the accepted solution, once there is one.
Buy(r) ==
    /\ lock = Nobody
    /\ r \in sealed
    /\ choice[project.rev].kind = "APPROVED" => r = choice[project.rev].sel
    /\ bought' = bought \cup {r}
    /\ UNCHANGED <<project, sealed, link, orphaned, choice, office, orders, finished, billed, req, lock>>

CancelPurchase(r) ==
    /\ r \in bought
    /\ bought' = bought \ {r}
    /\ UNCHANGED <<project, sealed, link, orphaned, choice, office, orders, finished, billed, req, lock>>

\* issue_invoice: the latest sealed deal, or what the client took of it.
Bill ==
    /\ lock = Nobody
    /\ sealed # {}
    /\ billed' = billed \cup {Selected(Latest)}
    /\ UNCHANGED <<project, sealed, link, orphaned, choice, office, orders, finished, bought, req, lock>>

----------------------------------------------------------------------------

QNext ==
    \/ Issue \/ StartSuccessor \/ CreatorLeaves \/ ApproveInternal \/ Bill
    \/ \E l \in Links : Revoke(l) \/ Regenerate(l)
    \/ \E r \in Revs : FinishOrders(r) \/ CancelOrders(r) \/ Buy(r) \/ CancelPurchase(r)
    \/ \E q \in Requests :
         ShareRead(q) \/ ShareRevoke(q) \/ ShareMint(q) \/ DecideRead(q) \/ Decide(q)
         \/ ReleaseRead(q) \/ Release(q)

QSpec == QInit /\ [][QNext]_quoteVars

----------------------------------------------------------------------------
(* Properties                                                               *)

QTypeOK ==
    /\ project.status \in {"DRAFT", "QUOTED", "APPROVED", "IN_PRODUCTION"} /\ project.rev \in Revs
    /\ sealed \subseteq Revs /\ office \subseteq sealed
    /\ \A l \in Links :
         link[l].state \in {"free", "PENDING", "REVOKED", "APPROVED", "DECLINED", "CHANGES_REQUESTED"}
    /\ orders \cup bought \cup billed \subseteq sealed /\ finished \subseteq orders
    /\ lock \in Requests \cup {Nobody}

\* A revision has one answer: the client's or the office's, never both, however
\* long before the other's decision a link was read, and a project is approved
\* on the strength of an approval of the revision it is at.
OneAnswer ==
    /\ \A r \in office : choice[r].kind = "none"
    /\ project.status = "APPROVED" => project.rev \in office \/ choice[project.rev].kind = "APPROVED"

\* The client who takes an alternative gets it: nothing is bought, built or
\* invoiced of another revision while that offering is the current one.
CommittedIsChosen ==
    \A r \in Revs :
       r = project.rev /\ choice[r].kind = "APPROVED" /\ choice[r].sel # r =>
         orders \cup bought \cup billed \subseteq {choice[r].sel}

=============================================================================
