---------------------------- MODULE AuthSession ----------------------------
(***************************************************************************)
(* The session of the web client (frontend/src/auth/AuthSessionProvider):  *)
(* Supabase events, the resolution of the user's context by the server,    *)
(* the choice of an organization and sign-out, each with awaits between    *)
(* which the others run.  Every one of them bumps requestGeneration; here  *)
(* a call under way carries "live", which a later bump sets to FALSE.      *)
(*                                                                         *)
(* The private copies of the field page are the set evidence; its erasures *)
(* take effect in the order they are called (FieldOutbox), so an erasure   *)
(* acts at its call and its caller resumes later.                          *)
(***************************************************************************)
EXTENDS Integers, Sequences, FiniteSets

CONSTANTS
  Users,      \* people who sign in on this device
  Orgs,       \* organizations
  Tokens,     \* access tokens of a user
  MaxEvents,  \* bound on session events, selections, sign-outs and outside changes
  Worlds,     \* what happens around the page: "outside", "faults", "both"
  None        \* no session, no user, no organization, no context

Sessions == [user : Users, token : Tokens]
Scopes   == Users \X Orgs
Contexts == [user : Users, org : Orgs]

\* Whose work the editor holds; the organization may still be unknown.
Editors == [user : Users, org : Orgs \cup {None}]

\* What the server answers instead of an organization.
Refusals == {"failed", "denied", "no_membership", "organization_required", "mfa_required"}

ASSUME ConstantsAssumption ==
  /\ MaxEvents \in Nat /\ Worlds \subseteq {"outside", "faults", "both"}
  /\ None \notin Users \cup Orgs \cup Tokens \cup Sessions \cup Editors
  /\ Orgs \cap Refusals = {}

VARIABLES
  session,  \* sessionRef: the session, or None
  status,   \* what the guards of the routes look at
  me,       \* the resolved context: the user and the active organization
  meRef,    \* me as of the last effect
  orgRef,   \* organizationRef: the organization apiMutator sends
  storage,  \* localStorage: the selection of each user
  canvas,   \* canvasIdentity: whose work the editor holds
  design,   \* the context in which the unsaved design of the editor was made
  evidence, \* the scopes that have private field evidence
  members,  \* the server's memberships
  initial,  \* getSession has not answered yet, and no event came before it
  timers,   \* the sessions whose setTimeout has not fired
  loads,    \* loadContext calls under way
  selects,  \* selectOrganization calls awaiting their erasure
  leaving,  \* signOut: not called, erasing, or asking Supabase
  events,   \* what counted against the bound
  world     \* which of Worlds this behaviour is of; it never changes

vars == <<session, status, me, meRef, orgRef, storage, canvas, design, evidence,
          members, initial, timers, loads, selects, leaving, events, world>>

\* Other tabs select organizations and memberships are withdrawn.
Outside == world \in {"outside", "both"}

\* An erasure, and a request to the server, may fail.
Faults == world \in {"faults", "both"}

view == <<me, meRef>>

Init ==
  /\ session = None /\ status = "loading" /\ me = None /\ meRef = None
  /\ orgRef = None
  /\ storage = [u \in Users |-> None]
  /\ canvas = None /\ design = None /\ evidence = {}
  /\ members = [u \in Users |-> Orgs]
  /\ initial = TRUE /\ timers = << >> /\ loads = {} /\ selects = {}
  /\ leaving = "no" /\ events = 0
  /\ world \in Worlds

(* The effect that follows a render runs before the next answer of the     *)
(* network and the next act of the person; events and timers may precede it. *)
Rendered == meRef = me

Counted == events < MaxEvents /\ events' = events + 1

(* A bump of requestGeneration supersedes every call under way.            *)
Superseded(calls) == {[c EXCEPT !.live = FALSE] : c \in calls}

(* An erasure, which may fail; fail is what its caller will learn.         *)
Fails == IF Faults THEN BOOLEAN ELSE {FALSE}
Erase(scopes, fail) == evidence' = IF fail THEN evidence ELSE evidence \ scopes
OfActor(u) == {u} \X Orgs

(* transitionCanvasIdentity: an organization still unknown keeps the one   *)
(* the editor had, and a change of user or organization resets it.         *)
Transition(u, o) ==
  LET new   == canvas = None \/ canvas.user # u
      moved == ~new /\ None \notin {o, canvas.org} /\ canvas.org # o
  IN /\ design' = IF u = None \/ new \/ moved THEN None ELSE design
     /\ canvas' = IF u = None THEN None
                  ELSE [user |-> u, org |-> IF new \/ o # None THEN o ELSE canvas.org]

----------------------------------------------------------------------------
(* loadContext, from the request to its end.                               *)

Request(refreshing, attempt, hdr, s) ==
  [live |-> TRUE, session |-> s, refreshing |-> refreshing, attempt |-> attempt,
   pc |-> "asked", hdr |-> hdr, target |-> None, fail |-> FALSE]

(* loadContext is called with the session s and the header o.              *)
StartLoad(s, o) ==
  IF s = None
    THEN /\ status' = "anonymous"
         /\ loads' = Superseded(loads)
         /\ UNCHANGED me
    ELSE LET refreshing == meRef # None /\ meRef.user = s.user IN
         /\ loads' = Superseded(loads) \cup {Request(refreshing, 0, o, s)}
         /\ status' = IF refreshing THEN status ELSE "resolving"
         /\ me' = IF refreshing THEN me ELSE None

(* What resolve_tenant_context answers to a header, or a failed request.   *)
Replies(u, hdr) ==
  (IF Faults THEN {"failed"} ELSE {}) \cup
  (IF members[u] = {} THEN {"no_membership"}
   ELSE IF hdr # None
     THEN (IF hdr \in members[u] THEN {hdr, "mfa_required"} ELSE {"denied"})
   ELSE IF Cardinality(members[u]) > 1 THEN {"organization_required"}
   ELSE members[u] \cup {"mfa_required"})

(* The context is resolved: organization o is active for the user u.       *)
Resolve(u, o) ==
  /\ Transition(u, o)
  /\ orgRef' = o
  /\ storage' = [storage EXCEPT ![u] = o]
  /\ me' = [user |-> u, org |-> o]
  /\ status' = "ready"

(* The organization whose copies must go before o is shown.                *)
Outgoing(u, o) ==
  IF canvas # None /\ canvas.user = u /\ canvas.org \notin {None, o}
    THEN {<<u, canvas.org>>} ELSE {}

\* MUTANT: a reply is applied whoever asked.
IsCurrentAlways(l) == TRUE

IsCurrent(l) == l.live

Drop(l) == loads' = loads \ {l}

Active(l, o) ==
  LET u == l.session.user IN
  IF Outgoing(u, o) # {}
    THEN \E fail \in Fails :
           /\ Erase(Outgoing(u, o), fail)
           /\ loads' = (loads \ {l}) \cup
                {[l EXCEPT !.pc = "erasing", !.target = o, !.fail = fail]}
           /\ UNCHANGED <<world, status, me, orgRef, storage, canvas, design>>
    ELSE Drop(l) /\ Resolve(u, o) /\ UNCHANGED evidence

(* A denied selection is erased and asked again without it, once.          *)
Denied(l) ==
  LET u == l.session.user IN
  \E fail \in Fails :
    /\ Erase({<<u, orgRef>>}, fail)
    /\ loads' = (loads \ {l}) \cup {[l EXCEPT !.pc = "retrying", !.fail = fail]}
    /\ UNCHANGED <<world, status, me, orgRef, storage, canvas, design>>

(* A failure keeps the context of a refresh and shows an error otherwise.  *)
Failed(l) ==
  /\ Drop(l)
  /\ status' = IF l.refreshing THEN status ELSE "error"
  /\ UNCHANGED <<world, me, orgRef, storage, canvas, design, evidence>>

(* The server's answer asks for something else than the application.       *)
Turned(l, reply) ==
  /\ Drop(l)
  /\ status' = reply
  /\ IF reply = "no_membership"
       THEN /\ orgRef' = None
            /\ storage' = [storage EXCEPT ![l.session.user] = None]
       ELSE UNCHANGED <<world, orgRef, storage>>
  /\ UNCHANGED <<world, me, canvas, design, evidence>>

LoadReply(l) ==
  /\ l \in loads /\ l.pc = "asked" /\ Rendered
  /\ IF ~IsCurrent(l)
       THEN Drop(l) /\ UNCHANGED <<world, status, me, orgRef, storage, canvas, design, evidence>>
       ELSE \E reply \in Replies(l.session.user, l.hdr) :
              IF reply \in Orgs THEN Active(l, reply)
              ELSE IF reply = "denied" /\ orgRef # None /\ l.attempt = 0 THEN Denied(l)
              ELSE IF reply \in {"denied", "failed"} THEN Failed(l)
              ELSE Turned(l, reply)
  /\ UNCHANGED <<world, session, meRef, members, initial, timers, selects, leaving, events>>

(* The erasure loadContext waited for has ended.                           *)
LoadErased(l) ==
  /\ l \in loads /\ l.pc = "erasing"
  /\ IF ~IsCurrent(l)
       THEN Drop(l) /\ UNCHANGED <<world, status, me, orgRef, storage, canvas, design, evidence>>
       ELSE IF l.fail THEN Failed(l)
       ELSE Drop(l) /\ Resolve(l.session.user, l.target) /\ UNCHANGED evidence
  /\ UNCHANGED <<world, session, meRef, members, initial, timers, selects, leaving, events>>

(* In the retry a failed erasure leaves loadContext by an exception.       *)
LoadRetry(l) ==
  /\ l \in loads /\ l.pc = "retrying"
  /\ IF ~IsCurrent(l) \/ l.fail
       THEN Drop(l) /\ UNCHANGED <<world, orgRef, storage>>
       ELSE /\ orgRef' = None
            /\ storage' = [storage EXCEPT ![l.session.user] = None]
            /\ loads' = (loads \ {l}) \cup {Request(l.refreshing, 1, None, l.session)}
  /\ UNCHANGED <<world, session, status, me, meRef, canvas, design, evidence, members,
                 initial, timers, selects, leaving, events>>

----------------------------------------------------------------------------
(* applySession: a session event, or the first answer of getSession.       *)

SameUser(s) == meRef # None /\ meRef.user = s.user

PreviousActor == IF session # None THEN session.user
                 ELSE IF meRef # None THEN meRef.user ELSE None

ApplySession(s) ==
  /\ Transition(IF s = None THEN None ELSE s.user, None)
  /\ IF PreviousActor # None /\ (s = None \/ PreviousActor # s.user)
       THEN \E fail \in Fails : Erase(OfActor(PreviousActor), fail)
       ELSE UNCHANGED evidence
  /\ session' = s
  /\ loads' = Superseded(loads) /\ selects' = Superseded(selects)
  /\ IF s = None
       THEN /\ orgRef' = None /\ me' = None /\ status' = "anonymous"
            /\ UNCHANGED timers
       ELSE /\ orgRef' = storage[s.user]
            /\ status' = IF SameUser(s) THEN status ELSE "resolving"
            /\ timers' = Append(timers, s)
            /\ UNCHANGED me
  /\ UNCHANGED <<world, meRef, storage, members>>

onAuthStateChange(s) ==
  /\ Counted /\ initial' = FALSE
  /\ ApplySession(s)
  /\ UNCHANGED leaving

(* The answer of getSession is ignored once an event has come.             *)
GetSession(s) ==
  /\ initial /\ initial' = FALSE
  /\ ApplySession(s)
  /\ UNCHANGED <<world, events, leaving>>

\* MUTANT: the error of getSession is not looked at.
GetSessionFailsSilently ==
  /\ initial /\ initial' = FALSE
  /\ UNCHANGED <<world, session, status, view, orgRef, storage, canvas, design, evidence, members,
                 timers, loads, selects, leaving, events>>

GetSessionFails ==
  /\ initial /\ initial' = FALSE
  /\ status' = "error"
  /\ UNCHANGED <<world, session, view, orgRef, storage, canvas, design, evidence, members,
                 timers, loads, selects, leaving, events>>

(* The timer of a session event: a newer session has a timer of its own.   *)
Timer ==
  /\ timers # << >>
  /\ timers' = Tail(timers)
  /\ IF session # None /\ session.token = Head(timers).token
                       /\ session.user = Head(timers).user
       THEN /\ StartLoad(session, orgRef)
            /\ selects' = Superseded(selects)
       ELSE UNCHANGED <<world, status, me, loads, selects>>
  /\ UNCHANGED <<world, session, meRef, orgRef, storage, canvas, design, evidence,
                 members, initial, leaving, events>>

----------------------------------------------------------------------------
(* What the person does.                                                   *)

(* selectOrganization, up to the erasure of the departing organization or, *)
(* when none departs, through the call of loadContext.                     *)
selectOrganization(o) ==
  /\ session # None /\ Rendered /\ Counted
  /\ Transition(session.user, o)
  /\ IF orgRef \notin {None, o}
       THEN /\ \E fail \in Fails :
                 /\ Erase({<<session.user, orgRef>>}, fail)
                 /\ selects' = Superseded(selects) \cup
                      {[live |-> TRUE, session |-> session, org |-> o, fail |-> fail]}
            /\ status' = "resolving" /\ me' = None /\ meRef' = None
            /\ loads' = Superseded(loads)
            /\ UNCHANGED <<world, orgRef, storage>>
       ELSE /\ orgRef' = o
            /\ storage' = [storage EXCEPT ![session.user] = o]
            /\ selects' = Superseded(selects)
            /\ StartLoad(session, o)
            /\ UNCHANGED <<world, meRef, evidence>>
  /\ UNCHANGED <<world, session, members, initial, timers, leaving>>

\* MUTANT: the failure of the erasure is swallowed.
SelectErasedAnyway(c) ==
  /\ c \in selects
  /\ IF ~c.live
       THEN /\ selects' = selects \ {c}
            /\ UNCHANGED <<world, status, me, orgRef, storage, loads>>
       ELSE /\ orgRef' = c.org
            /\ storage' = [storage EXCEPT ![c.session.user] = c.org]
            /\ selects' = Superseded(selects \ {c})
            /\ StartLoad(c.session, c.org)
  /\ UNCHANGED <<world, session, meRef, canvas, design, evidence, members, initial, timers,
                 leaving, events>>

(* The erasure has ended.  Its failure shows an error, superseded or not.  *)
SelectErased(c) ==
  /\ c \in selects
  /\ IF c.fail
       THEN /\ status' = "error" /\ selects' = selects \ {c}
            /\ UNCHANGED <<world, me, orgRef, storage, loads>>
       ELSE IF ~c.live
       THEN /\ selects' = selects \ {c}
            /\ UNCHANGED <<world, status, me, orgRef, storage, loads>>
       ELSE /\ orgRef' = c.org
            /\ storage' = [storage EXCEPT ![c.session.user] = c.org]
            /\ selects' = Superseded(selects \ {c})
            /\ StartLoad(c.session, c.org)
  /\ UNCHANGED <<world, session, meRef, canvas, design, evidence, members, initial, timers,
                 leaving, events>>

(* refreshContext, from the field page, the second factor, the settings or *)
(* an accepted invitation, during which the session may have ended.        *)
refreshContext ==
  /\ status # "loading" /\ Rendered /\ Counted
  /\ StartLoad(session, orgRef)
  /\ selects' = Superseded(selects)
  /\ UNCHANGED <<world, session, meRef, orgRef, storage, canvas, design, evidence, members,
                 initial, timers, leaving>>

(* signOut erases, then asks Supabase, which signs out through an event.   *)
(* A failed erasure leaves it by an exception.                             *)
signOut ==
  /\ session # None /\ leaving = "no" /\ Rendered /\ Counted
  /\ \E fail \in Fails :
       /\ Erase(OfActor(session.user), fail)
       /\ leaving' = IF fail THEN "no" ELSE "erasing"
  /\ UNCHANGED <<world, session, status, view, orgRef, storage, canvas, design, members,
                 initial, timers, loads, selects>>

(* The screen of an error offers signOut without a session too.            *)
SignOutAnonymous ==
  /\ session = None /\ status = "error" /\ leaving = "no" /\ Counted
  /\ leaving' = "asking" /\ status' = "resolving"
  /\ loads' = Superseded(loads) /\ selects' = Superseded(selects)
  /\ UNCHANGED <<world, session, view, orgRef, storage, canvas, design, evidence, members,
                 initial, timers>>

SignOutErased ==
  /\ leaving = "erasing"
  /\ leaving' = "asking" /\ status' = "resolving"
  /\ loads' = Superseded(loads) /\ selects' = Superseded(selects)
  /\ UNCHANGED <<world, session, view, orgRef, storage, canvas, design, evidence, members,
                 initial, timers, events>>

(* Supabase fires SIGNED_OUT and answers, or answers with an error.        *)
SignOutDone ==
  /\ leaving = "asking" /\ leaving' = "no"
  /\ \/ ApplySession(None)
     \/ /\ status' = "error"
        /\ UNCHANGED <<world, session, view, canvas, design, evidence, orgRef, storage, members,
                       timers, loads, selects>>
  /\ UNCHANGED <<world, initial, events>>

(* Work in the application leaves a design in the editor and evidence in   *)
(* the outbox.                                                             *)
Work ==
  /\ status = "ready" /\ me # None /\ Rendered
  /\ design' = <<me.user, me.org>>
  /\ evidence' = evidence \cup {<<me.user, me.org>>}
  /\ UNCHANGED <<world, session, status, view, orgRef, storage, canvas, members, initial,
                 timers, loads, selects, leaving, events>>

(* The effect that follows a render.                                       *)
Render ==
  /\ ~Rendered /\ meRef' = me
  /\ UNCHANGED <<world, session, status, me, orgRef, storage, canvas, design, evidence, members,
                 initial, timers, loads, selects, leaving, events>>

(* Another tab of the same user selects an organization and erases the one *)
(* it leaves; or the office changes the memberships.                       *)
OtherTabSelects(o) ==
  /\ Outside /\ session # None /\ Counted
  /\ storage' = [storage EXCEPT ![session.user] = o]
  /\ evidence' = evidence \ {<<session.user, storage[session.user]>>}
  /\ UNCHANGED <<world, session, status, view, orgRef, canvas, design, members, initial,
                 timers, loads, selects, leaving>>

Withdraw(u, o) ==
  /\ Outside /\ o \in members[u] /\ Counted
  /\ members' = [members EXCEPT ![u] = @ \ {o}]
  /\ UNCHANGED <<world, session, status, view, orgRef, storage, canvas, design, evidence,
                 initial, timers, loads, selects, leaving>>

----------------------------------------------------------------------------
Continue ==
  \/ Timer \/ SignOutErased \/ SignOutDone \/ Render
  \/ \E l \in loads : LoadReply(l) \/ LoadErased(l) \/ LoadRetry(l)
  \/ \E c \in selects : SelectErased(c)

Next ==
  \/ Continue
  \/ \E s \in Sessions \cup {None} : onAuthStateChange(s) \/ GetSession(s)
  \/ GetSessionFails \/ refreshContext \/ signOut \/ SignOutAnonymous \/ Work
  \/ \E o \in Orgs : selectOrganization(o) \/ OtherTabSelects(o)
  \/ \E u \in Users, o \in Orgs : Withdraw(u, o)

Spec == Init /\ [][Next]_vars

(* Timers fire, requests and erasures end, renders happen, and getSession  *)
(* answers.                                                                *)
FairSpec ==
  /\ Spec
  /\ WF_vars(Continue)
  /\ WF_vars(GetSessionFails \/ \E s \in Sessions \cup {None} : GetSession(s))

----------------------------------------------------------------------------
Loads ==
  [live : BOOLEAN, session : Sessions, refreshing : BOOLEAN, attempt : {0, 1},
   pc : {"asked", "erasing", "retrying"}, hdr : Orgs \cup {None},
   target : Orgs \cup {None}, fail : BOOLEAN]

Selects == [live : BOOLEAN, session : Sessions, org : Orgs, fail : BOOLEAN]

TypeOK ==
  /\ session \in Sessions \cup {None}
  /\ status \in {"loading", "anonymous", "resolving", "organization_required",
                 "mfa_required", "no_membership", "ready", "error"}
  /\ me \in Contexts \cup {None} /\ meRef \in Contexts \cup {None}
  /\ orgRef \in Orgs \cup {None}
  /\ storage \in [Users -> Orgs \cup {None}]
  /\ canvas \in Editors \cup {None}
  /\ design \in Scopes \cup {None} /\ evidence \subseteq Scopes
  /\ members \in [Users -> SUBSET Orgs]
  /\ initial \in BOOLEAN /\ timers \in Seq(Sessions)
  /\ loads \subseteq Loads /\ selects \subseteq Selects
  /\ leaving \in {"no", "erasing", "asking"} /\ events \in 0..MaxEvents

(* A reply of the past never opens the application: when the status is     *)
(* ready the context shown is of the session's user, and the unsaved design*)
(* in the editor is that user's.  While no other tab chooses another       *)
(* organization, the design and the header of every request are of the     *)
(* organization shown too.                                                 *)
ReadyIsOwn ==
  status = "ready" =>
    /\ session # None /\ me # None /\ me.user = session.user
    /\ design # None => design[1] = me.user
    /\ ~Outside => orgRef = me.org /\ (design # None => design[2] = me.org)

(* The outgoing organization's photos and agenda are erased before the     *)
(* next context of the same user resolves, while no other tab chooses it.  *)
OutgoingErased ==
  status = "ready" /\ ~Outside => \A o \in Orgs \ {me.org} : <<me.user, o>> \notin evidence

(* Whatever supersedes what, the resolution of the context ends, as long   *)
(* as the server answers.                                                  *)
Resolves == status \in {"loading", "resolving"} ~> status \notin {"loading", "resolving"} \/ Faults
=============================================================================
