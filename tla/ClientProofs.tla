--------------------------- MODULE ClientProofs ----------------------------
(***************************************************************************)
(* Proofs about the web client.  The session (AuthSession), for any number *)
(* of users, organizations, tokens and events; the offline outbox of the   *)
(* field page (FieldOutbox), for any number of tabs, actors, organizations *)
(* and commands and any bounds on erasures, faults and open transactions.  *)
(***************************************************************************)
EXTENDS AuthSession, FieldOutbox, SequenceTheorems, WellFoundedInduction, TLAPS

(***************************************************************************)
(* The inductive invariant.  At most one loadContext is live, it is of the *)
(* session, and a selection that awaits its erasure excludes it.           *)
(***************************************************************************)
Owned ==
  /\ \A l \in loads : l.live => session # None /\ l.session = session
  /\ \A c \in selects : c.live => session # None /\ c.session = session
  /\ \A l, m \in loads : l.live /\ m.live => l = m
  /\ \A c \in selects : c.live => status # "ready" /\ \A l \in loads : ~ l.live

\* The context is of the user for whom a live call asks, and so is the one of
\* the last effect.
Shown ==
  /\ status = "ready" => session # None /\ me # None /\ me.user = session.user
  /\ me # None /\ meRef # None => me.user = meRef.user
  /\ \A l \in loads : l.live =>
       /\ me # None => me.user = l.session.user
       /\ l.pc # "asked" => Rendered
       /\ l.pc = "erasing" => l.target \in Orgs

\* The editor is the session's.
Edited ==
  /\ session # None => canvas # None /\ canvas.user = session.user
  /\ session = None => design = None
  /\ design # None => canvas # None /\ design[1] = canvas.user

\* While no other tab chooses, the header, the stored selection and the live
\* call name one organization, and an open application shows it.
Alone ==
  ~ Outside =>
    /\ \A u \in Users : members[u] = Orgs
    /\ session # None => orgRef = storage[session.user]
    /\ \A l \in loads : l.pc # "retrying"
    /\ \A l \in loads : l.live =>
         l.hdr = orgRef /\ (l.pc = "erasing" => l.hdr \in {None, l.target})
    /\ status = "ready" => orgRef = me.org /\ canvas.org = me.org
    /\ design # None => design[2] = canvas.org

\* And evidence is of the stored selection only, of none once an erasure that
\* did not fail has begun.
Kept ==
  ~ Outside =>
    /\ \A e \in evidence : storage[e[1]] = e[2]
    /\ \A c \in selects : c.live /\ ~ c.fail =>
         \A o \in Orgs : <<c.session.user, o>> \notin evidence

IInv == TypeOK /\ Owned /\ Shown /\ Edited /\ Alone /\ Kept

-----------------------------------------------------------------------------
(* Calls                                                                   *)

\* A superseded call goes on where it was, and is live no more.
LEMMA SupersededLoads ==
  ASSUME loads \subseteq Loads
  PROVE  /\ Superseded(loads) \subseteq Loads
         /\ \A l \in Superseded(loads) : ~ l.live /\ \E m \in loads : l.pc = m.pc
<1> SUFFICES ASSUME NEW m \in loads
             PROVE  /\ [m EXCEPT !.live = FALSE] \in Loads
                    /\ ~ [m EXCEPT !.live = FALSE].live
                    /\ [m EXCEPT !.live = FALSE].pc = m.pc
  BY DEF Superseded
<1>1. m \in Loads
  OBVIOUS
<1> QED
  BY <1>1 DEF Loads

LEMMA SupersededSelects ==
  ASSUME NEW S \in SUBSET Selects
  PROVE  Superseded(S) \subseteq Selects /\ \A c \in Superseded(S) : ~ c.live
<1> SUFFICES ASSUME NEW m \in S
             PROVE  /\ [m EXCEPT !.live = FALSE] \in Selects
                    /\ ~ [m EXCEPT !.live = FALSE].live
  BY DEF Superseded
<1>1. m \in Selects
  OBVIOUS
<1> QED
  BY <1>1 DEF Selects

\* A request of the session s with the header o, and nothing else, is live.
Loading(s, o) ==
  /\ loads' \subseteq Loads
  /\ \A l \in loads' : l.live => l.session = s /\ l.hdr = o /\ l.pc = "asked"
  /\ \A l, m \in loads' : l.live /\ m.live => l = m
  /\ \A l \in loads' : l.pc = "asked" \/ \E m \in loads : l.pc = m.pc
  /\ \/ me' = me /\ status' = status /\ meRef # None /\ meRef.user = s.user
     \/ me' = None /\ status' = "resolving"

\* What a request is.
LEMMA RequestIs ==
  ASSUME NEW s \in Sessions, NEW o \in Orgs \cup {None}, NEW r \in BOOLEAN,
         NEW a \in {0, 1}
  PROVE  /\ Request(r, a, o, s) \in Loads /\ Request(r, a, o, s).live
         /\ Request(r, a, o, s).session = s /\ Request(r, a, o, s).hdr = o
         /\ Request(r, a, o, s).pc = "asked"
BY DEF Request, Loads

\* loadContext with a session.
LEMMA StartLoading ==
  ASSUME TypeOK, NEW s \in Sessions, s # None, NEW o \in Orgs \cup {None},
         StartLoad(s, o)
  PROVE  Loading(s, o)
<1> DEFINE r == meRef # None /\ meRef.user = s.user
           q == Request(r, 0, o, s)
<1>1. /\ loads' = Superseded(loads) \cup {q}
      /\ status' = IF r THEN status ELSE "resolving"
      /\ me' = IF r THEN me ELSE None
  BY DEF StartLoad
<1>2. q \in Loads /\ q.live /\ q.session = s /\ q.hdr = o /\ q.pc = "asked"
  <2>1. r \in BOOLEAN /\ 0 \in {0, 1}
    OBVIOUS
  <2> HIDE DEF r
  <2> QED
    BY <2>1, RequestIs
<1>3. /\ Superseded(loads) \subseteq Loads
      /\ \A l \in Superseded(loads) : ~ l.live /\ \E m \in loads : l.pc = m.pc
  BY SupersededLoads DEF TypeOK
<1>4. \/ me' = me /\ status' = status /\ meRef # None /\ meRef.user = s.user
      \/ me' = None /\ status' = "resolving"
  BY <1>1
<1> HIDE DEF q, r
<1> QED
  BY <1>1, <1>2, <1>3, <1>4 DEF Loading

\* The editor of the same user: another organization empties it.
LEMMA TransitionSame ==
  ASSUME NEW u, NEW o, u # None, canvas # None, canvas.user = u, Transition(u, o)
  PROVE  /\ canvas' = [user |-> u, org |-> IF o # None THEN o ELSE canvas.org]
         /\ design' \in {design, None}
         /\ design' # None => canvas.org = None \/ canvas'.org = canvas.org
BY DEF Transition

\* An erasure takes away what it is told to, or nothing.
LEMMA Erases ==
  ASSUME NEW S, NEW fail, Erase(S, fail)
  PROVE  evidence' \subseteq evidence /\ (~ fail => evidence' = evidence \ S)
BY DEF Erase

-----------------------------------------------------------------------------
(* Steps that end calls, show something else or erase                      *)
LEMMA Winding ==
  ASSUME IInv, TypeOK',
         UNCHANGED <<world, session, me, meRef, orgRef, storage, canvas, design, members>>,
         status' = status \/ status' # "ready",
         \A l \in loads' : l.live => l \in loads,
         \A c \in selects' : c.live => c \in selects,
         \A l \in loads' : \E m \in loads : l.pc = m.pc,
         evidence' \subseteq evidence
  PROVE  IInv'
<1>1. Owned'
  BY DEF IInv, Owned
<1>2. Shown'
  BY DEF IInv, Shown, Rendered
<1>3. Edited'
  BY DEF IInv, Edited
<1>4. Alone'
  BY DEF IInv, Alone, Outside
<1>5. Kept'
  BY DEF IInv, Kept, Outside
<1> QED
  BY <1>1, <1>2, <1>3, <1>4, <1>5 DEF IInv

-----------------------------------------------------------------------------
(* loadContext begins                                                      *)

\* The session asks for o, which is what the header, and while the tab is alone
\* the storage, then say.
LEMMA Loaded ==
  ASSUME IInv, TypeOK', session # None, NEW o, Loading(session, o),
         UNCHANGED <<world, session, meRef, members, evidence>>,
         \A c \in selects' : ~ c.live,
         orgRef' = o,
         ~ Outside => storage' = [storage EXCEPT ![session.user] = o],
         ~ Outside /\ status = "ready" => o = orgRef /\ canvas'.org = canvas.org,
         ~ Outside => o = orgRef \/ \A x \in Orgs : <<session.user, x>> \notin evidence,
         canvas' # None, canvas'.user = canvas.user,
         design' \in {design, None},
         ~ Outside /\ design' # None => canvas'.org = canvas.org
  PROVE  IInv'
<1>0. session \in Sessions /\ session.user \in Users
  BY DEF IInv, TypeOK, Sessions
<1>1. Owned'
  BY DEF Owned, Loading
<1>2. me' = None \/ (me' = me /\ meRef # None /\ meRef.user = session.user)
  BY DEF Loading
<1>3. Shown'
  <2>1. \A l \in loads' : l.live => l.session = session /\ l.pc = "asked"
    BY DEF Loading
  <2>2. me' # None => me'.user = session.user
    BY <1>2 DEF IInv, Shown
  <2>3. me' # None /\ meRef' # None => me'.user = meRef'.user
    BY <1>2 DEF IInv, Shown
  <2>4. status' = "ready" => me' # None
    BY DEF Loading, IInv, Shown
  <2> QED
    BY <2>1, <2>2, <2>3, <2>4 DEF Shown
<1>4. Edited'
  <2>1. canvas'.user = session.user /\ (design # None => design[1] = canvas.user)
    BY DEF IInv, Edited
  <2>2. design' # None => design'[1] = canvas'.user
    BY <2>1
  <2> QED
    BY <2>1, <2>2 DEF Edited
<1>5. Alone'
  <2> SUFFICES ASSUME ~ Outside PROVE Alone'
    BY DEF Alone, Outside
  <2>1. \A u \in Users : members'[u] = Orgs
    BY DEF IInv, Alone
  <2>2. orgRef' = storage'[session'.user]
    BY <1>0 DEF IInv, TypeOK
  <2>3. \A l \in loads' : /\ l.pc # "retrying"
                          /\ l.live => l.hdr = orgRef' /\ l.pc = "asked"
    BY DEF IInv, Alone, Loading
  <2>4. status' = "ready" => orgRef' = me'.org /\ canvas'.org = me'.org
    BY DEF IInv, Alone, Loading
  <2>5. design' # None => design'[2] = canvas'.org
    BY DEF IInv, Alone
  <2> QED
    BY <2>1, <2>2, <2>3, <2>4, <2>5 DEF Alone
<1>6. Kept'
  <2> SUFFICES ASSUME ~ Outside PROVE Kept'
    BY DEF Kept, Outside
  <2>1. ASSUME NEW e \in evidence PROVE storage'[e[1]] = e[2]
    <3>1. e[1] \in Users /\ e[2] \in Orgs /\ e = <<e[1], e[2]>> /\ storage[e[1]] = e[2]
      BY DEF IInv, TypeOK, Scopes, Kept
    <3>2. CASE e[1] = session.user
      <4>1. o = orgRef /\ orgRef = storage[session.user]
        BY <3>1, <3>2 DEF IInv, Alone
      <4> QED
        BY <1>0, <3>1, <3>2, <4>1 DEF IInv, TypeOK
    <3>3. CASE e[1] # session.user
      BY <3>1, <3>3 DEF IInv, TypeOK
    <3> QED
      BY <3>2, <3>3
  <2> QED
    BY <2>1 DEF Kept
<1> QED
  BY <1>1, <1>3, <1>4, <1>5, <1>6 DEF IInv

\* The timer of the session's own event, and refreshContext.
LEMMA LoadAgain ==
  ASSUME IInv, TypeOK', session # None, StartLoad(session, orgRef),
         UNCHANGED <<world, session, meRef, orgRef, storage, canvas, design, evidence, members>>,
         \A c \in selects' : ~ c.live
  PROVE  IInv'
<1>1. session \in Sessions /\ orgRef \in Orgs \cup {None}
  BY DEF IInv, TypeOK
<1>2. Loading(session, orgRef)
  BY <1>1, StartLoading DEF IInv
<1>3. ~ Outside => storage' = [storage EXCEPT ![session.user] = orgRef]
  <2>1. session.user \in Users /\ storage \in [Users -> Orgs \cup {None}]
    BY <1>1 DEF IInv, TypeOK, Sessions
  <2>2. ~ Outside => orgRef = storage[session.user]
    BY DEF IInv, Alone
  <2> QED
    BY <2>1, <2>2
<1>4. canvas # None
  BY DEF IInv, Edited
<1> QED
  BY <1>1, <1>2, <1>3, <1>4, Loaded

LEMMA TimerStep == IInv /\ Timer => IInv'
<1> SUFFICES ASSUME IInv, Timer PROVE IInv'
  OBVIOUS
<1>1. /\ timers' = Tail(timers) /\ timers # << >> /\ timers \in Seq(Sessions)
      /\ UNCHANGED <<world, session, meRef, orgRef, storage, canvas, design, evidence,
                     members, initial, leaving, events>>
  BY DEF Timer, IInv, TypeOK
<1>2. timers' \in Seq(Sessions)
  BY <1>1
<1>3. CASE /\ session # None /\ StartLoad(session, orgRef)
           /\ selects' = Superseded(selects)
  <2>1. selects' \subseteq Selects /\ \A c \in selects' : ~ c.live
    BY <1>3, SupersededSelects DEF IInv, TypeOK
  <2>2. Loading(session, orgRef)
    BY <1>3, StartLoading DEF IInv, TypeOK
  <2>3. TypeOK'
    BY <1>1, <1>2, <2>1, <2>2 DEF IInv, TypeOK, Loading
  <2> QED
    BY <1>1, <1>3, <2>1, <2>3, LoadAgain
<1>4. CASE UNCHANGED <<status, me, loads, selects>>
  <2>1. TypeOK'
    BY <1>1, <1>2, <1>4 DEF IInv, TypeOK
  <2> QED
    BY <1>1, <1>4, <2>1, Winding
<1> QED
  BY <1>3, <1>4 DEF Timer

LEMMA RefreshStep == IInv /\ refreshContext => IInv'
<1> SUFFICES ASSUME IInv, refreshContext PROVE IInv'
  OBVIOUS
<1>1. /\ StartLoad(session, orgRef) /\ selects' = Superseded(selects)
      /\ events < MaxEvents /\ events' = events + 1
      /\ UNCHANGED <<world, session, meRef, orgRef, storage, canvas, design, evidence,
                     members, initial, timers, leaving>>
  BY DEF refreshContext, Counted
<1>2. events' \in 0..MaxEvents
  BY <1>1, ConstantsAssumption DEF IInv, TypeOK
<1>3. selects' \subseteq Selects /\ \A c \in selects' : ~ c.live
  BY <1>1, SupersededSelects DEF IInv, TypeOK
<1>4. CASE session # None
  <2>1. Loading(session, orgRef)
    BY <1>1, <1>4, StartLoading DEF IInv, TypeOK
  <2>2. TypeOK'
    BY <1>1, <1>2, <1>3, <2>1 DEF IInv, TypeOK, Loading
  <2> QED
    BY <1>1, <1>3, <1>4, <2>2, LoadAgain
<1>5. CASE session = None
  <2>1. status' = "anonymous" /\ loads' = Superseded(loads) /\ me' = me
    BY <1>1, <1>5 DEF StartLoad
  <2>2. /\ loads' \subseteq Loads
        /\ \A l \in loads' : ~ l.live /\ \E m \in loads : l.pc = m.pc
    BY <2>1, SupersededLoads DEF IInv, TypeOK
  <2>3. TypeOK'
    BY <1>1, <1>2, <1>3, <2>1, <2>2 DEF IInv, TypeOK
  <2> QED
    BY <1>1, <1>3, <2>1, <2>2, <2>3, Winding
<1> QED
  BY <1>4, <1>5

-----------------------------------------------------------------------------
(* What the person selects                                                 *)

\* selectOrganization with nothing to erase: the organization was selected
\* already, or none was.
LEMMA SelectLoads ==
  ASSUME IInv, TypeOK', NEW o \in Orgs, session # None, Transition(session.user, o),
         orgRef \in {None, o}, orgRef' = o,
         storage' = [storage EXCEPT ![session.user] = o],
         \A c \in selects' : ~ c.live, StartLoad(session, o),
         UNCHANGED <<world, session, meRef, members, evidence>>
  PROVE  IInv'
<1>1. /\ session \in Sessions /\ session.user \in Users /\ session.user # None
      /\ o # None /\ o \in Orgs \cup {None}
  BY ConstantsAssumption DEF IInv, TypeOK, Sessions
<1>2. Loading(session, o)
  BY <1>1, StartLoading DEF IInv
<1>3. canvas # None /\ canvas.user = session.user
  BY DEF IInv, Edited
<1>4. /\ canvas' = [user |-> session.user, org |-> o]
      /\ design' \in {design, None}
      /\ design' # None => canvas.org = None \/ canvas'.org = canvas.org
  BY <1>1, <1>3, TransitionSame
<1>5. canvas' # None
  BY <1>1, <1>4, ConstantsAssumption DEF Editors
<1>6. ~ Outside /\ status = "ready" => o = orgRef /\ canvas'.org = canvas.org
  <2> SUFFICES ASSUME ~ Outside, status = "ready"
               PROVE  o = orgRef /\ canvas'.org = canvas.org
    OBVIOUS
  <2>1. orgRef = me.org /\ canvas.org = me.org /\ me # None
    BY DEF IInv, Alone, Shown
  <2>2. me.org \in Orgs /\ me.org # None
    BY <2>1, ConstantsAssumption DEF IInv, TypeOK, Contexts
  <2> QED
    BY <1>4, <2>1, <2>2
<1>7. ~ Outside => o = orgRef \/ \A x \in Orgs : <<session.user, x>> \notin evidence
  <2> SUFFICES ASSUME ~ Outside, o # orgRef, NEW x \in Orgs, <<session.user, x>> \in evidence
               PROVE  FALSE
    OBVIOUS
  <2>1. storage[<<session.user, x>>[1]] = <<session.user, x>>[2]
    BY DEF IInv, Kept
  <2>2. storage[session.user] = x /\ orgRef = storage[session.user]
    BY <2>1 DEF IInv, Alone
  <2> QED
    BY <2>2, ConstantsAssumption
<1>8. ~ Outside /\ design' # None => canvas'.org = canvas.org
  <2> SUFFICES ASSUME ~ Outside, design' # None PROVE canvas'.org = canvas.org
    OBVIOUS
  <2>1. design # None /\ design[2] = canvas.org
    BY <1>4 DEF IInv, Alone
  <2>2. design[2] \in Orgs
    BY <2>1 DEF IInv, TypeOK, Scopes
  <2> QED
    BY <1>4, <2>1, <2>2, ConstantsAssumption
<1>9. canvas'.user = canvas.user
  BY <1>3, <1>4
<1> QED
  BY <1>2, <1>4, <1>5, <1>6, <1>7, <1>8, <1>9, Loaded

\* selectOrganization up to the erasure of the organization it leaves.
LEMMA SelectErases ==
  ASSUME IInv, TypeOK', NEW o \in Orgs, session # None, Transition(session.user, o),
         NEW fail \in BOOLEAN, Erase({<<session.user, orgRef>>}, fail),
         selects' = Superseded(selects) \cup
            {[live |-> TRUE, session |-> session, org |-> o, fail |-> fail]},
         status' = "resolving", me' = None, meRef' = None, loads' = Superseded(loads),
         UNCHANGED <<world, session, orgRef, storage, members>>
  PROVE  IInv'
<1> DEFINE q == [live |-> TRUE, session |-> session, org |-> o, fail |-> fail]
<1>1. \A l \in loads' : ~ l.live /\ \E m \in loads : l.pc = m.pc
  BY SupersededLoads DEF IInv, TypeOK
<1>2. \A c \in selects' : c.live => c = q
  BY SupersededSelects DEF IInv, TypeOK
<1>3. q.session = session /\ q.fail = fail
  OBVIOUS
<1> HIDE DEF q
<1>4. session.user \in Users /\ session.user # None /\ o # None
  BY ConstantsAssumption DEF IInv, TypeOK, Sessions
<1>5. canvas # None /\ canvas.user = session.user
  BY DEF IInv, Edited
<1>6. /\ canvas' = [user |-> session.user, org |-> o]
      /\ design' \in {design, None}
      /\ design' # None => canvas.org = None \/ canvas'.org = canvas.org
  BY <1>4, <1>5, TransitionSame
<1>7. Owned'
  BY <1>1, <1>2, <1>3 DEF Owned
<1>8. Shown'
  BY <1>1 DEF Shown
<1>9. Edited'
  <2>1. canvas' # None
    BY <1>4, <1>6, ConstantsAssumption DEF Editors
  <2>2. canvas'.user = session.user
    BY <1>6
  <2>3. design' # None => design'[1] = canvas'.user
    BY <1>5, <1>6, <2>2 DEF IInv, Edited
  <2> QED
    BY <2>1, <2>2, <2>3 DEF Edited
<1>10. Alone'
  <2> SUFFICES ASSUME ~ Outside PROVE Alone'
    BY DEF Alone, Outside
  <2>1. design' # None => design'[2] = canvas'.org
    <3> SUFFICES ASSUME design' # None PROVE design'[2] = canvas'.org
      OBVIOUS
    <3>1. design' = design /\ design # None /\ design[2] = canvas.org
      BY <1>6 DEF IInv, Alone
    <3>2. design[2] \in Orgs
      BY <3>1 DEF IInv, TypeOK, Scopes
    <3> QED
      BY <1>6, <3>1, <3>2, ConstantsAssumption
  <2> QED
    BY <1>1, <2>1 DEF IInv, Alone
<1>11. Kept'
  <2> SUFFICES ASSUME ~ Outside PROVE Kept'
    BY DEF Kept, Outside
  <2>1. evidence' \subseteq evidence /\ (~ fail => evidence' = evidence \ {<<session.user, orgRef>>})
    BY Erases
  <2>2. \A e \in evidence' : storage'[e[1]] = e[2]
    BY <2>1 DEF IInv, Kept
  <2>3. ASSUME ~ fail, NEW x \in Orgs, <<session.user, x>> \in evidence' PROVE FALSE
    <3>1. storage[<<session.user, x>>[1]] = <<session.user, x>>[2]
      BY <2>1, <2>3 DEF IInv, Kept
    <3>2. x = orgRef
      BY <3>1 DEF IInv, Alone
    <3> QED
      BY <2>1, <2>3, <3>2
  <2>4. \A c \in selects' : c.live /\ ~ c.fail =>
          \A x \in Orgs : <<c.session.user, x>> \notin evidence'
    BY <1>2, <1>3, <2>3
  <2> QED
    BY <2>2, <2>4 DEF Kept
<1> QED
  BY <1>7, <1>8, <1>9, <1>10, <1>11 DEF IInv

LEMMA SelectStep == ASSUME IInv, NEW o \in Orgs, selectOrganization(o) PROVE IInv'
<1>1. /\ session # None /\ Transition(session.user, o)
      /\ events < MaxEvents /\ events' = events + 1
      /\ UNCHANGED <<world, session, members, initial, timers, leaving>>
  BY DEF selectOrganization, Counted
<1>2. events' \in 0..MaxEvents
  BY <1>1, ConstantsAssumption DEF IInv, TypeOK
<1>3. session \in Sessions /\ session.user \in Users /\ session.user # None
  BY <1>1, ConstantsAssumption DEF IInv, TypeOK, Sessions
<1>4. canvas' \in Editors /\ design' \in Scopes \cup {None}
  <2>1. canvas # None /\ canvas.user = session.user
    BY <1>1 DEF IInv, Edited
  <2>2. canvas' = [user |-> session.user, org |-> o] /\ design' \in {design, None}
    BY <1>1, <1>3, <2>1, TransitionSame, ConstantsAssumption
  <2> QED
    BY <1>3, <2>2 DEF IInv, TypeOK, Editors
<1>5. \A S \in SUBSET Selects : Superseded(S) \subseteq Selects /\ \A c \in Superseded(S) : ~ c.live
  BY SupersededSelects
<1>6. CASE orgRef \notin {None, o}
  <2>1. PICK fail \in Fails :
          /\ Erase({<<session.user, orgRef>>}, fail)
          /\ selects' = Superseded(selects) \cup
               {[live |-> TRUE, session |-> session, org |-> o, fail |-> fail]}
          /\ status' = "resolving" /\ me' = None /\ meRef' = None
          /\ loads' = Superseded(loads)
          /\ UNCHANGED <<world, orgRef, storage>>
    BY <1>6 DEF selectOrganization
  <2>2. fail \in BOOLEAN
    BY DEF Fails
  <2>3. evidence' \subseteq evidence
    BY <2>1, Erases
  <2>4. [live |-> TRUE, session |-> session, org |-> o, fail |-> fail] \in Selects
    BY <1>3, <2>2 DEF Selects
  <2>5. selects' \subseteq Selects
    BY <1>5, <2>1, <2>4 DEF IInv, TypeOK
  <2>6. loads' \subseteq Loads
    BY <2>1, SupersededLoads DEF IInv, TypeOK
  <2>7. TypeOK'
    BY <1>1, <1>2, <1>4, <2>1, <2>3, <2>5, <2>6 DEF IInv, TypeOK
  <2> QED
    BY <1>1, <2>1, <2>2, <2>7, SelectErases
<1>7. CASE orgRef \in {None, o}
  <2>1. /\ orgRef' = o /\ storage' = [storage EXCEPT ![session.user] = o]
        /\ selects' = Superseded(selects) /\ StartLoad(session, o)
        /\ UNCHANGED <<world, meRef, evidence>>
    BY <1>7 DEF selectOrganization
  <2>2. selects' \subseteq Selects /\ \A c \in selects' : ~ c.live
    BY <1>5, <2>1 DEF IInv, TypeOK
  <2>3. Loading(session, o)
    BY <1>1, <1>3, <2>1, StartLoading DEF IInv
  <2>4. TypeOK'
    BY <1>1, <1>2, <1>3, <1>4, <2>1, <2>2, <2>3 DEF IInv, TypeOK, Loading
  <2> QED
    BY <1>1, <1>7, <2>1, <2>2, <2>4, SelectLoads
<1> QED
  BY <1>6, <1>7

\* The erasure of a selection ends.
LEMMA SelectErasedStep == ASSUME IInv, NEW c \in selects, SelectErased(c) PROVE IInv'
<1>1. UNCHANGED <<world, session, meRef, canvas, design, evidence, members, initial, timers,
                  leaving, events>>
  BY DEF SelectErased
<1>2. selects \subseteq Selects /\ c \in Selects
  BY DEF IInv, TypeOK
<1>3. CASE c.fail \/ ~ c.live
  <2>1. /\ selects' = selects \ {c} /\ status' \in {status, "error"}
        /\ UNCHANGED <<me, orgRef, storage, loads>>
    BY <1>3 DEF SelectErased
  <2>2. TypeOK'
    BY <1>1, <2>1 DEF IInv, TypeOK
  <2> QED
    BY <1>1, <2>1, <2>2, Winding
<1>4. CASE ~ c.fail /\ c.live
  <2>1. /\ orgRef' = c.org /\ storage' = [storage EXCEPT ![c.session.user] = c.org]
        /\ selects' = Superseded(selects \ {c}) /\ StartLoad(c.session, c.org)
    BY <1>4 DEF SelectErased
  <2>2. session # None /\ c.session = session /\ status # "ready"
    BY <1>4 DEF IInv, Owned
  <2>3. c.org \in Orgs /\ session \in Sessions /\ session.user \in Users
    BY <1>2, <2>2 DEF Selects, Sessions
  <2>4. Loading(session, c.org)
    BY <2>1, <2>2, <2>3, StartLoading DEF IInv
  <2>5. selects' \subseteq Selects /\ \A d \in selects' : ~ d.live
    <3>1. selects \ {c} \in SUBSET Selects
      BY <1>2
    <3> QED
      BY <2>1, <3>1, SupersededSelects
  <2>6. TypeOK'
    BY <1>1, <2>1, <2>2, <2>3, <2>4, <2>5 DEF IInv, TypeOK, Loading
  <2>7. ~ Outside => \A x \in Orgs : <<session.user, x>> \notin evidence
    BY <1>4, <2>2 DEF IInv, Kept
  <2>8. canvas # None
    BY <2>2 DEF IInv, Edited
  <2> QED
    BY <1>1, <2>1, <2>2, <2>4, <2>5, <2>6, <2>7, <2>8, Loaded
<1> QED
  BY <1>3, <1>4

-----------------------------------------------------------------------------
(* Session events                                                          *)

LEMMA ApplyStep ==
  ASSUME IInv, NEW s \in Sessions \cup {None}, ApplySession(s), UNCHANGED world,
         initial' \in BOOLEAN, leaving' \in {"no", "erasing", "asking"},
         events' \in 0..MaxEvents
  PROVE  IInv'
<1>1. /\ session' = s /\ loads' = Superseded(loads) /\ selects' = Superseded(selects)
      /\ Transition(IF s = None THEN None ELSE s.user, None)
      /\ UNCHANGED <<meRef, storage, members>>
  BY DEF ApplySession
<1>2. /\ loads' \subseteq Loads
      /\ \A l \in loads' : ~ l.live /\ \E m \in loads : l.pc = m.pc
  BY <1>1, SupersededLoads DEF IInv, TypeOK
<1>3. selects' \subseteq Selects /\ \A c \in selects' : ~ c.live
  BY <1>1, SupersededSelects DEF IInv, TypeOK
<1>4. evidence' \subseteq evidence
  BY Erases DEF ApplySession
<1>5. Owned'
  BY <1>2, <1>3 DEF Owned
<1>6. Kept'
  <2> SUFFICES ASSUME ~ Outside PROVE Kept'
    BY DEF Kept, Outside
  <2> QED
    BY <1>1, <1>3, <1>4 DEF IInv, Kept
<1>7. CASE s = None
  <2>1. /\ orgRef' = None /\ me' = None /\ status' = "anonymous" /\ timers' = timers
        /\ design' = None /\ canvas' = None
    BY <1>1, <1>7 DEF ApplySession, Transition
  <2>2. TypeOK'
    BY <1>1, <1>2, <1>3, <1>4, <1>7, <2>1 DEF IInv, TypeOK
  <2>3. Shown'
    BY <1>2, <2>1 DEF Shown
  <2>4. Edited'
    BY <1>1, <1>7, <2>1 DEF Edited
  <2>5. Alone'
    <3> SUFFICES ASSUME ~ Outside PROVE Alone'
      BY DEF Alone, Outside
    <3> QED
      BY <1>1, <1>2, <1>7, <2>1 DEF IInv, Alone
  <2> QED
    BY <1>5, <1>6, <2>2, <2>3, <2>4, <2>5 DEF IInv
<1>8. CASE s # None
  <2>1. s \in Sessions /\ s.user \in Users /\ s.user # None
    BY <1>8, ConstantsAssumption DEF Sessions
  <2>2. /\ orgRef' = storage[s.user] /\ timers' = Append(timers, s) /\ me' = me
        /\ status' = IF SameUser(s) THEN status ELSE "resolving"
        /\ Transition(s.user, None)
    BY <1>1, <1>8 DEF ApplySession
  <2>3. \/ design' = None /\ canvas' = [user |-> s.user, org |-> None]
        \/ /\ canvas # None /\ canvas.user = s.user /\ design' = design
           /\ canvas' = [user |-> s.user, org |-> canvas.org]
    BY <2>1, <2>2 DEF Transition
  <2>4. /\ canvas' \in Editors /\ canvas' # None /\ canvas'.user = s.user
        /\ design' \in Scopes \cup {None}
    <3>1. CASE design' = None /\ canvas' = [user |-> s.user, org |-> None]
      BY <2>1, <3>1, ConstantsAssumption DEF Editors
    <3>2. CASE /\ canvas # None /\ canvas.user = s.user /\ design' = design
               /\ canvas' = [user |-> s.user, org |-> canvas.org]
      <4>1. canvas.org \in Orgs \cup {None} /\ design \in Scopes \cup {None}
        BY <3>2 DEF IInv, TypeOK, Editors
      <4> QED
        BY <2>1, <3>2, <4>1, ConstantsAssumption DEF Editors
    <3> QED
      BY <2>3, <3>1, <3>2
  <2>5. timers' \in Seq(Sessions)
    BY <2>1, <2>2 DEF IInv, TypeOK
  <2>6. TypeOK'
    BY <1>1, <1>2, <1>3, <1>4, <2>1, <2>2, <2>4, <2>5 DEF IInv, TypeOK
  <2>7. status' = "ready" =>
          /\ status = "ready" /\ me # None /\ me.user = s.user
          /\ session # None /\ session.user = s.user
    BY <2>2 DEF SameUser, IInv, Shown
  <2>8. Shown'
    BY <1>1, <1>2, <1>8, <2>2, <2>7 DEF IInv, Shown
  <2>9. Edited'
    BY <1>1, <1>8, <2>3, <2>4 DEF IInv, Edited
  <2>10. Alone'
    <3> SUFFICES ASSUME ~ Outside PROVE Alone'
      BY DEF Alone, Outside
    <3>1. status' = "ready" => orgRef' = me'.org /\ canvas'.org = me'.org
      <4> SUFFICES ASSUME status' = "ready" PROVE orgRef' = me'.org /\ canvas'.org = me'.org
        OBVIOUS
      <4>1. /\ orgRef = storage[session.user] /\ orgRef = me.org /\ canvas.org = me.org
            /\ canvas # None /\ canvas.user = session.user
        BY <2>7 DEF IInv, Alone, Edited
      <4>2. canvas' = [user |-> s.user, org |-> canvas.org]
        BY <2>1, <2>2, <2>7, <4>1, TransitionSame
      <4> QED
        BY <2>2, <2>7, <4>1, <4>2
    <3>2. design' # None => design'[2] = canvas'.org
      BY <2>3 DEF IInv, Alone
    <3> QED
      BY <1>1, <1>2, <2>2, <3>1, <3>2 DEF IInv, Alone
  <2> QED
    BY <1>5, <1>6, <2>6, <2>8, <2>9, <2>10 DEF IInv
<1> QED
  BY <1>7, <1>8

LEMMA EventStep ==
  ASSUME IInv, NEW s \in Sessions \cup {None}, onAuthStateChange(s) \/ GetSession(s)
  PROVE  IInv'
<1>1. CASE onAuthStateChange(s)
  <2>1. /\ events < MaxEvents /\ events' = events + 1 /\ initial' = FALSE
        /\ ApplySession(s) /\ leaving' = leaving
    BY <1>1 DEF onAuthStateChange, Counted
  <2>2. events' \in 0..MaxEvents
    BY <2>1, ConstantsAssumption DEF IInv, TypeOK
  <2>3. initial' \in BOOLEAN /\ world' = world /\ leaving' \in {"no", "erasing", "asking"}
    BY <2>1 DEF ApplySession, IInv, TypeOK
  <2> QED
    BY <2>1, <2>2, <2>3, ApplyStep
<1>2. CASE GetSession(s)
  <2>1. ApplySession(s) /\ initial' = FALSE /\ UNCHANGED <<world, events, leaving>>
    BY <1>2 DEF GetSession
  <2>2. /\ leaving' \in {"no", "erasing", "asking"} /\ events' \in 0..MaxEvents
        /\ initial' \in BOOLEAN
    BY <2>1 DEF IInv, TypeOK
  <2> QED
    BY <2>1, <2>2, ApplyStep
<1> QED
  BY <1>1, <1>2

\* Signing out, and the failures that only show an error.
LEMMA LeaveStep ==
  ASSUME IInv,
         GetSessionFails \/ signOut \/ SignOutAnonymous \/ SignOutErased \/ SignOutDone
  PROVE  IInv'
<1>0. /\ Superseded(loads) \subseteq Loads
      /\ \A l \in Superseded(loads) : ~ l.live /\ \E m \in loads : l.pc = m.pc
      /\ Superseded(selects) \subseteq Selects
      /\ \A c \in Superseded(selects) : ~ c.live
  BY SupersededLoads, SupersededSelects DEF IInv, TypeOK
<1>1. CASE GetSessionFails
  <2>1. /\ initial' = FALSE /\ status' = "error"
        /\ UNCHANGED <<world, session, me, meRef, orgRef, storage, canvas, design, evidence,
                       members, timers, loads, selects, leaving, events>>
    BY <1>1 DEF GetSessionFails, view
  <2>2. TypeOK'
    BY <2>1 DEF IInv, TypeOK
  <2> QED
    BY <2>1, <2>2, Winding
<1>2. CASE signOut
  <2>1. /\ \E fail \in Fails : /\ Erase(OfActor(session.user), fail)
                               /\ leaving' = IF fail THEN "no" ELSE "erasing"
        /\ events < MaxEvents /\ events' = events + 1
        /\ UNCHANGED <<world, session, status, me, meRef, orgRef, storage, canvas, design,
                       members, initial, timers, loads, selects>>
    BY <1>2 DEF signOut, Counted, view
  <2>2. leaving' \in {"no", "erasing"} /\ evidence' \subseteq evidence
    BY <2>1, Erases
  <2>3. events' \in 0..MaxEvents
    BY <2>1, ConstantsAssumption DEF IInv, TypeOK
  <2>4. TypeOK'
    BY <2>1, <2>2, <2>3 DEF IInv, TypeOK
  <2> QED
    BY <2>1, <2>2, <2>4, Winding
<1>3. CASE SignOutAnonymous \/ SignOutErased
  <2>1. /\ leaving' = "asking" /\ status' = "resolving" /\ loads' = Superseded(loads)
        /\ selects' = Superseded(selects)
        /\ UNCHANGED <<world, session, me, meRef, orgRef, storage, canvas, design, evidence,
                       members, initial, timers>>
    BY <1>3 DEF SignOutAnonymous, SignOutErased, view
  <2>2. events' \in 0..MaxEvents
    BY <1>3, ConstantsAssumption DEF SignOutAnonymous, SignOutErased, Counted, IInv, TypeOK
  <2>3. TypeOK'
    BY <1>0, <2>1, <2>2 DEF IInv, TypeOK
  <2> QED
    BY <1>0, <2>1, <2>3, Winding
<1>4. CASE SignOutDone
  <2>1. leaving' = "no" /\ UNCHANGED <<world, initial, events>>
    BY <1>4 DEF SignOutDone
  <2>2. CASE ApplySession(None)
    <3>1. events' \in 0..MaxEvents /\ initial' \in BOOLEAN
      BY <2>1 DEF IInv, TypeOK
    <3> QED
      BY <2>1, <2>2, <3>1, ApplyStep
  <2>3. CASE /\ status' = "error"
             /\ UNCHANGED <<session, me, meRef, canvas, design, evidence, orgRef, storage,
                            members, timers, loads, selects>>
    <3>1. TypeOK'
      BY <2>1, <2>3 DEF IInv, TypeOK
    <3> QED
      BY <2>1, <2>3, <3>1, Winding
  <2> QED
    BY <1>4, <2>2, <2>3 DEF SignOutDone, view
<1> QED
  BY <1>1, <1>2, <1>3, <1>4

-----------------------------------------------------------------------------
(* loadContext goes on and ends                                            *)

\* What the server answers while the tab is alone: to a header, its
\* organization; and never that it is denied.
LEMMA AloneReply ==
  ASSUME IInv, ~ Outside, NEW l \in loads, NEW reply \in Replies(l.session.user, l.hdr)
  PROVE  /\ reply \in Orgs => l.hdr \in {None, reply}
         /\ reply # "denied"
         /\ reply = "no_membership" => Orgs = {}
<1>1. l.hdr \in Orgs \cup {None} /\ l.session.user \in Users
  BY DEF IInv, TypeOK, Loads, Sessions
<1>2. members[l.session.user] = Orgs
  BY <1>1 DEF IInv, Alone
<1>3. \A x \in Orgs : x \notin Refusals
  BY ConstantsAssumption
<1> QED
  BY <1>1, <1>2, <1>3 DEF Replies, Refusals

\* The live call resolves the context.
LEMMA ResolveStep ==
  ASSUME IInv, NEW l \in loads, l.live, Rendered, NEW o \in Orgs,
         ~ Outside => l.hdr \in {None, o},
         Drop(l), Resolve(l.session.user, o),
         UNCHANGED <<world, evidence, session, meRef, members, initial, timers, selects,
                     leaving, events>>
  PROVE  IInv'
<1> DEFINE u == l.session.user
<1>1. /\ session # None /\ l.session = session /\ session \in Sessions /\ u \in Users
      /\ u = session.user /\ u # None /\ o # None
  BY ConstantsAssumption DEF IInv, Owned, TypeOK, Sessions
<1>2. canvas # None /\ canvas.user = u
  BY <1>1 DEF IInv, Edited
<1> HIDE DEF u
<1>3. /\ Transition(u, o) /\ orgRef' = o /\ storage' = [storage EXCEPT ![u] = o]
      /\ me' = [user |-> u, org |-> o] /\ status' = "ready" /\ loads' = loads \ {l}
  BY DEF Resolve, Drop, u
<1>4. /\ canvas' = [user |-> u, org |-> o] /\ design' \in {design, None}
      /\ design' # None => canvas.org = None \/ canvas'.org = canvas.org
  BY <1>1, <1>2, <1>3, TransitionSame
<1>5. me' \in Contexts /\ me' # None /\ me'.user = u /\ me'.org = o
  BY <1>1, <1>3, ConstantsAssumption DEF Contexts, Editors
<1>6. canvas' \in Editors /\ canvas' # None /\ canvas'.user = u /\ canvas'.org = o
  BY <1>1, <1>4, ConstantsAssumption DEF Editors
<1>7. TypeOK'
  BY <1>1, <1>3, <1>4, <1>5, <1>6 DEF IInv, TypeOK
<1>8. (\A m \in loads' : ~ m.live) /\ \A c \in selects' : ~ c.live
  BY <1>3 DEF IInv, Owned
<1>9. Owned'
  BY <1>8 DEF Owned
<1>10. Shown'
  <2>1. meRef # None => meRef.user = u
    BY <1>1 DEF IInv, Shown, Rendered, u
  <2> QED
    BY <1>1, <1>5, <1>8, <2>1 DEF Shown
<1>11. Edited'
  BY <1>1, <1>2, <1>4, <1>6 DEF IInv, Edited
<1>12. Alone'
  <2> SUFFICES ASSUME ~ Outside PROVE Alone'
    BY DEF Alone, Outside
  <2>1. design' # None => design'[2] = o
    <3> SUFFICES ASSUME design' # None PROVE design'[2] = o
      OBVIOUS
    <3>1. design' = design /\ design # None /\ design[2] = canvas.org
      BY <1>4 DEF IInv, Alone
    <3>2. design[2] \in Orgs
      BY <3>1 DEF IInv, TypeOK, Scopes
    <3> QED
      BY <1>4, <1>6, <3>1, <3>2, ConstantsAssumption
  <2>2. storage'[session'.user] = o
    BY <1>1, <1>3 DEF IInv, TypeOK
  <2> QED
    BY <1>3, <1>5, <1>6, <1>8, <2>1, <2>2 DEF IInv, Alone
<1>13. Kept'
  <2> SUFFICES ASSUME ~ Outside PROVE Kept'
    BY DEF Kept, Outside
  <2>1. ASSUME NEW e \in evidence PROVE storage'[e[1]] = e[2]
    <3>1. e[1] \in Users /\ e[2] \in Orgs /\ storage[e[1]] = e[2]
      BY DEF IInv, TypeOK, Scopes, Kept
    <3>2. CASE e[1] = u
      <4>1. l.hdr = orgRef /\ orgRef = storage[u]
        BY <1>1 DEF IInv, Alone
      <4>2. o = e[2]
        BY <3>1, <3>2, <4>1, ConstantsAssumption
      <4> QED
        BY <1>1, <1>3, <3>2, <4>2 DEF IInv, TypeOK
    <3>3. CASE e[1] # u
      BY <1>3, <3>1, <3>3 DEF IInv, TypeOK
    <3> QED
      BY <3>2, <3>3
  <2> QED
    BY <1>8, <2>1 DEF Kept
<1> QED
  BY <1>7, <1>9, <1>10, <1>11, <1>12, <1>13 DEF IInv

\* The live call goes on as m, for the same session and with the same header.
LEMMA GoesOn ==
  ASSUME IInv, TypeOK', NEW l \in loads, l.live, NEW m,
         loads' = (loads \ {l}) \cup {m}, m.live, m.session = l.session, m.hdr = l.hdr,
         Rendered, m.pc = "erasing" => m.target \in Orgs,
         ~ Outside => m.pc # "retrying" /\ (m.pc = "erasing" => m.hdr \in {None, m.target}),
         evidence' \subseteq evidence,
         UNCHANGED <<world, session, status, me, meRef, orgRef, storage, canvas, design,
                     members, selects>>
  PROVE  IInv'
<1>1. \A k \in loads' : k.live => k = m
  BY DEF IInv, Owned
<1>2. Owned'
  BY <1>1 DEF IInv, Owned
<1>3. Shown'
  BY <1>1 DEF IInv, Shown, Rendered
<1>4. Edited'
  BY DEF IInv, Edited
<1>5. Alone'
  <2> SUFFICES ASSUME ~ Outside PROVE Alone'
    BY DEF Alone, Outside
  <2>1. \A k \in loads' : k.pc # "retrying"
    BY DEF IInv, Alone
  <2>2. \A k \in loads' : k.live =>
          k.hdr = orgRef' /\ (k.pc = "erasing" => k.hdr \in {None, k.target})
    BY <1>1 DEF IInv, Alone
  <2> QED
    BY <2>1, <2>2 DEF IInv, Alone
<1>6. Kept'
  <2> SUFFICES ASSUME ~ Outside PROVE Kept'
    BY DEF Kept, Outside
  <2> QED
    BY DEF IInv, Kept
<1> QED
  BY <1>2, <1>3, <1>4, <1>5, <1>6 DEF IInv

\* A call is dropped, whatever it then shows.
LEMMA Dropped ==
  ASSUME IInv, NEW l \in loads, Drop(l), NEW x, status' = x,
         x \in {status, "error", "organization_required", "mfa_required", "no_membership"},
         UNCHANGED <<world, session, me, meRef, orgRef, storage, canvas, design, evidence,
                     members, initial, timers, selects, leaving, events>>
  PROVE  IInv'
<1>1. TypeOK'
  BY DEF IInv, TypeOK, Drop
<1>2. loads' \subseteq loads
  BY DEF Drop
<1> QED
  BY <1>1, <1>2, Winding

\* An answer that names an organization.
LEMMA ActiveStep ==
  ASSUME IInv, NEW l \in loads, l.live, l.pc = "asked", Rendered, NEW o \in Orgs,
         ~ Outside => l.hdr \in {None, o}, Active(l, o),
         UNCHANGED <<world, session, meRef, members, initial, timers, selects, leaving, events>>
  PROVE  IInv'
<1>1. CASE Outgoing(l.session.user, o) # {}
  <2>1. PICK fail \in Fails :
          /\ Erase(Outgoing(l.session.user, o), fail)
          /\ loads' = (loads \ {l}) \cup
               {[l EXCEPT !.pc = "erasing", !.target = o, !.fail = fail]}
          /\ UNCHANGED <<status, me, orgRef, storage, canvas, design>>
    BY <1>1 DEF Active
  <2> DEFINE m == [l EXCEPT !.pc = "erasing", !.target = o, !.fail = fail]
  <2>2. fail \in BOOLEAN /\ l \in Loads
    BY DEF Fails, IInv, TypeOK
  <2>3. /\ m \in Loads /\ m.live /\ m.session = l.session /\ m.hdr = l.hdr
        /\ m.pc = "erasing" /\ m.target = o
    BY <2>2 DEF Loads
  <2>4. evidence' \subseteq evidence
    BY <2>1, Erases
  <2>5. loads' = (loads \ {l}) \cup {m}
    BY <2>1
  <2> HIDE DEF m
  <2>6. TypeOK'
    BY <2>1, <2>3, <2>4, <2>5 DEF IInv, TypeOK
  <2> QED
    BY <2>1, <2>3, <2>4, <2>5, <2>6, GoesOn
<1>2. CASE Outgoing(l.session.user, o) = {}
  <2>1. Drop(l) /\ Resolve(l.session.user, o) /\ evidence' = evidence
    BY <1>2 DEF Active
  <2> QED
    BY <2>1, ResolveStep
<1> QED
  BY <1>1, <1>2

\* The selected organization is denied.
LEMMA DeniedStep ==
  ASSUME IInv, NEW l \in loads, l.live, l.pc = "asked", Rendered, Outside, Denied(l),
         UNCHANGED <<world, session, meRef, members, initial, timers, selects, leaving, events>>
  PROVE  IInv'
<1>1. PICK fail \in Fails :
        /\ Erase({<<l.session.user, orgRef>>}, fail)
        /\ loads' = (loads \ {l}) \cup {[l EXCEPT !.pc = "retrying", !.fail = fail]}
        /\ UNCHANGED <<status, me, orgRef, storage, canvas, design>>
  BY DEF Denied
<1> DEFINE m == [l EXCEPT !.pc = "retrying", !.fail = fail]
<1>2. fail \in BOOLEAN /\ l \in Loads
  BY DEF Fails, IInv, TypeOK
<1>3. /\ m \in Loads /\ m.live /\ m.session = l.session /\ m.hdr = l.hdr
      /\ m.pc = "retrying"
  BY <1>2 DEF Loads
<1>4. evidence' \subseteq evidence
  BY <1>1, Erases
<1>5. loads' = (loads \ {l}) \cup {m}
  BY <1>1
<1> HIDE DEF m
<1>6. TypeOK'
  BY <1>1, <1>3, <1>4, <1>5 DEF IInv, TypeOK
<1> QED
  BY <1>1, <1>3, <1>4, <1>5, <1>6, GoesOn

\* The server answers that the user has no organization.
LEMMA NoMembershipStep ==
  ASSUME IInv, NEW l \in loads, l.live, Turned(l, "no_membership"),
         ~ Outside => Orgs = {},
         UNCHANGED <<world, session, meRef, members, initial, timers, selects, leaving, events>>
  PROVE  IInv'
<1>1. /\ loads' = loads \ {l} /\ status' = "no_membership" /\ orgRef' = None
      /\ storage' = [storage EXCEPT ![l.session.user] = None]
      /\ UNCHANGED <<me, canvas, design, evidence>>
  BY DEF Turned, Drop
<1>2. l.session = session /\ session \in Sessions /\ session.user \in Users
  BY DEF IInv, Owned, TypeOK, Loads, Sessions
<1>3. TypeOK'
  BY <1>1, <1>2 DEF IInv, TypeOK
<1>4. \A m \in loads' : ~ m.live
  BY <1>1 DEF IInv, Owned
<1>5. Owned'
  BY <1>1, <1>4 DEF IInv, Owned
<1>6. Shown'
  BY <1>1, <1>4 DEF IInv, Shown
<1>7. Edited'
  BY <1>1 DEF IInv, Edited
<1>8. Alone'
  <2> SUFFICES ASSUME ~ Outside PROVE Alone'
    BY DEF Alone, Outside
  <2>1. storage'[session'.user] = None
    BY <1>1, <1>2 DEF IInv, TypeOK
  <2> QED
    BY <1>1, <1>4, <2>1 DEF IInv, Alone
<1>9. Kept'
  <2> SUFFICES ASSUME ~ Outside PROVE Kept'
    BY DEF Kept, Outside
  <2>1. evidence' = {} /\ Orgs = {}
    BY <1>1 DEF IInv, TypeOK, Scopes
  <2> QED
    BY <2>1 DEF Kept
<1> QED
  BY <1>3, <1>5, <1>6, <1>7, <1>8, <1>9 DEF IInv

LEMMA ReplyStep == ASSUME IInv, NEW l \in loads, LoadReply(l) PROVE IInv'
<1>1. /\ l.pc = "asked" /\ Rendered
      /\ UNCHANGED <<world, session, meRef, members, initial, timers, selects, leaving, events>>
  BY DEF LoadReply
<1>2. CASE ~ l.live
  <2>1. Drop(l) /\ UNCHANGED <<status, me, orgRef, storage, canvas, design, evidence>>
    BY <1>2 DEF LoadReply, IsCurrent
  <2> QED
    BY <1>1, <2>1, Dropped
<1>3. CASE l.live
  <2>1. PICK reply \in Replies(l.session.user, l.hdr) :
          IF reply \in Orgs THEN Active(l, reply)
          ELSE IF reply = "denied" /\ orgRef # None /\ l.attempt = 0 THEN Denied(l)
          ELSE IF reply \in {"denied", "failed"} THEN Failed(l)
          ELSE Turned(l, reply)
    BY <1>3 DEF LoadReply, IsCurrent
  <2>2. CASE reply \in Orgs
    <3>1. Active(l, reply) /\ (~ Outside => l.hdr \in {None, reply})
      BY <2>1, <2>2, AloneReply
    <3> QED
      BY <1>1, <1>3, <2>2, <3>1, ActiveStep
  <2>3. CASE reply \notin Orgs /\ reply = "denied" /\ orgRef # None /\ l.attempt = 0
    <3>1. Denied(l)
      BY <2>1, <2>3
    <3>2. Outside
      BY <2>3, AloneReply
    <3> QED
      BY <1>1, <1>3, <3>1, <3>2, DeniedStep
  <2>4. CASE Failed(l)
    <3>1. /\ Drop(l) /\ status' \in {status, "error"}
          /\ UNCHANGED <<me, orgRef, storage, canvas, design, evidence>>
      BY <2>4 DEF Failed
    <3> QED
      BY <1>1, <3>1, Dropped
  <2>5. CASE reply \notin Orgs /\ reply \notin {"denied", "failed"} /\ Turned(l, reply)
    <3>1. reply \in {"no_membership", "organization_required", "mfa_required"}
      <4>1. \A u \in Users : members[u] \subseteq Orgs
        BY DEF IInv, TypeOK
      <4>2. l.session.user \in Users
        BY DEF IInv, TypeOK, Loads, Sessions
      <4> QED
        BY <2>5, <4>1, <4>2 DEF Replies
    <3>2. CASE reply = "no_membership"
      <4>1. Turned(l, "no_membership") /\ (~ Outside => Orgs = {})
        BY <2>5, <3>2, AloneReply
      <4> QED
        BY <1>1, <1>3, <4>1, NoMembershipStep
    <3>3. CASE reply # "no_membership"
      <4>1. /\ Drop(l) /\ status' = reply
            /\ UNCHANGED <<me, orgRef, storage, canvas, design, evidence>>
        BY <2>5, <3>3 DEF Turned
      <4> QED
        BY <1>1, <3>1, <4>1, Dropped
    <3> QED
      BY <3>2, <3>3
  <2> QED
    BY <2>1, <2>2, <2>3, <2>4, <2>5
<1> QED
  BY <1>2, <1>3

LEMMA ErasedStep == ASSUME IInv, NEW l \in loads, LoadErased(l) PROVE IInv'
<1>1. /\ l.pc = "erasing"
      /\ UNCHANGED <<world, session, meRef, members, initial, timers, selects, leaving, events>>
  BY DEF LoadErased
<1>2. CASE ~ l.live
  <2>1. Drop(l) /\ UNCHANGED <<status, me, orgRef, storage, canvas, design, evidence>>
    BY <1>2 DEF LoadErased, IsCurrent
  <2> QED
    BY <1>1, <2>1, Dropped
<1>3. CASE l.live /\ l.fail
  <2>1. /\ Drop(l) /\ status' \in {status, "error"}
        /\ UNCHANGED <<me, orgRef, storage, canvas, design, evidence>>
    BY <1>3 DEF LoadErased, IsCurrent, Failed
  <2> QED
    BY <1>1, <2>1, Dropped
<1>4. CASE l.live /\ ~ l.fail
  <2>1. Drop(l) /\ Resolve(l.session.user, l.target) /\ evidence' = evidence
    BY <1>4 DEF LoadErased, IsCurrent
  <2>2. Rendered /\ l.target \in Orgs
    BY <1>1, <1>4 DEF IInv, Shown
  <2>3. ~ Outside => l.hdr \in {None, l.target}
    BY <1>1, <1>4 DEF IInv, Alone
  <2> QED
    BY <1>1, <1>4, <2>1, <2>2, <2>3, ResolveStep
<1> QED
  BY <1>2, <1>3, <1>4

LEMMA RetryStep == ASSUME IInv, NEW l \in loads, LoadRetry(l) PROVE IInv'
<1>1. /\ l.pc = "retrying"
      /\ UNCHANGED <<world, session, status, me, meRef, canvas, design, evidence, members,
                     initial, timers, selects, leaving, events>>
  BY DEF LoadRetry
<1>2. CASE ~ l.live \/ l.fail
  <2>1. Drop(l) /\ UNCHANGED <<orgRef, storage>>
    BY <1>2 DEF LoadRetry, IsCurrent
  <2> QED
    BY <1>1, <2>1, Dropped
<1>3. CASE l.live /\ ~ l.fail
  <2> DEFINE m == Request(l.refreshing, 1, None, l.session)
  <2>1. /\ orgRef' = None /\ storage' = [storage EXCEPT ![l.session.user] = None]
        /\ loads' = (loads \ {l}) \cup {m}
    BY <1>3 DEF LoadRetry, IsCurrent
  <2>2. l.session \in Sessions /\ l.refreshing \in BOOLEAN /\ l.session.user \in Users
    BY DEF IInv, TypeOK, Loads, Sessions
  <2>3. m \in Loads /\ m.live /\ m.session = l.session /\ m.pc = "asked"
    <3>1. 1 \in {0, 1} /\ None \in Orgs \cup {None}
      OBVIOUS
    <3>2. \A r \in BOOLEAN : LET q == Request(r, 1, None, l.session) IN
            q \in Loads /\ q.live /\ q.session = l.session /\ q.pc = "asked"
      BY <2>2, <3>1, RequestIs
    <3> QED
      BY <2>2, <3>2
  <2> HIDE DEF m
  <2>4. Outside
    BY <1>1 DEF IInv, Alone
  <2>5. TypeOK'
    BY <1>1, <2>1, <2>2, <2>3 DEF IInv, TypeOK
  <2>6. \A k \in loads' : k.live => k = m
    BY <1>3, <2>1 DEF IInv, Owned
  <2>7. Owned'
    BY <1>1, <1>3, <2>3, <2>6 DEF IInv, Owned
  <2>8. Shown'
    BY <1>1, <1>3, <2>3, <2>6 DEF IInv, Shown
  <2>9. Edited'
    BY <1>1 DEF IInv, Edited
  <2>10. Alone' /\ Kept'
    BY <1>1, <2>4 DEF Alone, Kept, Outside
  <2> QED
    BY <2>5, <2>7, <2>8, <2>9, <2>10 DEF IInv
<1> QED
  BY <1>2, <1>3

-----------------------------------------------------------------------------
(* Work, renders and the world outside                                     *)

LEMMA WorkStep == IInv /\ Work => IInv'
<1> SUFFICES ASSUME IInv, Work PROVE IInv'
  OBVIOUS
<1>1. /\ status = "ready" /\ me # None
      /\ design' = <<me.user, me.org>>
      /\ evidence' = evidence \cup {<<me.user, me.org>>}
      /\ UNCHANGED <<world, session, status, me, meRef, orgRef, storage, canvas, members,
                     initial, timers, loads, selects, leaving, events>>
  BY DEF Work, view
<1>2. me.user \in Users /\ me.org \in Orgs
  BY <1>1 DEF IInv, TypeOK, Contexts
<1>3. /\ session # None /\ me.user = session.user /\ canvas # None
      /\ canvas.user = session.user
  BY <1>1 DEF IInv, Shown, Edited
<1>4. TypeOK'
  <2>1. <<me.user, me.org>> \in Scopes
    BY <1>2 DEF Scopes
  <2> QED
    BY <1>1, <2>1 DEF IInv, TypeOK
<1>5. Owned'
  BY <1>1 DEF IInv, Owned
<1>6. Shown'
  BY <1>1 DEF IInv, Shown, Rendered
<1>7. Edited'
  BY <1>1, <1>3 DEF IInv, Edited
<1>8. Alone'
  <2> SUFFICES ASSUME ~ Outside PROVE Alone'
    BY <1>1 DEF Alone, Outside
  <2>1. design'[2] = canvas'.org
    BY <1>1 DEF IInv, Alone
  <2> QED
    BY <1>1, <2>1 DEF IInv, Alone
<1>9. Kept'
  <2> SUFFICES ASSUME ~ Outside PROVE Kept'
    BY <1>1 DEF Kept, Outside
  <2>1. storage[me.user] = me.org
    BY <1>1, <1>3 DEF IInv, Alone
  <2>2. \A e \in evidence' : storage'[e[1]] = e[2]
    BY <1>1, <2>1 DEF IInv, Kept
  <2>3. \A c \in selects' : ~ c.live
    BY <1>1 DEF IInv, Owned
  <2> QED
    BY <2>2, <2>3 DEF Kept
<1> QED
  BY <1>4, <1>5, <1>6, <1>7, <1>8, <1>9 DEF IInv

LEMMA RenderStep == IInv /\ Render => IInv'
<1> SUFFICES ASSUME IInv, Render PROVE IInv'
  OBVIOUS
<1>1. /\ meRef' = me
      /\ UNCHANGED <<world, session, status, me, orgRef, storage, canvas, design, evidence,
                     members, initial, timers, loads, selects, leaving, events>>
  BY DEF Render
<1>2. TypeOK'
  BY <1>1 DEF IInv, TypeOK
<1>3. Owned' /\ Edited'
  BY <1>1 DEF IInv, Owned, Edited
<1>4. Shown'
  BY <1>1 DEF IInv, Shown, Rendered
<1>5. Alone' /\ Kept'
  BY <1>1 DEF IInv, Alone, Kept, Outside
<1> QED
  BY <1>2, <1>3, <1>4, <1>5 DEF IInv

\* Another tab, or the office.
LEMMA OutsideStep ==
  ASSUME IInv,
         \/ \E o \in Orgs : OtherTabSelects(o)
         \/ \E u \in Users, o \in Orgs : Withdraw(u, o)
  PROVE  IInv'
<1>1. /\ Outside /\ events < MaxEvents /\ events' = events + 1
      /\ UNCHANGED <<world, session, status, me, meRef, orgRef, canvas, design, initial, timers,
                     loads, selects, leaving>>
  BY DEF OtherTabSelects, Withdraw, Counted, view
<1>2. events' \in 0..MaxEvents
  BY <1>1, ConstantsAssumption DEF IInv, TypeOK
<1>3. TypeOK'
  <2>1. CASE \E o \in Orgs : OtherTabSelects(o)
    <3>1. PICK o \in Orgs : /\ storage' = [storage EXCEPT ![session.user] = o]
                            /\ evidence' \subseteq evidence /\ members' = members
      BY <2>1 DEF OtherTabSelects
    <3> QED
      BY <1>1, <1>2, <3>1 DEF IInv, TypeOK
  <2>2. CASE \E u \in Users, o \in Orgs : Withdraw(u, o)
    <3>1. PICK u \in Users, o \in Orgs : /\ members' = [members EXCEPT ![u] = @ \ {o}]
                                        /\ UNCHANGED <<storage, evidence>>
      BY <2>2 DEF Withdraw
    <3> QED
      BY <1>1, <1>2, <3>1 DEF IInv, TypeOK
  <2> QED
    BY <2>1, <2>2
<1>4. Owned' /\ Edited'
  BY <1>1 DEF IInv, Owned, Edited
<1>5. Shown'
  BY <1>1 DEF IInv, Shown, Rendered
<1>6. Alone' /\ Kept'
  BY <1>1 DEF Alone, Kept, Outside
<1> QED
  BY <1>3, <1>4, <1>5, <1>6 DEF IInv

-----------------------------------------------------------------------------
(* The specification                                                       *)

LEMMA InitIInv == Init => IInv
<1> SUFFICES ASSUME Init PROVE IInv
  OBVIOUS
<1>1. TypeOK
  BY ConstantsAssumption DEF Init, TypeOK
<1>2. Owned /\ Shown /\ Edited
  BY DEF Init, Owned, Shown, Edited
<1>3. Alone /\ Kept
  BY DEF Init, Alone, Kept
<1> QED
  BY <1>1, <1>2, <1>3 DEF IInv

LEMMA NextIInv == IInv /\ [Next]_vars => IInv'
<1> SUFFICES ASSUME IInv, [Next]_vars PROVE IInv'
  OBVIOUS
<1>1. CASE UNCHANGED vars
  <2>1. TypeOK'
    BY <1>1 DEF IInv, TypeOK, vars
  <2> QED
    BY <1>1, <2>1, Winding DEF vars
<1>2. CASE Continue
  BY <1>2, TimerStep, LeaveStep, RenderStep, ReplyStep, ErasedStep, RetryStep,
     SelectErasedStep DEF Continue
<1>3. CASE \E s \in Sessions \cup {None} : onAuthStateChange(s) \/ GetSession(s)
  BY <1>3, EventStep
<1>4. CASE GetSessionFails \/ refreshContext \/ signOut \/ SignOutAnonymous \/ Work
  BY <1>4, LeaveStep, RefreshStep, WorkStep
<1>5. CASE \/ \E o \in Orgs : selectOrganization(o) \/ OtherTabSelects(o)
           \/ \E u \in Users, o \in Orgs : Withdraw(u, o)
  BY <1>5, SelectStep, OutsideStep
<1> QED
  BY <1>1, <1>2, <1>3, <1>4, <1>5 DEF Next

LEMMA Invariance == Spec => []IInv
BY InitIInv, NextIInv, PTL DEF Spec

\* The provider's state, its refs and its calls under way stay well typed.
THEOREM TypeCorrect == Spec => []TypeOK
BY Invariance, PTL DEF IInv

\* A reply, a timer or an erasure of the past never opens the application on
\* another user's context or design, nor, while no other tab chooses, on
\* another organization's.
THEOREM OpensOnOwn == Spec => []ReadyIsOwn
<1>1. IInv => ReadyIsOwn
  <2> SUFFICES ASSUME IInv, status = "ready" PROVE ReadyIsOwn
    BY DEF ReadyIsOwn
  <2>1. session # None /\ me # None /\ me.user = session.user
    BY DEF IInv, Shown
  <2>2. design # None => design[1] = me.user
    BY <2>1 DEF IInv, Edited
  <2>3. ~ Outside => orgRef = me.org /\ (design # None => design[2] = me.org)
    BY DEF IInv, Alone
  <2> QED
    BY <2>1, <2>2, <2>3 DEF ReadyIsOwn
<1> QED
  BY <1>1, Invariance, PTL

\* When the application opens, the device has no field evidence of another
\* organization of its user: an erasure that fails is repeated or the selection
\* does not change, whatever supersedes what.
THEOREM LeavesNothing == Spec => []OutgoingErased
<1>1. IInv => OutgoingErased
  <2> SUFFICES ASSUME IInv, status = "ready", ~ Outside, NEW o \in Orgs \ {me.org},
                      <<me.user, o>> \in evidence
               PROVE  FALSE
    BY DEF OutgoingErased
  <2>1. me.user = session.user /\ session # None /\ orgRef = me.org
    BY DEF IInv, Shown, Alone
  <2>2. storage[me.user] = me.org
    BY <2>1 DEF IInv, Alone
  <2>3. storage[<<me.user, o>>[1]] = <<me.user, o>>[2]
    BY DEF IInv, Kept
  <2> QED
    BY <2>2, <2>3
<1> QED
  BY <1>1, Invariance, PTL

-----------------------------------------------------------------------------
(* The field outbox.                                                        *)

\* A queue with one transaction more.
LEMMA Pushed ==
  ASSUME NEW S, NEW q \in Seq(S), NEW x \in S
  PROVE  /\ Append(q, x) \in Seq(S) /\ Len(Append(q, x)) = Len(q) + 1 /\ Len(q) \in Nat
         /\ \A k \in 1..Len(q) : Append(q, x)[k] = q[k]
         /\ Append(q, x)[Len(q) + 1] = x
  OBVIOUS

\* A queue without its head.
LEMMA Popped ==
  ASSUME NEW S, NEW q \in Seq(S), q # << >>
  PROVE  /\ Tail(q) \in Seq(S) /\ Len(Tail(q)) = Len(q) - 1 /\ Len(q) \in Nat /\ Len(q) > 0
         /\ Head(q) \in S /\ Head(q) = q[1]
         /\ \A k \in 1..Len(Tail(q)) : Tail(q)[k] = q[k + 1]
<1>1. Tail(q) \in Seq(S) /\ Len(Tail(q)) = Len(q) - 1 /\ Len(q) \in Nat /\ Len(q) > 0
  BY EmptySeq
<1>2. Head(q) = q[1] /\ q[1] \in S
  BY <1>1
<1>3. \A k \in 1..Len(Tail(q)) : Tail(q)[k] = q[k + 1]
  BY <1>1
<1> QED
  BY <1>1, <1>2, <1>3

\* The head replaced.
LEMMA Replaced ==
  ASSUME NEW S, NEW q \in Seq(S), q # << >>, NEW x \in S
  PROVE  /\ <<x>> \o Tail(q) \in Seq(S) /\ Len(<<x>> \o Tail(q)) = Len(q) /\ Len(q) \in Nat /\ Len(q) > 0
         /\ (<<x>> \o Tail(q))[1] = x
         /\ \A k \in 2..Len(q) : (<<x>> \o Tail(q))[k] = q[k]
<1>1. Tail(q) \in Seq(S) /\ Len(Tail(q)) = Len(q) - 1 /\ Len(q) \in Nat /\ Len(q) > 0
      /\ \A k \in 1..Len(Tail(q)) : Tail(q)[k] = q[k + 1]
  BY Popped
<1>2. <<x>> \in Seq(S) /\ Len(<<x>>) = 1 /\ <<x>>[1] = x
  OBVIOUS
<1> DEFINE r == <<x>> \o Tail(q)
<1>3. r \in Seq(S) /\ Len(r) = Len(q)
  BY <1>1, <1>2
<1>4. r[1] = x
  BY <1>1, <1>2
<1>5. ASSUME NEW k \in 2..Len(q) PROVE r[k] = q[k]
  <2>1. r[k] = Tail(q)[k - 1]
    BY <1>1, <1>2
  <2>2. k - 1 \in 1..Len(Tail(q))
    BY <1>1
  <2>3. Tail(q)[k - 1] = q[(k - 1) + 1]
    BY <1>1, <2>2
  <2> QED
    BY <2>1, <2>3
<1> QED
  BY <1>1, <1>3, <1>4, <1>5

-----------------------------------------------------------------------------
(* The inductive invariant.                                                 *)

\* What the server holds, the person discarded or an erasure deleted needs no
\* sending; a command is ready when all those it depends on are settled so.
Gone == receipts \cup discarded \cup erased
Known(i) == call[i] # "none"
Ready(i) == prior[i] \subseteq Gone

\* A write is stale when its tab has bumped a counter since it took its stamp.
IsWrite(x) == x.kind \in {"copy", "add"}
Stale(t, x) == x.stamp[1] < gen[t].actor[x.scope[1]] \/ x.stamp[2] < gen[t].scope[x.scope]

\* What a queued transaction rests on: an add is the open call of its tab, a
\* write is skipped only when stale, an erasure knows the reports of its tab
\* in its scopes, and a flush waits for the transaction it opened.
RowOK(t, x) ==
  /\ x.kind = "add" => x.id \in Ids /\ tabOf[x.id] = t /\ owner[x.id] = x.scope /\ call[x.id] = "open"
  /\ IsWrite(x) => /\ x.stamp[1] <= gen[t].actor[x.scope[1]] /\ x.stamp[2] <= gen[t].scope[x.scope]
                   /\ x.write = "get" => Stale(t, x)
  /\ x.kind = "clear" => \A i \in Ids : tabOf[i] = t /\ owner[i] \in x.which /\ call[i] = "saved" => i \in x.saved
  /\ x.kind = "list" => flushes[t][x.scope].pc = "list"
  /\ x.kind \in {"delete", "mark"} => flushes[t][x.scope].pc = "store" /\ flushes[t][x.scope].item = x.id
  /\ x.kind = "delete" => x.id \in receipts

\* Two transactions of one queue: commands differ, a scope has one flush, and
\* a write that an erasure follows in its scope is stale.
PairOK(t, x, y) ==
  /\ x.kind = "add" /\ y.kind = "add" => x.id # y.id
  /\ x.kind \in {"list", "delete", "mark"} /\ y.kind \in {"list", "delete", "mark"} => x.scope # y.scope
  /\ IsWrite(x) /\ y.kind = "clear" /\ x.scope \in y.which => Stale(t, x)

\* And a write of a scope its tab calls clean is followed by an erasure of it.
QueueOK(t) ==
  /\ \A k \in 1..Len(db[t]) : RowOK(t, db[t][k])
  /\ \A k, j \in 1..Len(db[t]) : k < j => PairOK(t, db[t][k], db[t][j])
  /\ \A k \in 1..Len(db[t]) : IsWrite(db[t][k]) /\ t \in cleanBy[db[t][k].scope] =>
       \E j \in 1..Len(db[t]) : k < j /\ db[t][j].kind = "clear" /\ db[t][k].scope \in db[t][j].which

\* A tab the device does not have does nothing.
Closed(t) == t \notin device.tabs =>
  db[t] = << >> /\ page[t] = NoScope /\ \A s \in FieldScopes : flushes[t][s].pc = "idle"

\* Something of a scope is stored only while some tab has not erased it, or
\* has not finished to.
Present(s) == s \in copies \/ MineIn(s, stored) # {}
PendingClear(t, s) == \E k \in 1..Len(db[t]) : db[t][k].kind = "clear" /\ s \in db[t][k].which

PresentOK(s) == Present(s) => \E t \in device.tabs : t \notin cleanBy[s] \/ PendingClear(t, s)

\* The command a flush has sent is ready, and what each one left depends on
\* is settled, left as well, or the one that was sent.
FlushOK(f) ==
  /\ f.pc \in {"sent", "store"} => /\ f.item \in Ids /\ Known(f.item) /\ Ready(f.item)
                                   /\ \A x \in f.todo : x > f.item
  /\ \A x \in f.todo : Known(x) /\ \A i \in prior[x] :
        i \in Gone \/ i \in f.todo \/ (f.pc \in {"sent", "store"} /\ i = f.item)
  /\ f.pc = "sent" /\ f.answer = "ok" => f.item \in receipts

\* What a command depends on was enqueued before it in the same scope, and
\* was reported saved; only ready commands reach the server.
Calls ==
  /\ \A i \in Ids : i \in stored \cup receipts \cup stray => Known(i)
  /\ \A i, j \in Ids : Known(j) /\ i < j => Known(i)
  /\ \A j \in Ids : \A i \in prior[j] : i < j /\ owner[i] = owner[j] /\ call[i] = "saved"
  /\ \A i \in Ids : i \in receipts <=> count[i] > 0
  /\ \A i \in stray : Ready(i)
  /\ \A j \in receipts : Ready(j)

\* The inductive invariant of the outbox.
FieldInv == /\ FieldTypeOK
            /\ \A t \in Tabs : QueueOK(t) /\ Closed(t)
            /\ \A s \in FieldScopes : PresentOK(s)
            /\ \A t \in Tabs, s \in FieldScopes : FlushOK(flushes[t][s])
            /\ Calls
            /\ NoSilentLoss

-----------------------------------------------------------------------------
(* What a step leaves alone.                                                *)

\* What is settled stays settled, and a command that was enqueued keeps what
\* it was enqueued with.
Grows ==
  /\ receipts \subseteq receipts' /\ discarded \subseteq discarded' /\ erased \subseteq erased'
  /\ \A i \in Ids : call[i] # "none" =>
       prior'[i] = prior[i] /\ owner'[i] = owner[i] /\ tabOf'[i] = tabOf[i] /\ call'[i] # "none"
  /\ \A i \in Ids : call[i] = "saved" => call'[i] = "saved"
  /\ device' = device

\* What a queued transaction relies on.
Holds(t, x) ==
  /\ x.kind = "add" => call'[x.id] = "open"
  /\ x.kind \in {"list", "delete", "mark"} => flushes'[t][x.scope] = flushes[t][x.scope]
  /\ x.kind = "clear" => \A i \in Ids :
       tabOf'[i] = t /\ owner'[i] \in x.which /\ call'[i] = "saved" =>
         (tabOf[i] = t /\ owner[i] \in x.which /\ call[i] = "saved") \/ i \in x.saved

\* The counters of a tab that is not reloaded never go back.
Later(t) ==
  /\ \A a \in Actors : gen'[t].actor[a] >= gen[t].actor[a]
  /\ \A s \in FieldScopes : gen'[t].scope[s] >= gen[t].scope[s]

\* The kind of a transaction tells its fields.
LEMMA TxType ==
  ASSUME NEW x \in Transactions
  PROVE  /\ IsWrite(x) => x \in Writes
         /\ x.kind = "clear" => x \in Erasures
         /\ x.kind = "list" => x \in Lists
         /\ x.kind = "delete" => x \in Deletes
         /\ x.kind = "mark" => x \in Marks
         /\ x.kind \in {"check", "drop"} => x \in Checks
  BY DEF Transactions, Writes, Erasures, Lists, Deletes, Marks, Checks, IsWrite

\* The fields of a write.
LEMMA WriteType ==
  ASSUME NEW x \in Transactions, IsWrite(x)
  PROVE  x.scope \in FieldScopes /\ x.scope[1] \in Actors /\ x.stamp[1] \in Nat /\ x.stamp[2] \in Nat
  BY TxType DEF Writes, FieldScopes

\* The counters are numbers.
LEMMA GenType ==
  ASSUME FieldTypeOK, NEW t \in Tabs
  PROVE  /\ \A a \in Actors : gen[t].actor[a] \in Nat
         /\ \A s \in FieldScopes : gen[t].scope[s] \in Nat
  BY DEF FieldTypeOK

\* A stale write stays stale.
LEMMA StaleKept ==
  ASSUME FieldTypeOK, FieldTypeOK', NEW t \in Tabs, Later(t), NEW x \in Transactions, IsWrite(x), Stale(t, x)
  PROVE  Stale(t, x)'
<1>1. x.scope \in FieldScopes /\ x.scope[1] \in Actors /\ x.stamp[1] \in Nat /\ x.stamp[2] \in Nat
  BY WriteType
<1>2. /\ gen[t].actor[x.scope[1]] \in Nat /\ gen[t].scope[x.scope] \in Nat
      /\ gen'[t].actor[x.scope[1]] \in Nat /\ gen'[t].scope[x.scope] \in Nat
  BY <1>1 DEF FieldTypeOK
<1>3. /\ gen'[t].actor[x.scope[1]] >= gen[t].actor[x.scope[1]]
      /\ gen'[t].scope[x.scope] >= gen[t].scope[x.scope]
  BY <1>1 DEF Later
<1> QED
  BY <1>1, <1>2, <1>3 DEF Stale

\* A queued transaction keeps what it rests on.
LEMMA RowKept ==
  ASSUME FieldTypeOK, FieldTypeOK', Grows, NEW t \in Tabs, Later(t), NEW x \in Transactions, RowOK(t, x), Holds(t, x)
  PROVE  RowOK(t, x)'
<1>1. x.kind = "add" => x.id \in Ids /\ tabOf'[x.id] = t /\ owner'[x.id] = x.scope /\ call'[x.id] = "open"
  BY DEF RowOK, Grows, Holds
<1>2. ASSUME IsWrite(x)
      PROVE  /\ x.stamp[1] <= gen'[t].actor[x.scope[1]] /\ x.stamp[2] <= gen'[t].scope[x.scope]
             /\ x.write = "get" => Stale(t, x)'
  <2>1. x.scope \in FieldScopes /\ x.scope[1] \in Actors /\ x.stamp[1] \in Nat /\ x.stamp[2] \in Nat
    BY <1>2, WriteType
  <2>2. /\ gen[t].actor[x.scope[1]] \in Nat /\ gen[t].scope[x.scope] \in Nat
        /\ gen'[t].actor[x.scope[1]] \in Nat /\ gen'[t].scope[x.scope] \in Nat
    BY <2>1 DEF FieldTypeOK
  <2>3. /\ gen'[t].actor[x.scope[1]] >= gen[t].actor[x.scope[1]]
        /\ gen'[t].scope[x.scope] >= gen[t].scope[x.scope]
    BY <2>1 DEF Later
  <2>4. x.stamp[1] <= gen[t].actor[x.scope[1]] /\ x.stamp[2] <= gen[t].scope[x.scope]
    BY <1>2 DEF RowOK
  <2>5. x.write = "get" => Stale(t, x)'
    BY <1>2, StaleKept DEF RowOK
  <2> QED
    BY <2>1, <2>2, <2>3, <2>4, <2>5
<1>3. x.kind = "clear" => \A i \in Ids : tabOf'[i] = t /\ owner'[i] \in x.which /\ call'[i] = "saved" => i \in x.saved
  BY DEF RowOK, Holds
<1>4. /\ x.kind = "list" => flushes'[t][x.scope].pc = "list"
      /\ x.kind \in {"delete", "mark"} => flushes'[t][x.scope].pc = "store" /\ flushes'[t][x.scope].item = x.id
      /\ x.kind = "delete" => x.id \in receipts'
  BY DEF RowOK, Holds, Grows
<1> QED
  BY <1>1, <1>2, <1>3, <1>4 DEF RowOK, IsWrite

\* And so do two of them.
LEMMA PairKept ==
  ASSUME FieldTypeOK, FieldTypeOK', NEW t \in Tabs, Later(t), NEW x \in Transactions, NEW y \in Transactions, PairOK(t, x, y)
  PROVE  PairOK(t, x, y)'
<1>1. IsWrite(x) /\ y.kind = "clear" /\ x.scope \in y.which => Stale(t, x)'
  BY StaleKept DEF PairOK
<1> QED
  BY <1>1 DEF PairOK, IsWrite

\* A queue after a step: what is left of the old one from position n on, and
\* perhaps one transaction more.
LEMMA QueueStep ==
  ASSUME FieldTypeOK, FieldTypeOK', Grows, NEW t \in Tabs, QueueOK(t), Later(t),
         NEW m \in Nat, NEW n \in Nat, m + n = Len(db[t]),
         Len(db'[t]) \in {m, m + 1},
         \A k \in 1..m : db'[t][k] = db[t][k + n] /\ Holds(t, db[t][k + n]),
         Len(db'[t]) = m + 1 => RowOK(t, db[t][m + 1])',
         Len(db'[t]) = m + 1 => \A k \in 1..m : PairOK(t, db[t][k], db[t][m + 1])',
         \A k \in 1..m : IsWrite(db'[t][k]) /\ t \in cleanBy'[db'[t][k].scope] =>
            \/ t \in cleanBy[db'[t][k].scope]
            \/ /\ Len(db'[t]) = m + 1 /\ db'[t][m + 1].kind = "clear"
               /\ db'[t][k].scope \in db'[t][m + 1].which,
         Len(db'[t]) = m + 1 /\ IsWrite(db'[t][m + 1]) => t \notin cleanBy'[db'[t][m + 1].scope]
  PROVE  QueueOK(t)'
<1>1. db[t] \in Seq(Transactions) /\ db'[t] \in Seq(Transactions)
  BY DEF FieldTypeOK
<1>2. \A k \in 1..m : k + n \in 1..Len(db[t])
  BY <1>1
<1>3. \A k \in 1..Len(db[t]) : db[t][k] \in Transactions
  BY <1>1
<1>4. \A k \in 1..Len(db'[t]) : k \in 1..m \/ (k = m + 1 /\ Len(db'[t]) = m + 1)
  OBVIOUS
<1>5. ASSUME NEW k \in 1..Len(db'[t]) PROVE RowOK(t, db[t][k])'
  <2>1. CASE k \in 1..m
    <3>1. PICK x : x = db[t][k + n]
      OBVIOUS
    <3>2. x \in Transactions /\ RowOK(t, x) /\ Holds(t, x) /\ db'[t][k] = x
      BY <1>2, <1>3, <2>1, <3>1 DEF QueueOK
    <3>3. RowOK(t, x)'
      BY <3>2, RowKept
    <3> QED
      BY <3>2, <3>3 DEF RowOK, IsWrite, Stale
  <2>2. CASE k = m + 1 /\ Len(db'[t]) = m + 1
    BY <2>2
  <2> QED
    BY <1>4, <2>1, <2>2
<1>6. ASSUME NEW k \in 1..Len(db'[t]), NEW j \in 1..Len(db'[t]), k < j
      PROVE  PairOK(t, db[t][k], db[t][j])'
  <2>1. CASE j \in 1..m
    <3>1. k \in 1..m
      BY <1>6, <2>1
    <3>2. PICK x : x = db[t][k + n]
      OBVIOUS
    <3>3. PICK y : y = db[t][j + n]
      OBVIOUS
    <3>4. k + n \in 1..Len(db[t]) /\ j + n \in 1..Len(db[t]) /\ k + n < j + n
      BY <1>2, <1>6, <2>1, <3>1
    <3>5. x \in Transactions /\ y \in Transactions /\ PairOK(t, x, y) /\ db'[t][k] = x /\ db'[t][j] = y
      BY <1>3, <2>1, <3>1, <3>2, <3>3, <3>4 DEF QueueOK
    <3>6. PairOK(t, x, y)'
      BY <3>5, PairKept
    <3> QED
      BY <3>5, <3>6 DEF PairOK, IsWrite, Stale
  <2>2. CASE j = m + 1 /\ Len(db'[t]) = m + 1
    <3>1. k \in 1..m
      BY <1>6, <2>2
    <3> QED
      BY <2>2, <3>1
  <2> QED
    BY <1>4, <2>1, <2>2
<1>7. ASSUME NEW k \in 1..Len(db'[t]), IsWrite(db'[t][k]), t \in cleanBy'[db'[t][k].scope]
      PROVE  \E j \in 1..Len(db'[t]) : k < j /\ db'[t][j].kind = "clear" /\ db'[t][k].scope \in db'[t][j].which
  <2>1. k \in 1..m
    BY <1>4, <1>7
  <2>2. CASE Len(db'[t]) = m + 1 /\ db'[t][m + 1].kind = "clear" /\ db'[t][k].scope \in db'[t][m + 1].which
    <3>1. m + 1 \in 1..Len(db'[t]) /\ k < m + 1
      BY <2>1, <2>2
    <3> QED
      BY <2>2, <3>1
  <2>3. CASE t \in cleanBy[db'[t][k].scope]
    <3>1. PICK j \in 1..Len(db[t]) : k + n < j /\ db[t][j].kind = "clear" /\ db'[t][k].scope \in db[t][j].which
      BY <1>2, <1>7, <2>1, <2>3 DEF QueueOK
    <3>2. j - n \in 1..m /\ k < j - n /\ (j - n) + n = j
      BY <1>1, <2>1, <3>1, SMTT(30)
    <3>3. db'[t][j - n] = db[t][j]
      BY <3>2
    <3>4. j - n \in 1..Len(db'[t])
      BY <3>2
    <3> QED
      BY <3>1, <3>2, <3>3, <3>4
  <2> QED
    BY <1>7, <2>1, <2>2, <2>3
<1> QED
  BY <1>5, <1>6, <1>7 DEF QueueOK, IsWrite

\* A tab that does not act.
Apart(t) ==
  /\ db'[t] = db[t] /\ gen'[t] = gen[t] /\ page'[t] = page[t]
  /\ \A k \in 1..Len(db[t]) : Holds(t, db[t][k])
  /\ \A s \in FieldScopes : t \in cleanBy'[s] => t \in cleanBy[s]

\* The queue of a tab that does not act.
LEMMA QueueApart ==
  ASSUME FieldTypeOK, FieldTypeOK', Grows, NEW t \in Tabs, QueueOK(t), Apart(t)
  PROVE  QueueOK(t)'
<1>1. db[t] \in Seq(Transactions) /\ Len(db[t]) \in Nat
  BY DEF FieldTypeOK
<1>2. Later(t)
  BY GenType DEF Later, Apart
<1>3. PICK m \in Nat : m = Len(db[t])
  BY <1>1
<1>4. m + 0 = Len(db[t]) /\ Len(db'[t]) = m /\ Len(db'[t]) # m + 1
  BY <1>1, <1>3 DEF Apart
<1>5. \A k \in 1..m : db'[t][k] = db[t][k + 0] /\ Holds(t, db[t][k + 0])
  BY <1>1, <1>3 DEF Apart
<1>6. \A k \in 1..m : IsWrite(db'[t][k]) /\ t \in cleanBy'[db'[t][k].scope] => t \in cleanBy[db'[t][k].scope]
  <2> SUFFICES ASSUME NEW k \in 1..m, IsWrite(db'[t][k]), t \in cleanBy'[db'[t][k].scope]
               PROVE  t \in cleanBy[db'[t][k].scope]
    OBVIOUS
  <2>1. db'[t][k] \in Transactions
    BY <1>1, <1>3 DEF Apart
  <2>2. db'[t][k].scope \in FieldScopes
    BY <2>1, WriteType
  <2> QED
    BY <2>2 DEF Apart
<1> QED
  BY <1>2, <1>4, <1>5, <1>6, QueueStep

\* A flush that does not move.
LEMMA FlushKept ==
  ASSUME FieldTypeOK, Grows, NEW t \in Tabs, NEW s \in FieldScopes, flushes'[t][s] = flushes[t][s], FlushOK(flushes[t][s])
  PROVE  FlushOK(flushes[t][s])'
<1>1. PICK f : f = flushes[t][s]
  OBVIOUS
<1>2. f \in FlushRows /\ FlushOK(f) /\ flushes'[t][s] = f
  BY <1>1 DEF FieldTypeOK
<1>3. f.todo \subseteq Ids
  BY <1>2 DEF FlushRows
<1>4. Gone \subseteq Gone' /\ receipts \subseteq receipts'
  BY DEF Gone, Grows
<1>5. \A x \in Ids : Known(x) => Known(x)' /\ prior'[x] = prior[x]
  BY DEF Grows, Known
<1>6. f.pc \in {"sent", "store"} => Known(f.item)' /\ prior'[f.item] \subseteq Gone'
  BY <1>2, <1>4, <1>5 DEF FlushOK, Ready
<1>7. \A x \in f.todo : Known(x)' /\ \A i \in prior'[x] :
        i \in Gone' \/ i \in f.todo \/ (f.pc \in {"sent", "store"} /\ i = f.item)
  BY <1>2, <1>3, <1>4, <1>5 DEF FlushOK
<1> QED
  BY <1>2, <1>4, <1>6, <1>7 DEF FlushOK, Ready, Known

\* A step that stores nothing of a scope, and after which every tab that had
\* not erased it still has not.
LEMMA PresentStep ==
  ASSUME NEW s \in FieldScopes, PresentOK(s), device' = device, Present(s)' => Present(s),
         \A t \in device.tabs : t \notin cleanBy[s] \/ PendingClear(t, s)
                               => t \notin cleanBy'[s] \/ PendingClear(t, s)'
  PROVE  PresentOK(s)'
  BY DEF PresentOK

\* The rows of a scope come from before the step.
LEMMA PresentBefore ==
  ASSUME FieldTypeOK, Grows, Calls, NEW s \in FieldScopes, copies' \subseteq copies, stored' \subseteq stored, Present(s)'
  PROVE  Present(s)
<1>1. \A i \in stored : owner'[i] = owner[i]
  BY DEF Calls, Known, Grows, FieldTypeOK
<1> QED
  BY <1>1 DEF Present, MineIn

\* An erasure that was not at the head stays in the queue.
LEMMA PendingKept ==
  ASSUME FieldTypeOK, NEW t \in Tabs, NEW s, NEW m \in Nat, NEW n \in Nat, m + n = Len(db[t]), Len(db'[t]) >= m,
         Len(db'[t]) \in Nat,
         \A k \in 1..m : db'[t][k] = db[t][k + n],
         \A k \in 1..n : ~(db[t][k].kind = "clear" /\ s \in db[t][k].which),
         PendingClear(t, s)
  PROVE  PendingClear(t, s)'
<1>1. PICK k \in 1..Len(db[t]) : db[t][k].kind = "clear" /\ s \in db[t][k].which
  BY DEF PendingClear
<1>2. k > n /\ k \in Nat
  BY <1>1
<1>3. k - n \in 1..m /\ (k - n) + n = k
  BY <1>2
<1>4. k - n \in 1..Len(db'[t]) /\ db'[t][k - n] = db[t][k]
  BY <1>3
<1> QED
  BY <1>1, <1>4 DEF PendingClear

\* A step of the client that enqueues nothing.
LEMMA CallsStep ==
  ASSUME FieldTypeOK, FieldTypeOK', Grows, Calls, UNCHANGED <<receipts, count, prior, owner>>,
         \A i \in Ids : call'[i] # "none" => call[i] # "none",
         \A i \in stored' \cup stray' : i \in stored \cup stray \/ Known(i)',
         \A i \in stray' : i \in stray \/ Ready(i)'
  PROVE  Calls'
<1>1. Gone \subseteq Gone'
  BY DEF Gone, Grows
<1>2. \A i \in Ids : Known(i)' <=> Known(i)
  BY DEF Known, Grows
<1>3. \A i \in Ids : Ready(i) => Ready(i)'
  BY <1>1 DEF Ready
<1>4. \A i \in Ids : i \in stored' \cup receipts' \cup stray' => Known(i)'
  BY <1>2 DEF Calls
<1>5. \A i, j \in Ids : Known(j)' /\ i < j => Known(i)'
  BY <1>2 DEF Calls
<1>6. \A j \in Ids : \A i \in prior'[j] : i < j /\ owner'[i] = owner'[j] /\ call'[i] = "saved"
  BY DEF Calls, Grows, FieldTypeOK
<1>7. \A i \in Ids : i \in receipts' <=> count'[i] > 0
  BY DEF Calls
<1>8. \A i \in stray' : Ready(i)'
  BY <1>3 DEF Calls, FieldTypeOK
<1>9. \A j \in receipts' : Ready(j)'
  BY <1>3 DEF Calls, FieldTypeOK
<1> QED
  BY <1>4, <1>5, <1>6, <1>7, <1>8, <1>9 DEF Calls

\* A step that reports only what is stored and deletes only what is settled.
LEMMA LossStep ==
  ASSUME FieldTypeOK, Grows, NoSilentLoss,
         \A i \in Ids : call'[i] = "saved" => call[i] = "saved" \/ i \in stored',
         \A i \in stored : i \in stored' \/ i \in Gone' \/ call'[i] # "saved"
  PROVE  NoSilentLoss'
<1>1. Gone \subseteq Gone'
  BY DEF Gone, Grows
<1> SUFFICES ASSUME NEW i \in Ids, call'[i] = "saved" PROVE i \in stored' \/ i \in Gone'
  BY DEF NoSilentLoss, Gone
<1>2. call[i] = "saved" => i \in stored \/ i \in Gone
  BY DEF NoSilentLoss, Gone
<1> QED
  BY <1>1, <1>2

\* A tab does not act when what it holds is unchanged.
LEMMA ApartTab ==
  ASSUME FieldTypeOK, NEW t \in Tabs, QueueOK(t),
         db'[t] = db[t], gen'[t] = gen[t], page'[t] = page[t], flushes'[t] = flushes[t],
         \A s \in FieldScopes : t \in cleanBy'[s] => t \in cleanBy[s],
         \A i \in Ids : tabOf[i] = t /\ call[i] = "open" => call'[i] = "open",
         \A i \in Ids : tabOf'[i] = t /\ call'[i] = "saved" =>
           tabOf[i] = t /\ call[i] = "saved" /\ owner'[i] = owner[i]
  PROVE  Apart(t)
<1>1. ASSUME NEW k \in 1..Len(db[t]) PROVE Holds(t, db[t][k])
  <2>1. RowOK(t, db[t][k])
    BY DEF QueueOK
  <2> QED
    BY <2>1 DEF RowOK, Holds
<1> QED
  BY <1>1 DEF Apart

\* Steps that touch no queue.
LEMMA CalmStep ==
  ASSUME FieldInv, FieldTypeOK',
         UNCHANGED <<copies, stored, db, gen, call, owner, tabOf, prior, discarded, erased, cleanBy, device>>,
         receipts \subseteq receipts', \A t \in Tabs : Closed(t)', Calls',
         \A t \in Tabs, s \in FieldScopes :
            \/ flushes'[t][s] = flushes[t][s]
            \/ flushes[t][s].pc \in {"loop", "sent"} /\ FlushOK(flushes[t][s])'
  PROVE  FieldInv'
<1>1. FieldTypeOK /\ Calls /\ NoSilentLoss
  BY DEF FieldInv
<1>2. Grows
  BY DEF Grows
<1>3. ASSUME NEW t \in Tabs PROVE QueueOK(t)'
  <2>1. QueueOK(t) /\ db[t] \in Seq(Transactions) /\ Len(db[t]) \in Nat
    BY DEF FieldInv, FieldTypeOK
  <2>2. Later(t)
    BY <1>1, GenType DEF Later
  <2>3. ASSUME NEW k \in 1..Len(db[t]) PROVE Holds(t, db[t][k])
    <3>1. PICK x : x = db[t][k]
      OBVIOUS
    <3>2. RowOK(t, x) /\ x \in Transactions
      BY <2>1, <3>1 DEF QueueOK
    <3>3. x.kind \in {"list", "delete", "mark"} => flushes'[t][x.scope] = flushes[t][x.scope]
      <4>1. x.kind \in {"list", "delete", "mark"} => x.scope \in FieldScopes
        BY <3>2, TxType DEF Lists, Deletes, Marks
      <4> QED
        BY <3>2, <4>1 DEF RowOK
    <3> QED
      BY <3>1, <3>2, <3>3 DEF Holds, RowOK
  <2>4. PICK m \in Nat : m = Len(db[t])
    BY <2>1
  <2>5. m + 0 = Len(db[t]) /\ Len(db'[t]) = m /\ Len(db'[t]) # m + 1
    BY <2>1, <2>4
  <2>6. \A k \in 1..m : db'[t][k] = db[t][k + 0] /\ Holds(t, db[t][k + 0])
    BY <2>3, <2>4
  <2>7. \A k \in 1..m : IsWrite(db'[t][k]) /\ t \in cleanBy'[db'[t][k].scope] => t \in cleanBy[db'[t][k].scope]
    OBVIOUS
  <2> QED
    BY <1>1, <1>2, <2>1, <2>2, <2>5, <2>6, <2>7, QueueStep
<1>4. ASSUME NEW s \in FieldScopes PROVE PresentOK(s)'
  BY DEF FieldInv, PresentOK, Present, MineIn, PendingClear
<1>5. ASSUME NEW t \in Tabs, NEW s \in FieldScopes PROVE FlushOK(flushes[t][s])'
  BY <1>1, <1>2, FlushKept DEF FieldInv
<1>6. NoSilentLoss'
  BY <1>1, <1>2, LossStep
<1> QED
  BY <1>3, <1>4, <1>5, <1>6 DEF FieldInv

\* The context of a page resolves.
LEMMA EnterStep ==
  ASSUME FieldInv, NEW t \in Tabs, NEW s \in FieldScopes, Enter(t, s)
  PROVE  FieldInv'
<1>1. UNCHANGED <<store, flushes, call, server, bounds, history>> /\ t \in device.tabs
  BY DEF Enter
<1>2. FieldTypeOK'
  <2>1. s[2] \in FieldOrgs
    BY DEF FieldScopes
  <2> QED
    BY <1>1, <2>1 DEF Enter, FieldInv, FieldTypeOK, store, server, bounds, history
<1>3. \A u \in Tabs : Closed(u)'
  BY <1>1 DEF FieldInv, Closed, Enter, FieldTypeOK, store, bounds
<1>4. Calls'
  BY <1>1 DEF FieldInv, Calls, Known, Ready, Gone, store, server, history
<1> QED
  BY <1>1, <1>2, <1>3, <1>4, CalmStep DEF store, server, bounds, history

\* The header follows a selection of another tab.
LEMMA ReselectStep ==
  ASSUME FieldInv, NEW t \in Tabs, NEW o \in FieldOrgs, Reselect(t, o)
  PROVE  FieldInv'
<1>1. UNCHANGED <<store, page, flushes, call, server, device, history>>
  BY DEF Reselect, Fault
<1>2. FieldTypeOK'
  BY <1>1 DEF Reselect, Fault, FieldInv, FieldTypeOK, store, server, history
<1>3. \A u \in Tabs : Closed(u)'
  BY <1>1 DEF FieldInv, Closed, store
<1>4. Calls'
  BY <1>1 DEF FieldInv, Calls, Known, Ready, Gone, store, server, history
<1> QED
  BY <1>1, <1>2, <1>3, <1>4, CalmStep DEF store, server, history

\* The office grants or withdraws an assignment.
LEMMA ReassignStep ==
  ASSUME FieldInv, NEW s \in FieldScopes, Reassign(s)
  PROVE  FieldInv'
<1>1. UNCHANGED <<store, context, flushes, call, stray, receipts, count, device, history>>
  BY DEF Reassign, Fault
<1>2. FieldTypeOK'
  BY <1>1 DEF Reassign, Fault, FieldInv, FieldTypeOK, store, context, history
<1>3. \A u \in Tabs : Closed(u)'
  BY <1>1 DEF FieldInv, Closed, store, context
<1>4. Calls'
  BY <1>1 DEF FieldInv, Calls, Known, Ready, Gone, store, history
<1> QED
  BY <1>1, <1>2, <1>3, <1>4, CalmStep DEF store, history

\* A flush that is not under way.
LEMMA IdleRow == Idle \in FlushRows /\ Idle.pc = "idle" /\ Idle.todo = {}
  BY DEF Idle, FlushRows

\* A flush ends its loop.
LEMMA EndFlushStep ==
  ASSUME FieldInv, NEW t \in Tabs, NEW s \in FieldScopes, EndFlush(t, s)
  PROVE  FieldInv'
<1>1. UNCHANGED <<store, context, call, server, bounds, history>> /\ flushes[t][s].pc = "loop"
  BY DEF EndFlush
<1>2. /\ flushes'[t][s] = Idle /\ flushes' \in [Tabs -> [FieldScopes -> FlushRows]]
      /\ \A u \in Tabs, r \in FieldScopes : u # t \/ r # s => flushes'[u][r] = flushes[u][r]
  BY IdleRow DEF EndFlush, FieldInv, FieldTypeOK
<1>3. FieldTypeOK'
  BY <1>1, <1>2 DEF FieldInv, FieldTypeOK, store, context, server, bounds, history
<1>4. \A u \in Tabs : Closed(u)'
  BY <1>1, <1>2, IdleRow DEF FieldInv, Closed, store, context, bounds
<1>5. Calls'
  BY <1>1 DEF FieldInv, Calls, Known, Ready, Gone, store, server, history
<1>6. FlushOK(flushes[t][s])'
  BY <1>2, IdleRow DEF FlushOK
<1> QED
  BY <1>1, <1>2, <1>3, <1>4, <1>5, <1>6, CalmStep DEF store, server, bounds, history

-----------------------------------------------------------------------------
(* The server.                                                              *)

\* A command reaches the server only after those it depends on are settled.
LEMMA Handled ==
  ASSUME FieldInv, NEW i \in Ids, Known(i), Ready(i), NEW answer, Handle(i, answer), stray' \subseteq stray,
         UNCHANGED <<stored, call, owner, tabOf, prior, discarded, erased>>
  PROVE  /\ Calls' /\ receipts \subseteq receipts' /\ receipts' \subseteq Ids /\ count' \in [Ids -> Nat]
         /\ answer = "ok" => i \in receipts'
<1>1. FieldTypeOK /\ Calls
  BY DEF FieldInv
<1>2. /\ receipts \subseteq receipts' /\ receipts' \subseteq receipts \cup {i}
      /\ answer = "ok" => i \in receipts'
  BY DEF Handle
<1>3. count' \in [Ids -> Nat] /\ \A j \in Ids : j \in receipts' <=> count'[j] > 0
  <2>1. CASE UNCHANGED <<receipts, count>>
    BY <1>1, <2>1 DEF FieldTypeOK, Calls
  <2>2. CASE receipts' = receipts \cup {i} /\ count' = [count EXCEPT ![i] = @ + 1]
    BY <1>1, <2>2 DEF FieldTypeOK, Calls
  <2> QED
    BY <2>1, <2>2 DEF Handle
<1>4. Gone \subseteq Gone'
  BY <1>2 DEF Gone
<1>5. \A j \in Ids : (Known(j)' <=> Known(j)) /\ (Ready(j) => Ready(j)')
  BY <1>4 DEF Known, Ready
<1>6. Calls'
  <2>1. \A j \in Ids : j \in stored' \cup receipts' \cup stray' => Known(j)'
    BY <1>1, <1>2, <1>5 DEF Calls
  <2>2. \A k, j \in Ids : Known(j)' /\ k < j => Known(k)'
    BY <1>1, <1>5 DEF Calls
  <2>3. \A j \in Ids : \A k \in prior'[j] : k < j /\ owner'[k] = owner'[j] /\ call'[k] = "saved"
    BY <1>1 DEF Calls
  <2>4. \A j \in stray' : Ready(j)'
    BY <1>1, <1>5 DEF Calls, FieldTypeOK
  <2>5. \A j \in receipts' : Ready(j)'
    BY <1>1, <1>2, <1>5 DEF Calls, FieldTypeOK
  <2> QED
    BY <1>3, <2>1, <2>2, <2>3, <2>4, <2>5 DEF Calls
<1> QED
  BY <1>1, <1>2, <1>3, <1>6 DEF FieldTypeOK

\* The server answers a flush.
LEMMA ServeStep ==
  ASSUME FieldInv, NEW t \in Tabs, NEW s \in FieldScopes, Serve(t, s)
  PROVE  FieldInv'
<1>1. /\ UNCHANGED <<store, context, call, stray, access, bounds, history>>
      /\ flushes[t][s].pc = "sent" /\ FieldTypeOK /\ FlushOK(flushes[t][s])
  BY DEF Serve, FieldInv
<1>2. PICK answer \in {"ok", "rejected"} :
        Handle(flushes[t][s].item, answer) /\ flushes' = [flushes EXCEPT ![t][s].answer = answer]
  BY DEF Serve
<1>3. PICK f : f = flushes[t][s]
  OBVIOUS
<1>4. f \in FlushRows /\ f.pc = "sent" /\ f.item \in Ids /\ Known(f.item) /\ Ready(f.item) /\ FlushOK(f)
  BY <1>1, <1>3 DEF FlushOK, FieldTypeOK
<1>5. /\ Calls' /\ receipts \subseteq receipts' /\ receipts' \subseteq Ids /\ count' \in [Ids -> Nat]
      /\ answer = "ok" => f.item \in receipts'
  BY <1>1, <1>2, <1>3, <1>4, Handled DEF store, history
<1>6. PICK g : g = [f EXCEPT !.answer = answer]
  OBVIOUS
<1>7. g \in FlushRows /\ g.pc = f.pc /\ g.item = f.item /\ g.todo = f.todo /\ g.answer = answer
  BY <1>4, <1>6 DEF FlushRows
<1>8. /\ flushes'[t][s] = g /\ flushes' \in [Tabs -> [FieldScopes -> FlushRows]]
      /\ \A u \in Tabs, r \in FieldScopes : u # t \/ r # s => flushes'[u][r] = flushes[u][r]
  BY <1>1, <1>2, <1>3, <1>6, <1>7 DEF FieldTypeOK
<1>9. FieldTypeOK'
  BY <1>1, <1>5, <1>8 DEF FieldTypeOK, store, context, bounds, history
<1>10. \A u \in Tabs : Closed(u)'
  BY <1>1, <1>8 DEF FieldInv, Closed, store, context, bounds
<1>11. FlushOK(flushes[t][s])'
  <2>1. Gone \subseteq Gone'
    BY <1>1, <1>5 DEF Gone, history
  <2>2. \A x \in Ids : (Known(x) <=> Known(x)') /\ prior'[x] = prior[x]
    BY <1>1 DEF Known, history
  <2>3. g.todo \subseteq Ids
    BY <1>7 DEF FlushRows
  <2>4. Known(g.item)' /\ prior'[g.item] \subseteq Gone' /\ \A x \in g.todo : x > g.item
    BY <1>4, <1>7, <2>1, <2>2 DEF FlushOK, Ready
  <2>5. \A x \in g.todo : Known(x)' /\ \A i \in prior'[x] :
          i \in Gone' \/ i \in g.todo \/ (g.pc \in {"sent", "store"} /\ i = g.item)
    BY <1>4, <1>7, <2>1, <2>2, <2>3 DEF FlushOK
  <2> QED
    BY <1>4, <1>5, <1>7, <1>8, <2>4, <2>5 DEF FlushOK, Ready, Known
<1> QED
  BY <1>1, <1>5, <1>8, <1>9, <1>10, <1>11, CalmStep DEF store, bounds, history

\* The server handles a request its client gave up on.
LEMMA ServeStrayStep ==
  ASSUME FieldInv, NEW i \in Ids, ServeStray(i)
  PROVE  FieldInv'
<1>1. /\ UNCHANGED <<store, context, flushes, call, access, bounds, history>>
      /\ i \in stray /\ stray' \subseteq stray /\ FieldTypeOK
  BY DEF ServeStray, FieldInv
<1>2. PICK answer \in {"ok", "rejected"} : Handle(i, answer)
  BY DEF ServeStray
<1>3. Known(i) /\ Ready(i)
  BY <1>1 DEF FieldInv, Calls
<1>4. Calls' /\ receipts \subseteq receipts' /\ receipts' \subseteq Ids /\ count' \in [Ids -> Nat]
  BY <1>1, <1>2, <1>3, Handled DEF store, history
<1>5. FieldTypeOK'
  BY <1>1, <1>4 DEF FieldTypeOK, store, context, bounds, history
<1>6. \A u \in Tabs : Closed(u)'
  BY <1>1 DEF FieldInv, Closed, store, context, bounds
<1> QED
  BY <1>1, <1>4, <1>5, <1>6, CalmStep DEF store, bounds, history

-----------------------------------------------------------------------------
(* A tab opens a transaction.                                               *)

\* The tabs of the device are tabs.
LEMMA TabsOpen ==
  ASSUME FieldTypeOK
  PROVE  device.tabs \subseteq Tabs
  BY FleetAssumption DEF FieldTypeOK, Devices

\* A tab opens one transaction: what it needs to keep the invariant.
LEMMA PushStep ==
  ASSUME FieldInv, FieldTypeOK', Grows, NEW t \in Tabs, t \in device.tabs, NEW y \in Transactions,
         db'[t] = Append(db[t], y), Later(t), UNCHANGED <<copies, stored>>,
         \A u \in Tabs \ {t} : /\ db'[u] = db[u] /\ gen'[u] = gen[u] /\ page'[u] = page[u]
                               /\ flushes'[u] = flushes[u],
         \A i \in Ids : /\ call[i] = "open" => call'[i] = "open"
                        /\ call'[i] = "saved" => call[i] = "saved",
         \A s \in FieldScopes : \/ flushes'[t][s] = flushes[t][s]
                                \/ flushes[t][s].pc \notin {"list", "store"} /\ FlushOK(flushes[t][s])',
         RowOK(t, y)',
         y.kind = "add" => call[y.id] = "none",
         y.kind \in {"list", "delete", "mark"} => flushes[t][y.scope].pc \notin {"list", "store"},
         y.kind = "clear" => \A s \in y.which : \/ gen'[t].actor[s[1]] > gen[t].actor[s[1]]
                                               \/ gen'[t].scope[s] > gen[t].scope[s],
         \A s \in FieldScopes : cleanBy'[s] \subseteq cleanBy[s] \/ (y.kind = "clear" /\ s \in y.which /\ cleanBy'[s] = cleanBy[s] \cup {t}),
         IsWrite(y) => t \notin cleanBy'[y.scope],
         Calls'
  PROVE  FieldInv'
<1>1. FieldTypeOK /\ Calls /\ NoSilentLoss /\ QueueOK(t) /\ db[t] \in Seq(Transactions)
  BY DEF FieldInv, FieldTypeOK
<1>2. PICK m \in Nat : m = Len(db[t])
  BY <1>1
<1>3. /\ m + 0 = Len(db[t]) /\ Len(db'[t]) = m + 1
      /\ \A k \in 1..m : db'[t][k] = db[t][k] /\ k + 0 = k /\ db[t][k] \in Transactions /\ RowOK(t, db[t][k])
      /\ db'[t][m + 1] = y
  BY <1>1, <1>2, Pushed DEF QueueOK
<1>4. ASSUME NEW k \in 1..m PROVE Holds(t, db[t][k])
  <2>1. PICK x : x = db[t][k]
    OBVIOUS
  <2>2. x \in Transactions /\ RowOK(t, x)
    BY <1>3, <2>1
  <2>3. x.kind \in {"list", "delete", "mark"} => flushes'[t][x.scope] = flushes[t][x.scope]
    <3>1. x.kind \in {"list", "delete", "mark"} => x.scope \in FieldScopes
      BY <2>2, TxType DEF Lists, Deletes, Marks
    <3> QED
      BY <2>2, <3>1 DEF RowOK
  <2>4. x.kind = "clear" => \A i \in Ids :
          tabOf'[i] = t /\ owner'[i] \in x.which /\ call'[i] = "saved" =>
            tabOf[i] = t /\ owner[i] \in x.which /\ call[i] = "saved"
    BY DEF Grows
  <2>5. x.kind = "add" => call'[x.id] = "open"
    BY <2>2 DEF RowOK
  <2> QED
    BY <2>1, <2>3, <2>4, <2>5 DEF Holds
<1>5. ASSUME NEW k \in 1..m PROVE PairOK(t, db[t][k], db[t][m + 1])'
  <2>1. PICK x : x = db[t][k]
    OBVIOUS
  <2>2. x \in Transactions /\ RowOK(t, x) /\ db'[t][k] = x
    BY <1>3, <2>1
  <2>3. x.kind = "add" /\ y.kind = "add" => x.id # y.id
    BY <2>2 DEF RowOK
  <2>4. x.kind \in {"list", "delete", "mark"} /\ y.kind \in {"list", "delete", "mark"} => x.scope # y.scope
    BY <2>2 DEF RowOK
  <2>5. ASSUME IsWrite(x), y.kind = "clear", x.scope \in y.which PROVE Stale(t, x)'
    <3>1. x.scope \in FieldScopes /\ x.scope[1] \in Actors /\ x.stamp[1] \in Nat /\ x.stamp[2] \in Nat
      BY <2>2, <2>5, WriteType
    <3>2. /\ gen[t].actor[x.scope[1]] \in Nat /\ gen[t].scope[x.scope] \in Nat
          /\ gen'[t].actor[x.scope[1]] \in Nat /\ gen'[t].scope[x.scope] \in Nat
      BY <1>1, <3>1 DEF FieldTypeOK
    <3>3. x.stamp[1] <= gen[t].actor[x.scope[1]] /\ x.stamp[2] <= gen[t].scope[x.scope]
      BY <2>2, <2>5 DEF RowOK
    <3>4. gen'[t].actor[x.scope[1]] > gen[t].actor[x.scope[1]] \/ gen'[t].scope[x.scope] > gen[t].scope[x.scope]
      BY <2>5
    <3> QED
      BY <3>1, <3>2, <3>3, <3>4 DEF Stale
  <2> QED
    BY <1>3, <2>2, <2>3, <2>4, <2>5 DEF PairOK, IsWrite, Stale
<1>6. RowOK(t, db[t][m + 1])'
  BY <1>3 DEF RowOK, IsWrite, Stale
<1>7. QueueOK(t)'
  <2>1. \A k \in 1..m : IsWrite(db'[t][k]) /\ t \in cleanBy'[db'[t][k].scope] =>
            \/ t \in cleanBy[db'[t][k].scope]
            \/ /\ Len(db'[t]) = m + 1 /\ db'[t][m + 1].kind = "clear"
               /\ db'[t][k].scope \in db'[t][m + 1].which
    BY <1>3, WriteType
  <2>2. \A k \in 1..m : db'[t][k] = db[t][k + 0] /\ Holds(t, db[t][k + 0])
    BY <1>3, <1>4
  <2>3. IsWrite(db'[t][m + 1]) => t \notin cleanBy'[db'[t][m + 1].scope]
    BY <1>3
  <2> QED
    BY <1>1, <1>3, <1>5, <1>6, <2>1, <2>2, <2>3, QueueStep
<1>8. ASSUME NEW u \in Tabs \ {t} PROVE QueueOK(u)' /\ Closed(u)'
  <2>1. QueueOK(u) /\ Closed(u)
    BY DEF FieldInv
  <2>2. \A s \in FieldScopes : u \in cleanBy'[s] => u \in cleanBy[s]
    OBVIOUS
  <2>3. \A i \in Ids : tabOf'[i] = u /\ call'[i] = "saved" => tabOf[i] = u /\ call[i] = "saved" /\ owner'[i] = owner[i]
    BY DEF Grows
  <2>4. Apart(u)
    BY <1>1, <2>1, <2>2, <2>3, ApartTab
  <2> QED
    BY <1>1, <2>1, <2>4, QueueApart DEF Closed, Grows
<1>9. ASSUME NEW s \in FieldScopes PROVE PresentOK(s)'
  <2>1. ASSUME NEW u \in device.tabs, u \notin cleanBy[s] \/ PendingClear(u, s)
        PROVE  u \notin cleanBy'[s] \/ PendingClear(u, s)'
    <3>1. u \in Tabs
      BY <1>1, TabsOpen
    <3>2. CASE PendingClear(u, s) /\ u # t
      BY <3>1, <3>2 DEF PendingClear
    <3>3. CASE PendingClear(t, s) /\ u = t
      <4>1. /\ \A k \in 1..m : db'[t][k] = db[t][k + 0]
            /\ Len(db'[t]) >= m /\ Len(db'[t]) \in Nat
        BY <1>3
      <4>2. \A k \in 1..0 : ~(db[t][k].kind = "clear" /\ s \in db[t][k].which)
        OBVIOUS
      <4>3. 0 \in Nat /\ m + 0 = Len(db[t])
        BY <1>3
      <4> QED
        BY <1>1, <3>3, <4>1, <4>2, <4>3, PendingKept
    <3>4. CASE u \notin cleanBy[s] /\ u \in cleanBy'[s]
      <4>1. u = t /\ y.kind = "clear" /\ s \in y.which
        BY <3>4
      <4>2. m + 1 \in 1..Len(db'[t])
        BY <1>3
      <4> QED
        BY <1>3, <4>1, <4>2 DEF PendingClear
    <3> QED
      BY <2>1, <3>2, <3>3, <3>4
  <2>2. Present(s)' => Present(s)
    BY <1>1, PresentBefore
  <2>3. PresentOK(s) /\ device' = device
    BY DEF FieldInv, Grows
  <2> QED
    BY <2>1, <2>2, <2>3, PresentStep
<1>10. ASSUME NEW u \in Tabs, NEW s \in FieldScopes PROVE FlushOK(flushes[u][s])'
  BY <1>1, FlushKept DEF FieldInv
<1>11. NoSilentLoss'
  BY <1>1, LossStep
<1>12. Closed(t)'
  BY DEF Closed, Grows
<1> QED
  BY <1>7, <1>8, <1>9, <1>10, <1>11, <1>12 DEF FieldInv

\* The queues after a transaction is opened.
LEMMA OpenedQueue ==
  ASSUME FieldTypeOK, NEW t \in Tabs, NEW y \in Transactions, db' = Opened(t, y)
  PROVE  /\ db' \in [Tabs -> Seq(Transactions)] /\ db'[t] = Append(db[t], y)
         /\ \A u \in Tabs \ {t} : db'[u] = db[u]
<1>1. db[t] \in Seq(Transactions) /\ Append(db[t], y) \in Seq(Transactions)
  BY DEF FieldTypeOK
<1> QED
  BY <1>1 DEF FieldTypeOK, Opened

\* Only a tab of the device has a page.
LEMMA PageIsOpen ==
  ASSUME FieldInv, NEW t \in Tabs, page[t] # NoScope
  PROVE  t \in device.tabs /\ page[t] \in FieldScopes
  BY DEF FieldInv, Closed, FieldTypeOK

\* Counters that do not change do not go back.
LEMMA GenSame ==
  ASSUME FieldTypeOK, NEW t \in Tabs, gen'[t] = gen[t]
  PROVE  Later(t)
  BY GenType DEF Later

\* An erasure is called: the counters it bumps make every write of its scopes
\* already queued in the tab stale.
LEMMA BeginClearStep ==
  ASSUME FieldInv, NEW t \in Tabs, page[t] # NoScope, NEW which \in SUBSET FieldScopes, NEW leave \in BOOLEAN,
         NEW bumped \in [actor : [Actors -> Nat], scope : [FieldScopes -> Nat]],
         \A a \in Actors : bumped.actor[a] >= gen[t].actor[a],
         \A s \in FieldScopes : bumped.scope[s] >= gen[t].scope[s],
         \A s \in which : bumped.actor[s[1]] > gen[t].actor[s[1]] \/ bumped.scope[s] > gen[t].scope[s],
         BeginClear(t, which, bumped, leave)
  PROVE  FieldInv'
<1>1. FieldTypeOK /\ t \in device.tabs
  BY PageIsOpen DEF FieldInv
<1>2. PICK y : y = ClearTx(t, which)
  OBVIOUS
<1>3. /\ y \in Transactions /\ y.kind = "clear" /\ y.which = which
      /\ y.saved = {i \in Ids : call[i] = "saved"}
  BY <1>2 DEF ClearTx, Transactions, Erasures
<1>4. /\ db' \in [Tabs -> Seq(Transactions)] /\ db'[t] = Append(db[t], y)
      /\ \A u \in Tabs \ {t} : db'[u] = db[u]
  BY <1>1, <1>2, <1>3, OpenedQueue DEF BeginClear
<1>5. /\ UNCHANGED <<copies, stored, failure, header, flushes, call, server, faults, device,
                     owner, tabOf, prior, discarded, erased>>
      /\ gen' \in [Tabs -> [actor : [Actors -> Nat], scope : [FieldScopes -> Nat]]]
      /\ gen'[t] = bumped /\ \A u \in Tabs \ {t} : gen'[u] = gen[u] /\ page'[u] = page[u]
      /\ page' \in [Tabs -> FieldScopes \cup {NoScope}]
      /\ cleanBy' = [s \in FieldScopes |-> IF s \in which THEN cleanBy[s] \cup {t} ELSE cleanBy[s]]
      /\ clears' \in Nat
  BY <1>1 DEF BeginClear, FieldTypeOK
<1>6. FieldTypeOK'
  BY <1>1, <1>4, <1>5 DEF FieldTypeOK, server
<1>7. Grows
  BY <1>5 DEF Grows, server
<1>8. Later(t)
  BY <1>5 DEF Later
<1>9. RowOK(t, y)'
  BY <1>3, <1>5 DEF RowOK, IsWrite
<1>10. Calls'
  BY <1>5 DEF FieldInv, Calls, Known, Ready, Gone, server
<1>11. \A s \in FieldScopes : cleanBy'[s] \subseteq cleanBy[s] \/ (y.kind = "clear" /\ s \in y.which /\ cleanBy'[s] = cleanBy[s] \cup {t})
  BY <1>3, <1>5
<1>12. y.kind = "clear" => \A s \in y.which : gen'[t].actor[s[1]] > gen[t].actor[s[1]]
                                             \/ gen'[t].scope[s] > gen[t].scope[s]
  BY <1>3, <1>5
<1>13. ~IsWrite(y) /\ y.kind \notin {"add", "list", "delete", "mark"}
  BY <1>3 DEF IsWrite
<1> QED
  BY <1>1, <1>3, <1>4, <1>5, <1>6, <1>7, <1>8, <1>9, <1>10, <1>11, <1>12, <1>13, PushStep

\* clearActor bumps the counter of the actor, and so of each of its scopes.
LEMMA ClearActorStep ==
  ASSUME FieldInv, NEW t \in Tabs, NEW leave \in BOOLEAN, clearActor(t, leave)
  PROVE  FieldInv'
<1>1. FieldTypeOK /\ page[t] # NoScope /\ page[t] \in FieldScopes
  BY PageIsOpen DEF FieldInv, clearActor
<1>2. PICK a : a = page[t][1]
  OBVIOUS
<1>3. a \in Actors
  BY <1>1, <1>2 DEF FieldScopes
<1>4. PICK bumped : bumped = [gen[t] EXCEPT !.actor[a] = @ + 1]
  OBVIOUS
<1>5. BeginClear(t, {s \in FieldScopes : s[1] = a}, bumped, leave)
  BY <1>2, <1>4 DEF clearActor
<1>6. /\ bumped \in [actor : [Actors -> Nat], scope : [FieldScopes -> Nat]]
      /\ \A b \in Actors : bumped.actor[b] >= gen[t].actor[b]
      /\ \A s \in FieldScopes : bumped.scope[s] >= gen[t].scope[s]
      /\ bumped.actor[a] > gen[t].actor[a]
  <2>1. gen[t] \in [actor : [Actors -> Nat], scope : [FieldScopes -> Nat]]
    BY <1>1 DEF FieldTypeOK
  <2>2. bumped.scope = gen[t].scope /\ bumped.actor = [gen[t].actor EXCEPT ![a] = gen[t].actor[a] + 1]
    BY <1>4, <2>1
  <2>3. bumped \in [actor : [Actors -> Nat], scope : [FieldScopes -> Nat]]
    BY <1>3, <1>4, <2>1
  <2> QED
    BY <1>3, <2>1, <2>2, <2>3
<1>7. {s \in FieldScopes : s[1] = a} \in SUBSET FieldScopes
  OBVIOUS
<1>8. \A s \in {r \in FieldScopes : r[1] = a} : bumped.actor[s[1]] > gen[t].actor[s[1]] \/ bumped.scope[s] > gen[t].scope[s]
  BY <1>6
<1> QED
  BY <1>1, <1>5, <1>6, <1>7, <1>8, BeginClearStep

\* clearScope bumps the counter of the scope.
LEMMA ClearScopeStep ==
  ASSUME FieldInv, NEW t \in Tabs, NEW leave \in BOOLEAN, clearScope(t, leave)
  PROVE  FieldInv'
<1>1. FieldTypeOK /\ page[t] # NoScope /\ page[t] \in FieldScopes
  BY PageIsOpen DEF FieldInv, clearScope
<1>2. PICK p : p = page[t]
  OBVIOUS
<1>3. PICK bumped : bumped = [gen[t] EXCEPT !.scope[p] = @ + 1]
  OBVIOUS
<1>4. BeginClear(t, {p}, bumped, leave)
  BY <1>2, <1>3 DEF clearScope
<1>5. /\ bumped \in [actor : [Actors -> Nat], scope : [FieldScopes -> Nat]]
      /\ \A b \in Actors : bumped.actor[b] >= gen[t].actor[b]
      /\ \A s \in FieldScopes : bumped.scope[s] >= gen[t].scope[s]
      /\ bumped.scope[p] > gen[t].scope[p]
  <2>1. gen[t] \in [actor : [Actors -> Nat], scope : [FieldScopes -> Nat]] /\ p \in FieldScopes
    BY <1>1, <1>2 DEF FieldTypeOK
  <2>2. bumped.actor = gen[t].actor /\ bumped.scope = [gen[t].scope EXCEPT ![p] = gen[t].scope[p] + 1]
    BY <1>3, <2>1
  <2>3. bumped \in [actor : [Actors -> Nat], scope : [FieldScopes -> Nat]]
    BY <1>3, <2>1
  <2> QED
    BY <2>1, <2>2, <2>3
<1>6. {p} \in SUBSET FieldScopes /\ \A s \in {p} : bumped.actor[s[1]] > gen[t].actor[s[1]] \/ bumped.scope[s] > gen[t].scope[s]
  BY <1>1, <1>2, <1>5
<1> QED
  BY <1>1, <1>4, <1>5, <1>6, BeginClearStep

\* The stamp of a write is the one of its tab.
LEMMA StampNow ==
  ASSUME FieldTypeOK, NEW t \in Tabs, NEW s \in FieldScopes
  PROVE  /\ Stamp(t, s) \in Nat \X Nat
         /\ Stamp(t, s)[1] = gen[t].actor[s[1]] /\ Stamp(t, s)[2] = gen[t].scope[s]
<1>1. s[1] \in Actors
  BY DEF FieldScopes
<1> QED
  BY <1>1, GenType DEF Stamp

\* A copy is asked for: its scope is no longer clean.
LEMMA SaveCopyStep ==
  ASSUME FieldInv, NEW t \in Tabs, saveCopy(t)
  PROVE  FieldInv'
<1>1. FieldTypeOK /\ t \in device.tabs /\ page[t] \in FieldScopes
  BY PageIsOpen DEF FieldInv, saveCopy
<1>2. PICK s \in FieldScopes : s = page[t]
  BY <1>1
<1>3. PICK y : y = [kind |-> "copy", id |-> 0, scope |-> s, stamp |-> Stamp(t, s), write |-> "undecided"]
  OBVIOUS
<1>4. /\ Stamp(t, s) \in Nat \X Nat
      /\ Stamp(t, s)[1] = gen[t].actor[s[1]] /\ Stamp(t, s)[2] = gen[t].scope[s]
      /\ gen[t].actor[s[1]] \in Nat /\ gen[t].scope[s] \in Nat
  BY <1>1, StampNow, GenType DEF FieldScopes
<1>5. y \in Transactions /\ y.kind = "copy" /\ y.scope = s /\ y.stamp = Stamp(t, s) /\ y.write = "undecided"
  BY <1>3, <1>4 DEF Transactions, Writes
<1>6. /\ db' \in [Tabs -> Seq(Transactions)] /\ db'[t] = Append(db[t], y)
      /\ \A u \in Tabs \ {t} : db'[u] = db[u]
  BY <1>1, <1>2, <1>3, <1>5, OpenedQueue DEF saveCopy
<1>7. /\ UNCHANGED <<copies, stored, failure, gen, context, flushes, call, server,
                     bounds, owner, tabOf, prior, discarded, erased>>
      /\ cleanBy' = [cleanBy EXCEPT ![s] = {}]
  BY <1>2 DEF saveCopy
<1>8. FieldTypeOK'
  BY <1>1, <1>6, <1>7 DEF FieldTypeOK, context, server, bounds
<1>9. Grows
  BY <1>7 DEF Grows, server, bounds
<1>10. Later(t)
  BY <1>1, <1>7, GenSame
<1>11. RowOK(t, y)'
  BY <1>4, <1>5, <1>7 DEF RowOK, IsWrite
<1>12. Calls'
  BY <1>7 DEF FieldInv, Calls, Known, Ready, Gone, server
<1>13. (\A r \in FieldScopes : cleanBy'[r] \subseteq cleanBy[r]) /\ t \notin cleanBy'[s]
  BY <1>1, <1>7 DEF FieldTypeOK
<1>14. y.kind \notin {"add", "clear", "list", "delete", "mark"}
  BY <1>5
<1>15. UNCHANGED <<copies, stored>> /\ flushes' = flushes /\ call' = call
       /\ \A u \in Tabs \ {t} : gen'[u] = gen[u] /\ page'[u] = page[u]
  BY <1>7 DEF context
<1> QED
  BY <1>1, <1>5, <1>6, <1>8, <1>9, <1>10, <1>11, <1>12, <1>13, <1>14, <1>15, PushStep

\* A command is recorded after those reported saved in its scope, and its
\* scope is no longer clean.
LEMMA EnqueueStep ==
  ASSUME FieldInv, NEW t \in Tabs, NEW e \in Ids, enqueue(t, e)
  PROVE  FieldInv'
<1>1. FieldTypeOK /\ Calls /\ t \in device.tabs /\ page[t] \in FieldScopes
  BY PageIsOpen DEF FieldInv, enqueue
<1>2. PICK s \in FieldScopes : s = page[t]
  BY <1>1
<1>3. PICK y : y = [kind |-> "add", id |-> e, scope |-> s, stamp |-> Stamp(t, s), write |-> "undecided"]
  OBVIOUS
<1>4. /\ Stamp(t, s) \in Nat \X Nat
      /\ Stamp(t, s)[1] = gen[t].actor[s[1]] /\ Stamp(t, s)[2] = gen[t].scope[s]
      /\ gen[t].actor[s[1]] \in Nat /\ gen[t].scope[s] \in Nat
  BY <1>1, StampNow, GenType DEF FieldScopes
<1>5. /\ y \in Transactions /\ y.kind = "add" /\ y.id = e /\ y.scope = s
      /\ y.stamp = Stamp(t, s) /\ y.write = "undecided"
  <2>1. e \in Nat
    BY CommandsAssumption DEF Ids
  <2> QED
    BY <1>3, <1>4, <2>1 DEF Transactions, Writes
<1>6. /\ db' \in [Tabs -> Seq(Transactions)] /\ db'[t] = Append(db[t], y)
      /\ \A u \in Tabs \ {t} : db'[u] = db[u]
  BY <1>1, <1>2, <1>3, <1>5, OpenedQueue DEF enqueue
<1>7. /\ UNCHANGED <<copies, stored, failure, gen, context, flushes, server, bounds, discarded, erased>>
      /\ cleanBy' = [cleanBy EXCEPT ![s] = {}]
      /\ call' = [call EXCEPT ![e] = "open"] /\ owner' = [owner EXCEPT ![e] = s]
      /\ tabOf' = [tabOf EXCEPT ![e] = t]
      /\ prior' = [prior EXCEPT ![e] = {j \in Ids : call[j] = "saved" /\ owner[j] = s}]
      /\ call[e] = "none" /\ \A j \in Ids : j < e => call[j] # "none"
  BY <1>2 DEF enqueue, Fresh
<1>8. /\ call'[e] = "open" /\ owner'[e] = s /\ tabOf'[e] = t
      /\ prior'[e] = {j \in Ids : call[j] = "saved" /\ owner[j] = s}
      /\ \A j \in Ids \ {e} : call'[j] = call[j] /\ owner'[j] = owner[j] /\ tabOf'[j] = tabOf[j] /\ prior'[j] = prior[j]
  BY <1>1, <1>7 DEF FieldTypeOK
<1>9. FieldTypeOK'
  BY <1>1, <1>6, <1>7 DEF FieldTypeOK, context, server, bounds
<1>10. Grows
  BY <1>7, <1>8 DEF Grows, server, bounds
<1>11. Later(t)
  BY <1>1, <1>7, GenSame
<1>12. RowOK(t, y)'
  BY <1>4, <1>5, <1>7, <1>8 DEF RowOK, IsWrite
<1>13. Calls'
  <2>1. UNCHANGED <<stored, stray, receipts, count, discarded, erased>> /\ Gone' = Gone
    BY <1>7 DEF Gone, server
  <2>2. \A j \in Ids : Known(j)' <=> (Known(j) \/ j = e)
    BY <1>8 DEF Known
  <2>3. \A j \in Ids : Known(j) => Ready(j)' = Ready(j)
    BY <1>7, <1>8, <2>1 DEF Known, Ready
  <2>4. \A j \in Ids : j \in stored' \cup receipts' \cup stray' => Known(j)'
    BY <1>1, <2>1, <2>2 DEF Calls
  <2>5. \A k, j \in Ids : Known(j)' /\ k < j => Known(k)'
    BY <1>1, <1>7, <2>2 DEF Calls, Known
  <2>6. ASSUME NEW j \in Ids, NEW k \in prior'[j]
        PROVE  k < j /\ owner'[k] = owner'[j] /\ call'[k] = "saved"
    <3>1. CASE j = e
      <4>1. k \in Ids /\ call[k] = "saved" /\ owner[k] = s /\ k # e
        BY <1>7, <1>8, <2>6, <3>1
      <4>2. k \in Int /\ e \in Int
        BY <4>1 DEF Ids
      <4>3. ~(e < k)
        BY <1>1, <1>7, <4>1 DEF Calls, Known
      <4> QED
        BY <1>8, <3>1, <4>1, <4>2, <4>3
    <3>2. CASE j # e
      <4>1. k \in prior[j] /\ k \in Ids
        BY <1>1, <1>8, <2>6, <3>2 DEF FieldTypeOK
      <4>2. k < j /\ owner[k] = owner[j] /\ call[k] = "saved"
        BY <1>1, <4>1 DEF Calls
      <4>3. k # e
        BY <1>7, <4>2
      <4> QED
        BY <1>8, <3>2, <4>1, <4>2, <4>3
    <3> QED
      BY <3>1, <3>2
  <2>7. \A j \in Ids : j \in receipts' <=> count'[j] > 0
    BY <1>1, <2>1 DEF Calls
  <2>8. \A j \in stray' : Ready(j)'
    BY <1>1, <2>1, <2>3 DEF Calls, FieldTypeOK
  <2>9. \A j \in receipts' : Ready(j)'
    BY <1>1, <2>1, <2>3 DEF Calls, FieldTypeOK
  <2> QED
    BY <2>4, <2>5, <2>6, <2>7, <2>8, <2>9 DEF Calls
<1>14. (\A r \in FieldScopes : cleanBy'[r] \subseteq cleanBy[r]) /\ t \notin cleanBy'[s]
  BY <1>1, <1>7 DEF FieldTypeOK
<1>15. y.kind \notin {"clear", "list", "delete", "mark"} /\ call[y.id] = "none"
  BY <1>5, <1>7
<1>16. UNCHANGED <<copies, stored>> /\ flushes' = flushes
       /\ \A u \in Tabs \ {t} : gen'[u] = gen[u] /\ page'[u] = page[u]
  BY <1>7 DEF context
<1>17. \A i \in Ids : (call[i] = "open" => call'[i] = "open") /\ (call'[i] = "saved" => call[i] = "saved")
  BY <1>7, <1>8
<1> QED
  BY <1>1, <1>5, <1>6, <1>9, <1>10, <1>11, <1>12, <1>13, <1>14, <1>15, <1>16, <1>17, PushStep

\* One flush moves.
\* A flush opens a transaction and moves with it.
LEMMA FlushPushStep ==
  ASSUME FieldInv, NEW t \in Tabs, NEW s \in FieldScopes, t \in device.tabs, NEW y \in Lists \cup Deletes \cup Marks,
         y.scope = s, db' = Opened(t, y), NEW g \in FlushRows, flushes' = [flushes EXCEPT ![t][s] = g],
         flushes[t][s].pc \notin {"list", "store"}, FlushOK(g)',
         y.kind = "list" => g.pc = "list",
         y.kind \in {"delete", "mark"} => g.pc = "store" /\ g.item = y.id,
         y.kind = "delete" => y.id \in receipts,
         UNCHANGED <<copies, stored, failure, gen, context, call, receipts, access, count, clears, device, history>>,
         faults' \in Nat, stray' \subseteq Ids, \A i \in stray' : i \in stray \/ (Known(i) /\ Ready(i))
  PROVE  FieldInv'
<1>1. FieldTypeOK /\ Calls
  BY DEF FieldInv
<1>2. y \in Transactions /\ y.kind \in {"list", "delete", "mark"}
  BY DEF Transactions, Lists, Deletes, Marks
<1>3. /\ db' \in [Tabs -> Seq(Transactions)] /\ db'[t] = Append(db[t], y)
      /\ \A u \in Tabs \ {t} : db'[u] = db[u]
  BY <1>1, <1>2, OpenedQueue
<1>4. /\ flushes' \in [Tabs -> [FieldScopes -> FlushRows]] /\ flushes'[t][s] = g
      /\ \A u \in Tabs, r \in FieldScopes : u # t \/ r # s => flushes'[u][r] = flushes[u][r]
      /\ \A u \in Tabs \ {t} : flushes'[u] = flushes[u]
  BY <1>1 DEF FieldTypeOK
<1>5. FieldTypeOK'
  BY <1>1, <1>3, <1>4 DEF FieldTypeOK, context, history
<1>6. Grows
  BY DEF Grows, history
<1>7. Later(t)
  BY <1>1, GenSame
<1>8. RowOK(t, y)'
  BY <1>2, <1>4 DEF RowOK, IsWrite
<1>9. Calls'
  <2>1. UNCHANGED <<receipts, count, prior, owner>>
    BY DEF history
  <2>2. \A i \in Ids : (Known(i) => Known(i)') /\ (Ready(i) => Ready(i)')
    BY DEF Known, Ready, Gone, history
  <2>3. \A i \in stored' \cup stray' : i \in stored \cup stray \/ Known(i)'
    BY <2>2
  <2>4. \A i \in stray' : i \in stray \/ Ready(i)'
    BY <2>2
  <2>5. \A i \in Ids : call'[i] # "none" => call[i] # "none"
    OBVIOUS
  <2> QED
    BY <1>1, <1>5, <1>6, <2>1, <2>3, <2>4, <2>5, CallsStep
<1>10. FlushOK(flushes[t][s])'
  BY <1>4 DEF FlushOK, Known, Ready, Gone
<1>11. UNCHANGED <<copies, stored>> /\ cleanBy' = cleanBy /\ ~IsWrite(y)
       /\ \A u \in Tabs \ {t} : gen'[u] = gen[u] /\ page'[u] = page[u]
  BY <1>2 DEF history, context, IsWrite
<1>12. \A r \in FieldScopes : \/ flushes'[t][r] = flushes[t][r]
                              \/ flushes[t][r].pc \notin {"list", "store"} /\ FlushOK(flushes[t][r])'
  BY <1>4, <1>10
<1> QED
  BY <1>2, <1>3, <1>4, <1>5, <1>6, <1>7, <1>8, <1>9, <1>11, <1>12, PushStep

\* A flush asks for the rows of its scope.
LEMMA BeginFlushStep ==
  ASSUME FieldInv, NEW t \in Tabs, BeginFlush(t)
  PROVE  FieldInv'
<1>1. FieldTypeOK /\ t \in device.tabs /\ page[t] \in FieldScopes
  BY PageIsOpen DEF FieldInv, BeginFlush
<1>2. PICK s \in FieldScopes : s = page[t]
  BY <1>1
<1>3. PICK y : y = [kind |-> "list", scope |-> s]
  OBVIOUS
<1>4. PICK g : g = [Idle EXCEPT !.pc = "list"]
  OBVIOUS
<1>5. y \in Lists /\ y.kind = "list" /\ y.scope = s
  BY <1>3 DEF Lists
<1>6. g \in FlushRows /\ g.pc = "list" /\ g.todo = {}
  BY <1>4 DEF Idle, FlushRows
<1>7. /\ db' = Opened(t, y) /\ flushes' = [flushes EXCEPT ![t][s] = g] /\ flushes[t][s].pc = "idle"
      /\ UNCHANGED <<copies, stored, failure, gen, context, call, server, bounds, history>>
  BY <1>2, <1>3, <1>4 DEF BeginFlush
<1>8. FlushOK(g)'
  BY <1>6 DEF FlushOK
<1>9. faults' \in Nat /\ stray' = stray /\ stray \subseteq Ids
  BY <1>1, <1>7 DEF FieldTypeOK, server, bounds
<1>10. UNCHANGED <<copies, stored, failure, gen, context, call, receipts, access, count, clears, device, history>>
  BY <1>7 DEF server, bounds
<1> QED
  BY <1>1, <1>5, <1>6, <1>7, <1>8, <1>9, <1>10, FlushPushStep

\* A flush begins with the oldest command it has.
LEMMA EarliestIsFirst ==
  ASSUME NEW S \in SUBSET Ids, S # {}
  PROVE  Earliest(S) \in S /\ \A j \in S : Earliest(S) <= j
<1>1. S \subseteq Nat
  BY CommandsAssumption DEF Ids
<1>2. PICK k \in S : \A j \in S : ~(<<j, k>> \in OpToRel(<, Nat))
  BY <1>1, WFMin, NatLessThanWellFounded
<1>3. \A j \in S : ~(j < k)
  BY <1>1, <1>2 DEF OpToRel
<1>4. \E i \in S : \A j \in S : i <= j
  BY <1>1, <1>3
<1> QED
  BY <1>4 DEF Earliest

\* What a flush sends depends on nothing it still has to send.
LEMMA NextItem ==
  ASSUME FieldInv, NEW t \in Tabs, NEW s \in FieldScopes, flushes[t][s].pc = "loop", flushes[t][s].todo # {},
         NEW i, i = Earliest(flushes[t][s].todo), NEW pc \in {"sent", "store"},
         NEW g, g = [pc |-> pc, todo |-> flushes[t][s].todo \ {i}, item |-> i, answer |-> "none"]
  PROVE  /\ i \in Ids /\ g \in FlushRows /\ FlushOK(g)
         /\ g.pc = pc /\ g.item = i /\ g.answer = "none"
<1>1. PICK f : f = flushes[t][s]
  OBVIOUS
<1>2. f \in FlushRows /\ FlushOK(f) /\ f.pc = "loop" /\ f.todo \in SUBSET Ids /\ FieldTypeOK /\ Calls
  BY <1>1 DEF FieldInv, FieldTypeOK, FlushRows
<1>3. i \in f.todo /\ \A j \in f.todo : i <= j
  BY <1>1, <1>2, EarliestIsFirst
<1>4. i \in Ids /\ i \in Nat /\ f.todo \subseteq Nat
  BY <1>2, <1>3, CommandsAssumption DEF Ids
<1>5. g \in FlushRows /\ g.pc = pc /\ g.item = i /\ g.answer = "none" /\ g.todo = f.todo \ {i}
  BY <1>1, <1>2, <1>4 DEF FlushRows
<1>6. Known(i) /\ Ready(i)
  <2>1. Known(i) /\ \A k \in prior[i] : k \in Gone \/ k \in f.todo
    BY <1>2, <1>3 DEF FlushOK
  <2>2. \A k \in prior[i] : k < i
    BY <1>2, <1>4 DEF Calls
  <2>3. \A k \in prior[i] : k \notin f.todo
    BY <1>3, <1>4, <2>2
  <2> QED
    BY <2>1, <2>3 DEF Ready
<1>7. \A x \in g.todo : x > i
  BY <1>3, <1>4, <1>5
<1>8. \A x \in g.todo : Known(x) /\ \A k \in prior[x] : k \in Gone \/ k \in g.todo \/ k = i
  BY <1>2, <1>5 DEF FlushOK
<1> QED
  BY <1>4, <1>5, <1>6, <1>7, <1>8 DEF FlushOK

\* FlushOK depends on what the commands are and what became of them.
LEMMA FlushStays ==
  ASSUME NEW g, FlushOK(g), UNCHANGED <<call, prior, receipts, discarded, erased>>
  PROVE  FlushOK(g)'
<1>1. Gone' = Gone /\ (\A x : Known(x)' = Known(x)) /\ (\A x : Ready(x)' = Ready(x))
  BY DEF Gone, Known, Ready
<1> QED
  BY <1>1 DEF FlushOK

\* The oldest row left is sent, or refused before it leaves.
LEMMA SendStep ==
  ASSUME FieldInv, NEW t \in Tabs, NEW s \in FieldScopes, Send(t, s)
  PROVE  FieldInv'
<1>1. /\ FieldTypeOK /\ flushes[t][s].pc = "loop" /\ flushes[t][s].todo # {} /\ page[t] = s
      /\ UNCHANGED <<copies, stored, failure, gen, context, call, server, bounds, history>>
  BY DEF Send, FieldInv
<1>2. t \in device.tabs
  BY <1>1, PageIsOpen, ScopeAssumption
<1>3. PICK i : i = Earliest(flushes[t][s].todo)
  OBVIOUS
<1>4. PICK rest : rest = flushes[t][s].todo \ {i}
  OBVIOUS
<1>5. CASE header[t] = s[2]
  <2>1. PICK g : g = [pc |-> "sent", todo |-> rest, item |-> i, answer |-> "none"]
    OBVIOUS
  <2>2. flushes' = [flushes EXCEPT ![t][s] = g] /\ db' = db
    BY <1>3, <1>4, <1>5, <2>1 DEF Send
  <2>3. g \in FlushRows /\ FlushOK(g)
    BY <1>1, <1>3, <1>4, <2>1, NextItem
  <2>4. /\ flushes' \in [Tabs -> [FieldScopes -> FlushRows]] /\ flushes'[t][s] = g
        /\ \A u \in Tabs, r \in FieldScopes : u # t \/ r # s => flushes'[u][r] = flushes[u][r]
    BY <1>1, <2>2, <2>3 DEF FieldTypeOK
  <2>5. FieldTypeOK'
    BY <1>1, <2>2, <2>4 DEF FieldTypeOK, context, server, bounds, history
  <2>6. FlushOK(g)'
    BY <1>1, <2>3, FlushStays DEF server, history
  <2>7. FlushOK(flushes[t][s])'
    BY <2>4, <2>6 DEF FlushOK, Known, Ready, Gone
  <2>8. \A u \in Tabs : Closed(u)'
    BY <1>1, <1>2, <2>2, <2>4 DEF FieldInv, Closed, context, bounds
  <2>9. Calls'
    BY <1>1 DEF FieldInv, Calls, Known, Ready, Gone, server, history
  <2> QED
    BY <1>1, <2>2, <2>4, <2>5, <2>7, <2>8, <2>9, CalmStep DEF server, bounds, history
<1>6. CASE header[t] # s[2]
  <2>1. PICK g : g = [pc |-> "store", todo |-> rest, item |-> i, answer |-> "none"]
    OBVIOUS
  <2>2. PICK y : y = [kind |-> "mark", id |-> i, scope |-> s, status |-> "rejected"]
    OBVIOUS
  <2>3. flushes' = [flushes EXCEPT ![t][s] = g] /\ db' = Opened(t, y)
    BY <1>3, <1>4, <1>6, <2>1, <2>2 DEF Send
  <2>4. g \in FlushRows /\ FlushOK(g) /\ g.pc = "store" /\ g.item = i /\ i \in Ids
    BY <1>1, <1>3, <1>4, <2>1, NextItem
  <2>5. y \in Marks /\ y.kind = "mark" /\ y.scope = s /\ y.id = i
    BY <2>2, <2>4 DEF Marks
  <2>6. FlushOK(g)'
    BY <1>1, <2>4, FlushStays DEF server, history
  <2>7. faults' \in Nat /\ stray' = stray /\ stray \subseteq Ids
    BY <1>1 DEF FieldTypeOK, server, bounds
  <2>8. UNCHANGED <<copies, stored, failure, gen, context, call, receipts, access, count, clears, device, history>>
    BY <1>1 DEF server, bounds
  <2> QED
    BY <1>1, <1>2, <2>3, <2>4, <2>5, <2>6, <2>7, <2>8, FlushPushStep
<1> QED
  BY <1>5, <1>6

\* A request that is out is of an open tab, and its flush waits for it.
LEMMA SentItem ==
  ASSUME FieldInv, NEW t \in Tabs, NEW s \in FieldScopes, flushes[t][s].pc = "sent",
         NEW f, f = flushes[t][s], NEW g, g = [f EXCEPT !.pc = "store"]
  PROVE  /\ t \in device.tabs /\ f \in FlushRows /\ f.item \in Ids /\ Known(f.item) /\ Ready(f.item)
         /\ f.answer = "ok" => f.item \in receipts
         /\ g \in FlushRows /\ g.pc = "store" /\ g.item = f.item /\ FlushOK(g)
<1>1. f \in FlushRows /\ FlushOK(f) /\ f.pc = "sent" /\ t \in device.tabs
  BY DEF FieldInv, FieldTypeOK, Closed
<1>2. g \in FlushRows /\ g.pc = "store" /\ g.item = f.item /\ g.todo = f.todo
  BY <1>1 DEF FlushRows
<1> QED
  BY <1>1, <1>2 DEF FlushOK

\* The answer of the server opens the deletion of the row or its mark.
LEMMA ReceiveAnswerStep ==
  ASSUME FieldInv, NEW t \in Tabs, NEW s \in FieldScopes, Receive(t, s)
  PROVE  FieldInv'
<1>1. /\ FieldTypeOK /\ flushes[t][s].pc = "sent"
      /\ UNCHANGED <<copies, stored, failure, gen, context, call, server, bounds, history>>
  BY DEF Receive, FieldInv
<1>2. PICK f : f = flushes[t][s]
  OBVIOUS
<1>3. PICK g : g = [f EXCEPT !.pc = "store"]
  OBVIOUS
<1>4. /\ t \in device.tabs /\ f \in FlushRows /\ f.item \in Ids
      /\ f.answer = "ok" => f.item \in receipts
      /\ g \in FlushRows /\ g.pc = "store" /\ g.item = f.item /\ FlushOK(g)
  BY <1>1, <1>2, <1>3, SentItem
<1>5. PICK y : y = IF f.answer = "ok" THEN [kind |-> "delete", id |-> f.item, scope |-> s]
                   ELSE [kind |-> "mark", id |-> f.item, scope |-> s, status |-> "rejected"]
  OBVIOUS
<1>6. flushes' = [flushes EXCEPT ![t][s] = g] /\ db' = Opened(t, y)
  BY <1>1, <1>2, <1>3, <1>5 DEF Receive, FieldTypeOK
<1>7. /\ y \in Deletes \cup Marks /\ y.kind \in {"delete", "mark"} /\ y.scope = s /\ y.id = f.item
      /\ y.kind = "delete" => f.answer = "ok"
  <2>1. CASE f.answer = "ok"
    BY <1>4, <1>5, <2>1 DEF Deletes
  <2>2. CASE f.answer # "ok"
    BY <1>4, <1>5, <2>2 DEF Marks
  <2> QED
    BY <2>1, <2>2
<1>8. FlushOK(g)'
  BY <1>1, <1>4, FlushStays DEF server, history
<1>9. faults' \in Nat /\ stray' = stray /\ stray \subseteq Ids
  BY <1>1 DEF FieldTypeOK, server, bounds
<1>10. UNCHANGED <<copies, stored, failure, gen, context, call, receipts, access, count, clears, device, history>>
  BY <1>1 DEF server, bounds
<1> QED
  BY <1>1, <1>4, <1>6, <1>7, <1>8, <1>9, <1>10, FlushPushStep

\* The reply is lost: the row is marked and the request may still arrive.
LEMMA LoseStep ==
  ASSUME FieldInv, NEW t \in Tabs, NEW s \in FieldScopes, Lose(t, s)
  PROVE  FieldInv'
<1>1. /\ FieldTypeOK /\ flushes[t][s].pc = "sent"
      /\ UNCHANGED <<copies, stored, failure, gen, context, call, receipts, access, count, clears, device, history>>
      /\ faults' \in Nat
  BY DEF Lose, FieldInv, Fault, FieldTypeOK
<1>2. PICK f : f = flushes[t][s]
  OBVIOUS
<1>3. PICK g : g = [f EXCEPT !.pc = "store"]
  OBVIOUS
<1>4. /\ t \in device.tabs /\ f \in FlushRows /\ f.item \in Ids /\ Known(f.item) /\ Ready(f.item)
      /\ g \in FlushRows /\ g.pc = "store" /\ g.item = f.item /\ FlushOK(g)
  BY <1>1, <1>2, <1>3, SentItem
<1>5. PICK y : y = [kind |-> "mark", id |-> f.item, scope |-> s, status |-> "retry"]
  OBVIOUS
<1>6. flushes' = [flushes EXCEPT ![t][s] = g] /\ db' = Opened(t, y) /\ stray' \subseteq stray \cup {f.item}
  BY <1>1, <1>2, <1>3, <1>5 DEF Lose, FieldTypeOK
<1>7. y \in Marks /\ y.kind = "mark" /\ y.scope = s /\ y.id = f.item
  BY <1>4, <1>5 DEF Marks
<1>8. FlushOK(g)'
  BY <1>1, <1>4, FlushStays DEF history
<1>9. stray' \subseteq Ids /\ \A i \in stray' : i \in stray \/ (Known(i) /\ Ready(i))
  BY <1>1, <1>4, <1>6 DEF FieldTypeOK
<1> QED
  BY <1>1, <1>4, <1>6, <1>7, <1>8, <1>9, FlushPushStep

\* The person asks to discard a rejected row.
LEMMA DiscardStep ==
  ASSUME FieldInv, NEW t \in Tabs, NEW i \in Ids, discardRejected(t, i)
  PROVE  FieldInv'
<1>1. /\ FieldTypeOK /\ t \in device.tabs
      /\ UNCHANGED <<copies, stored, failure, gen, context, flushes, call, server, bounds, history>>
  BY PageIsOpen DEF FieldInv, discardRejected
<1>2. PICK y : y = [kind |-> "check", id |-> i]
  OBVIOUS
<1>3. y \in Transactions /\ y.kind = "check"
  BY <1>2 DEF Transactions, Checks
<1>4. /\ db' \in [Tabs -> Seq(Transactions)] /\ db'[t] = Append(db[t], y)
      /\ \A u \in Tabs \ {t} : db'[u] = db[u]
  BY <1>1, <1>2, <1>3, OpenedQueue DEF discardRejected
<1>5. FieldTypeOK'
  BY <1>1, <1>4 DEF FieldTypeOK, context, server, bounds, history
<1>6. Grows
  BY <1>1 DEF Grows, server, bounds, history
<1>7. Later(t)
  BY <1>1, GenSame
<1>8. RowOK(t, y)' /\ ~IsWrite(y) /\ y.kind \notin {"add", "clear", "list", "delete", "mark"}
  BY <1>3 DEF RowOK, IsWrite
<1>9. Calls'
  BY <1>1 DEF FieldInv, Calls, Known, Ready, Gone, server, history
<1>10. /\ UNCHANGED <<copies, stored>> /\ flushes' = flushes /\ call' = call /\ cleanBy' = cleanBy
       /\ \A u \in Tabs \ {t} : gen'[u] = gen[u] /\ page'[u] = page[u]
  BY <1>1 DEF context, history
<1> QED
  BY <1>1, <1>3, <1>4, <1>5, <1>6, <1>7, <1>8, <1>9, <1>10, PushStep

-----------------------------------------------------------------------------
(* The oldest transaction of a tab ends.                                    *)

\* What the invariant says of the oldest transaction of a tab.
LEMMA HeadRow ==
  ASSUME FieldInv, NEW t \in Tabs, db[t] # << >>, NEW x, x = Head(db[t])
  PROVE  /\ FieldTypeOK /\ Calls /\ t \in device.tabs /\ x \in Transactions /\ RowOK(t, x)
         /\ x = db[t][1] /\ Len(db[t]) \in Nat /\ Len(db[t]) > 0
         /\ \A k \in 2..Len(db[t]) : PairOK(t, x, db[t][k]) /\ db[t][k] \in Transactions /\ RowOK(t, db[t][k])
<1>1. FieldTypeOK /\ Calls /\ QueueOK(t) /\ Closed(t)
  BY DEF FieldInv
<1>2. db[t] \in Seq(Transactions)
  BY <1>1 DEF FieldTypeOK
<1>3. Len(db[t]) \in Nat /\ Len(db[t]) > 0 /\ x = db[t][1] /\ x \in Transactions
  BY <1>2, Popped
<1>4. \A k \in 1..Len(db[t]) : db[t][k] \in Transactions
  BY <1>2
<1>5. 1 \in 1..Len(db[t]) /\ \A k \in 2..Len(db[t]) : k \in 1..Len(db[t]) /\ 1 < k
  BY <1>3
<1>6. t \in device.tabs
  BY <1>1 DEF Closed
<1>7. RowOK(t, x) /\ \A k \in 2..Len(db[t]) : RowOK(t, db[t][k])
  BY <1>1, <1>3, <1>5 DEF QueueOK
<1>8. \A k \in 2..Len(db[t]) : PairOK(t, x, db[t][k])
  BY <1>1, <1>3, <1>5 DEF QueueOK
<1>9. \A k \in 2..Len(db[t]) : db[t][k] \in Transactions
  BY <1>4, <1>5
<1> QED
  BY <1>1, <1>3, <1>6, <1>7, <1>8, <1>9, Zenon

\* The oldest transaction ends, with or without another after it: what its
\* step needs to keep the invariant.
LEMMA PopStep ==
  ASSUME FieldInv, FieldTypeOK', Grows, NEW t \in Tabs, db[t] # << >>, NEW x, x = Head(db[t]), NEW y \in Transactions,
         \/ db'[t] = Tail(db[t])
         \/ /\ db'[t] = Append(Tail(db[t]), y) /\ RowOK(t, y)' /\ y.kind \in {"drop", "mark"}
            /\ y.kind = "mark" => x.kind = "delete" /\ y.scope = x.scope,
         UNCHANGED <<gen, page, tabOf, owner>>,
         \A u \in Tabs \ {t} : db'[u] = db[u] /\ flushes'[u] = flushes[u],
         \A i \in Ids : call'[i] = call[i] \/ (x.kind = "add" /\ i = x.id),
         x.kind = "add" /\ call'[x.id] = "saved" => ~Stale(t, x),
         \A r \in FieldScopes : \/ flushes'[t][r] = flushes[t][r]
                                \/ x.kind \in {"list", "delete", "mark"} /\ r = x.scope /\ FlushOK(flushes[t][r])',
         \A r \in FieldScopes : cleanBy'[r] \subseteq cleanBy[r],
         \A r \in FieldScopes : Present(r)' => \/ t \notin cleanBy'[r] \/ PendingClear(t, r)'
                                               \/ Present(r) /\ ~(x.kind = "clear" /\ r \in x.which),
         Calls', NoSilentLoss'
  PROVE  FieldInv'
<1>1. /\ FieldTypeOK /\ t \in device.tabs /\ x \in Transactions /\ RowOK(t, x)
      /\ x = db[t][1] /\ Len(db[t]) \in Nat /\ Len(db[t]) > 0 /\ QueueOK(t)
      /\ \A k \in 2..Len(db[t]) : PairOK(t, x, db[t][k]) /\ db[t][k] \in Transactions /\ RowOK(t, db[t][k])
  BY HeadRow DEF FieldInv
<1> DEFINE l == Len(db[t])
<1>0. l \in Nat /\ l > 0
  BY <1>1
<1> HIDE DEF l
<1>2. PICK m \in Nat : m = l - 1
  BY <1>0
<1>3. /\ m + 1 = Len(db[t]) /\ db[t] \in Seq(Transactions) /\ Tail(db[t]) \in Seq(Transactions)
      /\ Len(Tail(db[t])) = m /\ \A k \in 1..m : Tail(db[t])[k] = db[t][k + 1]
  BY <1>0, <1>1, <1>2, Popped DEF FieldTypeOK, l
<1>4. /\ Len(db'[t]) \in {m, m + 1}
      /\ \A k \in 1..m : db'[t][k] = db[t][k + 1]
      /\ Len(db'[t]) = m + 1 => /\ db'[t][m + 1] = y /\ RowOK(t, y)' /\ y.kind \in {"drop", "mark"}
                                /\ y.kind = "mark" => x.kind = "delete" /\ y.scope = x.scope
  <2>1. CASE db'[t] = Tail(db[t])
    BY <1>3, <2>1
  <2>2. CASE /\ db'[t] = Append(Tail(db[t]), y) /\ RowOK(t, y)' /\ y.kind \in {"drop", "mark"}
             /\ y.kind = "mark" => x.kind = "delete" /\ y.scope = x.scope
    <3>1. /\ Len(Append(Tail(db[t]), y)) = m + 1 /\ Append(Tail(db[t]), y)[m + 1] = y
          /\ \A k \in 1..m : Append(Tail(db[t]), y)[k] = Tail(db[t])[k]
      BY <1>3, Pushed
    <3> QED
      BY <1>3, <2>2, <3>1
  <2> QED
    BY <2>1, <2>2
<1>5. Later(t)
  BY <1>1, GenSame
<1>6. ASSUME NEW k \in 1..m PROVE Holds(t, db[t][k + 1])
  <2>1. PICK z : z = db[t][k + 1]
    OBVIOUS
  <2>2. z \in Transactions /\ RowOK(t, z) /\ PairOK(t, x, z)
    <3>1. k + 1 \in 2..Len(db[t])
      BY <1>3
    <3> QED
      BY <1>1, <2>1, <3>1
  <2>3. z.kind = "add" => call'[z.id] = "open"
    BY <2>2 DEF RowOK, PairOK
  <2>4. z.kind \in {"list", "delete", "mark"} => flushes'[t][z.scope] = flushes[t][z.scope]
    <3>1. z.kind \in {"list", "delete", "mark"} => z.scope \in FieldScopes
      BY <2>2, TxType DEF Lists, Deletes, Marks
    <3> QED
      BY <2>2, <3>1 DEF PairOK
  <2>5. ASSUME z.kind = "clear", NEW i \in Ids, tabOf'[i] = t, owner'[i] \in z.which, call'[i] = "saved"
        PROVE  (tabOf[i] = t /\ owner[i] \in z.which /\ call[i] = "saved") \/ i \in z.saved
    <3>1. CASE call'[i] = call[i]
      BY <2>5, <3>1
    <3>2. CASE x.kind = "add" /\ i = x.id
      <4>1. ~Stale(t, x) /\ owner[i] = x.scope /\ IsWrite(x)
        BY <1>1, <2>5, <3>2 DEF RowOK, IsWrite
      <4> QED
        BY <2>2, <2>5, <4>1, SMTT(30) DEF PairOK
    <3> QED
      BY <3>1, <3>2
  <2> QED
    BY <2>1, <2>3, <2>4, <2>5 DEF Holds
<1>7. QueueOK(t)'
  <2>1. Len(db'[t]) = m + 1 => RowOK(t, db[t][m + 1])'
    BY <1>4 DEF RowOK, IsWrite, Stale
  <2>2. Len(db'[t]) = m + 1 => \A k \in 1..m : PairOK(t, db[t][k], db[t][m + 1])'
    <3> SUFFICES ASSUME Len(db'[t]) = m + 1, NEW k \in 1..m PROVE PairOK(t, db[t][k], db[t][m + 1])'
      OBVIOUS
    <3>1. PICK z : z = db[t][k + 1]
      OBVIOUS
    <3>2. PairOK(t, x, z) /\ db'[t][k] = z /\ db'[t][m + 1] = y
      <4>1. k + 1 \in 2..Len(db[t])
        BY <1>3
      <4> QED
        BY <1>1, <1>4, <3>1, <4>1
    <3> QED
      BY <1>4, <3>2 DEF PairOK, IsWrite
  <2>3. \A k \in 1..m : IsWrite(db'[t][k]) /\ t \in cleanBy'[db'[t][k].scope] =>
            \/ t \in cleanBy[db'[t][k].scope]
            \/ /\ Len(db'[t]) = m + 1 /\ db'[t][m + 1].kind = "clear"
               /\ db'[t][k].scope \in db'[t][m + 1].which
    <3> SUFFICES ASSUME NEW k \in 1..m, IsWrite(db'[t][k]) PROVE db'[t][k].scope \in FieldScopes
      OBVIOUS
    <3>1. db'[t][k] \in Transactions
      <4>1. k + 1 \in 2..Len(db[t])
        BY <1>3
      <4> QED
        BY <1>1, <1>4, <4>1
    <3> QED
      BY <3>1, WriteType
  <2>4. Len(db'[t]) = m + 1 => ~IsWrite(db'[t][m + 1])
    BY <1>4 DEF IsWrite
  <2> QED
    BY <1>1, <1>3, <1>4, <1>5, <1>6, <2>1, <2>2, <2>3, <2>4, QueueStep, ZenonT(30)
<1>8. ASSUME NEW u \in Tabs \ {t} PROVE QueueOK(u)' /\ Closed(u)'
  <2>1. QueueOK(u) /\ Closed(u)
    BY SMTT(30) DEF FieldInv
  <2>2. \A i \in Ids : tabOf[i] = u => call'[i] = call[i]
    BY <1>1 DEF RowOK
  <2>3. Apart(u)
    BY <1>1, <2>1, <2>2, ApartTab
  <2> QED
    BY <1>1, <2>1, <2>3, QueueApart DEF Closed, Grows
<1>9. ASSUME NEW s \in FieldScopes PROVE PresentOK(s)'
  <2> SUFFICES ASSUME Present(s)'
               PROVE  \E u \in device.tabs : u \notin cleanBy'[s] \/ PendingClear(u, s)'
    BY DEF PresentOK, Grows
  <2>1. CASE t \notin cleanBy'[s] \/ PendingClear(t, s)'
    BY <1>1, <2>1
  <2>2. CASE Present(s) /\ ~(x.kind = "clear" /\ s \in x.which)
    <3>1. PICK u \in device.tabs : u \notin cleanBy[s] \/ PendingClear(u, s)
      BY <2>2 DEF FieldInv, PresentOK
    <3>2. u \in Tabs
      BY <1>1, <3>1, TabsOpen
    <3>3. CASE u \notin cleanBy[s]
      BY <3>1, <3>3
    <3>4. CASE PendingClear(u, s) /\ u # t
      BY <3>1, <3>2, <3>4 DEF PendingClear
    <3>5. CASE PendingClear(t, s) /\ u = t
      <4>1. Len(db'[t]) >= m /\ Len(db'[t]) \in Nat
        BY <1>4
      <4>2. \A k \in 1..1 : ~(db[t][k].kind = "clear" /\ s \in db[t][k].which)
        BY <1>1, <2>2
      <4>3. PendingClear(t, s)'
        BY <1>1, <1>3, <1>4, <3>5, <4>1, <4>2, PendingKept
      <4> QED
        BY <3>1, <3>5, <4>3
    <3> QED
      BY <3>1, <3>3, <3>4, <3>5
  <2> QED
    BY <2>1, <2>2
<1>10. ASSUME NEW u \in Tabs, NEW s \in FieldScopes PROVE FlushOK(flushes[u][s])'
  BY <1>1, FlushKept DEF FieldInv
<1>11. Closed(t)'
  BY <1>1 DEF Closed, Grows
<1> QED
  BY <1>7, <1>8, <1>9, <1>10, <1>11 DEF FieldInv

\* The queue without its head, or with one transaction more.
LEMMA DoneQueue ==
  ASSUME FieldTypeOK, NEW t \in Tabs, db[t] # << >>, NEW y \in Transactions, db' = Done(t) \/ db' = Then(t, y)
  PROVE  /\ db' \in [Tabs -> Seq(Transactions)]
         /\ db' = Done(t) => db'[t] = Tail(db[t])
         /\ db' = Then(t, y) => db'[t] = Append(Tail(db[t]), y)
         /\ \A u \in Tabs \ {t} : db'[u] = db[u]
<1>1. db[t] \in Seq(Transactions)
  BY DEF FieldTypeOK
<1>2. Tail(db[t]) \in Seq(Transactions) /\ Append(Tail(db[t]), y) \in Seq(Transactions)
  BY <1>1, Popped
<1>3. /\ Done(t) \in [Tabs -> Seq(Transactions)] /\ Done(t)[t] = Tail(db[t])
      /\ \A u \in Tabs \ {t} : Done(t)[u] = db[u]
  BY <1>2 DEF FieldTypeOK, Done
<1>4. /\ Then(t, y) \in [Tabs -> Seq(Transactions)] /\ Then(t, y)[t] = Append(Tail(db[t]), y)
      /\ \A u \in Tabs \ {t} : Then(t, y)[u] = db[u]
  BY <1>2 DEF FieldTypeOK, Then
<1> QED
  BY <1>3, <1>4

\* A write that goes through leaves its scope to a tab that has not erased it.
LEMMA WritePending ==
  ASSUME FieldInv, NEW t \in Tabs, db[t] # << >>, NEW x, x = Head(db[t]), IsWrite(x),
         db'[t] = Tail(db[t]), cleanBy' = cleanBy
  PROVE  t \notin cleanBy'[x.scope] \/ PendingClear(t, x.scope)'
<1>1. /\ x = db[t][1] /\ Len(db[t]) \in Nat /\ Len(db[t]) > 0 /\ QueueOK(t) /\ db[t] \in Seq(Transactions)
  BY HeadRow DEF FieldInv, FieldTypeOK
<1> SUFFICES ASSUME t \in cleanBy[x.scope] PROVE PendingClear(t, x.scope)'
  OBVIOUS
<1>2. 1 \in 1..Len(db[t])
  BY <1>1
<1>3. PICK j \in 1..Len(db[t]) : 1 < j /\ db[t][j].kind = "clear" /\ x.scope \in db[t][j].which
  BY <1>1, <1>2 DEF QueueOK
<1>4. /\ Len(Tail(db[t])) = Len(db[t]) - 1
      /\ \A k \in 1..Len(Tail(db[t])) : Tail(db[t])[k] = db[t][k + 1]
  BY <1>1, Popped
<1>5. j - 1 \in 1..Len(db'[t]) /\ (j - 1) + 1 = j
  BY <1>1, <1>3, <1>4
<1>6. db'[t][j - 1] = db[t][j]
  BY <1>4, <1>5
<1> QED
  BY <1>3, <1>5, <1>6 DEF PendingClear

\* The agenda copy is written, or skipped.
LEMMA CommitCopyStep ==
  ASSUME FieldInv, NEW t \in Tabs, CommitCopy(t)
  PROVE  FieldInv'
<1>1. PICK x : x = Head(db[t])
  OBVIOUS
<1>2. /\ db[t] # << >> /\ x.kind = "copy" /\ db' = Done(t)
      /\ UNCHANGED <<stored, failure, gen, context, flushes, call, server, bounds, history>>
      /\ copies' = IF x.write = "put" THEN copies \cup {x.scope} ELSE copies
  BY <1>1 DEF CommitCopy, Running
<1>3. FieldTypeOK /\ Calls /\ NoSilentLoss /\ x \in Transactions
  BY <1>1, <1>2, HeadRow DEF FieldInv
<1>4. IsWrite(x) /\ x.scope \in FieldScopes
  BY <1>2, <1>3, WriteType DEF IsWrite
<1>5. /\ db' \in [Tabs -> Seq(Transactions)] /\ db'[t] = Tail(db[t])
      /\ \A u \in Tabs \ {t} : db'[u] = db[u]
  BY <1>2, <1>3, DoneQueue
<1>6. FieldTypeOK'
  BY <1>2, <1>3, <1>4, <1>5 DEF FieldTypeOK, context, server, bounds, history
<1>7. Grows
  BY <1>2 DEF Grows, server, bounds, history
<1>8. Calls'
  BY <1>2, <1>3 DEF Calls, Known, Ready, Gone, server, history
<1>9. NoSilentLoss'
  BY <1>2, <1>3 DEF NoSilentLoss, server, history
<1>10. t \notin cleanBy'[x.scope] \/ PendingClear(t, x.scope)'
  BY <1>1, <1>2, <1>4, <1>5, WritePending DEF history
<1>11. \A r \in FieldScopes : Present(r)' => r = x.scope \/ Present(r)
  BY <1>2 DEF Present, MineIn, history
<1>12. \A r \in FieldScopes : Present(r)' => \/ t \notin cleanBy'[r] \/ PendingClear(t, r)'
                                             \/ Present(r) /\ ~(x.kind = "clear" /\ r \in x.which)
  BY <1>2, <1>10, <1>11
<1>13. /\ UNCHANGED <<gen, page, tabOf, owner>> /\ flushes' = flushes /\ call' = call /\ cleanBy' = cleanBy
       /\ x.kind # "add"
  BY <1>2 DEF context, history
<1> QED
  BY <1>1, <1>2, <1>3, <1>5, <1>6, <1>7, <1>8, <1>9, <1>12, <1>13, PopStep

\* A stamp that is the tab's is not stale, and a stale one is not the tab's.
LEMMA StampStale ==
  ASSUME FieldTypeOK, NEW t \in Tabs, NEW x \in Transactions, IsWrite(x), RowOK(t, x)
  PROVE  (x.stamp = Stamp(t, x.scope)) <=> ~Stale(t, x)
<1>1. /\ x.scope \in FieldScopes /\ x.stamp[1] \in Nat /\ x.stamp[2] \in Nat /\ x.stamp \in Nat \X Nat
      /\ x.scope[1] \in Actors
  BY WriteType, TxType DEF Writes
<1>2. PICK a \in Nat : a = gen[t].actor[x.scope[1]]
  BY <1>1, GenType
<1>3. PICK b \in Nat : b = gen[t].scope[x.scope]
  BY <1>1, GenType
<1>4. Stamp(t, x.scope) = <<a, b>>
  BY <1>2, <1>3 DEF Stamp
<1>5. x.stamp[1] <= a /\ x.stamp[2] <= b
  BY <1>2, <1>3 DEF RowOK
<1>6. Stale(t, x) <=> x.stamp[1] < a \/ x.stamp[2] < b
  BY <1>2, <1>3 DEF Stale
<1>7. (x.stamp = <<a, b>>) <=> (x.stamp[1] = a /\ x.stamp[2] = b)
  BY <1>1
<1> QED
  BY <1>1, <1>4, <1>5, <1>6, <1>7

\* A command is written or skipped, and reported saved only when it is stored.
LEMMA CommitAddStep ==
  ASSUME FieldInv, NEW t \in Tabs, CommitAdd(t)
  PROVE  FieldInv'
<1>1. PICK x : x = Head(db[t])
  OBVIOUS
<1>2. /\ db[t] # << >> /\ x.kind = "add" /\ x.write # "undecided" /\ db' = Done(t)
      /\ UNCHANGED <<copies, failure, gen, context, flushes, server, bounds, history>>
      /\ stored' = IF x.write = "put" THEN stored \cup {x.id} ELSE stored
      /\ call' = [call EXCEPT ![x.id] = Told(t, x)]
  BY <1>1 DEF CommitAdd, Running
<1>3. FieldTypeOK /\ Calls /\ NoSilentLoss /\ x \in Transactions /\ RowOK(t, x)
  BY <1>1, <1>2, HeadRow DEF FieldInv
<1>4. IsWrite(x) /\ x.scope \in FieldScopes /\ x.write \in {"put", "get"} /\ x.id \in Ids
      /\ owner[x.id] = x.scope /\ call[x.id] = "open" /\ tabOf[x.id] = t
  BY <1>2, <1>3, WriteType, TxType DEF IsWrite, Writes, RowOK
<1>5. /\ db' \in [Tabs -> Seq(Transactions)] /\ db'[t] = Tail(db[t])
      /\ \A u \in Tabs \ {t} : db'[u] = db[u]
  BY <1>2, <1>3, DoneQueue
<1>6. /\ call'[x.id] \in {"saved", "refused"} /\ \A i \in Ids \ {x.id} : call'[i] = call[i]
      /\ call' \in [Ids -> {"none", "open", "saved", "refused", "dead"}]
      /\ call'[x.id] = "saved" => x.stamp = Stamp(t, x.scope)
  BY <1>2, <1>3, <1>4 DEF FieldTypeOK, Told
<1>7. call'[x.id] = "saved" => ~Stale(t, x) /\ x.id \in stored'
  <2>1. call'[x.id] = "saved" => ~Stale(t, x)
    BY <1>3, <1>4, <1>6, StampStale
  <2>2. x.write = "get" => Stale(t, x)
    BY <1>3, <1>4 DEF RowOK
  <2> QED
    BY <1>2, <1>4, <2>1, <2>2
<1>8. FieldTypeOK'
  BY <1>2, <1>3, <1>4, <1>5, <1>6 DEF FieldTypeOK, context, server, bounds, history
<1>9. Grows
  BY <1>2, <1>4, <1>6 DEF Grows, server, bounds, history
<1>10. Calls'
  <2>1. UNCHANGED <<receipts, count, prior, owner, stray>>
    BY <1>2 DEF server, history
  <2>2. \A i \in Ids : call'[i] # "none" => call[i] # "none"
    BY <1>4, <1>6
  <2>3. \A i \in stored' \cup stray' : i \in stored \cup stray \/ Known(i)'
    BY <1>2, <1>6, <2>1 DEF Known
  <2> QED
    BY <1>3, <1>8, <1>9, <2>1, <2>2, <2>3, CallsStep
<1>11. NoSilentLoss'
  <2>1. \A i \in Ids : call'[i] = "saved" => call[i] = "saved" \/ i \in stored'
    BY <1>6, <1>7
  <2>2. stored \subseteq stored'
    BY <1>2
  <2> QED
    BY <1>3, <1>9, <2>1, <2>2, LossStep
<1>12. t \notin cleanBy'[x.scope] \/ PendingClear(t, x.scope)'
  BY <1>1, <1>2, <1>4, <1>5, WritePending DEF history
<1>13. \A r \in FieldScopes : Present(r)' => r = x.scope \/ Present(r)
  BY <1>2, <1>4 DEF Present, MineIn, history
<1>14. \A r \in FieldScopes : Present(r)' => \/ t \notin cleanBy'[r] \/ PendingClear(t, r)'
                                             \/ Present(r) /\ ~(x.kind = "clear" /\ r \in x.which)
  BY <1>2, <1>12, <1>13
<1>15. /\ UNCHANGED <<gen, page, tabOf, owner>> /\ flushes' = flushes /\ cleanBy' = cleanBy
       /\ \A i \in Ids : call'[i] = call[i] \/ (x.kind = "add" /\ i = x.id)
  BY <1>2, <1>6 DEF context, history
<1> QED
  BY <1>1, <1>2, <1>3, <1>5, <1>7, <1>8, <1>9, <1>10, <1>11, <1>14, <1>15, PopStep

\* An erasure deletes both stores of its scopes, and knows every report of its
\* tab that it takes back.
LEMMA CommitClearStep ==
  ASSUME FieldInv, NEW t \in Tabs, CommitClear(t)
  PROVE  FieldInv'
<1>1. PICK x : x = Head(db[t])
  OBVIOUS
<1>2. PICK gone : gone = {i \in stored : owner[i] \in x.which}
  OBVIOUS
<1>3. /\ db[t] # << >> /\ x.kind = "clear" /\ db' = Done(t)
      /\ UNCHANGED <<failure, gen, context, flushes, call, server, bounds, owner, tabOf, prior, discarded, cleanBy>>
      /\ copies' = copies \ x.which /\ stored' = stored \ gone
      /\ erased' = erased \cup {i \in gone : i \in x.saved \/ tabOf[i] # t}
  BY <1>1, <1>2 DEF CommitClear, Running
<1>4. FieldTypeOK /\ Calls /\ NoSilentLoss /\ x \in Transactions /\ RowOK(t, x)
  BY <1>1, <1>3, HeadRow DEF FieldInv
<1>5. /\ db' \in [Tabs -> Seq(Transactions)] /\ db'[t] = Tail(db[t])
      /\ \A u \in Tabs \ {t} : db'[u] = db[u]
  BY <1>3, <1>4, DoneQueue
<1>6. FieldTypeOK'
  BY <1>2, <1>3, <1>4, <1>5 DEF FieldTypeOK, context, server, bounds
<1>7. Grows
  BY <1>3 DEF Grows, server, bounds
<1>8. Calls'
  BY <1>3, <1>4, <1>6, <1>7, CallsStep DEF server
<1>9. NoSilentLoss'
  <2>1. \A i \in stored : i \in stored' \/ i \in Gone' \/ call'[i] # "saved"
    BY <1>2, <1>3, <1>4 DEF RowOK, Gone, FieldTypeOK
  <2> QED
    BY <1>3, <1>4, <1>7, <2>1, LossStep
<1>10. \A r \in FieldScopes : Present(r)' => Present(r) /\ ~(x.kind = "clear" /\ r \in x.which)
  BY <1>2, <1>3 DEF Present, MineIn
<1>11. UNCHANGED <<gen, page, tabOf, owner>> /\ x.kind # "add"
  BY <1>3 DEF context
<1> QED
  BY <1>1, <1>3, <1>4, <1>5, <1>6, <1>7, <1>8, <1>9, <1>10, <1>11, PopStep

\* A flush that lists sees every command its own depend on, unless it is settled.
LEMMA CommitListStep ==
  ASSUME FieldInv, NEW t \in Tabs, CommitList(t)
  PROVE  FieldInv'
<1>1. PICK x : x = Head(db[t])
  OBVIOUS
<1>2. PICK s : s = x.scope
  OBVIOUS
<1>3. PICK g : g = [Idle EXCEPT !.pc = "loop", !.todo = MineIn(s, stored)]
  OBVIOUS
<1>4. /\ db[t] # << >> /\ x.kind = "list" /\ db' = Done(t)
      /\ UNCHANGED <<copies, stored, failure, gen, context, call, server, bounds, history>>
      /\ flushes' = [flushes EXCEPT ![t][s] = g]
  BY <1>1, <1>2, <1>3 DEF CommitList, Running
<1>5. FieldTypeOK /\ Calls /\ NoSilentLoss /\ x \in Transactions
  BY <1>1, <1>4, HeadRow DEF FieldInv
<1>6. s \in FieldScopes
  BY <1>2, <1>4, <1>5, TxType DEF Lists
<1>7. /\ db' \in [Tabs -> Seq(Transactions)] /\ db'[t] = Tail(db[t])
      /\ \A u \in Tabs \ {t} : db'[u] = db[u]
  BY <1>4, <1>5, DoneQueue
<1>8. MineIn(s, stored) \subseteq Ids
  BY <1>5 DEF MineIn, FieldTypeOK
<1>9. g \in FlushRows /\ g.pc = "loop" /\ g.todo = MineIn(s, stored)
  BY <1>3, <1>8 DEF Idle, FlushRows
<1>10. FlushOK(g)
  <2>1. ASSUME NEW j \in g.todo, NEW i \in prior[j] PROVE i \in Gone \/ i \in g.todo
    <3>1. j \in Ids /\ owner[j] = s /\ i \in Ids
      BY <1>5, <1>8, <1>9 DEF MineIn, FieldTypeOK
    <3>2. owner[i] = s /\ call[i] = "saved"
      BY <1>5, <3>1 DEF Calls
    <3> QED
      BY <1>5, <1>9, <3>1, <3>2 DEF NoSilentLoss, Gone, MineIn
  <2>2. \A j \in g.todo : Known(j)
    BY <1>5, <1>8, <1>9 DEF Calls, MineIn
  <2> QED
    BY <1>9, <2>1, <2>2 DEF FlushOK
<1>11. FlushOK(g)'
  BY <1>4, <1>10, FlushStays DEF server, history
<1>12. /\ flushes' \in [Tabs -> [FieldScopes -> FlushRows]] /\ flushes'[t][s] = g
       /\ \A r \in FieldScopes \ {s} : flushes'[t][r] = flushes[t][r]
       /\ \A u \in Tabs \ {t} : flushes'[u] = flushes[u]
  BY <1>4, <1>5, <1>6, <1>9 DEF FieldTypeOK
<1>13. FieldTypeOK'
  BY <1>4, <1>5, <1>7, <1>12 DEF FieldTypeOK, context, server, bounds, history
<1>14. Grows
  BY <1>4 DEF Grows, server, bounds, history
<1>15. Calls' /\ NoSilentLoss'
  BY <1>4, <1>5 DEF Calls, Known, Ready, Gone, NoSilentLoss, server, history
<1>16. \A r \in FieldScopes : \/ flushes'[t][r] = flushes[t][r]
                              \/ x.kind \in {"list", "delete", "mark"} /\ r = x.scope /\ FlushOK(flushes[t][r])'
  <2>1. FlushOK(flushes[t][s])'
    BY <1>11, <1>12 DEF FlushOK, Known, Ready, Gone
  <2> QED
    BY <1>2, <1>4, <1>12, <2>1
<1>17. \A r \in FieldScopes : Present(r)' => Present(r) /\ ~(x.kind = "clear" /\ r \in x.which)
  BY <1>4 DEF Present, MineIn, history
<1>18. UNCHANGED <<gen, page, tabOf, owner>> /\ call' = call /\ cleanBy' = cleanBy /\ x.kind # "add"
  BY <1>4 DEF context, history
<1>19. db[t] # << >> /\ x.kind \in {"list", "delete", "mark"}
  BY <1>4
<1>20. db'[t] = Tail(db[t]) /\ \A u \in Tabs \ {t} : db'[u] = db[u] /\ flushes'[u] = flushes[u]
  BY <1>7, <1>12
<1> QED
  BY <1>1, <1>5, <1>13, <1>14, <1>15, <1>16, <1>17, <1>18, <1>19, <1>20, PopStep

\* The row that is deleted has its receipt.
LEMMA CommitDeleteStep ==
  ASSUME FieldInv, NEW t \in Tabs, CommitDelete(t)
  PROVE  FieldInv'
<1>1. PICK x : x = Head(db[t])
  OBVIOUS
<1>2. PICK s : s = x.scope
  OBVIOUS
<1>3. /\ db[t] # << >> /\ x.kind = "delete" /\ db' = Done(t) /\ stored' = stored \ {x.id}
      /\ UNCHANGED <<copies, failure, gen, context, call, server, bounds, history>>
      /\ flushes' = [flushes EXCEPT ![t][s].pc = "loop"]
  BY <1>1, <1>2 DEF CommitDelete, Running
<1>4. FieldTypeOK /\ Calls /\ NoSilentLoss /\ x \in Transactions /\ RowOK(t, x)
  BY <1>1, <1>3, HeadRow DEF FieldInv
<1>5. s \in FieldScopes /\ x.id \in receipts /\ flushes[t][s].pc = "store" /\ flushes[t][s].item = x.id
  BY <1>2, <1>3, <1>4, TxType DEF Deletes, RowOK
<1>6. PICK f : f = flushes[t][s]
  OBVIOUS
<1>7. PICK g : g = [f EXCEPT !.pc = "loop"]
  OBVIOUS
<1>8. f \in FlushRows /\ FlushOK(f)
  BY <1>4, <1>5, <1>6 DEF FieldInv, FieldTypeOK
<1>9. g \in FlushRows /\ g.pc = "loop" /\ g.todo = f.todo
  BY <1>7, <1>8 DEF FlushRows
<1>10. FlushOK(g)
  BY <1>5, <1>6, <1>8, <1>9 DEF FlushOK, Gone
<1>11. FlushOK(g)'
  BY <1>3, <1>10, FlushStays DEF server, history
<1>12. /\ flushes' \in [Tabs -> [FieldScopes -> FlushRows]] /\ flushes'[t][s] = g
       /\ \A r \in FieldScopes \ {s} : flushes'[t][r] = flushes[t][r]
       /\ \A u \in Tabs \ {t} : flushes'[u] = flushes[u]
  BY <1>3, <1>4, <1>5, <1>6, <1>7, <1>9 DEF FieldTypeOK
<1>13. /\ db' \in [Tabs -> Seq(Transactions)] /\ db'[t] = Tail(db[t])
       /\ \A u \in Tabs \ {t} : db'[u] = db[u]
  BY <1>3, <1>4, DoneQueue
<1>14. FieldTypeOK'
  BY <1>3, <1>4, <1>12, <1>13 DEF FieldTypeOK, context, server, bounds, history
<1>15. Grows
  BY <1>3 DEF Grows, server, bounds, history
<1>16. Calls'
  BY <1>3, <1>4, <1>14, <1>15, CallsStep DEF server, history
<1>17. NoSilentLoss'
  BY <1>3, <1>4, <1>5, <1>15, LossStep DEF Gone, server
<1>18. \A r \in FieldScopes : \/ flushes'[t][r] = flushes[t][r]
                              \/ x.kind \in {"list", "delete", "mark"} /\ r = x.scope /\ FlushOK(flushes[t][r])'
  <2>1. FlushOK(flushes[t][s])'
    BY <1>11, <1>12 DEF FlushOK, Known, Ready, Gone
  <2> QED
    BY <1>2, <1>3, <1>12, <2>1
<1>19. \A r \in FieldScopes : Present(r)' => Present(r) /\ ~(x.kind = "clear" /\ r \in x.which)
  BY <1>3 DEF Present, MineIn, history
<1>20. UNCHANGED <<gen, page, tabOf, owner>> /\ call' = call /\ cleanBy' = cleanBy /\ x.kind # "add"
  BY <1>3 DEF context, history
<1>21. db[t] # << >> /\ x.kind \in {"list", "delete", "mark"}
  BY <1>3
<1>22. db'[t] = Tail(db[t]) /\ \A u \in Tabs \ {t} : db'[u] = db[u] /\ flushes'[u] = flushes[u]
  BY <1>13, <1>12
<1> QED
  BY <1>1, <1>4, <1>14, <1>15, <1>16, <1>17, <1>18, <1>19, <1>20, <1>21, <1>22, PopStep

\* A failure is noted on a row that is there, and the flush ends.
LEMMA CommitMarkStep ==
  ASSUME FieldInv, NEW t \in Tabs, CommitMark(t)
  PROVE  FieldInv'
<1>1. PICK x : x = Head(db[t])
  OBVIOUS
<1>2. PICK s : s = x.scope
  OBVIOUS
<1>3. /\ db[t] # << >> /\ x.kind = "mark" /\ db' = Done(t) /\ stored' = stored
      /\ UNCHANGED <<copies, gen, context, call, server, bounds, history>>
      /\ flushes' = [flushes EXCEPT ![t][s] = Idle]
      /\ failure' = IF x.id \in stored THEN [failure EXCEPT ![x.id] = x.status] ELSE failure
  BY <1>1, <1>2 DEF CommitMark, Marked, Running
<1>4. FieldTypeOK /\ Calls /\ NoSilentLoss /\ x \in Transactions
  BY <1>1, <1>3, HeadRow DEF FieldInv
<1>5. s \in FieldScopes /\ x.id \in Ids /\ x.status \in {"retry", "rejected"}
  BY <1>2, <1>3, <1>4, TxType DEF Marks
<1>6. /\ flushes' \in [Tabs -> [FieldScopes -> FlushRows]] /\ flushes'[t][s] = Idle
      /\ \A r \in FieldScopes \ {s} : flushes'[t][r] = flushes[t][r]
      /\ \A u \in Tabs \ {t} : flushes'[u] = flushes[u]
  BY <1>3, <1>4, <1>5, IdleRow DEF FieldTypeOK
<1>7. /\ db' \in [Tabs -> Seq(Transactions)] /\ db'[t] = Tail(db[t])
      /\ \A u \in Tabs \ {t} : db'[u] = db[u]
  BY <1>3, <1>4, DoneQueue
<1>8. failure' \in [Ids -> {"none", "retry", "rejected"}]
  BY <1>3, <1>4, <1>5 DEF FieldTypeOK
<1>9. FieldTypeOK'
  BY <1>3, <1>4, <1>6, <1>7, <1>8 DEF FieldTypeOK, context, server, bounds, history
<1>10. Grows
  BY <1>3 DEF Grows, server, bounds, history
<1>11. Calls' /\ NoSilentLoss'
  BY <1>3, <1>4 DEF Calls, Known, Ready, Gone, NoSilentLoss, server, history
<1>12. \A r \in FieldScopes : \/ flushes'[t][r] = flushes[t][r]
                              \/ x.kind \in {"list", "delete", "mark"} /\ r = x.scope /\ FlushOK(flushes[t][r])'
  BY <1>2, <1>3, <1>6, IdleRow DEF FlushOK
<1>13. \A r \in FieldScopes : Present(r)' => Present(r) /\ ~(x.kind = "clear" /\ r \in x.which)
  BY <1>3 DEF Present, MineIn, history
<1>14. UNCHANGED <<gen, page, tabOf, owner>> /\ call' = call /\ cleanBy' = cleanBy /\ x.kind # "add"
  BY <1>3 DEF context, history
<1>15. db[t] # << >> /\ x.kind \in {"list", "delete", "mark"}
  BY <1>3
<1>16. db'[t] = Tail(db[t]) /\ \A u \in Tabs \ {t} : db'[u] = db[u] /\ flushes'[u] = flushes[u]
  BY <1>7, <1>6
<1> QED
  BY <1>1, <1>4, <1>9, <1>10, <1>11, <1>12, <1>13, <1>14, <1>15, <1>16, PopStep

\* The row to discard is read.
LEMMA CommitCheckStep ==
  ASSUME FieldInv, NEW t \in Tabs, CommitCheck(t)
  PROVE  FieldInv'
<1>1. PICK x : x = Head(db[t])
  OBVIOUS
<1>2. PICK y : y = [kind |-> "drop", id |-> x.id]
  OBVIOUS
<1>3. /\ db[t] # << >> /\ x.kind = "check" /\ (db' = Done(t) \/ db' = Then(t, y))
      /\ UNCHANGED <<copies, stored, failure, gen, context, flushes, call, server, bounds, history>>
  BY <1>1, <1>2 DEF CommitCheck, Running
<1>4. FieldTypeOK /\ Calls /\ NoSilentLoss /\ x \in Transactions
  BY <1>1, <1>3, HeadRow DEF FieldInv
<1>5. y \in Transactions /\ y.kind = "drop"
  <2>1. x.id \in Ids
    BY <1>3, <1>4, TxType DEF Checks
  <2> QED
    BY <1>2, <2>1 DEF Transactions, Checks
<1>6. /\ db' \in [Tabs -> Seq(Transactions)] /\ (db'[t] = Tail(db[t]) \/ db'[t] = Append(Tail(db[t]), y))
      /\ \A u \in Tabs \ {t} : db'[u] = db[u]
  BY <1>3, <1>4, <1>5, DoneQueue
<1>7. FieldTypeOK'
  BY <1>3, <1>4, <1>6 DEF FieldTypeOK, context, server, bounds, history
<1>8. Grows
  BY <1>3 DEF Grows, server, bounds, history
<1>9. Calls' /\ NoSilentLoss'
  BY <1>3, <1>4 DEF Calls, Known, Ready, Gone, NoSilentLoss, server, history
<1>10. RowOK(t, y)'
  BY <1>5 DEF RowOK, IsWrite
<1>11. \A r \in FieldScopes : Present(r)' => Present(r) /\ ~(x.kind = "clear" /\ r \in x.which)
  BY <1>3 DEF Present, MineIn, history
<1>12. /\ UNCHANGED <<gen, page, tabOf, owner>> /\ flushes' = flushes /\ call' = call /\ cleanBy' = cleanBy
       /\ x.kind # "add"
  BY <1>3 DEF context, history
<1> QED
  BY <1>1, <1>3, <1>5, <1>6, <1>7, <1>8, <1>9, <1>10, <1>11, <1>12, PopStep

\* The row is discarded.
LEMMA CommitDropStep ==
  ASSUME FieldInv, NEW t \in Tabs, CommitDrop(t)
  PROVE  FieldInv'
<1>1. PICK x : x = Head(db[t])
  OBVIOUS
<1>2. /\ db[t] # << >> /\ x.kind = "drop" /\ db' = Done(t)
      /\ UNCHANGED <<copies, failure, gen, context, flushes, call, server, bounds, owner, tabOf, prior, erased, cleanBy>>
      /\ stored' = stored \ {x.id}
      /\ discarded' = IF x.id \in stored THEN discarded \cup {x.id} ELSE discarded
  BY <1>1 DEF CommitDrop, Running
<1>3. FieldTypeOK /\ Calls /\ NoSilentLoss /\ x \in Transactions
  BY <1>1, <1>2, HeadRow DEF FieldInv
<1>4. x.id \in Ids
  BY <1>2, <1>3, TxType DEF Checks
<1>5. /\ db' \in [Tabs -> Seq(Transactions)] /\ db'[t] = Tail(db[t])
      /\ \A u \in Tabs \ {t} : db'[u] = db[u]
  BY <1>2, <1>3, DoneQueue
<1>6. FieldTypeOK'
  BY <1>2, <1>3, <1>4, <1>5 DEF FieldTypeOK, context, server, bounds
<1>7. Grows
  BY <1>2 DEF Grows, server, bounds
<1>8. Calls'
  BY <1>2, <1>3, <1>6, <1>7, CallsStep DEF server
<1>9. NoSilentLoss'
  BY <1>2, <1>3, <1>7, LossStep DEF Gone
<1>10. \A r \in FieldScopes : Present(r)' => Present(r) /\ ~(x.kind = "clear" /\ r \in x.which)
  BY <1>2 DEF Present, MineIn
<1>11. UNCHANGED <<gen, page, tabOf, owner>> /\ x.kind # "add"
  BY <1>2 DEF context
<1> QED
  BY <1>1, <1>2, <1>3, <1>5, <1>6, <1>7, <1>8, <1>9, <1>10, <1>11, PopStep

\* A transaction that aborts changes no row; an erasure that aborts leaves its
\* tab among those that have not erased.
LEMMA AbortStep ==
  ASSUME FieldInv, NEW t \in Tabs, Abort(t)
  PROVE  FieldInv'
<1>1. PICK x : x = Head(db[t])
  OBVIOUS
<1>2. PICK y : y = [kind |-> "mark", id |-> x.id, scope |-> x.scope, status |-> "retry"]
  OBVIOUS
<1>3. /\ db[t] # << >> /\ faults' = faults + 1 /\ device' = device
      /\ call' = IF x.kind = "add" THEN [call EXCEPT ![x.id] = "refused"] ELSE call
      /\ UNCHANGED <<copies, stored, failure, gen, context, server, clears, owner, tabOf, prior, discarded, erased>>
  BY <1>1 DEF Abort, Fault
<1>4. FieldTypeOK /\ Calls /\ NoSilentLoss /\ x \in Transactions /\ RowOK(t, x)
  BY <1>1, <1>3, HeadRow DEF FieldInv
<1>5. \/ x.kind = "delete" /\ db' = Then(t, y) /\ flushes' = flushes
      \/ x.kind \in {"list", "mark"} /\ db' = Done(t) /\ flushes' = [flushes EXCEPT ![t][x.scope] = Idle]
      \/ x.kind \notin {"list", "delete", "mark"} /\ db' = Done(t) /\ flushes' = flushes
  BY <1>1, <1>2 DEF Abort
<1>6. /\ cleanBy' \in [FieldScopes -> SUBSET Tabs]
      /\ \A r \in FieldScopes : cleanBy'[r] \subseteq cleanBy[r]
      /\ \A r \in FieldScopes : x.kind = "clear" /\ r \in x.which => t \notin cleanBy'[r]
  <2>1. cleanBy' = Unclean(t, <<x>>)
    BY <1>1 DEF Abort
  <2>2. Len(<<x>>) = 1 /\ <<x>>[1] = x
    OBVIOUS
  <2>3. \A r \in FieldScopes : (\E k \in 1..Len(<<x>>) : <<x>>[k].kind = "clear" /\ r \in <<x>>[k].which)
                          <=> (x.kind = "clear" /\ r \in x.which)
    BY <2>2
  <2>4. cleanBy' = [r \in FieldScopes |-> IF x.kind = "clear" /\ r \in x.which THEN cleanBy[r] \ {t} ELSE cleanBy[r]]
    BY <2>1, <2>3 DEF Unclean
  <2> QED
    BY <1>4, <2>4 DEF FieldTypeOK
<1>7. x.kind = "add" => x.id \in Ids /\ call[x.id] = "open"
  BY <1>4 DEF RowOK
<1>8. /\ call' \in [Ids -> {"none", "open", "saved", "refused", "dead"}]
      /\ \A i \in Ids : call'[i] = call[i] \/ (x.kind = "add" /\ i = x.id /\ call[i] = "open" /\ call'[i] = "refused")
  BY <1>3, <1>4, <1>7 DEF FieldTypeOK
<1>9. \/ x.kind = "delete" /\ y \in Transactions /\ y.kind = "mark" /\ y.scope = x.scope /\ y.id = x.id
      \/ x.kind # "delete"
  <2>1. x.kind = "delete" => x.id \in Ids /\ x.scope \in FieldScopes
    BY <1>4, TxType DEF Deletes
  <2> QED
    BY <1>2, <2>1 DEF Transactions, Marks
<1>10. /\ db' \in [Tabs -> Seq(Transactions)] /\ \A u \in Tabs \ {t} : db'[u] = db[u]
       /\ x.kind # "delete" => db'[t] = Tail(db[t])
       /\ x.kind = "delete" => db'[t] = Append(Tail(db[t]), y)
  <2>1. CASE x.kind = "delete"
    BY <1>3, <1>4, <1>5, <1>9, <2>1, DoneQueue
  <2>2. CASE x.kind # "delete"
    BY <1>3, <1>4, <1>5, <2>2, DoneQueue
  <2> QED
    BY <2>1, <2>2
<1>11. /\ flushes' \in [Tabs -> [FieldScopes -> FlushRows]] /\ \A u \in Tabs \ {t} : flushes'[u] = flushes[u]
       /\ \A r \in FieldScopes : flushes'[t][r] = flushes[t][r]
                            \/ (x.kind \in {"list", "mark"} /\ r = x.scope /\ flushes'[t][r] = Idle)
  <2>1. CASE flushes' = flushes
    BY <1>4, <2>1 DEF FieldTypeOK
  <2>2. CASE x.kind \in {"list", "mark"} /\ flushes' = [flushes EXCEPT ![t][x.scope] = Idle]
    <3>1. x.scope \in FieldScopes
      BY <1>4, <2>2, TxType DEF Lists, Marks
    <3> QED
      BY <1>4, <2>2, <3>1, IdleRow DEF FieldTypeOK
  <2> QED
    BY <1>5, <2>1, <2>2
<1>12. FieldTypeOK'
  BY <1>3, <1>4, <1>6, <1>8, <1>10, <1>11 DEF FieldTypeOK, context, server
<1>13. Grows
  BY <1>3, <1>8 DEF Grows, server
<1>14. Calls'
  <2>1. UNCHANGED <<receipts, count, prior, owner, stray, stored>>
    BY <1>3 DEF server
  <2>2. \A i \in Ids : call'[i] # "none" => call[i] # "none"
    BY <1>8
  <2> QED
    BY <1>4, <1>12, <1>13, <2>1, <2>2, CallsStep
<1>15. NoSilentLoss'
  BY <1>3, <1>4, <1>8, <1>13, LossStep
<1>16. x.kind = "delete" => RowOK(t, y)'
  <2> SUFFICES ASSUME x.kind = "delete" PROVE RowOK(t, y)'
    OBVIOUS
  <2>1. flushes' = flushes /\ y.kind = "mark" /\ y.scope = x.scope /\ y.id = x.id
    BY <1>5, <1>9
  <2>2. flushes[t][x.scope].pc = "store" /\ flushes[t][x.scope].item = x.id
    BY <1>4 DEF RowOK
  <2> QED
    BY <2>1, <2>2 DEF RowOK, IsWrite
<1>17. \A r \in FieldScopes : \/ flushes'[t][r] = flushes[t][r]
                              \/ x.kind \in {"list", "delete", "mark"} /\ r = x.scope /\ FlushOK(flushes[t][r])'
  BY <1>11, IdleRow DEF FlushOK
<1>18. \A r \in FieldScopes : Present(r)' => \/ t \notin cleanBy'[r] \/ PendingClear(t, r)'
                                             \/ Present(r) /\ ~(x.kind = "clear" /\ r \in x.which)
  <2>1. \A r \in FieldScopes : Present(r)' => Present(r)
    BY <1>3 DEF Present, MineIn
  <2> QED
    BY <1>6, <2>1
<1>19. /\ UNCHANGED <<gen, page, tabOf, owner>>
       /\ \A u \in Tabs \ {t} : db'[u] = db[u] /\ flushes'[u] = flushes[u]
       /\ \A i \in Ids : call'[i] = call[i] \/ (x.kind = "add" /\ i = x.id)
       /\ x.kind = "add" /\ call'[x.id] = "saved" => ~Stale(t, x)
       /\ \A r \in FieldScopes : cleanBy'[r] \subseteq cleanBy[r]
  BY <1>3, <1>6, <1>7, <1>8, <1>10, <1>11 DEF context
<1>20. \E z \in Transactions :
         \/ db'[t] = Tail(db[t])
         \/ /\ db'[t] = Append(Tail(db[t]), z) /\ RowOK(t, z)' /\ z.kind \in {"drop", "mark"}
            /\ z.kind = "mark" => x.kind = "delete" /\ z.scope = x.scope
  <2>1. CASE x.kind = "delete"
    BY <1>9, <1>10, <1>16, <2>1
  <2>2. CASE x.kind # "delete"
    BY <1>4, <1>10, <2>2
  <2> QED
    BY <2>1, <2>2
<1>21. PICK z \in Transactions :
         \/ db'[t] = Tail(db[t])
         \/ /\ db'[t] = Append(Tail(db[t]), z) /\ RowOK(t, z)' /\ z.kind \in {"drop", "mark"}
            /\ z.kind = "mark" => x.kind = "delete" /\ z.scope = x.scope
  BY <1>20
<1>22. db[t] # << >>
  BY <1>3
<1> QED
  BY <1>1, <1>12, <1>13, <1>14, <1>15, <1>17, <1>18, <1>19, <1>21, <1>22, PopStep

\* A write that starts compares its stamp: it is skipped only when it is stale.
LEMMA StartWriteStep ==
  ASSUME FieldInv, NEW t \in Tabs, StartWrite(t)
  PROVE  FieldInv'
<1>1. PICK x : x = Head(db[t])
  OBVIOUS
<1>2. PICK w : w = Decided(t, x)
  OBVIOUS
<1>3. /\ db[t] # << >> /\ IsWrite(x) /\ db' = [db EXCEPT ![t] = <<w>> \o Tail(@)]
      /\ UNCHANGED <<copies, stored, failure, gen, context, flushes, call, server, bounds, history>>
  BY <1>1, <1>2 DEF StartWrite, Running, IsWrite
<1>4. /\ FieldTypeOK /\ Calls /\ NoSilentLoss /\ x \in Transactions /\ RowOK(t, x) /\ QueueOK(t) /\ x = db[t][1]
      /\ db[t] \in Seq(Transactions)
  BY <1>1, <1>3, HeadRow DEF FieldInv, FieldTypeOK
<1>5. /\ w \in Transactions /\ w.kind = x.kind /\ w.id = x.id /\ w.scope = x.scope /\ w.stamp = x.stamp
      /\ w.write = "get" => Stale(t, x)
  <2>1. x \in Writes
    BY <1>3, <1>4, TxType
  <2>2. w \in Writes /\ w.kind = x.kind /\ w.id = x.id /\ w.scope = x.scope /\ w.stamp = x.stamp
        /\ w.write = IF x.stamp = Stamp(t, x.scope) THEN "put" ELSE "get"
    BY <1>2, <2>1 DEF Decided, Writes
  <2>3. (x.stamp = Stamp(t, x.scope)) <=> ~Stale(t, x)
    BY <1>3, <1>4, StampStale
  <2> QED
    BY <2>2, <2>3 DEF Transactions
<1> DEFINE q == <<w>> \o Tail(db[t])
<1>6. /\ q \in Seq(Transactions) /\ Len(q) = Len(db[t]) /\ Len(q) \in Nat /\ q[1] = w
      /\ \A k \in 2..Len(db[t]) : q[k] = db[t][k]
  BY <1>3, <1>4, <1>5, Replaced
<1>7. db' \in [Tabs -> Seq(Transactions)] /\ db'[t] = q /\ \A u \in Tabs \ {t} : db'[u] = db[u]
  BY <1>3, <1>4, <1>6 DEF FieldTypeOK
<1> HIDE DEF q
<1>8. FieldTypeOK'
  BY <1>3, <1>4, <1>7 DEF FieldTypeOK, context, server, bounds, history
<1>9. Grows
  BY <1>3 DEF Grows, server, bounds, history
<1>10. Calls' /\ NoSilentLoss'
  BY <1>3, <1>4 DEF Calls, Known, Ready, Gone, NoSilentLoss, server, history
\* position by position the queue is the same but for the decision
<1>11. /\ Len(db'[t]) = Len(db[t])
       /\ \A k \in 1..Len(db[t]) : \/ db'[t][k] = db[t][k]
                                   \/ db'[t][k] = w /\ db[t][k] = x
  <2>1. \A k \in 1..Len(db[t]) : k = 1 \/ k \in 2..Len(db[t])
    BY <1>6
  <2> QED
    BY <1>4, <1>6, <1>7, <2>1
<1>12. \A k \in 1..Len(db[t]) : /\ db'[t][k].kind = db[t][k].kind
                                /\ db[t][k].kind = "clear" => db'[t][k] = db[t][k]
                                /\ IsWrite(db[t][k]) => db'[t][k].scope = db[t][k].scope
  BY <1>3, <1>5, <1>11 DEF IsWrite
<1>13. ASSUME NEW k \in 1..Len(db[t]) PROVE RowOK(t, db[t][k])'
  <2>1. PICK z : z = db'[t][k]
    OBVIOUS
  <2>2. RowOK(t, db[t][k]) /\ db[t][k] \in Transactions
    BY <1>4 DEF QueueOK
  <2>3. RowOK(t, w)
    BY <1>3, <1>4, <1>5 DEF RowOK, IsWrite, Stale
  <2>4. RowOK(t, z) /\ z \in Transactions
    BY <1>5, <1>11, <2>1, <2>2, <2>3
  <2>5. Holds(t, z)
    BY <1>3, <2>4 DEF Holds, RowOK, history
  <2>6. Later(t)
    BY <1>3, <1>4, GenSame
  <2>7. RowOK(t, z)'
    BY <1>4, <1>8, <1>9, <2>4, <2>5, <2>6, RowKept
  <2> QED
    BY <2>1, <2>7 DEF RowOK, IsWrite, Stale
<1>14. ASSUME NEW k \in 1..Len(db[t]), NEW j \in 1..Len(db[t]), k < j PROVE PairOK(t, db[t][k], db[t][j])'
  <2>1. PairOK(t, db[t][k], db[t][j])
    BY <1>4, <1>14 DEF QueueOK
  <2>2. PICK a : a = db'[t][k]
    OBVIOUS
  <2>3. PICK b : b = db'[t][j]
    OBVIOUS
  <2>4. PairOK(t, a, b)
    BY <1>3, <1>5, <1>11, <2>1, <2>2, <2>3 DEF PairOK, IsWrite, Stale
  <2> QED
    BY <1>3, <2>2, <2>3, <2>4 DEF PairOK, IsWrite, Stale
<1>15. ASSUME NEW k \in 1..Len(db[t]), IsWrite(db'[t][k]), t \in cleanBy'[db'[t][k].scope]
       PROVE  \E j \in 1..Len(db[t]) : k < j /\ db'[t][j].kind = "clear" /\ db'[t][k].scope \in db'[t][j].which
  <2>1. IsWrite(db[t][k]) /\ t \in cleanBy[db[t][k].scope] /\ db'[t][k].scope = db[t][k].scope
    BY <1>3, <1>12, <1>15 DEF IsWrite, history
  <2>2. PICK j \in 1..Len(db[t]) : k < j /\ db[t][j].kind = "clear" /\ db[t][k].scope \in db[t][j].which
    BY <1>4, <2>1 DEF QueueOK
  <2> QED
    BY <1>12, <2>1, <2>2
<1>16. QueueOK(t)'
  BY <1>11, <1>13, <1>14, <1>15 DEF QueueOK, IsWrite
<1>17. ASSUME NEW u \in Tabs PROVE Closed(u)' /\ (u # t => QueueOK(u)')
  <2>1. QueueOK(u) /\ Closed(u) /\ t \in device.tabs
    BY <1>1, <1>3, HeadRow DEF FieldInv
  <2>2. u # t => Apart(u)
    BY <1>3, <1>4, <1>7, <2>1, ApartTab DEF context, history
  <2> QED
    BY <1>3, <1>4, <1>7, <1>8, <1>9, <2>1, <2>2, QueueApart DEF Closed, context, bounds
<1>18. ASSUME NEW s \in FieldScopes PROVE PresentOK(s)'
  <2>1. ASSUME NEW u \in device.tabs, u \notin cleanBy[s] \/ PendingClear(u, s)
        PROVE  u \notin cleanBy'[s] \/ PendingClear(u, s)'
    <3>1. u \in Tabs
      BY <1>4, TabsOpen
    <3>2. PendingClear(u, s) => PendingClear(u, s)'
      BY <1>7, <1>11, <1>12, <3>1 DEF PendingClear
    <3> QED
      BY <1>3, <2>1, <3>2 DEF history
  <2>2. Present(s)' => Present(s)
    BY <1>3 DEF Present, MineIn, history
  <2>3. PresentOK(s) /\ device' = device
    BY <1>3 DEF FieldInv, bounds
  <2> QED
    BY <2>1, <2>2, <2>3, PresentStep
<1>19. ASSUME NEW u \in Tabs, NEW s \in FieldScopes PROVE FlushOK(flushes[u][s])'
  BY <1>3, <1>4, <1>9, FlushKept DEF FieldInv
<1> QED
  BY <1>8, <1>10, <1>16, <1>17, <1>18, <1>19 DEF FieldInv

\* A reloaded tab forgets its queue, and with it the erasures it still owed.
LEMMA ReloadStep ==
  ASSUME FieldInv, NEW t \in Tabs, Reload(t)
  PROVE  FieldInv'
<1>1. /\ FieldTypeOK /\ Calls /\ NoSilentLoss
      /\ t \in device.tabs /\ faults' = faults + 1 /\ device' = device
      /\ UNCHANGED <<copies, stored, failure, header, receipts, access, count, clears,
                     owner, tabOf, prior, discarded, erased>>
  BY DEF FieldInv, Reload, Fault
<1>2. /\ db' \in [Tabs -> Seq(Transactions)] /\ db'[t] = << >> /\ \A u \in Tabs \ {t} : db'[u] = db[u]
  BY <1>1 DEF Reload, FieldTypeOK
<1>3. /\ gen' \in [Tabs -> [actor : [Actors -> Nat], scope : [FieldScopes -> Nat]]]
      /\ page' \in [Tabs -> FieldScopes \cup {NoScope}]
      /\ \A u \in Tabs \ {t} : gen'[u] = gen[u] /\ page'[u] = page[u]
  <2>1. [actor |-> [a \in Actors |-> 0], scope |-> [s \in FieldScopes |-> 0]]
          \in [actor : [Actors -> Nat], scope : [FieldScopes -> Nat]]
    OBVIOUS
  <2> QED
    BY <1>1, <2>1 DEF Reload, FieldTypeOK
<1>4. /\ flushes' \in [Tabs -> [FieldScopes -> FlushRows]] /\ \A s \in FieldScopes : flushes'[t][s] = Idle
      /\ \A u \in Tabs \ {t} : flushes'[u] = flushes[u]
  <2>1. [s \in FieldScopes |-> Idle] \in [FieldScopes -> FlushRows]
    BY IdleRow
  <2> QED
    BY <1>1, <2>1 DEF Reload, FieldTypeOK
<1>5. /\ call' \in [Ids -> {"none", "open", "saved", "refused", "dead"}]
      /\ \A i \in Ids : call'[i] = call[i] \/ (tabOf[i] = t /\ call[i] = "open" /\ call'[i] = "dead")
  BY <1>1 DEF Reload, FieldTypeOK
<1>6. \A i \in stray' : i \in stray \/ (i \in Ids /\ Known(i) /\ Ready(i))
  <2> SUFFICES ASSUME NEW i \in stray', i \notin stray PROVE i \in Ids /\ Known(i) /\ Ready(i)
    OBVIOUS
  <2>1. PICK s \in FieldScopes : flushes[t][s].pc = "sent" /\ i = flushes[t][s].item
    BY DEF Reload
  <2>2. FlushOK(flushes[t][s])
    BY DEF FieldInv
  <2> QED
    BY <2>1, <2>2 DEF FlushOK
<1>7. /\ cleanBy' \in [FieldScopes -> SUBSET Tabs] /\ \A s \in FieldScopes : cleanBy'[s] \subseteq cleanBy[s]
      /\ \A s \in FieldScopes : PendingClear(t, s) => t \notin cleanBy'[s]
      /\ \A s \in FieldScopes, u \in Tabs \ {t} : u \in cleanBy[s] => u \in cleanBy'[s]
  <2>1. cleanBy' = [s \in FieldScopes |-> IF PendingClear(t, s) THEN cleanBy[s] \ {t} ELSE cleanBy[s]]
    BY DEF Reload, Unclean, PendingClear
  <2> QED
    BY <1>1, <2>1 DEF FieldTypeOK
<1>8. FieldTypeOK'
  <2>1. stray' \subseteq Ids
    BY <1>1, <1>6 DEF FieldTypeOK
  <2> QED
    BY <1>1, <1>2, <1>3, <1>4, <1>5, <1>7, <2>1 DEF FieldTypeOK
<1>9. Grows
  BY <1>1, <1>5 DEF Grows
<1>10. Calls'
  <2>1. UNCHANGED <<receipts, count, prior, owner>>
    BY <1>1
  <2>2. \A i \in Ids : call'[i] # "none" <=> call[i] # "none"
    BY <1>5
  <2>3. \A i \in Ids : (Known(i) => Known(i)') /\ (Ready(i) => Ready(i)')
    BY <1>1, <2>2 DEF Known, Ready, Gone
  <2>4. \A i \in stored' \cup stray' : i \in stored \cup stray \/ Known(i)'
    BY <1>1, <1>6, <2>3
  <2>5. \A i \in stray' : i \in stray \/ Ready(i)'
    BY <1>6, <2>3
  <2> QED
    BY <1>1, <1>8, <1>9, <2>1, <2>2, <2>4, <2>5, CallsStep
<1>11. NoSilentLoss'
  BY <1>1, <1>5, <1>9, LossStep
<1>12. QueueOK(t)'
  <2>1. \A k \in 1..Len(db'[t]) : FALSE
    BY <1>2
  <2> QED
    BY <2>1 DEF QueueOK
<1>13. ASSUME NEW u \in Tabs \ {t} PROVE QueueOK(u)' /\ Closed(u)'
  <2>1. QueueOK(u) /\ Closed(u)
    BY DEF FieldInv
  <2>2. Apart(u)
    <3>1. \A s \in FieldScopes : u \in cleanBy'[s] => u \in cleanBy[s]
      BY <1>7
    <3>2. \A i \in Ids : tabOf[i] = u /\ call[i] = "open" => call'[i] = "open"
      BY <1>5
    <3>3. \A i \in Ids : tabOf'[i] = u /\ call'[i] = "saved" =>
            tabOf[i] = u /\ call[i] = "saved" /\ owner'[i] = owner[i]
      BY <1>1, <1>5
    <3> QED
      BY <1>1, <1>2, <1>3, <1>4, <2>1, <3>1, <3>2, <3>3, ApartTab
  <2> QED
    BY <1>1, <1>2, <1>3, <1>4, <1>8, <1>9, <2>1, <2>2, QueueApart DEF Closed
<1>14. Closed(t)'
  BY <1>1 DEF Closed
<1>15. ASSUME NEW s \in FieldScopes PROVE PresentOK(s)'
  <2>1. ASSUME NEW u \in device.tabs, u \notin cleanBy[s] \/ PendingClear(u, s)
        PROVE  u \notin cleanBy'[s] \/ PendingClear(u, s)'
    <3>1. u \in Tabs
      BY <1>1, TabsOpen
    <3>2. u # t /\ PendingClear(u, s) => PendingClear(u, s)'
      BY <1>2, <3>1 DEF PendingClear
    <3>3. u \notin cleanBy[s] => u \notin cleanBy'[s]
      BY <1>7
    <3> QED
      BY <1>7, <2>1, <3>2, <3>3
  <2>2. Present(s)' => Present(s)
    BY <1>1 DEF Present, MineIn
  <2>3. PresentOK(s) /\ device' = device
    BY <1>1 DEF FieldInv
  <2> QED
    BY <2>1, <2>2, <2>3, PresentStep
<1>16. ASSUME NEW u \in Tabs, NEW s \in FieldScopes PROVE FlushOK(flushes[u][s])'
  <2>1. CASE u = t
    BY <1>4, <2>1, IdleRow DEF FlushOK
  <2>2. CASE u # t
    BY <1>1, <1>4, <1>9, <2>2, FlushKept DEF FieldInv
  <2> QED
    BY <2>1, <2>2
<1> QED
  BY <1>8, <1>10, <1>11, <1>12, <1>13, <1>14, <1>15, <1>16 DEF FieldInv

-----------------------------------------------------------------------------
(* The theorems.                                                            *)

\* The invariant holds at the start.
LEMMA FieldInitInvariant ==
  ASSUME FieldInit
  PROVE  FieldInv
<1>1. device \in Fleet /\ device.scope[2] \in FieldOrgs
  BY FleetAssumption DEF FieldInit, Devices, FieldScopes
<1>2. db \in [Tabs -> Seq(Transactions)] /\ \A t \in Tabs : db[t] = << >>
  BY DEF FieldInit
<1>3. flushes \in [Tabs -> [FieldScopes -> FlushRows]] /\ \A t \in Tabs, s \in FieldScopes : flushes[t][s] = Idle
  BY IdleRow DEF FieldInit
<1>4. gen \in [Tabs -> [actor : [Actors -> Nat], scope : [FieldScopes -> Nat]]]
  <2>1. [actor |-> [a \in Actors |-> 0], scope |-> [s \in FieldScopes |-> 0]]
          \in [actor : [Actors -> Nat], scope : [FieldScopes -> Nat]]
    OBVIOUS
  <2> QED
    BY <2>1 DEF FieldInit
<1>5. FieldTypeOK
  BY <1>1, <1>2, <1>3, <1>4 DEF FieldInit, FieldTypeOK
<1>6. ASSUME NEW t \in Tabs PROVE QueueOK(t) /\ Closed(t)
  <2>1. \A k \in 1..Len(db[t]) : FALSE
    BY <1>2
  <2>2. QueueOK(t)
    BY <2>1 DEF QueueOK
  <2> QED
    BY <1>2, <1>3, <2>2, IdleRow DEF FieldInit, Closed
<1>7. ASSUME NEW s \in FieldScopes PROVE PresentOK(s)
  BY DEF FieldInit, PresentOK, Present, MineIn
<1>8. ASSUME NEW t \in Tabs, NEW s \in FieldScopes PROVE FlushOK(flushes[t][s])
  BY <1>3, IdleRow DEF FlushOK
<1>9. Calls /\ NoSilentLoss
  BY DEF FieldInit, Calls, Known, NoSilentLoss
<1> QED
  BY <1>5, <1>6, <1>7, <1>8, <1>9 DEF FieldInv

\* And when nothing happens.
LEMMA FieldUnchanged ==
  ASSUME FieldInv, UNCHANGED fieldVars
  PROVE  FieldInv'
<1>1. /\ UNCHANGED <<copies, stored, db, gen, call, owner, tabOf, prior, discarded, erased, cleanBy, device>>
      /\ UNCHANGED <<receipts, flushes, page, failure, header, stray, access, count, clears, faults>>
  BY DEF fieldVars, store, context, server, bounds, history
<1>2. FieldTypeOK'
  BY <1>1 DEF FieldInv, FieldTypeOK
<1>3. \A t \in Tabs : Closed(t)'
  BY <1>1 DEF FieldInv, Closed
<1>4. Calls'
  BY <1>1 DEF FieldInv, Calls, Known, Ready, Gone
<1> QED
  BY <1>1, <1>2, <1>3, <1>4, CalmStep

\* Every end of a transaction keeps it.
LEMMA CommitStep ==
  ASSUME FieldInv, NEW t \in Tabs, Commit(t)
  PROVE  FieldInv'
  BY StartWriteStep, CommitCopyStep, CommitAddStep, CommitClearStep, CommitListStep, CommitDeleteStep,
     CommitMarkStep, CommitCheckStep, CommitDropStep DEF Commit

\* Every step keeps it.
LEMMA FieldNextInvariant ==
  ASSUME FieldInv, FieldNext
  PROVE  FieldInv'
<1>1. ASSUME NEW t \in Tabs, Commit(t) \/ Abort(t) \/ Reload(t) \/ saveCopy(t) \/ BeginFlush(t) PROVE FieldInv'
  BY <1>1, CommitStep, AbortStep, ReloadStep, SaveCopyStep, BeginFlushStep
<1>2. ASSUME NEW t \in Tabs, NEW leave \in BOOLEAN, clearActor(t, leave) \/ clearScope(t, leave) PROVE FieldInv'
  BY <1>2, ClearActorStep, ClearScopeStep
<1>3. ASSUME NEW t \in Tabs, NEW o \in FieldOrgs, Reselect(t, o) PROVE FieldInv'
  BY <1>3, ReselectStep
<1>4. ASSUME NEW t \in Tabs, NEW i \in Ids, enqueue(t, i) \/ discardRejected(t, i) PROVE FieldInv'
  BY <1>4, EnqueueStep, DiscardStep
<1>5. ASSUME NEW t \in Tabs, NEW s \in FieldScopes,
             \/ Enter(t, s) \/ EndFlush(t, s) \/ Send(t, s) \/ Serve(t, s) \/ Receive(t, s) \/ Lose(t, s)
      PROVE  FieldInv'
  BY <1>5, EnterStep, EndFlushStep, SendStep, ServeStep, ReceiveAnswerStep, LoseStep
<1>6. ASSUME NEW i \in Ids, ServeStray(i) PROVE FieldInv'
  BY <1>6, ServeStrayStep
<1>7. ASSUME NEW s \in FieldScopes, Reassign(s) PROVE FieldInv'
  BY <1>7, ReassignStep
<1> QED
  BY <1>1, <1>2, <1>3, <1>4, <1>5, <1>6, <1>7 DEF FieldNext

\* The invariant holds always.
LEMMA FieldInvariant == FieldSpec => []FieldInv
<1>1. FieldInv /\ [FieldNext]_fieldVars => FieldInv'
  BY FieldNextInvariant, FieldUnchanged
<1> QED
  BY <1>1, FieldInitInvariant, PTL DEF FieldSpec

\* The stores, queues, counters, flushes and calls of every tab stay well typed
\* (outbox.ts, FieldPage.tsx).
THEOREM FieldTypes == FieldSpec => []FieldTypeOK
<1>1. FieldInv => FieldTypeOK
  BY DEF FieldInv
<1> QED
  BY <1>1, FieldInvariant, PTL

\* Whatever tabs, reloads, aborts, lost replies and erasures do, a command the
\* page was told is saved is stored, received, discarded by the person or erased
\* by a later erasure (outbox.ts 90-106: the stamp is compared after the write).
THEOREM SavedIsNeverLost == FieldSpec => []NoSilentLoss
<1>1. FieldInv => NoSilentLoss
  BY DEF FieldInv
<1> QED
  BY <1>1, FieldInvariant, PTL

\* Once every tab of the device has erased a scope, no write opened before, late
\* reply or mark brings anything of it back (outbox.ts 121-180).
THEOREM ErasedScopesStayEmpty == FieldSpec => []ErasedStaysErased
<1>1. ASSUME FieldInv PROVE ErasedStaysErased
  <2> SUFFICES ASSUME NEW s \in FieldScopes, cleanBy[s] = device.tabs, ~Erasing(s)
               PROVE  s \notin copies /\ MineIn(s, stored) = {}
    BY DEF ErasedStaysErased
  <2>1. \A t \in device.tabs : t \in cleanBy[s] /\ ~PendingClear(t, s)
    BY <1>1, TabsOpen DEF FieldInv, Erasing, PendingClear
  <2>2. ~Present(s)
    BY <1>1, <2>1 DEF FieldInv, PresentOK
  <2> QED
    BY <2>2 DEF Present
<1>2. FieldInv => ErasedStaysErased
  BY <1>1
<1> QED
  BY <1>2, FieldInvariant, PTL

\* No flush of any tab, and no request that arrives after its client gave it up,
\* makes the server apply a command before those it depends on (outbox.ts 185-208).
THEOREM AppliedInCausalOrder == FieldSpec => []CausalOrder
<1>1. ASSUME FieldInv PROVE CausalOrder
  <2> SUFFICES ASSUME NEW j \in Ids, NEW i \in prior[j], count[j] > 0
               PROVE  count[i] > 0 \/ i \in discarded \cup erased
    BY DEF CausalOrder
  <2>1. i \in Ids
    BY <1>1 DEF FieldInv, FieldTypeOK
  <2>2. i \in Gone
    BY <1>1 DEF FieldInv, Calls, Ready
  <2> QED
    BY <1>1, <2>1, <2>2 DEF FieldInv, Calls, Gone
<1>2. FieldInv => CausalOrder
  BY <1>1
<1> QED
  BY <1>2, FieldInvariant, PTL

=============================================================================
