--------------------------- MODULE ConsoleProofs ---------------------------
(***************************************************************************)
(* Proofs about Console, for any tabs, flows, organizations and names, of  *)
(* the four programs at once: what a host answers, and which pages a tab   *)
(* of a web application gets to.                                           *)
(***************************************************************************)
EXTENDS Console, FiniteSetTheorems, WellFoundedInduction, TLAPS

-----------------------------------------------------------------------------
(* The inductive invariant *)

HostCalls == {"readBody", "gate", "member", "handler", "body"}
Dispatched == {"gate", "member", "handler"}

\* The calls that only the console's pages and forms make.
ConsoleCalls == {"signUp.email", "ensure", "list", "create", "setActive"}
WebCalls == ConsoleCalls \cup {"signIn.email", "signOut", "getSession"}

Roles == MemberRoles \cup {"user", "admin"}

Kinds == {None, "sign-in", "sign-up", "onboarding", "open", "sign-out", "request"}
Replies == {"waiting", "ok", "null", "user", "failed", "unheard"}
Subjects == (Orgs \cup {NoOrg}) \X Roles
Statuses == {0, 200, 404, UnauthenticatedError, UnauthorizedError, InternalError}

\* No function has thrown, and every slug that is to be made is a label.
FlowType ==
  [kind : Kinds, tab : Tabs \cup {None}, at : Calls \cup {None}, answer : Replies,
   org : Orgs \cup {NoOrg}, goal : Loaded \cup {None}, label : {TRUE}, route : Routes,
   subject : Subjects, status : Statuses]

\* The four parts of TypeOK: the session and the roles, the tabs, and the
\* functions in progress with their history.
AuthOK ==
  /\ app \in Web \cup Tenant \cup {"backoffice"} /\ account \in BOOLEAN
  /\ session \in {SignedOut} \cup {Signed(o) : o \in Orgs \cup {NoOrg}}
  /\ role \in [Orgs \cup {NoOrg} -> Roles]

PagesOK ==
  /\ page \in [Tabs -> Pages] /\ mode \in [Tabs -> {"sign-in", "sign-up"}]
  /\ alert \in [Tabs -> {None, "name", "organization name", "server"}]

NavigationOK == navigation \in [Tabs -> Flows \cup {None}]

FlowsOK == flow \in [Flows -> FlowType] /\ DOMAIN seen = Flows

\* The tabs of a host are nobody's; the console alone has the forms that
\* create an account or an organization, and the one that is shown for an
\* organization's name is the one that asks for it.
TabInv(t) ==
  /\ app \notin Web => page[t] = "sign-in"
  /\ app # "console-web" => mode[t] = "sign-in" /\ page[t] # "onboarding"
  /\ alert[t] = "organization name" => page[t] = "onboarding"

\* Where a function can be, by the program: a request in a host, anything
\* else in a tab of a web application, unless its document is gone.
PlaceInv(f) ==
  /\ flow[f].kind = "request" =>
       /\ app \notin Web /\ flow[f].at \in HostCalls
       /\ flow[f].goal = None /\ flow[f].route # None
  /\ flow[f].kind # "request" => flow[f].at \in WebCalls \cup {None}
  /\ flow[f].at \in WebCalls => app \in Web /\ (flow[f].answer # "unheard" => flow[f].tab \in Tabs)
  /\ flow[f].answer = "unheard" => flow[f].at \in Effects
  /\ flow[f].at \in ConsoleCalls => app = "console-web"
  /\ flow[f].at \in {"signIn.email", "ensure", "list", "getSession"} => ~Creator(f)
  /\ flow[f].at = "getSession" => flow[f].goal # None
  /\ flow[f].goal # None => app \in Web /\ flow[f].at \in {"getSession", "ensure", "list", "setActive"}
  /\ flow[f].goal = "onboarding" => app = "console-web"
  /\ Creator(f) => flow[f].goal = None

\* An answer that lets a navigation through was true when it was given.
GuardInv(f) ==
  flow[f].goal \in Behind =>
    /\ flow[f].at = "getSession" /\ app = "backoffice-web" /\ Ok(f) => <<NoOrg, "entitled">> \in seen[f]
    /\ flow[f].at = "ensure" /\ Ok(f) /\ flow[f].org # NoOrg => <<NoOrg, "entitled">> \in seen[f]
    /\ flow[f].at = "setActive" => flow[f].org # NoOrg /\ (Ok(f) => <<NoOrg, "entitled">> \in seen[f])

\* Past the dispatch of the console's host, and until it is answered, a
\* subject is nobody or was resolved, and only the guarded route is at the
\* gate.
SubjectInv(f) ==
  flow[f].kind = "request" /\ app = "console-api" /\ flow[f].at \in Dispatched /\ flow[f].route # "auth" =>
    /\ flow[f].subject = NoSubject \/ flow[f].subject \in seen[f]
    /\ flow[f].at \in {"gate", "member"} => flow[f].route = "list"

\* What has been answered.
AnswerInv(f) ==
  flow[f].at = "body" =>
    /\ flow[f].route = "health" =>
         flow[f].status \in {200, InternalError} \cup (IF app = "console-api" THEN {} ELSE {UnauthenticatedError, UnauthorizedError})
    /\ app = "console-api" /\ flow[f].route \in {"list", "listAlias"} =>
         /\ flow[f].status \in {200, UnauthenticatedError, UnauthorizedError, InternalError}
         /\ flow[f].status = 200 => flow[f].subject \in seen[f]

FlowInv(f) == PlaceInv(f) /\ GuardInv(f) /\ SubjectInv(f) /\ AnswerInv(f)

\* The tabs, and what is in them.
TabsInv == PagesOK /\ \A t \in Tabs : TabInv(t)

IInv ==
  /\ AuthOK /\ TabsInv /\ NavigationOK /\ FlowsOK
  /\ \A f \in Flows : FlowInv(f)

\* IInv has TypeOK in it.
LEMMA InvTyped == IInv => TypeOK
<1> SUFFICES ASSUME IInv PROVE TypeOK
  OBVIOUS
<1>1. ASSUME NEW f \in Flows
      PROVE  /\ flow[f].kind \in {None, "sign-in", "sign-up", "onboarding", "open", "sign-out", "request", "threw"}
             /\ flow[f].at \in Calls \cup {None} /\ flow[f].route \in Routes
             /\ flow[f].status \in {0, 200, 404, UnauthenticatedError, UnauthorizedError, InternalError}
  <2>1. flow[f] \in FlowType
    BY DEF IInv, FlowsOK
  <2> QED
    BY <2>1 DEF FlowType, Kinds, Statuses
<1> QED
  BY <1>1 DEF IInv, AuthOK, TabsInv, PagesOK, NavigationOK, TypeOK, Roles

-----------------------------------------------------------------------------
(* What the steps are made of *)

\* A set of numbers that is not empty has a least.
LEMMA LeastExists ==
  ASSUME NEW S, S \subseteq Nat, S # {}
  PROVE  \E n \in S : \A m \in S : n <= m
<1>1. PICK n \in S : \A m \in S : ~(<<m, n>> \in OpToRel(<, Nat))
  BY NatLessThanWellFounded, WFMin, Zenon
<1>2. ASSUME NEW m \in S PROVE n <= m
  <2>1. m \in Nat /\ n \in Nat
    OBVIOUS
  <2>2. <<m, n>> \notin OpToRel(<, Nat)
    BY <1>1, Zenon
  <2>3. ~(m < n)
    BY <2>1, <2>2 DEF OpToRel
  <2> QED
    BY <2>1, <2>3
<1> QED
  BY <1>2

\* The organization Better Auth answers with is one of them.
LEMMA LeastIn ==
  ASSUME NEW S, S \subseteq Orgs
  PROVE  Least(S) \in Orgs \cup {NoOrg}
<1>1. CASE S = {}
  BY <1>1 DEF Least
<1>2. CASE S # {}
  <2>1. \E o \in S : \A p \in S : o <= p
    BY <1>2, LeastExists, ConsoleBounds
  <2> QED
    BY <1>2, <2>1 DEF Least
<1> QED
  BY <1>1, <1>2

\* The function goes on: what was seen since it began stays seen.
Continues(g) ==
  \/ flow[g].kind = "request" /\ flow'[g].kind = "request" /\ flow'[g].goal = None
  \/ flow[g].goal \in Behind /\ flow'[g].goal \in Behind /\ flow'[g].kind # "request"

LEMMA SeenKept ==
  ASSUME Observe, NEW g \in Flows, Continues(g), FlowsOK, flow[g].kind = "request" => flow[g].goal = None
  PROVE  seen[g] \cup Facts' \subseteq seen'[g]
<1>1. seen'[g] = CASE flow'[g].kind # "request" /\ flow'[g].goal \notin Behind -> {}
                   [] OTHER -> (IF Begins(g) THEN {} ELSE seen[g]) \cup Facts'
  BY DEF Observe
<1>2. ~(flow'[g].kind # "request" /\ flow'[g].goal \notin Behind)
  BY DEF Continues
<1>3. ~Begins(g)
  BY DEF Continues, Begins, Behind, None
<1> QED
  BY <1>1, <1>2, <1>3

\* A function that does not move keeps its invariant.
LEMMA OtherInv ==
  ASSUME IInv, Observe, app' = app, NEW g \in Flows, flow'[g] = flow[g]
  PROVE  FlowInv(g)'
<1>1. FlowInv(g) /\ FlowsOK
  BY DEF IInv
<1>2. flow[g].kind = "request" => flow[g].goal = None
  BY <1>1 DEF FlowInv, PlaceInv
<1>3. ASSUME flow[g].kind = "request" \/ flow[g].goal \in Behind
      PROVE  seen[g] \subseteq seen'[g]
  <2>1. Continues(g)
    BY <1>2, <1>3 DEF Continues, Behind, None
  <2> QED
    BY <2>1, <1>1, <1>2, SeenKept
<1>4. PlaceInv(g)'
  BY <1>1 DEF FlowInv, PlaceInv, Creator
<1>5. GuardInv(g)'
  BY <1>1, <1>3 DEF FlowInv, GuardInv, Ok
<1>6. SubjectInv(g)'
  BY <1>1, <1>3 DEF FlowInv, SubjectInv
<1>7. AnswerInv(g)'
  <2>1. flow[g].at = "body" => flow[g].kind = "request"
    BY <1>1 DEF FlowInv, PlaceInv, WebCalls, ConsoleCalls, None
  <2> QED
    BY <2>1, <1>1, <1>3 DEF FlowInv, AnswerInv
<1> QED
  BY <1>4, <1>5, <1>6, <1>7 DEF FlowInv

\* A step of one function: it is enough to look at that one.
LEMMA MoveInv ==
  ASSUME IInv, Observe, app' = app, NEW f \in Flows, NEW r \in FlowType,
         flow' = [flow EXCEPT ![f] = r], AuthOK', TabsInv', NavigationOK', FlowInv(f)'
  PROVE  IInv'
<1>1. flow \in [Flows -> FlowType]
  BY DEF IInv, FlowsOK
<1>2. FlowsOK'
  BY <1>1 DEF FlowsOK, Observe
<1>3. ASSUME NEW g \in Flows PROVE FlowInv(g)'
  <2>1. CASE g = f
    BY <2>1
  <2>2. CASE g # f
    <3>1. flow'[g] = flow[g]
      BY <2>2, <1>1
    <3> QED
      BY <3>1, OtherInv
  <2> QED
    BY <2>1, <2>2
<1> QED
  BY <1>2, <1>3 DEF IInv

LEMMA IdleType == Idle \in FlowType
BY DEF Idle, FlowType, Kinds, Replies, Subjects, Statuses, None, NoOrg, NoSubject, Roles, MemberRoles, Routes

\* A function that is over.
LEMMA IdleInv ==
  ASSUME NEW f \in Flows, flow'[f] = Idle
  PROVE  FlowInv(f)'
<1>1. /\ flow'[f].kind = None /\ flow'[f].at = None /\ flow'[f].goal = None
  BY DEF Idle
<1>2. flow'[f].answer # "unheard"
  BY DEF Idle
<1> QED
  BY <1>1, <1>2 DEF FlowInv, PlaceInv, GuardInv, SubjectInv, AnswerInv, WebCalls, ConsoleCalls, None, Creator, Behind

LEMMA StaysInv ==
  ASSUME IInv, app' = app, Stays
  PROVE  TabsInv'
BY DEF IInv, TabsInv, PagesOK, TabInv, Stays

\* A tab of a web application shows a page of that application.
LEMMA MountInv ==
  ASSUME IInv, app' = app, app \in Web, NEW t \in Tabs, NEW goal \in Pages,
         goal = "onboarding" => app = "console-web", Mount(t, goal)
  PROVE  TabsInv'
<1>1. TabsInv
  BY DEF IInv
<1>2. /\ page' = [page EXCEPT ![t] = goal]
      /\ mode' = [mode EXCEPT ![t] = "sign-in"]
      /\ alert' = [alert EXCEPT ![t] = None]
  BY DEF Mount
<1>3. PagesOK'
  BY <1>1, <1>2 DEF TabsInv, PagesOK
<1>4. ASSUME NEW u \in Tabs PROVE TabInv(u)'
  <2>1. /\ page'[u] = IF u = t THEN goal ELSE page[u]
        /\ mode'[u] = IF u = t THEN "sign-in" ELSE mode[u]
        /\ alert'[u] = IF u = t THEN None ELSE alert[u]
    BY <1>1, <1>2 DEF TabsInv, PagesOK
  <2> QED
    BY <1>1, <2>1 DEF TabsInv, TabInv, None
<1> QED
  BY <1>3, <1>4 DEF TabsInv

LEMMA ShowInv ==
  ASSUME IInv, app' = app, app \in Web, NEW t \in Tabs, NEW goal \in Pages,
         goal = "onboarding" => app = "console-web", Show(t, goal)
  PROVE  TabsInv'
BY MountInv, StaysInv DEF Show

LEMMA AlertInv ==
  ASSUME IInv, app' = app, NEW t, NEW what \in {None, "name", "organization name", "server"},
         what = "organization name" => page[t] = "onboarding",
         alert' = [alert EXCEPT ![t] = what], UNCHANGED <<page, mode>>
  PROVE  TabsInv'
BY DEF IInv, TabsInv, PagesOK, TabInv

LEMMA AuthStays ==
  ASSUME IInv, app' = app, UNCHANGED auth
  PROVE  AuthOK'
BY DEF IInv, AuthOK, auth

\* A function returns, having left the tabs in order.
LEMMA EndsInv ==
  ASSUME IInv, Observe, app' = app, NEW f \in Flows, Ends(f), AuthOK', TabsInv'
  PROVE  IInv'
<1>1. flow' = [flow EXCEPT ![f] = Idle]
  BY DEF Ends
<1>2. flow'[f] = Idle
  BY <1>1 DEF IInv, FlowsOK
<1>3. NavigationOK'
  BY DEF Ends, IInv, NavigationOK
<1>4. FlowInv(f)'
  BY <1>2, IdleInv
<1> QED
  BY <1>1, <1>3, <1>4, IdleType, MoveInv

\* A function awaits an answer of Better Auth, about the same page as before.
LEMMA AwaitType ==
  ASSUME NEW f \in Flows, FlowsOK, NEW changes \in FlowType, NEW call \in Calls, Await(f, call, changes)
  PROVE  /\ flow'[f] \in FlowType
         /\ flow' = [flow EXCEPT ![f] = flow'[f]]
         /\ flow'[f].at = call /\ flow'[f].answer = "waiting"
         /\ flow'[f].org = IF call \in {"setActive", "member"} THEN changes.org ELSE NoOrg
         /\ flow'[f].kind = changes.kind /\ flow'[f].goal = changes.goal /\ flow'[f].tab = changes.tab
         /\ flow'[f].route = changes.route /\ flow'[f].subject = changes.subject
<1> DEFINE r == [changes EXCEPT !.at = call, !.answer = "waiting",
                   !.org = IF call \in {"setActive", "member"} THEN @ ELSE NoOrg]
<1>1. flow' = [flow EXCEPT ![f] = r] /\ flow \in [Flows -> FlowType]
  BY DEF Await, FlowsOK
<1>2. flow'[f] = r
  BY <1>1
<1>3. r \in FlowType
  BY DEF FlowType, Replies
<1>4. /\ r.at = call /\ r.answer = "waiting"
      /\ r.org = IF call \in {"setActive", "member"} THEN changes.org ELSE NoOrg
      /\ r.kind = changes.kind /\ r.goal = changes.goal /\ r.tab = changes.tab
      /\ r.route = changes.route /\ r.subject = changes.subject
  BY DEF FlowType
<1> HIDE DEF r
<1> QED
  BY <1>1, <1>2, <1>3, <1>4

\* A navigation of a web application begins, or comes to a page without a
\* guard.
LEMMA NavigateInv ==
  ASSUME IInv, Observe, app' = app, app \in Web, UNCHANGED auth, NEW f \in Flows,
         NEW changes \in FlowType, changes.tab \in Tabs,
         NEW goal \in Loaded \cup {"sign-in", "unauthorized"},
         goal = "onboarding" => app = "console-web",
         Navigate(f, goal, changes)
  PROVE  IInv'
<1>1. AuthOK'
  BY AuthStays
<1>2. CASE Guards(changes.tab, goal)
  <2>0. goal \in Loaded
    BY <1>2 DEF Guards
  <2> DEFINE opening == [changes EXCEPT !.kind = "open", !.goal = goal]
  <2>1. /\ navigation' = [navigation EXCEPT ![changes.tab] = f]
        /\ Await(f, "getSession", opening)
        /\ Stays
    BY <1>2 DEF Navigate
  <2>2. /\ opening \in FlowType
        /\ opening.kind = "open" /\ opening.goal = goal /\ opening.tab = changes.tab
    <3>1. opening \in FlowType
      BY <2>0 DEF FlowType, Kinds
    <3>2. opening.kind = "open" /\ opening.goal = goal /\ opening.tab = changes.tab
      BY <2>0 DEF FlowType
    <3> QED
      BY <3>1, <3>2
  <2> HIDE DEF opening
  <2>3. /\ flow'[f] \in FlowType
        /\ flow' = [flow EXCEPT ![f] = flow'[f]]
        /\ flow'[f].at = "getSession" /\ flow'[f].answer = "waiting"
        /\ flow'[f].kind = "open" /\ flow'[f].goal = goal /\ flow'[f].tab = changes.tab
    <3>1. FlowsOK /\ "getSession" \in Calls
      BY DEF IInv, Calls
    <3> QED
      BY <3>1, <2>1, <2>2, AwaitType
  <2>4. NavigationOK' /\ TabsInv'
    BY <2>1, StaysInv DEF IInv, NavigationOK
  <2>5. FlowInv(f)'
    BY <2>0, <2>3 DEF FlowInv, PlaceInv, GuardInv, SubjectInv, AnswerInv, WebCalls, ConsoleCalls, None, Creator, Ok,
                     Loaded, Behind
  <2> QED
    BY <1>1, <2>3, <2>4, <2>5, MoveInv
<1>3. CASE ~Guards(changes.tab, goal)
  <2>1. /\ navigation' = [navigation EXCEPT ![changes.tab] = None]
        /\ flow' = [flow EXCEPT ![f] = Idle]
        /\ Show(changes.tab, goal)
    BY <1>3 DEF Navigate
  <2>2. TabsInv'
    BY <2>1, <1>3, ShowInv DEF Pages
  <2>3. NavigationOK' /\ flow'[f] = Idle
    BY <2>1 DEF IInv, NavigationOK, FlowsOK
  <2>4. FlowInv(f)'
    BY <2>3, IdleInv
  <2> QED
    BY <1>1, <2>1, <2>2, <2>3, <2>4, IdleType, MoveInv
<1> QED
  BY <1>2, <1>3

LEMMA RedirectInv ==
  ASSUME IInv, Observe, app' = app, app \in Web, UNCHANGED auth, NEW f \in Flows,
         flow[f].tab \in Tabs,
         NEW goal \in Loaded \cup {"sign-in", "unauthorized"},
         goal = "onboarding" => app = "console-web",
         Redirect(f, goal)
  PROVE  IInv'
<1>1. flow[f] \in FlowType
  BY DEF IInv, FlowsOK
<1>2. CASE Navigate(f, goal, flow[f])
  BY <1>1, <1>2, NavigateInv
<1>3. CASE Ends(f) /\ Stays
  BY <1>3, EndsInv, StaysInv, AuthStays
<1> QED
  BY <1>2, <1>3 DEF Redirect

LEMMA CommitInv ==
  ASSUME IInv, Observe, app' = app, app \in Web, UNCHANGED auth, NEW f \in Flows,
         flow[f].tab \in Tabs, flow[f].goal \in Loaded,
         flow[f].goal = "onboarding" => app = "console-web", Commit(f)
  PROVE  IInv'
<1>1. TabsInv'
  BY ShowInv, StaysInv DEF Commit, Loaded, Pages
<1> QED
  BY <1>1, EndsInv, AuthStays DEF Commit

\* A function of the console goes on to ask about organizations.
LEMMA AskInv ==
  ASSUME IInv, Observe, app' = app, app = "console-web", UNCHANGED auth, UNCHANGED tabs,
         NEW f \in Flows, flow[f].tab \in Tabs, flow[f].kind # "request",
         NEW call \in {"ensure", "list", "setActive"},
         Creator(f) => call = "setActive",
         flow[f].goal # None /\ call = "setActive" => flow[f].org # NoOrg,
         Await(f, call, flow[f])
  PROVE  IInv'
<1>1. FlowsOK /\ flow[f] \in FlowType /\ call \in Calls /\ FlowInv(f)
  BY DEF IInv, FlowsOK, Calls
<1>2. /\ flow'[f] \in FlowType
      /\ flow' = [flow EXCEPT ![f] = flow'[f]]
      /\ flow'[f].at = call /\ flow'[f].answer = "waiting"
      /\ call = "setActive" => flow'[f].org = flow[f].org
      /\ flow'[f].kind = flow[f].kind /\ flow'[f].goal = flow[f].goal /\ flow'[f].tab = flow[f].tab
  BY <1>1, AwaitType
<1>3. PlaceInv(f)'
  BY <1>1, <1>2 DEF FlowInv, PlaceInv, Creator, WebCalls, ConsoleCalls, Web
<1>4. GuardInv(f)'
  BY <1>2 DEF GuardInv, Ok, Behind, None
<1>5. FlowInv(f)'
  BY <1>2, <1>3, <1>4 DEF FlowInv, SubjectInv, AnswerInv
<1>6. AuthOK' /\ TabsInv' /\ NavigationOK'
  BY AuthStays, StaysInv DEF tabs, Stays, IInv, NavigationOK
<1> QED
  BY <1>2, <1>5, <1>6, MoveInv

\* A form or a button whose call is on its way.
LEMMA AskedInv ==
  ASSUME NEW f \in Flows, app' = app, app \in Web,
         flow'[f].goal = None, flow'[f].tab \in Tabs,
         flow'[f].at \in {"signIn.email", "signUp.email", "signOut", "create"},
         flow'[f].kind # "request",
         flow'[f].at \in {"signUp.email", "create"} => app = "console-web",
         flow'[f].at = "signIn.email" => flow'[f].kind = "sign-in"
  PROVE  FlowInv(f)'
BY DEF FlowInv, PlaceInv, GuardInv, SubjectInv, AnswerInv, Creator, WebCalls, ConsoleCalls, None, Effects, Behind

LEMMA ComplainsInv ==
  ASSUME IInv, Observe, app' = app, UNCHANGED auth, NEW f \in Flows, Complains(f, "server")
  PROVE  IInv'
<1>1. /\ page' = page /\ mode' = mode /\ alert' \in [Tabs -> {None, "name", "organization name", "server"}]
      /\ \A t \in Tabs : alert'[t] \in {alert[t], "server"}
  BY DEF Complains, IInv, TabsInv, PagesOK
<1>2. TabsInv'
  BY <1>1 DEF IInv, TabsInv, PagesOK, TabInv
<1> QED
  BY <1>2, EndsInv, AuthStays DEF Complains

-----------------------------------------------------------------------------
(* The browser *)

LEMMA RequireSessionInv ==
  ASSUME IInv, Observe, NEW f \in Flows, requireSession(f)
  PROVE  IInv'
<1>1. app' = app /\ UNCHANGED auth
  BY DEF requireSession
<1>2. flow[f] \in FlowType /\ FlowInv(f) /\ flow[f].at = "getSession" /\ flow[f].answer # "unheard"
  BY DEF IInv, FlowsOK, requireSession, Has
<1>3. /\ app \in Web /\ flow[f].tab \in Tabs /\ flow[f].goal \in Loaded
      /\ app = "console-web" /\ flow[f].kind # "request" /\ ~Creator(f)
  BY <1>2 DEF FlowInv, PlaceInv, WebCalls, FlowType, requireSession, HostCalls, Has
<1>4. CASE Redirect(f, "sign-in")
  BY <1>1, <1>3, <1>4, RedirectInv
<1>5. CASE Await(f, "ensure", flow[f]) /\ UNCHANGED tabs
  BY <1>1, <1>3, <1>5, AskInv
<1>6. CASE Commit(f)
  BY <1>1, <1>3, <1>6, CommitInv
<1> QED
  BY <1>4, <1>5, <1>6 DEF requireSession

LEMMA RequireAdministratorInv ==
  ASSUME IInv, Observe, NEW f \in Flows, requireAdministrator(f)
  PROVE  IInv'
<1>1. app' = app /\ UNCHANGED auth
  BY DEF requireAdministrator
<1>2. flow[f] \in FlowType /\ FlowInv(f) /\ flow[f].at = "getSession" /\ flow[f].answer # "unheard"
  BY DEF IInv, FlowsOK, requireAdministrator, Has
<1>3. app \in Web /\ flow[f].tab \in Tabs /\ flow[f].goal \in Loaded /\ (flow[f].goal = "onboarding" => app = "console-web")
  BY <1>2 DEF FlowInv, PlaceInv, WebCalls, FlowType, requireAdministrator, Has
<1>4. CASE Commit(f)
  BY <1>1, <1>3, <1>4, CommitInv
<1>5. CASE Redirect(f, "unauthorized")
  BY <1>1, <1>3, <1>5, RedirectInv
<1>6. CASE Redirect(f, "sign-in")
  BY <1>1, <1>3, <1>6, RedirectInv
<1> QED
  BY <1>4, <1>5, <1>6 DEF requireAdministrator

LEMMA EnsuredInv ==
  ASSUME IInv, Observe, app' = app, UNCHANGED auth, NEW f \in Flows, NEW has \in BOOLEAN,
         app = "console-web", flow[f].tab \in Tabs, Ensured(f, has)
  PROVE  IInv'
<1>1. flow[f] \in FlowType
  BY DEF IInv, FlowsOK
<1>2. CASE flow[f].goal = None
  <2>1. Navigate(f, IF has THEN "sandboxes" ELSE "onboarding", flow[f])
    BY <1>2 DEF Ensured
  <2>2. CASE has
    BY <2>1, <2>2, <1>1, NavigateInv DEF Web, Loaded, Behind
  <2>3. CASE ~has
    BY <2>1, <2>3, <1>1, NavigateInv DEF Web, Loaded, Behind
  <2> QED
    BY <2>2, <2>3
<1>3. CASE flow[f].goal # None
  <2>1. flow[f].goal \in Loaded
    BY <1>1, <1>3 DEF FlowType
  <2>2. CASE Commit(f)
    BY <2>1, <2>2, CommitInv DEF Web
  <2>3. CASE Redirect(f, "onboarding")
    BY <2>3, RedirectInv DEF Web, Loaded
  <2> QED
    BY <1>3, <2>2, <2>3 DEF Ensured
<1> QED
  BY <1>2, <1>3

LEMMA EnsureInv ==
  ASSUME IInv, Observe, NEW f \in Flows, ensureActiveOrganization(f)
  PROVE  IInv'
<1>1. app' = app /\ UNCHANGED auth
  BY DEF ensureActiveOrganization
<1>2. /\ flow[f] \in FlowType /\ FlowInv(f) /\ flow[f].at \in {"ensure", "list", "setActive"}
      /\ flow[f].answer # "unheard"
  BY DEF IInv, FlowsOK, ensureActiveOrganization, Has
<1>3. /\ app = "console-web" /\ flow[f].tab \in Tabs /\ flow[f].kind # "request"
      /\ flow[f].at # "setActive" => ~Creator(f)
  BY <1>2 DEF FlowInv, PlaceInv, WebCalls, ConsoleCalls, HostCalls
<1>4. \/ Ensured(f, Ok(f)) \/ Ensured(f, FALSE)
      \/ Await(f, "list", flow[f]) /\ UNCHANGED tabs /\ ~Creator(f)
      \/ Await(f, "setActive", flow[f]) /\ UNCHANGED tabs /\ ~Creator(f) /\ flow[f].org # NoOrg
  BY <1>3 DEF ensureActiveOrganization, Has
<1>5. CASE Ensured(f, Ok(f))
  BY <1>1, <1>3, <1>5, EnsuredInv DEF Ok
<1>6. CASE Ensured(f, FALSE)
  BY <1>1, <1>3, <1>6, EnsuredInv
<1>7. CASE Await(f, "list", flow[f]) /\ UNCHANGED tabs /\ ~Creator(f)
  BY <1>1, <1>3, <1>7, AskInv
<1>8. CASE Await(f, "setActive", flow[f]) /\ UNCHANGED tabs /\ ~Creator(f) /\ flow[f].org # NoOrg
  BY <1>1, <1>3, <1>8, AskInv
<1> QED
  BY <1>4, <1>5, <1>6, <1>7, <1>8

LEMMA SignedInInv ==
  ASSUME IInv, Observe, NEW f \in Flows, signedIn(f)
  PROVE  IInv'
<1>1. app' = app /\ UNCHANGED auth
  BY DEF signedIn
<1>2. flow[f] \in FlowType /\ FlowInv(f) /\ AuthOK /\ flow[f].at = "signIn.email" /\ flow[f].answer # "unheard"
  BY DEF IInv, FlowsOK, signedIn, Has
<1>3. /\ app \in Web /\ flow[f].tab \in Tabs /\ flow[f].goal = None
      /\ flow[f].kind # "request" /\ ~Creator(f)
  BY <1>2 DEF FlowInv, PlaceInv, WebCalls, HostCalls, FlowType, Loaded
<1>4. CASE Complains(f, "server")
  BY <1>1, <1>4, ComplainsInv
<1>5. CASE app \in Tenant /\ Await(f, "ensure", flow[f]) /\ UNCHANGED tabs
  <2>1. app = "console-web"
    BY <1>3, <1>5 DEF Web, Tenant
  <2> QED
    BY <1>1, <1>3, <1>5, <2>1, AskInv
<1>6. CASE app \notin Tenant /\ Navigate(f, "overview", flow[f])
  <2>1. app = "backoffice-web"
    BY <1>3, <1>6 DEF Web, Tenant
  <2> QED
    BY <1>1, <1>2, <1>3, <1>6, <2>1, NavigateInv DEF Loaded, Behind
<1> QED
  BY <1>4, <1>5, <1>6 DEF signedIn

\* The slug is made, and create is on its way.
LEMMA CreatingInv ==
  ASSUME IInv, Observe, app' = app, UNCHANGED auth, app = "console-web", TabsInv', UNCHANGED navigation,
         NEW f \in Flows, NEW changes \in FlowType, changes.tab \in Tabs, changes.goal = None,
         changes.kind # "request", NEW label, label = TRUE,
         flow' = [flow EXCEPT ![f] = Creating(changes, label)]
  PROVE  IInv'
<1> DEFINE r == [changes EXCEPT !.at = "create", !.answer = "waiting", !.label = TRUE]
<1>1. AuthOK' /\ NavigationOK'
  BY AuthStays DEF IInv, NavigationOK
<1>2. flow' = [flow EXCEPT ![f] = r] /\ flow'[f] = r
  BY DEF IInv, FlowsOK, Creating
<1>3. r \in FlowType
  BY DEF FlowType, Replies, Calls
<1>4. r.at = "create" /\ r.kind = changes.kind /\ r.tab = changes.tab /\ r.goal = changes.goal
  BY DEF FlowType
<1> HIDE DEF r
<1>5. FlowInv(f)'
  BY <1>2, <1>4, AskedInv DEF Web
<1> QED
  BY <1>1, <1>2, <1>3, <1>5, MoveInv

LEMMA SignedUpInv ==
  ASSUME IInv, Observe, NEW f \in Flows, signedUp(f)
  PROVE  IInv'
<1>1. app' = app /\ UNCHANGED auth
  BY DEF signedUp
<1>2. flow[f] \in FlowType /\ FlowInv(f) /\ flow[f].at = "signUp.email" /\ flow[f].answer # "unheard"
  BY DEF IInv, FlowsOK, signedUp, Has
<1>3. /\ app = "console-web" /\ flow[f].tab \in Tabs /\ flow[f].goal = None /\ flow[f].label = TRUE
      /\ flow[f].kind # "request"
  BY <1>2 DEF FlowInv, PlaceInv, WebCalls, ConsoleCalls, HostCalls, FlowType, Loaded
<1>4. CASE Complains(f, "server")
  BY <1>1, <1>4, ComplainsInv
<1>5. CASE flow' = [flow EXCEPT ![f] = Creating(flow[f], flow[f].label)] /\ UNCHANGED tabs
  <2>1. TabsInv' /\ UNCHANGED navigation
    BY <1>1, <1>5, StaysInv DEF tabs, Stays
  <2> QED
    BY <1>1, <1>2, <1>3, <1>5, <2>1, CreatingInv
<1> QED
  BY <1>4, <1>5 DEF signedUp

LEMMA CreatedInv ==
  ASSUME IInv, Observe, NEW f \in Flows, created(f)
  PROVE  IInv'
<1>1. app' = app /\ UNCHANGED auth
  BY DEF created
<1>2. flow[f] \in FlowType /\ FlowInv(f) /\ flow[f].at = "create" /\ flow[f].answer # "unheard"
  BY DEF IInv, FlowsOK, created, Has
<1>3. app = "console-web" /\ flow[f].tab \in Tabs /\ flow[f].goal = None /\ flow[f].kind # "request"
  BY <1>2 DEF FlowInv, PlaceInv, WebCalls, ConsoleCalls, HostCalls, FlowType, Loaded
<1>4. CASE Complains(f, "server")
  BY <1>1, <1>4, ComplainsInv
<1>5. CASE Await(f, "setActive", flow[f]) /\ UNCHANGED tabs
  BY <1>1, <1>3, <1>5, AskInv
<1> QED
  BY <1>4, <1>5 DEF created

LEMMA ActivatedInv ==
  ASSUME IInv, Observe, NEW f \in Flows, activated(f)
  PROVE  IInv'
<1>1. app' = app /\ UNCHANGED auth
  BY DEF activated
<1>2. flow[f] \in FlowType /\ FlowInv(f) /\ flow[f].at = "setActive" /\ flow[f].answer # "unheard"
  BY DEF IInv, FlowsOK, activated, Has
<1>3. app = "console-web" /\ flow[f].tab \in Tabs
  BY <1>2 DEF FlowInv, PlaceInv, WebCalls, ConsoleCalls
<1>4. CASE Complains(f, "server")
  BY <1>1, <1>4, ComplainsInv
<1>5. CASE Navigate(f, "sandboxes", flow[f])
  BY <1>1, <1>2, <1>3, <1>5, NavigateInv DEF Web, Loaded, Behind
<1> QED
  BY <1>4, <1>5 DEF activated

LEMMA SignedOutInv ==
  ASSUME IInv, Observe, NEW f \in Flows, signedOut(f)
  PROVE  IInv'
<1>1. app' = app /\ UNCHANGED auth
  BY DEF signedOut
<1>2. flow[f] \in FlowType /\ FlowInv(f) /\ flow[f].at = "signOut" /\ flow[f].answer # "unheard"
  BY DEF IInv, FlowsOK, signedOut, Has
<1>3. app \in Web /\ flow[f].tab \in Tabs
  BY <1>2 DEF FlowInv, PlaceInv, WebCalls
<1> QED
  BY <1>1, <1>2, <1>3, NavigateInv DEF signedOut


-----------------------------------------------------------------------------
(* Better Auth *)

\* What a call does leaves the session and the roles in order.
LEMMA PerformsInv ==
  ASSUME IInv, app' = app, NEW f \in Flows, performs(f) \/ UNCHANGED auth
  PROVE  AuthOK'
<1>1. AuthOK /\ flow[f].org \in Orgs \cup {NoOrg}
  BY DEF IInv, FlowsOK, FlowType
<1>2. CASE UNCHANGED auth
  BY <1>2, AuthStays
<1>3. CASE performs(f)
  <2>1. CASE flow[f].at \in {"signIn.email", "signUp.email"}
    BY <1>1, <1>3, <2>1 DEF performs, AuthOK
  <2>2. CASE flow[f].at = "signOut"
    BY <1>1, <1>3, <2>2 DEF performs, AuthOK
  <2>3. CASE flow[f].at = "create"
    <3>1. role' = [role EXCEPT ![Least(Fresh)] = "owner"] /\ UNCHANGED <<account, session>>
      BY <1>3, <2>3 DEF performs
    <3> QED
      BY <1>1, <3>1 DEF AuthOK, Roles, MemberRoles
  <2>4. CASE flow[f].at = "setActive"
    BY <1>1, <1>3, <2>4 DEF performs, AuthOK
  <2>5. CASE flow[f].at \notin {"signIn.email", "signUp.email", "signOut", "create", "setActive"}
    <3>1. UNCHANGED auth
      BY <1>3, <2>5 DEF performs
    <3> QED
      BY <3>1, AuthStays
  <2> QED
    BY <2>1, <2>2, <2>3, <2>4, <2>5
<1> QED
  BY <1>2, <1>3

\* An answer comes: GuardInv is what it has to establish.
LEMMA AnswerComes ==
  ASSUME IInv, Observe, app' = app, UNCHANGED tabs, AuthOK', NEW f \in Flows,
         flow[f].at \in Calls \ {"readBody", "member", "handler", "body"},
         flow[f].answer = "waiting", NEW answer \in Replies, NEW org \in Orgs \cup {NoOrg}, Answer(f, answer, org),
         flow[f].at = "setActive" => org = flow[f].org,
         answer # "unheard",
         answer = "ok" /\ flow[f].at = "getSession" /\ app = "backoffice-web" => Entitled',
         answer = "ok" /\ flow[f].at = "ensure" /\ org # NoOrg => Entitled',
         answer = "ok" /\ flow[f].at = "setActive" /\ flow[f].goal \in Behind => Entitled'
  PROVE  IInv'
<1> DEFINE r == [flow[f] EXCEPT !.answer = answer, !.org = org]
<1>1. FlowsOK /\ flow[f] \in FlowType /\ flow \in [Flows -> FlowType] /\ FlowInv(f)
  BY DEF IInv, FlowsOK
<1>2. flow' = [flow EXCEPT ![f] = r] /\ flow'[f] = r
  BY <1>1 DEF Answer
<1>3. r \in FlowType
  BY <1>1 DEF FlowType
<1>4. /\ r.answer = answer /\ r.org = org
      /\ r.kind = flow[f].kind /\ r.tab = flow[f].tab /\ r.at = flow[f].at /\ r.goal = flow[f].goal
      /\ r.route = flow[f].route /\ r.subject = flow[f].subject /\ r.status = flow[f].status
  BY <1>1 DEF FlowType
<1> HIDE DEF r
<1>5. ASSUME flow[f].kind = "request" \/ flow[f].goal \in Behind
      PROVE  seen[f] \cup Facts' \subseteq seen'[f]
  <2>1. Continues(f) /\ (flow[f].kind = "request" => flow[f].goal = None)
    BY <1>1, <1>2, <1>4, <1>5 DEF Continues, FlowInv, PlaceInv, Behind, None
  <2> QED
    BY <2>1, <1>1, SeenKept
<1>6. PlaceInv(f)'
  BY <1>1, <1>2, <1>4 DEF FlowInv, PlaceInv, Creator
<1>7. GuardInv(f)'
  <2> SUFFICES ASSUME flow[f].goal \in Behind
               PROVE  GuardInv(f)'
    BY <1>2, <1>4 DEF GuardInv
  <2>1. app \in Web
    BY <1>1 DEF FlowInv, PlaceInv, Behind, None
  <2>2. Entitled' => <<NoOrg, "entitled">> \in seen'[f]
    BY <1>5, <2>1 DEF Facts
  <2> QED
    BY <1>1, <1>2, <1>4, <2>2 DEF GuardInv, FlowInv, Ok
<1>8. SubjectInv(f)'
  BY <1>1, <1>2, <1>4, <1>5 DEF FlowInv, SubjectInv
<1>9. FlowInv(f)'
  BY <1>2, <1>4, <1>6, <1>7, <1>8 DEF FlowInv, AnswerInv
<1>10. TabsInv' /\ NavigationOK'
  BY StaysInv DEF tabs, Stays, IInv, NavigationOK
<1> QED
  BY <1>2, <1>3, <1>9, <1>10, MoveInv

LEMMA AuthServesInv ==
  ASSUME IInv, Observe, NEW f \in Flows, authServes(f)
  PROVE  IInv'
<1>1. /\ app' = app /\ UNCHANGED tabs
      /\ flow[f].at \in Calls \ {"readBody", "member", "handler", "body"} /\ flow[f].answer = "waiting"
  BY DEF authServes
<1>2. AuthOK'
  BY <1>1, PerformsInv DEF authServes
<1>3. FlowInv(f) /\ AuthOK /\ flow[f].org \in Orgs \cup {NoOrg}
  BY DEF IInv, FlowsOK, FlowType
<1>4. CASE Answer(f, "failed", flow[f].org)
  BY <1>1, <1>2, <1>3, <1>4, AnswerComes DEF Replies
<1>5. CASE performs(f) /\ answered(f)
  <2>1. CASE flow[f].at \in {"getSession", "ensure", "gate"}
    <3>1. UNCHANGED auth
      BY <1>5, <2>1 DEF performs
    <3>2. session.org \in Orgs \cup {NoOrg}
      BY <1>3 DEF AuthOK, Signed, SignedOut, NoOrg
    <3> DEFINE answer == CASE ~session.in -> "null"
                           [] app \notin Tenant /\ role[NoOrg] # "admin" -> "user"
                           [] OTHER -> "ok"
               org == IF flow[f].at = "getSession" THEN NoOrg ELSE session.org
    <3>3. Answer(f, answer, org) /\ org \in Orgs \cup {NoOrg} /\ (org # NoOrg => session.org # NoOrg)
      BY <1>5, <2>1, <3>2 DEF answered
    <3>4. /\ answer \in Replies \ {"unheard"}
          /\ answer = "ok" => session.in /\ (app \notin Tenant => role[NoOrg] = "admin")
      BY DEF Replies
    <3> HIDE DEF answer, org
    <3>5. answer = "ok" /\ flow[f].at = "getSession" /\ app = "backoffice-web" => Entitled'
      BY <1>1, <1>3, <3>1, <3>4 DEF Entitled, auth, FlowInv, PlaceInv, Tenant
    <3>6. answer = "ok" /\ flow[f].at = "ensure" /\ session.org # NoOrg => Entitled'
      BY <1>1, <1>3, <3>1, <3>4 DEF Entitled, auth, FlowInv, PlaceInv, Tenant, ConsoleCalls
    <3> QED
      BY <1>1, <1>2, <2>1, <3>3, <3>4, <3>5, <3>6, AnswerComes
  <2>2. CASE flow[f].at = "list"
    <3>1. Memberships \subseteq Orgs /\ Answer(f, "ok", Least(Memberships))
      BY <1>5, <2>2 DEF answered, Memberships
    <3>2. Least(Memberships) \in Orgs \cup {NoOrg}
      BY <3>1, LeastIn
    <3> QED
      BY <1>1, <1>2, <2>2, <3>1, <3>2, AnswerComes DEF Replies
  <2>3. CASE flow[f].at = "create"
    <3>1. Fresh \subseteq Orgs /\ Answer(f, "ok", Least(Fresh))
      BY <1>5, <2>3 DEF answered, Fresh
    <3>2. Least(Fresh) \in Orgs \cup {NoOrg}
      BY <3>1, LeastIn
    <3> QED
      BY <1>1, <1>2, <2>3, <3>1, <3>2, AnswerComes DEF Replies
  <2>4. CASE flow[f].at \in {"signIn.email", "signUp.email", "signOut", "setActive"}
    <3>1. Answer(f, "ok", flow[f].org)
      BY <1>5, <2>4 DEF answered
    <3>2. flow[f].at = "setActive" /\ flow[f].goal \in Behind => Entitled'
      <4> SUFFICES ASSUME flow[f].at = "setActive", flow[f].goal \in Behind PROVE Entitled'
        OBVIOUS
      <4>1. session' = Signed(flow[f].org) /\ flow[f].org # NoOrg /\ app \in Tenant
        BY <1>3, <1>5 DEF performs, FlowInv, PlaceInv, GuardInv, ConsoleCalls, Tenant
      <4> QED
        BY <1>1, <4>1 DEF Entitled, Signed
    <3> QED
      BY <1>1, <1>2, <1>3, <2>4, <3>1, <3>2, AnswerComes DEF Replies
  <2> QED
    BY <1>1, <2>1, <2>2, <2>3, <2>4 DEF Calls
<1> QED
  BY <1>4, <1>5 DEF authServes

LEMMA UnheardInv ==
  ASSUME IInv, Observe, NEW f \in Flows, unheard(f)
  PROVE  IInv'
<1>1. app' = app /\ UNCHANGED tabs /\ flow' = [flow EXCEPT ![f] = Idle]
  BY DEF unheard
<1>2. AuthOK'
  BY <1>1, PerformsInv DEF unheard
<1>3. TabsInv' /\ NavigationOK'
  BY <1>1, StaysInv DEF tabs, Stays, IInv, NavigationOK
<1>4. flow'[f] = Idle
  BY <1>1 DEF IInv, FlowsOK
<1> QED
  BY <1>1, <1>2, <1>3, <1>4, IdleInv, IdleType, MoveInv

LEMMA BrowserInv ==
  ASSUME IInv, Observe, NEW f \in Flows, Browser(f)
  PROVE  IInv'
BY RequireSessionInv, RequireAdministratorInv, EnsureInv, SignedInInv, SignedUpInv, CreatedInv, ActivatedInv,
   SignedOutInv, UnheardInv DEF Browser

LEMMA RejectsInv ==
  ASSUME IInv, Observe, NEW f \in Flows, rejects(f)
  PROVE  IInv'
<1>1. app' = app /\ Ends(f) /\ flow[f].kind # "request" /\ flow[f].at # None
  BY DEF rejects
<1>2. AuthOK'
  BY <1>1, PerformsInv DEF rejects
<1>3. app \in Web /\ flow[f].tab \in Tabs
  BY <1>1 DEF IInv, FlowInv, PlaceInv, rejects
<1>4. TabsInv'
  BY <1>1, <1>3, ShowInv, StaysInv DEF rejects, Pages
<1> QED
  BY <1>1, <1>2, <1>4, EndsInv

\* Other members, the operators and other tabs touch no function.
LEMMA ElsewhereInv ==
  ASSUME IInv, Observe, elsewhere
  PROVE  IInv'
<1>1. app' = app /\ account' = account /\ UNCHANGED tabs /\ flow' = flow
  BY DEF elsewhere
<1>2. AuthOK
  BY DEF IInv
<1>3. AuthOK'
  <2>1. CASE session' = SignedOut /\ UNCHANGED role
    BY <1>1, <1>2, <2>1 DEF AuthOK
  <2>2. CASE UNCHANGED session /\ \E o \in Orgs \cup {NoOrg}, r \in Roles : role' = [role EXCEPT ![o] = r]
    BY <1>1, <1>2, <2>2 DEF AuthOK
  <2>3. CASE UNCHANGED role /\ \E o \in Orgs \cup {NoOrg} : session' = Signed(o)
    BY <1>1, <1>2, <2>3 DEF AuthOK
  <2> QED
    BY <2>1, <2>2, <2>3 DEF elsewhere, Memberships, Roles, MemberRoles
<1>4. TabsInv' /\ NavigationOK' /\ FlowsOK'
  BY <1>1, StaysInv DEF tabs, Stays, IInv, NavigationOK, FlowsOK, Observe
<1>5. ASSUME NEW g \in Flows PROVE FlowInv(g)'
  BY <1>1, OtherInv
<1> QED
  BY <1>3, <1>4, <1>5 DEF IInv

LEMMA ToggleModeInv ==
  ASSUME IInv, Observe, NEW t \in Tabs, toggleMode(t)
  PROVE  IInv'
<1>1. /\ app' = app /\ UNCHANGED auth /\ page' = page /\ alert' = alert /\ navigation' = navigation /\ flow' = flow
      /\ app = "console-web"
      /\ mode' = [mode EXCEPT ![t] = IF mode[t] = "sign-in" THEN "sign-up" ELSE "sign-in"]
  BY DEF toggleMode
<1>2. AuthOK' /\ NavigationOK' /\ FlowsOK'
  BY <1>1, AuthStays DEF IInv, NavigationOK, FlowsOK, Observe
<1>3. TabsInv'
  BY <1>1 DEF IInv, TabsInv, PagesOK, TabInv, Web
<1>4. ASSUME NEW g \in Flows PROVE FlowInv(g)'
  BY <1>1, OtherInv
<1> QED
  BY <1>2, <1>3, <1>4 DEF IInv

-----------------------------------------------------------------------------
(* Names *)

\* A bounded set of numbers that is not empty has a greatest.
LEMMA GreatestExists ==
  ASSUME NEW b \in Nat, NEW S, S \subseteq 0..b, S # {}
  PROVE  \E n \in S : \A m \in S : m <= n
<1> DEFINE T == {b - n : n \in S}
<1>0. \A n \in S : n \in Nat /\ n <= b
  OBVIOUS
<1>1. T \subseteq Nat /\ T # {}
  <2>1. \A n \in S : b - n \in Nat
    BY <1>0
  <2> QED
    BY <2>1
<1>2. PICK k \in T : \A m \in T : k <= m
  BY <1>1, LeastExists
<1>3. PICK n \in S : k = b - n
  OBVIOUS
<1>4. ASSUME NEW m \in S PROVE m <= n
  <2>1. b - m \in T /\ m \in 0..b /\ n \in 0..b
    OBVIOUS
  <2> QED
    BY <1>2, <1>3, <2>1
<1> QED
  BY <1>4

\* What trim returns: a piece of the text, without blanks at its ends.
LEMMA TrimIs ==
  ASSUME NEW s \in Seq(Characters)
  PROVE  /\ trim(s) \in Seq(Characters)
         /\ trim(s) # <<>> => Head(trim(s)) \notin Blank
<1> DEFINE solid == {i \in DOMAIN s : s[i] \notin Blank}
           first == CHOOSE i \in solid : \A j \in solid : i <= j
           final == CHOOSE i \in solid : \A j \in solid : j <= i
<1>1. CASE solid = {}
  BY <1>1 DEF trim
<1>2. CASE solid # {}
  <2>1. Len(s) \in Nat /\ solid \subseteq 0..Len(s) /\ solid \subseteq Nat /\ solid \subseteq 1..Len(s)
    OBVIOUS
  <2>2. first \in solid /\ \A j \in solid : first <= j
    BY <1>2, <2>1, LeastExists
  <2>3. final \in solid /\ \A j \in solid : j <= final
    BY <1>2, <2>1, GreatestExists
  <2>4. trim(s) = SubSeq(s, first, final)
    BY <1>2 DEF trim
  <2> HIDE DEF first, final
  <2>5. first \in 1..Len(s) /\ final \in 1..Len(s) /\ s[first] \notin Blank /\ first <= final
    BY <2>1, <2>2, <2>3
  <2> HIDE DEF solid
  <2>6. /\ SubSeq(s, first, final) \in Seq(Characters)
        /\ SubSeq(s, first, final)[1] = s[first]
    BY <2>5
  <2> QED
    BY <2>4, <2>5, <2>6
<1> QED
  BY <1>1, <1>2

\* A text without blanks at its ends is trimmed already.
LEMMA TrimmedStays ==
  ASSUME NEW s \in Seq(Characters), s # <<>>, s[1] \notin Blank, s[Len(s)] \notin Blank
  PROVE  trim(s) = s
<1> DEFINE solid == {i \in DOMAIN s : s[i] \notin Blank}
           first == CHOOSE i \in solid : \A j \in solid : i <= j
           final == CHOOSE i \in solid : \A j \in solid : j <= i
<1>1. Len(s) \in Nat /\ Len(s) >= 1 /\ 1 \in solid /\ Len(s) \in solid /\ solid \subseteq 1..Len(s)
  OBVIOUS
<1>2. first = 1
  <2>1. first \in solid /\ \A j \in solid : first <= j
    BY <1>1
  <2> QED
    BY <1>1, <2>1
<1>3. final = Len(s)
  <2>1. final \in solid /\ \A j \in solid : j <= final
    BY <1>1
  <2> QED
    BY <1>1, <2>1
<1>4. trim(s) = SubSeq(s, first, final)
  BY <1>1 DEF trim
<1> HIDE DEF first, final
<1> QED
  BY <1>1, <1>2, <1>3, <1>4

\* The bounds of a length, one by one: what a range says of it.
LEMMA Between ==
  ASSUME NEW b \in Nat, NEW n \in Nat
  PROVE  n \in 1..b <=> 1 <= n /\ n <= b
OBVIOUS

\* Two texts joined.
LEMMA JoinIs ==
  ASSUME NEW S, NEW s \in Seq(S), NEW t \in Seq(S)
  PROVE  /\ s \o t \in Seq(S) /\ Len(s \o t) = Len(s) + Len(t)
         /\ \A i \in 1..Len(s) : (s \o t)[i] = s[i]
         /\ \A i \in 1..Len(t) : (s \o t)[Len(s) + i] = t[i]
         /\ \A i \in 1..Len(s \o t) : i \in 1..Len(s) \/ i - Len(s) \in 1..Len(t)
OBVIOUS

Suffix == <<Other, Lower, Space, Upper>> \o [i \in 1..11 |-> Lower]

\* What a sign-up adds to the user's name.
LEMMA SuffixIs ==
  /\ Suffix \in Seq(Characters \ {Tab}) /\ 1 <= Len(Suffix) /\ Len(Suffix) <= 15
  /\ Suffix[Len(Suffix)] = Lower
<1> DEFINE a == <<Other, Lower, Space, Upper>>
           b == [i \in 1..11 |-> Lower]
<1>1. a \in Seq(Characters \ {Tab}) /\ Len(a) <= 4 /\ 4 <= Len(a)
  BY DEF Characters, Other, Lower, Space, Upper, Tab
<1>2. b \in Seq(Characters \ {Tab}) /\ Len(b) <= 11 /\ 11 <= Len(b) /\ b[Len(b)] = Lower
  BY DEF Characters, Lower, Tab
<1>3. Suffix = a \o b
  BY DEF Suffix
<1> HIDE DEF a, b
<1>4. /\ a \o b \in Seq(Characters \ {Tab}) /\ Len(a \o b) = Len(a) + Len(b)
      /\ (a \o b)[Len(a) + Len(b)] = b[Len(b)]
  <2>1. Len(b) \in 1..Len(b)
    BY <1>2
  <2> QED
    BY <1>1, <1>2, <2>1, JoinIs
<1> QED
  BY <1>1, <1>2, <1>3, <1>4

LEMMA OwnersNameIs ==
  ASSUME NEW u \in Seq(Characters)
  PROVE  ownersName(u) = u \o Suffix /\ ownersName(u) \in Seq(Characters)
<1>1. Suffix \in Seq(Characters)
  BY SuffixIs
<1>2. ownersName(u) = u \o Suffix
  BY SuffixIs DEF ownersName, Suffix
<1> QED
  BY <1>1, <1>2, JoinIs

\* A user's name that is accepted makes an organization's name that is.
LEMMA OwnersNameAccepted ==
  ASSUME NEW name \in Seq(Characters), parseUserDisplayName(name).valid
  PROVE  parseOrganizationName(ownersName(parseUserDisplayName(name).value)).valid
<1> DEFINE u == trim(name)
           o == u \o Suffix
<1>1. /\ parseUserDisplayName(name).value = u
      /\ Len(u) \in 1..80 /\ Tab \notin Range(u)
  BY DEF parseUserDisplayName, Invalid, UserDisplayNameSchema, displayNameSchema
<1>2. u \in Seq(Characters) /\ (u # <<>> => Head(u) \notin Blank)
  BY TrimIs
<1> HIDE DEF u
<1>3. 1 <= Len(u) /\ Len(u) <= 80
  <2>1. 80 \in Nat /\ Len(u) \in Nat
    BY <1>2
  <2> QED
    BY <1>1, <2>1, Between, Zenon
<1>4. ownersName(u) = o
  BY <1>2, OwnersNameIs
<1>5. Suffix \in Seq(Characters)
  BY SuffixIs
<1>6. /\ o \in Seq(Characters) /\ Len(o) = Len(u) + Len(Suffix)
      /\ \A i \in 1..Len(u) : o[i] = u[i]
      /\ \A i \in 1..Len(Suffix) : o[Len(u) + i] = Suffix[i]
      /\ \A i \in 1..Len(o) : i \in 1..Len(u) \/ i - Len(u) \in 1..Len(Suffix)
  BY <1>2, <1>5, JoinIs
<1> HIDE DEF o
<1>7. o[1] = u[1] /\ o[Len(o)] = Lower /\ 1 <= Len(o) /\ Len(o) <= 100 /\ o # <<>>
  BY <1>2, <1>3, <1>5, <1>6, SuffixIs
<1>8. o[1] \notin Blank /\ o[Len(o)] \notin Blank
  <2>1. u # <<>> /\ Head(u) = u[1]
    BY <1>2, <1>3
  <2>2. Lower \notin Blank
    BY DEF Blank, Lower, Space, Tab
  <2> QED
    BY <1>2, <1>7, <2>1, <2>2
<1>9. trim(o) = o
  BY <1>6, <1>7, <1>8, TrimmedStays
<1>10. Tab \notin Range(o)
  <2>1. ASSUME NEW i \in 1..Len(o) PROVE o[i] # Tab
    <3>1. CASE i \in 1..Len(u)
      BY <1>1, <1>2, <1>6, <3>1 DEF Range
    <3>2. CASE i - Len(u) \in 1..Len(Suffix)
      <4>1. o[Len(u) + (i - Len(u))] = Suffix[i - Len(u)] /\ Len(u) + (i - Len(u)) = i
        BY <1>2, <1>6, <2>1, <3>2
      <4>2. Suffix[i - Len(u)] \in Characters \ {Tab}
        BY <3>2, SuffixIs
      <4> QED
        BY <4>1, <4>2
    <3> QED
      BY <1>6, <2>1, <3>1, <3>2
  <2> QED
    BY <1>6, <2>1 DEF Range
<1>11. Head(o) = o[1] /\ Last(o) = o[Len(o)]
  BY <1>6, <1>7 DEF Last
<1>12. Len(o) \in 1..100
  <2>1. 100 \in Nat /\ Len(o) \in Nat
    BY <1>6
  <2> QED
    BY <1>7, <2>1, Between, Zenon
<1>13. OrganizationNameSchema(o)
  BY <1>8, <1>10, <1>11, <1>12, Zenon DEF OrganizationNameSchema, displayNameSchema
<1>14. parseOrganizationName(o).valid
  BY <1>9, <1>12, <1>13 DEF parseOrganizationName
<1> QED
  BY <1>1, <1>4, <1>14

\* The places of a set's elements are in order.
LEMMA RankMonotone ==
  ASSUME NEW S \in SUBSET Nat, IsFiniteSet(S), NEW x \in S, NEW y \in S
  PROVE  /\ rank(S, x) \in 1..Cardinality(S)
         /\ x < y => rank(S, x) < rank(S, y)
<1> DEFINE upto(z) == {w \in S : w <= z}
<1>1. \A z \in S : /\ IsFiniteSet(upto(z)) /\ Cardinality(upto(z)) \in Nat
                   /\ Cardinality(upto(z)) <= Cardinality(S)
  BY FS_Subset, FS_CardinalityType
<1>2. Cardinality(S) \in Nat
  BY FS_CardinalityType
<1>3. Cardinality(upto(x)) # 0
  <2>1. x \in upto(x)
    OBVIOUS
  <2> QED
    BY <1>1, <2>1, FS_EmptySet
<1>4. ASSUME x < y PROVE Cardinality(upto(x)) < Cardinality(upto(y))
  <2>0. x \in Nat /\ y \in Nat /\ \A w \in S : w \in Nat
    OBVIOUS
  <2>1. y \in upto(y) /\ y \notin upto(x)
    BY <1>4, <2>0
  <2>2. ASSUME NEW w \in S, w <= x PROVE w <= y
    BY <1>4, <2>0, <2>2
  <2>3. upto(x) \subseteq upto(y)
    BY <2>2
  <2>4. Cardinality(upto(x)) <= Cardinality(upto(y)) /\ Cardinality(upto(x)) # Cardinality(upto(y))
    BY <1>1, <2>1, <2>3, FS_Subset
  <2> QED
    BY <1>1, <2>4
<1> QED
  BY <1>1, <1>2, <1>3, <1>4 DEF rank

\* Every place is taken: there is a k-th element, for every k up to their number.
LEMMA NthIs ==
  ASSUME NEW S \in SUBSET Nat, IsFiniteSet(S), NEW k \in 1..Cardinality(S)
  PROVE  nth(S, k) \in S /\ rank(S, nth(S, k)) = k
<1> DEFINE n == Cardinality(S)
           place == [x \in S |-> rank(S, x)]
<1>1. n \in Nat /\ IsFiniteSet(1..n) /\ Cardinality(1..n) = n
  BY FS_CardinalityType, FS_Interval
<1>2. place \in Injection(S, 1..n)
  <2>1. place \in [S -> 1..n]
    BY RankMonotone
  <2>2. ASSUME NEW x \in S, NEW y \in S, place[x] = place[y] PROVE x = y
    <3>1. x \in Nat /\ y \in Nat /\ rank(S, x) = rank(S, y) /\ rank(S, x) \in Nat
      BY <1>1, <2>2, RankMonotone
    <3>2. ~(x < y) /\ ~(y < x)
      BY <3>1, RankMonotone
    <3> QED
      BY <3>1, <3>2
  <2> QED
    BY <2>1, <2>2 DEF Injection, IsInjective
<1>3. place \in Surjection(S, 1..n)
  BY <1>1, <1>2, FS_Injection
<1>4. \E x \in S : rank(S, x) = k
  BY <1>3 DEF Surjection
<1> QED
  BY <1>4 DEF nth

\* What is hyphenated has no two hyphens in a row: the second would stand for
\* a run that begins where the first has not ended.
LEMMA HyphenatedIs ==
  ASSUME NEW s \in Seq(Characters)
  PROVE  /\ hyphenated(s) \in Seq({Lower, Other})
         /\ \A k \in 1..Len(hyphenated(s)) :
              k + 1 <= Len(hyphenated(s)) /\ hyphenated(s)[k] = Other => hyphenated(s)[k + 1] = Lower
<1> DEFINE K == kept(s)
           n == Cardinality(K)
           h == hyphenated(s)
<1>1. K \in SUBSET Nat /\ IsFiniteSet(K) /\ K \subseteq 1..Len(s) /\ n \in Nat
  <2>1. Len(s) \in Nat /\ K \subseteq 1..Len(s)
    BY DEF kept
  <2>2. IsFiniteSet(1..Len(s))
    BY <2>1, FS_Interval
  <2>3. IsFiniteSet(K)
    BY <2>1, <2>2, FS_Subset
  <2> QED
    BY <2>1, <2>3, FS_CardinalityType
<1>2. \A i \in K : i \in 1..Len(s) /\ (s[i] \in Plain \/ i = 1 \/ s[i - 1] \in Plain)
  BY DEF kept
<1>3. \A i \in 1..Len(s) : s[i] \in Plain => i \in K
  BY DEF kept
<1>4. \A k \in 1..n : nth(K, k) \in K /\ rank(K, nth(K, k)) = k
  BY <1>1, NthIs
<1>5. h = [k \in 1..n |-> IF s[nth(K, k)] \in Plain THEN Lower ELSE Other]
  BY DEF hyphenated
<1> HIDE DEF K, n, h
<1>6. h \in Seq({Lower, Other}) /\ Len(h) = n
  BY <1>1, <1>5
<1>7. ASSUME NEW k \in 1..n, k + 1 <= n, h[k] = Other PROVE h[k + 1] = Lower
  <2> DEFINE i == nth(K, k)
             j == nth(K, k + 1)
  <2>1. k \in Nat /\ k + 1 \in 1..n
    BY <1>1, <1>7
  <2>2. i \in K /\ j \in K /\ rank(K, i) = k /\ rank(K, j) = k + 1
    BY <1>4, <2>1
  <2>3. s[i] \notin Plain
    BY <1>5, <1>7 DEF Lower, Other
  <2> HIDE DEF i, j
  <2>4. i \in Nat /\ j \in Nat /\ 1 <= i /\ j <= Len(s)
    BY <1>1, <2>2
  <2>5. i < j
    <3>1. i # j
      BY <2>1, <2>2
    <3>2. ~(j < i)
      BY <1>1, <2>1, <2>2, RankMonotone
    <3> QED
      BY <2>4, <3>1, <3>2
  <2>6. SUFFICES ASSUME s[j] \notin Plain PROVE FALSE
    BY <1>5, <2>1 DEF j
  <2>7. s[j - 1] \in Plain
    BY <1>2, <2>2, <2>4, <2>5, <2>6
  <2>8. j - 1 \in K /\ j - 1 # i
    <3>1. j - 1 \in 1..Len(s)
      BY <2>4, <2>5
    <3> QED
      BY <1>3, <2>3, <2>7, <3>1
  <2>9. i < j - 1 /\ j - 1 < j /\ j - 1 \in Nat
    BY <2>4, <2>5, <2>8
  <2>10. rank(K, i) < rank(K, j - 1) /\ rank(K, j - 1) < rank(K, j) /\ rank(K, j - 1) \in 1..n
    BY <1>1, <2>2, <2>8, <2>9, RankMonotone DEF n
  <2>11. rank(K, j - 1) \in Int
    BY <1>1, <2>10
  <2> QED
    BY <2>1, <2>2, <2>10, <2>11
<1> QED
  BY <1>6, <1>7 DEF h

\* Without the hyphens at its ends it begins with a letter.
LEMMA WithoutEdgesIs ==
  ASSUME NEW h \in Seq({Lower, Other}),
         \A k \in 1..Len(h) : k + 1 <= Len(h) /\ h[k] = Other => h[k + 1] = Lower
  PROVE  /\ withoutEdges(h) \in Seq({Lower, Other})
         /\ withoutEdges(h) # <<>> => withoutEdges(h)[1] = Lower
<1> DEFINE from == IF h # <<>> /\ Head(h) = Other THEN 2 ELSE 1
           to == IF h # <<>> /\ Last(h) = Other THEN Len(h) - 1 ELSE Len(h)
           w == SubSeq(h, from, to)
<1>0. <<>> \in Seq({Lower, Other})
  OBVIOUS
<1>1. withoutEdges(h) = w
  BY DEF withoutEdges
<1>2. CASE h = <<>>
  <2>1. from = 1 /\ to = Len(h) /\ to <= 0
    BY <1>2
  <2>2. w = <<>>
    BY <1>2, <2>1
  <2> HIDE DEF w
  <2> QED
    BY <1>0, <1>1, <2>2, Zenon
<1>3. CASE h # <<>>
  <2>1. Len(h) \in Nat /\ 1 <= Len(h) /\ Head(h) = h[1] /\ 1 \in 1..Len(h) /\ h[1] \in {Lower, Other}
    BY <1>3
  <2>2. from \in Int /\ to \in Int /\ 1 <= from /\ from <= 2 /\ to <= Len(h)
    BY <1>3, <2>1
  <2>3. CASE from > to
    <3> HIDE DEF from, to
    <3>1. w = <<>>
      BY <2>2, <2>3
    <3> QED
      BY <1>0, <1>1, <3>1, Zenon
  <2>4. CASE from <= to
    <3>1. h[from] = Lower
      <4>1. CASE h[1] = Other
        <5>1. from = 2
          BY <1>3, <2>1, <4>1
        <5>2. 1 + 1 <= Len(h)
          BY <2>1, <2>2, <2>4, <5>1
        <5> QED
          BY <2>1, <4>1, <5>1, <5>2
      <4>2. CASE h[1] = Lower
        <5>1. from = 1
          BY <2>1, <4>2 DEF Lower, Other
        <5> QED
          BY <4>2, <5>1
      <4> QED
        BY <2>1, <4>1, <4>2
    <3> HIDE DEF from, to
    <3>2. w \in Seq({Lower, Other}) /\ w[1] = h[from]
      BY <2>1, <2>2, <2>4
    <3> QED
      BY <1>1, <3>1, <3>2
  <2> QED
    BY <2>2, <2>3, <2>4
<1> QED
  BY <1>2, <1>3

\* The first n characters.
LEMMA UpToIs ==
  ASSUME NEW S, NEW s \in Seq(S), NEW n \in Nat
  PROVE  /\ upTo(s, n) \in Seq(S) /\ Len(upTo(s, n)) <= n
         /\ upTo(s, n) # <<>> => s # <<>> /\ upTo(s, n)[1] = s[1]
<1> DEFINE m == IF Len(s) < n THEN Len(s) ELSE n
<1>1. upTo(s, n) = SubSeq(s, 1, m)
  BY DEF upTo
<1>2. m \in Nat /\ m <= n /\ m <= Len(s)
  OBVIOUS
<1> HIDE DEF m
<1>3. SubSeq(s, 1, m) \in Seq(S) /\ Len(SubSeq(s, 1, m)) = m
  BY <1>2
<1>4. m >= 1 => s # <<>> /\ SubSeq(s, 1, m)[1] = s[1]
  BY <1>2
<1>5. SubSeq(s, 1, m) # <<>> => m >= 1
  BY <1>2, <1>3
<1> QED
  BY <1>1, <1>2, <1>3, <1>4, <1>5

\* Every name makes a slug that is a label.
LEMMA SlugIsLabel ==
  ASSUME NEW name \in Seq(Characters)
  PROVE  OrganizationSlugSchema(createOrganizationSlug(name))
<1> DEFINE h == hyphenated(trim(name))
           w == withoutEdges(h)
           prefix == upTo(w, ORGANIZATION_SLUG_PREFIX_MAX_LENGTH)
           p == IF prefix = <<>> THEN organization ELSE prefix
           L == {Lower, Other}
<1>1. trim(name) \in Seq(Characters)
  BY TrimIs
<1>2. h \in Seq(L) /\ \A k \in 1..Len(h) : k + 1 <= Len(h) /\ h[k] = Other => h[k + 1] = Lower
  BY <1>1, HyphenatedIs
<1> HIDE DEF h
<1>3. w \in Seq(L) /\ (w # <<>> => w[1] = Lower)
  BY <1>2, WithoutEdgesIs
<1> HIDE DEF w
<1>4. ORGANIZATION_SLUG_PREFIX_MAX_LENGTH = 38
  BY DEF ORGANIZATION_SLUG_PREFIX_MAX_LENGTH, NANO_ID_LENGTH
<1>5. /\ prefix \in Seq(L) /\ Len(prefix) <= 38
      /\ prefix # <<>> => prefix[1] = Lower
  BY <1>3, <1>4, UpToIs
<1>6. organization \in Seq(L) /\ Len(organization) <= 12 /\ 1 <= Len(organization) /\ organization[1] = Lower
  BY DEF organization
<1> HIDE DEF prefix
<1>7. p \in Seq(L) /\ 1 <= Len(p) /\ Len(p) <= 38 /\ p[1] = Lower
  BY <1>5, <1>6
<1>8. /\ generateNanoId \in Seq(L) /\ Len(generateNanoId) <= 24 /\ 1 <= Len(generateNanoId)
      /\ generateNanoId[Len(generateNanoId)] = Lower
  BY DEF generateNanoId, NANO_ID_LENGTH
<1> DEFINE a == p \o <<Other>>
           slug == a \o generateNanoId
<1>9. createOrganizationSlug(name) = slug
  BY DEF createOrganizationSlug, prefix, w, h
<1> HIDE DEF p
<1>10. a \in Seq(L) /\ Len(a) <= 39 /\ 1 <= Len(a) /\ a[1] = Lower
  BY <1>7
<1> HIDE DEF a
<1>11. /\ slug \in Seq(L) /\ Len(slug) <= 63 /\ 1 <= Len(slug) /\ slug[1] = Lower
       /\ slug[Len(slug)] = Lower
  BY <1>8, <1>10
<1> HIDE DEF slug
<1>12. Head(slug) = Lower /\ Last(slug) = Lower /\ Range(slug) \subseteq L
  BY <1>11 DEF Last, Range
<1>13. Len(slug) \in 1..63
  <2>1. 63 \in Nat /\ Len(slug) \in Nat
    BY <1>11
  <2> QED
    BY <1>11, <2>1, Between, Zenon
<1>14. dnsLabelSchema(1, 63, slug)
  BY <1>12, <1>13, Zenon DEF dnsLabelSchema
<1> QED
  BY <1>9, <1>14 DEF OrganizationSlugSchema

-----------------------------------------------------------------------------
(* The user *)

\* A form or a button starts a function.
LEMMA StartInv ==
  ASSUME IInv, Observe, app' = app, app \in Web, UNCHANGED auth, TabsInv', UNCHANGED navigation,
         NEW f \in Flows, NEW r \in FlowType,
         r.kind # "request", r.tab \in Tabs, r.goal = None,
         r.at \in {"signIn.email", "signUp.email", "signOut"},
         r.at = "signUp.email" => app = "console-web", r.at = "signIn.email" => r.kind = "sign-in",
         flow' = [flow EXCEPT ![f] = r]
  PROVE  IInv'
<1>1. AuthOK' /\ NavigationOK'
  BY AuthStays DEF IInv, NavigationOK
<1>2. flow'[f] = r
  BY DEF IInv, FlowsOK
<1>3. FlowInv(f)'
  BY <1>2, AskedInv
<1> QED
  BY <1>1, <1>3, MoveInv

LEMMA SubmitSignInInv ==
  ASSUME IInv, Observe, NEW f \in Flows, NEW t \in Tabs, submitSignIn(f, t)
  PROVE  IInv'
<1> DEFINE r == [Idle EXCEPT !.kind = "sign-in", !.tab = t, !.at = "signIn.email"]
<1>1. /\ app' = app /\ app \in Web /\ UNCHANGED auth /\ UNCHANGED navigation
      /\ flow' = [flow EXCEPT ![f] = r]
  BY DEF submitSignIn, Start
<1>2. TabsInv'
  <2>1. alert[t] \in {None, "name", "organization name", "server"}
    BY DEF IInv, TabsInv, PagesOK
  <2> DEFINE what == IF app \in Tenant THEN None ELSE alert[t]
  <2>2. alert' = [alert EXCEPT ![t] = what] /\ UNCHANGED <<page, mode>>
    BY DEF submitSignIn
  <2>3. what \in {None, "name", "organization name", "server"}
    BY <2>1
  <2>4. what = "organization name" => page[t] = "onboarding"
    BY DEF IInv, TabsInv, TabInv, None
  <2> HIDE DEF what
  <2> QED
    BY <1>1, <2>2, <2>3, <2>4, AlertInv
<1>3. r \in FlowType
  BY IdleType DEF FlowType, Kinds, Calls
<1>4. r.kind = "sign-in" /\ r.tab = t /\ r.at = "signIn.email" /\ r.goal = None
  BY DEF Idle
<1> HIDE DEF r
<1> QED
  BY <1>1, <1>2, <1>3, <1>4, StartInv

LEMMA SignOutInv ==
  ASSUME IInv, Observe, NEW f \in Flows, NEW t \in Tabs, signOut(f, t)
  PROVE  IInv'
<1> DEFINE r == [Idle EXCEPT !.kind = "sign-out", !.tab = t, !.at = "signOut"]
<1>1. /\ app' = app /\ UNCHANGED auth /\ UNCHANGED tabs
      /\ flow' = [flow EXCEPT ![f] = r]
      /\ page[t] \in Behind
  BY DEF signOut, Start
<1>2. app \in Web
  BY <1>1 DEF IInv, TabsInv, TabInv, Behind
<1>3. TabsInv' /\ UNCHANGED navigation
  BY <1>1, StaysInv DEF tabs, Stays
<1>4. r \in FlowType
  BY IdleType DEF FlowType, Kinds, Calls
<1>5. r.kind = "sign-out" /\ r.tab = t /\ r.at = "signOut" /\ r.goal = None
  BY DEF Idle
<1> HIDE DEF r
<1> QED
  BY <1>1, <1>2, <1>3, <1>4, <1>5, StartInv

\* What the forms make of a name: the name of a sign-up that is accepted
\* makes an organization's name that is, and every name makes a label.
LEMMA FormType ==
  ASSUME NEW name \in Names
  PROVE  /\ signUpName[name].problem \in {None, "name"} /\ signUpName[name].label = TRUE
         /\ organizationName[name].problem \in {None, "organization name"} /\ organizationName[name].label = TRUE
<1>1. name \in Seq(Characters)
  BY NamesAssumption
<1>2. ASSUME NEW input \in Seq(Characters)
      PROVE  parseUserDisplayName(input).value \in Seq(Characters) /\ parseOrganizationName(input).value \in Seq(Characters)
  BY TrimIs DEF parseUserDisplayName, parseOrganizationName, Invalid
<1> DEFINE user == parseUserDisplayName(name)
           own == parseOrganizationName(ownersName(user.value))
           org == parseOrganizationName(name)
<1>3. ownersName(user.value) \in Seq(Characters)
  BY <1>1, <1>2, OwnersNameIs
<1>4. own.value \in Seq(Characters) /\ org.value \in Seq(Characters)
  BY <1>1, <1>2, <1>3
<1>5. user.valid => own.valid
  BY <1>1, OwnersNameAccepted
<1>6. /\ OrganizationSlugSchema(createOrganizationSlug(own.value))
      /\ OrganizationSlugSchema(createOrganizationSlug(org.value))
  BY <1>4, SlugIsLabel
<1>7. /\ signUpName[name].problem = IF ~user.valid THEN "name" ELSE IF ~own.valid THEN "organization name" ELSE None
      /\ signUpName[name].label = OrganizationSlugSchema(createOrganizationSlug(own.value))
  BY DEF signUpName
<1>8. /\ organizationName[name].problem = IF org.valid THEN None ELSE "organization name"
      /\ organizationName[name].label = OrganizationSlugSchema(createOrganizationSlug(org.value))
  BY DEF organizationName
<1> HIDE DEF user, own, org
<1> QED
  BY <1>5, <1>6, <1>7, <1>8

\* A name with a problem starts nothing.
LEMMA RefusedInv ==
  ASSUME IInv, Observe, app' = app, UNCHANGED auth, TabsInv', UNCHANGED navigation, UNCHANGED flow
  PROVE  IInv'
<1>1. AuthOK' /\ NavigationOK' /\ FlowsOK'
  BY AuthStays DEF IInv, NavigationOK, FlowsOK, Observe
<1>2. ASSUME NEW g \in Flows PROVE FlowInv(g)'
  BY OtherInv
<1> QED
  BY <1>1, <1>2 DEF IInv

LEMMA SubmitSignUpInv ==
  ASSUME IInv, Observe, NEW f \in Flows, NEW t \in Tabs, NEW name \in Names, submitSignUp(f, t, name)
  PROVE  IInv'
<1> DEFINE form == signUpName[name]
<1>1. /\ page[t] = "sign-in" /\ mode[t] = "sign-up"
      /\ Submits(f, t, form, [Idle EXCEPT !.kind = "sign-up", !.tab = t, !.at = "signUp.email", !.label = form.label])
  BY DEF submitSignUp
<1>2. form.problem \in {None, "name"} /\ form.label = TRUE
  BY FormType
<1> HIDE DEF form
<1>3. app' = app /\ UNCHANGED auth /\ UNCHANGED navigation /\ TabsInv'
  BY <1>1, <1>2, AlertInv DEF Submits, None
<1>4. app = "console-web"
  BY <1>1 DEF IInv, TabsInv, TabInv
<1>5. CASE form.problem = None
  <2> DEFINE r == [Idle EXCEPT !.kind = "sign-up", !.tab = t, !.at = "signUp.email", !.label = form.label]
  <2>1. flow' = [flow EXCEPT ![f] = r]
    BY <1>1, <1>5 DEF Submits, Start
  <2>2. r \in FlowType
    BY <1>2, IdleType DEF FlowType, Kinds, Calls
  <2>3. r.kind = "sign-up" /\ r.tab = t /\ r.at = "signUp.email" /\ r.goal = None
    BY DEF Idle
  <2> HIDE DEF r
  <2> QED
    BY <1>3, <1>4, <2>1, <2>2, <2>3, StartInv DEF Web
<1>6. CASE form.problem # None
  <2>1. UNCHANGED flow
    BY <1>1, <1>6 DEF Submits
  <2> QED
    BY <1>3, <2>1, RefusedInv
<1> QED
  BY <1>5, <1>6

LEMMA SubmitOrganizationInv ==
  ASSUME IInv, Observe, NEW f \in Flows, NEW t \in Tabs, NEW name \in Names, submitOrganization(f, t, name)
  PROVE  IInv'
<1> DEFINE form == organizationName[name]
           changes == [Idle EXCEPT !.kind = "onboarding", !.tab = t]
<1>1. page[t] = "onboarding" /\ Submits(f, t, form, Creating(changes, form.label))
  BY DEF submitOrganization
<1>2. form.problem \in {None, "organization name"} /\ form.label = TRUE
  BY FormType
<1>3. changes \in FlowType
  BY IdleType DEF FlowType, Kinds
<1>4. changes.kind # "request" /\ changes.tab = t /\ changes.goal = None
  BY DEF Idle
<1> HIDE DEF form, changes
<1>5. app' = app /\ UNCHANGED auth /\ UNCHANGED navigation /\ TabsInv'
  BY <1>1, <1>2, AlertInv DEF Submits, None
<1>6. app = "console-web"
  BY <1>1 DEF IInv, TabsInv, TabInv
<1>7. CASE form.problem = None
  <2>1. flow' = [flow EXCEPT ![f] = Creating(changes, form.label)]
    BY <1>1, <1>7 DEF Submits, Start
  <2> QED
    BY <1>2, <1>3, <1>4, <1>5, <1>6, <2>1, CreatingInv
<1>8. CASE form.problem # None
  <2>1. UNCHANGED flow
    BY <1>1, <1>8 DEF Submits
  <2> QED
    BY <1>5, <2>1, RefusedInv
<1> QED
  BY <1>7, <1>8

LEMMA OpenInv ==
  ASSUME IInv, Observe, NEW f \in Flows, NEW t \in Tabs, NEW goal \in Pages, open(f, t, goal)
  PROVE  IInv'
<1> DEFINE changes == [Idle EXCEPT !.tab = t]
<1>1. /\ app' = app /\ UNCHANGED auth /\ app \in Web /\ goal \in Paths
      /\ Navigate(f, goal, changes)
  BY DEF open
<1>2. changes \in FlowType
  BY IdleType DEF FlowType
<1>3. changes.tab = t
  BY DEF Idle
<1> HIDE DEF changes
<1>4. goal \in Loaded \cup {"sign-in", "unauthorized"} /\ (goal = "onboarding" => app = "console-web")
  BY <1>1 DEF Paths, Loaded, Behind
<1> QED
  BY <1>1, <1>2, <1>3, <1>4, NavigateInv

\* What a document that is gone leaves of its functions.
LEMMA LeftInv ==
  ASSUME IInv, app' = app, NEW g \in Flows, flow'[g] = Left(g), flow[g].tab \in Tabs, app \in Web
  PROVE  Left(g) \in FlowType /\ FlowInv(g)'
<1>1. flow[g] \in FlowType /\ PlaceInv(g)
  BY DEF IInv, FlowsOK, FlowInv
<1>2. CASE ~(flow[g].at \in Effects /\ flow[g].answer = "waiting")
  <2>1. Left(g) = Idle
    BY <1>2 DEF Left
  <2> QED
    BY <2>1, IdleType, IdleInv
<1>3. CASE flow[g].at \in Effects /\ flow[g].answer = "waiting"
  <2> DEFINE r == [Idle EXCEPT !.at = flow[g].at, !.org = flow[g].org, !.answer = "unheard"]
  <2>1. Left(g) = r /\ flow[g].at \in Calls \cup {None} /\ flow[g].org \in Orgs \cup {NoOrg}
    BY <1>1, <1>3 DEF Left, FlowType
  <2>2. r \in FlowType
    BY <2>1, IdleType DEF FlowType, Replies
  <2>3. r.at = flow[g].at /\ r.answer = "unheard" /\ r.kind = None /\ r.goal = None
    BY DEF Idle
  <2> HIDE DEF r
  <2>4. FlowInv(g)'
    BY <1>1, <1>3, <2>1, <2>3 DEF FlowInv, PlaceInv, GuardInv, SubjectInv, AnswerInv, Effects, WebCalls, ConsoleCalls,
                                  Creator, None, Behind
  <2> QED
    BY <2>1, <2>2, <2>4
<1> QED
  BY <1>2, <1>3

LEMMA LoadInv ==
  ASSUME IInv, Observe, NEW f \in Flows, NEW t \in Tabs, NEW goal \in Pages, load(f, t, goal)
  PROVE  IInv'
<1> DEFINE r == [Idle EXCEPT !.kind = "open", !.tab = t, !.at = "getSession", !.goal = goal]
<1>1. /\ app' = app /\ UNCHANGED auth /\ app \in Web /\ goal \in Paths
      /\ Mount(t, IF goal \in Loaded THEN "blank" ELSE goal)
      /\ navigation' = [navigation EXCEPT ![t] = IF goal \in Loaded THEN f ELSE None]
      /\ flow' = [g \in Flows |-> IF g = f /\ goal \in Loaded THEN r
                                  ELSE IF flow[g].tab = t THEN Left(g) ELSE flow[g]]
  BY DEF load
<1>2. /\ goal = "onboarding" => app = "console-web"
      /\ "onboarding" \in Loaded /\ "blank" \in Pages
  BY <1>1 DEF Paths, Loaded, Behind, Pages
<1>3. AuthOK' /\ TabsInv' /\ NavigationOK'
  <2>1. TabsInv'
    BY <1>1, <1>2, MountInv
  <2> QED
    BY <1>1, <2>1, AuthStays DEF IInv, NavigationOK
<1>4. goal \in Loaded => r \in FlowType
  BY IdleType DEF FlowType, Kinds, Calls
<1>5. r.kind = "open" /\ r.tab = t /\ r.at = "getSession" /\ r.goal = goal /\ r.answer = "waiting"
  BY DEF Idle
<1> HIDE DEF r
<1>6. ASSUME NEW g \in Flows PROVE flow'[g] \in FlowType /\ FlowInv(g)'
  <2>1. CASE g = f /\ goal \in Loaded
    <3>1. flow'[g] = r
      BY <1>1, <2>1
    <3>2. FlowInv(g)'
      BY <1>1, <1>2, <1>5, <2>1, <3>1 DEF FlowInv, PlaceInv, GuardInv, SubjectInv, AnswerInv, WebCalls, ConsoleCalls,
                                         Creator, Ok, None, Loaded, Behind
    <3> QED
      BY <1>4, <2>1, <3>1, <3>2
  <2>2. CASE ~(g = f /\ goal \in Loaded) /\ flow[g].tab = t
    <3>1. flow'[g] = Left(g)
      BY <1>1, <2>2
    <3> QED
      BY <1>1, <2>2, <3>1, LeftInv
  <2>3. CASE ~(g = f /\ goal \in Loaded) /\ flow[g].tab # t
    <3>1. flow'[g] = flow[g]
      BY <1>1, <2>3
    <3> QED
      BY <1>1, <3>1, OtherInv DEF IInv, FlowsOK
  <2> QED
    BY <2>1, <2>2, <2>3
<1>7. FlowsOK'
  BY <1>1, <1>6 DEF FlowsOK, Observe
<1> QED
  BY <1>3, <1>6, <1>7 DEF IInv

-----------------------------------------------------------------------------
(* The host *)

\* A step of a host touches one request, and nothing that the tabs or Better
\* Auth keep.
LEMMA HostMove ==
  ASSUME IInv, Observe, UNCHANGED <<app, auth, tabs>>, NEW f \in Flows, NEW r \in FlowType,
         flow' = [flow EXCEPT ![f] = r], FlowInv(f)'
  PROVE  IInv'
<1>1. app' = app /\ AuthOK' /\ TabsInv' /\ NavigationOK'
  BY AuthStays, StaysInv DEF tabs, Stays, IInv, NavigationOK
<1> QED
  BY <1>1, MoveInv

LEMMA HostIdle ==
  ASSUME IInv, Observe, UNCHANGED <<app, auth, tabs>>, NEW f \in Flows, flow' = [flow EXCEPT ![f] = Idle]
  PROVE  IInv'
<1>1. flow'[f] = Idle
  BY DEF IInv, FlowsOK
<1>2. FlowInv(f)'
  BY <1>1, IdleInv
<1> QED
  BY <1>2, IdleType, HostMove

LEMMA ReceiveInv ==
  ASSUME IInv, Observe, NEW f \in Flows, NEW route \in Routes \ {None}, NEW headers \in Forged \cup {NoSubject},
         receive(f, route, headers)
  PROVE  IInv'
<1> DEFINE r == [Idle EXCEPT !.kind = "request", !.at = "readBody", !.route = route, !.subject = headers]
<1>1. UNCHANGED <<app, auth, tabs>> /\ app \notin Web /\ flow' = [flow EXCEPT ![f] = r]
  BY DEF receive, Start
<1>2. headers \in Subjects
  <2>1. "owner" \in Roles /\ "none" \in Roles
    BY DEF Roles, MemberRoles
  <2>2. CASE headers = NoSubject
    BY <2>1, <2>2 DEF NoSubject, Subjects
  <2>3. CASE headers \in Forged
    <3>1. PICK o \in Orgs : headers = <<o, "owner">>
      BY <2>3 DEF Forged
    <3> QED
      BY <2>1, <3>1 DEF Subjects
  <2> QED
    BY <2>2, <2>3
<1>3. r \in FlowType
  BY <1>2, IdleType DEF FlowType, Kinds, Calls
<1>4. r.kind = "request" /\ r.at = "readBody" /\ r.route = route /\ r.goal = None /\ r.answer = "waiting"
  BY DEF Idle
<1>5. flow'[f] = r
  BY <1>1 DEF IInv, FlowsOK
<1> HIDE DEF r
<1>6. FlowInv(f)'
  BY <1>1, <1>4, <1>5 DEF FlowInv, PlaceInv, GuardInv, SubjectInv, AnswerInv, HostCalls, WebCalls, ConsoleCalls,
                         Creator, None, Behind, Dispatched
<1> QED
  BY <1>1, <1>3, <1>6, HostMove

\* A request goes on: what is left to show is about its subject and its
\* answer.
LEMMA RequestMove ==
  ASSUME IInv, Observe, UNCHANGED <<app, auth, tabs>>, NEW f \in Flows, NEW r \in FlowType,
         flow' = [flow EXCEPT ![f] = r], flow[f].kind = "request",
         r.kind = "request", r.answer # "unheard", r.at \in HostCalls, r.goal = flow[f].goal, r.route = flow[f].route,
         seen[f] \cup Facts' \subseteq seen'[f] => SubjectInv(f)' /\ AnswerInv(f)'
  PROVE  IInv'
<1>1. FlowsOK /\ FlowInv(f) /\ flow \in [Flows -> FlowType]
  BY DEF IInv, FlowsOK
<1>2. flow'[f] = r
  BY <1>1
<1>3. flow[f].goal = None /\ flow[f].route # None /\ app \notin Web
  BY <1>1 DEF FlowInv, PlaceInv
<1>4. seen[f] \cup Facts' \subseteq seen'[f]
  BY <1>1, <1>2, <1>3, SeenKept DEF Continues
<1>5. PlaceInv(f)' /\ GuardInv(f)'
  BY <1>2, <1>3 DEF PlaceInv, GuardInv, HostCalls, WebCalls, ConsoleCalls, Creator, None, Behind
<1> QED
  BY <1>4, <1>5, HostMove DEF FlowInv

\* What a request in a host has come with.
LEMMA RequestIs ==
  ASSUME IInv, NEW f \in Flows, flow[f].at \in HostCalls
  PROVE  /\ flow[f].kind = "request" /\ flow[f].goal = None /\ flow[f].route # None
         /\ app \in {"console-api", "backoffice"} /\ flow[f] \in FlowType /\ flow \in [Flows -> FlowType]
         /\ FlowInv(f) /\ FlowsOK /\ flow[f].answer # "unheard"
<1>1. FlowsOK /\ FlowInv(f) /\ AuthOK /\ flow \in [Flows -> FlowType] /\ flow[f] \in FlowType
  BY DEF IInv, FlowsOK
<1>2. flow[f].kind = "request"
  BY <1>1 DEF FlowInv, PlaceInv, HostCalls, WebCalls, ConsoleCalls, None
<1> QED
  BY <1>1, <1>2 DEF FlowInv, PlaceInv, AuthOK, Web, Tenant, Effects, HostCalls

LEMMA AnsweredType ==
  ASSUME NEW r \in FlowType, NEW status \in Statuses
  PROVE  LET s == [r EXCEPT !.at = "body", !.status = status] IN
         /\ s \in FlowType
         /\ s.at = "body" /\ s.status = status /\ s.kind = r.kind /\ s.goal = r.goal
         /\ s.route = r.route /\ s.subject = r.subject /\ s.answer = r.answer
<1> DEFINE s == [r EXCEPT !.at = "body", !.status = status]
<1>1. "body" \in Calls
  BY DEF Calls
<1>2. s \in FlowType
  BY <1>1 DEF FlowType
<1>3. s.at = "body" /\ s.status = status /\ s.kind = r.kind /\ s.goal = r.goal
  BY DEF FlowType
<1>4. s.route = r.route /\ s.subject = r.subject /\ s.answer = r.answer
  BY DEF FlowType
<1> QED
  BY <1>2, <1>3, <1>4

\* The head of an answer goes out.
LEMMA AnswersInv ==
  ASSUME IInv, Observe, UNCHANGED <<app, auth, tabs>>, NEW f \in Flows, flow[f].at \in HostCalls,
         NEW status \in Statuses, Answers(f, status),
         flow[f].route = "health" =>
           status \in {200, InternalError} \cup (IF app = "console-api" THEN {} ELSE {UnauthenticatedError, UnauthorizedError}),
         app = "console-api" /\ flow[f].route \in {"list", "listAlias"} =>
           /\ status \in {200, UnauthenticatedError, UnauthorizedError, InternalError}
           /\ status = 200 => flow[f].at \in Dispatched /\ flow[f].subject # NoSubject
  PROVE  IInv'
<1> DEFINE r == [flow[f] EXCEPT !.at = "body", !.status = status]
<1>1. /\ flow[f].kind = "request" /\ flow[f] \in FlowType /\ flow \in [Flows -> FlowType] /\ FlowInv(f)
      /\ app' = app /\ flow[f].answer # "unheard"
  BY RequestIs
<1>2. flow' = [flow EXCEPT ![f] = r] /\ flow'[f] = r
  <2>1. flow' = [flow EXCEPT ![f] = r]
    BY Zenon DEF Answers
  <2> HIDE DEF r
  <2> QED
    BY <1>1, <2>1
<1>3. /\ r \in FlowType
      /\ r.at = "body" /\ r.status = status /\ r.kind = flow[f].kind /\ r.goal = flow[f].goal
      /\ r.route = flow[f].route /\ r.subject = flow[f].subject /\ r.answer = flow[f].answer
  BY <1>1, AnsweredType
<1> HIDE DEF r
<1>5. ASSUME seen[f] \cup Facts' \subseteq seen'[f]
      PROVE  SubjectInv(f)' /\ AnswerInv(f)'
  BY <1>1, <1>2, <1>3, <1>5 DEF FlowInv, SubjectInv, AnswerInv, Dispatched
<1> QED
  BY <1>1, <1>2, <1>3, <1>5, RequestMove DEF HostCalls

\* A request goes on to its gate, its member or its handler, with the subject
\* of changes.
LEMMA ReachesInv ==
  ASSUME IInv, Observe, UNCHANGED <<app, auth, tabs>>, NEW f \in Flows, flow[f].at \in HostCalls,
         NEW changes \in FlowType, changes.kind = "request", changes.goal = flow[f].goal,
         changes.route = flow[f].route,
         NEW call \in {"gate", "member", "handler"}, Await(f, call, changes),
         flow[f].route # "auth" /\ app = "console-api" =>
           /\ changes.subject = NoSubject
                \/ (flow[f].at \in Dispatched /\ changes.subject = flow[f].subject)
           /\ call \in {"gate", "member"} => flow[f].route = "list"
  PROVE  IInv'
<1>1. flow[f].kind = "request" /\ FlowsOK /\ FlowInv(f) /\ call \in Calls /\ app' = app
  BY RequestIs DEF Calls
<1>2. /\ flow'[f] \in FlowType
      /\ flow' = [flow EXCEPT ![f] = flow'[f]]
      /\ flow'[f].at = call /\ flow'[f].answer = "waiting"
      /\ flow'[f].kind = changes.kind /\ flow'[f].goal = changes.goal
      /\ flow'[f].route = changes.route /\ flow'[f].subject = changes.subject
  BY <1>1, AwaitType
<1>3. ASSUME seen[f] \cup Facts' \subseteq seen'[f]
      PROVE  SubjectInv(f)' /\ AnswerInv(f)'
  BY <1>1, <1>2, <1>3 DEF FlowInv, SubjectInv, AnswerInv, Dispatched
<1> QED
  BY <1>1, <1>2, <1>3, RequestMove DEF HostCalls

LEMMA DispatchInv ==
  ASSUME IInv, Observe, NEW f \in Flows, dispatch(f)
  PROVE  IInv'
<1>1. UNCHANGED <<app, auth, tabs>> /\ flow[f].at = "readBody" /\ flow[f].at \in HostCalls
  BY DEF dispatch, HostCalls
<1>2. flow[f].kind = "request" /\ flow[f] \in FlowType /\ FlowInv(f)
  BY <1>1, RequestIs
<1>3. CASE flow[f].route = "auth"
  <2>1. Await(f, "handler", flow[f])
    BY <1>3 DEF dispatch, Reaches
  <2> QED
    BY <1>1, <1>2, <1>3, <2>1, ReachesInv
<1>4. CASE flow[f].route # "auth"
  <2> DEFINE changes == withoutAuthenticatedMember(f)
             call == IF app = "backoffice" \/ requiresAuthenticatedMember(flow[f].route) THEN "gate" ELSE "handler"
  <2>1. Await(f, call, changes)
    BY <1>4 DEF dispatch
  <2>2. changes \in FlowType
    BY <1>2, IdleType DEF withoutAuthenticatedMember, FlowType, Idle
  <2>3. /\ changes.kind = "request" /\ changes.goal = flow[f].goal /\ changes.route = flow[f].route
        /\ changes.subject = NoSubject
    BY <1>2 DEF withoutAuthenticatedMember, FlowType
  <2>4. app = "console-api" /\ call = "gate" => flow[f].route = "list"
    BY DEF requiresAuthenticatedMember, ConsoleApi, SystemApiGroup, AddError
  <2>5. call \in {"gate", "handler"}
    OBVIOUS
  <2> HIDE DEF changes, call
  <2> QED
    BY <1>1, <2>1, <2>2, <2>3, <2>4, <2>5, ReachesInv
<1> QED
  BY <1>3, <1>4

\* The failures a host answers with are declared.
LEMMA StatusesAre == {200, 404, UnauthenticatedError, UnauthorizedError, InternalError} \subseteq Statuses
BY DEF Statuses

LEMMA AuthorizeOperatorInv ==
  ASSUME IInv, Observe, NEW f \in Flows, authorizeOperator(f)
  PROVE  IInv'
<1>1. UNCHANGED <<app, auth, tabs>> /\ flow[f].at = "gate" /\ flow[f].at \in HostCalls /\ app = "backoffice"
  BY DEF authorizeOperator, HostCalls, Has
<1>2. flow[f].kind = "request" /\ flow[f] \in FlowType
  BY <1>1, RequestIs
<1>3. CASE Reaches(f, "handler")
  BY <1>1, <1>2, <1>3, ReachesInv DEF Reaches, Dispatched
<1>4. CASE Answers(f, UnauthorizedError)
  BY <1>1, <1>4, AnswersInv, StatusesAre
<1>5. CASE Answers(f, UnauthenticatedError)
  BY <1>1, <1>5, AnswersInv, StatusesAre
<1> QED
  BY <1>3, <1>4, <1>5 DEF authorizeOperator

LEMMA ResolveSessionInv ==
  ASSUME IInv, Observe, NEW f \in Flows, resolveSession(f)
  PROVE  IInv'
<1>1. /\ UNCHANGED <<app, auth, tabs>> /\ flow[f].at = "gate" /\ flow[f].at \in HostCalls
      /\ app = "console-api"
  BY DEF resolveSession, HostCalls, Has
<1>2. flow[f].kind = "request" /\ flow[f] \in FlowType /\ FlowInv(f)
  BY <1>1, RequestIs
<1>3. flow[f].route # "auth" => flow[f].route = "list"
  BY <1>1, <1>2 DEF FlowInv, SubjectInv, Dispatched
<1>4. CASE Answers(f, UnauthenticatedError)
  BY <1>1, <1>3, <1>4, AnswersInv, StatusesAre DEF UnauthenticatedError
<1>5. CASE Answers(f, UnauthorizedError)
  BY <1>1, <1>3, <1>5, AnswersInv, StatusesAre DEF UnauthorizedError
<1>6. CASE Reaches(f, "member")
  BY <1>1, <1>2, <1>3, <1>6, ReachesInv DEF Reaches, Dispatched
<1> QED
  BY <1>4, <1>5, <1>6 DEF resolveSession, ActiveOrganizationRequiredError

\* The member that is resolved is one at that moment.
LEMMA ResolveMemberInv ==
  ASSUME IInv, Observe, NEW f \in Flows, resolveMember(f)
  PROVE  IInv'
<1> DEFINE subject == <<flow[f].org, role[flow[f].org]>>
           r == withAuthenticatedMember(f, subject)
<1>1. UNCHANGED <<app, auth, tabs>> /\ flow[f].at = "member" /\ flow[f].at \in HostCalls
  BY DEF resolveMember, HostCalls
<1>2. /\ flow[f].kind = "request" /\ flow[f] \in FlowType /\ flow \in [Flows -> FlowType] /\ FlowInv(f) /\ app \notin Web
      /\ flow[f].answer # "unheard"
  BY <1>1, RequestIs DEF Web
<1>3. app = "console-api" /\ flow[f].route # "auth" => flow[f].route = "list"
  BY <1>1, <1>2 DEF FlowInv, SubjectInv, Dispatched
<1>4. CASE Answers(f, UnauthorizedError)
  <2>1. flow[f].route = "health" => app # "console-api"
    BY <1>3
  <2> QED
    BY <1>1, <2>1, <1>4, AnswersInv, StatusesAre DEF UnauthorizedError
<1>5. CASE decodes(subject) /\ flow' = [flow EXCEPT ![f] = r]
  <2>1. flow[f].org \in Orgs \cup {NoOrg} /\ role[flow[f].org] \in Roles /\ role' = role /\ app' = app
    BY <1>1, <1>2 DEF FlowType, IInv, AuthOK, auth
  <2>2. flow[f].org \in Orgs /\ role[flow[f].org] # "none"
    BY <1>5, <2>1 DEF decodes, OrganizationRoleSchema
  <2>3. subject \in Facts'
    BY <1>2, <2>1, <2>2 DEF Facts, Memberships
  <2>4. r \in FlowType
    <3>1. subject \in Subjects
      BY <2>1 DEF Subjects
    <3> HIDE DEF subject
    <3> QED
      BY <1>2, <3>1 DEF withAuthenticatedMember, FlowType, Calls
  <2>5. /\ r.at = "handler" /\ r.subject = subject /\ r.kind = "request" /\ r.goal = flow[f].goal
        /\ r.route = flow[f].route /\ r.answer = flow[f].answer
    BY <1>2 DEF withAuthenticatedMember, FlowType
  <2>6. flow'[f] = r
    BY <1>2, <1>5
  <2> HIDE DEF subject, r
  <2>7. ASSUME seen[f] \cup Facts' \subseteq seen'[f]
        PROVE  SubjectInv(f)' /\ AnswerInv(f)'
    BY <2>3, <2>5, <2>6, <2>7 DEF SubjectInv, AnswerInv, Dispatched
  <2> QED
    BY <1>1, <1>2, <1>5, <2>4, <2>5, <2>7, RequestMove DEF HostCalls
<1> QED
  BY <1>4, <1>5 DEF resolveMember

\* The list is answered to who decodes, and no one else gets it.
LEMMA HandleInv ==
  ASSUME IInv, Observe, NEW f \in Flows, handle(f)
  PROVE  IInv'
<1>1. UNCHANGED <<app, auth, tabs>> /\ flow[f].at = "handler" /\ flow[f].at \in HostCalls
  BY DEF handle, HostCalls
<1>2. CASE app = "console-api" /\ flow[f].route \in {"list", "listAlias"}
  <2> DEFINE status == organizationAuthentication(flow[f].subject)
  <2>1. Answers(f, status)
    BY <1>2 DEF handle
  <2>2. status \in {200, UnauthenticatedError, UnauthorizedError}
    BY DEF organizationAuthentication, listSandboxes, requirePermission, ForbiddenError
  <2>3. status = 200 => flow[f].at \in Dispatched /\ flow[f].subject # NoSubject
    BY <1>1 DEF organizationAuthentication, decodes, NoSubject, UnauthenticatedError, Dispatched
  <2> HIDE DEF status
  <2> QED
    BY <1>1, <1>2, <2>1, <2>2, <2>3, AnswersInv, StatusesAre
<1>3. CASE ~(app = "console-api" /\ flow[f].route \in {"list", "listAlias"}) /\ flow[f].route \in {"health", "auth"}
  <2>1. Answers(f, 200)
    BY <1>3 DEF handle, getHealth
  <2> QED
    BY <1>1, <1>3, <2>1, AnswersInv, StatusesAre
<1>4. CASE ~(app = "console-api" /\ flow[f].route \in {"list", "listAlias"}) /\ flow[f].route \notin {"health", "auth"}
  <2>1. Answers(f, 404)
    BY <1>4 DEF handle
  <2> QED
    BY <1>1, <1>4, <2>1, AnswersInv, StatusesAre
<1> QED
  BY <1>2, <1>3, <1>4

\* What the catch answers, where no head is out yet.
LEMMA FailsInv ==
  ASSUME IInv, Observe, NEW f \in Flows, fails(f)
  PROVE  IInv'
<1>1. UNCHANGED <<app, auth, tabs>> /\ flow[f].at \in HostCalls
  BY DEF fails, Throws, HostCalls
<1>2. CASE flow' = [flow EXCEPT ![f] = Idle]
  BY <1>1, <1>2, HostIdle
<1>3. CASE Answers(f, InternalError)
  BY <1>1, <1>3, AnswersInv, StatusesAre DEF InternalError
<1> QED
  BY <1>2, <1>3 DEF fails

LEMMA HostInv ==
  ASSUME IInv, Observe, NEW f \in Flows, Host(f)
  PROVE  IInv'
<1>1. CASE writeBody(f)
  BY <1>1, HostIdle DEF writeBody
<1> QED
  BY <1>1, FailsInv, DispatchInv, AuthorizeOperatorInv, ResolveSessionInv, ResolveMemberInv, HandleInv DEF Host

-----------------------------------------------------------------------------
(* The theorems *)

LEMMA InitInv == Init => IInv
<1> SUFFICES ASSUME Init PROVE IInv
  OBVIOUS
<1>1. AuthOK
  <2>1. account \in BOOLEAN
    BY DEF Init
  <2>2. role \in [Orgs \cup {NoOrg} -> Roles]
    BY DEF Init, Roles, MemberRoles
  <2> QED
    BY <2>1, <2>2 DEF Init, AuthOK
<1>2. TabsInv /\ NavigationOK
  BY DEF Init, TabsInv, PagesOK, TabInv, NavigationOK, Pages, None
<1>3. FlowsOK
  BY IdleType DEF Init, FlowsOK
<1>4. ASSUME NEW f \in Flows PROVE FlowInv(f)
  <2>1. flow[f].kind = None /\ flow[f].at = None /\ flow[f].goal = None /\ flow[f].answer # "unheard"
    BY DEF Init, Idle
  <2> QED
    BY <2>1 DEF FlowInv, PlaceInv, GuardInv, SubjectInv, AnswerInv, WebCalls, ConsoleCalls, None, Creator, Behind
<1> QED
  BY <1>1, <1>2, <1>3, <1>4 DEF IInv

LEMMA UserInv ==
  ASSUME IInv, Observe, NEW f \in Flows, User(f)
  PROVE  IInv'
BY SubmitSignInInv, SignOutInv, SubmitSignUpInv, SubmitOrganizationInv, OpenInv, LoadInv, ReceiveInv DEF User

LEMMA Inductive == IInv /\ [Next]_vars => IInv'
<1> SUFFICES ASSUME IInv, [Next]_vars PROVE IInv'
  OBVIOUS
<1>1. CASE UNCHANGED vars
  <2>1. app' = app /\ UNCHANGED auth /\ UNCHANGED tabs /\ flow' = flow /\ seen' = seen
    BY <1>1 DEF vars
  <2>2. AuthOK' /\ TabsInv' /\ NavigationOK' /\ FlowsOK'
    BY <2>1, AuthStays, StaysInv DEF tabs, Stays, IInv, NavigationOK, FlowsOK
  <2>3. ASSUME NEW f \in Flows PROVE FlowInv(f)'
    BY <2>1 DEF IInv, FlowInv, PlaceInv, GuardInv, SubjectInv, AnswerInv, Creator, Ok
  <2> QED
    BY <2>2, <2>3 DEF IInv
<1>2. CASE Next
  <2>1. Step /\ Observe
    BY <1>2 DEF Next
  <2>2. CASE elsewhere
    BY <2>1, <2>2, ElsewhereInv
  <2>3. CASE \E t \in Tabs : toggleMode(t)
    BY <2>1, <2>3, ToggleModeInv
  <2>4. CASE \E f \in Flows : authServes(f) \/ rejects(f) \/ Browser(f) \/ Host(f) \/ User(f)
    BY <2>1, <2>4, AuthServesInv, RejectsInv, BrowserInv, HostInv, UserInv
  <2> QED
    BY <2>1, <2>2, <2>3, <2>4 DEF Step
<1> QED
  BY <1>1, <1>2

\* Every reachable state of the four programs is typed and satisfies IInv: a
\* request is only ever in a host, the rest in a tab of a web application;
\* a subject past the dispatch is nobody or was resolved; an answer that lets
\* a navigation through was true when it was given.
THEOREM ConsoleInvariant == Spec => [](TypeOK /\ IInv)
<1>1. Init => IInv
  BY InitInv
<1>2. IInv /\ [Next]_vars => IInv'
  BY Inductive
<1>3. IInv => TypeOK
  BY InvTyped
<1> QED
  BY <1>1, <1>2, <1>3, PTL DEF Spec

\* A list is answered for a subject that the session's user was, at some
\* moment while the request was served.
THEOREM ListsAreForMembers == Spec => []SubjectWasMember
<1>1. IInv => SubjectWasMember
  BY DEF IInv, FlowInv, AnswerInv, SubjectWasMember
<1> QED
  BY <1>1, ConsoleInvariant, PTL

\* No submit throws once an account exists, for any name that is typed: a
\* user's name that is accepted makes an organization's name that is, and
\* every accepted name makes a slug that is a DNS label.
THEOREM AcceptedNamesFit == Spec => []NamesFit
<1>1. ASSUME IInv PROVE NamesFit
  <2>1. ASSUME NEW f \in Flows PROVE flow[f].kind # "threw"
    <3>1. flow[f] \in FlowType
      BY <1>1 DEF IInv, FlowsOK
    <3> QED
      BY <3>1 DEF FlowType, Kinds, None
  <2> QED
    BY <1>1, <2>1 DEF IInv, TabsInv, TabInv, NamesFit
<1> QED
  BY <1>1, ConsoleInvariant, PTL

\* A request is answered with a status its endpoint declares, in both hosts.
THEOREM AnswersAreDeclared == Spec => []ContractKept
<1>1. ASSUME IInv PROVE ContractKept
  <2> SUFFICES ASSUME NEW f \in Flows, flow[f].at = "body",
                      flow[f].route \in DOMAIN (IF app = "console-api" THEN ConsoleApi ELSE BackofficeApi)
               PROVE  flow[f].status \in (IF app = "console-api" THEN ConsoleApi ELSE BackofficeApi)[flow[f].route].statuses
    BY DEF ContractKept
  <2>1. AnswerInv(f)
    BY <1>1 DEF IInv, FlowInv
  <2>2. CASE app = "console-api"
    <3>1. flow[f].route \in {"health", "list"}
      BY <2>2 DEF ConsoleApi
    <3>2. {200, InternalError} \subseteq ConsoleApi.health.statuses
      BY DEF ConsoleApi, SystemApiGroup, AddError
    <3>3. {200, UnauthenticatedError, UnauthorizedError, InternalError} \subseteq ConsoleApi.list.statuses
      BY DEF ConsoleApi, SandboxesApiGroup, AddError, OrganizationAuthentication
    <3> QED
      BY <1>1, <2>1, <2>2, <3>1, <3>2, <3>3 DEF AnswerInv
  <2>3. CASE app # "console-api"
    <3>1. flow[f].route = "health"
      BY <2>3 DEF BackofficeApi
    <3>2. {200, UnauthenticatedError, UnauthorizedError, InternalError} \subseteq BackofficeApi.health.statuses
      BY DEF BackofficeApi, BackofficeOperationsApiGroup, AddError
    <3> QED
      BY <2>1, <2>3, <3>1, <3>2 DEF AnswerInv
  <2> QED
    BY <2>2, <2>3
<1> QED
  BY <1>1, ConsoleInvariant, PTL

-----------------------------------------------------------------------------
(* The pages behind the guards *)

\* What GuardedPages says of a step.
Reached ==
  \A t \in Tabs : page[t] \notin Behind /\ page'[t] \in Behind =>
    navigation[t] \in Flows /\ <<NoOrg, "entitled">> \in seen[navigation[t]]

LEMMA StaysReached ==
  ASSUME page' = page
  PROVE  Reached
BY DEF Reached

LEMMA ShowReached ==
  ASSUME PagesOK, NEW t \in Tabs, NEW goal, page[t] \in Behind \/ goal \notin Behind,
         Show(t, goal) \/ Mount(t, goal)
  PROVE  Reached
<1>1. page' = page \/ page' = [page EXCEPT ![t] = goal]
  BY DEF Show, Mount, Stays
<1>2. ASSUME NEW u \in Tabs PROVE page'[u] = page[u] \/ (u = t /\ page'[u] = goal)
  BY <1>1 DEF PagesOK
<1> QED
  BY <1>2 DEF Reached

\* To navigate is not to arrive, except from one page of the layout to
\* another.
LEMMA NavigateReached ==
  ASSUME PagesOK, NEW f, NEW goal, NEW changes, changes.tab \in Tabs, Navigate(f, goal, changes)
  PROVE  Reached
<1>1. CASE Guards(changes.tab, goal)
  BY <1>1, StaysReached DEF Navigate, Stays
<1>2. CASE ~Guards(changes.tab, goal)
  <2>1. page[changes.tab] \in Behind \/ goal \notin Behind
    BY <1>2 DEF Guards, Loaded
  <2> QED
    BY <1>2, <2>1, ShowReached DEF Navigate
<1> QED
  BY <1>1, <1>2

LEMMA RedirectReached ==
  ASSUME PagesOK, NEW f, NEW goal, flow[f].tab \in Tabs, Redirect(f, goal)
  PROVE  Reached
<1>1. CASE Navigate(f, goal, flow[f])
  BY <1>1, NavigateReached
<1>2. CASE Stays
  BY <1>2, StaysReached DEF Stays
<1> QED
  BY <1>1, <1>2 DEF Redirect

\* Only a commit arrives, and then the function has seen its entitlement.
LEMMA CommitReached ==
  ASSUME PagesOK, NEW f \in Flows, flow[f].tab \in Tabs, Commit(f),
         flow[f].goal \in Behind => <<NoOrg, "entitled">> \in seen[f]
  PROVE  Reached
<1>1. CASE Stays
  BY <1>1, StaysReached DEF Stays
<1>2. CASE navigation[flow[f].tab] = f /\ Show(flow[f].tab, flow[f].goal)
  <2>1. ASSUME NEW u \in Tabs, page'[u] # page[u]
        PROVE  u = flow[f].tab /\ page'[u] = flow[f].goal
    BY <1>2, <2>1 DEF Show, Mount, Stays, PagesOK
  <2> QED
    BY <1>2, <2>1 DEF Reached
<1> QED
  BY <1>1, <1>2 DEF Commit

LEMMA EnsuredReached ==
  ASSUME PagesOK, NEW f \in Flows, flow[f].tab \in Tabs, NEW has \in BOOLEAN, Ensured(f, has),
         has /\ flow[f].goal \in Behind => <<NoOrg, "entitled">> \in seen[f]
  PROVE  Reached
<1>1. CASE Navigate(f, IF has THEN "sandboxes" ELSE "onboarding", flow[f])
  BY <1>1, NavigateReached
<1>2. CASE flow[f].goal # None /\ has /\ Commit(f)
  BY <1>2, CommitReached
<1>3. CASE Redirect(f, "onboarding")
  BY <1>3, RedirectReached
<1> QED
  BY <1>1, <1>2, <1>3 DEF Ensured

LEMMA BrowserReached ==
  ASSUME IInv, NEW f \in Flows, Browser(f)
  PROVE  Reached
<1>1. PagesOK /\ FlowInv(f) /\ flow[f] \in FlowType
  BY DEF IInv, TabsInv, FlowsOK
<1>2. flow[f].at \in WebCalls /\ flow[f].answer # "unheard" => flow[f].tab \in Tabs
  BY <1>1 DEF FlowInv, PlaceInv
<1>3. CASE requireSession(f)
  <2>1. flow[f].at = "getSession" /\ flow[f].tab \in Tabs
    BY <1>2, <1>3 DEF requireSession, Has, WebCalls
  <2>2. CASE Redirect(f, "sign-in")
    BY <1>1, <2>1, <2>2, RedirectReached
  <2>3. CASE UNCHANGED tabs
    BY <2>3, StaysReached DEF tabs
  <2>4. CASE flow[f].goal \notin Behind /\ Commit(f)
    BY <1>1, <2>1, <2>4, CommitReached
  <2> QED
    BY <1>3, <2>2, <2>3, <2>4 DEF requireSession
<1>4. CASE requireAdministrator(f)
  <2>1. flow[f].at = "getSession" /\ flow[f].tab \in Tabs /\ app = "backoffice-web"
    BY <1>2, <1>4 DEF requireAdministrator, Has, WebCalls
  <2>2. CASE Ok(f) /\ Commit(f)
    <3>1. flow[f].goal \in Behind => <<NoOrg, "entitled">> \in seen[f]
      BY <1>1, <2>1, <2>2 DEF FlowInv, GuardInv
    <3> QED
      BY <1>1, <2>1, <2>2, <3>1, CommitReached
  <2>3. CASE Redirect(f, "unauthorized") \/ Redirect(f, "sign-in")
    BY <1>1, <2>1, <2>3, RedirectReached
  <2> QED
    BY <1>4, <2>2, <2>3 DEF requireAdministrator
<1>5. CASE ensureActiveOrganization(f)
  <2>1. flow[f].tab \in Tabs
    BY <1>2, <1>5 DEF ensureActiveOrganization, Has, WebCalls, ConsoleCalls
  <2>2. CASE UNCHANGED tabs
    BY <2>2, StaysReached DEF tabs
  <2>3. CASE Has(f, "ensure") /\ ~(Ok(f) /\ flow[f].org = NoOrg) /\ Ensured(f, Ok(f))
    <3>1. Ok(f) /\ flow[f].goal \in Behind => <<NoOrg, "entitled">> \in seen[f]
      BY <1>1, <2>3 DEF FlowInv, GuardInv, Has
    <3> QED
      BY <1>1, <2>1, <2>3, <3>1, EnsuredReached DEF Ok
  <2>4. CASE Ensured(f, FALSE)
    BY <1>1, <2>1, <2>4, EnsuredReached
  <2>5. CASE Has(f, "setActive") /\ Ensured(f, Ok(f))
    <3>1. Ok(f) /\ flow[f].goal \in Behind => <<NoOrg, "entitled">> \in seen[f]
      BY <1>1, <2>5 DEF FlowInv, GuardInv, Has
    <3> QED
      BY <1>1, <2>1, <2>5, <3>1, EnsuredReached DEF Ok
  <2> QED
    BY <1>5, <2>2, <2>3, <2>4, <2>5 DEF ensureActiveOrganization
<1>6. CASE signedIn(f) \/ signedUp(f) \/ created(f) \/ activated(f) \/ signedOut(f)
  <2>1. flow[f].tab \in Tabs
    BY <1>2, <1>6 DEF signedIn, signedUp, created, activated, signedOut, Has, WebCalls, ConsoleCalls
  <2>2. CASE UNCHANGED tabs \/ Complains(f, "server")
    BY <2>2, StaysReached DEF tabs, Complains
  <2>3. CASE \E goal \in {"overview", "sandboxes", "sign-in"} : Navigate(f, goal, flow[f])
    BY <1>1, <2>1, <2>3, NavigateReached
  <2> QED
    BY <1>6, <2>2, <2>3 DEF signedIn, signedUp, created, activated, signedOut
<1>7. CASE unheard(f)
  BY <1>7, StaysReached DEF unheard, tabs
<1> QED
  BY <1>3, <1>4, <1>5, <1>6, <1>7 DEF Browser

LEMMA OpenReached ==
  ASSUME PagesOK, NEW f, NEW t \in Tabs, NEW goal, open(f, t, goal)
  PROVE  Reached
<1> DEFINE changes == [Idle EXCEPT !.tab = t]
<1>1. changes.tab = t
  BY DEF Idle
<1>2. Navigate(f, goal, changes)
  BY DEF open
<1> HIDE DEF changes
<1> QED
  BY <1>1, <1>2, NavigateReached

LEMMA LoadReached ==
  ASSUME PagesOK, NEW f, NEW t \in Tabs, NEW goal, load(f, t, goal)
  PROVE  Reached
<1>1. PICK shown : shown \notin Behind /\ Mount(t, shown)
  BY DEF load, Loaded, Behind
<1> QED
  BY <1>1, ShowReached

LEMMA RejectsReached ==
  ASSUME IInv, NEW f \in Flows, rejects(f)
  PROVE  Reached
<1>1. PagesOK /\ flow[f].tab \in Tabs
  BY DEF IInv, TabsInv, FlowInv, PlaceInv, rejects
<1>2. CASE Show(flow[f].tab, "error")
  BY <1>1, <1>2, ShowReached DEF Behind
<1>3. CASE Stays
  BY <1>3, StaysReached DEF Stays
<1> QED
  BY <1>2, <1>3 DEF rejects

LEMMA StepReached ==
  ASSUME IInv, Step
  PROVE  Reached
<1>1. CASE elsewhere \/ \E t \in Tabs : toggleMode(t)
  BY <1>1, StaysReached DEF elsewhere, toggleMode, tabs
<1>2. ASSUME NEW f \in Flows, authServes(f) \/ Host(f)
      PROVE  Reached
  <2>1. CASE authServes(f)
    BY <2>1, StaysReached DEF authServes, tabs
  <2>2. CASE Host(f)
    <3>1. UNCHANGED tabs
      <4>1. dispatch(f) \/ authorizeOperator(f) \/ resolveSession(f) => UNCHANGED tabs
        BY DEF dispatch, authorizeOperator, resolveSession
      <4>2. resolveMember(f) => UNCHANGED tabs
        BY DEF resolveMember
      <4>3. handle(f) => UNCHANGED tabs
        BY Zenon DEF handle
      <4>4. writeBody(f) \/ fails(f) => UNCHANGED tabs
        BY Zenon DEF writeBody, fails
      <4> QED
        BY <2>2, <4>1, <4>2, <4>3, <4>4 DEF Host
    <3> QED
      BY <3>1, StaysReached DEF tabs
  <2> QED
    BY <1>2, <2>1, <2>2
<1>3. ASSUME NEW f \in Flows, User(f)
      PROVE  Reached
  <2>1. PagesOK
    BY DEF IInv, TabsInv
  <2>2. CASE \E t \in Tabs, goal \in Pages : open(f, t, goal) \/ load(f, t, goal)
    BY <2>1, <2>2, OpenReached, LoadReached
  <2>3. CASE page' = page
    BY <2>3, StaysReached
  <2> QED
    BY <1>3, <2>2, <2>3 DEF User, submitSignIn, signOut, submitSignUp, submitOrganization, Submits, receive, tabs
<1> QED
  BY <1>1, <1>2, <1>3, BrowserReached, RejectsReached DEF Step

\* No tab gets from outside the guarded layout to a page in it unless the
\* function whose navigation takes place has seen, since it began to navigate
\* there, a session that entitles to it.  Of a move between two pages of the
\* layout, where the guard does not run, nothing is said.
THEOREM PagesAreGuarded == Spec => GuardedPages
<1>1. IInv /\ [Next]_vars =>
        [\A t \in Tabs : page[t] \notin Behind /\ page'[t] \in Behind =>
           navigation[t] \in Flows /\ <<NoOrg, "entitled">> \in seen[navigation[t]]]_vars
  BY StepReached DEF Next, Reached
<1> QED
  BY <1>1, ConsoleInvariant, PTL DEF Spec, GuardedPages
=============================================================================
