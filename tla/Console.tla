------------------------------ MODULE Console ------------------------------
(***************************************************************************)
(* The console and the backoffice, each a program in the browser (forms,   *)
(* route guards, sign-out) and a host that gates every API request, over   *)
(* the session that the tabs of a browser share.  A behaviour is one of a  *)
(* single program of the four; the others are part of what changes the     *)
(* session and the memberships meanwhile.                                  *)
(*                                                                         *)
(* A flow is one run of an async function: a form's submit, a navigation   *)
(* with its loaders, a sign-out, or a request in the host.  At an await it *)
(* asks Better Auth, which is external, and the answer is acted on in a    *)
(* later step, when it may be out of date.  A button is not disabled while *)
(* its flow runs, so a tab can have several.                               *)
(***************************************************************************)
EXTENDS Tenancy, FiniteSets

CONSTANTS
  Tabs,                         \* the tabs of the browser
  Flows,                        \* bound: functions in progress at a time
  Orgs,                         \* bound: organizations, 1..n, in order of creation
  Names                         \* what is typed into a form's name field

ASSUME ConsoleBounds == Orgs \subseteq Nat \ {0}
ASSUME NamesAssumption == Names \subseteq Seq(Characters)

VARIABLES
  app,                          \* the program
  account,                      \* external: the user has an account
  session,                      \* external: the browser's session
  role,                         \* external: the user's role in an organization
  page, mode, alert,            \* of a tab: route shown, form mode, its error
  navigation,                   \* of a tab: the flow whose navigation is the latest
  flow,                         \* the functions in progress
  seen                          \* history: see Facts

auth == <<account, session, role>>
tabs == <<page, mode, alert, navigation>>
vars == <<app, auth, tabs, flow, seen>>

Web == {"console-web", "backoffice-web"}
Tenant == {"console-web", "console-api"}

None == "none"
NoOrg == 0
NoSubject == <<NoOrg, "none">>
Signed(org) == [in |-> TRUE, org |-> org]
SignedOut == [in |-> FALSE, org |-> NoOrg]

\* The pages with a loader: the layout's, which is that of all the pages in
\* it, and the onboarding's.  A sandbox's page is that of one sandbox.
Behind == {"sandboxes", "sandbox", "overview", "organizations"}
Loaded == Behind \cup {"onboarding"}

\* A blank tab is one whose document is being loaded.
Pages == Loaded \cup {"sign-in", "unauthorized", "error", "blank"}
MemberRoles == {"none", "owner", "viewer", "owner,admin"}
Effects == {"signIn.email", "signUp.email", "signOut", "create", "setActive"}
Calls == {"signIn.email", "signUp.email", "signOut", "getSession", "ensure", "list", "create",
          "setActive", "readBody", "gate", "member", "handler", "body"}
Routes == {None, "auth", "health", "list", "listAlias"}

Idle == [kind |-> None, tab |-> None, at |-> None, answer |-> "waiting", org |-> NoOrg,
         goal |-> None, label |-> TRUE, route |-> None, subject |-> NoSubject, status |-> 0]

TypeOK ==
  /\ app \in Web \cup Tenant \cup {"backoffice"} /\ account \in BOOLEAN
  /\ session \in {SignedOut} \cup {Signed(o) : o \in Orgs \cup {NoOrg}}
  /\ role \in [Orgs \cup {NoOrg} -> MemberRoles \cup {"user", "admin"}]
  /\ page \in [Tabs -> Pages] /\ mode \in [Tabs -> {"sign-in", "sign-up"}]
  /\ alert \in [Tabs -> {None, "name", "organization name", "server"}]
  /\ navigation \in [Tabs -> Flows \cup {None}]
  /\ \A f \in Flows :
       /\ flow[f].kind \in {None, "sign-in", "sign-up", "onboarding", "open", "sign-out", "request", "threw"}
       /\ flow[f].at \in Calls \cup {None} /\ flow[f].route \in Routes
       /\ flow[f].status \in {0, 200, 404, UnauthenticatedError, UnauthorizedError, InternalError}

\* The operator's role is kept under NoOrg.
Init ==
  /\ app \in Web \cup Tenant \cup {"backoffice"}
  /\ account = (app # "console-web")
  /\ session = SignedOut
  /\ role \in [Orgs \cup {NoOrg} -> {"none", "user", "admin"}]
  /\ \A o \in Orgs : role[o] = "none"
  /\ role[NoOrg] = "none" <=> app \in Tenant
  /\ page = [t \in Tabs |-> "sign-in"] /\ mode = [t \in Tabs |-> "sign-in"]
  /\ alert = [t \in Tabs |-> None] /\ navigation = [t \in Tabs |-> None]
  /\ flow = [f \in Flows |-> Idle] /\ seen = [f \in Flows |-> {}]

-----------------------------------------------------------------------------
(* Flows *)

\* The flow asks for something and waits.
Await(f, call, changes) ==
  flow' = [flow EXCEPT ![f] = [changes EXCEPT
             !.at = call, !.answer = "waiting",
             !.org = IF call \in {"setActive", "member"} THEN @ ELSE NoOrg]]

Start(f, changes) ==
  flow[f].at = None /\ flow' = [flow EXCEPT ![f] = changes]

\* The function returns; its navigation is over with it.
Ends(f) ==
  /\ flow' = [flow EXCEPT ![f] = Idle]
  /\ navigation' = [t \in Tabs |-> IF navigation[t] = f THEN None ELSE navigation[t]]

\* The form's error, if the form is still there.
Complains(f, what) ==
  /\ alert' = [t \in Tabs |->
       IF t = flow[f].tab /\ page[t] = (IF flow[f].kind = "onboarding" THEN "onboarding" ELSE "sign-in")
       THEN what ELSE alert[t]]
  /\ Ends(f)
  /\ UNCHANGED <<page, mode>>

Has(f, call) == flow[f].at = call /\ flow[f].answer \notin {"waiting", "unheard"}
Ok(f) == flow[f].answer = "ok"

Stays == UNCHANGED <<page, mode, alert>>

\* A route's component is mounted anew, with the state it starts with.
Mount(t, goal) ==
  /\ page' = [page EXCEPT ![t] = goal]
  /\ mode' = [mode EXCEPT ![t] = "sign-in"]
  /\ alert' = [alert EXCEPT ![t] = None]

Show(t, goal) == IF page[t] = goal THEN Stays ELSE Mount(t, goal)

\* The loader of a route runs as the route is entered, and when the page that
\* is shown is navigated to again; between two pages of the layout, the
\* layout stays and its loader with it.
Guards(t, goal) == goal \in Loaded /\ (page[t] \in Behind /\ goal \in Behind => page[t] = goal)

\* navigate: the newest navigation of a tab is the one that takes place.
Navigate(f, goal, changes) ==
  IF Guards(changes.tab, goal)
  THEN /\ navigation' = [navigation EXCEPT ![changes.tab] = f]
       /\ Await(f, "getSession", [changes EXCEPT !.kind = "open", !.goal = goal])
       /\ Stays
  ELSE /\ navigation' = [navigation EXCEPT ![changes.tab] = None]
       /\ flow' = [flow EXCEPT ![f] = Idle]
       /\ Show(changes.tab, goal)

\* A loader's redirect, and its return: a navigation that has been
\* superseded comes to nothing.
Redirect(f, goal) ==
  IF navigation[flow[f].tab] = f THEN Navigate(f, goal, flow[f]) ELSE Ends(f) /\ Stays

Commit(f) ==
  /\ IF navigation[flow[f].tab] = f THEN Show(flow[f].tab, flow[f].goal) ELSE Stays
  /\ Ends(f)

-----------------------------------------------------------------------------
(* Better Auth, the network included: a call fails, before or after it has *)
(* had its effect, or is answered.                                         *)

Answer(f, answer, org) ==
  flow' = [flow EXCEPT ![f].answer = answer, ![f].org = org]

Memberships == {o \in Orgs : role[o] # "none"}
Least(S) == IF S = {} THEN NoOrg ELSE CHOOSE o \in S : \A p \in S : o <= p
Fresh == {o \in Orgs : \A p \in Orgs : p < o => role[p] # "none"} \ Memberships

performs(f) ==
  CASE flow[f].at = "signIn.email" -> account /\ session' = Signed(NoOrg) /\ UNCHANGED <<account, role>>
    [] flow[f].at = "signUp.email" ->
         ~account /\ account' = TRUE /\ session' = Signed(NoOrg) /\ UNCHANGED role
    [] flow[f].at = "signOut" -> session' = SignedOut /\ UNCHANGED <<account, role>>
    [] flow[f].at = "create" ->
         /\ session.in /\ Fresh # {}
         /\ role' = [role EXCEPT ![Least(Fresh)] = "owner"] /\ UNCHANGED <<account, session>>
    [] flow[f].at = "setActive" ->
         /\ session.in /\ role[flow[f].org] # "none"
         /\ session' = Signed(flow[f].org) /\ UNCHANGED <<account, role>>
    [] OTHER -> UNCHANGED auth

answered(f) ==
  CASE flow[f].at \in {"getSession", "ensure", "gate"} ->
         Answer(f, CASE ~session.in -> "null"
                     [] app \notin Tenant /\ role[NoOrg] # "admin" -> "user"
                     [] OTHER -> "ok", IF flow[f].at = "getSession" THEN NoOrg ELSE session.org)
    [] flow[f].at = "list" -> Answer(f, "ok", Least(Memberships))
    [] flow[f].at = "create" -> Answer(f, "ok", Least(Fresh))
    [] OTHER -> Answer(f, "ok", flow[f].org)

authServes(f) ==
  /\ flow[f].at \in Calls \ {"readBody", "member", "handler", "body"} /\ flow[f].answer = "waiting"
  /\ \/ performs(f) /\ answered(f)
     \/ performs(f) /\ Answer(f, "failed", flow[f].org)
     \/ UNCHANGED auth /\ Answer(f, "failed", flow[f].org)
  /\ UNCHANGED <<app, tabs>>

\* The connection breaks: the call rejects, in a loader into the route's
\* error page, elsewhere out of the function.
rejects(f) ==
  /\ flow[f].kind # "request" /\ flow[f].at # None /\ flow[f].answer = "waiting"
  /\ performs(f) \/ UNCHANGED auth
  /\ IF flow[f].goal # None /\ navigation[flow[f].tab] = f THEN Show(flow[f].tab, "error") ELSE Stays
  /\ Ends(f)
  /\ UNCHANGED app

\* Other members, the operators, time; and for a host, whatever the browser
\* does with its session.
elsewhere ==
  /\ \/ session.in /\ session' = SignedOut /\ UNCHANGED role
     \/ \E o \in Memberships, r \in (IF app \in Web THEN {"none"} ELSE MemberRoles) : role' = [role EXCEPT ![o] = r] /\ UNCHANGED session
     \/ app \notin Tenant /\ role' = [role EXCEPT ![NoOrg] = "user"] /\ UNCHANGED session
     \/ app \notin Web /\ (\E o \in Memberships \cup {NoOrg} : session' = Signed(o)) /\ UNCHANGED role
     \/ app = "console-api" /\ (\E o \in Orgs : role' = [role EXCEPT ![o] = "owner"]) /\ UNCHANGED session
  /\ UNCHANGED <<app, account, tabs, flow>>

-----------------------------------------------------------------------------
(* Route guards *)

\* Mutant of requireSession: a session is enough for every page.
requireSessionOnly(f) ==
  /\ app = "console-web" /\ Has(f, "getSession")
  /\ IF ~Ok(f) THEN Redirect(f, "sign-in") ELSE Commit(f)
  /\ UNCHANGED <<app, auth>>

\* requireSession, and requireActiveOrganization, which begins with it.
requireSession(f) ==
  /\ app = "console-web" /\ Has(f, "getSession")
  /\ IF ~Ok(f) THEN Redirect(f, "sign-in")
     ELSE IF flow[f].goal \in Behind
     THEN Await(f, "ensure", flow[f]) /\ UNCHANGED tabs
     ELSE Commit(f)
  /\ UNCHANGED <<app, auth>>

requireAdministrator(f) ==
  /\ app = "backoffice-web" /\ Has(f, "getSession")
  /\ CASE Ok(f) -> Commit(f)
       [] flow[f].answer = "user" -> Redirect(f, "unauthorized")
       [] OTHER -> Redirect(f, "sign-in")
  /\ UNCHANGED <<app, auth>>

\* Whether setActive was called by the form that created the organization.
Creator(f) == flow[f].kind \in {"sign-up", "onboarding"}

\* What ensureActiveOrganization returns goes to a loader, or to a sign-in
\* that navigates by it.
Ensured(f, has) ==
  IF flow[f].goal = None
  THEN Navigate(f, IF has THEN "sandboxes" ELSE "onboarding", flow[f])
  ELSE IF has THEN Commit(f) ELSE Redirect(f, "onboarding")

ensureActiveOrganization(f) ==
  /\ \/ /\ Has(f, "ensure")
        /\ IF Ok(f) /\ flow[f].org = NoOrg
           THEN Await(f, "list", flow[f]) /\ UNCHANGED tabs ELSE Ensured(f, Ok(f))
     \/ /\ Has(f, "list")
        /\ IF Ok(f) /\ flow[f].org # NoOrg
           THEN Await(f, "setActive", flow[f]) /\ UNCHANGED tabs ELSE Ensured(f, FALSE)
     \/ Has(f, "setActive") /\ ~Creator(f) /\ Ensured(f, Ok(f))
  /\ UNCHANGED <<app, auth>>

\* The paths of the application.
Paths ==
  IF app = "console-web" THEN {"sign-in", "onboarding", "sandboxes", "sandbox"}
  ELSE {"sign-in", "unauthorized", "overview", "organizations", "sandboxes"}

\* A link, or the browser's back and forward.
open(f, t, goal) ==
  /\ flow[f].at = None /\ app \in Web /\ goal \in Paths
  /\ Navigate(f, goal, [Idle EXCEPT !.tab = t])
  /\ UNCHANGED <<app, auth>>

\* The document of a function is gone: of a call on its way, the effect is
\* left.
Left(g) ==
  IF flow[g].at \in Effects /\ flow[g].answer = "waiting"
  THEN [Idle EXCEPT !.at = flow[g].at, !.org = flow[g].org, !.answer = "unheard"] ELSE Idle

\* The address bar, or a reload: another document, whose router starts on
\* the path.
load(f, t, goal) ==
  /\ flow[f].at = None /\ app \in Web /\ goal \in Paths
  /\ Mount(t, IF goal \in Loaded THEN "blank" ELSE goal)
  /\ navigation' = [navigation EXCEPT ![t] = IF goal \in Loaded THEN f ELSE None]
  /\ flow' = [g \in Flows |->
       IF g = f /\ goal \in Loaded
       THEN [Idle EXCEPT !.kind = "open", !.tab = t, !.at = "getSession", !.goal = goal]
       ELSE IF flow[g].tab = t THEN Left(g) ELSE flow[g]]
  /\ UNCHANGED <<app, auth>>

\* A call that nobody waits for any more reaches Better Auth, or does not.
unheard(f) ==
  /\ flow[f].answer = "unheard"
  /\ performs(f) \/ UNCHANGED auth
  /\ flow' = [flow EXCEPT ![f] = Idle]
  /\ UNCHANGED <<app, tabs>>

-----------------------------------------------------------------------------
(* Forms *)

toggleMode(t) ==
  /\ page[t] = "sign-in" /\ app = "console-web"
  /\ mode' = [mode EXCEPT ![t] = IF @ = "sign-in" THEN "sign-up" ELSE "sign-in"]
  /\ UNCHANGED <<app, auth, page, alert, navigation, flow>>

submitSignIn(f, t) ==
  /\ app \in Web /\ page[t] = "sign-in" /\ mode[t] = "sign-in"
  /\ Start(f, [Idle EXCEPT !.kind = "sign-in", !.tab = t, !.at = "signIn.email"])
  /\ alert' = [alert EXCEPT ![t] = IF app \in Tenant THEN None ELSE @]
  /\ UNCHANGED <<app, auth, page, mode, navigation>>

signedIn(f) ==
  /\ Has(f, "signIn.email")
  /\ IF ~Ok(f) THEN Complains(f, "server")
     ELSE IF app \in Tenant THEN Await(f, "ensure", flow[f]) /\ UNCHANGED tabs
     ELSE Navigate(f, "overview", flow[f])
  /\ UNCHANGED <<app, auth>>

\* What the two forms make of the name: both names of a sign-up are checked
\* before the account is asked for.
signUpName ==
  [name \in Names |->
     LET user == parseUserDisplayName(name)
         own == parseOrganizationName(ownersName(user.value))
     IN [problem |-> IF ~user.valid THEN "name" ELSE IF ~own.valid THEN "organization name" ELSE None,
         label |-> OrganizationSlugSchema(createOrganizationSlug(own.value))]]

organizationName ==
  [name \in Names |->
     LET own == parseOrganizationName(name)
     IN [problem |-> IF own.valid THEN None ELSE "organization name",
         label |-> OrganizationSlugSchema(createOrganizationSlug(own.value))]]

Submits(f, t, form, changes) ==
  /\ IF form.problem = None THEN Start(f, changes) ELSE flow[f].at = None /\ UNCHANGED flow
  /\ alert' = [alert EXCEPT ![t] = form.problem]
  /\ UNCHANGED <<app, auth, page, mode, navigation>>

submitSignUp(f, t, name) ==
  /\ page[t] = "sign-in" /\ mode[t] = "sign-up"
  /\ Submits(f, t, signUpName[name], [Idle EXCEPT !.kind = "sign-up", !.tab = t, !.at = "signUp.email",
                                                 !.label = signUpName[name].label])

\* The slug is made as create is called; a slug that is not a label throws
\* out of the submit, and nothing is shown.
Creating(changes, label) ==
  IF label THEN [changes EXCEPT !.at = "create", !.answer = "waiting", !.label = TRUE]
  ELSE [Idle EXCEPT !.kind = "threw"]

submitOrganization(f, t, name) ==
  /\ page[t] = "onboarding"
  /\ Submits(f, t, organizationName[name],
             Creating([Idle EXCEPT !.kind = "onboarding", !.tab = t], organizationName[name].label))

signedUp(f) ==
  /\ Has(f, "signUp.email")
  /\ IF ~Ok(f) THEN Complains(f, "server")
     ELSE flow' = [flow EXCEPT ![f] = Creating(flow[f], flow[f].label)] /\ UNCHANGED tabs
  /\ UNCHANGED <<app, auth>>

created(f) ==
  /\ Has(f, "create")
  /\ IF ~Ok(f) THEN Complains(f, "server") ELSE Await(f, "setActive", flow[f]) /\ UNCHANGED tabs
  /\ UNCHANGED <<app, auth>>

\* A sign-up goes on whatever setActive answers; the onboarding form looks.
activated(f) ==
  /\ Has(f, "setActive") /\ Creator(f)
  /\ IF flow[f].kind = "onboarding" /\ ~Ok(f) THEN Complains(f, "server")
     ELSE Navigate(f, "sandboxes", flow[f])
  /\ UNCHANGED <<app, auth>>

\* The button of the layout, and what follows whatever signOut answers.
signOut(f, t) ==
  /\ page[t] \in Behind
  /\ Start(f, [Idle EXCEPT !.kind = "sign-out", !.tab = t, !.at = "signOut"])
  /\ UNCHANGED <<app, auth, tabs>>

signedOut(f) ==
  /\ Has(f, "signOut")
  /\ Navigate(f, "sign-in", flow[f])
  /\ UNCHANGED <<app, auth>>

-----------------------------------------------------------------------------
(* The host *)

Reaches(f, call) == Await(f, call, flow[f])

\* writeWebResponse: the head goes out, then the body is awaited.
Answers(f, status) == flow' = [flow EXCEPT ![f].at = "body", ![f].status = status]

\* The subject headers a request arrives with are anybody's.  Requests share
\* nothing in the host: one is followed at a time.
receive(f, route, headers) ==
  /\ app \notin Web /\ \A g \in Flows : flow[g].at = None
  /\ Start(f, [Idle EXCEPT !.kind = "request", !.at = "readBody", !.route = route, !.subject = headers])
  /\ UNCHANGED <<app, auth, tabs>>

\* Mutant of requiresAuthenticatedMember: every route is gated.
requiresAlways(route) == TRUE

\* createGuardedRouteMatcher: the paths of the endpoints that declare the
\* middleware.  A path that only the API's router takes for one is not.
requiresAuthenticatedMember(route) == route \in DOMAIN ConsoleApi /\ ConsoleApi[route].guarded

\* Mutant of withoutAuthenticatedMember: the headers stay.
subjectKept(f) == flow[f]

withoutAuthenticatedMember(f) == [flow[f] EXCEPT !.subject = NoSubject]

\* authPath first; the two hosts' gates begin by dropping the subject.
dispatch(f) ==
  /\ flow[f].at = "readBody"
  /\ IF flow[f].route = "auth" THEN Reaches(f, "handler")
     ELSE Await(f, IF app = "backoffice" \/ requiresAuthenticatedMember(flow[f].route)
                   THEN "gate" ELSE "handler", withoutAuthenticatedMember(f))
  /\ UNCHANGED <<app, auth, tabs>>

\* authorizeApi of the backoffice: an administrator's session, for everything.
authorizeOperator(f) ==
  /\ app = "backoffice" /\ Has(f, "gate") /\ flow[f].answer # "failed"
  /\ CASE Ok(f) -> Reaches(f, "handler")
       [] flow[f].answer = "user" -> Answers(f, UnauthorizedError)
       [] OTHER -> Answers(f, UnauthenticatedError)
  /\ UNCHANGED <<app, auth, tabs>>

resolveSession(f) ==
  /\ app = "console-api" /\ Has(f, "gate") /\ flow[f].answer # "failed"
  /\ IF ~Ok(f) THEN Answers(f, UnauthenticatedError)
     ELSE IF flow[f].org = NoOrg THEN Answers(f, ActiveOrganizationRequiredError)
     ELSE Reaches(f, "member")
  /\ UNCHANGED <<app, auth, tabs>>

\* AuthenticatedMemberSchema, as the gate and the middleware decode it.
decodes(subject) == subject[1] # NoOrg /\ subject[2] \in OrganizationRoleSchema

withAuthenticatedMember(f, subject) == [flow[f] EXCEPT !.subject = subject, !.at = "handler"]

\* The role in the organization the session had; a failure to tell, or a
\* role that does not decode, bars the caller.
resolveMember(f) ==
  LET subject == <<flow[f].org, role[flow[f].org]>> IN
  /\ flow[f].at = "member"
  /\ \/ decodes(subject) /\ flow' = [flow EXCEPT ![f] = withAuthenticatedMember(f, subject)]
     \/ Answers(f, UnauthorizedError)
  /\ UNCHANGED <<app, auth, tabs>>

requirePermission(permission, subject) ==
  IF hasOrganizationPermission(subject[2], permission) THEN 200 ELSE ForbiddenError

\* ListSandboxesUseCase: the organization's sandboxes, to who may read them.
listSandboxes(subject) == requirePermission(<<"sandbox", "read">>, subject)

\* OrganizationAuthenticationLive: without headers that decode, the request
\* did not pass the gate.
organizationAuthentication(subject) ==
  IF decodes(subject) THEN listSandboxes(subject) ELSE UnauthenticatedError

getHealth == 200

\* The API's router finds the endpoint, under any spelling of its path.
handle(f) ==
  /\ flow[f].at = "handler"
  /\ CASE app = "console-api" /\ flow[f].route \in {"list", "listAlias"} ->
            Answers(f, organizationAuthentication(flow[f].subject))
       [] flow[f].route \in {"health", "auth"} -> Answers(f, getHealth)
       [] OTHER -> Answers(f, 404)
  /\ UNCHANGED <<app, auth, tabs>>

writeBody(f) ==
  /\ flow[f].at = "body"
  /\ flow' = [flow EXCEPT ![f] = Idle]
  /\ UNCHANGED <<app, auth, tabs>>

Throws(f) ==
  \/ flow[f].at \in {"readBody", "handler", "body"}
  \/ flow[f].at = "gate" /\ flow[f].answer = "failed"

\* Mutant of fails: the head is written a second time, which throws again.
failsAgain(f) ==
  /\ flow[f].kind = "request" /\ Throws(f)
  /\ IF flow[f].at = "body" THEN flow' = [flow EXCEPT ![f].at = "thrown"]
     ELSE Answers(f, InternalError)
  /\ UNCHANGED <<app, auth, tabs>>

\* The catch of the host: a head that is out stays out, and the internal
\* error's body, with its status where no head is out, ends the response.
fails(f) ==
  /\ flow[f].kind = "request" /\ Throws(f)
  /\ IF flow[f].at = "body" THEN flow' = [flow EXCEPT ![f] = Idle] ELSE Answers(f, InternalError)
  /\ UNCHANGED <<app, auth, tabs>>

-----------------------------------------------------------------------------

Browser(f) ==
  \/ requireSession(f) \/ requireAdministrator(f) \/ ensureActiveOrganization(f)
  \/ signedIn(f) \/ signedUp(f) \/ created(f) \/ activated(f) \/ signedOut(f)
  \/ unheard(f)

Host(f) ==
  \/ dispatch(f) \/ authorizeOperator(f) \/ resolveSession(f) \/ resolveMember(f)
  \/ handle(f) \/ writeBody(f) \/ fails(f)

Forged == {<<o, "owner">> : o \in Orgs}

User(f) ==
  \/ \E t \in Tabs : submitSignIn(f, t) \/ signOut(f, t)
  \/ \E t \in Tabs, name \in Names : submitSignUp(f, t, name) \/ submitOrganization(f, t, name)
  \/ \E t \in Tabs, goal \in Pages : open(f, t, goal) \/ load(f, t, goal)
  \/ \E route \in Routes \ {None}, headers \in Forged \cup {NoSubject} : receive(f, route, headers)

Step ==
  \/ \E f \in Flows : authServes(f) \/ rejects(f) \/ Browser(f) \/ Host(f) \/ User(f)
  \/ \E t \in Tabs : toggleMode(t)
  \/ elsewhere

(***************************************************************************)
(* What was so at some moment since the request, or the navigation to a    *)
(* page behind the guard, began: the user's memberships, and whether the   *)
(* session entitled to the page.                                           *)
(***************************************************************************)
Entitled ==
  session.in /\ IF app \in Tenant THEN session.org # NoOrg ELSE role[NoOrg] = "admin"

Facts ==
  IF app \in Web THEN (IF Entitled THEN {<<NoOrg, "entitled">>} ELSE {})
  ELSE {<<o, role[o]>> : o \in Memberships}

Begins(f) ==
  \/ flow[f].kind # "request" /\ flow'[f].kind = "request"
  \/ flow[f].goal \notin Behind /\ flow'[f].goal \in Behind

Observe ==
  seen' = [f \in Flows |->
    CASE flow'[f].kind # "request" /\ flow'[f].goal \notin Behind -> {}
      [] OTHER -> (IF Begins(f) THEN {} ELSE seen[f]) \cup Facts']

Next == Step /\ Observe

Spec == Init /\ [][Next]_vars

\* Better Auth answers or fails, and an answer that has come is acted on.
FairSpec == Spec /\ \A f \in Flows : WF_flow(authServes(f) \/ Browser(f) \/ Host(f))

-----------------------------------------------------------------------------
(* Properties *)

\* A list is answered for a subject the host resolved: at some moment while
\* the request was served, the session's user had that role in that
\* organization.  Whatever headers the request arrived with, whichever
\* spelling of the path the router resolved, and however the membership, the
\* active organization or the session changed between two awaits.
SubjectWasMember ==
  \A f \in Flows :
    app = "console-api" /\ flow[f].at = "body" /\ flow[f].status = 200 /\ flow[f].route \in {"list", "listAlias"}
      => flow[f].subject \in seen[f]

\* A request is answered with a status its endpoint declares: the gate,
\* which runs before the contract does, never rejects what the contract says
\* is open, and never fails a guarded one in a way the client cannot decode.
ContractKept ==
  \A f \in Flows :
    LET api == IF app = "console-api" THEN ConsoleApi ELSE BackofficeApi IN
    flow[f].at = "body" /\ flow[f].route \in DOMAIN api => flow[f].status \in api[flow[f].route].statuses

\* No tab gets from outside the guarded layout to a page in it unless, since
\* the navigation that takes place began, there was a moment when the session
\* was signed in with an active organization (or was an administrator's): not
\* by a sign-up that ignored what setActive answered, nor by a second submit
\* or a reload that crosses the first, nor by what another tab does to the
\* session.  From one page of the layout to another nothing of the kind
\* holds: the guard does not run.
GuardedPages ==
  [][\A t \in Tabs : page[t] \notin Behind /\ page'[t] \in Behind =>
       navigation[t] \in Flows /\ <<NoOrg, "entitled">> \in seen[navigation[t]]]_vars

\* A user's name that a sign-up accepts makes an organization's name that is
\* accepted too, and every accepted organization's name a slug that is a DNS
\* label: no submit throws once an account exists.
NamesFit ==
  /\ \A f \in Flows : flow[f].kind # "threw"
  /\ \A t \in Tabs : alert[t] = "organization name" => page[t] = "onboarding"

\* Every function that starts comes to an end: a form's submit, a chain of
\* redirects, a request, the ones whose body fails after the head is out too.
FlowsEnd == \A f \in Flows : flow[f].at # None ~> flow[f].at = None
=============================================================================
