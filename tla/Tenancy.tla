------------------------------ MODULE Tenancy ------------------------------
(***************************************************************************)
(* The tenancy rules the console's browser and server sides share: what a  *)
(* name, a label and an identifier may be, the permission matrix and the   *)
(* catalog of permissions, and the endpoints of the two APIs with the      *)
(* failures they declare.                                                  *)
(*                                                                         *)
(* A text is a sequence of character classes: a lower-case letter or a     *)
(* digit, an upper-case letter, any other printable character, a space,    *)
(* and a tab, which is white space and a control character at once.        *)
(***************************************************************************)
EXTENDS Naturals, FiniteSets, Sequences, SequencesExt, TLC

Lower == "a"
Upper == "A"
Other == "-"
Space == " "
Tab == "tab"

Characters == {Lower, Upper, Other, Space, Tab}
Blank == {Space, Tab}

-----------------------------------------------------------------------------
(* Names and identifiers *)

\* String.prototype.trim.
trim(s) ==
  LET solid == {i \in DOMAIN s : s[i] \notin Blank} IN
  IF solid = {} THEN <<>>
  ELSE SubSeq(s, CHOOSE i \in solid : \A j \in solid : i <= j,
                 CHOOSE i \in solid : \A j \in solid : j <= i)

displayNameSchema(minLength, maxLength, s) ==
  /\ Len(s) \in minLength..maxLength
  /\ s # <<>> => Head(s) \notin Blank /\ Last(s) \notin Blank
  /\ Tab \notin Range(s)

dnsLabelSchema(minLength, maxLength, s) ==
  /\ Len(s) \in minLength..maxLength
  /\ Range(s) \subseteq {Lower, Other}
  /\ s # <<>> => Head(s) = Lower /\ Last(s) = Lower

UserDisplayNameSchema(s) == displayNameSchema(1, 80, s)
OrganizationNameSchema(s) == displayNameSchema(1, 100, s)
OrganizationSlugSchema(s) == dnsLabelSchema(1, 63, s)

NANO_ID_LENGTH == 24
generateNanoId == [i \in 1..NANO_ID_LENGTH |-> Lower]

Invalid == [valid |-> FALSE, value |-> <<>>]

parseUserDisplayName(input) ==
  IF Len(trim(input)) \in 1..80 /\ UserDisplayNameSchema(trim(input))
  THEN [valid |-> TRUE, value |-> trim(input)] ELSE Invalid

parseOrganizationName(input) ==
  IF Len(trim(input)) \in 1..100 /\ OrganizationNameSchema(trim(input))
  THEN [valid |-> TRUE, value |-> trim(input)] ELSE Invalid

Plain == {Lower, Upper}

\* The characters the slug has one for: a letter or digit, and the first of
\* every run of anything else.
kept(s) == {i \in DOMAIN s : s[i] \in Plain \/ i = 1 \/ s[i - 1] \in Plain}

\* The k-th of a set of numbers in ascending order.
rank(S, i) == Cardinality({j \in S : j <= i})
nth(S, k) == CHOOSE i \in S : rank(S, i) = k

\* In lower case, with a run of anything else as one hyphen.
hyphenated(s) ==
  [k \in 1..Cardinality(kept(s)) |-> IF s[nth(kept(s), k)] \in Plain THEN Lower ELSE Other]

\* The hyphens at the two ends, of which there is at most one each.
withoutEdges(s) ==
  LET from == IF s # <<>> /\ Head(s) = Other THEN 2 ELSE 1
      to == IF s # <<>> /\ Last(s) = Other THEN Len(s) - 1 ELSE Len(s)
  IN SubSeq(s, from, to)

upTo(s, n) == SubSeq(s, 1, IF Len(s) < n THEN Len(s) ELSE n)

ORGANIZATION_SLUG_PREFIX_MAX_LENGTH == 63 - NANO_ID_LENGTH - 1
organization == [i \in 1..12 |-> Lower]

\* Mutant of createOrganizationSlug: the edges are left as they are.
untrimmedSlug(name) ==
  LET prefix == upTo(hyphenated(trim(name)), ORGANIZATION_SLUG_PREFIX_MAX_LENGTH)
  IN (IF prefix = <<>> THEN organization ELSE prefix) \o <<Other>> \o generateNanoId

\* The prefix is cut after its edges are trimmed, and may end in a hyphen.
createOrganizationSlug(name) ==
  LET prefix == upTo(withoutEdges(hyphenated(trim(name))), ORGANIZATION_SLUG_PREFIX_MAX_LENGTH)
  IN (IF prefix = <<>> THEN organization ELSE prefix) \o <<Other>> \o generateNanoId

\* The name a sign-up gives the organization: the user's, and "'s Organization".
ownersName(user) == user \o <<Other, Lower, Space, Upper>> \o [i \in 1..11 |-> Lower]

-----------------------------------------------------------------------------
(* Permissions *)

statements ==
  [organization |-> {"update", "delete"},
   member |-> {"create", "update", "delete"},
   invitation |-> {"create", "cancel"},
   sandbox |-> {"create", "read", "pause", "resume", "terminate"},
   template |-> {"create", "read", "delete"},
   apiKey |-> {"create", "read", "revoke"},
   billing |-> {"read", "manage"}]

Nothing == [resource \in DOMAIN statements |-> {}]

roleStatements ==
  [owner |-> statements,
   admin |-> [statements EXCEPT !.organization = {"update"}, !.billing = {"read"}],
   developer |-> [Nothing EXCEPT !.sandbox = statements.sandbox,
                    !.template = {"create", "read"}, !.apiKey = statements.apiKey],
   viewer |-> [Nothing EXCEPT !.sandbox = {"read"}, !.template = {"read"}, !.billing = {"read"}]]

OrganizationRoleSchema == {"owner", "admin", "developer", "viewer"}

\* OrganizationPermissionSchema: the catalog the wire knows.
OrganizationPermissionSchema ==
  {<<"organization", "update">>, <<"organization", "delete">>,
   <<"member", "create">>, <<"member", "update">>, <<"member", "delete">>,
   <<"invitation", "create">>, <<"invitation", "cancel">>,
   <<"sandbox", "create">>, <<"sandbox", "read">>, <<"sandbox", "pause">>,
   <<"sandbox", "resume">>, <<"sandbox", "terminate">>,
   <<"template", "create">>, <<"template", "read">>, <<"template", "delete">>,
   <<"apiKey", "create">>, <<"apiKey", "read">>, <<"apiKey", "revoke">>,
   <<"billing", "read">>, <<"billing", "manage">>}

permissionSetFromStatements(grants) ==
  UNION {{<<resource, action>> : action \in grants[resource]} : resource \in DOMAIN grants}

hasOrganizationPermission(role, permission) ==
  permission \in permissionSetFromStatements(roleStatements[role])

\* Every role of the schema has a row, no row grants what the catalog does
\* not have, the owner's row is the catalog.
ASSUME MatrixAgrees ==
  /\ DOMAIN roleStatements = OrganizationRoleSchema
  /\ \A role \in OrganizationRoleSchema :
       permissionSetFromStatements(roleStatements[role]) \subseteq OrganizationPermissionSchema
  /\ permissionSetFromStatements(roleStatements.owner) = OrganizationPermissionSchema

-----------------------------------------------------------------------------
(* The two APIs *)

\* The failure classes: tag and status.
UnauthenticatedError == 401
UnauthorizedError == 403
InternalError == 500
ForbiddenError == UnauthorizedError
ActiveOrganizationRequiredError == UnauthorizedError

OrganizationAuthentication == {UnauthenticatedError, ActiveOrganizationRequiredError, UnauthorizedError}

\* An endpoint: the middleware it declares, by the failures that adds, and
\* the statuses a client can decode.
SystemApiGroup == [guarded |-> FALSE, statuses |-> {200}]
SandboxesApiGroup == [guarded |-> TRUE, statuses |-> {200, ForbiddenError} \cup OrganizationAuthentication]
BackofficeOperationsApiGroup == [guarded |-> FALSE, statuses |-> {200}]

AddError(group, statuses) == [group EXCEPT !.statuses = @ \cup statuses]

ConsoleApi ==
  [health |-> AddError(SystemApiGroup, {InternalError}),
   list |-> AddError(SandboxesApiGroup, {InternalError})]

BackofficeApi ==
  [health |-> AddError(BackofficeOperationsApiGroup,
                       {UnauthenticatedError, UnauthorizedError, InternalError})]
=============================================================================
