\* Two functions in progress in a tab, while other tabs and members change the
\* session and the memberships.
SPECIFICATION FairSpec
CONSTANTS
  Tabs = {t1}
  Flows = {f1, f2}
  Orgs = {1}
  Names <- TypedNames
INVARIANTS
  SubjectWasMember
  ContractKept
  NamesFit
PROPERTIES
  GuardedPages
  FlowsEnd
