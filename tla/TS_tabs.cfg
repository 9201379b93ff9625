SPECIFICATION Spec
CONSTANTS
  acme = acme
  beta = beta
  issues = issues
  inbox = inbox
  None = None
  Workspaces = {acme, beta}
  Pages = {issues, inbox}
  Home = issues
  MaxTabs = 3
  MaxEvents = 6
INVARIANTS
  TypeOK
  WellFormed
  PathsScoped
  HistoryFaithful
  SomewhereToBe
PROPERTIES
  PinnedParked
  
SYMMETRY Symmetry
CHECK_DEADLOCK FALSE
