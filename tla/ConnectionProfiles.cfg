SPECIFICATION Spec
CONSTANTS
  Ids = {a, b, c}
  Calls = {c1, c2, c3}
  Consumers = {k1, k2}
  MaxProfiles = 2
  None = None
  MaxSearches = 2
SYMMETRY Symmetry
CHECK_DEADLOCK FALSE
INVARIANTS
  StoreReadable
  UpdatesLast
  WizardShowsTheVerified
  CatalogNamesItsMachine
