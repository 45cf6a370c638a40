SPECIFICATION FromTheBeginning
CONSTANTS
  Local = {nvfp4}
  Drafts = {draft}
  Actions = {warmup, stop}
  LongActions = {warmup}
  ManagedActions = {stop}
  None = None
  MaxPlans = 2
  MaxCalls = 2
  MaxRestarts = 1
  MaxVisits = 2
  LateModels = FALSE
CHECK_DEADLOCK FALSE
INVARIANTS
  DialogFits
  ShownIsFollowed
  RollbackUndoesTheLast
PROPERTIES
  FailedNotRetried
  NoConfirmWhileBusy
  BackgroundSurvives
