SPECIFICATION FromOneTarget
CONSTANTS
    Ids = {block, c1, c2}
    Plans = {p1}
    Contexts = {dgx, spare}
    Kinds = {service, migration}
    MaxOperations = 2
    NoLease = NoLease
    ServiceKind = service
    MigrationKind = migration
    MigrationId = block
    None = None
    MaxCores = 2
    MaxCrashes = 1
    MaxSwitches = 1
    MaxFaults = 1
INVARIANTS
    LedgerMirrorsWork
    ExclusiveExecution
PROPERTIES
    LedgerCalls
    EveryConfirmationEnds LeaseIsReleased
CHECK_DEADLOCK FALSE
