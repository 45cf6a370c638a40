SPECIFICATION Spec
CONSTANTS
    Ids = {block, c1}
    Plans = {p1}
    Contexts = {dgx, spare}
    Kinds = {service, migration}
    MaxOperations = 2
    NoLease = NoLease
    ServiceKind = service
    MigrationKind = migration
    MigrationId = block
    None = None
    MaxCores = 1
    MaxCrashes = 0
    MaxSwitches = 1
    MaxFaults = 0
INVARIANT
    ExecutesOnBoundTarget
CHECK_DEADLOCK FALSE
