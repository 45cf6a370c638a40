SPECIFICATION Spec
CONSTANTS
    Ids = {block, o1, o2, o3, o4}
    Kinds = {service, migration}
    Contexts = {target}
    MaxOperations = 2
    NoLease = NoLease
    ServiceKind = service
    MigrationKind = migration
    MigrationId = block
    MigrationContext = target
SYMMETRY Symmetry
INVARIANT
    LedgerConsistent
PROPERTIES
    BlockedUntilResolved
    MigrationBlockStays
