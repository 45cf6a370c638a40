SPECIFICATION FairSpec
CONSTANTS
    audit = audit
    ledger = ledger
    RuntimeFiles <- AuditThenLedger
    LedgerFile = ledger
    ProfileFile = profiles
    Installations <- NoneOrAll
    Updates = {u1, u2}
    None = None
    MaxExits = 1
    MaxFaults = 2
INVARIANTS
    MigrationComplete OpenWorkBlocks CoreFollowsPreferences
PROPERTIES
    OwnDataKept CoreComesBack
CHECK_DEADLOCK FALSE
