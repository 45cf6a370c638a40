SPECIFICATION Spec
CONSTANTS
    audit = audit
    ledger = ledger
    RuntimeFiles <- AuditThenLedger
    LedgerFile = ledger
    ProfileFile = profiles
    Installations <- NoneOrAll
    Updates = {u1, u2}
    None = None
    MaxExits = 1
    MaxFaults = 0
INVARIANT
    NeverEmptyLedger
CHECK_DEADLOCK FALSE
