SPECIFICATION FairSpec
CONSTANTS
    old = old
    other = other
    app = app
    server = server
    Calls = {c1, c2, c3}
    Ledgers = {old, other}
    Processes = {app, server}
    Home <- OldAndServer
    NoLock = NoLock
    MaxExits = 2
    MaxFaults = 2
INVARIANTS HolderOwnsLock
PROPERTIES QueueOrder AtomicCalls EveryCallAnswered LockGivenBack
CHECK_DEADLOCK FALSE
