CONSTANTS
    a = a
    b = b
    Addr <- Both
    Contracts <- OnlyB
    Sender = a
    Uint64 = 4
    Accounts <- Tables
    MaxJournal = 4
    Amounts = {0, 2}
    MaxFrames = 3
SPECIFICATION JournalSpec
INVARIANTS CommittedIsOriginal ErrorChangesNothing BalancesKept
PROPERTIES JournalImplementsSnapshots
CHECK_DEADLOCK FALSE
