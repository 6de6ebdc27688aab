\* Pages of two rows, one failing call, one change of the database.
SPECIFICATION FairSpec
CONSTANTS
    Databases <- MCDatabases
    First <- MCFirst
    NextOf <- MCNextOf
    MaxSequence = 2
    RowLimit = 2
    DirOf <- MCDirOf
    Parent <- MCParent
    MaxFaults = 1
    MaxChanges = 1
INVARIANTS TypeOK NoTransactionLeft LoadFaithful
PROPERTIES FilesConverge
