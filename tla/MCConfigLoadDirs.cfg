\* Nothing fails, and the database stays as it is.
SPECIFICATION Spec
CONSTANTS
    Databases <- MCDatabases
    First <- MCFirst
    NextOf <- MCNextOf
    MaxSequence = 2
    RowLimit = 2
    DirOf <- MCDirOf
    Parent <- MCParent
    MaxFaults = 0
    MaxChanges = 0
INVARIANTS FilesCreated
