\* Three hosts, two workers, one session slot; print_log is a cancellation
\* point, as it is with glibc.
SPECIFICATION FairSpec
CONSTANTS
    NumHosts = 3
    MaxWorkers = 2
    SessionSlots = 1
    LogCancels = TRUE
    Main = Main
    Config = Config
    Nobody = Nobody
INVARIANTS TypeOK NoEmptyPop QueuedOnce SessionsConserved
PROPERTIES NoCollectionAfterFinalize PollingContinues FinalizeTerminates
