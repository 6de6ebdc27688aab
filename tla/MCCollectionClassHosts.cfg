\* Two hosts, two workers: a slow poll may last into the next round.
SPECIFICATION Spec
CONSTANTS
    NumHosts = 2
    MaxWorkers = 2
    SessionSlots = 2
    LogCancels = FALSE
    Main = Main
    Config = Config
    Nobody = Nobody
INVARIANTS HostPolledByOneWorker
