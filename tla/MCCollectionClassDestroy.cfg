\* One host, one worker: the detached main thread and the destructor.
SPECIFICATION Spec
CONSTANTS
    NumHosts = 1
    MaxWorkers = 1
    SessionSlots = 1
    LogCancels = FALSE
    Main = Main
    Config = Config
    Nobody = Nobody
INVARIANTS NoUseAfterDestroy
