\* No client: main, the signal thread and signals from outside.
SPECIFICATION AllSignalsSpec
CONSTANTS
    Addr = {a1, a2}
    Client = {}
    WaitSecs = 2
    Main = Main
    Nobody = Nobody
    Null = Null
PROPERTIES TermTerminates
