\* Two addresses, so that every second configuration gets an address back, one client,
\* two polls.
SPECIFICATION FairSpec
CONSTANTS
    Addr = {a1, a2}
    Client = {c1}
    WaitSecs = 2
    Main = Main
    Nobody = Nobody
    Null = Null
INVARIANTS TypeOK ServiceContinues NoConfigLeak StatusSeesLiveConfig ReplyTruthful
PROPERTIES HupReloads SecondTermExits ReloadAnswered
