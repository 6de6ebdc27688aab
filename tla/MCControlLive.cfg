\* One worker and three descriptors: connections wait for a busy worker and for each
\* other; the listener competes for the queue and the lock.
SPECIFICATION FairSpec
CONSTANTS
    Fd = {f1, f2, f3}
    Worker = {w1}
    Arg = {"empty", "two", "wrong", "right"}
    Length <- MCLength
    enable_password = "right"
    Listener = Listener
    Nobody = Nobody
PROPERTIES RegexpEnds ConnectionServed
