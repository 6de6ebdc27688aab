\* Two workers and three descriptors: two workers compete for the queue and the lock,
\* connections wait for a busy worker, and numbers are reused.
SPECIFICATION Spec
CONSTANTS
    Fd = {f1, f2, f3}
    Worker = {w1, w2}
    Arg = {"empty", "two", "wrong", "right"}
    Length <- MCLength
    enable_password = "right"
    Listener = Listener
    Nobody = Nobody
INVARIANTS TypeOK NoEmptyPop FdOwnedOnce NoDescriptorLeak LoginRequired NoFreedExpression
