\* Three updates of three files at two times, with more values than fit; sem_timedwait
\* may be interrupted, which makes a writer forget tokens.
SPECIFICATION FairSpec
CONSTANTS
    f1 = f1  f2 = f2  f3 = f3  w1 = w1  w2 = w2
    File <- MCFile
    Writer <- MCWriter
    QueueOf <- MCQueueOf
    Template = {t1}
    MaxTime = 2
    MaxPush = 3
    ValueCounts = {2}
    MaxDs = 2
    UintRange = 256
    Interrupts = TRUE
    NoDatum = NoDatum
    NoFile = NoFile
INVARIANTS NoEmptyPop IdsResolve WriterOwnsFiles
PROPERTIES KeepsUpdateLog TriedUnlessForgotten
CHECK_DEADLOCK FALSE
