\* Two collections, one of them without a mapping; an uptime of 10 values that
\* wraps, 2 ticks per second, a gap of 4.
SPECIFICATION Spec
CONSTANTS
    NumCollections = 2
    Mapped = {1}
    TicksPerSec = 2
    MaxGap = 4
    UintRange = 10
    MaxLatency = 2
    MaxTime = 14
    None = None
INVARIANTS TypeOK TimestampAccurate GarbageClockReplaced
