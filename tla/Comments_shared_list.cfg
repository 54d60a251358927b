SPECIFICATION FairSpec
CONSTANTS
    None = None
    a1 = a1
    a2 = a2
    r1 = r1
    r2 = r2
    Authors = {a1, a2}
    Readers = {r1, r2}
    MaxComments = 2
    MaxReads = 3
    MaxFailures = 1
INVARIANTS CountAccounted ListIsFresh NameFoundIsKept
PROPERTIES EveryReaderAnswered
\* Comments and reads are bounded: the instance ends.
CHECK_DEADLOCK FALSE
