CONSTANTS
    Producers = {p1, p2, p3}
    Consumers = {c1, c2}
    BUFFER_SIZE = 2
    ITEMS_PER_PRODUCER = 2
SPECIFICATION Spec
INVARIANT NotifyOneSuffices
INVARIANT ClaimsAreCovered
INVARIANT FinalCounts
PROPERTY Termination
