CONSTANTS
    Prices = {1, 2, 3}
    MaxQuantity = 2
    MaxOrders = 4
    Ids = {i1, i2}
    BookPrices = {1, 2}
    Quantities = {1, 3}
    Modulus = 4
    MaxAdds = 3
    TickPrices = {1, 2, 3}
    TickQuantities = {1, 2}
    Times = {0, 1, 2}
    BAR_DURATION_NS = 2
    MaxTicks = 4
    Arrivals = {0, 1, 4}
    Bursts = {1, 2, 3}
    Priorities = {1, 2}
    MaxProcesses = 3
    Quanta = {1, 2}
    Pages = {0, 1, 2}
    Frames = {2, 5}
    TLB_SIZE = 2
    PAGE_SIZE = 2
    WORD = 8
    MaxAccesses = 4
    MaxSignals = 3
    Clients = {c1, c2}
    Fds = {1, 2}
    BUF = 2
    MAX_EVENTS = 2
    MaxHandled = 3
    MaxSent = 3
SPECIFICATION SystemsSpec
INVARIANT MatchingSound
INVARIANT BookSound
INVARIANT BarsSound
INVARIANT SchedulesSound
INVARIANT TranslationsSound
INVARIANT SignalsSound
INVARIANT ServerSound
PROPERTY PriorityRespected
PROPERTY LoopsEnd
