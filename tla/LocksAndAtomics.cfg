CONSTANTS
    Threads = {s1, s2, s3}
    Rounds = 2
    Consumers = {c1, c2}
    NUM_ITEMS = 4
    Transfers = 2
    Movers = {t1, t2, t3}
    Accounts = {a, b}
    From <- FromValues
    To <- ToValues
    Amount <- AmountValues
    InitialBalance <- BalanceValues
    Proposers = {t1, t2, t3, t4}
    Proposed <- ProposedValues
    a = a
    b = b
    NoOne = NoOne
    t1 = t1
    t2 = t2
    t3 = t3
    t4 = t4
    Counters = {n1, n2, n3}
    PER = 3
    Trials = 3
SPECIFICATION PartSpec
INVARIANT CondvarSound
INVARIANT TransfersAtomic
INVARIANT LockSound
INVARIANT LitmusAsserts
INVARIANT MaximumSound
PROPERTY JoinsReturn
