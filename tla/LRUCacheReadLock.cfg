CONSTANTS
    Keys = {k1, k2, k3, k4}
    Values = {v1}
    Capacity = 3
    Addr = {n1, n2, n3, n4}
    Null = Null
    Free = Free
    Readers = {r1, r2}
    k1 = k1
    k2 = k2
    k3 = k3
    n1 = n1
    n2 = n2
    n3 = n3
SPECIFICATION SpecReaders
INVARIANT ReadLockSuffices
CHECK_DEADLOCK FALSE
