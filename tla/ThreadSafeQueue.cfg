CONSTANTS
    Producers = {p1, p2}
    Consumers = {c1, c2}
    Pollers = {t1}
    NumItems = 2
SPECIFICATION Spec
INVARIANT NoLostWakeup
INVARIANT CloseDrains
INVARIANT ItemsOnceInOrder
PROPERTY Termination
