CONSTANTS
    Capacity = 4
    NumMessages = 9
    NoItem = NoItem
SPECIFICATION Spec
INVARIANT NoDataRace
INVARIANT SizeIsConservative
INVARIANT IndInv
PROPERTY ImplementsFIFO
PROPERTY AllDelivered
