CONSTANTS
    Capacity = 1
    NumMessages = 2
    NoItem = NoItem
SPECIFICATION Spec
PROPERTY AllDelivered
