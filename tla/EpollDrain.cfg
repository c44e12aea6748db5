SPECIFICATION Spec
CONSTANTS
    Clients = {c1, c2}
    Fds = {1, 2}
    BUF = 2
    MAX_EVENTS = 2
    MaxHandled = 3
    MaxSent = 3
INVARIANT DrainedFully
