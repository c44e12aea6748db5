CONSTANTS
    Workers = {w1, w2, w3}
    Client = Client
    leaf = leaf
    thrower = thrower
    parent = parent
    child = child
    Tasks <- MCTasks
    Throwing = {thrower}
    Child <- MCChild
    NoTask = NoTask
SPECIFICATION Spec
INVARIANT TasksKept
PROPERTY FuturesBecomeReady
PROPERTY DestructorReturns
