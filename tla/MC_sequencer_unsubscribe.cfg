CONSTANTS
    Clients <- MCTwo
    Leaving = {1}
    MaxClients = 2
    Ratio = 1
    Capacity = 1
    MaxPushes = 2
SPECIFICATION Spec
INVARIANT RemovedIsNotUsed
CHECK_DEADLOCK FALSE
