CONSTANTS
    Clients <- MCTwo
    Leaving = {2}
    MaxClients = 2
    Ratio = 1
    Capacity = 2
    MaxPushes = 6
SPECIFICATION Spec
INVARIANTS TypeOK EachOnceInOrder BoundedBypass
CHECK_DEADLOCK FALSE
