CONSTANTS
    Clients <- MCThree
    Leaving = {}
    MaxClients = 2
    Ratio = 1
    Capacity = 1
    MaxPushes = 2
SPECIFICATION FairSpec
PROPERTIES AcceptedAreHandled SpinEnds
CHECK_DEADLOCK FALSE
