SPECIFICATION Spec
CONSTANTS
    b1 = b1
    b2 = b2
    x1 = x1
    Sessions = {b1, b2, x1}
    User <- MCUser
    Registered = {"broker"}
    Brokers = {"broker"}
    Names = {"", "broker", "nobody"}
    Scripts <- MCLiveScripts
    Tags = {1}
    Approvers = {b1, b2}
    Acting = {}
    Ending = {b1}
    MaxSubscriptions = 2
    MaxOrders = 1
    MaxApprovals = 0
CHECK_DEADLOCK FALSE
PROPERTIES OrdersAreAnswered WaitingOrdersAreShown
