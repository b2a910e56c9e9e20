SPECIFICATION Spec
CONSTANTS
    b1 = b1
    b2 = b2
    x1 = x1
    Sessions = {b1, b2}
    User <- MCUser
    Registered = {"broker"}
    Brokers = {"broker"}
    Names = {"", "broker", "nobody"}
    Scripts <- MCScripts
    Tags = {1, 2}
    Approvers = {b1, b2}
    Acting = {b2}
    Ending = {b1}
    MaxSubscriptions = 2
    MaxOrders = 2
    MaxApprovals = 2
INVARIANTS TypeOK SharedIdsOnlyTogether DownOnlyByStrayCancel
CHECK_DEADLOCK FALSE
PROPERTIES ImplementsClearance
