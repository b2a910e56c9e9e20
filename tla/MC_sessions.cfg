SPECIFICATION Spec
CONSTANTS
    Fds = {4}
    MaxSessions = 3
    Script <- MCScript
    Ending = {1}
    Rejected = {2}
INVARIANTS TypeOK AtMostOneStray ForeignReadersWereClosed LeaksOnlyBeforeInsert
PROPERTIES InnocentCutOnlyIfPressed
CHECK_DEADLOCK FALSE
