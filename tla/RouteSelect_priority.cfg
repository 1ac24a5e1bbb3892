CONSTANTS
    Ids = {1, 2}
    Priorities = {0, 1}
    Times = {1, 2}
    PageSizes = {0}
    PageNumbers = {0}
    Confs <- MCAnyConf
    Requests <- MCRequests
SPECIFICATION Spec
INVARIANT HighestPriorityWins
CHECK_DEADLOCK FALSE
