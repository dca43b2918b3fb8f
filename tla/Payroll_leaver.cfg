\* A settlement while an advance is granted.
SPECIFICATION Spec
CONSTANTS
    w1 = w1  w2 = w2
    k1 = k1  k2 = k2  k3 = k3  k4 = k4  k5 = k5  k6 = k6  k7 = k7  k8 = k8  k9 = k9
    Workers <- TwoWorkers
    Employees = {1, 2}
    Months = {1}
    Gross <- MCGross
    Gosi <- MCGosi
    Gratuity <- MCGratuity
    Keys = {k1, k2}
    RetriedKeys = {}
    Requests <- LeaverRequests
    Idle = Idle
    MaxPosted = 2
INVARIANTS
    LeaversOweNothing
CHECK_DEADLOCK FALSE
