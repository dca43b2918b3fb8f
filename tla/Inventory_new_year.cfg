\* Two receipts of two fiscal years are both number 1.
SPECIFICATION Spec
CONSTANTS
    r1 = r1  r2 = r2  w1 = w1  w2 = w2
    ka = ka  kb = kb  kc = kc  kd = kd  ke = ke  kx = kx  ky = ky
    Unit = 2
    Workers <- TwoWorkers
    Rows = {r1, r2}
    Keys = {ka, kb}
    CountKeys = {}
    RetriedKeys = {}
    Documents <- TwoYears
    CountSheets <- NoSheets
    Years = {2026, 2027}
    Idle = Idle
    MaxPosted = 3
    MaxRecorded = 0
INVARIANTS
    NumbersArePerYear
CHECK_DEADLOCK FALSE
