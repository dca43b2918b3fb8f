\* Receipts, issues and counts, retried and crosswise. Work ends when MaxPosted is reached.
SPECIFICATION FairSpec
CONSTANTS
    r1 = r1  r2 = r2  w1 = w1  w2 = w2
    ka = ka  kb = kb  kc = kc  kd = kd  ke = ke  kx = kx  ky = ky
    Unit = 2
    Workers <- TwoWorkers
    Rows = {r1, r2}
    Keys = {ka, kb, kc, kd, ke, kx, ky}
    CountKeys = {kx, ky}
    RetriedKeys = {ka, kb, kc, kd, ke}
    Documents <- MixedDocuments
    CountSheets <- SteadySheets
    Years = {2026}
    Idle = Idle
    MaxPosted = 5
    MaxRecorded = 1
INVARIANTS
    TypeOK
    NoValueWithoutStock
    DocumentsHaveTheirEntry
    SubledgerMatchesControl
    MovementsExplainStock
PROPERTY
    DocumentsEnd
CHECK_DEADLOCK FALSE
