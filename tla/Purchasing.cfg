\* Orders, receipts, returns and invoices that meet, with retries.  Work ends
\* when MaxPosted is reached.
SPECIFICATION Spec
CONSTANTS
    o1 = o1  o2 = o2  la = la  lb = lb  lc = lc  r1 = r1  w1 = w1  w2 = w2
    k1 = k1  k2 = k2  k3 = k3  k4 = k4  k5 = k5  k6 = k6  n1 = n1  n2 = n2
    Unit = 2
    Workers <- TwoWorkers
    PurchaseRequests = {r1}
    NoRequest = NoRequest
    Orders = {o1, o2}
    Lines = {la, lb, lc}
    OrderOf <- MCOrderOf
    Ordered <- MCOrdered
    Price <- MCPrice
    NeedsApproval = {o1}
    OpeningStock <- MCStock
    Keys = {k1, k2, k3, k4, k5, k6}
    RetriedKeys = {k2, k3, k5}
    Submissions <- MixedSubmissions
    Idle = Idle
    MaxPosted = 5
SYMMETRY SymmetricWorkers
INVARIANTS
    TypeOK
    AccountsMatchTheDocuments
    LocksKeepWhatWasChecked
    OrdersTellTheirProgress
    OneOrderPerRequest
PROPERTY
    DecisionsStand
CHECK_DEADLOCK FALSE
