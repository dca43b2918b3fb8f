\* Invoices, notes and receipts that compete. Work ends when MaxPosted is reached.
SPECIFICATION Spec
CONSTANTS
    ann = ann  bob = bob  order = order  made = made  again = again  quote = quote
    la = la  lb = lb  lc = lc  ld = ld  w1 = w1  w2 = w2
    k1 = k1  k2 = k2  k3 = k3  k4 = k4  k5 = k5  k6 = k6  k7 = k7
    Unit = 1
    Workers <- TwoWorkers
    Customers = {ann, bob}
    Quotations = {quote}
    Orders = {order, made, again}
    OrderLines = {la, lb, lc, ld}
    QuotedTo <- MCQuotedTo
    MadeFrom <- MCMadeFrom
    NoQuotation = NoQuotation
    CustomerOf <- MCCustomerOf
    OrderOf <- MCOrderOf
    Ordered <- MCOrdered
    OpeningStock <- MCStock
    Days = {1}
    Keys = {k1, k2, k3, k4, k5, k6, k7}
    RetriedKeys = {}
    Requests <- MixedRequests
    Idle = Idle
    MaxPosted = 5
SYMMETRY SymmetricWorkers
INVARIANTS
    TypeOK
    AgeingTiesToLedger
    StatementsMatchAgeing
    OrdersTellWhatHappened
    SoldGoodsLeaveTheBooks
PROPERTY
    SettlesOnlyWhatIsOpen
CHECK_DEADLOCK FALSE
