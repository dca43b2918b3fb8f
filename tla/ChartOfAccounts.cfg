\* One editor of the chart beside postings. Work ends when MaxEntries is reached.
SPECIFICATION Spec
CONSTANTS
    assets = assets  current = current  cash = cash  stock = stock  sales = sales
    e1 = e1  p1 = p1
    Accounts <- MCAccounts
    TypeOf <- MCTypeOf
    SectionOf <- MCSectionOf
    Dates = {1, 2}
    Template <- MCTemplate
    MappingKeys = {"inventory", "advances_parent"}
    GroupTypeOf <- MCGroupTypeOf
    Editors <- OneEditor
    Posters <- OnePoster
    Requests <- MCRequests
    Postings <- MCPostings
    None = None
    Idle = Idle
    MaxEntries = 2
INVARIANTS
    TypeOK
    TotalsReachTheTop
    MappingsStayUsable
    StatementsAgree
