\* An entry appears in a period that was closed meanwhile.
SPECIFICATION Spec
CONSTANTS
    k1 = k1  k2 = k2  k3 = k3  w1 = w1  w2 = w2
    a1 = a1  a2 = a2  header = header
    Keys = {k1, k2}
    NoKey = NoKey
    DocTypes = {"JV", "INV"}
    Accounts = {a1, a2, header}
    PostableAccounts = {a1, a2}
    Periods = {"jan", "next"}
    Years = {"2026", "2027"}
    YearOf <- MCYearOf
    Fine = 2
    Commands <- RaceCommands
    Workers <- Workers2
    NoDraft = NoDraft
    MaxEntries = 2
SYMMETRY SymmetricWorkers
PROPERTY
    PostsOnlyIntoOpenPeriods
