\* Two requests that compete for one series and for one key, under fair scheduling.
SPECIFICATION FairSpec
CONSTANTS
    k1 = k1  k2 = k2  k3 = k3  w1 = w1  w2 = w2
    a1 = a1  a2 = a2  header = header
    Keys = {k1, k2}
    NoKey = NoKey
    DocTypes = {"JV", "INV"}
    Accounts = {a1, a2, header}
    PostableAccounts = {a1, a2}
    Periods = {"jan"}
    Years = {"2026"}
    YearOf <- MCYearOf
    Fine = 2
    Commands <- RaceCommands
    Workers <- Workers2
    NoDraft = NoDraft
    MaxEntries = 3
INVARIANTS
    GaplessNumbering
    OneEntryPerKey
    OneAnswerPerKey
PROPERTY
    RequestsEnd
