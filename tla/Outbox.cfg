\* Two worker processes that relay, send, retry and crash. Work ends when every message has.
SPECIFICATION FairSpec
CONSTANTS
    p1 = p1  p2 = p2
    Messages = {1,2,3}
    Malformed = {1,2}
    Processes = {p1, p2}
    Batch = 2
    Attempts = 2
    None = None
    MaxStalls = 1
    MaxCrashes = 2
INVARIANTS
    TypeOK
    OneJobPerMessage
    MailsAreBounded
    NothingVanishes
PROPERTY
    EveryMessageEnds
CHECK_DEADLOCK FALSE
