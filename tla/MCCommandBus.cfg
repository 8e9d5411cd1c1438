CONSTANTS
    c1 = c1
    c2 = c2
    c3 = c3
    p1 = p1
    p2 = p2
    x = x
    y = y
    Workers = {w1, w2}
    CommandIds = {c1, c2, c3}
    Projects = {p1, p2}
    Payloads = {x, y}
    Requests <- MCRequests
SPECIFICATION Spec
INVARIANTS TypeOK LedgerGapFree EveryCommitAudited SuccessIsDurable
PROPERTY LedgerSpec
