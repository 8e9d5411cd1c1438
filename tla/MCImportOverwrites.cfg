CONSTANTS
    c1 = c1
    c2 = c2
    p1 = p1
    x = x
    Workers = {w1, w2}
    CommandIds = {c1, c2}
    Projects = {p1}
    Payloads = {x}
    Requests <- MCRequests
    Editors = {}
    Importers = {i1}
    Nobody = nobody
    MaxRevision = 4
SPECIFICATION WritersSpec
PROPERTY ImportReplacesCheckedRevision
