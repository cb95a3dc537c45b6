SPECIFICATION Spec
CONSTANTS
    b1 = b1  b2 = b2  n1 = n1  n2 = n2  n3 = n3  d1 = d1  d2 = d2
    None = None
    Branches = {b1, b2}
    Creates = {n1, n2, n3}
    Deletes = {d1, d2}
    Number <- CreateNumbers
    Counts = {0, 1}
    MaxBranchEdits = 0
CHECK_DEADLOCK FALSE
INVARIANTS
    TableCountNeverNegative
