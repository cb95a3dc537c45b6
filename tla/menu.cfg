SPECIFICATION Spec
CONSTANTS
    c1 = c1  c2 = c2  n1 = n1  n2 = n2  g1 = g1  g2 = g2  old = old  starters = starters
    None = None
    Calls = {c1, c2}
    MaxAttempts = 2
    OldProducts = {old}
    OldCategories = {starters}
    OldMenu <- MCOldMenu
    OldNames <- MCOldNames
    Names = {n1, n2}
    CategoryNames = {g1, g2}
    Files <- MCFiles
    Adds <- MCAdds
    Edits <- MCEdits
    SetsVariants <- MCSetsVariants
    MaxUploads = 1
    Deployments = {TRUE, FALSE}
    MaxFaults = 1
SYMMETRY MenuSymmetry
CHECK_DEADLOCK FALSE
INVARIANTS
    TypeOK
    StaleMenuOnlyOverlap
    SameNameOnlyOverlap
    LabelsFollowCategories
    IndexMatchesMenu
    UploadStatusTrue
