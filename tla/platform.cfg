SPECIFICATION PlatformSpec
CONSTANTS
    c1 = c1  c2 = c2  c3 = c3  ta = ta  tb = tb
    owner = owner  admin = admin  cashier = cashier
    mail = mail  mail2 = mail2  p1 = p1  p2 = p2  x = x  y = y
    None = None
    Calls = {c1, c2, c3}
    Arrivals = {c1, c2, c3}
    Slugs = {ta, tb}
    OldTenants = {ta}
    Values = {x, y}
    OldValue = x
    Updates <- TheUpdates
    Deployments = {TRUE, FALSE}
    Users = {owner, admin, cashier}
    TenantOf <- TheTenants
    EmailOf <- TheEmails
    Staff = {cashier}
    OldPassword <- ThePasswords
    SignedIn = {owner}
    Passwords = {p1, p2}
    OtpLimit = 1
    MaxSeconds = 1
    MaxLost = 1
SYMMETRY PlatformSymmetry
CHECK_DEADLOCK FALSE
INVARIANTS
    PlatformTypeOK
    SignedOutStaysOut
    OldPasswordSessionsEnd
    SpentStaysSpent
    MailsOverLimitOverlap
    TenantsComplete
    UpdatesLostOnlyOverlap
    CountersEnd
PROPERTIES
    CredentialsKept
