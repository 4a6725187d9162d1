SPECIFICATION FairSpec
CONSTANTS
    r1 = r1
    r2 = r2
    hr = hr
    NoKid = NoKid
    NoEntry = NoEntry
    Requests <- MCRequests
    Kids = {k1}
    Roles <- MCRoles
    RolesOf <- MCRolesOf
INVARIANTS
    TypeOK
    PublishedKeyPasses
    AnswerIsRecent
PROPERTIES
    WithdrawnKeyGoes
    EntrySettles
    RequestsGetThrough
