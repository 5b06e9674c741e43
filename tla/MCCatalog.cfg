CONSTANTS
    r1 = r1
    Campaigns = {1, 2}
    Values = {1, 2}
    Rows <- MCRows
    Requests = {r1}
    Asked <- MCAsked
    MaxEdits = 1
    Strict = {"segment"}
    Open = {"device", "format"}
SPECIFICATION FairSpec
INVARIANTS
    CandidatesBudgeted
    SnapshotIsExact
PROPERTIES
    CatalogConverges
