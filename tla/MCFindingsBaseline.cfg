SPECIFICATION AuditSpec
CONSTANTS
    Sections <- MCSections
    Inconclusive <- MCInconclusive
    PathOf <- MCPathOf
    Dependencies = {"b"}
    Included = {"a", "b"}
    Scopes <- MCScopes
    Patterns = {"x", "y"}
    Sources <- MCSources
    Handwritten <- MCHandwritten
    Purposes = {"baseline", "exceptions"}
    MaxLost = 1
    MaxEdits = 1
INVARIANTS
    WrittenMeansCovered
    ChecksFollowTheBaseline
    GlobalAuditIsExact
    AcceptedAuditIsTrue
