CONSTANTS
    Runs = {r1, r2}
    Units = {u1}
    Paths = {p1}
    None = None
    MaxEdits = 2
    MaxFaults = 1
    MaxRemovals = 1
    WorkUnits <- AllUnits
    Audit <- AuditUnit
    Consumers <- AuditConsumers
    Nothing = Nothing
    MaxAttempts = 3
    MaxWorkspaceEdits = 1
SPECIFICATION GatesSpec
SYMMETRY Symmetry
INVARIANTS
    AdmissibleIsPlanned
    ReportsWhatWasRead
    SuccessIsAdmissible
    OneAttemptPerUnit
    BundlesReadThePlannedWorkspace
    AuditIsCoherent
CHECK_DEADLOCK FALSE
