SPECIFICATION Spec
CONSTANTS
    MaxFrames = 4
    Chains <- MCChains
    Requests <- MCRequests
    Statuses = {"Unknown", "Internal", "NotFound"}
    None = None
INVARIANTS
    ReportedIsSent
    ReturnedErrorNeverCrashes
    OneRequestID
CHECK_DEADLOCK FALSE
