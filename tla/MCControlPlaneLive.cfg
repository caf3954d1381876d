\* Requests that race for one run, and tool calls that fail; no symmetry, which would
\* be unsound.
SPECIFICATION FairSpec
CONSTANTS
    r1 = r1
    r2 = r2
    h1 = h1
    h2 = h2
    release = release
    hold = hold
    operator = operator
    approver = approver
    stranger = stranger
    A = A
    B = B
    Forged = Forged
    None = None
    Backend = "postgres"
    Runs <- MCOneRun
    Handlers <- MCTwoHandlers
    Cases <- MCRelease
    Irreversible <- MCIrreversible
    Actors <- MCActors
    Operators <- MCOperators
    Approvers <- MCApprovers
    TenantOf <- MCTenantOf
    Faults <- MCToolFaults
PROPERTIES
    RequestsEnd
    DecidedRunsClose
\* The system may rest: all run ids used, no request being served.
CHECK_DEADLOCK FALSE
