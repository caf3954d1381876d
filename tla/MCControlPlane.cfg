\* One run of an irreversible action, two requests at a time, every fault.
SPECIFICATION Spec
CONSTANTS
    r1 = r1
    r2 = r2
    h1 = h1
    h2 = h2
    release = release
    hold = hold
    operator = operator
    approver = approver
    stranger = stranger
    A = A
    B = B
    Forged = Forged
    None = None
    Backend = "postgres"
    Runs <- MCOneRun
    Handlers <- MCTwoHandlers
    Cases <- MCRelease
    Irreversible <- MCIrreversible
    Actors <- MCActors
    Operators <- MCOperators
    Approvers <- MCApprovers
    TenantOf <- MCTenantOf
    Faults <- MCAllFaults
SYMMETRY MCSymmetry
INVARIANTS
    TypeOK
    EffectAuthorized
    RejectionIsFinal
    CompletedIsAudited
PROPERTIES
    ClosedStaysClosed
    RequestsAreBounded
    RunsAreGoverned
\* The system may rest: all run ids used, no request being served.
CHECK_DEADLOCK FALSE
