\* The in-memory deployment: two runs, or a run and a replay of it, one request at a
\* time, with the faults its gateway injects.
SPECIFICATION Spec
CONSTANTS
    r1 = r1
    r2 = r2
    h1 = h1
    h2 = h2
    release = release
    hold = hold
    operator = operator
    approver = approver
    stranger = stranger
    A = A
    B = B
    Forged = Forged
    None = None
    Backend = "memory"
    Runs <- MCTwoRuns
    Handlers <- MCOneHandler
    Cases <- MCCases
    Irreversible <- MCIrreversible
    Actors <- MCActors
    Operators <- MCOperators
    Approvers <- MCApprovers
    TenantOf <- MCTenantOf
    Faults <- MCExceptions
SYMMETRY MCSymmetry
INVARIANTS
    NoEffectBehindToolFailure
PROPERTY
    ClosedRunsAreLeftAlone
\* The system may rest: all run ids used, no request being served.
CHECK_DEADLOCK FALSE
