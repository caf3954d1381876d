\* A record that fails validation while it is collected.
SPECIFICATION Spec
CONSTANTS
    r1 = r1
    r2 = r2
    h1 = h1
    h2 = h2
    release = release
    hold = hold
    operator = operator
    approver = approver
    stranger = stranger
    A = A
    B = B
    Forged = Forged
    None = None
    Backend = "postgres"
    Runs <- MCOneRun
    Handlers <- MCOneHandler
    Cases <- MCCases
    Irreversible <- MCIrreversible
    Actors <- MCActors
    Operators <- MCOperators
    Approvers <- MCApprovers
    TenantOf <- MCTenantOf
    Faults <- MCExceptions
SYMMETRY MCSymmetry
INVARIANT
    RunningRunIsServed
\* The system may rest: all run ids used, no request being served.
CHECK_DEADLOCK FALSE
