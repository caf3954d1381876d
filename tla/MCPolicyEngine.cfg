\* Up to three records, of nine kinds, while two of them expire.
SPECIFICATION Spec
CONSTANTS
    A = A
    B = B
    None = None
    Tenants <- MCTenants
    Observations <- MCObservations
    MaxTime = 2
INVARIANTS
    VerdictIsCleared
    VerdictIgnoresOrder
    DenialIsCited
PROPERTY
    TaintIsFinal
\* The system stops when the decision has been made.
CHECK_DEADLOCK FALSE
