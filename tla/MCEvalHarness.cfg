\* All kinds of cases, both providers, a process that is interrupted or aborted and
\* started again.
SPECIFICATION FairSpec
CONSTANTS
    None = None
    Tenants <- MCTenants
    MaxAttempts = 2
    Suites <- MCSuites
    Providers <- MCBoth
    Concurrency = 2
    MaxStarts = 2
INVARIANTS
    MeasuredOnce
    ReportIsMeasured
    OutagesAreNotMeasured
    SafetyFlagsAreTrue
    DeterministicSucceeds
PROPERTIES
    ImplementsResumable
    TasksAreBounded
    EvaluationEnds
\* Nobody has to start the process again.
CHECK_DEADLOCK FALSE
