\* A process with one provider resumes from the file of one with the other.
SPECIFICATION Spec
CONSTANTS
    None = None
    Tenants <- MCTenants
    MaxAttempts = 2
    Suites <- MCSuites
    Providers <- MCBoth
    Concurrency = 2
    MaxStarts = 2
INVARIANT
    ReportIsOfOneProvider
\* Nobody has to start the process again.
CHECK_DEADLOCK FALSE
