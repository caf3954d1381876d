\* Two deliveries of two events, a later request and a stream; no symmetry.
SPECIFICATION FairSpec
CONSTANTS
    e1 = e1
    e2 = e2
    d1 = d1
    d2 = d2
    w1 = w1
    s1 = s1
    None = None
    Events <- MCEvents
    Deliveries <- MCDeliveries
    Requests <- MCRequests
    Streams <- MCStreams
    MaxEvents = 2
    MaxIdle = 2
INVARIANTS
    OneRunPerEvent
    StreamsHaveNoGaps
PROPERTIES
    ClaimedEventsRun
    SilentStreamsAreBounded
    StreamsEnd
\* Every request comes once, so the system stops when all have ended.
CHECK_DEADLOCK FALSE
