\* Three concurrent calls, each to any of the seven methods, with or without
\* an interceptor (chosen in Init), valid or undecodable requests, and
\* deadlines that may expire at any point.  Three calls let one call's panic
\* fail two other pending calls, one of which may already have run.
CONSTANTS
    ServiceName <- MCServiceName
    ServiceDesc <- MCServiceDesc
    Implemented <- MCImplemented
    Calls = {c1, c2, c3}
    NoMethod = NoMethod

SYMMETRY MCSymmetry

SPECIFICATION Spec

INVARIANT RoutedToCalledMethod
INVARIANT ClientOutcomeMatchesServer

\* Once every call is done and nothing is in flight, the clients stop.
CHECK_DEADLOCK FALSE
