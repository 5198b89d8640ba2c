\* Two concurrent calls, each to any of the ten methods, with or without
\* an interceptor (chosen in Init), valid or undecodable requests, and
\* deadlines that may expire at any point.
CONSTANTS
    ServiceName <- MCServiceName
    ServiceDesc <- MCServiceDesc
    Implemented <- MCImplemented
    Calls = {c1, c2}
    NoMethod = NoMethod

SYMMETRY MCSymmetry

SPECIFICATION MulticastGroupSpec

INVARIANT RoutedToCalledMethod

\* Once every call is done and nothing is in flight, the clients stop.
CHECK_DEADLOCK FALSE
