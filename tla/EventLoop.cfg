SPECIFICATION Spec
CONSTANT QUEUE = 2
INVARIANTS
    ReportedIsThere
    ExitIsClean
    StopsWithinARound
PROPERTIES
    SignalStops
    NoStarvation
