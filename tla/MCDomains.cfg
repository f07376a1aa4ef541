SPECIFICATION Spec
CONSTANTS
    Max_domains = 2
    MaxSpawns = 2
    Scenarios <- MCScenarios
INVARIANTS
    StopTheWorld
    Assertions
PROPERTIES
    SectionEnds
    HandshakesEnd
CHECK_DEADLOCK FALSE
