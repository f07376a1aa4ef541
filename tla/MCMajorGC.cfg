SPECIFICATION Spec
CONSTANTS
    Domains <- MCDomains
    Blocks <- MCBlocks
    Ephes <- MCEphes
    Worlds <- MCWorlds
INVARIANTS
    CollectsRight
    PhasesAgree
PROPERTIES
    CyclesEnd
