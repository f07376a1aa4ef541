SPECIFICATION Spec
CONSTANTS
    Domains <- MCDomains
    Blocks <- MCBlocks
    Ephes <- MCEphes
    Worlds <- HandoverWorlds
INVARIANTS
    KeysErased
