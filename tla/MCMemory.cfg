SPECIFICATION Spec
CONSTANTS
    MinorHeaps <- MCMinorHeaps
    PoolWorlds <- MCPoolWorlds
    FinalWorlds <- MCFinalWorlds
    ArrayWorlds <- MCArrayWorlds
    StatWorlds <- MCStatWorlds
    CompareWorlds <- MCCompareWorlds
    MarshalWorlds <- MCMarshalWorlds
    BigarrayWorlds <- MCBigarrayWorlds
    FragmentWorlds <- MCFragmentWorlds
INVARIANTS
    GraphKept HeapRight RootsRight ArraysRight PoolRight
    CompareRight MarshalRight BigarrayRight FragmentsRight
CHECK_DEADLOCK FALSE
