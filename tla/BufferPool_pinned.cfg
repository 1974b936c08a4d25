SPECIFICATION Spec
CONSTANTS
    d0 = d0
    d1 = d1
    d2 = d2
    Unwritten = Unwritten
    Zero = d0
    Data <- MCData
    PoolSize = 2
    MaxPages = 3
    MaxPins = 2
INVARIANTS
    AllPinnedMeansNoVictim
