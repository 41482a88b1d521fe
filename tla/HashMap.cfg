SPECIFICATION Spec
VIEW WithoutRests
SYMMETRY Alike
CONSTANTS
    k1 = k1
    k2 = k2
    k3 = k3
    k4 = k4
    Keys <- FourKeys
    Values <- TwoValues
    Hashes <- Colliding
    Capacities <- Asked
    Smallest = 4
    Largest = 8
INVARIANTS
    TypeOK
    AlwaysAnEmptySlot
    CountsExact
PROPERTIES
    EachEntryOnce
    ProbesEnd
    FiniteMapSpec
