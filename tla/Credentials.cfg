SPECIFICATION Spec
CONSTANTS
    c1 = c1
    c2 = c2
    Callers <- Two
    Fqdns <- MCFqdns
    BadFqdn = ""
    Arguments <- AnyArguments
    MayCrash = TRUE
    MaxKeys = 4
SYMMETRY Symmetry
INVARIANTS
    TypeOK
    CaIsPaired
    LeafChainsToCa
    LeafIsPaired
PROPERTIES
    CaIsNeverReplaced
