SPECIFICATION Spec
CONSTANTS
    c1 = c1
    c2 = c2
    Callers = {c1}
    Fqdns <- MCFqdns
    BadFqdn = ""
    Arguments <- AnyArguments
    MayCrash = FALSE
    MaxKeys = 4
INVARIANTS
    LeafAlwaysChains
