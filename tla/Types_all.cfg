\* Four types with up to four references; three types and two uses in two crates.
SPECIFICATION FairSpec
CONSTANTS
    a = a
    b = b
    ext = ext
    local = local
    T = T
    U = U
    V = V
    W = W
    Modules = {a, b, ext}
    Names = {T, U, V, W}
    Outside = outside
    Bare = bare
    Root <- RootOf
    Place <- PlaceOf
    MaxHops = 16
    Inputs <- AllInputs
INVARIANTS ReachesExactly DepsFirst EachOnce ResolvesToDefinition BindsToItsType
PROPERTIES OrderEnds
CHECK_DEADLOCK FALSE
