SPECIFICATION Spec
CONSTANTS
    h1 = h1
    h2 = h2
    Handlers = {h1, h2}
    Users = {"alice", "bob"}
    Skus = {"a"}
    Counts <- HalfRange
    MaxCalls = 2
    Timeouts = TRUE
    Careful = {"alice"}
SYMMETRY HandlerSymmetry
INVARIANTS
    TypeOK
PROPERTIES
    ImplementsShop
