CONSTANTS
    Labels = {"L", "M"}
    Types = {"T"}
    Languages = {"en", "es"}
    Profiles <- MCProfiles
    Tokens <- MCTokens
    EndsOf <- MCEndsOf
    None = None
    n1 = n1
    n2 = n2
    e1 = e1
    e2 = e2
SPECIFICATION Spec
INVARIANT OptOutUnchanged
SYMMETRY Symmetry
CHECK_DEADLOCK FALSE
