SPECIFICATION PropertiesSpec
CONSTANTS
    Labels = {"L", "M"}
    Types = {"T"}
    Languages = {"en", "es"}
    Profiles <- MCProfiles
    Tokens <- MCTokens
    EndsOf <- MCEndsOf
    None = None
    n1 = n1
    n2 = n2
    e1 = e1
    e2 = e2
    Ids = {n1, n2}
    Callers = {c1, c2}
    Uses = {"read", "materialize", "group", "advise"}
    MaxWrites = 2
    MaxCrashes = 1
    Absent = Absent
INVARIANTS LookupExact ConstraintsExact TextExact ReadsRecorded Converged FileTrustworthy
SYMMETRY PropertiesSymmetry
CHECK_DEADLOCK FALSE
