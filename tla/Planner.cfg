SPECIFICATION Spec
CONSTANTS
    MaxVecHops = 2
    Graphs <- MCGraphs
    Queries <- MCQueries
    Indexed <- NoneOrA
    Swaps = {TRUE, FALSE}
INVARIANTS AnsweredRight WellScoped
CHECK_DEADLOCK FALSE
