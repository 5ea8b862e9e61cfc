SPECIFICATION Spec
CONSTANTS
    Clients = {c1}
    Main = main
    Size = 2
    Marks <- MCMarks
    MaxTime = 1
INVARIANT WholeAtRest
PROPERTY NothingOverlooked LatencyPlausible
