\* One bench after the other, in two projects, beside the developer's own runs.
SPECIFICATION Spec
CONSTANTS
    Procs = {p, q}
    Projects = {one, two}
    NoProject = NoProject
    Missing = Missing
    Torn = Torn
    MaxMishaps = 3
    Alone = TRUE
INVARIANTS TypeOK RowsHonest
PROPERTY ResultsKept
