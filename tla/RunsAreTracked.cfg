SPECIFICATION Spec
CONSTANTS
    Workers = {w1, w2}
    Ids = {1, 2, 3}
    NoId = NoId
    Nobody = Nobody
    Movies = {m1, m2, m3}
    Hopeless = {m3}
    Limit = 2
    ReportEvery = 2
    Faults = {}
INVARIANTS RunsAreTracked
