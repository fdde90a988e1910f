SPECIFICATION FairSpec
CONSTANTS
    m1 = m1
    m2 = m2
    i1 = i1
    NoId = NoId
    Absent = Absent
    Requests = {r1}
    Movies <- MCMovies
    Imdb <- MCImdb
    ImdbOf <- MCImdbOf
    Gone = {}
    ImdbLimit = 2
    GenreLimit = 2
    ReportEvery = 2
    Faults = {"outage", "crash"}
INVARIANTS CatalogInv FinishedMeansOver
PROPERTIES CatalogGrows EveryRunEnds
