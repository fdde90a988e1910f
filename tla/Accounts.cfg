SPECIFICATION FairSpec
\* Once the containers have settled and everybody has acted, nothing happens.
CHECK_DEADLOCK FALSE
CONSTANTS
    Services = {api, worker, scheduler}
    People = {p1, p2}
    Emails = {e1}
    NoEmail = NoEmail
    Start = 1
    MaxAttempts = 4
    MaxOutages = 1
INVARIANTS AccountsInv
PROPERTIES EveryBootEnds RacesAreSurvived
