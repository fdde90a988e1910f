SPECIFICATION FairSpec
CONSTANTS
    Users = {ann}
    Requests = {r1, r2}
    NoUser = NoUser
    Leavers = {}
    MaxToken = 3
PROPERTIES EveryRequestAnswered
