SPECIFICATION FairSpec
CHECK_DEADLOCK FALSE
CONSTANTS
    Users = {ann, bob}
    NoUser = NoUser
    Movies = {m1, m2}
    Lists = {w1}
    Entries = {e1, e2}
    Requests = {r1, r2}
    None = None
INVARIANTS EntriesInv
PROPERTIES RefinesStore OnlyTheOwner EveryRequestAnswered
