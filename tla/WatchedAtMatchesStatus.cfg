SPECIFICATION Spec
\* Once the identifiers are used up and the lists deleted, every request is a 404.
CHECK_DEADLOCK FALSE
CONSTANTS
    Users = {ann}
    NoUser = NoUser
    Movies = {m1}
    Lists = {w1}
    Entries = {e1}
    Requests = {r1, r2}
    None = None
INVARIANTS WatchedAtMatchesStatus
