SPECIFICATION Spec
CONSTANTS
    Users = {ann}
    NoUser = NoUser
    Calls = {c1, c2}
    MaxToken = 3
    Faults = {}
INVARIANTS RetrySucceeds
