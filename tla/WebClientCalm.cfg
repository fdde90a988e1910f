SPECIFICATION Spec
CONSTANTS
    Users = {ann, bob}
    NoUser = NoUser
    Calls = {c1, c2}
    MaxToken = 3
    Faults = {}
SYMMETRY Symmetry
INVARIANTS SessionsInv TabInv StoredIsGood SingleFlight
PROPERTIES NeverThrownOut ReloadKeepsSession
