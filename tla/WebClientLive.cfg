SPECIFICATION FairSpec
CONSTANTS
    Users = {ann}
    NoUser = NoUser
    Calls = {c1, c2}
    MaxToken = 2
    Faults = {"busy", "slow", "reject"}
PROPERTIES EveryCallEnds BecomesReady
