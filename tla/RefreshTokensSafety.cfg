SPECIFICATION Spec
\* Once every user is deactivated no request is let in.
CHECK_DEADLOCK FALSE
CONSTANTS
    Users = {ann}
    Requests = {r1, r2}
    NoUser = NoUser
    Leavers = {ann}
    MaxToken = 3
SYMMETRY Symmetry
INVARIANTS TokensInv OneLivePerFamily SingleUse
PROPERTIES RevocationCoversSnapshot RefinesSessions
