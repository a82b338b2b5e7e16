SPECIFICATION Spec
CONSTANTS
    Users = {u1, u2}
    Requests = {r1, r2}
    Sids = {s1, s2}
SYMMETRY Symmetry
CHECK_DEADLOCK FALSE
INVARIANTS
    TypeOK
    RoleHeldDuringRequest
    NothingOutlivesAccount
PROPERTIES
    RoleChangesOnlyBySetRole
    LogoutIsFinal
