SPECIFICATION Spec
CONSTANTS
    Requests = {r1}
    Calls = {c1, c2}
    NoReq = NoReq
    Expiry = TRUE
SYMMETRY CallSymmetry
INVARIANTS
    FollowsCore
