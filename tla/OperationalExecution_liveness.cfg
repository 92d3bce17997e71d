SPECIFICATION FairSpec
CONSTANTS
    Requests = {r1}
    Calls = {c1}
    NoReq = NoReq
    Expiry = FALSE
PROPERTY
    OutcomeLearned
