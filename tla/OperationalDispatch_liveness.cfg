SPECIFICATION FairSpec
CONSTANTS
    Requests = {r1}
    Digests = {"d1"}
    Callers = {c1, c2}
    NoOne = NoOne
    MaxDeliveries = 2
    MaxCrashes = 1
    MaxFaults = 0
PROPERTIES
    DispatchDecided
    VerificationConcludes
