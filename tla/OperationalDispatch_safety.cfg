SPECIFICATION Spec
CONSTANTS
    Requests = {r1}
    Digests = {"d1", "d2"}
    Callers = {c1, c2}
    NoOne = NoOne
    MaxDeliveries = 2
    MaxCrashes = 1
    MaxFaults = 1
SYMMETRY CallerSymmetry
INVARIANTS
    TypeOK
    AtMostOneReboot
    LedgerSound
    AnswersAreTrue
PROPERTY
    NeverReopened
    ImplementsLifecycle
