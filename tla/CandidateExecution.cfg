SPECIFICATION Spec
CONSTANTS
    Requests = {w1, w2}
    Digests = {d1, d2}
    Digest = d1
    None = None
    Settings <- MCSettings
    Threads = {t1, t2}
SYMMETRY CandidateSymmetry
INVARIANTS
    AtMostOneRun
    LedgerInv
    SubmittedAtMostOnce
    OutcomeIsTrue
    PatchNotLost
PROPERTY
    TerminalImmutable
