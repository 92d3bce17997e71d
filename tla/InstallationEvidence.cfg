SPECIFICATION EvidenceSpec
CONSTANTS
    r1 = r1
    r2 = r2
    Calls = {c1, c2}
    Keys = {"k1", "k2"}
    Refs = {r1, r2}
    RefFrom <- MCRefFrom
    RefUntil <- MCRefUntil
    TTL = 2
    Parts <- MCParts
    Parents = {p1, p2}
    ParentUntil = 2
    Studied <- MCStudied
    Quota <- MCQuota
    MaxTime = 2
SYMMETRY CallSymmetry
INVARIANTS
    ChainSound
    AnswersSound
    BoundarySound
    RetryNeverDequeues
PROPERTIES
    OrphanStaysOrphan
    RecordedWhileValid
