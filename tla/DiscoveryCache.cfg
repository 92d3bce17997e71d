SPECIFICATION Spec
CONSTANTS
    p1 = p1
    p2 = p2
    c1 = c1
    c2 = c2
    Procs = {p1, p2}
    Clients = {c1, c2}
    Server <- MCServer
    Settings <- MCSettings
    Gens <- MCGens
    Stale = 1
    MaxTime = 3
SYMMETRY ClientSymmetry
INVARIANT
    CacheSound
PROPERTIES
    NewestStays
    AnswersSound
