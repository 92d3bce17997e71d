SPECIFICATION Spec
CONSTANTS
    Calls = {c1, c2}
    Subjects = {s1, s2}
    Keys = {k1, k2}
    NoItem = NoItem
    Settings <- MCSettings
SYMMETRY DeliverySymmetry
INVARIANTS
    SentAtMostOnce
    DeliverySound
PROPERTY
    OutcomeFinal
