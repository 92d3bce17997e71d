SPECIFICATION Spec
CONSTANTS
    Manual = {w1, w2}
    Candidates = {k1}
    Calls = {c1, c2}
    Files = {f, g}
    Planned = {f}
    None = None
    Settings <- MCSettings
SYMMETRY StagesSymmetry
INVARIANTS
    EffectSound
    CommitIsTrue
    RecoverySound
