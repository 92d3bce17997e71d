SPECIFICATION IntentSpec
CONSTANTS
    Guests = {g}
    Prints = {p, q}
    Values = {run, stop}
    Requests = {r1, r2, r3}
    Calls = {c1, c2}
    Policies <- MCPolicies
    None = None
    Unknown = Unknown
    IntentSettings <- MCSettings
SYMMETRY IntentsSymmetry
INVARIANTS
    StoreSound
    RequestsHonoured
