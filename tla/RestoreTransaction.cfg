SPECIFICATION FairSpec
CONSTANTS
    N = 3
    Contents = {"old", "new"}
    Absent = Absent
    Dirs = {"config", "secrets"}
    Root = Root
    Undecided = Undecided
    Parent <- MCParent
    Manifests <- MCManifests
    MaxCrashes = 2
    MaxFaults = 1
INVARIANTS
    VolumeSound
    OutcomeExact
PROPERTIES
    RestoreIsAtomic
    InterruptedResolves
