CONSTANTS
    v1 = v1
    v2 = v2
    NoVersion = NoVersion
    NoFile = NoFile
    Versions <- TwoVersions
    MAX_OBJECTS = 2
SPECIFICATION Spec
SYMMETRY VersionSymmetry
INVARIANTS
    CleanIsOnDisk
    NothingLeftBehind
    OneFirmwareAtFullWeight
