SPECIFICATION Spec
CONSTANTS
    Procs = {p1, p2}
    Packages <- SamplePackages
    Legacy <- SampleLegacy
    MaxFaults = 2
    Corrupt = Corrupt
    None = None
SYMMETRY ProcSymmetry
INVARIANTS
    IndexedIsLoadable
    NothingLost
    OneRecordPerVersion
    DependenciesIndexed
PROPERTY
    ArtifactsAreImmutable
