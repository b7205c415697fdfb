SPECIFICATION Spec
CONSTANTS
    Procs = {p1, p2}
    Keys = {"k1", "k3"}
    Slots = {"s1", "s2"}
    Slot <- SlotOf
    Artifacts = {"lib.rlib", "lib.rmeta"}
    BundleOf <- TwoOneNone
    TmpName <- SharedTmp
    TmpNames = {"lib.tmp"}
    Builds = {b1}
    Exclusive = FALSE
    NoKey = NoKey
    NoBuild = NoBuild
    NoPath = NoPath
    Absent = Absent
    Partial = Partial
    NoBundle = NoBundle
    Corrupt = Corrupt
INVARIANTS NothingMissing RaceInv
SYMMETRY Symmetry
\* A torn dynamic-inputs file makes every later run fail: the system stops.
CHECK_DEADLOCK FALSE
