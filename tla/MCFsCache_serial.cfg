SPECIFICATION Spec
CONSTANTS
    Procs = {p1, p2}
    Keys = {"k1", "k2"}
    Slots = {"s1"}
    Slot <- SlotOf
    Artifacts = {"lib.rlib", "lib.rmeta"}
    BundleOf <- TwoOneNone
    TmpName <- SharedTmp
    TmpNames = {"lib.tmp"}
    Builds = {b1, b2}
    Exclusive = TRUE
    NoKey = NoKey
    NoBuild = NoBuild
    NoPath = NoPath
    Absent = Absent
    Partial = Partial
    NoBundle = NoBundle
    Corrupt = Corrupt
INVARIANTS TypeOK PublishedWhole PublishedCoherent
           InputsReadable RestoreFaithful StoreInv
PROPERTY ImplementsUnitCache
SYMMETRY Symmetry
