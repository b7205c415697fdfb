\* Processes take turns on a static key; a write may be lost.
SPECIFICATION Spec
CONSTANTS
    k1 = k1  k2 = k2  k3 = k3  k4 = k4  s1 = s1  s2 = s2  a1 = a1  a2 = a2
    Procs = {p, q}
    Keys = {k1, k2, k3}
    Slots = {s1, s2}
    Slot <- UnitOf
    Artifacts = {a1, a2}
    BundleOf <- Bundles
    Builds = {b1, b2}
    Backends = {"lmdb", "tikv"}
    NoKey = NoKey
    NoBuild = NoBuild
    Absent = Absent
    NoBundle = NoBundle
    MaxLate = 1
    Exclusive = TRUE
INVARIANTS TypeOK RestoreFaithful SnapshotCurrent
PROPERTY ImplementsUnitCache
SYMMETRY Symmetry
