\* Three threads, whose events are seen in any order.
SPECIFICATION Spec
CONSTANTS
    Tids = {root, t1, t2}
    Root = root
    MaxExecs = 2
    Faults = {"kill", "zap"}
INVARIANTS TypeOK TreeSound Reported EndReasons NamesRight CpuOfOneExec TotalCpu
SYMMETRY Symmetry
\* zb time ends.
CHECK_DEADLOCK FALSE
