\* Every fault, with two threads; and what must happen in the end.
SPECIFICATION Spec
CONSTANTS
    Tids = {root, t1}
    Root = root
    MaxExecs = 1
    Faults = {"kill", "zap", "late", "term", "thread_exec", "reuse", "signal"}
INVARIANT ReportPrints
PROPERTIES Resumed ReportFollows
\* zb time ends.
CHECK_DEADLOCK FALSE
