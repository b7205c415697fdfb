\* A process outlives the command and does nothing.
SPECIFICATION Spec
CONSTANTS
    Tids = {root, t1}
    Root = root
    MaxExecs = 1
    Faults = {}
PROPERTY EndsAfterRoot
\* zb time ends.
CHECK_DEADLOCK FALSE
