\* All acyclic graphs of four units; a unit others depend on may be a root, too.
SPECIFICATION Spec
CONSTANTS
    Units = {1, 2, 3, 4}
    Graphs <- Dags
    Members = {{}, {2}, {3}}
    NoMode = NoMode
INVARIANTS TypeOK TopoOrder LtoAgrees LinksWhatItNeeds
