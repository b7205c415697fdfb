\* An input is edited while a build runs.
SPECIFICATION Spec
CONSTANTS
    Units = {"script", "lib", "bin"}
    Order <- ScriptLibBin
    Deps <- Chain
    Inputs = {"lib.rs", "cfg", "extra"}
    Sources <- PackageSources
    Opened <- ScriptReads
    Harvested = {"script", "lib", "bin"}
    Collected = {"script", "lib", "bin"}
    Contents = {"plain", "other"}
    Dropped <- NothingDropped
    NoArt = NoArt
    NoKey = NoKey
    MaxUpsets = 3
    EditsMidRun = TRUE
INVARIANT RunCorrect
