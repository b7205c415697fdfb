\* Edits between runs; cleans and failed runs anywhere.
SPECIFICATION FairSpec
CONSTANTS
    Units = {"script", "lib", "bin"}
    Order <- ScriptLibBin
    Deps <- Chain
    Inputs = {"lib.rs", "cfg", "extra"}
    Sources <- PackageSources
    Opened <- ScriptReads
    Harvested = {"script", "lib", "bin"}
    Collected = {"script", "lib", "bin"}
    Contents = {"plain", "other"}
    Dropped <- NothingDropped
    NoArt = NoArt
    NoKey = NoKey
    MaxUpsets = 4
    EditsMidRun = FALSE
INVARIANTS TypeOK CacheSound RunCorrect BuiltWorldsHit
PROPERTY Warms
