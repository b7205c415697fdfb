\* Units of which nothing is harvested, or nothing collected.
SPECIFICATION Spec
CONSTANTS
    Units = {"tool", "script", "stub", "lib"}
    Order <- ToolScriptStubLib
    Deps <- LibOverBoth
    Inputs = {"build.rs", "cfg"}
    Sources <- ScriptSources
    Opened <- ToolReads
    Harvested = {"script", "stub", "lib"}
    Collected = {"tool", "script", "lib"}
    Contents = {"plain", "other"}
    Dropped <- NothingDropped
    NoArt = NoArt
    NoKey = NoKey
    MaxUpsets = 4
    EditsMidRun = FALSE
INVARIANT CacheSound
