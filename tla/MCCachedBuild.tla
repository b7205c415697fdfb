---------------------------- MODULE MCCachedBuild ----------------------------
(* Instances of CachedBuild for TLC: a package whose build script reads a       *)
(* configuration file and, if that says so, a second one; its library; and a   *)
(* binary of another package.                                                   *)
EXTENDS CachedBuild

ScriptLibBin == <<"script", "lib", "bin">>
Chain == [u \in Units |-> CASE u = "script" -> {}
                            [] u = "lib"    -> {"script"}
                            [] u = "bin"    -> {"lib"}]

\* The sources of the package are in the static key of its build script, too.
PackageSources == [u \in Units |-> IF u = "bin" THEN {} ELSE {"lib.rs"}]

ScriptReads(u, w) ==
    IF u # "script" THEN {}
    ELSE IF w["cfg"] = "plain" THEN {"cfg"} ELSE {"cfg", "extra"}

NothingDropped == [u \in Units |-> {}]

\* A second graph: a library over a build script and a tool.  Nothing can be
\* harvested of the tool, nothing collected of the stub.
ToolScriptStubLib == <<"tool", "script", "stub", "lib">>
LibOverBoth == [u \in Units |-> IF u = "lib" THEN {"tool", "script"} ELSE {}]
ScriptSources == [u \in Units |-> IF u = "script" THEN {"build.rs"} ELSE {}]
ToolReads(u, w) == IF u \in {"tool", "stub"} THEN {"cfg"} ELSE {}
=============================================================================
