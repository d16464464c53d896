-------------------------- MODULE MCBuildPipeline --------------------------
(* The stages, flags and faults TLC checks the build pipeline with.           *)
EXTENDS BuildPipeline

NoStages  == {}
First     == {1}

(* source-cloned, wasm-compiled (for the stages that derive their output from *)
(* the one before), wasm-synced, finalized.                                   *)
Four      == 4
Outputs   == 2..4
Late      == {1, 4}

(* With source-configured in the second place.                                *)
Configured == {1, 2}

Ordinary  == {"none"}
Plain     == {"none", "clean"}
Both      == {"src", "tools"}

Nothing   == {None}
Half      == {None, Torn}
=============================================================================
