--------------------------- MODULE BuildPipeline ---------------------------
(* The checkpointed build of a WASM package (build-pipeline.mts and           *)
(* checkpoint-manager.mts with the yoga-layout stages): a run loads the       *)
(* package's pins, cleans what its flags or a missing output ask for, then    *)
(* takes the stages in order.  A stage whose checkpoint carries the current   *)
(* cache key is skipped, any other is rebuilt from the output of the stage    *)
(* before it, archived and recorded.  One builder; runs may stop anywhere.    *)
(*                                                                            *)
(* A content is the history it was built by: <<source>> for the source tree,  *)
(* and one tool version appended by each later stage.                         *)
EXTENDS Integers, Sequences, FiniteSets, Functions

CONSTANTS
    N,                  \* stages: 1 clones the source, N finalizes
    Agnostic,           \* PLATFORM_AGNOSTIC_CHECKPOINTS among the stages
    MaxVersion,         \* bound on the versions of each pin
    Pins,               \* which pins are bumped: "src", "tools"
    EditsDuringRuns,    \* may a pin be bumped while a run is under way
    Flags,              \* of a run: a subset of {"none", "force", "clean"}
    CleanStages,        \* the stages named with --clean-stage
    FromStages,         \* the stages named with --from-stage
    CloneLeaves,        \* what an interrupted clone leaves of the source tree
    MovedTag,           \* may the upstream tag name another commit
    Losable,            \* stages whose output may be deleted between runs
    MaxFaults           \* bound on interruptions and losses

ASSUME StagesAssumption == N \in Nat /\ N >= 3 /\ Agnostic \subseteq 1..N
ASSUME BoundsAssumption == MaxVersion \in Nat \ {0} /\ MaxFaults \in Nat

VARIABLES
    pkg,        \* the pins on disk: package.json and external-tools.json
    output,     \* the output of each stage
    tarball,    \* <stage>.tar.gz
    json,       \* <stage>.json
    run,        \* the build under way
    faults

vars == <<pkg, output, tarball, json, run, faults>>

Stages == 1..N
Shared == {1}                   \* the stages whose checkpoints are shared by the build modes

None     == <<>>
Torn     == <<0>>               \* there, but not all of it
MovedSha == <<-1>>              \* a tree cloned at a commit that is not the pinned one

(* The source tree is not among the outputs that are lost.                    *)
ASSUME ScopeAssumption ==
    /\ Pins \subseteq {"src", "tools"}
    /\ CleanStages \subseteq Stages /\ FromStages \subseteq Stages
    /\ CloneLeaves \subseteq {None, Torn}
    /\ Losable \subseteq 2..N

(* A stage copies or transforms what it finds: what is wrong stays wrong.     *)
Derive(content, tools) ==
    IF content[1] = 0 THEN content ELSE Append(content, tools)

NoKey  == [src |-> 0, tools |-> 0, meta |-> FALSE]
NoJson == [key |-> NoKey, artifact |-> None]

(* createCheckpoint hashes the pin files with the target's metadata, which    *)
(* the stages that are not shared pass; shouldRun leaves it out for the       *)
(* platform-agnostic stages.                                                  *)
KeyWritten(s) == [src |-> pkg.src, tools |-> pkg.tools, meta |-> s \notin Shared]
KeyRead(s)    == [src |-> pkg.src, tools |-> pkg.tools, meta |-> s \notin Agnostic]

(* Mutant: a checkpoint that exists is current.                               *)
ShouldRun_Exists(s) == run.force \/ json[s] = NoJson

ShouldRun(s) ==
    \/ run.force
    \/ json[s] = NoJson
    \/ json[s].key # KeyRead(s)

Idle == run.pc \in {"idle", "finished"}

Init ==
    /\ pkg = [src |-> 1, tools |-> 1]
    /\ output  = [s \in Stages |-> None]
    /\ tarball = [s \in Stages |-> None]
    /\ json    = [s \in Stages |-> NoJson]
    /\ run = [pc |-> "idle", stage |-> 1, loaded |-> pkg, force |-> FALSE, doomed |-> <<>>]
    /\ faults = 0

(***************************************************************************)
(* runPipeline                                                             *)
(***************************************************************************)

(* The checkpoint files to delete, as a sequence of groups: one file follows  *)
(* the other, but a directory loses its files in any order.                   *)
FilesOf(stages) == {"json", "tar"} \X stages

(* Mutant: cleaning forgets the checkpoints of the build mode.                *)
CleanAll_Shared == << FilesOf(Shared) >>
CleanAll == << FilesOf(Stages \ Shared), FilesOf(Shared) >>
CleanFrom(first) ==
    [i \in 1..2 * (N + 1 - first) |->
        { << IF i % 2 = 1 THEN "json" ELSE "tar", first + (i - 1) \div 2 >> }]

(* The sets of files that are gone when the deletion stops half way.          *)
PartlyDeleted(doomed) ==
    {gone \in SUBSET UNION Range(doomed) :
        \E k \in DOMAIN doomed :
            /\ \A i \in 1..(k - 1) : doomed[i] \subseteq gone
            /\ gone \subseteq UNION {doomed[i] : i \in 1..k}}

Delete(files) ==
    /\ json'    = [s \in Stages |-> IF <<"json", s>> \in files THEN NoJson ELSE json[s]]
    /\ tarball' = [s \in Stages |-> IF <<"tar", s>> \in files THEN None ELSE tarball[s]]

(* A run reads the pins, then decides what cleanPipelineState deletes: every  *)
(* checkpoint when asked to or when a final output is missing.                *)
Begin(from, force, doomed) ==
    /\ Idle
    /\ run' = [pc |-> "clean", stage |-> from, loaded |-> pkg,
               force |-> force, doomed |-> doomed]
    /\ UNCHANGED <<pkg, output, tarball, json, faults>>

Start(flag, from) ==
    Begin(from, flag = "force",
          IF flag = "clean" \/ output[N] = None THEN CleanAll ELSE <<>>)

StartCleanStage(first) == Begin(1, FALSE, CleanFrom(first))

Clean ==
    /\ run.pc = "clean"
    /\ Delete(UNION Range(run.doomed))
    /\ run' = [run EXCEPT !.pc = "check", !.doomed = <<>>]
    /\ UNCHANGED <<pkg, output, faults>>

(* The stage is done, by its checkpoint or by its work.                       *)
NextStage == IF run.stage = N THEN [run EXCEPT !.pc = "finished"]
             ELSE [run EXCEPT !.pc = "check", !.stage = @ + 1]

(* runStage: the checkpoint is current; nothing looks at the output.          *)
SkipStage ==
    /\ run.pc = "check" /\ ~ShouldRun(run.stage)
    /\ run' = NextStage
    /\ UNCHANGED <<pkg, output, tarball, json, faults>>

Work == run.pc = "check" /\ ShouldRun(run.stage)
Build == run' = [run EXCEPT !.pc = "build"]
Fail  == run' = [run EXCEPT !.pc = "idle"]

(***************************************************************************)
(* The workers of the stages                                               *)
(***************************************************************************)

(* cloneYogaSource: a tree that has its CMakeLists.txt is taken as it is.     *)
TakeSource ==
    /\ Work /\ run.stage = 1 /\ output[1] \notin {None, Torn}
    /\ run' = [run EXCEPT !.pc = "built"]
    /\ UNCHANGED <<pkg, output, tarball, json, faults>>

(* git clone refuses a directory that exists and is not empty.                *)
CloneSource ==
    /\ Work /\ run.stage = 1 /\ output[1] \in {None, Torn}
    /\ IF output[1] = None THEN Build ELSE Fail
    /\ UNCHANGED <<pkg, output, tarball, json, faults>>

(* The stages between delete their output, then copy from the one before.     *)
DeriveStage ==
    /\ Work /\ run.stage \in 2..(N - 1)
    /\ output' = [output EXCEPT ![run.stage] = None]
    /\ IF output[run.stage - 1] = None THEN Fail ELSE Build
    /\ UNCHANGED <<pkg, tarball, json, faults>>

(* finalizeWasm.  Without the output of the stage before it restores that      *)
(* stage's checkpoint, but into buildDir/Sync, and then looks for the files    *)
(* in buildDir/wasm/out/Sync again: it throws whatever the restore did.        *)
Finalize ==
    /\ Work /\ run.stage = N
    /\ IF output[N - 1] = None THEN Fail /\ UNCHANGED output
       ELSE Build /\ output' = [output EXCEPT ![N] = None]
    /\ UNCHANGED <<pkg, tarball, json, faults>>

(* The work ends.  A clone is compared with the pinned commit after it is     *)
(* there; a moved tag fails the run and leaves the tree.                      *)
FinishClone ==
    /\ run.pc = "build" /\ run.stage = 1
    /\ \/ /\ output' = [output EXCEPT ![1] = <<run.loaded.src>>]
          /\ run' = [run EXCEPT !.pc = "built"]
       \/ /\ MovedTag
          /\ output' = [output EXCEPT ![1] = MovedSha]
          /\ Fail
    /\ UNCHANGED <<pkg, tarball, json, faults>>

FinishBuild ==
    /\ run.pc = "build" /\ run.stage > 1
    /\ output' = [output EXCEPT ![run.stage] =
                      Derive(output[run.stage - 1], run.loaded.tools)]
    /\ run' = [run EXCEPT !.pc = "built"]
    /\ UNCHANGED <<pkg, tarball, json, faults>>

(***************************************************************************)
(* createCheckpoint                                                        *)
(***************************************************************************)

(* Mutant: the key is refreshed with the archive, its hash only afterwards.   *)
Archive_KeyFirst ==
    /\ run.pc = "built"
    /\ tarball' = [tarball EXCEPT ![run.stage] = output[run.stage]]
    /\ json' = [json EXCEPT ![run.stage].key = KeyWritten(run.stage)]
    /\ run' = [run EXCEPT !.pc = "archived"]
    /\ UNCHANGED <<pkg, output, faults>>

(* The archive is written beside its place and renamed into it.               *)
Archive ==
    /\ run.pc = "built"
    /\ tarball' = [tarball EXCEPT ![run.stage] = output[run.stage]]
    /\ run' = [run EXCEPT !.pc = "archived"]
    /\ UNCHANGED <<pkg, output, json, faults>>

(* Then what the tarball holds and what the pin files hold now are hashed,    *)
(* and the JSON is written the same way.                                      *)
Record ==
    /\ run.pc = "archived"
    /\ json' = [json EXCEPT ![run.stage] =
                    [key |-> KeyWritten(run.stage), artifact |-> tarball[run.stage]]]
    /\ run' = NextStage
    /\ UNCHANGED <<pkg, output, tarball, faults>>

(***************************************************************************)
(* The environment                                                         *)
(***************************************************************************)

(* The process is killed, or a worker, a smoke test or tar throws.            *)
Interrupt ==
    /\ ~Idle /\ faults < MaxFaults
    /\ faults' = faults + 1
    /\ Fail
    /\ UNCHANGED pkg
    /\ CASE run.pc = "clean" /\ run.doomed # <<>> ->
              /\ \E gone \in PartlyDeleted(run.doomed) : Delete(gone)
              /\ UNCHANGED output
         [] run.pc = "build" ->
              /\ \E left \in IF run.stage = 1 THEN CloneLeaves ELSE {None, Torn} :
                      output' = [output EXCEPT ![run.stage] = left]
              /\ UNCHANGED <<tarball, json>>
         [] OTHER -> UNCHANGED <<output, tarball, json>>

Bump(pin) ==
    /\ Idle \/ EditsDuringRuns
    /\ pkg[pin] < MaxVersion
    /\ pkg' = [pkg EXCEPT ![pin] = @ + 1]
    /\ UNCHANGED <<output, tarball, json, run, faults>>

Lose(s) ==
    /\ Idle /\ faults < MaxFaults /\ output[s] # None
    /\ output' = [output EXCEPT ![s] = None]
    /\ run' = [run EXCEPT !.pc = "idle"]        \* this is no longer what the run left
    /\ faults' = faults + 1
    /\ UNCHANGED <<pkg, tarball, json>>

RunStep ==
    \/ Clean \/ SkipStage
    \/ TakeSource \/ CloneSource \/ DeriveStage \/ Finalize
    \/ FinishClone \/ FinishBuild
    \/ Archive \/ Record

Next ==
    \/ \E flag \in Flags, from \in FromStages : Start(flag, from)
    \/ \E first \in CleanStages : StartCleanStage(first)
    \/ RunStep
    \/ Interrupt
    \/ \E pin \in Pins : Bump(pin)
    \/ \E s \in Losable : Lose(s)

Spec == Init /\ [][Next]_vars

(* The process goes on with a run it has started, and whoever builds keeps    *)
(* trying with --clean, the remedy every message of checkpoint-manager.mts    *)
(* names.                                                                     *)
FairSpec == Spec /\ WF_vars(RunStep) /\ SF_vars(Start("clean", 1))

(***************************************************************************)
(* Properties                                                              *)
(***************************************************************************)

(* A run that finishes delivers what its pins and the source tree say, by     *)
(* whatever mixture of skipped and rebuilt stages and after whatever          *)
(* interruptions: never a half-written file, and never a stage built with the *)
(* tools of an earlier run.                                                   *)
Delivered == [i \in 1..N |-> IF i = 1 THEN output[1][1] ELSE run.loaded.tools]
FinishedIsCurrent == run.pc = "finished" => output[N] = Delivered

(* A checkpoint describes its tarball, or a run that was stopped between the  *)
(* two left a newer tarball that the key already shows to be out of date.     *)
JsonDescribesTarball ==
    Idle => \A s \in Stages :
        json[s] # NoJson /\ json[s].artifact # tarball[s] =>
            tarball[s] = None \/ json[s].key # KeyRead(s)

(* Whatever was interrupted or lost, runs with --clean finish again. *)
Recovers == []<>(run.pc = "finished")

(* "Tool bump or source SHA bump invalidates the cache automatically"         *)
(* (build-pipeline.mts:15): a finished run has built the pinned source.       *)
SourceAsPinned == run.pc = "finished" => output[N][1] = run.loaded.src
===========================================================================
