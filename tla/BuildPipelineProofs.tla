--------------------------- MODULE BuildPipelineProofs ---------------------------
(***************************************************************************)
(* The checkpointed build, for any number of stages, versions, flags and   *)
(* faults: what a checkpoint says of its tarball, and what a finished run  *)
(* delivers.                                                               *)
(***************************************************************************)
EXTENDS BuildPipeline, SequenceTheorems, TLAPS

Pin == {"src", "tools"}
Content == Seq(Int)
File == {"json", "tar"} \X Stages
Working == {"build", "built", "archived"}

JsonFile == [key : [src : Nat, tools : Nat, meta : BOOLEAN], artifact : Content]
Versions == [Pin -> Nat \ {0}]
RunState == [pc : {"idle", "clean", "check", "finished"} \cup Working, stage : Stages,
         loaded : Versions, force : BOOLEAN, doomed : Seq(SUBSET File)]

TypeOK ==
    /\ pkg \in Versions
    /\ output \in [Stages -> Content]
    /\ tarball \in [Stages -> Content]
    /\ json \in [Stages -> JsonFile]
    /\ run \in RunState
    /\ faults \in Nat

-------------------------------------------------------------------------------
(* A checkpoint and its tarball.  *)

\* What shouldRun sees when it is not forced.
Stale(s) == json[s] = NoJson \/ json[s].key # KeyRead(s)

\* A key was written from pins no newer than the present ones, so a key that
\* is out of date stays so.
KeysArePast ==
    \A s \in Stages : json[s].key.src <= pkg.src /\ json[s].key.tools <= pkg.tools

\* Only a stage whose checkpoint is out of date is worked on.
WorksOnStale == run.pc \in Working => Stale(run.stage)

NotForced == ~run.force

\* JsonDescribesTarball at every step of a run.
Described ==
    \A s \in Stages : ~Stale(s) /\ json[s].artifact # tarball[s] => tarball[s] = None

JsonInv == TypeOK /\ KeysArePast /\ WorksOnStale /\ NotForced /\ Described

-------------------------------------------------------------------------------
(* What is delivered.  *)

\* The exceptions that the runs build_pipeline_* leave out: pins edited during a
\* run, a stage forced again under its current key, and stages left out.
Orderly == ~EditsDuringRuns /\ "force" \notin Flags /\ FromStages \subseteq {1}

Cloned == output[1] \notin {None, Torn}

\* The output of stage s that the source tree and the pins ask for.
Right(s) == [i \in 1..s |-> IF i = 1 THEN output[1][1] ELSE pkg.tools]

\* A stage whose checkpoint is current has such an output, or has lost it.
Current(s) == output[s] \in {None, Right(s)}

Active == run.pc \in {"check"} \cup Working

\* A run goes by the pins it has read, and by --from-stage only.
PinsLoaded ==
    /\ run.pc \notin {"idle", "finished"} => run.loaded = pkg
    /\ run.pc = "clean" => run.stage = 1

\* The source tree is one commit, whatever its name, and nothing is built
\* before it is there.
SourceFirst ==
    /\ Cloned => Len(output[1]) = 1 /\ output[1][1] \notin {0}
    /\ ~Cloned => /\ run.stage = 1 /\ run.pc \notin {"built", "archived", "finished"}
                  /\ \A s \in Stages : json[s] = NoJson
    /\ run.pc = "build" /\ run.stage = 1 => ~Cloned

CheckpointsCurrent == \A s \in Stages : ~Stale(s) => Current(s)

\* A stage is reached over a good one, and built from one that is there.
StageBefore ==
    Active /\ run.stage > 1 =>
        /\ Current(run.stage - 1)
        /\ run.pc = "build" => output[run.stage - 1] # None

StageBuilt ==
    /\ run.pc \in {"built", "archived"} => output[run.stage] = Right(run.stage)
    /\ run.pc = "archived" => tarball[run.stage] = output[run.stage]

\* A final output that is missing will be built again.
FinalMissing ==
    output[N] = None =>
        /\ run.pc = "clean" => <<"json", N>> \in UNION Range(run.doomed)
        /\ Active => Stale(N)

IInv ==
    /\ JsonInv /\ PinsLoaded /\ SourceFirst /\ CheckpointsCurrent
    /\ StageBefore /\ StageBuilt /\ FinalMissing /\ FinishedIsCurrent

-------------------------------------------------------------------------------
(* Types.  *)

LEMMA StageFacts ==
    /\ N \in Nat /\ N >= 3 /\ N \in Stages /\ 1 \in Stages /\ N - 1 \in Stages
    /\ None \in Content /\ Torn \in Content /\ MovedSha \in Content
BY StagesAssumption DEF Stages, Content, None, Torn, MovedSha

\* Whatever cleanPipelineState deletes, it deletes files of checkpoints, and the
\* record of the final stage among them.
LEMMA CleanAllFiles ==
    CleanAll \in Seq(SUBSET File) /\ <<"json", N>> \in UNION Range(CleanAll)
<1>1. FilesOf(Stages \ Shared) \in SUBSET File /\ FilesOf(Shared) \in SUBSET File
  BY StageFacts DEF FilesOf, File, Shared
<1>2. CleanAll \in Seq(SUBSET File) /\ 1 \in DOMAIN CleanAll
  BY <1>1 DEF CleanAll
<1>3. <<"json", N>> \in CleanAll[1]
  BY StageFacts DEF CleanAll, FilesOf, Shared
<1>4. QED
  BY <1>2, <1>3 DEF Range

LEMMA CleanFromFiles ==
    ASSUME NEW first \in Stages
    PROVE  CleanFrom(first) \in Seq(SUBSET File) /\ <<"json", N>> \in UNION Range(CleanFrom(first))
<1> DEFINE n == 2 * (N + 1 - first)
           k == 2 * (N - first) + 1
<1>1. first \in Nat /\ 1 <= first /\ first <= N /\ n \in Nat /\ k \in 1..n /\ N \in Nat
  BY StageFacts DEF Stages
<1>2. ASSUME NEW i \in 1..n
      PROVE  first + (i - 1) \div 2 \in Stages
  BY <1>1 DEF Stages
<1>3. CleanFrom(first) \in Seq(SUBSET File)
  <2>1. CleanFrom(first) = [i \in 1..n |-> {<<IF i % 2 = 1 THEN "json" ELSE "tar",
                                              first + (i - 1) \div 2>>}]
    BY DEF CleanFrom
  <2>2. ASSUME NEW i \in 1..n
        PROVE  {<<IF i % 2 = 1 THEN "json" ELSE "tar", first + (i - 1) \div 2>>} \in SUBSET File
    BY <1>2 DEF File
  <2>3. CleanFrom(first) \in [1..n -> SUBSET File]
    BY <2>1, <2>2
  <2>4. QED
    BY <1>1, <2>3
<1>4. <<"json", N>> \in CleanFrom(first)[k]
  <2>1. k % 2 = 1 /\ first + (k - 1) \div 2 = N
    BY <1>1
  <2>2. CleanFrom(first)[k] = {<<IF k % 2 = 1 THEN "json" ELSE "tar", first + (k - 1) \div 2>>}
    BY <1>1 DEF CleanFrom
  <2>3. QED
    BY <2>1, <2>2
<1>5. k \in DOMAIN CleanFrom(first)
  BY <1>1 DEF CleanFrom
<1>6. QED
  BY <1>3, <1>4, <1>5 DEF Range

\* What a stage makes of the content before it is a content.
LEMMA DeriveType ==
    ASSUME NEW c \in Content, NEW t \in Int
    PROVE  Derive(c, t) \in Content
BY DEF Derive, Content

\* A deletion leaves records and archives what they were, or none.
LEMMA DeleteEffect ==
    ASSUME TypeOK, NEW files, Delete(files)
    PROVE  /\ \A s \in Stages : json'[s] = NoJson \/ json'[s] = json[s]
           /\ \A s \in Stages : tarball'[s] = None \/ tarball'[s] = tarball[s]
           /\ \A s \in Stages : <<"json", s>> \in files => json'[s] = NoJson
           /\ json' \in [Stages -> JsonFile] /\ tarball' \in [Stages -> Content]
<1>1. NoJson \in JsonFile
  BY StageFacts DEF NoJson, NoKey, JsonFile
<1>2. QED
  BY <1>1, StageFacts DEF Delete, TypeOK

\* The fields of a run that a step leaves alone.
LEMMA RunFields ==
    ASSUME run \in RunState
    PROVE  /\ run.stage \in Stages /\ run.loaded \in Versions /\ run.force \in BOOLEAN
           /\ run.doomed \in Seq(SUBSET File)
           /\ NextStage \in RunState
           /\ NextStage.loaded = run.loaded /\ NextStage.force = run.force
           /\ NextStage.pc = IF run.stage = N THEN "finished" ELSE "check"
           /\ NextStage.stage = IF run.stage = N THEN N ELSE run.stage + 1
           /\ \A p \in {"idle", "clean", "check", "finished"} \cup Working :
                 /\ [run EXCEPT !.pc = p] \in RunState
                 /\ [run EXCEPT !.pc = p].pc = p
                 /\ [run EXCEPT !.pc = p].stage = run.stage
                 /\ [run EXCEPT !.pc = p].loaded = run.loaded
                 /\ [run EXCEPT !.pc = p].force = run.force
                 /\ [run EXCEPT !.pc = p].doomed = run.doomed
<1>1. run.stage # N => run.stage + 1 \in Stages
  BY StageFacts DEF RunState, Stages
<1>2. NextStage \in RunState
  BY <1>1 DEF RunState, NextStage
<1>3. /\ NextStage.loaded = run.loaded /\ NextStage.force = run.force
      /\ NextStage.pc = IF run.stage = N THEN "finished" ELSE "check"
      /\ NextStage.stage = IF run.stage = N THEN N ELSE run.stage + 1
  BY DEF RunState, NextStage
<1>4. QED
  BY <1>2, <1>3 DEF RunState

\* A run that begins is at its first stage and has read the pins.
LEMMA BeginEffect ==
    ASSUME TypeOK, NEW from \in Stages, NEW force \in BOOLEAN,
           NEW doomed \in Seq(SUBSET File), Begin(from, force, doomed)
    PROVE  /\ run' \in RunState
           /\ run'.pc = "clean" /\ run'.stage = from /\ run'.loaded = pkg
           /\ run'.force = force /\ run'.doomed = doomed
BY DEF Begin, TypeOK, RunState

LEMMA TypeStep == ASSUME TypeOK, [Next]_vars PROVE TypeOK'
<1>1. ASSUME NEW flag \in Flags, NEW from \in FromStages, Start(flag, from)
      PROVE  TypeOK'
  <2>1. (IF flag = "clean" \/ output[N] = None THEN CleanAll ELSE <<>>) \in Seq(SUBSET File)
    BY CleanAllFiles
  <2>2. run' \in RunState
    BY <1>1, <2>1, BeginEffect, ScopeAssumption DEF Start
  <2>3. QED
    BY <1>1, <2>2 DEF Start, Begin, TypeOK
<1>2. ASSUME NEW first \in CleanStages, StartCleanStage(first) PROVE TypeOK'
  <2>1. run' \in RunState
    BY <1>2, BeginEffect, CleanFromFiles, StageFacts, ScopeAssumption DEF StartCleanStage
  <2>2. QED
    BY <1>2, <2>1 DEF StartCleanStage, Begin, TypeOK
<1>3. CASE Clean
  <2>1. <<>> \in Seq(SUBSET File)
    OBVIOUS
  <2>2. run' \in RunState
    BY <1>3, <2>1 DEF Clean, TypeOK, RunState
  <2>3. QED
    BY <1>3, <2>2, DeleteEffect DEF Clean, TypeOK
<1>4. CASE SkipStage
  BY <1>4, RunFields DEF SkipStage, TypeOK
<1>5. CASE TakeSource \/ CloneSource \/ DeriveStage \/ Finalize
  <2> DEFINE To(p) == [run EXCEPT !.pc = p]
  <2>1. To("built") \in RunState /\ To("build") \in RunState /\ To("idle") \in RunState
    BY RunFields DEF Working, TypeOK
  <2>2. run' \in {To("built"), To("build"), To("idle"), run}
    BY <1>5 DEF TakeSource, CloneSource, DeriveStage, Finalize,
       Build, Fail
  <2>3. run' \in RunState
    BY <2>1, <2>2 DEF TypeOK
  <2>4. output' \in [Stages -> Content]
    BY <1>5, StageFacts DEF TakeSource, CloneSource, DeriveStage, Finalize, TypeOK
  <2>5. QED
    BY <1>5, <2>3, <2>4 DEF TakeSource, CloneSource, DeriveStage, Finalize, TypeOK
<1>6. CASE FinishClone
  <2>1. run' \in RunState
    BY <1>6, RunFields DEF FinishClone, Fail, Working, TypeOK
  <2>2. <<run.loaded.src>> \in Content
    BY RunFields DEF TypeOK, Versions, Pin, Content
  <2>3. QED
    BY <1>6, <2>1, <2>2, StageFacts DEF FinishClone, TypeOK
<1>7. CASE FinishBuild
  <2>1. run.stage - 1 \in Stages
    <3>1. run.stage \in 1..N /\ run.stage > 1
      BY <1>7, RunFields DEF FinishBuild, TypeOK, Stages
    <3>2. QED
      BY <3>1, StageFacts DEF Stages
  <2>2. run.loaded.tools \in Int
    BY RunFields DEF TypeOK, Versions, Pin
  <2>3. Derive(output[run.stage - 1], run.loaded.tools) \in Content
    BY <2>1, <2>2, DeriveType DEF TypeOK
  <2>4. run' \in RunState
    BY <1>7, RunFields DEF FinishBuild, Working, TypeOK
  <2>5. QED
    BY <1>7, <2>3, <2>4 DEF FinishBuild, TypeOK
<1>8. CASE Archive
  BY <1>8, RunFields DEF Archive, Working, TypeOK
<1>9. CASE Record
  <2>1. [key |-> KeyWritten(run.stage), artifact |-> tarball[run.stage]] \in JsonFile
    BY RunFields DEF KeyWritten, TypeOK, Versions, Pin, JsonFile
  <2>2. QED
    BY <1>9, <2>1, RunFields DEF Record, TypeOK
<1>10. CASE Interrupt
  <2>1. run' \in RunState
    BY <1>10, RunFields DEF Interrupt, Fail, TypeOK
  <2>2. CASE run.pc = "clean" /\ run.doomed # <<>>
    BY <1>10, <2>1, <2>2, DeleteEffect DEF Interrupt, TypeOK
  <2>3. CASE run.pc = "build"
    BY <1>10, <2>1, <2>3, StageFacts, ScopeAssumption DEF Interrupt, TypeOK
  <2>4. CASE ~(run.pc = "clean" /\ run.doomed # <<>>) /\ run.pc # "build"
    BY <1>10, <2>1, <2>4 DEF Interrupt, TypeOK
  <2>5. QED
    BY <2>2, <2>3, <2>4
<1>11. ASSUME NEW pin \in Pins, Bump(pin) PROVE TypeOK'
  BY <1>11, ScopeAssumption DEF Bump, Versions, Pin, TypeOK
<1>12. ASSUME NEW s \in Losable, Lose(s) PROVE TypeOK'
  <2>1. s \in Stages
    BY StageFacts, ScopeAssumption DEF Stages
  <2>2. run' \in RunState
    BY <1>12, RunFields DEF Lose, TypeOK
  <2>3. output' \in [Stages -> Content]
    BY <1>12, <2>1, StageFacts DEF Lose, TypeOK
  <2>4. QED
    BY <1>12, <2>2, <2>3 DEF Lose, TypeOK
<1>13. CASE UNCHANGED vars
  BY <1>13 DEF vars, TypeOK
<1>14. QED
  BY <1>1, <1>2, <1>3, <1>4, <1>5, <1>6, <1>7, <1>8, <1>9, <1>10, <1>11, <1>12, <1>13
     DEF Next, RunStep

LEMMA TypeInit == Init => TypeOK
<1> SUFFICES ASSUME Init PROVE TypeOK
  OBVIOUS
<1>1. <<>> \in Seq(SUBSET File) /\ NoJson \in JsonFile
  BY StageFacts DEF NoJson, NoKey, JsonFile
<1>2. pkg \in Versions
  BY DEF Init, Versions, Pin
<1>3. run \in RunState
  BY <1>1, <1>2, StageFacts DEF Init, RunState
<1>4. QED
  BY <1>1, <1>2, <1>3, StageFacts DEF Init, TypeOK

\* The state of a build is always one of a build.
THEOREM TypeCorrect == Spec => []TypeOK
BY TypeInit, TypeStep, PTL DEF Spec

-------------------------------------------------------------------------------
(* A checkpoint and its tarball.  *)

\* A step that leaves records, archives and pins alone leaves what they say.
LEMMA RecordsAlone ==
    ASSUME UNCHANGED <<pkg, tarball, json>>
    PROVE  /\ KeysArePast => KeysArePast'
           /\ Described => Described'
           /\ \A s \in Stages : Stale(s)' <=> Stale(s)
BY DEF KeysArePast, Described, Stale, KeyRead

\* A deletion makes no checkpoint current, and no current one wrong.
LEMMA RecordsDeleted ==
    ASSUME TypeOK, KeysArePast, Described, NEW files, Delete(files), UNCHANGED pkg
    PROVE  /\ KeysArePast' /\ Described'
           /\ \A s \in Stages : Stale(s) => Stale(s)'
           /\ \A s \in Stages : ~Stale(s)' => json'[s] = json[s] /\ ~Stale(s)
<1>1. pkg.src \in Nat /\ pkg.tools \in Nat /\ NoJson.key.src = 0 /\ NoJson.key.tools = 0
  BY DEF TypeOK, Versions, Pin, NoJson, NoKey
<1>2. KeysArePast'
  BY <1>1, DeleteEffect DEF KeysArePast
<1>3. ASSUME NEW s \in Stages, ~Stale(s)'
      PROVE  json'[s] = json[s] /\ ~Stale(s)
  BY <1>3, DeleteEffect DEF Stale, KeyRead
<1>4. Described'
  BY <1>3, DeleteEffect DEF Described
<1>5. QED
  BY <1>2, <1>3, <1>4

\* A newer pin makes every checkpoint out of date.
LEMMA BumpMakesStale ==
    ASSUME TypeOK, KeysArePast, NEW pin \in Pins, Bump(pin)
    PROVE  KeysArePast' /\ (\A s \in Stages : Stale(s)') /\ pin \in Pin
<1>1. pin \in Pin /\ pkg.src \in Nat /\ pkg.tools \in Nat
  BY ScopeAssumption DEF TypeOK, Versions, Pin
<1>2. pkg' = [pkg EXCEPT ![pin] = @ + 1] /\ json' = json
  BY DEF Bump
<1>3. CASE pin = "src"
  <2>1. pkg'.src = pkg.src + 1 /\ pkg'.tools = pkg.tools
    BY <1>2, <1>3 DEF TypeOK, Versions, Pin
  <2>2. ASSUME NEW s \in Stages
        PROVE  /\ json[s].key.src \in Nat /\ json[s].key.tools \in Nat
               /\ json[s].key.src <= pkg.src /\ json[s].key.tools <= pkg.tools
    BY DEF TypeOK, JsonFile, KeysArePast
  <2>3. KeysArePast'
    BY <1>1, <1>2, <2>1, <2>2 DEF KeysArePast
  <2>4. ASSUME NEW s \in Stages PROVE Stale(s)'
    BY <1>1, <1>2, <2>1, <2>2 DEF Stale, KeyRead
  <2>5. QED
    BY <1>1, <2>3, <2>4
<1>4. CASE pin = "tools"
  <2>1. pkg'.tools = pkg.tools + 1 /\ pkg'.src = pkg.src
    BY <1>2, <1>4 DEF TypeOK, Versions, Pin
  <2>2. ASSUME NEW s \in Stages
        PROVE  /\ json[s].key.src \in Nat /\ json[s].key.tools \in Nat
               /\ json[s].key.src <= pkg.src /\ json[s].key.tools <= pkg.tools
    BY DEF TypeOK, JsonFile, KeysArePast
  <2>3. KeysArePast'
    BY <1>1, <1>2, <2>1, <2>2 DEF KeysArePast
  <2>4. ASSUME NEW s \in Stages PROVE Stale(s)'
    BY <1>1, <1>2, <2>1, <2>2 DEF Stale, KeyRead
  <2>5. QED
    BY <1>1, <2>3, <2>4
<1>5. QED
  BY <1>1, <1>3, <1>4 DEF Pin

\* createCheckpoint records what the archive holds, under the pins of now.
LEMMA RecordEffect ==
    ASSUME TypeOK, KeysArePast, Record
    PROVE  /\ KeysArePast'
           /\ json'[run.stage].key = KeyWritten(run.stage)
           /\ json'[run.stage].artifact = tarball[run.stage]
           /\ \A s \in Stages \ {run.stage} :
                 json'[s] = json[s] /\ (Stale(s)' <=> Stale(s))
<1>1. run.stage \in Stages
  BY RunFields DEF TypeOK
<1>2. /\ json'[run.stage] = [key |-> KeyWritten(run.stage), artifact |-> tarball[run.stage]]
      /\ \A s \in Stages \ {run.stage} : json'[s] = json[s]
      /\ UNCHANGED pkg
  BY <1>1 DEF Record, TypeOK
<1>3. KeyWritten(run.stage).src = pkg.src /\ KeyWritten(run.stage).tools = pkg.tools
  BY DEF KeyWritten
<1>4. pkg.src \in Nat /\ pkg.tools \in Nat
  BY DEF TypeOK, Versions, Pin
<1>5. json'[run.stage].key = KeyWritten(run.stage) /\ json'[run.stage].artifact = tarball[run.stage]
  BY <1>2
<1>6. KeysArePast'
  BY <1>2, <1>3, <1>4, <1>5 DEF KeysArePast
<1>7. QED
  BY <1>2, <1>5, <1>6 DEF Stale, KeyRead

\* The stage of a run that reaches its work has a checkpoint that is out of date.
LEMMA WorkIsStale ==
    ASSUME NotForced
    PROVE  \A s \in Stages : ShouldRun(s) <=> Stale(s)
BY DEF NotForced, ShouldRun, Stale

LEMMA JsonStep ==
    ASSUME "force" \notin Flags, JsonInv, [Next]_vars
    PROVE  JsonInv'
<1>0. TypeOK' /\ TypeOK /\ run.stage \in Stages
  BY TypeStep, RunFields DEF JsonInv, TypeOK
<1>1. ASSUME NEW flag \in Flags, NEW from \in FromStages, Start(flag, from)
      PROVE  JsonInv'
  <2>1. run'.pc = "clean" /\ run'.force = FALSE
    BY <1>1 DEF Start, Begin
  <2>2. QED
    BY <1>0, <1>1, <2>1, RecordsAlone
       DEF Start, Begin, JsonInv, WorksOnStale, NotForced, Working
<1>2. ASSUME NEW first \in CleanStages, StartCleanStage(first) PROVE JsonInv'
  <2>1. run'.pc = "clean" /\ run'.force = FALSE
    BY <1>2 DEF StartCleanStage, Begin
  <2>2. QED
    BY <1>0, <1>2, <2>1, RecordsAlone
       DEF StartCleanStage, Begin, JsonInv, WorksOnStale, NotForced, Working
<1>3. CASE Clean
  <2>1. run'.pc = "check" /\ run'.force = run.force
    BY <1>0, <1>3 DEF Clean, TypeOK, RunState
  <2>2. KeysArePast' /\ Described'
    BY <1>0, <1>3, RecordsDeleted DEF Clean, JsonInv
  <2>3. QED
    BY <1>0, <2>1, <2>2 DEF JsonInv, WorksOnStale, NotForced, Working
<1>4. CASE SkipStage
  <2>1. run'.pc \in {"check", "finished"} /\ run'.force = run.force
    BY <1>0, <1>4, RunFields DEF SkipStage, TypeOK
  <2>2. QED
    BY <1>0, <1>4, <2>1, RecordsAlone DEF SkipStage, JsonInv, WorksOnStale, NotForced, Working
<1>5. CASE TakeSource \/ CloneSource \/ DeriveStage \/ Finalize
  <2>1. /\ Work /\ UNCHANGED <<pkg, tarball, json>>
        /\ \/ \E p \in {"built", "build", "idle"} : run' = [run EXCEPT !.pc = p]
           \/ run' = run
    BY <1>5 DEF TakeSource, CloneSource, DeriveStage, Finalize,
       Build, Fail
  <2>2. run'.stage = run.stage /\ run'.force = run.force
    BY <1>0, <2>1, RunFields DEF TypeOK, Working
  <2>3. Stale(run.stage)
    BY <1>0, <2>1, WorkIsStale DEF Work, JsonInv
  <2>4. QED
    BY <1>0, <2>1, <2>2, <2>3, RecordsAlone DEF JsonInv, WorksOnStale, NotForced
<1>6. CASE FinishClone \/ FinishBuild
  <2>1. /\ run.pc = "build" /\ UNCHANGED <<pkg, tarball, json>>
        /\ \E p \in {"built", "idle"} : run' = [run EXCEPT !.pc = p]
    BY <1>6 DEF FinishClone, FinishBuild, Fail
  <2>2. run'.stage = run.stage /\ run'.force = run.force
    BY <1>0, <2>1, RunFields DEF TypeOK, Working
  <2>3. QED
    BY <1>0, <2>1, <2>2, RecordsAlone DEF JsonInv, WorksOnStale, NotForced, Working
<1>7. CASE Archive
  <2>1. /\ run'.stage = run.stage /\ run'.force = run.force
    BY <1>0, <1>7, RunFields DEF Archive, TypeOK, Working
  <2>2. Stale(run.stage) /\ UNCHANGED <<pkg, json>>
    BY <1>7 DEF Archive, JsonInv, WorksOnStale, Working
  <2>3. \A s \in Stages : Stale(s)' <=> Stale(s)
    BY <2>2 DEF Stale, KeyRead
  <2>4. Described'
    BY <1>0, <1>7, <2>2, <2>3 DEF Archive, Described, JsonInv, TypeOK
  <2>5. QED
    BY <1>0, <2>1, <2>2, <2>3, <2>4 DEF JsonInv, KeysArePast, WorksOnStale, NotForced
<1>8. CASE Record
  <2>1. run'.pc \in {"check", "finished"} /\ run'.force = run.force
    BY <1>0, <1>8, RunFields DEF Record, TypeOK
  <2>2. Described'
    BY <1>0, <1>8, RecordEffect DEF Record, Described, JsonInv
  <2>3. QED
    BY <1>0, <1>8, <2>1, <2>2, RecordEffect DEF JsonInv, WorksOnStale, NotForced, Working
<1>9. CASE Interrupt
  <2>1. run'.pc = "idle" /\ run'.force = run.force /\ UNCHANGED pkg
    BY <1>0, <1>9, RunFields DEF Interrupt, Fail, TypeOK
  <2>2. UNCHANGED <<tarball, json>> \/ \E files : Delete(files)
    BY <1>9 DEF Interrupt
  <2>3. KeysArePast' /\ Described'
    BY <1>0, <2>1, <2>2, RecordsAlone, RecordsDeleted DEF JsonInv
  <2>4. QED
    BY <1>0, <2>1, <2>3 DEF JsonInv, WorksOnStale, NotForced, Working
<1>10. ASSUME NEW pin \in Pins, Bump(pin) PROVE JsonInv'
  <2>1. KeysArePast' /\ \A s \in Stages : Stale(s)'
    BY <1>0, <1>10, BumpMakesStale DEF JsonInv
  <2>2. QED
    BY <1>0, <1>10, <2>1 DEF Bump, JsonInv, Described, WorksOnStale, NotForced
<1>11. ASSUME NEW s \in Losable, Lose(s) PROVE JsonInv'
  <2>1. run'.pc = "idle" /\ run'.force = run.force
    BY <1>0, <1>11, RunFields DEF Lose, TypeOK
  <2>2. QED
    BY <1>0, <1>11, <2>1, RecordsAlone DEF Lose, JsonInv, WorksOnStale, NotForced, Working
<1>12. CASE UNCHANGED vars
  BY <1>0, <1>12, RecordsAlone DEF vars, JsonInv, WorksOnStale, NotForced
<1>13. QED
  BY <1>1, <1>2, <1>3, <1>4, <1>5, <1>6, <1>7, <1>8, <1>9, <1>10, <1>11, <1>12
     DEF Next, RunStep

LEMMA JsonInit == Init => JsonInv
<1> SUFFICES ASSUME Init PROVE JsonInv
  OBVIOUS
<1>1. KeysArePast /\ WorksOnStale /\ NotForced /\ Described
  BY DEF Init, KeysArePast, WorksOnStale, NotForced, Described, Stale, Working, NoJson, NoKey
<1>2. QED
  BY <1>1, TypeInit DEF JsonInv

\* As long as no stage is forced, a checkpoint that shouldRun would skip describes
\* its tarball, which was made for it or has since been deleted: a run
\* that stops between the archive and its record leaves a key that is out of date.
\* (--force rebuilds a stage under a key that is current all the while.)
THEOREM TarballsDescribed == "force" \notin Flags => (Spec => []JsonDescribesTarball)
<1> SUFFICES ASSUME "force" \notin Flags PROVE Spec => []JsonDescribesTarball
  OBVIOUS
<1>1. JsonInv => JsonDescribesTarball
  BY DEF JsonInv, Described, JsonDescribesTarball, Stale
<1>2. QED
  BY <1>1, JsonInit, JsonStep, PTL DEF Spec

-------------------------------------------------------------------------------
(* What is delivered.  *)

\* A good output is there, whole, and the source tree itself is the first one.
LEMMA GoodFacts ==
    ASSUME TypeOK, SourceFirst, Cloned, NEW s \in Stages
    PROVE  /\ Right(s) \in Content /\ Len(Right(s)) = s /\ Right(s)[1] = output[1][1]
           /\ None # Right(s)
           /\ Right(1) = output[1]
<1>1. /\ s \in Nat /\ s >= 1 /\ 1 \in Stages
      /\ output[1] \in Content /\ Len(output[1]) = 1 /\ output[1][1] \notin {0}
      /\ output[1][1] \in Int /\ pkg.tools \in Int
  BY StageFacts DEF Stages, TypeOK, SourceFirst, Versions, Pin, Content
<1>2. ASSUME NEW n \in Nat, n >= 1
      PROVE  Right(n) \in Content /\ Len(Right(n)) = n /\ Right(n)[1] = output[1][1]
  <2>1. Right(n) \in [1..n -> Int]
    BY <1>1 DEF Right
  <2>2. QED
    BY <1>2, <2>1 DEF Right, Content
<1>3. None # Right(s)
  BY <1>1, <1>2 DEF None
<1>4. Right(1) = output[1]
  <2>1. Right(1) \in Content /\ Len(Right(1)) = 1 /\ Right(1)[1] = output[1][1]
    <3>1. \A n \in Nat : n >= 1 =>
              Right(n) \in Content /\ Len(Right(n)) = n /\ Right(n)[1] = output[1][1]
      BY <1>2
    <3>2. 1 \in Nat /\ 1 >= 1
      OBVIOUS
    <3>3. QED
      BY <3>1, <3>2, Zenon
  <2>2. \A i \in 1..Len(Right(1)) : Right(1)[i] = output[1][i]
    BY <2>1
  <2>3. QED
    BY <1>1, <2>1, <2>2, SeqEqual DEF Content
<1>5. QED
  BY <1>1, <1>2, <1>3, <1>4

\* A stage turns a good output of the stage before it into a good one.
LEMMA DeriveGood ==
    ASSUME TypeOK, SourceFirst, Cloned, NEW s \in Stages, s > 1
    PROVE  Derive(Right(s - 1), pkg.tools) = Right(s)
<1>1. s \in Nat /\ s - 1 \in Stages /\ s - 1 \in Nat /\ s - 1 >= 1
  BY StageFacts DEF Stages
<1>2. /\ Right(s - 1) \in Content /\ Len(Right(s - 1)) = s - 1
      /\ Right(s - 1)[1] = output[1][1] /\ Right(s) \in Content /\ Len(Right(s)) = s
  BY <1>1, GoodFacts
<1>3. output[1][1] \notin {0} /\ pkg.tools \in Int
  BY DEF SourceFirst, TypeOK, Versions, Pin
<1>4. Derive(Right(s - 1), pkg.tools) = Append(Right(s - 1), pkg.tools)
  BY <1>2, <1>3 DEF Derive
<1>5. Append(Right(s - 1), pkg.tools) \in Seq(Int) /\ Len(Append(Right(s - 1), pkg.tools)) = s
  BY <1>1, <1>2, <1>3 DEF Content
<1>6. ASSUME NEW i \in 1..s PROVE Append(Right(s - 1), pkg.tools)[i] = Right(s)[i]
  <2>1. CASE i = s
    BY <1>1, <1>2, <1>3, <2>1 DEF Right, Content
  <2>2. CASE i # s
    <3>1. i \in 1..(s - 1)
      BY <1>1, <2>2
    <3>2. Append(Right(s - 1), pkg.tools)[i] = Right(s - 1)[i]
      BY <1>2, <1>3, <3>1 DEF Content
    <3>3. QED
      BY <3>1, <3>2 DEF Right
  <2>3. QED
    BY <2>1, <2>2
<1>7. Append(Right(s - 1), pkg.tools) = Right(s)
  BY <1>2, <1>5, <1>6, SeqEqual DEF Content
<1>8. QED
  BY <1>4, <1>7

\* What is good depends on the source tree and the pins.
LEMMA GoodSame ==
    ASSUME output'[1] = output[1], UNCHANGED pkg, NEW s
    PROVE  Right(s)' = Right(s)
BY DEF Right

\* Losing its output, or getting a good one, leaves a stage current.
LEMMA CurrentKept ==
    ASSUME output'[1] = output[1], UNCHANGED pkg, NEW s, json'[s] = json[s],
           output'[s] \in {output[s], None, Right(s)}
    PROVE  /\ Current(s) => Current(s)'
           /\ Stale(s)' <=> Stale(s)
BY GoodSame DEF Current, Stale, KeyRead

\* Where nothing is cloned, nothing is current.
LEMMA NothingCurrent ==
    ASSUME SourceFirst, ~Cloned
    PROVE  \A s \in Stages : Stale(s)
BY DEF SourceFirst, Stale

LEMMA CheckpointsKept ==
    ASSUME CheckpointsCurrent, output'[1] = output[1], UNCHANGED pkg,
           \A s \in Stages : ~Stale(s)' =>
               json'[s] = json[s] /\ output'[s] \in {output[s], None, Right(s)}
    PROVE  CheckpointsCurrent'
<1> SUFFICES ASSUME NEW s \in Stages, ~Stale(s)' PROVE Current(s)'
  BY DEF CheckpointsCurrent
<1>1. QED
  BY CurrentKept DEF CheckpointsCurrent

\* Beginning a run, and what it deletes.
LEMMA BeginStep ==
    ASSUME Orderly, IInv, JsonInv', NEW force \in BOOLEAN, NEW doomed \in Seq(SUBSET File),
           Begin(1, force, doomed),
           output[N] = None => <<"json", N>> \in UNION Range(doomed)
    PROVE  IInv'
<1>1. /\ run'.pc = "clean" /\ run'.stage = 1 /\ run'.loaded = pkg /\ run'.doomed = doomed
      /\ UNCHANGED <<pkg, output, tarball, json>>
  BY BeginEffect, StageFacts DEF Begin, IInv, JsonInv
<1>2. CheckpointsCurrent'
  BY <1>1, CheckpointsKept DEF IInv
<1>3. SourceFirst'
  BY <1>1 DEF IInv, SourceFirst, Cloned
<1>4. QED
  BY <1>1, <1>2, <1>3 DEF IInv, PinsLoaded, StageBefore, StageBuilt, FinalMissing,
     FinishedIsCurrent, Active, Working

LEMMA CleanStep ==
    ASSUME Orderly, IInv, JsonInv', Clean
    PROVE  IInv'
<1>1. TypeOK /\ KeysArePast /\ Described
  BY DEF IInv, JsonInv
<1>2. /\ run.pc = "clean" /\ run.stage = 1 /\ run'.pc = "check" /\ run'.stage = 1
      /\ run'.loaded = run.loaded /\ run.loaded = pkg
      /\ UNCHANGED <<pkg, output>>
  BY <1>1 DEF Clean, IInv, PinsLoaded, TypeOK, RunState
<1>3. /\ \A s \in Stages : json'[s] = NoJson \/ json'[s] = json[s]
      /\ \A s \in Stages : <<"json", s>> \in UNION Range(run.doomed) => json'[s] = NoJson
      /\ \A s \in Stages : ~Stale(s)' => json'[s] = json[s]
  BY <1>1, <1>2, DeleteEffect, RecordsDeleted DEF Clean
<1>4. CheckpointsCurrent'
  BY <1>2, <1>3, CheckpointsKept DEF IInv
<1>5. SourceFirst'
  BY <1>2, <1>3 DEF IInv, SourceFirst, Cloned
<1>6. FinalMissing'
  BY <1>2, <1>3, StageFacts DEF IInv, FinalMissing, Stale
<1>7. QED
  BY <1>2, <1>4, <1>5, <1>6 DEF IInv, PinsLoaded, StageBefore, StageBuilt,
     FinishedIsCurrent, Working

\* The stage a run is at is done: it goes on over it, or delivers it.
LEMMA NextStageStep ==
    ASSUME IInv, JsonInv', NEW k \in Stages, run.stage = k, run.pc \in {"check"} \cup Working, Cloned,
           run' = NextStage, UNCHANGED <<pkg, output>>,
           Current(k)', CheckpointsCurrent',
           \A s \in Stages : k # s => json'[s] = json[s],
           run.stage = N => output[N] # None
    PROVE  IInv'
<1>1. /\ run.stage \in Stages /\ run.stage \in Nat /\ run.loaded = pkg /\ run'.loaded = run.loaded
      /\ run'.pc = IF run.stage = N THEN "finished" ELSE "check"
      /\ run'.stage = IF run.stage = N THEN N ELSE run.stage + 1
  BY RunFields DEF IInv, JsonInv, TypeOK, PinsLoaded, Working, Stages
<1>2. /\ \A s \in Stages : Right(s)' = Right(s)
      /\ \A s \in Stages : json'[s] = json[s] => (Stale(s)' <=> Stale(s))
  BY GoodSame DEF Stale, KeyRead
<1>3. PinsLoaded' /\ StageBuilt'
  BY <1>1 DEF IInv, PinsLoaded, StageBuilt, Working
<1>4. SourceFirst'
  BY <1>1, StageFacts DEF IInv, SourceFirst, Cloned
<1>5. StageBefore'
  BY <1>1 DEF StageBefore, Active, Working
<1>6. FinalMissing'
  BY <1>1, <1>2, StageFacts DEF IInv, FinalMissing, Active, Working
<1>7. FinishedIsCurrent'
  <2>1. SUFFICES ASSUME run.stage = N PROVE output'[N] = Delivered'
    BY <1>1 DEF FinishedIsCurrent
  <2>2. output'[N] = Right(N)'
    BY <2>1 DEF Current
  <2>3. Right(N)' = Delivered'
    BY <1>1 DEF Right, Delivered
  <2>4. QED
    BY <2>2, <2>3
<1>8. QED
  BY <1>3, <1>4, <1>5, <1>6, <1>7 DEF IInv

LEMMA SkipStep ==
    ASSUME Orderly, IInv, JsonInv', SkipStage
    PROVE  IInv'
<1>0. PICK k \in Stages : k = run.stage
  BY RunFields DEF IInv, JsonInv, TypeOK
<1>1. /\ run.pc = "check" /\ run.stage \in Stages /\ ~Stale(run.stage)
      /\ run' = NextStage /\ UNCHANGED <<pkg, output, json>>
  BY RunFields, WorkIsStale DEF SkipStage, IInv, JsonInv, TypeOK
<1>2. Cloned /\ CheckpointsCurrent' /\ Current(k)'
  BY <1>0, <1>1, NothingCurrent, CheckpointsKept, CurrentKept DEF IInv, CheckpointsCurrent
<1>3. run.stage = N => output[N] # None
  BY <1>1 DEF IInv, FinalMissing, Active
<1>4. QED
  BY <1>0, <1>1, <1>2, <1>3, NextStageStep

LEMMA RecordStep ==
    ASSUME Orderly, IInv, JsonInv', Record
    PROVE  IInv'
<1>0. PICK k \in Stages : k = run.stage
  BY RunFields DEF IInv, JsonInv, TypeOK
<1>1. /\ run.pc = "archived" /\ run.stage \in Stages
      /\ run' = NextStage /\ UNCHANGED <<pkg, output>>
      /\ tarball[run.stage] = output[run.stage] /\ output[run.stage] = Right(run.stage)
  BY RunFields DEF Record, IInv, JsonInv, TypeOK, StageBuilt
<1>2. Cloned
  BY <1>1 DEF IInv, SourceFirst
<1>3. /\ json'[k].artifact = output[k]
      /\ \A s \in Stages \ {k} : json'[s] = json[s] /\ (Stale(s)' <=> Stale(s))
  BY <1>0, <1>1, RecordEffect DEF IInv, JsonInv
<1>4. Current(k)'
  BY <1>0, <1>1, <1>3, GoodSame DEF Current
<1>5. ASSUME NEW s \in Stages \ {k}, ~Stale(s)' PROVE Current(s)'
  BY <1>1, <1>3, <1>5, CurrentKept DEF IInv, CheckpointsCurrent
<1>6. CheckpointsCurrent'
  BY <1>4, <1>5 DEF CheckpointsCurrent
<1>7. run.stage = N => output[N] # None
  BY <1>1, <1>2, GoodFacts DEF IInv, JsonInv
<1>8. \A s \in Stages : k # s => json'[s] = json[s]
  BY <1>3
<1>9. QED
  BY <1>0, <1>1, <1>2, <1>4, <1>6, <1>7, <1>8, NextStageStep DEF Working

\* A step of the work on stage k, over the same source tree.
LEMMA WorkStep ==
    ASSUME Orderly, IInv, JsonInv', NEW k \in Stages, NEW p \in {"idle", "check"} \cup Working,
           run.pc \in {"check"} \cup Working, run.stage = k,
           run'.pc = p, run'.stage = k, run'.loaded = run.loaded,
           UNCHANGED <<pkg, json>>, output'[1] = output[1],
           \A s \in Stages : ~Stale(s) => output'[s] \in {output[s], None, Right(s)},
           k = 1 /\ p = "build" => ~Cloned,
           p \in {"built", "archived"} => Cloned /\ output'[k] = Right(k),
           p = "archived" => tarball'[k] = output'[k],
           k > 1 /\ p # "idle" => output'[k - 1] = output[k - 1],
           k > 1 /\ p = "build" => output'[k - 1] # None,
           output'[N] = None /\ p # "idle" => Stale(N)
    PROVE  IInv'
<1>1. /\ \A s \in Stages : Right(s)' = Right(s) /\ (Stale(s)' <=> Stale(s))
      /\ k \in Nat /\ (k > 1 => k - 1 \in Stages /\ Right(k - 1)' = Right(k - 1))
  BY GoodSame, StageFacts DEF Stale, KeyRead, Stages
<1>2. CheckpointsCurrent'
  BY <1>1, CheckpointsKept DEF IInv
<1>3. PinsLoaded' /\ FinishedIsCurrent'
  BY DEF IInv, PinsLoaded, FinishedIsCurrent, Working
<1>4. SourceFirst'
  BY DEF IInv, SourceFirst, Cloned, Working
<1>5. StageBuilt'
  BY <1>1 DEF StageBuilt
<1>6. StageBefore'
  <2>1. CASE k > 1 /\ p # "idle"
    <3>1. Current(k - 1) /\ k - 1 \in Stages
      BY <1>1, <2>1 DEF IInv, StageBefore, Active
    <3>2. Current(k - 1)'
      BY <2>1, <3>1, CurrentKept
    <3>3. QED
      BY <2>1, <3>2 DEF StageBefore
  <2>2. CASE ~(k > 1 /\ p # "idle")
    BY <2>2 DEF StageBefore, Active, Working
  <2>3. QED
    BY <2>1, <2>2
<1>7. FinalMissing'
  BY <1>1, StageFacts DEF FinalMissing, Active, Working
<1>8. QED
  BY <1>2, <1>3, <1>4, <1>5, <1>6, <1>7 DEF IInv

\* What the worker of a stage finds.
LEMMA WorkFinds ==
    ASSUME IInv, Work
    PROVE  /\ TypeOK /\ SourceFirst /\ run.stage \in Stages /\ Stale(run.stage)
           /\ run.pc = "check" /\ run.stage \in Nat
           /\ run.stage > 1 => /\ Cloned /\ run.stage - 1 \in Stages /\ Current(run.stage - 1)
                               /\ run.stage - 1 # run.stage
           /\ output[N] = None => Stale(N)
           /\ \A p \in {"idle", "check"} \cup Working :
                 /\ [run EXCEPT !.pc = p].pc = p
                 /\ [run EXCEPT !.pc = p].stage = run.stage
                 /\ [run EXCEPT !.pc = p].loaded = run.loaded
<1>1. TypeOK /\ SourceFirst /\ run.stage \in Stages /\ Stale(run.stage) /\ run.pc = "check"
  BY RunFields, WorkIsStale DEF IInv, JsonInv, Work, TypeOK
<1>2. run.stage \in Nat /\ (run.stage > 1 => run.stage - 1 \in Stages /\ run.stage - 1 # run.stage)
  BY <1>1, StageFacts DEF Stages
<1>3. run.stage > 1 => Cloned /\ Current(run.stage - 1)
  BY <1>1, <1>2 DEF IInv, SourceFirst, StageBefore, Active
<1>4. output[N] = None => Stale(N)
  BY <1>1 DEF IInv, FinalMissing, Active
<1>5. QED
  BY <1>1, <1>2, <1>3, <1>4, RunFields DEF TypeOK

LEMMA SourceStep ==
    ASSUME Orderly, IInv, JsonInv', TakeSource \/ CloneSource
    PROVE  IInv'
<1>1. PICK k \in Stages : k = run.stage
  BY WorkFinds DEF TakeSource, CloneSource
<1>2. k = 1 /\ UNCHANGED <<pkg, output, tarball, json>> /\ Work
  BY <1>1 DEF TakeSource, CloneSource
<1>3. CASE TakeSource
  <2>1. Cloned /\ run' = [run EXCEPT !.pc = "built"]
    BY <1>3 DEF TakeSource, Cloned
  <2>2. output'[k] = Right(k)
    BY <1>2, <2>1, WorkFinds, GoodFacts
  <2>3. run'.pc = "built" /\ run'.stage = k /\ run'.loaded = run.loaded
    BY <1>1, <1>2, <2>1, WorkFinds DEF Working
  <2>4. QED
    BY <1>1, <1>2, <2>1, <2>2, <2>3, WorkFinds, WorkStep DEF Working
<1>4. CASE CloneSource
  <2>1. ~Cloned
    BY <1>4 DEF CloneSource, Cloned
  <2>2. PICK p \in {"build", "idle"} : run' = [run EXCEPT !.pc = p]
    BY <1>4 DEF CloneSource, Build, Fail
  <2>3. run'.pc = p /\ run'.stage = k /\ run'.loaded = run.loaded
    BY <1>1, <1>2, <2>2, WorkFinds DEF Working
  <2>4. QED
    BY <1>1, <1>2, <2>1, <2>3, WorkFinds, WorkStep DEF Working
<1>5. QED
  BY <1>3, <1>4

LEMMA DeriveStep ==
    ASSUME Orderly, IInv, JsonInv', DeriveStage \/ Finalize
    PROVE  IInv'
<1>1. PICK k \in Stages : k = run.stage
  BY WorkFinds DEF DeriveStage, Finalize
<1>2. /\ Work /\ k > 1 /\ UNCHANGED <<pkg, tarball, json>>
      /\ output' \in {output, [output EXCEPT ![k] = None]}
  BY <1>1, StageFacts DEF DeriveStage, Finalize
<1>3. PICK p \in {"build", "idle"} :
          run' = [run EXCEPT !.pc = p] /\ (p = "build" => output[k - 1] # None)
  BY <1>1 DEF DeriveStage, Finalize, Build, Fail
<1>4. run'.pc = p /\ run'.stage = k /\ run'.loaded = run.loaded
  BY <1>1, <1>2, <1>3, WorkFinds DEF Working
<1>5. /\ k - 1 \in Stages /\ k - 1 # k /\ Cloned /\ Stale(k)
      /\ output'[k - 1] = output[k - 1] /\ output'[1] = output[1]
      /\ \A s \in Stages : s # k => output'[s] = output[s]
  BY <1>1, <1>2, WorkFinds, StageFacts DEF TypeOK
<1>6. output'[N] = None => Stale(N)
  BY <1>1, <1>2, <1>5, WorkFinds, StageFacts
<1>7. QED
  BY <1>1, <1>2, <1>3, <1>4, <1>5, <1>6, WorkFinds, WorkStep DEF Working

\* A clone makes the source tree, before anything was built from another.
LEMMA FinishCloneStep ==
    ASSUME Orderly, IInv, JsonInv', FinishClone
    PROVE  IInv'
<1>1. /\ TypeOK /\ run.pc = "build" /\ run.stage = 1 /\ UNCHANGED <<pkg, tarball, json>>
      /\ ~Cloned /\ 1 \in Stages /\ N \in Stages /\ N # 1 /\ run.loaded = pkg
  BY StageFacts DEF FinishClone, IInv, JsonInv, SourceFirst, PinsLoaded
<1>2. PICK c, p : /\ output' = [output EXCEPT ![1] = c] /\ run' = [run EXCEPT !.pc = p]
                  /\ \/ c = <<run.loaded.src>> /\ p = "built"
                     \/ c = MovedSha /\ p = "idle"
  BY DEF FinishClone, Fail
<1>3. run'.pc = p /\ run'.stage = 1 /\ run'.loaded = run.loaded
  BY <1>1, <1>2, RunFields DEF TypeOK, Working
<1>4. output'[1] = c /\ output'[N] = output[N]
  BY <1>1, <1>2 DEF TypeOK
<1>5. Len(c) = 1 /\ c[1] \notin {0} /\ c \notin {None, Torn}
  <2>1. run.loaded.src \in Nat \ {0}
    BY <1>1, RunFields DEF TypeOK, Versions, Pin
  <2>2. PICK x \in Int \ {0} : c = <<x>>
    BY <1>2, <2>1 DEF MovedSha
  <2>3. Len(c) = 1 /\ c[1] = x
    BY <2>2
  <2>4. Len(None) = 0 /\ Torn[1] = 0
    BY DEF None, Torn
  <2>5. QED
    BY <2>2, <2>3, <2>4
<1>6. \A s \in Stages : Stale(s) /\ Stale(s)'
  BY <1>1, NothingCurrent DEF IInv, Stale, KeyRead
<1>7. SourceFirst' /\ Cloned'
  BY <1>2, <1>3, <1>4, <1>5 DEF SourceFirst, Cloned
<1>8. CheckpointsCurrent' /\ FinalMissing'
  BY <1>1, <1>2, <1>3, <1>6 DEF CheckpointsCurrent, FinalMissing
<1>9. StageBuilt'
  <2>1. SUFFICES ASSUME p = "built" PROVE output'[1] = Right(1)'
    BY <1>2, <1>3 DEF StageBuilt
  <2>2. c = <<pkg.src>> /\ c[1] = pkg.src
    BY <1>1, <1>2, <2>1
  <2>3. Right(1)' = [i \in 1..1 |-> c[1]]
    BY <1>4 DEF Right
  <2>4. [i \in 1..1 |-> c[1]] = c
    BY <2>2
  <2>5. QED
    BY <1>4, <2>3, <2>4
<1>10. QED
  BY <1>1, <1>2, <1>3, <1>7, <1>8, <1>9
     DEF IInv, PinsLoaded, StageBefore, FinishedIsCurrent

LEMMA FinishBuildStep ==
    ASSUME Orderly, IInv, JsonInv', FinishBuild
    PROVE  IInv'
<1>1. PICK k \in Stages : k = run.stage
  BY RunFields DEF IInv, JsonInv, TypeOK
<1>2. /\ TypeOK /\ SourceFirst /\ run.pc = "build" /\ k > 1
      /\ UNCHANGED <<pkg, tarball, json>> /\ Cloned
      /\ run.loaded = pkg /\ run' = [run EXCEPT !.pc = "built"]
      /\ output' = [output EXCEPT ![k] = Derive(output[k - 1], pkg.tools)]
      /\ Current(k - 1) /\ output[k - 1] # None /\ Stale(k)
  <2>1. TypeOK /\ SourceFirst /\ run.pc = "build" /\ k > 1 /\ k - 1 \in Int
    BY <1>1, StageFacts DEF FinishBuild, IInv, JsonInv, Stages
  <2>2. run.loaded = pkg /\ Cloned /\ Stale(k)
    BY <1>1, <2>1 DEF IInv, PinsLoaded, SourceFirst, JsonInv, WorksOnStale, Working
  <2>3. Current(k - 1) /\ output[k - 1] # None
    BY <1>1, <2>1 DEF IInv, StageBefore, Active, Working
  <2>4. QED
    BY <1>1, <2>1, <2>2, <2>3 DEF FinishBuild
<1>3. output[k - 1] = Right(k - 1) /\ Derive(output[k - 1], pkg.tools) = Right(k)
  BY <1>2, DeriveGood DEF Current
<1>4. run'.pc = "built" /\ run'.stage = k /\ run'.loaded = run.loaded
  BY <1>1, <1>2, RunFields DEF TypeOK, Working
<1>5. /\ output'[k] = Right(k) /\ output'[1] = output[1] /\ output'[k - 1] = output[k - 1]
      /\ \A s \in Stages : s # k => output'[s] = output[s]
  BY <1>2, <1>3, StageFacts DEF TypeOK, Stages
<1>6. output'[N] = None => Stale(N)
  <2>1. CASE k = N
    BY <1>2, <1>5, <2>1, GoodFacts
  <2>2. CASE k # N
    BY <1>2, <1>5, <2>2, StageFacts DEF IInv, FinalMissing, Active, Working
  <2>3. QED
    BY <2>1, <2>2
<1>7. QED
  BY <1>1, <1>2, <1>4, <1>5, <1>6, WorkStep DEF Working

LEMMA ArchiveStep ==
    ASSUME Orderly, IInv, JsonInv', Archive
    PROVE  IInv'
<1>1. PICK k \in Stages : k = run.stage
  BY RunFields DEF IInv, JsonInv, TypeOK
<1>2. /\ TypeOK /\ run.pc = "built" /\ UNCHANGED <<pkg, output, json>> /\ Cloned
      /\ run' = [run EXCEPT !.pc = "archived"] /\ tarball'[k] = output[k]
      /\ output[k] = Right(k) /\ (output[N] = None => Stale(N))
  BY <1>1 DEF Archive, IInv, JsonInv, TypeOK, SourceFirst, StageBuilt, FinalMissing, Active,
     Working
<1>3. run'.pc = "archived" /\ run'.stage = k /\ run'.loaded = run.loaded
  BY <1>1, <1>2, RunFields DEF TypeOK, Working
<1>4. QED
  BY <1>1, <1>2, <1>3, WorkStep DEF Working

\* A run that stops leaves its checkpoints and the source tree as it found them,
\* and a torn output only where the checkpoint is out of date.
LEMMA InterruptStep ==
    ASSUME Orderly, IInv, JsonInv', Interrupt
    PROVE  IInv'
<1>1. TypeOK /\ KeysArePast /\ Described /\ SourceFirst /\ run.stage \in Stages
  BY RunFields DEF IInv, JsonInv, TypeOK
<1>2. run'.pc = "idle" /\ run'.stage = run.stage /\ UNCHANGED pkg
  BY <1>1, RunFields DEF Interrupt, Fail, TypeOK
<1>3. PinsLoaded' /\ StageBefore' /\ StageBuilt' /\ FinalMissing' /\ FinishedIsCurrent'
  BY <1>2 DEF PinsLoaded, StageBefore, StageBuilt, FinalMissing, FinishedIsCurrent, Active, Working
<1>4. SUFFICES CheckpointsCurrent' /\ SourceFirst'
  BY <1>3 DEF IInv
<1>5. CASE run.pc = "build"
  <2>1. PICK left \in {None, Torn} : output' = [output EXCEPT ![run.stage] = left]
    BY <1>5, ScopeAssumption DEF Interrupt
  <2>2. UNCHANGED json /\ Stale(run.stage) /\ (\A s \in Stages : Stale(s)' <=> Stale(s))
    BY <1>2, <1>5 DEF Interrupt, IInv, JsonInv, WorksOnStale, Working, Stale, KeyRead
  <2>3. CASE run.stage = 1
    <3>1. ~Cloned /\ output'[1] \in {None, Torn}
      BY <1>1, <1>5, <2>1, <2>3, StageFacts DEF SourceFirst, TypeOK
    <3>2. CheckpointsCurrent'
      BY <1>1, <2>2, <3>1, NothingCurrent DEF CheckpointsCurrent
    <3>3. SourceFirst'
      BY <1>1, <1>2, <2>2, <3>1 DEF SourceFirst, Cloned
    <3>4. QED
      BY <3>2, <3>3
  <2>4. CASE run.stage # 1
    <3>1. output'[1] = output[1] /\ (\A s \in Stages : s # run.stage => output'[s] = output[s])
      BY <1>1, <2>1, <2>4, StageFacts DEF TypeOK
    <3>2. CheckpointsCurrent'
      BY <1>2, <2>2, <3>1, CheckpointsKept DEF IInv
    <3>3. SourceFirst'
      BY <1>1, <1>2, <2>2, <3>1 DEF SourceFirst, Cloned
    <3>4. QED
      BY <3>2, <3>3
  <2>5. QED
    BY <2>3, <2>4
<1>6. CASE run.pc # "build"
  <2>1. UNCHANGED output /\ (UNCHANGED <<tarball, json>> \/ \E files : Delete(files))
    BY <1>6 DEF Interrupt
  <2>2. /\ \A s \in Stages : json'[s] = NoJson \/ json'[s] = json[s]
        /\ \A s \in Stages : ~Stale(s)' => json'[s] = json[s]
    BY <1>1, <1>2, <2>1, DeleteEffect, RecordsDeleted
  <2>3. CheckpointsCurrent'
    BY <1>2, <2>1, <2>2, CheckpointsKept DEF IInv
  <2>4. SourceFirst'
    BY <1>1, <1>2, <2>1, <2>2 DEF SourceFirst, Cloned
  <2>5. QED
    BY <2>3, <2>4
<1>7. QED
  BY <1>5, <1>6

LEMMA EnvironmentStep ==
    ASSUME Orderly, IInv, JsonInv',
           \/ \E pin \in Pins : Bump(pin)
           \/ \E s \in Losable : Lose(s)
    PROVE  IInv'
<1>1. TypeOK /\ KeysArePast /\ SourceFirst /\ Idle
  BY DEF IInv, JsonInv, Bump, Lose, Orderly
<1>2. ASSUME NEW pin \in Pins, Bump(pin) PROVE IInv'
  <2>1. (\A s \in Stages : Stale(s)') /\ UNCHANGED <<output, tarball, json, run>>
    BY <1>1, <1>2, BumpMakesStale DEF Bump
  <2>2. CheckpointsCurrent'
    BY <2>1 DEF CheckpointsCurrent
  <2>3. SourceFirst' /\ FinishedIsCurrent'
    BY <1>1, <2>1 DEF IInv, SourceFirst, Cloned, FinishedIsCurrent, Delivered
  <2>4. QED
    BY <1>1, <2>1, <2>2, <2>3 DEF IInv, Idle, PinsLoaded, StageBefore, StageBuilt, FinalMissing,
       Active, Working
<1>3. ASSUME NEW l \in Losable, Lose(l) PROVE IInv'
  <2>1. l \in Stages /\ l # 1
    BY StageFacts, ScopeAssumption DEF Stages
  <2>2. /\ output' = [output EXCEPT ![l] = None] /\ UNCHANGED <<pkg, tarball, json>>
        /\ run'.pc = "idle" /\ run'.stage = run.stage
    BY <1>1, <1>3, RunFields DEF Lose, TypeOK
  <2>3. output'[1] = output[1] /\ (\A s \in Stages : output'[s] \in {output[s], None})
    BY <1>1, <2>1, <2>2, StageFacts DEF TypeOK
  <2>4. CheckpointsCurrent'
    BY <2>2, <2>3, CheckpointsKept DEF IInv
  <2>5. SourceFirst'
    BY <1>1, <2>2, <2>3 DEF SourceFirst, Cloned
  <2>6. QED
    BY <2>2, <2>4, <2>5 DEF IInv, PinsLoaded, StageBefore, StageBuilt, FinalMissing,
       FinishedIsCurrent, Active, Working
<1>4. QED
  BY <1>2, <1>3

LEMMA StutterStep ==
    ASSUME IInv, JsonInv', UNCHANGED vars
    PROVE  IInv'
<1>1. CheckpointsCurrent'
  BY CheckpointsKept DEF vars, IInv
<1>2. StageBefore' /\ StageBuilt'
  BY DEF vars, IInv, StageBefore, StageBuilt, Current, Right, Active
<1>3. QED
  BY <1>1, <1>2 DEF vars, IInv, PinsLoaded, SourceFirst, FinalMissing, FinishedIsCurrent,
     Cloned, Active, Delivered, Stale, KeyRead

LEMMA IInvStep ==
    ASSUME Orderly, IInv, [Next]_vars
    PROVE  IInv'
<1>1. JsonInv' /\ "force" \notin Flags
  BY JsonStep DEF Orderly, IInv
<1>2. ASSUME NEW flag \in Flags, NEW from \in FromStages, Start(flag, from)
      PROVE  IInv'
  <2> DEFINE doomed == IF flag = "clean" \/ output[N] = None THEN CleanAll ELSE <<>>
  <2>1. <<>> \in Seq(SUBSET File)
    OBVIOUS
  <2>2. doomed \in Seq(SUBSET File) /\ (output[N] = None => <<"json", N>> \in UNION Range(doomed))
    BY <2>1, CleanAllFiles
  <2>3. PICK force \in BOOLEAN : Begin(1, force, doomed)
    BY <1>2 DEF Start, Orderly
  <2>4. QED
    BY <1>1, <2>2, <2>3, BeginStep
<1>3. ASSUME NEW first \in CleanStages, StartCleanStage(first)
      PROVE  IInv'
  <2>1. first \in Stages
    BY ScopeAssumption
  <2>2. QED
    BY <1>1, <1>3, <2>1, CleanFromFiles, BeginStep DEF StartCleanStage
<1>4. CASE RunStep
  BY <1>1, <1>4, CleanStep, SkipStep, SourceStep, DeriveStep, FinishCloneStep,
     FinishBuildStep, ArchiveStep, RecordStep DEF RunStep
<1>5. QED
  BY <1>1, <1>2, <1>3, <1>4, InterruptStep, EnvironmentStep, StutterStep DEF Next

LEMMA IInvInit == Init => IInv
<1> SUFFICES ASSUME Init PROVE IInv
  OBVIOUS
<1>1. JsonInv /\ (\A s \in Stages : json[s] = NoJson) /\ run.pc = "idle" /\ run.stage = 1
      /\ ~Cloned
  BY JsonInit, StageFacts DEF Init, Cloned
<1>2. QED
  BY <1>1 DEF IInv, PinsLoaded, SourceFirst, CheckpointsCurrent, StageBefore, StageBuilt,
     FinalMissing, FinishedIsCurrent, Stale, Active, Working

\* Whatever was interrupted, lost or skipped, a run that finishes has delivered
\* the source tree built by the tools it has read.
THEOREM DeliversCurrent == Orderly => (Spec => []FinishedIsCurrent)
<1> SUFFICES ASSUME Orderly PROVE Spec => []FinishedIsCurrent
  OBVIOUS
<1>1. IInv => FinishedIsCurrent
  BY DEF IInv
<1>2. QED
  BY <1>1, IInvInit, IInvStep, PTL DEF Spec

===============================================================================
