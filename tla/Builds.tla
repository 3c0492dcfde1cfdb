------------------------------- MODULE Builds -------------------------------
(* Builds of one version of a package: the claim that lets one run at a time,
   the stage directory of each target, the artifacts and their sidecars, what
   decides that an artifact is still good, and the gc that sweeps what builds leave.

   Source: kiry/src/main.rs, build and what it calls (claim, compile, pack, meta),
   stale, and gc_cmd's stage and cache passes. A build script is what it makes of
   the recipe and the flags; the recipe and the flags are counted by their edits. *)
EXTENDS Naturals, Sequences, FiniteSets

CONSTANTS
  Proc,
  Target,
  Wanted,      \* the target lists a build may be asked for
  Gaps,        \* whether a command may come six hours after the last one ended
  MaxRuns,     \* kiry commands in a behaviour
  MaxEdits,    \* edits of the recipe and of the flags
  MaxKills,
  NoFile

\* a stage, a .part or an artifact: whose build made it, of what, and all of it or not
Tree == [by : Proc, recipe : Nat, flags : Nat, whole : BOOLEAN]

\* what meta() writes, in its order: name stands for version and targets too, and depends
\* for all that follows the flags
Fields == <<"name", "hash", "recipe", "flags", "depends">>
Names == {Fields[i] : i \in DOMAIN Fields}

ASSUME BuildsAssumption ==
  /\ Wanted \subseteq Seq(Target)
  /\ \A w \in Wanted : w # <<>> /\ \A i, j \in DOMAIN w : w[i] = w[j] => i = j
  /\ Gaps \subseteq BOOLEAN
  /\ MaxRuns \in Nat /\ MaxEdits \in Nat /\ MaxKills \in Nat
  /\ NoFile \notin Nat /\ NoFile \notin Tree /\ \A S \in SUBSET Names : NoFile \notin [S -> Nat]

VARIABLES
  lock,        \* the file behind <pkg>-<ver>-<rev>.lock, NoFile where there is none
  files,       \* lock files made so far
  stage,       \* per target: the tree in its stage directory
  part, art,   \* per target: what is at its .part name and at its artifact name
  meta,        \* per target: the files of the sidecar
  aged,        \* what in the stage directory nothing wrote for six hours: "lock" and targets
  recipe, flags,
  pc, todo, at,
  fd, has,     \* the lock file a process has open, and whether it got the lock
  hash, f,     \* the recipe and the flags a build read as it began
  field,       \* how many sidecar files are written
  doomed,      \* what gc decided to delete
  robbed,      \* history: what gc took from under a build, lock files and stages
  runs, kills

disk == <<stage, part, art, meta>>
claims == <<lock, files, fd, has>>
config == <<recipe, flags>>
built == <<todo, at, hash, f>>
vars == <<claims, disk, aged, config, pc, built, field, doomed, robbed, runs, kills>>

\* builds before left their lock file, as all do, or gc has swept it since
Init ==
  /\ files \in {0, 1} /\ lock = IF files = 0 THEN NoFile ELSE files
  /\ stage = [t \in Target |-> NoFile] /\ part = stage /\ art = stage /\ meta = stage
  /\ aged = {}
  /\ recipe = 0 /\ flags = 0
  /\ pc = [p \in Proc |-> "idle"]
  /\ todo = [p \in Proc |-> <<>>] /\ at = [p \in Proc |-> 1]
  /\ fd = [p \in Proc |-> NoFile] /\ has = [p \in Proc |-> FALSE]
  /\ hash = [p \in Proc |-> 0] /\ f = [p \in Proc |-> 0]
  /\ field = [p \in Proc |-> 0]
  /\ doomed = [p \in Proc |-> {}] /\ robbed = {}
  /\ runs = 0 /\ kills = 0

Goto(p, l) == pc' = [pc EXCEPT ![p] = l]
Doing(p) == todo[p][at[p]]

\* six hours pass where nothing runs, and what is in the stage directory is that old
Gap ==
  \E late \in Gaps :
    /\ late => \A q \in Proc : pc[q] = "idle"
    /\ aged' =
         IF late
         THEN {t \in Target : stage[t] # NoFile} \cup {x \in {"lock"} : lock # NoFile}
         ELSE aged

\* the process is gone, and the lock with the file it is held on
Exit(p) ==
  /\ Goto(p, "idle")
  /\ fd' = [fd EXCEPT ![p] = NoFile]
  /\ has' = [has EXCEPT ![p] = FALSE]
  /\ UNCHANGED <<lock, files>>

EachPastEnd(p, again, next) ==
  IF at[p] <= Len(todo[p])
  THEN at' = [at EXCEPT ![p] = @ + 1] /\ Goto(p, again)
  ELSE at' = [at EXCEPT ![p] = 1] /\ Goto(p, next)
\* the next target, or the next part of the build once all are done
Each(p, again, next) ==
  IF at[p] < Len(todo[p])
  THEN at' = [at EXCEPT ![p] = @ + 1] /\ Goto(p, again)
  ELSE at' = [at EXCEPT ![p] = 1] /\ Goto(p, next)

----------------------------------------------------------------------------
(* claim *)

Begin(p) ==
  /\ pc[p] = "idle" /\ runs < MaxRuns
  /\ runs' = runs + 1
  /\ \E w \in Wanted : todo' = [todo EXCEPT ![p] = w]
  /\ at' = [at EXCEPT ![p] = 1]
  /\ Goto(p, "open")
  /\ Gap
  /\ UNCHANGED <<claims, disk, config, hash, f, field, doomed, robbed, kills>>

\* O_CREAT
Open(p) ==
  /\ pc[p] = "open"
  /\ IF lock = NoFile
     THEN files' = files + 1 /\ lock' = files + 1 /\ aged' = aged \ {"lock"}
     ELSE UNCHANGED <<files, lock, aged>>
  /\ fd' = [fd EXCEPT ![p] = lock']
  /\ Goto(p, "flock")
  /\ UNCHANGED <<has, disk, config, built, field, doomed, robbed, runs, kills>>

HeldBy(file) == {q \in Proc : has[q] /\ fd[q] = file}

\* gc asks for the lock shared to see whether a build has it, and has it while it looks
Probed == \E q \in Proc : pc[q] = "scan_stage" \/ pc[q] = "scan_parts"

\* one build of a package at a time: not waited for
Refuse(p) ==
  /\ pc[p] = "flock"
  /\ HeldBy(fd[p]) # {} \/ Probed
  /\ Exit(p)
  /\ UNCHANGED <<disk, config, built, field, doomed, robbed, aged, runs, kills>>

\* and reads the recipe and the flags: an edit between the two reads is one before or after both
Claim(p) ==
  /\ pc[p] = "flock" /\ HeldBy(fd[p]) = {}
  /\ has' = [has EXCEPT ![p] = TRUE]
  /\ hash' = [hash EXCEPT ![p] = recipe]
  /\ f' = [f EXCEPT ![p] = flags]
  /\ aged' = IF fd[p] = lock THEN aged \ {"lock"} ELSE aged
  /\ Goto(p, "compile")
  /\ UNCHANGED <<lock, files, fd, disk, config, todo, at, field, doomed, robbed, runs, kills>>

----------------------------------------------------------------------------
(* compile *)

\* what the sandbox runs: the script as it is copied in, with the flags build read at first
Runs(p) == [by |-> p, recipe |-> recipe, flags |-> f[p], whole |-> FALSE]

CompileOverLock(p) ==
  /\ pc[p] = "compile"
  /\ stage' = [stage EXCEPT ![Doing(p)] = Runs(p)]
  /\ lock' = NoFile
  /\ aged' = aged \ {Doing(p)}
  /\ Goto(p, "compiling")
  /\ UNCHANGED <<files, fd, has, part, art, meta, config, built, field, doomed, robbed, runs, kills>>
\* the stage directory is deleted and made again, and the recipe's script copied into it
Compile(p) ==
  /\ pc[p] = "compile"
  /\ stage' = [stage EXCEPT ![Doing(p)] = Runs(p)]
  /\ aged' = aged \ {Doing(p)}
  /\ Goto(p, "compiling")
  /\ UNCHANGED <<claims, part, art, meta, config, built, field, doomed, robbed, runs, kills>>

\* the directory this build is in is still the one it made
Mine(p, t) == stage[t] # NoFile /\ stage[t].by = p

CompiledUnlocked(p) ==
  /\ pc[p] = "compiling" /\ Mine(p, Doing(p))
  /\ stage' = [stage EXCEPT ![Doing(p)].whole = TRUE]
  /\ Each(p, "compile", "pack")
  /\ has' = [has EXCEPT ![p] = at[p] < Len(todo[p])]
  /\ UNCHANGED <<lock, files, fd, part, art, meta, config, todo, hash, f, field, doomed, robbed, aged, runs, kills>>
Compiled(p) ==
  /\ pc[p] = "compiling" /\ Mine(p, Doing(p))
  /\ stage' = [stage EXCEPT ![Doing(p)].whole = TRUE]
  /\ Each(p, "compile", "pack")
  /\ UNCHANGED <<claims, part, art, meta, config, todo, hash, f, field, doomed, robbed, aged, runs, kills>>

\* a dependency was discovered: from the start, in a stage of its own again
Again(p) ==
  /\ pc[p] = "compiling"
  /\ Goto(p, "compile")
  /\ UNCHANGED <<claims, disk, config, built, field, doomed, robbed, aged, runs, kills>>

\* a script that fails, or one whose directory went from under it
CompileFails(p) ==
  /\ pc[p] = "compiling"
  /\ Exit(p)
  /\ UNCHANGED <<disk, config, built, field, doomed, robbed, aged, runs, kills>>

----------------------------------------------------------------------------
(* pack, once every target is compiled. *)

Partial(p) == [by |-> p, recipe |-> hash[p], flags |-> f[p], whole |-> FALSE]

PackInPlace(p) ==
  /\ pc[p] = "pack"
  /\ part' = [part EXCEPT ![Doing(p)] = Partial(p)]
  /\ art' = [art EXCEPT ![Doing(p)] = Partial(p)]
  /\ Goto(p, "packing")
  /\ UNCHANGED <<claims, stage, meta, config, built, field, doomed, robbed, aged, runs, kills>>
PackWithSidecar(p) ==
  /\ pc[p] = "pack"
  /\ part' = [part EXCEPT ![Doing(p)] = Partial(p)]
  /\ meta' = [meta EXCEPT ![Doing(p)] = [x \in {} |-> 0]]
  /\ Goto(p, "packing")
  /\ UNCHANGED <<claims, stage, art, config, built, field, doomed, robbed, aged, runs, kills>>
\* zstd -f opens the .part and truncates it
Pack(p) ==
  /\ pc[p] = "pack"
  /\ part' = [part EXCEPT ![Doing(p)] = Partial(p)]
  /\ Goto(p, "packing")
  /\ UNCHANGED <<claims, stage, art, meta, config, built, field, doomed, robbed, aged, runs, kills>>

\* what tar read of the stage is in the .part, unless gc took that name away
Packed(p) ==
  /\ pc[p] = "packing" /\ stage[Doing(p)] # NoFile
  /\ part' = [part EXCEPT ![Doing(p)] =
                IF @ = NoFile THEN @ ELSE [stage[Doing(p)] EXCEPT !.whole = @ /\ Mine(p, Doing(p))]]
  /\ Each(p, "pack", "rename")
  /\ UNCHANGED <<claims, stage, art, meta, config, todo, hash, f, field, doomed, robbed, aged, runs, kills>>

PackFails(p) ==
  /\ pc[p] = "packing"
  /\ Exit(p)
  /\ UNCHANGED <<disk, config, built, field, doomed, robbed, aged, runs, kills>>

----------------------------------------------------------------------------
(* Landing, target by target: the artifact first and its sidecar after it. *)

Rename(p) ==
  /\ pc[p] = "rename"
  /\ IF part[Doing(p)] = NoFile
     THEN Exit(p) /\ UNCHANGED disk
     ELSE /\ art' = [art EXCEPT ![Doing(p)] = part[Doing(p)]]
          /\ part' = [part EXCEPT ![Doing(p)] = NoFile]
          /\ Goto(p, "clear")
          /\ UNCHANGED <<claims, stage, meta>>
  /\ UNCHANGED <<config, built, field, doomed, robbed, aged, runs, kills>>

\* meta: remove_dir_all and mkdirs
Clear(p) ==
  /\ pc[p] = "clear"
  /\ meta' = [meta EXCEPT ![Doing(p)] = [x \in {} |-> 0]]
  /\ field' = [field EXCEPT ![p] = 0]
  /\ Goto(p, "put")
  /\ UNCHANGED <<claims, stage, part, art, config, built, doomed, aged, robbed, runs, kills>>

Says(p) == [name |-> 0, hash |-> hash[p], recipe |-> recipe, flags |-> f[p], depends |-> 0]

Written(m, x, v) == [y \in DOMAIN m \cup {x} |-> IF y = x THEN v ELSE m[y]]

PutFlagsOfNow(p) ==
  /\ pc[p] = "put"
  /\ field' = [field EXCEPT ![p] = @ + 1]
  /\ LET x == Fields[field[p] + 1]
     IN  meta' = [meta EXCEPT ![Doing(p)] = Written(@, x, IF x = "flags" THEN flags ELSE Says(p)[x])]
  /\ IF field'[p] < Len(Fields) THEN UNCHANGED <<pc, at>> ELSE Each(p, "rename", "sweep")
  /\ UNCHANGED <<claims, stage, part, art, config, todo, hash, f, doomed, aged, robbed, runs, kills>>
Put(p) ==
  /\ pc[p] = "put"
  /\ field' = [field EXCEPT ![p] = @ + 1]
  /\ LET x == Fields[field[p] + 1]
     IN  meta' = [meta EXCEPT ![Doing(p)] = Written(@, x, Says(p)[x])]
  /\ IF field'[p] < Len(Fields) THEN UNCHANGED <<pc, at>> ELSE Each(p, "rename", "sweep")
  /\ UNCHANGED <<claims, stage, part, art, config, todo, hash, f, doomed, aged, robbed, runs, kills>>

\* the stage directories of what landed
Sweep(p) ==
  /\ pc[p] = "sweep"
  /\ stage' = [t \in Target |-> IF \E i \in DOMAIN todo[p] : todo[p][i] = t THEN NoFile ELSE stage[t]]
  /\ Exit(p)
  /\ UNCHANGED <<part, art, meta, config, built, field, doomed, robbed, aged, runs, kills>>

----------------------------------------------------------------------------
(* gc_cmd, one at a time behind the writer lock. *)

GcBegin(p) ==
  /\ pc[p] = "idle" /\ runs < MaxRuns
  /\ \A q \in Proc : pc[q] \notin {"scan_stage", "drop_stage", "scan_parts", "drop_parts"}
  /\ runs' = runs + 1
  /\ Gap
  /\ Goto(p, "scan_stage")
  /\ UNCHANGED <<claims, disk, config, built, field, doomed, robbed, kills>>

Locked == lock # NoFile /\ HeldBy(lock) # {}

\* what a build holds is kept, and what was written to in the last six hours
ScanStage(p) ==
  /\ pc[p] = "scan_stage"
  /\ doomed' = [doomed EXCEPT ![p] = IF Locked THEN {} ELSE aged]
  /\ Goto(p, "drop_stage")
  /\ UNCHANGED <<claims, disk, aged, config, built, field, robbed, runs, kills>>

\* the lock file while a process has it open, the stages of builds that have the lock
Robs(p) ==
  {l \in {lock} : "lock" \in doomed[p] /\ \E q \in Proc : fd[q] = l /\ l # NoFile}
  \cup {t \in Target \cap doomed[p] : \E q \in Proc : has[q] /\ Mine(q, t)}

\* by name: what was made again since the scan goes too
DropStage(p) ==
  /\ pc[p] = "drop_stage"
  /\ stage' = [t \in Target |-> IF t \in doomed[p] THEN NoFile ELSE stage[t]]
  /\ lock' = IF "lock" \in doomed[p] THEN NoFile ELSE lock
  /\ doomed' = [doomed EXCEPT ![p] = {}]
  /\ Goto(p, "scan_parts")
  /\ aged' = aged \ doomed[p]
  /\ robbed' = robbed \cup Robs(p)
  /\ UNCHANGED <<files, fd, has, part, art, meta, config, built, field, runs, kills>>

\* a .part no build holds is dead however new it is
ScanParts(p) ==
  /\ pc[p] = "scan_parts"
  /\ doomed' = [doomed EXCEPT ![p] = {t \in Target : part[t] # NoFile /\ ~Locked}]
  /\ Goto(p, "drop_parts")
  /\ UNCHANGED <<claims, disk, aged, config, built, field, robbed, runs, kills>>

DropParts(p) ==
  /\ pc[p] = "drop_parts"
  /\ part' = [t \in Target |-> IF t \in doomed[p] THEN NoFile ELSE part[t]]
  /\ doomed' = [doomed EXCEPT ![p] = {}]
  /\ Goto(p, "idle")
  /\ UNCHANGED <<claims, stage, art, meta, aged, config, built, field, robbed, runs, kills>>

----------------------------------------------------------------------------
(* The user and the machine. *)

Kill(p) ==
  /\ pc[p] # "idle" /\ kills < MaxKills
  /\ kills' = kills + 1
  /\ Exit(p)
  /\ doomed' = [doomed EXCEPT ![p] = {}]
  /\ UNCHANGED <<disk, aged, config, built, field, robbed, runs>>

\* by a person, or by the build itself, which takes its stuck note out of filter (unstuck)
EditRecipe ==
  /\ recipe + flags < MaxEdits
  /\ recipe' = recipe + 1
  /\ UNCHANGED <<claims, disk, flags, pc, built, field, doomed, robbed, aged, runs, kills>>

EditFlags ==
  /\ recipe + flags < MaxEdits
  /\ flags' = flags + 1
  /\ UNCHANGED <<claims, disk, recipe, pc, built, field, doomed, robbed, aged, runs, kills>>

Step(p) ==
  \/ Begin(p) \/ Open(p) \/ Refuse(p) \/ Claim(p)
  \/ Compile(p) \/ Compiled(p) \/ Again(p) \/ CompileFails(p)
  \/ Pack(p) \/ Packed(p) \/ PackFails(p)
  \/ Rename(p) \/ Clear(p) \/ Put(p) \/ Sweep(p)
  \/ GcBegin(p) \/ ScanStage(p) \/ DropStage(p) \/ ScanParts(p) \/ DropParts(p)
  \/ Kill(p)
Next == (\E p \in Proc : Step(p)) \/ EditRecipe \/ EditFlags

Spec == Init /\ [][Next]_vars
----------------------------------------------------------------------------
(* Properties. *)

Landing == {"clear", "put"}
AfterCompile == {"pack", "packing", "rename", "sweep"} \cup Landing
Building == {"compile", "compiling"} \cup AfterCompile

TypeOK ==
  /\ files \in Nat /\ lock \in (1..files) \cup {NoFile}
  /\ stage \in [Target -> Tree \cup {NoFile}]
  /\ part \in [Target -> Tree \cup {NoFile}]
  /\ art \in [Target -> Tree \cup {NoFile}]
  /\ DOMAIN meta = Target
  /\ \A t \in Target : meta[t] = NoFile \/ \E S \in SUBSET Names : meta[t] \in [S -> Nat]
  /\ recipe \in Nat /\ flags \in Nat
  /\ pc \in [Proc -> {"idle", "open", "flock", "scan_stage", "drop_stage", "scan_parts", "drop_parts"} \cup Building]
  /\ todo \in [Proc -> Wanted \cup {<<>>}]
  /\ \A p \in Proc : pc[p] \in Building => at[p] \in DOMAIN todo[p]
  /\ fd \in [Proc -> (1..files) \cup {NoFile}] /\ has \in [Proc -> BOOLEAN]
  /\ hash \in [Proc -> Nat] /\ f \in [Proc -> Nat]
  /\ field \in [Proc -> 0..Len(Fields)]
  /\ doomed \in [Proc -> SUBSET (Target \cup {"lock"})]
  /\ aged \subseteq Target \cup {"lock"} /\ robbed \subseteq Target \cup 1..files
  /\ runs \in Nat /\ kills \in Nat

\* "One build of a package at a time" (main.rs claim) holds through kills, and beside a gc but
\* for this: a gc that saw the lock file unheld and old unlinks it (main.rs gc_cmd) after a
\* build has opened it, the next build makes a new one, and both are in. Two builds are only
\* ever in where gc did that to one of them.
OneBuilder ==
  \A p, q \in Proc :
    pc[p] \in Building /\ pc[q] \in Building => p = q \/ fd[p] \in robbed \/ fd[q] \in robbed

\* Once its targets are compiled, a build finds every one of them whole and its own until all
\* have landed: no build deletes a stage under one still packing (main.rs claim), nor does a gc
\* that got to the scan first or to the sweep last, and no target lands before the others were
\* compiled (main.rs build). It is not said where gc's sweep fell on what a build had by then.
StageStands ==
  robbed = {} =>
    \A p \in Proc : pc[p] \in AfterCompile =>
      \A i \in DOMAIN todo[p] : Mine(p, todo[p][i]) /\ stage[todo[p][i]].whole

\* An artifact only ever gives way to a whole one, and a sidecar never stands beside none: a
\* build that fails or is killed leaves what was there, and "a target failing to tar leaves a
\* .meta for an artifact that never arrives" is what the order of landing is for (main.rs pack,
\* build). Two builds that a gc let in may rename one's .part under the other.
LandsWhole ==
  [][robbed' = {} =>
       \A t \in Target :
         /\ art'[t] # art[t] => art'[t] # NoFile /\ art'[t].whole
         /\ meta'[t] # NoFile => art'[t] # NoFile]_vars

\* stale: a file the sidecar does not have says nothing rather than no
Fresh(t) ==
  /\ art[t] # NoFile
  /\ meta[t] # NoFile /\ "recipe" \in DOMAIN meta[t] => meta[t]["recipe"] = recipe
  /\ meta[t] # NoFile /\ "flags" \in DOMAIN meta[t] => meta[t]["flags"] = flags

\* What stale takes as good was built from the recipe and with the flags there are, once its
\* build is over, no build was killed and gc took nothing from under one. It does not say so of
\* a recipe edited while it was built: the hash in the sidecar is of what the build began with,
\* and its recipe of what was there as it ended (main.rs stale, meta).
FreshIsCurrent ==
  \A t \in Target :
    Fresh(t) /\ kills = 0 /\ robbed = {} /\ (\A p \in Proc : pc[p] \in Landing => Doing(p) # t) =>
      /\ art[t].flags = flags
      /\ meta[t]["hash"] = meta[t]["recipe"] => art[t].recipe = recipe
=============================================================================
