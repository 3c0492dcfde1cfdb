------------------------------- MODULE Rebuild -------------------------------
(* kiry rebuild: the packages a library's change has queued are built again,
   level by level on a pool of threads, put in a level at a time, and their
   rows taken off the queue. Beside it: what puts rows there (an install of
   another kiry), recipes that move, and a kill.

   A library is an item. Its ABI is a number: 0 is without the symbol its users
   want, 1 and 2 have it in two sizes. What an item links is what it saw when
   it was compiled. Everything under the writer lock is one action. *)
EXTENDS Naturals, Sequences, FiniteSets, SequencesExt

CONSTANTS
  Item, Name, NameOf,   \* packages per target, packages, and whose target it is
  Deps,                 \* pairs <<i, j>>: the recipe of i lists j
  Uses,                 \* pairs <<i, l>>: the files of i link the library of l
  Starters,             \* packages with a bootstrap script
  Abis,                 \* the ABIs the recipe of an item may have
  Line, Ladder,         \* filter lines, and the sequence of rungs among them
  Outcome(_, _),        \* how a build of a package ends under a set of lines
  Lacks,                \* how many undeclared deps a build of a package runs into
  Threads, NoName,
  MaxWaits, MaxRuns, MaxBumps, MaxKills,
  Beside                \* whether another kiry may install while a rebuild runs

Abi == 0..2
Verdicts == {"ok", "plain", "uncompiled", "everyrung", "notaflag"} \cup Line

ASSUME RebuildAssumption ==
  /\ NameOf \in [Item -> Name] /\ Starters \subseteq Name
  /\ Deps \subseteq Item \X Item /\ Uses \subseteq Item \X Item
  /\ Abis \in [Item -> (SUBSET Abi) \ {{}}]
  /\ Ladder \in Seq(Line) /\ Lacks \in [Name -> Nat]
  /\ \A n \in Name, ls \in SUBSET Line : Outcome(n, ls) \in Verdicts
  /\ Threads # {} /\ NoName \notin Name
  /\ {MaxWaits, MaxRuns, MaxBumps, MaxKills} \subseteq Nat /\ Beside \in BOOLEAN

VARIABLES
  recipe,     \* the ABI a build of the item would come out with
  inst, linked,         \* the ABI installed, and what the installed files were linked against
  queue,      \* db/<target>/rebuild, as rows [item, lib, gone]
  lines,      \* filter and settings lines of a package
  proven, present,      \* deps its closure names beyond the recipe, and those that are in
  waiting,    \* the static WAITING
  pc, want, left, done, plan, at, failed, brought,    \* the locals of rebuild_cmd
  stands,     \* history: what the bootstrap builds of this run that went in stand in for
  level, todo, th, errs, art,                         \* and of the level it is in
  waits,      \* rounds the sequential retry of a package has waited
  before,     \* the lines as the command found them
  runs, bumps, kills

vars == <<recipe, inst, linked, queue, lines, proven, present, waiting, pc, want, left, done, plan,
          at, failed, stands, brought, level, todo, th, errs, art, waits, before, runs, bumps, kills>>
world == <<recipe, inst, linked, queue>>
local == <<want, left, done, plan, at, failed, stands>>
pool == <<level, todo, th, errs, art, waits>>
count == <<before, runs, bumps, kills>>

Row == [item : Item, lib : Item, gone : BOOLEAN]
Build == [abi : Abi, linked : [Item -> Abi]]
Idle == [name |-> NoName, seen |-> [i \in Item |-> 0], tried |-> {}, rung |-> 0]
Free(t) == th[t].name = NoName

-----------------------------------------------------------------------------
\* compare and affected: a user of a symbol that went or changed its size gets a row
Moved(was, is) == was # 0 /\ is # was
Affected(now, was, is, just) ==
  {r \in Row : /\ r.item \notin just /\ <<r.item, r.lib>> \in Uses
               /\ Moved(was[r.lib], is[r.lib]) /\ now[r.item][r.lib] # 0
               /\ r.gone = (is[r.lib] = 0)}
\* back: only a name that left can be shown to have come back
Back(r) == r.gone /\ inst[r.lib] # 0
\* what doctor finds and rebuild can mend: a symbol nothing exports
Doctor(i) == \E l \in Item : <<i, l>> \in Uses /\ linked[i][l] # 0 /\ inst[l] = 0
Linking(i, seen) == [l \in Item |-> IF <<i, l>> \in Uses THEN seen[l] ELSE 0]

Of(n) == {i \in Item : NameOf[i] = n}
Mine(n) == {x \in level : NameOf[x[1]] = n}
Names(lv) == {NameOf[x[1]] : x \in lv}
Booted(n) == pc = "run" /\ \E x \in Mine(n) : x[2]

Init ==
  /\ recipe \in [Item -> Abi] /\ \A i \in Item : recipe[i] \in Abis[i] \ {0}
  /\ inst = recipe /\ linked = [i \in Item |-> Linking(i, inst)]
  /\ queue = {} /\ lines = [n \in Name |-> {}]
  /\ proven = [n \in Name |-> 0] /\ present = proven /\ waiting = FALSE
  /\ pc = "idle" /\ want = {} /\ left = {} /\ done = {} /\ plan = <<>> /\ at = 0
  /\ failed = {} /\ stands = {} /\ brought = FALSE
  /\ level = {} /\ todo = {} /\ th = [t \in Threads |-> Idle]
  /\ errs = [n \in Name |-> "none"] /\ art = [i \in Item |-> [abi |-> 0, linked |-> [l \in Item |-> 0]]]
  /\ waits = 0 /\ before = lines /\ runs = 0 /\ bumps = 0 /\ kills = 0

\* the process is gone with its locals; what it wrote stays
Leave ==
  /\ pc' = "idle" /\ want' = {} /\ left' = {} /\ done' = {} /\ plan' = <<>> /\ at' = 0
  /\ failed' = {} /\ stands' = {}
  /\ level' = {} /\ todo' = {} /\ th' = [t \in Threads |-> Idle] /\ errs' = [n \in Name |-> "none"]
  /\ waits' = 0 /\ art' = [i \in Item |-> [abi |-> 0, linked |-> [l \in Item |-> 0]]]
  /\ waiting' = FALSE /\ brought' = FALSE

-----------------------------------------------------------------------------
(* Around it. Recipes move between commands; an install of another kiry builds
   what moved and queues whoever used what changed. *)
Bump(i) ==
  /\ pc = "idle" /\ bumps < MaxBumps
  /\ \E a \in Abis[i] \ {recipe[i]} : recipe' = [recipe EXCEPT ![i] = a]
  /\ bumps' = bumps + 1
  /\ UNCHANGED <<inst, linked, queue, lines, proven, present, waiting, pc, local, brought, pool,
                 before, runs, kills>>

Install(n) ==
  /\ pc = "idle" \/ Beside
  /\ \E i \in Of(n) : recipe[i] # inst[i]
  /\ Outcome(n, lines[n]) = "ok"
  /\ inst' = [i \in Item |-> IF i \in Of(n) THEN recipe[i] ELSE inst[i]]
  /\ linked' = [i \in Item |-> IF i \in Of(n) THEN Linking(i, inst) ELSE linked[i]]
  /\ queue' = queue \cup Affected(linked', inst, inst', Of(n))
  /\ UNCHANGED <<recipe, lines, proven, present, waiting, pc, local, brought, pool, count>>

\* what was applied stays applied; filter lines a recover wrote stay too
Kill ==
  /\ pc # "idle" /\ kills < MaxKills /\ kills' = kills + 1
  /\ Leave
  /\ UNCHANGED <<world, lines, proven, present, before, runs, bumps>>

-----------------------------------------------------------------------------
(* rebuild_cmd. Rows whose library is whole again go, the others and what
   doctor finds are what it wants. *)
Begin ==
  /\ pc = "idle" /\ runs < MaxRuns /\ runs' = runs + 1
  /\ queue' = {r \in queue : ~Back(r)}
  /\ want' = {r.item : r \in queue'} \cup {i \in Item : Doctor(i)}
  /\ IF want' = {} THEN UNCHANGED <<pc, left>> ELSE pc' = "plan" /\ left' = want'
  /\ before' = lines
  /\ UNCHANGED <<recipe, inst, linked, lines, proven, present, waiting, done, plan, at, failed,
                 stands, brought, pool, bumps, kills>>

\* mutant: everything left is one level
UnblockedAll == left
\* levels: what waits on nothing still left, or on nothing but what stands in
Unblocked == {i \in left : ~\E j \in left \ (done \cup {i}) : <<i, j>> \in Deps}
Starts == {i \in left \ done : NameOf[i] \in Starters}

PlanLevel ==
  /\ pc = "plan" /\ left # {} /\ Unblocked # {}
  /\ left' = left \ Unblocked
  /\ plan' = Append(plan, {<<i, FALSE>> : i \in Unblocked})
  /\ UNCHANGED <<world, lines, proven, present, waiting, pc, want, done, at, failed, stands, brought,
                 pool, count>>

\* a cycle has to be declared: the members with a bootstrap script stand in, once
PlanBoot ==
  /\ pc = "plan" /\ left # {} /\ Unblocked = {} /\ Starts # {}
  /\ done' = done \cup Starts
  /\ plan' = Append(plan, {<<i, TRUE>> : i \in Starts})
  /\ UNCHANGED <<world, lines, proven, present, waiting, pc, want, left, at, failed, stands, brought,
                 pool, count>>

PlanDies ==
  /\ pc = "plan" /\ left # {} /\ Unblocked = {} /\ Starts = {}
  /\ Leave
  /\ UNCHANGED <<world, lines, proven, present, count>>

\* bring: what the closures name and the root lacks is installed, and leaves in the end
Bring ==
  /\ pc = "plan" /\ left = {} /\ pc' = "level" /\ at' = 1
  /\ present' = [n \in Name |-> IF n \in {NameOf[i] : i \in want} THEN proven[n] ELSE present[n]]
  /\ brought' = (brought \/ present' # present)
  /\ UNCHANGED <<world, lines, proven, waiting, want, left, done, plan, failed, stands, pool, count>>

-----------------------------------------------------------------------------
(* One level. What needs something that failed is skipped, in the order history
   sorted the level in; the rest is built a package at a time per thread. *)
Cause(i, f) == \E j \in f : NameOf[j] = NameOf[i] \/ <<i, j>> \in Deps

\* mutant: the whole level is built, whatever failed below it
StartLevelWhole ==
  /\ pc = "level" /\ at \in DOMAIN plan
  /\ level' = plan[at] /\ todo' = Names(level') /\ pc' = "run"
  /\ UNCHANGED <<world, lines, proven, present, waiting, local, brought, th, errs, art, waits, count>>

\* a package is skipped for what failed before or was skipped ahead of it
Skips(S, rank) == {x \in plan[at] : Cause(x[1], failed \cup {y[1] : y \in {z \in S : rank[z] < rank[x]}})}
StartLevel ==
  /\ pc = "level" /\ at \in DOMAIN plan
  /\ \E rank \in Injection(plan[at], 1 .. Cardinality(plan[at])), S \in SUBSET plan[at] :
       /\ S = Skips(S, rank)
       /\ failed' = failed \cup {x[1] : x \in S}
  /\ level' = {x \in plan[at] : x[1] \notin failed'}
  /\ todo' = Names(level') /\ pc' = "run"
  /\ UNCHANGED <<world, lines, proven, present, waiting, want, left, done, plan, at, stands, brought,
                 th, errs, art, waits, count>>

Starting(t, n) ==
  /\ th' = [th EXCEPT ![t] = [name |-> n, seen |-> inst, tried |-> {}, rung |-> 0]]
  /\ before' = [before EXCEPT ![n] = lines[n]]

\* mutant: a thread that takes a name leaves it for the next
TakeKeeping(t) ==
  /\ pc = "run" /\ Free(t)
  /\ \E n \in todo : Starting(t, n)
  /\ UNCHANGED <<world, lines, proven, present, waiting, pc, local, brought, level, todo, errs, art, waits,
                 runs, bumps, kills>>

\* parallel: a thread takes the next name; a failure is kept in errs and stops nobody
Take(t) ==
  /\ pc = "run" /\ Free(t)
  /\ \E n \in todo : Starting(t, n) /\ todo' = todo \ {n}
  /\ UNCHANGED <<world, lines, proven, present, waiting, pc, local, brought, level, errs, art, waits,
                 runs, bumps, kills>>

(* A build that ended, and what recover makes of it: fixes its table names, at
   most three, then the rungs of the ladder, each with another build; what did
   not end in a build that works is undone. *)
Log(t) == Outcome(th[t].name, lines[th[t].name])
Short(n) == present[n] < Lacks[n]
Ended(t, e) == /\ th' = [th EXCEPT ![t] = Idle]
               /\ errs' = [errs EXCEPT ![th[t].name] = e]
Undo(n) == lines' = [lines EXCEPT ![n] = before[n]]

\* discovery proved one dep more, which is not in
Waits(t) ==
  /\ ~Free(t) /\ Short(th[t].name)
  /\ LET n == th[t].name IN proven' = [proven EXCEPT ![n] = present[n] + 1] /\ Undo(n)
  /\ waiting' = TRUE /\ Ended(t, "wait")
  /\ UNCHANGED <<world, present, pc, local, brought, level, todo, art, waits, count>>

Succeeds(t) ==
  /\ ~Free(t) /\ ~Short(th[t].name) /\ Log(t) = "ok"
  /\ art' = [i \in Item |-> IF \E x \in Mine(th[t].name) : x[1] = i
                            THEN [abi |-> recipe[i], linked |-> Linking(i, th[t].seen)] ELSE art[i]]
  /\ Ended(t, "ok")
  /\ UNCHANGED <<world, lines, proven, present, waiting, pc, local, brought, level, todo, waits, count>>

Few(t) == Cardinality(th[t].tried) < 3
Fresh(t) == Log(t) \in Line /\ Few(t) /\ Log(t) \notin th[t].tried
Fixable(t) == Fresh(t) /\ Log(t) \notin lines[th[t].name]
Rungs(t) == {k \in th[t].rung + 1 .. Len(Ladder) : Ladder[k] \notin lines[th[t].name]}
Lost(t) == \/ Log(t) \in {"everyrung", "uncompiled"}
           \/ Log(t) = "notaflag" /\ Few(t)
           \/ ~Fixable(t) /\ Rungs(t) = {}
Retries(t) == ~Free(t) /\ ~Short(th[t].name) /\ Log(t) # "ok" /\ ~Booted(th[t].name) /\ ~waiting /\ ~Lost(t)

\* mutant: a build that gave up leaves the lines it tried
FailsKeeping(t) ==
  /\ ~Free(t) /\ ~Short(th[t].name) /\ Log(t) # "ok"
  /\ Booted(th[t].name) \/ waiting \/ Lost(t)
  /\ Ended(t, "failed")
  /\ UNCHANGED <<world, lines, proven, present, waiting, pc, local, brought, level, todo, art, waits, count>>

\* WAITING is read, not whose it is; a bootstrap build is not put through recover
Fails(t) ==
  /\ ~Free(t) /\ ~Short(th[t].name) /\ Log(t) # "ok"
  /\ Booted(th[t].name) \/ waiting \/ Lost(t)
  /\ Undo(th[t].name) /\ Ended(t, "failed")
  /\ UNCHANGED <<world, proven, present, waiting, pc, local, brought, level, todo, art, waits, count>>

Fix(t) ==
  /\ Retries(t) /\ Fixable(t)
  /\ lines' = [lines EXCEPT ![th[t].name] = @ \cup {Log(t)}]
  /\ th' = [th EXCEPT ![t].tried = @ \cup {Log(t)}, ![t].seen = inst]
  /\ UNCHANGED <<world, proven, present, waiting, pc, local, brought, level, todo, errs, art, waits, count>>

Climb(t) ==
  /\ Retries(t) /\ ~Fixable(t)
  /\ \E k \in Rungs(t) :
       /\ \A x \in Rungs(t) : k <= x
       /\ lines' = [lines EXCEPT ![th[t].name] = @ \cup {Ladder[k]}]
       /\ th' = [th EXCEPT ![t].rung = k, ![t].seen = inst,
                           ![t].tried = IF Fresh(t) THEN @ \cup {Log(t)} ELSE @]
  /\ UNCHANGED <<world, proven, present, waiting, pc, local, brought, level, todo, errs, art, waits, count>>

-----------------------------------------------------------------------------
(* Behind the pool: who waited is built again with its dep in, one at a time. *)
AllFree == \A t \in Threads : Free(t)

Swap ==
  /\ pc = "run" /\ todo = {} /\ AllFree
  /\ pc' = "retry" /\ waiting' = FALSE
  /\ errs' = [n \in Name |-> IF waiting /\ errs[n] = "wait" THEN "again" ELSE errs[n]]
  /\ UNCHANGED <<world, lines, proven, present, local, brought, level, todo, th, art, waits, count>>

Bringing(n) == /\ present' = [present EXCEPT ![n] = proven[n]]
               /\ brought' = (brought \/ present' # present)
               /\ \E t \in Threads : t = (CHOOSE u \in Threads : TRUE) /\ Starting(t, n)

Retry ==
  /\ pc = "retry" /\ pc' = "redo" /\ waits' = 0
  /\ \E n \in Name : errs[n] = "again" /\ Bringing(n) /\ errs' = [errs EXCEPT ![n] = "none"]
  /\ UNCHANGED <<world, lines, proven, waiting, local, level, todo, art, runs, bumps, kills>>

\* mutant: a package may wait for as long as it finds something to wait for
RedoUnbounded ==
  /\ pc = "redo" /\ AllFree /\ waiting' = FALSE
  /\ \E n \in Name : errs[n] = "wait" /\ waiting /\ Bringing(n) /\ errs' = [errs EXCEPT ![n] = "none"]
  /\ waits' = waits + 1
  /\ UNCHANGED <<world, lines, proven, pc, local, level, todo, art, runs, bumps, kills>>

Redo ==
  /\ pc = "redo" /\ AllFree /\ waiting' = FALSE
  /\ \E n \in Name : /\ errs[n] = "wait" /\ waiting /\ waits < MaxWaits
                     /\ Bringing(n) /\ errs' = [errs EXCEPT ![n] = "none"]
  /\ waits' = waits + 1
  /\ UNCHANGED <<world, lines, proven, pc, local, level, todo, art, runs, bumps, kills>>

Redone ==
  /\ pc = "redo" /\ AllFree /\ pc' = "retry" /\ waiting' = FALSE
  /\ ~\E n \in Name : errs[n] = "wait" /\ waiting /\ waits < MaxWaits
  /\ errs' = [n \in Name |-> IF errs[n] = "wait" THEN "failed" ELSE errs[n]]
  /\ UNCHANGED <<world, lines, proven, present, local, brought, level, todo, th, art, waits, count>>

-----------------------------------------------------------------------------
(* The level goes in as one batch, and what that changes for others is queued. *)
Made == {x[1] : x \in {y \in level : errs[NameOf[y[1]]] = "ok"}}
Bad == {x[1] : x \in level} \ Made

Collect ==
  /\ pc = "retry" /\ \A n \in Name : errs[n] # "again"
  /\ failed' = failed \cup Bad
  /\ pc' = "apply"
  /\ UNCHANGED <<world, lines, proven, present, waiting, want, left, done, plan, at, stands, brought,
                 pool, count>>

Apply ==
  /\ pc = "apply" /\ pc' = "level" /\ at' = at + 1
  /\ inst' = [i \in Item |-> IF i \in Made THEN art[i].abi ELSE inst[i]]
  /\ linked' = [i \in Item |-> IF i \in Made THEN art[i].linked ELSE linked[i]]
  /\ queue' = queue \cup Affected(linked', inst, inst', Made)
  /\ stands' = stands \cup {i \in Made : <<i, TRUE>> \in level}
  /\ level' = {} /\ errs' = [n \in Name |-> "none"]
  /\ art' = [i \in Item |-> [abi |-> 0, linked |-> [l \in Item |-> 0]]]
  /\ waits' = 0
  /\ UNCHANGED <<recipe, lines, proven, present, waiting, want, left, done, plan, failed, brought,
                 todo, th, count>>

\* mutant: everything it wanted is off the queue, built or not
DropAll ==
  /\ pc = "level" /\ at \notin DOMAIN plan
  /\ queue' = {r \in queue : r.item \notin want}
  /\ present' = IF brought THEN [n \in Name |-> 0] ELSE present
  /\ Leave
  /\ UNCHANGED <<recipe, inst, linked, lines, proven, count>>

\* a rebuild that ran is off the queue, what failed or was skipped stays on it
Drop ==
  /\ pc = "level" /\ at \notin DOMAIN plan
  /\ queue' = {r \in queue : r.item \notin want \/ r.item \in failed}
  /\ present' = IF brought THEN [n \in Name |-> 0] ELSE present
  /\ Leave
  /\ UNCHANGED <<recipe, inst, linked, lines, proven, count>>

Works(t) == Waits(t) \/ Succeeds(t) \/ Fails(t) \/ Fix(t) \/ Climb(t)
Alone == \/ Begin \/ PlanLevel \/ PlanBoot \/ PlanDies \/ Bring \/ StartLevel
         \/ Swap \/ Retry \/ Redo \/ Redone \/ Collect \/ Apply \/ Drop
Next == \/ Alone \/ Kill
        \/ \E i \in Item : Bump(i)
        \/ \E n \in Name : Install(n)
        \/ \E t \in Threads : Take(t) \/ Works(t)

Spec == Init /\ [][Next]_vars
\* a rebuild and its build threads go on as long as they can
FairSpec == Spec /\ WF_vars(pc # "idle" /\ Alone) /\ \A t \in Threads : WF_vars(Take(t)) /\ WF_vars(Works(t))

-----------------------------------------------------------------------------
WorldTyped ==
  /\ recipe \in [Item -> Abi] /\ inst \in [Item -> Abi] /\ linked \in [Item -> [Item -> Abi]]
  /\ queue \subseteq Row
LinesTyped ==
  /\ lines \in [Name -> SUBSET Line] /\ before \in [Name -> SUBSET Line]
  /\ proven \in [Name -> Nat] /\ present \in [Name -> Nat]
PlanTyped ==
  /\ waiting \in BOOLEAN /\ brought \in BOOLEAN
  /\ pc \in {"idle", "plan", "level", "run", "retry", "redo", "apply"}
  /\ {want, left, done, failed, stands} \subseteq SUBSET Item
  /\ plan \in Seq(SUBSET (Item \X BOOLEAN)) /\ at \in 0 .. Len(plan) + 1
Running == [name : Name \cup {NoName}, seen : [Item -> Abi], tried : SUBSET Line, rung : 0 .. Len(Ladder)]
PoolTyped ==
  /\ level \subseteq Item \X BOOLEAN /\ todo \subseteq Name
  /\ th \in [Threads -> Running]
  /\ errs \in [Name -> {"none", "ok", "wait", "again", "failed"}]
  /\ art \in [Item -> Build]
Counted == waits \in 0 .. MaxWaits /\ runs \in 0 .. MaxRuns /\ bumps \in 0 .. MaxBumps /\ kills \in 0 .. MaxKills
TypeOK == WorldTyped /\ LinesTyped /\ PlanTyped /\ PoolTyped /\ Counted

\* Whoever links a library that has moved since is on the queue, or is something doctor finds:
\* a change that still resolves is invisible to every check, so a row lost is a package that
\* stays wrong for good (rebuild_cmd's rows, enqueue, back; through failures, skips and kills).
\* It takes that no other kiry installs meanwhile, that Apart holds, and that a symbol which
\* leaves comes back as it was: back asks for its name and not for its size.
Stale(i, l) == <<i, l>> \in Uses /\ Moved(linked[i][l], inst[l])
StaleQueued == \A i, l \in Item : Stale(i, l) => Doctor(i) \/ \E r \in queue : r.item = i /\ r.lib = l

\* Each member of a level links what it will run with, as rebuild_cmd says of its levels: what a
\* level changes is linked by nothing that is compiled beside it or is in already. It takes
\* that what links a library lists it, or comes behind it by what it does list.
InHand(i) == <<i, TRUE>> \in level \/ <<i, FALSE>> \in level
Placed == {i \in want \ failed : \E k \in DOMAIN plan : k < at /\ <<i, FALSE>> \in plan[k]}
Apart ==
  \A i, l \in Item : /\ <<i, l>> \in Uses
                     /\ InHand(l) /\ l \notin failed
                     /\ InHand(i) \/ i \in Placed
                     => inst[l] = recipe[l]

\* A package whose build works in the end keeps the lines that made it work, and one that
\* does not, whether stuck or sent off to wait, is left with the lines it had (recover's undo).
FilterHonest ==
  \A n \in Name : /\ errs[n] = "ok" => Outcome(n, lines[n]) = "ok"
                  /\ errs[n] \in {"failed", "wait", "again"} => lines[n] = before[n]

\* what each item has come to, for BuildOrder
Taken == {x \in level : NameOf[x[1]] \notin todo}
StageOf(i) ==
  IF i \notin want THEN "none"
  ELSE IF i \in failed THEN "stuck"
  ELSE IF i \in Placed THEN "in"
  ELSE IF <<i, TRUE>> \in Taken THEN "boot"
  ELSE IF <<i, FALSE>> \in Taken THEN "build" ELSE "wait"
Order == INSTANCE BuildOrder WITH
  stage <- [i \in Item |-> StageOf(i)], standin <- stands,
  Starters <- {i \in Item : NameOf[i] \in Starters}
\* Levels, threads, skips and retries keep the order BuildOrder states.
InOrder == Order!Spec

\* A rebuild ends, whatever fails or waits.
Ends == pc # "idle" ~> pc = "idle"
=============================================================================
