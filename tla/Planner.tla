------------------------------ MODULE Planner -------------------------------
(* kiry i and kiry b: what a name needs is walked, ordered and built level by
   level, a build finds what it lacks and is planned again, and behind the
   batch goes what nothing asked for needs any more. Beside it kiry r, edits of
   the world file, recipes that move, and a kill.

   One target, which is the host too. A build is known by what it looks for;
   what a package ships answers that. Everything under the writer lock is one
   action. *)
EXTENDS Naturals, Sequences, FiniteSets

CONSTANTS
  Pkg, NoPkg, Miss, NoMiss,
  Hand,                \* packages of core and local, whose recipe says what a build gets
  Starters,            \* packages with a bootstrap script
  Base, Tools,         \* what never leaves, and the toolchain in it
  Listed, RunTime,     \* the recipe's depends, and the ones that are not make
  Looks, Probes,       \* what a build dies without, in the order it gets there; and does without
  Ships, Guess,        \* what a package answers; who an index or a name says answers
  Links, Reads,        \* what a build links and whose headers it includes, where staged
  Plain,               \* packages without headers, of which unprove knows nothing
  Scripts, Blind,      \* what the files run that no record says; breakage with no package in it
  Seen,                \* what a program was seen to dlopen
  Given,               \* the recipes, roots and caches to begin with: [ver, in, cache, world]
  Typed,               \* names a user asks for
  Width, MaxPasses, MaxRounds, MaxWaits,
  MaxCommands, MaxBumps, MaxKills,
  Beside               \* whether another kiry may remove while this one builds

Build == [ver : Nat, deps : SUBSET Pkg]
None == [ver |-> 0, deps |-> {}]
\* a bootstrap pass builds what stands in for a package
Passes == {"standin", "article"}
NoRound == [miss |-> NoMiss, dep |-> NoPkg]

ASSUME PlannerAssumption ==
  /\ IsFiniteSet(Pkg) /\ Hand \subseteq Pkg /\ Starters \subseteq Pkg /\ Tools \subseteq Base /\ Base \subseteq Pkg
  /\ NoPkg \notin Pkg /\ NoMiss \notin Miss
  /\ {Listed, RunTime, Links, Reads, Scripts, Seen} \subseteq [Pkg -> SUBSET Pkg]
  /\ \A p \in Pkg : RunTime[p] \subseteq Listed[p]
  /\ Looks \in [Pkg -> Seq(Miss)] /\ {Probes, Ships} \subseteq [Pkg -> SUBSET Miss]
  /\ Guess \in [Miss -> Pkg \cup {NoPkg}] /\ {Plain, Blind, Typed} \subseteq SUBSET Pkg
  /\ Given \subseteq [ver : [Pkg -> Nat \ {0}], in : [Pkg -> Build], cache : [Pkg -> Build],
                      world : [there : BOOLEAN, names : SUBSET Pkg]]
  /\ {Width, MaxPasses, MaxRounds, MaxWaits, MaxCommands, MaxBumps, MaxKills} \subseteq Nat
  /\ Width # 0 /\ Beside \in BOOLEAN

VARIABLES
  ver,                   \* the version of each recipe
  rec, cache,            \* the record and the artifact of each package, or None
  proven, star, last, tried,    \* var/kiry/closure: lines, *, <name>.last, <name>.pruned
  world,                 \* etc/kiry/world
  waiting,               \* the static WAITING
  pc, own, seeds, named, passes, plan, at,    \* the locals of install, and of build_cmd
  todo, run, rounds, err, brought, waits,
  made,                  \* builds of each package since the command began, by Passes
  swept,                 \* whether the last command ended with a leave that took all it may
  commands, bumps, kills

vars == <<ver, rec, cache, proven, star, last, tried, world, waiting, pc, own, seeds, named, passes,
          plan, at, todo, run, rounds, err, brought, waits, made, swept, commands, bumps, kills>>
closures == <<proven, star, last, tried>>
local == <<own, seeds, named, passes, plan, at, brought, waits>>
pool == <<todo, run, rounds, err>>
count == <<commands, bumps, kills>>

Installed == {p \in Pkg : rec[p] # None}
Fresh(p) == cache[p].ver = ver[p]

\* what S reaches over step
Walk(S, step) ==
  LET f[T \in SUBSET Pkg] == LET U == T \cup UNION {step[p] : p \in T} IN IF U = T THEN T ELSE f[U]
  IN  f[S]

Init ==
  /\ \E g \in Given : ver = g.ver /\ rec = g.in /\ cache = g.cache /\ world = g.world
  /\ proven = [p \in Pkg |-> {}] /\ star = {} /\ last = [p \in Pkg |-> NoRound] /\ tried = {}
  /\ waiting = FALSE /\ pc = "idle" /\ own = NoPkg /\ seeds = {} /\ named = {} /\ passes = 0
  /\ plan = <<>> /\ at = 0 /\ todo = {} /\ run = {} /\ rounds = [p \in Pkg |-> 0] /\ err = "none"
  /\ brought = FALSE /\ waits = 0 /\ made = [p \in Pkg |-> [k \in Passes |-> 0]] /\ swept = FALSE
  /\ commands = 0 /\ bumps = 0 /\ kills = 0

\* the process is gone with its locals
Over ==
  /\ pc' = "idle" /\ own' = NoPkg /\ seeds' = {} /\ named' = {} /\ passes' = 0 /\ plan' = <<>> /\ at' = 0
  /\ todo' = {} /\ run' = {} /\ rounds' = [p \in Pkg |-> 0] /\ err' = "none" /\ waiting' = FALSE
  /\ brought' = FALSE /\ waits' = 0
Die == Over /\ swept' = FALSE /\ UNCHANGED <<ver, rec, cache, closures, world, made, count>>

-----------------------------------------------------------------------------
(* World: what was asked for, and what goes when nothing needs it. r, w are the
   records and the world to judge by. *)
In(r) == {p \in Pkg : r[p] # None}
NoWorld == [there |-> FALSE, names |-> {}]
Leaves(r) == {p \in In(r) : ~\E q \in In(r) : p \in r[q].deps}
Seeded == IF world.there \/ Leaves(rec) = {} THEN world ELSE [there |-> TRUE, names |-> Leaves(rec)]
Wish(w, N) == IF w.there THEN [w EXCEPT !.names = @ \cup N] ELSE w
Unwish(w, N) == [w EXCEPT !.names = @ \ N]

\* what a record or an observed dlopen holds
Held(r) == [p \in Pkg |-> (r[p].deps \cup Seen[p]) \cap In(r)]
Broken(r, gone) == {p \in In(r) \ gone : Scripts[p] \cap In(r) \cap gone # {}}

\* mutant: the first breakage keeps everything
StaysAtAll(r, w) == LET keep == Walk((w.names \cup Base) \cap In(r), Held(r))
                    IN  IF Broken(r, In(r) \ keep) = {} THEN keep ELSE In(r)
\* leave: rounds of would_break, each keeping what the last one showed was needed
Stays(r, w) ==
  LET keep == Walk((w.names \cup Base) \cap In(r), Held(r))
      f[k \in SUBSET Pkg] ==
        LET hurt == Broken(r, In(r) \ k)
        IN  IF hurt = {} THEN k
            ELSE IF hurt \cap Blind # {} THEN In(r)
            ELSE f[k \cup Walk((UNION {Scripts[p] : p \in hurt}) \cap In(r), Held(r))]
  IN  f[keep]
Left(r, w) == IF w.there THEN [p \in Pkg |-> IF p \in Stays(r, w) THEN r[p] ELSE None] ELSE r

\* swept: whether it took all it may, which one that gave up, and took nothing, did not
Sweep(r, w) == /\ world' = w /\ rec' = Left(r, w)
               /\ swept' = (w.there /\ (Stays(r, w) # In(r) \/ In(r) \cap Blind = {}))

-----------------------------------------------------------------------------
(* Commands *)
Bump(p) ==
  /\ pc = "idle" /\ bumps < MaxBumps
  /\ ver' = [ver EXCEPT ![p] = @ + 1] /\ bumps' = bumps + 1
  /\ UNCHANGED <<rec, cache, closures, world, waiting, pc, local, pool, made, swept, commands, kills>>

\* the file is hand-edited: a name taken out goes with the next batch
Edit(p) ==
  /\ pc = "idle" /\ p \in world.names /\ commands < MaxCommands
  /\ world' = [world EXCEPT !.names = @ \ {p}] /\ swept' = FALSE
  /\ UNCHANGED <<ver, rec, cache, closures, waiting, pc, local, pool, made, count>>

Asking == pc = "idle" /\ commands < MaxCommands /\ commands' = commands + 1
Began == made' = [p \in Pkg |-> [k \in Passes |-> 0]] /\ swept' = FALSE

\* names typed, or @outdated, which asks for nothing new
Install(due, typed) ==
  /\ Asking /\ Began
  /\ pc' = "plan" /\ seeds' = due /\ named' = typed /\ world' = Seeded
  /\ UNCHANGED <<ver, rec, cache, closures, waiting, own, passes, plan, at, brought, waits, pool, bumps, kills>>
Outdated == {p \in Installed : rec[p].ver # ver[p]}
InstallCmd ==
  \/ \E p \in Typed : rec[p].ver # ver[p] /\ Install({p}, {p})
  \/ Outdated # {} /\ Install(Outdated, {})
\* what is in at the recipe's version is wished for and nothing else
WishCmd ==
  /\ Asking /\ Began
  /\ \E p \in Typed : rec[p].ver = ver[p] /\ world' = Wish(Seeded, {p})
  /\ UNCHANGED <<ver, rec, cache, closures, waiting, pc, local, pool, bumps, kills>>

BuildCmd ==
  /\ Asking /\ Began /\ pc' = "bring"
  /\ \E p \in Typed : own' = p
  /\ UNCHANGED <<ver, rec, cache, closures, world, waiting, seeds, named, passes, plan, at, brought, waits,
                 pool, bumps, kills>>

\* mutant: a removal asks the records alone
HoldsRecorded(N) == \E q \in Installed \ N : rec[q].deps \cap N # {}
\* held_by: no record and no file may need what goes
Holds(N) == \E q \in Installed \ N : rec[q].deps \cap N # {} \/ q \in Broken(rec, N)
\* r without --force, of any name or two
RemoveCmd ==
  /\ pc = "idle" \/ Beside
  /\ commands < MaxCommands /\ commands' = commands + 1
  /\ \E N \in {{p, q} : p, q \in Installed} :
       /\ ~Holds(N)
       /\ Sweep([p \in Pkg |-> IF p \in N THEN None ELSE rec[p]], Unwish(world, N))
  /\ UNCHANGED <<ver, cache, closures, waiting, pc, local, pool, made, bumps, kills>>

Kill == pc # "idle" /\ kills < MaxKills /\ kills' = kills + 1 /\ Over /\ swept' = FALSE
        /\ UNCHANGED <<ver, rec, cache, closures, world, made, commands, bumps>>

-----------------------------------------------------------------------------
(* The plan *)
\* where a build starts: what its builds proved, and what the installed one links
Start(p) ==
  IF p \in Hand THEN Listed[p]
  ELSE (IF p \in star THEN Listed[p] ELSE {}) \cup proven[p] \cup (rec[p].deps \cap Links[p])
\* what is built is installed, which asks for its runtime deps alone
Asks(p) == IF Fresh(p) THEN cache[p].deps ELSE Start(p)
Wanted(S) == Walk(S, [p \in Pkg |-> Asks(p) \ Installed])

Levels(S) ==
  LET Now(s) == {p \in s.left : ~\E q \in s.left \ (s.done \cup {p}) : q \in Asks(p)}
      Boot(s) == (s.left \ s.done) \cap Starters
      f[n \in Nat] ==
        IF n = 0 THEN [left |-> S, done |-> {}, out |-> <<>>]
        ELSE LET s == f[n - 1]
             IN  IF s.left = {} THEN s
                 ELSE IF Now(s) # {} THEN [s EXCEPT !.left = @ \ Now(s),
                                                    !.out = Append(@, {<<p, FALSE>> : p \in Now(s)})]
                 ELSE [s EXCEPT !.done = @ \cup Boot(s), !.out = Append(@, {<<p, TRUE>> : p \in Boot(s)})]
  IN  f[2 * Cardinality(S)]

\* install::plan refuses a batch that leaves a dep out
Fits(B) == \A p \in B : cache[p].deps \subseteq Installed \cup B
With(B) == [p \in Pkg |-> IF p \in B THEN cache[p] ELSE rec[p]]

\* a root without its toolchain takes the cached one first
Lacking == Walk(Tools \ Installed, [p \in Pkg |-> RunTime[p] \ Installed])
ToolsFirst == (\E p \in Wanted(seeds) : ~Fresh(p)) /\ Lacking # {}
FirstTools ==
  /\ pc = "plan" /\ ToolsFirst
  /\ \/ /\ \A p \in Lacking : Fresh(p)
        /\ Fits(Lacking) /\ rec' = With(Lacking) /\ swept' = FALSE
        /\ UNCHANGED <<ver, cache, closures, world, waiting, pc, local, pool, made, count>>
     \/ ~((\A p \in Lacking : Fresh(p)) /\ Fits(Lacking)) /\ Die

Plan ==
  /\ pc = "plan" /\ ~ToolsFirst
  /\ LET W == Wanted(seeds)
         L == Levels(W)
     IN  IF passes >= MaxPasses \/ L.left # {} THEN Die
         ELSE /\ passes' = passes + 1 /\ plan' = L.out /\ at' = 1
              /\ pc' = IF \A p \in W : Fresh(p) THEN "batch" ELSE "level"
              /\ UNCHANGED <<ver, rec, cache, closures, world, waiting, own, seeds, named, brought, waits,
                             pool, made, swept, count>>

Names(lv) == {x[1] : x \in lv}
All == UNION {Names(plan[k]) : k \in DOMAIN plan}

\* for a build nothing is wished for and nothing leaves: it goes on to the build
Finish(r) ==
  IF own = NoPkg THEN Sweep(r, Wish(world, named)) /\ Over
  ELSE /\ rec' = r /\ pc' = "own" /\ run' = {own} /\ rounds' = [p \in Pkg |-> 0]
       /\ swept' = FALSE /\ UNCHANGED <<world, waiting, local, todo, err>>

Batch ==
  /\ pc = "batch"
  /\ IF Fits(All) THEN Finish(With(All)) /\ UNCHANGED <<ver, cache, closures, made, count>> ELSE Die

Done == /\ pc = "level" /\ at > Len(plan)
        /\ Finish(rec) /\ UNCHANGED <<ver, cache, closures, made, count>>

-----------------------------------------------------------------------------
(* One level: what is not cached is built, Width packages at a time; the first
   failure starts no more and waits for what runs. *)
\* mutant: a plan made again builds its level again
StartLevelAgain ==
  /\ pc = "level" /\ at <= Len(plan) /\ pc' = "run"
  /\ todo' = Names(plan[at]) /\ rounds' = [p \in Pkg |-> 0]
  /\ UNCHANGED <<ver, rec, cache, closures, world, waiting, local, run, err, made, swept, count>>
StartLevel ==
  /\ pc = "level" /\ at <= Len(plan) /\ pc' = "run"
  /\ todo' = {p \in Names(plan[at]) : ~Fresh(p)} /\ rounds' = [p \in Pkg |-> 0]
  /\ UNCHANGED <<ver, rec, cache, closures, world, waiting, local, run, err, made, swept, count>>

Take(p) ==
  /\ pc = "run" /\ p \in todo /\ err = "none" /\ Cardinality(run) < Width
  /\ todo' = todo \ {p} /\ run' = run \cup {p}
  /\ UNCHANGED <<ver, rec, cache, closures, world, waiting, pc, local, rounds, err, made, swept, count>>

Boots(p) == pc = "run" /\ <<p, TRUE>> \in plan[at]
\* the sandbox holds the closure and the toolchain with what they run on, or there is none
Staged(p) == Walk(Start(p) \cup Tools, [q \in Pkg |-> rec[q].deps])
Answered(p) == UNION {Ships[q] : q \in Staged(p)}
\* what the log says, by its places in Looks
Log(p) == IF Boots(p) THEN {} ELSE {k \in DOMAIN Looks[p] : Looks[p][k] \notin Answered(p)}
FirstOf(p, log) == Looks[p][CHOOSE k \in log : \A j \in log : k <= j]

\* answers: installed packages by their files, then the index and the names
Provider(p, m) ==
  LET found == {q \in Installed : m \in Ships[q]}
      taken == Start(p) \cup {p}
  IN  IF found \cap taken # {} THEN NoPkg
      ELSE IF found \cap Listed[p] # {} THEN CHOOSE q \in found \cap Listed[p] : TRUE
      ELSE IF found # {} THEN CHOOSE q \in found : TRUE
      ELSE IF Guess[m] \in taken THEN NoPkg ELSE Guess[m]

Returns(p, e) == /\ run' = run \ {p} /\ rounds' = [rounds EXCEPT ![p] = 0]
                 /\ err' = IF err = "none" THEN e ELSE err
                 /\ waiting' = (waiting \/ e = "wait")
Again(p) == /\ rounds' = [rounds EXCEPT ![p] = @ + 1] /\ UNCHANGED <<run, err, waiting>>
Stay == UNCHANGED <<ver, rec, world, pc, local, todo, swept, count>>

NotStaged(p) ==
  /\ p \in run /\ ~(Staged(p) \subseteq Installed)
  /\ Returns(p, "failed") /\ Stay /\ UNCHANGED <<cache, closures, made>>

Fails(p) == p \in run /\ Staged(p) \subseteq Installed /\ Log(p) # {}

\* the dep added last round is for the miss still at the head: it comes out
TakenBack(p) == p \notin Hand /\ last[p] # NoRound /\ last[p].miss = FirstOf(p, Log(p))
\* mutant: a dep that did not help stays
DisproveKeeping(p) ==
  /\ Fails(p) /\ TakenBack(p) /\ last' = [last EXCEPT ![p] = NoRound]
  /\ Returns(p, "failed") /\ Stay /\ UNCHANGED <<cache, proven, star, tried, made>>
Disprove(p) ==
  /\ Fails(p) /\ TakenBack(p)
  /\ proven' = [proven EXCEPT ![p] = @ \ {last[p].dep}] /\ last' = [last EXCEPT ![p] = NoRound]
  /\ Returns(p, "failed") /\ Stay /\ UNCHANGED <<cache, star, tried, made>>

Known(p) == {k \in Log(p) : Provider(p, Looks[p][k]) # NoPkg}
Discover(p) ==
  /\ Fails(p) /\ p \notin Hand /\ ~TakenBack(p) /\ Known(p) # {}
  /\ LET m == FirstOf(p, Known(p)) d == Provider(p, m)
     IN  /\ proven' = [proven EXCEPT ![p] = @ \cup {d}]
         /\ last' = [last EXCEPT ![p] = [miss |-> m, dep |-> d]]
         /\ IF d \notin Installed THEN Returns(p, "wait")
            ELSE IF rounds[p] + 1 < MaxRounds THEN Again(p) ELSE Returns(p, "failed")
  /\ Stay /\ UNCHANGED <<cache, star, tried, made>>

\* nothing it said names a package: everything the recipe declares, once
Falls(p) == p \notin star /\ ~(Listed[p] \subseteq Start(p))
FallBack(p) ==
  /\ Fails(p) /\ p \notin Hand /\ ~TakenBack(p) /\ Known(p) = {} /\ Falls(p)
  /\ star' = star \cup {p} /\ last' = [last EXCEPT ![p] = NoRound]
  /\ IF ~(Listed[p] \subseteq Installed) THEN Returns(p, "wait")
     ELSE IF rounds[p] + 1 < MaxRounds THEN Again(p) ELSE Returns(p, "failed")
  /\ Stay /\ UNCHANGED <<cache, proven, tried, made>>

GivesUp(p) ==
  /\ Fails(p) /\ (p \in Hand \/ (~TakenBack(p) /\ Known(p) = {} /\ ~Falls(p)))
  /\ last' = IF p \in Hand THEN last ELSE [last EXCEPT ![p] = NoRound]
  /\ Returns(p, "failed") /\ Stay /\ UNCHANGED <<cache, proven, star, tried, made>>

Works(p) == p \in run /\ Staged(p) \subseteq Installed /\ Log(p) = {}
\* more: a feature that it looked for, the recipe lists, and costs no build
Extra(p) == {d \in Listed[p] \ Tools : /\ d \in Installed \/ Fresh(d)
                                       /\ \E m \in Probes[p] \ Answered(p) : Provider(p, m) = d}
More(p) ==
  /\ Works(p) /\ p \notin Hand /\ Extra(p) # {}
  /\ last' = [last EXCEPT ![p] = NoRound]
  /\ proven' = [proven EXCEPT ![p] = @ \cup Extra(p)]
  /\ IF ~(Extra(p) \subseteq Installed) THEN Returns(p, "wait") /\ UNCHANGED <<cache, made>>
     ELSE rounds[p] < MaxRounds /\ Again(p) /\ UNCHANGED <<cache, made>>
  /\ Stay /\ UNCHANGED <<star, tried>>

\* unprove: a line no file of the build included or linked goes, once a version, where the
\* build went through clang at all
Unused(p) == {d \in proven[p] \cup (IF p \in star THEN Listed[p] ELSE {}) :
                d \notin Plain \cup Links[p] \cup Reads[p] /\ <<p, d, ver[p]>> \notin tried}
Lands(p) ==
  /\ Works(p) /\ (p \in Hand \/ Extra(p) = {} \/ (Extra(p) \subseteq Installed /\ rounds[p] >= MaxRounds))
  /\ last' = [last EXCEPT ![p] = NoRound]
  /\ \/ UNCHANGED <<proven, star, tried>>
     \/ /\ p \notin Hand
        /\ proven' = [proven EXCEPT ![p] = (@ \cup (IF p \in star THEN Listed[p] ELSE {})) \ Unused(p)]
        /\ star' = star \ {p}
        /\ tried' = tried \cup {<<p, d, ver[p]>> : d \in Unused(p)}
  /\ cache' = [cache EXCEPT ![p] = [ver |-> ver[p], deps |-> RunTime[p] \cup (Links[p] \cap Staged(p))]]
  /\ made' = [made EXCEPT ![p][IF Boots(p) THEN "standin" ELSE "article"] = @ + 1]
  /\ Returns(p, "none") /\ Stay

Round(p) == NotStaged(p) \/ Disprove(p) \/ Discover(p) \/ FallBack(p) \/ GivesUp(p) \/ More(p) \/ Lands(p)

-----------------------------------------------------------------------------
(* Behind the pool: planned again, given up, or put in *)
Level == Names(plan[at])
EndLevel ==
  /\ pc = "run" /\ run = {} /\ (todo = {} \/ err # "none")
  /\ IF err # "none" /\ ~waiting THEN Die
     ELSE /\ pc' = IF err # "none" \/ ~Fits(Level) THEN "plan" ELSE "apply"
          /\ waiting' = FALSE /\ todo' = {} /\ err' = "none"
          /\ UNCHANGED <<ver, rec, cache, closures, world, local, run, rounds, made, swept, count>>

\* mutant: the level behind it is passed over
ApplySkipping ==
  /\ pc = "apply"
  /\ IF Fits(Level) THEN /\ rec' = With(Level) /\ at' = at + 2 /\ pc' = "level" /\ swept' = FALSE
                         /\ UNCHANGED <<ver, cache, closures, world, waiting, own, seeds, named, passes, plan,
                                        brought, waits, pool, made, count>>
     ELSE Die
Apply ==
  /\ pc = "apply"
  /\ IF Fits(Level) THEN /\ rec' = With(Level) /\ at' = at + 1 /\ pc' = "level" /\ swept' = FALSE
                         /\ UNCHANGED <<ver, cache, closures, world, waiting, own, seeds, named, passes, plan,
                                        brought, waits, pool, made, count>>
     ELSE Die

\* bring, and the build it was for
Bring ==
  /\ pc = "bring"
  /\ LET short == Start(own) \ Installed
     IN  IF short = {} THEN /\ pc' = "own" /\ run' = {own}
                            /\ UNCHANGED <<seeds, passes, brought, world>>
         ELSE /\ pc' = "plan" /\ seeds' = short /\ passes' = 0 /\ brought' = TRUE
              /\ world' = Seeded /\ UNCHANGED run
  /\ UNCHANGED <<ver, rec, cache, closures, waiting, own, named, plan, at, waits, todo, rounds, err, made,
                 swept, count>>

EndOwn ==
  /\ pc = "own" /\ run = {}
  /\ \/ /\ err = "none" /\ Over
        /\ IF brought THEN Sweep(rec, world) ELSE UNCHANGED <<rec, world, swept>>
        /\ UNCHANGED <<ver, cache, closures, made, count>>
     \/ /\ err # "none" /\ waiting /\ waits < MaxWaits
        /\ pc' = "bring" /\ waits' = waits + 1 /\ waiting' = FALSE /\ err' = "none"
        /\ UNCHANGED <<ver, rec, cache, closures, world, own, seeds, named, passes, plan, at, brought, todo,
                       run, rounds, made, swept, count>>
     \/ err # "none" /\ ~(waiting /\ waits < MaxWaits) /\ Die

Next ==
  \/ \E p \in Pkg : Bump(p) \/ Edit(p) \/ Take(p) \/ Round(p)
  \/ InstallCmd \/ WishCmd \/ BuildCmd \/ RemoveCmd \/ Kill
  \/ FirstTools \/ Plan \/ Batch \/ Done \/ StartLevel \/ EndLevel \/ Apply \/ Bring \/ EndOwn
Spec == Init /\ [][Next]_vars

-----------------------------------------------------------------------------
TypeOK ==
  /\ ver \in [Pkg -> Nat] /\ {rec, cache} \subseteq [Pkg -> Build]
  /\ proven \in [Pkg -> SUBSET Pkg] /\ star \subseteq Pkg
  /\ last \in [Pkg -> [miss : Miss \cup {NoMiss}, dep : Pkg \cup {NoPkg}]]
  /\ tried \subseteq Pkg \X Pkg \X Nat
  /\ world \in [there : BOOLEAN, names : SUBSET Pkg] /\ {waiting, brought, swept} \subseteq BOOLEAN
  /\ pc \in {"idle", "plan", "batch", "level", "run", "apply", "bring", "own"}
  /\ own \in Pkg \cup {NoPkg} /\ {seeds, named, todo, run} \subseteq SUBSET Pkg
  /\ passes \in 0 .. MaxPasses /\ waits \in 0 .. MaxWaits
  /\ plan \in Seq(SUBSET (Pkg \X BOOLEAN)) /\ at \in 0 .. Len(plan) + 1
  /\ rounds \in [Pkg -> 0 .. MaxRounds] /\ err \in {"none", "wait", "failed"}
  /\ made \in [Pkg -> [Passes -> Nat]]
  /\ Cardinality(run) <= Width

\* No removal of one name or two, unless it is forced, and no leave takes away what a file
\* that stays runs, whether a record says so or not (would_break, as held_by and leave ask it).
NoneBroken ==
  [][\A p \in Pkg : rec[p] # None /\ rec'[p] # None => \A d \in Scripts[p] : rec[d] # None => rec'[d] # None]_vars

\* Behind a batch stands the least set that has what was asked for and is closed under what
\* records, dlopens and files need: leave's rounds reach it, and leave nothing over.
Needed(S) ==
  LET closed == {K \in SUBSET S : /\ (world.names \cup Base) \cap S \subseteq K
                                  /\ \A p \in K : (rec[p].deps \cup Seen[p] \cup Scripts[p]) \cap S \subseteq K}
  IN  {p \in S : \A K \in closed : p \in K}
NothingIdle == swept => Installed = Needed(Installed)

\* However often an install is planned again, nothing it built is built twice: each pass
\* starts further along (install's loop, cached). A package of a cycle may be built once as
\* its stand-in and once as "the article" (main.rs levels): not said is that it is, and a
\* stand-in found in the cache stays (install).
BuiltOnce == \A p \in Pkg : \A k \in Passes : made[p][k] <= 1

\* Planning again comes to an end by itself, long before it is cut off: every pass knows a
\* dep or an artifact more (install: planned 500 times without finishing).
PlansAFew == passes < MaxPasses
Progresses == BuiltOnce /\ PlansAFew

\* A line of a closure is one the build got further with, or the one its next round is to
\* judge (discover, disprove, unprove). It takes that what a wrong guess was for is the
\* first thing the build misses.
Helps(p, d) == Ships[d] \cap (Probes[p] \cup {Looks[p][k] : k \in DOMAIN Looks[p]}) # {} \/ d \in Listed[p]
Earned == \A p \in Pkg : \A d \in proven[p] : Helps(p, d) \/ last[p].dep = d
=============================================================================
