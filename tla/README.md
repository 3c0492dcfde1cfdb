# kiry in TLA+

A verification development of kiry, a package manager for a source-built
two-libc Linux distribution: what it does to an installed root, to its build
cache, its recipes and the two root subvolumes, as TLA+ modules with the runs
that model-check them and the theorems that hold for every size of them.

| module | what it is |
| --- | --- |
| `Transaction` | install, remove and gc's preserved pass on one root, one durable write at a time |
| `MCTransaction` | the packages and batches its three runs use |
| `TransactionProofs` | types, mutual exclusion and disjoint records of `Transaction`; records stay whole, deps met, packages outside a batch and what the user wrote under `etc/` untouched; what records and provides say is on disk, and what is on disk is in a record; no library somebody links goes, and who lost a symbol is queued |
| `RootPair` | the fallback a risky install takes, commit, rollback and reboots |
| `MCRootPair` | its two runs |
| `RootPairProofs` | which root a process may delete, and what the fallback holds |
| `Builds` | claim, compile, pack, the landing of an artifact, staleness, gc's stage and `.part` sweep |
| `MCBuilds` | its run |
| `BuildsProofs` | types; one build at a time, what it compiled stands, what lands is whole, what `stale` takes as good is |
| `BuildOrder` | the abstract specification of the order a rebuild works in |
| `Rebuild` | rebuild: the queue, levels, the pool of threads, recoveries and waits; implements `BuildOrder` |
| `MCRebuild` | its run: a cycle that opens, one that does not, two tiers |
| `RebuildProofs` | types and filters of `Rebuild`, that it implements `BuildOrder`, and that no row is lost |
| `Planner` | install and build: what is wanted, levels, what a build finds out it lacks, the world file and what leaves |
| `MCPlanner` | its run: four roots |
| `PlannerProofs` | types, what a leave leaves standing, that nothing a file runs goes, earned closures, whole records, nothing built twice |
| `Sync` | recipes that follow an upstream: survey, conversion, carry, policies, promote |
| `MCSync` | its two runs |
| `SyncProofs` | types, what the tree decided stays, what alpine changed waits for a reading |
| `Trace` | what programs were seen to load and run, from two kernel buffers |
| `MCTrace` | its run |
| `TraceProofs` | types of `Trace`, that a read credits a program only with what it asked for itself, and that it loses no dlopen |
| `Flags` | what one package compiles with: resolve, notes, the ladder, bisect-flags, flags rows |
| `MCFlags` | its run |
| `FlagsProofs` | whose lines go, and when an artifact, a record and a flags row agree with what resolves |

`tlc -config X.cfg M` checks a run, `tlapm M.tla` a proof module.
`PROJECT.json` says which definition stands for which lines.

## Inventory

kiry is `crates/kiry-core` (records, archives, ELF, transactions) and
`crates/kiry` (the command line, 16k lines of `main.rs`, with the sandbox and
the Alpine converter beside it). Concurrency comes from several kiry processes
on one machine and from a pool of build threads inside one. Nothing is a
daemon: all state is files, so every interaction is a file another process
reads, and there are three kinds of lock: one writer per root, one build per
package, one reader of the trace.

**Install transactions** (`install.rs`, `apply_batch`, `remove_cmd`; modelled in
part). State: the root's files, a record per package and target (`version`,
`depends`, manifest, provides), a preserved record for libraries kept back, the
rebuild queue. Operations: plan (conflicts, deps), apply (extract every job,
write its record, keep back libraries whose soname left, take paths from other
records, prune), remove, gc of preserved libraries. Talks to: the ABI comparison
(what broke), the queue (who has to be rebuilt), the user's edits under `etc/`.
Hard: it is a long sequence of durable writes with no journal, a batch moves
paths between packages, `--force` changes records outside the batch. Correct
when records are disjoint and true, deps are met, edits survive, every library
somebody needs can be loaded and every consumer that broke is queued.

**Records on disk** (`db.rs`; as the commands use them). Correct when a kill
leaves the old or the new of each file, and what is written reads back.

**Archives** (`archive.rs`; one member at a time). Resolves paths below the root
through symlinks. Correct when nothing is written outside the root and a member
replaces its path at once.

**ELF and ABI comparison** (`elf.rs`; as what a library exports, a user misses
and a file needs). A pure reader; `compare` decides what a consumer may have lost.

**Builds, claims and artifacts** (`build`, `claim`, `compile`, `pack`, `meta`,
`stale`, `gc_cmd`; modelled in part). State: `stage/<pkg>.<target>`, the lock
file beside it, the artifact and its sidecar in `cache/`, the recipe and the
flags. Hard: builds run for hours while recipes, flags, other builds and gc go
on; a kill leaves a stage, a `.part` or half a sidecar. Correct when one build
of a package runs at a time, its trees stand until they land, the artifact at
its name is always whole and `stale` never takes an outdated one as good.

**Worker pool and levels** (`parallel`, `levels`, `longest_first`; in `Rebuild`
and `Planner`). State: the shared cursor, the first error, the level lists.
Correct when no package starts before what it needs is built, each is built
once, a failure stops new starts and a cycle is broken only where a package says
it may be.

**Dependency discovery** (`build`'s loop, `discover`, `disprove`, `more`,
`unprove`; in `Planner`). A build that fails or links something undeclared is
run again with one package more, at most 60 times; WAITING hands over to the
planner when that package has to be built first. Correct when it ends, never
rebuilds what taught it nothing, and keeps no dep that did not help.

**Build failure recovery** (`recover`, `bisect`; in `Flags`, and among other
threads in `Rebuild`). A table of fixes, a ladder of weaker flags and the
search for the flag at fault. Correct when it ends and leaves the recipe with
the rung that worked or as it was.

**Install planner** (`install`, `bring`, `wanted`, `first_tools`; in `Planner`).
Closure over runtime and build deps, cached or to be built, re-planned when a
build learns something. Correct when it builds nothing twice and the re-planning ends.

**Root pair and fallback** (`settle`, `fallback`, `commit_cmd`, `rollback_cmd`;
modelled in part). State: two subvolumes with uuids and parents, BootOrder, a
marker and a mount on `/run`. Hard: kiry, the firmware and the person at the
boot menu act in turn, boots lose `/run`, the marker is read outside any lock.
Correct when the fallback is the tree that booted, is there when an install
relies on it, and the root that was fled from is never deleted.

**World file and leaving deps** (`wish`, `unwish`, `seed_world`, `leave`; in
`Planner`). What was asked for and the fixed point of what nothing needs any
more. Correct when nothing a wish needs leaves and nothing unneeded stays.

**Rebuild** (`rebuild_cmd`, `affected`, `enqueue`; the filling of the queue by a
real transaction is in `Transaction`). Takes rows, builds level by level,
installs, drops the rows it settled. Correct when a row goes only once its
package was rebuilt or left, and the order is that of the deps whatever fails.

**What programs load** (`observe`, `lineage`, `mapped`, `arm`, `seen`; `Trace`).
State: two trace buffers, what each live pid is, a file per consumer. Hard:
two streams drained one after the other, pids given out again, several
readers, a probe that has to follow libc. Correct when a program is credited
with what it loaded itself and no read loses what another found.

**Doctor and check** (`check`, `resolve`; what a removal asks is in
`Transaction`, what rebuild mends in `Rebuild`). Reports only.

**Sync, carry, testing** (`sync`, `survey`, `carry`, `restamp`, `promote`,
`convert.rs`; `Sync`). State: the recipe trees, `testing/`, what alpine's
recipe was when a person last took one. A three-way merge of alpine's old, the
tree's and alpine's new recipe. Hard: bumps follow bumps, people edit, hold,
delete and promote between them. Correct when no line of the tree is lost, what
alpine changed waits for a person, and a policy holds what it says it holds.

**Flags, profiles and rules** (`resolve`, `note`, `unrung`, `unstuck`, `stale`,
`flags_cmd`; `Flags`). State: `/etc/kiry/config`, a package's settings, its
`filter`. Correct when people's lines survive what recover writes beside them
and an artifact is as fresh as its sidecar says.

**Sandbox** (`sandbox.rs`; `closure` in `Planner`). Namespaces and mounts, no
state of its own.

**Not modelled**: the bootstrap scripts, terminal output and estimates.

The hazards of each, at their lines, are in `PROJECT.json`; a hazard without a
property says why.

The parts meet in files. An install (`Planner`) takes artifacts that a build
(`Builds`, with what `Flags` resolves) landed, applies them (`Transaction`)
after `settle` (`RootPair`); the apply fills the queue that `Rebuild` empties
with the same levels and pool; `Trace` tells `leave` in `Planner` what holds a
package that no record names; `Sync` moves the recipes all of them read. Each
module models its neighbours by what it sees of them: `Rebuild` has the install
of another kiry, `Planner` the removal, `Builds` edits of recipe and flags.

## Transaction

| variable | code |
| --- | --- |
| `disk` | files below the root, by path; content is a member of `Content` |
| `dirs`, `depends`, `man`, `prov` | `usr/lib/kiry/db/<target>/<name>/` and its `depends`, `manifest`, `provides` |
| `preserved` | `db/<target>/preserved/<name>` |
| `queue` | `db/<target>/rebuild` |
| `lock` | `flock` on `db/lock`, which dies with its process |
| `was`, `base`, `skip`, `kept`, `broke`, `at` | the locals of `install::apply` |
| `tangled` | history: the paths an install left to a record and a preserved record both |

One action is what happens between two durable writes: a member extracted, a
record's head or its manifest written, a provides file, a preserved record, an
unlink. Between them another process may only wait on the lock, so its steps
interleave at the lock, with the user's edits and with a kill. `Content` says
of a file only what the code asks: whether it is a link and where to, its
soname, what it needs, exports and misses. `Baseline`, `Moved`, `Stay`, `Held`,
`Losers`, `Drop` and `Affected` are `baseline`, `compare`, `preserve`,
`dispossess`, `unlink` and `affected`.

Runs (`MCTransaction`: a library with a patch release that drops a symbol and a
release that moves its soname, its consumer before and after a rebuild,
strangers on the other tier, a config that moves between packages):

| run | bounds | shows |
| --- | --- | --- |
| `tx_upgrade` | 2 processes, 5 commands of install, remove, gc, edit | `Untouched`, `Faithful`, `Accounted`, `DepsMet`, `NoneStranded`, `ConsumersQueued`; 868k states |
| `tx_force` | 2 processes, 5 commands of install, gc, edit, with `--force` and batches that collide | `Exclusive`, `ProvidesFresh`, `EditKept`; 460k states |
| `tx_kill` | 3 commands and a kill anywhere | `Survives`: no recorded file is missing and no edit is lost; under fairness `Returns`; 62k states |

Five commands are enough for the longest story the properties tell: install a
library, upgrade it so that a copy is kept back, remove it (or have a forced install
take the path), install it again over the copy, gc. Two processes are enough since only the holder of the lock acts. A kill more than
once adds nothing `Survives` tells apart: what a second one finds is a state
the first could have left. It runs commands without `--force` and removals of a
package nothing shares with, since a forced takeover that is killed leaves two
records claiming one file (below). `Exclusive` and
`ProvidesFresh` are stated for roots on which nothing was killed (`Unkilled`).

`Returns` assumes weak fairness of each process's own steps, which an
operating system gives a runnable process, and strong fairness of taking the
lock: the kernel queues the waiters of a `flock` and wakes them, so a waiter
is not passed over for ever. No fairness is assumed of starting commands,
edits or kills.

### What is proved

`TransactionProofs`, from `ConstantsAssumption` and `BatchAssumption` alone
(what the constants are, and that a batch has one archive per package and
target, which is all the planner hands over):

* `TypeCorrect`, `Spec => []TypeOK`. `TypeOK` is not inductive: that a process
  stays inside its batch needs to know that one on its way to apply starts at the
  first job of a batch (`TypeInv`).
* `WritersExclude`, `Spec => []OneWriter`: a process past the lock holds it
  (`LockInv`), through kills too.
* `RecordsDisjoint`, `Spec => []Exclusive`. The invariant
  (`ExclInv`) is what the four loops of apply establish one after the other:
  what the plan checked against every record, that outside the batch records
  only shrink while dispossess runs, which jobs have their new manifest, and
  that no path of a job is left in a record outside the batch once dispossess
  was through. A kill between two records of a batch really breaks `Exclusive`,
  hence `Unkilled` in it.

And each from these two assumptions and what it names:

| theorem | of | what it takes |
| --- | --- | --- |
| `NoHalfRecord` | a record directory has its manifest (`RecordsWhole`) | nothing |
| `BystandersUntouched` | `Untouched` | no kill |
| `DepsStayMet` | `DepsMet` | no kill, `Unforced`, `SameTarget` |
| `EditsStay` | `EditKept` | `ConfigsPlain`; force, kills and gc are allowed |
| `FilesAreThere` | `Faithful` | no kill, `Unforced`; gc is allowed |
| `FilesAreClaimed` | `Accounted` | no kill, `Unforced`; gc is allowed |
| `ProvidesTrue` | `ProvidesFresh` | `ConfigsPlain`, no kill; force and gc are allowed |
| `FilesSurvive` | `Survives` | `Handed`, `ConfigsPlain`, no gc; force and kills are allowed |
| `NothingStranded` | `NoneStranded` | no kill, `Unforced`, `ConfigsPlain`, `Conventional`, `Homed`; gc is allowed, a removal as long as it is `KeptBack` |
| `ConsumersTold` | `ConsumersQueued` | no kill, `Unforced`, `ConfigsPlain`, `Conventional`, `Homed`, `Singular`; gc is allowed |

None of these is there to make the proof easier: without it the code breaks the
property, by one of the traces below. `Unforced` (no `--force`): a forced
install skips the deps and takes over files. `SameTarget` (a dep a batch has a
job for, it has one for on the target that wants it): `deps` asks for the name
alone. `ConfigsPlain` (nothing shipped under `etc/` is a library, or a link to a
file outside `etc/` of the same package): such a config would be kept back as a
library and be gc's to take. No gc: it deletes a preserved path that a record may claim
again, which `Faithful` and `ProvidesFresh` exempt by `tangled` and `Survives` does not. `kills = 0`: half a batch. `Conventional` is how packages lay out libraries:
where the loader looks for a soname there is the library or a link to a file of
the same package, and what such a link leads to is that library in every version
that ships the path. `Homed`: a target links and holds sonames of its own.
`Handed`: a path that versions of two packages ship is in every batch with either
of them, and neither may be removed. A batch that moves a path from one package to
another and is killed once the other's record is written leaves both with it, and
updating the one alone, to a version without the path, prunes the other's file.
`KeptBack`, of a removal that finished: no file of a preserved record went
with it. `Singular`: a soname is of one package, in one file. Every batch of the runs
satisfies `SameTarget` and `ConfigsPlain`; those of `tx_kill`, one of which moves a
config from one package to the other, are `Handed`; those of `tx_upgrade` satisfy
`Conventional`, `Homed` and `Singular`, and every removal `tx_upgrade` reaches is `KeptBack`, among
them some next to a preserved record.

Each proof is an invariant that says what holds at each phase of a transaction,
and the argument that only the process past the lock acts (`InsideOrOut`):

* `WholeInv` (in `NoHalfRecord`): the one directory without a manifest is the
  job's being written or the record's being forgotten.
* `MetInv`: in the middle of an apply the deps of what is in may be jobs still
  to come, which the plan saw to; in the middle of a removal only the records
  that stay have theirs.
* `SparedInv`: what a step may write is in the batch's old or new files, and by
  the plan's check over every record, with `ExclInv`, no other record has one.
* `EditInv`: what apply remembers of the records when it began is what decides
  who is skipped, and until prune is through a config is either in `skip`, not
  yet extracted or as shipped; `was` and `base` stay true of what was edited.
* `LayInv` and `OwnInv`: which jobs have files down, records written, old files
  pruned. `OwnInv` needs `LayInv`: that unlink leaves a file which is not what was
  recorded (`Drop`) orphans nothing only because what a record claims is there.
* `TangledInv`: where no apply is running, a path that a record and a preserved record
  both claim is tangled, so of what a record claims gc unlinks nothing else. `LayInv` and
  `FreshInv` exempt these paths and no others.
* `FreshInv`: every library a manifest names is in its provides, job by job, and
  a forced takeover leaves them both or neither.

* `LibInv`: of an install, that each soname an old version carried is in the new
  provides, shipped by the batch or kept back with every link of that version
  that leads to it (`Keeping`), so where the loader looks there is still a file
  (`InstallLoads`); of a gc, that what it takes is opened for no soname an
  installed file links (`Free`); of a removal, the records it set out to remove as
  they were then and that `held_by` let a library that something else links go only
  because a preserved record answered for it (`Story`).
* `MarkInv`: of each job that is down, that a library which lost exports against the
  one before it has its row in `broke` (`Compared`), of each that was looked at for
  what to keep, that a soname which is not carried has one (`Missed`) and so has
  each library that is kept (`Copied`). At the end `LoadedFrom` finds the record
  and the archive a lost symbol came from and `LoadedNow` what the loader opens
  now, which `baseline` compared.

* `StandInv`: what a record claims is what some version of its package ships
  (`Mine`), so is what the transaction found; what a batch has laid is not its to
  prune (`Lasting`), and only a removal that was asked for takes the rest
  (`Asked`). Nothing is said of which record is whole or whose file is whose, so a
  kill anywhere leaves it true; where a path is shared, `Handed` does the rest.

`Returns` is liveness and stays with TLC.

### Left out of Transaction

Directories and hard links, users, setuid and modes, hooks, the world file
(which is `Planner`'s), class layouts, more than one library directory per
target. Batches in which two jobs ship one path.
Dry runs. Text formats are taken as what they say.

Behaviour met while modelling that no run shows, at its line:

* `apply` filters what the batch ships out of the preserved record and notes its
  length after that (install.rs:235), so a record that only got shorter is never
  written. A package that takes its path back shares it with its own preserved
  record, and gc deletes the file when nothing links it: install, upgrade,
  remove, install again, gc. The stale record also answers `held_by` for a file that
  is about to go: remove that package while another one links its library and
  does not depend on it, and the other is left without (hence `KeptBack`).
  install.rs:229 says that "the record stops claiming it". `tx_upgrade` and
  `tx_force` reach it with five commands: `tangled` has the paths such an install
  leaves to both records, `Faithful` and `ProvidesFresh` exempt them and no others;
* a batch that moves a library, at its path, from one package to another compares it
  with nothing, since `baseline` looks at the old version of the job that ships it,
  and keeps nothing back, since the path is shipped (install.rs:321): who uses a
  symbol that went with the move is not queued (hence `Singular`);
* each file of a record is put at once, the record is not (db.rs:317). A kill
  between its directory and its manifest leaves something `installed` lists and
  `read` refuses, and every later install stops there. In `tx_kill` a process
  that meets one goes no further;
* `deps` asks whether any job of the batch has the dep's name and not whether it
  is for the same target (install.rs:103), so a batch over both tiers can leave
  a package without its dep. The batches of `tx_upgrade` have one target each;
* a forced takeover killed between the new manifest and `dispossess` leaves two
  records with one file, and a later removal or prune of the one deletes the
  other's. `--force` also lets a package in without its deps, and a forced
  takeover of a library by the other tier queues nobody;
* a kill between manifest and provides leaves the old provides for good;
* a preserved copy is not any record's file, so another package may ship its
  path, and gc may later delete it;
* a forced batch with two jobs that ship one path takes it from both;
* after a kill between two records of a batch that moves a path from one
  package to the other, upgrading the first alone prunes a path the second owns;
* orphans a kill leaves in the middle of a prune or of gc stay for good;
* a soname that changes at an unchanged, unversioned path is compared under its
  new name, and what linked the old name is not queued;
* a package that goes away and comes back with an older library of the same
  soname is not compared with the preserved copy;
* removing a package leaves an edited config with no owner, and installing the
  package again writes over it;
* an edit between the scan that found a config unedited and the rename that
  replaces it is lost;
* rows are enqueued after the records are written, so a kill in between loses them.

## RootPair

| variable | code |
| --- | --- |
| `there`, `tree`, `uuid`, `parent` | the subvolumes `@root-a` and `@root-b`; a tree is the installs it holds |
| `on`, `order` | what is mounted at `/`, and BootOrder's entries |
| `taken`, `mounted` | `/run/kiry/fallback`, and whether `/run/kiry/top` is mounted |
| `lock` | the writer lock |
| `landed` | the installs of this boot that wanted a fallback first |

`Settle` to `Mark` are `settle`, `fled`, `fallback` and `snapshot` in the order
of their calls, each step one command or file; `Fail` is a btrfs that fails and
`Kill` a process that dies, which leaves the mount behind. `Commit` and
`Rollback` move one entry to the front. `Reboot` takes the first entry or any
other, since the menu is a person's, and empties `/run`. `Settle` chooses
freely whether an install is risky, which covers `--live` and whatever `route`
finds. Mounting the filesystem twice at one place fails, as the kernel does it.

* `pair`: one process, 4 installs, 3 reboots, 2 kills or failures, 600k states.
  `Proven`: while the marker is there, so is the other root, with nothing in it
  that a risky install of this boot added. `Covered`: no install that wanted a
  fallback lands without one. `OnlyFallbacksGo`: what a process deletes was
  taken as a fallback of the running root. Three reboots are home, fallback,
  home again and once more; four installs give each a risky and a plain one.
* `pair_race`: with two processes `NeverSwapped` fails. `settle` runs before
  the writer lock is taken, so the second can look for the marker before the
  first left it and take its snapshot after the first has installed.

`RootPairProofs`, from `RootAssumption` (two roots):

* `HomeNeverGoes`, `Spec => OnlyFallbacksGo`, for any number of processes. The
  invariant (`KinInv`): two roots that exist came from one another, a new
  subvolume's uuid is fresh, and once a process is past `fled`, or the marker is
  there, the running root is not a snapshot of the other. That is why the
  check may be as far from the delete as it is: another process can only have
  made the other root a snapshot of this one.
* `FallbackProven` and `InstallsCovered` for one process at a time (`Alone`),
  which `pair_race` shows to be needed. The invariant (`HeldInv`) numbers the
  installs and says that the way through `fallback` is only taken without the marker.
* `TypeCorrect`, `Spec => []TypeOK`, which says more than types: the root that
  runs is one that exists, which rests on `KinInv`, and BootOrder keeps exactly
  one entry for each of the two through commits and rollbacks (`OrderTwo`).

Not guarded by the code, and not properties here: what was done on a fallback
is lost when home is booted and takes a new one; a mount a kill left makes every
risky install of that boot fail; with the other root first in BootOrder, a power
cut between delete and snapshot leaves no root that boots by itself.

## Builds

| variable | code |
| --- | --- |
| `lock`, `fd`, `has` | the file `stage/<pkg>-<ver>-<rev>.lock`, the one a process opened, and its `flock` |
| `stage`, `part`, `art`, `meta` | per target: the stage directory, the `.part`, the artifact and the sidecar's files |
| `recipe`, `flags` | the recipe directory and `/etc/kiry`, by edits |
| `hash`, `f` | what a build read of them as it began |
| `aged`, `doomed` | what gc may find six hours old, and what it decided to delete |
| `robbed` | history: the lock files gc unlinked while a process had them open, the stages it took from builds |

A lock file is a number, so unlinking it and making it again are told apart from
keeping it. A tree carries the build that made it, what it was made of and
whether all of it is there. `Claim` to `Sweep` are `build`: every target is
compiled before any is packed, every one packed before any lands, and a target's
sidecar is written file by file after its artifact was renamed. `Again` is a
round of dependency discovery. `Fresh` is `stale` as it is: a file that is not
in the sidecar says nothing. gc looks at the lock by asking for it shared, which
can refuse a build that asks at that moment (`Probed`).

* `builds`: two processes, three commands that may come six hours after the last
  one ended, one edit of the recipe or the flags, one kill, targets {musl} or
  {musl, gnu}, with the lock file of builds before it or without; 2.5M states
  with the processes symmetric. `OneBuilder`, `StageStands`, `LandsWhole` (an
  artifact only gives way to a whole one, and no sidecar stands beside none),
  `FreshIsCurrent` (without kills, for builds
  whose recipe was not edited under them). A build, one that ends badly and a
  third command that finds what it left are the stories here, and a gc that
  sweeps what an earlier one left while a build begins.

main.rs:738 says "one build of a package at a time", and gc is where the code does
not keep to it. gc asks whether the lock is held (main.rs:12139) and deletes by
name after it looked at all (main.rs:12148): a build that opens the lock file
before the sweep and has it or gets it (main.rs:749, 756) holds a file nobody
finds any more, the next build makes another, and two of them are in one stage
directory. The run reaches it (gc scans, a build claims, gc sweeps, a second build
claims). A build that begins after the scan and is compiling by the sweep loses
its stage directory the same way. `robbed` records both, and the four properties
say what holds up to that: two builds are in only where the lock file of one of
them is in `robbed`, and the other three hold while `robbed` is empty, through
every gc that gets to its scan or its sweep at another moment.

`BuildsProofs`, from `BuildsAssumption` (a target is not listed twice; no file
is none of the values a tree or a sidecar has), with a gc that may find anything
old at any time, each theorem with the invariants of those before it, which are
inductive while `robbed` stays empty:

* `BuildsExclude`: what a process has open is the lock file that is there, or one
  gc unlinked under it; of those with the same file open one has the lock.
* `WhatIsCompiledStands`: which targets of a list are compiled; one's compile
  deletes only its own directory, and no other process is in a build.
* `ArtifactsLandWhole`: only the holder of the claim writes a `.part`, so one
  `tar` is through with is whole as it is renamed, or gc took it; a sidecar is
  written only beside the artifact just renamed.
* `FreshStandsForNow`: flags go from `f` into every tree and into the sidecar;
  recipes only move on, so `hash` is no later than what a tree was made of, and
  that no later than the sidecar's recipe. Where the two are one and `stale`
  finds it to be that of now, so is the artifact's.

In `TypeCorrect` a stage or a lock that goes from under a build is one of the
cases.

Left out: the build itself, profiles and lto caches, fetching, gc of old
artifacts, sources and logs, the layout file. Not properties here: after a kill
in the middle of a sidecar, `stale` takes the artifact as good whatever the flags
are and an install finds no runtime deps in it; a recipe edited during a build
is recorded as what was built; an install that reads a sidecar while its
artifact is rebuilt finds half of it.

## Rebuild and BuildOrder

| variable | code |
| --- | --- |
| `recipe`, `inst`, `linked` | what a build would come out with, what is installed and what its files were linked against |
| `queue` | `db/<target>/rebuild` |
| `lines`, `before` | a package's `filter` and settings lines, and as `recover` found them |
| `proven`, `present` | deps its closure names beyond the recipe, and those that are in |
| `waiting` | the static `WAITING` |
| `pc`, `want`, `left`, `done`, `plan`, `at`, `failed`, `brought` | the locals of `rebuild_cmd` and `levels` |
| `level`, `todo`, `th`, `errs`, `art`, `waits` | the level it is in: the cursor of `parallel`, its threads, their errors, what they built |
| `stands` | history: what the bootstrap builds of this run that went in stand in for |

An ABI is a number: 0 is without the symbol its users want, 1 and 2 have it in
two sizes. `Begin` reads rows and what `doctor` finds, `PlanLevel`, `PlanBoot`
and `PlanDies` are `levels`, `StartLevel` skips what needs something that failed
in any order `longest_first` may have sorted the level in, `Take` to `Climb` are
the threads with `recover`, `Swap` to `Redone` the sequential retry of who
waited, `Collect`, `Apply` and `Drop` what goes in and what leaves the queue.
What is under the writer lock is one action. How a build of a package ends under
a set of lines is the constant `Outcome`.

`BuildOrder` says what all of this promises and nothing of how: a package is
built when everything its recipe lists of the others is in or has a stand-in,
never when one of those is stuck without one, its targets start together, and
it goes in once. `InOrder` is `BuildOrder`'s specification with `stage` defined
from `want`, `failed`, `plan`, `level` and `todo` (`StageOf`) and `standin` as
`stands`.

* `rebuild`: five packages on two tiers, a cycle that a bootstrap script opens
  and one that nothing opens, one package mended by a fix and a rung, one by
  nothing; two threads, two rebuilds, two recipes that move, one wait and one
  kill. `StaleQueued`: who links a library that moved has a row or is found by
  doctor, through failures, skips and kills. `Apart`: what a level changes is
  linked by nothing that is compiled beside it or is in already. `FilterHonest`: what built keeps the
  lines it built with, everything else has the lines it had. `InOrder`. `Ends`,
  under weak fairness of the rebuild's own steps and of each thread: they are
  steps of runnable threads that wait for no one but each other. Two rebuilds are
  the one that leaves something and the one that finds it.

`StaleQueued` holds in this run with `Beside = FALSE` and where nothing that
links a library without listing it is in one level with it. Met in the model
without these:

* an install of another kiry that queues a row for a package the running
  rebuild wants has it dropped at the rebuild's end (main.rs:9988), although the
  package may have been built before that install;
* a level is what lists nothing else of what is left, and a package may link
  what only its deps list. Say app lists mid and base, mid lists lib, app links
  lib, and base has queued app and lib but not mid: app and lib are one level,
  app is compiled against the lib that goes out with the same batch, `affected`
  leaves out what is in the batch, and its row is dropped. main.rs:9862 says of
  this place that each member of a level "links against what it will run with";
* `back` takes a row off the queue when the names that left are all exported
  again (main.rs:10141); the comment on it says such a consumer "was never going
  to break, whatever put them back". It asks for the name alone: an object that
  comes back in another size is a copy relocation of the old one in whoever
  linked it, `compare` calls that a change only against a library that still
  has it, and nothing queues the consumer again. With the ABIs 0, 1 and 2 of one
  library and three bumps TLC finds it; in the run a symbol comes back as it was;
* the skip goes through a level in longest-first order, so the first target of
  a package may be built before its other target is skipped, and what lists a
  member of a cycle whose article is skipped in the same level is built against
  its stand-in or skipped, by who is sorted first. main.rs:9842 says that what
  needs it "directly or through something skipped, is skipped rather than built
  against the old one"; `BuildOrder` therefore lets a stand-in serve for an item
  that is stuck;
* `recover` reads `WAITING` for all threads, so a build that fails beside one
  that waits is given up without its fixes.

`RebuildProofs` proves, from `RebuildAssumption` alone (what the constants are;
nothing is assumed of deps, cycles, outcomes or the number of threads):

* `TypeCorrect`, `Spec => []TypeOK`, with the fact that a level is one of the
  plan (`AtLevel`).
* `FiltersHonest`, `Spec => []FilterHonest`. The invariant (`ErrsInv`) is who
  may be where: a package on a thread has no outcome yet and is on one thread,
  what is still to be taken has none, and `errs` is empty between two levels.
  Without it a second thread could write the lines of a package that is through.
* `KeepsOrder`, `Spec => InOrder`: the initial states map to `BuildOrder`'s and
  every step to one of its steps or to none. `PlanInv` is what `levels` makes:
  each item has one place, a bootstrap pass comes ahead of it, and what a recipe
  lists is in an earlier level, as itself or as its stand-in. `RunInv` ties the
  run to it: a level is what is left of its place in the plan once the failed
  are out (`LevelInv`), what stood in earlier is in `stands` or failed
  (`StandInv`), and what a level builds has its deps in (`DepsInv`). The
  skip establishes `DepsInv`; the rest of a level changes nothing it reads.

Its last part proves that no row is lost. It takes `Beside = FALSE`, `OneSize`
(a symbol that leaves comes back as it was, as above) and `Foreign` (no package links its
own other target); the first two stand for what is met above.

* `RowsStay`: `StaleQueued` wherever `Apart` holds all along, whatever the deps,
  cycles, failures, waits and kills. The invariant (`QueueInv`) says that whoever
  needs a row has one even where doctor would find it too (`Queued`), that what
  a thread compiles against is what is installed as long as its level lasts
  (`SeenInv`), that what this rebuild has put in needs no row, since its rows are
  dropped at the end (`PlacedInv`), and that what stood in once is what its recipe
  says (`StoodInv`).
* `ListedLevelsApart`: `Apart` from the constants alone, where what links a
  library lists it and needs no stand-in or the library links nothing (`Listing`).
  The order of the levels, as `OrderInv` has it, does the rest: a library built
  beside its user has stood in before, from the same recipe.
* `ListedRowsStay`: the two together.

`Listing` is stricter than the run, in which a user reaches a library through
another one; there `Apart` is checked and `RowsStay` gives the rest. The liveness
`Ends` is only model-checked.

## Planner

| variable | code |
| --- | --- |
| `ver`, `cache`, `rec` | the version of each recipe, the artifacts, the records |
| `proven`, `star`, `last`, `tried` | `var/kiry/closure`: lines, the `*`, `<name>.last`, `<name>.pruned` |
| `world` | `etc/kiry/world` |
| `waiting` | the static `WAITING` |
| `pc`, `own`, `seeds`, `named`, `passes`, `plan`, `at`, `brought`, `waits` | the locals of `install` and `build_cmd` |
| `todo`, `run`, `rounds`, `err` | the level: the cursor of `parallel`, builds that run, their rounds, the first error |
| `made`, `swept` | history: builds of each package in this command, as its stand-in (a bootstrap pass) and as what it is, and whether it ended with a `leave` |

A build is known by what it looks for: `Looks` is what it dies without, in the
order it gets there, `Probes` what it does without, `Ships` what a package
answers, `Guess` who an index or a name says answers it, rightly or not.
`NotStaged` to `Lands` are the rounds of `build`: `Disprove` takes back what did
not help, `Discover` adds who answers, `FallBack` takes every listed dep,
`More` stages what a probe asked for, `Lands` prunes what was not used. `Plan`,
`FirstTools`, `Batch` and `Done` are `install`'s loop; `Stays` is `leave` with the
rounds of `would_break`.

* `plan`: four roots (a first install with and without the toolchain, a root in
  use, a cycle of which both ends moved), two commands of i, b, r and wish, one
  recipe that moves, an edit of the world file, one kill, and another kiry that
  removes a name or two beside a build; 267k states. `NothingIdle`: after a `leave` that was
  not stopped by what it cannot read, what is installed is the least set that
  has what was asked for and is closed under records, dlopens and what files
  run; `plug` has a file it cannot read. `NoneBroken`: no leave
  and no unforced removal takes what a file that stays runs (`r --force` does not
  ask, main.rs:8662).
  `Progresses`: nothing is built twice in one command, as what it is or as its
  stand-in, however often it is planned again, and that ends before the cut-off. It
  counts the two apart, since a package of a cycle may be built once as each
  (main.rs:9435), and does not say that one built as a stand-in is built again. `Earned`: a line of a closure
  is one the build got further with, or the one its next round judges.
  The bounds `MaxRounds` 2, `MaxWaits` 2 and `MaxPasses` 8 stand for 60, 60 and
  500; `Progresses` shows that eight is not reached.

`PlannerProofs`, the first three from `PlannerAssumption` alone (the packages are
finite, a runtime dep is a listed one, a pool has a thread, and what the constants
are; nothing is assumed of deps, cycles, logs, guesses or roots), the others from
that and what they name, which `plan` meets:

* `TypeCorrect`, `Spec => []TypeOK`: types, and that a level never runs more
  builds than its width. The invariant (`PlanInv`) adds that `pc`, the builds
  that run and what is in hand fit together (`Shape`), and that what a batch is
  about to take in has an artifact (`Ready`): without that an install would put
  in a record of nothing.
* `NothingIdleStays`, `Spec => []NothingIdle`. `leave` is a loop that takes out
  what nothing holds, lets back in what a file that stays runs, and starts again
  from there. `StaysIs` says what it comes to: a set that has what was asked for,
  is closed under what records, dlopens and files need and, unless a file could
  not be read, the least of these. Nothing else makes `swept` true, and what
  changes records afterwards makes it false.
* `NoneBrokenEver`, `Spec => NoneBroken`: what `StaysIs` says is closed is what
  a leave may not break, and a removal asks `Holds` before it takes a record out. A
  batch only ever adds records or replaces them.

* `EarnedStays`, `GuessesJudged => (Spec => []Earned)`. The next round takes a
  guess back only if its log starts with the miss the guess was for, so this does
  not hold for every log: `discover` below gives the one where it fails.
  `GuessesJudged` is what is missing there: a guess that does not help is for the
  first thing its build misses, which nothing ships. `Judged` carries it: a line
  on trial is that of a package whose next build fails on the same miss again,
  whatever was installed or removed meanwhile.
* `RecordsStayWhole`, `RootsWhole => (Spec => []RecordsWhole)`: on a root where
  every dep of every record is installed, that stays so. A batch brings its
  packages' deps or is refused, a removal refuses what a record needs, and a
  leave is closed under records, whoever runs it.
* `BuiltOnceEver`, `RootsWhole /\ NoneOwn => (Spec => []BuiltOnce)`: once as what
  it is, once as its stand-in. What was built has an artifact that stands (`Counted`), so a plan does not ask for it
  again. The hard case is a build command: `bring` installs what its package is
  short of, which may need building, and if that needed the package itself it
  would be built by `bring` and then once more. `Barred` says why that is never
  so: what keeps the package out of reach is a set none of which is installed,
  where each that has no artifact needs another of them to be built, and no part
  of those that have one is closed without the rest. `RecordsStayWhole` gives
  that none of them is installed; without `NoneOwn` (a recipe that lists its own
  package) the set may be the package alone.

`Stays` and `Levels` are recursive functions. That they are defined where they
are used rests on `NoAscent` and `Climbs`: over a finite set nothing ascends for
ever, so a walk that adds what it reaches, or takes out what it settles, has an
end. `Least` (a set of naturals has a least member) carries both, since the
library's own induction cannot be cited here.

`Progresses` is `BuiltOnce` and that it ends before the cut-off. The second half
is only model-checked: it depends on how deep what a build learns can go, which
no assumption of the code bounds.

Every log that nothing answered counts as lacking something (`FallBack` has no
`lacking`, main.rs:1960); a noted probe that something installed answers adds
nothing (main.rs:1918); `Lands` may prune or not, as `unprove` may find no log of
headers (main.rs:1115); `--recover` and `r --force` are left out; a bootstrap build
works. Met here and not shown by a run:

* `discover` adds a dep for the first miss that anything answers (main.rs:1925),
  and the next round takes it out again only if that miss is the first of the log
  (main.rs:1911). A build that also dies of something nothing answers, further
  up, keeps a wrong guess in its closure, where tests/build.rs:5196 says "a dep
  that does not get the build past the failure it was added for comes back out".
  `plug` with the looks `nil` and `odd` shows it, and breaks `Earned`; in `plan`
  the first miss is the one that is guessed;
* both ends of a build cycle outdated: the second pass of the levels finds the
  bootstrap build in the cache (main.rs:7226) and leaves it in for the article,
  where main.rs:9435 says that a first pass is a stand-in and the article
  follows. The fourth root of `plan` is such a cycle; `Progresses`, which counts
  builds, is silent about it. `rebuild` builds it regardless;
* a first install of a cycle dies: the sandbox's closure of the bootstrap pass
  names the member that is not installed;
* `seed_world` takes what no record depends on, so two packages that need each
  other are in no seeded world and leave (main.rs:8775);
* `first_tools` walks what the recipe says a tool runs on and not the artifact's
  sidecar; `held_by` asks nothing about deps on the host.

## Sync

| variable | code |
| --- | --- |
| `tree` | the recipes of local, core, extra and testing |
| `feed` | the version an aport or a tracker has |
| `conv` | `var/kiry/converted/<name>`: `build`, `pending`, `testing` |
| `rows` | what a running sync still has to take, a set in the order of `at` (name, then repo) |
| `accepted` | history: the conversions a person has taken |

A build file is its header assignments, the version they or its body name, its
other lines and the files beside it. `Sync` is the survey with `seed`, `Bump` one
row of it: held in testing/ by policy or by `carry`, restamped, converted and
promoted; a row that fails is a conversion that fails. `Promote` and `Edit` come
between two rows since sync takes no lock. `Compare` and `Level` work on a
version's parts. What alpine's recipe converts to is the constant `Alpine`.

* `sync`: a core recipe that numbers by scheme and shares a patch with alpine,
  an extra one, a tracked local one in a group; two moves forward or back, three
  syncs, one act of a person; 333k states. `ReadFirst`: sync promotes by itself
  only a conversion whose build a person has already taken. `OwnStays`: lines,
  deps, directories, hold and patches of the tree go through every bump. Three
  syncs are the one that seeds, the one that holds and the one that promotes.
* `sync_policy`: `PolicyKept` fails. `survey` walks testing/ too, and the policy
  is asked for the step from the version that waits there, so two steps that
  are each allowed put in one that is not.

`SyncProofs`, from `SyncAssumption` (each name has a recipe at first, in the
shape of one) and what each theorem names, for any packages, versions, pins,
policies, groups, conversions and number of moves, syncs and acts:

* `TypeCorrect`, `Spec => []TypeOK`. Behind it are the shapes of the tree and of
  what is converted (`TreeOK`, `ConvOK`) and that a row a sync has is of a name
  and a version there is (`RowOK`).
* `OwnKept`, `Spec => OwnStays`, where alpine's patches and the tree's own have
  different names (`OwnNames`) and a recipe with a tracker has no directories
  beside it (`TrackedFlat`: `restamp` copies none, and with one `OwnStays`
  fails). The step is `BumpOwn`: a promoted bump was settled, so `carry` found
  every assignment of the tree's in the conversion and took the body from the
  tree (`CarryOwn`). The invariant, `FlatInv`, only keeps `TrackedFlat` true.
* `ReadBeforePromoted`, `Spec => ReadFirst`. `ReadInv` says of every package of
  aports: the recipe in force and, once there is one, the baseline are things
  somebody took (`accepted`); until there is one, what waits and every row to
  come are later than the recipe in force (`Ahead`); what waits has its
  conversion in `pending` (`Beside`); one repo has the name (`OneHome`). `Ahead`
  is what `seed` needs: a bump at alpine's version that waits is a row of the
  survey too, and the row of the recipe in force is then behind and keeps the
  baseline from being written (`SyncRead`). `promote` moves `pending` and the
  recipe at once (`PromoteRead`), an edit changes no version (`EditRead`), and a
  bump promotes what equals the baseline or leaves it in testing (`ConvertRead`).

  Its hypotheses are where the code keeps the promise. `Orders`: versions that
  compare are transitively ordered and equal only to themselves. `Opening`:
  nothing waits at first and one repo has each name. `Followed`: no pin keeps an
  aport's recipe from following alpine, or its bumps come from a tracker, which
  has no build to read. `AllKept`: what `extra` has is installed. The constants
  of `sync` satisfy all of these and those of `OwnKept`. Leaving out `AllKept`
  breaks `ReadFirst`, as the first point below says.

That `PolicyKept` fails needs no proof. `ReadInv` and `FlatInv` were invariants
of `sync` before they were proved.

Left out: `-n`, refreshing gentoo and apkindex, the baseline of `depends` and
its notes, carry's errors on malformed files, conversion rules that change,
moves of the pkgrel alone. Met here and not shown by a run:

* `seed` passes over a name with a row that is behind, since seeding from the
  bump that waits "measures the bump against itself, finds nothing moved, and
  promotes it unread" (main.rs:11381-11383). But a survey of everything leaves
  out an `extra` recipe that is not installed (main.rs:10546) and not its bump in
  testing/. After `sync b`, which holds 1.3 for a reading, a plain `sync` sees
  one row of `b`, the one in testing/, and seeds from it, and the next `sync b`
  finds nothing moved and promotes it. `sync` with `Kept = {}` shows it. The same
  comes of a recipe in force that does not compare with alpine's version, which
  is "unknown" and not behind.

The proof found that one: without `AllKept` the invariant is not inductive. The
others: `restamp` copies
top-level files only; a group is half promoted when its first member goes in;
"edited since sync wrote it" compares `build` alone (main.rs:10749), so a dep
edited in testing/ is thrown away; a local recipe without a pin that shadows an
extra one is promoted over; `settled` does not look at deps that moved
(main.rs:10890); a kill between the rename of a conversion and its `pending`
leaves the raw conversion as the baseline; `version_in` takes the first of
equals in the order of the page.

## Trace

| variable | code |
| --- | --- |
| `proc`, `now`, `libc` | the kernel's processes, the clock both buffers are stamped with, libc's inode |
| `asks`, `execs` | `instances/kiry`, entries and returns of dlopen; `instances/kiry-exec`, forks and execs |
| `armed` | the inode the probes are on |
| `carried` | `run/kiry/lineage` |
| `seen` | `var/kiry/seen` |
| `lock`, `rd` | the `flock` on the lineage, and each reader's locals |
| `lost`, `taken` | history: events no reader will have, or not know for what they were, and the latest a reader had of each pid |

`Fork` to `Return` are the kernel; the exec buffer overruns at `ExecCap`.
`Take`, `DrainAsks`, `DrainExecs`, `Arm`, `Walk`, `ReadSeen`, `WriteSeen` and
`Finish` are `observe` in its order; `Arm`, when libc is another inode, empties both
buffers, as the kernel does when events are taken away or a clock is set
(main.rs:8121, 8137, 8140). `Exec` has the file, the script argv names and what is
left of that line when the reader has it: it is an event of its own, before the
exec's, and does not survive a drain between the two, or an overrun (main.rs:8191). `Lineage` is the fold over the merged
events, `Mapped` what `/proc/<pid>/maps` has that no DT_NEEDED explains
(`Dlopened`). A program stands for the package that owns it; a script has one
interpreter, so `#!/usr/bin/env python3`, which names two, is left out.

* `trace`: a shell, a script it interprets and kiry, whose build runs either, from a
  shell of which nothing was carried, one carried with a script that is gone, or a
  script that goes on;
  two pids, two readers, three events, two reads, and one of an overrun of two
  events, a kill or a new install; 2.2M states with the readers symmetric.
  `Attributed`: a program is credited with what it asked for itself and with
  nothing a build ran, though the buffers are read one after the other and pids
  come again. `Heard`: a read that ends has written down all that a read of both
  buffers at one instant, when it took the lock, would have. Three events are a
  fork, an exec and a dlopen, or a pid that comes again.

Left out: the slack of USER_HZ, a thread's exec, a maps file read while it
changes. An argv that names a script the program does not run (`vim foo.py`). `Attributed`
leaves out askers whose own lines are `lost`: to an overrun, a killed reader or `Arm`;
an exec whose argv line went; a script that ran its interpreter on something else;
and what comes of a build's process that was gone when a read was written down,
which the proof's invariant turned up. Met here and not shown by a run:

* a script that runs its own interpreter on something else (`foo.py` that execs
  `python3 other.py`, or `python3 -c`) stays the script for `lineage` (main.rs:8267),
  and what the other one asks for is credited to it. `Exec` puts the event in
  `lost`; without that TLC finds it in `trace`;
* an exec between the drain of its buffer and `Arm` is thrown away, and what is
  opened after it is credited to the program before. Without `Arm`'s addition to
  `lost` TLC finds it in `trace`;

* only what still runs is carried to the next read (main.rs:8435), and so is what
  is known for a build's. A process of a build that forks or execs after the exec
  buffer was drained, and is gone before the lineage is written, leaves events to
  a read that knows nothing of it, and what it ran is taken for an ordinary
  program's, where main.rs:8252 says "what a build runs is the recipe's business,
  not a dep of make's". Without `Walk`'s addition to `lost` TLC finds it in `trace`
  with more events: kiry's child is drained, execs twice and exits before the
  walk, and the second read credits the first of the two with the second;
* a process from before the probes that dlopens and then execs is credited as what
  it became; so is a dlopen between the two drains followed by an exec;
* a dlopen of the old build that was still in the buffer is written back after an
  install took the file away, where main.rs:7996 says the new build has to be
  seen again;
* a kill between drain and put leaves a stale lineage.

`TraceProofs` proves `TypeOK`, `Attributed` and `Heard` for any processes, readers,
programs, libraries, events and kills, with no assumption but `TraceAssumption`.
`Attributed` says nothing of how it comes about; the invariant under it (`IInv`)
does:

* `Stamped`: no two events have one stamp, and what a reader holds is older than
  what is still in the exec buffer, asks included once it has taken both;
* `Follows`: the events no walk has had yet (`Pending`) and what is carried say of
  each process what it is now, of the process behind each event what it was then,
  and of an asker what it was when it asked: its latest fork or exec says it, or
  what is carried of its number where there is none (`Tells`), unless an event of
  its line is lost. An exec that is not lost says what runs, and of a script's
  interpreter that it runs the script (`Plain`, `Argued`). What is a build's and has no event is carried as one (`Marks`);
  this is the part the gone process above breaks;
* `Calling`: the calls open in the buffer are the latest of their process, so a
  return is paired with the entry it belongs to, also behind an arm that threw the
  entries away;
* `Maps`: a process maps what its program needs and what it asked for, so that
  `Dlopened` finds nothing else.

`Knows` carries `Follows` through the steps of `Lineage`, and `WalkAll` to what is
carried on. The recursive functions are reached by `Recursion` and `UpTo`, from
`Least`.

`Heard` compares two walks, the one the read at one instant would have made and the
one the reader makes two drains later, of more events. It needs two more conjuncts,
which TLC finds in every state of `trace`:

* `Singles`: no two dlopens have one stamp, so that each has its step of the walk;
* `Owes`: until the walk, a dlopen that is owed is among those it will have, and the
  reason its asker is known is among the events: what was carried, or an exec, and
  the forks from there (`HeardOf`). After it the name is to be added or in the file,
  and what a reader has read of the file is what is there.

An overrun keeps `HeardOf` while nothing of the asker's line is lost, and so does
leaving to the next read what is younger than every dlopen that was drained (`Ahead`,
`HeardStill`); what `Arm` throws away is lost, with all that follows from it
(`OwesDropped`, `DueStill`). What is known for a reason a walk knows (`HeardWalk`, `WalkHeard`), and
by `Follows` it knows it for the right program. Arming before the drains, which the run's
mutant does, breaks `Owes` where it breaks `Heard`: a dlopen that is owed is gone.

## Flags

| variable | code |
| --- | --- |
| `file` | `/etc/kiry/config`, the package's settings, its recipe's `filter` |
| `art`, `rec` | the flags in the artifact's sidecar, with the recipe's hash, and in the record |
| `row`, `scan` | the flags row on the queue, and what `flags --queue` found and has not written |
| `cmd`, `pc`, `fl`, `had`, `kept`, `tried`, `rung` | the command that builds, and the locals of `build`, `recover` and `bisect` |
| `ended`, `touched`, `asked` | history: how the last command ended, whether a person wrote meanwhile, and the flags that resolved as a command last found the artifact cached |

`Resolve` is the resolution of flags over one target, `Filtered` filter's verbs.
`Noted`, `Stuck`, `Unstuck` and `Unrung` are what writes into the two files and
takes out of them. `Succeeds`, `Fix`, `Climb`, `Fails` are `recover` and
`bisect`, `Check`, `Apply` and `Drop` the rest of install and rebuild. Where all of
the set is cached, install asks once, at the start (main.rs:7167); else `Check` asks
after the builds (7258, 9940). In between comes the wait for the writer lock, and
`Apply` does not ask again (7172-7182, 7282, 9948).

* `flags`: a package on a box with thin LTO and a march, whose files have a
  rung, a fix and a stuck note of old days, and whose build fails in every way
  the table and the ladder know; two commands, two edits, one kill; 202k states.
  `NotesHonest`: nobody's line is lost but a rung's, a command that ends stuck
  leaves the files as it found them, and bisect-flags takes out the ladder's and
  nothing else. `Settled`: an artifact is fresh as it lands where nobody wrote while it was
  built, what goes in is recorded with the flags that resolved as the command last
  asked whether it is cached, and a row leaves the queue only where record and flags
  agree, did when `flags --queue` looked, or a person wrote meanwhile. Two commands are one that writes and one that
  finds it.

CXXFLAGS go with CFLAGS, gentoo's conditions are the set `Declared`, illegal
lines are not written, a person only appends, `WAITING` is `Rebuild`'s. Met here
and not shown by a run:

* the stuck note goes into `filter`, which is in the recipe's hash, so a good
  artifact of before reads "recipe changed"; `bisect` puts back only files that
  existed (main.rs:3386), where the comment above says exactly;
* a rung whose line is shadowed predicts a change and writes nothing, and the
  same flags are built once more (main.rs:3315);
* an edit during `recover` is overwritten by its undo; an edit during a build
  makes what lands stale at once, and install dies with "built nothing";
* a person who deletes a rung's line leaves its head, and `unrung` takes the
  next bare line; `Headed` keeps the files the model begins with from it, and
  persons who only append cannot bring it about;
* a flags row written while a rebuild runs is lost like the row of an install;
* an edit in the wait for the writer lock, after the last question whether the
  artifact is cached, leaves a record that is stale as it is written; `Settled` says
  that no other edit does.

`FlagsProofs` proves `NotesHonest` and `Settled` for any three files, edits, ladder,
failure table, outcomes of builds and kills, from `FlagsAssumption`: the files are
lines, people write settings of their own, and in the files there are at first a
rung's head stands above its line, or above the head of a fix, as it does when a
person deleted the line before recover wrote (`Headed`). Without it `unrung` takes
a person's line, as above. The one conjunct on strings is for the prover, which is
told of no literal that it is one.

The invariant (`IInv`) is that the texts stay `Headed`, whoever writes; that while no
person writes, what a build resolved as it began is what resolves now (`Current`);
that what recover found is what the command found, for bisect-flags less the rungs'
lines (`Found`); and that what is there has every line of people and fixes that was,
and after bisect-flags no rung but those climbed (`Adds`). TLC finds it in every
state of `flags`. What it rests on is said of texts line by line, by `TextInduction`,
which comes from the least number of a set: what is picked of a text by its lines
is picked of what was picked before, so that neither a setting nor a person's line
notices a stuck note (`UnstuckSettles`, `UnstuckKeeps`); and `unrung`'s walk holds
back at most the heads it has not yet judged, and lets each head go with its line
(`UnrungKeeps`). This is why `Only` and `Walked` are recursive functions: the
provers cannot look into the library's filters and folds.

## Plan

What is next, by what it would add:

1. Proofs: `NoneStranded` past a kill or a forced install, for which the records a
   kill leaves half written have to be described.
2. `Planner` over two targets, with `requeue_pruned` and `keep_list`, and its
   artifacts from `Builds`, so that an install takes from the cache what a build
   is landing.
3. Pure algorithms against reference definitions: path resolution below the
   root, the manifest's text format, the version splitter, the rule matcher.
4. `Transaction` with hard links, layouts and the archive's metadata checks.

## Not modelled

The bootstrap scripts (one-shot, pure I/O); the sandbox's namespaces, mounts and
seccomp filter (system calls with no state of their own); reading archives, ELF,
recipes, APKBUILDs, logs, HTML pages, the output of efibootmgr and btrfs, and
regular expressions (text in, value out: the models take the value); fetching;
hooks, users and setuid; pruning of proven deps by `requeue_pruned` and
`keep_list`; class layouts; gc of old artifacts, sources, logs and caches;
estimates and terminal output.
