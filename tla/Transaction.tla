---------------------------- MODULE Transaction ----------------------------
(* What changes an installed root: `kiry i` on a batch of archives, `kiry r`
   and the preserved pass of `kiry gc`, each under the writer lock, with the
   user editing configs and a kill between any two durable steps.

   Sources: kiry-core/src/install.rs (plan, apply, remove), kiry-core/src/db.rs
   (the records) and the callers in kiry/src/main.rs.

   A file is a member of Content: the model only asks of it what the code asks,
   whether it is a symlink and to where, and what its ELF headers say. A record
   is its depends line and its manifest; version, flags and users ride with
   depends. Directories and hard links are left out, and every library of a
   target sits in one search directory, so install::reaches always holds. Every
   package was asked for by name, so the world file holds them all and the
   `leave` that ends an install or a removal finds nothing to take. No library
   carries class layouts, so queue_layouts adds no row. *)
EXTENDS Naturals, Sequences, FiniteSets

CONSTANTS
  Proc,        \* kiry processes working on one root
  Path,        \* paths of non-directory files
  EtcPath,     \* the paths under etc/
  Content,     \* what a file or symlink can hold
  Edits,       \* contents only a user writes
  Info,        \* Info[c]: what opening a file holding c says
  Soname, Symbol,
  SoAt,        \* SoAt[s]: where the loader looks for soname s
  DL,          \* dlsym, dlopen and their like: elf undefineds that can reach any name
  Mangled,     \* symbols a compiler chose, which nobody looks up by name
  Name, Target,
  Archive,     \* the built artifacts
  Batches,     \* the sequences of archives a user may install at once
  Ops,         \* which commands are run, of {"install", "remove", "gc", "edit"}
  Removable,   \* the names a user may remove
  Forcing,     \* the values --force takes
  MaxOps,      \* commands begun in a behaviour
  MaxKills,    \* kills in a behaviour
  NoEntry, NoRecord, NoProc

Key == [name : Name, target : Target]
Manifest == [Path -> Content \cup {NoEntry}]
Row == [target : Target, soname : Soname, changed : SUBSET Symbol]
Queued == [target : Target, name : Name, soname : Soname, changed : SUBSET Symbol]
Nothing == [q \in Path |-> NoEntry]

ASSUME ConstantsAssumption ==
  /\ NoEntry \notin Content \cup Path \cup Soname
  /\ NoRecord \notin Manifest
  /\ NoProc \notin Proc
  /\ EtcPath \subseteq Path
  /\ Edits \subseteq Content
  /\ Info \in [Content -> [link : Path \cup {NoEntry}, soname : Soname \cup {NoEntry},
                           needs : SUBSET Soname, exports : SUBSET Symbol,
                           undefined : SUBSET Symbol]]
  /\ SoAt \in [Soname -> Path]
  /\ DL \subseteq Symbol /\ Mangled \subseteq Symbol
  /\ Archive \subseteq [name : Name, target : Target, depends : SUBSET Name, ships : Manifest]
  /\ Batches \subseteq Seq(Archive)
  /\ Removable \subseteq Name
  /\ MaxOps \in Nat /\ MaxKills \in Nat
  /\ Forcing \subseteq BOOLEAN

KeyOf(j) == [name |-> j.name, target |-> j.target]

\* one archive per package and target in a batch, which is all the planner ever hands over
ASSUME BatchAssumption ==
  \A b \in Batches : /\ Len(b) > 0
                     /\ \A i, j \in 1..Len(b) : KeyOf(b[i]) = KeyOf(b[j]) => i = j

VARIABLES
  disk,       \* the root's files
  dirs,       \* the packages that have a record directory
  depends,    \* the depends file of each record
  man,        \* the manifest file of each record, NoRecord where there is none
  prov,       \* the provides file of each record
  preserved,  \* the preserved record of each package
  queue,      \* the rebuild queue
  lock,       \* who holds usr/lib/kiry/db/lock
  pc, op, batch, force,   \* per process: where it is, its command and arguments
  at,         \* the job of the batch it is on
  was, base,  \* the manifests and the files as the transaction found them
  skip, todo, \* the paths not to write over, the paths still to visit
  kept, broke,\* what the batch keeps and what it broke
  going,      \* the records a remove or a gc still has to visit
  begun, kills,
  tangled     \* history: the paths an install left in a record and in a preserved record both

db == <<dirs, depends, man, prov, preserved>>
locals == <<op, batch, force, at, was, base, skip, todo, kept, broke, going>>
counts == <<begun, kills, tangled>>
vars == <<disk, db, queue, lock, pc, locals, counts>>

----------------------------------------------------------------------------
(* Reading files and records. *)

IsLink(c) == c # NoEntry /\ Info[c].link # NoEntry
IsFile(c) == c # NoEntry /\ Info[c].link = NoEntry
Own(m) == {q \in Path : m[q] # NoEntry}
Restricted(m, S) == [q \in Path |-> IF q \in S THEN m[q] ELSE NoEntry]
Readable(k) == man[k] # NoRecord
Installed(t) == {k \in dirs : k.target = t}
Keys(b) == {KeyOf(b[i]) : i \in 1..Len(b)}
Ships(b) == UNION {Own(b[i].ships) : i \in 1..Len(b)}

\* install::scan, kept to the regular files of a manifest that still are files
Seen(m, d) == {q \in Own(m) : IsFile(m[q]) /\ IsFile(d[q])}
Libraries(m, d) == {q \in Seen(m, d) : Info[d[q]].soname # NoEntry}
Provides(m, d) == {<<Info[d[q]].soname, q>> : q \in Libraries(m, d)}

\* install::modified: a regular file that no longer hashes to its entry
Modified(m, d) == {q \in Seen(m, d) : d[q] # m[q]}

BaselineByPath(old, d, q, s) == {d[r] : r \in {q} \cap Libraries(old, d)}
\* install::baseline: the library a new one at q is compared with, if one can be named
Baseline(old, d, q, s) ==
  LET libs == Libraries(old, d)
      same == {r \in libs : Info[d[r]].soname = s}
  IN  IF q \in libs THEN {d[q]}
      ELSE IF Cardinality(same) = 1 THEN {d[r] : r \in same} ELSE {}

\* a record as apply found it, empty where there was none
Old(p, k) == IF was[p][k] = NoRecord THEN Nothing ELSE was[p][k]
Job(p) == batch[p][at[p]]

\* doctor's resolve, over what the records in ks and the preserved ones of t claim
Claims(ks, t) ==
  {man[k] : k \in {l \in ks : l.target = t /\ Readable(l)}}
    \cup {preserved[k] : k \in {l \in Key : l.target = t}}
Resolves(ms, d, s) ==
  \E m \in ms : LET q == SoAt[s] IN
    \/ q \in Seen(m, d)
    \/ IsLink(m[q]) /\ \E n \in ms : Info[m[q]].link \in Seen(n, d)
Breaks(gone, k) ==
  \E q \in Seen(man[k], disk) : \E s \in Info[disk[q]].needs :
    /\ Resolves(Claims(dirs, k.target), disk, s)
    /\ ~Resolves(Claims(dirs \ gone, k.target), disk, s)

----------------------------------------------------------------------------
Init ==
  /\ disk = Nothing
  /\ dirs = {}
  /\ depends = [k \in Key |-> {}]
  /\ man = [k \in Key |-> NoRecord]
  /\ prov = [k \in Key |-> {}]
  /\ preserved = [k \in Key |-> Nothing]
  /\ queue = {}
  /\ lock = NoProc
  /\ pc = [p \in Proc |-> "idle"]
  /\ op = [p \in Proc |-> "none"]
  /\ batch = [p \in Proc |-> << >>]
  /\ force = [p \in Proc |-> FALSE]
  /\ at = [p \in Proc |-> 1]
  /\ was = [p \in Proc |-> [k \in Key |-> NoRecord]]
  /\ base = [p \in Proc |-> Nothing]
  /\ skip = [p \in Proc |-> {}]
  /\ todo = [p \in Proc |-> {}]
  /\ kept = [p \in Proc |-> {}]
  /\ broke = [p \in Proc |-> {}]
  /\ going = [p \in Proc |-> {}]
  /\ begun = 0
  /\ kills = 0
  /\ tangled = {}

Goto(p, l) == pc' = [pc EXCEPT ![p] = l]
Set(f, p, v) == [f EXCEPT ![p] = v]

ReleasedOnSuccess(p) == IF lock = p /\ pc[p] = "done" THEN NoProc ELSE lock
Released(p) == IF lock = p THEN NoProc ELSE lock

\* the process exits: its locals are gone and the kernel drops its lock
Exit(p) ==
  /\ Goto(p, "idle")
  /\ lock' = Released(p)
  /\ op' = Set(op, p, "none") /\ batch' = Set(batch, p, << >>)
  /\ force' = Set(force, p, FALSE) /\ at' = Set(at, p, 1)
  /\ was' = Set(was, p, [k \in Key |-> NoRecord]) /\ base' = Set(base, p, Nothing)
  /\ skip' = Set(skip, p, {}) /\ todo' = Set(todo, p, {})
  /\ kept' = Set(kept, p, {}) /\ broke' = Set(broke, p, {})
  /\ going' = Set(going, p, {})

Begin(p, o) ==
  /\ pc[p] = "idle" /\ o \in Ops /\ begun < MaxOps
  /\ begun' = begun + 1
  /\ op' = Set(op, p, o)
  /\ Goto(p, "lock")
  /\ UNCHANGED <<disk, db, queue, lock, at, was, base, skip, todo, kept, broke, kills, tangled>>

BeginInstall(p) ==
  \E b \in Batches, f \in Forcing :
    /\ Begin(p, "install")
    /\ batch' = Set(batch, p, b) /\ force' = Set(force, p, f)
    /\ UNCHANGED going

\* the names typed, turned into records once the lock is held
BeginRemove(p) ==
  \E ns \in (SUBSET Removable) \ {{}}, f \in Forcing :
    /\ Begin(p, "remove")
    /\ going' = Set(going, p, {k \in Key : k.name \in ns}) /\ force' = Set(force, p, f)
    /\ UNCHANGED batch

BeginGc(p) == Begin(p, "gc") /\ UNCHANGED <<batch, force, going>>

\* flock(LOCK_EX): held by one process, a second waits
Lock(p) ==
  /\ pc[p] = "lock" /\ lock = NoProc
  /\ lock' = p
  /\ Goto(p, CASE op[p] = "install" -> "plan" [] op[p] = "remove" -> "check" [] op[p] = "gc" -> "gc")
  /\ UNCHANGED <<disk, db, queue, locals, counts>>

----------------------------------------------------------------------------
(* kiry i: plan, then apply one job at a time. *)

CollidesOnTarget(b) ==
  \E i \in 1..Len(b) : \E k \in Installed(b[i].target) \ Keys(b) :
    Readable(k) /\ Own(man[k]) \cap Own(b[i].ships) # {}
\* install::paths: a path someone outside the batch owns, or two jobs ship
Collides(b) ==
  \/ \E k \in dirs \ Keys(b) : Readable(k) /\ Own(man[k]) \cap Ships(b) # {}
  \/ \E i, j \in 1..Len(b) : i # j /\ Own(b[i].ships) \cap Own(b[j].ships) # {}

\* install::deps: a name neither installed on the job's target nor in the batch
Misses(b) ==
  \E i \in 1..Len(b) : \E d \in b[i].depends :
    /\ \A k \in Installed(b[i].target) : k.name # d
    /\ \A j \in 1..Len(b) : b[j].name # d

\* an unreadable record is an error paths and apply both pass on
Refused(p) ==
  \/ \E k \in dirs : ~Readable(k)
  \/ ~force[p] /\ (Collides(batch[p]) \/ Misses(batch[p]))

PlanRefuses(p) ==
  /\ pc[p] = "plan" /\ Refused(p)
  /\ Exit(p)
  /\ UNCHANGED <<disk, db, queue, counts>>

\* nothing is written before everything the batch replaces has been read
ApplyStart(p) ==
  /\ pc[p] = "plan" /\ ~Refused(p)
  /\ was' = Set(was, p, man) /\ base' = Set(base, p, disk)
  /\ Goto(p, "job")
  /\ UNCHANGED <<disk, db, queue, lock, op, batch, force, at, skip, todo, kept, broke, going, counts>>

SkippedOfReplaced(p) ==
  Modified(Old(p, KeyOf(Job(p))), disk) \cap Own(Job(p).ships) \cap EtcPath
\* the configs of any record that were edited are the ones extraction leaves alone
Skipped(p) ==
  (UNION {Modified(Old(p, k), disk) : k \in Key}) \cap Own(Job(p).ships) \cap EtcPath

JobStart(p) ==
  /\ pc[p] = "job"
  /\ todo' = Set(todo, p, Own(Job(p).ships))
  /\ skip' = Set(skip, p, Skipped(p))
  /\ Goto(p, "extract")
  /\ UNCHANGED <<disk, db, queue, lock, op, batch, force, at, was, base, kept, broke, going, counts>>

ExtractInPlace(p) ==
  /\ pc[p] = "extract"
  /\ \E q \in todo[p] :
       /\ todo' = [todo EXCEPT ![p] = IF disk[q] \in {NoEntry, Job(p).ships[q]} THEN @ \ {q} ELSE @]
       /\ disk' = IF q \in skip[p] THEN disk
                  ELSE [disk EXCEPT ![q] = IF @ = NoEntry THEN Job(p).ships[q] ELSE NoEntry]
  /\ UNCHANGED <<db, queue, lock, pc, op, batch, force, at, was, base, skip, kept, broke, going, counts>>
\* archive::apply for one member: made beside and renamed over, unless it is skipped
Extract(p) ==
  /\ pc[p] = "extract"
  /\ \E q \in todo[p] :
       /\ todo' = [todo EXCEPT ![p] = @ \ {q}]
       /\ disk' = IF q \in skip[p] THEN disk ELSE [disk EXCEPT ![q] = Job(p).ships[q]]
  /\ UNCHANGED <<db, queue, lock, pc, op, batch, force, at, was, base, skip, kept, broke, going, counts>>

\* elf::compare, kept to the exports that left
Moved(p, q) ==
  UNION {Info[o].exports \ Info[disk[q]].exports :
           o \in Baseline(Old(p, KeyOf(Job(p))), base[p], q, Info[disk[q]].soname)}

\* the libraries just extracted are compared, then db::write makes the record's
\* directory and every file of it but the manifest
PutHead(p) ==
  /\ pc[p] = "extract" /\ todo[p] = {}
  /\ broke' = [broke EXCEPT ![p] = @ \cup
       {[target |-> Job(p).target, soname |-> Info[disk[q]].soname, changed |-> Moved(p, q)] :
          q \in {r \in Libraries(Job(p).ships, disk) : Moved(p, r) # {}}}]
  /\ kept' = [kept EXCEPT ![p] = @ \cup Own(Job(p).ships)]
  /\ dirs' = dirs \cup {KeyOf(Job(p))}
  /\ depends' = [depends EXCEPT ![KeyOf(Job(p))] = Job(p).depends]
  /\ Goto(p, "manifest")
  /\ UNCHANGED <<disk, man, prov, preserved, queue, lock, op, batch, force, at, was, base, skip, todo, going, counts>>

\* a skipped config is recorded with the hash the archive ships, not the one on disk
PutManifest(p) ==
  /\ pc[p] = "manifest"
  /\ man' = [man EXCEPT ![KeyOf(Job(p))] = Job(p).ships]
  /\ Goto(p, "provides")
  /\ UNCHANGED <<disk, dirs, depends, prov, preserved, queue, lock, locals, counts>>

AdvancePastEnd(p, again, next) ==
  IF at[p] <= Len(batch[p])
  THEN at' = [at EXCEPT ![p] = @ + 1] /\ Goto(p, again)
  ELSE at' = Set(at, p, 1) /\ Goto(p, next)
\* the next job of the batch, or the first of the next pass over it
Advance(p, again, next) ==
  IF at[p] < Len(batch[p])
  THEN at' = [at EXCEPT ![p] = @ + 1] /\ Goto(p, again)
  ELSE at' = Set(at, p, 1) /\ Goto(p, next)

PutProvides(p) ==
  /\ pc[p] = "provides"
  /\ prov' = [prov EXCEPT ![KeyOf(Job(p))] = Provides(Job(p).ships, disk)]
  /\ Advance(p, "job", "preserve")
  /\ UNCHANGED <<disk, dirs, depends, man, preserved, queue, lock, op, batch, force, was, base, skip, todo, kept, broke, going, counts>>

StayNever(p) == {}
\* install::preserve: the libraries whose soname left the package, and their links
Stay(p) ==
  LET old == Old(p, KeyOf(Job(p)))
      carried == {x[1] : x \in prov[KeyOf(Job(p))]}
  IN  {q \in Libraries(old, base[p]) : q \notin kept[p] /\ Info[base[p][q]].soname \notin carried}
Held(p) ==
  LET old == Old(p, KeyOf(Job(p)))
  IN  {q \in Own(old) \ kept[p] : IF IsLink(old[q]) THEN Info[old[q]].link \in Stay(p) ELSE q \in Stay(p)}

Preserve(p) ==
  /\ pc[p] = "preserve"
  /\ LET k == KeyOf(Job(p))
         had == Own(preserved[k]) \ kept[p]
         all == [q \in Path |-> IF q \in had THEN preserved[k][q]
                                ELSE IF q \in Held(p) THEN Old(p, k)[q] ELSE NoEntry]
     IN  preserved' = IF Own(all) = had THEN preserved ELSE [preserved EXCEPT ![k] = all]
  /\ broke' = [broke EXCEPT ![p] = @ \cup
       {[target |-> Job(p).target, soname |-> Info[base[p][q]].soname, changed |-> {}] : q \in Stay(p)}]
  /\ kept' = [kept EXCEPT ![p] = @ \cup Held(p)]
  /\ Advance(p, "preserve", "dispossess")
  /\ UNCHANGED <<disk, dirs, depends, man, prov, queue, lock, op, batch, force, was, base, skip, todo, going, counts>>

LosersNone(p) == {}
\* the other records that claim a path this job took; apply read every one when it began
Losers(p) ==
  {k \in dirs \ {KeyOf(Job(p))} : Readable(k) /\ Own(man[k]) \cap Own(Job(p).ships) # {}}

Dispossess(p) ==
  /\ pc[p] = "dispossess"
  /\ \E k \in Losers(p) :
       /\ man' = [man EXCEPT ![k] = Restricted(@, Own(@) \ Own(Job(p).ships))]
       /\ going' = Set(going, p, {k})
  /\ Goto(p, "disown")
  /\ UNCHANGED <<disk, dirs, depends, prov, preserved, queue, lock, op, batch, force, at, was, base, skip, todo, kept, broke, counts>>

DisownLater(p) ==
  /\ pc[p] = "disown"
  /\ going' = Set(going, p, {})
  /\ Goto(p, "dispossess")
  /\ UNCHANGED <<disk, db, queue, lock, op, batch, force, at, was, base, skip, todo, kept, broke, counts>>
Disown(p) ==
  /\ pc[p] = "disown"
  /\ prov' = [k \in Key |-> IF k \in going[p] THEN {x \in prov[k] : x[2] \in Own(man[k])} ELSE prov[k]]
  /\ going' = Set(going, p, {})
  /\ Goto(p, "dispossess")
  /\ UNCHANGED <<disk, dirs, depends, man, preserved, queue, lock, op, batch, force, at, was, base, skip, todo, kept, broke, counts>>

DispossessDone(p) ==
  /\ pc[p] = "dispossess" /\ Losers(p) = {}
  /\ Advance(p, "dispossess", "prune")
  /\ UNCHANGED <<disk, db, queue, lock, op, batch, force, was, base, skip, todo, kept, broke, going, counts>>

PruneStartByJob(p) ==
  /\ pc[p] = "prune"
  /\ todo' = Set(todo, p, Own(Old(p, KeyOf(Job(p)))) \ Own(Job(p).ships))
  /\ Goto(p, "unlink")
  /\ UNCHANGED <<disk, db, queue, lock, op, batch, force, at, was, base, skip, kept, broke, going, counts>>
\* install::prune: what the old version shipped and nothing in the batch kept
PruneStart(p) ==
  /\ pc[p] = "prune"
  /\ todo' = Set(todo, p, Own(Old(p, KeyOf(Job(p)))) \ kept[p])
  /\ Goto(p, "unlink")
  /\ UNCHANGED <<disk, db, queue, lock, op, batch, force, at, was, base, skip, kept, broke, going, counts>>

DropFiles(p, m) ==
  \E q \in todo[p] :
    /\ disk' = IF disk[q] = m[q] /\ IsFile(m[q]) THEN [disk EXCEPT ![q] = NoEntry] ELSE disk
    /\ todo' = [todo EXCEPT ![p] = @ \ {q}]
\* install::unlink for one entry: a file that is not what was recorded is left
Drop(p, m) ==
  \E q \in todo[p] :
    /\ disk' = IF disk[q] = m[q] THEN [disk EXCEPT ![q] = NoEntry] ELSE disk
    /\ todo' = [todo EXCEPT ![p] = @ \ {q}]

PruneUnlink(p) ==
  /\ pc[p] = "unlink"
  /\ Drop(p, Old(p, KeyOf(Job(p))))
  /\ UNCHANGED <<db, queue, lock, pc, op, batch, force, at, was, base, skip, kept, broke, going, counts>>

PruneDone(p) ==
  /\ pc[p] = "unlink" /\ todo[p] = {}
  /\ Advance(p, "prune", "enqueue")
  /\ UNCHANGED <<disk, db, queue, lock, op, batch, force, was, base, skip, todo, kept, broke, going, counts>>

UsesSymbol(c, b) ==
  /\ b.soname \in Info[c].needs
  /\ \/ b.changed \ Mangled # {} /\ Info[c].undefined \cap DL # {}
     \/ Info[c].undefined \cap b.changed # {}
\* main::affected: who outside the batch still names a soname that moved or left
Uses(c, b) ==
  /\ b.soname \in Info[c].needs
  /\ \/ b.changed = {}
     \/ b.changed \ Mangled # {} /\ Info[c].undefined \cap DL # {}
     \/ Info[c].undefined \cap b.changed # {}
Users(p, b) ==
  {k \in dirs \ Keys(batch[p]) :
     k.target = b.target /\ Readable(k) /\ \E q \in Seen(man[k], disk) : Uses(disk[q], b)}
Affected(p) ==
  UNION {{[target |-> b.target, name |-> k.name, soname |-> b.soname, changed |-> b.changed] :
            k \in Users(p, b)} : b \in broke[p]}

\* the paths some record and some preserved record both claim
TwiceClaimed ==
  {q \in Path : /\ \E k \in dirs : Readable(k) /\ q \in Own(man[k])
                /\ \E k \in Key : q \in Own(preserved[k])}

Enqueue(p) ==
  /\ pc[p] = "enqueue"
  /\ queue' = queue \cup Affected(p)
  /\ tangled' = tangled \cup TwiceClaimed
  /\ Goto(p, "done")
  /\ UNCHANGED <<disk, db, lock, locals, begun, kills>>

----------------------------------------------------------------------------
(* kiry r: one record at a time, its files and then itself. *)

RemoveRefusedByLinks(p) ==
  LET gone == going[p] \cap dirs
  IN  \/ \E k \in going[p] : \A l \in dirs : l.name # k.name
      \/ ~force[p] /\ \E k \in dirs \ gone : Readable(k) /\ Breaks(gone, k)
\* a name that is not installed, then main::held_by, which passes over a record it cannot read
RemoveRefused(p) ==
  LET gone == going[p] \cap dirs
  IN  \/ \E k \in going[p] : \A l \in dirs : l.name # k.name
      \/ /\ ~force[p]
         /\ \E k \in dirs \ gone :
              /\ Readable(k)
              /\ \/ \E g \in gone : g.target = k.target /\ g.name \in depends[k]
                 \/ Breaks(gone, k)

RemoveCheck(p) ==
  /\ pc[p] = "check"
  /\ IF RemoveRefused(p)
     THEN Exit(p)
     ELSE /\ going' = [going EXCEPT ![p] = @ \cap dirs]
          /\ base' = Set(base, p, disk)
          /\ Goto(p, "pick")
          /\ UNCHANGED <<lock, op, batch, force, at, was, skip, todo, kept, broke>>
  /\ UNCHANGED <<disk, db, queue, counts>>

\* install::remove, target by target: the records to go are read before the first of them
\* is unlinked, and without --force so are the target's others, whose deps are asked again
Unread(p, t) ==
  \E k \in Key : /\ k.target = t /\ ~Readable(k)
                 /\ k \in going[p] \/ (~force[p] /\ k \in dirs)

RemoveDies(p) ==
  /\ pc[p] = "pick" /\ \E k \in going[p] : Unread(p, k.target)
  /\ Exit(p)
  /\ UNCHANGED <<disk, db, queue, counts>>

RemovePick(p) ==
  /\ pc[p] = "pick"
  /\ \E k \in going[p] :
       /\ ~Unread(p, k.target)
       /\ was' = Set(was, p, [l \in Key |-> IF l = k THEN man[k] ELSE NoRecord])
       /\ todo' = Set(todo, p, Own(man[k]))
  /\ Goto(p, "remove")
  /\ UNCHANGED <<disk, db, queue, lock, op, batch, force, at, base, skip, kept, broke, going, counts>>

Removing(p) == CHOOSE k \in Key : was[p][k] # NoRecord

RemoveUnlink(p) ==
  /\ pc[p] = "remove"
  /\ Drop(p, Old(p, Removing(p)))
  /\ UNCHANGED <<db, queue, lock, pc, op, batch, force, at, was, base, skip, kept, broke, going, counts>>

\* db::forget: the provides first, then the record's files in any order, then its directory
ForgetProvides(p) ==
  /\ pc[p] = "remove" /\ todo[p] = {}
  /\ prov' = [prov EXCEPT ![Removing(p)] = {}]
  /\ Goto(p, "forget")
  /\ UNCHANGED <<disk, dirs, depends, man, preserved, queue, lock, locals, counts>>

ForgetFiles(p) ==
  /\ pc[p] = "forget"
  /\ man' = [man EXCEPT ![Removing(p)] = NoRecord]
  /\ depends' = [depends EXCEPT ![Removing(p)] = {}]
  /\ Goto(p, "rmdir")
  /\ UNCHANGED <<disk, dirs, prov, preserved, queue, lock, locals, counts>>

ForgetDir(p) ==
  /\ pc[p] = "rmdir"
  /\ dirs' = dirs \ {Removing(p)}
  /\ going' = [going EXCEPT ![p] = @ \ {Removing(p)}]
  /\ Goto(p, IF going[p] = {Removing(p)} THEN "done" ELSE "pick")
  /\ UNCHANGED <<disk, depends, man, prov, preserved, queue, lock, op, batch, force, at, was, base, skip, todo, kept, broke, counts>>

----------------------------------------------------------------------------
(* kiry gc: the preserved libraries nothing names and nothing has mapped. *)

GcStart(p) ==
  /\ pc[p] = "gc"
  /\ going' = Set(going, p, {k \in Key : preserved[k] # Nothing})
  /\ base' = Set(base, p, disk)
  /\ Goto(p, "release")
  /\ UNCHANGED <<disk, db, queue, lock, op, batch, force, at, was, skip, todo, kept, broke, counts>>

WantedWhileQueued(t) == {r.soname : r \in {x \in queue : x.target = t}}
\* the sonames some installed elf of t names
Wanted(t) ==
  UNION {UNION {Info[disk[q]].needs : q \in Seen(man[k], disk)} :
           k \in {l \in Installed(t) : Readable(l)}}

\* main::generations: the entries of m a library with soname s answers for
Generation(m, s) ==
  {q \in Own(m) : LET at1 == IF IsLink(m[q]) THEN Info[m[q]].link ELSE q
                  IN  at1 \in Libraries(m, disk) /\ Info[disk[at1]].soname = s}

\* open is what running programs have mapped, which nothing else in the model knows
GcRecord(p) ==
  /\ pc[p] = "release"
  /\ \E k \in going[p], open \in SUBSET Soname :
       LET m == preserved[k]
           free == {s \in Soname \ (Wanted(k.target) \cup open) :
                      Generation(m, s) \cap Modified(m, disk) = {}}
           out == UNION {Generation(m, s) : s \in free}
       IN  /\ preserved' = [preserved EXCEPT ![k] = Restricted(m, Own(m) \ out)]
           /\ todo' = [todo EXCEPT ![p] = @ \cup out]
           /\ going' = [going EXCEPT ![p] = @ \ {k}]
  /\ UNCHANGED <<disk, dirs, depends, man, prov, queue, lock, pc, op, batch, force, at, was, base, skip, kept, broke, counts>>

\* every record is written before the first file goes, and what goes is not looked at again
GcSweep(p) ==
  /\ pc[p] = "release" /\ going[p] = {}
  /\ \E q \in todo[p] :
       /\ disk' = [disk EXCEPT ![q] = NoEntry]
       /\ todo' = [todo EXCEPT ![p] = @ \ {q}]
  /\ UNCHANGED <<db, queue, lock, pc, op, batch, force, at, was, base, skip, kept, broke, going, counts>>

GcDone(p) ==
  /\ pc[p] = "release" /\ going[p] = {} /\ todo[p] = {}
  /\ Goto(p, "done")
  /\ UNCHANGED <<disk, db, queue, lock, locals, counts>>

----------------------------------------------------------------------------
\* the command returns
Finish(p) ==
  /\ pc[p] = "done"
  /\ Exit(p)
  /\ UNCHANGED <<disk, db, queue, counts>>

\* a signal, a power cut or a write that fails, between any two durable steps
Kill(p) ==
  /\ pc[p] # "idle" /\ kills < MaxKills
  /\ kills' = kills + 1
  /\ Exit(p)
  /\ UNCHANGED <<disk, db, queue, begun, tangled>>

\* the user writes a config, and never while a transaction runs
Edit ==
  /\ "edit" \in Ops /\ lock = NoProc
  /\ \E q \in EtcPath, c \in Edits :
       /\ IsFile(disk[q]) /\ disk[q] \notin Edits
       /\ disk' = [disk EXCEPT ![q] = c]
  /\ UNCHANGED <<db, queue, lock, pc, locals, counts>>

Install(p) ==
  \/ PlanRefuses(p) \/ ApplyStart(p) \/ JobStart(p) \/ Extract(p) \/ PutHead(p)
  \/ PutManifest(p) \/ PutProvides(p) \/ Preserve(p) \/ Dispossess(p) \/ Disown(p)
  \/ DispossessDone(p) \/ PruneStart(p) \/ PruneUnlink(p) \/ PruneDone(p) \/ Enqueue(p)
Remove(p) ==
  \/ RemoveCheck(p) \/ RemoveDies(p) \/ RemovePick(p) \/ RemoveUnlink(p)
  \/ ForgetProvides(p) \/ ForgetFiles(p) \/ ForgetDir(p)
Gc(p) == GcStart(p) \/ GcRecord(p) \/ GcSweep(p) \/ GcDone(p)

Step(p) == Lock(p) \/ Install(p) \/ Remove(p) \/ Gc(p) \/ Finish(p)

Next ==
  \/ \E p \in Proc : BeginInstall(p) \/ BeginRemove(p) \/ BeginGc(p) \/ Step(p) \/ Kill(p)
  \/ Edit

Spec == Init /\ [][Next]_vars
\* a process runs until it blocks, and a waiter on the lock is woken when it is dropped
FairSpec == Spec /\ \A p \in Proc : WF_vars(Step(p)) /\ SF_vars(Lock(p))
----------------------------------------------------------------------------
(* Properties. *)

LocalsOK ==
  /\ op \in [Proc -> {"none", "install", "remove", "gc"}]
  /\ batch \in [Proc -> Batches \cup {<< >>}]
  /\ force \in [Proc -> BOOLEAN]
  /\ at \in [Proc -> Nat \ {0}]
  /\ was \in [Proc -> [Key -> Manifest \cup {NoRecord}]]
  /\ base \in [Proc -> Manifest]
  /\ skip \in [Proc -> SUBSET Path] /\ todo \in [Proc -> SUBSET Path]
  /\ kept \in [Proc -> SUBSET Path] /\ broke \in [Proc -> SUBSET Row]
  /\ going \in [Proc -> SUBSET Key]

\* the steps of apply that look at one job
Applying == {"job", "extract", "manifest", "provides", "preserve", "dispossess", "disown", "prune", "unlink"}

\* Every variable keeps its type, and a process in the middle of an apply is on a job its
\* batch has, so install::apply never indexes past the jobs it planned.
TypeOK ==
  /\ disk \in Manifest
  /\ dirs \subseteq Key
  /\ depends \in [Key -> SUBSET Name]
  /\ man \in [Key -> Manifest \cup {NoRecord}]
  /\ prov \in [Key -> SUBSET (Soname \X Path)]
  /\ preserved \in [Key -> Manifest]
  /\ queue \subseteq Queued
  /\ lock \in Proc \cup {NoProc}
  /\ pc \in [Proc -> Applying \cup {"idle", "lock", "plan", "enqueue", "check", "pick", "remove",
                                  "forget", "rmdir", "gc", "release", "done"}]
  /\ LocalsOK
  /\ begun \in Nat /\ kills \in Nat /\ tangled \subseteq Path
  /\ \A p \in Proc : pc[p] \in Applying => at[p] \in 1..Len(batch[p])

\* no transaction is running
Quiet == lock = NoProc
\* nor was any cut short
Unkilled == Quiet /\ kills = 0

\* Two records never claim one file once the transaction that could have made them is over:
\* the planner's conflict check, the writer lock around plan and apply, and dispossess
\* under --force have to hold together for it (install.rs paths, dispossess; main.rs writer).
Exclusive ==
  Unkilled => \A k, l \in dirs : k # l /\ Readable(k) /\ Readable(l) => Own(man[k]) \cap Own(man[l]) = {}

\* What a record says is on disk is on disk, or the user edited it since. A later
\* transaction on another package, its prune or a gc never takes it away. The one case
\* where a gc does is a path an install took back from a preserved record without the
\* record being told, which install.rs 229-230 says it is and 235 leaves undone when the
\* package keeps nothing else back: those paths, and no others, are tangled.
Faithful ==
  Quiet => \A k \in dirs : Readable(k) =>
    \A q \in Own(man[k]) \ tangled : disk[q] = man[k][q] \/ disk[q] \in Edits

\* An install that is not forced leaves every package outside its batch as it found it, its
\* record and its files: what the conflict check over both targets and the lock around plan
\* and apply are for (install.rs paths, main.rs writer).
Untouched ==
  \A p \in Proc : pc[p] = "done" /\ op[p] = "install" /\ ~force[p] =>
    \A k \in dirs \ Keys(batch[p]) :
      man[k] = was[p][k] /\ \A q \in Own(man[k]) : disk[q] = base[p][q]

\* No shipped file is left owned by nobody, which install::prune says no check can see:
\* a record claims it, or it is kept back in a preserved one.
Accounted ==
  Quiet => \A q \in Path : disk[q] \in Content \ Edits =>
    \E k \in Key : (Readable(k) /\ q \in Own(man[k])) \/ q \in Own(preserved[k])

\* An installed package's runtime deps are installed on its target: install::deps on the way
\* in and held_by on the way out, across batches.
DepsMet ==
  Quiet => \A k \in dirs : \A d \in depends[k] : [name |-> d, target |-> k.target] \in dirs

\* The provides file says what a scan of the record would, so doctor's stale check stays
\* silent after every transaction, one that dispossessed the package included. Of a tangled
\* path gc may have taken the file.
Untangled(x) == {e \in x : e[2] \notin tangled}
ProvidesFresh ==
  Unkilled => \A k \in dirs : Readable(k) => Untangled(prov[k]) = Untangled(Provides(man[k], disk))

\* the file the loader opens for s, if any
LoadedAt(d, s) ==
  LET q == IF IsLink(d[SoAt[s]]) THEN Info[d[SoAt[s]]].link ELSE SoAt[s]
  IN  {r \in {q} : IsFile(d[r])}
Exported(d, s) == UNION {Info[d[q]].exports : q \in LoadedAt(d, s)}

\* the elves of installed packages the command running in p was not about
Bystanders(p) ==
  {x \in (dirs \ Keys(batch[p])) \X Path : Readable(x[1]) /\ x[2] \in Seen(man[x[1]], disk)}

\* A command that is not forced leaves every library something outside it links loadable:
\* an upgrade keeps back a soname that left, a removal is refused, gc releases only what
\* nothing names (install.rs preserve, main.rs held_by and gc_cmd).
NoneStranded ==
  \A p \in Proc : pc[p] = "done" /\ ~force[p] =>
    \A x \in Bystanders(p) : \A s \in Info[disk[x[2]]].needs :
      LoadedAt(base[p], s) # {} => LoadedAt(disk, s) # {}

\* A consumer outside the batch that found a symbol in a package's library before it and
\* does not after it is in the rebuild queue when the install returns (install.rs baseline
\* and compare, main.rs affected and enqueue).
BrokenQueued ==
  \A p \in Proc : pc[p] = "done" /\ op[p] = "install" =>
    \A x \in Bystanders(p) : \A s \in Info[disk[x[2]]].needs :
      /\ \E k \in Key : LoadedAt(base[p], s) \cap Own(Old(p, k)) # {}
      /\ (Info[disk[x[2]]].undefined \cap Exported(base[p], s)) \ Exported(disk, s) # {}
      => \E r \in queue : r.name = x[1].name /\ r.target = x[1].target /\ r.soname = s

\* A library that only a preserved record still holds, and that some record held before
\* this batch, has every consumer that names it queued, so the copy can go one day.
OutdatedQueued ==
  \A p \in Proc : pc[p] = "done" /\ op[p] = "install" =>
    \A k \in Keys(batch[p]) : \A q \in Own(preserved[k]) \cap Own(Old(p, k)) :
      IsFile(disk[q]) /\ (\A l \in dirs : Readable(l) => q \notin Own(man[l])) =>
        \A x \in Bystanders(p) :
          x[1].target = k.target /\ Info[disk[q]].soname \in Info[disk[x[2]]].needs
          => \E r \in queue : r.name = x[1].name /\ r.target = k.target /\ r.soname = Info[disk[q]].soname

\* A config the user edited is never written over or deleted while a record claims it, or
\* claimed it when the running transaction began: not by an upgrade, not by a package that
\* takes the path over, not by a kill and a second try (install.rs apply and modified).
EditKept ==
  [][\A q \in EtcPath :
       /\ disk[q] \in Edits
       /\ \/ \E k \in dirs : Readable(k) /\ IsFile(man[k][q])
          \/ \E p \in Proc : \E k \in Key : IsFile(Old(p, k)[q])
       => disk'[q] = disk[q]]_vars

\* At every step of an install, a kill before or after it included, each file a record
\* claims is there, unless removing that package was asked for: extraction renames over,
\* the record is written after the files, and pruning comes after every record
\* (db.rs put, archive.rs apply, install.rs prune).
FilesStand ==
  \A k \in dirs : Readable(k) /\ k.name \notin Removable => \A q \in Own(man[k]) : disk[q] # NoEntry

\* Whatever step comes next, a kill in the middle or a second try: the files stand and the
\* edits stay.
Survives == [][FilesStand']_vars /\ EditKept

\* An install queues whoever it left without a symbol or with a library that is on its way out.
ConsumersQueued == BrokenQueued /\ OutdatedQueued

\* A command that asked for the writer lock returns, whatever the others do.
Returns == \A p \in Proc : pc[p] = "lock" ~> pc[p] = "idle"
=============================================================================
