------------------------- MODULE TransactionProofs -------------------------
(* What holds of Transaction for every set of packages, files and batches:
   its types, that one process at a time is past the lock, that two records never
   claim one file as long as nothing was killed, and what a transaction leaves
   alone: records stay whole, runtime deps stay met, the packages a batch is not
   about stay untouched and so does what the user wrote. Then what records and
   provides say is on disk, and what is on disk is in a record. Last, what the
   loader finds as long as nothing is killed or forced: an install, a gc and a
   removal leave a library for every soname the rest of the root links. *)
EXTENDS Transaction, FiniteSetTheorems, TLAPS

----------------------------------------------------------------------------
(* What the helpers return. *)

LEMMA NothingType == Nothing \in Manifest
BY DEF Nothing, Manifest

LEMMA OwnType == ASSUME NEW m PROVE Own(m) \subseteq Path
BY DEF Own

LEMMA RestrictedType ==
  ASSUME NEW m \in Manifest, NEW S PROVE Restricted(m, S) \in Manifest
BY DEF Restricted, Manifest

\* Restricting a manifest claims no more than the manifest did, and nothing outside S.
LEMMA RestrictedOwn ==
  ASSUME NEW m \in Manifest, NEW S PROVE Own(Restricted(m, S)) = Own(m) \cap S
BY DEF Restricted, Manifest, Own

LEMMA LibrarySoname ==
  ASSUME NEW m, NEW d \in Manifest, NEW q \in Libraries(m, d)
  PROVE  /\ q \in Path
         /\ d[q] \in Content
         /\ Info[d[q]].soname \in Soname
<1>1. q \in Path /\ IsFile(d[q]) /\ Info[d[q]].soname # NoEntry
  BY DEF Libraries, Seen, Own
<1>2. d[q] \in Content
  BY <1>1 DEF Manifest, IsFile
<1> QED
  BY <1>1, <1>2, ConstantsAssumption

LEMMA ProvidesType ==
  ASSUME NEW m, NEW d \in Manifest PROVE Provides(m, d) \subseteq Soname \X Path
BY LibrarySoname DEF Provides

LEMMA KeyOfType == ASSUME NEW j \in Archive PROVE KeyOf(j) \in Key
BY ConstantsAssumption DEF KeyOf, Key

LEMMA BatchJob ==
  ASSUME NEW b \in Batches, NEW i \in 1..Len(b)
  PROVE  /\ b[i] \in Archive
         /\ b[i].ships \in Manifest
         /\ b[i].depends \subseteq Name
         /\ b[i].target \in Target
         /\ KeyOf(b[i]) \in Key
<1>1. b \in Seq(Archive)
  BY ConstantsAssumption
<1>2. b[i] \in Archive
  BY <1>1
<1> QED
  BY <1>2, KeyOfType, ConstantsAssumption

----------------------------------------------------------------------------
(* Type correctness. TypeOK is not inductive: a process on its way into apply
   is on the first job of a batch its user may install, and one waiting for the
   lock has a command to run. *)

TypeInv ==
  /\ TypeOK
  /\ \A p \in Proc :
       /\ pc[p] = "lock" => op[p] \in {"install", "remove", "gc"}
       /\ pc[p] = "lock" /\ op[p] = "install" => batch[p] \in Batches
       /\ pc[p] \in {"idle", "lock", "plan"} => at[p] = 1
       /\ pc[p] \in Applying \cup {"plan"} => batch[p] \in Batches

LEMMA OldType ==
  ASSUME TypeInv, NEW p \in Proc, NEW k \in Key PROVE Old(p, k) \in Manifest
BY NothingType DEF TypeInv, TypeOK, LocalsOK, Old

LEMMA JobType ==
  ASSUME TypeInv, NEW p \in Proc, pc[p] \in Applying
  PROVE  /\ Job(p) = batch[p][at[p]]
         /\ Job(p) \in Archive
         /\ Job(p).ships \in Manifest
         /\ Job(p).depends \subseteq Name
         /\ Job(p).target \in Target
         /\ KeyOf(Job(p)) \in Key
BY BatchJob DEF TypeInv, TypeOK, Job

LEMMA InitType == Init => TypeInv
<1> SUFFICES ASSUME Init PROVE TypeInv
  OBVIOUS
<1>1. LocalsOK
  BY NothingType DEF Init, LocalsOK
<1>2. TypeOK
  BY <1>1, NothingType DEF Init, TypeOK, Applying
<1> QED
  BY <1>2 DEF TypeInv, Init, Applying

\* A process that exits leaves every other one as it was.
LEMMA ExitType ==
  ASSUME TypeInv, NEW p \in Proc, Exit(p), UNCHANGED <<disk, db, queue>>,
         begun' \in Nat, kills' \in Nat, tangled' = tangled
  PROVE  TypeInv'
<1> USE DEF TypeInv, TypeOK
<1>1. LocalsOK'
  BY NothingType DEF LocalsOK, Exit, Set
<1>2. lock' \in Proc \cup {NoProc}
  BY DEF Exit, Released
<1>3. pc' = [pc EXCEPT ![p] = "idle"]
  BY DEF Exit, Goto
<1>4. TypeOK'
  BY <1>1, <1>2, <1>3 DEF db, Exit, Set, Applying, LocalsOK
<1> QED
  BY <1>3, <1>4 DEF Exit, Set, Applying, LocalsOK

LEMMA BeginType ==
  ASSUME TypeInv, NEW p \in Proc, BeginInstall(p) \/ BeginRemove(p) \/ BeginGc(p)
  PROVE  TypeInv'
<1> USE DEF TypeInv, TypeOK, LocalsOK
<1>1. CASE BeginInstall(p)
  BY <1>1, ConstantsAssumption DEF BeginInstall, Begin, Set, Goto, db, Applying
<1>2. CASE BeginRemove(p)
  BY <1>2, ConstantsAssumption DEF BeginRemove, Begin, Set, Goto, db, Applying
<1>3. CASE BeginGc(p)
  BY <1>3 DEF BeginGc, Begin, Set, Goto, db, Applying
<1> QED
  BY <1>1, <1>2, <1>3

LEMMA LockType == ASSUME TypeInv, NEW p \in Proc, Lock(p) PROVE TypeInv'
BY DEF TypeInv, TypeOK, LocalsOK, Lock, Goto, db, locals, counts, Applying

\* The passes over a batch stay inside it.
LEMMA AdvanceType ==
  ASSUME TypeInv, NEW p \in Proc, pc[p] \in Applying,
         NEW again \in Applying, NEW next \in Applying \cup {"enqueue"},
         Advance(p, again, next)
  PROVE  /\ at' \in [Proc -> Nat \ {0}]
         /\ \E l \in {again, next} : pc' = [pc EXCEPT ![p] = l]
         /\ at'[p] \in 1..Len(batch[p])
         /\ \A q \in Proc \ {p} : at'[q] = at[q]
<1>1. batch[p] \in Seq(Archive) /\ Len(batch[p]) \in Nat \ {0} /\ at[p] \in 1..Len(batch[p])
  BY ConstantsAssumption, BatchAssumption DEF TypeInv, TypeOK
<1>2. at \in [Proc -> Nat \ {0}]
  BY DEF TypeInv, TypeOK, LocalsOK
<1> QED
  BY <1>1, <1>2 DEF Advance, Goto, Set

LEMMA InstallType == ASSUME TypeInv, NEW p \in Proc, Install(p) PROVE TypeInv'
<1>0. ASSUME pc[p] \in Applying, NEW again \in Applying, NEW next \in Applying \cup {"enqueue"},
             Advance(p, again, next)
      PROVE  /\ at' \in [Proc -> Nat \ {0}] /\ at'[p] \in 1..Len(batch[p])
             /\ \A q \in Proc \ {p} : at'[q] = at[q]
             /\ \E l \in {again, next} : pc' = [pc EXCEPT ![p] = l]
  BY <1>0, AdvanceType
<1> USE DEF TypeInv, TypeOK, LocalsOK
<1> DEFINE T == Applying \cup {"idle", "lock", "plan", "enqueue", "check", "pick", "remove",
                               "forget", "rmdir", "gc", "release", "done"}
<1>1. CASE PlanRefuses(p)
  BY <1>1, ExitType DEF PlanRefuses, counts
<1>2. CASE ApplyStart(p)
  <2>1. Len(batch[p]) \in Nat \ {0} /\ at[p] = 1
    BY <1>2, ConstantsAssumption, BatchAssumption DEF ApplyStart
  <2> QED
    BY <1>2, <2>1 DEF ApplyStart, Set, Goto, db, counts, Applying
<1>3. CASE JobStart(p)
  BY <1>3, OwnType DEF JobStart, Set, Goto, Skipped, db, counts, Applying
<1>4. CASE Extract(p)
  <2>1. Job(p).ships \in Manifest
    BY <1>4, JobType DEF Extract, Applying
  <2>2. disk' \in Manifest
    BY <1>4, <2>1 DEF Extract, Manifest
  <2> QED
    BY <1>4, <2>2 DEF Extract, db, counts, Applying
<1>5. CASE PutHead(p)
  <2>1. /\ KeyOf(Job(p)) \in Key /\ Job(p).depends \subseteq Name
        /\ Job(p).target \in Target
    BY <1>5, JobType DEF PutHead, Applying
  <2>2. ASSUME NEW q \in Path PROVE Moved(p, q) \subseteq Symbol
    <3>1. ASSUME NEW o \in Baseline(Old(p, KeyOf(Job(p))), base[p], q, Info[disk[q]].soname)
          PROVE  Info[o].exports \subseteq Symbol
      <4>1. \E r \in Libraries(Old(p, KeyOf(Job(p))), base[p]) : o = base[p][r]
        BY <3>1 DEF Baseline
      <4> QED
        BY <4>1, LibrarySoname, ConstantsAssumption
    <3> QED
      BY <3>1 DEF Moved
  <2>3. broke' \in [Proc -> SUBSET Row]
    <3>1. {[target |-> Job(p).target, soname |-> Info[disk[q]].soname, changed |-> Moved(p, q)] :
             q \in {r \in Libraries(Job(p).ships, disk) : Moved(p, r) # {}}} \subseteq Row
      BY <2>1, <2>2, LibrarySoname DEF Row
    <3> QED
      BY <1>5, <3>1 DEF PutHead
  <2>4. kept' \in [Proc -> SUBSET Path]
    BY <1>5, OwnType DEF PutHead
  <2> QED
    BY <1>5, <2>1, <2>3, <2>4 DEF PutHead, Goto, counts, Applying
<1>6. CASE PutManifest(p)
  <2>1. Job(p).ships \in Manifest
    BY <1>6, JobType DEF PutManifest, Applying
  <2> QED
    BY <1>6, <2>1 DEF PutManifest, Goto, locals, counts, Applying
<1>7. CASE PutProvides(p)
  <2>1. /\ at' \in [Proc -> Nat \ {0}] /\ at'[p] \in 1..Len(batch[p])
        /\ \A q \in Proc \ {p} : at'[q] = at[q]
        /\ \E l \in {"job", "preserve"} : pc' = [pc EXCEPT ![p] = l]
    BY <1>7, <1>0 DEF PutProvides, Applying
  <2>2. prov' \in [Key -> SUBSET (Soname \X Path)]
    BY <1>7, ProvidesType DEF PutProvides
  <2> QED
    BY <1>7, <2>1, <2>2 DEF PutProvides, counts, Applying
<1>8. CASE Preserve(p)
  <2>1. /\ at' \in [Proc -> Nat \ {0}] /\ at'[p] \in 1..Len(batch[p])
        /\ \A q \in Proc \ {p} : at'[q] = at[q]
        /\ \E l \in {"preserve", "dispossess"} : pc' = [pc EXCEPT ![p] = l]
    BY <1>8, <1>0 DEF Preserve, Applying
  <2>2. KeyOf(Job(p)) \in Key /\ Job(p).target \in Target
    BY <1>8, JobType DEF Preserve, Applying
  <2>3. Old(p, KeyOf(Job(p))) \in Manifest
    BY <2>2, OldType
  <2>4. preserved' \in [Key -> Manifest]
    <3> DEFINE k == KeyOf(Job(p))
               had == Own(preserved[k]) \ kept[p]
               all == [q \in Path |-> IF q \in had THEN preserved[k][q]
                                      ELSE IF q \in Held(p) THEN Old(p, k)[q] ELSE NoEntry]
    <3>1. all \in Manifest
      BY <2>2, <2>3 DEF Manifest
    <3>2. preserved' = IF Own(all) = had THEN preserved ELSE [preserved EXCEPT ![k] = all]
      BY <1>8 DEF Preserve
    <3> HIDE DEF all
    <3> QED
      BY <3>1, <3>2, <2>2
  <2>5. broke' \in [Proc -> SUBSET Row]
    <3>1. \A q \in Stay(p) : Info[base[p][q]].soname \in Soname
      BY <2>3, LibrarySoname DEF Stay
    <3>2. {[target |-> Job(p).target, soname |-> Info[base[p][q]].soname, changed |-> {}] :
             q \in Stay(p)} \subseteq Row
      BY <2>2, <3>1 DEF Row
    <3> QED
      BY <1>8, <3>2 DEF Preserve
  <2>6. kept' \in [Proc -> SUBSET Path]
    BY <1>8, OwnType DEF Preserve, Held
  <2> QED
    BY <1>8, <2>1, <2>4, <2>5, <2>6 DEF Preserve, counts, Applying
<1>9. CASE Dispossess(p)
  <2>1. PICK k \in Losers(p) :
          /\ man' = [man EXCEPT ![k] = Restricted(@, Own(@) \ Own(Job(p).ships))]
          /\ going' = Set(going, p, {k})
    BY <1>9 DEF Dispossess
  <2>2. k \in Key /\ man[k] \in Manifest
    BY <2>1 DEF Losers, Readable
  <2>3. man' \in [Key -> Manifest \cup {NoRecord}] /\ going' \in [Proc -> SUBSET Key]
    BY <2>1, <2>2, RestrictedType DEF Set
  <2> QED
    BY <1>9, <2>3 DEF Dispossess, Goto, counts, Applying
<1>10. CASE Disown(p)
  BY <1>10 DEF Disown, Set, Goto, counts, Applying
<1>11. CASE DispossessDone(p)
  <2>1. /\ at' \in [Proc -> Nat \ {0}] /\ at'[p] \in 1..Len(batch[p])
        /\ \A q \in Proc \ {p} : at'[q] = at[q]
        /\ \E l \in {"dispossess", "prune"} : pc' = [pc EXCEPT ![p] = l]
    BY <1>11, <1>0 DEF DispossessDone, Applying
  <2> QED
    BY <1>11, <2>1 DEF DispossessDone, db, counts, Applying
<1>12. CASE PruneStart(p)
  BY <1>12, OwnType DEF PruneStart, Set, Goto, db, counts, Applying
<1>13. CASE PruneUnlink(p)
  <2>1. disk' \in Manifest /\ todo' \in [Proc -> SUBSET Path]
    BY <1>13 DEF PruneUnlink, Drop, Manifest
  <2> QED
    BY <1>13, <2>1 DEF PruneUnlink, db, counts, Applying
<1>14. CASE PruneDone(p)
  <2>1. /\ at' \in [Proc -> Nat \ {0}] /\ at'[p] \in 1..Len(batch[p])
        /\ \A q \in Proc \ {p} : at'[q] = at[q]
        /\ \E l \in {"prune", "enqueue"} : pc' = [pc EXCEPT ![p] = l]
    BY <1>14, <1>0 DEF PruneDone, Applying
  <2> QED
    BY <1>14, <2>1 DEF PruneDone, db, counts, Applying
<1>15. CASE Enqueue(p)
  <2>1. Affected(p) \subseteq Queued
    <3>1. broke[p] \subseteq Row
      OBVIOUS
    <3>2. \A b \in broke[p] : Users(p, b) \subseteq Key
      BY DEF Users
    <3> QED
      BY <3>1, <3>2 DEF Affected, Row, Queued, Key
  <2> QED
    BY <1>15, <2>1 DEF Enqueue, TwiceClaimed, Goto, db, locals, Applying
<1> QED
  BY <1>1, <1>2, <1>3, <1>4, <1>5, <1>6, <1>7, <1>8, <1>9, <1>10, <1>11, <1>12, <1>13,
     <1>14, <1>15 DEF Install

LEMMA RemoveType == ASSUME TypeInv, NEW p \in Proc, Remove(p) PROVE TypeInv'
<1> USE DEF TypeInv, TypeOK, LocalsOK
<1>1. CASE RemoveCheck(p)
  <2>1. CASE RemoveRefused(p)
    BY <1>1, <2>1, ExitType DEF RemoveCheck, counts
  <2>2. CASE ~RemoveRefused(p)
    <3>1. /\ pc[p] = "check" /\ pc' = [pc EXCEPT ![p] = "pick"]
          /\ going' = [going EXCEPT ![p] = @ \cap dirs] /\ base' = [base EXCEPT ![p] = disk]
          /\ UNCHANGED <<disk, db, queue, counts, lock, op, batch, force, at, was, skip, todo, kept, broke>>
      BY <1>1, <2>2, Zenon DEF RemoveCheck, Set, Goto
    <3> QED
      BY <3>1 DEF db, counts, Applying
  <2> QED
    BY <2>1, <2>2
<1>2. CASE RemoveDies(p)
  BY <1>2, ExitType DEF RemoveDies, counts
<1>3. CASE RemovePick(p)
  <2>1. was' \in [Proc -> [Key -> Manifest \cup {NoRecord}]] /\ todo' \in [Proc -> SUBSET Path]
    BY <1>3, OwnType DEF RemovePick, Set
  <2> QED
    BY <1>3, <2>1 DEF RemovePick, Goto, db, counts, Applying
<1>4. CASE RemoveUnlink(p)
  <2>1. disk' \in Manifest /\ todo' \in [Proc -> SUBSET Path]
    BY <1>4 DEF RemoveUnlink, Drop, Manifest
  <2> QED
    BY <1>4, <2>1 DEF RemoveUnlink, db, counts, Applying
<1>5. CASE ForgetProvides(p)
  BY <1>5 DEF ForgetProvides, Goto, locals, counts, Applying
<1>6. CASE ForgetFiles(p)
  BY <1>6 DEF ForgetFiles, Goto, locals, counts, Applying
<1>7. CASE ForgetDir(p)
  BY <1>7 DEF ForgetDir, Goto, counts, Applying
<1> QED
  BY <1>1, <1>2, <1>3, <1>4, <1>5, <1>6, <1>7 DEF Remove

LEMMA GcType == ASSUME TypeInv, NEW p \in Proc, Gc(p) PROVE TypeInv'
<1> USE DEF TypeInv, TypeOK, LocalsOK
<1>1. CASE GcStart(p)
  BY <1>1 DEF GcStart, Set, Goto, db, counts, Applying
<1>2. CASE GcRecord(p)
  <2>1. PICK k \in going[p], out \in SUBSET Path :
          /\ preserved' = [preserved EXCEPT ![k] = Restricted(preserved[k], Own(preserved[k]) \ out)]
          /\ todo' = [todo EXCEPT ![p] = @ \cup out]
          /\ going' = [going EXCEPT ![p] = @ \ {k}]
    <3> DEFINE Free(k, open) ==
                 {s \in Soname \ (Wanted(k.target) \cup open) :
                    Generation(preserved[k], s) \cap Modified(preserved[k], disk) = {}}
               Out(k, open) == UNION {Generation(preserved[k], s) : s \in Free(k, open)}
    <3>1. PICK k \in going[p], open \in SUBSET Soname :
            /\ preserved' = [preserved EXCEPT ![k] = Restricted(preserved[k], Own(preserved[k]) \ Out(k, open))]
            /\ todo' = [todo EXCEPT ![p] = @ \cup Out(k, open)]
            /\ going' = [going EXCEPT ![p] = @ \ {k}]
      BY <1>2, Zenon DEF GcRecord
    <3>2. Out(k, open) \in SUBSET Path
      BY OwnType DEF Generation
    <3> HIDE DEF Out
    <3> QED
      BY <3>1, <3>2
  <2>2. preserved' \in [Key -> Manifest]
    BY <2>1, RestrictedType
  <2> QED
    BY <1>2, <2>1, <2>2 DEF GcRecord, counts, Applying
<1>3. CASE GcSweep(p)
  <2>1. disk' \in Manifest /\ todo' \in [Proc -> SUBSET Path]
    BY <1>3 DEF GcSweep, Manifest
  <2> QED
    BY <1>3, <2>1 DEF GcSweep, db, counts, Applying
<1>4. CASE GcDone(p)
  BY <1>4 DEF GcDone, Goto, db, locals, counts, Applying
<1> QED
  BY <1>1, <1>2, <1>3, <1>4 DEF Gc

LEMMA NextType == TypeInv /\ [Next]_vars => TypeInv'
<1> SUFFICES ASSUME TypeInv, [Next]_vars PROVE TypeInv'
  OBVIOUS
<1>1. CASE UNCHANGED vars
  BY <1>1 DEF TypeInv, TypeOK, LocalsOK, vars, db, locals, counts
<1>2. ASSUME NEW p \in Proc, Step(p) PROVE TypeInv'
  <2>1. CASE Finish(p)
    BY <2>1, ExitType DEF Finish, counts, TypeInv, TypeOK
  <2> QED
    BY <1>2, <2>1, LockType, InstallType, RemoveType, GcType DEF Step
<1>3. ASSUME NEW p \in Proc, Kill(p) PROVE TypeInv'
  BY <1>3, ExitType DEF Kill, TypeInv, TypeOK
<1>4. CASE Edit
  <2>1. disk' \in Manifest
    BY <1>4, ConstantsAssumption DEF Edit, Manifest, TypeInv, TypeOK
  <2> QED
    BY <1>4, <2>1 DEF Edit, db, locals, counts, Applying, TypeInv, TypeOK, LocalsOK
<1> QED
  BY <1>1, <1>2, <1>3, <1>4, BeginType DEF Next

\* Every variable keeps its type and no pass over a batch runs past its end, whatever the
\* batches, the processes and the kills: install::apply and its passes, commands and all.
THEOREM TypeCorrect == Spec => []TypeOK
<1>1. TypeInv /\ [Next]_vars => TypeInv'
  BY NextType
<1>2. TypeInv => TypeOK
  BY DEF TypeInv
<1> QED
  BY InitType, <1>1, <1>2, PTL DEF Spec

----------------------------------------------------------------------------
(* One writer at a time. *)

Past(p) == pc[p] \notin {"idle", "lock"}
LockInv == \A p \in Proc : Past(p) => lock = p

LEMMA LockStep == TypeInv /\ LockInv /\ [Next]_vars => LockInv'
<1> SUFFICES ASSUME TypeInv, LockInv, [Next]_vars PROVE LockInv'
  OBVIOUS
<1> USE DEF LockInv, Past
<1>0. pc = [q \in Proc |-> pc[q]] /\ NoProc \notin Proc
  BY ConstantsAssumption DEF TypeInv, TypeOK, Applying
<1>1. ASSUME NEW p \in Proc, Past(p), lock' = lock, NEW l, pc' = [pc EXCEPT ![p] = l]
      PROVE  LockInv'
  BY <1>0, <1>1
<1>2. ASSUME NEW p \in Proc, Exit(p) PROVE LockInv'
  BY <1>0, <1>2 DEF Exit, Goto, Released
<1>3. ASSUME NEW p \in Proc, NEW again, NEW next, Past(p), lock' = lock, Advance(p, again, next)
      PROVE  LockInv'
  BY <1>1, <1>3 DEF Advance, Goto
<1>4. CASE UNCHANGED vars
  BY <1>4 DEF vars
<1>5. ASSUME NEW p \in Proc, BeginInstall(p) \/ BeginRemove(p) \/ BeginGc(p) PROVE LockInv'
  <2>1. lock' = lock /\ pc' = [pc EXCEPT ![p] = "lock"]
    BY <1>5 DEF BeginInstall, BeginRemove, BeginGc, Begin, Goto
  <2> QED
    BY <1>0, <2>1
<1>6. ASSUME NEW p \in Proc, Lock(p) PROVE LockInv'
  <2>1. lock = NoProc /\ lock' = p /\ \E l : pc' = [pc EXCEPT ![p] = l]
    BY <1>6 DEF Lock, Goto
  <2>2. \A q \in Proc : ~Past(q)
    BY <1>0, <2>1
  <2> QED
    BY <1>0, <2>1, <2>2
<1>7. ASSUME NEW p \in Proc, Install(p) PROVE LockInv'
  <2>1. CASE PlanRefuses(p)
    BY <1>2, <2>1 DEF PlanRefuses
  <2>2. CASE PutProvides(p) \/ Preserve(p) \/ DispossessDone(p) \/ PruneDone(p)
    BY <1>3, <2>2 DEF PutProvides, Preserve, DispossessDone, PruneDone
  <2>3. CASE Extract(p) \/ PruneUnlink(p)
    BY <2>3 DEF Extract, PruneUnlink
  <2>4. CASE ApplyStart(p) \/ JobStart(p) \/ PutHead(p) \/ PutManifest(p) \/ Dispossess(p)
             \/ Disown(p) \/ PruneStart(p) \/ Enqueue(p)
    BY <1>1, <2>4 DEF ApplyStart, JobStart, PutHead, PutManifest, Dispossess, Disown,
                      PruneStart, Enqueue, Goto
  <2> QED
    BY <1>7, <2>1, <2>2, <2>3, <2>4 DEF Install
<1>8. ASSUME NEW p \in Proc, Remove(p) \/ Gc(p) \/ Finish(p) PROVE LockInv'
  <2>1. CASE RemoveDies(p) \/ Finish(p)
    BY <1>2, <2>1 DEF RemoveDies, Finish
  <2>2. CASE RemoveCheck(p)
    BY <1>1, <1>2, <2>2 DEF RemoveCheck, Goto
  <2>3. CASE RemoveUnlink(p) \/ GcRecord(p) \/ GcSweep(p)
    BY <2>3 DEF RemoveUnlink, GcRecord, GcSweep
  <2>4. CASE RemovePick(p) \/ ForgetProvides(p) \/ ForgetFiles(p) \/ ForgetDir(p)
             \/ GcStart(p) \/ GcDone(p)
    BY <1>1, <2>4 DEF RemovePick, ForgetProvides, ForgetFiles, ForgetDir, GcStart, GcDone, Goto
  <2> QED
    BY <1>8, <2>1, <2>2, <2>3, <2>4 DEF Remove, Gc
<1>9. ASSUME NEW p \in Proc, Kill(p) PROVE LockInv'
  BY <1>2, <1>9 DEF Kill
<1>10. CASE Edit
  BY <1>10 DEF Edit
<1> QED
  BY <1>4, <1>5, <1>6, <1>7, <1>8, <1>9, <1>10 DEF Next, Step

\* Everything after the flock runs in one process at a time, kills included: what the plan
\* read is still so when apply acts on it (main.rs writer).
OneWriter == \A p, q \in Proc : Past(p) /\ Past(q) => p = q

THEOREM WritersExclude == Spec => []OneWriter
<1>1. Init => LockInv
  BY DEF Init, LockInv, Past
<1>2. LockInv => OneWriter
  BY DEF LockInv, OneWriter
<1> QED
  BY InitType, NextType, LockStep, <1>1, <1>2, PTL DEF Spec

----------------------------------------------------------------------------
(* Two records never claim one file. In the middle of an apply they may: under
   --force a job's record can be written long before dispossess takes its files
   from the others. What holds there is that the records outside the batch are
   disjoint, that each record written so far claims only what its archive ships,
   and that the jobs dispossess is past have no rival left. *)

Middle == {"job", "extract", "manifest", "provides", "preserve", "dispossess", "disown"}

Disjoint(S) ==
  \A k, l \in S : k # l /\ Readable(k) /\ Readable(l) => Own(man[k]) \cap Own(man[l]) = {}

\* the i-th record of p's batch has been written
Written(p, i) ==
  \/ pc[p] \in {"preserve", "dispossess", "disown"}
  \/ pc[p] \in {"job", "extract", "manifest"} /\ i < at[p]
  \/ pc[p] = "provides" /\ i =< at[p]

\* no other record claims what the i-th job of p's batch ships
Sole(p, i) ==
  \A k \in dirs \ {KeyOf(batch[p][i])} : Readable(k) => Own(man[k]) \cap Own(batch[p][i].ships) = {}

Settling(p) ==
  /\ Disjoint(dirs \ Keys(batch[p]))
  /\ \A i \in 1..Len(batch[p]) :
       /\ Written(p, i) /\ Readable(KeyOf(batch[p][i]))
          => Own(man[KeyOf(batch[p][i])]) \subseteq Own(batch[p][i].ships)
       /\ pc[p] \in {"dispossess", "disown"} /\ i < at[p] => Sole(p, i)

ExclInv ==
  kills = 0 => /\ (\A p \in Proc : pc[p] \notin Middle) => Disjoint(dirs)
               /\ \A p \in Proc : pc[p] \in Middle => Settling(p)

\* the step adds no record and gives none a file it did not claim
Shrunk ==
  /\ dirs' \subseteq dirs
  /\ \A k \in Key : Readable(k)' => Readable(k) /\ Own(man'[k]) \subseteq Own(man[k])

LEMMA ShrunkSame == ASSUME UNCHANGED <<dirs, man>> PROVE Shrunk
BY DEF Shrunk, Readable

LEMMA ShrunkDisjoint ==
  ASSUME TypeInv, Shrunk, Disjoint(dirs) PROVE Disjoint(dirs)'
BY DEF TypeInv, TypeOK, Shrunk, Disjoint

LEMMA ShrunkSettling ==
  ASSUME TypeInv, NEW p \in Proc, batch[p] \in Batches, Shrunk, Settling(p),
         pc'[p] = pc[p], at'[p] = at[p], batch'[p] = batch[p]
  PROVE  Settling(p)'
<1>1. dirs \subseteq Key /\ \A i \in 1..Len(batch[p]) : KeyOf(batch[p][i]) \in Key
  BY BatchJob DEF TypeInv, TypeOK
<1>2. Disjoint(dirs \ Keys(batch[p]))'
  <2>1. (dirs \ Keys(batch[p]))' \subseteq dirs \ Keys(batch[p])
    BY DEF Shrunk, Keys
  <2>2. Disjoint(dirs \ Keys(batch[p]))
    BY DEF Settling
  <2> QED
    BY <1>1, <2>1, <2>2 DEF Shrunk, Disjoint
<1>3. \A i \in 1..Len(batch[p]) : Written(p, i)' <=> Written(p, i)
  BY DEF Written
<1>4. \A i \in 1..Len(batch[p]) : Sole(p, i) => Sole(p, i)'
  BY <1>1 DEF Sole, Shrunk
<1> QED
  BY <1>1, <1>2, <1>3, <1>4 DEF Settling, Shrunk

\* A step of a process that is outside an apply before and after it.
LEMMA OutsideStep ==
  ASSUME TypeInv, ExclInv, NEW p \in Proc, kills' = kills, Shrunk,
         \A q \in Proc \ {p} : pc'[q] = pc[q] /\ batch'[q] = batch[q] /\ at'[q] = at[q],
         pc[p] \notin Middle, pc'[p] \notin Middle
  PROVE  ExclInv'
<1>1. ASSUME kills = 0, \A q \in Proc : pc'[q] \notin Middle PROVE Disjoint(dirs)'
  BY <1>1, ShrunkDisjoint DEF ExclInv
<1>2. ASSUME kills = 0, NEW q \in Proc, pc'[q] \in Middle PROVE Settling(q)'
  <2>1. /\ pc'[q] = pc[q] /\ batch'[q] = batch[q] /\ at'[q] = at[q] /\ Settling(q)
        /\ batch[q] \in Batches
    BY <1>2 DEF ExclInv, Middle, TypeInv, Applying
  <2> QED
    BY <2>1, ShrunkSettling
<1> QED
  BY <1>1, <1>2 DEF ExclInv

\* A step of the one process past the lock.
LEMMA InsideStep ==
  ASSUME LockInv, NEW p \in Proc, Past(p), kills' = kills,
         \A q \in Proc \ {p} : pc'[q] = pc[q],
         kills = 0 /\ pc'[p] \in Middle => Settling(p)',
         kills = 0 /\ pc'[p] \notin Middle => Disjoint(dirs)'
  PROVE  ExclInv'
<1>1. \A q \in Proc \ {p} : pc'[q] \notin Middle
  BY DEF LockInv, Past, Middle
<1> QED
  BY <1>1 DEF ExclInv

LEMMA ExclInstall ==
  ASSUME TypeInv, LockInv, ExclInv, NEW p \in Proc, Install(p) PROVE ExclInv'
<1> DEFINE b == batch[p]
           K(i) == KeyOf(b[i])
           I == 1..Len(b)
<1>0. pc = [q \in Proc |-> pc[q]] /\ at = [q \in Proc |-> at[q]] /\ dirs \subseteq Key
      /\ man \in [Key -> Manifest \cup {NoRecord}] /\ NoRecord \notin Manifest
  BY ConstantsAssumption DEF TypeInv, TypeOK, LocalsOK
<1>1. ASSUME pc[p] \in Middle
      PROVE  /\ b \in Batches /\ Len(b) \in Nat /\ at[p] \in I
             /\ Past(p) /\ (kills = 0 => Settling(p))
             /\ \A i \in I : K(i) \in Key /\ b[i].ships \in Manifest
             /\ Job(p) = b[at[p]] /\ KeyOf(Job(p)) = K(at[p]) /\ KeyOf(Job(p)) \in Keys(b)
  <2>1. b \in Batches /\ at[p] \in I /\ Past(p) /\ (kills = 0 => Settling(p))
    BY <1>1 DEF TypeInv, TypeOK, Middle, Applying, Past, ExclInv
  <2>2. Len(b) \in Nat
    BY <2>1, ConstantsAssumption
  <2> QED
    BY <2>1, <2>2, BatchJob DEF Job, Keys
<1>2. ASSUME NEW again \in Applying, NEW next \in Applying \cup {"enqueue"},
             pc[p] \in Middle, Advance(p, again, next)
      PROVE  /\ \A q \in Proc \ {p} : pc'[q] = pc[q]
             /\ \/ at[p] < Len(b) /\ at'[p] = at[p] + 1 /\ pc'[p] = again
                \/ at[p] = Len(b) /\ at'[p] = 1 /\ pc'[p] = next
  BY <1>0, <1>1, <1>2 DEF Advance, Goto, Set
<1>3. CASE PlanRefuses(p)
  BY <1>0, <1>3, OutsideStep, ShrunkSame DEF PlanRefuses, Exit, Goto, Set, Middle, db, counts
<1>4. CASE ApplyStart(p)
  <2>1. /\ pc[p] = "plan" /\ pc'[p] = "job" /\ at[p] = 1 /\ b \in Batches
        /\ \A q \in Proc \ {p} : pc'[q] = pc[q]
        /\ UNCHANGED <<dirs, man, batch, at, kills>>
    BY <1>0, <1>4 DEF ApplyStart, Goto, db, counts, TypeInv
  <2>2. Past(p) /\ \A q \in Proc : pc[q] \notin Middle
    BY <2>1 DEF Past, LockInv, Middle
  <2>3. ASSUME kills = 0 PROVE Settling(p)'
    <3>1. Disjoint(dirs)
      BY <2>2, <2>3 DEF ExclInv
    <3>2. \A i \in I : ~Written(p, i)'
      BY <2>1 DEF Written
    <3> QED
      BY <2>1, <3>1, <3>2 DEF Settling, Disjoint, Readable
  <2> QED
    BY <2>1, <2>2, <2>3, InsideStep DEF Middle
<1>5. CASE JobStart(p)
  <2>1. /\ pc[p] = "job" /\ pc'[p] = "extract" /\ \A q \in Proc \ {p} : pc'[q] = pc[q]
        /\ UNCHANGED <<dirs, man, batch, at, kills>>
    BY <1>0, <1>5 DEF JobStart, Goto, db, counts
  <2>2. \A i \in I : Written(p, i)' <=> Written(p, i)
    BY <2>1 DEF Written
  <2>3. kills = 0 => Settling(p)'
    BY <1>1, <2>1, <2>2 DEF Settling, Disjoint, Readable, Middle, Sole
  <2> QED
    BY <1>1, <2>1, <2>3, InsideStep DEF Middle
<1>6. CASE Extract(p)
  <2>1. /\ pc[p] = "extract" /\ UNCHANGED <<pc, dirs, man, batch, at, kills>>
    BY <1>6 DEF Extract, db, counts
  <2>2. kills = 0 => Settling(p)'
    BY <1>1, <2>1, ShrunkSettling, ShrunkSame DEF Middle
  <2> QED
    BY <1>1, <2>1, <2>2, InsideStep DEF Middle
<1>7. CASE PutHead(p)
  <2>1. /\ pc[p] = "extract" /\ pc'[p] = "manifest" /\ \A q \in Proc \ {p} : pc'[q] = pc[q]
        /\ dirs' = dirs \cup {KeyOf(Job(p))} /\ UNCHANGED <<man, batch, at, kills>>
    BY <1>0, <1>7 DEF PutHead, Goto, counts
  <2>2. \A i \in I : Written(p, i)' <=> Written(p, i)
    BY <2>1 DEF Written
  <2>3. (dirs \ Keys(b))' = dirs \ Keys(b)
    BY <1>1, <2>1 DEF Middle, Keys
  <2>4. kills = 0 => Settling(p)'
    BY <1>1, <2>1, <2>2, <2>3 DEF Settling, Disjoint, Readable, Middle
  <2> QED
    BY <1>1, <2>1, <2>4, InsideStep DEF Middle
<1>8. CASE PutManifest(p)
  <2>1. /\ pc[p] = "manifest" /\ pc'[p] = "provides" /\ \A q \in Proc \ {p} : pc'[q] = pc[q]
        /\ man' = [man EXCEPT ![KeyOf(Job(p))] = Job(p).ships]
        /\ UNCHANGED <<dirs, batch, at, kills>>
    BY <1>0, <1>8 DEF PutManifest, Goto, locals, counts
  <2>2. \A k \in Key \ {K(at[p])} : man'[k] = man[k]
    BY <1>0, <1>1, <2>1 DEF Middle
  <2>3. man'[K(at[p])] = b[at[p]].ships
    BY <1>0, <1>1, <2>1 DEF Middle
  <2>4. ASSUME kills = 0 PROVE Disjoint(dirs \ Keys(b))'
    <3>1. Disjoint(dirs \ Keys(b))
      BY <1>1, <2>1, <2>4 DEF Settling, Middle
    <3>2. \A k \in dirs \ Keys(b) : man'[k] = man[k]
      BY <1>0, <1>1, <2>1, <2>2 DEF Middle
    <3> QED
      BY <2>1, <3>1, <3>2 DEF Disjoint, Readable
  <2>5. ASSUME kills = 0, NEW i \in I, Written(p, i)', Readable(K(i))'
        PROVE  Own(man'[K(i)]) \subseteq Own(b[i].ships)
    <3>1. CASE i = at[p]
      BY <2>3, <3>1
    <3>2. CASE i # at[p]
      <4>1. K(i) # K(at[p])
        BY <1>1, <2>1, <3>2, BatchAssumption DEF Middle
      <4>2. Written(p, i)
        BY <1>1, <2>1, <2>5, <3>2 DEF Written, Middle
      <4> QED
        BY <1>1, <2>1, <2>2, <2>5, <4>1, <4>2 DEF Settling, Middle, Readable
    <3> QED
      BY <3>1, <3>2
  <2>6. kills = 0 => Settling(p)'
    BY <2>1, <2>4, <2>5 DEF Settling
  <2> QED
    BY <1>1, <2>1, <2>6, InsideStep DEF Middle
<1>9. CASE PutProvides(p)
  <2>1. /\ pc[p] = "provides" /\ Advance(p, "job", "preserve")
        /\ UNCHANGED <<dirs, man, batch, kills>>
    BY <1>9 DEF PutProvides, counts
  <2>2. /\ \A q \in Proc \ {p} : pc'[q] = pc[q]
        /\ \/ at[p] < Len(b) /\ at'[p] = at[p] + 1 /\ pc'[p] = "job"
           \/ at[p] = Len(b) /\ at'[p] = 1 /\ pc'[p] = "preserve"
    BY <1>2, <2>1 DEF Middle, Applying
  <2>3. \A i \in I : Written(p, i)' => Written(p, i)
    BY <1>1, <2>1, <2>2 DEF Written, Middle
  <2>4. kills = 0 => Settling(p)'
    BY <1>1, <2>1, <2>2, <2>3 DEF Settling, Disjoint, Readable, Middle
  <2> QED
    BY <1>1, <2>1, <2>2, <2>4, InsideStep DEF Middle
<1>10. CASE Preserve(p)
  <2>1. /\ pc[p] = "preserve" /\ Advance(p, "preserve", "dispossess")
        /\ UNCHANGED <<dirs, man, batch, kills>>
    BY <1>10 DEF Preserve, counts
  <2>2. /\ \A q \in Proc \ {p} : pc'[q] = pc[q]
        /\ \/ at[p] < Len(b) /\ at'[p] = at[p] + 1 /\ pc'[p] = "preserve"
           \/ at[p] = Len(b) /\ at'[p] = 1 /\ pc'[p] = "dispossess"
    BY <1>2, <2>1 DEF Middle, Applying
  <2>3. \A i \in I : Written(p, i)
    BY <2>1 DEF Written
  <2>4. \A i \in I : ~(pc'[p] \in {"dispossess", "disown"} /\ i < at'[p])
    BY <1>1, <2>1, <2>2 DEF Middle
  <2>5. ASSUME kills = 0 PROVE Settling(p)'
    <3>1. Settling(p)
      BY <1>1, <2>1, <2>5 DEF Middle
    <3> QED
      BY <2>1, <2>3, <2>4, <3>1 DEF Settling, Disjoint, Readable
  <2> QED
    BY <1>1, <2>1, <2>2, <2>5, InsideStep DEF Middle
<1>11. CASE Dispossess(p)
  <2>1. PICK k \in Losers(p) : man' = [man EXCEPT ![k] = Restricted(@, Own(@) \ Own(Job(p).ships))]
    BY <1>11 DEF Dispossess
  <2>2. /\ pc[p] = "dispossess" /\ pc'[p] = "disown" /\ \A q \in Proc \ {p} : pc'[q] = pc[q]
        /\ UNCHANGED <<dirs, batch, at, kills>>
    BY <1>0, <1>11 DEF Dispossess, Goto, counts
  <2>3. k \in Key /\ man[k] \in Manifest
    BY <1>0, <2>1 DEF Losers, Readable
  <2>4. Own(man'[k]) \subseteq Own(man[k]) /\ \A l \in Key \ {k} : man'[l] = man[l]
    BY <1>0, <2>1, <2>3, RestrictedOwn
  <2>5. Shrunk
    BY <2>2, <2>3, <2>4, <1>0 DEF Shrunk, Readable
  <2>6. ASSUME kills = 0 PROVE Settling(p)'
    <3>1. Settling(p)
      BY <1>1, <2>2, <2>6 DEF Middle
    <3>2. Disjoint(dirs \ Keys(b))'
      BY <1>0, <2>2, <2>5, <3>1 DEF Settling, Disjoint, Shrunk, Keys
    <3>3. ASSUME NEW i \in I, Readable(K(i))' PROVE Own(man'[K(i)]) \subseteq Own(b[i].ships)
      BY <1>1, <2>2, <2>5, <3>1, <3>3 DEF Settling, Shrunk, Written, Middle
    <3>4. ASSUME NEW i \in I, i < at[p] PROVE Sole(p, i)'
      BY <1>0, <2>2, <2>5, <3>1, <3>4 DEF Settling, Shrunk, Sole
    <3> QED
      BY <2>2, <3>2, <3>3, <3>4 DEF Settling
  <2> QED
    BY <1>1, <2>2, <2>6, InsideStep DEF Middle
<1>12. CASE Disown(p)
  <2>1. /\ pc[p] = "disown" /\ pc'[p] = "dispossess" /\ \A q \in Proc \ {p} : pc'[q] = pc[q]
        /\ UNCHANGED <<dirs, man, batch, at, kills>>
    BY <1>0, <1>12 DEF Disown, Goto, counts
  <2>2. \A i \in I : Written(p, i)
    BY <2>1 DEF Written
  <2>3. kills = 0 => Settling(p)'
    BY <1>1, <2>1, <2>2 DEF Settling, Disjoint, Readable, Middle, Sole
  <2> QED
    BY <1>1, <2>1, <2>3, InsideStep DEF Middle
<1>13. CASE DispossessDone(p)
  <2>1. /\ pc[p] = "dispossess" /\ Advance(p, "dispossess", "prune")
        /\ UNCHANGED <<dirs, man, batch, kills>> /\ Losers(p) = {}
    BY <1>13 DEF DispossessDone, db, counts
  <2>2. /\ \A q \in Proc \ {p} : pc'[q] = pc[q]
        /\ \/ at[p] < Len(b) /\ at'[p] = at[p] + 1 /\ pc'[p] = "dispossess"
           \/ at[p] = Len(b) /\ at'[p] = 1 /\ pc'[p] = "prune"
    BY <1>2, <2>1 DEF Middle, Applying
  <2>3. Sole(p, at[p])
    BY <1>1, <2>1 DEF Losers, Sole, Middle
  <2>4. at[p] \in I /\ Len(b) \in Nat /\ (kills = 0 => Settling(p))
    BY <1>1, <2>1 DEF Middle
  <2>5. ASSUME kills = 0, NEW i \in I, i =< at[p] PROVE Sole(p, i)
    BY <2>1, <2>3, <2>4, <2>5 DEF Settling
  <2>6. ASSUME kills = 0, NEW i \in I, Readable(K(i)) PROVE Own(man[K(i)]) \subseteq Own(b[i].ships)
    BY <2>1, <2>4, <2>6 DEF Settling, Written
  <2>7. CASE at[p] < Len(b) /\ at'[p] = at[p] + 1 /\ pc'[p] = "dispossess"
    <3>1. ASSUME kills = 0 PROVE Settling(p)'
      <4>1. \A i \in I : i < at'[p] => Sole(p, i)
        BY <2>4, <2>5, <2>7, <3>1
      <4>2. \A i \in I : Sole(p, i) => Sole(p, i)'
        BY <2>1 DEF Sole, Readable
      <4>3. Disjoint(dirs \ Keys(b))'
        BY <2>1, <2>4, <3>1 DEF Settling, Disjoint, Readable
      <4> QED
        BY <2>1, <2>6, <3>1, <4>1, <4>2, <4>3 DEF Settling, Readable
    <3> QED
      BY <1>1, <2>1, <2>2, <2>7, <3>1, InsideStep DEF Middle
  <2>8. CASE at[p] = Len(b) /\ at'[p] = 1 /\ pc'[p] = "prune"
    <3>1. ASSUME kills = 0, NEW i \in I, NEW l \in dirs, l # K(i), Readable(K(i)), Readable(l)
          PROVE  Own(man[K(i)]) \cap Own(man[l]) = {}
      <4>1. Sole(p, i)
        BY <2>4, <2>5, <2>8, <3>1
      <4> QED
        BY <2>6, <3>1, <4>1 DEF Sole
    <3>2. ASSUME kills = 0 PROVE Disjoint(dirs)
      <4>1. Disjoint(dirs \ Keys(b))
        BY <2>4, <3>2 DEF Settling
      <4>2. SUFFICES ASSUME NEW k \in dirs, NEW l \in dirs, k # l, Readable(k), Readable(l)
                     PROVE  Own(man[k]) \cap Own(man[l]) = {}
        BY DEF Disjoint
      <4>3. CASE k \in Keys(b)
        BY <3>1, <3>2, <4>2, <4>3 DEF Keys
      <4>4. CASE l \in Keys(b)
        BY <3>1, <3>2, <4>2, <4>4 DEF Keys
      <4>5. CASE k \notin Keys(b) /\ l \notin Keys(b)
        BY <4>1, <4>2, <4>5 DEF Disjoint
      <4> QED
        BY <4>3, <4>4, <4>5
    <3>3. kills = 0 => Disjoint(dirs)'
      BY <2>1, <3>2 DEF Disjoint, Readable
    <3> QED
      BY <1>1, <2>1, <2>2, <2>8, <3>3, InsideStep DEF Middle
  <2> QED
    BY <2>2, <2>7, <2>8
<1>14. CASE PruneStart(p) \/ PruneUnlink(p) \/ PruneDone(p) \/ Enqueue(p)
  <2>1. /\ pc[p] \in {"prune", "unlink", "enqueue"} /\ UNCHANGED <<dirs, man, batch, kills>>
        /\ pc'[p] \in {"prune", "unlink", "enqueue", "done"}
        /\ \A q \in Proc \ {p} : pc'[q] = pc[q] /\ at'[q] = at[q]
    BY <1>0, <1>14 DEF PruneStart, PruneUnlink, PruneDone, Enqueue, Advance, Goto, Set, db, locals, counts
  <2> QED
    BY <2>1, OutsideStep, ShrunkSame DEF Middle
<1> QED
  BY <1>3, <1>4, <1>5, <1>6, <1>7, <1>8, <1>9, <1>10, <1>11, <1>12, <1>13, <1>14 DEF Install

LEMMA ExclRemove ==
  ASSUME TypeInv, ExclInv, NEW p \in Proc, Remove(p) \/ Gc(p) \/ Finish(p)
  PROVE  ExclInv'
<1>0. /\ pc = [q \in Proc |-> pc[q]] /\ batch = [q \in Proc |-> batch[q]]
      /\ at = [q \in Proc |-> at[q]]
      /\ man \in [Key -> Manifest \cup {NoRecord}] /\ NoRecord \notin Manifest
  BY ConstantsAssumption DEF TypeInv, TypeOK, LocalsOK
<1>1. /\ pc[p] \notin Middle /\ pc'[p] \notin Middle /\ kills' = kills
      /\ \A q \in Proc \ {p} : pc'[q] = pc[q] /\ batch'[q] = batch[q] /\ at'[q] = at[q]
  <2>1. CASE RemoveCheck(p)
    BY <1>0, <2>1 DEF RemoveCheck, Exit, Goto, Set, Middle, counts
  <2>2. CASE RemoveDies(p) \/ Finish(p)
    BY <1>0, <2>2 DEF RemoveDies, Finish, Exit, Goto, Set, Middle, counts
  <2>3. CASE RemovePick(p) \/ ForgetProvides(p) \/ ForgetFiles(p) \/ GcStart(p) \/ GcDone(p)
    BY <1>0, <2>3 DEF RemovePick, ForgetProvides, ForgetFiles, GcStart, GcDone, Goto, Middle,
                      locals, counts
  <2>4. CASE ForgetDir(p)
    BY <1>0, <2>4 DEF ForgetDir, Goto, Middle, counts
  <2>5. CASE RemoveUnlink(p) \/ GcRecord(p) \/ GcSweep(p)
    BY <2>5 DEF RemoveUnlink, GcRecord, GcSweep, Middle, counts
  <2> QED
    BY <2>1, <2>2, <2>3, <2>4, <2>5 DEF Remove, Gc
<1>2. Shrunk
  <2>1. CASE ForgetFiles(p)
    BY <1>0, <2>1 DEF ForgetFiles, Shrunk, Readable
  <2>2. CASE ForgetDir(p)
    BY <2>2 DEF ForgetDir, Shrunk, Readable
  <2>3. CASE RemoveCheck(p) \/ RemoveDies(p) \/ RemovePick(p) \/ RemoveUnlink(p)
             \/ ForgetProvides(p) \/ Gc(p) \/ Finish(p)
    BY <2>3, ShrunkSame DEF RemoveCheck, RemoveDies, RemovePick, RemoveUnlink, ForgetProvides,
                            Gc, GcStart, GcRecord, GcSweep, GcDone, Finish, db
  <2> QED
    BY <2>1, <2>2, <2>3 DEF Remove
<1> QED
  BY <1>1, <1>2, OutsideStep

LEMMA ExclNext == TypeInv /\ LockInv /\ ExclInv /\ [Next]_vars => ExclInv'
<1> SUFFICES ASSUME TypeInv, LockInv, ExclInv, [Next]_vars PROVE ExclInv'
  OBVIOUS
<1>0. pc = [q \in Proc |-> pc[q]] /\ batch = [q \in Proc |-> batch[q]] /\ kills \in Nat
  BY DEF TypeInv, TypeOK, LocalsOK
<1>1. CASE UNCHANGED vars \/ Edit
  <2>1. UNCHANGED <<dirs, man, pc, batch, at, kills>>
    BY <1>1 DEF vars, Edit, db, locals, counts
  <2>2. Disjoint(dirs) => Disjoint(dirs)'
    BY <2>1 DEF Disjoint, Readable
  <2>3. ASSUME NEW p \in Proc, Settling(p) PROVE Settling(p)'
    BY <2>1, <2>3 DEF Settling, Disjoint, Readable, Written, Sole
  <2> QED
    BY <2>1, <2>2, <2>3 DEF ExclInv
<1>2. ASSUME NEW p \in Proc, BeginInstall(p) \/ BeginRemove(p) \/ BeginGc(p) \/ Lock(p)
      PROVE  ExclInv'
  <2>1. /\ pc[p] \notin Middle /\ UNCHANGED <<dirs, man, at, kills>>
        /\ \A q \in Proc \ {p} : pc'[q] = pc[q] /\ batch'[q] = batch[q]
    BY <1>0, <1>2 DEF BeginInstall, BeginRemove, BeginGc, Begin, Lock, Goto, Set, Middle, db,
                      locals, counts
  <2>2. pc'[p] \notin Middle
    BY <1>0, <1>2 DEF BeginInstall, BeginRemove, BeginGc, Begin, Lock, Goto, Middle, TypeInv
  <2> QED
    BY <2>1, <2>2, OutsideStep, ShrunkSame
<1>3. ASSUME NEW p \in Proc, Kill(p) PROVE ExclInv'
  BY <1>0, <1>3 DEF Kill, ExclInv
<1> QED
  BY <1>1, <1>2, <1>3, ExclInstall, ExclRemove DEF Next, Step

\* Until something is killed, no two records claim one file once the writer lock is free,
\* --force and both targets included: the planner's conflict check, the lock and dispossess
\* together (install.rs paths, dispossess; main.rs writer).
THEOREM RecordsDisjoint == Spec => []Exclusive
<1>1. Init => ExclInv
  BY DEF Init, ExclInv, Disjoint, Middle
<1>2. LockInv /\ ExclInv => Exclusive
  <2> SUFFICES ASSUME LockInv, ExclInv, Unkilled PROVE Exclusive
    BY DEF Exclusive
  <2>1. \A p \in Proc : pc[p] \notin Middle
    BY ConstantsAssumption DEF LockInv, Past, Unkilled, Quiet, Middle
  <2> QED
    BY <2>1 DEF ExclInv, Exclusive, Unkilled, Disjoint
<1>3. Init => LockInv
  BY DEF Init, LockInv, Past
<1> QED
  BY InitType, NextType, LockStep, ExclNext, <1>1, <1>2, <1>3, PTL DEF Spec


----------------------------------------------------------------------------
(* One process steps at a time, and one is past the lock. *)

\* the locals of every process but p are as they were
Others(p) ==
  \A q \in Proc \ {p} :
    /\ pc'[q] = pc[q] /\ op'[q] = op[q] /\ batch'[q] = batch[q] /\ force'[q] = force[q]
    /\ at'[q] = at[q] /\ was'[q] = was[q] /\ base'[q] = base[q] /\ skip'[q] = skip[q]
    /\ todo'[q] = todo[q] /\ kept'[q] = kept[q] /\ going'[q] = going[q]

LEMMA ExitOthers == ASSUME TypeInv, NEW p \in Proc, Exit(p) PROVE Others(p)
BY DEF TypeInv, TypeOK, LocalsOK, Exit, Goto, Set, Others

LEMMA StepOthers ==
  ASSUME TypeInv, NEW p \in Proc, Step(p) PROVE Others(p)
<1> USE DEF TypeInv, TypeOK, LocalsOK, Others
<1>1. CASE Lock(p)
  BY <1>1 DEF Lock, Goto, locals
<1>2. CASE PlanRefuses(p) \/ RemoveDies(p) \/ Finish(p)
  BY <1>2, ExitOthers DEF PlanRefuses, RemoveDies, Finish
<1>3. CASE ApplyStart(p) \/ JobStart(p) \/ Extract(p)
  BY <1>3 DEF ApplyStart, JobStart, Extract, Goto, Set
<1>4. CASE PutHead(p) \/ PutManifest(p)
  BY <1>4 DEF PutHead, PutManifest, Goto, locals
<1>5. CASE PutProvides(p)
  BY <1>5 DEF PutProvides, Advance, Goto, Set
<1>6. CASE Preserve(p)
  BY <1>6 DEF Preserve, Advance, Goto, Set
<1>7. CASE Dispossess(p) \/ Disown(p)
  BY <1>7 DEF Dispossess, Disown, Goto, Set
<1>8. CASE DispossessDone(p) \/ PruneDone(p)
  BY <1>8 DEF DispossessDone, PruneDone, Advance, Goto, Set
<1>9. CASE PruneStart(p) \/ PruneUnlink(p) \/ Enqueue(p)
  BY <1>9 DEF PruneStart, PruneUnlink, Drop, Enqueue, Goto, Set, locals
<1>10. CASE RemoveCheck(p)
  <2>1. CASE Exit(p)
    BY <2>1, ExitOthers
  <2>2. CASE ~Exit(p)
    BY <1>10, <2>2 DEF RemoveCheck, Goto, Set
  <2> QED
    BY <2>1, <2>2
<1>11. CASE RemovePick(p) \/ RemoveUnlink(p)
  BY <1>11 DEF RemovePick, RemoveUnlink, Drop, Goto, Set
<1>12. CASE ForgetProvides(p) \/ ForgetFiles(p) \/ ForgetDir(p)
  BY <1>12 DEF ForgetProvides, ForgetFiles, ForgetDir, Goto, locals
<1>13. CASE GcStart(p) \/ GcRecord(p) \/ GcSweep(p) \/ GcDone(p)
  BY <1>13 DEF GcStart, GcRecord, GcSweep, GcDone, Goto, Set, locals
<1> QED
  BY <1>1, <1>2, <1>3, <1>4, <1>5, <1>6, <1>7, <1>8, <1>9, <1>10, <1>11, <1>12, <1>13
     DEF Step, Install, Remove, Gc

LEMMA AloneStep ==
  ASSUME LockInv, NEW p \in Proc, Past(p), Others(p)
  PROVE  \A q \in Proc \ {p} : pc[q] \in {"idle", "lock"} /\ pc'[q] \in {"idle", "lock"}
BY DEF LockInv, Past, Others

\* The steps that are not past the lock: a command begins, takes the lock or is killed
\* while it waits for it, and the user edits.
Outside ==
  \/ UNCHANGED vars \/ Edit
  \/ \E p \in Proc : /\ ~Past(p)
                     /\ BeginInstall(p) \/ BeginRemove(p) \/ BeginGc(p) \/ Lock(p) \/ Kill(p)

\* one of the processes may be at its start or at its end, the rest is as it was
LEMMA OutsideKeeps ==
  ASSUME TypeInv, LockInv, Outside
  PROVE  /\ UNCHANGED <<db, queue, tangled>> /\ kills' \in Nat /\ (kills' = 0 => kills = 0)
         /\ \A q \in Proc :
              \/ /\ pc[q] \in {"idle", "lock"} /\ pc'[q] \in {"idle", "lock", "plan", "check", "gc"}
                 /\ was'[q] = was[q] \/ was'[q] = [k \in Key |-> NoRecord]
                 /\ base'[q] = base[q] \/ base'[q] = Nothing
                 /\ todo'[q] = todo[q] \/ todo'[q] = {}
              \/ /\ pc'[q] = pc[q] /\ op'[q] = op[q] /\ batch'[q] = batch[q] /\ force'[q] = force[q]
                 /\ at'[q] = at[q] /\ was'[q] = was[q] /\ base'[q] = base[q] /\ skip'[q] = skip[q]
                 /\ todo'[q] = todo[q] /\ kept'[q] = kept[q] /\ going'[q] = going[q]
<1> USE DEF TypeInv, TypeOK, LocalsOK
<1>1. CASE UNCHANGED vars \/ Edit
  BY <1>1 DEF vars, Edit, locals, counts
<1>2. ASSUME NEW p \in Proc, ~Past(p),
             BeginInstall(p) \/ BeginRemove(p) \/ BeginGc(p) \/ Lock(p) \/ Kill(p)
      PROVE  /\ UNCHANGED <<db, queue, tangled>> /\ kills' \in Nat /\ (kills' = 0 => kills = 0)
             /\ pc'[p] \in {"idle", "lock", "plan", "check", "gc"}
             /\ was'[p] = was[p] \/ was'[p] = [k \in Key |-> NoRecord]
             /\ base'[p] = base[p] \/ base'[p] = Nothing
             /\ todo'[p] = todo[p] \/ todo'[p] = {}
             /\ Others(p)
  <2>1. CASE BeginInstall(p)
    BY <2>1 DEF BeginInstall, Begin, Goto, Set, Others
  <2>2. CASE BeginRemove(p)
    BY <2>2 DEF BeginRemove, Begin, Goto, Set, Others
  <2>3. CASE BeginGc(p)
    BY <2>3 DEF BeginGc, Begin, Goto, Set, Others
  <2>4. CASE Lock(p)
    BY <2>4 DEF Lock, Goto, locals, counts, Others
  <2>5. CASE Kill(p)
    <3>1. kills \in Nat /\ kills' = kills + 1 /\ UNCHANGED <<db, queue, tangled>> /\ Exit(p)
      BY <2>5 DEF Kill
    <3>2. pc'[p] = "idle" /\ was'[p] = [k \in Key |-> NoRecord] /\ base'[p] = Nothing /\ todo'[p] = {}
      BY <3>1 DEF Exit, Goto, Set
    <3> QED
      BY <3>1, <3>2, ExitOthers
  <2> QED
    BY <1>2, <2>1, <2>2, <2>3, <2>4, <2>5
<1> QED
  BY <1>1, <1>2 DEF Outside, Past, Others

\* Every other step is one of the process past the lock.
LEMMA InsideOrOut ==
  ASSUME TypeInv, LockInv, [Next]_vars
  PROVE  \/ Outside
         \/ \E p \in Proc : Past(p) /\ (Install(p) \/ Remove(p) \/ Gc(p) \/ Finish(p) \/ Kill(p))
<1>1. ASSUME NEW p \in Proc, Install(p) \/ Remove(p) \/ Gc(p) \/ Finish(p) PROVE Past(p)
  BY <1>1 DEF Past, Install, PlanRefuses, ApplyStart, JobStart, Extract, PutHead, PutManifest,
     PutProvides, Preserve, Dispossess, Disown, DispossessDone, PruneStart, PruneUnlink, PruneDone,
     Enqueue, Remove, RemoveCheck, RemoveDies, RemovePick, RemoveUnlink, ForgetProvides,
     ForgetFiles, ForgetDir, Gc, GcStart, GcRecord, GcSweep, GcDone, Finish
<1>2. ASSUME NEW p \in Proc, BeginInstall(p) \/ BeginRemove(p) \/ BeginGc(p) \/ Lock(p) PROVE ~Past(p)
  BY <1>2 DEF Past, BeginInstall, BeginRemove, BeginGc, Begin, Lock
<1> QED
  BY <1>1, <1>2 DEF Next, Step, Outside

----------------------------------------------------------------------------
(* Records are whole: who has a manifest has a directory, always, and who has a
   directory has a manifest but where a transaction is at work on it. *)

Leaving == {"pick", "remove", "forget", "rmdir"}

\* the one record the running transaction has cut in half
Half(p, k) ==
  \/ pc[p] = "manifest" /\ k = KeyOf(Job(p))
  \/ pc[p] = "rmdir" /\ k = Removing(p)

\* what p is at work on is what its command is about
Handles(p) ==
  /\ pc[p] = "manifest" => KeyOf(Job(p)) \in dirs
  /\ pc[p] \in Leaving => going[p] \subseteq dirs
  /\ pc[p] \in Leaving \ {"pick"} => Removing(p) \in going[p]
  /\ pc[p] = "rmdir" => ~Readable(Removing(p))

Listed == \A k \in Key : Readable(k) => k \in dirs
Legible == \A k \in dirs : Readable(k) \/ \E p \in Proc : Half(p, k)
WholeInv == Listed /\ (\A p \in Proc : Handles(p)) /\ (kills = 0 => Legible)

LEMMA WholeInside ==
  ASSUME LockInv, NEW p \in Proc, Past(p), Others(p), Listed', Handles(p)', kills' = 0 => Legible'
  PROVE  WholeInv'
BY AloneStep DEF WholeInv, Handles, Leaving

\* a step that changes no record, from one place to another where none is cut in half
LEMMA WholeElsewhere ==
  ASSUME TypeInv, LockInv, WholeInv, NEW p \in Proc, Past(p), Others(p), UNCHANGED <<dirs, man>>,
         kills' \in Nat, kills' = 0 => kills = 0,
         pc[p] \notin {"manifest", "rmdir"}, pc'[p] \notin {"manifest"} \cup Leaving
  PROVE  WholeInv'
<1>1. Listed'
  BY DEF WholeInv, Listed, Readable
<1>2. Handles(p)'
  BY DEF Handles, Leaving
<1>3. ASSUME kills' = 0 PROVE Legible'
  <2>1. \A k \in dirs : Readable(k)
    BY <1>3, AloneStep DEF WholeInv, Legible, Half
  <2> QED
    BY <2>1 DEF Legible, Readable
<1> QED
  BY <1>1, <1>2, <1>3, WholeInside

LEMMA WholeOutside == ASSUME TypeInv, LockInv, WholeInv, Outside PROVE WholeInv'
<1>1. UNCHANGED <<dirs, man>> /\ (kills' = 0 => kills = 0)
  BY OutsideKeeps DEF db
<1>2. ASSUME NEW p \in Proc
      PROVE  /\ Handles(p)'
             /\ \A k \in Key : Half(p, k) => Half(p, k)'
  <2>1. CASE pc[p] \in {"idle", "lock"} /\ pc'[p] \in {"idle", "lock", "plan", "check", "gc"}
    BY <2>1 DEF Handles, Half, Leaving
  <2>2. CASE ~(pc[p] \in {"idle", "lock"} /\ pc'[p] \in {"idle", "lock", "plan", "check", "gc"})
    <3>1. /\ pc'[p] = pc[p] /\ batch'[p] = batch[p] /\ at'[p] = at[p] /\ was'[p] = was[p]
          /\ going'[p] = going[p]
      BY <2>2, OutsideKeeps
    <3>2. Job(p)' = Job(p) /\ Removing(p)' = Removing(p)
      BY <3>1, Zenon DEF Job, Removing
    <3>3. Handles(p)
      BY DEF WholeInv
    <3> QED
      BY <1>1, <3>1, <3>2, <3>3 DEF Handles, Half, Readable, KeyOf
  <2> QED
    BY <2>1, <2>2
<1>3. Listed'
  BY <1>1 DEF WholeInv, Listed, Readable
<1>4. kills' = 0 => Legible'
  BY <1>1, <1>2 DEF WholeInv, Legible, Readable, TypeInv, TypeOK
<1> QED
  BY <1>2, <1>3, <1>4 DEF WholeInv

LEMMA WholeExit ==
  ASSUME TypeInv, LockInv, WholeInv, NEW p \in Proc, Past(p), Exit(p), UNCHANGED <<dirs, man>>,
         kills' \in Nat, kills' = 0 => kills = 0 /\ pc[p] \notin {"manifest", "rmdir"}
  PROVE  WholeInv'
<1>1. pc'[p] = "idle" /\ Others(p)
  BY ExitOthers DEF Exit, Goto, TypeInv, TypeOK
<1>2. CASE kills' = 0
  BY <1>1, <1>2, WholeElsewhere DEF Leaving
<1>3. CASE kills' # 0
  <2>1. Listed'
    BY DEF WholeInv, Listed, Readable
  <2>2. Handles(p)'
    BY <1>1 DEF Handles, Leaving
  <2> QED
    BY <1>1, <1>3, <2>1, <2>2, WholeInside
<1> QED
  BY <1>2, <1>3

LEMMA WholeInstall ==
  ASSUME TypeInv, LockInv, WholeInv, NEW p \in Proc, Past(p), Install(p)
  PROVE  WholeInv'
<1>0. /\ pc = [q \in Proc |-> pc[q]] /\ dirs \subseteq Key /\ kills \in Nat
      /\ man \in [Key -> Manifest \cup {NoRecord}] /\ NoRecord \notin Manifest
      /\ Others(p)
  BY StepOthers, ConstantsAssumption DEF TypeInv, TypeOK, Step
<1>1. CASE PlanRefuses(p)
  BY <1>0, <1>1, WholeExit DEF PlanRefuses, db, counts
<1>2. CASE ApplyStart(p) \/ JobStart(p) \/ PruneStart(p) \/ Enqueue(p) \/ Disown(p)
  <2>1. /\ pc[p] \notin {"manifest", "rmdir"} /\ pc'[p] \notin {"manifest"} \cup Leaving
        /\ UNCHANGED <<dirs, man, kills>>
    BY <1>0, <1>2 DEF ApplyStart, JobStart, PruneStart, Enqueue, Disown, Goto, db, counts, Leaving
  <2> QED
    BY <1>0, <2>1, WholeElsewhere
<1>3. CASE Extract(p) \/ PruneUnlink(p)
  <2>1. /\ pc[p] \notin {"manifest", "rmdir"} /\ pc'[p] \notin {"manifest"} \cup Leaving
        /\ UNCHANGED <<dirs, man, kills>>
    BY <1>3 DEF Extract, PruneUnlink, db, counts, Leaving
  <2> QED
    BY <1>0, <2>1, WholeElsewhere
<1>4. CASE PutProvides(p) \/ Preserve(p) \/ DispossessDone(p) \/ PruneDone(p)
  <2>1. /\ pc[p] \notin {"manifest", "rmdir"} /\ pc'[p] \notin {"manifest"} \cup Leaving
        /\ UNCHANGED <<dirs, man, kills>>
    BY <1>0, <1>4 DEF PutProvides, Preserve, DispossessDone, PruneDone, Advance, Goto, db, counts, Leaving
  <2> QED
    BY <1>0, <2>1, WholeElsewhere
<1>5. CASE PutHead(p)
  <2>1. /\ pc[p] = "extract" /\ pc'[p] = "manifest" /\ dirs' = dirs \cup {KeyOf(Job(p))}
        /\ UNCHANGED <<man, kills, batch, at>>
    BY <1>0, <1>5 DEF PutHead, Goto, counts
  <2>2. Job(p)' = Job(p)
    BY <2>1 DEF Job
  <2>3. Listed' /\ Handles(p)'
    BY <2>1, <2>2 DEF WholeInv, Listed, Readable, Handles, KeyOf, Leaving
  <2>4. kills = 0 => \A k \in dirs : Readable(k)
    BY <2>1, AloneStep, <1>0 DEF WholeInv, Legible, Half
  <2>5. Half(p, KeyOf(Job(p)))'
    BY <2>1, <2>2 DEF Half, KeyOf
  <2>6. KeyOf(Job(p))' = KeyOf(Job(p))
    BY <2>2 DEF KeyOf
  <2>7. kills' = 0 => Legible'
    BY <2>1, <2>4, <2>5, <2>6 DEF Legible, Readable
  <2> QED
    BY <1>0, <2>3, <2>7, WholeInside
<1>6. CASE PutManifest(p)
  <2>1. /\ pc[p] = "manifest" /\ pc'[p] = "provides" /\ UNCHANGED <<dirs, kills>>
        /\ man' = [man EXCEPT ![KeyOf(Job(p))] = Job(p).ships]
    BY <1>0, <1>6 DEF PutManifest, Goto, counts
  <2>2. KeyOf(Job(p)) \in Key /\ Job(p).ships \in Manifest /\ KeyOf(Job(p)) \in dirs
    BY <2>1, JobType DEF Applying, WholeInv, Handles
  <2>3. \A k \in Key : Readable(k)' <=> k = KeyOf(Job(p)) \/ Readable(k)
    BY <1>0, <2>1, <2>2 DEF Readable
  <2>4. Listed' /\ Handles(p)'
    BY <2>1, <2>2, <2>3 DEF WholeInv, Listed, Handles, Leaving
  <2>5. kills = 0 => \A k \in dirs \ {KeyOf(Job(p))} : Readable(k)
    BY <2>1, AloneStep, <1>0 DEF WholeInv, Legible, Half
  <2>6. kills' = 0 => Legible'
    BY <1>0, <2>1, <2>3, <2>5 DEF Legible
  <2> QED
    BY <1>0, <2>4, <2>6, WholeInside
<1>7. CASE Dispossess(p)
  <2>1. PICK k \in Losers(p) : man' = [man EXCEPT ![k] = Restricted(@, Own(@) \ Own(Job(p).ships))]
    BY <1>7 DEF Dispossess
  <2>2. /\ pc[p] = "dispossess" /\ pc'[p] = "disown" /\ UNCHANGED <<dirs, kills>>
    BY <1>0, <1>7 DEF Dispossess, Goto, counts
  <2>3. k \in Key /\ man[k] \in Manifest
    BY <1>0, <2>1 DEF Losers, Readable
  <2>4. \A l \in Key : Readable(l)' <=> Readable(l)
    BY <1>0, <2>1, <2>3, RestrictedType DEF Readable
  <2>5. Listed' /\ Handles(p)'
    BY <2>2, <2>4 DEF WholeInv, Listed, Handles, Leaving
  <2>6. kills = 0 => \A l \in dirs : Readable(l)
    BY <2>2, AloneStep, <1>0 DEF WholeInv, Legible, Half
  <2>7. kills' = 0 => Legible'
    BY <1>0, <2>2, <2>4, <2>6 DEF Legible
  <2> QED
    BY <1>0, <2>5, <2>7, WholeInside
<1> QED
  BY <1>1, <1>2, <1>3, <1>4, <1>5, <1>6, <1>7 DEF Install

LEMMA WholeRemove ==
  ASSUME TypeInv, LockInv, WholeInv, NEW p \in Proc, Past(p),
         Remove(p) \/ Gc(p) \/ Finish(p) \/ Kill(p)
  PROVE  WholeInv'
<1>0. /\ pc = [q \in Proc |-> pc[q]] /\ going = [q \in Proc |-> going[q]] /\ dirs \subseteq Key
      /\ kills \in Nat /\ man \in [Key -> Manifest \cup {NoRecord}] /\ NoRecord \notin Manifest
      /\ was \in [Proc -> [Key -> Manifest \cup {NoRecord}]] /\ going[p] \subseteq Key
      /\ Others(p)
  BY StepOthers, ExitOthers, ConstantsAssumption DEF TypeInv, TypeOK, LocalsOK, Step, Kill
<1>1. CASE Kill(p)
  <2>1. Exit(p) /\ UNCHANGED <<dirs, man>> /\ kills' = kills + 1
    BY <1>1 DEF Kill, db
  <2> QED
    BY <1>0, <2>1, WholeExit
<1>2. CASE RemoveDies(p) \/ Finish(p) \/ (RemoveCheck(p) /\ RemoveRefused(p))
  <2>1. Exit(p) /\ UNCHANGED <<dirs, man, kills>> /\ pc[p] \notin {"manifest", "rmdir"}
    BY <1>2 DEF RemoveDies, Finish, RemoveCheck, db, counts
  <2> QED
    BY <1>0, <2>1, WholeExit
<1>3. CASE GcStart(p) \/ GcDone(p)
  <2>1. /\ pc[p] \notin {"manifest", "rmdir"} /\ pc'[p] \notin {"manifest"} \cup Leaving
        /\ UNCHANGED <<dirs, man, kills>>
    BY <1>0, <1>3 DEF GcStart, GcDone, Goto, db, counts, Leaving
  <2> QED
    BY <1>0, <2>1, WholeElsewhere
<1>4. CASE GcRecord(p) \/ GcSweep(p)
  <2>1. /\ pc[p] \notin {"manifest", "rmdir"} /\ pc'[p] \notin {"manifest"} \cup Leaving
        /\ UNCHANGED <<dirs, man, kills>>
    BY <1>4 DEF GcRecord, GcSweep, db, counts, Leaving
  <2> QED
    BY <1>0, <2>1, WholeElsewhere
<1>5. ASSUME UNCHANGED <<dirs, man, kills>>, Handles(p)', pc[p] \notin {"manifest", "rmdir"}
      PROVE  WholeInv'
  <2>1. Listed'
    BY <1>5 DEF WholeInv, Listed, Readable
  <2>2. kills = 0 => \A k \in dirs : Readable(k)
    BY <1>5, AloneStep, <1>0 DEF WholeInv, Legible, Half
  <2>3. kills' = 0 => Legible'
    BY <1>5, <2>2 DEF Legible, Readable
  <2> QED
    BY <1>0, <1>5, <2>1, <2>3, WholeInside
<1>6. CASE RemoveCheck(p) /\ ~RemoveRefused(p)
  <2>1. /\ pc[p] = "check" /\ pc'[p] = "pick" /\ going'[p] = going[p] \cap dirs
        /\ UNCHANGED <<dirs, man, kills>>
    BY <1>0, <1>6 DEF RemoveCheck, Goto, db, counts
  <2> QED
    BY <1>5, <2>1 DEF Handles, Leaving
<1>7. CASE RemovePick(p)
  <2>1. PICK k \in going[p] :
          /\ ~Unread(p, k.target)
          /\ was' = Set(was, p, [l \in Key |-> IF l = k THEN man[k] ELSE NoRecord])
    BY <1>7 DEF RemovePick
  <2>2. /\ pc[p] = "pick" /\ pc'[p] = "remove" /\ UNCHANGED <<dirs, man, kills, going>>
    BY <1>0, <1>7 DEF RemovePick, Goto, db, counts
  <2>3. k \in Key /\ man[k] # NoRecord
    BY <1>0, <2>1 DEF Unread, Readable
  <2>4. \A l \in Key : was'[p][l] # NoRecord <=> l = k
    BY <1>0, <2>1, <2>3 DEF Set
  <2>5. Removing(p)' = k
    BY <2>3, <2>4 DEF Removing
  <2>6. Handles(p)'
    BY <2>2, <2>5, <2>1 DEF Handles, Leaving, WholeInv
  <2> QED
    BY <1>5, <2>2, <2>6
<1>8. ASSUME was' = was PROVE Removing(p)' = Removing(p)
  BY <1>8, Zenon DEF Removing
<1>9. CASE RemoveUnlink(p)
  <2>1. /\ pc[p] = "remove" /\ UNCHANGED <<dirs, man, kills, pc, going, was>>
    BY <1>9 DEF RemoveUnlink, db, counts
  <2> QED
    BY <1>5, <1>8, <2>1 DEF Handles, WholeInv, Leaving
<1>10. CASE ForgetProvides(p)
  <2>1. /\ pc[p] = "remove" /\ pc'[p] = "forget" /\ UNCHANGED <<dirs, man, kills, going, was>>
    BY <1>0, <1>10 DEF ForgetProvides, locals, counts, Goto
  <2> QED
    BY <1>5, <1>8, <2>1 DEF Handles, WholeInv, Leaving
<1>11. CASE ForgetFiles(p)
  <2>1. /\ pc[p] = "forget" /\ pc'[p] = "rmdir" /\ UNCHANGED <<dirs, kills, going, was>>
        /\ man' = [man EXCEPT ![Removing(p)] = NoRecord]
    BY <1>0, <1>11 DEF ForgetFiles, locals, counts, Goto
  <2>2. Removing(p) \in going[p] /\ Removing(p) \in Key /\ going[p] \subseteq dirs
    BY <1>0, <2>1 DEF WholeInv, Handles, Leaving
  <2>3. man'[Removing(p)] = NoRecord /\ \A k \in Key \ {Removing(p)} : man'[k] = man[k]
    BY <1>0, <2>1, <2>2
  <2>4. Removing(p)' = Removing(p)
    BY <1>8, <2>1
  <2>5. Listed'
    BY <1>0, <2>1, <2>2, <2>3 DEF WholeInv, Listed, Readable
  <2>6. Handles(p)'
    BY <2>1, <2>2, <2>3, <2>4 DEF Handles, Readable, Leaving
  <2>7. kills = 0 => \A k \in dirs : Readable(k)
    BY <2>1, AloneStep, <1>0 DEF WholeInv, Legible, Half
  <2>8. kills' = 0 => Legible'
    BY <1>0, <2>1, <2>3, <2>4, <2>7 DEF Legible, Readable, Half
  <2> QED
    BY <1>0, <2>5, <2>6, <2>8, WholeInside
<1>12. CASE ForgetDir(p)
  <2>1. /\ pc[p] = "rmdir" /\ pc'[p] \in {"done", "pick"} /\ UNCHANGED <<man, kills>>
        /\ dirs' = dirs \ {Removing(p)} /\ going'[p] = going[p] \ {Removing(p)}
    BY <1>0, <1>12 DEF ForgetDir, Goto, counts
  <2>2. ~Readable(Removing(p)) /\ going[p] \subseteq dirs
    BY <2>1 DEF WholeInv, Handles, Leaving
  <2>3. Listed'
    BY <2>1, <2>2 DEF WholeInv, Listed, Readable
  <2>4. Handles(p)'
    BY <2>1, <2>2 DEF Handles, Leaving
  <2>5. kills = 0 => \A k \in dirs \ {Removing(p)} : Readable(k)
    BY <2>1, AloneStep, <1>0 DEF WholeInv, Legible, Half
  <2>6. kills' = 0 => Legible'
    BY <2>1, <2>5 DEF Legible, Readable
  <2> QED
    BY <1>0, <2>3, <2>4, <2>6, WholeInside
<1> QED
  BY <1>1, <1>2, <1>3, <1>4, <1>6, <1>7, <1>9, <1>10, <1>11, <1>12 DEF Remove, Gc

LEMMA WholeNext == TypeInv /\ LockInv /\ WholeInv /\ [Next]_vars => WholeInv'
BY InsideOrOut, WholeOutside, WholeInstall, WholeRemove

LEMMA WholeInit == Init => WholeInv
BY DEF Init, WholeInv, Listed, Legible, Readable, Handles, Leaving

\* A record with a manifest is in a directory, and until something is killed every record
\* directory has its manifest when the lock is free: no command has to cope with half a
\* record that no kill left (db.rs put and forget, install.rs apply and remove).
RecordsWhole ==
  /\ \A k \in Key : Readable(k) => k \in dirs
  /\ Unkilled => \A k \in dirs : Readable(k)

THEOREM NoHalfRecord == Spec => []RecordsWhole
<1>1. LockInv /\ WholeInv => RecordsWhole
  <2> SUFFICES ASSUME LockInv, WholeInv PROVE RecordsWhole
    OBVIOUS
  <2>1. Unkilled => \A p \in Proc : ~Past(p)
    BY ConstantsAssumption DEF LockInv, Unkilled, Quiet
  <2> QED
    BY <2>1 DEF WholeInv, Listed, Legible, Half, Past, RecordsWhole, Unkilled
<1>2. Init => LockInv
  BY DEF Init, LockInv, Past
<1> QED
  BY InitType, NextType, LockStep, WholeInit, WholeNext, <1>1, <1>2, PTL DEF Spec

----------------------------------------------------------------------------
(* Runtime deps stay met. In the middle of an install the deps of what is in
   may still be on their way, and in the middle of a removal only the records
   that stay have theirs: that is what the invariant says of each phase. *)

\* Nobody forces anything. A forced install skips install::deps, a forced removal held_by.
Unforced == TRUE \notin Forcing
\* A dep a batch has a job for, it has one for on the target that wants it: install::deps
\* looks at the name alone, and takes a job of any target for the dep.
SameTarget ==
  \A b \in Batches : \A i, j \in 1..Len(b) :
    b[j].name \in b[i].depends => [name |-> b[j].name, target |-> b[i].target] \in Keys(b)

Dep(k, d) == [name |-> d, target |-> k.target]
\* what the records in S need is in D
Within(S, D) == \A k \in S : \A d \in depends[k] : Dep(k, d) \in D

Writing == {"job", "extract", "manifest", "provides"}
\* the i-th record of p's batch has its directory
Put(p, i) ==
  \/ pc[p] \in {"job", "extract"} /\ i < at[p]
  \/ pc[p] \in {"manifest", "provides"} /\ i =< at[p]
Coming(p) == dirs \cup Keys(batch[p])
PutMet(p) ==
  /\ Within(dirs, Coming(p))
  /\ \A i \in 1..Len(batch[p]) :
       /\ Put(p, i) => KeyOf(batch[p][i]) \in dirs
       /\ \A d \in batch[p][i].depends : Dep(KeyOf(batch[p][i]), d) \in Coming(p)

Met(p) ==
  /\ pc[p] \in Writing => PutMet(p)
  /\ pc[p] \in Leaving => Within(dirs \ going[p], dirs \ going[p])
  /\ pc[p] \notin Writing \cup Leaving => Within(dirs, dirs)
MetInv ==
  kills = 0 => /\ (\A p \in Proc : ~Past(p)) => Within(dirs, dirs)
               /\ \A p \in Proc : Past(p) => Met(p)
NoForce == \A p \in Proc : ~force[p]

LEMMA NoForceNext == ASSUME Unforced, TypeInv, NoForce, [Next]_vars PROVE NoForce'
<1> USE DEF NoForce, TypeInv, TypeOK, LocalsOK
<1>1. CASE UNCHANGED vars \/ Edit
  BY <1>1 DEF vars, Edit, locals
<1>2. ASSUME NEW p \in Proc, Exit(p) PROVE NoForce'
  BY <1>2 DEF Exit, Set
<1>3. ASSUME NEW p \in Proc, BeginInstall(p) \/ BeginRemove(p) \/ BeginGc(p) PROVE NoForce'
  BY <1>3, ConstantsAssumption DEF BeginInstall, BeginRemove, BeginGc, Set, Unforced
<1>4. ASSUME NEW p \in Proc, Lock(p) \/ Remove(p) \/ Gc(p) \/ Finish(p) \/ Kill(p) PROVE NoForce'
  BY <1>2, <1>4 DEF Lock, Remove, RemoveCheck, RemoveDies, RemovePick, RemoveUnlink, ForgetProvides,
     ForgetFiles, ForgetDir, Gc, GcStart, GcRecord, GcSweep, GcDone, Finish, Kill, locals
<1>5. ASSUME NEW p \in Proc, Install(p) PROVE NoForce'
  BY <1>2, <1>5 DEF Install, PlanRefuses, ApplyStart, JobStart, Extract, PutHead, PutManifest,
     PutProvides, Preserve, Dispossess, Disown, DispossessDone, PruneStart, PruneUnlink, PruneDone,
     Enqueue, locals
<1> QED
  BY <1>1, <1>3, <1>4, <1>5 DEF Next, Step

LEMMA MetInside ==
  ASSUME LockInv, NEW p \in Proc, Past(p), Others(p), kills' = 0 => Met(p)'
  PROVE  MetInv'
<1>1. \A q \in Proc \ {p} : ~Past(q)'
  BY AloneStep DEF Past
<1>2. kills' = 0 /\ ~Past(p)' => Within(dirs, dirs)'
  BY DEF Met, Past, Writing, Leaving
<1> QED
  BY <1>1, <1>2 DEF MetInv

LEMMA WithinKeeps ==
  ASSUME NEW S, NEW D, NEW T, NEW E, Within(S, D), T \subseteq S, D \subseteq E,
         \A k \in T : depends'[k] = depends[k]
  PROVE  \A k \in T : \A d \in depends'[k] : Dep(k, d) \in E
BY DEF Within

LEMMA MetOutside ==
  ASSUME TypeInv, LockInv, LockInv', MetInv, Outside PROVE MetInv'
<1>0. UNCHANGED <<dirs, depends>> /\ (kills' = 0 => kills = 0)
  BY OutsideKeeps DEF db
<1>1. ASSUME NEW p \in Proc, Past(p) PROVE pc'[p] = pc[p] /\ Past(p)'
  BY <1>1, OutsideKeeps DEF Past
<1>2. ASSUME kills = 0, \A q \in Proc : ~Past(q) PROVE Within(dirs, dirs)'
  BY <1>0, <1>2 DEF MetInv, Within
<1>3. ASSUME kills = 0, NEW p \in Proc, Past(p), Met(p) PROVE Met(p)'
  <2>1. pc'[p] = pc[p] /\ batch'[p] = batch[p] /\ at'[p] = at[p] /\ going'[p] = going[p]
    BY <1>3, OutsideKeeps DEF Past
  <2>2. \A i : Put(p, i)' <=> Put(p, i)
    BY <2>1 DEF Put
  <2>3. Coming(p)' = Coming(p)
    BY <1>0, <2>1 DEF Coming, Keys
  <2> QED
    BY <1>0, <1>3, <2>1, <2>2, <2>3 DEF Met, PutMet, Within
<1>4. ASSUME kills = 0, NEW p \in Proc, ~Past(p), Past(p)' PROVE Met(p)'
  <2>1. pc'[p] \in {"idle", "lock", "plan", "check", "gc"}
    BY <1>4, OutsideKeeps DEF Past
  <2>2. \A q \in Proc : ~Past(q)
    BY <1>1, <1>4 DEF LockInv, Past
  <2>3. Within(dirs, dirs)'
    BY <1>2, <1>4, <2>2
  <2> QED
    BY <2>1, <2>3 DEF Met, Writing, Leaving
<1> QED
  BY <1>0, <1>1, <1>2, <1>3, <1>4 DEF MetInv

\* What the plan lets through has its deps in, or coming in the batch.
LEMMA PlanFinds ==
  ASSUME SameTarget, TypeInv, NEW p \in Proc, batch[p] \in Batches, ~force[p], ~Refused(p),
         NEW i \in 1..Len(batch[p]), NEW d \in batch[p][i].depends
  PROVE  Dep(KeyOf(batch[p][i]), d) \in Coming(p)
<1>1. KeyOf(batch[p][i]).target = batch[p][i].target
  BY DEF KeyOf
<1>2. \/ \E k \in Installed(batch[p][i].target) : k.name = d
      \/ \E j \in 1..Len(batch[p]) : batch[p][j].name = d
  BY DEF Refused, Misses
<1>3. ASSUME NEW k \in Installed(batch[p][i].target), k.name = d
      PROVE  k = Dep(KeyOf(batch[p][i]), d) /\ k \in dirs
  BY <1>1, <1>3 DEF Installed, Dep, Key, TypeInv, TypeOK
<1>4. ASSUME NEW j \in 1..Len(batch[p]), batch[p][j].name = d
      PROVE  Dep(KeyOf(batch[p][i]), d) \in Keys(batch[p])
  BY <1>1, <1>4 DEF SameTarget, Dep
<1> QED
  BY <1>2, <1>3, <1>4 DEF Coming

\* a step that changes no record and stays outside the two phases
LEMMA MetElsewhere ==
  ASSUME LockInv, MetInv, NEW p \in Proc, Past(p), Others(p), UNCHANGED <<dirs, depends, kills>>,
         {pc[p], pc'[p]} \cap (Writing \cup Leaving) = {}
  PROVE  MetInv'
<1>1. kills = 0 => Within(dirs, dirs)'
  BY DEF MetInv, Met, Within
<1> QED
  BY <1>1, MetInside DEF Met

LEMMA MetInstall ==
  ASSUME SameTarget, TypeInv, LockInv, NoForce, MetInv, NEW p \in Proc, Past(p), Install(p)
  PROVE  MetInv'
<1> DEFINE b == batch[p]
           K(i) == KeyOf(b[i])
           I == 1..Len(b)
<1>0. /\ pc = [q \in Proc |-> pc[q]] /\ at = [q \in Proc |-> at[q]] /\ dirs \subseteq Key
      /\ kills \in Nat /\ Others(p) /\ ~force[p]
      /\ depends \in [Key -> SUBSET Name]
  BY StepOthers DEF TypeInv, TypeOK, LocalsOK, NoForce, Step
<1>1. ASSUME pc[p] \in Applying
      PROVE  /\ b \in Batches /\ Len(b) \in Nat /\ at[p] \in I /\ Job(p) = b[at[p]]
             /\ KeyOf(Job(p)) = K(at[p]) /\ K(at[p]) \in Key
             /\ (kills = 0 /\ pc[p] \in Writing => PutMet(p))
  <2>1. b \in Batches /\ at[p] \in I
    BY <1>1 DEF TypeInv, TypeOK
  <2>2. Len(b) \in Nat
    BY <2>1, ConstantsAssumption
  <2> QED
    BY <2>1, <2>2, BatchJob DEF Job, MetInv, Met
<1>2. ASSUME pc[p] \in Writing, pc'[p] \in Writing, UNCHANGED <<dirs, depends, batch, kills>>,
             \A i \in I : Put(p, i)' => Put(p, i)
      PROVE  MetInv'
  <2>1. Coming(p)' = Coming(p)
    BY <1>2 DEF Coming, Keys
  <2>2. kills = 0 => PutMet(p)
    BY <1>1, <1>2 DEF Writing, Applying
  <2>3. kills = 0 => PutMet(p)'
    BY <1>2, <2>1, <2>2 DEF PutMet, Within
  <2>4. kills' = 0 => Met(p)'
    BY <1>2, <2>3 DEF Met, Writing, Leaving
  <2> QED
    BY <1>0, <2>4, MetInside
<1>3. CASE PlanRefuses(p)
  <2>1. {pc[p], pc'[p]} \cap (Writing \cup Leaving) = {} /\ UNCHANGED <<dirs, depends, kills>>
    BY <1>0, <1>3 DEF PlanRefuses, Exit, Goto, db, counts, Writing, Leaving
  <2> QED
    BY <1>0, <2>1, MetElsewhere
<1>4. CASE ApplyStart(p)
  <2>1. /\ pc[p] = "plan" /\ pc'[p] = "job" /\ at[p] = 1 /\ b \in Batches /\ ~Refused(p)
        /\ UNCHANGED <<dirs, depends, batch, at, kills>>
    BY <1>0, <1>4 DEF ApplyStart, Goto, db, counts, TypeInv
  <2>2. Coming(p)' = Coming(p)
    BY <2>1 DEF Coming, Keys
  <2>3. ASSUME kills = 0 PROVE PutMet(p)'
    <3>1. Within(dirs, dirs)
      BY <2>1, <2>3 DEF MetInv, Met, Writing, Leaving
    <3>2. Within(dirs, Coming(p))'
      BY <2>1, <2>2, <3>1 DEF Within, Coming
    <3>3. \A i \in I : ~Put(p, i)'
      BY <2>1 DEF Put
    <3>4. \A i \in I : \A d \in b[i].depends : Dep(K(i), d) \in Coming(p)
      BY <1>0, <2>1, PlanFinds
    <3> QED
      BY <2>1, <2>2, <3>2, <3>3, <3>4 DEF PutMet
  <2>4. kills' = 0 => Met(p)'
    BY <2>1, <2>3 DEF Met, Writing, Leaving
  <2> QED
    BY <1>0, <2>4, MetInside
<1>5. CASE JobStart(p)
  <2>1. /\ pc[p] = "job" /\ pc'[p] = "extract" /\ UNCHANGED <<dirs, depends, batch, at, kills>>
    BY <1>0, <1>5 DEF JobStart, Goto, db, counts
  <2> QED
    BY <1>2, <2>1 DEF Put, Writing
<1>6. CASE Extract(p)
  <2>1. pc[p] = "extract" /\ UNCHANGED <<pc, dirs, depends, batch, at, kills>>
    BY <1>6 DEF Extract, db, counts
  <2> QED
    BY <1>2, <2>1 DEF Put, Writing
<1>7. CASE PutHead(p)
  <2>1. /\ pc[p] = "extract" /\ pc'[p] = "manifest" /\ dirs' = dirs \cup {KeyOf(Job(p))}
        /\ depends' = [depends EXCEPT ![KeyOf(Job(p))] = Job(p).depends]
        /\ UNCHANGED <<batch, at, kills>>
    BY <1>0, <1>7 DEF PutHead, Goto, counts
  <2>2. /\ at[p] \in I /\ K(at[p]) \in Key /\ KeyOf(Job(p)) = K(at[p]) /\ Job(p) = b[at[p]]
        /\ (kills = 0 => PutMet(p))
    BY <1>1, <2>1 DEF Applying, Writing
  <2>3. dirs' = dirs \cup {K(at[p])} /\ Keys(b)' = Keys(b) /\ K(at[p]) \in Keys(b)
    BY <2>1, <2>2 DEF Keys
  <2>4. Coming(p)' = Coming(p)
    BY <2>3 DEF Coming
  <2>5. depends'[K(at[p])] = b[at[p]].depends /\ \A k \in Key \ {K(at[p])} : depends'[k] = depends[k]
    BY <1>0, <2>1, <2>2
  <2>6. ASSUME kills = 0 PROVE PutMet(p)'
    <3>1. PutMet(p)
      BY <2>2, <2>6
    <3>2. ASSUME NEW k \in dirs', NEW d \in depends'[k] PROVE Dep(k, d) \in Coming(p)
      <4>1. CASE k = K(at[p])
        BY <2>2, <2>5, <3>1, <3>2, <4>1 DEF PutMet
      <4>2. CASE k # K(at[p])
        BY <1>0, <2>3, <2>5, <3>1, <3>2, <4>2 DEF PutMet, Within
      <4> QED
        BY <4>1, <4>2
    <3>3. Within(dirs, Coming(p))'
      BY <2>4, <3>2 DEF Within
    <3>4. ASSUME NEW i \in I, Put(p, i)' PROVE K(i) \in dirs'
      <4>1. i < at[p] \/ i = at[p]
        BY <2>1, <2>2, <3>4 DEF Put
      <4>2. CASE i < at[p]
        BY <2>1, <3>1, <4>2 DEF Put, PutMet
      <4> QED
        BY <2>3, <4>1, <4>2
    <3>5. \A i \in I : \A d \in b[i].depends : Dep(K(i), d) \in Coming(p)
      BY <3>1 DEF PutMet
    <3> QED
      BY <2>1, <2>4, <3>3, <3>4, <3>5 DEF PutMet
  <2>7. kills' = 0 => Met(p)'
    BY <2>1, <2>6 DEF Met, Writing, Leaving
  <2> QED
    BY <1>0, <2>7, MetInside
<1>8. CASE PutManifest(p)
  <2>1. /\ pc[p] = "manifest" /\ pc'[p] = "provides" /\ UNCHANGED <<dirs, depends, batch, at, kills>>
    BY <1>0, <1>8 DEF PutManifest, Goto, locals, counts
  <2> QED
    BY <1>2, <2>1 DEF Put, Writing
<1>9. CASE PutProvides(p)
  <2>1. /\ pc[p] = "provides" /\ Advance(p, "job", "preserve")
        /\ UNCHANGED <<dirs, depends, batch, kills>>
    BY <1>9 DEF PutProvides, counts
  <2>2. Len(b) \in Nat /\ at[p] \in I /\ (kills = 0 => PutMet(p))
    BY <1>1, <2>1 DEF Applying, Writing
  <2>3. \/ at'[p] = at[p] + 1 /\ pc'[p] = "job"
        \/ at[p] = Len(b) /\ pc'[p] = "preserve"
    BY <1>0, <2>1, <2>2 DEF Advance, Goto, Set
  <2>4. CASE at'[p] = at[p] + 1 /\ pc'[p] = "job"
    BY <1>2, <2>1, <2>2, <2>4 DEF Put, Writing
  <2>5. CASE at[p] = Len(b) /\ pc'[p] = "preserve"
    <3>1. ASSUME kills = 0 PROVE Within(dirs, dirs)
      <4>1. \A i \in I : K(i) \in dirs
        BY <2>1, <2>2, <2>5, <3>1 DEF PutMet, Put
      <4>2. Coming(p) \subseteq dirs
        BY <4>1 DEF Coming, Keys
      <4> QED
        BY <2>2, <3>1, <4>2 DEF PutMet, Within
    <3>2. kills' = 0 => Met(p)'
      BY <2>1, <2>5, <3>1 DEF Met, Within, Writing, Leaving
    <3> QED
      BY <1>0, <3>2, MetInside
  <2> QED
    BY <2>3, <2>4, <2>5
<1>10. CASE Preserve(p) \/ DispossessDone(p) \/ PruneDone(p)
  <2>1. {pc[p], pc'[p]} \cap (Writing \cup Leaving) = {} /\ UNCHANGED <<dirs, depends, kills>>
    BY <1>0, <1>10 DEF Preserve, DispossessDone, PruneDone, Advance, Goto, db, counts, Writing, Leaving
  <2> QED
    BY <1>0, <2>1, MetElsewhere
<1>11. CASE Dispossess(p) \/ Disown(p) \/ PruneStart(p) \/ Enqueue(p)
  <2>1. {pc[p], pc'[p]} \cap (Writing \cup Leaving) = {} /\ UNCHANGED <<dirs, depends, kills>>
    BY <1>0, <1>11 DEF Dispossess, Disown, PruneStart, Enqueue, Goto, db, counts, Writing, Leaving
  <2> QED
    BY <1>0, <2>1, MetElsewhere
<1>12. CASE PruneUnlink(p)
  <2>1. {pc[p], pc'[p]} \cap (Writing \cup Leaving) = {} /\ UNCHANGED <<dirs, depends, kills>>
    BY <1>12 DEF PruneUnlink, db, counts, Writing, Leaving
  <2> QED
    BY <1>0, <2>1, MetElsewhere
<1> QED
  BY <1>3, <1>4, <1>5, <1>6, <1>7, <1>8, <1>9, <1>10, <1>11, <1>12 DEF Install

\* What a removal that is let through leaves has all its deps among what it leaves.
LEMMA CheckKeeps ==
  ASSUME TypeInv, NEW p \in Proc, ~force[p], ~RemoveRefused(p), Within(dirs, dirs),
         \A k \in dirs : Readable(k)
  PROVE  Within(dirs \ going[p], dirs \ going[p])
<1> SUFFICES ASSUME NEW k \in dirs \ going[p], NEW d \in depends[k]
             PROVE  Dep(k, d) \in dirs \ going[p]
  BY DEF Within
<1>1. Dep(k, d) \in dirs
  BY DEF Within
<1>2. ASSUME Dep(k, d) \in going[p] PROVE FALSE
  <2>1. Dep(k, d).target = k.target /\ Dep(k, d).name = d
    BY DEF Dep
  <2> QED
    BY <1>1, <1>2, <2>1 DEF RemoveRefused
<1> QED
  BY <1>1, <1>2

LEMMA MetRemove ==
  ASSUME TypeInv, LockInv, WholeInv, NoForce, MetInv, NEW p \in Proc, Past(p),
         Remove(p) \/ Gc(p) \/ Finish(p) \/ Kill(p)
  PROVE  MetInv'
<1>0. /\ pc = [q \in Proc |-> pc[q]] /\ going = [q \in Proc |-> going[q]] /\ dirs \subseteq Key
      /\ kills \in Nat /\ Others(p) /\ ~force[p] /\ going[p] \subseteq Key
      /\ depends \in [Key -> SUBSET Name]
  BY StepOthers, ExitOthers DEF TypeInv, TypeOK, LocalsOK, NoForce, Step, Kill
<1>1. CASE Kill(p)
  BY <1>0, <1>1 DEF Kill, MetInv
<1>2. CASE Finish(p) \/ (RemoveCheck(p) /\ RemoveRefused(p))
  <2>1. {pc[p], pc'[p]} \cap (Writing \cup Leaving) = {} /\ UNCHANGED <<dirs, depends, kills>>
    BY <1>0, <1>2 DEF Finish, RemoveCheck, Exit, Goto, db, counts, Writing, Leaving
  <2> QED
    BY <1>0, <2>1, MetElsewhere
<1>3. CASE GcStart(p) \/ GcDone(p)
  <2>1. {pc[p], pc'[p]} \cap (Writing \cup Leaving) = {} /\ UNCHANGED <<dirs, depends, kills>>
    BY <1>0, <1>3 DEF GcStart, GcDone, Goto, db, counts, Writing, Leaving
  <2> QED
    BY <1>0, <2>1, MetElsewhere
<1>4. CASE GcRecord(p) \/ GcSweep(p)
  <2>1. {pc[p], pc'[p]} \cap (Writing \cup Leaving) = {} /\ UNCHANGED <<dirs, depends, kills>>
    BY <1>4 DEF GcRecord, GcSweep, db, counts, Writing, Leaving
  <2> QED
    BY <1>0, <2>1, MetElsewhere
<1>5. CASE RemoveDies(p)
  <2>1. /\ pc[p] = "pick" /\ UNCHANGED kills /\ \E k \in going[p] \cup dirs : ~Readable(k)
    BY <1>5 DEF RemoveDies, Unread, counts
  <2>2. ASSUME kills = 0 PROVE FALSE
    <3>1. going[p] \subseteq dirs /\ \A k \in dirs : Readable(k)
      BY <1>0, <2>1, <2>2, AloneStep DEF WholeInv, Handles, Legible, Half, Leaving
    <3> QED
      BY <2>1, <3>1
  <2> QED
    BY <2>1, <2>2 DEF MetInv
<1>6. CASE RemoveCheck(p) /\ ~RemoveRefused(p)
  <2>1. /\ pc[p] = "check" /\ pc'[p] = "pick" /\ going'[p] = going[p] \cap dirs
        /\ UNCHANGED <<dirs, depends, kills>>
    BY <1>0, <1>6 DEF RemoveCheck, Goto, db, counts
  <2>2. ASSUME kills = 0 PROVE Within(dirs \ going[p], dirs \ going[p])'
    <3>0. \A k \in dirs : Readable(k)
      BY <1>0, <2>1, <2>2, AloneStep DEF WholeInv, Legible, Half, Leaving
    <3>1. Within(dirs \ going[p], dirs \ going[p])
      BY <1>0, <1>6, <2>1, <2>2, <3>0, CheckKeeps DEF MetInv, Met, Writing, Leaving
    <3>2. dirs' \ going'[p] = dirs \ going[p]
      BY <2>1
    <3> QED
      BY <2>1, <3>1, <3>2 DEF Within
  <2>3. kills' = 0 => Met(p)'
    BY <2>1, <2>2 DEF Met, Writing, Leaving
  <2> QED
    BY <1>0, <2>3, MetInside
<1>7. ASSUME pc[p] \in Leaving, pc'[p] \in Leaving, UNCHANGED <<dirs, kills, going>>,
             \A k \in Key \ going[p] : depends'[k] = depends[k]
      PROVE  MetInv'
  <2>1. kills = 0 => Within(dirs \ going[p], dirs \ going[p])'
    BY <1>0, <1>7 DEF MetInv, Met, Within
  <2>2. kills' = 0 => Met(p)'
    BY <1>7, <2>1 DEF Met, Writing, Leaving
  <2> QED
    BY <1>0, <2>2, MetInside
<1>8. CASE RemovePick(p) \/ ForgetProvides(p)
  <2>1. pc[p] \in Leaving /\ pc'[p] \in Leaving /\ UNCHANGED <<dirs, depends, kills, going>>
    BY <1>0, <1>8 DEF RemovePick, ForgetProvides, Goto, db, locals, counts, Leaving
  <2> QED
    BY <1>7, <2>1
<1>9. CASE RemoveUnlink(p)
  <2>1. pc[p] \in Leaving /\ UNCHANGED <<pc, dirs, depends, kills, going>>
    BY <1>9 DEF RemoveUnlink, db, counts, Leaving
  <2> QED
    BY <1>7, <2>1
<1>10. CASE ForgetFiles(p)
  <2>1. /\ pc[p] = "forget" /\ pc'[p] = "rmdir" /\ UNCHANGED <<dirs, kills, going>>
        /\ depends' = [depends EXCEPT ![Removing(p)] = {}]
    BY <1>0, <1>10 DEF ForgetFiles, locals, counts, Goto
  <2>2. Removing(p) \in going[p]
    BY <2>1 DEF WholeInv, Handles, Leaving
  <2> QED
    BY <1>0, <1>7, <2>1, <2>2 DEF Leaving
<1>11. CASE ForgetDir(p)
  <2>1. /\ pc[p] = "rmdir" /\ UNCHANGED <<depends, kills>> /\ dirs' = dirs \ {Removing(p)}
        /\ going'[p] = going[p] \ {Removing(p)}
        /\ pc'[p] = IF going[p] = {Removing(p)} THEN "done" ELSE "pick"
    BY <1>0, <1>11 DEF ForgetDir, Goto, counts
  <2>2. Removing(p) \in going[p]
    BY <2>1 DEF WholeInv, Handles, Leaving
  <2>3. dirs' \ going'[p] = dirs \ going[p]
    BY <2>1, <2>2
  <2>4. kills = 0 => Within(dirs \ going[p], dirs \ going[p])'
    BY <2>1, <2>3 DEF MetInv, Met, Within, Leaving
  <2>5. kills = 0 /\ pc'[p] = "done" => Within(dirs, dirs)'
    BY <2>1, <2>3, <2>4 DEF Within
  <2>6. kills' = 0 => Met(p)'
    BY <2>1, <2>4, <2>5 DEF Met, Writing, Leaving
  <2> QED
    BY <1>0, <2>6, MetInside
<1> QED
  BY <1>1, <1>2, <1>3, <1>4, <1>5, <1>6, <1>8, <1>9, <1>10, <1>11 DEF Remove, Gc

LEMMA MetNext ==
  ASSUME SameTarget, TypeInv, LockInv, WholeInv, NoForce, MetInv, [Next]_vars PROVE MetInv'
BY InsideOrOut, LockStep, MetOutside, MetInstall, MetRemove

\* With nothing forced, nothing killed and no dep a batch holds for another target only,
\* every installed package finds its runtime deps installed on its own target whenever the
\* lock is free: install::deps on the way in, held_by on the way out and the lock around
\* both, for every sequence of batches and removals (install.rs deps; main.rs held_by).
THEOREM DepsStayMet ==
  ASSUME Unforced, SameTarget PROVE Spec => [](kills = 0 => DepsMet)
<1>1. Init => LockInv /\ NoForce /\ MetInv
  BY DEF Init, LockInv, NoForce, MetInv, Met, Within, Past
<1>2. LockInv /\ MetInv => (kills = 0 => DepsMet)
  <2> SUFFICES ASSUME LockInv, MetInv, kills = 0, Quiet PROVE Within(dirs, dirs)
    BY DEF DepsMet, Within, Dep
  <2>1. \A p \in Proc : ~Past(p)
    BY ConstantsAssumption DEF LockInv, Quiet
  <2> QED
    BY <2>1 DEF MetInv
<1>3. TypeInv /\ NoForce /\ [Next]_vars => NoForce'
  BY NoForceNext
<1>4. TypeInv /\ LockInv /\ WholeInv /\ NoForce /\ MetInv /\ [Next]_vars => MetInv'
  BY MetNext
<1> QED
  BY InitType, NextType, LockStep, WholeInit, WholeNext, <1>1, <1>2, <1>3, <1>4, PTL DEF Spec

----------------------------------------------------------------------------
(* An install that is not forced spares what its batch is not about. While it
   runs, the records outside the batch are those it found, they share no path
   with what the batch ships nor with what its packages owned before, and so
   no file of theirs is written over or pruned. *)

\* no two jobs ship one path
Apart(b) == \A i, j \in 1..Len(b) : i # j => Own(b[i].ships) \cap Own(b[j].ships) = {}
Spared(p) ==
  \A k \in dirs \ Keys(batch[p]) :
    /\ Readable(k) /\ man[k] = was[p][k]
    /\ Own(man[k]) \cap Ships(batch[p]) = {}
    /\ \A i \in 1..Len(batch[p]) : Own(man[k]) \cap Own(Old(p, KeyOf(batch[p][i]))) = {}
    /\ \A q \in Own(man[k]) : disk[q] = base[p][q]

Acting(p) ==
  \/ pc[p] \in Applying \cup {"enqueue"}
  \/ pc[p] = "done" /\ op[p] = "install"
\* what a pass has still to visit, and whose command reaches it
Ranged(p) ==
  /\ pc[p] = "extract" => todo[p] \subseteq Own(Job(p).ships)
  /\ pc[p] = "unlink" => todo[p] \subseteq Own(Old(p, KeyOf(Job(p))))
  /\ pc[p] \in Leaving \cup {"check", "gc", "release"} => op[p] # "install"
Sparing(p) ==
  /\ Ranged(p)
  /\ kills = 0 /\ ~force[p] /\ Acting(p) => Spared(p) /\ Apart(batch[p])
SparedInv == \A p \in Proc : Sparing(p)

LEMMA SparedKeeps ==
  ASSUME NEW p \in Proc, Spared(p), batch'[p] = batch[p], was'[p] = was[p], base'[p] = base[p],
         dirs' \ Keys(batch[p]) \subseteq dirs,
         \A k \in dirs \ Keys(batch[p]) :
           man'[k] = man[k] /\ \A q \in Own(man[k]) : disk'[q] = disk[q]
  PROVE  Spared(p)'
<1>1. /\ Keys(batch[p])' = Keys(batch[p]) /\ Ships(batch[p])' = Ships(batch[p])
      /\ \A k : Old(p, k)' = Old(p, k)
  BY DEF Keys, Ships, Old
<1>2. (dirs \ Keys(batch[p]))' \subseteq dirs \ Keys(batch[p])
  BY <1>1
<1>3. \A i \in 1..Len(batch[p]) : Old(p, KeyOf(batch[p][i]))' = Old(p, KeyOf(batch[p][i]))
  BY DEF Old
<1> SUFFICES ASSUME NEW k \in (dirs \ Keys(batch[p]))'
             PROVE  /\ Readable(k)' /\ man'[k] = was'[p][k]
                    /\ Own(man'[k]) \cap Ships(batch[p])' = {}
                    /\ \A i \in 1..Len(batch'[p]) :
                         Own(man'[k]) \cap Own(Old(p, KeyOf(batch[p][i])))' = {}
                    /\ \A q \in Own(man'[k]) : disk'[q] = base'[p][q]
  BY DEF Spared
<1>4. k \in dirs \ Keys(batch[p]) /\ man'[k] = man[k]
  BY <1>2
<1> QED
  BY <1>1, <1>3, <1>4 DEF Spared, Readable

LEMMA SparedInside ==
  ASSUME LockInv, NEW p \in Proc, Past(p), Others(p), Sparing(p)' PROVE SparedInv'
BY AloneStep DEF SparedInv, Sparing, Ranged, Acting, Applying, Leaving

LEMMA SparedOutside == ASSUME TypeInv, LockInv, SparedInv, Outside PROVE SparedInv'
<1>1. CASE Edit
  <2>1. /\ lock = NoProc /\ UNCHANGED <<pc, todo, batch, at, was, op>>
    BY <1>1 DEF Edit, locals
  <2>2. \A p \in Proc : pc'[p] \in {"idle", "lock"}
    BY <2>1, ConstantsAssumption DEF LockInv, Past
  <2> QED
    BY <2>2 DEF SparedInv, Sparing, Ranged, Acting, Applying, Leaving
<1>2. CASE ~Edit
  <2>1. UNCHANGED disk
    BY <1>2 DEF Outside, vars, BeginInstall, BeginRemove, BeginGc, Begin, Lock, Kill
  <2>2. ASSUME NEW p \in Proc PROVE Sparing(p)'
    <3>1. CASE pc[p] \in {"idle", "lock"} /\ pc'[p] \in {"idle", "lock", "plan", "check", "gc"}
      <4>1. pc'[p] \in {"check", "gc"} => op'[p] # "install"
        <5>1. CASE \E r \in Proc : Lock(r)
          BY <3>1, <5>1 DEF Lock, Goto, locals, TypeInv, TypeOK
        <5>2. CASE UNCHANGED vars
          BY <3>1, <5>2 DEF vars
        <5>3. CASE \E r \in Proc : BeginInstall(r) \/ BeginRemove(r) \/ BeginGc(r) \/ Kill(r)
          BY <3>1, <5>3 DEF BeginInstall, BeginRemove, BeginGc, Begin, Kill, Exit, Goto,
                            TypeInv, TypeOK
        <5> QED
          BY <1>2, <5>1, <5>2, <5>3 DEF Outside
      <4> QED
        BY <3>1, <4>1 DEF Sparing, Ranged, Acting, Applying, Leaving
    <3>2. CASE ~(pc[p] \in {"idle", "lock"} /\ pc'[p] \in {"idle", "lock", "plan", "check", "gc"})
      <4>1. /\ pc'[p] = pc[p] /\ op'[p] = op[p] /\ batch'[p] = batch[p] /\ force'[p] = force[p]
            /\ at'[p] = at[p] /\ was'[p] = was[p] /\ base'[p] = base[p] /\ todo'[p] = todo[p]
            /\ UNCHANGED <<dirs, man>> /\ (kills' = 0 => kills = 0)
        BY <3>2, OutsideKeeps DEF db
      <4>2. Sparing(p)
        BY DEF SparedInv
      <4>3. Job(p)' = Job(p)
        BY <4>1 DEF Job
      <4>4. Ranged(p)'
        BY <4>1, <4>2, <4>3 DEF Ranged, Sparing, Old, KeyOf
      <4>5. Spared(p) => Spared(p)'
        BY <2>1, <4>1, SparedKeeps
      <4>6. Apart(batch[p]) => Apart(batch[p])'
        BY <4>1 DEF Apart
      <4> QED
        BY <4>1, <4>2, <4>4, <4>5, <4>6 DEF Sparing, Acting
    <3> QED
      BY <3>1, <3>2
  <2> QED
    BY <2>2 DEF SparedInv
<1> QED
  BY <1>1, <1>2

\* What the plan lets through shares no path with anyone.
LEMMA PlanSpares ==
  ASSUME TypeInv, LockInv, ExclInv, WholeInv, NEW p \in Proc, ApplyStart(p), kills = 0, ~force[p]
  PROVE  Spared(p)' /\ Apart(batch[p])'
<1>1. /\ pc[p] = "plan" /\ ~Refused(p) /\ was'[p] = man /\ base'[p] = disk
      /\ UNCHANGED <<dirs, man, batch, disk>> /\ batch[p] \in Batches
  BY DEF ApplyStart, Set, db, TypeInv, TypeOK, LocalsOK
<1>2. Disjoint(dirs)
  BY <1>1 DEF ExclInv, LockInv, Past, Middle
<1>3. (\A k \in dirs : Readable(k)) /\ ~Collides(batch[p])
  BY <1>1 DEF Refused
<1>4. Keys(batch[p])' = Keys(batch[p]) /\ Ships(batch[p])' = Ships(batch[p])
  BY <1>1 DEF Keys, Ships
<1>5. ASSUME NEW k \in dirs \ Keys(batch[p]), NEW i \in 1..Len(batch[p])
      PROVE  Own(man[k]) \cap Own(Old(p, KeyOf(batch[p][i]))') = {}
  <2>1. KeyOf(batch[p][i]) \in Key /\ KeyOf(batch[p][i]) # k
    BY <1>1, <1>5, BatchJob DEF Keys
  <2>2. Old(p, KeyOf(batch[p][i]))' =
          IF Readable(KeyOf(batch[p][i])) THEN man[KeyOf(batch[p][i])] ELSE Nothing
    BY <1>1 DEF Old, Readable
  <2>3. CASE Readable(KeyOf(batch[p][i]))
    <3>1. KeyOf(batch[p][i]) \in dirs
      BY <2>1, <2>3 DEF WholeInv, Listed
    <3> QED
      BY <1>2, <1>3, <2>1, <2>2, <2>3, <3>1 DEF Disjoint
  <2>4. CASE ~Readable(KeyOf(batch[p][i]))
    BY <2>2, <2>4 DEF Own, Nothing
  <2> QED
    BY <2>3, <2>4
<1>6. Spared(p)'
  BY <1>1, <1>3, <1>4, <1>5 DEF Spared, Collides, Readable
<1>7. Apart(batch[p])'
  BY <1>1, <1>3 DEF Apart, Collides
<1> QED
  BY <1>6, <1>7

LEMMA SparedInstall ==
  ASSUME TypeInv, LockInv, ExclInv, WholeInv, SparedInv, NEW p \in Proc, Past(p), Install(p)
  PROVE  SparedInv'
<1> DEFINE Hold == kills = 0 /\ ~force[p]
<1>0. /\ pc = [q \in Proc |-> pc[q]] /\ todo = [q \in Proc |-> todo[q]] /\ dirs \subseteq Key
      /\ man \in [Key -> Manifest \cup {NoRecord}] /\ NoRecord \notin Manifest
      /\ kills \in Nat /\ Others(p) /\ Sparing(p)
  BY StepOthers, ConstantsAssumption DEF TypeInv, TypeOK, LocalsOK, Step, SparedInv
<1>1. ASSUME pc[p] \in Applying
      PROVE  /\ batch[p] \in Batches /\ at[p] \in 1..Len(batch[p]) /\ Job(p) = batch[p][at[p]]
             /\ Job(p).ships \in Manifest /\ KeyOf(Job(p)) \in Key \cap Keys(batch[p])
             /\ Own(Job(p).ships) \subseteq Ships(batch[p])
             /\ (Hold => Spared(p) /\ Apart(batch[p]))
  <2>1. batch[p] \in Batches /\ at[p] \in 1..Len(batch[p])
    BY <1>1 DEF TypeInv, TypeOK
  <2>2. Job(p) = batch[p][at[p]]
    BY DEF Job
  <2>3. KeyOf(Job(p)) \in Keys(batch[p]) /\ Own(Job(p).ships) \subseteq Ships(batch[p])
    BY <2>1, <2>2 DEF Keys, Ships
  <2>4. KeyOf(Job(p)) \in Key /\ Job(p).ships \in Manifest
    BY <1>1, JobType
  <2>5. Acting(p)
    BY <1>1 DEF Acting
  <2>6. Hold => Spared(p) /\ Apart(batch[p])
    BY <1>0, <2>5, Zenon DEF Sparing
  <2> QED
    BY <2>1, <2>2, <2>3, <2>4, <2>6
\* a step that reaches no file and no record of a bystander
<1>2. ASSUME pc[p] \in Applying \cup {"enqueue"}, UNCHANGED <<batch, was, base, force, kills>>, Ranged(p)',
             dirs' \ Keys(batch[p]) \subseteq dirs,
             Hold => \A k \in dirs \ Keys(batch[p]) :
                       man'[k] = man[k] /\ \A q \in Own(man[k]) : disk'[q] = disk[q]
      PROVE  SparedInv'
  <2>1. Hold => Spared(p)' /\ Apart(batch[p])'
    <3>0. Acting(p)
      BY <1>2 DEF Acting
    <3>1. Hold => Spared(p) /\ Apart(batch[p])
      BY <1>0, <3>0, Zenon DEF Sparing
    <3>2. Hold => Spared(p)'
      BY <1>2, <3>1, SparedKeeps
    <3> QED
      BY <1>2, <3>1, <3>2 DEF Apart
  <2> QED
    BY <1>0, <1>2, <2>1, SparedInside DEF Sparing
<1>3. CASE PlanRefuses(p)
  <2>1. pc'[p] = "idle"
    BY <1>0, <1>3 DEF PlanRefuses, Exit, Goto
  <2> QED
    BY <1>0, <2>1, SparedInside DEF Sparing, Ranged, Acting, Applying, Leaving
<1>4. CASE ApplyStart(p)
  <2>1. pc'[p] = "job" /\ UNCHANGED <<force, kills>>
    BY <1>0, <1>4 DEF ApplyStart, Goto, counts
  <2>2. Hold => Spared(p)' /\ Apart(batch[p])'
    BY <1>4, PlanSpares
  <2> QED
    BY <1>0, <2>1, <2>2, SparedInside DEF Sparing, Ranged, Leaving
<1>5. CASE JobStart(p)
  <2>1. /\ pc[p] = "job" /\ pc'[p] = "extract" /\ todo'[p] = Own(Job(p).ships)
        /\ UNCHANGED <<dirs, man, disk, batch, at, was, base, force, kills>>
    BY <1>0, <1>5 DEF JobStart, Goto, Set, db, counts
  <2>2. Ranged(p)'
    BY <2>1 DEF Ranged, Job, Leaving
  <2> QED
    BY <1>2, <2>1, <2>2 DEF Applying
<1>6. CASE Extract(p)
  <2>1. PICK q \in todo[p] :
          /\ todo' = [todo EXCEPT ![p] = @ \ {q}]
          /\ disk' = IF q \in skip[p] THEN disk ELSE [disk EXCEPT ![q] = Job(p).ships[q]]
    BY <1>6 DEF Extract
  <2>2. pc[p] = "extract" /\ UNCHANGED <<pc, dirs, man, batch, at, was, base, force, kills>>
    BY <1>6 DEF Extract, db, counts
  <2>3. todo[p] \subseteq Own(Job(p).ships)
    BY <1>0, <2>2 DEF Sparing, Ranged
  <2>4. Ranged(p)'
    BY <1>0, <2>1, <2>2, <2>3 DEF Ranged, Job, Leaving
  <2>5. Hold => \A k \in dirs \ Keys(batch[p]) : \A r \in Own(man[k]) : disk'[r] = disk[r]
    BY <1>1, <2>1, <2>2, <2>3 DEF Spared, Applying
  <2> QED
    BY <1>2, <2>2, <2>4, <2>5 DEF Applying
<1>7. CASE PutHead(p)
  <2>1. /\ pc[p] = "extract" /\ pc'[p] = "manifest" /\ dirs' = dirs \cup {KeyOf(Job(p))}
        /\ UNCHANGED <<man, disk, batch, at, was, base, force, kills>>
    BY <1>0, <1>7 DEF PutHead, Goto, counts
  <2>2. dirs' \ Keys(batch[p]) \subseteq dirs
    BY <1>1, <2>1 DEF Applying
  <2> QED
    BY <1>2, <2>1, <2>2 DEF Ranged, Applying, Leaving
<1>8. CASE PutManifest(p)
  <2>1. /\ pc[p] = "manifest" /\ pc'[p] = "provides"
        /\ man' = [man EXCEPT ![KeyOf(Job(p))] = Job(p).ships]
        /\ UNCHANGED <<dirs, disk, batch, at, was, base, force, kills>>
    BY <1>0, <1>8 DEF PutManifest, Goto, locals, counts
  <2>2. \A k \in dirs \ Keys(batch[p]) : man'[k] = man[k]
    BY <1>0, <1>1, <2>1 DEF Applying
  <2> QED
    BY <1>2, <2>1, <2>2 DEF Ranged, Applying, Leaving
<1>9. CASE PutProvides(p) \/ Preserve(p) \/ DispossessDone(p) \/ PruneDone(p)
  <2>1. /\ pc[p] \in Applying /\ pc'[p] \in {"job", "preserve", "dispossess", "prune", "enqueue"}
        /\ UNCHANGED <<dirs, man, disk, batch, was, base, force, kills>>
    BY <1>0, <1>9 DEF PutProvides, Preserve, DispossessDone, PruneDone, Advance, Goto, db, counts,
                      Applying
  <2> QED
    BY <1>2, <2>1 DEF Ranged, Leaving
<1>10. CASE Dispossess(p)
  <2>1. PICK k \in Losers(p) : man' = [man EXCEPT ![k] = Restricted(@, Own(@) \ Own(Job(p).ships))]
    BY <1>10 DEF Dispossess
  <2>2. /\ pc[p] = "dispossess" /\ pc'[p] = "disown"
        /\ UNCHANGED <<dirs, disk, batch, at, was, base, force, kills>>
    BY <1>0, <1>10 DEF Dispossess, Goto, counts
  <2>3. k \in dirs /\ k # KeyOf(Job(p)) /\ Readable(k) /\ Own(man[k]) \cap Own(Job(p).ships) # {}
    BY <2>1 DEF Losers
  <2>4. Hold => k \in Keys(batch[p])
    BY <1>1, <2>2, <2>3 DEF Spared, Applying
  <2>5. Hold => \A l \in dirs \ Keys(batch[p]) : man'[l] = man[l]
    BY <1>0, <2>1, <2>4
  <2> QED
    BY <1>2, <2>2, <2>5 DEF Ranged, Applying, Leaving
<1>11. CASE Disown(p) \/ PruneStart(p)
  <2>1. /\ pc[p] \in Applying /\ UNCHANGED <<dirs, man, disk, batch, at, was, base, force, kills>>
        /\ \/ pc'[p] = "dispossess"
           \/ pc'[p] = "unlink" /\ todo'[p] \subseteq Own(Old(p, KeyOf(Job(p))))
    BY <1>0, <1>11 DEF Disown, PruneStart, Goto, Set, db, counts, Applying
  <2>2. Ranged(p)'
    BY <2>1 DEF Ranged, Job, Old, Leaving
  <2> QED
    BY <1>2, <2>1, <2>2
<1>12. CASE PruneUnlink(p)
  <2>1. PICK q \in todo[p] :
          /\ disk' = IF disk[q] = Old(p, KeyOf(Job(p)))[q] THEN [disk EXCEPT ![q] = NoEntry] ELSE disk
          /\ todo' = [todo EXCEPT ![p] = @ \ {q}]
    BY <1>12 DEF PruneUnlink, Drop
  <2>2. pc[p] = "unlink" /\ UNCHANGED <<pc, dirs, man, batch, at, was, base, force, kills>>
    BY <1>12 DEF PruneUnlink, db, counts
  <2>3. todo[p] \subseteq Own(Old(p, KeyOf(Job(p))))
    BY <1>0, <2>2 DEF Sparing, Ranged
  <2>4. Ranged(p)'
    BY <1>0, <2>1, <2>2, <2>3 DEF Ranged, Job, Old, Leaving
  <2>5. Hold => \A k \in dirs \ Keys(batch[p]) : \A r \in Own(man[k]) : disk'[r] = disk[r]
    <3>1. /\ at[p] \in 1..Len(batch[p]) /\ KeyOf(Job(p)) = KeyOf(batch[p][at[p]])
          /\ (Hold => Spared(p))
      BY <1>1, <2>2 DEF Applying
    <3>2. Hold => \A k \in dirs \ Keys(batch[p]) : Own(man[k]) \cap Own(Old(p, KeyOf(Job(p)))) = {}
      BY <3>1 DEF Spared
    <3>3. \A r \in Path \ {q} : disk'[r] = disk[r]
      BY <2>1 DEF TypeInv, TypeOK, Manifest
    <3> QED
      BY <2>3, <3>2, <3>3, OwnType
  <2> QED
    BY <1>2, <2>2, <2>4, <2>5 DEF Applying
<1>13. CASE Enqueue(p)
  <2>1. /\ pc[p] = "enqueue" /\ pc'[p] = "done"
        /\ UNCHANGED <<dirs, man, disk, batch, was, base, force, kills>>
    BY <1>0, <1>13 DEF Enqueue, Goto, db, locals, counts
  <2> QED
    BY <1>2, <2>1 DEF Ranged, Leaving
<1> QED
  BY <1>3, <1>4, <1>5, <1>6, <1>7, <1>8, <1>9, <1>10, <1>11, <1>12, <1>13 DEF Install

LEMMA SparedRemove ==
  ASSUME TypeInv, LockInv, SparedInv, NEW p \in Proc, Past(p),
         Remove(p) \/ Gc(p) \/ Finish(p) \/ Kill(p)
  PROVE  SparedInv'
<1>0. /\ pc = [q \in Proc |-> pc[q]] /\ Others(p) /\ Sparing(p)
  BY StepOthers, ExitOthers DEF TypeInv, TypeOK, LocalsOK, Step, Kill, SparedInv
<1>1. \/ pc'[p] = "idle"
      \/ pc'[p] \in Leaving \cup {"release", "done"} /\ op'[p] # "install"
  <2>1. CASE Exit(p)
    <3>1. pc' = [pc EXCEPT ![p] = "idle"]
      BY <2>1 DEF Exit, Goto
    <3>2. pc'[p] = "idle"
      BY <3>1 DEF TypeInv, TypeOK
    <3> QED
      BY <3>2
  <2>2. CASE ~Exit(p)
    <3>1. CASE RemoveCheck(p) \/ RemoveDies(p) \/ Finish(p) \/ Kill(p)
      BY <1>0, <2>2, <3>1 DEF RemoveCheck, RemoveDies, Finish, Kill, Goto, Sparing, Ranged, Leaving
    <3>2. CASE RemovePick(p) \/ ForgetProvides(p) \/ ForgetFiles(p) \/ ForgetDir(p)
      BY <1>0, <3>2 DEF RemovePick, ForgetProvides, ForgetFiles, ForgetDir, Goto, locals,
                        Sparing, Ranged, Leaving
    <3>3. CASE RemoveUnlink(p) \/ GcRecord(p) \/ GcSweep(p)
      BY <1>0, <3>3 DEF RemoveUnlink, GcRecord, GcSweep, Sparing, Ranged, Leaving
    <3>4. CASE GcStart(p) \/ GcDone(p)
      BY <1>0, <3>4 DEF GcStart, GcDone, Goto, locals, Sparing, Ranged, Leaving
    <3> QED
      BY <3>1, <3>2, <3>3, <3>4 DEF Remove, Gc
  <2> QED
    BY <2>1, <2>2
<1> QED
  BY <1>0, <1>1, SparedInside DEF Sparing, Ranged, Acting, Applying, Leaving

LEMMA SparedNext ==
  TypeInv /\ LockInv /\ ExclInv /\ WholeInv /\ SparedInv /\ [Next]_vars => SparedInv'
BY InsideOrOut, SparedOutside, SparedInstall, SparedRemove

\* Until something is killed, an install that is not forced returns with every package
\* outside its batch as it found it, its record and its files, whatever was installed,
\* forced, removed, edited or swept before: the plan's conflict check is enough for the
\* extraction, the dispossession and the prune behind it (install.rs paths, apply, prune).
THEOREM BystandersUntouched == Spec => [](kills = 0 => Untouched)
<1>1. Init => LockInv /\ ExclInv /\ SparedInv
  BY DEF Init, LockInv, Past, ExclInv, Disjoint, Middle, SparedInv, Sparing, Ranged, Acting,
         Applying, Leaving
<1>2. SparedInv => (kills = 0 => Untouched)
  BY DEF SparedInv, Sparing, Acting, Spared, Untouched
<1> QED
  BY InitType, NextType, LockStep, ExclNext, WholeInit, WholeNext, SparedNext, <1>1, <1>2, PTL
     DEF Spec

----------------------------------------------------------------------------
(* What the user wrote stays written: no step of any command writes over or
   deletes an edited config that a record claims, kills and --force included. *)

(* A config is a plain file under etc/. Nothing there is a library, no archive
   ships what only a user writes, and a link there leads to no file its package
   ships elsewhere: with one of those, gc could take an edited file for a
   preserved library or the link to one. *)
Config(c) == c \notin Edits /\ Info[c].soname = NoEntry
Plain(m) ==
  \A q \in EtcPath : m[q] # NoEntry =>
    /\ Config(m[q])
    /\ IsLink(m[q]) => Info[m[q]].link \notin Own(m) \ EtcPath
ConfigsPlain ==
  /\ \A a \in Archive : Plain(a.ships)
  /\ \A c \in Edits : IsFile(c) /\ Info[c].soname = NoEntry

\* nothing on disk under etc/ is a library
Calm(d) == \A q \in EtcPath : d[q] # NoEntry => Info[d[q]].soname = NoEntry
\* a config of some record when the running transaction began
WasFile(p, q) == \E k \in Key : IsFile(Old(p, k)[q])

PlainDb ==
  /\ \A k \in Key : Readable(k) => Plain(man[k])
  /\ \A k \in Key : Own(preserved[k]) \cap EtcPath = {}
  /\ Calm(disk)

\* what extraction still has to write at q it will not write over an edit
Skips(p) ==
  /\ \A q \in skip[p] : WasFile(p, q)
  /\ \A q \in todo[p] \cap EtcPath : disk[q] \in Edits /\ WasFile(p, q) => q \in skip[p]
\* an edit at a path some record claims was there when the transaction began
Known(p) ==
  \A k \in Key : Readable(k) =>
    \A q \in EtcPath : IsFile(man[k][q]) /\ disk[q] \in Edits => WasFile(p, q)
\* and so was one at a path of the job that has been extracted
Extracted(p) ==
  \A q \in Own(Job(p).ships) \cap EtcPath :
    disk[q] \in Edits => WasFile(p, q) \/ (pc[p] = "extract" /\ q \in todo[p])
Memory(p) ==
  /\ Calm(base[p])
  /\ \A k \in Key : Plain(Old(p, k))
  /\ ~Past(p) => was[p] = [k \in Key |-> NoRecord]
Careful(p) ==
  /\ Memory(p)
  /\ pc[p] = "extract" => Skips(p)
  /\ pc[p] \in {"idle", "lock", "gc", "release"} => todo[p] \cap EtcPath = {}
  /\ pc[p] \in Applying => Known(p)
  /\ pc[p] \in {"extract", "manifest"} => Extracted(p)
EditInv == PlainDb /\ \A p \in Proc : Careful(p)

LEMMA EditContent == \A c \in Edits : c \in Content /\ c # NoEntry
BY ConstantsAssumption

LEMMA PlainNothing == Plain(Nothing)
BY ConstantsAssumption DEF Plain, Nothing

LEMMA PlainRestricted ==
  ASSUME NEW m \in Manifest, Plain(m), NEW S PROVE Plain(Restricted(m, S))
<1>1. Own(Restricted(m, S)) \subseteq Own(m)
  BY RestrictedOwn
<1>2. \A q \in Path : Restricted(m, S)[q] # NoEntry => Restricted(m, S)[q] = m[q]
  BY DEF Restricted
<1> QED
  BY <1>1, <1>2, ConstantsAssumption DEF Plain

LEMMA OldNothing ==
  ASSUME NEW p \in Proc, was[p] = [k \in Key |-> NoRecord], NEW k \in Key PROVE Old(p, k) = Nothing
BY DEF Old

LEMMA EditInside ==
  ASSUME TypeInv, LockInv, EditInv, NEW p \in Proc, Past(p), Others(p), PlainDb', Careful(p)'
  PROVE  EditInv'
<1> SUFFICES ASSUME NEW q \in Proc \ {p} PROVE Careful(q)'
  BY DEF EditInv
<1>1. /\ ~Past(q) /\ pc[q] \in {"idle", "lock"} /\ pc'[q] \in {"idle", "lock"}
      /\ was'[q] = was[q] /\ base'[q] = base[q] /\ todo'[q] = todo[q]
  BY AloneStep DEF Others, Past
<1>2. Memory(q) /\ todo[q] \cap EtcPath = {}
  BY <1>1 DEF EditInv, Careful
<1>3. \A k \in Key : Old(q, k)' = Old(q, k)
  BY <1>1 DEF Old
<1>4. Memory(q)'
  BY <1>1, <1>2, <1>3 DEF Memory, Calm, Plain, Past, Own
<1> QED
  BY <1>1, <1>2, <1>4 DEF Careful, Applying

\* An edited config a record claims, or claimed as the transaction began, is one the
\* process past the lock knows of.
LEMMA ClaimedKnown ==
  ASSUME TypeInv, LockInv, EditInv, NEW p \in Proc, pc[p] \in Applying, NEW q \in EtcPath,
         disk[q] \in Edits,
         \/ \E k \in dirs : Readable(k) /\ IsFile(man[k][q])
         \/ \E r \in Proc : \E k \in Key : IsFile(Old(r, k)[q])
  PROVE  WasFile(p, q)
<1>1. Past(p)
  BY DEF Past, Applying
<1>2. CASE \E k \in dirs : Readable(k) /\ IsFile(man[k][q])
  BY <1>2 DEF EditInv, Careful, Known, TypeInv, TypeOK
<1>3. ASSUME NEW r \in Proc, NEW k \in Key, IsFile(Old(r, k)[q]) PROVE WasFile(p, q)
  <2>1. CASE r = p
    BY <1>3, <2>1 DEF WasFile
  <2>2. CASE r # p
    <3>1. ~Past(r)
      BY <1>1, <2>2 DEF LockInv
    <3>2. Old(r, k) = Nothing
      BY <3>1, OldNothing DEF EditInv, Careful, Memory
    <3>3. q \in Path
      BY ConstantsAssumption
    <3> QED
      BY <1>3, <3>2, <3>3 DEF Nothing, IsFile
  <2> QED
    BY <2>1, <2>2
<1> QED
  BY <1>2, <1>3

\* what p remembers of the start of its transaction
LEMMA MemoryKeeps ==
  ASSUME NEW p \in Proc, Memory(p), was'[p] = was[p], base'[p] = base[p],
         Past(p)' \/ pc'[p] = pc[p]
  PROVE  Memory(p)' /\ \A q : WasFile(p, q)' <=> WasFile(p, q)
<1>1. \A k \in Key : Old(p, k)' = Old(p, k)
  BY DEF Old
<1>2. \A q : WasFile(p, q)' <=> WasFile(p, q)
  BY <1>1 DEF WasFile, IsFile
<1> QED
  BY <1>1, <1>2 DEF Memory, Calm, Plain, Own, Past

LEMMA PlainDbKeeps ==
  ASSUME PlainDb, UNCHANGED <<man, preserved, disk>> PROVE PlainDb'
BY DEF PlainDb, Plain, Calm, Readable, Own

\* extraction of one path
LEMMA EditExtract ==
  ASSUME ConfigsPlain, TypeInv, LockInv, EditInv, NEW p \in Proc, Extract(p)
  PROVE  /\ PlainDb' /\ Careful(p)'
         /\ \A r \in EtcPath : disk[r] \in Edits /\ WasFile(p, r) => disk'[r] = disk[r]
<1>1. PICK q \in todo[p] :
        /\ todo' = [todo EXCEPT ![p] = @ \ {q}]
        /\ disk' = IF q \in skip[p] THEN disk ELSE [disk EXCEPT ![q] = Job(p).ships[q]]
  BY DEF Extract
<1>2. /\ pc[p] = "extract" /\ Past(p) /\ Past(p)'
      /\ UNCHANGED <<pc, man, preserved, was, base, skip, batch, at>>
  BY DEF Extract, db, Past
<1>3. /\ todo'[p] = todo[p] \ {q} /\ disk \in Manifest /\ q \in Path /\ EtcPath \subseteq Path
      /\ Job(p).ships \in Manifest /\ Plain(Job(p).ships)
  BY <1>1, <1>2, JobType, ConstantsAssumption DEF TypeInv, TypeOK, LocalsOK, Applying, ConfigsPlain
<1>4. /\ \A r \in Path \ {q} : disk'[r] = disk[r]
      /\ q \in skip[p] => disk' = disk
      /\ q \notin skip[p] => disk'[q] = Job(p).ships[q]
  BY <1>1, <1>3 DEF Manifest
<1>5. q \in EtcPath /\ q \notin skip[p] => disk'[q] \notin Edits
  BY <1>3, <1>4, EditContent DEF Plain, Config
<1>6. Job(p)' = Job(p) /\ Careful(p) /\ PlainDb
  BY <1>2 DEF Job, EditInv
<1>7. Memory(p)' /\ \A r : WasFile(p, r)' <=> WasFile(p, r)
  BY <1>2, <1>6, MemoryKeeps DEF Careful
<1>8. Calm(disk)'
  <2>1. Calm(disk)
    BY <1>6 DEF PlainDb
  <2> QED
    BY <1>3, <1>4, <2>1 DEF Calm, Plain, Config
<1>9. PlainDb'
  BY <1>2, <1>6, <1>8 DEF PlainDb, Readable, Plain, Own
<1>10. Skips(p)'
  BY <1>2, <1>3, <1>4, <1>6, <1>7 DEF Careful, Skips
<1>11. Known(p)'
  <2>1. Known(p) /\ Skips(p)
    BY <1>2, <1>6 DEF Careful, Applying
  <2> QED
    BY <1>2, <1>3, <1>4, <1>5, <1>7, <2>1 DEF Known, Readable
<1>12. Extracted(p)'
  <2>1. Extracted(p) /\ Skips(p)
    BY <1>2, <1>6 DEF Careful
  <2>2. SUFFICES ASSUME NEW r \in Own(Job(p).ships) \cap EtcPath, disk'[r] \in Edits
                 PROVE  WasFile(p, r) \/ r \in todo'[p]
    BY <1>2, <1>6, <1>7 DEF Extracted
  <2>3. CASE r = q
    BY <1>5, <2>1, <2>2, <2>3 DEF Skips
  <2>4. CASE r # q
    BY <1>3, <1>4, <2>1, <2>2, <2>4 DEF Extracted
  <2> QED
    BY <2>3, <2>4
<1>13. Careful(p)'
  BY <1>2, <1>7, <1>10, <1>11, <1>12 DEF Careful
<1>14. ASSUME NEW r \in EtcPath, disk[r] \in Edits, WasFile(p, r) PROVE disk'[r] = disk[r]
  <2>1. Skips(p)
    BY <1>2, <1>6 DEF Careful
  <2> QED
    BY <1>3, <1>4, <1>14, <2>1 DEF Skips
<1> QED
  BY <1>9, <1>13, <1>14

\* What Preserve keeps back is never a config.
LEMMA HeldApart ==
  ASSUME TypeInv, EditInv, NEW p \in Proc, pc[p] \in Applying
  PROVE  Held(p) \cap EtcPath = {}
<1> DEFINE old == Old(p, KeyOf(Job(p)))
<1>1. Plain(old) /\ Calm(base[p]) /\ old \in Manifest
  BY JobType, OldType DEF EditInv, Careful, Memory
<1>2. Stay(p) \subseteq Libraries(old, base[p])
  BY DEF Stay
<1>3. ASSUME NEW q \in Libraries(old, base[p]) PROVE q \in Own(old) \ EtcPath
  <2>1. q \in Own(old) /\ base[p][q] # NoEntry /\ Info[base[p][q]].soname # NoEntry
    BY <1>3 DEF Libraries, Seen, IsFile
  <2> QED
    BY <1>1, <2>1 DEF Calm
<1>4. ASSUME NEW q \in Held(p), q \in EtcPath PROVE FALSE
  <2>1. q \in Own(old) /\ old[q] # NoEntry
    BY <1>4 DEF Held, Own
  <2>2. CASE IsLink(old[q])
    <3>1. Info[old[q]].link \in Stay(p)
      BY <1>4, <2>2 DEF Held
    <3> QED
      BY <1>1, <1>2, <1>3, <1>4, <2>1, <2>2, <3>1 DEF Plain
  <2>3. CASE ~IsLink(old[q])
    <3>1. q \in Stay(p)
      BY <1>4, <2>3 DEF Held
    <3> QED
      BY <1>2, <1>3, <1>4, <3>1
  <2> QED
    BY <2>2, <2>3
<1> QED
  BY <1>4

Claimed(q) ==
  \/ \E k \in dirs : Readable(k) /\ IsFile(man[k][q])
  \/ \E p \in Proc : \E k \in Key : IsFile(Old(p, k)[q])
Kept == \A q \in EtcPath : disk[q] \in Edits /\ Claimed(q) => disk'[q] = disk[q]

LEMMA KeptSame == ASSUME UNCHANGED disk PROVE Kept
BY DEF Kept

\* a step of an apply that touches no file and no manifest
LEMMA EditElsewhere ==
  ASSUME EditInv, NEW p \in Proc, Past(p)', UNCHANGED <<man, preserved, disk>>,
         was'[p] = was[p], base'[p] = base[p],
         pc'[p] \in Applying => pc[p] \in Applying,
         pc'[p] \notin {"extract", "manifest", "gc", "release"}
  PROVE  PlainDb' /\ Careful(p)'
<1>1. Memory(p)' /\ \A q : WasFile(p, q)' <=> WasFile(p, q)
  BY MemoryKeeps DEF EditInv, Careful
<1>2. pc'[p] \in Applying => Known(p)'
  BY <1>1 DEF EditInv, Careful, Known, Readable
<1>3. PlainDb'
  BY PlainDbKeeps DEF EditInv
<1> QED
  BY <1>1, <1>2, <1>3 DEF Careful, Past

\* a step that leaves the command, or leaves it as it begins
LEMMA EditExit ==
  ASSUME TypeInv, LockInv, EditInv, NEW p \in Proc, Past(p), Exit(p), UNCHANGED <<disk, db>>
  PROVE  EditInv' /\ Kept
<1>1. /\ pc'[p] = "idle" /\ was'[p] = [k \in Key |-> NoRecord] /\ base'[p] = Nothing
      /\ todo'[p] = {} /\ Others(p)
  BY ExitOthers DEF Exit, Goto, Set, TypeInv, TypeOK, LocalsOK
<1>2. PlainDb'
  BY PlainDbKeeps DEF EditInv, db
<1>3. \A k \in Key : Old(p, k)' = Nothing
  BY <1>1 DEF Old
<1>4. Memory(p)'
  BY <1>1, <1>3, PlainNothing, ConstantsAssumption DEF Memory, Calm, Nothing, Plain, Own
<1>5. Careful(p)'
  BY <1>1, <1>4 DEF Careful, Applying
<1> QED
  BY <1>1, <1>2, <1>5, EditInside, KeptSame

LEMMA EditInstall ==
  ASSUME ConfigsPlain, TypeInv, LockInv, EditInv, NEW p \in Proc, Past(p), Install(p)
  PROVE  EditInv' /\ Kept
<1>0. /\ pc = [q \in Proc |-> pc[q]] /\ todo = [q \in Proc |-> todo[q]]
      /\ skip = [q \in Proc |-> skip[q]] /\ disk \in Manifest /\ EtcPath \subseteq Path
      /\ man \in [Key -> Manifest \cup {NoRecord}] /\ NoRecord \notin Manifest
      /\ preserved \in [Key -> Manifest] /\ Others(p) /\ PlainDb /\ Careful(p)
  BY StepOthers, ConstantsAssumption DEF TypeInv, TypeOK, LocalsOK, Step, EditInv
<1>1. ASSUME pc[p] \in Applying
      PROVE  /\ Job(p).ships \in Manifest /\ Plain(Job(p).ships) /\ KeyOf(Job(p)) \in Key
             /\ Old(p, KeyOf(Job(p))) \in Manifest /\ Plain(Old(p, KeyOf(Job(p)))) /\ Known(p)
  BY <1>0, <1>1, JobType, OldType DEF ConfigsPlain, Careful, Memory
<1>2. CASE PlanRefuses(p)
  BY <1>2, EditExit DEF PlanRefuses
<1>3. CASE ApplyStart(p)
  <2>1. /\ pc[p] = "plan" /\ pc'[p] = "job" /\ was'[p] = man /\ base'[p] = disk
        /\ UNCHANGED <<disk, man, preserved>> /\ Past(p)'
    BY <1>0, <1>3 DEF ApplyStart, Goto, Set, db, TypeInv, TypeOK, LocalsOK, Past
  <2>2. PlainDb'
    BY <1>0, <2>1, PlainDbKeeps
  <2>3. \A k \in Key : Old(p, k)' = IF Readable(k) THEN man[k] ELSE Nothing
    BY <2>1 DEF Old, Readable
  <2>4. \A k \in Key : Plain(Old(p, k)')
    BY <1>0, <2>3, PlainNothing DEF PlainDb
  <2>5. Memory(p)'
    BY <1>0, <2>1, <2>4 DEF Memory, PlainDb, Calm, Plain, Own
  <2>6. Known(p)'
    BY <2>1, <2>3 DEF Known, WasFile, Readable
  <2>7. Careful(p)'
    BY <2>1, <2>5, <2>6 DEF Careful
  <2> QED
    BY <1>0, <2>1, <2>2, <2>7, EditInside, KeptSame
<1>4. CASE JobStart(p)
  <2>1. /\ pc[p] = "job" /\ pc'[p] = "extract" /\ todo'[p] = Own(Job(p).ships) /\ skip'[p] = Skipped(p)
        /\ UNCHANGED <<disk, man, preserved, was, base, batch, at>> /\ Past(p)'
    BY <1>0, <1>4 DEF JobStart, Goto, Set, db, Past
  <2>2. PlainDb' /\ Memory(p)' /\ (\A q : WasFile(p, q)' <=> WasFile(p, q)) /\ Job(p)' = Job(p)
    BY <1>0, <2>1, PlainDbKeeps, MemoryKeeps DEF Careful, Job
  <2>3. ASSUME NEW q \in Skipped(p) PROVE WasFile(p, q)
    <3>1. PICK k \in Key : q \in Modified(Old(p, k), disk)
      BY <2>3 DEF Skipped
    <3> QED
      BY <3>1 DEF Modified, Seen, WasFile
  <2>4. ASSUME NEW q \in Own(Job(p).ships) \cap EtcPath, disk[q] \in Edits, WasFile(p, q)
        PROVE  q \in Skipped(p)
    <3>1. PICK k \in Key : IsFile(Old(p, k)[q])
      BY <2>4 DEF WasFile
    <3>2. Plain(Old(p, k)) /\ IsFile(disk[q]) /\ q \in Path
      BY <1>0, <2>4 DEF Careful, Memory, ConfigsPlain
    <3>3. q \in Modified(Old(p, k), disk)
      BY <2>4, <3>1, <3>2 DEF Modified, Seen, Own, IsFile, Plain, Config
    <3> QED
      BY <2>4, <3>3 DEF Skipped
  <2>5. Skips(p)'
    BY <2>1, <2>2, <2>3, <2>4 DEF Skips
  <2>6. Known(p)' /\ Extracted(p)'
    BY <1>1, <2>1, <2>2 DEF Known, Extracted, Readable, Applying
  <2>7. Careful(p)'
    BY <2>1, <2>2, <2>5, <2>6 DEF Careful
  <2> QED
    BY <1>0, <2>1, <2>2, <2>7, EditInside, KeptSame
<1>5. CASE Extract(p)
  <2>1. PlainDb' /\ Careful(p)'
    BY <1>5, EditExtract
  <2>2. Kept
    BY <1>5, EditExtract, ClaimedKnown DEF Extract, Applying, Kept, Claimed
  <2> QED
    BY <1>0, <2>1, <2>2, EditInside
<1>6. CASE PutHead(p)
  <2>1. /\ pc[p] = "extract" /\ pc'[p] = "manifest" /\ todo[p] = {} /\ Past(p)'
        /\ UNCHANGED <<disk, man, preserved, was, base, batch, at>>
    BY <1>0, <1>6 DEF PutHead, Goto, Past
  <2>2. PlainDb' /\ Memory(p)' /\ (\A q : WasFile(p, q)' <=> WasFile(p, q)) /\ Job(p)' = Job(p)
    BY <1>0, <2>1, PlainDbKeeps, MemoryKeeps DEF Careful, Job
  <2>3. Known(p)' /\ Extracted(p)'
    BY <1>0, <2>1, <2>2 DEF Careful, Known, Extracted, Readable, Applying
  <2>4. Careful(p)'
    BY <2>1, <2>2, <2>3 DEF Careful
  <2> QED
    BY <1>0, <2>1, <2>2, <2>4, EditInside, KeptSame
<1>7. CASE PutManifest(p)
  <2>1. /\ pc[p] = "manifest" /\ pc'[p] = "provides" /\ Past(p)'
        /\ man' = [man EXCEPT ![KeyOf(Job(p))] = Job(p).ships]
        /\ UNCHANGED <<disk, preserved, was, base>>
    BY <1>0, <1>7 DEF PutManifest, Goto, locals, Past
  <2>2. /\ KeyOf(Job(p)) \in Key /\ Plain(Job(p).ships) /\ Known(p) /\ Extracted(p)
        /\ man'[KeyOf(Job(p))] = Job(p).ships
        /\ \A k \in Key \ {KeyOf(Job(p))} : man'[k] = man[k]
    BY <1>0, <1>1, <2>1 DEF Careful, Applying
  <2>3. Memory(p)' /\ (\A q : WasFile(p, q)' <=> WasFile(p, q))
    BY <1>0, <2>1, MemoryKeeps DEF Careful
  <2>4. ASSUME NEW k \in Key, man'[k] # NoRecord PROVE Plain(man'[k])
    BY <1>0, <2>2, <2>4 DEF PlainDb, Readable
  <2>5. PlainDb'
    BY <1>0, <2>1, <2>4 DEF PlainDb, Readable, Plain, Calm, Own
  <2>6. ASSUME NEW k \in Key, man'[k] # NoRecord, NEW q \in EtcPath, IsFile(man'[k][q]), disk[q] \in Edits
        PROVE  WasFile(p, q)
    <3>1. CASE k = KeyOf(Job(p))
      <4>1. q \in Own(Job(p).ships)
        BY <1>0, <2>2, <2>6, <3>1 DEF Own, IsFile
      <4> QED
        BY <2>1, <2>2, <2>6, <4>1 DEF Extracted
    <3>2. CASE k # KeyOf(Job(p))
      BY <2>2, <2>6, <3>2 DEF Known, Readable
    <3> QED
      BY <3>1, <3>2
  <2>7. Known(p)'
    BY <2>1, <2>3, <2>6 DEF Known, Readable
  <2>8. Careful(p)'
    BY <2>1, <2>3, <2>7 DEF Careful
  <2> QED
    BY <1>0, <2>1, <2>5, <2>8, EditInside, KeptSame
<1>8. CASE PutProvides(p) \/ DispossessDone(p) \/ PruneDone(p)
  <2>1. /\ pc[p] \in Applying /\ pc'[p] \in {"job", "preserve", "dispossess", "prune", "enqueue"}
        /\ UNCHANGED <<disk, man, preserved, was, base>> /\ Past(p)'
    BY <1>0, <1>8 DEF PutProvides, DispossessDone, PruneDone, Advance, Goto, db, Applying, Past
  <2> QED
    BY <1>0, <2>1, EditElsewhere, EditInside, KeptSame
<1>9. CASE Disown(p) \/ PruneStart(p) \/ Enqueue(p)
  <2>1. /\ pc'[p] \in {"dispossess", "unlink", "done"} /\ (pc'[p] # "done" => pc[p] \in Applying)
        /\ UNCHANGED <<disk, man, preserved, was, base>> /\ Past(p)'
    BY <1>0, <1>9 DEF Disown, PruneStart, Enqueue, Goto, db, locals, Applying, Past
  <2> QED
    BY <1>0, <2>1, EditElsewhere, EditInside, KeptSame DEF Applying
<1>10. CASE Preserve(p)
  <2>1. /\ pc[p] = "preserve" /\ pc'[p] \in {"preserve", "dispossess"} /\ Past(p)'
        /\ UNCHANGED <<disk, man, was, base>>
    BY <1>0, <1>10 DEF Preserve, Advance, Goto, Past
  <2>2. ASSUME NEW k \in Key PROVE Own(preserved'[k]) \cap EtcPath = {}
    <3> DEFINE j == KeyOf(Job(p))
               had == Own(preserved[j]) \ kept[p]
               all == [q \in Path |-> IF q \in had THEN preserved[j][q]
                                      ELSE IF q \in Held(p) THEN Old(p, j)[q] ELSE NoEntry]
    <3>1. preserved' = IF Own(all) = had THEN preserved ELSE [preserved EXCEPT ![j] = all]
      BY <1>10 DEF Preserve
    <3>2. Own(all) \subseteq Own(preserved[j]) \cup Held(p)
      BY DEF Own
    <3>3. Held(p) \cap EtcPath = {} /\ j \in Key
      BY <1>1, <2>1, HeldApart DEF Applying
    <3> HIDE DEF all, j
    <3> QED
      BY <1>0, <3>1, <3>2, <3>3 DEF PlainDb
  <2>3. PlainDb'
    BY <1>0, <2>1, <2>2 DEF PlainDb, Readable, Plain, Calm, Own
  <2>4. Memory(p)' /\ (\A q : WasFile(p, q)' <=> WasFile(p, q))
    BY <1>0, <2>1, MemoryKeeps DEF Careful
  <2>5. Known(p)'
    BY <1>1, <2>1, <2>4 DEF Known, Readable, Applying
  <2>6. Careful(p)'
    BY <2>1, <2>4, <2>5 DEF Careful
  <2> QED
    BY <1>0, <2>1, <2>3, <2>6, EditInside, KeptSame
<1>11. CASE Dispossess(p)
  <2>1. PICK k \in Losers(p) : man' = [man EXCEPT ![k] = Restricted(@, Own(@) \ Own(Job(p).ships))]
    BY <1>11 DEF Dispossess
  <2>2. /\ pc[p] = "dispossess" /\ pc'[p] = "disown" /\ Past(p)' /\ k \in Key /\ Readable(k)
        /\ UNCHANGED <<disk, preserved, was, base>>
    BY <1>0, <1>11, <2>1 DEF Dispossess, Goto, Losers, Past, TypeInv, TypeOK
  <2>3. man[k] \in Manifest /\ Plain(man[k])
    BY <1>0, <2>2 DEF Readable, PlainDb
  <2>4. /\ Plain(man'[k]) /\ \A q \in Path : IsFile(man'[k][q]) => IsFile(man[k][q])
        /\ \A l \in Key \ {k} : man'[l] = man[l]
    <3>1. man'[k] = Restricted(man[k], Own(man[k]) \ Own(Job(p).ships))
      BY <1>0, <2>1, <2>2
    <3>2. Plain(man'[k])
      BY <2>3, <3>1, PlainRestricted
    <3>3. \A q \in Path : IsFile(man'[k][q]) => IsFile(man[k][q])
      BY <3>1 DEF Restricted, IsFile
    <3>4. \A l \in Key \ {k} : man'[l] = man[l]
      BY <1>0, <2>1, <2>2
    <3> QED
      BY <3>2, <3>3, <3>4
  <2>5. ASSUME NEW l \in Key, man'[l] # NoRecord PROVE Plain(man'[l])
    BY <1>0, <2>4, <2>5 DEF PlainDb, Readable
  <2>6. PlainDb'
    BY <1>0, <2>2, <2>5 DEF PlainDb, Readable, Plain, Calm, Own
  <2>7. Memory(p)' /\ (\A q : WasFile(p, q)' <=> WasFile(p, q))
    BY <1>0, <2>2, MemoryKeeps DEF Careful
  <2>8. Known(p)'
    BY <1>0, <1>1, <2>2, <2>4, <2>7 DEF Known, Readable, Applying
  <2>9. Careful(p)'
    BY <2>2, <2>7, <2>8 DEF Careful
  <2> QED
    BY <1>0, <2>2, <2>6, <2>9, EditInside, KeptSame
<1>12. CASE PruneUnlink(p)
  <2>1. /\ pc[p] = "unlink" /\ Past(p)' /\ UNCHANGED <<pc, man, preserved, was, base>>
        /\ Drop(p, Old(p, KeyOf(Job(p))))
    BY <1>12 DEF PruneUnlink, db, Past
  <2>2. Plain(Old(p, KeyOf(Job(p)))) /\ Known(p)
    BY <1>1, <2>1 DEF Applying
  <2>3. \A q \in EtcPath : disk'[q] = disk[q] \/ (disk'[q] = NoEntry /\ disk[q] \notin Edits)
    BY <1>0, <2>1, <2>2, EditContent DEF Drop, Plain, Config, Manifest
  <2>4. PlainDb'
    BY <1>0, <2>1, <2>3 DEF PlainDb, Readable, Plain, Calm, Own
  <2>5. Memory(p)' /\ (\A q : WasFile(p, q)' <=> WasFile(p, q))
    BY <1>0, <2>1, MemoryKeeps DEF Careful
  <2>6. Known(p)'
    BY <2>1, <2>2, <2>3, <2>5, EditContent DEF Known, Readable
  <2>7. Careful(p)'
    BY <2>1, <2>5, <2>6 DEF Careful
  <2> QED
    BY <1>0, <2>3, <2>4, <2>7, EditInside DEF Kept
<1> QED
  BY <1>2, <1>3, <1>4, <1>5, <1>6, <1>7, <1>8, <1>9, <1>10, <1>11, <1>12 DEF Install

\* what gc takes out of a preserved record is what it then sweeps
LEMMA GcReleases ==
  ASSUME NEW p \in Proc, GcRecord(p)
  PROVE  \E k \in going[p] : \E out \in SUBSET Own(preserved[k]) :
           /\ preserved' = [preserved EXCEPT ![k] = Restricted(preserved[k], Own(preserved[k]) \ out)]
           /\ todo' = [todo EXCEPT ![p] = @ \cup out]
<1> DEFINE out(k, free) == UNION {Generation(preserved[k], s) : s \in free}
<1>1. PICK k \in going[p] : \E free \in SUBSET Soname :
        /\ preserved' = [preserved EXCEPT ![k] = Restricted(preserved[k], Own(preserved[k]) \ out(k, free))]
        /\ todo' = [todo EXCEPT ![p] = @ \cup out(k, free)]
  <2>1. PICK k \in going[p], open \in SUBSET Soname :
          LET m == preserved[k]
              free == {s \in Soname \ (Wanted(k.target) \cup open) :
                         Generation(m, s) \cap Modified(m, disk) = {}}
              o == UNION {Generation(m, s) : s \in free}
          IN  /\ preserved' = [preserved EXCEPT ![k] = Restricted(m, Own(m) \ o)]
              /\ todo' = [todo EXCEPT ![p] = @ \cup o]
              /\ going' = [going EXCEPT ![p] = @ \ {k}]
    BY DEF GcRecord
  <2> DEFINE free == {s \in Soname \ (Wanted(k.target) \cup open) :
                        Generation(preserved[k], s) \cap Modified(preserved[k], disk) = {}}
  <2> WITNESS k \in going[p]
  <2> WITNESS free \in SUBSET Soname
  <2> QED
    BY <2>1
<1>2. PICK free \in SUBSET Soname :
        /\ preserved' = [preserved EXCEPT ![k] = Restricted(preserved[k], Own(preserved[k]) \ out(k, free))]
        /\ todo' = [todo EXCEPT ![p] = @ \cup out(k, free)]
  BY <1>1
<1>3. out(k, free) \in SUBSET Own(preserved[k])
  BY DEF Generation
<1> HIDE DEF out
<1> QED
  BY <1>2, <1>3

LEMMA EditRemove ==
  ASSUME TypeInv, LockInv, WholeInv, EditInv, NEW p \in Proc, Past(p),
         Remove(p) \/ Gc(p) \/ Finish(p) \/ Kill(p)
  PROVE  EditInv' /\ Kept
<1>0. /\ pc = [q \in Proc |-> pc[q]] /\ todo = [q \in Proc |-> todo[q]] /\ disk \in Manifest
      /\ EtcPath \subseteq Path /\ man \in [Key -> Manifest \cup {NoRecord}] /\ NoRecord \notin Manifest
      /\ preserved \in [Key -> Manifest] /\ Others(p) /\ PlainDb /\ Careful(p) /\ Memory(p)
      /\ was \in [Proc -> [Key -> Manifest \cup {NoRecord}]]
  BY StepOthers, ExitOthers, ConstantsAssumption DEF TypeInv, TypeOK, LocalsOK, Step, EditInv, Careful, Kill
<1>1. CASE RemoveDies(p) \/ Finish(p) \/ Kill(p)
  BY <1>1, EditExit DEF RemoveDies, Finish, Kill
<1>2. CASE RemoveCheck(p)
  <2>1. CASE Exit(p)
    BY <1>2, <2>1, EditExit DEF RemoveCheck
  <2>2. CASE ~Exit(p)
    <3>1. /\ pc'[p] = "pick" /\ base'[p] = disk /\ was' = was /\ Past(p)'
          /\ UNCHANGED <<disk, man, preserved>>
      BY <1>0, <1>2, <2>2 DEF RemoveCheck, Goto, Set, db, TypeInv, TypeOK, LocalsOK, Past
    <3>2. \A k \in Key : Old(p, k)' = Old(p, k)
      BY <3>1 DEF Old
    <3>3. Memory(p)'
      BY <1>0, <3>1, <3>2 DEF Memory, PlainDb, Calm, Plain, Own
    <3>4. Careful(p)' /\ PlainDb'
      BY <1>0, <3>1, <3>3, PlainDbKeeps DEF Careful, Applying
    <3> QED
      BY <1>0, <3>1, <3>4, EditInside, KeptSame
  <2> QED
    BY <2>1, <2>2
<1>3. CASE RemovePick(p)
  <2>1. PICK k \in going[p] : was' = Set(was, p, [l \in Key |-> IF l = k THEN man[k] ELSE NoRecord])
    BY <1>3 DEF RemovePick
  <2>2. /\ pc'[p] = "remove" /\ UNCHANGED <<disk, man, preserved, base>> /\ Past(p)' /\ k \in Key
    BY <1>0, <1>3 DEF RemovePick, Goto, db, Past, TypeInv, TypeOK, LocalsOK
  <2>3. was'[p] = [l \in Key |-> IF l = k THEN man[k] ELSE NoRecord]
    BY <1>0, <2>1 DEF Set
  <2>4. \A l \in Key : Old(p, l)' = IF l = k /\ Readable(k) THEN man[k] ELSE Nothing
    BY <2>3 DEF Old, Readable
  <2>5. \A l \in Key : Plain(Old(p, l)')
    BY <1>0, <2>2, <2>4, PlainNothing DEF PlainDb
  <2>6. Memory(p)'
    BY <1>0, <2>2, <2>5 DEF Memory, Calm, Plain, Own
  <2>7. Careful(p)' /\ PlainDb'
    BY <1>0, <2>2, <2>6, PlainDbKeeps DEF Careful, Applying
  <2> QED
    BY <1>0, <2>2, <2>7, EditInside, KeptSame
<1>4. ASSUME pc[p] \in Leaving \ {"pick"} PROVE Removing(p) \in Key /\ Plain(Old(p, Removing(p)))
  <2>1. Removing(p) \in Key
    BY <1>4 DEF WholeInv, Handles, Leaving, TypeInv, TypeOK
  <2> HIDE DEF Removing
  <2> QED
    BY <1>0, <2>1 DEF Memory
<1>5. CASE RemoveUnlink(p)
  <2>1. /\ pc[p] = "remove" /\ Past(p)' /\ UNCHANGED <<pc, man, preserved, was, base>>
        /\ Drop(p, Old(p, Removing(p)))
    BY <1>5 DEF RemoveUnlink, db, Past
  <2>2. Plain(Old(p, Removing(p)))
    BY <1>4, <2>1 DEF Leaving
  <2>3. \A q \in EtcPath : disk'[q] = disk[q] \/ (disk'[q] = NoEntry /\ disk[q] \notin Edits)
    BY <1>0, <2>1, <2>2, EditContent DEF Drop, Plain, Config, Manifest
  <2>4. PlainDb'
    BY <1>0, <2>1, <2>3 DEF PlainDb, Readable, Plain, Calm, Own
  <2>5. Memory(p)'
    BY <1>0, <2>1, MemoryKeeps
  <2>6. Careful(p)'
    BY <2>1, <2>5 DEF Careful, Applying
  <2> QED
    BY <1>0, <2>3, <2>4, <2>6, EditInside DEF Kept
<1>6. CASE ForgetProvides(p) \/ ForgetDir(p)
  <2>1. /\ pc'[p] \in {"forget", "pick", "done"} /\ UNCHANGED <<disk, man, preserved, was, base>> /\ Past(p)'
    BY <1>0, <1>6 DEF ForgetProvides, ForgetDir, Goto, locals, Past
  <2> QED
    BY <1>0, <2>1, EditElsewhere, EditInside, KeptSame DEF Applying
<1>7. CASE ForgetFiles(p)
  <2>1. /\ pc[p] = "forget" /\ pc'[p] = "rmdir" /\ UNCHANGED <<disk, preserved, was, base>> /\ Past(p)'
        /\ man' = [man EXCEPT ![Removing(p)] = NoRecord]
    BY <1>0, <1>7 DEF ForgetFiles, Goto, locals, Past
  <2>2. Removing(p) \in Key
    BY <1>4, <2>1 DEF Leaving
  <2> HIDE DEF Removing
  <2>3. \A k \in Key : man'[k] # NoRecord => man[k] # NoRecord /\ man'[k] = man[k]
    BY <1>0, <2>1, <2>2
  <2>4. PlainDb'
    BY <1>0, <2>1, <2>3 DEF PlainDb, Readable, Plain, Calm, Own
  <2>5. Careful(p)'
    BY <1>0, <2>1, MemoryKeeps DEF Careful, Applying
  <2> QED
    BY <1>0, <2>1, <2>4, <2>5, EditInside, KeptSame
<1>8. CASE GcStart(p)
  <2>1. /\ pc[p] = "gc" /\ pc'[p] = "release" /\ base'[p] = disk /\ UNCHANGED <<was, todo, disk, man, preserved>> /\ Past(p)'
    BY <1>0, <1>8 DEF GcStart, Goto, Set, db, TypeInv, TypeOK, LocalsOK, Past
  <2>2. \A k \in Key : Old(p, k)' = Old(p, k)
    BY <2>1 DEF Old
  <2>3. Memory(p)'
    BY <1>0, <2>1, <2>2 DEF Memory, PlainDb, Calm, Plain, Own
  <2>4. Careful(p)' /\ PlainDb'
    BY <1>0, <2>1, <2>3, PlainDbKeeps DEF Careful, Applying
  <2> QED
    BY <1>0, <2>1, <2>4, EditInside, KeptSame
<1>9. CASE GcRecord(p)
  <2>1. /\ pc[p] = "release" /\ pc'[p] = "release" /\ UNCHANGED <<was, base, disk, man>> /\ Past(p)'
        /\ going[p] \subseteq Key
    BY <1>9 DEF GcRecord, Past, TypeInv, TypeOK, LocalsOK
  <2>2. PICK k \in going[p] : \E out \in SUBSET Own(preserved[k]) :
          /\ preserved' = [preserved EXCEPT ![k] = Restricted(preserved[k], Own(preserved[k]) \ out)]
          /\ todo' = [todo EXCEPT ![p] = @ \cup out]
    BY <1>9, GcReleases
  <2>3. PICK out \in SUBSET Own(preserved[k]) :
          /\ preserved' = [preserved EXCEPT ![k] = Restricted(preserved[k], Own(preserved[k]) \ out)]
          /\ todo' = [todo EXCEPT ![p] = @ \cup out]
    BY <2>2
  <2>4. Own(preserved[k]) \cap EtcPath = {} /\ todo'[p] \cap EtcPath = {}
    BY <1>0, <2>1, <2>3 DEF PlainDb, Careful
  <2>5. \A l \in Key : Own(preserved'[l]) \subseteq Own(preserved[l])
    BY <1>0, <2>1, <2>3, RestrictedOwn
  <2>6. PlainDb'
    BY <1>0, <2>1, <2>5 DEF PlainDb, Readable, Plain, Calm, Own
  <2>7. Careful(p)'
    BY <1>0, <2>1, <2>4, MemoryKeeps DEF Careful, Applying
  <2> QED
    BY <1>0, <2>1, <2>6, <2>7, EditInside, KeptSame
<1>10. CASE GcSweep(p)
  <2>1. /\ pc[p] = "release" /\ UNCHANGED <<pc, was, base, man, preserved>> /\ Past(p)'
    BY <1>10 DEF GcSweep, db, Past
  <2>2. PICK q \in todo[p] : /\ disk' = [disk EXCEPT ![q] = NoEntry]
                             /\ todo' = [todo EXCEPT ![p] = @ \ {q}]
    BY <1>10 DEF GcSweep
  <2>3. todo[p] \cap EtcPath = {} /\ todo'[p] \subseteq todo[p] /\ \A r \in EtcPath : disk'[r] = disk[r]
    BY <1>0, <2>1, <2>2 DEF Careful, Manifest
  <2>4. PlainDb'
    BY <1>0, <2>1, <2>3 DEF PlainDb, Readable, Plain, Calm, Own
  <2>5. Careful(p)'
    BY <1>0, <2>1, <2>3, MemoryKeeps DEF Careful, Applying
  <2> QED
    BY <1>0, <2>3, <2>4, <2>5, EditInside DEF Kept
<1>11. CASE GcDone(p)
  <2>1. /\ pc'[p] = "done" /\ UNCHANGED <<disk, man, preserved, was, base>> /\ Past(p)'
    BY <1>0, <1>11 DEF GcDone, Goto, db, locals, Past
  <2> QED
    BY <1>0, <2>1, EditElsewhere, EditInside, KeptSame DEF Applying
<1> QED
  BY <1>1, <1>2, <1>3, <1>5, <1>6, <1>7, <1>8, <1>9, <1>10, <1>11 DEF Remove, Gc

LEMMA EditOutside ==
  ASSUME ConfigsPlain, TypeInv, LockInv, EditInv, Outside PROVE EditInv' /\ Kept
<1>0. UNCHANGED db /\ PlainDb /\ disk \in Manifest /\ EtcPath \subseteq Path
  BY OutsideKeeps, ConstantsAssumption DEF EditInv, TypeInv, TypeOK
<1>1. CASE Edit
  <2>1. PICK q \in EtcPath, c \in Edits :
          IsFile(disk[q]) /\ disk[q] \notin Edits /\ disk' = [disk EXCEPT ![q] = c]
    BY <1>1 DEF Edit
  <2>2. lock = NoProc /\ UNCHANGED <<db, pc, todo, was, base>>
    BY <1>1 DEF Edit, locals
  <2>3. /\ \A r \in EtcPath \ {q} : disk'[r] = disk[r]
        /\ disk'[q] = c /\ Info[c].soname = NoEntry
    BY <1>0, <2>1 DEF Manifest, ConfigsPlain
  <2>4. PlainDb'
    BY <1>0, <2>2, <2>3 DEF PlainDb, Readable, Plain, Calm, Own, db
  <2>5. ASSUME NEW p \in Proc PROVE Careful(p)'
    <3>1. ~Past(p) /\ ~Past(p)'
      BY <2>2, ConstantsAssumption DEF LockInv, Past
    <3>2. Careful(p)
      BY DEF EditInv
    <3>3. Memory(p)'
      BY <2>2, <3>2, MemoryKeeps DEF Careful
    <3> QED
      BY <2>2, <3>1, <3>2, <3>3 DEF Careful, Applying, Past
  <2>6. Kept
    BY <2>1, <2>3 DEF Kept
  <2> QED
    BY <2>4, <2>5, <2>6 DEF EditInv
<1>2. CASE ~Edit
  <2>1. UNCHANGED disk
    BY <1>2 DEF Outside, vars, BeginInstall, BeginRemove, BeginGc, Begin, Lock, Kill
  <2>2. PlainDb'
    BY <1>0, <2>1, PlainDbKeeps DEF db
  <2>3. ASSUME NEW p \in Proc PROVE Careful(p)'
    <3>0. Careful(p) /\ Memory(p)
      BY DEF EditInv, Careful
    <3>1. CASE /\ pc[p] \in {"idle", "lock"} /\ pc'[p] \in {"idle", "lock", "plan", "check", "gc"}
               /\ was'[p] = was[p] \/ was'[p] = [k \in Key |-> NoRecord]
               /\ base'[p] = base[p] \/ base'[p] = Nothing
               /\ todo'[p] = todo[p] \/ todo'[p] = {}
      <4>1. was'[p] = [k \in Key |-> NoRecord]
        BY <3>0, <3>1 DEF Memory, Past
      <4>2. \A k \in Key : Old(p, k)' = Nothing
        BY <4>1 DEF Old
      <4>3. Calm(base[p])'
        BY <1>0, <3>0, <3>1 DEF Memory, Calm, Nothing
      <4>4. Memory(p)'
        BY <4>1, <4>2, <4>3, PlainNothing DEF Memory, Plain, Own
      <4>5. todo'[p] \cap EtcPath = {}
        BY <3>0, <3>1 DEF Careful
      <4> QED
        BY <3>1, <4>4, <4>5 DEF Careful, Applying
    <3>2. CASE /\ pc'[p] = pc[p] /\ batch'[p] = batch[p] /\ at'[p] = at[p] /\ was'[p] = was[p]
               /\ base'[p] = base[p] /\ skip'[p] = skip[p] /\ todo'[p] = todo[p]
      <4>1. Memory(p)' /\ (\A q : WasFile(p, q)' <=> WasFile(p, q)) /\ Job(p)' = Job(p)
        BY <3>0, <3>2, MemoryKeeps DEF Job
      <4>2. pc[p] \in Applying => Known(p)'
        BY <1>0, <2>1, <3>0, <4>1 DEF Careful, Known, Readable, db
      <4>3. pc[p] = "extract" => Skips(p)'
        BY <2>1, <3>0, <3>2, <4>1 DEF Careful, Skips
      <4>4. pc[p] \in {"extract", "manifest"} => Extracted(p)'
        BY <2>1, <3>0, <3>2, <4>1 DEF Careful, Extracted
      <4> QED
        BY <3>0, <3>2, <4>1, <4>2, <4>3, <4>4 DEF Careful
    <3> QED
      BY <3>1, <3>2, OutsideKeeps
  <2> QED
    BY <2>1, <2>2, <2>3, KeptSame DEF EditInv
<1> QED
  BY <1>1, <1>2

LEMMA EditNext ==
  ASSUME ConfigsPlain, TypeInv, LockInv, WholeInv, EditInv, [Next]_vars PROVE EditInv' /\ Kept
BY InsideOrOut, EditOutside, EditInstall, EditRemove

LEMMA EditInit == ASSUME Init PROVE EditInv
<1>1. PlainDb
  BY ConstantsAssumption DEF Init, PlainDb, Readable, Nothing, Own, Calm
<1>2. ASSUME NEW p \in Proc PROVE Careful(p)
  <2>1. /\ pc[p] = "idle" /\ was[p] = [k \in Key |-> NoRecord] /\ base[p] = Nothing /\ todo[p] = {}
    BY DEF Init
  <2>2. \A k \in Key : Old(p, k) = Nothing
    BY <2>1, OldNothing
  <2>3. Memory(p)
    BY <2>1, <2>2, PlainNothing, ConstantsAssumption DEF Memory, Calm, Nothing
  <2> QED
    BY <2>1, <2>3 DEF Careful, Applying
<1> QED
  BY <1>1, <1>2 DEF EditInv

\* A config the user edited is never written over or deleted while a record claims it, or
\* claimed it when the running transaction began: by no upgrade, no other package that
\* takes the path over under --force, no removal, no gc, and no second try after a kill
\* (install.rs apply, modified, preserve and unlink).
THEOREM EditsStay == ASSUME ConfigsPlain PROVE Spec => EditKept
<1>1. TypeInv /\ LockInv /\ WholeInv /\ EditInv /\ [Next]_vars => EditInv' /\ Kept
  BY EditNext
<1>2. Init => LockInv /\ EditInv
  BY EditInit DEF Init, LockInv, Past
<1>3. Kept => [\A q \in EtcPath :
                 /\ disk[q] \in Edits
                 /\ \/ \E k \in dirs : Readable(k) /\ IsFile(man[k][q])
                    \/ \E p \in Proc : \E k \in Key : IsFile(Old(p, k)[q])
                 => disk'[q] = disk[q]]_vars
  BY DEF Kept, Claimed
<1> QED
  BY InitType, NextType, LockStep, WholeInit, WholeNext, <1>1, <1>2, <1>3, PTL DEF Spec, EditKept

----------------------------------------------------------------------------
(* What records say and what is on disk. As long as nothing is killed: with
   nothing forced, each file a record claims is there and each file there is
   claimed; forced or not, the provides of a record are those of its files.
   And what is left of it through kills: each file a record claims is there.

   gc asks no record before it takes a file, so where it runs a claimed one may
   be missing; it is then tangled, and never another file than the recorded one. *)

Lost == IF "gc" \in Ops THEN {NoEntry} ELSE {}
Stands(m, d) ==
  \A q \in Own(m) : d[q] = m[q] \/ d[q] \in Edits \/ (d[q] \in Lost /\ q \in tangled)
AllStand(S) == \A k \in dirs \ S : Readable(k) => Stands(man[k], disk)

Swept(p) ==
  /\ op[p] \in Ops \cup {"none"}
  /\ pc[p] \in {"gc", "release"} => op[p] = "gc"
  /\ pc[p] \in {"idle", "lock", "plan"} => kept[p] = {}
SweptInv == \A p \in Proc : Swept(p)

Later == {"preserve", "dispossess", "disown", "prune", "unlink", "enqueue"}
Works(p) == pc[p] \in Applying \cup {"enqueue"}
Goes(p) == pc[p] \in {"remove", "forget"}

\* the files of the i-th job of p's batch are down, its record is written, or neither was begun
Laid(p, i) ==
  \/ pc[p] \in Later
  \/ pc[p] \in {"job", "extract"} /\ i < at[p]
  \/ pc[p] \in {"manifest", "provides"} /\ i =< at[p]
Recorded(p, i) ==
  \/ pc[p] \in Later
  \/ pc[p] \in {"job", "extract", "manifest"} /\ i < at[p]
  \/ pc[p] = "provides" /\ i =< at[p]
Awaits(p, i) ==
  \/ pc[p] = "job" /\ i >= at[p]
  \/ pc[p] \in {"extract", "manifest", "provides"} /\ i > at[p]

\* what the transaction found was in order
Began(p) ==
  \A k \in Key : Stands(Old(p, k), base[p]) /\ (was[p][k] # NoRecord => k \in dirs)
Jobs(p) ==
  \A i \in 1..Len(batch[p]) :
    LET j == batch[p][i] IN
    /\ Laid(p, i) => Stands(j.ships, disk) /\ Own(j.ships) \subseteq kept[p]
    /\ Recorded(p, i) => man[KeyOf(j)] = j.ships
    /\ Awaits(p, i) => \A q \in Own(j.ships) : disk[q] = base[p][q]
\* what no job ships is as it was, or pruned
Beside(p) ==
  \A q \in Path \ Ships(batch[p]) :
    disk[q] = base[p][q] \/ (pc[p] \in {"prune", "unlink", "enqueue"} /\ disk[q] = NoEntry)
Here(p) ==
  /\ pc[p] = "extract" =>
       /\ \A q \in Own(Job(p).ships) \ todo[p] : disk[q] = Job(p).ships[q] \/ disk[q] \in Edits
       /\ \A q \in skip[p] \cap todo[p] : disk[q] \in Edits
  /\ pc[p] = "unlink" => todo[p] \cap kept[p] = {}

LayAt(p) ==
  /\ Works(p) => Began(p) /\ Jobs(p) /\ Beside(p) /\ Here(p)
  /\ Goes(p) => /\ AllStand({Removing(p)})
                /\ Old(p, Removing(p)) = man[Removing(p)] /\ Readable(Removing(p))
                /\ todo[p] \subseteq Own(man[Removing(p)])
  /\ ~Works(p) /\ ~Goes(p) => AllStand({})
LayInv ==
  kills = 0 => /\ (\A p \in Proc : ~Past(p)) => AllStand({})
               /\ \A p \in Proc : Past(p) => LayAt(p)

LEMMA LayInside ==
  ASSUME LockInv, NEW p \in Proc, Past(p), Others(p), kills' = 0 => LayAt(p)'
  PROVE  LayInv'
<1>1. \A q \in Proc \ {p} : ~Past(q)'
  BY AloneStep DEF Past
<1>2. kills' = 0 /\ ~Past(p)' => AllStand({})'
  BY DEF LayAt, Past, Works, Goes, Applying
<1> QED
  BY <1>1, <1>2 DEF LayInv

LEMMA SweptNext == ASSUME TypeInv, LockInv, SweptInv, [Next]_vars PROVE SweptInv'
<1> USE DEF TypeInv, TypeOK, LocalsOK, SweptInv, Swept
<1>1. CASE UNCHANGED vars \/ Edit
  BY <1>1 DEF vars, Edit, locals
<1>2. ASSUME NEW p \in Proc, Exit(p) PROVE SweptInv'
  <2>1. /\ pc' = [pc EXCEPT ![p] = "idle"] /\ op' = [op EXCEPT ![p] = "none"]
        /\ kept' = [kept EXCEPT ![p] = {}]
    BY <1>2 DEF Exit, Goto, Set
  <2> QED
    BY <2>1
<1>3. ASSUME NEW p \in Proc, BeginInstall(p) \/ BeginRemove(p) \/ BeginGc(p) PROVE SweptInv'
  <2>1. /\ \E o \in Ops : op' = [op EXCEPT ![p] = o] /\ pc' = [pc EXCEPT ![p] = "lock"]
        /\ kept' = kept /\ pc[p] = "idle"
    BY <1>3 DEF BeginInstall, BeginRemove, BeginGc, Begin, Goto, Set
  <2> QED
    BY <2>1
<1>4. ASSUME NEW p \in Proc, Lock(p) PROVE SweptInv'
  BY <1>4 DEF Lock, Goto, locals
<1>5. ASSUME NEW p \in Proc, Gc(p) PROVE SweptInv'
  BY <1>5 DEF Gc, GcStart, GcRecord, GcSweep, GcDone, Goto, locals
<1>6. ASSUME NEW p \in Proc, Finish(p) \/ Kill(p) PROVE SweptInv'
  BY <1>2, <1>6 DEF Finish, Kill
<1>7. ASSUME NEW p \in Proc, Remove(p) PROVE SweptInv'
  BY <1>2, <1>7 DEF Remove, RemoveCheck, RemoveDies, RemovePick, RemoveUnlink, ForgetProvides,
     ForgetFiles, ForgetDir, Goto, locals
<1>8. ASSUME NEW p \in Proc, Install(p) PROVE SweptInv'
  <2>1. CASE PlanRefuses(p)
    BY <1>2, <2>1 DEF PlanRefuses
  <2>2. CASE ~PlanRefuses(p)
    <3>1. op'[p] = op[p] /\ pc'[p] \in Applying \cup {"enqueue", "done"}
      BY <1>8, <2>2 DEF Install, ApplyStart, JobStart, Extract, PutHead, PutManifest,
         PutProvides, Preserve, Dispossess, Disown, DispossessDone, PruneStart, PruneUnlink, PruneDone,
         Enqueue, Advance, Goto, locals, Applying
    <3>2. Others(p)
      BY <1>8, StepOthers DEF Step
    <3> QED
      BY <3>1, <3>2 DEF Others, Applying
  <2> QED
    BY <2>1, <2>2
<1> QED
  BY <1>1, <1>3, <1>4, <1>5, <1>6, <1>7, <1>8 DEF Next, Step

\* Where no apply is running, a path that a record and a preserved record both claim was left
\* so by an install that ran to its end, and of what gc is about to unlink no record claims
\* anything else.
Claimable == {q \in Path : \E k \in dirs : Readable(k) /\ q \in Own(man[k])}
TangledAt(p) ==
  /\ pc[p] = "release" => todo[p] \cap Claimable \subseteq tangled
  /\ pc[p] \in {"idle", "lock", "plan", "check", "gc"} => todo[p] = {}
TangledInv ==
  kills = 0 => /\ (\A p \in Proc : ~Works(p)) => TwiceClaimed \subseteq tangled
               /\ \A p \in Proc : TangledAt(p)

LEMMA TangledInit == ASSUME Init PROVE TangledInv
BY DEF Init, TangledInv, TangledAt, TwiceClaimed

\* a step of p that claims nothing anew
LEMMA TangledKeeps ==
  ASSUME LockInv, TangledInv, NEW p \in Proc, Past(p), ~Works(p), Others(p), UNCHANGED <<kills, tangled>>,
         kills = 0 => TangledAt(p)', Claimable' \subseteq Claimable,
         \A q \in Path : (\E k \in Key : q \in Own(preserved[k]))' => \E k \in Key : q \in Own(preserved[k])
  PROVE  TangledInv'
<1>1. \A q \in Proc \ {p} : ~Works(q) /\ (kills = 0 => TangledAt(q)')
  BY AloneStep DEF Works, Applying, TangledInv, TangledAt, Others
<1>2. kills = 0 => TwiceClaimed \subseteq tangled
  BY <1>1 DEF TangledInv
<1>3. TwiceClaimed' \subseteq TwiceClaimed
  BY DEF TwiceClaimed, Claimable
<1> QED
  BY <1>1, <1>2, <1>3 DEF TangledInv

LEMMA TangledInstall ==
  ASSUME TypeInv, LockInv, TangledInv, NEW p \in Proc, Past(p), Install(p) PROVE TangledInv'
<1>0. Others(p) /\ pc = [q \in Proc |-> pc[q]] /\ todo = [q \in Proc |-> todo[q]]
  BY StepOthers DEF Step, TypeInv, TypeOK, LocalsOK
<1>1. CASE PlanRefuses(p)
  <2>1. pc[p] = "plan" /\ pc'[p] = "idle" /\ todo'[p] = {} /\ UNCHANGED <<db, kills, tangled>>
    BY <1>0, <1>1 DEF PlanRefuses, Exit, Goto, Set, counts
  <2>2. TangledAt(p)' /\ ~Works(p)
    BY <2>1 DEF TangledAt, Works, Applying
  <2> QED
    BY <1>0, <2>1, <2>2, TangledKeeps DEF db, Claimable, Readable, Own
<1>2. CASE Enqueue(p)
  <2>1. pc'[p] = "done" /\ UNCHANGED <<db, kills>> /\ tangled' = tangled \cup TwiceClaimed
    BY <1>0, <1>2 DEF Enqueue, Goto
  <2>2. TwiceClaimed' = TwiceClaimed
    BY <2>1 DEF TwiceClaimed, Readable, Own, db
  <2>3. ASSUME kills = 0, NEW q \in Proc PROVE TangledAt(q)'
    <3>1. CASE q = p
      BY <2>1, <3>1 DEF TangledAt
    <3>2. CASE q # p
      BY <1>0, <2>3, <3>2, AloneStep DEF TangledInv, TangledAt, Others
    <3> QED
      BY <3>1, <3>2
  <2> QED
    BY <2>1, <2>2, <2>3 DEF TangledInv
<1>3. CASE ~PlanRefuses(p) /\ ~Enqueue(p)
  <2>1. pc'[p] \in Applying \cup {"enqueue"}
    BY <1>0, <1>3 DEF Install, ApplyStart, JobStart, Extract, PutHead, PutManifest, PutProvides, Preserve,
       Dispossess, Disown, DispossessDone, PruneStart, PruneUnlink, PruneDone, Advance, Goto, locals, Applying
  <2>2. UNCHANGED kills
    BY <1>3 DEF Install, ApplyStart, JobStart, Extract, PutHead, PutManifest, PutProvides, Preserve,
       Dispossess, Disown, DispossessDone, PruneStart, PruneUnlink, PruneDone, counts
  <2>3. Works(p)'
    BY <2>1 DEF Works
  <2>4. ASSUME kills = 0, NEW q \in Proc PROVE TangledAt(q)'
    <3>1. CASE q = p
      BY <2>1, <3>1 DEF TangledAt, Applying
    <3>2. CASE q # p
      BY <1>0, <2>4, <3>2, AloneStep DEF TangledInv, TangledAt, Others
    <3> QED
      BY <3>1, <3>2
  <2> QED
    BY <2>2, <2>3, <2>4 DEF TangledInv
<1> QED
  BY <1>1, <1>2, <1>3

LEMMA TangledRemove ==
  ASSUME TypeInv, LockInv, TangledInv, NEW p \in Proc, Past(p), Remove(p) \/ Finish(p) PROVE TangledInv'
<1>0. /\ Others(p) /\ pc = [q \in Proc |-> pc[q]] /\ todo = [q \in Proc |-> todo[q]]
      /\ man \in [Key -> Manifest \cup {NoRecord}] /\ dirs \subseteq Key
  BY StepOthers DEF Step, TypeInv, TypeOK, LocalsOK
<1>1. CASE (RemoveCheck(p) /\ RemoveRefused(p)) \/ RemoveDies(p) \/ Finish(p)
  <2>1. /\ pc[p] \in {"check", "pick", "done"} /\ pc'[p] = "idle" /\ todo'[p] = {}
        /\ UNCHANGED <<dirs, man, preserved, kills, tangled>>
    BY <1>0, <1>1 DEF RemoveCheck, RemoveDies, Finish, Exit, Goto, Set, db, counts
  <2>2. TangledAt(p)' /\ ~Works(p)
    BY <2>1 DEF TangledAt, Works, Applying
  <2> QED
    BY <1>0, <2>1, <2>2, TangledKeeps DEF Claimable, Readable, Own
<1>2. CASE ~((RemoveCheck(p) /\ RemoveRefused(p)) \/ RemoveDies(p) \/ Finish(p))
  <2>1. /\ pc[p] \in {"check", "pick", "remove", "forget", "rmdir"}
        /\ pc'[p] \in {"pick", "remove", "forget", "rmdir", "done"}
        /\ dirs' \subseteq dirs /\ UNCHANGED <<preserved, kills, tangled>>
    BY <1>0, <1>2 DEF Remove, RemoveCheck, RemovePick, RemoveUnlink, ForgetProvides, ForgetFiles, ForgetDir,
       Goto, db, locals, counts
  <2>2. UNCHANGED man \/ man' = [man EXCEPT ![Removing(p)] = NoRecord]
    BY <1>2 DEF Remove, RemoveCheck, RemovePick, RemoveUnlink, ForgetProvides, ForgetFiles, ForgetDir,
       db, locals
  <2>3. \A k \in Key : man'[k] = man[k] \/ man'[k] = NoRecord
    BY <1>0, <2>2
  <2>4. Claimable' \subseteq Claimable
    BY <1>0, <2>1, <2>3 DEF Claimable, Readable, Own
  <2>5. TangledAt(p)' /\ ~Works(p)
    BY <2>1 DEF TangledAt, Works, Applying
  <2> QED
    BY <1>0, <2>1, <2>4, <2>5, TangledKeeps DEF Own
<1> QED
  BY <1>1, <1>2

LEMMA TangledGc ==
  ASSUME TypeInv, LockInv, TangledInv, NEW p \in Proc, Past(p), Gc(p) PROVE TangledInv'
<1>0. /\ Others(p) /\ pc = [q \in Proc |-> pc[q]] /\ todo = [q \in Proc |-> todo[q]]
      /\ preserved \in [Key -> Manifest] /\ going[p] \subseteq Key
  BY StepOthers DEF Step, TypeInv, TypeOK, LocalsOK
<1>1. /\ pc[p] \in {"gc", "release"} /\ ~Works(p) /\ UNCHANGED <<dirs, man, kills, tangled>>
  BY DEF Gc, GcStart, GcRecord, GcSweep, GcDone, db, counts, Works, Applying
<1>2. Claimable' = Claimable
  BY <1>1 DEF Claimable, Readable, Own
<1>3. kills = 0 => TangledAt(p)
  BY DEF TangledInv
<1>4. CASE GcStart(p) \/ GcSweep(p) \/ GcDone(p)
  <2>1. UNCHANGED preserved /\ todo'[p] \subseteq todo[p] /\ pc'[p] \in {"release", "done"}
    BY <1>0, <1>4 DEF GcStart, GcSweep, GcDone, Goto, db, locals
  <2>2. kills = 0 => TangledAt(p)'
    <3> SUFFICES ASSUME kills = 0 PROVE TangledAt(p)'
      OBVIOUS
    <3>1. pc[p] = "gc" \/ pc[p] = "release"
      BY <1>1
    <3> QED
      BY <1>1, <1>2, <1>3, <2>1, <3>1 DEF TangledAt
  <2> QED
    BY <1>0, <1>1, <1>2, <2>1, <2>2, TangledKeeps DEF Own
<1>5. CASE GcRecord(p)
  <2>1. PICK k \in going[p] : \E out \in SUBSET Own(preserved[k]) :
          /\ preserved' = [preserved EXCEPT ![k] = Restricted(preserved[k], Own(preserved[k]) \ out)]
          /\ todo' = [todo EXCEPT ![p] = @ \cup out]
    <3>1. PICK k \in going[p], open \in SUBSET Soname :
            LET m == preserved[k]
                free == {s \in Soname \ (Wanted(k.target) \cup open) :
                           Generation(m, s) \cap Modified(m, disk) = {}}
                out == UNION {Generation(m, s) : s \in free}
            IN  /\ preserved' = [preserved EXCEPT ![k] = Restricted(m, Own(m) \ out)]
                /\ todo' = [todo EXCEPT ![p] = @ \cup out]
      BY <1>5 DEF GcRecord
    <3> DEFINE free == {s \in Soname \ (Wanted(k.target) \cup open) :
                          Generation(preserved[k], s) \cap Modified(preserved[k], disk) = {}}
               out == UNION {Generation(preserved[k], s) : s \in free}
    <3>2. out \subseteq Own(preserved[k])
      BY DEF Generation
    <3>3. /\ preserved' = [preserved EXCEPT ![k] = Restricted(preserved[k], Own(preserved[k]) \ out)]
          /\ todo' = [todo EXCEPT ![p] = @ \cup out]
      BY <3>1
    <3> HIDE DEF out
    <3> QED
      BY <3>2, <3>3
  <2>2. pc[p] = "release" /\ UNCHANGED pc /\ k \in Key
    BY <1>0, <1>5 DEF GcRecord
  <2>3. \A l \in Key : Own(preserved[l])' \subseteq Own(preserved[l])
    BY <1>0, <2>1, <2>2 DEF Own, Restricted
  <2>4. kills = 0 => TangledAt(p)'
    <3> SUFFICES ASSUME kills = 0 PROVE todo'[p] \cap Claimable' \subseteq tangled'
      BY <2>2 DEF TangledAt
    <3>1. Own(preserved[k]) \cap Claimable \subseteq TwiceClaimed
      BY <2>2, OwnType DEF TwiceClaimed, Claimable
    <3>2. TwiceClaimed \subseteq tangled
      <4>1. \A q \in Proc : ~Works(q)
        BY <1>0, <1>1, AloneStep DEF Works, Applying
      <4> QED
        BY <4>1 DEF TangledInv
    <3>3. todo[p] \cap Claimable \subseteq tangled
      BY <1>3, <2>2 DEF TangledAt
    <3> QED
      BY <1>0, <1>1, <1>2, <2>1, <3>1, <3>2, <3>3
  <2> QED
    BY <1>0, <1>1, <1>2, <2>3, <2>4, TangledKeeps
<1> QED
  BY <1>4, <1>5 DEF Gc

LEMMA TangledNext == ASSUME TypeInv, LockInv, TangledInv, [Next]_vars PROVE TangledInv'
<1>1. CASE Outside
  <2>0. UNCHANGED <<db, tangled>> /\ (kills' = 0 => kills = 0)
    BY <1>1, OutsideKeeps
  <2>1. TwiceClaimed' = TwiceClaimed /\ Claimable' = Claimable
    BY <2>0 DEF TwiceClaimed, Claimable, Readable, Own, db
  <2>2. ASSUME NEW q \in Proc PROVE (Works(q)' <=> Works(q)) /\ (TangledAt(q) => TangledAt(q)')
    <3>1. \/ /\ pc[q] \in {"idle", "lock"} /\ pc'[q] \in {"idle", "lock", "plan", "check", "gc"}
             /\ todo'[q] = todo[q] \/ todo'[q] = {}
          \/ pc'[q] = pc[q] /\ todo'[q] = todo[q]
      BY <1>1, OutsideKeeps
    <3>2. Works(q)' <=> Works(q)
      BY <3>1 DEF Works, Applying
    <3>3. TangledAt(q) => TangledAt(q)'
      BY <2>0, <2>1, <3>1 DEF TangledAt
    <3> QED
      BY <3>2, <3>3
  <2> QED
    BY <2>0, <2>1, <2>2 DEF TangledInv
<1>2. ASSUME NEW p \in Proc, Past(p), Install(p) \/ Remove(p) \/ Gc(p) \/ Finish(p) \/ Kill(p)
      PROVE  TangledInv'
  <2>1. CASE Kill(p)
    <3>1. kills' # 0
      BY <2>1 DEF Kill, TypeInv, TypeOK
    <3> QED
      BY <3>1 DEF TangledInv
  <2> QED
    BY <1>2, <2>1, TangledInstall, TangledRemove, TangledGc
<1> QED
  BY <1>1, <1>2, InsideOrOut

\* what holds at every step, whatever is forced or killed
Ground == TypeInv /\ LockInv /\ ExclInv /\ WholeInv /\ SparedInv /\ SweptInv /\ TangledInv
LEMMA GroundAlways == Spec => []Ground
<1>1. Init => LockInv /\ ExclInv /\ SparedInv /\ SweptInv
  BY DEF Init, LockInv, Past, ExclInv, Disjoint, Middle, SparedInv, Sparing, Ranged, Acting,
         Applying, Leaving, SweptInv, Swept
<1>2. Init => TangledInv
  BY TangledInit
<1>3. TypeInv /\ LockInv /\ SweptInv /\ [Next]_vars => SweptInv'
  BY SweptNext
<1>4. TypeInv /\ LockInv /\ TangledInv /\ [Next]_vars => TangledInv'
  BY TangledNext
<1> QED
  BY InitType, NextType, LockStep, ExclNext, WholeInit, WholeNext, SparedNext, <1>1, <1>2, <1>3, <1>4, PTL
     DEF Spec, Ground

LEMMA LayOutside ==
  ASSUME TypeInv, LockInv, LockInv', LayInv, Outside PROVE LayInv'
<1>0. UNCHANGED <<db, tangled>> /\ (kills' = 0 => kills = 0) /\ disk \in Manifest
  BY OutsideKeeps DEF TypeInv, TypeOK
<1> SUFFICES ASSUME kills' = 0, kills = 0 PROVE LayInv'
  BY <1>0 DEF LayInv
<1>1. CASE Edit
  <2>1. PICK q \in EtcPath, c \in Edits : disk' = [disk EXCEPT ![q] = c]
    BY <1>1 DEF Edit
  <2>2. lock = NoProc /\ UNCHANGED <<db, pc>>
    BY <1>1 DEF Edit
  <2>3. \A p \in Proc : ~Past(p) /\ ~Past(p)'
    BY <2>2, ConstantsAssumption DEF LockInv, Past
  <2>4. \A r \in Path : disk'[r] = disk[r] \/ disk'[r] \in Edits
    BY <1>0, <2>1 DEF Manifest
  <2>5. AllStand({})
    BY <2>3 DEF LayInv
  <2>6. AllStand({})'
    BY <1>0, <2>2, <2>4, <2>5 DEF AllStand, Stands, Readable, Own, db
  <2> QED
    BY <2>3, <2>6 DEF LayInv
<1>2. CASE ~Edit
  <2>1. UNCHANGED disk
    BY <1>2 DEF Outside, vars, BeginInstall, BeginRemove, BeginGc, Begin, Lock, Kill
  <2>2. ASSUME NEW S, AllStand(S) PROVE \A k \in dirs' \ S : Readable(k)' => Stands(man[k], disk)'
    BY <1>0, <2>1, <2>2 DEF AllStand, Stands, Readable, Own, db
  <2>3. ASSUME NEW p \in Proc, Past(p) PROVE LayAt(p)'
    <3>1. /\ pc'[p] = pc[p] /\ batch'[p] = batch[p] /\ at'[p] = at[p] /\ was'[p] = was[p]
          /\ base'[p] = base[p] /\ skip'[p] = skip[p] /\ todo'[p] = todo[p] /\ kept'[p] = kept[p]
      BY <2>3, OutsideKeeps DEF Past
    <3>2. /\ Job(p)' = Job(p) /\ Removing(p)' = Removing(p)
          /\ \A k : Old(p, k)' = Old(p, k)
      BY <3>1, Zenon DEF Job, Removing, Old
    <3>3. LayAt(p)
      BY <2>3 DEF LayInv
    <3>4. Works(p) => Began(p)' /\ Jobs(p)' /\ Beside(p)' /\ Here(p)'
      <4> SUFFICES ASSUME Works(p) PROVE Began(p)' /\ Jobs(p)' /\ Beside(p)' /\ Here(p)'
        OBVIOUS
      <4>0. Began(p) /\ Jobs(p) /\ Beside(p) /\ Here(p)
        BY <3>3 DEF LayAt
      <4>1. Began(p)'
        BY <1>0, <3>1, <3>2, <4>0 DEF Began, Stands, Own, db
      <4>2. Jobs(p)'
        BY <1>0, <2>1, <3>1, <4>0 DEF Jobs, Laid, Recorded, Awaits, Stands, Own, KeyOf, db
      <4>3. Beside(p)'
        BY <2>1, <3>1, <4>0 DEF Beside, Ships, Own
      <4>4. Here(p)'
        BY <2>1, <3>1, <3>2, <4>0 DEF Here, Own
      <4> QED
        BY <4>1, <4>2, <4>3, <4>4
    <3>5. (Goes(p)' <=> Goes(p)) /\ (Works(p)' <=> Works(p))
      BY <3>1 DEF Goes, Works
    <3>6. \A S : AllStand(S) => AllStand(S)'
      BY <2>2 DEF AllStand
    <3>7. Goes(p) => /\ AllStand({Removing(p)})' /\ Readable(Removing(p))'
                     /\ Old(p, Removing(p))' = man'[Removing(p)]
                     /\ todo'[p] \subseteq Own(man[Removing(p)])'
      BY <1>0, <3>1, <3>2, <3>3, <3>6 DEF LayAt, Readable, Old, Own, db
    <3> QED
      BY <3>1, <3>2, <3>3, <3>4, <3>5, <3>6, <3>7 DEF LayAt
  <2>4. ASSUME NEW p \in Proc, ~Past(p), Past(p)' PROVE LayAt(p)'
    <3>1. pc'[p] \in {"plan", "check", "gc"}
      BY <2>4, OutsideKeeps DEF Past
    <3>2. Lock(p)
      BY <2>4, <1>2 DEF Past, Outside, vars, BeginInstall, BeginRemove, BeginGc, Begin, Lock, Kill,
         Exit, Goto, TypeInv, TypeOK
    <3>3. \A r \in Proc : ~Past(r)
      BY <3>2, ConstantsAssumption DEF Lock, LockInv
    <3> QED
      BY <2>2, <3>1, <3>3 DEF LayInv, LayAt, Works, Goes, Applying, AllStand
  <2>5. (\A p \in Proc : ~Past(p)') => \A p \in Proc : ~Past(p)
    BY OutsideKeeps DEF Past
  <2> QED
    BY <2>2, <2>3, <2>4, <2>5 DEF LayInv, AllStand
<1> QED
  BY <1>1, <1>2

\* a step of an apply that changes no file and begins no job's files or record
LEMMA LayKeeps ==
  ASSUME NEW p \in Proc, Began(p), Jobs(p), Beside(p), UNCHANGED disk, tangled \subseteq tangled',
         was'[p] = was[p], base'[p] = base[p], batch'[p] = batch[p], dirs \subseteq dirs',
         kept[p] \subseteq kept'[p],
         \A i \in 1..Len(batch[p]) :
           /\ Laid(p, i)' => Laid(p, i)
           /\ Recorded(p, i)' => Recorded(p, i) /\ man'[KeyOf(batch[p][i])] = man[KeyOf(batch[p][i])]
           /\ Awaits(p, i)' => Awaits(p, i),
         pc[p] \in {"prune", "unlink", "enqueue"} => pc'[p] \in {"prune", "unlink", "enqueue"}
  PROVE  Began(p)' /\ Jobs(p)' /\ Beside(p)'
<1>1. \A k : Old(p, k)' = Old(p, k)
  BY DEF Old
<1>2. Began(p)'
  BY <1>1 DEF Began, Stands, Own
<1>3. ASSUME NEW i \in 1..Len(batch[p])
      PROVE  /\ Laid(p, i)' => Stands(batch[p][i].ships, disk)' /\ Own(batch[p][i].ships)' \subseteq kept'[p]
             /\ Recorded(p, i)' => man'[KeyOf(batch[p][i])] = batch[p][i].ships
             /\ Awaits(p, i)' => \A q \in Own(batch[p][i].ships)' : disk'[q] = base'[p][q]
  <2>1. Own(batch[p][i].ships)' = Own(batch[p][i].ships)
    BY DEF Own
  <2>2. Stands(batch[p][i].ships, disk) => Stands(batch[p][i].ships, disk)'
    BY <2>1 DEF Stands
  <2> QED
    BY <2>1, <2>2 DEF Jobs
<1>5. Jobs(p)'
  BY <1>3 DEF Jobs, KeyOf
<1>4. Beside(p)'
  BY DEF Beside, Ships, Own
<1> QED
  BY <1>2, <1>4, <1>5

\* what the job p is on knows of its batch
LEMMA JobFacts ==
  ASSUME TypeInv, SparedInv, NoForce, LayInv, kills = 0, NEW p \in Proc, pc[p] \in Applying
  PROVE  /\ batch[p] \in Batches /\ at[p] \in 1..Len(batch[p]) /\ Job(p) = batch[p][at[p]]
         /\ Len(batch[p]) \in Nat
         /\ \A i \in 1..Len(batch[p]) :
              /\ batch[p][i].ships \in Manifest /\ KeyOf(batch[p][i]) \in Key
              /\ Own(batch[p][i].ships) \subseteq Ships(batch[p])
              /\ \A j \in 1..Len(batch[p]) : i # j =>
                   /\ KeyOf(batch[p][i]) # KeyOf(batch[p][j])
                   /\ Own(batch[p][i].ships) \cap Own(batch[p][j].ships) = {}
         /\ Spared(p) /\ Ranged(p) /\ Began(p) /\ Jobs(p) /\ Beside(p) /\ Here(p)
<1>1. batch[p] \in Batches /\ at[p] \in 1..Len(batch[p])
  BY DEF TypeInv, TypeOK
<1>2. batch[p] \in Seq(Archive)
  BY <1>1, ConstantsAssumption
<1>3. Acting(p) /\ Works(p) /\ Past(p)
  BY DEF Acting, Works, Past, Applying
<1>4. Spared(p) /\ Apart(batch[p]) /\ Ranged(p)
  BY <1>3, Zenon DEF SparedInv, Sparing, NoForce
<1>5. Began(p) /\ Jobs(p) /\ Beside(p) /\ Here(p)
  BY <1>3 DEF LayInv, LayAt
<1>6. ASSUME NEW i \in 1..Len(batch[p])
      PROVE  /\ batch[p][i].ships \in Manifest /\ KeyOf(batch[p][i]) \in Key
             /\ Own(batch[p][i].ships) \subseteq Ships(batch[p])
             /\ \A j \in 1..Len(batch[p]) : i # j =>
                  /\ KeyOf(batch[p][i]) # KeyOf(batch[p][j])
                  /\ Own(batch[p][i].ships) \cap Own(batch[p][j].ships) = {}
  <2>1. batch[p][i].ships \in Manifest /\ KeyOf(batch[p][i]) \in Key
    BY <1>1, BatchJob
  <2>2. Own(batch[p][i].ships) \subseteq Ships(batch[p])
    BY DEF Ships
  <2> QED
    BY <1>1, <1>4, <2>1, <2>2, BatchAssumption DEF Apart
<1>7. Job(p) = batch[p][at[p]] /\ Len(batch[p]) \in Nat
  BY <1>2 DEF Job
<1> QED
  BY <1>1, <1>4, <1>5, <1>6, <1>7

\* extraction of one path
LEMMA LayExtract ==
  ASSUME TypeInv, SparedInv, NoForce, LayInv, kills = 0, NEW p \in Proc, Extract(p)
  PROVE  LayAt(p)'
<1>1. PICK q \in todo[p] :
        /\ todo' = [todo EXCEPT ![p] = @ \ {q}]
        /\ disk' = IF q \in skip[p] THEN disk ELSE [disk EXCEPT ![q] = Job(p).ships[q]]
  BY DEF Extract
<1>2. /\ pc[p] = "extract" /\ UNCHANGED <<pc, dirs, man, was, base, skip, batch, at, kept, tangled>>
  BY DEF Extract, db, counts
<1> DEFINE b == batch[p]
           I == 1..Len(b)
<1>3. /\ at[p] \in I /\ Job(p) = b[at[p]] /\ Began(p) /\ Jobs(p) /\ Beside(p) /\ Here(p)
      /\ todo[p] \subseteq Own(Job(p).ships) /\ Own(Job(p).ships) \subseteq Ships(b)
      /\ \A i \in I : i # at[p] => Own(b[i].ships) \cap Own(Job(p).ships) = {}
  BY <1>2, JobFacts DEF Applying, Ranged
<1>4. /\ todo'[p] = todo[p] \ {q} /\ q \in Own(Job(p).ships) /\ q \in Path
      /\ (\A r \in Path \ {q} : disk'[r] = disk[r])
      /\ disk'[q] = Job(p).ships[q] \/ disk'[q] \in Edits
  <2>1. disk \in Manifest /\ todo[p] \subseteq Path /\ todo'[p] = todo[p] \ {q}
    BY <1>1 DEF TypeInv, TypeOK, LocalsOK
  <2>2. q \in skip[p] => disk[q] \in Edits
    BY <1>2, <1>3 DEF Here
  <2> QED
    BY <1>1, <1>3, <2>1, <2>2 DEF Manifest
<1>5. \A k : Old(p, k)' = Old(p, k)
  BY <1>2 DEF Old
<1>6. Began(p)'
  BY <1>2, <1>3, <1>5 DEF Began, Stands, Own
<1>7. ASSUME NEW i \in I, i # at[p] PROVE \A r \in Own(b[i].ships) : disk'[r] = disk[r]
  BY <1>3, <1>4, <1>7, OwnType
<1>8. Jobs(p)'
  <2>1. \A i \in I : (Laid(p, i)' \/ Recorded(p, i)' \/ Awaits(p, i)') => i # at[p]
    BY <1>2, <1>3 DEF Laid, Recorded, Awaits, Later
  <2>2. \A i \in I : /\ Laid(p, i)' <=> Laid(p, i)
                     /\ Recorded(p, i)' <=> Recorded(p, i)
                     /\ Awaits(p, i)' <=> Awaits(p, i)
    BY <1>2 DEF Laid, Recorded, Awaits
  <2> QED
    BY <1>2, <1>3, <1>7, <2>1, <2>2 DEF Jobs, Stands, Own, KeyOf
<1>9. Beside(p)'
  BY <1>2, <1>3, <1>4 DEF Beside, Ships, Own
<1>10. Here(p)'
  BY <1>2, <1>3, <1>4, OwnType DEF Here, Job, Own
<1> QED
  BY <1>2, <1>6, <1>8, <1>9, <1>10 DEF LayAt, Works, Goes, Applying

\* Nothing is dispossessed: what a job ships, no other record claims.
LEMMA NoLosers ==
  ASSUME TypeInv, SparedInv, NoForce, LayInv, kills = 0, NEW p \in Proc,
         pc[p] \in {"dispossess", "disown"}
  PROVE  Losers(p) = {}
<1>1. pc[p] \in Applying /\ dirs \subseteq Key
  BY DEF Applying, TypeInv, TypeOK
<1> SUFFICES ASSUME NEW k \in dirs, k # KeyOf(Job(p)), Readable(k) PROVE Own(man[k]) \cap Own(Job(p).ships) = {}
  BY DEF Losers
<1>2. /\ at[p] \in 1..Len(batch[p]) /\ Job(p) = batch[p][at[p]] /\ Spared(p) /\ Jobs(p)
      /\ Own(Job(p).ships) \subseteq Ships(batch[p])
      /\ \A i \in 1..Len(batch[p]) : i # at[p] => Own(batch[p][i].ships) \cap Own(Job(p).ships) = {}
  BY <1>1, JobFacts
<1>3. CASE k \notin Keys(batch[p])
  BY <1>2, <1>3 DEF Spared
<1>4. CASE k \in Keys(batch[p])
  <2>1. PICK i \in 1..Len(batch[p]) : k = KeyOf(batch[p][i])
    BY <1>4 DEF Keys
  <2>2. man[k] = batch[p][i].ships /\ i # at[p]
    BY <1>2, <2>1 DEF Jobs, Recorded, Later
  <2> QED
    BY <1>2, <2>2
<1> QED
  BY <1>3, <1>4

LEMMA LayInstall ==
  ASSUME TypeInv, LockInv, WholeInv, SparedInv, NoForce, LayInv, NEW p \in Proc, Past(p), Install(p)
  PROVE  LayInv'
<1> DEFINE b == batch[p]
           I == 1..Len(b)
<1>0. /\ pc = [q \in Proc |-> pc[q]] /\ todo = [q \in Proc |-> todo[q]] /\ disk \in Manifest
      /\ dirs \subseteq Key /\ at \in [Proc -> Nat \ {0}] /\ kept \in [Proc -> SUBSET Path]
      /\ man \in [Key -> Manifest \cup {NoRecord}] /\ NoRecord \notin Manifest
      /\ skip \in [Proc -> SUBSET Path] /\ Others(p)
  BY StepOthers, ConstantsAssumption DEF TypeInv, TypeOK, LocalsOK, Step
<1>00. UNCHANGED kills /\ tangled \subseteq tangled'
  BY DEF Install, PlanRefuses, ApplyStart, JobStart, Extract, PutHead, PutManifest,
     PutProvides, Preserve, Dispossess, Disown, DispossessDone, PruneStart, PruneUnlink, PruneDone,
     Enqueue, counts
<1> SUFFICES ASSUME kills = 0 PROVE LayAt(p)'
  BY <1>0, <1>00, LayInside
<1>1. ASSUME pc[p] \in Applying
      PROVE  /\ b \in Batches /\ at[p] \in I /\ Job(p) = b[at[p]] /\ Len(b) \in Nat
             /\ \A i \in I :
                  /\ b[i].ships \in Manifest /\ KeyOf(b[i]) \in Key
                  /\ Own(b[i].ships) \subseteq Ships(b)
                  /\ i # at[p] => /\ KeyOf(b[i]) # KeyOf(Job(p))
                                  /\ Own(b[i].ships) \cap Own(Job(p).ships) = {}
             /\ Spared(p) /\ Ranged(p) /\ Began(p) /\ Jobs(p) /\ Beside(p) /\ Here(p)
  <2>1. /\ b \in Batches /\ at[p] \in I /\ Job(p) = b[at[p]] /\ Len(b) \in Nat
        /\ Spared(p) /\ Ranged(p) /\ Began(p) /\ Jobs(p) /\ Beside(p) /\ Here(p)
    BY <1>1, JobFacts
  <2>2. ASSUME NEW i \in I
        PROVE  /\ b[i].ships \in Manifest /\ KeyOf(b[i]) \in Key
               /\ Own(b[i].ships) \subseteq Ships(b)
               /\ i # at[p] => /\ KeyOf(b[i]) # KeyOf(b[at[p]])
                               /\ Own(b[i].ships) \cap Own(b[at[p]].ships) = {}
    BY <1>1, <2>1, JobFacts
  <2> QED
    BY <2>1, <2>2
<1>2. CASE PlanRefuses(p)
  <2>1. pc[p] = "plan" /\ pc'[p] = "idle" /\ UNCHANGED <<disk, dirs, man>>
    BY <1>0, <1>2 DEF PlanRefuses, Exit, Goto, db
  <2>2. AllStand({})
    BY <2>1 DEF LayInv, LayAt, Works, Goes, Applying, Past
  <2>3. AllStand({})'
    BY <1>00, <2>1, <2>2 DEF AllStand, Stands, Readable, Own
  <2> QED
    BY <2>1, <2>3 DEF LayAt, Works, Goes, Applying
<1>3. CASE ApplyStart(p)
  <2>1. /\ pc[p] = "plan" /\ pc'[p] = "job" /\ was'[p] = man /\ base'[p] = disk
        /\ UNCHANGED <<disk, dirs, man, batch, at>> /\ at[p] = 1
    BY <1>0, <1>3 DEF ApplyStart, Goto, Set, db, TypeInv, TypeOK, LocalsOK
  <2>2. AllStand({})
    BY <2>1 DEF LayInv, LayAt, Works, Goes, Applying, Past
  <2>3. \A k \in Key : Old(p, k)' = IF Readable(k) THEN man[k] ELSE Nothing
    BY <2>1 DEF Old, Readable
  <2>4. \A k \in Key : Readable(k) => k \in dirs
    BY DEF WholeInv, Listed
  <2>5. Stands(Nothing, disk)
    BY DEF Stands, Own, Nothing
  <2>6. \A k \in Key : Stands(Old(p, k)', disk)
    BY <2>2, <2>3, <2>4, <2>5 DEF AllStand
  <2>7. Began(p)'
    BY <1>00, <2>1, <2>4, <2>6 DEF Began, Stands, Own, Readable
  <2>8. Jobs(p)'
    BY <2>1 DEF Jobs, Laid, Recorded, Awaits, Later
  <2>9. Beside(p)' /\ Here(p)'
    BY <2>1 DEF Beside, Here
  <2> QED
    BY <2>1, <2>7, <2>8, <2>9 DEF LayAt, Works, Goes, Applying
<1>4. CASE JobStart(p)
  <2>1. /\ pc[p] = "job" /\ pc'[p] = "extract" /\ todo'[p] = Own(Job(p).ships) /\ skip'[p] = Skipped(p)
        /\ UNCHANGED <<disk, dirs, man, was, base, batch, at, kept>>
    BY <1>0, <1>4 DEF JobStart, Goto, Set, db
  <2>2. \A i \in I : /\ Laid(p, i)' => Laid(p, i)
                     /\ Recorded(p, i)' => Recorded(p, i)
                     /\ Awaits(p, i)' => Awaits(p, i)
    BY <1>0, <1>1, <2>1 DEF Laid, Recorded, Awaits, Later, Applying
  <2>3. Began(p)' /\ Jobs(p)' /\ Beside(p)'
    BY <1>1, <2>1, <2>2, <1>00, LayKeeps DEF Applying
  <2>4. ASSUME NEW q \in Skipped(p) PROVE disk[q] \in Edits
    <3>1. q \in Own(Job(p).ships) /\ \E k \in Key : q \in Modified(Old(p, k), disk)
      BY <2>4 DEF Skipped
    <3>2. PICK k \in Key : q \in Modified(Old(p, k), disk)
      BY <3>1
    <3>3. q \in Own(Old(p, k)) /\ disk[q] # Old(p, k)[q] /\ disk[q] # NoEntry
      BY <3>2 DEF Modified, Seen, IsFile
    <3>4. disk[q] = base[p][q]
      BY <1>0, <1>1, <2>1, <3>1 DEF Jobs, Awaits, Applying
    <3>5. Stands(Old(p, k), base[p])
      BY <1>1, <2>1 DEF Began, Applying
    <3> QED
      BY <1>00, <3>3, <3>4, <3>5 DEF Stands, Lost
  <2>5. Here(p)'
    BY <2>1, <2>4 DEF Here, Job, Own
  <2> QED
    BY <2>1, <2>3, <2>5 DEF LayAt, Works, Goes, Applying
<1>5. CASE Extract(p)
  BY <1>5, LayExtract
<1>6. CASE PutHead(p)
  <2>1. /\ pc[p] = "extract" /\ pc'[p] = "manifest" /\ todo[p] = {} /\ dirs' = dirs \cup {KeyOf(Job(p))}
        /\ kept'[p] = kept[p] \cup Own(Job(p).ships)
        /\ UNCHANGED <<disk, man, was, base, batch, at>>
    BY <1>0, <1>6 DEF PutHead, Goto
  <2>2. /\ Began(p) /\ Jobs(p) /\ Beside(p) /\ at[p] \in I /\ Job(p) = b[at[p]]
        /\ Stands(Job(p).ships, disk)
    BY <1>00, <1>1, <2>1 DEF Here, Stands, Applying
  <2>3. \A i \in I : /\ Laid(p, i)' <=> Laid(p, i) \/ i = at[p]
                     /\ Recorded(p, i)' <=> Recorded(p, i)
                     /\ Awaits(p, i)' <=> Awaits(p, i)
    BY <1>0, <1>1, <2>1 DEF Laid, Recorded, Awaits, Later, Applying
  <2>4. \A k : Old(p, k)' = Old(p, k)
    BY <2>1 DEF Old
  <2>5. Began(p)'
    BY <1>00, <2>1, <2>2, <2>4 DEF Began, Stands, Own
  <2>6. ASSUME NEW i \in I
        PROVE  /\ Laid(p, i)' => Stands(b[i].ships, disk) /\ Own(b[i].ships) \subseteq kept'[p]
               /\ Recorded(p, i)' => man[KeyOf(b[i])] = b[i].ships
               /\ Awaits(p, i)' => \A q \in Own(b[i].ships) : disk[q] = base[p][q]
    BY <2>1, <2>2, <2>3 DEF Jobs
  <2>7. Jobs(p)'
    BY <1>00, <2>1, <2>6 DEF Jobs, Stands, Own, KeyOf
  <2>8. Beside(p)' /\ Here(p)'
    BY <2>1, <2>2 DEF Beside, Here, Ships, Own
  <2> QED
    BY <2>1, <2>5, <2>7, <2>8 DEF LayAt, Works, Goes, Applying
<1>7. CASE PutManifest(p)
  <2>1. /\ pc[p] = "manifest" /\ pc'[p] = "provides" /\ man' = [man EXCEPT ![KeyOf(Job(p))] = Job(p).ships]
        /\ UNCHANGED <<disk, dirs, was, base, batch, at, kept>>
    BY <1>0, <1>7 DEF PutManifest, Goto, locals
  <2>2. /\ Began(p) /\ Jobs(p) /\ Beside(p) /\ at[p] \in I /\ Job(p) = b[at[p]]
        /\ KeyOf(Job(p)) \in Key /\ \A i \in I : KeyOf(b[i]) \in Key /\ (i # at[p] => KeyOf(b[i]) # KeyOf(Job(p)))
    BY <1>1, <2>1 DEF Applying
  <2>3. \A i \in I : /\ Laid(p, i)' <=> Laid(p, i)
                     /\ Recorded(p, i)' => Recorded(p, i) \/ i = at[p]
                     /\ Awaits(p, i)' <=> Awaits(p, i)
    BY <1>0, <1>1, <2>1 DEF Laid, Recorded, Awaits, Later, Applying
  <2>4. \A k : Old(p, k)' = Old(p, k)
    BY <2>1 DEF Old
  <2>5. Began(p)'
    BY <1>00, <2>1, <2>2, <2>4 DEF Began, Stands, Own
  <2>6. ASSUME NEW i \in I
        PROVE  /\ Laid(p, i)' => Stands(b[i].ships, disk) /\ Own(b[i].ships) \subseteq kept[p]
               /\ Recorded(p, i)' => man'[KeyOf(b[i])] = b[i].ships
               /\ Awaits(p, i)' => \A q \in Own(b[i].ships) : disk[q] = base[p][q]
    <3>1. CASE i = at[p]
      BY <1>0, <2>1, <2>2, <2>3, <3>1 DEF Jobs
    <3>2. CASE i # at[p]
      BY <1>0, <2>1, <2>2, <2>3, <3>2 DEF Jobs
    <3> QED
      BY <3>1, <3>2
  <2>7. Jobs(p)'
    BY <1>00, <2>1, <2>6 DEF Jobs, Stands, Own, KeyOf
  <2>8. Beside(p)' /\ Here(p)'
    BY <2>1, <2>2 DEF Beside, Here, Ships, Own
  <2> QED
    BY <2>1, <2>5, <2>7, <2>8 DEF LayAt, Works, Goes, Applying
<1>8. CASE PutProvides(p) \/ Preserve(p) \/ DispossessDone(p) \/ PruneDone(p)
  <2>1. /\ UNCHANGED <<disk, dirs, man, was, base, batch>> /\ kept[p] \subseteq kept'[p]
        /\ \/ /\ pc[p] = "provides" /\ pc'[p] = "job" /\ at'[p] = at[p] + 1
           \/ /\ pc[p] = "provides" /\ pc'[p] = "preserve" /\ ~(at[p] < Len(b))
           \/ /\ pc[p] \in {"preserve", "dispossess", "unlink"} /\ pc'[p] \in Later \ {"unlink"}
              /\ pc[p] = "unlink" => pc'[p] \in {"prune", "enqueue"}
    BY <1>0, <1>8 DEF PutProvides, Preserve, DispossessDone, PruneDone, Advance, Goto, db, Later
  <2>2. pc[p] \in Applying
    BY <2>1 DEF Applying
  <2>3. ASSUME NEW i \in I
        PROVE  /\ Laid(p, i)' => Laid(p, i)
               /\ Recorded(p, i)' => Recorded(p, i)
               /\ Awaits(p, i)' => Awaits(p, i)
    BY <1>0, <1>1, <2>1, <2>2 DEF Laid, Recorded, Awaits, Later
  <2>4. Began(p)' /\ Jobs(p)' /\ Beside(p)'
    BY <1>1, <2>1, <2>2, <2>3, <1>00, LayKeeps
  <2>5. Here(p)' /\ ~Goes(p)' /\ Works(p)'
    BY <2>1 DEF Here, Goes, Works, Later, Applying
  <2> QED
    BY <2>4, <2>5 DEF LayAt
<1>9. CASE Dispossess(p)
  BY <1>9, NoLosers DEF Dispossess
<1>10. CASE Disown(p) \/ PruneStart(p)
  <2>1. /\ UNCHANGED <<disk, dirs, man, was, base, batch, kept>>
        /\ \/ pc[p] = "disown" /\ pc'[p] = "dispossess"
           \/ pc[p] = "prune" /\ pc'[p] = "unlink" /\ todo'[p] \cap kept[p] = {}
    BY <1>0, <1>10 DEF Disown, PruneStart, Goto, Set, db
  <2>2. pc[p] \in Applying
    BY <2>1 DEF Applying
  <2>3. ASSUME NEW i \in I
        PROVE  Laid(p, i) /\ Recorded(p, i) /\ ~Awaits(p, i)'
    BY <2>1 DEF Laid, Recorded, Awaits, Later
  <2>4. Began(p)' /\ Jobs(p)' /\ Beside(p)'
    BY <1>1, <2>1, <2>2, <2>3, <1>00, LayKeeps
  <2>5. Here(p)' /\ ~Goes(p)' /\ Works(p)'
    BY <2>1 DEF Here, Goes, Works, Applying
  <2> QED
    BY <2>4, <2>5 DEF LayAt
<1>11. CASE PruneUnlink(p)
  <2>1. PICK q \in todo[p] :
          /\ disk' = IF disk[q] = Old(p, KeyOf(Job(p)))[q] THEN [disk EXCEPT ![q] = NoEntry] ELSE disk
          /\ todo' = [todo EXCEPT ![p] = @ \ {q}]
    BY <1>11 DEF PruneUnlink, Drop
  <2>2. pc[p] = "unlink" /\ UNCHANGED <<pc, dirs, man, batch, at, was, base, kept>>
    BY <1>11 DEF PruneUnlink, db
  <2>3. Began(p) /\ Jobs(p) /\ Beside(p) /\ q \notin kept[p] /\ todo'[p] \subseteq todo[p] /\ Here(p)
    BY <1>0, <1>1, <2>1, <2>2 DEF Here, Applying
  <2>4. \A r \in Path : disk'[r] = disk[r] \/ (r = q /\ disk'[r] = NoEntry)
    BY <1>0, <2>1 DEF Manifest
  <2>5. \A k : Old(p, k)' = Old(p, k)
    BY <2>2 DEF Old
  <2>6. Began(p)'
    BY <1>00, <2>2, <2>3, <2>5 DEF Began, Stands, Own
  <2>7. ASSUME NEW i \in I
        PROVE  /\ Stands(b[i].ships, disk') /\ Own(b[i].ships) \subseteq kept[p]
               /\ man[KeyOf(b[i])] = b[i].ships
    <3>1. Laid(p, i) /\ Recorded(p, i)
      BY <2>2 DEF Laid, Recorded, Later
    <3>2. /\ Stands(b[i].ships, disk) /\ Own(b[i].ships) \subseteq kept[p]
          /\ man[KeyOf(b[i])] = b[i].ships
      BY <2>3, <3>1 DEF Jobs
    <3> QED
      BY <1>00, <2>3, <2>4, <3>2, OwnType DEF Stands
  <2>8. \A i \in I : ~Awaits(p, i)'
    BY <2>2 DEF Awaits
  <2>9. Jobs(p)'
    BY <1>00, <2>2, <2>7, <2>8 DEF Jobs, Stands, Own, KeyOf
  <2>10. Beside(p)' /\ Here(p)'
    BY <2>2, <2>3, <2>4 DEF Beside, Here, Ships, Own
  <2> QED
    BY <2>2, <2>6, <2>9, <2>10 DEF LayAt, Works, Goes, Applying
<1>12. CASE Enqueue(p)
  <2>1. pc[p] = "enqueue" /\ pc'[p] = "done" /\ UNCHANGED <<disk, dirs, man>>
    BY <1>0, <1>12 DEF Enqueue, Goto, db
  <2>2. Began(p) /\ Jobs(p) /\ Spared(p)
    <3>1. Works(p) /\ Acting(p) /\ Past(p)
      BY <2>1 DEF Works, Acting, Past
    <3> QED
      BY <3>1, Zenon DEF LayInv, LayAt, SparedInv, Sparing, NoForce
  <2>3. ASSUME NEW k \in dirs, Readable(k) PROVE Stands(man[k], disk)
    <3>1. CASE k \in Keys(b)
      <4>1. PICK i \in I : k = KeyOf(b[i])
        BY <3>1 DEF Keys
      <4>2. Laid(p, i) /\ Recorded(p, i)
        BY <2>1 DEF Laid, Recorded, Later
      <4> QED
        BY <2>2, <4>1, <4>2 DEF Jobs
    <3>2. CASE k \notin Keys(b)
      <4>1. man[k] = was[p][k] /\ \A q \in Own(man[k]) : disk[q] = base[p][q]
        BY <2>2, <3>2 DEF Spared
      <4>2. Stands(man[k], base[p])
        BY <1>0, <2>2, <2>3, <4>1 DEF Began, Old, Readable
      <4> QED
        BY <1>00, <4>1, <4>2 DEF Stands
    <3> QED
      BY <3>1, <3>2
  <2>4. AllStand({})'
    BY <1>00, <2>1, <2>3 DEF AllStand, Stands, Readable, Own
  <2> QED
    BY <2>1, <2>4 DEF LayAt, Works, Goes, Applying
<1> QED
  BY <1>2, <1>3, <1>4, <1>5, <1>6, <1>7, <1>8, <1>9, <1>10, <1>11, <1>12 DEF Install

LEMMA RemovingKeeps ==
  ASSUME NEW p \in Proc, was'[p] = was[p] PROVE Removing(p)' = Removing(p) /\ \A k : Old(p, k)' = Old(p, k)
BY Zenon DEF Removing, Old

LEMMA LayRemove ==
  ASSUME TypeInv, LockInv, ExclInv, WholeInv, SweptInv, TangledInv, LayInv, NEW p \in Proc, Past(p),
         Remove(p) \/ Gc(p) \/ Finish(p) \/ Kill(p)
  PROVE  LayInv'
<1>0. /\ pc = [q \in Proc |-> pc[q]] /\ todo = [q \in Proc |-> todo[q]] /\ disk \in Manifest
      /\ dirs \subseteq Key /\ going[p] \subseteq Key /\ todo[p] \subseteq Path /\ kills \in Nat
      /\ man \in [Key -> Manifest \cup {NoRecord}] /\ NoRecord \notin Manifest
      /\ was = [q \in Proc |-> was[q]] /\ Others(p)
  BY StepOthers, ExitOthers, ConstantsAssumption DEF TypeInv, TypeOK, LocalsOK, Step, Kill
<1>1. CASE Kill(p)
  BY <1>0, <1>1, LayInside DEF Kill
<1>2. CASE ~Kill(p)
  <2>0. UNCHANGED <<kills, tangled>>
    BY <1>2 DEF Remove, RemoveCheck, RemoveDies, RemovePick, RemoveUnlink, ForgetProvides,
       ForgetFiles, ForgetDir, Gc, GcStart, GcRecord, GcSweep, GcDone, Finish, counts
  <2> SUFFICES ASSUME kills = 0 PROVE LayAt(p)'
    BY <1>0, <2>0, LayInside
  <2>1. LayAt(p) /\ Handles(p)
    BY DEF LayInv, WholeInv
  <2>2. ASSUME pc[p] \notin Applying \cup {"enqueue", "remove", "forget"} PROVE AllStand({})
    BY <2>1, <2>2 DEF LayAt, Works, Goes
  <2>3. ASSUME AllStand({}), UNCHANGED <<disk, dirs, man>>,
               pc'[p] \notin Applying \cup {"enqueue", "remove", "forget"}
        PROVE  LayAt(p)'
    BY <2>0, <2>3 DEF LayAt, Works, Goes, AllStand, Stands, Readable, Own
  <2>4. CASE RemoveCheck(p) \/ RemoveDies(p) \/ Finish(p)
    <3>1. Exit(p) => pc' = [pc EXCEPT ![p] = "idle"]
      BY DEF Exit, Goto
    <3>2. /\ pc[p] \in {"check", "pick", "done"} /\ pc'[p] \in {"idle", "pick"}
          /\ UNCHANGED <<disk, dirs, man>>
      BY <1>0, <2>4, <3>1 DEF RemoveCheck, RemoveDies, Finish, Goto, db
    <3> QED
      BY <2>2, <2>3, <3>2 DEF Applying
  <2>5. CASE GcStart(p) \/ GcDone(p)
    <3>1. /\ pc[p] \in {"gc", "release"} /\ pc'[p] \in {"release", "done"}
          /\ UNCHANGED <<disk, dirs, man>>
      BY <1>0, <2>5 DEF GcStart, GcDone, Goto, db
    <3> QED
      BY <2>2, <2>3, <3>1 DEF Applying
  <2>6. CASE GcRecord(p)
    <3>1. pc[p] = "release" /\ UNCHANGED <<pc, disk, dirs, man>>
      BY <2>6 DEF GcRecord
    <3> QED
      BY <2>2, <2>3, <3>1 DEF Applying
  <2>7. CASE GcSweep(p)
    <3>1. pc[p] = "release" /\ UNCHANGED <<pc, dirs, man>> /\ \E q \in todo[p] : disk' = [disk EXCEPT ![q] = NoEntry]
      BY <2>7 DEF GcSweep, db
    <3>2. NoEntry \in Lost
      BY <3>1 DEF SweptInv, Swept, Lost
    <3>3. \A k \in dirs : Readable(k) => \A q \in Own(man[k]) :
            disk'[q] = disk[q] \/ (disk'[q] \in Lost /\ q \in tangled)
      <4>1. todo[p] \cap Claimable \subseteq tangled
        BY <3>1 DEF TangledInv, TangledAt
      <4> QED
        BY <1>0, <3>1, <3>2, <4>1 DEF Manifest, Claimable, Own
    <3>4. AllStand({})
      BY <2>2, <3>1 DEF Applying
    <3>5. AllStand({})'
      BY <2>0, <3>1, <3>3, <3>4 DEF AllStand, Stands, Readable, Own
    <3> QED
      BY <3>1, <3>5 DEF LayAt, Works, Goes, Applying
  <2>8. CASE RemovePick(p)
    <3>1. PICK k \in going[p] :
            /\ ~Unread(p, k.target)
            /\ was' = Set(was, p, [l \in Key |-> IF l = k THEN man[k] ELSE NoRecord])
            /\ todo' = Set(todo, p, Own(man[k]))
      BY <2>8 DEF RemovePick
    <3>2. /\ pc[p] = "pick" /\ pc'[p] = "remove" /\ UNCHANGED <<disk, dirs, man>>
      BY <1>0, <2>8 DEF RemovePick, Goto, db
    <3>3. k \in Key /\ Readable(k)
      BY <1>0, <3>1 DEF Unread
    <3>4. was'[p] = [l \in Key |-> IF l = k THEN man[k] ELSE NoRecord] /\ todo'[p] = Own(man[k])
      BY <1>0, <3>1 DEF Set
    <3>5. Removing(p)' = k
      <4>1. \A l \in Key : was'[p][l] # NoRecord <=> l = k
        BY <3>3, <3>4 DEF Readable
      <4> QED
        BY <3>3, <4>1, Zenon DEF Removing
    <3>6. Old(p, k)' = man[k]
      BY <3>3, <3>4 DEF Old, Readable
    <3>7. AllStand({})
      BY <2>2, <3>2 DEF Applying
    <3>8. AllStand({k})'
      BY <2>0, <3>2, <3>7 DEF AllStand, Stands, Readable, Own
    <3>9. (Old(p, Removing(p)))' = man[k] /\ Readable(k)' /\ man'[k] = man[k] /\ Own(man[k])' = Own(man[k])
      BY <3>2, <3>3, <3>5, <3>6 DEF Readable, Old, Own
    <3> QED
      BY <3>2, <3>4, <3>5, <3>8, <3>9 DEF LayAt, Works, Goes, Applying
  <2>9. ASSUME pc[p] \in {"remove", "forget"}
        PROVE  /\ AllStand({Removing(p)}) /\ Old(p, Removing(p)) = man[Removing(p)]
               /\ Readable(Removing(p)) /\ todo[p] \subseteq Own(man[Removing(p)])
               /\ Removing(p) \in dirs
    BY <2>1, <2>9 DEF LayAt, Goes, Handles, Leaving
  <2>10. CASE RemoveUnlink(p)
    <3> DEFINE R == Removing(p)
    <3>1. PICK q \in todo[p] :
            /\ disk' = IF disk[q] = Old(p, R)[q] THEN [disk EXCEPT ![q] = NoEntry] ELSE disk
            /\ todo' = [todo EXCEPT ![p] = @ \ {q}]
      BY <2>10 DEF RemoveUnlink, Drop
    <3>2. pc[p] = "remove" /\ UNCHANGED <<pc, dirs, man, was>>
      BY <2>10 DEF RemoveUnlink, db
    <3>3. R' = R /\ \A k : Old(p, k)' = Old(p, k)
      BY <3>2, RemovingKeeps
    <3>4. /\ AllStand({R}) /\ Old(p, R) = man[R] /\ Readable(R) /\ todo[p] \subseteq Own(man[R]) /\ R \in dirs
      BY <2>9, <3>2
    <3>5. Disjoint(dirs)
      <4>1. \A r \in Proc : pc[r] \notin Middle
        BY <1>0, <3>2, AloneStep DEF Middle
      <4> QED
        BY <4>1 DEF ExclInv
    <3> HIDE DEF R
    <3>6. \A r \in Path \ {q} : disk'[r] = disk[r]
      BY <1>0, <3>1 DEF Manifest
    <3>7. \A k \in dirs \ {R} : Readable(k) => q \notin Own(man[k])
      BY <3>4, <3>5 DEF Disjoint
    <3>8. AllStand({R})'
      BY <2>0, <3>2, <3>3, <3>4, <3>6, <3>7, OwnType DEF AllStand, Stands, Readable
    <3>9. todo'[p] \subseteq Own(man[R])
      BY <1>0, <3>1, <3>4
    <3>10. /\ Old(p, R)' = man[R] /\ man'[R'] = man[R] /\ Readable(R)' /\ Own(man[R])' = Own(man[R])
      BY <3>2, <3>3, <3>4 DEF Readable, Own
    <3> QED
      BY <3>2, <3>8, <3>9, <3>10 DEF LayAt, Works, Goes, Applying, R
  <2>11. CASE ForgetProvides(p)
    <3> DEFINE R == Removing(p)
    <3>1. pc[p] = "remove" /\ pc'[p] = "forget" /\ UNCHANGED <<disk, dirs, man, was, todo>>
      BY <1>0, <2>11 DEF ForgetProvides, Goto, locals
    <3>2. R' = R /\ \A k : Old(p, k)' = Old(p, k)
      BY <3>1, RemovingKeeps
    <3>3. /\ AllStand({R}) /\ Old(p, R) = man[R] /\ Readable(R) /\ todo[p] \subseteq Own(man[R]) /\ R \in dirs
      BY <2>9, <3>1
    <3> HIDE DEF R
    <3>4. AllStand({R})'
      BY <2>0, <3>1, <3>2, <3>3 DEF AllStand, Stands, Readable, Own
    <3>5. /\ Old(p, R)' = man[R] /\ man'[R'] = man[R] /\ Readable(R)' /\ Own(man[R])' = Own(man[R])
      BY <3>1, <3>2, <3>3 DEF Readable, Own
    <3> QED
      BY <3>1, <3>3, <3>4, <3>5 DEF LayAt, Works, Goes, Applying, R
  <2>12. CASE ForgetFiles(p)
    <3> DEFINE R == Removing(p)
    <3>1. /\ pc[p] = "forget" /\ pc'[p] = "rmdir" /\ man' = [man EXCEPT ![R] = NoRecord]
          /\ UNCHANGED <<disk, dirs>>
      BY <1>0, <2>12 DEF ForgetFiles, Goto
    <3>2. AllStand({R}) /\ R \in dirs
      BY <2>9, <3>1
    <3> HIDE DEF R
    <3>3. AllStand({})'
      BY <2>0, <1>0, <3>1, <3>2 DEF AllStand, Stands, Readable
    <3> QED
      BY <3>1, <3>3 DEF LayAt, Works, Goes, Applying
  <2>13. CASE ForgetDir(p)
    <3>1. pc[p] = "rmdir" /\ pc'[p] \in {"pick", "done"} /\ UNCHANGED <<disk, man>> /\ dirs' \subseteq dirs
      BY <1>0, <2>13 DEF ForgetDir, Goto
    <3>2. AllStand({})
      BY <2>2, <3>1 DEF Applying
    <3>3. AllStand({})'
      BY <2>0, <3>1, <3>2 DEF AllStand, Stands, Readable, Own
    <3> QED
      BY <3>1, <3>3 DEF LayAt, Works, Goes, Applying
  <2> QED
    BY <1>2, <2>4, <2>5, <2>6, <2>7, <2>8, <2>10, <2>11, <2>12, <2>13 DEF Remove, Gc
<1> QED
  BY <1>1, <1>2

LEMMA LayAlways == ASSUME Unforced PROVE Spec => [](NoForce /\ LayInv)
<1>1. Init => NoForce /\ LayInv
  BY DEF Init, NoForce, LayInv, AllStand, Past
<1>2. TypeInv /\ NoForce /\ [Next]_vars => NoForce'
  BY NoForceNext
<1>3. Ground /\ LockInv' /\ NoForce /\ LayInv /\ [Next]_vars => LayInv'
  BY InsideOrOut, LayOutside, LayInstall, LayRemove DEF Ground
<1>4. Ground => TypeInv /\ LockInv
  BY DEF Ground
<1> QED
  BY GroundAlways, <1>1, <1>2, <1>3, <1>4, PTL DEF Spec

\* With nothing forced and nothing killed, what a record says is on disk is on disk whenever
\* the lock is free, or the user edited it: no later install, upgrade or removal of another
\* package and no gc takes it away or puts another file in its place, but for the paths an
\* install left to a record and a preserved record both (install.rs paths, apply, preserve,
\* prune and remove; main.rs gc_cmd).
THEOREM FilesAreThere == ASSUME Unforced PROVE Spec => [](kills = 0 => Faithful)
<1>1. LockInv /\ LayInv => (kills = 0 => Faithful)
  <2> SUFFICES ASSUME LockInv, LayInv, kills = 0, Quiet PROVE Faithful
    BY DEF Faithful
  <2>1. \A p \in Proc : ~Past(p)
    BY ConstantsAssumption DEF LockInv, Quiet
  <2> QED
    BY <2>1 DEF LayInv, AllStand, Stands, Lost, Faithful
<1>2. Ground => LockInv
  BY DEF Ground
<1>3. Spec => []LayInv
  BY LayAlways, PTL
<1> QED
  BY GroundAlways, <1>1, <1>2, <1>3, PTL

----------------------------------------------------------------------------
(* And the other way round: what is on disk is claimed. While an apply runs
   that is put off: what no job ships and was there as it began was some
   record's, or is kept back; and what its packages no longer ship goes, but
   for what the preserved records took over. *)

Stray(q) == disk[q] \in Content \ Edits
Owned(q) == \E k \in Key : (Readable(k) /\ q \in Own(man[k])) \/ q \in Own(preserved[k])
AllOwned(S) == \A q \in Path \ S : Stray(q) => Owned(q)

Saved(p, i) == (pc[p] = "preserve" /\ i < at[p]) \/ pc[p] \in Later \ {"preserve"}
Pruned(p, i) == (pc[p] \in {"prune", "unlink"} /\ i < at[p]) \/ pc[p] = "enqueue"

Sourced(p) ==
  \A q \in Path \ Ships(batch[p]) : base[p][q] \in Content \ Edits =>
    \E k \in Key : q \in Own(Old(p, k)) \cup Own(preserved[k])
Shelved(p) ==
  \A q \in kept[p] \ Ships(batch[p]) :
    \E i \in 1..Len(batch[p]) : Saved(p, i) /\ q \in Own(preserved[KeyOf(batch[p][i])])
Cleared(p) ==
  \A i \in 1..Len(batch[p]) : \A q \in Own(Old(p, KeyOf(batch[p][i]))) \ kept[p] :
    Pruned(p, i) \/ (pc[p] = "unlink" /\ i = at[p] /\ q \notin todo[p]) => ~Stray(q)

Sweeping(p) == IF pc[p] = "release" THEN todo[p] ELSE {}
OwnAt(p) ==
  /\ Works(p) => Sourced(p) /\ Shelved(p) /\ Cleared(p)
  /\ Goes(p) => /\ pc[p] = "forget" => todo[p] = {}
                /\ \A q \in Own(man[Removing(p)]) \ todo[p] : ~Stray(q)
                /\ \A q \in todo[p] : Stray(q) => disk[q] = man[Removing(p)][q]
  /\ ~Works(p) => AllOwned(Sweeping(p))
OwnInv ==
  kills = 0 => /\ (\A p \in Proc : ~Past(p)) => AllOwned({})
               /\ \A p \in Proc : Past(p) => OwnAt(p)

LEMMA OwnInside ==
  ASSUME LockInv, NEW p \in Proc, Past(p), Others(p), kills' = 0 => OwnAt(p)'
  PROVE  OwnInv'
<1>1. \A q \in Proc \ {p} : ~Past(q)'
  BY AloneStep DEF Past
<1>2. kills' = 0 /\ ~Past(p)' => AllOwned({})'
  BY DEF OwnAt, Past, Works, Applying, Sweeping
<1> QED
  BY <1>1, <1>2 DEF OwnInv

LEMMA OwnOutside ==
  ASSUME TypeInv, LockInv, LockInv', OwnInv, Outside PROVE OwnInv'
<1>0. UNCHANGED db /\ (kills' = 0 => kills = 0) /\ disk \in Manifest /\ EtcPath \subseteq Path
  BY OutsideKeeps, ConstantsAssumption DEF TypeInv, TypeOK
<1> SUFFICES ASSUME kills' = 0, kills = 0 PROVE OwnInv'
  BY <1>0 DEF OwnInv
<1>1. CASE Edit
  <2>1. PICK q \in EtcPath, c \in Edits : disk' = [disk EXCEPT ![q] = c]
    BY <1>1 DEF Edit
  <2>2. lock = NoProc /\ UNCHANGED <<db, pc>>
    BY <1>1 DEF Edit
  <2>3. \A p \in Proc : ~Past(p) /\ ~Past(p)'
    BY <2>2, ConstantsAssumption DEF LockInv, Past
  <2>4. \A r \in Path : Stray(r)' => Stray(r)
    BY <1>0, <2>1 DEF Manifest, Stray
  <2>5. AllOwned({})
    BY <2>3 DEF OwnInv
  <2>6. \A r : Owned(r) => Owned(r)'
    BY <2>2 DEF Owned, Readable, Own, db
  <2>7. AllOwned({})'
    BY <2>4, <2>5, <2>6 DEF AllOwned
  <2> QED
    BY <2>3, <2>7 DEF OwnInv
<1>2. CASE ~Edit
  <2>1. UNCHANGED disk
    BY <1>2 DEF Outside, vars, BeginInstall, BeginRemove, BeginGc, Begin, Lock, Kill
  <2>2. /\ \A q : (Stray(q)' <=> Stray(q)) /\ (Owned(q)' <=> Owned(q))
        /\ \A m : Own(m) = {q \in Path : m[q] # NoEntry}
    BY <1>0, <2>1 DEF Stray, Owned, Readable, Own, db
  <2>3. ASSUME NEW p \in Proc, Past(p) PROVE OwnAt(p)'
    <3>1. /\ pc'[p] = pc[p] /\ batch'[p] = batch[p] /\ at'[p] = at[p] /\ was'[p] = was[p]
          /\ base'[p] = base[p] /\ todo'[p] = todo[p] /\ kept'[p] = kept[p]
      BY <2>3, OutsideKeeps DEF Past
    <3>2. Removing(p)' = Removing(p) /\ \A k : Old(p, k)' = Old(p, k)
      BY <3>1, RemovingKeeps
    <3>3. OwnAt(p)
      BY <2>3 DEF OwnInv
    <3>4. Sourced(p) => Sourced(p)'
      BY <1>0, <3>1, <3>2 DEF Sourced, Own, Ships, db
    <3>5. Shelved(p) => Shelved(p)'
      BY <1>0, <3>1 DEF Shelved, Own, Ships, Saved, KeyOf, db
    <3>6. Cleared(p) => Cleared(p)'
      <4> SUFFICES ASSUME Cleared(p), NEW i \in 1..Len(batch[p]),
                          NEW q \in Own(Old(p, KeyOf(batch[p][i]))) \ kept[p],
                          Pruned(p, i) \/ (pc[p] = "unlink" /\ i = at[p] /\ q \notin todo[p])
                   PROVE  ~Stray(q)
        BY <2>2, <3>1, <3>2 DEF Cleared, Pruned, Own, KeyOf
      <4> QED
        BY DEF Cleared
    <3>7. (Works(p)' <=> Works(p)) /\ (Goes(p)' <=> Goes(p)) /\ Sweeping(p)' = Sweeping(p)
      BY <3>1 DEF Works, Goes, Sweeping
    <3>8. AllOwned(Sweeping(p)) => AllOwned(Sweeping(p))'
      BY <2>2, <3>7 DEF AllOwned
    <3>9. UNCHANGED man
      BY <1>0 DEF db
    <3>10. Own(man[Removing(p)])' = Own(man[Removing(p)])
      BY <3>2, <3>9 DEF Own
    <3> QED
      BY <2>2, <3>1, <3>2, <3>3, <3>4, <3>5, <3>6, <3>7, <3>8, <3>9, <3>10, <2>1 DEF OwnAt
  <2>4. ASSUME NEW p \in Proc, ~Past(p), Past(p)' PROVE OwnAt(p)'
    <3>1. pc'[p] \in {"plan", "check", "gc"}
      BY <2>4, OutsideKeeps DEF Past
    <3>2. Lock(p)
      BY <2>4, <1>2 DEF Past, Outside, vars, BeginInstall, BeginRemove, BeginGc, Begin, Lock, Kill,
         Exit, Goto, TypeInv, TypeOK
    <3>3. \A r \in Proc : ~Past(r)
      BY <3>2, ConstantsAssumption DEF Lock, LockInv
    <3> QED
      BY <2>2, <3>1, <3>3 DEF OwnInv, OwnAt, Works, Goes, Applying, AllOwned, Sweeping
  <2>5. (\A p \in Proc : ~Past(p)') => \A p \in Proc : ~Past(p)
    BY OutsideKeeps DEF Past
  <2> QED
    BY <2>2, <2>3, <2>4, <2>5 DEF OwnInv, AllOwned
<1> QED
  BY <1>1, <1>2

\* the one step that moves files from records to preserved ones
LEMMA OwnPreserve ==
  ASSUME TypeInv, SparedInv, NoForce, LayInv, OwnInv, kills = 0, NEW p \in Proc, Preserve(p)
  PROVE  OwnAt(p)'
<1> DEFINE b == batch[p]
           I == 1..Len(b)
           k == KeyOf(Job(p))
           had == Own(preserved[k]) \ kept[p]
           all == [q \in Path |-> IF q \in had THEN preserved[k][q]
                                  ELSE IF q \in Held(p) THEN Old(p, k)[q] ELSE NoEntry]
<1>1. /\ pc[p] = "preserve" /\ preserved' = IF Own(all) = had THEN preserved ELSE [preserved EXCEPT ![k] = all]
      /\ kept' = [kept EXCEPT ![p] = @ \cup Held(p)]
      /\ UNCHANGED <<disk, batch, was, base>> /\ Advance(p, "preserve", "dispossess")
  BY DEF Preserve
<1>2. /\ at[p] \in I /\ Job(p) = b[at[p]] /\ k \in Key /\ Len(b) \in Nat
      /\ \A i \in I : KeyOf(b[i]) \in Key /\ (i # at[p] => KeyOf(b[i]) # k)
  <2>1. pc[p] \in Applying
    BY <1>1 DEF Applying
  <2>2. at[p] \in I /\ Job(p) = b[at[p]] /\ Len(b) \in Nat
    BY <2>1, JobFacts
  <2>3. \A i \in I : KeyOf(b[i]) \in Key /\ (i # at[p] => KeyOf(b[i]) # KeyOf(b[at[p]]))
    BY <2>1, <2>2, JobFacts
  <2> QED
    BY <2>2, <2>3
<1>3. /\ pc = [q \in Proc |-> pc[q]] /\ at = [q \in Proc |-> at[q]] /\ preserved \in [Key -> Manifest]
      /\ kept = [q \in Proc |-> kept[q]]
  BY DEF TypeInv, TypeOK, LocalsOK
<1>4. kept'[p] = kept[p] \cup Held(p)
  BY <1>1, <1>3
<1>5. /\ \/ pc'[p] = "preserve" /\ at'[p] = at[p] + 1
         \/ pc'[p] = "dispossess"
      /\ at[p] \in Nat
  BY <1>1, <1>2, <1>3 DEF Advance, Goto
<1>6. /\ Works(p) /\ Past(p) /\ Works(p)' /\ ~Goes(p)' /\ (\A q : Old(p, q)' = Old(p, q))
  BY <1>1, <1>5 DEF Works, Past, Goes, Applying, Old
<1>7. Sourced(p) /\ Shelved(p)
  BY <1>6 DEF OwnInv, OwnAt
<1>8. \A i \in I : /\ Saved(p, i) => Saved(p, i)' /\ i # at[p]
                   /\ i = at[p] => Saved(p, i)'
  BY <1>1, <1>2, <1>5 DEF Saved, Later
<1>9. /\ \A l \in Key \ {k} : preserved'[l] = preserved[l]
      /\ had \cup Held(p) \subseteq Own(preserved'[k])
  <2>1. \A q \in had \cup Held(p) : q \in Path /\ all[q] # NoEntry
    BY DEF Own, Held
  <2>2. had \cup Held(p) \subseteq Own(all)
    BY <2>1 DEF Own
  <2>3. Own(all) = had => had \cup Held(p) \subseteq Own(preserved[k])
    BY <2>2
  <2> HIDE DEF all, had, k
  <2> QED
    BY <1>1, <1>2, <1>3, <2>2, <2>3
<1> HIDE DEF all, k
<1>10. Shelved(p)'
  <2> SUFFICES ASSUME NEW q \in kept'[p] \ Ships(b)
               PROVE  \E i \in I : Saved(p, i)' /\ q \in Own(preserved'[KeyOf(b[i])])
    BY <1>1 DEF Shelved, Ships, Own, KeyOf
  <2>1. CASE q \in kept[p]
    <3>1. PICK i \in I : Saved(p, i) /\ q \in Own(preserved[KeyOf(b[i])])
      BY <1>7, <2>1 DEF Shelved
    <3> QED
      BY <1>2, <1>8, <1>9, <3>1
  <2>2. CASE q \in Held(p)
    BY <1>2, <1>8, <1>9, <2>2 DEF k
  <2> QED
    BY <1>4, <2>1, <2>2
<1>11. Sourced(p)'
  <2> SUFFICES ASSUME NEW q \in Path \ Ships(b), base[p][q] \in Content \ Edits
               PROVE  \E l \in Key : q \in Own(Old(p, l)) \cup Own(preserved'[l])
    BY <1>1, <1>6 DEF Sourced, Ships, Own
  <2>1. PICK l \in Key : q \in Own(Old(p, l)) \cup Own(preserved[l])
    BY <1>7 DEF Sourced
  <2>2. CASE q \in Own(preserved[l]) /\ l = k /\ q \in kept[p]
    <3>1. PICK i \in I : Saved(p, i) /\ q \in Own(preserved[KeyOf(b[i])])
      BY <1>7, <2>2 DEF Shelved
    <3> QED
      BY <1>2, <1>8, <1>9, <3>1
  <2>3. CASE q \in Own(preserved[l]) /\ l = k /\ q \notin kept[p]
    BY <1>2, <1>9, <2>3
  <2> QED
    BY <1>9, <2>1, <2>2, <2>3
<1>12. Cleared(p)'
  BY <1>5 DEF Cleared, Pruned
<1> QED
  BY <1>6, <1>10, <1>11, <1>12 DEF OwnAt

LEMMA OwnInstall ==
  ASSUME TypeInv, LockInv, WholeInv, SparedInv, SweptInv, NoForce, LayInv, OwnInv,
         NEW p \in Proc, Past(p), Install(p)
  PROVE  OwnInv'
<1> DEFINE b == batch[p]
           I == 1..Len(b)
<1>0. /\ pc = [q \in Proc |-> pc[q]] /\ todo = [q \in Proc |-> todo[q]] /\ disk \in Manifest
      /\ dirs \subseteq Key /\ at = [q \in Proc |-> at[q]] /\ at[p] \in Nat
      /\ kept = [q \in Proc |-> kept[q]] /\ NoEntry \notin Content
      /\ man \in [Key -> Manifest \cup {NoRecord}] /\ NoRecord \notin Manifest /\ Others(p)
  BY StepOthers, ConstantsAssumption DEF TypeInv, TypeOK, LocalsOK, Step
<1>00. UNCHANGED kills
  BY DEF Install, PlanRefuses, ApplyStart, JobStart, Extract, PutHead, PutManifest,
     PutProvides, Preserve, Dispossess, Disown, DispossessDone, PruneStart, PruneUnlink, PruneDone,
     Enqueue, counts
<1> SUFFICES ASSUME kills = 0 PROVE OwnAt(p)'
  BY <1>0, <1>00, OwnInside
<1>1. OwnAt(p)
  BY DEF OwnInv
<1>2. ASSUME Works(p), Works(p)', UNCHANGED <<batch, was, base, preserved>>,
             kept'[p] \ Ships(b) \subseteq kept[p], \A i \in I : Saved(p, i) => Saved(p, i)',
             Cleared(p)'
      PROVE  OwnAt(p)'
  <2>1. Sourced(p) /\ Shelved(p) /\ ~Goes(p)'
    BY <1>1, <1>2 DEF OwnAt, Works, Goes, Applying
  <2>2. \A k : Old(p, k)' = Old(p, k)
    BY <1>2 DEF Old
  <2>3. Sourced(p)'
    BY <1>2, <2>1, <2>2 DEF Sourced, Ships, Own
  <2>4. Shelved(p)'
    BY <1>2, <2>1 DEF Shelved, Ships, Own, KeyOf
  <2> QED
    BY <1>2, <2>1, <2>3, <2>4 DEF OwnAt
<1>3. CASE PlanRefuses(p)
  <2>1. pc[p] = "plan" /\ pc'[p] = "idle" /\ UNCHANGED <<disk, man, preserved>>
    BY <1>0, <1>3 DEF PlanRefuses, Exit, Goto, db
  <2>2. AllOwned({})
    BY <1>1, <2>1 DEF OwnAt, Works, Applying, Sweeping
  <2>3. AllOwned({})'
    BY <2>1, <2>2 DEF AllOwned, Stray, Owned, Readable, Own
  <2> QED
    BY <2>1, <2>3 DEF OwnAt, Works, Goes, Applying, Sweeping
<1>4. CASE ApplyStart(p)
  <2>1. /\ pc[p] = "plan" /\ pc'[p] = "job" /\ was'[p] = man /\ base'[p] = disk
        /\ UNCHANGED <<disk, man, preserved, batch, kept>> /\ kept[p] = {}
    BY <1>0, <1>4 DEF ApplyStart, Goto, Set, db, TypeInv, TypeOK, LocalsOK, SweptInv, Swept
  <2>2. AllOwned({})
    BY <1>1, <2>1 DEF OwnAt, Works, Applying, Sweeping
  <2>3. \A k \in Key : Readable(k) => Old(p, k)' = man[k]
    BY <2>1 DEF Old, Readable
  <2>4. Sourced(p)'
    BY <2>1, <2>2, <2>3 DEF Sourced, AllOwned, Stray, Owned, Own
  <2>5. Shelved(p)' /\ Cleared(p)'
    BY <2>1 DEF Shelved, Cleared, Pruned
  <2> QED
    BY <2>1, <2>4, <2>5 DEF OwnAt, Goes, Works, Applying
<1>5. CASE JobStart(p) \/ PutManifest(p) \/ Disown(p)
  <2>1. /\ pc[p] \in {"job", "manifest", "disown"} /\ pc'[p] \in {"extract", "provides", "dispossess"}
        /\ (pc[p] = "disown" => pc'[p] = "dispossess")
        /\ UNCHANGED <<batch, was, base, preserved, kept>>
    BY <1>0, <1>5 DEF JobStart, PutManifest, Disown, Goto, db, locals
  <2>2. Cleared(p)' /\ Works(p) /\ Works(p)'
    BY <2>1 DEF Cleared, Pruned, Works, Applying
  <2>3. \A i \in I : Saved(p, i) => Saved(p, i)'
    BY <2>1 DEF Saved, Later
  <2> QED
    BY <1>2, <2>1, <2>2, <2>3
<1>6. CASE Extract(p)
  <2>1. pc[p] = "extract" /\ UNCHANGED <<pc, batch, was, base, preserved, kept, at>>
    BY <1>6 DEF Extract, db
  <2>2. Cleared(p)' /\ Works(p) /\ Works(p)'
    BY <2>1 DEF Cleared, Pruned, Works, Applying
  <2>3. \A i \in I : Saved(p, i) => Saved(p, i)'
    BY <2>1 DEF Saved, Later
  <2> QED
    BY <1>2, <2>1, <2>2, <2>3
<1>7. CASE PutHead(p)
  <2>1. /\ pc[p] = "extract" /\ pc'[p] = "manifest" /\ kept'[p] = kept[p] \cup Own(Job(p).ships)
        /\ UNCHANGED <<batch, was, base, preserved>>
    BY <1>0, <1>7 DEF PutHead, Goto
  <2>2. Cleared(p)' /\ Works(p) /\ Works(p)'
    BY <2>1 DEF Cleared, Pruned, Works, Applying
  <2>3. \A i \in I : ~Saved(p, i)
    BY <2>1 DEF Saved, Later
  <2>4. Own(Job(p).ships) \subseteq Ships(b)
    <3>1. pc[p] \in Applying
      BY <2>1 DEF Applying
    <3>2. at[p] \in I /\ Job(p) = b[at[p]]
      BY <3>1, JobFacts
    <3> QED
      BY <3>2 DEF Ships
  <2> QED
    BY <1>2, <2>1, <2>2, <2>3, <2>4
<1>8. CASE PutProvides(p) \/ DispossessDone(p)
  <2>1. /\ pc[p] \in {"provides", "dispossess"} /\ pc'[p] \in {"job", "preserve", "dispossess", "prune"}
        /\ (pc'[p] = "prune" => at'[p] = 1) /\ (pc[p] = "dispossess" => pc'[p] \in {"dispossess", "prune"})
        /\ UNCHANGED <<batch, was, base, preserved, kept>>
    BY <1>0, <1>8 DEF PutProvides, DispossessDone, Advance, Goto, Set, db
  <2>2. Works(p) /\ Works(p)'
    BY <2>1 DEF Works, Applying
  <2>3. \A i \in I : ~Pruned(p, i)'
    BY <2>1 DEF Pruned
  <2>4. Cleared(p)'
    BY <2>1, <2>3 DEF Cleared
  <2>5. \A i \in I : Saved(p, i) => Saved(p, i)'
    BY <2>1 DEF Saved, Later
  <2> QED
    BY <1>2, <2>1, <2>2, <2>4, <2>5
<1>9. CASE Preserve(p)
  BY <1>9, OwnPreserve
<1>10. CASE Dispossess(p)
  BY <1>10, NoLosers DEF Dispossess
<1>11. CASE PruneStart(p)
  <2>1. /\ pc[p] = "prune" /\ pc'[p] = "unlink" /\ todo'[p] = Own(Old(p, KeyOf(Job(p)))) \ kept[p]
        /\ UNCHANGED <<disk, batch, at, was, base, preserved, kept>>
    BY <1>0, <1>11 DEF PruneStart, Goto, Set, db
  <2>2. /\ Works(p) /\ Works(p)' /\ (\A k : Old(p, k)' = Old(p, k)) /\ Job(p) = b[at[p]]
        /\ \A i \in I : (Pruned(p, i)' <=> Pruned(p, i)) /\ Saved(p, i)'
    BY <2>1 DEF Works, Applying, Old, Pruned, Saved, Later, Job
  <2>3. Cleared(p)
    BY <1>1, <2>2 DEF OwnAt
  <2>4. ASSUME NEW i \in I, NEW q \in Own(Old(p, KeyOf(b[i]))) \ kept[p],
               Pruned(p, i) \/ (i = at[p] /\ q \notin todo'[p])
        PROVE  ~Stray(q)
    BY <2>1, <2>2, <2>3, <2>4 DEF Cleared
  <2>5. Cleared(p)'
    BY <2>1, <2>2, <2>4 DEF Cleared, Stray, Own, KeyOf
  <2> QED
    BY <1>2, <2>1, <2>2, <2>5
<1>12. CASE PruneUnlink(p)
  <2>1. PICK q \in todo[p] :
          /\ disk' = IF disk[q] = Old(p, KeyOf(Job(p)))[q] THEN [disk EXCEPT ![q] = NoEntry] ELSE disk
          /\ todo' = [todo EXCEPT ![p] = @ \ {q}]
    BY <1>12 DEF PruneUnlink, Drop
  <2>2. pc[p] = "unlink" /\ UNCHANGED <<pc, batch, at, was, base, preserved, kept>>
    BY <1>12 DEF PruneUnlink, db
  <2>3. /\ Works(p) /\ Works(p)' /\ (\A k : Old(p, k)' = Old(p, k)) /\ pc[p] \in Applying
        /\ \A i \in I : (Pruned(p, i)' <=> Pruned(p, i)) /\ Saved(p, i)'
    BY <2>2 DEF Works, Applying, Old, Pruned, Saved, Later
  <2>4. /\ Cleared(p) /\ at[p] \in I /\ Job(p) = b[at[p]] /\ Beside(p) /\ Began(p) /\ Jobs(p)
        /\ todo[p] \subseteq Own(Old(p, KeyOf(Job(p)))) /\ todo[p] \cap kept[p] = {}
        /\ KeyOf(Job(p)) \in Key
    <3>1. /\ at[p] \in I /\ Job(p) = b[at[p]] /\ Beside(p) /\ Began(p) /\ Jobs(p) /\ Ranged(p) /\ Here(p)
      BY <2>3, JobFacts
    <3>2. KeyOf(Job(p)) \in Key
      BY <2>3, JobType
    <3> QED
      BY <1>1, <2>2, <2>3, <3>1, <3>2 DEF OwnAt, Here, Ranged
  <2>5. ~Stray(q)' /\ \A r \in Path : Stray(r)' => Stray(r)
    <3>1. q \in Path \ Ships(b)
      <4>1. \A i \in I : Own(b[i].ships) \subseteq kept[p]
        BY <2>2, <2>4 DEF Jobs, Laid, Later
      <4> QED
        BY <2>1, <2>4, <4>1, OwnType DEF Ships
    <3>2. disk[q] = base[p][q] \/ disk[q] = NoEntry
      BY <2>4, <3>1 DEF Beside
    <3>3. base[p][q] = Old(p, KeyOf(Job(p)))[q] \/ base[p][q] \in Edits \cup {NoEntry}
      BY <2>1, <2>4 DEF Began, Stands, Lost
    <3> QED
      BY <1>0, <2>1, <3>1, <3>2, <3>3 DEF Stray, Manifest
  <2>6. ASSUME NEW i \in I, NEW r \in Own(Old(p, KeyOf(b[i]))) \ kept[p],
               Pruned(p, i) \/ (i = at[p] /\ r \notin todo'[p])
        PROVE  ~Stray(r)'
    <3>1. CASE r = q
      BY <2>5, <3>1
    <3>2. CASE r # q
      <4>1. Pruned(p, i) \/ (i = at[p] /\ r \notin todo[p])
        BY <1>0, <2>1, <2>6, <3>2
      <4> QED
        BY <2>2, <2>4, <2>5, <4>1, OwnType DEF Cleared
    <3> QED
      BY <3>1, <3>2
  <2>7. Cleared(p)'
    BY <2>2, <2>3, <2>6 DEF Cleared, Own, KeyOf
  <2> QED
    BY <1>2, <2>2, <2>3, <2>7
<1>13. CASE PruneDone(p)
  <2>1. /\ pc[p] = "unlink" /\ todo[p] = {} /\ UNCHANGED <<disk, batch, was, base, preserved, kept>>
        /\ \/ pc'[p] = "prune" /\ at'[p] = at[p] + 1
           \/ pc'[p] = "enqueue" /\ ~(at[p] < Len(b))
    BY <1>0, <1>13 DEF PruneDone, Advance, Goto, db
  <2>2. /\ Works(p) /\ Works(p)' /\ (\A k : Old(p, k)' = Old(p, k)) /\ pc[p] \in Applying
        /\ \A i \in I : Saved(p, i)'
    BY <2>1 DEF Works, Applying, Old, Saved, Later
  <2>3. Cleared(p) /\ at[p] \in I /\ Len(b) \in Nat
    BY <1>1, <2>2, JobFacts DEF OwnAt
  <2>4. \A i \in I : Pruned(p, i)' => Pruned(p, i) \/ i = at[p]
    BY <1>0, <2>1, <2>3 DEF Pruned
  <2>5. ASSUME NEW i \in I, NEW q \in Own(Old(p, KeyOf(b[i]))) \ kept[p], Pruned(p, i)'
        PROVE  ~Stray(q)
    BY <2>1, <2>3, <2>4, <2>5 DEF Cleared
  <2>6. Cleared(p)'
    BY <2>1, <2>2, <2>5 DEF Cleared, Stray, Own, KeyOf
  <2> QED
    BY <1>2, <2>1, <2>2, <2>6
<1>14. CASE Enqueue(p)
  <2>1. pc[p] = "enqueue" /\ pc'[p] = "done" /\ UNCHANGED <<disk, man, preserved>>
    BY <1>0, <1>14 DEF Enqueue, Goto, db
  <2>2. Works(p) /\ Acting(p)
    BY <2>1 DEF Works, Acting
  <2>3. Began(p) /\ Jobs(p) /\ Beside(p) /\ Spared(p) /\ Sourced(p) /\ Shelved(p) /\ Cleared(p)
    BY <1>1, <2>2, Zenon DEF LayInv, LayAt, SparedInv, Sparing, NoForce, OwnAt
  <2>4. \A i \in I : /\ Own(b[i].ships) \subseteq kept[p] /\ man[KeyOf(b[i])] = b[i].ships
    BY <2>1, <2>3 DEF Jobs, Laid, Recorded, Later
  <2>5. \A i \in I : KeyOf(b[i]) \in Key /\ b[i].ships \in Manifest
    <3>1. b \in Batches \cup {<< >>}
      BY DEF TypeInv, TypeOK, LocalsOK
    <3> QED
      BY <3>1, BatchJob
  <2>6. ASSUME NEW q \in Path, Stray(q) PROVE Owned(q)
    <3>1. CASE q \in Ships(b)
      <4>1. PICK i \in I : q \in Own(b[i].ships)
        BY <3>1 DEF Ships
      <4> QED
        BY <1>0, <2>4, <2>5, <4>1 DEF Owned, Readable
    <3>2. CASE q \notin Ships(b)
      <4>1. base[p][q] \in Content \ Edits
        BY <1>0, <2>3, <2>6, <3>2 DEF Beside, Stray
      <4>2. PICK k \in Key : q \in Own(Old(p, k)) \cup Own(preserved[k])
        BY <2>3, <3>2, <4>1 DEF Sourced
      <4>3. CASE q \in Own(preserved[k])
        BY <4>3 DEF Owned
      <4>4. CASE q \in Own(Old(p, k))
        <5>1. was[p][k] # NoRecord /\ Old(p, k) = was[p][k]
          BY <4>4 DEF Old, Own, Nothing
        <5>2. k \in dirs
          BY <2>3, <5>1 DEF Began
        <5>3. CASE k \notin Keys(b)
          BY <2>3, <4>4, <5>1, <5>2, <5>3 DEF Spared, Owned
        <5>4. CASE k \in Keys(b)
          <6>1. PICK i \in I : k = KeyOf(b[i])
            BY <5>4 DEF Keys
          <6>2. q \in kept[p]
            BY <2>1, <2>3, <2>6, <4>4, <6>1 DEF Cleared, Pruned
          <6>3. PICK j \in I : q \in Own(preserved[KeyOf(b[j])])
            BY <2>3, <3>2, <6>2 DEF Shelved
          <6> QED
            BY <2>5, <6>3 DEF Owned
        <5> QED
          BY <5>3, <5>4
      <4> QED
        BY <4>2, <4>3, <4>4
    <3> QED
      BY <3>1, <3>2
  <2>7. AllOwned({})'
    BY <2>1, <2>6 DEF AllOwned, Stray, Owned, Readable, Own
  <2> QED
    BY <2>1, <2>7 DEF OwnAt, Works, Goes, Applying, Sweeping
<1> QED
  BY <1>3, <1>4, <1>5, <1>6, <1>7, <1>8, <1>9, <1>10, <1>11, <1>12, <1>13, <1>14 DEF Install

LEMMA OwnRemove ==
  ASSUME TypeInv, LockInv, ExclInv, WholeInv, SweptInv, LayInv, OwnInv, NEW p \in Proc, Past(p),
         Remove(p) \/ Gc(p) \/ Finish(p) \/ Kill(p)
  PROVE  OwnInv'
<1>0. /\ pc = [q \in Proc |-> pc[q]] /\ todo = [q \in Proc |-> todo[q]] /\ disk \in Manifest
      /\ going[p] \subseteq Key /\ todo[p] \subseteq Path /\ kills \in Nat /\ NoEntry \notin Content
      /\ man \in [Key -> Manifest \cup {NoRecord}] /\ NoRecord \notin Manifest
      /\ preserved \in [Key -> Manifest] /\ was = [q \in Proc |-> was[q]] /\ Others(p)
  BY StepOthers, ExitOthers, ConstantsAssumption DEF TypeInv, TypeOK, LocalsOK, Step, Kill
<1>1. CASE Kill(p)
  BY <1>0, <1>1, OwnInside DEF Kill
<1>2. CASE ~Kill(p)
  <2>0. UNCHANGED kills
    BY <1>2 DEF Remove, RemoveCheck, RemoveDies, RemovePick, RemoveUnlink, ForgetProvides,
       ForgetFiles, ForgetDir, Gc, GcStart, GcRecord, GcSweep, GcDone, Finish, counts
  <2> SUFFICES ASSUME kills = 0 PROVE OwnAt(p)'
    BY <1>0, <2>0, OwnInside
  <2>1. OwnAt(p) /\ LayAt(p) /\ Handles(p)
    BY DEF OwnInv, LayInv, WholeInv
  <2>2. ASSUME pc[p] \notin Applying \cup {"enqueue", "release"} PROVE AllOwned({})
    BY <2>1, <2>2 DEF OwnAt, Works, Sweeping
  <2>3. ASSUME AllOwned({}), UNCHANGED <<disk, man, preserved>>,
               pc'[p] \notin Applying \cup {"enqueue", "remove", "forget"}
        PROVE  OwnAt(p)'
    <3>1. \A q : (Stray(q)' <=> Stray(q)) /\ (Owned(q)' <=> Owned(q))
      BY <2>3 DEF Stray, Owned, Readable, Own
    <3>2. \A S : AllOwned(S)'
      BY <2>3, <3>1 DEF AllOwned
    <3> QED
      BY <2>3, <3>2 DEF OwnAt, Works, Goes
  <2>4. CASE RemoveCheck(p) \/ RemoveDies(p) \/ Finish(p)
    <3>1. Exit(p) => pc' = [pc EXCEPT ![p] = "idle"]
      BY DEF Exit, Goto
    <3>2. /\ pc[p] \in {"check", "pick", "done"} /\ pc'[p] \in {"idle", "pick"}
          /\ UNCHANGED <<disk, man, preserved>>
      BY <1>0, <2>4, <3>1 DEF RemoveCheck, RemoveDies, Finish, Goto, db
    <3> QED
      BY <2>2, <2>3, <3>2 DEF Applying
  <2>5. CASE GcStart(p) \/ GcDone(p)
    <3>1. /\ pc'[p] \in {"release", "done"} /\ UNCHANGED <<disk, man, preserved>>
          /\ pc[p] = "gc" \/ (pc[p] = "release" /\ todo[p] = {})
      BY <1>0, <2>5 DEF GcStart, GcDone, Goto, db
    <3>2. AllOwned({})
      BY <2>1, <3>1 DEF OwnAt, Works, Applying, Sweeping
    <3> QED
      BY <2>3, <3>1, <3>2 DEF Applying
  <2>6. CASE GcRecord(p)
    <3>1. pc[p] = "release" /\ UNCHANGED <<pc, disk, man>>
      BY <2>6 DEF GcRecord
    <3>2. PICK k \in going[p] : \E out \in SUBSET Own(preserved[k]) :
            /\ preserved' = [preserved EXCEPT ![k] = Restricted(preserved[k], Own(preserved[k]) \ out)]
            /\ todo' = [todo EXCEPT ![p] = @ \cup out]
      BY <2>6, GcReleases
    <3>3. PICK out \in SUBSET Own(preserved[k]) :
            /\ preserved' = [preserved EXCEPT ![k] = Restricted(preserved[k], Own(preserved[k]) \ out)]
            /\ todo' = [todo EXCEPT ![p] = @ \cup out]
      BY <3>2
    <3>4. AllOwned(todo[p])
      BY <2>1, <3>1 DEF OwnAt, Works, Applying, Sweeping
    <3>5. /\ todo'[p] = todo[p] \cup out
          /\ \A l \in Key : Own(preserved[l]) \ out \subseteq Own(preserved'[l])
      BY <1>0, <3>3, RestrictedOwn
    <3>6. ASSUME NEW q \in Path \ todo'[p], Stray(q) PROVE Owned(q)'
      <4>1. PICK l \in Key : (Readable(l) /\ q \in Own(man[l])) \/ q \in Own(preserved[l])
        BY <3>4, <3>5, <3>6 DEF AllOwned, Owned
      <4> QED
        BY <3>1, <3>5, <3>6, <4>1 DEF Owned, Readable, Own
    <3>7. AllOwned(Sweeping(p))'
      BY <3>1, <3>6 DEF AllOwned, Sweeping, Stray
    <3> QED
      BY <3>1, <3>7 DEF OwnAt, Works, Goes, Applying
  <2>7. CASE GcSweep(p)
    <3>1. pc[p] = "release" /\ UNCHANGED <<pc, man, preserved>>
      BY <2>7 DEF GcSweep, db
    <3>2. PICK q \in todo[p] : /\ disk' = [disk EXCEPT ![q] = NoEntry]
                               /\ todo' = [todo EXCEPT ![p] = @ \ {q}]
      BY <2>7 DEF GcSweep
    <3>3. AllOwned(todo[p])
      BY <2>1, <3>1 DEF OwnAt, Works, Applying, Sweeping
    <3>4. ASSUME NEW r \in Path \ todo'[p], Stray(r)' PROVE Owned(r)
      <4>1. r # q /\ Stray(r)
        BY <1>0, <3>2, <3>4 DEF Stray, Manifest
      <4> QED
        BY <1>0, <3>2, <3>3, <3>4, <4>1 DEF AllOwned
    <3>5. AllOwned(Sweeping(p))'
      BY <3>1, <3>4 DEF AllOwned, Sweeping, Owned, Readable, Own
    <3> QED
      BY <3>1, <3>5 DEF OwnAt, Works, Goes, Applying
  <2>8. CASE RemovePick(p)
    <3>1. PICK k \in going[p] :
            /\ ~Unread(p, k.target)
            /\ was' = Set(was, p, [l \in Key |-> IF l = k THEN man[k] ELSE NoRecord])
            /\ todo' = Set(todo, p, Own(man[k]))
      BY <2>8 DEF RemovePick
    <3>2. pc[p] = "pick" /\ pc'[p] = "remove" /\ UNCHANGED <<disk, man, preserved>>
      BY <1>0, <2>8 DEF RemovePick, Goto, db
    <3>3. k \in Key /\ Readable(k) /\ k \in dirs
      BY <1>0, <2>1, <3>1, <3>2 DEF Unread, Handles, Leaving
    <3>4. was'[p] = [l \in Key |-> IF l = k THEN man[k] ELSE NoRecord] /\ todo'[p] = Own(man[k])
      BY <1>0, <3>1 DEF Set
    <3>5. Removing(p)' = k
      <4>1. \A l \in Key : was'[p][l] # NoRecord <=> l = k
        BY <3>3, <3>4 DEF Readable
      <4> QED
        BY <3>3, <4>1, Zenon DEF Removing
    <3>6. Stands(man[k], disk)
      BY <2>1, <3>2, <3>3 DEF LayAt, Works, Goes, Applying, AllStand
    <3>7. \A q \in Own(man[k]) : Stray(q) => disk[q] = man[k][q]
      BY <1>0, <3>6 DEF Stands, Stray, Lost
    <3>8. AllOwned({})
      BY <2>2, <3>2 DEF Applying
    <3>9. AllOwned({})'
      BY <3>2, <3>8 DEF AllOwned, Stray, Owned, Readable, Own
    <3>10. /\ Own(man[Removing(p)])' = todo'[p]
           /\ \A q \in todo'[p] : Stray(q)' => disk'[q] = man'[Removing(p)'][q]
      BY <3>2, <3>4, <3>5, <3>7 DEF Stray, Own
    <3> QED
      BY <3>2, <3>9, <3>10 DEF OwnAt, Works, Goes, Applying, Sweeping
  <2>9. ASSUME pc[p] \in {"remove", "forget"}
        PROVE  /\ AllOwned({}) /\ Old(p, Removing(p)) = man[Removing(p)]
               /\ Readable(Removing(p)) /\ todo[p] \subseteq Own(man[Removing(p)])
               /\ \A q \in Own(man[Removing(p)]) \ todo[p] : ~Stray(q)
               /\ \A q \in todo[p] : Stray(q) => disk[q] = man[Removing(p)][q]
               /\ (pc[p] = "forget" => todo[p] = {})
               /\ Removing(p) \in Key
    <3>1. Removing(p) \in going[p]
      BY <2>1, <2>9 DEF Handles, Leaving
    <3> QED
      BY <1>0, <2>1, <2>2, <2>9, <3>1 DEF LayAt, OwnAt, Goes, Applying
  <2>10. CASE RemoveUnlink(p)
    <3> DEFINE R == Removing(p)
    <3>1. PICK q \in todo[p] :
            /\ disk' = IF disk[q] = Old(p, R)[q] THEN [disk EXCEPT ![q] = NoEntry] ELSE disk
            /\ todo' = [todo EXCEPT ![p] = @ \ {q}]
      BY <2>10 DEF RemoveUnlink, Drop
    <3>2. pc[p] = "remove" /\ UNCHANGED <<pc, man, preserved, was>>
      BY <2>10 DEF RemoveUnlink, db
    <3>3. R' = R
      BY <3>2, RemovingKeeps
    <3>4. /\ AllOwned({}) /\ Old(p, R) = man[R] /\ todo[p] \subseteq Own(man[R])
          /\ \A r \in Own(man[R]) \ todo[p] : ~Stray(r)
          /\ \A r \in todo[p] : Stray(r) => disk[r] = man[R][r]
      BY <2>9, <3>2
    <3> HIDE DEF R
    <3>5. ~Stray(q)' /\ \A r \in Path : (Stray(r)' => Stray(r) /\ disk'[r] = disk[r])
      <4>1. \A r \in Path \ {q} : disk'[r] = disk[r]
        BY <1>0, <3>1 DEF Manifest
      <4>2. ~Stray(q)'
        BY <1>0, <3>1, <3>4 DEF Stray, Manifest
      <4> QED
        BY <4>1, <4>2 DEF Stray
    <3>6. AllOwned({})'
      BY <3>2, <3>4, <3>5 DEF AllOwned, Owned, Readable, Own
    <3>7. /\ \A r \in Own(man[R])' \ todo'[p] : ~Stray(r)'
          /\ \A r \in todo'[p] : Stray(r)' => disk'[r] = man'[R'][r]
      BY <1>0, <3>1, <3>2, <3>3, <3>4, <3>5, OwnType DEF Own
    <3> QED
      BY <3>2, <3>6, <3>7 DEF OwnAt, Works, Goes, Applying, Sweeping, R
  <2>11. CASE ForgetProvides(p)
    <3> DEFINE R == Removing(p)
    <3>1. /\ pc[p] = "remove" /\ pc'[p] = "forget" /\ UNCHANGED <<disk, man, preserved, was, todo>>
          /\ todo[p] = {}
      BY <1>0, <2>11 DEF ForgetProvides, Goto, locals
    <3>2. R' = R
      BY <3>1, RemovingKeeps
    <3>3. AllOwned({}) /\ \A r \in Own(man[R]) \ todo[p] : ~Stray(r)
      BY <2>9, <3>1
    <3> HIDE DEF R
    <3>4. AllOwned({})'
      BY <3>1, <3>3 DEF AllOwned, Stray, Owned, Readable, Own
    <3>5. \A r \in Own(man[R])' : ~Stray(r)'
      BY <3>1, <3>2, <3>3 DEF Own, Stray
    <3> QED
      BY <3>1, <3>4, <3>5 DEF OwnAt, Works, Goes, Applying, Sweeping, R
  <2>12. CASE ForgetFiles(p)
    <3> DEFINE R == Removing(p)
    <3>1. /\ pc[p] = "forget" /\ pc'[p] = "rmdir" /\ man' = [man EXCEPT ![R] = NoRecord]
          /\ UNCHANGED <<disk, preserved>>
      BY <1>0, <2>12 DEF ForgetFiles, Goto
    <3>2. AllOwned({}) /\ (\A r \in Own(man[R]) : ~Stray(r)) /\ R \in Key
      BY <2>9, <3>1
    <3> HIDE DEF R
    <3>3. ASSUME NEW q \in Path, Stray(q) PROVE Owned(q)'
      <4>1. PICK k \in Key : (Readable(k) /\ q \in Own(man[k])) \/ q \in Own(preserved[k])
        BY <3>2, <3>3 DEF AllOwned, Owned
      <4>2. k # R \/ q \in Own(preserved[k])
        BY <3>2, <3>3, <4>1
      <4> QED
        BY <1>0, <3>1, <4>1, <4>2 DEF Owned, Readable, Own
    <3>4. AllOwned({})'
      BY <3>1, <3>3 DEF AllOwned, Stray
    <3> QED
      BY <3>1, <3>4 DEF OwnAt, Works, Goes, Applying, Sweeping
  <2>13. CASE ForgetDir(p)
    <3>1. pc[p] = "rmdir" /\ pc'[p] \in {"pick", "done"} /\ UNCHANGED <<disk, man, preserved>>
      BY <1>0, <2>13 DEF ForgetDir, Goto
    <3> QED
      BY <2>2, <2>3, <3>1 DEF Applying
  <2> QED
    BY <1>2, <2>4, <2>5, <2>6, <2>7, <2>8, <2>10, <2>11, <2>12, <2>13 DEF Remove, Gc
<1> QED
  BY <1>1, <1>2

LEMMA OwnAlways == ASSUME Unforced PROVE Spec => []OwnInv
<1>1. Init => OwnInv
  BY ConstantsAssumption DEF Init, OwnInv, AllOwned, Stray, Nothing, Past
<1>2. Ground /\ LockInv' /\ NoForce /\ LayInv /\ OwnInv /\ [Next]_vars => OwnInv'
  BY InsideOrOut, OwnOutside, OwnInstall, OwnRemove DEF Ground
<1>3. Ground => LockInv
  BY DEF Ground
<1>4. Spec => [](NoForce /\ LayInv)
  BY LayAlways
<1> QED
  BY GroundAlways, <1>1, <1>2, <1>3, <1>4, PTL DEF Spec

\* With nothing forced and nothing killed, gc and removals included, no file a package
\* shipped is left that nobody answers for: a record claims it or a preserved one keeps it
\* back, which is what no check of the code can see (install.rs preserve, prune and remove;
\* main.rs gc_cmd).
THEOREM FilesAreClaimed ==
  ASSUME Unforced PROVE Spec => [](kills = 0 => Accounted)
<1>1. LockInv /\ OwnInv => (kills = 0 => Accounted)
  <2> SUFFICES ASSUME LockInv, OwnInv, kills = 0, Quiet PROVE Accounted
    BY DEF Accounted
  <2>1. \A p \in Proc : ~Past(p)
    BY ConstantsAssumption DEF LockInv, Quiet
  <2> QED
    BY <2>1 DEF OwnInv, AllOwned, Stray, Owned, Accounted
<1>2. Ground => LockInv
  BY DEF Ground
<1>3. Spec => []OwnInv
  BY OwnAlways
<1> QED
  BY GroundAlways, <1>1, <1>2, <1>3, PTL

----------------------------------------------------------------------------
(* What a record says it provides is what a scan of it finds, --force included.
   While an apply runs that holds of the records outside the batch, and of the
   jobs whose provides is written, at the paths no other job ships; dispossess
   takes the others out of the manifest first and then out of the provides. Of
   tangled paths, which a gc may empty, nothing is said but that a provides
   names what the manifest does (Lean). *)

Tells(m, d, q) == q \in Path /\ m[q] # NoEntry /\ IsFile(m[q]) /\ IsFile(d[q]) /\ Info[d[q]].soname # NoEntry
Says(x, m, d, q) ==
  \A s \in Soname : (<<s, q>> \in x) <=> (Tells(m, d, q) /\ s = Info[d[q]].soname)
Told(k, q) == q \in tangled \/ Says(prov[k], man[k], disk, q)
\* the provides names no file the manifest does not
Lean(k) == \A q \in Path : (\E s \in Soname : <<s, q>> \in prov[k]) => q \in Own(man[k])
AllTold(S) == \A k \in dirs \ S : Readable(k) => Lean(k) /\ \A q \in Path : Told(k, q)

Provided(p, i) ==
  \/ pc[p] \in {"job", "extract", "manifest", "provides"} /\ i < at[p]
  \/ pc[p] \in Later
Settled(p, k) == \A i \in 1..Len(batch[p]) : KeyOf(batch[p][i]) = k => Provided(p, i)
Rival(p, k, q) ==
  \E i \in 1..Len(batch[p]) : KeyOf(batch[p][i]) # k /\ q \in Own(batch[p][i].ships)

\* the records, as far as the apply is done with them
Fresh(p) ==
  \A k \in dirs : Readable(k) /\ Settled(p, k) =>
    /\ (pc[p] = "disown" /\ k \in going[p]) \/ Lean(k)
    /\ \A q \in Own(man[k]) : Rival(p, k, q) \/ Told(k, q)
    /\ k \notin Keys(batch[p]) => Own(man[k]) \subseteq Own(Old(p, k))
\* the jobs
Shipped(p) ==
  \A i \in 1..Len(batch[p]) :
    LET j == batch[p][i] IN
    /\ Provided(p, i) /\ Readable(KeyOf(j)) => Own(man[KeyOf(j)]) \subseteq Own(j.ships)
    /\ Laid(p, i) => Own(j.ships) \subseteq kept[p]
    /\ pc[p] \in {"prune", "unlink", "enqueue"} => Sole(p, i)
Parted(p) == \A k, l \in Key : k # l => Own(Old(p, k)) \cap Own(Old(p, l)) = {}
Placed(p) ==
  /\ pc[p] = "provides" => man[KeyOf(Job(p))] = Job(p).ships
  /\ pc[p] = "unlink" => todo[p] \cap kept[p] = {}

FreshAt(p) ==
  /\ Works(p) => Fresh(p) /\ Shipped(p) /\ Parted(p) /\ Placed(p)
  /\ Goes(p) => /\ AllTold({Removing(p)}) /\ Readable(Removing(p))
                /\ todo[p] \subseteq Own(man[Removing(p)])
  /\ ~Works(p) /\ ~Goes(p) => AllTold({})
FreshInv ==
  kills = 0 => /\ (\A p \in Proc : ~Past(p)) => AllTold({})
               /\ \A p \in Proc : Past(p) => FreshAt(p)

LEMMA FreshInside ==
  ASSUME LockInv, NEW p \in Proc, Past(p), Others(p), kills' = 0 => FreshAt(p)'
  PROVE  FreshInv'
<1>1. \A q \in Proc \ {p} : ~Past(q)'
  BY AloneStep DEF Past
<1>2. kills' = 0 /\ ~Past(p)' => AllTold({})'
  BY DEF FreshAt, Past, Works, Goes, Applying
<1> QED
  BY <1>1, <1>2 DEF FreshInv

\* a file that is no library, before and after, is told of the same way
LEMMA ToldKeeps ==
  ASSUME NEW k, NEW q, prov'[k] = prov[k], man'[k][q] = man[k][q], tangled \subseteq tangled',
         \/ disk'[q] = disk[q]
         \/ Info[disk[q]].soname = NoEntry /\ Info[disk'[q]].soname = NoEntry
  PROVE  Told(k, q) => Told(k, q)'
BY DEF Told, Says, Tells, IsFile

\* at a path the record does not claim, the provides says nothing
LEMMA LeanTold ==
  ASSUME NEW k, man[k] \in Manifest, Lean(k), NEW q \in Path, q \notin Own(man[k])
  PROVE  Told(k, q)
BY DEF Told, Says, Tells, Lean, Own

LEMMA FreshOutside ==
  ASSUME ConfigsPlain, TypeInv, LockInv, LockInv', EditInv, FreshInv, Outside PROVE FreshInv'
<1>0. UNCHANGED <<db, tangled>> /\ (kills' = 0 => kills = 0) /\ disk \in Manifest /\ EtcPath \subseteq Path
  BY OutsideKeeps, ConstantsAssumption DEF TypeInv, TypeOK
<1> SUFFICES ASSUME kills' = 0, kills = 0 PROVE FreshInv'
  BY <1>0 DEF FreshInv
<1>1. CASE Edit
  <2>1. PICK q \in EtcPath, c \in Edits : /\ IsFile(disk[q])
                                          /\ disk' = [disk EXCEPT ![q] = c]
    BY <1>1 DEF Edit
  <2>2. lock = NoProc /\ UNCHANGED <<db, pc>>
    BY <1>1 DEF Edit
  <2>3. \A p \in Proc : ~Past(p) /\ ~Past(p)'
    BY <2>2, ConstantsAssumption DEF LockInv, Past
  <2>4. Info[disk[q]].soname = NoEntry /\ Info[c].soname = NoEntry
    BY <2>1 DEF EditInv, PlainDb, Calm, ConfigsPlain, IsFile
  <2>5. \A r \in Path : \/ disk'[r] = disk[r]
                        \/ Info[disk[r]].soname = NoEntry /\ Info[disk'[r]].soname = NoEntry
    BY <1>0, <2>1, <2>4 DEF Manifest
  <2>6. AllTold({})
    BY <2>3 DEF FreshInv
  <2>7. \A k : /\ \A r \in Path : Told(k, r) => Told(k, r)'
               /\ Lean(k)' <=> Lean(k)
    BY <1>0, <2>5, ToldKeeps DEF db, Lean, Own
  <2>8. AllTold({})'
    BY <1>0, <2>6, <2>7 DEF AllTold, Readable, db
  <2> QED
    BY <2>3, <2>8 DEF FreshInv
<1>2. CASE ~Edit
  <2>1. UNCHANGED disk
    BY <1>2 DEF Outside, vars, BeginInstall, BeginRemove, BeginGc, Begin, Lock, Kill
  <2>2. /\ \A k, q : Told(k, q)' <=> Told(k, q)
        /\ \A k : (Lean(k)' <=> Lean(k)) /\ (Readable(k)' <=> Readable(k))
        /\ UNCHANGED <<dirs, man>>
    BY <1>0, <2>1 DEF Told, Says, Tells, Lean, Own, Readable, db
  <2>3. \A S : AllTold(S) => AllTold(S)'
    BY <2>2 DEF AllTold
  <2>4. ASSUME NEW p \in Proc, Past(p) PROVE FreshAt(p)'
    <3>1. /\ pc'[p] = pc[p] /\ batch'[p] = batch[p] /\ at'[p] = at[p] /\ was'[p] = was[p]
          /\ todo'[p] = todo[p] /\ kept'[p] = kept[p] /\ going'[p] = going[p]
      BY <2>4, OutsideKeeps DEF Past
    <3>2. /\ Removing(p)' = Removing(p) /\ Job(p)' = Job(p)
          /\ \A k : Old(p, k)' = Old(p, k)
      BY <3>1, RemovingKeeps, Zenon DEF Job
    <3>3. FreshAt(p)
      BY <2>4 DEF FreshInv
    <3>4. Fresh(p) => Fresh(p)'
      <4>1. \A k : Settled(p, k)' <=> Settled(p, k)
        BY <3>1 DEF Settled, Provided, KeyOf
      <4>2. \A k, q : Rival(p, k, q)' <=> Rival(p, k, q)
        BY <3>1 DEF Rival, KeyOf, Own
      <4> QED
        BY <2>2, <3>1, <3>2, <4>1, <4>2 DEF Fresh, Own, Keys, KeyOf
    <3>5. Shipped(p) => Shipped(p)'
      BY <2>2, <3>1 DEF Shipped, Provided, Laid, Sole, Own, KeyOf
    <3>6. Parted(p) => Parted(p)'
      BY <3>2 DEF Parted, Own
    <3>7. Placed(p) => Placed(p)'
      BY <2>2, <3>1, <3>2 DEF Placed, KeyOf
    <3>8. (Goes(p)' <=> Goes(p)) /\ (Works(p)' <=> Works(p))
      BY <3>1 DEF Goes, Works
    <3>9. Own(man[Removing(p)])' = Own(man[Removing(p)]) /\ (Readable(Removing(p))' <=> Readable(Removing(p)))
      BY <2>2, <3>2 DEF Own, Readable
    <3>10. AllTold({Removing(p)}) => AllTold({Removing(p)})'
      BY <2>3, <3>2 DEF AllTold
    <3> QED
      BY <2>3, <3>1, <3>3, <3>4, <3>5, <3>6, <3>7, <3>8, <3>9, <3>10 DEF FreshAt
  <2>5. ASSUME NEW p \in Proc, ~Past(p), Past(p)' PROVE FreshAt(p)'
    <3>1. pc'[p] \in {"plan", "check", "gc"}
      BY <2>5, OutsideKeeps DEF Past
    <3>2. Lock(p)
      <4>1. PICK r \in Proc : BeginInstall(r) \/ BeginRemove(r) \/ BeginGc(r) \/ Lock(r) \/ Kill(r)
        BY <2>5, <1>2 DEF Past, Outside, vars
      <4>2. pc' = [pc EXCEPT ![r] = "lock"] \/ pc' = [pc EXCEPT ![r] = "idle"] \/ Lock(r)
        BY <4>1 DEF BeginInstall, BeginRemove, BeginGc, Begin, Kill, Exit, Goto
      <4>3. Lock(r) => \E l : pc' = [pc EXCEPT ![r] = l]
        BY DEF Lock, Goto
      <4> QED
        BY <2>5, <4>2, <4>3 DEF Past, TypeInv, TypeOK
    <3>3. \A r \in Proc : ~Past(r)
      BY <3>2, ConstantsAssumption DEF Lock, LockInv
    <3> QED
      BY <2>3, <3>1, <3>3 DEF FreshInv, FreshAt, Works, Goes, Applying
  <2>6. (\A p \in Proc : ~Past(p)') => \A p \in Proc : ~Past(p)
    BY OutsideKeeps DEF Past
  <2> QED
    BY <2>3, <2>4, <2>5, <2>6 DEF FreshInv
<1> QED
  BY <1>1, <1>2

LEMMA ProvidesTold ==
  ASSUME NEW m \in Manifest, NEW d \in Manifest, NEW q \in Path
  PROVE  Says(Provides(m, d), m, d, q)
<1> SUFFICES ASSUME NEW s \in Soname
             PROVE  <<s, q>> \in Provides(m, d) <=> (Tells(m, d, q) /\ s = Info[d[q]].soname)
  BY DEF Says
<1>1. \A r : r \in Libraries(m, d) <=> Tells(m, d, r)
  BY DEF Libraries, Seen, Own, Tells
<1>2. \A x : x \in Provides(m, d) <=> \E r \in Libraries(m, d) : x = <<Info[d[r]].soname, r>>
  BY DEF Provides
<1> QED
  BY <1>1, <1>2

\* what p is on when it is at a job
LEMMA OnJob ==
  ASSUME TypeInv, NEW p \in Proc, pc[p] \in Applying
  PROVE  /\ batch[p] \in Batches /\ at[p] \in 1..Len(batch[p]) /\ Job(p) = batch[p][at[p]]
         /\ Len(batch[p]) \in Nat /\ KeyOf(Job(p)) \in Key /\ Job(p).ships \in Manifest
         /\ \A i \in 1..Len(batch[p]) :
              /\ KeyOf(batch[p][i]) \in Key
              /\ i # at[p] => KeyOf(batch[p][i]) # KeyOf(Job(p))
<1>1. batch[p] \in Batches /\ at[p] \in 1..Len(batch[p]) /\ Job(p) = batch[p][at[p]]
  BY DEF TypeInv, TypeOK, Job
<1>2. batch[p] \in Seq(Archive)
  BY <1>1, ConstantsAssumption
<1>3. \A i \in 1..Len(batch[p]) : batch[p][i].ships \in Manifest /\ KeyOf(batch[p][i]) \in Key
  BY <1>1, BatchJob
<1> QED
  BY <1>1, <1>2, <1>3, BatchAssumption

\* a step of an apply that writes no record and no file
LEMMA FreshKeeps ==
  ASSUME NEW p \in Proc, Fresh(p), Shipped(p), Parted(p), UNCHANGED <<disk, dirs, man, prov>>,
         tangled \subseteq tangled', pc[p] # "disown", was'[p] = was[p], batch'[p] = batch[p], kept[p] \subseteq kept'[p],
         \A i \in 1..Len(batch[p]) :
           /\ Provided(p, i)' => Provided(p, i)
           /\ Laid(p, i)' => Laid(p, i)
           /\ pc'[p] \in {"prune", "unlink", "enqueue"} => Sole(p, i)
  PROVE  Fresh(p)' /\ Shipped(p)' /\ Parted(p)'
<1>1. \A k : Settled(p, k)' => Settled(p, k)
  BY DEF Settled, KeyOf
<1>2. \A k, q : (Told(k, q) => Told(k, q)') /\ (Rival(p, k, q)' <=> Rival(p, k, q))
  BY DEF Told, Says, Tells, Rival, KeyOf, Own
<1>3. \A k : (Lean(k)' <=> Lean(k)) /\ (Readable(k)' <=> Readable(k)) /\ Old(p, k)' = Old(p, k)
  BY DEF Lean, Readable, Own, Old
<1>4. Fresh(p)'
  BY <1>1, <1>2, <1>3 DEF Fresh, Own, Keys, KeyOf
<1>5. \A i \in 1..Len(batch[p]) : Sole(p, i) => Sole(p, i)'
  BY DEF Sole, Readable, Own, KeyOf
<1>6. Shipped(p)'
  BY <1>3, <1>5 DEF Shipped, Own, KeyOf
<1>7. Parted(p)'
  BY <1>3 DEF Parted, Own
<1> QED
  BY <1>4, <1>6, <1>7

LEMMA FreshInstall ==
  ASSUME TypeInv, LockInv, ExclInv, WholeInv, SparedInv, FreshInv, NEW p \in Proc, Past(p), Install(p)
  PROVE  FreshInv'
<1> DEFINE b == batch[p]
           I == 1..Len(b)
           J == KeyOf(Job(p))
<1>0. /\ pc = [q \in Proc |-> pc[q]] /\ todo = [q \in Proc |-> todo[q]] /\ disk \in Manifest
      /\ dirs \subseteq Key /\ at = [q \in Proc |-> at[q]] /\ at[p] \in Nat
      /\ kept = [q \in Proc |-> kept[q]] /\ going = [q \in Proc |-> going[q]]
      /\ was = [q \in Proc |-> was[q]] /\ prov \in [Key -> SUBSET (Soname \X Path)]
      /\ man \in [Key -> Manifest \cup {NoRecord}] /\ NoRecord \notin Manifest /\ Others(p)
  BY StepOthers, ConstantsAssumption DEF TypeInv, TypeOK, LocalsOK, Step
<1>00. UNCHANGED kills /\ tangled \subseteq tangled'
  BY DEF Install, PlanRefuses, ApplyStart, JobStart, Extract, PutHead, PutManifest,
     PutProvides, Preserve, Dispossess, Disown, DispossessDone, PruneStart, PruneUnlink, PruneDone,
     Enqueue, counts
<1> SUFFICES ASSUME kills = 0 PROVE FreshAt(p)'
  BY <1>0, <1>00, FreshInside
<1>1. FreshAt(p) /\ Ranged(p)
  BY DEF FreshInv, SparedInv, Sparing
<1>2. ASSUME Works(p) PROVE Fresh(p) /\ Shipped(p) /\ Parted(p) /\ Placed(p)
  BY <1>1, <1>2 DEF FreshAt
<1>3. ASSUME Works(p)', Fresh(p)', Shipped(p)', Parted(p)', Placed(p)' PROVE FreshAt(p)'
  BY <1>3 DEF FreshAt, Works, Goes, Applying
<1>4. ASSUME UNCHANGED <<disk, dirs, man, prov>>, AllTold({}), pc'[p] \in {"idle", "done"}
      PROVE  FreshAt(p)'
  BY <1>00, <1>4 DEF FreshAt, Works, Goes, Applying, AllTold, Told, Says, Tells, Lean, Own, Readable
<1>5. \A k \in dirs : Readable(k) => k \in Key /\ man[k] \in Manifest
  BY <1>0 DEF Readable
<1>6. CASE PlanRefuses(p)
  <2>1. pc[p] = "plan" /\ pc'[p] = "idle" /\ UNCHANGED <<disk, dirs, man, prov>>
    BY <1>0, <1>6 DEF PlanRefuses, Exit, Goto, db
  <2> QED
    BY <1>1, <1>4, <2>1 DEF FreshAt, Works, Goes, Applying
<1>7. CASE ApplyStart(p)
  <2>1. /\ pc[p] = "plan" /\ pc'[p] = "job" /\ was'[p] = man /\ at'[p] = at[p]
        /\ UNCHANGED <<disk, dirs, man, prov, batch, kept>>
    BY <1>0, <1>7 DEF ApplyStart, Goto, Set, db
  <2>2. at[p] = 1 /\ b \in Batches
    BY <2>1 DEF TypeInv
  <2>3. AllTold({}) /\ Disjoint(dirs)
    <3>1. \A r \in Proc : pc[r] \notin Middle
      BY <1>0, <2>1, AloneStep DEF Middle, Past
    <3> QED
      BY <1>1, <2>1, <3>1 DEF FreshAt, Works, Goes, Applying, ExclInv
  <2>4. \A k \in Key : Readable(k) => Old(p, k)' = man[k] /\ k \in dirs
    BY <2>1 DEF Old, Readable, WholeInv, Listed
  <2>5. \A k \in Key : ~Readable(k) => Own(Old(p, k)') = {}
    BY <2>1 DEF Old, Readable, Own, Nothing
  <2>6. ASSUME NEW k \in dirs, Readable(k)
        PROVE  /\ Lean(k)' /\ \A q \in Own(man[k]) : Told(k, q)'
               /\ Own(man[k]) \subseteq Own(Old(p, k)')
    <3>1. k \in Key /\ man[k] \in Manifest /\ Lean(k) /\ \A q \in Path : Told(k, q)
      BY <1>5, <2>3, <2>6 DEF AllTold
    <3> QED
      BY <1>00, <2>1, <2>4, <2>6, <3>1, OwnType DEF Lean, Told, Says, Tells, Own
  <2>7. Fresh(p)'
    BY <2>1, <2>6 DEF Fresh, Own, Readable
  <2>8. Shipped(p)'
    <3>1. \A i : ~Provided(p, i)' \/ i < 1
      BY <2>1, <2>2 DEF Provided, Later
    <3>2. \A i : ~Laid(p, i)' \/ i < 1
      BY <2>1, <2>2 DEF Laid, Later
    <3>3. Len(b) \in Nat
      BY <2>2, ConstantsAssumption
    <3> QED
      BY <2>1, <3>1, <3>2, <3>3 DEF Shipped
  <2>9. Parted(p)'
    <3> SUFFICES ASSUME NEW k \in Key, NEW l \in Key, k # l
                 PROVE  Own(Old(p, k)') \cap Own(Old(p, l)') = {}
      BY DEF Parted, Own
    <3>1. CASE Readable(k) /\ Readable(l)
      BY <2>3, <2>4, <3>1 DEF Disjoint
    <3> QED
      BY <2>5, <3>1
  <2> QED
    BY <1>3, <2>1, <2>7, <2>8, <2>9 DEF Works, Applying, Placed
<1>8. CASE JobStart(p)
  <2>1. /\ pc[p] = "job" /\ pc'[p] = "extract"
        /\ UNCHANGED <<disk, dirs, man, prov, batch, at, was, kept>>
    BY <1>0, <1>8 DEF JobStart, Goto, db
  <2>2. \A i \in I : (Provided(p, i)' => Provided(p, i)) /\ (Laid(p, i)' => Laid(p, i))
    BY <2>1 DEF Provided, Laid, Later
  <2>3. Works(p) /\ Works(p)' /\ Placed(p)'
    BY <2>1 DEF Works, Applying, Placed
  <2> QED
    BY <1>2, <1>3, <2>1, <2>2, <2>3, <1>00, FreshKeeps
<1>9. CASE Extract(p)
  <2>1. PICK q \in todo[p] :
          disk' = IF q \in skip[p] THEN disk ELSE [disk EXCEPT ![q] = Job(p).ships[q]]
    BY <1>9 DEF Extract
  <2>2. pc[p] = "extract" /\ UNCHANGED <<pc, dirs, man, prov, batch, at, was, kept, going>>
    BY <1>9 DEF Extract, db
  <2>3. /\ Works(p) /\ Works(p)' /\ Fresh(p) /\ Shipped(p) /\ Parted(p) /\ Placed(p)'
        /\ at[p] \in I /\ Job(p) = b[at[p]] /\ q \in Own(b[at[p]].ships)
    <3>1. pc[p] \in Applying /\ Works(p) /\ Works(p)' /\ Placed(p)'
      BY <2>2 DEF Works, Applying, Placed
    <3>2. at[p] \in I /\ Job(p) = b[at[p]]
      BY <3>1, OnJob
    <3> QED
      BY <1>1, <1>2, <2>1, <2>2, <3>1, <3>2 DEF Ranged
  <2>4. /\ \A k : (Settled(p, k)' <=> Settled(p, k)) /\ (Lean(k)' <=> Lean(k))
        /\ \A k : (Readable(k)' <=> Readable(k)) /\ Old(p, k)' = Old(p, k)
        /\ \A k, r : Rival(p, k, r)' <=> Rival(p, k, r)
    BY <2>2 DEF Settled, Provided, KeyOf, Lean, Own, Readable, Old, Rival
  <2>5. \A r \in Path \ {q} : disk'[r] = disk[r]
    BY <1>0, <2>1 DEF Manifest
  <2>6. ASSUME NEW k \in dirs, Readable(k), Settled(p, k), NEW r \in Own(man[k])
        PROVE  Rival(p, k, r) \/ Told(k, r)'
    <3>1. CASE r = q
      <4>1. KeyOf(b[at[p]]) # k
        BY <1>0, <2>2, <2>3, <2>6 DEF Settled, Provided, Later
      <4> QED
        BY <2>3, <3>1, <4>1 DEF Rival
    <3>2. CASE r # q
      <4>1. disk'[r] = disk[r]
        BY <2>5, <2>6, <3>2, OwnType
      <4> QED
        BY <1>00, <2>2, <2>3, <2>6, <4>1, ToldKeeps DEF Fresh
    <3> QED
      BY <3>1, <3>2
  <2>7. Fresh(p)'
    BY <2>2, <2>3, <2>4, <2>6 DEF Fresh, Own, Keys, KeyOf
  <2>8. Shipped(p)'
    BY <2>2, <2>3, <2>4 DEF Shipped, Provided, Laid, Sole, Own, KeyOf, Readable
  <2>9. Parted(p)'
    BY <2>3, <2>4 DEF Parted, Own
  <2> QED
    BY <1>3, <2>3, <2>7, <2>8, <2>9
<1>10. CASE PutHead(p)
  <2>1. /\ pc[p] = "extract" /\ pc'[p] = "manifest" /\ dirs' = dirs \cup {J}
        /\ kept'[p] = kept[p] \cup Own(Job(p).ships)
        /\ UNCHANGED <<disk, man, prov, batch, at, was>>
    BY <1>0, <1>10 DEF PutHead, Goto
  <2>2. /\ Works(p) /\ Works(p)' /\ Fresh(p) /\ Shipped(p) /\ Parted(p) /\ Placed(p)'
        /\ at[p] \in I /\ Job(p) = b[at[p]]
    <3>1. pc[p] \in Applying /\ Works(p) /\ Works(p)' /\ Placed(p)'
      BY <2>1 DEF Works, Applying, Placed
    <3> QED
      BY <1>2, <3>1, OnJob
  <2>3. /\ \A k : (Settled(p, k)' => Settled(p, k) /\ k # J)
        /\ \A k : (Lean(k)' <=> Lean(k)) /\ (Readable(k)' <=> Readable(k)) /\ Old(p, k)' = Old(p, k)
        /\ \A k, q : (Rival(p, k, q)' <=> Rival(p, k, q)) /\ (Told(k, q) => Told(k, q)')
    <3>1. \A i \in I : (Provided(p, i)' => Provided(p, i)) /\ ~Provided(p, at[p])'
      BY <1>0, <2>1 DEF Provided, Later
    <3>2. \A k : (Settled(p, k)' => Settled(p, k) /\ k # J)
      BY <2>1, <2>2, <3>1 DEF Settled, KeyOf
    <3> QED
      BY <1>00, <2>1, <3>2 DEF Lean, Readable, Old, Rival, KeyOf, Own, Told, Says, Tells
  <2>4. Fresh(p)'
    BY <2>1, <2>2, <2>3 DEF Fresh, Own, Keys, KeyOf
  <2>5. \A i \in I : /\ Provided(p, i)' => Provided(p, i)
                     /\ Laid(p, i)' => Laid(p, i) \/ i = at[p]
    BY <1>0, <2>1, <2>2 DEF Provided, Laid, Later
  <2>6. Shipped(p)'
    BY <2>1, <2>2, <2>3, <2>5 DEF Shipped, Own, KeyOf
  <2>7. Parted(p)'
    BY <2>2, <2>3 DEF Parted, Own
  <2> QED
    BY <1>3, <2>2, <2>4, <2>6, <2>7
<1>11. CASE PutManifest(p)
  <2>1. /\ pc[p] = "manifest" /\ pc'[p] = "provides" /\ man' = [man EXCEPT ![J] = Job(p).ships]
        /\ UNCHANGED <<disk, dirs, prov, batch, at, was, kept>>
    BY <1>0, <1>11 DEF PutManifest, Goto, locals
  <2>2. /\ Works(p) /\ Works(p)' /\ Fresh(p) /\ Shipped(p) /\ Parted(p)
        /\ at[p] \in I /\ Job(p) = b[at[p]] /\ J \in Key
        /\ \A i \in I : KeyOf(b[i]) \in Key /\ (i # at[p] => KeyOf(b[i]) # J)
    <3>1. pc[p] \in Applying /\ Works(p) /\ Works(p)'
      BY <2>1 DEF Works, Applying
    <3> QED
      BY <1>2, <3>1, OnJob
  <2>3. Job(p)' = Job(p) /\ \A k : Old(p, k)' = Old(p, k)
    BY <2>1, Zenon DEF Job, Old
  <2>4. \A k \in Key \ {J} : man'[k] = man[k] /\ (Readable(k)' <=> Readable(k))
    BY <1>0, <2>1 DEF Readable
  <2>5. \A i \in I : /\ Provided(p, i)' => Provided(p, i) /\ i # at[p]
                     /\ Laid(p, i)' => Laid(p, i)
    BY <1>0, <2>1 DEF Provided, Laid, Later
  <2>6. ASSUME NEW k \in dirs, Readable(k)', Settled(p, k)'
        PROVE  /\ Lean(k)' /\ \A q \in Own(man'[k]) : Rival(p, k, q)' \/ Told(k, q)'
               /\ k \notin Keys(b) => Own(man'[k]) \subseteq Own(Old(p, k))
    <3>1. k # J
      BY <2>1, <2>2, <2>5, <2>6 DEF Settled, KeyOf
    <3>2. Settled(p, k)
      BY <2>1, <2>5, <2>6 DEF Settled, KeyOf
    <3>3. k \in Key /\ man'[k] = man[k] /\ Readable(k)
      BY <1>0, <2>4, <2>6, <3>1
    <3>4. /\ Lean(k) /\ \A q \in Own(man[k]) : Rival(p, k, q) \/ Told(k, q)
          /\ k \notin Keys(b) => Own(man[k]) \subseteq Own(Old(p, k))
      BY <2>1, <2>2, <3>2, <3>3 DEF Fresh
    <3> QED
      BY <1>00, <2>1, <3>3, <3>4 DEF Lean, Own, Rival, KeyOf, Told, Says, Tells
  <2>7. Fresh(p)'
    BY <2>1, <2>3, <2>6 DEF Fresh, Own, Keys, KeyOf
  <2>8. Shipped(p)'
    BY <2>1, <2>2, <2>4, <2>5 DEF Shipped, Own, KeyOf
  <2>9. Parted(p)'
    BY <2>2, <2>3 DEF Parted, Own
  <2>10. Placed(p)'
    BY <1>0, <2>1, <2>2, <2>3 DEF Placed, KeyOf
  <2> QED
    BY <1>3, <2>2, <2>7, <2>8, <2>9, <2>10
<1>12. CASE PutProvides(p)
  <2>1. /\ pc[p] = "provides" /\ prov' = [prov EXCEPT ![J] = Provides(Job(p).ships, disk)]
        /\ Advance(p, "job", "preserve")
        /\ UNCHANGED <<disk, dirs, man, batch, was, kept>>
    BY <1>12 DEF PutProvides
  <2>2. /\ Works(p) /\ Fresh(p) /\ Shipped(p) /\ Parted(p) /\ man[J] = Job(p).ships
        /\ at[p] \in I /\ Job(p) = b[at[p]] /\ J \in Key /\ Len(b) \in Nat
        /\ Job(p).ships \in Manifest /\ \A i \in I : KeyOf(b[i]) \in Key
    <3>1. pc[p] \in Applying /\ Works(p)
      BY <2>1 DEF Works, Applying
    <3> QED
      BY <1>2, <2>1, <3>1, OnJob DEF Placed
  <2>3. \/ pc'[p] = "job" /\ at'[p] = at[p] + 1
        \/ pc'[p] = "preserve" /\ ~(at[p] < Len(b))
    BY <1>0, <2>1 DEF Advance, Goto
  <2>4. \A i \in I : /\ Provided(p, i)' => Provided(p, i) \/ i = at[p]
                     /\ Laid(p, i)' => Laid(p, i)
    BY <1>0, <2>1, <2>2, <2>3 DEF Provided, Laid, Later
  <2>5. /\ \A k, q : Rival(p, k, q)' <=> Rival(p, k, q)
        /\ \A k : (Readable(k)' <=> Readable(k)) /\ Old(p, k)' = Old(p, k)
    BY <2>1 DEF Rival, KeyOf, Own, Readable, Old
  <2>6. ASSUME NEW k \in dirs, Readable(k), Settled(p, k)'
        PROVE  /\ Lean(k)' /\ \A q \in Own(man[k]) : Rival(p, k, q) \/ Told(k, q)'
               /\ k \notin Keys(b) => Own(man[k]) \subseteq Own(Old(p, k))
    <3>1. CASE k = J
      <4>1. prov'[k] = Provides(man[k], disk) /\ man[k] \in Manifest
        BY <1>0, <2>1, <2>2, <3>1
      <4>2. \A q \in Path : Says(prov'[k], man[k], disk, q)
        BY <1>0, <4>1, ProvidesTold
      <4>3. Lean(k)' /\ \A q \in Path : Told(k, q)'
        BY <2>1, <4>2 DEF Lean, Told, Says, Tells, Own
      <4>4. k \in Keys(b)
        BY <2>2, <3>1 DEF Keys
      <4> QED
        BY <4>3, <4>4, OwnType
    <3>2. CASE k # J
      <4>1. Settled(p, k)
        BY <2>1, <2>2, <2>4, <2>6, <3>2 DEF Settled, KeyOf
      <4>2. prov'[k] = prov[k]
        BY <1>0, <2>1, <2>6, <3>2
      <4>3. /\ Lean(k) /\ \A q \in Own(man[k]) : Rival(p, k, q) \/ Told(k, q)
            /\ k \notin Keys(b) => Own(man[k]) \subseteq Own(Old(p, k))
        BY <2>1, <2>2, <2>6, <4>1 DEF Fresh
      <4> QED
        BY <1>00, <2>1, <4>2, <4>3 DEF Lean, Own, Told, Says, Tells
    <3> QED
      BY <3>1, <3>2
  <2>7. Fresh(p)'
    BY <2>1, <2>5, <2>6, SMTT(30) DEF Fresh, Own, Keys, KeyOf
  <2>8. Shipped(p)'
    <3>1. ASSUME NEW i \in I, Provided(p, i)', Readable(KeyOf(b[i]))
          PROVE  Own(man[KeyOf(b[i])]) \subseteq Own(b[i].ships)
      BY <2>2, <2>4, <3>1 DEF Shipped
    <3> QED
      BY <2>1, <2>2, <2>3, <2>4, <2>5, <3>1 DEF Shipped, Own, KeyOf
  <2>9. Parted(p)'
    BY <2>2, <2>5 DEF Parted, Own
  <2>10. Works(p)' /\ Placed(p)'
    BY <2>3 DEF Works, Applying, Placed
  <2> QED
    BY <1>3, <2>7, <2>8, <2>9, <2>10
<1>13. CASE Preserve(p)
  <2>1. /\ pc[p] = "preserve" /\ Advance(p, "preserve", "dispossess")
        /\ kept'[p] = kept[p] \cup Held(p) /\ UNCHANGED <<disk, dirs, man, prov, batch, was>>
    BY <1>0, <1>13 DEF Preserve
  <2>2. pc'[p] \in {"preserve", "dispossess"}
    BY <1>0, <2>1 DEF Advance, Goto
  <2>3. \A i \in I : Provided(p, i) /\ Laid(p, i)
    BY <2>1 DEF Provided, Laid, Later
  <2>4. Works(p) /\ Works(p)' /\ Placed(p)'
    BY <2>1, <2>2 DEF Works, Applying, Placed
  <2> QED
    BY <1>2, <1>3, <2>1, <2>2, <2>3, <2>4, <1>00, FreshKeeps
<1>14. CASE Dispossess(p)
  <2>1. PICK l \in Losers(p) :
          /\ man' = [man EXCEPT ![l] = Restricted(man[l], Own(man[l]) \ Own(Job(p).ships))]
          /\ going'[p] = {l}
    BY <1>0, <1>14 DEF Dispossess, Set
  <2>2. /\ pc[p] = "dispossess" /\ pc'[p] = "disown"
        /\ UNCHANGED <<disk, dirs, prov, batch, at, was, kept>>
    BY <1>0, <1>14 DEF Dispossess, Goto
  <2>3. /\ Works(p) /\ Works(p)' /\ Fresh(p) /\ Shipped(p) /\ Parted(p) /\ Placed(p)'
        /\ \A i \in I : KeyOf(b[i]) \in Key
    <3>1. pc[p] \in Applying /\ Works(p) /\ Works(p)' /\ Placed(p)'
      BY <2>2 DEF Works, Applying, Placed
    <3> QED
      BY <1>2, <3>1, OnJob
  <2>4. l \in dirs /\ l \in Key /\ Readable(l) /\ man[l] \in Manifest
    BY <1>0, <1>5 DEF Losers
  <2>5. \A k \in Key : Readable(k)' => /\ Readable(k) /\ Own(man'[k]) \subseteq Own(man[k])
                                       /\ \A q \in Own(man'[k]) : man'[k][q] = man[k][q]
    <3>1. Restricted(man[l], Own(man[l]) \ Own(Job(p).ships)) \in Manifest
      BY <2>4, RestrictedType
    <3>2. ASSUME NEW m \in Manifest, NEW S
          PROVE  /\ Own(Restricted(m, S)) \subseteq Own(m)
                 /\ \A q \in Own(Restricted(m, S)) : Restricted(m, S)[q] = m[q]
      BY DEF Restricted, Own
    <3> QED
      BY <1>0, <2>1, <2>4, <3>1, <3>2 DEF Readable
  <2>6. ASSUME NEW k \in dirs, Readable(k)', Settled(p, k)'
        PROVE  /\ k \in going'[p] \/ Lean(k)'
               /\ \A q \in Own(man'[k]) : Rival(p, k, q) \/ Told(k, q)'
               /\ k \notin Keys(b) => Own(man'[k]) \subseteq Own(Old(p, k))
    <3>1. Settled(p, k)
      BY <2>2 DEF Settled, Provided, Later
    <3>2. k \in Key /\ Readable(k)
      BY <1>0, <2>5, <2>6
    <3>3. /\ Lean(k) /\ \A q \in Own(man[k]) : Rival(p, k, q) \/ Told(k, q)
          /\ k \notin Keys(b) => Own(man[k]) \subseteq Own(Old(p, k))
      BY <2>2, <2>3, <2>6, <3>1, <3>2 DEF Fresh
    <3>4. k = l \/ man'[k] = man[k]
      BY <1>0, <2>1, <3>2
    <3>5. k # l => Lean(k)'
      BY <2>2, <3>3, <3>4 DEF Lean, Own
    <3>6. ASSUME NEW q \in Own(man'[k]) PROVE Rival(p, k, q) \/ Told(k, q)'
      <4>1. q \in Own(man[k]) /\ man'[k][q] = man[k][q]
        BY <2>5, <2>6, <3>2, <3>6
      <4> QED
        BY <1>00, <2>2, <3>3, <4>1, ToldKeeps
    <3> QED
      BY <2>1, <2>5, <2>6, <3>2, <3>3, <3>5, <3>6
  <2>7. /\ \A k, q : Rival(p, k, q)' <=> Rival(p, k, q)
        /\ \A k : Old(p, k)' = Old(p, k)
    BY <2>2 DEF Rival, KeyOf, Own, Old
  <2>8. Fresh(p)'
    BY <2>2, <2>6, <2>7 DEF Fresh, Own, Keys, KeyOf
  <2>9. Shipped(p)'
    <3>1. \A i \in I : Provided(p, i) /\ Laid(p, i)
      BY <2>2 DEF Provided, Laid, Later
    <3> QED
      BY <2>2, <2>3, <2>5, <3>1 DEF Shipped, Own, KeyOf
  <2>10. Parted(p)'
    BY <2>3, <2>7 DEF Parted, Own
  <2> QED
    BY <1>3, <2>3, <2>8, <2>9, <2>10
<1>15. CASE Disown(p)
  <2>1. /\ pc[p] = "disown" /\ pc'[p] = "dispossess"
        /\ prov' = [k \in Key |-> IF k \in going[p] THEN {x \in prov[k] : x[2] \in Own(man[k])} ELSE prov[k]]
        /\ UNCHANGED <<disk, dirs, man, batch, at, was, kept>>
    BY <1>0, <1>15 DEF Disown, Goto
  <2>2. /\ Works(p) /\ Works(p)' /\ Fresh(p) /\ Shipped(p) /\ Parted(p) /\ Placed(p)'
    BY <1>2, <2>1 DEF Works, Applying, Placed
  <2>3. \A k \in Key : \A s, q : <<s, q>> \in prov'[k] <=>
          (<<s, q>> \in prov[k] /\ (k \in going[p] => q \in Own(man[k])))
    BY <2>1
  <2>4. /\ \A k : Settled(p, k)' => Settled(p, k)
        /\ \A k, q : Rival(p, k, q)' <=> Rival(p, k, q)
        /\ \A k : (Readable(k)' <=> Readable(k)) /\ Old(p, k)' = Old(p, k)
    BY <2>1 DEF Settled, Provided, Later, Rival, KeyOf, Own, Readable, Old
  <2>5. ASSUME NEW k \in dirs, Readable(k), Settled(p, k)
        PROVE  Lean(k)' /\ \A q \in Own(man[k]) : Rival(p, k, q) \/ Told(k, q)'
    <3>1. /\ k \in going[p] \/ Lean(k)
          /\ \A q \in Own(man[k]) : Rival(p, k, q) \/ Told(k, q)
      BY <2>2, <2>5 DEF Fresh
    <3>2. Lean(k)'
      BY <1>0, <2>1, <2>3, <3>1 DEF Lean, Own
    <3>3. \A q \in Own(man[k]) : Told(k, q) => Told(k, q)'
      BY <1>0, <1>00, <2>1, <2>3 DEF Told, Says, Tells
    <3> QED
      BY <3>1, <3>2, <3>3
  <2>6. Fresh(p)'
    BY <2>1, <2>2, <2>4, <2>5 DEF Fresh, Own, Keys, KeyOf
  <2>7. Shipped(p)'
    BY <2>1, <2>2, <2>4 DEF Shipped, Provided, Laid, Later, Own, KeyOf
  <2>8. Parted(p)'
    BY <2>2, <2>4 DEF Parted, Own
  <2> QED
    BY <1>3, <2>2, <2>6, <2>7, <2>8
<1>16. CASE DispossessDone(p)
  <2>1. /\ pc[p] = "dispossess" /\ Losers(p) = {} /\ Advance(p, "dispossess", "prune")
        /\ UNCHANGED <<disk, dirs, man, prov, batch, was, kept>>
    BY <1>16 DEF DispossessDone, db
  <2>2. \/ pc'[p] = "dispossess"
        \/ pc'[p] = "prune" /\ ~(at[p] < Len(b))
    BY <1>0, <2>1 DEF Advance, Goto
  <2>3. /\ Works(p) /\ Works(p)' /\ Placed(p)' /\ pc[p] \in Middle /\ pc[p] \in Applying
    BY <2>1, <2>2 DEF Works, Applying, Placed, Middle
  <2>4. \A i \in I : Provided(p, i) /\ Laid(p, i)
    BY <2>1 DEF Provided, Laid, Later
  <2>5. ASSUME pc'[p] = "prune", NEW i \in I PROVE Sole(p, i)
    <3>1. at[p] \in I /\ Job(p) = b[at[p]] /\ Len(b) \in Nat
      BY <2>3, OnJob
    <3>2. CASE i < at[p]
      BY <2>1, <2>3, <3>2 DEF ExclInv, Settling
    <3>3. CASE i = at[p]
      BY <2>1, <3>1, <3>3 DEF Losers, Sole
    <3> QED
      BY <2>2, <2>5, <3>1, <3>2, <3>3
  <2>6. pc'[p] \in {"prune", "unlink", "enqueue"} => pc'[p] = "prune"
    BY <2>2
  <2> QED
    BY <1>2, <1>3, <2>1, <2>3, <2>4, <2>5, <2>6, <1>00, FreshKeeps
<1>17. CASE PruneStart(p) \/ PruneDone(p)
  <2>1. /\ pc[p] \in {"prune", "unlink"} /\ pc'[p] \in {"prune", "unlink", "enqueue"}
        /\ UNCHANGED <<disk, dirs, man, prov, batch, was, kept>>
    BY <1>0, <1>17 DEF PruneStart, PruneDone, Advance, Goto, db
  <2>2. Works(p) /\ Works(p)' /\ Shipped(p)
    BY <1>2, <2>1 DEF Works, Applying
  <2>3. \A i \in I : Provided(p, i) /\ Laid(p, i) /\ Sole(p, i)
    BY <2>1, <2>2 DEF Provided, Laid, Later, Shipped
  <2>4. Placed(p)'
    <3>1. pc'[p] # "provides"
      BY <2>1
    <3>2. CASE PruneStart(p)
      BY <1>0, <3>1, <3>2 DEF PruneStart, Set, Placed
    <3>3. CASE PruneDone(p)
      BY <1>0, <3>1, <3>3 DEF PruneDone, Advance, Goto, Placed
    <3> QED
      BY <1>17, <3>2, <3>3
  <2> QED
    BY <1>2, <1>3, <2>1, <2>2, <2>3, <2>4, <1>00, FreshKeeps
<1>18. CASE PruneUnlink(p)
  <2>1. PICK q \in todo[p] :
          /\ disk' = IF disk[q] = Old(p, J)[q] THEN [disk EXCEPT ![q] = NoEntry] ELSE disk
          /\ todo' = [todo EXCEPT ![p] = @ \ {q}]
    BY <1>18 DEF PruneUnlink, Drop
  <2>2. pc[p] = "unlink" /\ UNCHANGED <<pc, dirs, man, prov, batch, at, was, kept, going>>
    BY <1>18 DEF PruneUnlink, db
  <2>3. /\ Works(p) /\ Works(p)' /\ Fresh(p) /\ Shipped(p) /\ Parted(p) /\ todo[p] \cap kept[p] = {}
        /\ J \in Key /\ J \in Keys(b) /\ todo[p] \subseteq Own(Old(p, J))
    <3>1. pc[p] \in Applying /\ Works(p) /\ Works(p)'
      BY <2>2 DEF Works, Applying
    <3> QED
      BY <1>1, <1>2, <2>2, <3>1, OnJob DEF Placed, Ranged, Keys
  <2>4. /\ \A i \in I : Provided(p, i) /\ Laid(p, i)
        /\ \A k : Settled(p, k)
    BY <2>2 DEF Provided, Laid, Later, Settled
  <2>5. /\ \A k : (Lean(k)' <=> Lean(k)) /\ (Readable(k)' <=> Readable(k)) /\ Old(p, k)' = Old(p, k)
        /\ \A k, r : Rival(p, k, r)' <=> Rival(p, k, r)
    BY <2>2 DEF Lean, Own, Readable, Old, Rival, KeyOf
  <2>6. \A r \in Path \ {q} : disk'[r] = disk[r]
    BY <1>0, <2>1 DEF Manifest
  <2>7. ASSUME NEW k \in dirs, Readable(k) PROVE q \notin Own(man[k])
    <3>1. CASE k \in Keys(b)
      <4>1. PICK i \in I : k = KeyOf(b[i])
        BY <3>1 DEF Keys
      <4>2. Own(man[k]) \subseteq kept[p]
        BY <2>3, <2>4, <2>7, <4>1 DEF Shipped
      <4> QED
        BY <2>3, <4>2
    <3>2. CASE k \notin Keys(b)
      <4>1. Own(man[k]) \subseteq Own(Old(p, k))
        BY <2>3, <2>4, <2>7, <3>2 DEF Fresh
      <4> QED
        BY <1>0, <2>3, <3>2, <4>1 DEF Parted
    <3> QED
      BY <3>1, <3>2
  <2>8. ASSUME NEW k \in dirs, Readable(k), NEW r \in Own(man[k]), Told(k, r) PROVE Told(k, r)'
    <3>1. disk'[r] = disk[r]
      BY <2>6, <2>7, <2>8, OwnType
    <3> QED
      BY <1>00, <2>2, <2>8, <3>1, ToldKeeps
  <2>9. Fresh(p)'
    BY <2>2, <2>3, <2>4, <2>5, <2>8 DEF Fresh, Own, Keys, KeyOf
  <2>10. Shipped(p)'
    BY <2>2, <2>3, <2>5 DEF Shipped, Provided, Laid, Sole, Own, KeyOf
  <2>11. Parted(p)'
    BY <2>3, <2>5 DEF Parted, Own
  <2>12. Placed(p)'
    BY <1>0, <2>1, <2>2, <2>3 DEF Placed
  <2> QED
    BY <1>3, <2>3, <2>9, <2>10, <2>11, <2>12
<1>19. CASE Enqueue(p)
  <2>1. pc[p] = "enqueue" /\ pc'[p] = "done" /\ UNCHANGED <<disk, dirs, man, prov>>
    BY <1>0, <1>19 DEF Enqueue, Goto, db
  <2>2. Fresh(p) /\ Shipped(p) /\ \A k : Settled(p, k)
    BY <1>2, <2>1 DEF Works, Settled, Provided, Later
  <2>3. ASSUME NEW k \in dirs, Readable(k) PROVE Lean(k) /\ \A q \in Path : Told(k, q)
    <3>1. man[k] \in Manifest /\ Lean(k) /\ \A q \in Own(man[k]) : Rival(p, k, q) \/ Told(k, q)
      BY <1>5, <2>1, <2>2, <2>3 DEF Fresh
    <3>2. \A q \in Own(man[k]) : ~Rival(p, k, q)
      BY <2>1, <2>2, <2>3 DEF Shipped, Sole, Rival
    <3> QED
      BY <3>1, <3>2, LeanTold
  <2>4. AllTold({})
    BY <2>3 DEF AllTold
  <2> QED
    BY <1>4, <2>1, <2>4
<1> QED
  BY <1>6, <1>7, <1>8, <1>9, <1>10, <1>11, <1>12, <1>13, <1>14, <1>15, <1>16, <1>17, <1>18, <1>19 DEF Install

LEMMA FreshRemove ==
  ASSUME TypeInv, LockInv, ExclInv, WholeInv, TangledInv, FreshInv, NEW p \in Proc, Past(p),
         Remove(p) \/ Gc(p) \/ Finish(p) \/ Kill(p)
  PROVE  FreshInv'
<1>0. /\ pc = [q \in Proc |-> pc[q]] /\ todo = [q \in Proc |-> todo[q]] /\ disk \in Manifest
      /\ dirs \subseteq Key /\ going[p] \subseteq Key /\ todo[p] \subseteq Path /\ kills \in Nat
      /\ man \in [Key -> Manifest \cup {NoRecord}] /\ NoRecord \notin Manifest
      /\ prov \in [Key -> SUBSET (Soname \X Path)] /\ was = [q \in Proc |-> was[q]] /\ Others(p)
  BY StepOthers, ExitOthers, ConstantsAssumption DEF TypeInv, TypeOK, LocalsOK, Step, Kill
<1>1. CASE Kill(p)
  BY <1>0, <1>1, FreshInside DEF Kill
<1>2. CASE ~Kill(p)
  <2>0. UNCHANGED <<kills, tangled>>
    BY <1>2 DEF Remove, RemoveCheck, RemoveDies, RemovePick, RemoveUnlink, ForgetProvides,
       ForgetFiles, ForgetDir, Gc, GcStart, GcRecord, GcSweep, GcDone, Finish, counts
  <2> SUFFICES ASSUME kills = 0 PROVE FreshAt(p)'
    BY <1>0, <2>0, FreshInside
  <2>1. FreshAt(p) /\ Handles(p) /\ TangledAt(p)
    BY DEF FreshInv, WholeInv, TangledInv
  <2>2. ASSUME pc[p] \notin Applying \cup {"enqueue", "remove", "forget"} PROVE AllTold({})
    BY <2>1, <2>2 DEF FreshAt, Works, Goes
  <2>3. ASSUME AllTold({}), UNCHANGED <<disk, man, prov>>, dirs' \subseteq dirs,
               pc'[p] \notin Applying \cup {"enqueue", "remove", "forget"}
        PROVE  FreshAt(p)'
    BY <2>0, <2>3 DEF FreshAt, Works, Goes, AllTold, Told, Lean, Own, Readable
  <2>4. CASE RemoveCheck(p) \/ RemoveDies(p) \/ Finish(p) \/ ForgetDir(p)
    <3>1. Exit(p) => pc' = [pc EXCEPT ![p] = "idle"]
      BY DEF Exit, Goto
    <3>2. /\ pc[p] \in {"check", "pick", "done", "rmdir"} /\ pc'[p] \in {"idle", "pick", "done"}
          /\ UNCHANGED <<disk, man, prov>> /\ dirs' \subseteq dirs
      BY <1>0, <2>4, <3>1 DEF RemoveCheck, RemoveDies, Finish, ForgetDir, Goto, db
    <3> QED
      BY <2>2, <2>3, <3>2 DEF Applying
  <2>5. CASE GcStart(p) \/ GcRecord(p) \/ GcDone(p)
    <3>1. /\ pc[p] \in {"gc", "release"} /\ pc'[p] \in {"release", "done"}
          /\ UNCHANGED <<disk, dirs, man, prov>>
      BY <1>0, <2>5 DEF GcStart, GcRecord, GcDone, Goto, db
    <3> QED
      BY <2>2, <2>3, <3>1 DEF Applying
  <2>11. CASE GcSweep(p)
    <3>1. PICK q \in todo[p] : disk' = [disk EXCEPT ![q] = NoEntry]
      BY <2>11 DEF GcSweep
    <3>2. pc[p] = "release" /\ UNCHANGED <<pc, dirs, man, prov>>
      BY <2>11 DEF GcSweep, db
    <3>3. AllTold({})
      BY <2>2, <3>2 DEF Applying
    <3>4. \A r \in Path \ {q} : disk'[r] = disk[r]
      BY <1>0, <3>1 DEF Manifest
    <3>5. ASSUME NEW k \in dirs, Readable(k) PROVE Lean(k)' /\ \A r \in Path : Told(k, r)'
      <4>1. Lean(k) /\ man[k] \in Manifest /\ \A r \in Path : Told(k, r)
        BY <1>0, <3>3, <3>5 DEF AllTold, Readable
      <4>2. Lean(k)'
        BY <3>2, <4>1 DEF Lean, Own
      <4>3. \A r \in Path \ {q} : Told(k, r)'
        BY <2>0, <3>2, <3>4, <4>1, ToldKeeps
      <4>4. CASE q \in Own(man[k])
        <5>1. q \in tangled
          BY <1>0, <2>1, <3>2, <3>5, <4>4 DEF TangledAt, Claimable
        <5> QED
          BY <2>0, <4>2, <4>3, <5>1 DEF Told
      <4>5. CASE q \notin Own(man[k])
        BY <1>0, <3>2, <4>2, <4>3, <4>5 DEF Told, Says, Tells, Lean, Own
      <4> QED
        BY <4>4, <4>5
    <3>6. AllTold({})'
      BY <3>2, <3>5 DEF AllTold, Readable
    <3> QED
      BY <3>2, <3>6 DEF FreshAt, Works, Goes, Applying
  <2>6. CASE RemovePick(p)
    <3>1. PICK k \in going[p] :
            /\ ~Unread(p, k.target)
            /\ was' = Set(was, p, [l \in Key |-> IF l = k THEN man[k] ELSE NoRecord])
            /\ todo' = Set(todo, p, Own(man[k]))
      BY <2>6 DEF RemovePick
    <3>2. /\ pc[p] = "pick" /\ pc'[p] = "remove" /\ UNCHANGED <<disk, dirs, man, prov>>
      BY <1>0, <2>6 DEF RemovePick, Goto, db
    <3>3. k \in Key /\ Readable(k)
      BY <1>0, <3>1 DEF Unread
    <3>4. was'[p] = [l \in Key |-> IF l = k THEN man[k] ELSE NoRecord] /\ todo'[p] = Own(man[k])
      BY <1>0, <3>1 DEF Set
    <3>5. Removing(p)' = k
      <4>1. \A l \in Key : was'[p][l] # NoRecord <=> l = k
        BY <3>3, <3>4 DEF Readable
      <4> QED
        BY <3>3, <4>1, Zenon DEF Removing
    <3>6. AllTold({})
      BY <2>2, <3>2 DEF Applying
    <3>7. AllTold({Removing(p)})'
      BY <2>0, <3>2, <3>6 DEF AllTold, Told, Lean, Own, Readable
    <3>8. todo'[p] = Own(man[Removing(p)])' /\ Readable(Removing(p))'
      BY <3>2, <3>3, <3>4, <3>5 DEF Own, Readable
    <3> QED
      BY <3>2, <3>7, <3>8 DEF FreshAt, Works, Goes, Applying
  <2>7. ASSUME pc[p] \in {"remove", "forget"}
        PROVE  /\ AllTold({Removing(p)}) /\ todo[p] \subseteq Own(man[Removing(p)])
               /\ Removing(p) \in dirs /\ Readable(Removing(p))
    BY <2>1, <2>7 DEF FreshAt, Goes, Handles, Leaving
  <2>8. CASE RemoveUnlink(p)
    <3> DEFINE R == Removing(p)
    <3>1. PICK q \in todo[p] :
            /\ disk' = IF disk[q] = Old(p, R)[q] THEN [disk EXCEPT ![q] = NoEntry] ELSE disk
            /\ todo' = [todo EXCEPT ![p] = @ \ {q}]
      BY <2>8 DEF RemoveUnlink, Drop
    <3>2. pc[p] = "remove" /\ UNCHANGED <<pc, dirs, man, prov, was>>
      BY <2>8 DEF RemoveUnlink, db
    <3>3. R' = R
      BY <3>2, RemovingKeeps
    <3>4. AllTold({R}) /\ todo[p] \subseteq Own(man[R]) /\ R \in dirs /\ Readable(R)
      BY <2>7, <3>2
    <3>5. Disjoint(dirs)
      <4>1. \A r \in Proc : pc[r] \notin Middle
        BY <1>0, <3>2, AloneStep DEF Middle
      <4> QED
        BY <4>1 DEF ExclInv
    <3> HIDE DEF R
    <3>7. \A r \in Path \ {q} : disk'[r] = disk[r]
      BY <1>0, <3>1 DEF Manifest
    <3>6. ASSUME NEW k \in dirs \ {R}, Readable(k) PROVE Lean(k) /\ Lean(k)'
      BY <3>2, <3>4, <3>6 DEF AllTold, Lean, Own
    <3>8. ASSUME NEW k \in dirs \ {R}, Readable(k), NEW r \in Path PROVE Told(k, r)'
      <4>1. Told(k, r) /\ Lean(k) /\ man[k] \in Manifest
        BY <1>0, <3>4, <3>8 DEF AllTold, Readable
      <4>2. CASE r # q
        BY <2>0, <3>2, <3>7, <4>1, <4>2, ToldKeeps
      <4>3. CASE r = q
        <5>1. r \notin Own(man[k])
          BY <3>4, <3>5, <3>8, <4>3 DEF Disjoint
        <5> QED
          BY <3>2, <4>1, <5>1 DEF Told, Says, Tells, Lean, Own
      <4> QED
        BY <4>2, <4>3
    <3>9. AllTold({R})'
      BY <3>2, <3>3, <3>6, <3>8 DEF AllTold, Readable
    <3>10. todo'[p] \subseteq Own(man[R])' /\ Readable(R)'
      BY <1>0, <3>1, <3>2, <3>3, <3>4 DEF Own, Readable
    <3> QED
      BY <3>2, <3>9, <3>10 DEF FreshAt, Works, Goes, Applying, R
  <2>9. CASE ForgetProvides(p)
    <3> DEFINE R == Removing(p)
    <3>1. /\ pc[p] = "remove" /\ pc'[p] = "forget" /\ UNCHANGED <<disk, dirs, man, was, todo>>
          /\ prov' = [prov EXCEPT ![R] = {}]
      BY <1>0, <2>9 DEF ForgetProvides, Goto, locals
    <3>2. R' = R
      BY <3>1, RemovingKeeps
    <3>3. AllTold({R}) /\ todo[p] \subseteq Own(man[R]) /\ Readable(R)
      BY <2>7, <3>1
    <3> HIDE DEF R
    <3>4. AllTold({R})'
      BY <1>0, <2>0, <3>1, <3>2, <3>3 DEF AllTold, Told, Lean, Own, Readable
    <3>5. todo'[p] \subseteq Own(man[R])' /\ Readable(R)'
      BY <3>1, <3>2, <3>3 DEF Own, Readable
    <3> QED
      BY <3>1, <3>4, <3>5 DEF FreshAt, Works, Goes, Applying, R
  <2>10. CASE ForgetFiles(p)
    <3> DEFINE R == Removing(p)
    <3>1. /\ pc[p] = "forget" /\ pc'[p] = "rmdir" /\ man' = [man EXCEPT ![R] = NoRecord]
          /\ UNCHANGED <<disk, dirs, prov>>
      BY <1>0, <2>10 DEF ForgetFiles, Goto
    <3>2. AllTold({R}) /\ R \in dirs
      BY <2>7, <3>1
    <3> HIDE DEF R
    <3>3. AllTold({})'
      BY <1>0, <2>0, <3>1, <3>2 DEF AllTold, Told, Lean, Own, Readable
    <3> QED
      BY <3>1, <3>3 DEF FreshAt, Works, Goes, Applying
  <2> QED
    BY <1>2, <2>4, <2>5, <2>6, <2>8, <2>9, <2>10, <2>11 DEF Remove, Gc
<1> QED
  BY <1>1, <1>2

LEMMA FreshInit == ASSUME Init PROVE FreshInv
BY DEF Init, FreshInv, AllTold, Past

\* Where configs are plain files, the provides file of every record says what a scan of its
\* manifest finds as long as nothing was killed, a forced install that took files from other
\* packages and a gc included: doctor's stale check stays silent, but for the paths an
\* install left to a record and a preserved record both (install.rs provides and dispossess,
\* db.rs write and forget, main.rs gc_cmd).
THEOREM ProvidesTrue == ASSUME ConfigsPlain PROVE Spec => []ProvidesFresh
<1>1. Init => EditInv /\ FreshInv
  BY EditInit, FreshInit
<1>2. Ground => TypeInv /\ LockInv /\ WholeInv
  BY DEF Ground
<1>3. TypeInv /\ LockInv /\ FreshInv => ProvidesFresh
  <2> SUFFICES ASSUME TypeInv, LockInv, FreshInv, Unkilled, NEW k \in dirs, Readable(k)
               PROVE  Untangled(prov[k]) = Untangled(Provides(man[k], disk))
    BY DEF ProvidesFresh
  <2>1. \A p \in Proc : ~Past(p)
    BY ConstantsAssumption DEF LockInv, Unkilled, Quiet
  <2>2. \A q \in Path : Told(k, q)
    BY <2>1 DEF FreshInv, AllTold, Unkilled
  <2>3. man[k] \in Manifest /\ disk \in Manifest /\ prov[k] \subseteq Soname \X Path
    BY DEF TypeInv, TypeOK, Readable
  <2>4. Provides(man[k], disk) \subseteq Soname \X Path
    BY <2>3, ProvidesType
  <2>5. \A q \in Path \ tangled :
          Says(prov[k], man[k], disk, q) /\ Says(Provides(man[k], disk), man[k], disk, q)
    BY <2>2, <2>3, ProvidesTold DEF Told
  <2> DEFINE P == Provides(man[k], disk)
  <2>6. ASSUME NEW s \in Soname, NEW q \in Path \ tangled PROVE <<s, q>> \in prov[k] <=> <<s, q>> \in P
    BY <2>5 DEF Says
  <2> HIDE DEF P
  <2>7. ASSUME NEW e \in Soname \X Path, e[2] \notin tangled PROVE e \in prov[k] <=> e \in P
    <3>1. e = <<e[1], e[2]>> /\ e[1] \in Soname /\ e[2] \in Path \ tangled
      BY <2>7
    <3> QED
      BY <2>6, <3>1
  <2>8. Untangled(prov[k]) = Untangled(P)
    BY <2>3, <2>4, <2>7 DEF Untangled, P
  <2> QED
    BY <2>8 DEF P
<1>4. TypeInv /\ LockInv /\ LockInv' /\ WholeInv /\ EditInv /\ [Next]_vars => EditInv'
  BY EditNext
<1>5. Ground /\ LockInv' /\ EditInv /\ FreshInv /\ [Next]_vars => FreshInv'
  BY InsideOrOut, FreshOutside, FreshInstall, FreshRemove DEF Ground
<1> QED
  BY GroundAlways, <1>1, <1>2, <1>3, <1>4, <1>5, PTL DEF Spec

----------------------------------------------------------------------------
(* Each file a record claims is there at every step, kills and --force included,
   where a path more than one package has ever shipped is in every batch any of
   them is in: then no prune of one package reaches a file of another, whatever
   records a kill left behind. Without that it does: a batch that moves a path from
   one package to another is killed once the other's record is written, and an
   update of the one alone finds the path in its old record and prunes it. *)

\* the paths some version of package k ships
Mine(k) == {q \in Path : \E b \in Batches : \E i \in 1..Len(b) : KeyOf(b[i]) = k /\ b[i].ships[q] # NoEntry}
\* a path of two packages is never left out by an update of either, nor removed with one
Handed ==
  \A k, l \in Key : k # l =>
    \A q \in Mine(k) \cap Mine(l) :
      k.name \notin Removable /\ \A b \in Batches : k \in Keys(b) => q \in Ships(b)

Rightful ==
  \A k \in Key : Readable(k) =>
    /\ Own(man[k]) \subseteq Mine(k)
    /\ k.name \notin Removable => \A q \in Own(man[k]) : disk[q] # NoEntry
\* what p found was rightful too
Found(p) == \A k \in Key : Own(Old(p, k)) \subseteq Mine(k)
\* only a removal takes records out, and the ones it was asked to
ByRequest(p) ==
  /\ pc[p] \in Leaving \cup {"check"} => op[p] = "remove"
  /\ op[p] = "remove" => /\ pc[p] \in Leaving \cup {"lock", "check", "done"}
                         /\ \A k \in going[p] : k.name \in Removable
\* what a batch has laid it keeps, and its records claim no more than it shipped
Lasting(p) ==
  \A i \in 1..Len(batch[p]) :
    /\ Laid(p, i) => Own(batch[p][i].ships) \subseteq kept[p]
    /\ Recorded(p, i) /\ Readable(KeyOf(batch[p][i])) =>
         Own(man[KeyOf(batch[p][i])]) \subseteq Own(batch[p][i].ships)
Midway(p) ==
  /\ pc[p] = "extract" => /\ todo[p] \subseteq Own(Job(p).ships)
                          /\ \A q \in (Own(Job(p).ships) \ todo[p]) \cup skip[p] : disk[q] # NoEntry
  /\ pc[p] = "manifest" => \A q \in Own(Job(p).ships) : disk[q] # NoEntry
  /\ pc[p] = "unlink" => todo[p] \subseteq Own(Old(p, KeyOf(Job(p)))) \ kept[p]
  /\ pc[p] = "remove" => todo[p] \subseteq Own(Old(p, Removing(p)))
StandAt(p) == Found(p) /\ ByRequest(p) /\ (pc[p] \in Applying => Lasting(p)) /\ Midway(p)
StandInv == Rightful /\ \A p \in Proc : StandAt(p)

LEMMA StandInside ==
  ASSUME LockInv, StandInv, NEW p \in Proc, Past(p), Others(p), Rightful', StandAt(p)'
  PROVE  StandInv'
<1> SUFFICES ASSUME NEW q \in Proc \ {p} PROVE StandAt(q)'
  BY DEF StandInv
<1>1. /\ pc[q] \in {"idle", "lock"} /\ pc'[q] = pc[q] /\ op'[q] = op[q] /\ was'[q] = was[q]
      /\ going'[q] = going[q]
  BY AloneStep DEF Others
<1>2. Found(q) /\ ByRequest(q)
  BY DEF StandInv, StandAt
<1>3. Found(q)'
  <2>1. \A k : Old(q, k)' = Old(q, k)
    BY <1>1 DEF Old
  <2> QED
    BY <1>2, <2>1 DEF Found, Mine, Own
<1>4. ByRequest(q)'
  BY <1>1, <1>2 DEF ByRequest
<1> QED
  BY <1>1, <1>3, <1>4 DEF StandAt, Midway, Applying

LEMMA MineKeeps == \A k : Mine(k)' = Mine(k)
BY DEF Mine, KeyOf

\* a step that writes no manifest and takes no file but one no record to keep claims
LEMMA RightfulKeeps ==
  ASSUME Rightful, UNCHANGED man,
         \A k \in Key : Readable(k) /\ k.name \notin Removable =>
           \A q \in Own(man[k]) : disk'[q] = NoEntry => disk[q] = NoEntry
  PROVE  Rightful'
BY MineKeeps DEF Rightful, Readable, Own

LEMMA FoundKeeps == ASSUME NEW p \in Proc, Found(p), was'[p] = was[p] PROVE Found(p)'
<1>1. \A k : Own(Old(p, k))' = Own(Old(p, k))
  BY DEF Old, Own
<1> QED
  BY <1>1, MineKeeps DEF Found

LEMMA LastingKeeps ==
  ASSUME NEW p \in Proc, Lasting(p), batch'[p] = batch[p], kept[p] \subseteq kept'[p], UNCHANGED man,
         \A i \in 1..Len(batch[p]) : (Laid(p, i)' => Laid(p, i)) /\ (Recorded(p, i)' => Recorded(p, i))
  PROVE  Lasting(p)'
BY DEF Lasting, Readable, Own, KeyOf

LEMMA StandExit ==
  ASSUME TypeInv, NEW p \in Proc, Exit(p) PROVE StandAt(p)'
<1>1. pc'[p] = "idle" /\ op'[p] = "none" /\ was'[p] = [k \in Key |-> NoRecord]
  BY DEF Exit, Goto, Set, TypeInv, TypeOK, LocalsOK
<1>2. \A k \in Key : Own(Old(p, k))' = {}
  BY <1>1 DEF Old, Own, Nothing
<1> QED
  BY <1>1, <1>2 DEF StandAt, Found, ByRequest, Midway, Leaving, Applying

LEMMA StandOutside ==
  ASSUME TypeInv, LockInv, StandInv, Outside PROVE StandInv'
<1>1. \A q \in Path : disk'[q] = NoEntry => disk[q] = NoEntry
  <2>1. CASE Edit
    BY <2>1, EditContent DEF Edit, TypeInv, TypeOK, Manifest, IsFile
  <2>2. CASE ~Edit
    BY <2>2 DEF Outside, vars, BeginInstall, BeginRemove, BeginGc, Begin, Lock, Kill
  <2> QED
    BY <2>1, <2>2
<1>2. Rightful'
  BY <1>1, OutsideKeeps, RightfulKeeps, OwnType DEF StandInv, db
<1>3. ASSUME NEW p \in Proc, UNCHANGED <<disk, man>>, StandAt(p),
             pc'[p] = pc[p], op'[p] = op[p], batch'[p] = batch[p],
             at'[p] = at[p], was'[p] = was[p], skip'[p] = skip[p],
             todo'[p] = todo[p], kept'[p] = kept[p], going'[p] = going[p]
      PROVE  StandAt(p)'
  <2>1. Found(p)' /\ (pc[p] \in Applying => Lasting(p)')
    BY <1>3, FoundKeeps, LastingKeeps DEF StandAt, Laid, Recorded
  <2>2. ByRequest(p)'
    BY <1>3 DEF StandAt, ByRequest
  <2>3. Job(p)' = Job(p) /\ Removing(p)' = Removing(p) /\ \A k : Old(p, k)' = Old(p, k)
    BY <1>3, RemovingKeeps, Zenon DEF Job
  <2>4. Own(Job(p).ships)' = Own(Job(p).ships)
    BY <2>3 DEF Own
  <2>5. /\ Own(Old(p, KeyOf(Job(p))))' = Own(Old(p, KeyOf(Job(p))))
        /\ Own(Old(p, Removing(p)))' = Own(Old(p, Removing(p)))
    BY <2>3 DEF Own, KeyOf
  <2>6. Midway(p)'
    BY <1>3, <2>4, <2>5 DEF StandAt, Midway
  <2> QED
    BY <1>3, <2>1, <2>2, <2>6 DEF StandAt
<1>4. ASSUME NEW p \in Proc, Others(p), UNCHANGED <<disk, man>>, StandAt(p)' PROVE StandInv'
  <2> SUFFICES ASSUME NEW q \in Proc \ {p} PROVE StandAt(q)'
    BY <1>2, <1>4 DEF StandInv
  <2> QED
    BY <1>3, <1>4 DEF StandInv, Others
<1>5. CASE UNCHANGED vars
  BY <1>2, <1>3, <1>5 DEF StandInv, vars, db, locals
<1>6. CASE Edit
  <2>1. /\ lock = NoProc /\ UNCHANGED <<man, pc, op, was, going>>
    BY <1>6 DEF Edit, db, locals
  <2>2. \A p \in Proc : pc[p] \in {"idle", "lock"}
    BY <2>1, ConstantsAssumption DEF LockInv, Past
  <2>3. ASSUME NEW p \in Proc PROVE StandAt(p)'
    <3>1. Found(p)' /\ ByRequest(p)
      BY <2>1, FoundKeeps DEF StandInv, StandAt
    <3> QED
      BY <2>1, <2>2, <3>1 DEF StandAt, ByRequest, Midway, Applying
  <2> QED
    BY <1>2, <2>3 DEF StandInv
<1>7. ASSUME NEW p \in Proc, ~Past(p), BeginInstall(p) \/ BeginRemove(p) \/ BeginGc(p) \/ Lock(p) \/ Kill(p)
      PROVE  StandInv'
  <2>1. UNCHANGED <<disk, man>>
    BY <1>7 DEF BeginInstall, BeginRemove, BeginGc, Begin, Lock, Kill, db
  <2>2. CASE Kill(p)
    BY <1>4, <2>1, <2>2, StandExit, ExitOthers DEF Kill
  <2>3. CASE ~Kill(p)
    <3>1. Others(p) /\ was'[p] = was[p] /\ pc'[p] \in {"lock", "plan", "check", "gc"} /\ ByRequest(p)'
      <4>0. ByRequest(p) /\ pc[p] \in {"idle", "lock"}
        BY <1>7 DEF StandInv, StandAt, Past
      <4>1. CASE BeginInstall(p) \/ BeginGc(p)
        BY <4>1 DEF BeginInstall, BeginGc, Begin, Goto, Set, Others, ByRequest, Leaving, TypeInv, TypeOK, LocalsOK
      <4>2. CASE BeginRemove(p)
        BY <4>2 DEF BeginRemove, Begin, Goto, Set, Others, ByRequest, Leaving, TypeInv, TypeOK, LocalsOK
      <4>3. CASE Lock(p)
        BY <4>0, <4>3, StepOthers DEF Lock, Goto, ByRequest, Leaving, Step, locals, TypeInv, TypeOK, LocalsOK
      <4> QED
        BY <1>7, <2>3, <4>1, <4>2, <4>3
    <3>2. Found(p)'
      BY <3>1, FoundKeeps DEF StandInv, StandAt
    <3>3. StandAt(p)'
      BY <3>1, <3>2 DEF StandAt, Midway, Applying
    <3> QED
      BY <1>4, <2>1, <3>1, <3>3
  <2> QED
    BY <2>2, <2>3
<1> QED
  BY <1>5, <1>6, <1>7 DEF Outside

LEMMA StandInstall ==
  ASSUME Handed, TypeInv, LockInv, StandInv, NEW p \in Proc, Past(p), Install(p) PROVE StandInv'
<1> DEFINE b == batch[p]
           I == 1..Len(b)
           j == Job(p)
<1>0. /\ pc = [q \in Proc |-> pc[q]] /\ todo = [q \in Proc |-> todo[q]] /\ disk \in Manifest
      /\ at \in [Proc -> Nat \ {0}] /\ kept \in [Proc -> SUBSET Path] /\ was = [q \in Proc |-> was[q]]
      /\ man \in [Key -> Manifest \cup {NoRecord}] /\ NoRecord \notin Manifest /\ skip = [q \in Proc |-> skip[q]]
      /\ todo \in [Proc -> SUBSET Path]
      /\ Others(p) /\ Rightful /\ StandAt(p) /\ Found(p) /\ ByRequest(p)
  BY StepOthers, ConstantsAssumption DEF TypeInv, TypeOK, LocalsOK, Step, StandInv, StandAt
<1>1. ASSUME pc[p] \in Applying
      PROVE  /\ b \in Batches /\ at[p] \in I /\ j = b[at[p]] /\ Len(b) \in Nat
             /\ KeyOf(j) \in Key /\ j.ships \in Manifest /\ Own(j.ships) \subseteq Mine(KeyOf(j))
             /\ \A i \in I : KeyOf(b[i]) \in Key /\ (i # at[p] => KeyOf(b[i]) # KeyOf(j))
             /\ Lasting(p)
  <2>1. /\ b \in Batches /\ at[p] \in I /\ j = b[at[p]] /\ Len(b) \in Nat
        /\ KeyOf(j) \in Key /\ j.ships \in Manifest
        /\ \A i \in I : KeyOf(b[i]) \in Key /\ (i # at[p] => KeyOf(b[i]) # KeyOf(j))
    BY <1>1, OnJob
  <2>2. Own(j.ships) \subseteq Mine(KeyOf(j))
    BY <2>1 DEF Mine, Own
  <2> QED
    BY <1>0, <1>1, <2>1, <2>2 DEF StandAt
<1>2. (op'[p] = op[p] /\ pc[p] \in Applying \cup {"plan", "enqueue"}) \/ PlanRefuses(p)
  BY DEF Install, ApplyStart, JobStart, Extract, PutHead, PutManifest, PutProvides, Preserve,
     Dispossess, Disown, DispossessDone, PruneStart, PruneUnlink, PruneDone, Enqueue, Applying, locals
<1>3. pc'[p] \in Applying \cup {"enqueue", "done"} \/ PlanRefuses(p)
  BY <1>0 DEF Install, ApplyStart, JobStart, Extract, PutHead, PutManifest, PutProvides, Preserve,
     Dispossess, Disown, DispossessDone, PruneStart, PruneUnlink, PruneDone, Enqueue, Applying, Advance, Goto
<1>4. ByRequest(p)' \/ PlanRefuses(p)
  BY <1>0, <1>2, <1>3 DEF ByRequest, Applying, Leaving
\* a step that writes no file and no manifest
<1>5. ASSUME UNCHANGED <<disk, man>> PROVE Rightful'
  BY <1>0, <1>5, RightfulKeeps
<1>6. ASSUME UNCHANGED <<man, was, batch>>, kept[p] \subseteq kept'[p], pc[p] \in Applying,
             \A i \in I : (Laid(p, i)' => Laid(p, i)) /\ (Recorded(p, i)' => Recorded(p, i))
      PROVE  Found(p)' /\ Lasting(p)'
  BY <1>0, <1>1, <1>6, FoundKeeps, LastingKeeps
<1>7. ASSUME Rightful', ~PlanRefuses(p), Found(p)', pc'[p] \in Applying => Lasting(p)', Midway(p)' PROVE StandInv'
  BY <1>0, <1>4, <1>7, StandInside DEF StandAt
<1>8. CASE PlanRefuses(p)
  <2>1. UNCHANGED <<disk, man>> /\ Exit(p)
    BY <1>8 DEF PlanRefuses, db
  <2> QED
    BY <1>0, <1>5, <2>1, StandExit, StandInside
<1>9. CASE ApplyStart(p)
  <2>1. /\ pc'[p] = "job" /\ was'[p] = man /\ UNCHANGED <<disk, man, batch, at>> /\ at[p] = 1 /\ ~PlanRefuses(p)
    BY <1>0, <1>9 DEF ApplyStart, PlanRefuses, Goto, Set, db, TypeInv
  <2>2. \A k \in Key : Own(Old(p, k))' \subseteq Mine(k)
    BY <1>0, <2>1 DEF Old, Rightful, Readable, Own, Nothing
  <2>3. Found(p)'
    BY <2>2, MineKeeps DEF Found
  <2>4. Lasting(p)' /\ Midway(p)'
    BY <2>1 DEF Lasting, Laid, Recorded, Later, Midway
  <2> QED
    BY <1>5, <1>7, <2>1, <2>3, <2>4
<1>10. CASE JobStart(p)
  <2>1. /\ pc[p] = "job" /\ pc'[p] = "extract" /\ todo'[p] = Own(j.ships) /\ skip'[p] = Skipped(p)
        /\ UNCHANGED <<disk, man, was, batch, at, kept>> /\ ~PlanRefuses(p)
    BY <1>0, <1>10 DEF JobStart, PlanRefuses, Goto, Set, db
  <2>2. Found(p)' /\ Lasting(p)'
    BY <1>6, <2>1 DEF Laid, Recorded, Later, Applying
  <2>3. \A q \in Skipped(p) : disk[q] # NoEntry
    BY DEF Skipped, Modified, Seen, IsFile
  <2>4. Own(Job(p).ships)' = Own(j.ships)
    BY <2>1 DEF Job, Own
  <2>5. Midway(p)'
    BY <2>1, <2>3, <2>4 DEF Midway
  <2> QED
    BY <1>5, <1>7, <2>1, <2>2, <2>5
<1>11. CASE Extract(p)
  <2>1. PICK q \in todo[p] :
          /\ todo' = [todo EXCEPT ![p] = @ \ {q}]
          /\ disk' = IF q \in skip[p] THEN disk ELSE [disk EXCEPT ![q] = Job(p).ships[q]]
    BY <1>11 DEF Extract
  <2>2. /\ pc[p] = "extract" /\ UNCHANGED <<pc, man, was, batch, at, kept, skip>> /\ ~PlanRefuses(p)
    BY <1>11 DEF Extract, PlanRefuses, db
  <2>3. /\ todo[p] \subseteq Own(j.ships) /\ q \in Path /\ j.ships[q] # NoEntry
        /\ \A r \in (Own(j.ships) \ todo[p]) \cup skip[p] : disk[r] # NoEntry
    BY <1>0, <2>1, <2>2 DEF StandAt, Midway, Own
  <2>4. disk'[q] # NoEntry /\ \A r \in Path \ {q} : disk'[r] = disk[r]
    BY <1>0, <2>1, <2>3 DEF Manifest
  <2>5. Rightful'
    BY <1>0, <2>2, <2>4, RightfulKeeps, OwnType
  <2>6. Found(p)' /\ Lasting(p)'
    BY <1>6, <2>2 DEF Laid, Recorded, Applying
  <2>7. Own(Job(p).ships)' = Own(j.ships) /\ todo'[p] = todo[p] \ {q} /\ skip[p] \subseteq Path /\ Own(j.ships) \subseteq Path
    BY <1>0, <2>1, <2>2, OwnType DEF Job, Own, TypeInv, TypeOK, LocalsOK
  <2>8. Midway(p)'
    BY <2>2, <2>3, <2>4, <2>7 DEF Midway
  <2> QED
    BY <1>7, <2>2, <2>5, <2>6, <2>8
<1>12. CASE PutHead(p)
  <2>1. /\ pc[p] = "extract" /\ pc'[p] = "manifest" /\ todo[p] = {}
        /\ kept'[p] = kept[p] \cup Own(j.ships)
        /\ UNCHANGED <<disk, man, was, batch, at>> /\ ~PlanRefuses(p)
    BY <1>0, <1>12 DEF PutHead, PlanRefuses, Goto
  <2>2. \A i \in I : /\ Laid(p, i)' => Laid(p, i) \/ i = at[p]
                     /\ Recorded(p, i)' => Recorded(p, i)
    BY <1>0, <1>1, <2>1 DEF Laid, Recorded, Later, Applying
  <2>3. Found(p)'
    BY <1>0, <2>1, FoundKeeps
  <2>4. j = b[at[p]] /\ Lasting(p)
    BY <1>1, <2>1 DEF Applying
  <2>5. Lasting(p)'
    BY <2>1, <2>2, <2>4 DEF Lasting, Readable, Own, KeyOf
  <2>6. Own(Job(p).ships)' = Own(j.ships) /\ \A q \in Own(j.ships) : disk[q] # NoEntry
    BY <1>0, <2>1 DEF Job, Own, StandAt, Midway
  <2>7. Midway(p)'
    BY <2>1, <2>6 DEF Midway
  <2> QED
    BY <1>5, <1>7, <2>1, <2>3, <2>5, <2>7
<1>13. CASE PutManifest(p)
  <2>1. /\ pc[p] = "manifest" /\ pc'[p] = "provides" /\ man' = [man EXCEPT ![KeyOf(j)] = j.ships]
        /\ UNCHANGED <<disk, was, batch, at, kept>> /\ ~PlanRefuses(p)
    BY <1>0, <1>13 DEF PutManifest, PlanRefuses, Goto, locals
  <2>2. /\ at[p] \in I /\ j = b[at[p]] /\ Len(b) \in Nat /\ KeyOf(j) \in Key /\ j.ships \in Manifest
        /\ Own(j.ships) \subseteq Mine(KeyOf(j)) /\ Lasting(p)
        /\ \A i \in I : KeyOf(b[i]) \in Key /\ (i # at[p] => KeyOf(b[i]) # KeyOf(j))
    BY <1>1, <2>1 DEF Applying
  <2>3. \A q \in Own(j.ships) : disk[q] # NoEntry
    BY <1>0, <2>1 DEF StandAt, Midway
  <2>4. \A k \in Key : IF k = KeyOf(j) THEN man'[k] = j.ships ELSE man'[k] = man[k]
    BY <1>0, <2>1, <2>2
  <2>5. Rightful'
    <3> SUFFICES ASSUME NEW k \in Key, Readable(k)'
                 PROVE  /\ Own(man[k])' \subseteq Mine(k)
                        /\ k.name \notin Removable => \A q \in Own(man[k])' : disk[q] # NoEntry
      BY <2>1, MineKeeps DEF Rightful
    <3> HIDE DEF j
    <3>1. CASE k = KeyOf(j)
      <4>1. Own(man[k])' = Own(j.ships)
        BY <2>4, <3>1 DEF Own
      <4> QED
        BY <2>2, <2>3, <3>1, <4>1
    <3>2. CASE k # KeyOf(j)
      <4>1. Own(man[k])' = Own(man[k]) /\ Readable(k)
        BY <2>4, <3>2 DEF Own, Readable
      <4> QED
        BY <1>0, <4>1 DEF Rightful
    <3> QED
      BY <3>1, <3>2
  <2>6. Found(p)'
    BY <1>0, <2>1, FoundKeeps
  <2>7. \A i \in I : /\ Laid(p, i)' => Laid(p, i)
                     /\ Recorded(p, i)' => Recorded(p, i) \/ i = at[p]
    BY <1>0, <2>1, <2>2 DEF Laid, Recorded, Later
  <2>8. ASSUME NEW i \in I
        PROVE  /\ Laid(p, i)' => Own(b[i].ships) \subseteq kept[p]
               /\ Recorded(p, i)' /\ man'[KeyOf(b[i])] # NoRecord =>
                    Own(man'[KeyOf(b[i])]) \subseteq Own(b[i].ships)
    <3>1. CASE i = at[p]
      <4>1. man'[KeyOf(b[i])] = b[i].ships
        BY <2>2, <2>4, <3>1
      <4> QED
        BY <2>2, <2>7, <3>1, <4>1 DEF Lasting
    <3>2. CASE i # at[p]
      <4>1. man'[KeyOf(b[i])] = man[KeyOf(b[i])]
        BY <2>2, <2>4, <3>2
      <4> QED
        BY <2>2, <2>7, <3>2, <4>1 DEF Lasting, Readable
    <3> QED
      BY <3>1, <3>2
  <2>9. Lasting(p)'
    BY <2>1, <2>8 DEF Lasting, Readable, Own, KeyOf
  <2>10. Midway(p)'
    BY <2>1 DEF Midway
  <2> QED
    BY <1>7, <2>1, <2>5, <2>6, <2>9, <2>10
<1>14. CASE PutProvides(p) \/ Preserve(p) \/ DispossessDone(p) \/ PruneDone(p)
  <2>1. /\ UNCHANGED <<disk, man, was, batch>> /\ kept[p] \subseteq kept'[p] /\ ~PlanRefuses(p)
        /\ \/ /\ pc[p] = "provides" /\ pc'[p] = "job" /\ at'[p] = at[p] + 1
           \/ /\ pc[p] = "provides" /\ pc'[p] = "preserve" /\ ~(at[p] < Len(b))
           \/ /\ pc[p] \in {"preserve", "dispossess", "unlink"} /\ pc'[p] \in Later \ {"unlink"}
    BY <1>0, <1>14 DEF PutProvides, Preserve, DispossessDone, PruneDone, PlanRefuses, Advance, Goto, db, Later
  <2>2. pc[p] \in Applying
    BY <2>1 DEF Applying
  <2>3. \A i \in I : (Laid(p, i)' => Laid(p, i)) /\ (Recorded(p, i)' => Recorded(p, i))
    BY <1>0, <1>1, <2>1, <2>2 DEF Laid, Recorded, Later
  <2>4. Found(p)' /\ Lasting(p)'
    BY <1>6, <2>1, <2>2, <2>3
  <2>5. Midway(p)'
    BY <2>1 DEF Midway, Later
  <2> QED
    BY <1>5, <1>7, <2>1, <2>4, <2>5
<1>15. CASE Dispossess(p)
  <2>1. PICK k \in Losers(p) : man' = [man EXCEPT ![k] = Restricted(@, Own(@) \ Own(Job(p).ships))]
    BY <1>15 DEF Dispossess
  <2>2. /\ pc[p] = "dispossess" /\ pc'[p] = "disown" /\ UNCHANGED <<disk, was, batch, at, kept>> /\ ~PlanRefuses(p)
    BY <1>0, <1>15 DEF Dispossess, PlanRefuses, Goto, Set
  <2>3. k \in Key /\ Readable(k)
    BY DEF Losers, TypeInv, TypeOK
  <2>4. man[k] \in Manifest
    BY <1>0, <2>3 DEF Readable
  <2>5. \A l \in Key : (Readable(l)' => Readable(l)) /\ Own(man[l])' \subseteq Own(man[l])
    <3> TAKE l \in Key
    <3>1. CASE l = k
      <4>1. man'[l] = Restricted(man[k], Own(man[k]) \ Own(Job(p).ships))
        BY <1>0, <2>1, <2>3, <3>1
      <4>2. Own(man'[l]) \subseteq Own(man[k])
        BY <2>4, <4>1, RestrictedOwn
      <4>3. Own(man[l])' = Own(man'[l])
        BY DEF Own
      <4> QED
        BY <2>3, <3>1, <4>2, <4>3
    <3>2. CASE l # k
      BY <1>0, <2>1, <2>3, <3>2 DEF Readable, Own
    <3> QED
      BY <3>1, <3>2
  <2>6. Rightful'
    BY <1>0, <2>2, <2>5, MineKeeps DEF Rightful
  <2>7. Found(p)'
    BY <1>0, <2>2, FoundKeeps
  <2>8. Lasting(p) /\ \A i \in I : KeyOf(b[i]) \in Key
    BY <1>1, <2>2 DEF Applying
  <2>9. ASSUME NEW i \in I
        PROVE  /\ Own(b[i].ships) \subseteq kept[p]
               /\ Readable(KeyOf(b[i]))' => Own(man[KeyOf(b[i])])' \subseteq Own(b[i].ships)
    <3>1. Laid(p, i) /\ Recorded(p, i)
      BY <2>2 DEF Laid, Recorded, Later
    <3>2. KeyOf(b[i])' = KeyOf(b[i])
      BY <2>2 DEF KeyOf
    <3>3. man'[KeyOf(b[i])] # NoRecord => man[KeyOf(b[i])] # NoRecord /\ Own(man'[KeyOf(b[i])]) \subseteq Own(man[KeyOf(b[i])])
      BY <2>5, <2>8 DEF Readable, Own
    <3>4. Own(man[KeyOf(b[i])])' = Own(man'[KeyOf(b[i])])
      BY <3>2 DEF Own
    <3> QED
      BY <2>8, <3>1, <3>2, <3>3, <3>4 DEF Lasting, Readable
  <2>10. Lasting(p)'
    BY <2>2, <2>9 DEF Lasting, Readable, Own, KeyOf
  <2>11. Midway(p)'
    BY <2>2 DEF Midway
  <2> QED
    BY <1>7, <2>2, <2>6, <2>7, <2>10, <2>11
<1>16. CASE Disown(p) \/ PruneStart(p)
  <2>1. /\ UNCHANGED <<disk, man, was, batch, at, kept>> /\ ~PlanRefuses(p)
        /\ \/ pc[p] = "disown" /\ pc'[p] = "dispossess"
           \/ pc[p] = "prune" /\ pc'[p] = "unlink" /\ todo'[p] = Own(Old(p, KeyOf(Job(p)))) \ kept[p]
    BY <1>0, <1>16 DEF Disown, PruneStart, PlanRefuses, Goto, Set, db
  <2>2. \A i \in I : (Laid(p, i)' => Laid(p, i)) /\ (Recorded(p, i)' => Recorded(p, i))
    BY <2>1 DEF Laid, Recorded, Later
  <2>3. Found(p)' /\ Lasting(p)'
    BY <1>6, <2>1, <2>2 DEF Applying
  <2>4. Own(Old(p, KeyOf(Job(p))))' = Own(Old(p, KeyOf(Job(p))))
    BY <2>1 DEF Old, Job, KeyOf, Own
  <2>5. Midway(p)'
    BY <2>1, <2>4 DEF Midway
  <2> QED
    BY <1>5, <1>7, <2>1, <2>3, <2>5
<1>17. CASE PruneUnlink(p)
  <2>1. PICK q \in todo[p] :
          /\ disk' = IF disk[q] = Old(p, KeyOf(Job(p)))[q] THEN [disk EXCEPT ![q] = NoEntry] ELSE disk
          /\ todo' = [todo EXCEPT ![p] = @ \ {q}]
    BY <1>17 DEF PruneUnlink, Drop
  <2>2. pc[p] = "unlink" /\ UNCHANGED <<pc, man, batch, at, was, kept>> /\ ~PlanRefuses(p)
    BY <1>17 DEF PruneUnlink, PlanRefuses, db
  <2>3. q \in Path /\ q \notin kept[p] /\ q \in Mine(KeyOf(j)) /\ todo[p] \subseteq Own(Old(p, KeyOf(Job(p)))) \ kept[p]
    BY <1>0, <1>1, <2>1, <2>2 DEF StandAt, Midway, Found, Own, Applying
  <2>4. \A r \in Path \ {q} : disk'[r] = disk[r]
    BY <1>0, <2>1 DEF Manifest
  <2>5. /\ Lasting(p) /\ b \in Batches /\ KeyOf(j) \in Key /\ at[p] \in I /\ j = b[at[p]]
        /\ \A i \in I : KeyOf(b[i]) \in Key
    BY <1>1, <2>2 DEF Applying
  <2>6. \A i \in I : Laid(p, i) /\ Recorded(p, i)
    BY <2>2 DEF Laid, Recorded, Later
  <2>7. q \notin Ships(b)
    BY <2>3, <2>5, <2>6 DEF Ships, Lasting
  <2>8. ASSUME NEW k \in Key, Readable(k) PROVE q \notin Own(man[k])
    <3>1. CASE k \in Keys(b)
      <4>1. PICK i \in I : k = KeyOf(b[i])
        BY <3>1 DEF Keys
      <4>2. Own(man[k]) \subseteq Own(b[i].ships) /\ Own(b[i].ships) \subseteq kept[p]
        BY <2>5, <2>6, <2>8, <4>1 DEF Lasting
      <4> QED
        BY <2>3, <4>2
    <3>2. CASE k \notin Keys(b)
      <4>1. KeyOf(j) \in Keys(b)
        BY <2>5 DEF Keys
      <4>2. q \notin Mine(k)
        BY <2>3, <2>5, <2>7, <3>2, <4>1 DEF Handed
      <4> QED
        BY <1>0, <2>8, <4>2 DEF Rightful
    <3> QED
      BY <3>1, <3>2
  <2>9. Rightful'
    BY <1>0, <2>2, <2>4, <2>8, RightfulKeeps, OwnType
  <2>10. Found(p)' /\ Lasting(p)'
    BY <1>6, <2>2 DEF Laid, Recorded, Applying
  <2>11. Own(Old(p, KeyOf(Job(p))))' = Own(Old(p, KeyOf(Job(p)))) /\ todo'[p] = todo[p] \ {q}
    BY <1>0, <2>1, <2>2 DEF Old, Job, KeyOf, Own
  <2>12. Midway(p)'
    BY <2>2, <2>3, <2>11 DEF Midway
  <2> QED
    BY <1>7, <2>2, <2>9, <2>10, <2>12
<1>18. CASE Enqueue(p)
  <2>1. pc[p] = "enqueue" /\ pc'[p] = "done" /\ UNCHANGED <<disk, man, was>> /\ ~PlanRefuses(p)
    BY <1>0, <1>18 DEF Enqueue, PlanRefuses, Goto, db, locals
  <2>2. Found(p)' /\ Midway(p)'
    BY <1>0, <2>1, FoundKeeps DEF Midway
  <2> QED
    BY <1>5, <1>7, <2>1, <2>2 DEF Applying
<1> QED
  BY <1>8, <1>9, <1>10, <1>11, <1>12, <1>13, <1>14, <1>15, <1>16, <1>17, <1>18 DEF Install

LEMMA StandRemove ==
  ASSUME Handed, "gc" \notin Ops, TypeInv, LockInv, WholeInv, SweptInv, StandInv, NEW p \in Proc, Past(p),
         Remove(p) \/ Gc(p) \/ Finish(p) \/ Kill(p)
  PROVE  StandInv'
<1> DEFINE R == Removing(p)
<1>0. /\ pc = [q \in Proc |-> pc[q]] /\ todo = [q \in Proc |-> todo[q]] /\ disk \in Manifest
      /\ was = [q \in Proc |-> was[q]] /\ going = [q \in Proc |-> going[q]] /\ going[p] \subseteq Key
      /\ man \in [Key -> Manifest \cup {NoRecord}] /\ NoRecord \notin Manifest /\ todo[p] \subseteq Path
      /\ Others(p) /\ Rightful /\ StandAt(p) /\ Found(p) /\ ByRequest(p) /\ Handles(p)
  BY StepOthers, ExitOthers, ConstantsAssumption
     DEF TypeInv, TypeOK, LocalsOK, Step, Kill, StandInv, StandAt, WholeInv
<1>1. ~Gc(p)
  <2>1. pc[p] \notin {"gc", "release"}
    BY DEF SweptInv, Swept
  <2> QED
    BY <2>1 DEF Gc, GcStart, GcRecord, GcSweep, GcDone
<1>2. ASSUME UNCHANGED <<disk, man>> PROVE Rightful'
  BY <1>0, <1>2, RightfulKeeps
<1>3. ASSUME Exit(p), UNCHANGED <<disk, man>> PROVE StandInv'
  BY <1>0, <1>2, <1>3, StandExit, StandInside
<1>4. ASSUME Rightful', Found(p)', op'[p] = op[p], pc[p] \in Leaving \cup {"check"},
             pc'[p] \in Leaving \cup {"done"}, going'[p] \subseteq going[p], Midway(p)'
      PROVE  StandInv'
  <2>1. ByRequest(p)' /\ pc'[p] \notin Applying
    BY <1>0, <1>4 DEF ByRequest, Leaving, Applying
  <2> QED
    BY <1>0, <1>4, <2>1, StandInside DEF StandAt
<1>5. ASSUME pc[p] \in Leaving \ {"pick"}
      PROVE  R \in Key /\ R.name \in Removable
  BY <1>0, <1>5 DEF Handles, ByRequest, Leaving
<1>6. CASE Finish(p) \/ Kill(p) \/ RemoveDies(p) \/ (RemoveCheck(p) /\ RemoveRefused(p))
  <2>1. Exit(p) /\ UNCHANGED <<disk, man>>
    BY <1>6 DEF Finish, Kill, RemoveDies, RemoveCheck, db
  <2> QED
    BY <1>3, <2>1
<1>7. CASE RemoveCheck(p) /\ ~RemoveRefused(p)
  <2>1. /\ pc[p] = "check" /\ pc'[p] = "pick" /\ going'[p] \subseteq going[p]
        /\ UNCHANGED <<disk, man, was, op>>
    BY <1>0, <1>7 DEF RemoveCheck, Goto, db
  <2> QED
    BY <1>0, <1>2, <1>4, <2>1, FoundKeeps DEF Leaving, Midway
<1>8. CASE RemovePick(p)
  <2>1. PICK k \in going[p] :
          /\ ~Unread(p, k.target)
          /\ was' = Set(was, p, [l \in Key |-> IF l = k THEN man[k] ELSE NoRecord])
          /\ todo' = Set(todo, p, Own(man[k]))
    BY <1>8 DEF RemovePick
  <2>2. pc[p] = "pick" /\ pc'[p] = "remove" /\ UNCHANGED <<disk, man, op, going>>
    BY <1>0, <1>8 DEF RemovePick, Goto, db
  <2>3. k \in Key /\ Readable(k)
    BY <1>0, <2>1 DEF Unread
  <2>4. was'[p] = [l \in Key |-> IF l = k THEN man[k] ELSE NoRecord] /\ todo'[p] = Own(man[k])
    BY <1>0, <2>1 DEF Set
  <2>5. Removing(p)' = k
    <3>1. \A l \in Key : was'[p][l] # NoRecord <=> l = k
      BY <2>3, <2>4 DEF Readable
    <3> QED
      BY <2>3, <3>1, Zenon DEF Removing
  <2>6. \A l \in Key : Old(p, l)' = IF l = k THEN man[k] ELSE Nothing
    BY <2>3, <2>4 DEF Old, Readable
  <2>7. Found(p)'
    <3>1. \A l \in Key : Own(Old(p, l))' \subseteq Mine(l)
      BY <1>0, <2>3, <2>6 DEF Rightful, Own, Nothing
    <3> QED
      BY <3>1, MineKeeps DEF Found
  <2>8. Own(Old(p, Removing(p)))' = Own(man[k])
    <3>1. Old(p, Removing(p))' = man[k]
      BY <2>3, <2>5, <2>6
    <3> QED
      BY <3>1 DEF Own
  <2>9. Midway(p)'
    BY <2>2, <2>4, <2>8 DEF Midway
  <2> QED
    BY <1>2, <1>4, <2>2, <2>7, <2>9 DEF Leaving
<1>9. CASE RemoveUnlink(p)
  <2>1. PICK q \in todo[p] :
          /\ disk' = IF disk[q] = Old(p, R)[q] THEN [disk EXCEPT ![q] = NoEntry] ELSE disk
          /\ todo' = [todo EXCEPT ![p] = @ \ {q}]
    BY <1>9 DEF RemoveUnlink, Drop
  <2>2. pc[p] = "remove" /\ UNCHANGED <<pc, man, was, op, going>>
    BY <1>9 DEF RemoveUnlink, db
  <2>3. R \in Key /\ R.name \in Removable
    BY <1>5, <2>2 DEF Leaving
  <2>4. todo[p] \subseteq Own(Old(p, R)) /\ q \in Mine(R) /\ q \in Path
    BY <1>0, <2>1, <2>2, <2>3 DEF StandAt, Midway, Found
  <2>5. \A r \in Path \ {q} : disk'[r] = disk[r]
    BY <1>0, <2>1, <2>4 DEF Manifest
  <2>6. ASSUME NEW k \in Key, Readable(k), k.name \notin Removable PROVE q \notin Own(man[k])
    <3>1. k # R
      BY <2>3, <2>6
    <3>2. q \notin Mine(k)
      BY <2>3, <2>4, <3>1 DEF Handed
    <3> QED
      BY <1>0, <2>6, <3>2 DEF Rightful
  <2>7. Rightful'
    BY <1>0, <2>2, <2>5, <2>6, RightfulKeeps, OwnType
  <2>8. Own(Old(p, Removing(p)))' = Own(Old(p, R)) /\ todo'[p] \subseteq todo[p]
    <3>1. Removing(p)' = R /\ \A k : Old(p, k)' = Old(p, k)
      BY <2>2, RemovingKeeps
    <3> QED
      BY <1>0, <2>1, <3>1 DEF Own
  <2>9. Midway(p)'
    BY <2>2, <2>4, <2>8 DEF Midway
  <2> QED
    BY <1>0, <1>4, <2>2, <2>7, <2>9, FoundKeeps DEF Leaving
<1>10. CASE ForgetProvides(p) \/ ForgetFiles(p) \/ ForgetDir(p)
  <2>1. /\ pc[p] \in {"remove", "forget", "rmdir"} /\ pc'[p] \in {"forget", "rmdir", "pick", "done"}
        /\ UNCHANGED <<disk, was, op>> /\ going'[p] \subseteq going[p]
        /\ man' = man \/ man' = [man EXCEPT ![R] = NoRecord]
    BY <1>0, <1>10 DEF ForgetProvides, ForgetFiles, ForgetDir, Goto, db, locals
  <2>2. \A k \in Key : man'[k] # NoRecord => man'[k] = man[k]
    BY <1>0, <2>1
  <2>3. Rightful'
    BY <1>0, <2>1, <2>2, MineKeeps DEF Rightful, Readable, Own
  <2> QED
    BY <1>0, <1>4, <2>1, <2>3, FoundKeeps DEF Leaving, Midway
<1> QED
  BY <1>1, <1>6, <1>7, <1>8, <1>9, <1>10 DEF Remove

LEMMA StandNext ==
  ASSUME Handed, "gc" \notin Ops, TypeInv, LockInv, WholeInv, SweptInv, StandInv, [Next]_vars
  PROVE  StandInv'
BY InsideOrOut, StandOutside, StandInstall, StandRemove

LEMMA StandInit == ASSUME Init PROVE StandInv
<1>1. ASSUME NEW p \in Proc PROVE StandAt(p)
  <2>1. \A k \in Key : Own(Old(p, k)) = {}
    BY DEF Init, Old, Own, Nothing
  <2> QED
    BY <2>1 DEF Init, StandAt, Found, ByRequest, Midway, Leaving, Applying
<1> QED
  BY <1>1 DEF Init, StandInv, Rightful, Readable

\* Whatever step comes next, a kill between any two durable ones and the second try after
\* it, forced or not: each file a record claims is there, unless its package may be removed,
\* and no edited config goes. It is for roots where gc is not run, whose configs are plain
\* files, and where a path two packages ship is in every batch either of them is in
\* (archive.rs apply, install.rs apply, prune and unlink, db.rs put).
THEOREM FilesSurvive ==
  ASSUME Handed, ConfigsPlain, "gc" \notin Ops PROVE Spec => Survives
<1>1. Init => StandInv
  BY StandInit
<1>2. Ground => TypeInv /\ LockInv /\ WholeInv /\ SweptInv
  BY DEF Ground
<1>3. TypeInv /\ LockInv /\ WholeInv /\ SweptInv /\ StandInv /\ [Next]_vars => StandInv'
  BY StandNext
<1>4. TypeInv /\ StandInv => FilesStand
  BY DEF TypeInv, TypeOK, StandInv, Rightful, FilesStand
<1>5. Spec => [][FilesStand']_vars
  BY GroundAlways, <1>1, <1>2, <1>3, <1>4, PTL DEF Spec
<1>6. Spec => EditKept
  BY EditsStay
<1> QED
  BY <1>5, <1>6 DEF Survives

----------------------------------------------------------------------------
(* How packages lay out their libraries. *)

Built == UNION {{b[i] : i \in 1..Len(b)} : b \in Batches}
Named(c, s) == IsFile(c) /\ Info[c].soname = s

\* Where the loader looks for a soname, a package ships the library or a link to a file of its
\* own; a library has its soname there, beside it; and what such a link leads to is that library
\* in every package that ships the path. Libraries are not under etc/.
Conventional ==
  \A s \in Soname : LET q == SoAt[s] IN
    /\ q \notin EtcPath
    /\ \A a \in Built : LET m == a.ships IN
         /\ m[q] # NoEntry => Named(m[q], s) \/ (IsLink(m[q]) /\ Info[m[q]].link \in Own(m))
         /\ \A r \in Path : Named(m[r], s) => m[q] # NoEntry /\ r \notin EtcPath
         /\ IsLink(m[q]) => \A b \in Built :
              LET r == Info[m[q]].link IN b.ships[r] # NoEntry => Named(b.ships[r], s)

\* A target's files link and hold sonames of that target alone, and a config links nothing:
\* each target has a search directory of its own, which SoAt stands for.
Homed ==
  /\ \A c \in Edits : Info[c].needs = {}
  /\ \E home \in [Soname -> Target] : \A a \in Built : \A q \in Own(a.ships) :
       LET i == Info[a.ships[q]]
       IN  (i.soname # NoEntry => home[i.soname] = a.target) /\ \A s \in i.needs : home[s] = a.target

----------------------------------------------------------------------------
(* Outside etc/ what is on disk came out of some archive, and a record or a
   preserved one is of its own package's archives. *)

ShippedBy(k) == {a.ships : a \in {b \in Built : KeyOf(b) = k}}
Made(d) == \A q \in Path \ EtcPath : d[q] # NoEntry => \E a \in Built : a.ships[q] = d[q]
MadeInv ==
  /\ Made(disk) /\ \A p \in Proc : Made(base[p])
  /\ kills = 0 => \A k \in Key :
       /\ Readable(k) => man[k] \in ShippedBy(k)
       /\ \A p \in Proc : was[p][k] # NoRecord => was[p][k] \in ShippedBy(k)
       /\ \A q \in Own(preserved[k]) : \E m \in ShippedBy(k) : m[q] = preserved[k][q]

----------------------------------------------------------------------------
(* An install: every soname a record gave up is carried by the job, shipped by
   the batch or kept back with its links. *)

Prunes(p) == pc[p] \in {"prune", "unlink", "enqueue"}
OldOf(p, i) == Old(p, KeyOf(batch[p][i]))

\* outside etc/ a job whose files are down has its own there
Whole(p) ==
  /\ \A i \in 1..Len(batch[p]) : Laid(p, i) =>
       \A q \in Own(batch[p][i].ships) \ EtcPath : disk[q] = batch[p][i].ships[q]
  /\ pc[p] = "extract" =>
       /\ skip[p] \subseteq EtcPath
       /\ \A q \in Own(Job(p).ships) \ (todo[p] \cup EtcPath) : disk[q] = Job(p).ships[q]
\* a soname in the provides of a job is that of a file it ships
Carries(p) ==
  \A i \in 1..Len(batch[p]) : Provided(p, i) =>
    \A x \in prov[KeyOf(batch[p][i])] : \E f \in Path : Named(batch[p][i].ships[f], x[1])
\* what is kept is shipped, or an old file of a job that was seen to
Shelf(p) ==
  \A q \in kept[p] : q \in Ships(batch[p])
                     \/ \E i \in 1..Len(batch[p]) : Saved(p, i) /\ q \in Own(OldOf(p, i))
\* a library of an old version whose soname is not carried stays, and its links do
Saves(p, i, r) ==
  \/ \E x \in prov[KeyOf(batch[p][i])] : x[1] = Info[base[p][r]].soname
  \/ r \in Ships(batch[p])
  \/ /\ r \in kept[p]
     /\ \A l \in Own(OldOf(p, i)) : IsLink(OldOf(p, i)[l]) /\ Info[OldOf(p, i)[l]].link = r => l \in kept[p]
Saving(p) ==
  \A i \in 1..Len(batch[p]) : Saved(p, i) => \A r \in Libraries(OldOf(p, i), base[p]) : Saves(p, i, r)
\* what no job ships goes only where an old version had it and nothing keeps it
Sparse(p) ==
  \A q \in Path \ Ships(batch[p]) :
    \/ disk[q] = base[p][q]
    \/ /\ Prunes(p) /\ disk[q] = NoEntry /\ q \notin kept[p]
       /\ \E i \in 1..Len(batch[p]) : q \in Own(OldOf(p, i)) /\ base[p][q] = OldOf(p, i)[q]

Keeping(p) == Parted(p) /\ Whole(p) /\ Carries(p) /\ Shelf(p) /\ Saving(p) /\ Sparse(p)

Loads(p) == \A s \in Soname : LoadedAt(base[p], s) # {} => LoadedAt(disk, s) # {}

LibAt(p) ==
  /\ Works(p) => pc[p] # "disown" /\ Keeping(p)
  /\ pc[p] = "done" /\ op[p] = "install" => Loads(p)

----------------------------------------------------------------------------
(* A gc takes nothing the loader opens for what an installed file links. *)

\* an installed file linked s when the command began
Asked(p, s) == \E k \in dirs : Readable(k) /\ \E f \in Seen(man[k], base[p]) : s \in Info[base[p][f]].needs
Opened(d, s) == {SoAt[s]} \cup LoadedAt(d, s)
Free(p, q) == \A s \in Soname : Asked(p, s) /\ LoadedAt(base[p], s) # {} => q \notin Opened(base[p], s)
GcAt(p) ==
  pc[p] = "release" \/ (pc[p] = "done" /\ op[p] = "gc") =>
    /\ \A q \in Path : disk[q] = base[p][q] \/ (disk[q] = NoEntry /\ Free(p, q))
    /\ pc[p] = "release" => \A q \in todo[p] : Free(p, q)
    /\ pc[p] = "release" /\ going[p] # {} => disk = base[p]

----------------------------------------------------------------------------
(* A removal: what it takes of the rest was taken for there by a preserved
   record. G is what the records it was to remove said, taken together `gone`. *)

Removes(p) == pc[p] \in {"pick", "remove", "forget", "rmdir"} \/ (pc[p] = "done" /\ op[p] = "remove")
\* the file q of g's record has been seen to
Cut(p, g, q) ==
  \/ g \notin going[p]
  \/ pc[p] \in {"forget", "rmdir"} /\ g = Removing(p)
  \/ pc[p] = "remove" /\ g = Removing(p) /\ q \notin todo[p]
Story(p, gone, G) ==
  /\ G \in [Key -> Manifest] /\ gone \subseteq Key
  /\ going[p] \subseteq gone /\ (\A k \in dirs \cap gone : k \in going[p])
  /\ \A k \in going[p] : Readable(k) => man[k] = G[k]
  /\ \A g \in gone : \A q \in Own(G[g]) : Cut(p, g, q) => disk[q] # G[g][q]
  /\ \A q \in Path : disk[q] = base[p][q]
                     \/ (disk[q] = NoEntry /\ \E g \in gone : q \in Own(G[g]) /\ base[p][q] = G[g][q])
  /\ \A s \in Soname : \A g \in gone : \A q \in Own(G[g]) :
       (\E k \in dirs \ gone : Readable(k) /\ \E f \in Seen(man[k], base[p]) : s \in Info[base[p][f]].needs)
         /\ LoadedAt(base[p], s) # {} /\ q \in Opened(base[p], s) /\ base[p][q] = G[g][q]
       => /\ SoAt[s] \in Own(G[g]) /\ base[p][SoAt[s]] = G[g][SoAt[s]]
          /\ \E l \in Key : SoAt[s] \in Own(preserved[l])
RemAt(p) == Removes(p) => \E gone, G : Story(p, gone, G)

\* which command a process is in, and that it has nothing to visit as it begins or, a removal,
\* as it ends
Ruled(p) ==
  /\ pc[p] \in Applying \cup {"plan", "enqueue"} => op[p] = "install"
  /\ pc[p] \in Leaving \cup {"check"} => op[p] = "remove"
  /\ pc[p] \in {"gc", "release"} => op[p] = "gc"
  /\ pc[p] = "done" => op[p] \in {"install", "remove", "gc"}
  /\ pc[p] \in {"idle", "lock", "gc"} => todo[p] = {}
  /\ pc[p] = "done" /\ op[p] = "remove" => going[p] = {}
RuledInv == \A p \in Proc : Ruled(p)

LibInv == kills = 0 => \A p \in Proc : Past(p) => LibAt(p) /\ GcAt(p) /\ RemAt(p)

----------------------------------------------------------------------------
(* Each of the invariants is kept: first what commands a process can be in. *)

LEMMA RuledInside == ASSUME RuledInv, NEW p \in Proc, Others(p), Ruled(p)' PROVE RuledInv'
BY DEF RuledInv, Ruled, Others

LEMMA RuledNext == ASSUME TypeInv, RuledInv, [Next]_vars PROVE RuledInv'
<1> USE DEF TypeInv, TypeOK, LocalsOK, RuledInv, Ruled, Leaving, Applying
<1>1. CASE UNCHANGED vars \/ Edit
  BY <1>1 DEF vars, Edit, locals
<1>2. ASSUME NEW p \in Proc, Exit(p) PROVE RuledInv'
  <2>1. /\ pc' = [pc EXCEPT ![p] = "idle"] /\ op' = [op EXCEPT ![p] = "none"]
        /\ todo' = [todo EXCEPT ![p] = {}] /\ going' = [going EXCEPT ![p] = {}]
    BY <1>2 DEF Exit, Goto, Set
  <2> QED
    BY <2>1
<1>3. ASSUME NEW p \in Proc, BeginInstall(p) \/ BeginRemove(p) \/ BeginGc(p) PROVE RuledInv'
  <2>1. /\ pc' = [pc EXCEPT ![p] = "lock"] /\ todo' = todo /\ pc[p] = "idle"
        /\ \E o \in {"install", "remove", "gc"} : op' = [op EXCEPT ![p] = o]
        /\ \A r \in Proc \ {p} : going'[r] = going[r]
    BY <1>3 DEF BeginInstall, BeginRemove, BeginGc, Begin, Goto, Set
  <2> QED
    BY <2>1
<1>4. ASSUME NEW p \in Proc, Lock(p) PROVE RuledInv'
  BY <1>4 DEF Lock, Goto, locals
<1>5. ASSUME NEW p \in Proc, Gc(p) PROVE RuledInv'
  <2>1. op'[p] = op[p] /\ pc[p] \in {"gc", "release"} /\ pc'[p] \in {"release", "done"}
    BY <1>5 DEF Gc, GcStart, GcRecord, GcSweep, GcDone, Goto, locals
  <2>2. Others(p)
    BY <1>5, StepOthers DEF Step
  <2>3. Ruled(p)'
    BY <2>1
  <2> QED
    BY <2>2, <2>3, RuledInside
<1>6. ASSUME NEW p \in Proc, Finish(p) \/ Kill(p) PROVE RuledInv'
  BY <1>2, <1>6 DEF Finish, Kill
<1>7. ASSUME NEW p \in Proc, Remove(p) PROVE RuledInv'
  BY <1>2, <1>7 DEF Remove, RemoveCheck, RemoveDies, RemovePick, RemoveUnlink, Drop, ForgetProvides,
     ForgetFiles, ForgetDir, Goto, Set, locals
<1>8. ASSUME NEW p \in Proc, Install(p) PROVE RuledInv'
  <2>1. CASE PlanRefuses(p)
    BY <1>2, <2>1 DEF PlanRefuses
  <2>2. CASE ~PlanRefuses(p)
    <3>1. /\ op'[p] = op[p] /\ pc[p] \in Applying \cup {"plan", "enqueue"}
          /\ pc'[p] \in Applying \cup {"enqueue", "done"}
      BY <1>8, <2>2 DEF Install, ApplyStart, JobStart, Extract, PutHead, PutManifest,
         PutProvides, Preserve, Dispossess, Disown, DispossessDone, PruneStart, PruneUnlink, PruneDone,
         Enqueue, Advance, Goto, locals
    <3>2. Others(p)
      BY <1>8, StepOthers DEF Step
    <3>3. Ruled(p)'
      BY <3>1
    <3> QED
      BY <3>2, <3>3, RuledInside
  <2> QED
    BY <2>1, <2>2
<1> QED
  BY <1>1, <1>3, <1>4, <1>5, <1>6, <1>7, <1>8 DEF Next, Step

----------------------------------------------------------------------------
(* What is on disk and in the records came out of archives. *)

LEMMA JobBuilt ==
  ASSUME TypeInv, NEW p \in Proc, batch[p] \in Batches, NEW i \in 1..Len(batch[p])
  PROVE  batch[p][i] \in Built /\ batch[p][i].ships \in ShippedBy(KeyOf(batch[p][i]))
<1>1. batch[p][i] \in Built
  BY DEF Built
<1> QED
  BY <1>1 DEF ShippedBy

LEMMA MadeKeeps ==
  ASSUME TypeInv, MadeInv, kills' = 0 => kills = 0,
         \A q \in Path \ EtcPath :
           disk'[q] = disk[q] \/ disk'[q] = NoEntry \/ \E a \in Built : a.ships[q] = disk'[q],
         \A p \in Proc : base'[p] = base[p] \/ base'[p] = disk \/ base'[p] = Nothing,
         kills = 0 => \A k \in Key :
           /\ man'[k] = man[k] \/ man'[k] = NoRecord \/ man'[k] \in ShippedBy(k)
           /\ \A p \in Proc : was'[p][k] \in {was[p][k], NoRecord, man[k]}
           /\ \A q \in Own(preserved'[k]) :
                \/ q \in Own(preserved[k]) /\ preserved'[k][q] = preserved[k][q]
                \/ \E p \in Proc : was[p][k] # NoRecord /\ was[p][k][q] = preserved'[k][q]
  PROVE  MadeInv'
<1>1. Made(disk)'
  BY DEF MadeInv, Made
<1>2. ASSUME NEW p \in Proc PROVE Made(base[p])'
  <2>1. Made(base[p]) /\ Made(disk) /\ Made(Nothing)
    BY DEF MadeInv, Made, Nothing
  <2> QED
    BY <2>1 DEF Made
<1>3. ASSUME kills' = 0, NEW k \in Key
      PROVE  /\ Readable(k)' => man'[k] \in ShippedBy(k)
             /\ \A p \in Proc : was'[p][k] # NoRecord => was'[p][k] \in ShippedBy(k)
             /\ \A q \in Own(preserved'[k]) : \E m \in ShippedBy(k) : m[q] = preserved'[k][q]
  <2>1. /\ Readable(k) => man[k] \in ShippedBy(k)
        /\ \A p \in Proc : was[p][k] # NoRecord => was[p][k] \in ShippedBy(k)
        /\ \A q \in Own(preserved[k]) : \E m \in ShippedBy(k) : m[q] = preserved[k][q]
    BY <1>3 DEF MadeInv
  <2> QED
    BY <1>3, <2>1 DEF Readable
<1>4. \A k : Own(preserved[k])' = Own(preserved'[k]) /\ ShippedBy(k)' = ShippedBy(k)
  BY DEF Own, ShippedBy, Built
<1> QED
  BY <1>1, <1>2, <1>3, <1>4 DEF MadeInv

LEMMA MadeInstall ==
  ASSUME TypeInv, SparedInv, NoForce, LayInv, MadeInv, NEW p \in Proc, Past(p), Install(p)
  PROVE  MadeInv'
<1>0. /\ disk \in Manifest /\ man \in [Key -> Manifest \cup {NoRecord}]
      /\ preserved \in [Key -> Manifest] /\ UNCHANGED kills
      /\ was \in [Proc -> [Key -> Manifest \cup {NoRecord}]] /\ base \in [Proc -> Manifest]
      /\ \A r \in Proc \ {p} : was'[r] = was[r] /\ base'[r] = base[r]
  <2>1. UNCHANGED kills
    BY DEF Install, PlanRefuses, ApplyStart, JobStart, Extract, PutHead, PutManifest,
       PutProvides, Preserve, Dispossess, Disown, DispossessDone, PruneStart, PruneUnlink, PruneDone,
       Enqueue, counts
  <2>2. Others(p)
    BY StepOthers DEF Step
  <2> QED
    BY <2>1, <2>2 DEF TypeInv, TypeOK, LocalsOK, Others
<1>1. ASSUME pc[p] \in Applying
      PROVE  /\ Job(p).ships \in Manifest /\ KeyOf(Job(p)) \in Key
             /\ Job(p) \in Built /\ Job(p).ships \in ShippedBy(KeyOf(Job(p)))
  BY <1>1, OnJob, JobBuilt
<1>2. CASE PlanRefuses(p)
  <2>1. UNCHANGED <<disk, man, preserved>> /\ was'[p] = [k \in Key |-> NoRecord] /\ base'[p] = Nothing
    BY <1>0, <1>2 DEF PlanRefuses, Exit, Set, db
  <2> QED
    BY <1>0, <2>1, MadeKeeps
<1>3. CASE ApplyStart(p)
  <2>1. UNCHANGED <<disk, man, preserved>> /\ was'[p] = man /\ base'[p] = disk
    BY <1>0, <1>3 DEF ApplyStart, Set, db
  <2> QED
    BY <1>0, <2>1, MadeKeeps
<1>4. CASE \/ JobStart(p) \/ PutHead(p) \/ PutProvides(p) \/ Disown(p) \/ DispossessDone(p)
           \/ PruneStart(p) \/ PruneDone(p) \/ Enqueue(p)
  <2>1. UNCHANGED <<disk, man, preserved, was, base>>
    BY <1>4 DEF JobStart, PutHead, PutProvides, Disown, DispossessDone, PruneStart, PruneDone,
       Enqueue, db, locals
  <2> QED
    BY <1>0, <2>1, MadeKeeps
<1>5. CASE Extract(p)
  <2>1. pc[p] = "extract" /\ UNCHANGED <<man, preserved, was, base>>
    BY <1>5 DEF Extract, db
  <2>2. PICK q \in todo[p] : disk' = IF q \in skip[p] THEN disk ELSE [disk EXCEPT ![q] = Job(p).ships[q]]
    BY <1>5 DEF Extract
  <2>3. \A r \in Path : disk'[r] = disk[r] \/ disk'[r] = Job(p).ships[r]
    BY <1>0, <2>2 DEF Manifest
  <2>4. Job(p) \in Built
    BY <1>1, <2>1 DEF Applying
  <2> QED
    BY <1>0, <2>1, <2>3, <2>4, MadeKeeps
<1>6. CASE PutManifest(p)
  <2>1. /\ pc[p] = "manifest" /\ UNCHANGED <<disk, preserved, was, base>>
        /\ man' = [man EXCEPT ![KeyOf(Job(p))] = Job(p).ships]
    BY <1>6 DEF PutManifest, locals
  <2>2. KeyOf(Job(p)) \in Key /\ Job(p).ships \in ShippedBy(KeyOf(Job(p)))
    BY <1>1, <2>1 DEF Applying
  <2>3. \A k \in Key : man'[k] = man[k] \/ man'[k] \in ShippedBy(k)
    BY <1>0, <2>1, <2>2
  <2> QED
    BY <1>0, <2>1, <2>3, MadeKeeps
<1>7. CASE Preserve(p)
  <2> DEFINE K == KeyOf(Job(p))
             had == Own(preserved[K]) \ kept[p]
             all == [q \in Path |-> IF q \in had THEN preserved[K][q]
                                    ELSE IF q \in Held(p) THEN Old(p, K)[q] ELSE NoEntry]
  <2>1. /\ pc[p] = "preserve" /\ UNCHANGED <<disk, man, was, base>>
        /\ preserved' = preserved \/ preserved' = [preserved EXCEPT ![K] = all]
    BY <1>7 DEF Preserve
  <2>2. K \in Key
    BY <1>1, <2>1 DEF Applying
  <2>3. ASSUME NEW q \in Own(all)
        PROVE  \/ q \in Own(preserved[K]) /\ all[q] = preserved[K][q]
               \/ was[p][K] # NoRecord /\ was[p][K][q] = all[q]
    <3>1. q \in Path /\ all[q] # NoEntry
      BY DEF Own
    <3>2. CASE q \in had
      BY <3>1, <3>2
    <3>3. CASE q \notin had
      <4>1. q \in Held(p) /\ all[q] = Old(p, K)[q]
        BY <3>1, <3>3
      <4>2. was[p][K] # NoRecord
        BY <3>1, <4>1 DEF Old, Nothing
      <4>3. Old(p, K) = was[p][K]
        BY <4>2 DEF Old
      <4> QED
        BY <4>1, <4>2, <4>3
    <3> QED
      BY <3>2, <3>3
  <2> HIDE DEF all, K
  <2>4. \A k \in Key : \A q \in Own(preserved'[k]) :
          \/ q \in Own(preserved[k]) /\ preserved'[k][q] = preserved[k][q]
          \/ was[p][k] # NoRecord /\ was[p][k][q] = preserved'[k][q]
    BY <1>0, <2>1, <2>2, <2>3
  <2> QED
    BY <1>0, <2>1, <2>4, MadeKeeps
<1>8. CASE Dispossess(p)
  <2>1. pc[p] = "dispossess" /\ UNCHANGED <<disk, preserved, was, base>> /\ \E k \in Losers(p) : TRUE
    BY <1>8 DEF Dispossess
  <2>2. kills # 0
    BY <2>1, NoLosers
  <2> QED
    BY <1>0, <2>1, <2>2, MadeKeeps
<1>9. CASE PruneUnlink(p)
  <2>1. UNCHANGED <<man, preserved, was, base>>
    BY <1>9 DEF PruneUnlink, db
  <2>2. \A r \in Path : disk'[r] = disk[r] \/ disk'[r] = NoEntry
    BY <1>0, <1>9 DEF PruneUnlink, Drop, Manifest
  <2> QED
    BY <1>0, <2>1, <2>2, MadeKeeps
<1> QED
  BY <1>2, <1>3, <1>4, <1>5, <1>6, <1>7, <1>8, <1>9 DEF Install

LEMMA MadeRemove ==
  ASSUME TypeInv, MadeInv, NEW p \in Proc, Past(p), Remove(p) \/ Gc(p) \/ Finish(p) \/ Kill(p)
  PROVE  MadeInv'
<1>0. /\ disk \in Manifest /\ man \in [Key -> Manifest \cup {NoRecord}]
      /\ preserved \in [Key -> Manifest] /\ kills \in Nat
      /\ was \in [Proc -> [Key -> Manifest \cup {NoRecord}]] /\ base \in [Proc -> Manifest]
      /\ Others(p)
  BY StepOthers, ExitOthers DEF TypeInv, TypeOK, LocalsOK, Step, Kill
<1>1. \A r \in Proc \ {p} : was'[r] = was[r] /\ base'[r] = base[r]
  BY <1>0 DEF Others
<1>2. Exit(p) => was'[p] = [k \in Key |-> NoRecord] /\ base'[p] = Nothing
  BY <1>0 DEF Exit, Set
<1>3. ASSUME UNCHANGED <<disk, man, preserved>>, kills' \in {kills, kills + 1}, base'[p] \in {base[p], disk, Nothing},
             \/ was'[p] = was[p] \/ was'[p] = [k \in Key |-> NoRecord]
             \/ \E k \in Key : was'[p] = [l \in Key |-> IF l = k THEN man[k] ELSE NoRecord]
      PROVE  MadeInv'
  <2>1. \A k \in Key : was'[p][k] \in {was[p][k], NoRecord, man[k]}
    BY <1>3
  <2>2. kills' = 0 => kills = 0
    BY <1>0, <1>3
  <2> QED
    BY <1>0, <1>1, <1>3, <2>1, <2>2, MadeKeeps
<1>4. CASE Kill(p) \/ Finish(p) \/ RemoveDies(p) \/ RemoveCheck(p)
  <2>1. UNCHANGED <<disk, man, preserved>> /\ kills' \in {kills, kills + 1}
    BY <1>4 DEF Kill, Finish, RemoveDies, RemoveCheck, db, counts
  <2>2. Exit(p) \/ (base'[p] = disk /\ was' = was)
    BY <1>0, <1>4 DEF Kill, Finish, RemoveDies, RemoveCheck, Set
  <2> QED
    BY <1>2, <1>3, <2>1, <2>2
<1>5. CASE RemovePick(p)
  <2>1. UNCHANGED <<disk, man, preserved, base, kills>>
    BY <1>5 DEF RemovePick, db, counts
  <2>2. \E k \in Key : was'[p] = [l \in Key |-> IF l = k THEN man[k] ELSE NoRecord]
    <3>1. PICK k \in going[p] : was' = Set(was, p, [l \in Key |-> IF l = k THEN man[k] ELSE NoRecord])
      BY <1>5 DEF RemovePick
    <3>2. k \in Key
      BY <3>1 DEF TypeInv, TypeOK, LocalsOK
    <3> QED
      BY <1>0, <3>1, <3>2 DEF Set
  <2> QED
    BY <1>3, <2>1, <2>2
<1>6. CASE ForgetProvides(p) \/ ForgetDir(p) \/ GcDone(p)
  BY <1>3, <1>6 DEF ForgetProvides, ForgetDir, GcDone, db, locals, counts
<1>7. CASE GcStart(p)
  BY <1>0, <1>3, <1>7 DEF GcStart, Set, db, counts
<1>8. CASE RemoveUnlink(p) \/ GcSweep(p)
  <2>1. UNCHANGED <<man, preserved, was, base, kills>>
    BY <1>8 DEF RemoveUnlink, GcSweep, db, counts
  <2>2. \A r \in Path : disk'[r] = disk[r] \/ disk'[r] = NoEntry
    BY <1>0, <1>8 DEF RemoveUnlink, Drop, GcSweep, Manifest
  <2> QED
    BY <1>0, <2>1, <2>2, MadeKeeps
<1>9. CASE ForgetFiles(p)
  <2>1. UNCHANGED <<disk, preserved, was, base, kills>> /\ man' = [man EXCEPT ![Removing(p)] = NoRecord]
    BY <1>9 DEF ForgetFiles, locals, counts
  <2>2. \A k \in Key : man'[k] = man[k] \/ man'[k] = NoRecord
    BY <1>0, <2>1
  <2> QED
    BY <1>0, <2>1, <2>2, MadeKeeps
<1>10. CASE GcRecord(p)
  <2>1. UNCHANGED <<disk, man, was, base, kills>>
    BY <1>10 DEF GcRecord, counts
  <2>2. PICK k \in going[p] : \E out \in SUBSET Own(preserved[k]) :
          preserved' = [preserved EXCEPT ![k] = Restricted(preserved[k], Own(preserved[k]) \ out)]
    BY <1>10, GcReleases
  <2>3. k \in Key
    BY <2>2 DEF TypeInv, TypeOK, LocalsOK
  <2>4. ASSUME NEW l \in Key, NEW q \in Own(preserved'[l])
        PROVE  q \in Own(preserved[l]) /\ preserved'[l][q] = preserved[l][q]
    BY <1>0, <2>2, <2>3, <2>4 DEF Restricted, Own
  <2> QED
    BY <1>0, <2>1, <2>4, MadeKeeps
<1> QED
  BY <1>4, <1>5, <1>6, <1>7, <1>8, <1>9, <1>10 DEF Remove, Gc

LEMMA MadeOutside == ASSUME TypeInv, LockInv, MadeInv, Outside PROVE MadeInv'
<1>1. /\ UNCHANGED <<man, preserved>> /\ (kills' = 0 => kills = 0)
      /\ \A p \in Proc : /\ was'[p] = was[p] \/ was'[p] = [k \in Key |-> NoRecord]
                         /\ base'[p] = base[p] \/ base'[p] = Nothing
  BY OutsideKeeps DEF db
<1>2. \A q \in Path \ EtcPath : disk'[q] = disk[q]
  BY DEF Outside, vars, Edit, BeginInstall, BeginRemove, BeginGc, Begin, Lock, Kill, TypeInv, TypeOK, Manifest
<1>3. \A p \in Proc, k \in Key : was'[p][k] \in {was[p][k], NoRecord, man[k]}
  BY <1>1
<1> QED
  BY <1>1, <1>2, <1>3, MadeKeeps

LEMMA MadeNext ==
  ASSUME TypeInv, LockInv, SparedInv, NoForce, LayInv, MadeInv, [Next]_vars PROVE MadeInv'
BY InsideOrOut, MadeOutside, MadeInstall, MadeRemove

LEMMA MadeInit == ASSUME Init PROVE MadeInv
BY DEF Init, MadeInv, Made, Nothing, Own, Readable

----------------------------------------------------------------------------
(* What an install keeps back. *)

LEMMA OldOfKeeps ==
  ASSUME NEW p \in Proc, was'[p] = was[p], base'[p] = base[p], batch'[p] = batch[p]
  PROVE  /\ \A k : Old(p, k)' = Old(p, k)
         /\ \A i : OldOf(p, i)' = OldOf(p, i) /\ Libraries(OldOf(p, i), base[p])' = Libraries(OldOf(p, i), base[p])
<1>1. \A k : Old(p, k)' = Old(p, k)
  BY DEF Old
<1>2. \A i : OldOf(p, i)' = OldOf(p, i)
  BY <1>1 DEF OldOf, KeyOf, Old
<1> QED
  BY <1>1, <1>2 DEF Libraries, Seen, Own

\* a step that changes no file and begins no job's files, provides or libraries
LEMMA KeepingSame ==
  ASSUME NEW p \in Proc, Keeping(p), UNCHANGED disk,
         was'[p] = was[p], base'[p] = base[p], batch'[p] = batch[p], kept'[p] = kept[p],
         \A i \in 1..Len(batch[p]) :
           /\ Laid(p, i)' => Laid(p, i)
           /\ Provided(p, i)' => Provided(p, i)
           /\ prov'[KeyOf(batch[p][i])] = prov[KeyOf(batch[p][i])]
           /\ Saved(p, i)' <=> Saved(p, i),
         pc'[p] = "extract" => skip'[p] \subseteq EtcPath /\ Own(Job(p).ships)' \subseteq todo'[p],
         Prunes(p) => Prunes(p)'
  PROVE  Keeping(p)'
<1>1. /\ \A k : Old(p, k)' = Old(p, k)
      /\ \A i : OldOf(p, i)' = OldOf(p, i) /\ Libraries(OldOf(p, i), base[p])' = Libraries(OldOf(p, i), base[p])
  BY OldOfKeeps
<1>2. Parted(p)'
  BY <1>1 DEF Keeping, Parted, Own
<1>3. Whole(p)'
  BY DEF Keeping, Whole, Own
<1>4. Carries(p)'
  BY DEF Keeping, Carries, Named, KeyOf
<1>5. Shelf(p)'
  BY <1>1 DEF Keeping, Shelf, Ships, Own
<1>6. Saving(p)'
  BY <1>1 DEF Keeping, Saving, Saves, Ships, Own, KeyOf
<1>7. Sparse(p)'
  BY <1>1 DEF Keeping, Sparse, Ships, Own
<1> QED
  BY <1>2, <1>3, <1>4, <1>5, <1>6, <1>7 DEF Keeping

LEMMA KeepingStart ==
  ASSUME TypeInv, ExclInv, WholeInv, SweptInv, kills = 0, LockInv, NEW p \in Proc, ApplyStart(p)
  PROVE  Keeping(p)'
<1>1. /\ pc[p] = "plan" /\ pc'[p] = "job" /\ was'[p] = man /\ base'[p] = disk /\ at[p] = 1
      /\ kept[p] = {} /\ UNCHANGED <<disk, batch, kept, at>>
  BY DEF ApplyStart, Goto, Set, TypeInv, TypeOK, LocalsOK, SweptInv, Swept
<1>2. \A k : Old(p, k)' = IF Readable(k) THEN man[k] ELSE Nothing
  BY <1>1 DEF Old, Readable
<1>3. Disjoint(dirs) /\ Listed
  BY <1>1 DEF ExclInv, WholeInv, LockInv, Past, Middle
<1>4. Parted(p)'
  <2> SUFFICES ASSUME NEW k \in Key, NEW l \in Key, k # l PROVE Own(Old(p, k)') \cap Own(Old(p, l)') = {}
    BY DEF Parted, Own
  <2>1. CASE Readable(k) /\ Readable(l)
    BY <1>2, <1>3, <2>1 DEF Disjoint, Listed
  <2>2. CASE ~Readable(k) \/ ~Readable(l)
    BY <1>2, <2>2 DEF Own, Nothing
  <2> QED
    BY <2>1, <2>2
<1>5. \A i \in 1..Len(batch[p]) : ~Laid(p, i)' /\ ~Provided(p, i)' /\ ~Saved(p, i)'
  BY <1>1 DEF Laid, Provided, Saved, Later
<1>6. Whole(p)' /\ Carries(p)' /\ Saving(p)'
  BY <1>1, <1>5 DEF Whole, Carries, Saving
<1>7. Shelf(p)' /\ Sparse(p)'
  BY <1>1 DEF Shelf, Sparse
<1> QED
  BY <1>4, <1>6, <1>7 DEF Keeping

LEMMA KeepingExtract ==
  ASSUME TypeInv, SparedInv, NoForce, LayInv, kills = 0, NEW p \in Proc, Keeping(p), Extract(p)
  PROVE  Keeping(p)'
<1>1. PICK q \in todo[p] :
        /\ todo' = [todo EXCEPT ![p] = @ \ {q}]
        /\ disk' = IF q \in skip[p] THEN disk ELSE [disk EXCEPT ![q] = Job(p).ships[q]]
  BY DEF Extract
<1>2. /\ pc[p] = "extract" /\ UNCHANGED <<pc, prov, was, base, skip, batch, at, kept>>
  BY DEF Extract, db
<1> DEFINE b == batch[p]
           I == 1..Len(b)
<1>3. /\ at[p] \in I /\ Job(p) = b[at[p]]
      /\ todo[p] \subseteq Own(Job(p).ships) /\ Own(Job(p).ships) \subseteq Ships(b)
      /\ \A i \in I : i # at[p] => Own(b[i].ships) \cap Own(Job(p).ships) = {}
  BY <1>2, JobFacts DEF Applying, Ranged
<1>4. /\ todo'[p] = todo[p] \ {q} /\ q \in Own(Job(p).ships) /\ q \in Path
      /\ (\A r \in Path \ {q} : disk'[r] = disk[r])
      /\ q \notin skip[p] => disk'[q] = Job(p).ships[q]
  <2>1. disk \in Manifest /\ todo[p] \subseteq Path /\ todo'[p] = todo[p] \ {q}
    BY <1>1 DEF TypeInv, TypeOK, LocalsOK
  <2> QED
    BY <1>1, <1>3, <2>1 DEF Manifest
<1>5. /\ \A k : Old(p, k)' = Old(p, k)
      /\ \A i : OldOf(p, i)' = OldOf(p, i) /\ Libraries(OldOf(p, i), base[p])' = Libraries(OldOf(p, i), base[p])
  BY <1>2, OldOfKeeps
<1>6. \A i \in I : /\ Laid(p, i)' <=> Laid(p, i)
                   /\ Provided(p, i)' <=> Provided(p, i)
                   /\ Saved(p, i)' <=> Saved(p, i)
                   /\ Laid(p, i) => i # at[p]
  BY <1>2, <1>3 DEF Laid, Provided, Saved, Later
<1>7. Parted(p)'
  BY <1>5 DEF Keeping, Parted, Own
<1>8. Whole(p)'
  <2>1. ASSUME NEW i \in I, Laid(p, i), NEW r \in Own(b[i].ships) \ EtcPath PROVE disk'[r] = b[i].ships[r]
    <3>1. r # q /\ r \in Path
      BY <1>3, <1>4, <1>6, <2>1, OwnType
    <3> QED
      BY <1>4, <2>1, <3>1 DEF Keeping, Whole
  <2>2. skip[p] \subseteq EtcPath
        /\ \A r \in Own(Job(p).ships) \ (todo[p] \cup EtcPath) : disk[r] = Job(p).ships[r]
    BY <1>2 DEF Keeping, Whole
  <2>3. ASSUME NEW r \in Own(Job(p).ships) \ (todo'[p] \cup EtcPath) PROVE disk'[r] = Job(p).ships[r]
    BY <1>4, <2>2, OwnType
  <2>4. Job(p)' = Job(p)
    BY <1>2 DEF Job
  <2> QED
    BY <1>2, <1>6, <2>1, <2>2, <2>3, <2>4 DEF Whole, Own
<1>9. Carries(p)'
  BY <1>2, <1>6 DEF Keeping, Carries, Named, KeyOf
<1>10. Shelf(p)'
  BY <1>2, <1>5, <1>6 DEF Keeping, Shelf, Ships, Own
<1>11. Saving(p)'
  BY <1>2, <1>5, <1>6 DEF Keeping, Saving, Saves, Ships, Own, KeyOf
<1>12. Sparse(p)'
  BY <1>2, <1>3, <1>4, <1>5 DEF Keeping, Sparse, Ships, Own, Prunes
<1> QED
  BY <1>7, <1>8, <1>9, <1>10, <1>11, <1>12 DEF Keeping

LEMMA KeepingHead ==
  ASSUME TypeInv, SparedInv, NoForce, LayInv, kills = 0, NEW p \in Proc, Keeping(p), PutHead(p)
  PROVE  Keeping(p)'
<1> DEFINE b == batch[p]
           I == 1..Len(b)
<1>1. /\ pc[p] = "extract" /\ pc'[p] = "manifest" /\ todo[p] = {}
      /\ kept'[p] = kept[p] \cup Own(Job(p).ships)
      /\ UNCHANGED <<disk, prov, was, base, batch, at>>
  BY DEF PutHead, Goto, TypeInv, TypeOK, LocalsOK
<1>2. at[p] \in I /\ Job(p) = b[at[p]] /\ Own(Job(p).ships) \subseteq Ships(b)
  BY <1>1, JobFacts DEF Applying
<1>3. /\ \A k : Old(p, k)' = Old(p, k)
      /\ \A i : OldOf(p, i)' = OldOf(p, i) /\ Libraries(OldOf(p, i), base[p])' = Libraries(OldOf(p, i), base[p])
  BY <1>1, OldOfKeeps
<1>4. \A i \in I : /\ Laid(p, i)' => Laid(p, i) \/ i = at[p]
                   /\ Provided(p, i)' => Provided(p, i)
                   /\ ~Saved(p, i)' /\ ~Saved(p, i)
  BY <1>1, <1>2, JobFacts DEF Laid, Provided, Saved, Later, Applying
<1>5. Parted(p)'
  BY <1>3 DEF Keeping, Parted, Own
<1>6. Whole(p)'
  <2>1. ASSUME NEW i \in I, Laid(p, i)', NEW q \in Own(b[i].ships) \ EtcPath PROVE disk[q] = b[i].ships[q]
    BY <1>1, <1>2, <1>4, <2>1 DEF Keeping, Whole
  <2> QED
    BY <1>1, <2>1 DEF Whole, Own
<1>7. Carries(p)'
  BY <1>1, <1>4 DEF Keeping, Carries, Named, KeyOf
<1>8. Shelf(p)'
  BY <1>1, <1>2, <1>4 DEF Keeping, Shelf, Ships, Own
<1>9. Saving(p)'
  BY <1>1, <1>4 DEF Saving
<1>10. Sparse(p)'
  BY <1>1, <1>3 DEF Keeping, Sparse, Ships, Own, Prunes
<1> QED
  BY <1>5, <1>6, <1>7, <1>8, <1>9, <1>10 DEF Keeping

\* what the provides of the job say is what it shipped
LEMMA KeepingProvides ==
  ASSUME TypeInv, SparedInv, NoForce, LayInv, EditInv, kills = 0, NEW p \in Proc, Keeping(p), PutProvides(p)
  PROVE  Keeping(p)'
<1> DEFINE b == batch[p]
           I == 1..Len(b)
           K == KeyOf(Job(p))
<1>1. /\ pc[p] = "provides" /\ prov' = [prov EXCEPT ![K] = Provides(Job(p).ships, disk)]
      /\ kept'[p] = kept[p] /\ UNCHANGED <<disk, was, base, batch>>
      /\ \/ pc'[p] = "job" /\ at'[p] = at[p] + 1
         \/ pc'[p] = "preserve" /\ at'[p] = 1 /\ ~(at[p] < Len(b))
  BY DEF PutProvides, Advance, Goto, Set, TypeInv, TypeOK, LocalsOK
<1>2. /\ at[p] \in I /\ Job(p) = b[at[p]] /\ Len(b) \in Nat
      /\ \A i \in I : KeyOf(b[i]) \in Key /\ (i # at[p] => KeyOf(b[i]) # K)
  BY <1>1, JobFacts DEF Applying
<1>3. /\ \A k : Old(p, k)' = Old(p, k)
      /\ \A i : OldOf(p, i)' = OldOf(p, i) /\ Libraries(OldOf(p, i), base[p])' = Libraries(OldOf(p, i), base[p])
  BY <1>1, OldOfKeeps
<1>4. \A i \in I : /\ Laid(p, i)' => Laid(p, i)
                   /\ Laid(p, at[p])
                   /\ Provided(p, i)' => Provided(p, i) \/ i = at[p]
                   /\ ~Saved(p, i)' /\ ~Saved(p, i)
  BY <1>1, <1>2 DEF Laid, Provided, Saved, Later
<1>5. ASSUME NEW i \in I, Provided(p, i)', NEW x \in prov'[KeyOf(b[i])]
      PROVE  \E f \in Path : Named(b[i].ships[f], x[1])
  <2>1. CASE i = at[p]
    <3>1. x \in Provides(Job(p).ships, disk)
      BY <1>1, <1>2, <1>5, <2>1 DEF TypeInv, TypeOK
    <3>2. PICK f \in Libraries(Job(p).ships, disk) : x = <<Info[disk[f]].soname, f>>
      BY <3>1 DEF Provides
    <3>3. f \in Own(Job(p).ships) /\ IsFile(Job(p).ships[f]) /\ IsFile(disk[f]) /\ Info[disk[f]].soname # NoEntry
      BY DEF Libraries, Seen
    <3>4. f \notin EtcPath
      BY <3>3 DEF EditInv, PlainDb, Calm, IsFile
    <3>5. disk[f] = Job(p).ships[f]
      BY <1>2, <1>4, <3>3, <3>4 DEF Keeping, Whole
    <3>6. Named(b[i].ships[f], x[1]) /\ f \in Path
      BY <1>2, <2>1, <3>2, <3>3, <3>5, OwnType DEF Named
    <3> QED
      BY <3>6
  <2>2. CASE i # at[p]
    <3>1. x \in prov[KeyOf(b[i])] /\ Provided(p, i)
      BY <1>1, <1>2, <1>4, <1>5, <2>2 DEF TypeInv, TypeOK
    <3> QED
      BY <3>1 DEF Keeping, Carries
  <2> QED
    BY <2>1, <2>2
<1>6. Parted(p)'
  BY <1>3 DEF Keeping, Parted, Own
<1>7. Whole(p)'
  BY <1>1, <1>4 DEF Keeping, Whole, Own
<1>8. Carries(p)'
  BY <1>1, <1>5 DEF Carries, Named, KeyOf
<1>9. Shelf(p)'
  BY <1>1, <1>4 DEF Keeping, Shelf, Ships, Own
<1>10. Saving(p)'
  BY <1>1, <1>4 DEF Saving
<1>11. Sparse(p)'
  BY <1>1, <1>3 DEF Keeping, Sparse, Ships, Own, Prunes
<1> QED
  BY <1>6, <1>7, <1>8, <1>9, <1>10, <1>11 DEF Keeping

\* a library whose soname left stays, and so does what links to it
LEMMA KeepingPreserve ==
  ASSUME TypeInv, SparedInv, NoForce, LayInv, kills = 0, NEW p \in Proc, Keeping(p), Preserve(p)
  PROVE  Keeping(p)'
<1> DEFINE b == batch[p]
           I == 1..Len(b)
           a == at[p]
<1>1. /\ pc[p] = "preserve" /\ kept'[p] = kept[p] \cup Held(p)
      /\ UNCHANGED <<disk, prov, was, base, batch>>
      /\ \/ pc'[p] = "preserve" /\ at'[p] = a + 1
         \/ pc'[p] = "dispossess" /\ ~(a < Len(b))
  BY DEF Preserve, Advance, Goto, Set, TypeInv, TypeOK, LocalsOK
<1>2. /\ a \in I /\ Job(p) = b[a] /\ Len(b) \in Nat
      /\ \A i \in I : KeyOf(b[i]) \in Key /\ (i # a => KeyOf(b[i]) # KeyOf(b[a]))
  BY <1>1, JobFacts DEF Applying
<1>3. /\ \A k : Old(p, k)' = Old(p, k)
      /\ \A i : OldOf(p, i)' = OldOf(p, i) /\ Libraries(OldOf(p, i), base[p])' = Libraries(OldOf(p, i), base[p])
  BY <1>1, OldOfKeeps
<1>4. \A i \in I : /\ Laid(p, i) /\ Provided(p, i)
                   /\ Saved(p, i)' <=> (Saved(p, i) \/ i = a)
                   /\ Saved(p, i) => i # a
  BY <1>1, <1>2 DEF Laid, Provided, Saved, Later
<1>5. Held(p) \subseteq Own(OldOf(p, a))
  BY <1>2 DEF Held, OldOf
<1>6. ASSUME NEW r \in Libraries(OldOf(p, a), base[p]),
             \A x \in prov[KeyOf(b[a])] : x[1] # Info[base[p][r]].soname, r \notin Ships(b)
      PROVE  /\ r \in kept'[p]
             /\ \A l \in Own(OldOf(p, a)) : IsLink(OldOf(p, a)[l]) /\ Info[OldOf(p, a)[l]].link = r => l \in kept'[p]
  <2>1. r \in Own(OldOf(p, a)) /\ IsFile(OldOf(p, a)[r])
    BY DEF Libraries, Seen
  <2>2. r \notin kept[p]
    <3> SUFFICES ASSUME r \in kept[p] PROVE FALSE
      OBVIOUS
    <3>1. PICK i \in I : Saved(p, i) /\ r \in Own(OldOf(p, i))
      BY <1>6 DEF Keeping, Shelf
    <3>2. KeyOf(b[i]) # KeyOf(b[a]) /\ KeyOf(b[i]) \in Key /\ KeyOf(b[a]) \in Key
      BY <1>2, <1>4, <3>1
    <3> QED
      BY <2>1, <3>1, <3>2 DEF Keeping, Parted, OldOf
  <2>3. r \in Stay(p)
    BY <1>2, <1>6, <2>2 DEF Stay, OldOf
  <2>4. r \in Held(p)
    BY <1>2, <2>1, <2>2, <2>3 DEF Held, OldOf, IsFile, IsLink
  <2>5. ASSUME NEW l \in Own(OldOf(p, a)), IsLink(OldOf(p, a)[l]), Info[OldOf(p, a)[l]].link = r, l \notin kept[p]
        PROVE  l \in Held(p)
    BY <1>2, <2>3, <2>5 DEF Held, OldOf
  <2> QED
    BY <1>1, <2>4, <2>5
<1>7. Parted(p)'
  BY <1>3 DEF Keeping, Parted, Own
<1>8. Whole(p)'
  BY <1>1, <1>4 DEF Keeping, Whole, Own
<1>9. Carries(p)'
  BY <1>1, <1>4 DEF Keeping, Carries, Named, KeyOf
<1>10. Shelf(p)'
  BY <1>1, <1>2, <1>3, <1>4, <1>5 DEF Keeping, Shelf, Ships, Own
<1>11. Saving(p)'
  <2>1. ASSUME NEW i \in I, Saved(p, i) \/ i = a, NEW r \in Libraries(OldOf(p, i), base[p])
        PROVE  \/ \E x \in prov[KeyOf(b[i])] : x[1] = Info[base[p][r]].soname
               \/ r \in Ships(b)
               \/ /\ r \in kept'[p]
                  /\ \A l \in Own(OldOf(p, i)) : IsLink(OldOf(p, i)[l]) /\ Info[OldOf(p, i)[l]].link = r => l \in kept'[p]
    <3>1. CASE i = a
      BY <1>6, <2>1, <3>1
    <3>2. CASE i # a
      BY <1>1, <2>1, <3>2 DEF Keeping, Saving, Saves
    <3> QED
      BY <3>1, <3>2
  <2> QED
    BY <1>1, <1>3, <1>4, <2>1 DEF Saving, Saves, Ships, Own, KeyOf
<1>12. Sparse(p)'
  BY <1>1, <1>3 DEF Keeping, Sparse, Ships, Own, Prunes
<1> QED
  BY <1>7, <1>8, <1>9, <1>10, <1>11, <1>12 DEF Keeping

LEMMA KeepingUnlink ==
  ASSUME TypeInv, SparedInv, NoForce, LayInv, kills = 0, NEW p \in Proc, Keeping(p), PruneUnlink(p)
  PROVE  Keeping(p)'
<1> DEFINE b == batch[p]
           I == 1..Len(b)
           old == OldOf(p, at[p])
<1>1. /\ pc[p] = "unlink" /\ UNCHANGED <<pc, prov, was, base, batch, at, kept>>
  BY DEF PruneUnlink, db
<1>2. /\ at[p] \in I /\ Job(p) = b[at[p]] /\ todo[p] \subseteq Own(Old(p, KeyOf(Job(p))))
      /\ todo[p] \cap kept[p] = {} /\ Jobs(p)
  BY <1>1, JobFacts DEF Applying, Ranged, Here
<1>3. PICK q \in todo[p] : disk' = IF disk[q] = old[q] THEN [disk EXCEPT ![q] = NoEntry] ELSE disk
  BY <1>2 DEF PruneUnlink, Drop, OldOf
<1>4. q \in Own(old) /\ q \notin kept[p] /\ q \in Path /\ old[q] # NoEntry
  BY <1>2 DEF OldOf, Own
<1> HIDE DEF old
<1>5. \A r \in Path : disk'[r] = disk[r] \/ (r = q /\ disk[q] = old[q] /\ disk'[r] = NoEntry)
  BY <1>3 DEF TypeInv, TypeOK, Manifest
<1>6. /\ \A k : Old(p, k)' = Old(p, k)
      /\ \A i : OldOf(p, i)' = OldOf(p, i) /\ Libraries(OldOf(p, i), base[p])' = Libraries(OldOf(p, i), base[p])
  BY <1>1, OldOfKeeps
<1>7. \A i \in I : /\ Laid(p, i) /\ Laid(p, i)'
                   /\ Provided(p, i)' <=> Provided(p, i)
                   /\ Saved(p, i)' <=> Saved(p, i)
  BY <1>1 DEF Laid, Provided, Saved, Later
<1>8. Whole(p)'
  <2>1. ASSUME NEW i \in I, NEW r \in Own(b[i].ships) \ EtcPath PROVE disk'[r] = b[i].ships[r]
    <3>1. r \in kept[p] /\ r \in Path
      BY <1>2, <1>7, OwnType DEF Jobs
    <3>2. disk'[r] = disk[r]
      BY <1>4, <1>5, <3>1
    <3> QED
      BY <1>7, <2>1, <3>2 DEF Keeping, Whole
  <2> QED
    BY <1>1, <2>1 DEF Whole, Own
<1>9. Sparse(p)'
  <2>1. ASSUME NEW r \in Path \ Ships(b)
        PROVE  \/ disk'[r] = base[p][r]
               \/ /\ disk'[r] = NoEntry /\ r \notin kept[p]
                  /\ \E i \in I : r \in Own(OldOf(p, i)) /\ base[p][r] = OldOf(p, i)[r]
    <3>1. \/ disk[r] = base[p][r]
          \/ /\ disk[r] = NoEntry /\ r \notin kept[p]
             /\ \E i \in I : r \in Own(OldOf(p, i)) /\ base[p][r] = OldOf(p, i)[r]
      BY DEF Keeping, Sparse
    <3>2. CASE disk'[r] = disk[r]
      BY <3>1, <3>2
    <3>3. CASE r = q /\ disk[q] = old[q] /\ disk'[r] = NoEntry
      BY <1>2, <1>4, <3>1, <3>3 DEF old
    <3> QED
      BY <1>5, <3>2, <3>3
  <2>2. Prunes(p)'
    BY <1>1 DEF Prunes
  <2> QED
    BY <1>1, <1>6, <2>1, <2>2 DEF Sparse, Ships, Own
<1>10. Parted(p)'
  BY <1>6 DEF Keeping, Parted, Own
<1>11. Carries(p)'
  BY <1>1, <1>7 DEF Keeping, Carries, Named, KeyOf
<1>12. Shelf(p)'
  BY <1>1, <1>6, <1>7 DEF Keeping, Shelf, Ships, Own
<1>13. Saving(p)'
  BY <1>1, <1>6, <1>7 DEF Keeping, Saving, Saves, Ships, Own, KeyOf
<1> QED
  BY <1>8, <1>9, <1>10, <1>11, <1>12, <1>13 DEF Keeping

\* Once the old files are pruned, the loader finds a library for whatever it found one for.
LEMMA InstallLoads ==
  ASSUME TypeInv, Conventional, ConfigsPlain, MadeInv, kills = 0, NEW p \in Proc, pc[p] = "enqueue",
         \A i \in 1..Len(batch[p]) : batch[p][i] \in Built /\ KeyOf(batch[p][i]) \in Key, Began(p), Keeping(p)
  PROVE  Loads(p)
<1> DEFINE b == batch[p]
           I == 1..Len(b)
           d == base[p]
<1> SUFFICES ASSUME NEW s \in Soname, LoadedAt(d, s) # {} PROVE LoadedAt(disk, s) # {}
  BY DEF Loads
<1> DEFINE q == SoAt[s]
<1>1. /\ q \in Path \ EtcPath /\ s # NoEntry /\ d \in Manifest /\ disk \in Manifest
      /\ \A k \in Key : Old(p, k) \in Manifest
  BY OldType, ConstantsAssumption DEF Conventional, TypeInv, TypeOK, LocalsOK
<1>2. ASSUME NEW a \in Built
      PROVE  /\ a.ships[q] # NoEntry =>
                  Named(a.ships[q], s) \/ (IsLink(a.ships[q]) /\ Info[a.ships[q]].link \in Own(a.ships))
             /\ \A r \in Path : Named(a.ships[r], s) => a.ships[q] # NoEntry /\ r \notin EtcPath
             /\ IsLink(a.ships[q]) => \A c \in Built :
                  c.ships[Info[a.ships[q]].link] # NoEntry => Named(c.ships[Info[a.ships[q]].link], s)
  BY DEF Conventional
<1>3. \A i \in I : Laid(p, i) /\ Provided(p, i) /\ Saved(p, i)
  BY DEF Laid, Provided, Saved, Later
<1>4. ASSUME NEW i \in I, NEW r \in Own(b[i].ships), Named(b[i].ships[r], s)
      PROVE  IsFile(disk[r]) /\ q \in Ships(b)
  <2>1. r \in Path /\ b[i].ships[q] # NoEntry /\ r \notin EtcPath
    BY <1>2, <1>4, OwnType
  <2>2. disk[r] = b[i].ships[r]
    BY <1>3, <2>1 DEF Keeping, Whole
  <2>3. q \in Own(b[i].ships)
    BY <1>1, <2>1 DEF Own
  <2> QED
    BY <1>4, <2>2, <2>3 DEF Named, Ships
<1>5. ASSUME NEW i \in I, NEW r \in Own(OldOf(p, i)) PROVE \E a \in Built : OldOf(p, i) = a.ships
  <2>1. /\ was[p][KeyOf(b[i])] # NoRecord /\ OldOf(p, i) = was[p][KeyOf(b[i])]
    BY DEF OldOf, Old, Own, Nothing
  <2> QED
    BY <2>1 DEF MadeInv, ShippedBy
<1>6. d[q] # NoEntry => \E a \in Built : a.ships[q] = d[q]
  BY <1>1 DEF MadeInv, Made
<1>7. ASSUME NEW r, IsLink(d[q]), Info[d[q]].link = r
      PROVE  r \in Path /\ \A a \in Built : a.ships[r] # NoEntry => Named(a.ships[r], s) /\ r \notin EtcPath
  <2>1. PICK a \in Built : a.ships[q] = d[q]
    BY <1>6, <1>7 DEF IsLink
  <2>2. d[q] \in Content
    BY <1>1, <1>7 DEF IsLink, Manifest
  <2>3. r \in Path
    BY <1>7, <2>2, ConstantsAssumption DEF IsLink
  <2> QED
    BY <1>2, <1>7, <2>1, <2>3
<1>8. ASSUME NEW i \in I, NEW r \in Own(OldOf(p, i)), Named(OldOf(p, i)[r], s), Named(d[r], s), q \notin Ships(b),
             r = q \/ (IsLink(d[q]) /\ Info[d[q]].link = r)
      PROVE  /\ r \in kept[p]
             /\ \A l \in Own(OldOf(p, i)) : IsLink(OldOf(p, i)[l]) /\ Info[OldOf(p, i)[l]].link = r => l \in kept[p]
  <2>1. r \in Libraries(OldOf(p, i), d)
    BY <1>1, <1>8 DEF Libraries, Seen, Named
  <2>2. Saves(p, i, r)
    BY <1>3, <2>1 DEF Keeping, Saving
  <2>3. ASSUME NEW x \in prov[KeyOf(b[i])], x[1] = Info[d[r]].soname PROVE FALSE
    <3>1. PICK f \in Path : Named(b[i].ships[f], s)
      BY <1>3, <1>8, <2>3 DEF Keeping, Carries, Named
    <3>2. f \in Own(b[i].ships)
      BY <3>1 DEF Named, IsFile, Own
    <3> QED
      BY <1>4, <1>8, <3>1, <3>2
  <2>4. ASSUME r \in Ships(b) PROVE FALSE
    <3>1. PICK j \in I : r \in Own(b[j].ships)
      BY <2>4 DEF Ships
    <3>2. Named(b[j].ships[r], s)
      BY <1>7, <1>8, <2>4, <3>1 DEF Own
    <3> QED
      BY <1>4, <1>8, <3>1, <3>2
  <2> QED
    BY <2>2, <2>3, <2>4 DEF Saves
<1>9. CASE q \in Ships(b)
  <2>1. PICK i \in I : q \in Own(b[i].ships)
    BY <1>9 DEF Ships
  <2>2. disk[q] = b[i].ships[q] /\ b[i].ships[q] # NoEntry
    BY <1>1, <1>3, <2>1 DEF Keeping, Whole, Own
  <2>3. CASE Named(b[i].ships[q], s)
    BY <2>2, <2>3 DEF LoadedAt, Named, IsFile, IsLink
  <2>4. CASE ~Named(b[i].ships[q], s)
    <3> DEFINE r == Info[b[i].ships[q]].link
    <3>1. IsLink(b[i].ships[q]) /\ r \in Own(b[i].ships)
      BY <1>2, <2>2, <2>4, SMTT(30)
    <3>2. Named(b[i].ships[r], s)
      BY <1>2, <3>1 DEF Own
    <3> HIDE DEF r
    <3>3. IsFile(disk[r])
      BY <1>4, <3>1, <3>2
    <3>4. LoadedAt(disk, s) = {x \in {r} : IsFile(disk[x])}
      BY <2>2, <3>1 DEF LoadedAt, r
    <3> QED
      BY <3>3, <3>4
  <2> QED
    BY <2>3, <2>4
<1>10. CASE q \notin Ships(b) /\ disk[q] = d[q]
  <2>1. CASE ~IsLink(d[q])
    BY <1>10, <2>1 DEF LoadedAt
  <2>2. CASE IsLink(d[q])
    <3> DEFINE r == Info[d[q]].link
    <3>1. IsFile(d[r])
      BY <2>2 DEF LoadedAt
    <3>2. r \in Path /\ \A a \in Built : a.ships[r] # NoEntry => Named(a.ships[r], s) /\ r \notin EtcPath
      BY <1>7, <2>2
    <3> HIDE DEF r
    <3>3. IsFile(disk[r])
      <4>1. CASE r \in Ships(b)
        <5>1. PICK j \in I : r \in Own(b[j].ships)
          BY <4>1 DEF Ships
        <5> QED
          BY <1>4, <3>2, <5>1 DEF Own
      <4>2. CASE r \notin Ships(b) /\ disk[r] # d[r]
        <5>1. PICK i \in I : r \notin kept[p] /\ r \in Own(OldOf(p, i)) /\ d[r] = OldOf(p, i)[r]
          BY <3>2, <4>2 DEF Keeping, Sparse
        <5>2. PICK a \in Built : OldOf(p, i) = a.ships
          BY <1>5, <5>1
        <5>3. Named(OldOf(p, i)[r], s)
          BY <3>2, <5>1, <5>2 DEF Own
        <5> QED
          BY <1>8, <1>10, <2>2, <5>1, <5>3 DEF r
      <4> QED
        BY <3>1, <4>1, <4>2
    <3> QED
      BY <1>10, <2>2, <3>3 DEF LoadedAt, r
  <2> QED
    BY <2>1, <2>2
<1>11. CASE q \notin Ships(b) /\ disk[q] # d[q]
  <2>1. PICK i \in I : q \notin kept[p] /\ q \in Own(OldOf(p, i)) /\ d[q] = OldOf(p, i)[q]
    BY <1>1, <1>11 DEF Keeping, Sparse
  <2>2. PICK a \in Built : OldOf(p, i) = a.ships
    BY <1>5, <2>1
  <2>3. CASE Named(d[q], s)
    BY <1>8, <1>11, <2>1, <2>3
  <2>4. CASE ~Named(d[q], s)
    <3> DEFINE r == Info[d[q]].link
    <3>1. IsLink(d[q]) /\ r \in Own(OldOf(p, i))
      BY <1>2, <2>1, <2>2, <2>4 DEF Own
    <3>2. IsFile(d[r])
      BY <3>1 DEF LoadedAt
    <3>3. r \in Path /\ \A c \in Built : c.ships[r] # NoEntry => Named(c.ships[r], s) /\ r \notin EtcPath
      BY <1>7, <3>1
    <3> HIDE DEF r
    <3>4. OldOf(p, i)[r] # NoEntry
      BY <3>1 DEF Own
    <3>5. Named(OldOf(p, i)[r], s) /\ r \notin EtcPath
      BY <2>2, <3>3, <3>4
    <3>6. PICK c \in Built : c.ships[r] = d[r]
      BY <3>2, <3>3, <3>5 DEF MadeInv, Made, IsFile
    <3>7. Named(d[r], s)
      BY <3>2, <3>3, <3>6 DEF IsFile
    <3> QED
      BY <1>8, <1>11, <2>1, <3>1, <3>5, <3>7 DEF r
  <2> QED
    BY <2>3, <2>4
<1> QED
  BY <1>9, <1>10, <1>11

LEMMA LibInside ==
  ASSUME LockInv, NEW p \in Proc, Past(p), Others(p),
         kills' = 0 /\ Past(p)' => LibAt(p)' /\ GcAt(p)' /\ RemAt(p)'
  PROVE  LibInv'
<1>1. \A q \in Proc \ {p} : ~Past(q)'
  BY AloneStep DEF Past
<1> QED
  BY <1>1 DEF LibInv

LEMMA LibInstall ==
  ASSUME TypeInv, LockInv, ExclInv, WholeInv, SparedInv, SweptInv, NoForce, LayInv, EditInv, MadeInv,
         RuledInv, LibInv, Conventional, ConfigsPlain, NEW p \in Proc, Past(p), Install(p)
  PROVE  LibInv'
<1> DEFINE b == batch[p]
           I == 1..Len(b)
<1>0. pc = [q \in Proc |-> pc[q]] /\ at \in [Proc -> Nat \ {0}] /\ Others(p)
  BY StepOthers DEF TypeInv, TypeOK, LocalsOK, Step
<1>00. UNCHANGED kills
  BY DEF Install, PlanRefuses, ApplyStart, JobStart, Extract, PutHead, PutManifest,
     PutProvides, Preserve, Dispossess, Disown, DispossessDone, PruneStart, PruneUnlink, PruneDone,
     Enqueue, counts
<1> SUFFICES ASSUME kills = 0, Past(p)' PROVE LibAt(p)' /\ GcAt(p)' /\ RemAt(p)'
  BY <1>0, <1>00, LibInside
<1>1. pc[p] \in Applying \cup {"enqueue"} => Keeping(p) /\ pc[p] # "disown"
  BY DEF LibInv, LibAt, Works
<1>2. ASSUME pc[p] \in Applying
      PROVE  /\ at[p] \in I /\ Job(p) = b[at[p]] /\ Len(b) \in Nat
             /\ \A i \in I : KeyOf(b[i]) \in Key /\ (i # at[p] => KeyOf(b[i]) # KeyOf(Job(p)))
  BY <1>2, OnJob
<1>3. ASSUME pc'[p] \in Applying \cup {"enqueue"}, pc'[p] # "disown", Keeping(p)'
      PROVE  LibAt(p)' /\ GcAt(p)' /\ RemAt(p)'
  BY <1>3 DEF LibAt, GcAt, RemAt, Removes, Works, Applying
<1>4. CASE PlanRefuses(p)
  BY <1>0, <1>4 DEF PlanRefuses, Exit, Goto, Past
<1>5. CASE ApplyStart(p)
  <2>1. pc'[p] = "job"
    BY <1>0, <1>5 DEF ApplyStart, Goto
  <2> QED
    BY <1>3, <1>5, <2>1, KeepingStart DEF Applying
<1>6. CASE JobStart(p)
  <2>1. /\ pc[p] = "job" /\ pc'[p] = "extract" /\ todo'[p] = Own(Job(p).ships) /\ skip'[p] = Skipped(p)
        /\ UNCHANGED <<disk, prov, was, base, batch, at, kept>>
    BY <1>6 DEF JobStart, Goto, Set, db, TypeInv, TypeOK, LocalsOK
  <2>2. skip'[p] \subseteq EtcPath /\ Own(Job(p).ships)' = todo'[p]
    BY <2>1 DEF Skipped, Job, Own
  <2>3. \A i \in I : /\ Laid(p, i)' => Laid(p, i)
                     /\ Provided(p, i)' => Provided(p, i)
                     /\ Saved(p, i)' <=> Saved(p, i)
    BY <2>1 DEF Laid, Provided, Saved, Later
  <2>4. Keeping(p)'
    BY <1>1, <2>1, <2>2, <2>3, KeepingSame DEF Applying, Prunes
  <2> QED
    BY <1>3, <2>1, <2>4 DEF Applying
<1>7. CASE Extract(p)
  <2>1. pc[p] = "extract" /\ pc'[p] = "extract"
    BY <1>7 DEF Extract
  <2> QED
    BY <1>1, <1>3, <1>7, <2>1, KeepingExtract DEF Applying
<1>8. CASE PutHead(p)
  <2>1. pc[p] = "extract" /\ pc'[p] = "manifest"
    BY <1>0, <1>8 DEF PutHead, Goto
  <2> QED
    BY <1>1, <1>3, <1>8, <2>1, KeepingHead DEF Applying
<1>9. CASE PutManifest(p)
  <2>1. /\ pc[p] = "manifest" /\ pc'[p] = "provides"
        /\ UNCHANGED <<disk, prov, was, base, batch, at, kept>>
    BY <1>0, <1>9 DEF PutManifest, Goto, locals
  <2>2. \A i \in I : /\ Laid(p, i)' => Laid(p, i)
                     /\ Provided(p, i)' => Provided(p, i)
                     /\ Saved(p, i)' <=> Saved(p, i)
    BY <2>1 DEF Laid, Provided, Saved, Later
  <2>3. Keeping(p)'
    BY <1>1, <2>1, <2>2, KeepingSame DEF Applying, Prunes
  <2> QED
    BY <1>3, <2>1, <2>3 DEF Applying
<1>10. CASE PutProvides(p)
  <2>1. pc[p] = "provides" /\ pc'[p] \in {"job", "preserve"}
    BY <1>0, <1>10 DEF PutProvides, Advance, Goto
  <2> QED
    BY <1>1, <1>3, <1>10, <2>1, KeepingProvides DEF Applying
<1>11. CASE Preserve(p)
  <2>1. pc[p] = "preserve" /\ pc'[p] \in {"preserve", "dispossess"}
    BY <1>0, <1>11 DEF Preserve, Advance, Goto
  <2> QED
    BY <1>1, <1>3, <1>11, <2>1, KeepingPreserve DEF Applying
<1>12. CASE Dispossess(p)
  BY <1>12, NoLosers DEF Dispossess
<1>13. CASE Disown(p)
  BY <1>1, <1>13 DEF Disown, Applying
<1>14. CASE DispossessDone(p) \/ PruneStart(p) \/ PruneDone(p)
  <2>1. /\ pc[p] \in {"dispossess", "prune", "unlink"}
        /\ pc'[p] \in {"dispossess", "prune", "unlink", "enqueue"}
        /\ pc[p] \in {"prune", "unlink"} => pc'[p] # "dispossess"
        /\ UNCHANGED <<disk, prov, was, base, batch, kept>>
    BY <1>0, <1>14 DEF DispossessDone, PruneStart, PruneDone, Advance, Goto, Set, db
  <2>2. \A i \in I : Laid(p, i) /\ Provided(p, i) /\ Saved(p, i) /\ Saved(p, i)'
    BY <2>1 DEF Laid, Provided, Saved, Later
  <2>3. Keeping(p)'
    BY <1>1, <2>1, <2>2, KeepingSame DEF Applying, Prunes
  <2> QED
    BY <1>3, <2>1, <2>3 DEF Applying
<1>15. CASE PruneUnlink(p)
  <2>1. pc[p] = "unlink" /\ pc'[p] = "unlink"
    BY <1>15 DEF PruneUnlink
  <2> QED
    BY <1>1, <1>3, <1>15, <2>1, KeepingUnlink DEF Applying
<1>16. CASE Enqueue(p)
  <2>1. pc[p] = "enqueue" /\ pc'[p] = "done" /\ UNCHANGED <<disk, op, base>>
    BY <1>0, <1>16 DEF Enqueue, Goto, locals
  <2>2. op[p] = "install" /\ Keeping(p)
    BY <1>1, <2>1 DEF RuledInv, Ruled
  <2>3. Began(p)
    BY <2>1 DEF LayInv, LayAt, Works
  <2>4. \A i \in I : b[i] \in Built /\ KeyOf(b[i]) \in Key
    <3>1. CASE b \in Batches
      BY <3>1, BatchJob, JobBuilt
    <3>2. CASE b = << >>
      BY <3>2
    <3> QED
      BY <3>1, <3>2 DEF TypeInv, TypeOK, LocalsOK
  <2>5. Loads(p)
    BY <2>1, <2>2, <2>3, <2>4, InstallLoads
  <2>6. Loads(p)'
    BY <2>1, <2>5 DEF Loads, LoadedAt
  <2> QED
    BY <2>1, <2>2, <2>6 DEF LibAt, GcAt, RemAt, Removes, Works, Applying
<1> QED
  BY <1>4, <1>5, <1>6, <1>7, <1>8, <1>9, <1>10, <1>11, <1>12, <1>13, <1>14, <1>15, <1>16 DEF Install

----------------------------------------------------------------------------
(* What a gc takes: the generation of a soname nothing installed links. *)

At(home, t, c) ==
  (Info[c].soname # NoEntry => home[Info[c].soname] = t) /\ \A s \in Info[c].needs : home[s] = t

\* the target of the record that asks is where the soname is at home
LEMMA AskerHome ==
  ASSUME MadeInv, AllStand({}), kills = 0, dirs \subseteq Key, \A c \in Edits : Info[c].needs = {},
         NEW home, \A a \in Built : \A q \in Own(a.ships) : At(home, a.target, a.ships[q]),
         NEW k \in dirs, Readable(k), NEW f \in Seen(man[k], disk), NEW s \in Info[disk[f]].needs
  PROVE  home[s] = k.target
<1>1. f \in Own(man[k]) /\ IsFile(disk[f])
  BY DEF Seen
<1>2. disk[f] = man[k][f]
  BY <1>1 DEF AllStand, Stands, Lost, IsFile
<1>3. PICK a \in Built : KeyOf(a) = k /\ man[k] = a.ships
  BY DEF MadeInv, ShippedBy
<1> QED
  BY <1>1, <1>2, <1>3 DEF At, KeyOf

LEMMA Homes ==
  ASSUME Homed
  PROVE  /\ \A c \in Edits : Info[c].needs = {}
         /\ \E home : \A a \in Built : \A q \in Own(a.ships) : At(home, a.target, a.ships[q])
BY SMTT(30) DEF Homed, At

LEMMA GcFrees ==
  ASSUME TypeInv, Conventional, Homed, MadeInv, AllStand({}), kills = 0, NEW p \in Proc, base[p] = disk,
         NEW k \in Key, NEW g \in Soname, g \notin Wanted(k.target),
         Generation(preserved[k], g) \cap Modified(preserved[k], disk) = {},
         NEW q \in Generation(preserved[k], g)
  PROVE  Free(p, q)
<1> DEFINE m == preserved[k]
<1> SUFFICES ASSUME NEW s \in Soname, Asked(p, s), LoadedAt(disk, s) # {}, q \in Opened(disk, s) PROVE FALSE
  BY DEF Free
<1> DEFINE l == SoAt[s]
           x == IF IsLink(m[q]) THEN Info[m[q]].link ELSE q
<1>1. /\ l \in Path \ EtcPath /\ disk \in Manifest /\ m \in Manifest /\ q \in Own(m) /\ dirs \subseteq Key
      /\ s # NoEntry /\ g # NoEntry
  BY ConstantsAssumption DEF Conventional, TypeInv, TypeOK, Generation
<1>2. ASSUME NEW a \in Built
      PROVE  /\ a.ships[l] # NoEntry =>
                  Named(a.ships[l], s) \/ (IsLink(a.ships[l]) /\ Info[a.ships[l]].link \in Own(a.ships))
             /\ IsLink(a.ships[l]) => \A c \in Built :
                  c.ships[Info[a.ships[l]].link] # NoEntry => Named(c.ships[Info[a.ships[l]].link], s)
  BY DEF Conventional
<1>3. \A r \in Own(m) : \E a \in Built : KeyOf(a) = k /\ a.ships[r] = m[r]
  BY DEF MadeInv, ShippedBy
<1>4. x \in Libraries(m, disk) /\ Info[disk[x]].soname = g
  BY DEF Generation
<1>5. x \in Own(m) /\ IsFile(m[x]) /\ IsFile(disk[x])
  BY <1>4 DEF Libraries, Seen
<1> HIDE DEF x
<1>6. disk[x] = m[x]
  <2>1. ~IsLink(m[x])
    BY <1>5 DEF IsFile, IsLink
  <2>2. x \in Generation(m, g)
    BY <1>4, <1>5, <2>1 DEF Generation
  <2> QED
    BY <1>5, <2>2 DEF Modified, Seen
<1>7. PICK home : \A a \in Built : \A r \in Own(a.ships) : At(home, a.target, a.ships[r])
  BY Homes
<1>8. home[g] = k.target
  <2>1. PICK a \in Built : KeyOf(a) = k /\ a.ships[x] = m[x]
    BY <1>3, <1>5
  <2>2. x \in Own(a.ships)
    BY <1>5, <2>1, OwnType DEF Own
  <2> QED
    BY <1>1, <1>4, <1>6, <1>7, <2>1, <2>2 DEF At, KeyOf
<1>9. g = s
  <2>1. CASE q = l
    <3>1. PICK a \in Built : a.ships[l] = m[l]
      BY <1>1, <1>3, <2>1
    <3>2. CASE Named(m[l], s)
      <4>1. x = l
        BY <2>1, <3>2 DEF x, Named, IsFile, IsLink
      <4> QED
        BY <1>4, <1>6, <3>2, <4>1 DEF Named
    <3>3. CASE ~Named(m[l], s)
      <4>1. IsLink(m[l]) /\ x = Info[a.ships[l]].link
        BY <1>1, <1>2, <2>1, <3>1, <3>3 DEF x, Own
      <4>2. PICK c \in Built : c.ships[x] = m[x]
        BY <1>3, <1>5, SMTT(30)
      <4>3. c.ships[x] # NoEntry /\ IsLink(a.ships[l])
        BY <1>5, <3>1, <4>1, <4>2 DEF IsFile
      <4>4. Named(c.ships[x], s)
        BY <1>2, <4>1, <4>3
      <4> QED
        BY <1>4, <1>6, <4>2, <4>4 DEF Named
    <3> QED
      BY <3>2, <3>3
  <2>2. CASE q # l
    <3>1. IsLink(disk[l]) /\ q = Info[disk[l]].link
      BY <2>2 DEF Opened, LoadedAt
    <3>2. PICK a \in Built : a.ships[l] = disk[l]
      BY <1>1, <3>1 DEF MadeInv, Made, IsLink
    <3>3. PICK c \in Built : c.ships[q] = m[q]
      BY <1>1, <1>3
    <3>4. Named(m[q], s)
      <4>1. c.ships[q] # NoEntry /\ IsLink(a.ships[l]) /\ q = Info[a.ships[l]].link
        BY <1>1, <3>1, <3>2, <3>3, SMTT(30) DEF Own
      <4>2. Named(c.ships[q], s)
        BY <1>2, <4>1
      <4> QED
        BY <3>3, <4>2
    <3>5. x = q
      BY <3>4 DEF x, Named, IsFile, IsLink
    <3> QED
      BY <1>4, <1>6, <3>4, <3>5 DEF Named
  <2> QED
    BY <2>1, <2>2
<1>10. PICK t \in dirs : Readable(t) /\ \E f \in Seen(man[t], disk) : s \in Info[disk[f]].needs
  BY DEF Asked
<1>11. PICK f \in Seen(man[t], disk) : s \in Info[disk[f]].needs
  BY <1>10
<1>12. home[s] = t.target
  BY <1>1, <1>7, <1>10, <1>11, Homes, AskerHome
<1>13. s \in Wanted(k.target)
  BY <1>8, <1>9, <1>10, <1>11, <1>12 DEF Wanted, Installed
<1> QED
  BY <1>9, <1>13

LEMMA LibGc ==
  ASSUME TypeInv, LockInv, RuledInv, LayInv, MadeInv, LibInv, Conventional, Homed,
         NEW p \in Proc, Past(p), Gc(p)
  PROVE  LibInv'
<1>0. /\ pc = [r \in Proc |-> pc[r]] /\ disk \in Manifest /\ Others(p)
      /\ going \in [Proc -> SUBSET Key] /\ todo \in [Proc -> SUBSET Path] /\ base \in [Proc -> Manifest]
      /\ UNCHANGED <<op, kills>>
  BY StepOthers DEF TypeInv, TypeOK, LocalsOK, Step, Gc, GcStart, GcRecord, GcSweep, GcDone, locals, counts
<1> SUFFICES ASSUME kills = 0, Past(p)' PROVE LibAt(p)' /\ GcAt(p)' /\ RemAt(p)'
  BY <1>0, LibInside
<1>1. pc[p] \in {"gc", "release"} /\ pc'[p] \in {"release", "done"} /\ op'[p] = "gc"
  BY <1>0 DEF Gc, GcStart, GcRecord, GcSweep, GcDone, Goto, RuledInv, Ruled
<1>2. LibAt(p)' /\ RemAt(p)'
  BY <1>1 DEF LibAt, RemAt, Removes, Works, Applying
<1> SUFFICES GcAt(p)'
  BY <1>2
<1>3. GcAt(p)
  BY DEF LibInv
<1>4. ASSUME UNCHANGED <<base, dirs, man>>, NEW q, Free(p, q) PROVE Free(p, q)'
  BY <1>4 DEF Free, Asked, Readable, Opened, LoadedAt, Seen, Own
<1>5. CASE GcStart(p)
  <2>1. pc[p] = "gc" /\ pc'[p] = "release" /\ base'[p] = disk /\ UNCHANGED <<disk, todo>>
    BY <1>0, <1>5 DEF GcStart, Goto, Set
  <2>2. todo'[p] = {}
    BY <2>1 DEF RuledInv, Ruled
  <2> QED
    BY <2>1, <2>2 DEF GcAt
<1>6. CASE GcRecord(p)
  <2>1. PICK k \in going[p], open \in SUBSET Soname :
          LET m == preserved[k]
              free == {s \in Soname \ (Wanted(k.target) \cup open) :
                         Generation(m, s) \cap Modified(m, disk) = {}}
              out == UNION {Generation(m, s) : s \in free}
          IN  todo' = [todo EXCEPT ![p] = @ \cup out]
    BY <1>6 DEF GcRecord
  <2> DEFINE free == {s \in Soname \ (Wanted(k.target) \cup open) :
                        Generation(preserved[k], s) \cap Modified(preserved[k], disk) = {}}
             out == UNION {Generation(preserved[k], s) : s \in free}
  <2>2. todo' = [todo EXCEPT ![p] = @ \cup out]
    BY <2>1
  <2>3. pc[p] = "release" /\ going[p] # {} /\ UNCHANGED <<pc, disk, base, dirs, man>> /\ k \in Key
    BY <1>0, <1>6 DEF GcRecord
  <2>4. disk = base[p] /\ \A q \in todo[p] : Free(p, q)
    BY <1>3, <2>3 DEF GcAt
  <2>5. AllStand({})
    BY <2>3 DEF LayInv, LayAt, Works, Goes, Applying
  <2>6. ASSUME NEW q \in out PROVE Free(p, q)
    <3>1. PICK g \in free : q \in Generation(preserved[k], g)
      OBVIOUS
    <3> QED
      BY <2>3, <2>4, <2>5, <3>1, GcFrees
  <2> HIDE DEF out
  <2>7. \A q \in todo'[p] : Free(p, q)'
    BY <1>0, <1>4, <2>2, <2>3, <2>4, <2>6
  <2> QED
    BY <2>3, <2>4, <2>7 DEF GcAt
<1>7. CASE GcSweep(p)
  <2>1. PICK r \in todo[p] : disk' = [disk EXCEPT ![r] = NoEntry] /\ todo' = [todo EXCEPT ![p] = @ \ {r}]
    BY <1>7 DEF GcSweep
  <2>2. pc[p] = "release" /\ going[p] = {} /\ UNCHANGED <<pc, going, base, dirs, man>>
    BY <1>7 DEF GcSweep, db
  <2>3. \A q \in Path : disk[q] = base[p][q] \/ (disk[q] = NoEntry /\ Free(p, q))
    BY <1>3, <2>2 DEF GcAt
  <2>4. \A q \in todo[p] : Free(p, q)
    BY <1>3, <2>2 DEF GcAt
  <2>5. \A q \in Path : disk'[q] = base'[p][q] \/ (disk'[q] = NoEntry /\ Free(p, q)')
    BY <1>0, <1>4, <2>1, <2>2, <2>3, <2>4 DEF Manifest
  <2>6. \A q \in todo'[p] : Free(p, q)'
    BY <1>0, <1>4, <2>1, <2>2, <2>4
  <2> QED
    BY <2>2, <2>5, <2>6 DEF GcAt
<1>8. CASE GcDone(p)
  <2>1. pc[p] = "release" /\ pc'[p] = "done" /\ UNCHANGED <<disk, base, dirs, man>>
    BY <1>0, <1>8 DEF GcDone, Goto, db, locals
  <2>2. \A q \in Path : disk[q] = base[p][q] \/ (disk[q] = NoEntry /\ Free(p, q))
    BY <1>3, <2>1 DEF GcAt
  <2> QED
    BY <1>4, <2>1, <2>2 DEF GcAt
<1> QED
  BY <1>5, <1>6, <1>7, <1>8 DEF Gc

----------------------------------------------------------------------------
(* What a removal takes of a library somebody still links was let go because a
   preserved record answers for it. *)

\* where a link at the place of a soname leads, every package ships that library or nothing
LEMMA LinkedLibrary ==
  ASSUME Conventional, NEW s \in Soname, NEW c \in Built, NEW a \in Built, NEW q,
         IsLink(c.ships[SoAt[s]]), q = Info[c.ships[SoAt[s]]].link, a.ships[q] # NoEntry
  PROVE  Named(a.ships[q], s)
BY DEF Conventional

\* a record that is to go and whose file the loader opens for s owns the place it looks at
LEMMA GoneOwns ==
  ASSUME TypeInv, Conventional, ConfigsPlain, MadeInv, AllStand({}), kills = 0,
         NEW g \in dirs, Readable(g), NEW s \in Soname, LoadedAt(disk, s) # {},
         NEW q \in Own(man[g]) \cap Opened(disk, s), disk[q] = man[g][q]
  PROVE  /\ SoAt[s] \in Own(man[g]) /\ disk[SoAt[s]] = man[g][SoAt[s]]
         /\ \E r \in Own(man[g]) : /\ Named(man[g][r], s) /\ IsFile(disk[r])
                                   /\ r = SoAt[s] \/ (IsLink(disk[SoAt[s]]) /\ r = Info[disk[SoAt[s]]].link)
<1> DEFINE l == SoAt[s]
           m == man[g]
<1>1. l \in Path \ EtcPath /\ disk \in Manifest /\ m \in Manifest /\ q \in Path
  BY ConstantsAssumption DEF Conventional, TypeInv, TypeOK, Readable, Own
<1>2. ASSUME NEW a \in Built
      PROVE  /\ a.ships[l] # NoEntry =>
                  Named(a.ships[l], s) \/ (IsLink(a.ships[l]) /\ Info[a.ships[l]].link \in Own(a.ships))
             /\ \A r \in Path : Named(a.ships[r], s) => a.ships[l] # NoEntry
             /\ IsLink(a.ships[l]) => \A c \in Built :
                  c.ships[Info[a.ships[l]].link] # NoEntry => Named(c.ships[Info[a.ships[l]].link], s)
  BY DEF Conventional
<1>3. PICK a \in Built : m = a.ships
  BY DEF MadeInv, ShippedBy, TypeInv, TypeOK
<1>4. l \in Own(m) /\ disk[l] = m[l]
  <2>1. CASE q = l
    BY <2>1
  <2>2. CASE q # l
    <3>1. IsLink(disk[l]) /\ q = Info[disk[l]].link
      BY <2>2 DEF Opened, LoadedAt
    <3>2. PICK c \in Built : c.ships[l] = disk[l]
      BY <1>1, <3>1 DEF MadeInv, Made, IsLink
    <3>3. a.ships[q] # NoEntry /\ IsLink(c.ships[l]) /\ q = Info[c.ships[l]].link
      BY <1>3, <3>1, <3>2 DEF Own
    <3>4. Named(a.ships[q], s)
      BY <3>3, LinkedLibrary
    <3>5. l \in Own(m)
      BY <1>1, <1>2, <1>3, <3>4 DEF Own
    <3>6. disk[l] \notin Edits \cup Lost
      BY <3>1 DEF ConfigsPlain, Lost, IsFile, IsLink
    <3> QED
      BY <3>5, <3>6 DEF AllStand, Stands
  <2> QED
    BY <2>1, <2>2
<1>5. CASE Named(m[l], s)
  BY <1>4, <1>5 DEF Named
<1>6. CASE ~Named(m[l], s)
  <2> DEFINE r == Info[m[l]].link
  <2>1. IsLink(m[l]) /\ r \in Own(m)
    BY <1>2, <1>3, <1>4, <1>6 DEF Own
  <2>2. Named(a.ships[r], s)
    BY <1>2, <1>3, <2>1 DEF Own
  <2>3. IsFile(disk[r])
    BY <1>4, <2>1 DEF LoadedAt
  <2> QED
    BY <1>3, <1>4, <2>1, <2>2, <2>3
<1> QED
  BY <1>4, <1>5, <1>6

\* and then that soname still resolves without it only through a preserved record
LEMMA GoneResolves ==
  ASSUME TypeInv, Conventional, Homed, ConfigsPlain, MadeInv, AllStand({}), Disjoint(dirs), kills = 0,
         NEW gone \in SUBSET dirs, NEW g \in gone, Readable(g),
         NEW k \in dirs \ gone, Readable(k), ~Breaks(gone, k),
         NEW f \in Seen(man[k], disk), NEW s \in Info[disk[f]].needs, s \in Soname, LoadedAt(disk, s) # {},
         NEW q \in Own(man[g]) \cap Opened(disk, s), disk[q] = man[g][q]
  PROVE  \E l \in Key : SoAt[s] \in Own(preserved[l])
<1> DEFINE l == SoAt[s]
           m == man[g]
<1>1. /\ dirs \subseteq Key /\ l \in Path /\ l \in Own(m) /\ disk[l] = m[l]
      /\ \E r \in Own(m) : /\ Named(m[r], s) /\ IsFile(disk[r])
                           /\ r = l \/ (IsLink(disk[l]) /\ r = Info[disk[l]].link)
  BY GoneOwns, ConstantsAssumption DEF TypeInv, TypeOK
<1>2. PICK r \in Own(m) : /\ Named(m[r], s) /\ IsFile(disk[r])
                          /\ r = l \/ (IsLink(disk[l]) /\ r = Info[disk[l]].link)
  BY <1>1
<1>3. PICK home : \A a \in Built : \A x \in Own(a.ships) : At(home, a.target, a.ships[x])
  BY Homes
<1>4. home[s] = g.target
  <2>1. PICK a \in Built : KeyOf(a) = g /\ m = a.ships
    BY <1>1 DEF MadeInv, ShippedBy
  <2>2. s # NoEntry
    BY ConstantsAssumption
  <2> QED
    BY <1>2, <1>3, <2>1, <2>2 DEF At, KeyOf, Named
<1>5. home[s] = k.target
  BY <1>1, <1>3, Homes, AskerHome
<1>6. Resolves(Claims(dirs, k.target), disk, s)
  <2>1. m \in Claims(dirs, k.target)
    BY <1>4, <1>5 DEF Claims
  <2>2. r \in Seen(m, disk)
    BY <1>2 DEF Seen, Named
  <2>3. CASE r = l
    BY <2>1, <2>2, <2>3 DEF Resolves
  <2>4. CASE IsLink(disk[l]) /\ r = Info[disk[l]].link
    <3>1. IsLink(m[l]) /\ Info[m[l]].link \in Seen(m, disk)
      BY <1>1, <2>2, <2>4
    <3> QED
      BY <2>1, <3>1 DEF Resolves
  <2> QED
    BY <1>2, <2>3, <2>4
<1>7. Resolves(Claims(dirs \ gone, k.target), disk, s)
  BY <1>6 DEF Breaks
<1>8. PICK n \in Claims(dirs \ gone, k.target) : l \in Own(n)
  BY <1>1, <1>7 DEF Resolves, Seen, Own, IsLink
<1>9. ASSUME NEW h \in dirs \ gone, Readable(h), n = man[h] PROVE FALSE
  BY <1>1, <1>8, <1>9 DEF Disjoint
<1> QED
  BY <1>8, <1>9 DEF Claims

\* the story as the removal begins: what it is about is what it found
LEMMA StoryBegins ==
  ASSUME TypeInv, LockInv, ExclInv, WholeInv, NoForce, LayInv, MadeInv, Conventional, Homed, ConfigsPlain,
         kills = 0, NEW p \in Proc, RemoveCheck(p), Past(p)'
  PROVE  RemAt(p)'
<1> DEFINE gone == going[p] \cap dirs
           G == [k \in Key |-> IF Readable(k) THEN man[k] ELSE Nothing]
<1>0. /\ pc = [r \in Proc |-> pc[r]] /\ disk \in Manifest /\ dirs \subseteq Key /\ going[p] \subseteq Key
      /\ man \in [Key -> Manifest \cup {NoRecord}] /\ NoRecord \notin Manifest
      /\ going \in [Proc -> SUBSET Key] /\ base \in [Proc -> Manifest]
  BY ConstantsAssumption DEF TypeInv, TypeOK, LocalsOK
<1>1. pc[p] = "check" /\ ~RemoveRefused(p)
  BY <1>0 DEF RemoveCheck, Exit, Goto, Past
<1>2. /\ pc'[p] = "pick" /\ going'[p] = gone /\ base'[p] = disk
      /\ UNCHANGED <<disk, dirs, man, preserved, force>>
  BY <1>0, <1>1 DEF RemoveCheck, Goto, Set, db
<1>3. /\ ~force[p] /\ AllStand({}) /\ Disjoint(dirs)
  BY <1>1 DEF NoForce, LayInv, LayAt, Works, Goes, Applying, Past, ExclInv, LockInv, Middle
<1>4. \A k \in dirs \ gone : Readable(k) /\ ~Breaks(gone, k)
  <2>1. \A r \in Proc : pc[r] \notin {"manifest", "rmdir"}
    BY <1>1 DEF LockInv, Past
  <2>2. \A k \in dirs : Readable(k)
    BY <2>1 DEF WholeInv, Legible, Half
  <2> QED
    BY <1>1, <1>3, <2>2 DEF RemoveRefused
<1>5. G \in [Key -> Manifest] /\ \A k \in Key : Readable(k) => G[k] = man[k]
  BY <1>0, NothingType DEF Readable
<1>6. \A g \in Key : \A q \in Own(G[g]) : Readable(g)
  BY DEF Own, Nothing
<1> HIDE DEF G
<1>7. ASSUME NEW s \in Soname, NEW g \in gone, NEW q \in Own(G[g]), NEW k \in dirs \ gone, Readable(k),
             NEW f \in Seen(man[k], disk), s \in Info[disk[f]].needs,
             LoadedAt(disk, s) # {}, q \in Opened(disk, s), disk[q] = G[g][q]
      PROVE  /\ SoAt[s] \in Own(G[g]) /\ disk[SoAt[s]] = G[g][SoAt[s]]
             /\ \E l \in Key : SoAt[s] \in Own(preserved[l])
  <2>1. Readable(g) /\ G[g] = man[g] /\ g \in dirs
    BY <1>0, <1>5, <1>6, <1>7
  <2>2. SoAt[s] \in Own(G[g]) /\ disk[SoAt[s]] = G[g][SoAt[s]]
    BY <1>3, <1>7, <2>1, GoneOwns
  <2>3. \E l \in Key : SoAt[s] \in Own(preserved[l])
    BY <1>3, <1>4, <1>7, <2>1, GoneResolves
  <2> QED
    BY <2>2, <2>3
<1>8. \E S, H : S = gone /\ H = G
  OBVIOUS
<1>9. PICK S, H : S = gone /\ H = G
  BY <1>8
<1> HIDE DEF gone
<1>10. S \subseteq Key /\ going'[p] = S /\ S \subseteq dirs
  BY <1>0, <1>2, <1>9 DEF gone
<1>11. \A k \in dirs \ S : Readable(k)
  BY <1>4, <1>9
<1>12. \A g \in S : ~ \E q \in Own(H[g]) : Cut(p, g, q)'
  BY <1>2, <1>10 DEF Cut
<1>13. \A k \in S : Readable(k)' => man'[k] = H[k]
  BY <1>2, <1>5, <1>9, <1>10 DEF Readable
<1>14. \A s \in Soname : \A g \in S : \A q \in Own(H[g]) :
         (\E k \in dirs \ S : Readable(k) /\ \E f \in Seen(man[k], disk) : s \in Info[disk[f]].needs)
           /\ LoadedAt(disk, s) # {} /\ q \in Opened(disk, s) /\ disk[q] = H[g][q]
         => /\ SoAt[s] \in Own(H[g]) /\ disk[SoAt[s]] = H[g][SoAt[s]]
            /\ \E l \in Key : SoAt[s] \in Own(preserved[l])
  BY <1>7, <1>9
<1>15. \A s \in Soname : \A g \in S : \A q \in Own(H[g])' :
         (\E k \in dirs' \ S : Readable(k)' /\ \E f \in Seen(man[k], base[p])' : s \in Info[base'[p][f]].needs)
           /\ LoadedAt(base[p], s)' # {} /\ q \in Opened(base[p], s)' /\ base'[p][q] = H[g][q]
         => /\ SoAt[s] \in Own(H[g])' /\ base'[p][SoAt[s]] = H[g][SoAt[s]]
            /\ \E l \in Key : SoAt[s] \in Own(preserved[l])'
  <2>1. /\ \A k : Seen(man[k], base[p])' = Seen(man[k], disk) /\ (Readable(k)' <=> Readable(k))
        /\ \A k : Own(preserved[k])' = Own(preserved[k])
        /\ \A g : Own(H[g])' = Own(H[g])
    BY <1>2 DEF Seen, Own, Readable
  <2>2. \A s : LoadedAt(base[p], s)' = LoadedAt(disk, s) /\ Opened(base[p], s)' = Opened(disk, s)
    BY <1>2 DEF LoadedAt, Opened
  <2> QED
    BY <1>2, <1>14, <2>1, <2>2
<1>16. Story(p, S, H)'
  <2>1. H \in [Key -> Manifest]
    BY <1>5, <1>9
  <2>2. \A q \in Path : disk'[q] = base'[p][q]
    BY <1>2
  <2> QED
    BY <1>10, <1>12, <1>13, <1>15, <2>1, <2>2 DEF Story, Own
<1> QED
  BY <1>16 DEF RemAt

\* a step of the removal that takes files of what is to go and drops no other record
LEMMA StoryKeeps ==
  ASSUME NEW p \in Proc, NEW S, NEW H, Story(p, S, H), base'[p] = base[p], UNCHANGED preserved,
         dirs' \subseteq dirs, going'[p] \subseteq going[p],
         \A k \in dirs' \cap S : k \in going[p] => k \in going'[p],
         \A k \in dirs' : Readable(k)' => man'[k] = man[k],
         \A k \in going'[p] : Readable(k)' => man'[k] = man[k],
         \A q \in Path : \/ disk'[q] = disk[q]
                         \/ disk'[q] = NoEntry /\ \E g \in S : q \in Own(H[g]) /\ disk[q] = H[g][q],
         \A g \in S : \A q \in Own(H[g]) : Cut(p, g, q)' => Cut(p, g, q) \/ disk'[q] # H[g][q]
  PROVE  Story(p, S, H)'
<1>1. /\ \A k \in dirs' : Readable(k)' => Readable(k) /\ Seen(man[k], base[p])' = Seen(man[k], base[p])
      /\ \A g : Own(H[g])' = Own(H[g])
      /\ \A k : Own(preserved[k])' = Own(preserved[k])
      /\ \A s : LoadedAt(base[p], s)' = LoadedAt(base[p], s) /\ Opened(base[p], s)' = Opened(base[p], s)
  BY DEF Readable, Seen, Own, LoadedAt, Opened
<1>2. /\ H \in [Key -> Manifest] /\ S \subseteq Key /\ going'[p] \subseteq S
      /\ \A k \in dirs' \cap S : k \in going'[p]
  BY DEF Story
<1>3. \A k \in going'[p] : Readable(k)' => man'[k] = H[k]
  BY DEF Story, Readable
<1>5. \A g \in S : \A q \in Own(H[g]) : Cut(p, g, q)' => disk'[q] # H[g][q]
  <2> SUFFICES ASSUME NEW g \in S, NEW q \in Own(H[g]), Cut(p, g, q), Cut(p, g, q)' PROVE disk'[q] # H[g][q]
    OBVIOUS
  <2>1. disk[q] # H[g][q] /\ q \in Path /\ H[g][q] # NoEntry
    BY DEF Story, Own
  <2> QED
    BY <2>1
<1>6. \A q \in Path : disk'[q] = base'[p][q]
                      \/ (disk'[q] = NoEntry /\ \E g \in S : q \in Own(H[g])' /\ base'[p][q] = H[g][q])
  <2> SUFFICES ASSUME NEW q \in Path
               PROVE  disk'[q] = base[p][q]
                      \/ (disk'[q] = NoEntry /\ \E g \in S : q \in Own(H[g]) /\ base[p][q] = H[g][q])
    BY <1>1
  <2>1. \/ disk[q] = base[p][q]
        \/ (disk[q] = NoEntry /\ \E g \in S : q \in Own(H[g]) /\ base[p][q] = H[g][q])
    BY DEF Story
  <2>2. ASSUME NEW g \in S, q \in Own(H[g]), disk[q] = H[g][q] PROVE disk[q] # NoEntry
    BY <2>2 DEF Own
  <2> QED
    BY <2>1, <2>2
<1>7. \A s \in Soname : \A g \in S : \A q \in Own(H[g]) :
        (\E k \in dirs \ S : Readable(k) /\ \E f \in Seen(man[k], base[p]) : s \in Info[base[p][f]].needs)
          /\ LoadedAt(base[p], s) # {} /\ q \in Opened(base[p], s) /\ base[p][q] = H[g][q]
        => /\ SoAt[s] \in Own(H[g]) /\ base[p][SoAt[s]] = H[g][SoAt[s]]
           /\ \E l \in Key : SoAt[s] \in Own(preserved[l])
  BY DEF Story
<1>8. \A s \in Soname : \A g \in S : \A q \in Own(H[g])' :
        (\E k \in dirs' \ S : Readable(k)' /\ \E f \in Seen(man[k], base[p])' : s \in Info[base'[p][f]].needs)
          /\ LoadedAt(base[p], s)' # {} /\ q \in Opened(base[p], s)' /\ base'[p][q] = H[g][q]
        => /\ SoAt[s] \in Own(H[g])' /\ base'[p][SoAt[s]] = H[g][SoAt[s]]
           /\ \E l \in Key : SoAt[s] \in Own(preserved[l])'
  BY <1>1, <1>7
<1> QED
  BY <1>1, <1>2, <1>3, <1>5, <1>6, <1>8 DEF Story

LEMMA LibRemove ==
  ASSUME TypeInv, LockInv, ExclInv, WholeInv, NoForce, RuledInv, LayInv, MadeInv, LibInv,
         Conventional, Homed, ConfigsPlain, NEW p \in Proc, Past(p), Remove(p) \/ Finish(p) \/ Kill(p)
  PROVE  LibInv'
<1>0. /\ pc = [r \in Proc |-> pc[r]] /\ disk \in Manifest /\ kills \in Nat /\ dirs \subseteq Key
      /\ going \in [Proc -> SUBSET Key] /\ todo \in [Proc -> SUBSET Path]
      /\ man \in [Key -> Manifest \cup {NoRecord}] /\ NoRecord \notin Manifest
      /\ was = [r \in Proc |-> was[r]] /\ op \in [Proc -> {"none", "install", "remove", "gc"}] /\ Others(p)
  BY StepOthers, ExitOthers, ConstantsAssumption DEF TypeInv, TypeOK, LocalsOK, Step, Kill
<1>1. ASSUME Exit(p) PROVE LibInv'
  BY <1>0, <1>1, LibInside DEF Exit, Goto, Past
<1>2. CASE Finish(p) \/ Kill(p) \/ RemoveDies(p)
  BY <1>1, <1>2 DEF Finish, Kill, RemoveDies
<1>3. CASE Remove(p) /\ ~Exit(p)
  <2>0. UNCHANGED kills
    BY <1>3 DEF Remove, RemoveCheck, RemoveDies, RemovePick, RemoveUnlink, ForgetProvides,
       ForgetFiles, ForgetDir, counts
  <2> SUFFICES ASSUME kills = 0, Past(p)' PROVE LibAt(p)' /\ GcAt(p)' /\ RemAt(p)'
    BY <1>0, <2>0, LibInside
  <2>1. /\ pc[p] \in Leaving \cup {"check"} /\ pc'[p] \in Leaving \cup {"done"} /\ op'[p] = op[p]
        /\ op[p] = "remove"
    <3>1. /\ pc[p] \in Leaving \cup {"check"} /\ pc'[p] \in Leaving \cup {"done"} /\ op'[p] = op[p]
      BY <1>0, <1>3 DEF Remove, RemoveCheck, RemoveDies, RemovePick, RemoveUnlink, ForgetProvides,
         ForgetFiles, ForgetDir, Goto, locals, Leaving
    <3> QED
      BY <3>1 DEF RuledInv, Ruled
  <2>2. LibAt(p)' /\ GcAt(p)'
    BY <2>1 DEF LibAt, GcAt, Works, Applying, Leaving
  <2> SUFFICES RemAt(p)'
    BY <2>2
  <2>3. CASE RemoveCheck(p)
    BY <2>3, StoryBegins
  <2>4. CASE ~RemoveCheck(p)
    <3>1. pc[p] \in Leaving /\ Handles(p) /\ LayAt(p) /\ RemAt(p)
      BY <1>3, <2>4 DEF Remove, RemoveDies, RemovePick, RemoveUnlink, ForgetProvides,
         ForgetFiles, ForgetDir, Leaving, LibInv, LayInv, WholeInv
    <3>2. PICK S, H : Story(p, S, H)
      BY <3>1 DEF RemAt, Removes, Leaving
    <3> DEFINE R == Removing(p)
    <3>3. pc[p] \in {"remove", "forget", "rmdir"} => R \in going[p] /\ R \in S /\ R \in dirs
      BY <3>1, <3>2 DEF Handles, Leaving, Story
    <3>4. pc[p] \in {"remove", "forget"} => Readable(R) /\ Old(p, R) = man[R] /\ man[R] = H[R]
      BY <3>1, <3>2, <3>3 DEF LayAt, Goes, Story
    <3>5. was'[p] = was[p] => R' = R
      BY RemovingKeeps
    <3> HIDE DEF R
    <3> SUFFICES Story(p, S, H)'
      BY DEF RemAt
    <3>6. CASE RemovePick(p)
      <4>1. PICK k \in going[p] :
              /\ ~Unread(p, k.target)
              /\ was' = Set(was, p, [l \in Key |-> IF l = k THEN man[k] ELSE NoRecord])
              /\ todo' = Set(todo, p, Own(man[k]))
        BY <3>6 DEF RemovePick
      <4>2. pc[p] = "pick" /\ pc'[p] = "remove" /\ UNCHANGED <<disk, dirs, man, preserved, base, going>>
        BY <1>0, <3>6 DEF RemovePick, Goto, db
      <4>3. k \in Key /\ Readable(k)
        BY <1>0, <4>1 DEF Unread
      <4>4. was'[p] = [l \in Key |-> IF l = k THEN man[k] ELSE NoRecord] /\ todo'[p] = Own(man[k])
        BY <1>0, <4>1 DEF Set
      <4>5. Removing(p)' = k
        <5>1. \A l \in Key : was'[p][l] # NoRecord <=> l = k
          BY <4>3, <4>4 DEF Readable
        <5> QED
          BY <4>3, <5>1, Zenon DEF Removing
      <4>6. man[k] = H[k]
        BY <3>2, <4>1, <4>3 DEF Story
      <4>7. \A g \in S : \A q \in Own(H[g]) : Cut(p, g, q)' => Cut(p, g, q)
        BY <4>2, <4>4, <4>5, <4>6 DEF Cut
      <4> QED
        BY <3>2, <4>2, <4>7, StoryKeeps
    <3>7. CASE RemoveUnlink(p)
      <4>1. pc[p] = "remove" /\ UNCHANGED <<pc, dirs, man, preserved, was, base, going>>
        BY <3>7 DEF RemoveUnlink, db
      <4>2. PICK q \in todo[p] :
              /\ disk' = IF disk[q] = Old(p, R)[q] THEN [disk EXCEPT ![q] = NoEntry] ELSE disk
              /\ todo' = [todo EXCEPT ![p] = @ \ {q}]
        BY <3>7 DEF RemoveUnlink, Drop, R
      <4>3. q \in Own(H[R]) /\ Old(p, R) = H[R] /\ R \in S /\ R \in going[p] /\ q \in Path
        BY <1>0, <3>1, <3>3, <3>4, <4>1, <4>2 DEF LayAt, Goes, R
      <4>4. H[R][q] # NoEntry
        BY <4>3 DEF Own
      <4>5. /\ \A r \in Path \ {q} : disk'[r] = disk[r]
            /\ disk[q] = H[R][q] => disk'[q] = NoEntry
            /\ disk[q] # H[R][q] => disk'[q] = disk[q]
        BY <1>0, <4>2, <4>3 DEF Manifest
      <4>6. todo'[p] = todo[p] \ {q} /\ R' = R
        BY <1>0, <3>5, <4>1, <4>2
      <4>7. \A g \in S : \A r \in Own(H[g]) : Cut(p, g, r)' => Cut(p, g, r) \/ disk'[r] # H[g][r]
        BY <4>1, <4>4, <4>5, <4>6 DEF Cut, R
      <4>8. \A r \in Path : \/ disk'[r] = disk[r]
                            \/ disk'[r] = NoEntry /\ \E g \in S : r \in Own(H[g]) /\ disk[r] = H[g][r]
        BY <4>3, <4>5
      <4> QED
        BY <3>2, <4>1, <4>7, <4>8, StoryKeeps
    <3>8. CASE ForgetProvides(p)
      <4>1. /\ pc[p] = "remove" /\ pc'[p] = "forget" /\ todo[p] = {}
            /\ UNCHANGED <<disk, dirs, man, preserved, was, base, going>>
        BY <1>0, <3>8 DEF ForgetProvides, Goto, locals
      <4>2. \A g \in S : \A r \in Own(H[g]) : Cut(p, g, r)' => Cut(p, g, r)
        BY <3>5, <4>1 DEF Cut, R
      <4> QED
        BY <3>2, <4>1, <4>2, StoryKeeps
    <3>9. CASE ForgetFiles(p)
      <4>1. /\ pc[p] = "forget" /\ pc'[p] = "rmdir" /\ man' = [man EXCEPT ![R] = NoRecord]
            /\ UNCHANGED <<disk, dirs, preserved, was, base, going>>
        BY <1>0, <3>9 DEF ForgetFiles, Goto, locals, R
      <4>2. \A g \in S : \A r \in Own(H[g]) : Cut(p, g, r)' => Cut(p, g, r)
        BY <3>5, <4>1 DEF Cut, R
      <4>3. \A k \in Key : Readable(k)' => man'[k] = man[k]
        BY <1>0, <4>1 DEF Readable
      <4>4. \A k \in going'[p] : k \in Key
        BY <1>0, <4>1
      <4> QED
        BY <1>0, <3>2, <4>1, <4>2, <4>3, <4>4, StoryKeeps
    <3>10. CASE ForgetDir(p)
      <4>1. /\ pc[p] = "rmdir" /\ pc'[p] \in {"pick", "done"} /\ dirs' = dirs \ {R}
            /\ going'[p] = going[p] \ {R} /\ UNCHANGED <<disk, man, preserved, was, base>>
        BY <1>0, <3>10 DEF ForgetDir, Goto, R
      <4>2. \A g \in S : \A r \in Own(H[g]) : Cut(p, g, r)' => Cut(p, g, r)
        BY <4>1 DEF Cut, R
      <4> QED
        BY <3>2, <4>1, <4>2, StoryKeeps
    <3> QED
      BY <1>3, <2>4, <3>6, <3>7, <3>8, <3>9, <3>10 DEF Remove, RemoveDies
  <2> QED
    BY <2>3, <2>4
<1> QED
  BY <1>1, <1>2, <1>3

LEMMA LibOutside == ASSUME TypeInv, LockInv, LockInv', LibInv, Outside PROVE LibInv'
<1>0. UNCHANGED db /\ (kills' = 0 => kills = 0)
  BY OutsideKeeps
<1> SUFFICES ASSUME kills' = 0, kills = 0, NEW p \in Proc, Past(p)' PROVE LibAt(p)' /\ GcAt(p)' /\ RemAt(p)'
  BY <1>0 DEF LibInv
<1>1. CASE pc[p] \in {"idle", "lock"} /\ pc'[p] \in {"idle", "lock", "plan", "check", "gc"}
  BY <1>1 DEF LibAt, Works, Applying, GcAt, RemAt, Removes
<1>2. CASE ~(pc[p] \in {"idle", "lock"} /\ pc'[p] \in {"idle", "lock", "plan", "check", "gc"})
  <2>1. /\ pc'[p] = pc[p] /\ op'[p] = op[p] /\ batch'[p] = batch[p] /\ at'[p] = at[p]
        /\ was'[p] = was[p] /\ base'[p] = base[p] /\ skip'[p] = skip[p] /\ todo'[p] = todo[p]
        /\ kept'[p] = kept[p] /\ going'[p] = going[p]
    BY <1>2, OutsideKeeps
  <2>2. Past(p)
    BY <2>1 DEF Past
  <2>3. ~Edit
    BY <2>2, ConstantsAssumption DEF Edit, LockInv, Past
  <2>4. UNCHANGED disk
    BY <2>3 DEF Outside, vars, BeginInstall, BeginRemove, BeginGc, Begin, Lock, Kill
  <2>5. LibAt(p) /\ GcAt(p) /\ RemAt(p)
    BY <2>2 DEF LibInv
  <2>6. /\ \A i : (Laid(p, i)' <=> Laid(p, i)) /\ (Provided(p, i)' <=> Provided(p, i)) /\ (Saved(p, i)' <=> Saved(p, i))
        /\ Prunes(p)' <=> Prunes(p)
        /\ Works(p)' <=> Works(p)
        /\ Removes(p)' <=> Removes(p)
        /\ Removing(p)' = Removing(p) /\ Job(p)' = Job(p)
    BY <2>1, Zenon DEF Laid, Provided, Saved, Prunes, Works, Removes, Removing, Job
  <2>7. LibAt(p)'
    <3>1. ASSUME Keeping(p), Works(p) PROVE Keeping(p)'
      <4>1. pc[p] = "extract" => skip[p] \subseteq EtcPath
        BY <3>1 DEF Keeping, Whole
      <4>2. /\ \A k : Old(p, k)' = Old(p, k)
            /\ \A i : OldOf(p, i)' = OldOf(p, i) /\ Libraries(OldOf(p, i), base[p])' = Libraries(OldOf(p, i), base[p])
        BY <2>1, OldOfKeeps
      <4>3. Parted(p)'
        BY <3>1, <4>2 DEF Keeping, Parted, Own
      <4>4. Whole(p)'
        BY <2>1, <2>4, <2>6, <3>1 DEF Keeping, Whole, Own
      <4>5. Carries(p)'
        BY <1>0, <2>1, <2>6, <3>1 DEF Keeping, Carries, Named, KeyOf, db
      <4>6. Shelf(p)'
        BY <2>1, <2>6, <3>1, <4>2 DEF Keeping, Shelf, Ships, Own
      <4>7. Saving(p)'
        BY <1>0, <2>1, <2>6, <3>1, <4>2 DEF Keeping, Saving, Saves, Ships, Own, KeyOf, db
      <4>8. Sparse(p)'
        BY <2>1, <2>4, <2>6, <3>1, <4>2 DEF Keeping, Sparse, Ships, Own
      <4> QED
        BY <4>3, <4>4, <4>5, <4>6, <4>7, <4>8 DEF Keeping
    <3>2. Loads(p) => Loads(p)'
      BY <2>1, <2>4 DEF Loads, LoadedAt
    <3> QED
      BY <2>1, <2>5, <2>6, <3>1, <3>2 DEF LibAt
  <2>8. GcAt(p)'
    <3>1. \A q : Free(p, q)' <=> Free(p, q)
      BY <1>0, <2>1 DEF Free, Asked, Opened, LoadedAt, Seen, Own, Readable, db
    <3> QED
      BY <2>1, <2>4, <2>5, <3>1 DEF GcAt
  <2>9. RemAt(p)'
    <3> SUFFICES ASSUME Removes(p) PROVE \E S, H : Story(p, S, H)'
      BY <2>6 DEF RemAt
    <3>1. PICK S, H : Story(p, S, H)
      BY <2>5 DEF RemAt
    <3>2. \A g \in S : \A q \in Own(H[g]) : Cut(p, g, q)' => Cut(p, g, q)
      BY <2>1, <2>6 DEF Cut
    <3> QED
      BY <1>0, <2>1, <2>4, <3>1, <3>2, StoryKeeps DEF db
  <2> QED
    BY <2>7, <2>8, <2>9
<1> QED
  BY <1>1, <1>2

LEMMA LibAlways ==
  ASSUME Conventional, Homed, ConfigsPlain, Unforced PROVE Spec => [](MadeInv /\ RuledInv /\ LibInv)
<1>1. Init => EditInv /\ MadeInv /\ RuledInv /\ LibInv
  BY EditInit, MadeInit DEF Init, RuledInv, Ruled, LibInv, Past, Applying, Leaving
<1>2. TypeInv /\ LockInv /\ LockInv' /\ WholeInv /\ EditInv /\ [Next]_vars => EditInv'
  BY EditNext
<1>3. TypeInv /\ LockInv /\ SparedInv /\ NoForce /\ LayInv /\ MadeInv /\ [Next]_vars => MadeInv'
  BY MadeNext
<1>4. TypeInv /\ RuledInv /\ [Next]_vars => RuledInv'
  BY RuledNext
<1>5. Ground /\ LockInv' /\ NoForce /\ LayInv /\ EditInv /\ MadeInv /\ RuledInv /\ LibInv /\ [Next]_vars
        => LibInv'
  BY InsideOrOut, LibOutside, LibInstall, LibGc, LibRemove DEF Ground
<1>6. Ground => TypeInv /\ LockInv /\ WholeInv /\ SparedInv
  BY DEF Ground
<1>7. Spec => [](NoForce /\ LayInv)
  BY LayAlways
<1> QED
  BY GroundAlways, <1>1, <1>2, <1>3, <1>4, <1>5, <1>6, <1>7, PTL DEF Spec

----------------------------------------------------------------------------
\* nothing a preserved record lists went or changed while p's command ran
KeptBack(p) == \A k \in Key : \A q \in Own(preserved[k]) : disk[q] = base[p][q]

\* the same files where the loader looks, the same library
LEMMA SameLoads ==
  ASSUME NEW d, NEW e, NEW s \in Soname, \A q \in Opened(d, s) : e[q] = d[q], LoadedAt(d, s) # {}
  PROVE  LoadedAt(e, s) # {}
<1>1. SoAt[s] \in Opened(d, s) /\ e[SoAt[s]] = d[SoAt[s]]
  BY DEF Opened
<1> QED
  BY <1>1 DEF LoadedAt, Opened

\* what the packages a finished command left alone link, they linked when it began
LEMMA AskedBefore ==
  ASSUME NEW p \in Proc, NEW k \in dirs, Readable(k), NEW f \in Seen(man[k], disk),
         disk[f] # NoEntry => disk[f] = base[p][f]
  PROVE  f \in Seen(man[k], base[p]) /\ Info[base[p][f]].needs = Info[disk[f]].needs
BY DEF Seen, IsFile

LEMMA DoneLoads ==
  ASSUME TypeInv, RuledInv, LibInv, kills = 0, NEW p \in Proc, pc[p] = "done",
         op[p] = "remove" => KeptBack(p), NEW k \in dirs, Readable(k), NEW f \in Seen(man[k], disk),
         NEW s \in Soname, s \in Info[disk[f]].needs, LoadedAt(base[p], s) # {}
  PROVE  LoadedAt(disk, s) # {}
<1>1. LibAt(p) /\ GcAt(p) /\ RemAt(p)
  BY DEF LibInv, Past
<1>2. op[p] \in {"install", "remove", "gc"} /\ (op[p] = "remove" => going[p] = {})
  BY DEF RuledInv, Ruled
<1>3. f \in Path /\ disk[f] # NoEntry /\ SoAt[s] \in Path
  BY ConstantsAssumption DEF Seen, Own, IsFile
<1>4. CASE op[p] = "install"
  BY <1>1, <1>4 DEF LibAt, Loads
<1>5. CASE op[p] = "gc"
  <2>1. \A q \in Path : disk[q] = base[p][q] \/ (disk[q] = NoEntry /\ Free(p, q))
    BY <1>1, <1>5 DEF GcAt
  <2>2. Asked(p, s)
    BY <1>3, <2>1, AskedBefore DEF Asked
  <2>3. \A q \in Path : Free(p, q) => q \notin Opened(base[p], s)
    BY <2>2 DEF Free
  <2>4. Opened(base[p], s) \subseteq Path
    BY <1>3, ConstantsAssumption DEF Opened, LoadedAt, IsFile, IsLink, TypeInv, TypeOK, LocalsOK, Manifest
  <2> QED
    BY <2>1, <2>3, <2>4, SameLoads
<1>6. CASE op[p] = "remove"
  <2>1. PICK S, H : Story(p, S, H)
    BY <1>1, <1>6 DEF RemAt, Removes
  <2>2. k \notin S
    BY <1>2, <1>6, <2>1 DEF Story
  <2>3. \A q \in Path : \/ disk[q] = base[p][q]
                        \/ disk[q] = NoEntry /\ \E g \in S : q \in Own(H[g]) /\ base[p][q] = H[g][q]
    BY <2>1 DEF Story
  <2>4. f \in Seen(man[k], base[p]) /\ s \in Info[base[p][f]].needs
    BY <1>3, <2>3, AskedBefore
  <2>5. Opened(base[p], s) \subseteq Path
    BY <1>3, ConstantsAssumption DEF Opened, LoadedAt, IsFile, IsLink, TypeInv, TypeOK, LocalsOK, Manifest
  <2>6. ASSUME NEW q \in Opened(base[p], s), disk[q] # base[p][q] PROVE FALSE
    <3>1. PICK g \in S : q \in Own(H[g]) /\ base[p][q] = H[g][q]
      BY <2>3, <2>5, <2>6
    <3>2. /\ SoAt[s] \in Own(H[g]) /\ base[p][SoAt[s]] = H[g][SoAt[s]]
          /\ \E l \in Key : SoAt[s] \in Own(preserved[l])
      BY <2>1, <2>2, <2>4, <3>1 DEF Story
    <3>3. disk[SoAt[s]] # H[g][SoAt[s]]
      BY <1>2, <1>6, <2>1, <3>2 DEF Story, Cut
    <3> QED
      BY <1>6, <3>2, <3>3 DEF KeptBack
  <2> QED
    BY <2>6, SameLoads
<1> QED
  BY <1>2, <1>4, <1>5, <1>6

\* With nothing forced and nothing killed, and packages that lay their libraries out where
\* the loader looks, no install, gc or removal leaves a package it was not about with a
\* library it links gone: an upgrade keeps back what left with the links that lead to it,
\* a removal is refused while something else links what it takes, gc frees only what nothing
\* links. For a removal this asks that it takes no file of a preserved record: one that stayed
\* behind after its path was taken back answers held_by for a file that goes (install.rs
\* preserve and remove, main.rs held_by and gc_cmd).
THEOREM NothingStranded ==
  ASSUME Conventional, Homed, ConfigsPlain, Unforced
  PROVE  Spec => [](kills = 0 /\ (\A p \in Proc : pc[p] = "done" /\ op[p] = "remove" => KeptBack(p))
                      => NoneStranded)
<1>1. Ground => TypeInv
  BY DEF Ground
<1>2. Spec => [](MadeInv /\ RuledInv /\ LibInv)
  BY LibAlways
<1>3. TypeInv /\ RuledInv /\ LibInv =>
        (kills = 0 /\ (\A p \in Proc : pc[p] = "done" /\ op[p] = "remove" => KeptBack(p)) => NoneStranded)
  <2> SUFFICES ASSUME TypeInv, RuledInv, LibInv, kills = 0, NEW p \in Proc, pc[p] = "done",
                      op[p] = "remove" => KeptBack(p), NEW x \in Bystanders(p),
                      NEW s \in Info[disk[x[2]]].needs, LoadedAt(base[p], s) # {}
               PROVE  LoadedAt(disk, s) # {}
    BY DEF NoneStranded
  <2>1. x[1] \in dirs /\ Readable(x[1]) /\ x[2] \in Seen(man[x[1]], disk)
    BY DEF Bystanders
  <2>2. s \in Soname
    BY <2>1, ConstantsAssumption DEF Seen, Own, IsFile, TypeInv, TypeOK, Manifest
  <2> QED
    BY <2>1, <2>2, DoneLoads
<1> QED
  BY GroundAlways, <1>1, <1>2, <1>3, PTL

----------------------------------------------------------------------------
(* Who an install left without a symbol or with a copy of its library is told. *)

\* one package has a soname, in one file
Singular ==
  \E owner \in [Soname -> Key] : \A a \in Built : \A s \in Soname : \A q, r \in Path :
    Named(a.ships[q], s) /\ Named(a.ships[r], s) => q = r /\ owner[s] = KeyOf(a)

Mark(j, s, c) == [target |-> j.target, soname |-> s, changed |-> c]
\* what c no longer exports of the library it takes the place of at q
Dropped(old, d, q, c) ==
  UNION {Info[o].exports \ Info[c].exports : o \in Baseline(old, d, q, Info[c].soname)}
\* a library that is down was compared with the one before it
Compared(p) ==
  \A i \in 1..Len(batch[p]) : Laid(p, i) => \A q \in Own(batch[p][i].ships) \ EtcPath :
    LET c == batch[p][i].ships[q]
        lost == Dropped(OldOf(p, i), base[p], q, c)
    IN  IsFile(c) /\ Info[c].soname # NoEntry /\ lost # {}
        => Mark(batch[p][i], Info[c].soname, lost) \in broke[p]
\* a soname that is not carried was marked as gone
Missed(p) ==
  \A i \in 1..Len(batch[p]) : Saved(p, i) => \A r \in Libraries(OldOf(p, i), base[p]) :
    \/ \E x \in prov[KeyOf(batch[p][i])] : x[1] = Info[base[p][r]].soname
    \/ r \in Ships(batch[p])
    \/ Mark(batch[p][i], Info[base[p][r]].soname, {}) \in broke[p]
\* and so was the soname of each library that is kept
Copied(p) ==
  \A i \in 1..Len(batch[p]) : Saved(p, i) => \A q \in Own(OldOf(p, i)) :
    \/ q \in Ships(batch[p]) \/ q \notin kept[p] \/ IsLink(OldOf(p, i)[q])
    \/ Mark(batch[p][i], Info[base[p][q]].soname, {}) \in broke[p]
Marks(p) == Compared(p) /\ Missed(p) /\ Copied(p)

\* whom x[1] names and the queue holds for s
Queueing(x, s) == \E r \in queue : r.name = x[1].name /\ r.target = x[1].target /\ r.soname = s
Queues(p) ==
  /\ \A x \in Bystanders(p) : \A s \in Info[disk[x[2]]].needs :
       /\ \E k \in Key : LoadedAt(base[p], s) \cap Own(Old(p, k)) # {}
       /\ (Info[disk[x[2]]].undefined \cap Exported(base[p], s)) \ Exported(disk, s) # {}
       => Queueing(x, s)
  /\ \A k \in Keys(batch[p]) : \A q \in Own(preserved[k]) \cap Own(Old(p, k)) :
       IsFile(disk[q]) /\ (\A l \in dirs : Readable(l) => q \notin Own(man[l])) =>
         \A x \in Bystanders(p) :
           x[1].target = k.target /\ Info[disk[q]].soname \in Info[disk[x[2]]].needs
           => Queueing(x, Info[disk[q]].soname)

MarkAt(p) ==
  /\ Works(p) => Marks(p)
  /\ pc[p] = "done" /\ op[p] = "install" => Queues(p)
MarkInv == kills = 0 => \A p \in Proc : Past(p) => MarkAt(p)

LEMMA MarkInside ==
  ASSUME LockInv, NEW p \in Proc, Past(p), Others(p), kills' = 0 /\ Past(p)' => MarkAt(p)'
  PROVE  MarkInv'
<1>1. \A q \in Proc \ {p} : ~Past(q)'
  BY AloneStep DEF Past
<1> QED
  BY <1>1 DEF MarkInv

\* a step that marks no fewer, keeps nothing more and begins no job's libraries
LEMMA MarksSame ==
  ASSUME NEW p \in Proc, Marks(p), was'[p] = was[p], base'[p] = base[p], batch'[p] = batch[p],
         kept'[p] = kept[p], broke[p] \subseteq broke'[p],
         \A i \in 1..Len(batch[p]) :
           /\ Laid(p, i)' => Laid(p, i)
           /\ Saved(p, i)' => Saved(p, i) /\ prov'[KeyOf(batch[p][i])] = prov[KeyOf(batch[p][i])]
  PROVE  Marks(p)'
<1>1. \A i : OldOf(p, i)' = OldOf(p, i) /\ Libraries(OldOf(p, i), base[p])' = Libraries(OldOf(p, i), base[p])
  BY OldOfKeeps
<1>2. Compared(p)'
  <2> SUFFICES ASSUME NEW i \in 1..Len(batch[p]), Laid(p, i)', NEW q \in Own(batch[p][i].ships) \ EtcPath,
                      NEW c, c = batch[p][i].ships[q], IsFile(c), Info[c].soname # NoEntry,
                      Dropped(OldOf(p, i), base[p], q, c) # {}
               PROVE  Mark(batch[p][i], Info[c].soname, Dropped(OldOf(p, i), base[p], q, c)) \in broke'[p]
    BY <1>1 DEF Compared, Own
  <2> QED
    BY DEF Marks, Compared
<1>3. Missed(p)'
  BY <1>1 DEF Marks, Missed, Ships, Own, KeyOf, Mark
<1>4. Copied(p)'
  BY <1>1 DEF Marks, Copied, Ships, Own, Mark
<1> QED
  BY <1>2, <1>3, <1>4 DEF Marks

LEMMA MarksHead ==
  ASSUME TypeInv, SparedInv, NoForce, LayInv, kills = 0, NEW p \in Proc, Keeping(p), Marks(p), PutHead(p)
  PROVE  Marks(p)'
<1> DEFINE b == batch[p]
           I == 1..Len(b)
<1>1. /\ pc[p] = "extract" /\ pc'[p] = "manifest" /\ todo[p] = {}
      /\ UNCHANGED <<disk, prov, was, base, batch, at>>
      /\ broke'[p] = broke[p] \cup
           {[target |-> Job(p).target, soname |-> Info[disk[q]].soname, changed |-> Moved(p, q)] :
              q \in {r \in Libraries(Job(p).ships, disk) : Moved(p, r) # {}}}
  BY DEF PutHead, Goto, TypeInv, TypeOK, LocalsOK
<1>2. at[p] \in I /\ Job(p) = b[at[p]] /\ OldOf(p, at[p]) = Old(p, KeyOf(Job(p)))
  BY <1>1, JobFacts DEF Applying, OldOf
<1>3. /\ \A i : OldOf(p, i)' = OldOf(p, i)
      /\ batch'[p] = b /\ base'[p] = base[p] /\ \A m : Own(m)' = Own(m)
  BY <1>1, OldOfKeeps DEF Own
<1>4. \A i \in I : /\ Laid(p, i)' => Laid(p, i) \/ i = at[p]
                   /\ ~Saved(p, i)'
  BY <1>1, <1>2, JobFacts DEF Laid, Saved, Later, Applying
<1>5. Compared(p)'
  <2> SUFFICES ASSUME NEW i \in I, Laid(p, i)', NEW q \in Own(b[i].ships) \ EtcPath,
                      NEW c, c = b[i].ships[q], IsFile(c), Info[c].soname # NoEntry,
                      Dropped(OldOf(p, i), base[p], q, c) # {}
               PROVE  Mark(b[i], Info[c].soname, Dropped(OldOf(p, i), base[p], q, c)) \in broke'[p]
    BY <1>3 DEF Compared
  <2>1. CASE i = at[p]
    <3>1. disk[q] = c
      BY <1>1, <1>2, <2>1 DEF Keeping, Whole
    <3>2. q \in Libraries(Job(p).ships, disk)
      BY <1>2, <2>1, <3>1 DEF Libraries, Seen, Own
    <3>3. Moved(p, q) = Dropped(Old(p, KeyOf(Job(p))), base[p], q, disk[q])
      BY Zenon DEF Moved, Dropped
    <3>4. OldOf(p, i) = Old(p, KeyOf(Job(p))) /\ Job(p) = b[i]
      BY <1>2, <2>1
    <3>5. Moved(p, q) = Dropped(OldOf(p, i), base[p], q, c)
      BY <3>1, <3>3, <3>4
    <3>6. [target |-> Job(p).target, soname |-> Info[disk[q]].soname, changed |-> Moved(p, q)] \in broke'[p]
      BY <1>1, <3>2, <3>5
    <3> QED
      BY <3>1, <3>4, <3>5, <3>6 DEF Mark
  <2>2. CASE i # at[p]
    BY <1>1, <1>4, <2>2 DEF Marks, Compared
  <2> QED
    BY <2>1, <2>2
<1> QED
  BY <1>1, <1>4, <1>5 DEF Marks, Missed, Copied

\* a library whose soname left is marked, and so is each that is kept
LEMMA MarksPreserve ==
  ASSUME TypeInv, SparedInv, NoForce, LayInv, kills = 0, NEW p \in Proc, Keeping(p), Marks(p), Preserve(p)
  PROVE  Marks(p)'
<1> DEFINE b == batch[p]
           I == 1..Len(b)
           a == at[p]
<1>1. /\ pc[p] = "preserve" /\ kept'[p] = kept[p] \cup Held(p)
      /\ UNCHANGED <<disk, prov, was, base, batch>>
      /\ broke'[p] = broke[p] \cup
           {[target |-> Job(p).target, soname |-> Info[base[p][q]].soname, changed |-> {}] : q \in Stay(p)}
      /\ \/ pc'[p] = "preserve" /\ at'[p] = a + 1
         \/ pc'[p] = "dispossess" /\ ~(a < Len(b))
  BY DEF Preserve, Advance, Goto, Set, TypeInv, TypeOK, LocalsOK
<1>2. /\ a \in I /\ Job(p) = b[a] /\ Len(b) \in Nat
      /\ \A i \in I : KeyOf(b[i]) \in Key /\ (i # a => KeyOf(b[i]) # KeyOf(b[a]))
  BY <1>1, JobFacts DEF Applying
<1>3. /\ \A i : OldOf(p, i)' = OldOf(p, i) /\ Libraries(OldOf(p, i), base[p])' = Libraries(OldOf(p, i), base[p])
      /\ batch'[p] = b /\ base'[p] = base[p] /\ (\A m : Own(m)' = Own(m)) /\ Ships(batch[p])' = Ships(b)
  BY <1>1, OldOfKeeps DEF Own, Ships
<1>4. \A i \in I : /\ Laid(p, i)
                   /\ Saved(p, i)' <=> (Saved(p, i) \/ i = a)
                   /\ Saved(p, i) => i # a
  BY <1>1, <1>2 DEF Laid, Saved, Later
<1>5. OldOf(p, a) = Old(p, KeyOf(Job(p))) /\ Held(p) \subseteq Own(OldOf(p, a))
  BY <1>2 DEF Held, OldOf
<1>6. \A i, j \in I : i # j /\ (i = a \/ j = a) => Own(OldOf(p, i)) \cap Own(OldOf(p, j)) = {}
  BY <1>2 DEF Keeping, Parted, OldOf
<1>7. ASSUME NEW q \in Own(OldOf(p, a)), q \in kept[p] PROVE q \in Ships(b)
  <2> SUFFICES ASSUME q \notin Ships(b) PROVE FALSE
    OBVIOUS
  <2>1. PICK i \in I : Saved(p, i) /\ q \in Own(OldOf(p, i))
    BY <1>7 DEF Keeping, Shelf
  <2> QED
    BY <1>2, <1>4, <1>6, <2>1
<1>8. ASSUME NEW q \in Stay(p) PROVE Mark(b[a], Info[base[p][q]].soname, {}) \in broke'[p]
  BY <1>1, <1>2 DEF Mark
<1>9. Compared(p)'
  <2> SUFFICES ASSUME NEW i \in I, NEW q \in Own(b[i].ships) \ EtcPath,
                      NEW c, c = b[i].ships[q], IsFile(c), Info[c].soname # NoEntry,
                      Dropped(OldOf(p, i), base[p], q, c) # {}
               PROVE  Mark(b[i], Info[c].soname, Dropped(OldOf(p, i), base[p], q, c)) \in broke'[p]
    BY <1>3 DEF Compared
  <2> QED
    BY <1>1, <1>4 DEF Marks, Compared
<1>10. Missed(p)'
  <2> SUFFICES ASSUME NEW i \in I, Saved(p, i) \/ i = a, NEW r \in Libraries(OldOf(p, i), base[p])
               PROVE  \/ \E x \in prov[KeyOf(b[i])] : x[1] = Info[base[p][r]].soname
                      \/ r \in Ships(b)
                      \/ Mark(b[i], Info[base[p][r]].soname, {}) \in broke'[p]
    BY <1>1, <1>3, <1>4 DEF Missed, KeyOf
  <2>1. CASE i = a
    <3> SUFFICES ASSUME \A x \in prov[KeyOf(b[a])] : x[1] # Info[base[p][r]].soname, r \notin Ships(b)
                 PROVE  r \in Stay(p)
      BY <1>8, <2>1
    <3>1. r \in Own(OldOf(p, a))
      BY <2>1 DEF Libraries, Seen
    <3> QED
      BY <1>2, <1>5, <1>7, <2>1, <3>1 DEF Stay
  <2>2. CASE i # a
    BY <1>1, <2>2 DEF Marks, Missed
  <2> QED
    BY <2>1, <2>2
<1>11. Copied(p)'
  <2> SUFFICES ASSUME NEW i \in I, Saved(p, i) \/ i = a, NEW q \in Own(OldOf(p, i))
               PROVE  \/ q \in Ships(b) \/ q \notin kept'[p] \/ IsLink(OldOf(p, i)[q])
                      \/ Mark(b[i], Info[base[p][q]].soname, {}) \in broke'[p]
    BY <1>1, <1>3, <1>4 DEF Copied
  <2>1. CASE i = a
    <3>1. CASE q \in kept[p]
      BY <1>7, <2>1, <3>1
    <3>2. CASE q \notin kept[p] /\ q \in Held(p) /\ ~IsLink(OldOf(p, a)[q])
      <4>1. q \in Stay(p)
        BY <1>5, <3>2 DEF Held
      <4> QED
        BY <1>8, <2>1, <4>1
    <3> QED
      BY <1>1, <2>1, <3>1, <3>2
  <2>2. CASE i # a
    <3>1. q \notin Held(p)
      BY <1>2, <1>5, <1>6, <2>2
    <3> QED
      BY <1>1, <2>2, <3>1 DEF Marks, Copied
  <2> QED
    BY <2>1, <2>2
<1> QED
  BY <1>9, <1>10, <1>11 DEF Marks

\* what the loader found for s in a file of a record, that record ships as s, with the place it looks at
LEMMA LoadedFrom ==
  ASSUME TypeInv, Conventional, ConfigsPlain, MadeInv, kills = 0, NEW p \in Proc, Began(p),
         NEW k \in Key, NEW s \in Soname, NEW f \in LoadedAt(base[p], s) \cap Own(Old(p, k))
  PROVE  \E a \in Built : /\ Old(p, k) = a.ships /\ KeyOf(a) = k /\ was[p][k] = a.ships
                          /\ a.ships[f] = base[p][f] /\ Named(base[p][f], s)
                          /\ SoAt[s] \in Own(a.ships)
                          /\ f = SoAt[s] \/ (IsLink(base[p][SoAt[s]]) /\ Info[base[p][SoAt[s]]].link = f)
<1> DEFINE d == base[p]
           l == SoAt[s]
<1>1. l \in Path \ EtcPath /\ f \in Path /\ d[f] # NoEntry /\ IsFile(d[f]) /\ s # NoEntry
  BY ConstantsAssumption DEF Conventional, LoadedAt, IsFile, Own
<1>2. PICK a \in Built : Old(p, k) = a.ships /\ KeyOf(a) = k /\ was[p][k] = a.ships
  <2>1. was[p][k] # NoRecord /\ Old(p, k) = was[p][k]
    BY DEF Old, Own, Nothing
  <2> QED
    BY <2>1 DEF MadeInv, ShippedBy
<1>3. ASSUME NEW c \in Built
      PROVE  /\ c.ships[l] # NoEntry =>
                  Named(c.ships[l], s) \/ (IsLink(c.ships[l]) /\ Info[c.ships[l]].link \in Own(c.ships))
             /\ \A r \in Path : Named(c.ships[r], s) => c.ships[l] # NoEntry /\ r \notin EtcPath
  BY DEF Conventional
<1>4. a.ships[f] # NoEntry
  BY <1>2 DEF Own
<1>5. CASE ~IsLink(d[l])
  <2>1. f = l
    BY <1>5 DEF LoadedAt
  <2>2. PICK c \in Built : c.ships[l] = d[l]
    BY <1>1, <2>1 DEF MadeInv, Made
  <2>3. Named(d[f], s)
    BY <1>1, <1>3, <1>5, <2>1, <2>2
  <2>4. d[f] \notin Edits \cup Lost
    BY <1>1, <2>3 DEF ConfigsPlain, Named, Lost
  <2>5. a.ships[f] = d[f]
    BY <1>2, <2>4 DEF Began, Stands
  <2> QED
    BY <1>1, <1>2, <1>4, <2>1, <2>3, <2>5 DEF Own
<1>6. CASE IsLink(d[l])
  <2>1. f = Info[d[l]].link
    BY <1>6 DEF LoadedAt
  <2>2. PICK c \in Built : c.ships[l] = d[l]
    BY <1>1, <1>6 DEF MadeInv, Made, IsLink
  <2>3. \A e \in Built : e.ships[f] # NoEntry => Named(e.ships[f], s)
    BY <1>6, <2>1, <2>2, LinkedLibrary
  <2>4. Named(a.ships[f], s) /\ f \notin EtcPath /\ a.ships[l] # NoEntry
    BY <1>1, <1>3, <1>4, <2>3
  <2>5. PICK e \in Built : e.ships[f] = d[f]
    BY <1>1, <2>4 DEF MadeInv, Made
  <2>6. Named(d[f], s)
    BY <1>1, <2>3, <2>5
  <2>7. d[f] \notin Edits \cup Lost
    BY <1>1, <2>6 DEF ConfigsPlain, Named, Lost
  <2>8. a.ships[f] = d[f]
    BY <1>2, <2>7 DEF Began, Stands
  <2> QED
    <3>1. SoAt[s] \in Own(a.ships)
      BY <1>1, <2>4 DEF Own
    <3>2. IsLink(base[p][SoAt[s]]) /\ Info[base[p][SoAt[s]]].link = f
      BY <1>6, <2>1
    <3>3. a.ships[f] = base[p][f] /\ Named(base[p][f], s)
      BY <2>6, <2>8
    <3> QED
      BY <1>2, <3>1, <3>2, <3>3
<1> QED
  BY <1>5, <1>6

\* what the loader finds for s once a job that ships it is down
LEMMA LoadedNow ==
  ASSUME Conventional, NEW p \in Proc, Keeping(p), NEW i \in 1..Len(batch[p]), batch[p][i] \in Built, Laid(p, i),
         NEW s \in Soname, NEW r \in Path, Named(batch[p][i].ships[r], s)
  PROVE  \E g \in Own(batch[p][i].ships) \ EtcPath :
           /\ LoadedAt(disk, s) = {g} /\ disk[g] = batch[p][i].ships[g] /\ Named(disk[g], s)
           /\ g = SoAt[s] \/ (IsLink(batch[p][i].ships[SoAt[s]]) /\ g = Info[batch[p][i].ships[SoAt[s]]].link)
<1> DEFINE l == SoAt[s]
<1>0. PICK a \in Built : a = batch[p][i]
  OBVIOUS
<1>1. /\ l \in Path \ EtcPath /\ a.ships[l] # NoEntry
      /\ Named(a.ships[l], s) \/ (IsLink(a.ships[l]) /\ Info[a.ships[l]].link \in Own(a.ships))
      /\ \A q \in Path : Named(a.ships[q], s) => q \notin EtcPath
  BY <1>0, ConstantsAssumption DEF Conventional
<1>2. \A q \in Own(a.ships) \ EtcPath : disk[q] = a.ships[q]
  BY <1>0 DEF Keeping, Whole
<1>3. l \in Own(a.ships) /\ disk[l] = a.ships[l]
  BY <1>1, <1>2 DEF Own
<1>4. CASE Named(a.ships[l], s)
  BY <1>0, <1>1, <1>3, <1>4 DEF LoadedAt, Named, IsFile, IsLink
<1>5. CASE ~Named(a.ships[l], s)
  <2>1. PICK g \in Own(a.ships) : g = Info[a.ships[l]].link /\ IsLink(a.ships[l])
    BY <1>1, <1>5
  <2>2. g \in Path /\ a.ships[g] # NoEntry
    BY DEF Own
  <2>3. Named(a.ships[g], s)
    BY <2>1, <2>2, LinkedLibrary
  <2>4. g \notin EtcPath
    BY <1>1, <2>2, <2>3
  <2>5. disk[g] = a.ships[g]
    BY <1>2, <2>4
  <2>6. disk[SoAt[s]] = a.ships[SoAt[s]] /\ IsLink(disk[SoAt[s]]) /\ Info[disk[SoAt[s]]].link = g
    BY <1>3, <2>1
  <2>7. Named(disk[g], s) /\ IsFile(disk[g])
    BY <2>3, <2>5 DEF Named
  <2>8. LoadedAt(disk, s) = {g}
    BY <2>6, <2>7 DEF LoadedAt
  <2>9. g \in Own(batch[p][i].ships) \ EtcPath /\ disk[g] = batch[p][i].ships[g]
    BY <1>0, <2>4, <2>5
  <2>10. IsLink(batch[p][i].ships[SoAt[s]]) /\ g = Info[batch[p][i].ships[SoAt[s]]].link
    BY <1>0, <2>1
  <2>11. g = SoAt[s] \/ (IsLink(batch[p][i].ships[SoAt[s]]) /\ g = Info[batch[p][i].ships[SoAt[s]]].link)
    BY <2>10
  <2> QED
    BY <2>7, <2>8, <2>9, <2>11, Zenon
<1> QED
  BY <1>4, <1>5

\* the same files where the loader looks and where it is led, the same answer
LEMMA SameLoaded ==
  ASSUME NEW d, NEW e, NEW s, \A q \in Opened(d, s) : e[q] = d[q], LoadedAt(d, s) # {}
  PROVE  LoadedAt(e, s) = LoadedAt(d, s)
<1>1. e[SoAt[s]] = d[SoAt[s]]
  BY DEF Opened
<1> DEFINE q == IF IsLink(d[SoAt[s]]) THEN Info[d[SoAt[s]]].link ELSE SoAt[s]
<1>2. LoadedAt(d, s) = {r \in {q} : IsFile(d[r])} /\ LoadedAt(e, s) = {r \in {q} : IsFile(e[r])}
  BY <1>1 DEF LoadedAt
<1> HIDE DEF q
<1>3. e[q] = d[q]
  BY <1>2 DEF Opened
<1> QED
  BY <1>2, <1>3

\* one place and one package for a soname
LEMMA OnePlace ==
  ASSUME Singular, NEW s \in Soname, NEW a \in Built, NEW b \in Built, NEW q \in Path, NEW r \in Path,
         Named(a.ships[q], s), Named(b.ships[r], s)
  PROVE  KeyOf(a) = KeyOf(b) /\ (a = b => q = r)
BY DEF Singular

\* what the job's library is compared with is the one the loader opened before
LEMMA BaselineFound ==
  ASSUME Conventional, Singular, ConfigsPlain, NEW p \in Proc, Began(p), NEW k \in Key, NEW s \in Soname,
         NEW a \in Built, Old(p, k) = a.ships, NEW f \in Own(a.ships), a.ships[f] = base[p][f], Named(base[p][f], s),
         NEW g \in Path, a.ships[g] # NoEntry /\ ~IsLink(a.ships[g]) => Named(a.ships[g], s)
  PROVE  base[p][f] \in Baseline(Old(p, k), base[p], g, s)
<1> DEFINE d == base[p]
           libs == Libraries(a.ships, d)
           same == {r \in libs : Info[d[r]].soname = s}
<1>1. s # NoEntry /\ f \in Path
  BY ConstantsAssumption DEF Own
<1>2. f \in libs /\ Named(a.ships[f], s)
  BY <1>1 DEF Libraries, Seen, Named
<1>3. f \in same
  BY <1>2 DEF Named
<1>4. ASSUME NEW r \in same PROVE r = f
  <2>1. r \in Own(a.ships) /\ r \in Path /\ IsFile(a.ships[r]) /\ IsFile(d[r]) /\ Info[d[r]].soname = s
    BY DEF Libraries, Seen, Own
  <2>2. d[r] \notin Edits \cup Lost
    BY <1>1, <2>1 DEF ConfigsPlain, IsFile, Lost
  <2>3. a.ships[r] = d[r]
    BY <2>1, <2>2 DEF Began, Stands
  <2>4. Named(a.ships[r], s)
    BY <2>1, <2>3 DEF Named
  <2> QED
    BY <1>1, <1>2, <2>1, <2>4, OnePlace
<1>5. same = {f}
  BY <1>3, <1>4
<1>6. CASE g \in libs
  <2>1. a.ships[g] # NoEntry /\ ~IsLink(a.ships[g])
    BY <1>6 DEF Libraries, Seen, IsFile, IsLink
  <2>2. g = f
    BY <1>1, <1>2, <2>1, OnePlace
  <2> QED
    BY <1>6, <2>2 DEF Baseline
<1>7. CASE g \notin libs
  <2>1. Cardinality(same) = 1
    BY <1>5, FS_Singleton
  <2>2. Baseline(Old(p, k), base[p], g, s) = {d[r] : r \in same}
    BY <1>7, <2>1 DEF Baseline
  <2> QED
    BY <1>5, <2>2
<1> QED
  BY <1>6, <1>7

\* a symbol the loader found for s in a record and no longer finds is marked, in the row of that record
LEMMA BrokenMarked ==
  ASSUME TypeInv, Conventional, Singular, ConfigsPlain, MadeInv, kills = 0, NEW p \in Proc, pc[p] = "enqueue",
         Began(p), Spared(p), Keeping(p), Marks(p), \A i \in 1..Len(batch[p]) : batch[p][i] \in Built,
         NEW k \in Key, NEW s \in Soname, NEW f \in LoadedAt(base[p], s) \cap Own(Old(p, k)),
         NEW y \in Exported(base[p], s) \ Exported(disk, s)
  PROVE  \E i \in 1..Len(batch[p]) : \E c :
           KeyOf(batch[p][i]) = k /\ Mark(batch[p][i], s, c) \in broke[p] /\ (c = {} \/ y \in c)
<1> DEFINE b == batch[p]
           I == 1..Len(b)
           d == base[p]
<1>1. PICK a \in Built :
        /\ Old(p, k) = a.ships /\ KeyOf(a) = k /\ was[p][k] = a.ships
        /\ a.ships[f] = d[f] /\ Named(d[f], s) /\ SoAt[s] \in Own(a.ships)
        /\ f = SoAt[s] \/ (IsLink(d[SoAt[s]]) /\ Info[d[SoAt[s]]].link = f)
  BY LoadedFrom
<1>2. /\ f \in Own(a.ships) /\ f \in Path /\ s # NoEntry /\ LoadedAt(d, s) = {f}
      /\ SoAt[s] \in Path \ EtcPath
  BY <1>1, ConstantsAssumption DEF Own, LoadedAt, Conventional
<1>3. y \in Info[d[f]].exports
  BY <1>2 DEF Exported
<1>4. \A i \in I : Laid(p, i) /\ Provided(p, i) /\ Saved(p, i)
  BY DEF Laid, Provided, Saved, Later
<1>5. k \in Keys(b)
  <2> SUFFICES ASSUME k \notin Keys(b) PROVE FALSE
    OBVIOUS
  <2>1. was[p][k] # NoRecord
    BY <1>1, <1>2 DEF Old, Own, Nothing
  <2>2. k \in dirs
    BY <2>1 DEF Began
  <2>3. man[k] = a.ships /\ \A q \in Own(man[k]) : disk[q] = d[q]
    BY <1>1, <2>2 DEF Spared
  <2>4. disk[f] = d[f] /\ disk[SoAt[s]] = d[SoAt[s]]
    BY <1>1, <1>2, <2>3
  <2>5. LoadedAt(disk, s) = {f}
    <3>1. \A q \in Opened(d, s) : disk[q] = d[q]
      BY <1>2, <2>4 DEF Opened
    <3>2. LoadedAt(disk, s) = LoadedAt(d, s)
      BY <1>2, <3>1, SameLoaded
    <3> QED
      BY <1>2, <3>2
  <2> QED
    BY <1>2, <1>3, <2>4, <2>5 DEF Exported
<1>6. ASSUME NEW i \in I, KeyOf(b[i]) = k, NEW r \in Path, Named(b[i].ships[r], s)
      PROVE  \E c : Mark(b[i], s, c) \in broke[p] /\ y \in c
  <2>1. PICK g \in Own(b[i].ships) \ EtcPath :
          /\ LoadedAt(disk, s) = {g} /\ disk[g] = b[i].ships[g] /\ Named(disk[g], s)
          /\ g = SoAt[s] \/ (IsLink(b[i].ships[SoAt[s]]) /\ g = Info[b[i].ships[SoAt[s]]].link)
    BY <1>4, <1>6, LoadedNow
  <2>2. g \in Path /\ b[i] \in Built
    BY DEF Own
  <2>3. ASSUME a.ships[g] # NoEntry /\ ~IsLink(a.ships[g]) PROVE Named(a.ships[g], s)
    <3>1. CASE g = SoAt[s]
      BY <2>3, <3>1 DEF Conventional
    <3>2. CASE g # SoAt[s]
      BY <2>1, <2>2, <2>3, <3>2, LinkedLibrary
    <3> QED
      BY <3>1, <3>2
  <2>30. a.ships[g] # NoEntry /\ ~IsLink(a.ships[g]) => Named(a.ships[g], s)
    BY <2>3
  <2>4. d[f] \in Baseline(Old(p, k), d, g, s)
    BY <1>1, <1>2, <2>2, <2>30, BaselineFound
  <2>5. OldOf(p, i) = Old(p, k)
    BY <1>6 DEF OldOf
  <2>6. y \notin Info[disk[g]].exports
    BY <2>1 DEF Exported
  <2>7. IsFile(b[i].ships[g]) /\ Info[b[i].ships[g]].soname = s
    BY <2>1, SMTT(30) DEF Named
  <2>8. y \in Dropped(OldOf(p, i), d, g, b[i].ships[g])
    BY <1>3, <2>1, <2>4, <2>5, <2>6, <2>7 DEF Dropped
  <2>9. Mark(b[i], s, Dropped(OldOf(p, i), d, g, b[i].ships[g])) \in broke[p]
    BY <1>2, <1>4, <2>7, <2>8 DEF Marks, Compared
  <2> QED
    BY <2>8, <2>9
<1>7. PICK i \in I : KeyOf(b[i]) = k
  BY <1>5 DEF Keys
<1>8. f \in Libraries(OldOf(p, i), d) /\ Info[d[f]].soname = s
  BY <1>1, <1>2, <1>7 DEF OldOf, Libraries, Seen, Named
<1>9. CASE \E x \in prov[KeyOf(b[i])] : x[1] = s
  <2>1. PICK r \in Path : Named(b[i].ships[r], s)
    BY <1>4, <1>9 DEF Keeping, Carries
  <2> QED
    BY <1>6, <1>7, <2>1
<1>10. CASE f \in Ships(b)
  <2>1. PICK j \in I : f \in Own(b[j].ships)
    BY <1>10 DEF Ships
  <2>2. b[j] \in Built /\ b[j].ships[f] # NoEntry
    BY <2>1 DEF Own
  <2>3. \E r \in Path : Named(b[j].ships[r], s)
    <3>1. CASE f = SoAt[s] /\ ~Named(b[j].ships[f], s)
      <4>1. IsLink(b[j].ships[SoAt[s]]) /\ Info[b[j].ships[SoAt[s]]].link \in Own(b[j].ships)
        BY <2>2, <3>1, SMTT(30) DEF Conventional
      <4>2. PICK r \in Own(b[j].ships) : r = Info[b[j].ships[SoAt[s]]].link
        BY <4>1
      <4>3. r \in Path /\ b[j].ships[r] # NoEntry
        BY DEF Own
      <4>4. Named(b[j].ships[r], s)
        BY <2>2, <4>1, <4>2, <4>3, LinkedLibrary, Zenon
      <4> QED
        BY <4>3, <4>4
    <3>2. CASE f # SoAt[s]
      <4>1. IsLink(d[SoAt[s]]) /\ Info[d[SoAt[s]]].link = f
        BY <1>1, <3>2
      <4>2. PICK c \in Built : c.ships[SoAt[s]] = d[SoAt[s]]
        BY <1>2, <4>1 DEF MadeInv, Made, IsLink
      <4> QED
        BY <1>2, <2>2, <4>1, <4>2, LinkedLibrary
    <3> QED
      BY <1>2, <3>1, <3>2
  <2>4. PICK r \in Path : Named(b[j].ships[r], s)
    BY <2>3
  <2>5. KeyOf(b[j]) = k
    BY <1>1, <1>2, <2>2, <2>4, OnePlace
  <2> QED
    BY <1>6, <2>4, <2>5
<1>11. CASE Mark(b[i], s, {}) \in broke[p]
  BY <1>7, <1>11
<1>12. \/ \E x \in prov[KeyOf(b[i])] : x[1] = s
       \/ f \in Ships(b)
       \/ Mark(b[i], s, {}) \in broke[p]
  BY <1>4, <1>8 DEF Marks, Missed
<1> QED
  BY <1>9, <1>10, <1>11, <1>12

\* an install about to queue: all that was shown of it
Ready(p) ==
  /\ pc[p] = "enqueue" /\ Began(p) /\ Jobs(p) /\ Spared(p) /\ Keeping(p) /\ Marks(p)
  /\ \A i \in 1..Len(batch[p]) : batch[p][i] \in Built /\ KeyOf(batch[p][i]) \in Key
                                 /\ batch[p][i].ships \in Manifest

\* a package outside the batch links only what is at home on its target
LEMMA BystanderHome ==
  ASSUME TypeInv, MadeInv, kills = 0, NEW p \in Proc, Ready(p), NEW x \in Bystanders(p),
         \A c \in Edits : Info[c].needs = {},
         NEW home, \A a \in Built : \A q \in Own(a.ships) : At(home, a.target, a.ships[q]),
         NEW s \in Info[disk[x[2]]].needs
  PROVE  home[s] = x[1].target /\ s \in Soname
<1>1. /\ x[1] \in dirs \ Keys(batch[p]) /\ Readable(x[1]) /\ x[1] \in Key
      /\ x[2] \in Own(man[x[1]]) /\ IsFile(disk[x[2]]) /\ x[2] \in Path
  BY DEF Bystanders, Seen, Own, TypeInv, TypeOK
<1>2. man[x[1]] = was[p][x[1]] /\ disk[x[2]] = base[p][x[2]]
  BY <1>1 DEF Ready, Spared
<1>3. Old(p, x[1]) = man[x[1]]
  BY <1>1, <1>2 DEF Old, Readable
<1>4. base[p][x[2]] = man[x[1]][x[2]] \/ base[p][x[2]] \in Edits \cup Lost
  BY <1>1, <1>3 DEF Ready, Began, Stands
<1>5. disk[x[2]] = man[x[1]][x[2]]
  BY <1>1, <1>2, <1>4 DEF IsFile, Lost
<1>6. PICK a \in Built : KeyOf(a) = x[1] /\ man[x[1]] = a.ships
  BY <1>1 DEF MadeInv, ShippedBy
<1>7. At(home, a.target, disk[x[2]]) /\ a.target = x[1].target
  BY <1>1, <1>5, <1>6 DEF KeyOf
<1>8. Info[disk[x[2]]].needs \subseteq Soname
  BY <1>1, ConstantsAssumption DEF IsFile, TypeInv, TypeOK, Manifest
<1> QED
  BY <1>7, <1>8 DEF At

LEMMA BrokenTold ==
  ASSUME TypeInv, Conventional, Homed, Singular, ConfigsPlain, MadeInv, kills = 0, NEW p \in Proc, Ready(p),
         NEW x \in Bystanders(p), NEW s \in Info[disk[x[2]]].needs,
         NEW k \in Key, LoadedAt(base[p], s) \cap Own(Old(p, k)) # {},
         (Info[disk[x[2]]].undefined \cap Exported(base[p], s)) \ Exported(disk, s) # {}
  PROVE  \E r \in broke[p] : r.soname = s /\ r.target = x[1].target /\ Uses(disk[x[2]], r)
<1>1. PICK home : \A a \in Built : \A q \in Own(a.ships) : At(home, a.target, a.ships[q])
  BY Homes
<1>0. \A c \in Edits : Info[c].needs = {}
  BY Homes
<1>2. home[s] = x[1].target /\ s \in Soname
  BY <1>0, <1>1, BystanderHome, Zenon
<1>3. PICK f \in LoadedAt(base[p], s) \cap Own(Old(p, k)) : TRUE
  OBVIOUS
<1>4. PICK y \in Exported(base[p], s) \ Exported(disk, s) : y \in Info[disk[x[2]]].undefined
  OBVIOUS
<1>5. PICK a \in Built : KeyOf(a) = k /\ a.ships[f] = base[p][f] /\ Named(base[p][f], s) /\ Old(p, k) = a.ships
  BY <1>2, LoadedFrom DEF Ready
<1>6. s # NoEntry /\ f \in Own(a.ships)
  BY <1>2, <1>5, ConstantsAssumption
<1>7. home[s] = k.target
  BY <1>1, <1>5, <1>6 DEF At, Named, KeyOf
<1>8. PICK i \in 1..Len(batch[p]) : \E c :
        KeyOf(batch[p][i]) = k /\ Mark(batch[p][i], s, c) \in broke[p] /\ (c = {} \/ y \in c)
  BY <1>2, BrokenMarked DEF Ready
<1>9. PICK c : KeyOf(batch[p][i]) = k /\ Mark(batch[p][i], s, c) \in broke[p] /\ (c = {} \/ y \in c)
  BY <1>8
<1>10. PICK r \in broke[p] : r = Mark(batch[p][i], s, c)
  BY <1>9
<1>11. r.soname = s /\ r.changed = c /\ r.target = k.target
  BY <1>9, <1>10 DEF Mark, KeyOf
<1>12. Uses(disk[x[2]], r)
  BY <1>4, <1>9, <1>11 DEF Uses
<1> QED
  BY <1>2, <1>7, <1>11, <1>12

LEMMA OutdatedTold ==
  ASSUME TypeInv, ConfigsPlain, WholeInv, OwnInv, kills = 0, NEW p \in Proc, Ready(p),
         NEW k \in Keys(batch[p]), NEW q \in Own(Old(p, k)), IsFile(disk[q]),
         \A l \in dirs : Readable(l) => q \notin Own(man[l]),
         NEW s \in Soname, Info[disk[q]].soname = s, NEW c, s \in Info[c].needs
  PROVE  \E r \in broke[p] : r.soname = s /\ r.target = k.target /\ Uses(c, r)
<1> DEFINE b == batch[p]
           I == 1..Len(b)
<1>1. \A i \in I : Saved(p, i) /\ Recorded(p, i) /\ Pruned(p, i)
  BY DEF Ready, Saved, Recorded, Pruned, Later
<1>2. PICK i \in I : k = KeyOf(b[i])
  BY DEF Keys
<1>3. q \in Own(OldOf(p, i)) /\ q \in Path
  BY <1>2 DEF OldOf, Own
<1>4. s # NoEntry /\ disk[q] \in Content /\ disk[q] \notin Edits \cup Lost
  BY <1>3, ConstantsAssumption DEF ConfigsPlain, IsFile, Lost, TypeInv, TypeOK, Manifest
<1>5. q \notin Ships(b)
  <2> SUFFICES ASSUME NEW j \in I, q \in Own(b[j].ships) PROVE FALSE
    BY DEF Ships
  <2>1. man[KeyOf(b[j])] = b[j].ships
    BY <1>1 DEF Ready, Jobs
  <2>2. Readable(KeyOf(b[j])) /\ KeyOf(b[j]) \in dirs
    BY <2>1, ConstantsAssumption DEF Ready, Readable, WholeInv, Listed
  <2> QED
    BY <2>1, <2>2
<1>6. q \in kept[p]
  <2>1. Cleared(p)
    BY DEF OwnInv, OwnAt, Ready, Works, Past
  <2> QED
    BY <1>1, <1>2, <1>3, <1>4, <2>1 DEF Cleared, Stray, OldOf
<1>7. disk[q] = base[p][q]
  BY <1>3, <1>5 DEF Ready, Keeping, Sparse, IsFile
<1>8. ~IsLink(OldOf(p, i)[q])
  <2>1. Old(p, k)[q] = base[p][q]
    BY <1>2, <1>4, <1>7 DEF Ready, Began, Stands
  <2> QED
    BY <1>2, <1>7, <2>1 DEF OldOf, IsFile, IsLink
<1>9. Mark(b[i], s, {}) \in broke[p]
  BY <1>1, <1>3, <1>5, <1>6, <1>7, <1>8 DEF Ready, Marks, Copied
<1>10. PICK r \in broke[p] : r = Mark(b[i], s, {})
  BY <1>9
<1>11. r.soname = s /\ r.changed = {} /\ r.target = k.target
  BY <1>2, <1>10 DEF Mark, KeyOf
<1> QED
  BY <1>11 DEF Uses

\* whoever uses a row is in the queue when the install returns
LEMMA EnqueueHeard ==
  ASSUME TypeInv, NEW p \in Proc, NEW x \in Bystanders(p), NEW r \in broke[p],
         r.target = x[1].target, Uses(disk[x[2]], r), queue' = queue \cup Affected(p)
  PROVE  \E z \in queue' : z.name = x[1].name /\ z.target = x[1].target /\ z.soname = r.soname
<1>1. x[1] \in Users(p, r)
  BY DEF Users, Bystanders
<1> DEFINE told(b) == {[target |-> b.target, name |-> k.name, soname |-> b.soname, changed |-> b.changed] :
                          k \in Users(p, b)}
           z == [target |-> r.target, name |-> x[1].name, soname |-> r.soname, changed |-> r.changed]
<1>2. z \in told(r)
  BY <1>1
<1>3. told(r) \subseteq Affected(p)
  BY Zenon DEF Affected
<1>4. z \in queue'
  BY <1>2, <1>3
<1>5. z.name = x[1].name /\ z.target = x[1].target /\ z.soname = r.soname
  OBVIOUS
<1> QED
  BY <1>4, <1>5

LEMMA EnqueueQueues ==
  ASSUME TypeInv, Conventional, Homed, Singular, ConfigsPlain, MadeInv, WholeInv, OwnInv, kills = 0,
         NEW p \in Proc, Ready(p), Enqueue(p)
  PROVE  Queues(p)'
<1>1. queue' = queue \cup Affected(p) /\ UNCHANGED <<disk, dirs, man, preserved, was, base, batch>>
  BY DEF Enqueue, db, locals
<1>2. /\ Bystanders(p)' = Bystanders(p) /\ Keys(batch[p])' = Keys(batch[p])
      /\ \A k : Own(Old(p, k))' = Own(Old(p, k)) /\ Own(preserved[k])' = Own(preserved[k])
      /\ \A s : LoadedAt(base[p], s)' = LoadedAt(base[p], s) /\ Exported(base[p], s)' = Exported(base[p], s)
                /\ Exported(disk, s)' = Exported(disk, s)
      /\ \A l : (Readable(l)' <=> Readable(l)) /\ Own(man[l])' = Own(man[l])
  <2>1. Bystanders(p)' = Bystanders(p) /\ Keys(batch[p])' = Keys(batch[p])
    BY <1>1, Zenon DEF Bystanders, Keys, KeyOf, Readable, Seen, Own
  <2>2. \A k : Own(Old(p, k))' = Own(Old(p, k)) /\ Own(preserved[k])' = Own(preserved[k])
    BY <1>1 DEF Own, Old
  <2>3. \A s : LoadedAt(base[p], s)' = LoadedAt(base[p], s) /\ Exported(base[p], s)' = Exported(base[p], s)
               /\ Exported(disk, s)' = Exported(disk, s)
    BY <1>1, Zenon DEF Exported, LoadedAt
  <2>4. \A l : (Readable(l)' <=> Readable(l)) /\ Own(man[l])' = Own(man[l])
    BY <1>1 DEF Readable, Own
  <2> QED
    BY <2>1, <2>2, <2>3, <2>4
<1>3. ASSUME NEW x \in Bystanders(p), NEW s \in Info[disk[x[2]]].needs,
             \E k \in Key : LoadedAt(base[p], s) \cap Own(Old(p, k)) # {},
             (Info[disk[x[2]]].undefined \cap Exported(base[p], s)) \ Exported(disk, s) # {}
      PROVE  \E z \in queue' : z.name = x[1].name /\ z.target = x[1].target /\ z.soname = s
  <2>1. PICK k \in Key : LoadedAt(base[p], s) \cap Own(Old(p, k)) # {}
    BY <1>3
  <2>2. PICK r \in broke[p] : r.soname = s /\ r.target = x[1].target /\ Uses(disk[x[2]], r)
    BY <1>3, <2>1, BrokenTold, Zenon
  <2>3. \E z \in queue' : z.name = x[1].name /\ z.target = x[1].target /\ z.soname = r.soname
    BY <1>1, <2>2, EnqueueHeard, Zenon
  <2> QED
    BY <2>2, <2>3
<1>4. ASSUME NEW k \in Keys(batch[p]), NEW q \in Own(preserved[k]) \cap Own(Old(p, k)), IsFile(disk[q]),
             \A l \in dirs : Readable(l) => q \notin Own(man[l]), NEW x \in Bystanders(p),
             x[1].target = k.target, Info[disk[q]].soname \in Info[disk[x[2]]].needs
      PROVE  \E z \in queue' : z.name = x[1].name /\ z.target = x[1].target /\ z.soname = Info[disk[q]].soname
  <2>1. IsFile(disk[x[2]]) /\ x[2] \in Path
    BY DEF Bystanders, Seen, Own
  <2>2. Info[disk[x[2]]].needs \subseteq Soname
    BY <2>1, ConstantsAssumption DEF IsFile, TypeInv, TypeOK, Manifest
  <2>3. PICK s \in Soname : s = Info[disk[q]].soname
    BY <1>4, <2>2
  <2>4. q \in Own(Old(p, k)) /\ s \in Info[disk[x[2]]].needs
    BY <1>4, <2>3
  <2>5. PICK r \in broke[p] : r.soname = s /\ r.target = k.target /\ Uses(disk[x[2]], r)
    BY <1>4, <2>3, <2>4, OutdatedTold
  <2>6. r.target = x[1].target
    BY <1>4, <2>5
  <2>7. \E z \in queue' : z.name = x[1].name /\ z.target = x[1].target /\ z.soname = r.soname
    BY <1>1, <2>5, <2>6, EnqueueHeard, Zenon
  <2> QED
    BY <2>3, <2>5, <2>7
<1> QED
  BY <1>1, <1>2, <1>3, <1>4 DEF Queues, Queueing

\* what an install about to queue has shown of it
LEMMA EndsReady ==
  ASSUME TypeInv, SparedInv, NoForce, LayInv, LibInv, MarkInv, kills = 0, NEW p \in Proc, pc[p] = "enqueue"
  PROVE  Ready(p)
<1>1. Acting(p) /\ Works(p) /\ Past(p)
  BY DEF Acting, Works, Past, Applying
<1>2. Spared(p)
  BY <1>1, Zenon DEF SparedInv, Sparing, NoForce
<1>3. Began(p) /\ Jobs(p)
  BY <1>1 DEF LayInv, LayAt
<1>4. Keeping(p)
  BY <1>1 DEF LibInv, LibAt
<1>5. Marks(p)
  BY <1>1 DEF MarkInv, MarkAt
<1>6. \A i \in 1..Len(batch[p]) : batch[p][i] \in Built /\ KeyOf(batch[p][i]) \in Key
                                  /\ batch[p][i].ships \in Manifest
  <2>1. CASE batch[p] \in Batches
    BY <2>1, BatchJob, JobBuilt
  <2>2. CASE batch[p] = << >>
    BY <2>2
  <2> QED
    BY <2>1, <2>2 DEF TypeInv, TypeOK, LocalsOK
<1> QED
  BY <1>2, <1>3, <1>4, <1>5, <1>6 DEF Ready

LEMMA MarkInstall ==
  ASSUME TypeInv, LockInv, WholeInv, SparedInv, NoForce, LayInv, OwnInv, MadeInv, RuledInv, LibInv, MarkInv,
         Conventional, Homed, Singular, ConfigsPlain, NEW p \in Proc, Past(p), Install(p)
  PROVE  MarkInv'
<1> DEFINE b == batch[p]
           I == 1..Len(b)
<1>0. pc = [q \in Proc |-> pc[q]] /\ at \in [Proc -> Nat \ {0}] /\ Others(p)
  BY StepOthers DEF TypeInv, TypeOK, LocalsOK, Step
<1>00. UNCHANGED kills
  BY DEF Install, PlanRefuses, ApplyStart, JobStart, Extract, PutHead, PutManifest,
     PutProvides, Preserve, Dispossess, Disown, DispossessDone, PruneStart, PruneUnlink, PruneDone,
     Enqueue, counts
<1> SUFFICES ASSUME kills = 0, Past(p)' PROVE MarkAt(p)'
  BY <1>0, <1>00, MarkInside
<1>1. pc[p] \in Applying \cup {"enqueue"} => Keeping(p) /\ pc[p] # "disown" /\ Marks(p)
  BY DEF LibInv, LibAt, MarkInv, MarkAt, Works
<1>2. ASSUME pc[p] \in Applying
      PROVE  /\ at[p] \in I /\ Job(p) = b[at[p]] /\ Len(b) \in Nat
             /\ \A i \in I : KeyOf(b[i]) \in Key /\ (i # at[p] => KeyOf(b[i]) # KeyOf(Job(p)))
  BY <1>2, OnJob
<1>3. ASSUME pc'[p] \in Applying \cup {"enqueue"}, Marks(p)' PROVE MarkAt(p)'
  BY <1>3 DEF MarkAt, Works, Applying
<1>4. CASE PlanRefuses(p)
  BY <1>0, <1>4 DEF PlanRefuses, Exit, Goto, Past
<1>5. CASE ApplyStart(p)
  <2>1. pc[p] = "plan" /\ pc'[p] = "job" /\ at[p] = 1 /\ at'[p] = at[p]
    BY <1>0, <1>5 DEF ApplyStart, Goto, TypeInv
  <2>2. \A i \in 1..Len(batch'[p]) : ~Laid(p, i)' /\ ~Saved(p, i)'
    BY <2>1 DEF Laid, Saved, Later
  <2>3. Marks(p)'
    BY <2>2 DEF Marks, Compared, Missed, Copied
  <2> QED
    BY <1>3, <2>1, <2>3 DEF Applying
<1>6. CASE JobStart(p) \/ Extract(p) \/ PutManifest(p) \/ PutProvides(p)
  <2>1. /\ pc[p] \in {"job", "extract", "manifest", "provides"}
        /\ pc'[p] \in {"extract", "manifest", "provides", "job", "preserve"}
        /\ UNCHANGED <<was, base, batch, kept, broke>>
    BY <1>0, <1>6 DEF JobStart, Extract, PutManifest, PutProvides, Advance, Goto, locals
  <2>2. at[p] \in I /\ Len(b) \in Nat
    BY <1>2, <2>1 DEF Applying
  <2>3. \A i \in I : (Laid(p, i)' => Laid(p, i)) /\ ~Saved(p, i)'
    <3>1. CASE JobStart(p) \/ Extract(p) \/ PutManifest(p)
      <4>1. at' = at /\ \/ pc[p] = "job" /\ pc'[p] = "extract"
                        \/ pc[p] = "extract" /\ pc'[p] = "extract"
                        \/ pc[p] = "manifest" /\ pc'[p] = "provides"
        BY <1>0, <3>1 DEF JobStart, Extract, PutManifest, Goto, locals
      <4> QED
        BY <4>1 DEF Laid, Saved, Later
    <3>2. CASE PutProvides(p)
      <4>1. pc[p] = "provides" /\ \/ at[p] < Len(b) /\ at'[p] = at[p] + 1 /\ pc'[p] = "job"
                                  \/ ~(at[p] < Len(b)) /\ at'[p] = 1 /\ pc'[p] = "preserve"
        BY <1>0, <3>2 DEF PutProvides, Advance, Goto, Set
      <4> QED
        BY <2>2, <4>1 DEF Laid, Saved, Later
    <3> QED
      BY <1>6, <3>1, <3>2
  <2>4. Marks(p)'
    BY <1>1, <2>1, <2>3, MarksSame DEF Applying
  <2> QED
    BY <1>3, <2>1, <2>4 DEF Applying
<1>7. CASE PutHead(p)
  <2>1. pc[p] = "extract" /\ pc'[p] = "manifest"
    BY <1>0, <1>7 DEF PutHead, Goto
  <2> QED
    BY <1>1, <1>3, <1>7, <2>1, MarksHead DEF Applying
<1>8. CASE Preserve(p)
  <2>1. pc[p] = "preserve" /\ pc'[p] \in {"preserve", "dispossess"}
    BY <1>0, <1>8 DEF Preserve, Advance, Goto
  <2> QED
    BY <1>1, <1>3, <1>8, <2>1, MarksPreserve DEF Applying
<1>9. CASE Dispossess(p)
  BY <1>9, NoLosers DEF Dispossess
<1>10. CASE Disown(p)
  BY <1>1, <1>10 DEF Disown, Applying
<1>11. CASE DispossessDone(p) \/ PruneStart(p) \/ PruneUnlink(p) \/ PruneDone(p)
  <2>1. /\ pc[p] \in {"dispossess", "prune", "unlink"}
        /\ pc'[p] \in {"dispossess", "prune", "unlink", "enqueue"}
        /\ UNCHANGED <<prov, was, base, batch, kept, broke>>
    BY <1>0, <1>11 DEF DispossessDone, PruneStart, PruneUnlink, PruneDone, Advance, Goto, Set, db
  <2>2. \A i \in I : Laid(p, i) /\ Saved(p, i)
    BY <2>1 DEF Laid, Saved, Later
  <2>3. Marks(p)'
    BY <1>1, <2>1, <2>2, MarksSame DEF Applying
  <2> QED
    BY <1>3, <2>1, <2>3 DEF Applying
<1>12. CASE Enqueue(p)
  <2>1. pc[p] = "enqueue" /\ pc'[p] = "done"
    BY <1>0, <1>12 DEF Enqueue, Goto
  <2>2. Ready(p)
    BY <2>1, EndsReady
  <2>3. Queues(p)'
    BY <1>12, <2>2, EnqueueQueues
  <2> QED
    BY <2>1, <2>3 DEF MarkAt, Works, Applying
<1> QED
  BY <1>4, <1>5, <1>6, <1>7, <1>8, <1>9, <1>10, <1>11, <1>12 DEF Install

LEMMA MarkElsewhere ==
  ASSUME TypeInv, LockInv, RuledInv, MarkInv, NEW p \in Proc, Past(p), Remove(p) \/ Gc(p) \/ Finish(p) \/ Kill(p)
  PROVE  MarkInv'
<1>0. pc = [q \in Proc |-> pc[q]] /\ Others(p) /\ kills \in Nat
  BY StepOthers, ExitOthers DEF TypeInv, TypeOK, LocalsOK, Step, Kill
<1>1. ASSUME Exit(p) PROVE MarkInv'
  BY <1>0, <1>1, MarkInside DEF Exit, Goto, Past
<1>2. CASE Finish(p) \/ Kill(p)
  BY <1>1, <1>2 DEF Finish, Kill
<1>3. CASE (Remove(p) \/ Gc(p)) /\ ~Exit(p)
  <2>1. /\ pc[p] \in Leaving \cup {"check", "gc", "release"}
        /\ pc'[p] \in Leaving \cup {"release", "done"} /\ op'[p] = op[p]
    BY <1>0, <1>3 DEF Remove, RemoveCheck, RemoveDies, RemovePick, RemoveUnlink, ForgetProvides,
       ForgetFiles, ForgetDir, Gc, GcStart, GcRecord, GcSweep, GcDone, Goto, locals, Leaving
  <2>2. op[p] # "install"
    BY <2>1 DEF RuledInv, Ruled
  <2>3. MarkAt(p)'
    BY <2>1, <2>2 DEF MarkAt, Works, Applying, Leaving
  <2> QED
    BY <1>0, <2>3, MarkInside
<1> QED
  BY <1>1, <1>2, <1>3

LEMMA MarkOutside == ASSUME TypeInv, LockInv, LockInv', MarkInv, Outside PROVE MarkInv'
<1>0. UNCHANGED <<db, queue>> /\ (kills' = 0 => kills = 0)
  BY OutsideKeeps
<1> SUFFICES ASSUME kills' = 0, kills = 0, NEW p \in Proc, Past(p)' PROVE MarkAt(p)'
  BY <1>0 DEF MarkInv
<1>1. CASE pc[p] \in {"idle", "lock"} /\ pc'[p] \in {"idle", "lock", "plan", "check", "gc"}
  BY <1>1 DEF MarkAt, Works, Applying
<1>2. CASE ~(pc[p] \in {"idle", "lock"} /\ pc'[p] \in {"idle", "lock", "plan", "check", "gc"})
  <2>1. /\ pc'[p] = pc[p] /\ op'[p] = op[p] /\ batch'[p] = batch[p] /\ at'[p] = at[p]
        /\ was'[p] = was[p] /\ base'[p] = base[p] /\ kept'[p] = kept[p]
    BY <1>2, OutsideKeeps
  <2>2. Past(p) /\ MarkAt(p)
    BY <2>1 DEF Past, MarkInv
  <2>3. ~Edit
    BY <2>2, ConstantsAssumption DEF Edit, LockInv, Past
  <2>4. UNCHANGED disk
    BY <2>3 DEF Outside, vars, BeginInstall, BeginRemove, BeginGc, Begin, Lock, Kill
  <2>5. broke'[p] = broke[p]
    BY <2>2, <2>3 DEF Outside, vars, BeginInstall, BeginRemove, BeginGc, Begin, Lock, Kill, Exit, Set, locals,
       TypeInv, TypeOK, LocalsOK
  <2>6. (Works(p)' <=> Works(p)) /\ \A i : (Laid(p, i)' <=> Laid(p, i)) /\ (Saved(p, i)' <=> Saved(p, i))
    BY <2>1, Zenon DEF Works, Laid, Saved
  <2>7. ASSUME Marks(p) PROVE Marks(p)'
    BY <1>0, <2>1, <2>5, <2>6, <2>7, MarksSame DEF db
  <2>8. ASSUME Queues(p) PROVE Queues(p)'
    <3>1. Bystanders(p)' = Bystanders(p) /\ Keys(batch[p])' = Keys(batch[p])
      BY <1>0, <2>1, <2>4, Zenon DEF Bystanders, Keys, KeyOf, Readable, Seen, Own, db
    <3>2. \A k : Own(Old(p, k))' = Own(Old(p, k)) /\ Own(preserved[k])' = Own(preserved[k])
      BY <1>0, <2>1 DEF Own, Old, db
    <3>3. \A s : LoadedAt(base[p], s)' = LoadedAt(base[p], s) /\ Exported(base[p], s)' = Exported(base[p], s)
                 /\ Exported(disk, s)' = Exported(disk, s)
      BY <2>1, <2>4, ZenonT(30) DEF Exported, LoadedAt
    <3>4. \A l : (Readable(l)' <=> Readable(l)) /\ Own(man[l])' = Own(man[l])
      BY <1>0 DEF Readable, Own, db
    <3>5. UNCHANGED <<dirs, man, queue, disk>>
      BY <1>0, <2>4 DEF db
    <3> QED
      BY <2>8, <3>1, <3>2, <3>3, <3>4, <3>5 DEF Queues, Queueing
  <2> QED
    BY <2>1, <2>2, <2>6, <2>7, <2>8 DEF MarkAt
<1> QED
  BY <1>1, <1>2

\* With nothing forced and nothing killed, packages that lay their libraries out where the
\* loader looks and a soname that is always of one package, an install that returns has queued
\* every package outside its batch that found a symbol in a package's library before and does
\* not now, and every one that names a library only a preserved record still holds. Without the
\* last hypothesis it would not: a library that a batch moves, at its path, from one package to
\* another is compared with nothing (install.rs baseline and preserve; main.rs affected, enqueue).
THEOREM ConsumersTold ==
  ASSUME Conventional, Homed, Singular, ConfigsPlain, Unforced
  PROVE  Spec => [](kills = 0 => ConsumersQueued)
<1>1. Init => MarkInv
  BY DEF Init, MarkInv, Past
<1>2. Ground /\ LockInv' /\ NoForce /\ LayInv /\ OwnInv /\ MadeInv /\ RuledInv /\ LibInv /\ MarkInv
        /\ [Next]_vars => MarkInv'
  BY InsideOrOut, MarkOutside, MarkInstall, MarkElsewhere DEF Ground
<1>3. MarkInv => (kills = 0 => ConsumersQueued)
  <2> SUFFICES ASSUME MarkInv, kills = 0 PROVE ConsumersQueued
    OBVIOUS
  <2>1. \A p \in Proc : pc[p] = "done" /\ op[p] = "install" => Queues(p)
    BY DEF MarkInv, MarkAt, Past
  <2>2. BrokenQueued
    BY <2>1 DEF BrokenQueued, Queues, Queueing
  <2>3. OutdatedQueued
    BY <2>1 DEF OutdatedQueued, Queues, Queueing
  <2> QED
    BY <2>2, <2>3 DEF ConsumersQueued
<1>4. Ground => LockInv
  BY DEF Ground
<1>5. Spec => [](NoForce /\ LayInv)
  BY LayAlways
<1>6. Spec => []OwnInv
  BY OwnAlways
<1>7. Spec => [](MadeInv /\ RuledInv /\ LibInv)
  BY LibAlways
<1> QED
  BY GroundAlways, <1>1, <1>2, <1>3, <1>4, <1>5, <1>6, <1>7, PTL DEF Spec
=============================================================================
