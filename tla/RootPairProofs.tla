--------------------------- MODULE RootPairProofs ---------------------------
(* What holds of RootPair for any number of installs, boots and kills: a
   process only ever deletes a fallback of the running root, however many run,
   and where one runs at a time a risky install never lands without its fallback. *)
EXTENDS RootPair, TLAPS

LEMMA OtherRoot ==
  ASSUME on \in Root PROVE other \in Root /\ other # on /\ Root = {on, other}
<1>1. PICK s \in Root : s # First /\ Root = {First, s}
  BY RootAssumption
<1>2. \E r \in Root : r # on
  BY <1>1
<1>3. other \in Root /\ other # on
  BY <1>2 DEF other
<1> QED
  BY <1>1, <1>3

LEMMA SameOther == ASSUME on' = on PROVE other' = other
BY DEF other

\* A reboot into the other root swaps the two.
LEMMA SwappedOther ==
  ASSUME on \in Root, on' \in Root, on' # on PROVE on' = other /\ other' = on
<1>1. other \in Root /\ other # on /\ Root = {on, other}
  BY OtherRoot
<1>2. on' = other
  BY <1>1
<1>3. \E r \in Root : r # on'
  BY <1>1, <1>2
<1>4. other' \in Root /\ other' # on'
  BY <1>3 DEF other
<1> QED
  BY <1>1, <1>2, <1>4

----------------------------------------------------------------------------
(* Which root is whose snapshot. OnlyFallbacksGo needs what fled decided to
   stay so until the delete, which other processes and the reboots come between. *)

Steps == {"idle", "fled", "taken", "mount", "delete", "snapshot", "umount", "mark", "lock", "apply"}

KinTypes ==
  /\ there \subseteq Root /\ on \in there
  /\ uuid \in [Root -> Nat] /\ parent \in [Root -> Nat \cup {NoUuid}]
  /\ made \in Nat
  /\ pc \in [Proc -> Steps]

\* a new subvolume's uuid is one nothing has had
Fresh == \A r \in Root : uuid[r] \leq made /\ (parent[r] \in Nat => parent[r] \leq made)

\* two roots that are there came from one another
Kin == there = Root => parent[on] = uuid[other] \/ parent[other] = uuid[on]

Settling == {"taken", "mount", "delete", "snapshot", "umount", "mark"}

Home == taken \/ (\E p \in Proc : pc[p] \in Settling) => ~SnapshotOf(on, other)

KinInv == KinTypes /\ Fresh /\ Kin /\ Home

LEMMA KinInit == Init => KinInv
<1> SUFFICES ASSUME Init PROVE KinInv
  OBVIOUS
<1>0. on \in Root
  BY RootAssumption DEF Init
<1>1. KinTypes
  BY RootAssumption DEF Init, KinTypes, Steps
<1>2. Fresh
  BY RootAssumption DEF Init, Fresh
<1>3. there # Root /\ other \notin there
  BY <1>0, OtherRoot DEF Init
<1>4. Kin /\ Home
  BY <1>3 DEF Kin, Home, Init, SnapshotOf
<1> QED
  BY <1>1, <1>2, <1>4 DEF KinInv

\* A step that leaves the subvolumes and the running root as they are keeps their kinship.
LEMMA KinStays ==
  ASSUME KinInv, UNCHANGED <<disks, on>>
  PROVE  /\ Fresh' /\ Kin'
         /\ SnapshotOf(on, other)' <=> SnapshotOf(on, other)
<1>1. other' = other
  BY SameOther
<1> QED
  BY <1>1 DEF KinInv, Fresh, Kin, SnapshotOf, disks

\* So does one that only deletes the other root.
LEMMA KinDeletes ==
  ASSUME KinInv, there' = there \ {other}, UNCHANGED <<on, uuid, parent, made>>
  PROVE  Fresh' /\ Kin' /\ ~SnapshotOf(on, other)'
<1>1. other' = other
  BY SameOther
<1>2. other \in Root /\ other \notin there'
  BY OtherRoot DEF KinInv, KinTypes
<1> QED
  BY <1>1, <1>2 DEF KinInv, Fresh, Kin, SnapshotOf

LEMMA KinStep ==
  ASSUME KinInv, NEW p \in Proc, Step(p) PROVE KinInv'
<1> USE DEF Steps, Settling
<1>0. on \in Root /\ other \in Root /\ other # on /\ Root = {on, other} /\ on \in there
  BY OtherRoot DEF KinInv, KinTypes
<1>1. CASE Settle(p) \/ Lock(p) \/ Apply(p) \/ Fail(p) \/ Kill(p)
  <2>1. UNCHANGED <<there, uuid, parent, made, on, taken>> /\ pc' \in [Proc -> Steps]
        /\ \A q \in Proc : pc'[q] \in Settling => pc[q] \in Settling
    BY <1>1 DEF Settle, Lock, Apply, Fail, Kill, Goto, KinInv, KinTypes, disks, machine, run
  <2>2. other' = other
    BY <2>1, SameOther
  <2> QED
    BY <2>1, <2>2 DEF KinInv, KinTypes, Fresh, Kin, Home, SnapshotOf
<1>2. CASE CheckFled(p)
  <2>1. /\ UNCHANGED <<disks, on, taken>> /\ pc' \in [Proc -> Steps]
        /\ (\E q \in Proc : pc'[q] \in Settling) => (~Fled \/ \E q \in Proc : pc[q] \in Settling)
    BY <1>2 DEF CheckFled, Goto, KinInv, KinTypes, machine, run
  <2>2. Fresh' /\ Kin' /\ (SnapshotOf(on, other)' <=> SnapshotOf(on, other))
    BY <2>1, KinStays
  <2>3. KinTypes'
    BY <2>1 DEF KinInv, KinTypes, disks
  <2>4. Home'
    BY <2>1, <2>2 DEF KinInv, Home, Fled
  <2> QED
    BY <2>2, <2>3, <2>4 DEF KinInv
<1>3. CASE CheckTaken(p) \/ Mount(p) \/ Umount(p) \/ Mark(p)
  <2>1. UNCHANGED <<disks, on>> /\ pc' \in [Proc -> Steps]
    BY <1>3 DEF CheckTaken, Mount, Umount, Mark, Goto, KinInv, KinTypes, machine, run
  <2>2. ~SnapshotOf(on, other)
    BY <1>3 DEF CheckTaken, Mount, Umount, Mark, KinInv, Home
  <2>3. Fresh' /\ Kin' /\ (SnapshotOf(on, other)' <=> SnapshotOf(on, other))
    BY <2>1, KinStays
  <2>4. KinTypes'
    BY <2>1 DEF KinInv, KinTypes, disks
  <2> QED
    BY <2>2, <2>3, <2>4 DEF KinInv, Home
<1>4. CASE Delete(p)
  <2>1. there' = there \ {other} /\ UNCHANGED <<on, uuid, parent, made>> /\ pc' \in [Proc -> Steps]
    BY <1>4 DEF Delete, Goto, KinInv, KinTypes, machine
  <2>2. Fresh' /\ Kin' /\ ~SnapshotOf(on, other)'
    BY <2>1, KinDeletes
  <2>3. KinTypes'
    BY <1>0, <2>1 DEF KinInv, KinTypes
  <2> QED
    BY <2>2, <2>3 DEF KinInv, Home
<1>5. CASE Snapshot(p)
  <2>1. /\ there' = Root /\ on' = on /\ made' = made + 1
        /\ uuid' = [uuid EXCEPT ![other] = made + 1]
        /\ parent' = [parent EXCEPT ![other] = uuid[on]]
        /\ pc' \in [Proc -> Steps]
    BY <1>0, <1>5 DEF Snapshot, Goto, KinInv, KinTypes, machine
  <2>2. other' = other
    BY <2>1, SameOther
  <2>3. KinTypes'
    BY <1>0, <2>1 DEF KinInv, KinTypes
  <2>4. Fresh'
    BY <1>0, <2>1 DEF KinInv, KinTypes, Fresh
  <2>5. Kin' 
    BY <1>0, <2>1, <2>2 DEF KinInv, KinTypes, Kin
  <2>6. parent[on] # made + 1
    BY <1>0, RootAssumption DEF KinInv, KinTypes, Fresh
  <2>7. ~SnapshotOf(on, other)'
    BY <1>0, <2>1, <2>2, <2>6 DEF KinInv, KinTypes, SnapshotOf
  <2> QED
    BY <2>3, <2>4, <2>5, <2>7 DEF KinInv, Home
<1> QED
  BY <1>1, <1>2, <1>3, <1>4, <1>5 DEF Step

LEMMA KinReboot == ASSUME KinInv, Reboot PROVE KinInv'
<1> USE DEF Steps, Settling
<1>1. /\ on \in Root /\ on' \in there /\ there \subseteq Root /\ taken' = FALSE
      /\ pc' = [p \in Proc |-> "idle"] /\ UNCHANGED <<there, uuid, parent, made>>
  BY DEF Reboot, KinInv, KinTypes, disks
<1>2. (on' = on /\ other' = other) \/ (on' = other /\ other' = on)
  BY <1>1, SameOther, SwappedOther
<1>3. KinTypes' /\ Fresh' /\ Home'
  BY <1>1 DEF KinInv, KinTypes, Fresh, Home
<1>4. Kin'
  BY <1>1, <1>2 DEF KinInv, Kin
<1> QED
  BY <1>3, <1>4 DEF KinInv

LEMMA KinNext == ASSUME KinInv, [Next]_vars PROVE KinInv'
<1>1. CASE \E p \in Proc : Step(p)
  BY <1>1, KinStep
<1>2. CASE Reboot
  BY <1>2, KinReboot
<1>3. CASE Commit \/ Rollback \/ UNCHANGED vars
  <2>1. UNCHANGED <<disks, on, taken, pc>>
    BY <1>3 DEF Commit, Rollback, vars, machine, run
  <2>2. Fresh' /\ Kin' /\ (SnapshotOf(on, other)' <=> SnapshotOf(on, other))
    BY <2>1, KinStays
  <2> QED
    BY <2>1, <2>2 DEF KinInv, KinTypes, Home, disks
<1>4. CASE DeleteByHand
  <2>1. other \in Root /\ other # on /\ Root = {on, other} /\ on \in there /\ there \subseteq Root
    BY OtherRoot DEF KinInv, KinTypes
  <2>2. there' = there \ {other} /\ UNCHANGED <<on, uuid, parent, made, pc>>
    BY <1>4, <2>1 DEF DeleteByHand, machine
  <2>3. Fresh' /\ Kin' /\ ~SnapshotOf(on, other)'
    BY <2>2, KinDeletes
  <2> QED
    BY <2>1, <2>2, <2>3 DEF KinInv, KinTypes, Home
<1> QED
  BY <1>1, <1>2, <1>3, <1>4 DEF Next

\* The only root a process ever deletes was taken as a fallback of the running one,
\* whatever other processes, reboots and kills come between the check and the delete (fled).
THEOREM HomeNeverGoes == Spec => OnlyFallbacksGo
<1>1. Spec => []KinInv
  BY KinInit, KinNext, PTL DEF Spec
<1>2. ASSUME KinInv, [Next]_vars
      PROVE  [\A p \in Proc : pc[p] = "delete" /\ pc'[p] = "snapshot" =>
                 \A r \in there \ there' : parent[r] = uuid[on]]_vars
  <2> SUFFICES ASSUME NEW p \in Proc, pc[p] = "delete", pc'[p] = "snapshot",
                      NEW r \in there \ there', Next
               PROVE  parent[r] = uuid[on]
    BY <1>2
  <2>1. other \in Root /\ other # on /\ Root = {on, other} /\ there \subseteq Root /\ on \in there
    BY <1>2, OtherRoot DEF KinInv, KinTypes
  <2>2. ~SnapshotOf(on, other)
    BY <1>2 DEF KinInv, Home, Settling
  <2>3. there \ there' \subseteq {other}
    <3>1. CASE \E q \in Proc : Step(q)
      BY <2>1, <3>1 DEF Step, Settle, CheckFled, CheckTaken, Mount, Delete, Snapshot, Umount, Mark,
           Lock, Apply, Fail, Kill, disks
    <3>2. CASE Commit \/ Rollback \/ Reboot \/ DeleteByHand
      BY <2>1, <3>2 DEF Commit, Rollback, Reboot, DeleteByHand, disks
    <3> QED
      BY <3>1, <3>2 DEF Next
  <2>4. r = other /\ there = Root
    BY <2>1, <2>3
  <2> QED
    BY <1>2, <2>1, <2>2, <2>4 DEF KinInv, Kin, SnapshotOf
<1> QED
  BY <1>1, <1>2, PTL DEF Spec, OnlyFallbacksGo
----------------------------------------------------------------------------
(* One process at a time. Between the check of the marker and the marker no
   other process may come, which the code leaves to its user: settle takes no lock. *)

Alone == \A p, q \in Proc : p = q

HeldTypes ==
  /\ on \in there /\ there \subseteq Root
  /\ tree \in [Root -> SUBSET Nat] /\ landed \subseteq Nat /\ work \in Nat
  /\ taken \in BOOLEAN
  /\ pc \in [Proc -> Steps] /\ risky \in [Proc -> BOOLEAN]

\* an install is numbered as none before it was
Numbered == \A r \in Root : \A n \in tree[r] : n < work

Marked ==
  IF taken THEN other \in there /\ tree[other] \cap landed = {} /\ tree[other] \subseteq tree[on]
           ELSE landed = {}

\* the way through fallback ends with the marker, and only that leads a risky install on
Behind ==
  \A p \in Proc :
    /\ pc[p] \in {"mount", "delete", "snapshot", "umount", "mark"} => ~taken
    /\ pc[p] \in {"umount", "mark"} => other \in there /\ tree[other] \subseteq tree[on]
    /\ pc[p] \in {"lock", "apply"} /\ risky[p] => taken
    /\ pc[p] \in Steps \ {"idle", "lock", "apply"} => risky[p]

HeldInv == HeldTypes /\ Numbered /\ Marked /\ Behind

LEMMA HeldInit == Init => HeldInv
<1> SUFFICES ASSUME Init PROVE HeldInv
  OBVIOUS
<1>1. HeldTypes
  BY RootAssumption DEF Init, HeldTypes, Steps
<1>2. Numbered /\ Marked /\ Behind
  BY DEF Init, Numbered, Marked, Behind, Steps
<1> QED
  BY <1>1, <1>2 DEF HeldInv

LEMMA HeldStep ==
  ASSUME Alone, HeldInv, NEW p \in Proc, Step(p) PROVE HeldInv'
<1> USE DEF Steps
<1>0. on \in Root /\ other \in Root /\ other # on /\ Root = {on, other} /\ on \in there
  BY OtherRoot DEF HeldInv, HeldTypes
<1>a. \A q \in Proc : q = p
  BY DEF Alone
<1>1. CASE Settle(p) \/ CheckFled(p) \/ CheckTaken(p) \/ Mount(p) \/ Lock(p) \/ Fail(p) \/ Kill(p)
  <2>1. UNCHANGED <<there, tree, on, taken, landed, work>>
    BY <1>1 DEF Settle, CheckFled, CheckTaken, Mount, Lock, Fail, Kill, disks, machine, run
  <2>2. other' = other
    BY <2>1, SameOther
  <2>3. HeldTypes' /\ Numbered' /\ Marked'
    <3>1. pc' \in [Proc -> Steps] /\ risky' \in [Proc -> BOOLEAN]
      BY <1>1 DEF Settle, CheckFled, CheckTaken, Mount, Lock, Fail, Kill, Goto, HeldInv, HeldTypes
    <3> QED
      BY <2>1, <2>2, <3>1 DEF HeldInv, HeldTypes, Numbered, Marked
  <2>4. Behind'
    BY <1>1, <1>a, <2>1, <2>2 DEF Settle, CheckFled, CheckTaken, Mount, Lock, Fail, Kill, Goto,
         HeldInv, HeldTypes, Behind
  <2> QED
    BY <2>3, <2>4 DEF HeldInv
<1>2. CASE Delete(p)
  <2>1. /\ there' = there \ {other} /\ UNCHANGED <<tree, on, taken, landed, work, risky>>
        /\ pc' = [pc EXCEPT ![p] = "snapshot"] /\ pc[p] = "delete"
    BY <1>2 DEF Delete, Goto, machine, run
  <2>2. ~taken /\ risky[p]
    BY <2>1 DEF HeldInv, Behind
  <2> QED
    BY <1>0, <1>a, <2>1, <2>2 DEF HeldInv, HeldTypes, Numbered, Marked, Behind
<1>3. CASE Snapshot(p)
  <2>1. /\ there' = Root /\ UNCHANGED <<on, taken, landed, work, risky>>
        /\ tree' = [tree EXCEPT ![other] = tree[on]]
        /\ pc' = [pc EXCEPT ![p] = "umount"] /\ pc[p] = "snapshot"
    BY <1>0, <1>3 DEF Snapshot, Goto, machine, run, HeldInv, HeldTypes
  <2>2. other' = other /\ ~taken /\ risky[p]
    BY <2>1, SameOther DEF HeldInv, Behind
  <2>3. tree'[on] = tree[on] /\ tree'[other] = tree[on]
    BY <1>0, <2>1 DEF HeldInv, HeldTypes
  <2>4. HeldTypes' /\ Numbered' /\ Marked'
    BY <1>0, <2>1, <2>2, <2>3 DEF HeldInv, HeldTypes, Numbered, Marked
  <2>5. Behind'
    BY <1>0, <1>a, <2>1, <2>2, <2>3 DEF HeldInv, HeldTypes, Behind
  <2> QED
    BY <2>4, <2>5 DEF HeldInv
<1>4. CASE Umount(p) \/ Mark(p)
  <2>1. /\ UNCHANGED <<there, tree, on, landed, work, risky>> /\ pc' \in [Proc -> Steps]
        /\ pc[p] \in {"umount", "mark"}
        /\ (pc'[p] = "mark" /\ taken' = taken) \/ (pc'[p] = "lock" /\ taken' = TRUE)
    <3>1. CASE Umount(p)
      BY <3>1 DEF Umount, Goto, disks, machine, HeldInv, HeldTypes
    <3>2. CASE Mark(p)
      BY <3>2 DEF Mark, Goto, disks, machine, HeldInv, HeldTypes
    <3> QED
      BY <1>4, <3>1, <3>2
  <2>2. other' = other /\ ~taken /\ risky[p] /\ other \in there /\ tree[other] \subseteq tree[on]
    BY <2>1, SameOther DEF HeldInv, Behind
  <2>3. HeldTypes' /\ Numbered'
    BY <2>1 DEF HeldInv, HeldTypes, Numbered
  <2>4. landed = {}
    BY <2>2 DEF HeldInv, Marked
  <2>5. Marked'
    BY <2>1, <2>2, <2>4 DEF Marked
  <2>6. Behind'
    BY <1>a, <2>1, <2>2 DEF HeldInv, HeldTypes, Behind
  <2> QED
    BY <2>3, <2>5, <2>6 DEF HeldInv
<1>5. CASE Apply(p)
  <2>1. /\ UNCHANGED <<there, on, taken, risky>> /\ work' = work + 1
        /\ tree' = [tree EXCEPT ![on] = tree[on] \cup {work}]
        /\ landed' = IF risky[p] THEN landed \cup {work} ELSE landed
        /\ pc' = [pc EXCEPT ![p] = "idle"] /\ pc[p] = "apply"
    BY <1>5 DEF Apply, Goto, machine, run
  <2>2. other' = other /\ (risky[p] => taken)
    BY <2>1, SameOther DEF HeldInv, Behind
  <2>3. tree'[on] = tree[on] \cup {work} /\ tree'[other] = tree[other]
    BY <1>0, <2>1 DEF HeldInv, HeldTypes
  <2>4. HeldTypes'
    BY <1>0, <2>1 DEF HeldInv, HeldTypes
  <2>5. Numbered'
    BY <1>0, <2>1, <2>3 DEF HeldInv, HeldTypes, Numbered
  <2>6. work \notin tree[other]
    BY <1>0 DEF HeldInv, HeldTypes, Numbered
  <2>7. Marked'
    BY <2>1, <2>2, <2>3, <2>6 DEF HeldInv, Marked
  <2>8. Behind'
    BY <1>a, <2>1 DEF HeldInv, HeldTypes, Behind
  <2> QED
    BY <2>4, <2>5, <2>7, <2>8 DEF HeldInv
<1> QED
  BY <1>1, <1>2, <1>3, <1>4, <1>5 DEF Step

LEMMA HeldNext == ASSUME Alone, HeldInv, [Next]_vars PROVE HeldInv'
<1> USE DEF Steps
<1>1. CASE \E p \in Proc : Step(p)
  BY <1>1, HeldStep
<1>2. CASE Commit \/ Rollback \/ UNCHANGED vars
  <2>1. UNCHANGED <<there, tree, on, taken, pc, risky, landed, work>>
    BY <1>2 DEF Commit, Rollback, vars, disks, machine, run
  <2>2. other' = other
    BY <2>1, SameOther
  <2> QED
    BY <2>1, <2>2 DEF HeldInv, HeldTypes, Numbered, Marked, Behind
<1>3. CASE Reboot
  <2>1. /\ on' \in there /\ taken' = FALSE /\ landed' = {} /\ pc' = [q \in Proc |-> "idle"]
        /\ UNCHANGED <<there, tree, work, risky>>
    BY <1>3 DEF Reboot, disks
  <2> QED
    BY <2>1 DEF HeldInv, HeldTypes, Numbered, Marked, Behind
<1>4. CASE DeleteByHand
  <2>1. /\ ~taken /\ there' = {on} /\ UNCHANGED <<tree, on, taken, pc, risky, landed, work>>
        /\ \A p \in Proc : pc[p] = "idle"
    BY <1>4 DEF DeleteByHand, Fled, machine, run
  <2> QED
    BY <2>1 DEF HeldInv, HeldTypes, Numbered, Marked, Behind
<1> QED
  BY <1>1, <1>2, <1>3, <1>4 DEF Next

\* With one process at a time, the fallback a boot took is kept: it holds nothing a risky
\* install of this boot put on the running root, over any number of installs and kills.
THEOREM FallbackProven == ASSUME Alone PROVE Spec => []Proven
<1>1. HeldInv => Proven
  BY DEF HeldInv, Marked, Proven
<1> QED
  BY <1>1, HeldInit, HeldNext, PTL DEF Spec

\* And an install that wanted a fallback never lands without one.
THEOREM InstallsCovered == ASSUME Alone PROVE Spec => []Covered
<1>1. HeldInv => Covered
  BY DEF HeldInv, Marked, Behind, Covered
<1> QED
  BY <1>1, HeldInit, HeldNext, PTL DEF Spec

----------------------------------------------------------------------------
(* Types. That the running root is there needs to know that what is deleted is
   the other one; that BootOrder keeps one entry for each, that what is brought to
   the front was in it. *)

TypeInv == KinInv /\ TypeOK

LEMMA OrderTwo ==
  ASSUME TypeOK, NEW r \in Root
  PROVE  Reorder(r) \in [1..2 -> Root] /\ Reorder(r)[1] # Reorder(r)[2]
<1>1. order[1] \in Root /\ order[2] \in Root /\ order[1] # order[2]
  BY DEF TypeOK
<1>2. PICK s \in Root : s # First /\ Root = {First, s}
  BY RootAssumption
<1>3. r = order[1] \/ r = order[2]
  BY <1>1, <1>2
<1>4. r # order[IF order[1] = r THEN 2 ELSE 1] /\ order[IF order[1] = r THEN 2 ELSE 1] \in Root
  BY <1>1, <1>3
<1>5. \A a, b \in Root : <<a, b>> \in [1..2 -> Root] /\ <<a, b>>[1] = a /\ <<a, b>>[2] = b
  OBVIOUS
<1> QED
  BY <1>4, <1>5 DEF Reorder

LEMMA TypeInit == Init => TypeOK
<1> SUFFICES ASSUME Init PROVE TypeOK
  OBVIOUS
<1>1. on = First /\ on \in Root /\ other \in Root /\ other # on
  BY OtherRoot, RootAssumption DEF Init
<1>2. order \in [1..2 -> Root] /\ order[1] # order[2]
  BY <1>1 DEF Init
<1> QED
  BY <1>1, <1>2, RootAssumption DEF Init, TypeOK

LEMMA TypeStep ==
  ASSUME TypeInv, NEW p \in Proc, Step(p) PROVE TypeOK'
<1>0. on \in Root /\ other \in Root /\ other # on /\ Root = {on, other} /\ on \in there
  BY OtherRoot DEF TypeInv, TypeOK
<1>1. CASE Settle(p)
  BY <1>1 DEF Settle, Goto, TypeInv, TypeOK, disks, machine, run
<1>2. CASE CheckFled(p) \/ CheckTaken(p) \/ Mount(p) \/ Umount(p) \/ Mark(p)
  BY <1>2 DEF CheckFled, CheckTaken, Mount, Umount, Mark, Goto, TypeInv, TypeOK, disks, machine, run
<1>3. CASE Delete(p)
  BY <1>0, <1>3 DEF Delete, Goto, TypeInv, TypeOK, machine, run
<1>4. CASE Snapshot(p)
  BY <1>0, <1>4 DEF Snapshot, Goto, TypeInv, TypeOK, machine, run
<1>5. CASE Lock(p) \/ Fail(p) \/ Kill(p)
  <2>1. UNCHANGED <<there, tree, uuid, parent, made, on, order, boots, taken, risky, landed, work>>
    <3>1. UNCHANGED <<disks, machine, taken, risky, landed, work>>
      BY <1>5 DEF Lock, Fail, Kill, run
    <3> QED
      BY <3>1 DEF disks, machine
  <2>2. mounted' \in BOOLEAN /\ kills' \in Nat
    <3>1. (mounted' = mounted \/ mounted' = FALSE) /\ (kills' = kills \/ kills' = kills + 1)
      BY <1>5 DEF Lock, Fail, Kill, run
    <3>2. mounted \in BOOLEAN /\ kills \in Nat
      BY DEF TypeInv, TypeOK
    <3>3. mounted' \in BOOLEAN
      BY <3>1, <3>2
    <3>4. kills' \in Nat
      BY <3>1, <3>2
    <3> QED
      BY <3>3, <3>4
  <2>3. lock' \in Proc \cup {NoProc}
    BY <1>5 DEF Lock, Fail, Kill, TypeInv, TypeOK
  <2>4. pc' \in [Proc -> Steps]
    BY <1>5 DEF Lock, Fail, Kill, Goto, TypeInv, TypeOK, Steps
  <2> QED
    BY <2>1, <2>2, <2>3, <2>4 DEF TypeInv, TypeOK, Steps
<1>6. CASE Apply(p)
  BY <1>0, <1>6 DEF Apply, Goto, TypeInv, TypeOK, machine, run
<1> QED
  BY <1>1, <1>2, <1>3, <1>4, <1>5, <1>6 DEF Step

LEMMA TypeNext == ASSUME TypeInv, [Next]_vars PROVE TypeInv'
<1>0. on \in Root /\ other \in Root /\ other # on /\ Root = {on, other} /\ on \in there
  BY OtherRoot DEF TypeInv, TypeOK
<1>1. KinInv'
  BY KinNext DEF TypeInv
<1>2. CASE \E p \in Proc : Step(p)
  BY <1>1, <1>2, TypeStep DEF TypeInv
<1>3. CASE Commit \/ Rollback
  <2>1. order' = Reorder(on) \/ order' = Reorder(other)
    BY <1>3 DEF Commit, Rollback
  <2>2. order' \in [1..2 -> Root] /\ order'[1] # order'[2]
    BY <1>0, <2>1, OrderTwo DEF TypeInv
  <2>3. UNCHANGED <<disks, on, boots, run, lock, pc, risky, landed, work, kills>>
    BY <1>3 DEF Commit, Rollback
  <2> QED
    BY <1>1, <2>2, <2>3 DEF TypeInv, TypeOK, disks, run
<1>4. CASE Reboot
  <2>1. /\ UNCHANGED <<there, tree, uuid, parent, made, order, risky, work, kills>>
        /\ on' \in there /\ boots' \in Nat /\ landed' = {} /\ lock' = NoProc
        /\ taken' = FALSE /\ mounted' = FALSE
    BY <1>4 DEF Reboot, disks, TypeInv, TypeOK
  <2>2. pc' \in [Proc -> Steps]
    BY <1>4 DEF Reboot, Steps
  <2> QED
    BY <1>1, <2>1, <2>2 DEF TypeInv, TypeOK, Steps
<1>5. CASE DeleteByHand
  BY <1>0, <1>1, <1>5 DEF DeleteByHand, TypeInv, TypeOK, machine, run
<1>6. CASE UNCHANGED vars
  BY <1>1, <1>6 DEF TypeInv, TypeOK, vars, disks, machine, run
<1> QED
  BY <1>2, <1>3, <1>4, <1>5, <1>6 DEF Next

\* Whatever processes, kills, commits and reboots come, the root that runs is one that is
\* there, and BootOrder keeps one entry for each of the two (reorder, fallback).
THEOREM TypeCorrect == Spec => []TypeOK
<1>1. TypeInv => TypeOK
  BY DEF TypeInv
<1> QED
  BY <1>1, KinInit, TypeInit, TypeNext, PTL DEF Spec, TypeInv
=============================================================================
