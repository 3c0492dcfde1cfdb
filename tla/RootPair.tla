------------------------------ MODULE RootPair ------------------------------
(* The two root subvolumes: a risky `kiry i` takes the running one into the
   other before it installs, and `kiry commit`, `kiry rollback` and the firmware
   decide which of them runs next.

   Source: kiry/src/main.rs, settle and what it calls, commit_cmd and
   rollback_cmd. A root is the set of installs it holds. What makes an install
   risky (route, why_ab) is the caller's to choose, and btrfs, the firmware and
   the person at the menu are modelled from how that code uses them. *)
EXTENDS Naturals, Sequences

CONSTANTS
  Root,       \* the two subvolumes of ROOTS
  First,      \* the one the machine was set up on
  Proc,       \* kiry processes
  MaxWork,    \* installs in a behaviour
  MaxBoots,   \* reboots in a behaviour
  MaxKills,   \* kills and failures in a behaviour
  NoProc, NoUuid

ASSUME RootAssumption ==
  /\ \E r \in Root : r # First /\ Root = {First, r}
  /\ NoProc \notin Proc /\ NoUuid \notin Nat
  /\ MaxWork \in Nat /\ MaxBoots \in Nat /\ MaxKills \in Nat

VARIABLES
  there,      \* the subvolumes that exist
  tree,       \* the installs each of them holds
  uuid, parent,
  on,         \* the subvolume mounted at /
  order,      \* BootOrder, which has an entry for each
  taken,      \* /run/kiry/fallback is there: this boot has its fallback
  mounted,    \* something is mounted at /run/kiry/top
  lock,       \* the writer lock of the running root
  pc, risky,  \* per process: where it is, and whether it installs behind a fallback
  landed,     \* the installs of this boot that went in behind a fallback
  work, made, \* installs and subvolumes so far
  boots, kills

disks == <<there, tree, uuid, parent, made>>
machine == <<on, order, boots>>
run == <<taken, mounted>>
vars == <<disks, machine, run, lock, pc, risky, landed, work, kills>>

\* pair: the running one and its other half
other == CHOOSE r \in Root : r # on

Init ==
  /\ there = {First} /\ on = First
  /\ tree = [r \in Root |-> {}]
  /\ uuid = [r \in Root |-> 0]
  /\ parent = [r \in Root |-> NoUuid]
  /\ order = <<First, other>>
  /\ taken = FALSE /\ mounted = FALSE /\ lock = NoProc
  /\ pc = [p \in Proc |-> "idle"]
  /\ risky = [p \in Proc |-> FALSE]
  /\ landed = {}
  /\ work = 0 /\ made = 0 /\ boots = 0 /\ kills = 0

Goto(p, l) == pc' = [pc EXCEPT ![p] = l]

----------------------------------------------------------------------------
(* kiry i *)

\* settle: a risky one takes its fallback first, unless --live says not to
Settle(p) ==
  /\ pc[p] = "idle"
  /\ \E r \in BOOLEAN :
       /\ risky' = [risky EXCEPT ![p] = r]
       /\ Goto(p, IF r THEN "fled" ELSE "lock")
  /\ UNCHANGED <<disks, machine, run, lock, landed, work, kills>>

\* snapshot_of: a deleted parent keeps its uuid in the child, and a new one has another
SnapshotOf(sub, of) == {sub, of} \subseteq there /\ parent[sub] = uuid[of]

FledByOrder == ~taken /\ other \in there /\ order[1] = other
\* fled: on the fallback, taking one would replace the root that was fled from
Fled == ~taken /\ SnapshotOf(on, other)

CheckFled(p) ==
  /\ pc[p] = "fled"
  /\ Goto(p, IF Fled THEN "idle" ELSE "taken")
  /\ UNCHANGED <<disks, machine, run, lock, risky, landed, work, kills>>

RetakenEachTime(p) ==
  /\ pc[p] = "taken"
  /\ Goto(p, "mount")
  /\ UNCHANGED <<disks, machine, run, lock, risky, landed, work, kills>>
\* once a boot
CheckTaken(p) ==
  /\ pc[p] = "taken"
  /\ Goto(p, IF taken THEN "lock" ELSE "mount")
  /\ UNCHANGED <<disks, machine, run, lock, risky, landed, work, kills>>

\* the top of the filesystem at /run/kiry/top, which the kernel refuses to mount there twice
Mount(p) ==
  /\ pc[p] = "mount"
  /\ mounted' = TRUE
  /\ Goto(p, IF mounted THEN "idle" ELSE "delete")
  /\ UNCHANGED <<disks, machine, taken, lock, risky, landed, work, kills>>

DeleteMarking(p) ==
  /\ pc[p] = "delete"
  /\ there' = there \ {other} /\ taken' = TRUE
  /\ Goto(p, "snapshot")
  /\ UNCHANGED <<tree, uuid, parent, made, machine, mounted, lock, risky, landed, work, kills>>
\* btrfs subvolume delete, of the older fallback if there is one
Delete(p) ==
  /\ pc[p] = "delete"
  /\ there' = there \ {other}
  /\ Goto(p, "snapshot")
  /\ UNCHANGED <<tree, uuid, parent, made, machine, run, lock, risky, landed, work, kills>>

\* btrfs subvolume snapshot
Snapshot(p) ==
  /\ pc[p] = "snapshot"
  /\ there' = there \cup {other}
  /\ tree' = [tree EXCEPT ![other] = tree[on]]
  /\ made' = made + 1
  /\ uuid' = [uuid EXCEPT ![other] = made + 1]
  /\ parent' = [parent EXCEPT ![other] = uuid[on]]
  /\ Goto(p, "umount")
  /\ UNCHANGED <<machine, run, lock, risky, landed, work, kills>>

Umount(p) ==
  /\ pc[p] = "umount"
  /\ mounted' = FALSE
  /\ Goto(p, "mark")
  /\ UNCHANGED <<disks, machine, taken, lock, risky, landed, work, kills>>

Mark(p) ==
  /\ pc[p] = "mark"
  /\ taken' = TRUE
  /\ Goto(p, "lock")
  /\ UNCHANGED <<disks, machine, mounted, lock, risky, landed, work, kills>>

\* the writer lock is taken after settle returned
Lock(p) ==
  /\ pc[p] = "lock" /\ lock = NoProc
  /\ lock' = p
  /\ Goto(p, "apply")
  /\ UNCHANGED <<disks, machine, run, risky, landed, work, kills>>

Apply(p) ==
  /\ pc[p] = "apply" /\ work < MaxWork
  /\ work' = work + 1
  /\ tree' = [tree EXCEPT ![on] = @ \cup {work}]
  /\ landed' = IF risky[p] THEN landed \cup {work} ELSE landed
  /\ lock' = NoProc
  /\ Goto(p, "idle")
  /\ UNCHANGED <<there, uuid, parent, made, machine, run, risky, kills>>

\* a btrfs that fails: what was mounted goes and so does the install
Fail(p) ==
  /\ pc[p] \in {"delete", "snapshot"} /\ kills < MaxKills
  /\ kills' = kills + 1
  /\ mounted' = FALSE
  /\ Goto(p, "idle")
  /\ UNCHANGED <<disks, machine, taken, lock, risky, landed, work>>

\* a kill leaves the mount behind
Kill(p) ==
  /\ pc[p] # "idle" /\ kills < MaxKills
  /\ kills' = kills + 1
  /\ lock' = IF lock = p THEN NoProc ELSE lock
  /\ Goto(p, "idle")
  /\ UNCHANGED <<disks, machine, run, risky, landed, work>>

----------------------------------------------------------------------------
(* kiry commit, kiry rollback and what happens outside kiry. *)

ReorderKeeping(r) == <<r>> \o order
\* reorder: one entry to the front, the rest as it was
Reorder(r) == <<r, order[IF order[1] = r THEN 2 ELSE 1]>>

\* the root that booted is the one mounted, and another is before it
Keeps == order[1] # on

Commit ==
  /\ Keeps
  /\ order' = Reorder(on)
  /\ UNCHANGED <<disks, on, boots, run, lock, pc, risky, landed, work, kills>>

Rollback ==
  /\ order' = Reorder(other)
  /\ order' # order
  /\ UNCHANGED <<disks, on, boots, run, lock, pc, risky, landed, work, kills>>

\* the first entry of BootOrder or one picked in the menu; /run starts empty
Reboot ==
  /\ boots < MaxBoots
  /\ boots' = boots + 1
  /\ on' \in there
  /\ taken' = FALSE /\ mounted' = FALSE /\ lock' = NoProc /\ landed' = {}
  /\ pc' = [p \in Proc |-> "idle"]
  /\ UNCHANGED <<disks, order, risky, work, kills>>

\* what fled tells the user to do to stay on a fallback for good
DeleteByHand ==
  /\ Fled /\ \A p \in Proc : pc[p] = "idle"
  /\ there' = {on}
  /\ UNCHANGED <<tree, uuid, parent, made, machine, run, lock, pc, risky, landed, work, kills>>

Step(p) ==
  \/ Settle(p) \/ CheckFled(p) \/ CheckTaken(p) \/ Mount(p) \/ Delete(p) \/ Snapshot(p)
  \/ Umount(p) \/ Mark(p) \/ Lock(p) \/ Apply(p) \/ Fail(p) \/ Kill(p)
Next == (\E p \in Proc : Step(p)) \/ Commit \/ Rollback \/ Reboot \/ DeleteByHand

Spec == Init /\ [][Next]_vars
----------------------------------------------------------------------------
(* Properties. *)

TypeOK ==
  /\ there \subseteq Root /\ on \in there
  /\ tree \in [Root -> SUBSET Nat]
  /\ uuid \in [Root -> Nat] /\ parent \in [Root -> Nat \cup {NoUuid}]
  /\ order \in [1..2 -> Root] /\ order[1] # order[2]
  /\ taken \in BOOLEAN /\ mounted \in BOOLEAN /\ lock \in Proc \cup {NoProc}
  /\ pc \in [Proc -> {"idle", "fled", "taken", "mount", "delete", "snapshot", "umount", "mark", "lock", "apply"}]
  /\ risky \in [Proc -> BOOLEAN] /\ landed \subseteq Nat
  /\ work \in Nat /\ made \in Nat /\ boots \in Nat /\ kills \in Nat

\* Once the marker says this boot has its fallback, the other root is there and holds nothing
\* a risky install of this boot put on the running one: a second one never swaps the tree
\* that booted for one only the first install has touched (main.rs fallback). An install
\* with --live counts as not risky: settle takes no fallback for it.
Proven ==
  taken => other \in there /\ tree[other] \cap landed = {} /\ tree[other] \subseteq tree[on]

\* An install that wanted a fallback first never lands without one (main.rs settle).
Covered == \A p \in Proc : pc[p] = "apply" /\ risky[p] => taken /\ other \in there

\* The tree in the other root is never one a risky install of this boot has touched: "a second
\* risky install in the same boot would otherwise swap it for a tree only the first install
\* has touched" (main.rs fallback).
NeverSwapped == other \in there => tree[other] \cap landed = {}

\* The only root a process ever deletes is one that was taken as a fallback of the running
\* root: never the root it fled from, and never one nobody took (main.rs fled, snapshot_of).
OnlyFallbacksGo ==
  [][\A p \in Proc : pc[p] = "delete" /\ pc'[p] = "snapshot" =>
       \A r \in there \ there' : parent[r] = uuid[on]]_vars
=============================================================================
