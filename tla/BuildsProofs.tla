---------------------------- MODULE BuildsProofs ----------------------------
(* What the claim is worth, for any number of processes, targets, edits and
   kills, with a gc beside it that may find anything six hours old: two builds
   run only where gc unlinked a lock file one of them had open, and where gc took
   nothing from under a build what it compiled stands until it landed, what lands
   is whole, and what stale takes as good is. *)
EXTENDS Builds, TLAPS

Sweeping == {"scan_stage", "drop_stage", "scan_parts", "drop_parts"}
Steps == {"idle", "open", "flock"} \cup Sweeping \cup Building

ClaimTypes ==
  /\ pc \in [Proc -> Steps]
  /\ fd \in [Proc -> Nat \cup {NoFile}] /\ has \in [Proc -> BOOLEAN]
  /\ doomed \in [Proc -> SUBSET (Target \cup {"lock"})] /\ aged \subseteq Target \cup {"lock"}
  /\ files \in Nat /\ lock \in Nat \cup {NoFile}

\* what a process opened is still the lock file, but for what gc unlinked meanwhile
SameFile ==
  /\ \A p \in Proc : fd[p] = NoFile \/ fd[p] = lock \/ fd[p] \in robbed
  /\ \A p \in Proc : pc[p] = "flock" \/ has[p] => fd[p] # NoFile

Holder ==
  /\ \A p \in Proc : has[p] <=> pc[p] \in Building
  /\ \A p, q \in Proc : has[p] /\ has[q] /\ fd[p] = fd[q] => p = q

ClaimInv == ClaimTypes /\ SameFile /\ Holder

LEMMA ClaimInit == Init => ClaimInv
BY BuildsAssumption DEF Init, ClaimInv, ClaimTypes, SameFile, Holder, Steps, Sweeping, Building,
   AfterCompile, Landing

LEMMA AgedStep ==
  ASSUME aged \subseteq Target \cup {"lock"}, NEW p \in Proc, Step(p) PROVE aged' \subseteq Target \cup {"lock"}
<1>1. CASE Begin(p) \/ GcBegin(p)
  BY <1>1 DEF Begin, GcBegin, Gap
<1>2. CASE ~Begin(p) /\ ~GcBegin(p)
  BY <1>2 DEF Step, Open, Refuse, Claim, Compile, Compiled, Again, CompileFails, Pack, Packed, PackFails, Rename, Clear,
     Put, Sweep, ScanStage, DropStage, ScanParts, DropParts, Kill
<1> QED
  BY <1>1, <1>2

LEMMA ClaimStep ==
  ASSUME ClaimInv, NEW p \in Proc, Step(p) PROVE ClaimInv'
<1> USE BuildsAssumption DEF Steps, Sweeping, Building, AfterCompile, Landing
<1>0. aged' \subseteq Target \cup {"lock"}
  BY AgedStep DEF ClaimInv, ClaimTypes
<1>1. CASE Begin(p) \/ GcBegin(p)
  <2>1. UNCHANGED <<claims, doomed, robbed>> /\ pc[p] = "idle" /\ \E l \in {"open", "scan_stage"} : Goto(p, l)
    BY <1>1 DEF Begin, GcBegin
  <2> QED
    BY <1>0, <2>1 DEF Goto, claims, ClaimInv, ClaimTypes, SameFile, Holder
<1>2. CASE Open(p)
  <2>1. fd' = [fd EXCEPT ![p] = lock'] /\ UNCHANGED <<has, doomed, robbed>> /\ pc[p] = "open"
        /\ Goto(p, "flock")
    BY <1>2 DEF Open
  <2>2. (lock = NoFile /\ files' \in Nat /\ lock' \in Nat) \/ (lock # NoFile /\ UNCHANGED <<files, lock>>)
    BY <1>2 DEF Open, ClaimInv, ClaimTypes
  <2>3. ClaimTypes'
    BY <1>0, <2>1, <2>2 DEF ClaimInv, ClaimTypes, Goto
  <2>4. SameFile'
    BY <2>1, <2>2 DEF ClaimInv, ClaimTypes, SameFile, Holder, Goto
  <2>5. Holder'
    BY <2>1 DEF ClaimInv, ClaimTypes, Holder, Goto
  <2> QED
    BY <2>3, <2>4, <2>5 DEF ClaimInv
<1>3. CASE Claim(p)
  <2>1. /\ has' = [has EXCEPT ![p] = TRUE] /\ Goto(p, "compile") /\ pc[p] = "flock"
        /\ UNCHANGED <<lock, files, fd, doomed, robbed>>
    BY <1>3 DEF Claim
  <2>2. \A q \in Proc : has[q] => fd[q] # fd[p]
    BY <1>3 DEF Claim, HeldBy
  <2> QED
    BY <1>0, <2>1, <2>2 DEF Goto, ClaimInv, ClaimTypes, SameFile, Holder
<1>4. CASE DropStage(p)
  <2>1. /\ UNCHANGED <<files, fd, has>> /\ pc[p] = "drop_stage" /\ doomed' = [doomed EXCEPT ![p] = {}]
        /\ Goto(p, "scan_parts") /\ lock' \in {lock, NoFile} /\ robbed \subseteq robbed'
    BY <1>4 DEF DropStage
  <2>2. ASSUME NEW q \in Proc, fd[q] = lock, lock' # lock, lock # NoFile PROVE fd[q] \in robbed'
    BY <1>4, <2>2 DEF DropStage, Robs
  <2>3. SameFile'
    BY <1>0, <2>1, <2>2 DEF Goto, ClaimInv, ClaimTypes, SameFile
  <2> QED
    BY <1>0, <2>1, <2>3 DEF Goto, ClaimInv, ClaimTypes, Holder
<1>5. CASE ScanStage(p) \/ ScanParts(p) \/ DropParts(p)
  <2>1. UNCHANGED <<lock, files, fd, has, robbed>> /\ pc[p] \in Sweeping
    BY <1>5 DEF ScanStage, ScanParts, DropParts, claims
  <2>2. doomed' \in [Proc -> SUBSET (Target \cup {"lock"})]
    BY <1>5 DEF ScanStage, ScanParts, DropParts, ClaimInv, ClaimTypes
  <2>3. \E l \in {"drop_stage", "drop_parts", "idle"} : Goto(p, l)
    BY <1>5 DEF ScanStage, ScanParts, DropParts
  <2> QED
    BY <1>0, <2>1, <2>2, <2>3 DEF Goto, ClaimInv, ClaimTypes, SameFile, Holder
<1>6. CASE Compile(p) \/ Compiled(p) \/ Again(p) \/ Pack(p) \/ Packed(p) \/ Clear(p) \/ Put(p)
  <2>1. UNCHANGED <<lock, files, fd, has, doomed, robbed>> /\ pc[p] \in Building
    BY <1>6 DEF Compile, Compiled, Again, Pack, Packed, Clear, Put, claims
  <2>2. pc' = pc \/ \E l \in Building : Goto(p, l)
    BY <1>6 DEF Compile, Compiled, Again, Pack, Packed, Clear, Put, Each
  <2> QED
    BY <1>0, <2>1, <2>2 DEF Goto, ClaimInv, ClaimTypes, SameFile, Holder
<1>7. CASE Refuse(p) \/ CompileFails(p) \/ PackFails(p) \/ Sweep(p) \/ Kill(p) \/ (Rename(p) /\ Exit(p))
  <2>1. Exit(p) /\ UNCHANGED robbed /\ (doomed' = doomed \/ doomed' = [doomed EXCEPT ![p] = {}])
    BY <1>7 DEF Refuse, CompileFails, PackFails, Sweep, Kill, Rename
  <2> QED
    BY <1>0, <2>1 DEF Exit, Goto, ClaimInv, ClaimTypes, SameFile, Holder
<1>8. CASE Rename(p) /\ ~Exit(p)
  <2>1. UNCHANGED <<claims, robbed, doomed>> /\ pc[p] = "rename" /\ Goto(p, "clear")
    BY <1>8 DEF Rename
  <2> QED
    BY <1>0, <2>1 DEF Goto, claims, ClaimInv, ClaimTypes, SameFile, Holder
<1> QED
  BY <1>1, <1>2, <1>3, <1>4, <1>5, <1>6, <1>7, <1>8 DEF Step

LEMMA ClaimNext == ASSUME ClaimInv, [Next]_vars PROVE ClaimInv'
<1>1. CASE \E p \in Proc : Step(p)
  BY <1>1, ClaimStep
<1>2. CASE EditRecipe \/ EditFlags \/ UNCHANGED vars
  BY <1>2 DEF EditRecipe, EditFlags, vars, claims, ClaimInv, ClaimTypes, SameFile, Holder
<1> QED
  BY <1>1, <1>2 DEF Next

\* One build of the package at a time, however many are started, killed or begun again, unless
\* gc unlinked the lock file under one of them (claim and gc_cmd's sweep of the stage).
THEOREM BuildsExclude == Spec => []OneBuilder
<1>1. ClaimInv => OneBuilder
  BY DEF ClaimInv, SameFile, Holder, OneBuilder
<1> QED
  BY <1>1, ClaimInit, ClaimNext, PTL DEF Spec

\* while gc took nothing from under a build, all have the same file open
LEMMA OneIn ==
  ASSUME ClaimInv, robbed = {}, NEW p \in Proc, NEW q \in Proc, pc[p] \in Building, pc[q] \in Building
  PROVE  p = q
BY DEF ClaimInv, SameFile, Holder

LEMMA RobbedGrows == ASSUME [Next]_vars, robbed' = {} PROVE robbed = {}
BY DEF Next, Step, Begin, Open, Refuse, Claim, Compile, Compiled, Again, CompileFails, Pack, Packed, PackFails, Rename,
   Clear, Put, Sweep, GcBegin, ScanStage, DropStage, ScanParts, DropParts, Kill, EditRecipe, EditFlags, vars
----------------------------------------------------------------------------
(* What is in the stage directories. Compile keeps the targets before the one it
   is at only because a target is not on the list twice. *)

Whole(p, t) == Mine(p, t) /\ stage[t].whole

WorkTypes ==
  /\ stage \in [Target -> Tree \cup {NoFile}]
  /\ recipe \in Nat /\ flags \in Nat /\ f \in [Proc -> Nat]
  /\ todo \in [Proc -> Wanted \cup {<<>>}] /\ at \in [Proc -> Nat]

OnList ==
  /\ \A p \in Proc : pc[p] \in {"open", "flock"} \cup Building =>
       todo[p] \in Wanted /\ at[p] \in 1..Len(todo[p])
  /\ \A p \in Proc : pc[p] \in {"open", "flock"} => at[p] = 1

Kept ==
  \A p \in Proc :
    /\ pc[p] \in {"compile", "compiling"} => \A i \in 1..(at[p] - 1) : Whole(p, todo[p][i])
    /\ pc[p] = "compiling" => Mine(p, Doing(p))
    /\ pc[p] \in AfterCompile => \A i \in 1..Len(todo[p]) : Whole(p, todo[p][i])

WorkInv == robbed = {} /\ ClaimInv /\ WorkTypes /\ OnList /\ Kept

LEMMA WorkInit == Init => WorkInv
BY ClaimInit DEF Init, WorkInv, WorkTypes, OnList, Kept, Building, AfterCompile, Landing

LEMMA ListType ==
  ASSUME NEW w \in Wanted
  PROVE  /\ w \in Seq(Target) /\ Len(w) \in Nat /\ Len(w) > 0 /\ DOMAIN w = 1..Len(w)
         /\ \A i \in 1..Len(w) : w[i] \in Target
         /\ \A i, j \in 1..Len(w) : w[i] = w[j] => i = j
<1>1. w \in Seq(Target) /\ w # <<>> /\ \A i, j \in DOMAIN w : w[i] = w[j] => i = j
  BY BuildsAssumption
<1> QED
  BY <1>1

\* A step that leaves the lists and what builds have in the stage directories alone, and no
\* build further than it was.
LEMMA WorkQuiet ==
  ASSUME WorkInv, ClaimInv', robbed' = {}, UNCHANGED <<f, todo>>, recipe' \in Nat, flags' \in Nat,
         stage' \in [Target -> Tree \cup {NoFile}],
         \A q \in Proc : pc'[q] \in Building => \A t \in Target : Mine(q, t) => stage'[t] = stage[t],
         at' \in [Proc -> Nat],
         \A q \in Proc : /\ pc'[q] \in {"open", "flock"} => pc[q] \in {"open", "flock"} /\ at'[q] = at[q]
                         /\ pc'[q] \in {"compile", "compiling"} => pc[q] \in {"compile", "compiling"} /\ at'[q] = at[q]
                         /\ pc'[q] = "compiling" => pc[q] = "compiling"
                         /\ pc'[q] \in AfterCompile => pc[q] \in AfterCompile /\ at'[q] \in 1..Len(todo[q])
  PROVE  WorkInv'
<1> USE DEF Building, AfterCompile, Landing
<1>1. WorkTypes'
  BY DEF WorkInv, WorkTypes
<1>2. OnList'
  BY DEF WorkInv, OnList
<1>3. ASSUME NEW q \in Proc, NEW t \in Target, pc'[q] \in Building, Mine(q, t)
      PROVE  Mine(q, t)' /\ stage'[t] = stage[t]
  BY <1>3 DEF Mine
<1>4. ASSUME NEW q \in Proc, pc'[q] \in Building
      PROVE  /\ todo[q] \in Wanted /\ Len(todo[q]) \in Nat /\ at[q] \in 1..Len(todo[q])
             /\ \A i \in 1..Len(todo[q]) : todo[q][i] \in Target
  BY <1>4, ListType DEF WorkInv, OnList
<1>5. Kept'
  <2> SUFFICES ASSUME NEW q \in Proc, pc'[q] \in Building
               PROVE  /\ pc'[q] \in {"compile", "compiling"} => \A i \in 1..(at'[q] - 1) : Whole(q, todo[q][i])'
                      /\ pc'[q] = "compiling" => Mine(q, todo[q][at[q]])'
                      /\ pc'[q] \in AfterCompile => \A i \in 1..Len(todo[q]) : Whole(q, todo[q][i])'
    BY DEF Kept, Doing
  <2>1. ASSUME NEW i \in 1..Len(todo[q]), Whole(q, todo[q][i]) PROVE Whole(q, todo[q][i])'
    BY <1>3, <1>4, <2>1 DEF Whole
  <2>2. CASE pc'[q] \in {"compile", "compiling"}
    <3>1. \A i \in 1..(at[q] - 1) : i \in 1..Len(todo[q]) /\ Whole(q, todo[q][i])
      BY <1>4, <2>2 DEF WorkInv, Kept
    <3>2. pc'[q] = "compiling" => Mine(q, todo[q][at[q]])
      BY <2>2 DEF WorkInv, Kept, Doing
    <3> QED
      BY <1>3, <1>4, <2>1, <2>2, <3>1, <3>2
  <2>3. CASE pc'[q] \in AfterCompile
    BY <2>1, <2>3 DEF WorkInv, Kept
  <2> QED
    BY <2>2, <2>3
<1> QED
  BY <1>1, <1>2, <1>5 DEF WorkInv

\* What a build does once it has its trees: at most it goes on to the next target.
LEMMA EachStep ==
  ASSUME WorkInv, NEW p \in Proc, pc[p] \in AfterCompile, NEW l, NEW m, l \in AfterCompile, m \in AfterCompile,
         Each(p, l, m)
  PROVE  /\ at' \in [Proc -> Nat] /\ at'[p] \in 1..Len(todo[p]) /\ pc'[p] \in AfterCompile
         /\ \A q \in Proc \ {p} : pc'[q] = pc[q] /\ at'[q] = at[q]
<1> USE DEF Building
<1>1. todo[p] \in Wanted /\ at[p] \in 1..Len(todo[p]) /\ at \in [Proc -> Nat] /\ pc \in [Proc -> Steps]
  BY DEF WorkInv, OnList, WorkTypes, ClaimInv, ClaimTypes
<1>2. Len(todo[p]) \in Nat /\ Len(todo[p]) > 0
  BY <1>1, ListType
<1> QED
  BY <1>1, <1>2 DEF Each, Goto

LEMMA WorkStep ==
  ASSUME robbed' = {}, WorkInv, NEW p \in Proc, Step(p) PROVE WorkInv'
<1> USE DEF Building, AfterCompile, Landing
<1>0. ClaimInv'
  BY ClaimStep DEF WorkInv
<1>a. pc \in [Proc -> Steps] /\ stage \in [Target -> Tree \cup {NoFile}] /\ f \in [Proc -> Nat]
      /\ recipe \in Nat /\ flags \in Nat /\ todo \in [Proc -> Wanted \cup {<<>>}] /\ at \in [Proc -> Nat]
  BY DEF WorkInv, WorkTypes, ClaimInv, ClaimTypes
<1>b. ASSUME pc[p] \in Building
      PROVE  /\ \A q \in Proc \ {p} : pc[q] \notin Building
             /\ todo[p] \in Wanted /\ at[p] \in 1..Len(todo[p])
  <2>1. todo[p] \in Wanted /\ at[p] \in 1..Len(todo[p])
    BY <1>b DEF WorkInv, OnList
  <2>2. ASSUME NEW q \in Proc \ {p}, pc[q] \in Building PROVE FALSE
    BY <1>b, <2>2, OneIn DEF WorkInv
  <2> QED
    BY <2>1, <2>2
<1>1. CASE Begin(p)
  <2>1. PICK w \in Wanted : todo' = [todo EXCEPT ![p] = w]
    BY <1>1 DEF Begin
  <2>2. /\ at' = [at EXCEPT ![p] = 1] /\ pc' = [pc EXCEPT ![p] = "open"]
        /\ UNCHANGED <<stage, f, recipe, flags>>
    BY <1>1 DEF Begin, Goto, disk, config
  <2>3. Len(w) \in Nat /\ Len(w) > 0
    BY ListType
  <2>4. WorkTypes' /\ OnList'
    BY <1>a, <2>1, <2>2, <2>3 DEF WorkInv, WorkTypes, OnList
  <2>5. Kept'
    BY <1>a, <2>1, <2>2 DEF WorkInv, Kept, Whole, Mine, Doing
  <2> QED
    BY <1>0, <2>4, <2>5 DEF WorkInv
<1>2. CASE Claim(p)
  <2>1. /\ f' = [f EXCEPT ![p] = flags] /\ pc' = [pc EXCEPT ![p] = "compile"] /\ pc[p] = "flock"
        /\ UNCHANGED <<stage, todo, at, recipe, flags>>
    BY <1>2 DEF Claim, Goto, disk, config
  <2>2. at[p] = 1
    BY <2>1 DEF WorkInv, OnList
  <2>3. WorkTypes' /\ OnList'
    BY <1>a, <2>1 DEF WorkInv, WorkTypes, OnList
  <2>4. Kept'
    BY <1>a, <2>1, <2>2 DEF WorkInv, Kept, Whole, Mine, Doing
  <2> QED
    BY <1>0, <2>3, <2>4 DEF WorkInv
<1>3. CASE Compile(p)
  <2>1. /\ stage' = [stage EXCEPT ![Doing(p)] = [by |-> p, recipe |-> recipe, flags |-> f[p], whole |-> FALSE]]
        /\ pc[p] = "compile" /\ pc' = [pc EXCEPT ![p] = "compiling"] /\ UNCHANGED <<f, todo, at, recipe, flags>>
    BY <1>3 DEF Compile, Runs, Goto, config, built
  <2>2. /\ todo[p] \in Wanted /\ at[p] \in 1..Len(todo[p]) /\ \A q \in Proc \ {p} : pc[q] \notin Building
    BY <1>b, <2>1
  <2>3. Doing(p) \in Target /\ \A i \in 1..(at[p] - 1) : todo[p][i] \in Target /\ todo[p][i] # Doing(p)
    BY <1>a, <2>2, ListType DEF Doing
  <2>4. WorkTypes'
    BY <1>a, <2>1, <2>3 DEF WorkInv, WorkTypes, Tree
  <2>5. OnList'
    BY <1>a, <2>1, <2>2 DEF WorkInv, OnList
  <2>6. \A i \in 1..(at[p] - 1) : stage'[todo[p][i]] = stage[todo[p][i]]
    BY <1>a, <2>1, <2>3
  <2>a. Mine(p, Doing(p))'
    <3>1. stage'[Doing(p)] = [by |-> p, recipe |-> recipe, flags |-> f[p], whole |-> FALSE] /\ Doing(p)' = Doing(p)
      BY <1>a, <2>1, <2>3 DEF Doing
    <3>2. stage'[Doing(p)] \in Tree /\ stage'[Doing(p)].by = p
      BY <1>a, <3>1 DEF Tree
    <3> QED
      BY <3>1, <3>2, BuildsAssumption DEF Mine
  <2>b. \A q \in Proc \ {p} : pc'[q] \notin Building
    BY <1>a, <2>1, <2>2
  <2>7. Kept'
    BY <1>a, <2>1, <2>6, <2>a, <2>b DEF WorkInv, Kept, Whole, Mine
  <2> QED
    BY <1>0, <2>4, <2>5, <2>7 DEF WorkInv
<1>4. CASE Compiled(p)
  <2>1. /\ stage' = [stage EXCEPT ![Doing(p)].whole = TRUE] /\ Mine(p, Doing(p))
        /\ pc[p] = "compiling" /\ Each(p, "compile", "pack") /\ UNCHANGED <<f, todo, recipe, flags>>
    BY <1>4 DEF Compiled, config
  <2>2. /\ todo[p] \in Wanted /\ at[p] \in 1..Len(todo[p]) /\ \A q \in Proc \ {p} : pc[q] \notin Building
    BY <1>b, <2>1
  <2>3. /\ Len(todo[p]) \in Nat /\ Len(todo[p]) > 0 /\ \A i \in 1..Len(todo[p]) : todo[p][i] \in Target
        /\ \A i \in 1..(at[p] - 1) : todo[p][i] # Doing(p)
    BY <1>a, <2>2, ListType DEF Doing
  <2>4. Doing(p) \in Target /\ stage[Doing(p)] \in Tree /\ stage[Doing(p)].by = p
    BY <1>a, <2>1, <2>2, <2>3 DEF Doing, Mine
  <2>5. stage'[Doing(p)] = [stage[Doing(p)] EXCEPT !.whole = TRUE]
    BY <1>a, <2>1, <2>4
  <2>6. stage'[Doing(p)] \in Tree /\ stage'[Doing(p)].by = p /\ stage'[Doing(p)].whole = TRUE
    BY <2>4, <2>5 DEF Tree
  <2>7. stage' \in [Target -> Tree \cup {NoFile}]
    BY <1>a, <2>1, <2>4, <2>6 DEF Tree
  <2>8. \A i \in 1..at[p] : stage'[todo[p][i]] \in Tree /\ stage'[todo[p][i]].by = p /\ stage'[todo[p][i]].whole
    <3>1. SUFFICES ASSUME NEW i \in 1..(at[p] - 1)
                   PROVE  stage'[todo[p][i]] \in Tree /\ stage'[todo[p][i]].by = p /\ stage'[todo[p][i]].whole
      BY <1>a, <2>6 DEF Doing
    <3>2. Whole(p, todo[p][i]) /\ todo[p][i] \in Target
      BY <1>a, <2>1, <2>2, <2>3 DEF WorkInv, Kept
    <3>3. stage'[todo[p][i]] = stage[todo[p][i]]
      BY <1>a, <2>1, <2>3, <3>2
    <3> QED
      BY <1>a, <3>2, <3>3 DEF Whole, Mine
  <2>9. \A i \in 1..at[p] : Whole(p, todo[p][i])'
    BY <2>1, <2>8, BuildsAssumption DEF Whole, Mine
  <2>10. CASE at[p] < Len(todo[p])
    <3>1. at' = [at EXCEPT ![p] = at[p] + 1] /\ pc' = [pc EXCEPT ![p] = "compile"]
      BY <2>1, <2>10 DEF Each, Goto
    <3>2. WorkTypes' /\ OnList'
      BY <1>a, <2>1, <2>2, <2>3, <2>7, <2>10, <3>1 DEF WorkInv, WorkTypes, OnList
    <3>3. at'[p] - 1 = at[p] /\ pc'[p] = "compile" /\ \A q \in Proc \ {p} : pc'[q] \notin Building
      BY <1>a, <2>2, <3>1
    <3>4. Kept'
      BY <2>1, <2>9, <3>3 DEF Kept
    <3> QED
      BY <1>0, <3>2, <3>4 DEF WorkInv
  <2>11. CASE ~(at[p] < Len(todo[p]))
    <3>1. at' = [at EXCEPT ![p] = 1] /\ pc' = [pc EXCEPT ![p] = "pack"] /\ at[p] = Len(todo[p])
      BY <1>a, <2>1, <2>2, <2>3, <2>11 DEF Each, Goto
    <3>2. WorkTypes' /\ OnList'
      BY <1>a, <2>1, <2>2, <2>3, <2>7, <3>1 DEF WorkInv, WorkTypes, OnList
    <3>3. pc'[p] = "pack" /\ \A q \in Proc \ {p} : pc'[q] \notin Building
      BY <1>a, <2>2, <3>1
    <3>4. Kept'
      BY <2>1, <2>9, <3>1, <3>3 DEF Kept
    <3> QED
      BY <1>0, <3>2, <3>4 DEF WorkInv
  <2> QED
    BY <2>10, <2>11
<1>5. CASE Pack(p) \/ Clear(p) \/ (Rename(p) /\ ~Exit(p))
  <2>1. UNCHANGED <<stage, f, todo, at, recipe, flags>> /\ pc[p] \in AfterCompile
        /\ \E l \in AfterCompile : pc' = [pc EXCEPT ![p] = l]
    BY <1>5 DEF Pack, Clear, Rename, Goto, disk, config, built
  <2> QED
    BY <1>0, <1>a, <1>b, <2>1, WorkQuiet
<1>6. CASE Packed(p) \/ Put(p)
  <2>1. UNCHANGED <<stage, f, todo, recipe, flags>> /\ pc[p] \in AfterCompile
        /\ (UNCHANGED <<pc, at>> \/ Each(p, "pack", "rename") \/ Each(p, "rename", "sweep"))
    BY <1>6 DEF Packed, Put, config
  <2>2. todo[p] \in Wanted /\ at[p] \in 1..Len(todo[p])
    BY <1>b, <2>1
  <2>3. /\ at' \in [Proc -> Nat] /\ at'[p] \in 1..Len(todo[p]) /\ pc'[p] \in AfterCompile
        /\ \A q \in Proc \ {p} : pc'[q] = pc[q] /\ at'[q] = at[q]
    BY <1>a, <2>1, <2>2, EachStep
  <2>4. \A q \in Proc \ {p} : pc[q] \notin Building
    BY <1>b, <2>1
  <2>5. \A q \in Proc : 
            /\ pc'[q] \in {"open", "flock"} => pc[q] \in {"open", "flock"} /\ at'[q] = at[q]
            /\ pc'[q] \in {"compile", "compiling"} => pc[q] \in {"compile", "compiling"} /\ at'[q] = at[q]
            /\ pc'[q] \in AfterCompile => pc[q] \in AfterCompile /\ at'[q] \in 1..Len(todo[q])
    BY <2>1, <2>3, <2>4
  <2> QED
    BY <1>0, <1>a, <2>1, <2>3, <2>5, WorkQuiet
<1>7. CASE Sweep(p)
  <2>1. /\ stage' = [t \in Target |-> IF \E i \in DOMAIN todo[p] : todo[p][i] = t THEN NoFile ELSE stage[t]]
        /\ pc[p] = "sweep" /\ pc' = [pc EXCEPT ![p] = "idle"] /\ UNCHANGED <<f, todo, at, recipe, flags>>
    BY <1>7 DEF Sweep, Exit, Goto, config, built
  <2>2. \A q \in Proc : pc'[q] \notin Building
    BY <1>a, <1>b, <2>1
  <2>3. WorkTypes' /\ OnList'
    BY <1>a, <2>1 DEF WorkInv, WorkTypes, OnList
  <2>4. Kept'
    BY <2>2 DEF Kept
  <2> QED
    BY <1>0, <2>3, <2>4 DEF WorkInv
<1>8. CASE Refuse(p) \/ CompileFails(p) \/ PackFails(p) \/ Kill(p) \/ (Rename(p) /\ Exit(p))
  <2>1. UNCHANGED <<stage, f, todo, at, recipe, flags>> /\ pc' = [pc EXCEPT ![p] = "idle"]
    BY <1>8 DEF Refuse, CompileFails, PackFails, Kill, Rename, Exit, Goto, disk, config, built
  <2> QED
    BY <1>0, <1>a, <2>1, WorkQuiet DEF WorkInv, OnList
<1>9. CASE Open(p) \/ Again(p)
  <2>1. UNCHANGED <<stage, f, todo, at, recipe, flags>>
        /\ ((pc[p] = "open" /\ pc' = [pc EXCEPT ![p] = "flock"]) \/ (pc[p] = "compiling" /\ pc' = [pc EXCEPT ![p] = "compile"]))
    BY <1>9 DEF Open, Again, Goto, disk, config, built
  <2> QED
    BY <1>0, <1>a, <2>1, WorkQuiet DEF WorkInv, OnList
<1>10. CASE GcBegin(p) \/ ScanStage(p) \/ DropStage(p) \/ ScanParts(p) \/ DropParts(p)
  <2>1. UNCHANGED <<f, todo, at, recipe, flags>> /\ \E l \in Sweeping \cup {"idle"} : pc' = [pc EXCEPT ![p] = l]
    BY <1>10 DEF GcBegin, ScanStage, DropStage, ScanParts, DropParts, Goto, config, built, Sweeping
  <2>2. /\ stage' \in [Target -> Tree \cup {NoFile}]
        /\ \A q \in Proc : pc'[q] \in Building => \A t \in Target : Mine(q, t) => stage'[t] = stage[t]
    <3>1. CASE DropStage(p)
      <4>1. stage' = [t \in Target |-> IF t \in doomed[p] THEN NoFile ELSE stage[t]] /\ Robs(p) = {}
        BY <3>1 DEF DropStage
      <4>2. ASSUME NEW q \in Proc, pc'[q] \in Building, NEW t \in Target, Mine(q, t) PROVE t \notin doomed[p]
        <5>1. has[q]
          BY <1>a, <2>1, <4>2 DEF WorkInv, ClaimInv, Holder, Sweeping
        <5> QED
          BY <4>1, <4>2, <5>1 DEF Robs
      <4> QED
        BY <1>a, <4>1, <4>2
    <3>2. CASE ~DropStage(p)
      BY <1>10, <1>a, <3>2 DEF GcBegin, ScanStage, ScanParts, DropParts, disk
    <3> QED
      BY <3>1, <3>2
  <2> QED
    BY <1>0, <1>a, <2>1, <2>2, WorkQuiet DEF WorkInv, OnList, Sweeping
<1> QED
  BY <1>1, <1>2, <1>3, <1>4, <1>5, <1>6, <1>7, <1>8, <1>9, <1>10 DEF Step

LEMMA WorkNext == ASSUME robbed' = {}, WorkInv, [Next]_vars PROVE WorkInv'
<1>1. CASE \E p \in Proc : Step(p)
  BY <1>1, WorkStep
<1>2. CASE EditRecipe \/ EditFlags \/ UNCHANGED vars
  <2>1. UNCHANGED <<stage, f, todo, at, pc>> /\ recipe' \in Nat /\ flags' \in Nat
    BY <1>2 DEF EditRecipe, EditFlags, vars, disk, built, config, WorkInv, WorkTypes
  <2>2. ClaimInv'
    BY ClaimNext DEF WorkInv
  <2> QED
    BY <2>1, <2>2, WorkQuiet DEF WorkInv, WorkTypes, OnList, Building
<1> QED
  BY <1>1, <1>2 DEF Next

\* What a build compiled stands until all of it has landed, whatever other builds were
\* started, refused or killed meanwhile, and no target lands before the last was compiled.
THEOREM WhatIsCompiledStands == Spec => []StageStands
<1> DEFINE Work == robbed = {} => WorkInv
<1>1. Work => StageStands
  <2> SUFFICES ASSUME Work, robbed = {}, NEW p \in Proc, pc[p] \in AfterCompile
               PROVE  \A i \in DOMAIN todo[p] : Mine(p, todo[p][i]) /\ stage[todo[p][i]].whole
    BY DEF StageStands
  <2>1. todo[p] \in Wanted
    BY DEF WorkInv, OnList, Building
  <2>2. DOMAIN todo[p] = 1..Len(todo[p])
    BY <2>1, ListType
  <2> QED
    BY <2>2 DEF WorkInv, Kept, Whole
<1>2. Init => Work
  BY WorkInit
<1>3. Work /\ [Next]_vars => Work'
  BY WorkNext, RobbedGrows
<1> QED
  BY <1>1, <1>2, <1>3, PTL DEF Spec
----------------------------------------------------------------------------
(* What lands. Only the build that has the claim writes a .part, so one that
   tar is through with is whole as it is renamed, or gc took it away. *)

Fit(t) == part[t] = NoFile \/ part[t].whole

LandTypes ==
  /\ part \in [Target -> Tree \cup {NoFile}] /\ art \in [Target -> Tree \cup {NoFile}]
  /\ meta = [t \in Target |-> meta[t]] /\ hash \in [Proc -> Nat]

Fits ==
  \A p \in Proc :
    /\ pc[p] \in {"pack", "packing"} => \A i \in 1..Len(todo[p]) : i < at[p] => Fit(todo[p][i])
    /\ pc[p] = "rename" => \A i \in 1..Len(todo[p]) : i >= at[p] => Fit(todo[p][i])
    /\ pc[p] \in Landing => /\ \A i \in 1..Len(todo[p]) : i > at[p] => Fit(todo[p][i])
                            /\ art[Doing(p)] # NoFile

Beside == \A t \in Target : meta[t] # NoFile => art[t] # NoFile

LandInv == WorkInv /\ LandTypes /\ Fits /\ Beside

Lands == \A t \in Target : /\ art'[t] # art[t] => art'[t] # NoFile /\ art'[t].whole
                           /\ meta'[t] # NoFile => art'[t] # NoFile

LEMMA LandInit == Init => LandInv
BY WorkInit DEF Init, LandInv, LandTypes, Fits, Beside, Landing

\* A step that lands nothing, takes .parts away at most and no build further than to pack.
LEMMA LandQuiet ==
  ASSUME LandInv, WorkInv', UNCHANGED <<art, meta>>, part' \in [Target -> Tree \cup {NoFile}],
         hash' \in [Proc -> Nat],
         \A t \in Target : part'[t] = part[t] \/ part'[t] = NoFile,
         \A q \in Proc : pc'[q] \in AfterCompile =>
            \/ pc'[q] = pc[q] /\ at'[q] = at[q] /\ todo'[q] = todo[q]
            \/ pc'[q] = "pack" /\ at'[q] = 1
  PROVE  LandInv' /\ Lands
<1>1. LandTypes' /\ Beside' /\ Lands
  BY DEF LandInv, LandTypes, Beside, Lands
<1>2. ASSUME NEW q \in Proc, pc'[q] \in AfterCompile
      PROVE  /\ todo'[q] \in Wanted /\ Len(todo'[q]) \in Nat /\ \A i \in 1..Len(todo'[q]) : todo'[q][i] \in Target
  BY <1>2, ListType DEF WorkInv, OnList, Building
<1>3. \A t \in Target : Fit(t) => Fit(t)'
  BY DEF Fit
<1>4. Fits'
  <2> SUFFICES ASSUME NEW q \in Proc, pc'[q] \in AfterCompile
               PROVE  /\ pc'[q] \in {"pack", "packing"} => \A i \in 1..Len(todo'[q]) : i < at'[q] => Fit(todo[q][i])'
                      /\ pc'[q] = "rename" => \A i \in 1..Len(todo'[q]) : i >= at'[q] => Fit(todo[q][i])'
                      /\ pc'[q] \in Landing => /\ \A i \in 1..Len(todo'[q]) : i > at'[q] => Fit(todo[q][i])'
                                               /\ art'[Doing(q)'] # NoFile
    BY DEF Fits, AfterCompile, Landing
  <2>1. CASE pc'[q] = pc[q] /\ at'[q] = at[q] /\ todo'[q] = todo[q]
    BY <1>2, <1>3, <2>1 DEF LandInv, Fits, Doing
  <2>2. CASE pc'[q] = "pack" /\ at'[q] = 1
    BY <1>2, <2>2 DEF Landing
  <2> QED
    BY <2>1, <2>2
<1> QED
  BY <1>1, <1>4 DEF LandInv

LEMMA LandStep ==
  ASSUME robbed' = {}, LandInv, NEW p \in Proc, Step(p) PROVE LandInv' /\ Lands
<1> USE DEF Building, AfterCompile, Landing
<1>0. WorkInv'
  BY WorkStep DEF LandInv
<1>a. /\ pc \in [Proc -> Steps] /\ at \in [Proc -> Nat] /\ todo \in [Proc -> Wanted \cup {<<>>}]
      /\ stage \in [Target -> Tree \cup {NoFile}]
      /\ part \in [Target -> Tree \cup {NoFile}] /\ art \in [Target -> Tree \cup {NoFile}]
      /\ meta = [t \in Target |-> meta[t]]
      /\ hash \in [Proc -> Nat] /\ f \in [Proc -> Nat] /\ recipe \in Nat
  BY DEF LandInv, LandTypes, WorkInv, WorkTypes, ClaimInv, ClaimTypes
<1>b. ASSUME pc[p] \in AfterCompile
      PROVE  /\ \A q \in Proc \ {p} : pc[q] \notin AfterCompile
             /\ todo[p] \in Wanted /\ at[p] \in 1..Len(todo[p]) /\ Len(todo[p]) \in Nat
             /\ \A i \in 1..Len(todo[p]) : todo[p][i] \in Target
             /\ \A i \in 1..Len(todo[p]) : i # at[p] => todo[p][i] # Doing(p)
             /\ Doing(p) \in Target
  <2>1. /\ \A q \in Proc \ {p} : pc[q] \notin AfterCompile
        /\ todo[p] \in Wanted /\ at[p] \in 1..Len(todo[p])
    <3>1. ASSUME NEW q \in Proc \ {p}, pc[q] \in AfterCompile PROVE FALSE
      BY <1>b, <3>1, OneIn DEF LandInv, WorkInv
    <3> QED
      BY <1>b, <3>1 DEF LandInv, WorkInv, OnList
  <2> QED
    BY <2>1, ListType DEF Doing
<1>1. CASE Begin(p) \/ Open(p) \/ Refuse(p) \/ Claim(p) \/ Compile(p) \/ Again(p) \/ CompileFails(p) \/ PackFails(p)
           \/ Sweep(p) \/ Kill(p) \/ GcBegin(p) \/ ScanStage(p) \/ DropStage(p) \/ ScanParts(p)
           \/ (Rename(p) /\ part[Doing(p)] = NoFile)
  <2>1. UNCHANGED <<part, art, meta>>
    BY <1>1 DEF Begin, Open, Refuse, Claim, Compile, Again, CompileFails, PackFails, Sweep, Kill, GcBegin, ScanStage,
         DropStage, ScanParts, Rename, disk
  <2>2. \E l \in Steps \ AfterCompile : Goto(p, l)
    BY <1>1 DEF Begin, Open, Refuse, Claim, Compile, Again, CompileFails, PackFails, Sweep, Kill, GcBegin, ScanStage,
         DropStage, ScanParts, Rename, Exit, Steps, Sweeping
  <2>3. \A q \in Proc \ {p} : at'[q] = at[q] /\ todo'[q] = todo[q]
    <3>1. CASE Begin(p)
      BY <1>a, <3>1 DEF Begin
    <3>2. CASE ~Begin(p)
      BY <1>1, <3>2 DEF Open, Refuse, Claim, Compile, Again, CompileFails, PackFails, Sweep, Kill, GcBegin, ScanStage,
         DropStage, ScanParts, Rename, built
    <3> QED
      BY <3>1, <3>2
  <2>4. \A q \in Proc : pc'[q] \in AfterCompile => pc'[q] = pc[q] /\ at'[q] = at[q] /\ todo'[q] = todo[q]
    BY <1>a, <2>2, <2>3 DEF Goto
  <2>5. hash' \in [Proc -> Nat]
    <3>1. CASE Claim(p)
      BY <1>a, <3>1 DEF Claim
    <3>2. CASE ~Claim(p)
      BY <1>1, <1>a, <3>2 DEF Begin, Open, Refuse, Compile, Again, CompileFails, PackFails, Sweep, Kill, GcBegin, ScanStage,
         DropStage, ScanParts, Rename, built
    <3> QED
      BY <3>1, <3>2
  <2> QED
    BY <1>0, <1>a, <2>1, <2>4, <2>5, LandQuiet
<1>2. CASE Compiled(p)
  <2>1. UNCHANGED <<part, art, meta, todo, hash>> /\ Each(p, "compile", "pack") /\ pc[p] = "compiling"
    BY <1>2 DEF Compiled
  <2>2. /\ pc'[p] = "compile" \/ (pc'[p] = "pack" /\ at'[p] = 1)
        /\ \A q \in Proc \ {p} : pc'[q] = pc[q] /\ at'[q] = at[q]
    BY <1>a, <2>1 DEF Each, Goto
  <2> QED
    BY <1>0, <1>a, <2>1, <2>2, LandQuiet
<1>3. CASE DropParts(p)
  <2>1. /\ part' = [t \in Target |-> IF t \in doomed[p] THEN NoFile ELSE part[t]]
        /\ UNCHANGED <<art, meta, todo, at, hash>> /\ Goto(p, "idle")
    BY <1>3 DEF DropParts, built
  <2>2. \A q \in Proc : pc'[q] \in AfterCompile => pc'[q] = pc[q]
    BY <1>a, <2>1 DEF Goto
  <2> QED
    BY <1>0, <1>a, <2>1, <2>2, LandQuiet
\* what one of the build's own steps has to come to
<1>4. ASSUME pc[p] \in AfterCompile, UNCHANGED todo, LandTypes', Beside', Lands,
             \A q \in Proc \ {p} : pc'[q] = pc[q],
             pc'[p] \in {"pack", "packing"} => \A i \in 1..Len(todo[p]) : i < at'[p] => Fit(todo[p][i])',
             pc'[p] = "rename" => \A i \in 1..Len(todo[p]) : i >= at'[p] => Fit(todo[p][i])',
             pc'[p] \in Landing => /\ \A i \in 1..Len(todo[p]) : i > at'[p] => Fit(todo[p][i])'
                                   /\ art'[todo[p][at'[p]]] # NoFile
      PROVE  LandInv' /\ Lands
  <2>1. \A q \in Proc \ {p} : pc'[q] \notin AfterCompile
    BY <1>b, <1>4
  <2>2. Fits'
    BY <1>4, <2>1 DEF Fits, Doing
  <2> QED
    BY <1>0, <1>4, <2>2 DEF LandInv
<1>5. CASE Pack(p)
  <2>1. /\ part' = [part EXCEPT ![Doing(p)] = Partial(p)] /\ UNCHANGED <<art, meta, todo, at, hash>>
        /\ pc[p] = "pack" /\ pc' = [pc EXCEPT ![p] = "packing"]
    BY <1>5 DEF Pack, Goto, built
  <2>2. Partial(p) \in Tree
    BY <1>a DEF Partial, Tree
  <2>3. /\ Doing(p) \in Target
        /\ \A i \in 1..Len(todo[p]) : todo[p][i] \in Target /\ (i # at[p] => todo[p][i] # Doing(p))
    BY <1>b, <2>1
  <2>4. LandTypes' /\ Beside' /\ Lands
    BY <1>a, <2>1, <2>2, <2>3 DEF LandInv, LandTypes, Beside, Lands
  <2>5. \A i \in 1..Len(todo[p]) : i < at[p] => Fit(todo[p][i])'
    <3>1. \A i \in 1..Len(todo[p]) : i < at[p] => i # at[p]
      BY <1>a
    <3>2. \A i \in 1..Len(todo[p]) : i < at[p] => Fit(todo[p][i]) /\ part'[todo[p][i]] = part[todo[p][i]]
      BY <1>a, <2>1, <2>3, <3>1 DEF LandInv, Fits
    <3> QED
      BY <2>1, <3>2 DEF Fit
  <2>6. pc'[p] = "packing" /\ at'[p] = at[p] /\ \A q \in Proc \ {p} : pc'[q] = pc[q]
    BY <1>a, <2>1
  <2> QED
    BY <1>4, <2>1, <2>4, <2>5, <2>6
<1>6. CASE Packed(p)
  <2>1. /\ part' = [part EXCEPT ![Doing(p)] =
                      IF @ = NoFile THEN @ ELSE [stage[Doing(p)] EXCEPT !.whole = @ /\ Mine(p, Doing(p))]]
        /\ UNCHANGED <<art, meta, todo, hash>> /\ pc[p] = "packing" /\ Each(p, "pack", "rename")
    BY <1>6 DEF Packed
  <2>2. /\ Doing(p) \in Target /\ at[p] \in 1..Len(todo[p]) /\ Len(todo[p]) \in Nat
        /\ \A i \in 1..Len(todo[p]) : todo[p][i] \in Target /\ (i # at[p] => todo[p][i] # Doing(p))
    BY <1>b, <2>1
  <2>3. Mine(p, Doing(p)) /\ stage[Doing(p)] \in Tree /\ stage[Doing(p)].whole
    <3>1. Whole(p, Doing(p))
      BY <2>1, <2>2 DEF LandInv, WorkInv, Kept, Doing
    <3> QED
      BY <1>a, <2>2, <3>1 DEF Whole, Mine
  <2>4. /\ part'[Doing(p)] = NoFile \/ (part'[Doing(p)] \in Tree /\ part'[Doing(p)].whole)
        /\ \A t \in Target \ {Doing(p)} : part'[t] = part[t]
        /\ part' \in [Target -> Tree \cup {NoFile}]
    <3> DEFINE W == [stage[Doing(p)] EXCEPT !.whole = @ /\ Mine(p, Doing(p))]
    <3>1. W \in Tree /\ W.whole
      BY <2>3 DEF Tree
    <3>2. part' = [part EXCEPT ![Doing(p)] = IF part[Doing(p)] = NoFile THEN NoFile ELSE W]
      BY <2>1
    <3> HIDE DEF W
    <3> QED
      BY <1>a, <2>2, <3>1, <3>2
  <2>5. LandTypes' /\ Beside' /\ Lands
    BY <1>a, <2>1, <2>4 DEF LandInv, LandTypes, Beside, Lands
  <2>6. \A i \in 1..Len(todo[p]) : i <= at[p] => Fit(todo[p][i])'
    <3> SUFFICES ASSUME NEW i \in 1..Len(todo[p]), i <= at[p] PROVE Fit(todo[p][i])'
      OBVIOUS
    <3>1. CASE i = at[p]
      BY <2>1, <2>4, <3>1 DEF Fit, Doing
    <3>2. CASE i < at[p]
      <4>1. Fit(todo[p][i]) /\ todo[p][i] \in Target \ {Doing(p)}
        BY <2>1, <2>2, <3>2 DEF LandInv, Fits
      <4> QED
        BY <2>1, <2>4, <4>1 DEF Fit
    <3> QED
      BY <2>2, <3>1, <3>2
  <2>7. CASE at[p] < Len(todo[p])
    <3>1. pc'[p] = "pack" /\ at'[p] = at[p] + 1 /\ \A q \in Proc \ {p} : pc'[q] = pc[q]
      BY <1>a, <2>1, <2>7 DEF Each, Goto
    <3>2. \A i \in 1..Len(todo[p]) : i < at'[p] => Fit(todo[p][i])'
      BY <2>2, <2>6, <3>1
    <3> QED
      BY <1>4, <2>1, <2>5, <3>1, <3>2
  <2>8. CASE ~(at[p] < Len(todo[p]))
    <3>1. pc'[p] = "rename" /\ at'[p] = 1 /\ \A q \in Proc \ {p} : pc'[q] = pc[q]
      BY <1>a, <2>1, <2>8 DEF Each, Goto
    <3>2. \A i \in 1..Len(todo[p]) : i >= at'[p] => Fit(todo[p][i])'
      BY <2>2, <2>6, <2>8
    <3> QED
      BY <1>4, <2>1, <2>5, <3>1, <3>2
  <2> QED
    BY <2>7, <2>8
<1>7. CASE Rename(p) /\ part[Doing(p)] # NoFile
  <2>1. /\ art' = [art EXCEPT ![Doing(p)] = part[Doing(p)]] /\ part' = [part EXCEPT ![Doing(p)] = NoFile]
        /\ UNCHANGED <<meta, todo, at, hash>> /\ pc[p] = "rename" /\ pc' = [pc EXCEPT ![p] = "clear"]
        /\ part[Doing(p)] # NoFile
    BY <1>7 DEF Rename, Goto, built
  <2>2. /\ Doing(p) \in Target /\ at[p] \in 1..Len(todo[p]) /\ Len(todo[p]) \in Nat
        /\ \A i \in 1..Len(todo[p]) : todo[p][i] \in Target /\ (i # at[p] => todo[p][i] # Doing(p))
    BY <1>b, <2>1
  <2>3. part[Doing(p)] \in Tree /\ part[Doing(p)].whole
    <3>1. Fit(Doing(p))
      BY <2>1, <2>2 DEF LandInv, Fits, Doing
    <3> QED
      BY <1>a, <2>1, <2>2, <3>1 DEF Fit
  <2>4. art'[Doing(p)] # NoFile /\ \A t \in Target \ {Doing(p)} : art'[t] = art[t] /\ part'[t] = part[t]
    BY <1>a, <2>1, <2>2
  <2>5. LandTypes' /\ Beside' /\ Lands
    BY <1>a, <2>1, <2>2, <2>3, <2>4 DEF LandInv, LandTypes, Beside, Lands
  <2>6. \A i \in 1..Len(todo[p]) : i > at[p] => Fit(todo[p][i])'
    <3> SUFFICES ASSUME NEW i \in 1..Len(todo[p]), i > at[p] PROVE Fit(todo[p][i])'
      OBVIOUS
    <3>1. Fit(todo[p][i])
      BY <2>1, <2>2 DEF LandInv, Fits
    <3>2. todo[p][i] \in Target \ {Doing(p)}
      BY <2>2
    <3> QED
      BY <2>1, <2>4, <3>1, <3>2 DEF Fit
  <2>7. pc'[p] = "clear" /\ at'[p] = at[p] /\ \A q \in Proc \ {p} : pc'[q] = pc[q]
    BY <1>a, <2>1
  <2> QED
    BY <1>4, <2>1, <2>4, <2>5, <2>6, <2>7 DEF Doing
<1>8. CASE Clear(p) \/ (Put(p) /\ UNCHANGED <<pc, at>>)
  <2>1. /\ \E v : meta' = [meta EXCEPT ![Doing(p)] = v]
        /\ UNCHANGED <<part, art, todo, at, hash>> /\ pc[p] \in Landing
        /\ \E l \in Landing : pc' = [pc EXCEPT ![p] = l]
    <3>1. CASE Clear(p)
      BY <3>1 DEF Clear, Goto, built
    <3>2. CASE Put(p) /\ UNCHANGED <<pc, at>>
      <4>1. pc' = [pc EXCEPT ![p] = "put"]
        BY <1>a, <3>2 DEF Put
      <4> QED
        BY <3>2, <4>1 DEF Put
    <3> QED
      BY <1>8, <3>1, <3>2
  <2>2. /\ Doing(p) \in Target /\ art[Doing(p)] # NoFile
        /\ \A i \in 1..Len(todo[p]) : i > at[p] => Fit(todo[p][i])
    BY <1>b, <2>1 DEF LandInv, Fits
  <2>3. LandTypes' /\ Beside' /\ Lands
    BY <1>a, <2>1, <2>2 DEF LandInv, LandTypes, Beside, Lands
  <2>4. /\ \A i \in 1..Len(todo[p]) : i > at'[p] => Fit(todo[p][i])'
        /\ art'[todo[p][at'[p]]] # NoFile
    BY <2>1, <2>2 DEF Fit, Doing
  <2>5. pc'[p] \in Landing /\ \A q \in Proc \ {p} : pc'[q] = pc[q]
    BY <1>a, <2>1
  <2> QED
    BY <1>4, <2>1, <2>3, <2>4, <2>5
<1>9. CASE Put(p) /\ Each(p, "rename", "sweep")
  <2>1. /\ \E v : meta' = [meta EXCEPT ![Doing(p)] = v]
        /\ UNCHANGED <<part, art, todo, hash>> /\ pc[p] = "put" /\ Each(p, "rename", "sweep")
    BY <1>9 DEF Put
  <2>2. /\ Doing(p) \in Target /\ art[Doing(p)] # NoFile /\ at[p] \in 1..Len(todo[p]) /\ Len(todo[p]) \in Nat
        /\ \A i \in 1..Len(todo[p]) : i > at[p] => Fit(todo[p][i])
    BY <1>b, <2>1 DEF LandInv, Fits
  <2>3. LandTypes' /\ Beside' /\ Lands
    BY <1>a, <2>1, <2>2 DEF LandInv, LandTypes, Beside, Lands
  <2>4. /\ pc'[p] = "sweep" \/ (pc'[p] = "rename" /\ at'[p] = at[p] + 1)
        /\ \A q \in Proc \ {p} : pc'[q] = pc[q]
    BY <1>a, <2>1 DEF Each, Goto
  <2>5. \A i \in 1..Len(todo[p]) : i >= at[p] + 1 => Fit(todo[p][i])'
    BY <2>1, <2>2 DEF Fit
  <2> QED
    BY <1>4, <2>1, <2>3, <2>4, <2>5
<1>10. Put(p) => UNCHANGED <<pc, at>> \/ Each(p, "rename", "sweep")
  BY DEF Put
<1> QED
  BY <1>1, <1>2, <1>3, <1>5, <1>6, <1>7, <1>8, <1>9, <1>10 DEF Step

LEMMA LandNext == ASSUME robbed' = {}, LandInv, [Next]_vars PROVE LandInv' /\ Lands
<1>1. CASE \E p \in Proc : Step(p)
  BY <1>1, LandStep
<1>2. CASE EditRecipe \/ EditFlags \/ UNCHANGED vars
  <2>1. UNCHANGED <<part, art, meta, hash, todo, at, pc>>
    BY <1>2 DEF EditRecipe, EditFlags, vars, disk, built
  <2>2. WorkInv'
    BY WorkNext DEF LandInv
  <2> QED
    BY <2>1, <2>2, LandQuiet DEF LandInv, LandTypes
<1> QED
  BY <1>1, <1>2 DEF Next

\* An artifact is only ever replaced by a whole one and no sidecar stands beside none, through
\* builds that fail, are killed or meet a gc that robs none, for any targets (pack, build).
THEOREM ArtifactsLandWhole == Spec => LandsWhole
<1> DEFINE Land == robbed = {} => LandInv
<1>1. Init => Land
  BY LandInit
<1>2. Land /\ [Next]_vars => Land'
  BY LandNext, RobbedGrows
<1>3. Land /\ [Next]_vars =>
        [robbed' = {} => \A t \in Target : /\ art'[t] # art[t] => art'[t] # NoFile /\ art'[t].whole
                                           /\ meta'[t] # NoFile => art'[t] # NoFile]_vars
  BY LandNext, RobbedGrows DEF Lands
<1> QED
  BY <1>1, <1>2, <1>3, PTL DEF Spec, LandsWhole
----------------------------------------------------------------------------
(* Types, with no assumption on gc: a stage or a lock that goes from under a
   build is one of the cases. *)

ClaimTyped ==
  /\ files \in Nat /\ lock \in (1..files) \cup {NoFile}
  /\ fd \in [Proc -> (1..files) \cup {NoFile}] /\ has \in [Proc -> BOOLEAN]
  /\ doomed \in [Proc -> SUBSET (Target \cup {"lock"})] /\ aged \subseteq Target \cup {"lock"}
  /\ robbed \subseteq Target \cup 1..files /\ runs \in Nat /\ kills \in Nat
TreesTyped ==
  /\ stage \in [Target -> Tree \cup {NoFile}]
  /\ part \in [Target -> Tree \cup {NoFile}] /\ art \in [Target -> Tree \cup {NoFile}]
Sidecar(m) == \E S \in SUBSET Names : m \in [S -> Nat]
MetaTyped ==
  /\ meta = [t \in Target |-> meta[t]] /\ \A t \in Target : meta[t] = NoFile \/ Sidecar(meta[t])
  /\ \A p \in Proc : pc[p] = "put" => Sidecar(meta[Doing(p)])
RunTyped ==
  /\ recipe \in Nat /\ flags \in Nat /\ hash \in [Proc -> Nat] /\ f \in [Proc -> Nat]
  /\ pc \in [Proc -> Steps] /\ todo \in [Proc -> Wanted \cup {<<>>}] /\ at \in [Proc -> Nat]
  /\ \A p \in Proc : pc[p] \in {"open", "flock"} \cup Building => todo[p] \in Wanted /\ at[p] \in 1..Len(todo[p])
FieldTyped == field \in [Proc -> 0..5] /\ \A p \in Proc : pc[p] = "put" => field[p] < 5

TypeInv == ClaimTyped /\ TreesTyped /\ MetaTyped /\ RunTyped /\ FieldTyped

LEMMA FiveFields == Len(Fields) = 5 /\ DOMAIN Fields = 1..5
BY DEF Fields

LEMMA TypeInit == Init => TypeInv
BY BuildsAssumption DEF Init, TypeInv, ClaimTyped, TreesTyped, MetaTyped, Sidecar, RunTyped, FieldTyped, Steps, Sweeping,
   Building, AfterCompile, Landing

LEMMA DoingTyped ==
  ASSUME TypeInv, NEW p \in Proc, pc[p] \in Building
  PROVE  /\ todo[p] \in Wanted /\ at[p] \in 1..Len(todo[p]) /\ Len(todo[p]) \in Nat /\ Len(todo[p]) > 0
         /\ Doing(p) \in Target
BY ListType DEF TypeInv, RunTyped, Doing

LEMMA RunStep == ASSUME TypeInv, NEW p \in Proc, Step(p) PROVE RunTyped'
<1> USE DEF Building, AfterCompile, Landing
<1>a. /\ pc \in [Proc -> Steps] /\ at \in [Proc -> Nat] /\ todo \in [Proc -> Wanted \cup {<<>>}] /\ recipe \in Nat
      /\ flags \in Nat /\ hash \in [Proc -> Nat] /\ f \in [Proc -> Nat]
  BY DEF TypeInv, RunTyped
<1>1. CASE Begin(p)
  <2>1. PICK w \in Wanted : todo' = [todo EXCEPT ![p] = w]
    BY <1>1 DEF Begin
  <2>2. at' = [at EXCEPT ![p] = 1] /\ pc' = [pc EXCEPT ![p] = "open"] /\ UNCHANGED <<recipe, flags, hash, f>>
    BY <1>1 DEF Begin, Goto, config
  <2>3. Len(w) \in Nat /\ Len(w) > 0
    BY ListType
  <2> QED
    BY <1>a, <2>1, <2>2, <2>3 DEF TypeInv, RunTyped, Steps
<1>2. CASE Claim(p)
  <2>1. /\ hash' = [hash EXCEPT ![p] = recipe] /\ f' = [f EXCEPT ![p] = flags] /\ pc[p] = "flock"
        /\ pc' = [pc EXCEPT ![p] = "compile"] /\ UNCHANGED <<todo, at, recipe, flags>>
    BY <1>2 DEF Claim, Goto, config
  <2> QED
    BY <1>a, <2>1 DEF TypeInv, RunTyped, Steps
<1>3. ASSUME UNCHANGED <<todo, recipe, flags, hash, f>>, pc[p] \in Building, NEW l \in Building, NEW m \in Building,
             Each(p, l, m)
      PROVE  RunTyped'
  <2>1. Len(todo[p]) \in Nat /\ Len(todo[p]) > 0 /\ at[p] \in 1..Len(todo[p]) /\ todo[p] \in Wanted
    BY <1>3, DoingTyped
  <2>2. at'[p] \in 1..Len(todo[p]) /\ at' \in [Proc -> Nat] /\ pc' \in [Proc -> Steps]
    <3>1. CASE at[p] < Len(todo[p])
      <4>1. at' = [at EXCEPT ![p] = at[p] + 1] /\ pc' = [pc EXCEPT ![p] = l]
        BY <1>3, <3>1 DEF Each, Goto
      <4>2. at[p] + 1 \in 1..Len(todo[p])
        BY <2>1, <3>1
      <4> QED
        BY <1>a, <1>3, <4>1, <4>2 DEF Steps
    <3>2. CASE ~(at[p] < Len(todo[p]))
      <4>1. at' = [at EXCEPT ![p] = 1] /\ pc' = [pc EXCEPT ![p] = m]
        BY <1>3, <3>2 DEF Each, Goto
      <4> QED
        BY <1>a, <1>3, <2>1, <4>1 DEF Steps
    <3> QED
      BY <3>1, <3>2
  <2>3. \A q \in Proc \ {p} : at'[q] = at[q] /\ pc'[q] = pc[q]
    BY <1>a, <1>3 DEF Each, Goto
  <2> QED
    BY <1>3, <2>1, <2>2, <2>3 DEF TypeInv, RunTyped
<1>4. CASE Compiled(p) \/ Packed(p)
  BY <1>3, <1>4 DEF Compiled, Packed, config
<1>5. CASE Put(p) /\ Each(p, "rename", "sweep")
  BY <1>3, <1>5 DEF Put, config
<1>6. ASSUME UNCHANGED <<todo, at, recipe, flags, hash, f>>, NEW l \in Steps, pc' = [pc EXCEPT ![p] = l],
             l \in {"open", "flock"} \cup Building => pc[p] \in {"open", "flock"} \cup Building
      PROVE  RunTyped'
  BY <1>a, <1>6 DEF TypeInv, RunTyped
<1>7. CASE Open(p) \/ Compile(p) \/ Again(p) \/ Pack(p) \/ Clear(p)
  BY <1>6, <1>7 DEF Open, Compile, Again, Pack, Clear, Goto, config, built, Steps
<1>8. CASE Refuse(p) \/ CompileFails(p) \/ PackFails(p) \/ Sweep(p) \/ Kill(p)
  BY <1>6, <1>8 DEF Refuse, CompileFails, PackFails, Sweep, Kill, Exit, Goto, config, built, Steps
<1>9. CASE Rename(p)
  BY <1>6, <1>9 DEF Rename, Exit, Goto, config, built, Steps
<1>10. CASE GcBegin(p) \/ ScanStage(p) \/ DropStage(p) \/ ScanParts(p) \/ DropParts(p)
  BY <1>6, <1>10 DEF GcBegin, ScanStage, DropStage, ScanParts, DropParts, Goto, config, built, Steps, Sweeping
<1>11. CASE Put(p) /\ UNCHANGED <<pc, at>>
  BY <1>11 DEF Put, config, TypeInv, RunTyped
<1>12. Put(p) => UNCHANGED <<pc, at>> \/ Each(p, "rename", "sweep")
  BY DEF Put
<1> QED
  BY <1>1, <1>2, <1>4, <1>5, <1>7, <1>8, <1>9, <1>10, <1>11, <1>12 DEF Step

LEMMA TreesStep == ASSUME TypeInv, NEW p \in Proc, Step(p) PROVE TreesTyped'
<1> USE DEF Building, AfterCompile, Landing
<1>a. /\ stage \in [Target -> Tree \cup {NoFile}]
      /\ part \in [Target -> Tree \cup {NoFile}] /\ art \in [Target -> Tree \cup {NoFile}]
      /\ recipe \in Nat /\ hash[p] \in Nat /\ f[p] \in Nat
  BY DEF TypeInv, TreesTyped, RunTyped
<1>b. Runs(p) \in Tree /\ Partial(p) \in Tree
  BY <1>a DEF Runs, Partial, Tree
<1>1. CASE Compile(p)
  BY <1>1, <1>a, <1>b, DoingTyped DEF Compile, TreesTyped
<1>2. CASE Compiled(p)
  <2>1. /\ stage' = [stage EXCEPT ![Doing(p)].whole = TRUE] /\ UNCHANGED <<part, art>>
        /\ Doing(p) \in Target /\ stage[Doing(p)] \in Tree
    BY <1>2, <1>a, DoingTyped DEF Compiled, Mine
  <2>2. [stage[Doing(p)] EXCEPT !.whole = TRUE] \in Tree
    BY <2>1 DEF Tree
  <2> QED
    BY <1>a, <2>1, <2>2 DEF TreesTyped
<1>3. CASE Pack(p)
  BY <1>3, <1>a, <1>b, DoingTyped DEF Pack, TreesTyped
<1>4. CASE Packed(p)
  <2> DEFINE W == [stage[Doing(p)] EXCEPT !.whole = @ /\ Mine(p, Doing(p))]
  <2>1. /\ part' = [part EXCEPT ![Doing(p)] = IF part[Doing(p)] = NoFile THEN NoFile ELSE W] /\ UNCHANGED <<stage, art>>
        /\ Doing(p) \in Target /\ stage[Doing(p)] \in Tree
    BY <1>4, <1>a, DoingTyped DEF Packed
  <2>2. W \in Tree
    <3>1. (stage[Doing(p)].whole /\ Mine(p, Doing(p))) \in BOOLEAN
      OBVIOUS
    <3> QED
      BY <2>1, <3>1 DEF Tree
  <2> HIDE DEF W
  <2> QED
    BY <1>a, <2>1, <2>2 DEF TreesTyped
<1>5. CASE Rename(p)
  BY <1>5, <1>a, DoingTyped DEF Rename, TreesTyped, disk
<1>6. CASE Sweep(p) \/ DropStage(p) \/ DropParts(p)
  BY <1>6, <1>a DEF Sweep, DropStage, DropParts, TreesTyped
<1>7. CASE Begin(p) \/ Open(p) \/ Refuse(p) \/ Claim(p) \/ Again(p) \/ CompileFails(p) \/ PackFails(p) \/ Clear(p)
           \/ Put(p) \/ GcBegin(p) \/ ScanStage(p) \/ ScanParts(p) \/ Kill(p)
  BY <1>7, <1>a DEF Begin, Open, Refuse, Claim, Again, CompileFails, PackFails, Clear, Put, GcBegin, ScanStage, ScanParts,
     Kill, TreesTyped, disk
<1> QED
  BY <1>1, <1>2, <1>3, <1>4, <1>5, <1>6, <1>7 DEF Step

\* a sidecar with a file more
LEMMA WrittenTyped ==
  ASSUME NEW m, Sidecar(m), NEW x \in Names, NEW v \in Nat PROVE Sidecar(Written(m, x, v))
<1>1. PICK S \in SUBSET Names : m \in [S -> Nat]
  BY DEF Sidecar
<1>2. Written(m, x, v) \in [S \cup {x} -> Nat]
  BY <1>1 DEF Written
<1>3. S \cup {x} \in SUBSET Names
  OBVIOUS
<1> QED
  BY <1>2, <1>3 DEF Sidecar

LEMMA MetaStep == ASSUME TypeInv, NEW p \in Proc, Step(p) PROVE MetaTyped'
<1> USE DEF Building, AfterCompile, Landing
<1>a. pc \in [Proc -> Steps] /\ MetaTyped
  BY DEF TypeInv, RunTyped
<1>1. ASSUME NEW v, Sidecar(v), pc[p] \in Building, meta' = [meta EXCEPT ![Doing(p)] = v], UNCHANGED todo,
             \A q \in Proc \ {p} : pc'[q] = pc[q] /\ at'[q] = at[q],
             pc'[p] = "put" => at'[p] = at[p]
      PROVE  MetaTyped'
  <2>1. Doing(p) \in Target
    BY <1>1, DoingTyped
  <2>2. \A t \in Target : meta'[t] = IF t = Doing(p) THEN v ELSE meta[t]
    BY <1>1, <1>a DEF MetaTyped
  <2>3. meta' = [t \in Target |-> meta'[t]]
    BY <1>1, <1>a DEF MetaTyped
  <2>4. ASSUME NEW q \in Proc, pc'[q] = "put" PROVE Sidecar(meta'[todo[q][at'[q]]])
    <3>1. CASE q = p
      BY <1>1, <2>1, <2>2, <2>4, <3>1 DEF Doing
    <3>2. CASE q # p
      <4>1. pc[q] = "put" /\ at'[q] = at[q] /\ Doing(q) \in Target
        BY <1>1, <2>4, <3>2, DoingTyped
      <4> QED
        BY <1>1, <1>a, <2>2, <4>1 DEF MetaTyped, Doing
    <3> QED
      BY <3>1, <3>2
  <2> QED
    BY <1>1, <1>a, <2>2, <2>3, <2>4 DEF MetaTyped, Sidecar, Doing
<1>2. CASE Clear(p)
  <2> DEFINE E == [x \in {} |-> 0]
  <2>1. Sidecar(E)
    <3>1. E \in [{} -> Nat] /\ {} \in SUBSET Names
      OBVIOUS
    <3> QED
      BY <3>1 DEF Sidecar
  <2>2. /\ meta' = [meta EXCEPT ![Doing(p)] = E] /\ pc[p] = "clear" /\ UNCHANGED <<todo, at>>
        /\ \A q \in Proc \ {p} : pc'[q] = pc[q]
    BY <1>2, <1>a DEF Clear, Goto, built
  <2> HIDE DEF E
  <2> QED
    BY <1>1, <2>1, <2>2
<1>3. CASE Put(p)
  <2> DEFINE x == Fields[field[p] + 1]
             V == Written(meta[Doing(p)], x, Says(p)[x])
  <2>1. /\ meta' = [meta EXCEPT ![Doing(p)] = V] /\ pc[p] = "put" /\ UNCHANGED todo
        /\ UNCHANGED <<pc, at>> \/ Each(p, "rename", "sweep")
        /\ Doing(p) \in Target
    BY <1>3, <1>a, DoingTyped DEF Put, MetaTyped
  <2>2. field[p] + 1 \in 1..5
    BY <2>1 DEF TypeInv, FieldTyped
  <2>3. x \in Names
    BY <2>2, FiveFields DEF Names
  <2>4. Says(p)[x] \in Nat
    <3>1. x \in {"name", "hash", "recipe", "flags", "depends"}
      BY <2>2 DEF Fields
    <3> QED
      BY <3>1 DEF Says, TypeInv, RunTyped
  <2>5. Sidecar(V)
    BY <1>a, <2>1, <2>3, <2>4, WrittenTyped DEF MetaTyped
  <2>6. /\ \A q \in Proc \ {p} : pc'[q] = pc[q] /\ at'[q] = at[q]
        /\ pc'[p] = "put" => at'[p] = at[p]
    <3>1. at \in [Proc -> Nat]
      BY DEF TypeInv, RunTyped
    <3> QED
      BY <1>a, <2>1, <3>1 DEF Each, Goto
  <2> HIDE DEF V
  <2> QED
    BY <1>1, <2>1, <2>5, <2>6
<1>4. CASE ~Clear(p) /\ ~Put(p)
  <2>1. meta' = meta
    BY <1>4 DEF Step, Begin, Open, Refuse, Claim, Compile, Compiled, Again, CompileFails, Pack, Packed, PackFails, Rename,
       Sweep, GcBegin, ScanStage, DropStage, ScanParts, DropParts, Kill, disk
  <2>2. ASSUME NEW q \in Proc, pc'[q] = "put" PROVE pc[q] = "put" /\ todo'[q] = todo[q] /\ at'[q] = at[q]
    <3>1. CASE Begin(p)
      <4>1. pc' = [pc EXCEPT ![p] = "open"]
        BY <3>1 DEF Begin, Goto
      <4>2. q # p /\ pc[q] = "put"
        BY <1>a, <2>2, <4>1
      <4> QED
        BY <3>1, <4>2 DEF Begin, TypeInv, RunTyped
    <3>2. CASE Compiled(p) \/ Packed(p)
      <4>1. /\ UNCHANGED todo
            /\ \E l \in {"compile", "pack"}, m \in {"pack", "rename"} : Each(p, l, m)
        BY <3>2 DEF Compiled, Packed
      <4>2. q # p
        BY <1>a, <2>2, <4>1 DEF Each, Goto
      <4>3. at \in [Proc -> Nat]
        BY DEF TypeInv, RunTyped
      <4> QED
        BY <1>a, <2>2, <4>1, <4>2, <4>3 DEF Each, Goto
    <3>3. CASE ~Begin(p) /\ ~Compiled(p) /\ ~Packed(p)
      <4>1. UNCHANGED <<todo, at>> /\ \E l \in Steps \ {"put"} : pc' = [pc EXCEPT ![p] = l]
        BY <1>4, <3>3 DEF Step, Open, Refuse, Claim, Compile, Again, CompileFails, Pack, PackFails, Rename, Sweep,
           GcBegin, ScanStage, DropStage, ScanParts, DropParts, Kill, Exit, Goto, built, Steps, Sweeping
      <4> QED
        BY <1>a, <2>2, <4>1
    <3> QED
      BY <3>1, <3>2, <3>3
  <2> QED
    BY <1>a, <2>1, <2>2 DEF MetaTyped, Doing
<1> QED
  BY <1>2, <1>3, <1>4

LEMMA FieldStep == ASSUME TypeInv, NEW p \in Proc, Step(p) PROVE FieldTyped'
<1>a. pc \in [Proc -> Steps] /\ field \in [Proc -> 0..5]
  BY DEF TypeInv, RunTyped, FieldTyped
<1>1. CASE Clear(p)
  BY <1>1, <1>a DEF Clear, Goto, TypeInv, FieldTyped
<1>2. CASE Put(p)
  <2>1. pc[p] = "put" /\ field' = [field EXCEPT ![p] = field[p] + 1] /\ field[p] < 5
    BY <1>2 DEF Put, TypeInv, FieldTyped
  <2>2. (field'[p] < 5 /\ pc' = pc) \/ (pc'[p] # "put" /\ \A q \in Proc \ {p} : pc'[q] = pc[q])
    BY <1>2, <1>a, FiveFields DEF Put, Each, Goto
  <2> QED
    BY <1>a, <2>1, <2>2 DEF TypeInv, FieldTyped
<1>3. CASE ~Clear(p) /\ ~Put(p)
  <2>1. field' = field
    BY <1>3 DEF Step, Begin, Open, Refuse, Claim, Compile, Compiled, Again, CompileFails, Pack, Packed, PackFails, Rename,
       Sweep, GcBegin, ScanStage, DropStage, ScanParts, DropParts, Kill
  <2>2. \E l \in Steps \ {"put"} : pc' = [pc EXCEPT ![p] = l]
    <3>1. CASE Compiled(p) \/ Packed(p)
      BY <3>1 DEF Compiled, Packed, Each, Goto, Steps, Building, AfterCompile, Landing
    <3>2. CASE ~Compiled(p) /\ ~Packed(p)
      BY <1>3, <3>2 DEF Step, Begin, Open, Refuse, Claim, Compile, Again, CompileFails, Pack, PackFails, Rename, Sweep,
         GcBegin, ScanStage, DropStage, ScanParts, DropParts, Kill, Exit, Goto, Steps, Sweeping, Building, AfterCompile, Landing
    <3> QED
      BY <3>1, <3>2
  <2> QED
    BY <1>a, <2>1, <2>2 DEF TypeInv, FieldTyped
<1> QED
  BY <1>1, <1>2, <1>3

LEMMA ClaimTypedStep == ASSUME TypeInv, NEW p \in Proc, Step(p) PROVE ClaimTyped'
<1>a. /\ files \in Nat /\ lock \in (1..files) \cup {NoFile}
      /\ fd \in [Proc -> (1..files) \cup {NoFile}] /\ has \in [Proc -> BOOLEAN]
      /\ doomed \in [Proc -> SUBSET (Target \cup {"lock"})] /\ aged \subseteq Target \cup {"lock"}
      /\ robbed \subseteq Target \cup 1..files /\ runs \in Nat /\ kills \in Nat
  BY DEF TypeInv, ClaimTyped
<1>1. CASE Begin(p) \/ GcBegin(p)
  <2>1. aged' \subseteq Target \cup {"lock"}
    BY <1>1, <1>a DEF Begin, GcBegin, Gap
  <2> QED
    BY <1>1, <1>a, <2>1 DEF Begin, GcBegin, claims, ClaimTyped
<1>2. CASE Open(p)
  <2>1. files' \in Nat /\ files <= files' /\ lock' \in (1..files') \cup {NoFile} /\ aged' \subseteq Target \cup {"lock"}
    BY <1>2, <1>a DEF Open
  <2>2. fd' \in [Proc -> (1..files') \cup {NoFile}]
    <3>1. \A q \in Proc : fd[q] \in (1..files') \cup {NoFile}
      BY <1>a, <2>1
    <3> QED
      BY <1>2, <1>a, <2>1, <3>1 DEF Open
  <2>3. robbed' \subseteq Target \cup 1..files'
    BY <1>2, <1>a, <2>1 DEF Open
  <2> QED
    BY <1>2, <1>a, <2>1, <2>2, <2>3 DEF Open, ClaimTyped
<1>3. CASE Claim(p) \/ Compile(p)
  BY <1>3, <1>a DEF Claim, Compile, claims, ClaimTyped
<1>4. CASE Refuse(p) \/ CompileFails(p) \/ PackFails(p) \/ Sweep(p) \/ Kill(p)
  <2>1. Exit(p) /\ UNCHANGED <<runs, aged, robbed>>
    BY <1>4 DEF Refuse, CompileFails, PackFails, Sweep, Kill
  <2>2. kills' \in Nat /\ (doomed' = doomed \/ doomed' = [doomed EXCEPT ![p] = {}])
    BY <1>4, <1>a DEF Refuse, CompileFails, PackFails, Sweep, Kill
  <2> QED
    BY <1>a, <2>1, <2>2 DEF Exit, ClaimTyped
<1>5. CASE Rename(p)
  BY <1>5, <1>a DEF Rename, Exit, claims, ClaimTyped
<1>6. CASE ScanStage(p) \/ ScanParts(p) \/ DropParts(p)
  BY <1>6, <1>a DEF ScanStage, ScanParts, DropParts, claims, ClaimTyped
<1>8. CASE DropStage(p)
  <2>1. Robs(p) \subseteq Target \cup 1..files
    BY <1>a DEF Robs
  <2> QED
    BY <1>8, <1>a, <2>1 DEF DropStage, ClaimTyped
<1>7. CASE Compiled(p) \/ Again(p) \/ Pack(p) \/ Packed(p) \/ Clear(p) \/ Put(p)
  BY <1>7, <1>a DEF Compiled, Again, Pack, Packed, Clear, Put, claims, ClaimTyped
<1> QED
  BY <1>1, <1>2, <1>3, <1>4, <1>5, <1>6, <1>7, <1>8 DEF Step

LEMMA TypeNext == ASSUME TypeInv, [Next]_vars PROVE TypeInv'
<1>1. CASE \E p \in Proc : Step(p)
  BY <1>1, RunStep, TreesStep, MetaStep, FieldStep, ClaimTypedStep DEF TypeInv
<1>2. CASE EditRecipe \/ EditFlags \/ UNCHANGED vars
  <2>1. /\ UNCHANGED <<claims, disk, built, pc, field, doomed, robbed, aged, runs, kills>>
        /\ recipe' \in Nat /\ flags' \in Nat
    BY <1>2 DEF EditRecipe, EditFlags, vars, config, TypeInv, RunTyped
  <2>2. ClaimTyped' /\ TreesTyped'
    BY <2>1 DEF TypeInv, ClaimTyped, TreesTyped, claims, disk
  <2>3. MetaTyped' /\ FieldTyped'
    BY <2>1 DEF TypeInv, MetaTyped, FieldTyped, Doing, disk, built
  <2>4. RunTyped'
    BY <2>1 DEF TypeInv, RunTyped, built
  <2> QED
    BY <2>2, <2>3, <2>4 DEF TypeInv
<1> QED
  BY <1>1, <1>2 DEF Next

\* Types, with gc at any age of the stage directory.
THEOREM TypeCorrect == Spec => []TypeOK
<1>1. ASSUME TypeInv PROVE TypeOK
  <2>1. \A p \in Proc : pc[p] \in Building => at[p] \in DOMAIN todo[p]
    <3> SUFFICES ASSUME NEW p \in Proc, pc[p] \in Building PROVE at[p] \in DOMAIN todo[p]
      OBVIOUS
    <3>1. todo[p] \in Wanted /\ at[p] \in 1..Len(todo[p])
      BY <1>1, DoingTyped
    <3> QED
      BY <3>1, ListType
  <2>2. pc \in [Proc -> {"idle", "open", "flock", "scan_stage", "drop_stage", "scan_parts", "drop_parts"} \cup Building]
    <3>1. Steps = {"idle", "open", "flock", "scan_stage", "drop_stage", "scan_parts", "drop_parts"} \cup Building
      BY DEF Steps, Sweeping
    <3> QED
      BY <1>1, <3>1 DEF TypeInv, RunTyped
  <2>3. field \in [Proc -> 0..Len(Fields)]
    BY <1>1, FiveFields DEF TypeInv, FieldTyped
  <2>4. DOMAIN meta = Target /\ \A t \in Target : meta[t] = NoFile \/ \E S \in SUBSET Names : meta[t] \in [S -> Nat]
    BY <1>1 DEF TypeInv, MetaTyped, Sidecar
  <2> QED
    BY <1>1, <2>1, <2>2, <2>3, <2>4 DEF TypeOK, TypeInv, ClaimTyped, TreesTyped, RunTyped
<1> QED
  BY <1>1, TypeInit, TypeNext, PTL DEF Spec
----------------------------------------------------------------------------
(* What stale takes as good. Recipes only move on, so one that is the same as a
   build began and as its sidecar is written was the same in between. *)

\* tree x is of what process p began with: its flags, and a recipe no older
Of(p, x) == x \in Tree /\ x.flags = f[p] /\ hash[p] <= x.recipe /\ x.recipe <= recipe

StageAgrees(p) ==
  /\ pc[p] \in Building => hash[p] <= recipe
  /\ pc[p] = "compile" => \A i \in 1..Len(todo[p]) : i < at[p] => Of(p, stage[todo[p][i]])
  /\ pc[p] = "compiling" => \A i \in 1..Len(todo[p]) : i <= at[p] => Of(p, stage[todo[p][i]])
  /\ pc[p] \in AfterCompile => \A i \in 1..Len(todo[p]) : Of(p, stage[todo[p][i]])

Ready(p, t) == part[t] = NoFile \/ Of(p, part[t])
PartAgrees(p) ==
  /\ pc[p] \in {"pack", "packing"} => \A i \in 1..Len(todo[p]) : i < at[p] => Ready(p, todo[p][i])
  /\ pc[p] = "rename" => \A i \in 1..Len(todo[p]) : i >= at[p] => Ready(p, todo[p][i])
  /\ pc[p] \in Landing => \A i \in 1..Len(todo[p]) : i > at[p] => Ready(p, todo[p][i])

\* what sidecar m says is so of artifact a
Truth(m, a) ==
  /\ "flags" \in DOMAIN m => m["flags"] = a.flags
  /\ "hash" \in DOMAIN m => m["hash"] <= a.recipe
  /\ "recipe" \in DOMAIN m => a.recipe <= m["recipe"]
LandAgrees(p) ==
  /\ pc[p] \in Landing => Of(p, art[Doing(p)])
  /\ pc[p] = "put" => /\ \A k \in 1..field[p] : Fields[k] \in DOMAIN meta[Doing(p)]
                      /\ Truth(meta[Doing(p)], art[Doing(p)])

Landed(t) == \A p \in Proc : pc[p] \in Landing => Doing(p) # t
Agreed ==
  kills = 0 => \A t \in Target : Landed(t) /\ art[t] # NoFile =>
                 meta[t] # NoFile /\ Names \subseteq DOMAIN meta[t] /\ Truth(meta[t], art[t])

AgreeInv ==
  /\ \A p \in Proc : StageAgrees(p) /\ PartAgrees(p) /\ LandAgrees(p)
  /\ Agreed
FreshInv == TypeInv /\ LandInv /\ AgreeInv

LEMMA AgreeInit == Init => AgreeInv
BY DEF Init, AgreeInv, StageAgrees, PartAgrees, LandAgrees, Agreed, Building, AfterCompile, Landing

\* A sidecar that has landed stays as true as it was while no build lands another.
LEMMA AgreedStays ==
  ASSUME FreshInv, UNCHANGED <<art, meta>>, kills' = 0 => kills = 0,
         kills' = 0 => \A q \in Proc : pc[q] \in Landing => pc'[q] \in Landing /\ Doing(q)' = Doing(q)
  PROVE  Agreed'
<1> SUFFICES ASSUME kills' = 0, NEW t \in Target, Landed(t)', art'[t] # NoFile
             PROVE  meta'[t] # NoFile /\ Names \subseteq DOMAIN meta'[t] /\ Truth(meta'[t], art'[t])
  BY DEF Agreed, Truth
<1>1. Landed(t)
  BY DEF Landed
<1> QED
  BY <1>1 DEF FreshInv, AgreeInv, Agreed

\* A step that writes no tree and no sidecar, and leaves the builds that go on where they were.
LEMMA AgreeQuiet ==
  ASSUME FreshInv, TypeInv', UNCHANGED <<art, meta>>, recipe <= recipe', kills' = 0 => kills = 0,
         \A t \in Target : part'[t] = part[t] \/ part'[t] = NoFile,
         \A q \in Proc : pc'[q] \in Building =>
            /\ \A t \in Target : Mine(q, t) => stage'[t] = stage[t]
            /\ pc'[q] = pc[q] /\ at'[q] = at[q] /\ todo'[q] = todo[q]
            /\ f'[q] = f[q] /\ hash'[q] = hash[q] /\ field'[q] = field[q],
         kills' = 0 => \A q \in Proc : pc[q] \in Landing => pc'[q] = pc[q]
  PROVE  AgreeInv'
<1> USE DEF Building, AfterCompile, Landing
<1>1. Agreed'
  BY AgreedStays DEF Doing
<1>2. ASSUME NEW q \in Proc, pc'[q] \notin Building
      PROVE  (StageAgrees(q) /\ PartAgrees(q) /\ LandAgrees(q))'
  BY <1>2 DEF StageAgrees, PartAgrees, LandAgrees
<1>3. ASSUME NEW q \in Proc, pc'[q] \in Building
      PROVE  (StageAgrees(q) /\ PartAgrees(q) /\ LandAgrees(q))'
  <2>1. /\ \A t \in Target : Mine(q, t) => stage'[t] = stage[t]
        /\ pc'[q] = pc[q] /\ at'[q] = at[q] /\ todo'[q] = todo[q]
        /\ f'[q] = f[q] /\ hash'[q] = hash[q] /\ field'[q] = field[q]
        /\ StageAgrees(q) /\ PartAgrees(q) /\ LandAgrees(q)
    BY <1>3 DEF FreshInv, AgreeInv
  <2>2. /\ at[q] \in 1..Len(todo[q]) /\ Len(todo[q]) \in Nat /\ Doing(q) \in Target /\ Doing(q)' = Doing(q)
        /\ \A i \in 1..Len(todo[q]) : todo[q][i] \in Target
    BY <1>3, <2>1, DoingTyped, ListType DEF FreshInv, Doing
  <2>3. recipe \in Nat /\ recipe' \in Nat /\ hash[q] \in Nat
    BY DEF FreshInv, TypeInv, RunTyped
  <2>4. ASSUME NEW x, Of(q, x)
        PROVE  x \in Tree /\ x.flags = f'[q] /\ hash'[q] <= x.recipe /\ x.recipe <= recipe'
    BY <2>1, <2>3, <2>4 DEF Of, Tree
  <2>5. StageAgrees(q)'
    <3>1. hash'[q] <= recipe'
      BY <1>3, <2>1, <2>3 DEF StageAgrees
    <3>2. ASSUME NEW i \in 1..Len(todo[q]), Of(q, stage[todo[q][i]]), Mine(q, todo[q][i])
          PROVE  Of(q, stage[todo[q][i]])'
      BY <2>1, <2>2, <2>4, <3>2 DEF Of
    <3>3. /\ pc[q] \in {"compile", "compiling"} => \A i \in 1..Len(todo[q]) : i < at[q] => Mine(q, todo[q][i])
          /\ pc[q] = "compiling" => Mine(q, todo[q][at[q]])
          /\ pc[q] \in AfterCompile => \A i \in 1..Len(todo[q]) : Mine(q, todo[q][i])
      BY <2>2 DEF FreshInv, LandInv, WorkInv, Kept, Whole, Doing
    <3>4. CASE pc[q] = "compile"
      BY <2>1, <3>1, <3>2, <3>3, <3>4 DEF StageAgrees
    <3>5. CASE pc[q] = "compiling"
      <4>1. \A i \in 1..Len(todo[q]) : i <= at[q] => Mine(q, todo[q][i])
        BY <2>2, <3>3, <3>5
      <4> QED
        BY <2>1, <3>1, <3>2, <4>1, <3>5 DEF StageAgrees
    <3>6. CASE pc[q] \in AfterCompile
      BY <2>1, <3>1, <3>2, <3>3, <3>6 DEF StageAgrees
    <3> QED
      BY <1>3, <2>1, <3>4, <3>5, <3>6
  <2>6. PartAgrees(q)'
    <3>1. ASSUME NEW i \in 1..Len(todo[q]), Ready(q, todo[q][i]) PROVE Ready(q, todo[q][i])'
      <4>1. CASE part'[todo[q][i]] = NoFile
        BY <2>1, <4>1 DEF Ready
      <4>2. CASE part'[todo[q][i]] = part[todo[q][i]]
        BY <2>1, <2>4, <3>1, <4>2 DEF Ready, Of
      <4> QED
        BY <2>2, <4>1, <4>2
    <3> QED
      BY <2>1, <3>1 DEF PartAgrees
  <2>7. LandAgrees(q)'
    <3>1. Of(q, art[Doing(q)]) => Of(q, art[Doing(q)])'
      BY <2>1, <2>2, <2>4 DEF Of
    <3> QED
      BY <2>1, <2>2, <3>1 DEF LandAgrees, Truth
  <2> QED
    BY <2>5, <2>6, <2>7
<1> QED
  BY <1>1, <1>2, <1>3 DEF AgreeInv

\* A step of a build: no other is building before it or after.
LEMMA AgreeOwn ==
  ASSUME FreshInv, LandInv', NEW p \in Proc, pc'[p] \in Building,
         (StageAgrees(p) /\ PartAgrees(p) /\ LandAgrees(p))', Agreed'
  PROVE  AgreeInv'
<1> SUFFICES ASSUME NEW q \in Proc, q # p PROVE (StageAgrees(q) /\ PartAgrees(q) /\ LandAgrees(q))'
  BY DEF AgreeInv
<1>1. pc'[q] \notin Building
  <2>1. robbed' = {} /\ SameFile' /\ Holder'
    BY DEF LandInv, WorkInv, ClaimInv
  <2>2. \A r \in Proc : pc'[r] \in Building => has'[r] /\ fd'[r] = lock'
    BY <2>1 DEF SameFile, Holder
  <2> QED
    BY <2>1, <2>2 DEF Holder
<1> QED
  BY <1>1 DEF StageAgrees, PartAgrees, LandAgrees, Building, AfterCompile, Landing

LEMMA SidecarIsOne == \A m : Sidecar(m) => m # NoFile
BY BuildsAssumption DEF Sidecar

\* a file more in a sidecar, and what it says is so
LEMMA WrittenTrue ==
  ASSUME NEW p \in Proc, NEW m, NEW a, Sidecar(m), Of(p, a), Truth(m, a), NEW k \in 0..4,
         \A i \in 1..k : Fields[i] \in DOMAIN m, hash[p] \in Nat, f[p] \in Nat, recipe \in Nat
  PROVE  LET w == Written(m, Fields[k + 1], Says(p)[Fields[k + 1]])
         IN  Truth(w, a) /\ \A i \in 1..(k + 1) : Fields[i] \in DOMAIN w
<1> DEFINE x == Fields[k + 1]
           w == Written(m, x, Says(p)[x])
<1>1. DOMAIN w = DOMAIN m \cup {x} /\ \A y \in DOMAIN w : w[y] = IF y = x THEN Says(p)[x] ELSE m[y]
  BY DEF Written
<1>2. Says(p)["flags"] = a.flags /\ Says(p)["hash"] <= a.recipe /\ a.recipe <= Says(p)["recipe"]
  BY DEF Says, Of
<1>3. \A i \in 1..(k + 1) : Fields[i] \in DOMAIN w
  BY <1>1
<1> HIDE DEF w, x
<1>4. Truth(w, a)
  BY <1>1, <1>2 DEF Truth
<1> QED
  BY <1>3, <1>4 DEF w, x

LEMMA AgreeStep ==
  ASSUME robbed' = {}, FreshInv, TypeInv', LandInv', NEW p \in Proc, Step(p) PROVE AgreeInv'
<1> USE DEF Building, AfterCompile, Landing
<1>a. /\ pc \in [Proc -> Steps] /\ at \in [Proc -> Nat] /\ todo \in [Proc -> Wanted \cup {<<>>}]
      /\ hash \in [Proc -> Nat] /\ f \in [Proc -> Nat] /\ recipe \in Nat /\ flags \in Nat /\ field \in [Proc -> 0..5]
      /\ stage \in [Target -> Tree \cup {NoFile}]
      /\ part \in [Target -> Tree \cup {NoFile}] /\ art \in [Target -> Tree \cup {NoFile}]
      /\ meta = [t \in Target |-> meta[t]]
  BY DEF FreshInv, TypeInv, RunTyped, TreesTyped, MetaTyped, FieldTyped
<1>b. ASSUME pc[p] \in Building
      PROVE  /\ \A q \in Proc \ {p} : pc[q] \notin Building
             /\ todo[p] \in Wanted /\ at[p] \in 1..Len(todo[p]) /\ Len(todo[p]) \in Nat
             /\ \A i \in 1..Len(todo[p]) : todo[p][i] \in Target
             /\ \A i \in 1..Len(todo[p]) : i # at[p] => todo[p][i] # Doing(p)
             /\ Doing(p) \in Target
             /\ StageAgrees(p) /\ PartAgrees(p) /\ LandAgrees(p)
  <2>1. /\ \A q \in Proc \ {p} : pc[q] \notin Building
        /\ todo[p] \in Wanted /\ at[p] \in 1..Len(todo[p])
    <3>1. ASSUME NEW q \in Proc \ {p}, pc[q] \in Building PROVE FALSE
      BY <1>b, <3>1, OneIn DEF FreshInv, LandInv, WorkInv
    <3> QED
      BY <1>b, <3>1 DEF FreshInv, LandInv, WorkInv, OnList
  <2> QED
    BY <2>1, ListType DEF Doing, FreshInv, AgreeInv
<1>1. CASE Claim(p)
  <2>1. /\ hash' = [hash EXCEPT ![p] = recipe] /\ pc[p] = "flock" /\ pc' = [pc EXCEPT ![p] = "compile"]
        /\ UNCHANGED <<todo, at, recipe, art, meta, kills>>
    BY <1>1 DEF Claim, Goto, disk, config
  <2>2. at[p] = 1 /\ todo[p] \in Wanted
    BY <2>1 DEF FreshInv, LandInv, WorkInv, OnList
  <2>3. Len(todo[p]) \in Nat
    BY <2>2, ListType
  <2>4. pc'[p] = "compile" /\ hash'[p] = recipe
    BY <1>a, <2>1
  <2>5. (StageAgrees(p) /\ PartAgrees(p) /\ LandAgrees(p))'
    BY <1>a, <2>1, <2>2, <2>3, <2>4 DEF StageAgrees, PartAgrees, LandAgrees
  <2>6. Agreed'
    BY <1>a, <2>1, AgreedStays DEF Doing
  <2> QED
    BY <2>4, <2>5, <2>6, AgreeOwn
<1>2. CASE Again(p)
  <2>1. /\ pc[p] = "compiling" /\ pc' = [pc EXCEPT ![p] = "compile"]
        /\ UNCHANGED <<todo, at, recipe, hash, f, stage, art, meta, kills>>
    BY <1>2 DEF Again, Goto, disk, config, built
  <2>2. pc'[p] = "compile"
    BY <1>a, <2>1
  <2>3. (StageAgrees(p) /\ PartAgrees(p) /\ LandAgrees(p))'
    BY <1>a, <1>b, <2>1, <2>2 DEF StageAgrees, PartAgrees, LandAgrees, Of
  <2>4. Agreed'
    BY <1>a, <2>1, AgreedStays DEF Doing
  <2> QED
    BY <2>2, <2>3, <2>4, AgreeOwn
<1>3. CASE Compile(p)
  <2>1. /\ stage' = [stage EXCEPT ![Doing(p)] = Runs(p)] /\ pc[p] = "compile" /\ pc' = [pc EXCEPT ![p] = "compiling"]
        /\ UNCHANGED <<todo, at, recipe, hash, f, art, meta, kills>>
    BY <1>3 DEF Compile, Goto, config, built
  <2>2. pc'[p] = "compiling" /\ hash[p] <= recipe /\ stage'[Doing(p)] = Runs(p)
        /\ \A t \in Target : t # Doing(p) => stage'[t] = stage[t]
    BY <1>a, <1>b, <2>1 DEF StageAgrees
  <2>3. Of(p, stage'[Doing(p)])
    BY <1>a, <2>2 DEF Of, Runs, Tree
  <2>4. \A i \in 1..Len(todo[p]) : i <= at[p] => Of(p, stage'[todo[p][i]])
    <3> SUFFICES ASSUME NEW i \in 1..Len(todo[p]), i <= at[p] PROVE Of(p, stage'[todo[p][i]])
      OBVIOUS
    <3>1. CASE i = at[p]
      BY <2>3, <3>1 DEF Doing
    <3>2. CASE i # at[p]
      <4>1. i < at[p] /\ todo[p][i] \in Target /\ todo[p][i] # Doing(p)
        BY <1>a, <1>b, <2>1, <3>2
      <4> QED
        BY <1>b, <2>1, <2>2, <4>1 DEF StageAgrees
    <3> QED
      BY <3>1, <3>2
  <2>5. (StageAgrees(p) /\ PartAgrees(p) /\ LandAgrees(p))'
    BY <2>1, <2>2, <2>4 DEF StageAgrees, PartAgrees, LandAgrees, Of
  <2>6. Agreed'
    BY <1>a, <2>1, AgreedStays DEF Doing
  <2> QED
    BY <2>2, <2>5, <2>6, AgreeOwn
<1>4. CASE Compiled(p)
  <2>1. /\ stage' = [stage EXCEPT ![Doing(p)].whole = TRUE] /\ pc[p] = "compiling" /\ Each(p, "compile", "pack")
        /\ UNCHANGED <<todo, recipe, hash, f, art, meta, kills>>
    BY <1>4 DEF Compiled, config
  <2>2. /\ stage' = [stage EXCEPT ![Doing(p)] = [stage[Doing(p)] EXCEPT !.whole = TRUE]]
        /\ Of(p, stage[Doing(p)]) /\ hash[p] <= recipe
        /\ \A i \in 1..Len(todo[p]) : i <= at[p] => Of(p, stage[todo[p][i]])
    BY <1>b, <2>1 DEF StageAgrees, Doing
  <2>3. \A i \in 1..Len(todo[p]) : i <= at[p] => Of(p, stage'[todo[p][i]])
    <3> DEFINE W == [stage[Doing(p)] EXCEPT !.whole = TRUE]
    <3>1. Of(p, W)
      BY <2>2 DEF Of, Tree
    <3>2. stage' = [stage EXCEPT ![Doing(p)] = W]
      BY <2>2
    <3> HIDE DEF W
    <3>3. SUFFICES ASSUME NEW i \in 1..Len(todo[p]), i <= at[p] PROVE Of(p, stage'[todo[p][i]])
      OBVIOUS
    <3>4. stage'[todo[p][i]] = W \/ stage'[todo[p][i]] = stage[todo[p][i]]
      BY <1>a, <1>b, <2>1, <3>2
    <3>5. Of(p, stage[todo[p][i]])
      BY <2>2, <3>3
    <3> QED
      BY <3>1, <3>4, <3>5
  <2>4. Agreed'
    <3>1. \A q \in Proc : pc[q] \notin Landing
      BY <1>b, <2>1
    <3> QED
      BY <2>1, <3>1, AgreedStays
  <2>5. CASE at[p] < Len(todo[p])
    <3>1. pc'[p] = "compile" /\ at'[p] = at[p] + 1
      BY <1>a, <2>1, <2>5 DEF Each, Goto
    <3>2. \A i \in 1..Len(todo[p]) : i < at'[p] => Of(p, stage'[todo[p][i]])
      BY <1>a, <2>3, <3>1
    <3>3. (StageAgrees(p) /\ PartAgrees(p) /\ LandAgrees(p))'
      BY <2>1, <2>2, <3>1, <3>2 DEF StageAgrees, PartAgrees, LandAgrees, Of
    <3> QED
      BY <2>4, <3>1, <3>3, AgreeOwn
  <2>6. CASE ~(at[p] < Len(todo[p]))
    <3>1. pc'[p] = "pack" /\ at'[p] = 1 /\ at[p] = Len(todo[p])
      BY <1>a, <1>b, <2>1, <2>6 DEF Each, Goto
    <3>2. \A i \in 1..Len(todo[p]) : Of(p, stage'[todo[p][i]])
      BY <2>3, <3>1
    <3>3. (StageAgrees(p) /\ LandAgrees(p))'
      BY <2>1, <2>2, <3>1, <3>2 DEF StageAgrees, LandAgrees, Of
    <3>4. PartAgrees(p)'
      BY <1>b, <2>1, <3>1 DEF PartAgrees
    <3> QED
      BY <2>4, <3>1, <3>3, <3>4, AgreeOwn
  <2> QED
    BY <2>5, <2>6
\* the stages of a build that compiled them all
<1>c. ASSUME pc[p] \in AfterCompile, pc'[p] \in AfterCompile, UNCHANGED <<stage, todo, recipe, hash, f>>
      PROVE  StageAgrees(p)'
  BY <1>b, <1>c DEF StageAgrees, Of
<1>5. CASE Pack(p)
  <2>1. /\ part' = [part EXCEPT ![Doing(p)] = Partial(p)] /\ pc[p] = "pack" /\ pc' = [pc EXCEPT ![p] = "packing"]
        /\ UNCHANGED <<todo, at, recipe, hash, f, stage, art, meta, kills>>
    BY <1>5 DEF Pack, Goto, config, built
  <2>2. pc'[p] = "packing"
    BY <1>a, <2>1
  <2>3. PartAgrees(p)'
    <3>1. SUFFICES ASSUME NEW i \in 1..Len(todo[p]), i < at[p] PROVE Ready(p, todo[p][i])'
      BY <2>1, <2>2 DEF PartAgrees
    <3>2. todo[p][i] \in Target /\ todo[p][i] # Doing(p) /\ Ready(p, todo[p][i])
      BY <1>a, <1>b, <2>1, <3>1 DEF PartAgrees
    <3>3. part'[todo[p][i]] = part[todo[p][i]]
      BY <1>a, <2>1, <3>2
    <3> QED
      BY <2>1, <3>2, <3>3 DEF Ready, Of
  <2>4. (StageAgrees(p) /\ LandAgrees(p))'
    BY <1>c, <2>1, <2>2 DEF LandAgrees
  <2>5. Agreed'
    BY <1>a, <2>1, AgreedStays DEF Doing
  <2> QED
    BY <2>2, <2>3, <2>4, <2>5, AgreeOwn
<1>6. CASE Packed(p)
  <2> DEFINE W == [stage[Doing(p)] EXCEPT !.whole = @ /\ Mine(p, Doing(p))]
  <2>1. /\ part' = [part EXCEPT ![Doing(p)] = IF part[Doing(p)] = NoFile THEN NoFile ELSE W]
        /\ pc[p] = "packing" /\ Each(p, "pack", "rename")
        /\ UNCHANGED <<todo, recipe, hash, f, stage, art, meta, kills>>
    BY <1>6 DEF Packed, config
  <2>2. Of(p, W)
    <3>1. Of(p, stage[Doing(p)])
      BY <1>b, <2>1 DEF StageAgrees, Doing
    <3>2. (stage[Doing(p)].whole /\ Mine(p, Doing(p))) \in BOOLEAN
      OBVIOUS
    <3> QED
      BY <3>1, <3>2 DEF Of, Tree
  <2> HIDE DEF W
  <2>3. \A i \in 1..Len(todo[p]) : i <= at[p] => Ready(p, todo[p][i])'
    <3>1. SUFFICES ASSUME NEW i \in 1..Len(todo[p]), i <= at[p] PROVE Ready(p, todo[p][i])'
      OBVIOUS
    <3>2. CASE i = at[p]
      <4>1. part'[todo[p][i]] \in {NoFile, W}
        BY <1>a, <1>b, <2>1, <3>2 DEF Doing
      <4> QED
        BY <2>1, <2>2, <4>1 DEF Ready, Of
    <3>3. CASE i < at[p]
      <4>1. todo[p][i] \in Target /\ todo[p][i] # Doing(p) /\ Ready(p, todo[p][i])
        BY <1>a, <1>b, <2>1, <3>3 DEF PartAgrees
      <4>2. part'[todo[p][i]] = part[todo[p][i]]
        BY <1>a, <2>1, <4>1
      <4> QED
        BY <2>1, <4>1, <4>2 DEF Ready, Of
    <3> QED
      BY <1>a, <3>1, <3>2, <3>3
  <2>4. Agreed'
    <3>1. \A q \in Proc : pc[q] \notin Landing
      BY <1>b, <2>1
    <3> QED
      BY <2>1, <3>1, AgreedStays
  <2>5. CASE at[p] < Len(todo[p])
    <3>1. pc'[p] = "pack" /\ at'[p] = at[p] + 1
      BY <1>a, <2>1, <2>5 DEF Each, Goto
    <3>2. PartAgrees(p)'
      BY <1>a, <2>1, <2>3, <3>1 DEF PartAgrees
    <3>3. (StageAgrees(p) /\ LandAgrees(p))'
      BY <1>c, <2>1, <3>1 DEF LandAgrees
    <3> QED
      BY <2>4, <3>1, <3>2, <3>3, AgreeOwn
  <2>6. CASE ~(at[p] < Len(todo[p]))
    <3>1. pc'[p] = "rename" /\ at'[p] = 1 /\ at[p] = Len(todo[p])
      BY <1>a, <1>b, <2>1, <2>6 DEF Each, Goto
    <3>2. PartAgrees(p)'
      BY <1>b, <2>1, <2>3, <3>1 DEF PartAgrees
    <3>3. (StageAgrees(p) /\ LandAgrees(p))'
      BY <1>c, <2>1, <3>1 DEF LandAgrees
    <3> QED
      BY <2>4, <3>1, <3>2, <3>3, AgreeOwn
  <2> QED
    BY <2>5, <2>6
<1>7. CASE Rename(p) /\ part[Doing(p)] # NoFile
  <2>1. /\ art' = [art EXCEPT ![Doing(p)] = part[Doing(p)]] /\ part' = [part EXCEPT ![Doing(p)] = NoFile]
        /\ pc[p] = "rename" /\ pc' = [pc EXCEPT ![p] = "clear"]
        /\ UNCHANGED <<todo, at, recipe, hash, f, stage, meta, kills>>
    BY <1>7 DEF Rename, Goto, config, built
  <2>2. pc'[p] = "clear" /\ Doing(p)' = Doing(p) /\ art'[Doing(p)] = part[Doing(p)]
        /\ \A t \in Target : t # Doing(p) => art'[t] = art[t] /\ part'[t] = part[t]
    BY <1>a, <1>b, <2>1 DEF Doing
  <2>3. PartAgrees(p)'
    <3>1. SUFFICES ASSUME NEW i \in 1..Len(todo[p]), i > at[p] PROVE Ready(p, todo[p][i])'
      BY <2>1, <2>2 DEF PartAgrees
    <3>2. todo[p][i] \in Target /\ todo[p][i] # Doing(p) /\ Ready(p, todo[p][i])
      BY <1>a, <1>b, <2>1, <3>1 DEF PartAgrees
    <3> QED
      BY <2>1, <2>2, <3>2 DEF Ready, Of
  <2>4. LandAgrees(p)'
    <3>1. Ready(p, Doing(p))
      BY <1>a, <1>b, <2>1 DEF PartAgrees, Doing
    <3> QED
      BY <1>7, <2>1, <2>2, <3>1 DEF LandAgrees, Ready, Of
  <2>5. StageAgrees(p)'
    BY <1>c, <2>1, <2>2
  <2>6. Agreed'
    <3>1. SUFFICES ASSUME kills = 0, NEW t \in Target, Landed(t)', art'[t] # NoFile
                   PROVE  meta[t] # NoFile /\ Names \subseteq DOMAIN meta[t] /\ Truth(meta[t], art'[t])
      BY <2>1 DEF Agreed, Truth
    <3>2. t # Doing(p)
      BY <2>2, <3>1 DEF Landed
    <3>3. Landed(t) /\ art'[t] = art[t]
      BY <1>b, <2>1, <2>2, <3>2 DEF Landed
    <3> QED
      BY <3>1, <3>3 DEF FreshInv, AgreeInv, Agreed
  <2> QED
    BY <2>2, <2>3, <2>4, <2>5, <2>6, AgreeOwn
<1>8. CASE Clear(p)
  <2> DEFINE E == [x \in {} |-> 0]
  <2>1. /\ meta' = [meta EXCEPT ![Doing(p)] = E] /\ field' = [field EXCEPT ![p] = 0]
        /\ pc[p] = "clear" /\ pc' = [pc EXCEPT ![p] = "put"]
        /\ UNCHANGED <<todo, at, recipe, hash, f, stage, part, art, kills>>
    BY <1>8 DEF Clear, Goto, config, built
  <2>2. DOMAIN E = {}
    OBVIOUS
  <2> HIDE DEF E
  <2>3. pc'[p] = "put" /\ field'[p] = 0 /\ Doing(p)' = Doing(p) /\ meta'[Doing(p)] = E
        /\ \A t \in Target : t # Doing(p) => meta'[t] = meta[t]
    BY <1>a, <1>b, <2>1 DEF Doing
  <2>4. LandAgrees(p)'
    BY <1>b, <2>1, <2>2, <2>3 DEF LandAgrees, Truth, Of
  <2>5. (StageAgrees(p) /\ PartAgrees(p))'
    BY <1>b, <1>c, <2>1, <2>3 DEF PartAgrees, Ready, Of
  <2>6. Agreed'
    <3>1. SUFFICES ASSUME kills = 0, NEW t \in Target, Landed(t)', art[t] # NoFile
                   PROVE  meta'[t] # NoFile /\ Names \subseteq DOMAIN meta'[t] /\ Truth(meta'[t], art[t])
      BY <2>1 DEF Agreed, Truth
    <3>2. t # Doing(p)
      BY <2>3, <3>1 DEF Landed
    <3>3. Landed(t) /\ meta'[t] = meta[t]
      BY <1>b, <2>1, <2>3, <3>2 DEF Landed
    <3> QED
      BY <3>1, <3>3 DEF FreshInv, AgreeInv, Agreed
  <2> QED
    BY <2>3, <2>4, <2>5, <2>6, AgreeOwn
<1>9. CASE Put(p)
  <2> DEFINE W == Written(meta[Doing(p)], Fields[field[p] + 1], Says(p)[Fields[field[p] + 1]])
  <2>1. /\ meta' = [meta EXCEPT ![Doing(p)] = W] /\ field' = [field EXCEPT ![p] = field[p] + 1] /\ pc[p] = "put"
        /\ IF field'[p] < Len(Fields) THEN UNCHANGED <<pc, at>> ELSE Each(p, "rename", "sweep")
        /\ UNCHANGED <<todo, recipe, hash, f, stage, part, art, kills>>
    BY <1>a, <1>b, <1>9 DEF Put, config
  <2>2. field[p] \in 0..4 /\ Sidecar(meta[Doing(p)]) /\ Of(p, art[Doing(p)])
        /\ Truth(meta[Doing(p)], art[Doing(p)]) /\ \A k \in 1..field[p] : Fields[k] \in DOMAIN meta[Doing(p)]
    <3>1. Sidecar(meta[Doing(p)])
      BY <2>1 DEF FreshInv, TypeInv, MetaTyped
    <3>2. field[p] < 5
      BY <2>1 DEF FreshInv, TypeInv, FieldTyped
    <3>3. field[p] \in 0..4
      BY <1>a, <3>2
    <3> QED
      BY <1>b, <2>1, <3>1, <3>3 DEF LandAgrees
  <2>3. Sidecar(W) /\ Truth(W, art[Doing(p)]) /\ \A k \in 1..(field[p] + 1) : Fields[k] \in DOMAIN W
    <3>1. Fields[field[p] + 1] \in Names
      BY <2>2, FiveFields DEF Names
    <3>2. Says(p)[Fields[field[p] + 1]] \in Nat
      BY <1>a, <2>2 DEF Says, Fields
    <3>3. Sidecar(W)
      BY <2>2, <3>1, <3>2, WrittenTyped
    <3> QED
      BY <1>a, <2>2, <3>3, WrittenTrue
  <2> HIDE DEF W
  <2>4. /\ field'[p] = field[p] + 1 /\ meta'[Doing(p)] = W
        /\ \A t \in Target : t # Doing(p) => meta'[t] = meta[t]
    BY <1>a, <1>b, <2>1
  \* the sidecars of the other targets
  <2>5. ASSUME kills = 0, NEW t \in Target, t # Doing(p), art[t] # NoFile
        PROVE  meta'[t] # NoFile /\ Names \subseteq DOMAIN meta'[t] /\ Truth(meta'[t], art[t])
    <3>1. Landed(t)
      BY <1>b, <2>1, <2>5 DEF Landed
    <3> QED
      BY <2>4, <2>5, <3>1 DEF FreshInv, AgreeInv, Agreed
  <2>6. CASE field'[p] < Len(Fields)
    <3>1. UNCHANGED <<pc, at>> /\ Doing(p)' = Doing(p) /\ pc'[p] = "put"
      BY <2>1, <2>6 DEF Doing
    <3>2. LandAgrees(p)'
      BY <2>1, <2>2, <2>3, <2>4, <3>1 DEF LandAgrees, Of, Truth
    <3>3. (StageAgrees(p) /\ PartAgrees(p))'
      BY <1>b, <1>c, <2>1, <3>1 DEF PartAgrees, Ready, Of
    <3>4. Agreed'
      <4>1. SUFFICES ASSUME kills = 0, NEW t \in Target, Landed(t)', art[t] # NoFile
                     PROVE  meta'[t] # NoFile /\ Names \subseteq DOMAIN meta'[t] /\ Truth(meta'[t], art[t])
        BY <2>1 DEF Agreed, Truth
      <4>2. t # Doing(p)
        BY <3>1, <4>1 DEF Landed
      <4> QED
        BY <2>5, <4>1, <4>2
    <3> QED
      BY <3>1, <3>2, <3>3, <3>4, AgreeOwn
  <2>7. CASE ~(field'[p] < Len(Fields))
    <3>1. Each(p, "rename", "sweep") /\ field[p] = 4
      BY <2>1, <2>2, <2>4, <2>7, FiveFields
    <3>2. pc'[p] = "sweep" \/ (pc'[p] = "rename" /\ at'[p] = at[p] + 1)
      BY <1>a, <3>1 DEF Each, Goto
    <3>3. (StageAgrees(p) /\ LandAgrees(p))'
      BY <1>c, <2>1, <3>2 DEF LandAgrees
    <3>4. PartAgrees(p)'
      <4>1. SUFFICES ASSUME pc'[p] = "rename", NEW i \in 1..Len(todo[p]), i >= at[p] + 1 PROVE Ready(p, todo[p][i])'
        BY <2>1, <3>2 DEF PartAgrees
      <4>2. Ready(p, todo[p][i])
        BY <1>a, <1>b, <2>1, <4>1 DEF PartAgrees
      <4> QED
        BY <2>1, <4>2 DEF Ready, Of
    <3>5. Names \subseteq DOMAIN W
      BY <2>3, <3>1, FiveFields DEF Names
    <3>6. Agreed'
      <4>1. SUFFICES ASSUME kills = 0, NEW t \in Target, art[t] # NoFile
                     PROVE  meta'[t] # NoFile /\ Names \subseteq DOMAIN meta'[t] /\ Truth(meta'[t], art[t])
        BY <2>1 DEF Agreed, Truth
      <4>2. CASE t # Doing(p)
        BY <2>5, <4>1, <4>2
      <4>3. CASE t = Doing(p)
        <5>1. W # NoFile
          BY <2>3, SidecarIsOne
        <5> QED
          BY <2>3, <2>4, <3>5, <4>3, <5>1
      <4> QED
        BY <4>2, <4>3
    <3> QED
      BY <3>2, <3>3, <3>4, <3>6, AgreeOwn
  <2> QED
    BY <2>6, <2>7
\* steps that write no tree and no sidecar
<1>10. CASE Begin(p) \/ Open(p) \/ Refuse(p) \/ CompileFails(p) \/ PackFails(p) \/ Sweep(p) \/ Kill(p) \/ GcBegin(p)
            \/ ScanStage(p) \/ DropStage(p) \/ ScanParts(p) \/ DropParts(p) \/ (Rename(p) /\ part[Doing(p)] = NoFile)
  <2>1. /\ UNCHANGED <<art, meta, recipe, f, hash, field>>
        /\ \E l \in Steps \ Building : pc' = [pc EXCEPT ![p] = l]
    BY <1>10 DEF Begin, Open, Refuse, CompileFails, PackFails, Sweep, Kill, GcBegin, ScanStage, DropStage, ScanParts,
         DropParts, Rename, Exit, Goto, config, disk, built, Steps, Sweeping
  <2>2. \A t \in Target : part'[t] = part[t] \/ part'[t] = NoFile
    <3>1. CASE DropParts(p)
      BY <3>1 DEF DropParts
    <3>2. CASE ~DropParts(p)
      BY <1>10, <3>2 DEF Begin, Open, Refuse, CompileFails, PackFails, Sweep, Kill, GcBegin, ScanStage, DropStage, ScanParts,
         Rename, disk
    <3> QED
      BY <3>1, <3>2
  <2>3. \A q \in Proc \ {p} : at'[q] = at[q] /\ todo'[q] = todo[q]
    <3>1. CASE Begin(p)
      BY <1>a, <3>1 DEF Begin
    <3>2. CASE ~Begin(p)
      BY <1>10, <3>2 DEF Open, Refuse, CompileFails, PackFails, Sweep, Kill, GcBegin, ScanStage, DropStage, ScanParts,
         DropParts, Rename, built
    <3> QED
      BY <3>1, <3>2
  <2>4. kills' = 0 => kills = 0 /\ pc[p] \notin Landing
    <3>1. CASE Kill(p)
      BY <3>1 DEF Kill, FreshInv, TypeInv, ClaimTyped
    <3>2. CASE ~Kill(p)
      BY <1>10, <3>2 DEF Begin, Open, Refuse, CompileFails, PackFails, Sweep, GcBegin, ScanStage, DropStage, ScanParts,
         DropParts, Rename
    <3> QED
      BY <3>1, <3>2
  <2>5. ASSUME NEW q \in Proc, pc'[q] \in Building 
        PROVE  (\A t \in Target : Mine(q, t) => stage'[t] = stage[t]) /\ q # p /\ pc'[q] = pc[q]
    <3>1. q # p /\ pc'[q] = pc[q]
      BY <1>a, <2>1, <2>5
    <3>2. CASE DropStage(p)
      <4>1. stage' = [t \in Target |-> IF t \in doomed[p] THEN NoFile ELSE stage[t]] /\ Robs(p) = {}
        BY <3>2 DEF DropStage
      <4>2. has[q]
        BY <2>5, <3>1 DEF FreshInv, LandInv, WorkInv, ClaimInv, Holder
      <4>3. \A t \in Target : Mine(q, t) => t \notin doomed[p]
        BY <4>1, <4>2 DEF Robs
      <4> QED
        BY <1>a, <3>1, <4>1, <4>3
    <3>3. CASE Sweep(p)
      BY <1>b, <2>5, <3>1, <3>3 DEF Sweep
    <3>4. CASE ~DropStage(p) /\ ~Sweep(p)
      BY <1>10, <3>1, <3>4 DEF Begin, Open, Refuse, CompileFails, PackFails, Kill, GcBegin, ScanStage, ScanParts,
         DropParts, Rename, disk
    <3> QED
      BY <3>2, <3>3, <3>4
  <2>6. kills' = 0 => \A q \in Proc : pc[q] \in Landing => pc'[q] = pc[q]
    BY <1>a, <2>1, <2>4
  <2> QED
    BY <1>a, <2>1, <2>2, <2>3, <2>4, <2>5, <2>6, AgreeQuiet
<1> QED
  BY <1>1, <1>2, <1>3, <1>4, <1>5, <1>6, <1>7, <1>8, <1>9, <1>10 DEF Step

LEMMA FreshNext == ASSUME robbed' = {}, FreshInv, [Next]_vars PROVE FreshInv'
<1>1. TypeInv' /\ LandInv'
  BY TypeNext, LandNext DEF FreshInv
<1>2. CASE \E p \in Proc : Step(p)
  BY <1>1, <1>2, AgreeStep DEF FreshInv
<1>3. CASE EditRecipe \/ EditFlags \/ UNCHANGED vars
  <2>1. UNCHANGED <<stage, part, art, meta, todo, at, hash, f, pc, field, kills>> /\ recipe <= recipe'
    BY <1>3 DEF EditRecipe, EditFlags, vars, config, disk, built, FreshInv, TypeInv, RunTyped
  <2>2. AgreeInv'
    BY <1>1, <2>1, AgreeQuiet
  <2> QED
    BY <1>1, <2>2 DEF FreshInv
<1> QED
  BY <1>2, <1>3 DEF Next

\* What stale takes as good has the flags there are, and the recipe unless it was edited while
\* it was built, for any targets, edits and commands, and a gc that robs no build.
THEOREM FreshStandsForNow == Spec => []FreshIsCurrent
<1> DEFINE Stands == robbed = {} => FreshInv
<1>1. Stands => FreshIsCurrent
  <2> SUFFICES ASSUME FreshInv, NEW t \in Target, Fresh(t), kills = 0, Landed(t)
               PROVE  /\ art[t].flags = flags
                      /\ meta[t]["hash"] = meta[t]["recipe"] => art[t].recipe = recipe
    BY DEF FreshIsCurrent, Landed
  <2>1. meta[t] # NoFile /\ Names \subseteq DOMAIN meta[t] /\ Truth(meta[t], art[t])
    BY DEF FreshInv, AgreeInv, Agreed, Fresh
  <2>2. {"recipe", "flags", "hash"} \subseteq Names
    BY FiveFields DEF Names, Fields
  <2>3. meta[t]["recipe"] = recipe /\ meta[t]["flags"] = flags
    BY <2>1, <2>2 DEF Fresh
  <2>4. art[t].recipe \in Nat /\ recipe \in Nat
    BY DEF FreshInv, TypeInv, TreesTyped, RunTyped, Tree, Fresh
  <2>5. meta[t]["flags"] = art[t].flags /\ meta[t]["hash"] <= art[t].recipe /\ art[t].recipe <= meta[t]["recipe"]
    BY <2>1, <2>2 DEF Truth
  <2> QED
    BY <2>3, <2>4, <2>5
<1>2. Init => Stands
  BY TypeInit, LandInit, AgreeInit DEF FreshInv
<1>3. Stands /\ [Next]_vars => Stands'
  BY FreshNext, RobbedGrows
<1> QED
  BY <1>1, <1>2, <1>3, PTL DEF Spec
=============================================================================
