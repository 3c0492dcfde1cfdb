--------------------------- MODULE RebuildProofs ----------------------------
(* What holds of every rebuild, for any packages, deps, targets and threads:
   types, filters left as they were or as they worked, the order of BuildOrder,
   and that no row is lost. *)
EXTENDS Rebuild, TLAPS

-----------------------------------------------------------------------------
(* Types. A level runs between the levels before and those behind it. *)
InLevel == {"run", "retry", "redo", "apply"}
AtLevel == pc \in InLevel => at \in DOMAIN plan
TypeInv == TypeOK /\ AtLevel

LEMMA IdleTyped == Idle \in Running
BY RebuildAssumption DEF Idle, Abi, Running

LEMMA LinkingTyped == ASSUME NEW i \in Item, NEW f \in [Item -> Abi] PROVE Linking(i, f) \in [Item -> Abi]
BY DEF Linking, Abi

LEMMA TypeInit == ASSUME Init PROVE TypeInv
<1>1. WorldTyped
  <2>1. inst \in [Item -> Abi] /\ linked \in [Item -> [Item -> Abi]]
    BY LinkingTyped DEF Init
  <2> QED
    BY <2>1 DEF Init, WorldTyped
<1>2. LinesTyped
  BY DEF Init, LinesTyped
<1>3. PlanTyped /\ AtLevel
  <2>1. plan \in Seq(SUBSET (Item \X BOOLEAN)) /\ at \in 0 .. Len(plan) + 1
    BY DEF Init
  <2>2. pc = "idle" /\ {want, left, done, failed, stands} \subseteq SUBSET Item
    BY DEF Init
  <2> QED
    BY <2>1, <2>2 DEF Init, PlanTyped, AtLevel, InLevel
<1>4. PoolTyped
  <2>1. art \in [Item -> Build]
    BY DEF Init, Build, Abi
  <2> QED
    BY <2>1, IdleTyped DEF Init, PoolTyped
<1>5. Counted
  BY RebuildAssumption DEF Init, Counted
<1> QED
  BY <1>1, <1>2, <1>3, <1>4, <1>5 DEF TypeInv, TypeOK

\* what an action leaves alone keeps its type
LEMMA WorldStays == ASSUME WorldTyped, UNCHANGED world PROVE WorldTyped'
BY DEF WorldTyped, world
LEMMA LinesStay == ASSUME LinesTyped, UNCHANGED <<lines, before, proven, present>> PROVE LinesTyped'
BY DEF LinesTyped
LEMMA PlanStays == ASSUME PlanTyped, UNCHANGED <<waiting, brought, pc, local>> PROVE PlanTyped'
BY DEF PlanTyped, local
LEMMA PoolStays == ASSUME PoolTyped, UNCHANGED <<level, todo, th, errs, art>> PROVE PoolTyped'
BY DEF PoolTyped
LEMMA CountStays == ASSUME Counted, UNCHANGED <<waits, runs, bumps, kills>> PROVE Counted'
BY DEF Counted

\* a process that is gone
LEMMA LeaveTypes ==
  ASSUME TypeInv, Leave PROVE PlanTyped' /\ AtLevel' /\ PoolTyped' /\ waits' \in 0 .. MaxWaits
<1>1. (art \in [Item -> Build])'
  BY DEF Leave, Build, Abi
<1>2. (plan \in Seq(SUBSET (Item \X BOOLEAN)) /\ at \in 0 .. Len(plan) + 1)'
  BY DEF Leave
<1>3. ({want, left, done, failed, stands} \subseteq SUBSET Item)'
  BY DEF Leave
<1> QED
  <2>1. PlanTyped' /\ AtLevel'
    BY <1>2, <1>3 DEF Leave, PlanTyped, AtLevel, InLevel
  <2>2. PoolTyped'
    BY <1>1, IdleTyped DEF Leave, PoolTyped
  <2> QED
    BY <2>1, <2>2, RebuildAssumption DEF Leave

LEMMA RungInLadder ==
  ASSUME PoolTyped, NEW t \in Threads, NEW k \in Rungs(t)
  PROVE  k \in 1 .. Len(Ladder) /\ Ladder[k] \in Line
<1>1. th[t].rung \in 0 .. Len(Ladder) /\ Len(Ladder) \in Nat
  BY RebuildAssumption DEF PoolTyped, Running
<1>2. k \in th[t].rung + 1 .. Len(Ladder)
  BY DEF Rungs
<1>3. k \in 1 .. Len(Ladder)
  BY <1>1, <1>2
<1> QED
  BY <1>3, RebuildAssumption

LEMMA TypeNext == ASSUME TypeInv, [Next]_vars PROVE TypeInv'
<1> USE DEF TypeInv, TypeOK
<1>1. CASE \E i \in Item : Bump(i)
  <2>0. PICK i \in Item : Bump(i)
    BY <1>1
  <2>1. WorldTyped'
    BY <2>0, RebuildAssumption DEF Bump, WorldTyped
  <2>2. LinesTyped'
    BY <2>0, LinesStay DEF Bump, count
  <2>3. PlanTyped'
    BY <2>0, PlanStays DEF Bump, local
  <2>4. AtLevel'
    BY <2>0 DEF Bump, AtLevel, local
  <2>5. PoolTyped'
    BY <2>0, PoolStays DEF Bump, pool
  <2>6. Counted'
    BY <2>0, RebuildAssumption DEF Bump, Counted, pool
  <2> QED
    BY <2>1, <2>2, <2>3, <2>4, <2>5, <2>6
<1>2. CASE \E n \in Name : Install(n)
  <2>0. PICK n \in Name : Install(n)
    BY <1>2
  <2>1. WorldTyped'
    <3>1. inst' \in [Item -> Abi] /\ linked' \in [Item -> [Item -> Abi]]
      BY <2>0, LinkingTyped DEF Install, WorldTyped
    <3>2. queue' \subseteq Row
      BY <2>0 DEF Install, Affected, WorldTyped
    <3> QED
      BY <2>0, <3>1, <3>2 DEF Install, WorldTyped
  <2>2. LinesTyped'
    BY <2>0, LinesStay DEF Install, count
  <2>3. PlanTyped'
    BY <2>0, PlanStays DEF Install, local
  <2>4. AtLevel'
    BY <2>0 DEF Install, AtLevel, local
  <2>5. PoolTyped'
    BY <2>0, PoolStays DEF Install, pool
  <2>6. Counted'
    BY <2>0, CountStays DEF Install, pool, count
  <2> QED
    BY <2>1, <2>2, <2>3, <2>4, <2>5, <2>6
<1>3. CASE Kill
  <2>1. WorldTyped'
    BY <1>3, WorldStays DEF Kill, world
  <2>2. LinesTyped'
    BY <1>3 DEF Kill, LinesTyped, Leave
  <2>3. PlanTyped' /\ AtLevel' /\ PoolTyped'
    BY <1>3, LeaveTypes DEF Kill
  <2>4. Counted'
    BY <1>3, LeaveTypes, RebuildAssumption DEF Kill, Counted
  <2> QED
    BY <2>1, <2>2, <2>3, <2>4
<1>4. CASE Begin
  <2>1. WorldTyped'
    BY <1>4 DEF Begin, WorldTyped
  <2>2. LinesTyped'
    BY <1>4 DEF Begin, LinesTyped
  <2>3. PlanTyped'
    BY <1>4 DEF Begin, WorldTyped, PlanTyped, Row
  <2>4. AtLevel'
    BY <1>4 DEF Begin, AtLevel, InLevel
  <2>5. PoolTyped'
    BY <1>4, PoolStays DEF Begin, pool
  <2>6. Counted'
    BY <1>4, RebuildAssumption DEF Begin, Counted, pool
  <2> QED
    BY <2>1, <2>2, <2>3, <2>4, <2>5, <2>6
<1>5. CASE PlanLevel
  <2>1. WorldTyped'
    BY <1>5, WorldStays DEF PlanLevel, world
  <2>2. LinesTyped'
    BY <1>5, LinesStay DEF PlanLevel, count
  <2>3. PlanTyped'
    <3>1. (plan \in Seq(SUBSET (Item \X BOOLEAN)) /\ at \in 0 .. Len(plan) + 1)'
      <4> DEFINE L == {<<i, FALSE>> : i \in Unblocked}
      <4>1. Unblocked \subseteq Item
        BY DEF PlanTyped, Unblocked
      <4>2. L \in SUBSET (Item \X BOOLEAN)
        <5>1. FALSE \in BOOLEAN
          OBVIOUS
        <5>2. \A i \in Unblocked : <<i, FALSE>> \in Item \X BOOLEAN
          BY <4>1, <5>1
        <5> QED
          BY <5>2, Zenon
      <4>3. plan' = Append(plan, L) /\ at' = at
        BY <1>5 DEF PlanLevel, local
      <4> HIDE DEF L
      <4>4. plan' \in Seq(SUBSET (Item \X BOOLEAN)) /\ Len(plan') = Len(plan) + 1
        BY <4>2, <4>3 DEF PlanTyped
      <4> QED
        BY <4>3, <4>4 DEF PlanTyped
    <3>2. ({want, left, done, failed, stands} \subseteq SUBSET Item)'
      BY <1>5 DEF PlanLevel, PlanTyped, Unblocked
    <3> QED
      BY <1>5, <3>1, <3>2 DEF PlanLevel, PlanTyped
  <2>4. AtLevel'
    BY <1>5 DEF PlanLevel, AtLevel, InLevel
  <2>5. PoolTyped'
    BY <1>5, PoolStays DEF PlanLevel, pool
  <2>6. Counted'
    BY <1>5, CountStays DEF PlanLevel, pool, count
  <2> QED
    BY <2>1, <2>2, <2>3, <2>4, <2>5, <2>6
<1>6. CASE PlanBoot
  <2>1. WorldTyped'
    BY <1>6, WorldStays DEF PlanBoot, world
  <2>2. LinesTyped'
    BY <1>6, LinesStay DEF PlanBoot, count
  <2>3. PlanTyped'
    <3>1. (plan \in Seq(SUBSET (Item \X BOOLEAN)) /\ at \in 0 .. Len(plan) + 1)'
      <4> DEFINE L == {<<i, TRUE>> : i \in Starts}
      <4>1. Starts \subseteq Item
        BY DEF PlanTyped, Starts
      <4>2. L \in SUBSET (Item \X BOOLEAN)
        <5>1. TRUE \in BOOLEAN
          OBVIOUS
        <5>2. \A i \in Starts : <<i, TRUE>> \in Item \X BOOLEAN
          BY <4>1, <5>1
        <5> QED
          BY <5>2, Zenon
      <4>3. plan' = Append(plan, L) /\ at' = at
        BY <1>6 DEF PlanBoot, local
      <4> HIDE DEF L
      <4>4. plan' \in Seq(SUBSET (Item \X BOOLEAN)) /\ Len(plan') = Len(plan) + 1
        BY <4>2, <4>3 DEF PlanTyped
      <4> QED
        BY <4>3, <4>4 DEF PlanTyped
    <3>2. ({want, left, done, failed, stands} \subseteq SUBSET Item)'
      BY <1>6 DEF PlanBoot, PlanTyped, Starts
    <3> QED
      BY <1>6, <3>1, <3>2 DEF PlanBoot, PlanTyped
  <2>4. AtLevel'
    BY <1>6 DEF PlanBoot, AtLevel, InLevel
  <2>5. PoolTyped'
    BY <1>6, PoolStays DEF PlanBoot, pool
  <2>6. Counted'
    BY <1>6, CountStays DEF PlanBoot, pool, count
  <2> QED
    BY <2>1, <2>2, <2>3, <2>4, <2>5, <2>6
<1>7. CASE PlanDies
  <2>1. WorldTyped'
    BY <1>7, WorldStays DEF PlanDies, world
  <2>2. LinesTyped'
    BY <1>7 DEF PlanDies, LinesTyped, count
  <2>3. PlanTyped' /\ AtLevel' /\ PoolTyped'
    BY <1>7, LeaveTypes DEF PlanDies
  <2>4. Counted'
    BY <1>7, LeaveTypes DEF PlanDies, Counted, count
  <2> QED
    BY <2>1, <2>2, <2>3, <2>4
<1>8. CASE Bring
  <2>1. WorldTyped'
    BY <1>8, WorldStays DEF Bring, world
  <2>2. LinesTyped'
    BY <1>8 DEF Bring, LinesTyped, count
  <2>3. PlanTyped'
    BY <1>8 DEF Bring, PlanTyped
  <2>4. AtLevel'
    BY <1>8 DEF Bring, AtLevel, InLevel
  <2>5. PoolTyped'
    BY <1>8, PoolStays DEF Bring, pool
  <2>6. Counted'
    BY <1>8, CountStays DEF Bring, pool, count
  <2> QED
    BY <2>1, <2>2, <2>3, <2>4, <2>5, <2>6
<1>9. CASE StartLevel
  <2>1. WorldTyped'
    BY <1>9, WorldStays DEF StartLevel, world
  <2>2. LinesTyped'
    BY <1>9, LinesStay DEF StartLevel, count
  <2>3. PlanTyped'
    <3>1. (plan \in Seq(SUBSET (Item \X BOOLEAN)) /\ at \in 0 .. Len(plan) + 1)'
      BY <1>9 DEF StartLevel, PlanTyped
    <3>2. ({want, left, done, failed, stands} \subseteq SUBSET Item)'
      <4>1. PICK S \in SUBSET plan[at] : failed' = failed \cup {x[1] : x \in S}
        BY <1>9 DEF StartLevel
      <4>2. plan[at] \subseteq Item \X BOOLEAN
        BY <1>9 DEF StartLevel, PlanTyped
      <4>3. {x[1] : x \in S} \subseteq Item
        BY <4>2
      <4> QED
        BY <1>9, <4>1, <4>3 DEF StartLevel, PlanTyped
    <3> QED
      BY <1>9, <3>1, <3>2 DEF StartLevel, PlanTyped
  <2>4. AtLevel'
    BY <1>9 DEF StartLevel, AtLevel, InLevel
  <2>5. PoolTyped'
    BY <1>9, RebuildAssumption DEF StartLevel, Names, PlanTyped, PoolTyped
  <2>6. Counted'
    BY <1>9, CountStays DEF StartLevel, pool, count
  <2> QED
    BY <2>1, <2>2, <2>3, <2>4, <2>5, <2>6
<1>10. CASE \E t \in Threads : Take(t)
  <2>0. PICK t \in Threads : Take(t)
    BY <1>10
  <2>1. WorldTyped'
    BY <2>0, WorldStays DEF Take, world
  <2>2. LinesTyped'
    BY <2>0 DEF Take, Starting, LinesTyped, PoolTyped
  <2>3. PlanTyped'
    BY <2>0, PlanStays DEF Take, local
  <2>4. AtLevel'
    BY <2>0 DEF Take, AtLevel, local
  <2>5. PoolTyped'
    BY <2>0, RebuildAssumption DEF Take, Starting, WorldTyped, PoolTyped, Running, world
  <2>6. Counted'
    BY <2>0, CountStays DEF Take, pool, count
  <2> QED
    BY <2>1, <2>2, <2>3, <2>4, <2>5, <2>6
<1>11. CASE \E t \in Threads : Waits(t)
  <2>0. PICK t \in Threads : Waits(t)
    BY <1>11
  <2>1. WorldTyped'
    BY <2>0, WorldStays DEF Waits, world
  <2>2. LinesTyped'
    BY <2>0 DEF Waits, Undo, Free, LinesTyped, PoolTyped, Running, count
  <2>3. PlanTyped'
    BY <2>0 DEF Waits, PlanTyped, local
  <2>4. AtLevel'
    BY <2>0 DEF Waits, AtLevel, local
  <2>5. PoolTyped'
    BY <2>0, IdleTyped DEF Waits, Ended, PoolTyped
  <2>6. Counted'
    BY <2>0, CountStays DEF Waits, pool, count
  <2> QED
    BY <2>1, <2>2, <2>3, <2>4, <2>5, <2>6
<1>12. CASE \E t \in Threads : Succeeds(t)
  <2>0. PICK t \in Threads : Succeeds(t)
    BY <1>12
  <2>1. WorldTyped'
    BY <2>0, WorldStays DEF Succeeds, world
  <2>2. LinesTyped'
    BY <2>0, LinesStay DEF Succeeds, count
  <2>3. PlanTyped'
    BY <2>0, PlanStays DEF Succeeds, local
  <2>4. AtLevel'
    BY <2>0 DEF Succeeds, AtLevel, local
  <2>5. PoolTyped'
    <3>1. \A i \in Item : [abi |-> recipe[i], linked |-> Linking(i, th[t].seen)] \in Build
      BY <2>0, LinkingTyped DEF WorldTyped, PoolTyped, Running, Build
    <3>2. art' \in [Item -> Build]
      BY <2>0, <3>1 DEF Succeeds, PoolTyped
    <3> QED
      BY <2>0, <3>2, IdleTyped DEF Succeeds, Ended, PoolTyped
  <2>6. Counted'
    BY <2>0, CountStays DEF Succeeds, pool, count
  <2> QED
    BY <2>1, <2>2, <2>3, <2>4, <2>5, <2>6
<1>13. CASE \E t \in Threads : Fails(t)
  <2>0. PICK t \in Threads : Fails(t)
    BY <1>13
  <2>1. WorldTyped'
    BY <2>0, WorldStays DEF Fails, world
  <2>2. LinesTyped'
    BY <2>0 DEF Fails, Undo, LinesTyped, PoolTyped, Running, count
  <2>3. PlanTyped'
    BY <2>0, PlanStays DEF Fails, local
  <2>4. AtLevel'
    BY <2>0 DEF Fails, AtLevel, local
  <2>5. PoolTyped'
    BY <2>0, IdleTyped DEF Fails, Ended, PoolTyped
  <2>6. Counted'
    BY <2>0, CountStays DEF Fails, pool, count
  <2> QED
    BY <2>1, <2>2, <2>3, <2>4, <2>5, <2>6
<1>14. CASE \E t \in Threads : Fix(t)
  <2>0. PICK t \in Threads : Fix(t)
    BY <1>14
  <2>1. WorldTyped'
    BY <2>0, WorldStays DEF Fix, world
  <2>2. LinesTyped'
    BY <2>0 DEF Fix, Retries, Fixable, Fresh, LinesTyped, count
  <2>3. PlanTyped'
    BY <2>0, PlanStays DEF Fix, local
  <2>4. AtLevel'
    BY <2>0 DEF Fix, AtLevel, local
  <2>5. PoolTyped'
    BY <2>0 DEF Fix, Retries, Fixable, Fresh, WorldTyped, PoolTyped, Running
  <2>6. Counted'
    BY <2>0, CountStays DEF Fix, pool, count
  <2> QED
    BY <2>1, <2>2, <2>3, <2>4, <2>5, <2>6
<1>15. CASE \E t \in Threads : Climb(t)
  <2>0. PICK t \in Threads : Climb(t)
    BY <1>15
  <2>1. WorldTyped'
    BY <2>0, WorldStays DEF Climb, world
  <2>2. LinesTyped'
    <3>1. PICK k \in Rungs(t) : lines' = [lines EXCEPT ![th[t].name] = @ \cup {Ladder[k]}]
      BY <2>0 DEF Climb
    <3>2. Ladder[k] \in Line
      BY <3>1, RungInLadder
    <3> QED
      BY <2>0, <3>1, <3>2 DEF Climb, LinesTyped, count
  <2>3. PlanTyped'
    BY <2>0, PlanStays DEF Climb, local
  <2>4. AtLevel'
    BY <2>0 DEF Climb, AtLevel, local
  <2>5. PoolTyped'
    <3>1. PICK k \in Rungs(t) : th' = [th EXCEPT ![t].rung = k, ![t].seen = inst,
                                                  ![t].tried = IF Fresh(t) THEN @ \cup {Log(t)} ELSE @]
      BY <2>0 DEF Climb
    <3>2. k \in 0 .. Len(Ladder)
      BY <3>1, RungInLadder, RebuildAssumption
    <3> QED
      <4>1. [th[t] EXCEPT !.rung = k, !.seen = inst, !.tried = IF Fresh(t) THEN @ \cup {Log(t)} ELSE @] \in Running
        BY <3>2 DEF Fresh, WorldTyped, PoolTyped, Running
      <4> QED
        BY <2>0, <3>1, <4>1 DEF Climb, PoolTyped
  <2>6. Counted'
    BY <2>0, CountStays DEF Climb, pool, count
  <2> QED
    BY <2>1, <2>2, <2>3, <2>4, <2>5, <2>6
<1>16. CASE Swap
  <2>1. WorldTyped'
    BY <1>16, WorldStays DEF Swap, world
  <2>2. LinesTyped'
    BY <1>16, LinesStay DEF Swap, count
  <2>3. PlanTyped'
    BY <1>16 DEF Swap, PlanTyped, local
  <2>4. AtLevel'
    BY <1>16 DEF Swap, AtLevel, InLevel, local
  <2>5. PoolTyped'
    BY <1>16 DEF Swap, PoolTyped
  <2>6. Counted'
    BY <1>16, CountStays DEF Swap, pool, count
  <2> QED
    BY <2>1, <2>2, <2>3, <2>4, <2>5, <2>6
<1>17. CASE Retry
  <2>1. WorldTyped'
    BY <1>17, WorldStays DEF Retry, world
  <2>2. LinesTyped'
    BY <1>17 DEF Retry, Bringing, Starting, LinesTyped
  <2>3. PlanTyped'
    BY <1>17 DEF Retry, Bringing, PlanTyped, local
  <2>4. AtLevel'
    BY <1>17 DEF Retry, AtLevel, InLevel, local
  <2>5. PoolTyped'
    BY <1>17, RebuildAssumption DEF Retry, Bringing, Starting, WorldTyped, PoolTyped, Running, world
  <2>6. Counted'
    BY <1>17, RebuildAssumption DEF Retry, Counted
  <2> QED
    BY <2>1, <2>2, <2>3, <2>4, <2>5, <2>6
<1>18. CASE Redo
  <2>1. WorldTyped'
    BY <1>18, WorldStays DEF Redo, world
  <2>2. LinesTyped'
    BY <1>18 DEF Redo, Bringing, Starting, LinesTyped
  <2>3. PlanTyped'
    BY <1>18 DEF Redo, Bringing, PlanTyped, local
  <2>4. AtLevel'
    BY <1>18 DEF Redo, AtLevel, InLevel, local
  <2>5. PoolTyped'
    BY <1>18, RebuildAssumption DEF Redo, Bringing, Starting, WorldTyped, PoolTyped, Running, world
  <2>6. Counted'
    BY <1>18, RebuildAssumption DEF Redo, Counted
  <2> QED
    BY <2>1, <2>2, <2>3, <2>4, <2>5, <2>6
<1>19. CASE Redone
  <2>1. WorldTyped'
    BY <1>19, WorldStays DEF Redone, world
  <2>2. LinesTyped'
    BY <1>19, LinesStay DEF Redone, count
  <2>3. PlanTyped'
    BY <1>19 DEF Redone, PlanTyped, local
  <2>4. AtLevel'
    BY <1>19 DEF Redone, AtLevel, InLevel, local
  <2>5. PoolTyped'
    BY <1>19 DEF Redone, PoolTyped
  <2>6. Counted'
    BY <1>19, CountStays DEF Redone, pool, count
  <2> QED
    BY <2>1, <2>2, <2>3, <2>4, <2>5, <2>6
<1>20. CASE Collect
  <2>1. WorldTyped'
    BY <1>20, WorldStays DEF Collect, world
  <2>2. LinesTyped'
    BY <1>20, LinesStay DEF Collect, count
  <2>3. PlanTyped'
    BY <1>20 DEF Collect, Bad, Made, PlanTyped, PoolTyped
  <2>4. AtLevel'
    BY <1>20 DEF Collect, AtLevel, InLevel
  <2>5. PoolTyped'
    BY <1>20, PoolStays DEF Collect, pool
  <2>6. Counted'
    BY <1>20, CountStays DEF Collect, pool, count
  <2> QED
    BY <2>1, <2>2, <2>3, <2>4, <2>5, <2>6
<1>21. CASE Apply
  <2>1. WorldTyped'
    BY <1>21 DEF Apply, Made, Affected, WorldTyped, PoolTyped, Build
  <2>2. LinesTyped'
    BY <1>21, LinesStay DEF Apply, count
  <2>3. PlanTyped'
    <3>1. (plan \in Seq(SUBSET (Item \X BOOLEAN)) /\ at \in 0 .. Len(plan) + 1)'
      BY <1>21 DEF Apply, PlanTyped, AtLevel, InLevel
    <3>2. ({want, left, done, failed, stands} \subseteq SUBSET Item)'
      <4>1. Made \subseteq Item
        BY DEF Made, PoolTyped
      <4> QED
        BY <1>21, <4>1 DEF Apply, PlanTyped
    <3> QED
      BY <1>21, <3>1, <3>2 DEF Apply, PlanTyped
  <2>4. AtLevel'
    BY <1>21 DEF Apply, AtLevel, InLevel
  <2>5. PoolTyped'
    <3>1. art' \in [Item -> Build]
      BY <1>21 DEF Apply, Build, Abi
    <3> QED
      BY <1>21, <3>1 DEF Apply, PoolTyped
  <2>6. Counted'
    BY <1>21, RebuildAssumption DEF Apply, Counted, count
  <2> QED
    BY <2>1, <2>2, <2>3, <2>4, <2>5, <2>6
<1>22. CASE Drop
  <2>1. WorldTyped'
    BY <1>22 DEF Drop, WorldTyped
  <2>2. LinesTyped'
    BY <1>22 DEF Drop, LinesTyped, count
  <2>3. PlanTyped' /\ AtLevel' /\ PoolTyped'
    BY <1>22, LeaveTypes DEF Drop
  <2>4. Counted'
    BY <1>22, LeaveTypes DEF Drop, Counted, count
  <2> QED
    BY <2>1, <2>2, <2>3, <2>4
<1>23. CASE UNCHANGED vars
  BY <1>23, WorldStays, LinesStay, PlanStays, PoolStays, CountStays DEF vars, world, local, pool, AtLevel
<1> QED
  BY <1>1, <1>2, <1>3, <1>4, <1>5, <1>6, <1>7, <1>8, <1>9, <1>10, <1>11, <1>12, <1>13, <1>14, <1>15, <1>16, <1>17, <1>18, <1>19, <1>20, <1>21, <1>22, <1>23 DEF Next, Alone, Works

\* Types, and that a level that runs is one of the plan.
THEOREM TypeCorrect == Spec => []TypeOK
<1>1. TypeInv => TypeOK
  BY DEF TypeInv
<1> QED
  BY <1>1, TypeInit, TypeNext, PTL DEF Spec

-----------------------------------------------------------------------------
(* Filters. Who has an outcome is not being built, and a package is built by one
   thread at a time, so nobody else writes its lines behind the outcome. *)
ErrsInv ==
  /\ \A t \in Threads : ~Free(t) => /\ pc \in {"run", "redo"}
                                    /\ errs[th[t].name] = "none" /\ th[t].name \notin todo
  /\ \A t, u \in Threads : ~Free(t) /\ th[t].name = th[u].name => t = u
  /\ pc # "run" => todo = {}
  /\ \A n \in todo : errs[n] = "none"
  /\ pc \in {"idle", "plan", "level"} => \A n \in Name : errs[n] = "none"
FilterInv == TypeInv /\ ErrsInv /\ FilterHonest

LEMMA FilterInit == ASSUME Init PROVE FilterInv
BY TypeInit DEF Init, FilterInv, ErrsInv, FilterHonest, Free, Idle

LEMMA FilterNext == ASSUME FilterInv, [Next]_vars PROVE FilterInv'
<1> USE TypeNext, RebuildAssumption DEF FilterInv
<1>0. TypeInv' /\ PlanTyped /\ PoolTyped /\ LinesTyped
  BY DEF TypeInv, TypeOK
<1>1. CASE \E i \in Item : Bump(i)
  <2>0. PICK i \in Item : Bump(i)
    BY <1>1
  <2>1. ErrsInv'
    BY <2>0, <1>0 DEF Bump, ErrsInv, Free, Idle, PoolTyped, Running, pool, count
  <2>2. FilterHonest'
    BY <2>0, <1>0 DEF Bump, ErrsInv, FilterHonest, Free, PoolTyped, LinesTyped, Running, pool, count
  <2> QED
    BY <1>0, <2>1, <2>2
<1>2. CASE \E n \in Name : Install(n)
  <2>0. PICK n \in Name : Install(n)
    BY <1>2
  <2>1. ErrsInv'
    BY <2>0, <1>0 DEF Install, ErrsInv, Free, Idle, PoolTyped, Running, pool, count
  <2>2. FilterHonest'
    BY <2>0, <1>0 DEF Install, ErrsInv, FilterHonest, Free, PoolTyped, LinesTyped, Running, pool, count
  <2> QED
    BY <1>0, <2>1, <2>2
<1>3. CASE Kill
  <2>1. ErrsInv'
    BY <1>3, <1>0 DEF Kill, ErrsInv, Free, Idle, PoolTyped, Running, Leave, TypeInv, TypeOK, LinesTyped, PoolTyped
  <2>2. FilterHonest'
    BY <1>3, <1>0 DEF Kill, ErrsInv, FilterHonest, Free, PoolTyped, LinesTyped, Running, Leave, TypeInv, TypeOK, LinesTyped, PoolTyped
  <2> QED
    BY <1>0, <2>1, <2>2
<1>4. CASE Begin
  <2>1. ErrsInv'
    BY <1>4, <1>0 DEF Begin, ErrsInv, Free, Idle, PoolTyped, Running, pool
  <2>2. FilterHonest'
    BY <1>4, <1>0 DEF Begin, ErrsInv, FilterHonest, Free, PoolTyped, LinesTyped, Running, pool
  <2> QED
    BY <1>0, <2>1, <2>2
<1>5. CASE PlanLevel
  <2>1. ErrsInv'
    BY <1>5, <1>0 DEF PlanLevel, ErrsInv, Free, Idle, PoolTyped, Running, pool, count
  <2>2. FilterHonest'
    BY <1>5, <1>0 DEF PlanLevel, ErrsInv, FilterHonest, Free, PoolTyped, LinesTyped, Running, pool, count
  <2> QED
    BY <1>0, <2>1, <2>2
<1>6. CASE PlanBoot
  <2>1. ErrsInv'
    BY <1>6, <1>0 DEF PlanBoot, ErrsInv, Free, Idle, PoolTyped, Running, pool, count
  <2>2. FilterHonest'
    BY <1>6, <1>0 DEF PlanBoot, ErrsInv, FilterHonest, Free, PoolTyped, LinesTyped, Running, pool, count
  <2> QED
    BY <1>0, <2>1, <2>2
<1>7. CASE PlanDies
  <2>1. ErrsInv'
    BY <1>7, <1>0 DEF PlanDies, ErrsInv, Free, Idle, PoolTyped, Running, Leave, count
  <2>2. FilterHonest'
    BY <1>7, <1>0 DEF PlanDies, ErrsInv, FilterHonest, Free, PoolTyped, LinesTyped, Running, Leave, count
  <2> QED
    BY <1>0, <2>1, <2>2
<1>8. CASE Bring
  <2>1. ErrsInv'
    BY <1>8, <1>0 DEF Bring, ErrsInv, Free, Idle, PoolTyped, Running, pool, count
  <2>2. FilterHonest'
    BY <1>8, <1>0 DEF Bring, ErrsInv, FilterHonest, Free, PoolTyped, LinesTyped, Running, pool, count
  <2> QED
    BY <1>0, <2>1, <2>2
<1>9. CASE StartLevel
  <2>0. todo' \subseteq Name
    BY <1>0 DEF TypeInv, TypeOK, PoolTyped
  <2>1. ErrsInv'
    BY <1>9, <1>0, <2>0 DEF StartLevel, ErrsInv, Free, count
  <2>2. FilterHonest'
    BY <1>9, <1>0 DEF StartLevel, ErrsInv, FilterHonest, Free, PoolTyped, LinesTyped, Running, count
  <2> QED
    BY <1>0, <2>1, <2>2
<1>10. CASE \E t \in Threads : Take(t)
  <2>0. PICK t \in Threads : Take(t)
    BY <1>10
  <2>1. ErrsInv'
    BY <2>0, <1>0 DEF Take, ErrsInv, Free, Idle, PoolTyped, Running, Starting
  <2>2. FilterHonest'
    BY <2>0, <1>0 DEF Take, ErrsInv, FilterHonest, Free, PoolTyped, LinesTyped, Running, Starting
  <2> QED
    BY <1>0, <2>1, <2>2
<1>11. CASE \E t \in Threads : Waits(t)
  <2>0. PICK t \in Threads : Waits(t)
    BY <1>11
  <2>1. ErrsInv'
    BY <2>0, <1>0 DEF Waits, ErrsInv, Free, Idle, PoolTyped, Running, Ended, Undo, count
  <2>2. FilterHonest'
    BY <2>0, <1>0 DEF Waits, ErrsInv, FilterHonest, Free, PoolTyped, LinesTyped, Running, Ended, Undo, count
  <2> QED
    BY <1>0, <2>1, <2>2
<1>12. CASE \E t \in Threads : Succeeds(t)
  <2>0. PICK t \in Threads : Succeeds(t)
    BY <1>12
  <2>1. ErrsInv'
    BY <2>0, <1>0 DEF Succeeds, ErrsInv, Free, Idle, PoolTyped, Running, Ended, Log, count
  <2>2. FilterHonest'
    BY <2>0, <1>0 DEF Succeeds, ErrsInv, FilterHonest, Free, PoolTyped, LinesTyped, Running, Ended, Log, count
  <2> QED
    BY <1>0, <2>1, <2>2
<1>13. CASE \E t \in Threads : Fails(t)
  <2>0. PICK t \in Threads : Fails(t)
    BY <1>13
  <2>1. ErrsInv'
    BY <2>0, <1>0 DEF Fails, ErrsInv, Free, Idle, PoolTyped, Running, Ended, Undo, count
  <2>2. FilterHonest'
    BY <2>0, <1>0 DEF Fails, ErrsInv, FilterHonest, Free, PoolTyped, LinesTyped, Running, Ended, Undo, count
  <2> QED
    BY <1>0, <2>1, <2>2
<1>14. CASE \E t \in Threads : Fix(t)
  <2>0. PICK t \in Threads : Fix(t)
    BY <1>14
  <2>1. ErrsInv'
    BY <2>0, <1>0 DEF Fix, ErrsInv, Free, Idle, PoolTyped, Running, Retries, count
  <2>2. FilterHonest'
    BY <2>0, <1>0 DEF Fix, ErrsInv, FilterHonest, Free, PoolTyped, LinesTyped, Running, Retries, count
  <2> QED
    BY <1>0, <2>1, <2>2
<1>15. CASE \E t \in Threads : Climb(t)
  <2>0. PICK t \in Threads : Climb(t)
    BY <1>15
  <2>1. ErrsInv'
    BY <2>0, <1>0 DEF Climb, ErrsInv, Free, Idle, PoolTyped, Running, Retries, count
  <2>2. FilterHonest'
    BY <2>0, <1>0 DEF Climb, ErrsInv, FilterHonest, Free, PoolTyped, LinesTyped, Running, Retries, count
  <2> QED
    BY <1>0, <2>1, <2>2
<1>16. CASE Swap
  <2>1. ErrsInv'
    BY <1>16, <1>0 DEF Swap, ErrsInv, Free, Idle, PoolTyped, Running, AllFree, count
  <2>2. FilterHonest'
    BY <1>16, <1>0 DEF Swap, ErrsInv, FilterHonest, Free, PoolTyped, LinesTyped, Running, AllFree, count
  <2> QED
    BY <1>0, <2>1, <2>2
<1>17. CASE Retry
  <2>1. ErrsInv'
    <3>1. PICK n \in Name, t \in Threads :
            /\ errs' = [errs EXCEPT ![n] = "none"]
            /\ th' = [th EXCEPT ![t] = [name |-> n, seen |-> inst, tried |-> {}, rung |-> 0]]
      BY <1>17 DEF Retry, Bringing, Starting
    <3>2. \A u \in Threads : Free(u)
      BY <1>17 DEF Retry, AllFree, ErrsInv
    <3>3. pc' = "redo" /\ todo' = {}
      BY <1>17 DEF Retry, ErrsInv
    <3>4. th'[t].name = n /\ \A u \in Threads \ {t} : th'[u].name = NoName
      BY <1>0, <3>1, <3>2 DEF PoolTyped, Free
    <3>5. errs'[n] = "none"
      BY <1>0, <3>1 DEF PoolTyped
    <3> QED
      BY <3>3, <3>4, <3>5 DEF ErrsInv, Free
  <2>2. FilterHonest'
    BY <1>17, <1>0 DEF Retry, ErrsInv, FilterHonest, Free, PoolTyped, LinesTyped, Running, Bringing, Starting
  <2> QED
    BY <1>0, <2>1, <2>2
<1>18. CASE Redo
  <2>1. ErrsInv'
    <3>1. PICK n \in Name, t \in Threads :
            /\ errs' = [errs EXCEPT ![n] = "none"]
            /\ th' = [th EXCEPT ![t] = [name |-> n, seen |-> inst, tried |-> {}, rung |-> 0]]
      BY <1>18 DEF Redo, Bringing, Starting
    <3>2. \A u \in Threads : Free(u)
      BY <1>18 DEF Redo, AllFree, ErrsInv
    <3>3. pc' = "redo" /\ todo' = {}
      BY <1>18 DEF Redo, ErrsInv
    <3>4. th'[t].name = n /\ \A u \in Threads \ {t} : th'[u].name = NoName
      BY <1>0, <3>1, <3>2 DEF PoolTyped, Free
    <3>5. errs'[n] = "none"
      BY <1>0, <3>1 DEF PoolTyped
    <3> QED
      BY <3>3, <3>4, <3>5 DEF ErrsInv, Free
  <2>2. FilterHonest'
    BY <1>18, <1>0 DEF Redo, ErrsInv, FilterHonest, Free, PoolTyped, LinesTyped, Running, Bringing, Starting, AllFree
  <2> QED
    BY <1>0, <2>1, <2>2
<1>19. CASE Redone
  <2>1. ErrsInv'
    BY <1>19, <1>0 DEF Redone, ErrsInv, Free, Idle, PoolTyped, Running, AllFree, count
  <2>2. FilterHonest'
    BY <1>19, <1>0 DEF Redone, ErrsInv, FilterHonest, Free, PoolTyped, LinesTyped, Running, AllFree, count
  <2> QED
    BY <1>0, <2>1, <2>2
<1>20. CASE Collect
  <2>1. ErrsInv'
    BY <1>20, <1>0 DEF Collect, ErrsInv, Free, Idle, PoolTyped, Running, pool, count
  <2>2. FilterHonest'
    BY <1>20, <1>0 DEF Collect, ErrsInv, FilterHonest, Free, PoolTyped, LinesTyped, Running, pool, count
  <2> QED
    BY <1>0, <2>1, <2>2
<1>21. CASE Apply
  <2>1. ErrsInv'
    BY <1>21, <1>0 DEF Apply, ErrsInv, Free, Idle, PoolTyped, Running, count
  <2>2. FilterHonest'
    BY <1>21, <1>0 DEF Apply, ErrsInv, FilterHonest, Free, PoolTyped, LinesTyped, Running, count
  <2> QED
    BY <1>0, <2>1, <2>2
<1>22. CASE Drop
  <2>1. ErrsInv'
    BY <1>22, <1>0 DEF Drop, ErrsInv, Free, Idle, PoolTyped, Running, Leave, count
  <2>2. FilterHonest'
    BY <1>22, <1>0 DEF Drop, ErrsInv, FilterHonest, Free, PoolTyped, LinesTyped, Running, Leave, count
  <2> QED
    BY <1>0, <2>1, <2>2
<1>23. CASE UNCHANGED vars
  BY <1>0, <1>23 DEF vars, ErrsInv, FilterHonest, Free
<1> QED
  BY <1>1, <1>2, <1>3, <1>4, <1>5, <1>6, <1>7, <1>8, <1>9, <1>10, <1>11, <1>12, <1>13, <1>14, <1>15, <1>16, <1>17, <1>18, <1>19, <1>20, <1>21, <1>22, <1>23 DEF Next, Alone, Works

\* Whatever a build comes to, the lines of its package are the ones it works with or the
\* ones it had, on any number of threads (recover's undo).
THEOREM FiltersHonest == Spec => []FilterHonest
<1>1. FilterInv => FilterHonest
  BY DEF FilterInv
<1> QED
  BY <1>1, FilterInit, FilterNext, PTL DEF Spec
-----------------------------------------------------------------------------
(* The order. What levels makes of a set to build: a package once, once more
   ahead of that if it stands in, and each behind what its recipe lists. *)
Full(k, i) == k \in DOMAIN plan /\ <<i, FALSE>> \in plan[k]
Boot(k, i) == k \in DOMAIN plan /\ <<i, TRUE>> \in plan[k]

PlanInv ==
  /\ left \subseteq want /\ done \subseteq want
  /\ \A k, i : Full(k, i) => i \in want \ left
  /\ \A k, i : Boot(k, i) => i \in done /\ NameOf[i] \in Starters
  /\ \A k, m, i : Full(k, i) /\ Full(m, i) => k = m
  /\ \A k, m, i : Boot(k, i) /\ Boot(m, i) => k = m
  /\ \A k, m, i : Boot(k, i) /\ Full(m, i) => k < m
  /\ \A j \in want \ left : \E m : Full(m, j)
  /\ \A j \in done : \E m : Boot(m, j)
  /\ \A k, i, j : Full(k, i) /\ j \in want \ {i} /\ <<i, j>> \in Deps
                    => \E m : m < k /\ (Full(m, j) \/ Boot(m, j))

\* a level more, of either kind
LEMMA Longer ==
  ASSUME TypeInv, NEW L, plan' = Append(plan, L)
  PROVE  /\ Len(plan) \in Nat
         /\ \A k, i : Full(k, i) \/ Boot(k, i) => k \in Nat /\ k < Len(plan) + 1
         /\ \A k, i : Full(k, i)' <=> Full(k, i) \/ (k = Len(plan) + 1 /\ <<i, FALSE>> \in L)
         /\ \A k, i : Boot(k, i)' <=> Boot(k, i) \/ (k = Len(plan) + 1 /\ <<i, TRUE>> \in L)
<1>1. plan \in Seq(SUBSET (Item \X BOOLEAN)) /\ Len(plan) \in Nat
  BY DEF TypeInv, TypeOK, PlanTyped
<1>2. /\ DOMAIN plan' = 1 .. Len(plan) + 1 /\ DOMAIN plan = 1 .. Len(plan)
      /\ plan'[Len(plan) + 1] = L
      /\ \A k \in DOMAIN plan : plan'[k] = plan[k]
  BY <1>1
<1>3. /\ \A k \in DOMAIN plan : k \in Nat /\ k < Len(plan) + 1
      /\ \A k : k \in DOMAIN plan' <=> k \in DOMAIN plan \/ k = Len(plan) + 1
      /\ Len(plan) + 1 \notin DOMAIN plan
  BY <1>1, <1>2
<1>4. \A k, i : Full(k, i)' <=> Full(k, i) \/ (k = Len(plan) + 1 /\ <<i, FALSE>> \in L)
  BY <1>2, <1>3, Zenon DEF Full
<1>5. \A k, i : Boot(k, i)' <=> Boot(k, i) \/ (k = Len(plan) + 1 /\ <<i, TRUE>> \in L)
  BY <1>2, <1>3, Zenon DEF Boot
<1> QED
  BY <1>1, <1>3, <1>4, <1>5 DEF Full, Boot

LEMMA PlanLevelGood == ASSUME TypeInv, PlanInv, PlanLevel PROVE PlanInv'
<1>1. /\ Len(plan) \in Nat
      /\ \A k, i : Full(k, i) \/ Boot(k, i) => k \in Nat /\ k < Len(plan) + 1
      /\ \A k, i : Full(k, i)' <=> Full(k, i) \/ (k = Len(plan) + 1 /\ i \in Unblocked)
      /\ \A k, i : Boot(k, i)' <=> Boot(k, i)
  <2> DEFINE L == {<<i, FALSE>> : i \in Unblocked}
  <2>1. \A i : (<<i, FALSE>> \in L <=> i \in Unblocked) /\ <<i, TRUE>> \notin L
    OBVIOUS
  <2>2. plan' = Append(plan, L)
    BY DEF PlanLevel
  <2> HIDE DEF L
  <2> QED
    BY <2>1, <2>2, Longer
<1>2. left' = left \ Unblocked /\ UNCHANGED <<want, done>> /\ Unblocked \subseteq left
  BY DEF PlanLevel, Unblocked
<1>3. ASSUME NEW k, NEW i, NEW j, Full(k, i)', j \in want' \ {i}, <<i, j>> \in Deps
      PROVE  \E m : m < k /\ (Full(m, j)' \/ Boot(m, j)')
  <2>1. CASE Full(k, i)
    BY <1>1, <1>2, <1>3, <2>1 DEF PlanInv
  <2>2. CASE k = Len(plan) + 1 /\ i \in Unblocked
    <3>1. j \notin left \/ j \in done
      BY <1>3, <2>2 DEF Unblocked
    <3>2. PICK m : Full(m, j) \/ Boot(m, j)
      BY <1>2, <1>3, <3>1 DEF PlanInv
    <3> QED
      BY <1>1, <2>2, <3>2
  <2> QED
    BY <1>1, <1>3, <2>1, <2>2
<1>4. \A k, m, i : Full(k, i)' /\ Full(m, i)' => k = m
  BY <1>1, <1>2 DEF PlanInv
<1>5. \A k, m, i : Boot(k, i)' /\ Full(m, i)' => k < m
  BY <1>1, <1>2 DEF PlanInv
<1>6. /\ left' \subseteq want' /\ done' \subseteq want'
      /\ \A k, i : Full(k, i)' => i \in want' \ left'
      /\ \A k, i : Boot(k, i)' => i \in done' /\ NameOf[i] \in Starters
      /\ \A k, m, i : Boot(k, i)' /\ Boot(m, i)' => k = m
  BY <1>1, <1>2 DEF PlanInv
<1>7. \A j \in want' \ left' : \E m : Full(m, j)'
  BY <1>1, <1>2 DEF PlanInv
<1>8. \A j \in done' : \E m : Boot(m, j)'
  BY <1>1, <1>2 DEF PlanInv
<1> QED
  BY <1>3, <1>4, <1>5, <1>6, <1>7, <1>8 DEF PlanInv

LEMMA PlanBootGood == ASSUME TypeInv, PlanInv, PlanBoot PROVE PlanInv'
<1>1. /\ Len(plan) \in Nat
      /\ \A k, i : Full(k, i) \/ Boot(k, i) => k \in Nat /\ k < Len(plan) + 1
      /\ \A k, i : Full(k, i)' <=> Full(k, i)
      /\ \A k, i : Boot(k, i)' <=> Boot(k, i) \/ (k = Len(plan) + 1 /\ i \in Starts)
  <2> DEFINE L == {<<i, TRUE>> : i \in Starts}
  <2>1. \A i : (<<i, TRUE>> \in L <=> i \in Starts) /\ <<i, FALSE>> \notin L
    OBVIOUS
  <2>2. plan' = Append(plan, L)
    BY DEF PlanBoot
  <2> HIDE DEF L
  <2> QED
    BY <2>1, <2>2, Longer
<1>2. /\ done' = done \cup Starts /\ UNCHANGED <<want, left>>
      /\ Starts \subseteq left \ done /\ \A i \in Starts : NameOf[i] \in Starters
  BY DEF PlanBoot, Starts
<1>3. \A k, i, j : Full(k, i)' /\ j \in want' \ {i} /\ <<i, j>> \in Deps
                     => \E m : m < k /\ (Full(m, j)' \/ Boot(m, j)')
  BY <1>1, <1>2 DEF PlanInv
<1>4. \A k, m, i : Boot(k, i)' /\ Boot(m, i)' => k = m
  BY <1>1, <1>2 DEF PlanInv
<1>5. \A k, m, i : Boot(k, i)' /\ Full(m, i)' => k < m
  BY <1>1, <1>2 DEF PlanInv
<1>6. /\ left' \subseteq want' /\ done' \subseteq want'
      /\ \A k, i : Full(k, i)' => i \in want' \ left'
      /\ \A k, i : Boot(k, i)' => i \in done' /\ NameOf[i] \in Starters
      /\ \A k, m, i : Full(k, i)' /\ Full(m, i)' => k = m
  BY <1>1, <1>2 DEF PlanInv
<1>7. \A j \in want' \ left' : \E m : Full(m, j)'
  BY <1>1, <1>2 DEF PlanInv
<1>8. \A j \in done' : \E m : Boot(m, j)'
  BY <1>1, <1>2 DEF PlanInv
<1> QED
  BY <1>3, <1>4, <1>5, <1>6, <1>7, <1>8 DEF PlanInv

LEMMA PlanSame == ASSUME PlanInv, UNCHANGED <<want, left, done, plan>> PROVE PlanInv'
BY DEF PlanInv, Full, Boot

-----------------------------------------------------------------------------
(* What a run has of the plan behind it: a level is what is left of its place
   in the plan, what failed or was skipped is in failed, and what needed any of
   that is in there too. *)
Half(i) == <<i, TRUE>> \in level
Whole(i) == <<i, FALSE>> \in level

PhaseInv ==
  /\ pc = "idle" => /\ want = {} /\ left = {} /\ done = {} /\ plan = <<>>
                    /\ failed = {} /\ stands = {} /\ at = 0
  /\ pc = "plan" => failed = {} /\ stands = {} /\ at = 0
  /\ pc \notin InLevel => level = {}
LevelInv ==
  /\ failed \subseteq want
  /\ pc \in InLevel => \A i : (Half(i) => Boot(at, i)) /\ (Whole(i) => Full(at, i))
  /\ pc \in InLevel => \A i : Boot(at, i) \/ Full(at, i) => i \in failed \/ Half(i) \/ Whole(i)
  /\ pc \in {"run", "retry", "redo"} => \A i : Half(i) \/ Whole(i) => i \notin failed
  /\ pc = "apply" => \A i : Half(i) \/ Whole(i) => (i \in failed <=> errs[NameOf[i]] # "ok")
StandInv ==
  /\ \A i \in stands : \E m : m < at /\ Boot(m, i)
  /\ \A m, i : Boot(m, i) /\ m < at => i \in failed \/ i \in stands
DepsInv ==
  pc = "run" => \A i, j : Whole(i) /\ j \in want \ {i} /\ <<i, j>> \in Deps => j \in Placed \/ j \in stands

RunInv == PhaseInv /\ LevelInv /\ StandInv /\ DepsInv
OrderInv == TypeInv /\ ErrsInv /\ PlanInv /\ RunInv

\* steps that leave all of that alone
LEMMA RunSame ==
  ASSUME RunInv, UNCHANGED <<want, left, done, plan, at, failed, stands, level>>,
         pc' = pc \/ (pc \in {"run", "retry", "redo"} /\ pc' \in {"retry", "redo"}),
         pc = "apply" => errs' = errs
  PROVE  RunInv'
<1>1. PhaseInv'
  BY DEF RunInv, PhaseInv, InLevel
<1>2. LevelInv'
  BY DEF RunInv, LevelInv, InLevel, Half, Whole, Full, Boot
<1>3. StandInv'
  BY DEF RunInv, StandInv, Boot
<1>4. DepsInv'
  BY DEF RunInv, DepsInv, Whole, Placed
<1> QED
  BY <1>1, <1>2, <1>3, <1>4 DEF RunInv

LEMMA StageSame ==
  ASSUME UNCHANGED <<want, failed, stands, plan, at, level, todo>> PROVE UNCHANGED Order!vars
BY DEF Order!vars, StageOf, Placed, Taken

\* a process that is gone has nothing wanted any more
LEMMA GoneGood == ASSUME Leave PROVE PlanInv' /\ RunInv' /\ Order!Over
<1>1. /\ pc' = "idle" /\ want' = {} /\ left' = {} /\ done' = {} /\ plan' = <<>> /\ at' = 0
      /\ failed' = {} /\ stands' = {} /\ level' = {}
  BY DEF Leave
<1>2. \A k, i : ~Full(k, i)' /\ ~Boot(k, i)'
  BY <1>1 DEF Full, Boot
<1>3. \A i \in Item : StageOf(i)' = "none"
  BY <1>1 DEF StageOf
<1>4. PlanInv'
  BY <1>1, <1>2 DEF PlanInv
<1>5. RunInv'
  BY <1>1, <1>2 DEF RunInv, PhaseInv, LevelInv, StandInv, DepsInv, InLevel
<1> QED
  BY <1>1, <1>3, <1>4, <1>5 DEF Order!Over, Order!Become

LEMMA BeginGood ==
  ASSUME OrderInv, Begin PROVE PlanInv' /\ RunInv' /\ [Order!Next]_(Order!vars)
<1>1. /\ pc = "idle" /\ want = {} /\ left = {} /\ done = {} /\ plan = <<>> /\ failed = {} /\ stands = {}
      /\ at = 0 /\ level = {} /\ want' \subseteq Item
      /\ UNCHANGED <<done, plan, at, failed, stands, level>>
  <2>1. want' \subseteq Item
    BY DEF OrderInv, TypeInv, TypeOK, WorldTyped, Begin, Row
  <2> QED
    BY <2>1 DEF OrderInv, RunInv, PhaseInv, Begin, InLevel, pool
<1>2. /\ (want' = {} /\ pc' = pc /\ left' = left) \/ (want' # {} /\ pc' = "plan" /\ left' = want')
  BY DEF Begin
<1>3. \A k, i : ~Full(k, i)' /\ ~Boot(k, i)'
  BY <1>1 DEF Full, Boot
<1>4. PlanInv'
  BY <1>1, <1>2, <1>3 DEF PlanInv
<1>5. RunInv'
  BY <1>1, <1>2, <1>3 DEF RunInv, PhaseInv, LevelInv, StandInv, DepsInv, InLevel
<1>6. \A i \in Item : StageOf(i) = "none"
  BY <1>1 DEF StageOf
<1>7. \A i \in Item : StageOf(i)' = IF i \in want' THEN "wait" ELSE "none"
  BY <1>1 DEF StageOf, Placed, Taken
<1>8. [Order!Next]_(Order!vars)
  <2>1. CASE want' = {}
    BY <1>1, <1>6, <1>7, <2>1 DEF Order!vars
  <2>2. CASE want' # {}
    <3>1. Order!Become(want', "wait")
      BY <1>6, <1>7 DEF Order!Become
    <3> QED
      BY <1>1, <1>6, <2>2, <3>1 DEF Order!Next, Order!Start
  <2> QED
    BY <2>1, <2>2
<1> QED
  BY <1>4, <1>5, <1>8

\* the plan grows, and nothing of it has begun
LEMMA PlanningGood ==
  ASSUME OrderInv, PlanLevel \/ PlanBoot
  PROVE  PlanInv' /\ RunInv' /\ UNCHANGED Order!vars
<1>1. /\ pc = "plan" /\ failed = {} /\ stands = {} /\ at = 0 /\ level = {}
      /\ UNCHANGED <<pc, want, at, failed, stands, level, todo>>
  BY DEF OrderInv, RunInv, PhaseInv, InLevel, PlanLevel, PlanBoot, pool
<1>2. PlanInv'
  BY PlanLevelGood, PlanBootGood DEF OrderInv
<1>3. Len(plan) \in Nat /\ Len(plan') \in Nat /\ DOMAIN plan = 1 .. Len(plan) /\ DOMAIN plan' = 1 .. Len(plan')
  <2>1. plan \in Seq(SUBSET (Item \X BOOLEAN))
    BY DEF OrderInv, TypeInv, TypeOK, PlanTyped
  <2>2. PICK L : plan' = Append(plan, L)
    BY DEF PlanLevel, PlanBoot
  <2> QED
    BY <2>1, <2>2
<1>4. \A k : (k \in DOMAIN plan => ~(k < at)) /\ (k \in DOMAIN plan' => ~(k < at))
  BY <1>1, <1>3
<1>5. Placed = {} /\ Placed' = {}
  BY <1>1, <1>4 DEF Placed
<1>6. RunInv'
  BY <1>1, <1>4 DEF RunInv, PhaseInv, LevelInv, StandInv, DepsInv, InLevel, Boot
<1>7. UNCHANGED Order!vars
  BY <1>1, <1>5 DEF Order!vars, StageOf, Taken
<1> QED
  BY <1>2, <1>6, <1>7

LEMMA BringGood == ASSUME OrderInv, Bring PROVE PlanInv' /\ RunInv' /\ UNCHANGED Order!vars
<1>1. /\ failed = {} /\ stands = {} /\ at = 0 /\ level = {} /\ at' = 1 /\ pc' = "level"
      /\ UNCHANGED <<want, left, done, plan, failed, stands, level, todo>>
  BY DEF OrderInv, RunInv, PhaseInv, InLevel, Bring, pool
<1>2. PlanInv'
  BY <1>1, PlanSame DEF OrderInv
<1>3. DOMAIN plan = 1 .. Len(plan) /\ Len(plan) \in Nat
  BY DEF OrderInv, TypeInv, TypeOK, PlanTyped
<1>4. \A k \in DOMAIN plan : ~(k < at) /\ ~(k < at')
  BY <1>1, <1>3
<1>5. Placed = {} /\ Placed' = {}
  BY <1>1, <1>4 DEF Placed
<1>6. RunInv'
  BY <1>1, <1>4 DEF RunInv, PhaseInv, LevelInv, StandInv, DepsInv, InLevel, Boot
<1>7. UNCHANGED Order!vars
  BY <1>1, <1>5 DEF Order!vars, StageOf, Taken
<1> QED
  BY <1>2, <1>6, <1>7

\* where an item of the level in hand is, and is not
LEMMA InPlan ==
  ASSUME OrderInv, at \in DOMAIN plan, NEW i, Full(at, i) \/ Boot(at, i)
  PROVE  /\ i \in Item /\ i \in want /\ i \notin Placed
         /\ ~(Full(at, i) /\ Boot(at, i))
         /\ Boot(at, i) => i \notin stands /\ NameOf[i] \in Starters
<1>1. want \subseteq Item /\ DOMAIN plan = 1 .. Len(plan) /\ Len(plan) \in Nat
  BY DEF OrderInv, TypeInv, TypeOK, PlanTyped
<1>2. at \in Nat
  BY <1>1
<1>3. i \in want
  BY DEF OrderInv, PlanInv
<1>4. ASSUME NEW k, Full(k, i) PROVE ~(k < at)
  <2>1. k \in Nat
    BY <1>1, <1>4 DEF Full
  <2>2. k = at \/ at < k
    BY <1>4 DEF OrderInv, PlanInv
  <2> QED
    BY <1>2, <2>1, <2>2
<1>5. i \notin Placed
  BY <1>4 DEF Placed, Full
<1>6. ~(Full(at, i) /\ Boot(at, i))
  BY <1>2 DEF OrderInv, PlanInv
<1>7. Boot(at, i) => i \notin stands /\ NameOf[i] \in Starters
  <2>1. ASSUME Boot(at, i), NEW m, Boot(m, i) PROVE ~(m < at)
    <3>1. m = at
      BY <2>1 DEF OrderInv, PlanInv
    <3> QED
      BY <1>2, <3>1
  <2>2. Boot(at, i) => i \notin stands
    BY <2>1 DEF OrderInv, RunInv, StandInv
  <2>3. Boot(at, i) => NameOf[i] \in Starters
    BY DEF OrderInv, PlanInv
  <2> QED
    BY <2>2, <2>3
<1> QED
  BY <1>1, <1>3, <1>5, <1>6, <1>7

\* what is skipped is stuck, and what is not has its deps behind it
LEMMA StartLevelGood ==
  ASSUME OrderInv, StartLevel PROVE PlanInv' /\ RunInv' /\ [Order!Next]_(Order!vars)
<1>1. /\ pc = "level" /\ at \in DOMAIN plan /\ level = {} /\ pc' = "run"
      /\ level' = {x \in plan[at] : x[1] \notin failed'} /\ todo' = Names(level')
      /\ UNCHANGED <<want, left, done, plan, at, stands>>
  BY DEF OrderInv, RunInv, PhaseInv, InLevel, StartLevel
<1>2. PICK rank \in Injection(plan[at], 1 .. Cardinality(plan[at])), S \in SUBSET plan[at] :
        S = Skips(S, rank) /\ failed' = failed \cup {x[1] : x \in S}
  BY DEF StartLevel
<1>3. plan[at] \subseteq Item \X BOOLEAN /\ DOMAIN plan = 1 .. Len(plan) /\ Len(plan) \in Nat /\ at \in Nat
  BY <1>1 DEF OrderInv, TypeInv, TypeOK, PlanTyped
<1>4. PlanInv'
  BY <1>1, PlanSame DEF OrderInv
<1>5. \A i : (Half(i)' <=> Boot(at, i) /\ i \notin failed') /\ (Whole(i)' <=> Full(at, i) /\ i \notin failed')
  BY <1>1 DEF Half, Whole, Full, Boot
<1>6. ASSUME NEW i \in failed' \ failed PROVE Full(at, i) \/ Boot(at, i)
  <2>1. PICK x \in plan[at] : i = x[1]
    BY <1>2, <1>6
  <2>2. x = <<i, TRUE>> \/ x = <<i, FALSE>>
    <3>1. x = <<x[1], x[2]>> /\ x[2] \in BOOLEAN
      BY <1>3, <2>1
    <3>2. x[2] = TRUE \/ x[2] = FALSE
      BY <3>1
    <3> QED
      BY <2>1, <3>1, <3>2, Zenon
  <2> QED
    BY <1>1, <2>1, <2>2 DEF Full, Boot
<1>7. /\ failed \subseteq failed' /\ failed' \subseteq want /\ want \subseteq Item
      /\ \A i \in failed' \ failed : i \notin Placed
  BY <1>1, <1>2, <1>6, InPlan DEF OrderInv, RunInv, LevelInv, TypeInv, TypeOK, PlanTyped
<1>8. Placed' = Placed
  BY <1>1, <1>7 DEF Placed
<1>9. PhaseInv'
  BY <1>1 DEF PhaseInv, InLevel
<1>10. LevelInv'
  <2>1. \A i : (Full(at, i)' <=> Full(at, i)) /\ (Boot(at, i)' <=> Boot(at, i))
    BY <1>1 DEF Full, Boot
  <2> QED
    BY <1>1, <1>5, <1>7, <2>1 DEF LevelInv, InLevel
<1>11. StandInv'
  BY <1>1, <1>7 DEF OrderInv, RunInv, StandInv, Boot
<1>12. ASSUME NEW i, NEW j, Whole(i)', j \in want \ {i}, <<i, j>> \in Deps PROVE j \in Placed \/ j \in stands
  <2>1. Full(at, i) /\ i \notin failed' /\ <<i, FALSE>> \in plan[at]
    BY <1>5, <1>12 DEF Full
  <2>2. <<i, FALSE>> \notin S
    BY <1>2, <2>1
  <2>3. ~Cause(i, failed)
    BY <1>2, <2>1, <2>2 DEF Skips, Cause
  <2>4. j \notin failed
    BY <1>12, <2>3 DEF Cause
  <2>5. PICK m : m < at /\ (Full(m, j) \/ Boot(m, j))
    BY <1>12, <2>1 DEF OrderInv, PlanInv
  <2>6. CASE Full(m, j)
    BY <1>12, <2>4, <2>5, <2>6 DEF Placed, Full
  <2>7. CASE Boot(m, j)
    BY <2>4, <2>5, <2>7 DEF OrderInv, RunInv, StandInv
  <2> QED
    BY <2>5, <2>6, <2>7
<1>13. RunInv'
  <2>1. DepsInv'
    BY <1>1, <1>8, <1>12 DEF DepsInv
  <2> QED
    BY <1>9, <1>10, <1>11, <2>1 DEF RunInv
<1>14. Taken = {} /\ Taken' = {}
  BY <1>1 DEF Taken, Names
<1>15. \A i \in Item : StageOf(i)' = IF i \in failed' \ failed THEN "stuck" ELSE StageOf(i)
  BY <1>1, <1>7, <1>8, <1>14 DEF StageOf
<1>16. \A i \in failed' \ failed : StageOf(i) = "wait"
  BY <1>7, <1>14 DEF StageOf
<1>17. [Order!Next]_(Order!vars)
  <2>1. CASE failed' \ failed = {}
    BY <1>1, <1>15, <2>1 DEF Order!vars
  <2>2. CASE failed' \ failed # {}
    <3>1. Order!Become(failed' \ failed, "stuck")
      BY <1>15 DEF Order!Become
    <3>2. failed' \ failed \in (SUBSET Item) \ {{}}
      BY <1>7, <2>2
    <3> QED
      BY <1>1, <1>16, <3>1, <3>2 DEF Order!Next, Order!Stick
  <2> QED
    BY <2>1, <2>2
<1> QED
  BY <1>4, <1>13, <1>17

\* a thread that takes a name begins what the level has of it
LEMMA TakeGood ==
  ASSUME OrderInv, NEW t \in Threads, Take(t)
  PROVE  PlanInv' /\ RunInv' /\ [Order!Next]_(Order!vars)
<1>1. PICK n \in todo : todo' = todo \ {n}
  BY DEF Take
<1>2. pc = "run" /\ UNCHANGED <<pc, want, left, done, plan, at, failed, stands, level, errs>>
  BY DEF Take, local
<1>3. at \in DOMAIN plan
  BY <1>2 DEF OrderInv, TypeInv, AtLevel, InLevel
<1>4. PlanInv' /\ RunInv'
  BY <1>2, PlanSame, RunSame DEF OrderInv
<1> DEFINE S == {i \in Item : Half(i) /\ NameOf[i] = n}
           W == {i \in Item : Whole(i) /\ NameOf[i] = n}
           B == S \cup W
<1>5. \A i \in B : i \in want /\ i \notin failed /\ i \notin Placed
  BY <1>2, <1>3, InPlan DEF OrderInv, RunInv, LevelInv, InLevel
<1>6. \A i \in S : i \notin W /\ i \notin stands /\ NameOf[i] \in Starters
  BY <1>2, <1>3, InPlan DEF OrderInv, RunInv, LevelInv, InLevel
<1>7. \A i \in Item : /\ (<<i, TRUE>> \in Taken' <=> <<i, TRUE>> \in Taken \/ i \in S)
                      /\ (<<i, FALSE>> \in Taken' <=> <<i, FALSE>> \in Taken \/ i \in W)
  BY <1>1, <1>2 DEF Taken, Half, Whole
<1>8. \A i \in B : <<i, TRUE>> \notin Taken /\ <<i, FALSE>> \notin Taken
  BY <1>1 DEF Taken
<1>9. Placed' = Placed
  BY <1>2 DEF Placed
<1> HIDE DEF S, W
<1>10. \A i \in B : StageOf(i) = "wait"
  BY <1>5, <1>8 DEF StageOf
<1>11. ASSUME NEW i \in Item
       PROVE StageOf(i)' = IF i \in S THEN "boot" ELSE IF i \in B THEN "build" ELSE StageOf(i)
  <2>1. /\ (<<i, TRUE>> \in Taken' <=> <<i, TRUE>> \in Taken \/ i \in S)
        /\ (<<i, FALSE>> \in Taken' <=> <<i, FALSE>> \in Taken \/ i \in W)
    BY <1>7
  <2>2. CASE i \in S
    <3>1. i \in want' /\ i \notin failed' /\ i \notin Placed' /\ <<i, TRUE>> \in Taken'
      BY <1>2, <1>5, <1>9, <2>1, <2>2
    <3> QED
      BY <2>2, <3>1 DEF StageOf
  <2>3. CASE i \in W
    <3>1. /\ i \notin S /\ i \in want' /\ i \notin failed' /\ i \notin Placed'
          /\ <<i, TRUE>> \notin Taken' /\ <<i, FALSE>> \in Taken'
      BY <1>2, <1>5, <1>6, <1>8, <1>9, <2>1, <2>3
    <3> QED
      BY <2>3, <3>1 DEF StageOf
  <2>4. CASE i \notin B
    BY <1>2, <1>9, <2>1, <2>4 DEF StageOf
  <2> QED
    BY <2>2, <2>3, <2>4
<1>12. ASSUME NEW i \in B \ S, NEW j \in Item \ {i}, <<i, j>> \in Deps, StageOf(j) # "none"
       PROVE  StageOf(j) = "in" \/ j \in stands
  <2>1. j \in want
    BY <1>12 DEF StageOf
  <2>2. j \in Placed \/ j \in stands
    BY <1>2, <1>12, <2>1 DEF OrderInv, RunInv, DepsInv, W
  <2>3. CASE j \in Placed
    BY <2>1, <2>3 DEF StageOf, Placed
  <2> QED
    BY <2>2, <2>3
<1>13. B \subseteq Item /\ S \subseteq B
  BY DEF S, W
<1>14. [Order!Next]_(Order!vars)
  <2>1. CASE B = {}
    BY <1>2, <1>11, <1>13, <2>1 DEF Order!vars
  <2>2. CASE B # {}
    <3>1. \A i \in B \ S : Order!Ready(i)
      BY <1>12, <1>13 DEF Order!Ready, Order!Needs
    <3>2. B \in (SUBSET Item) \ {{}} /\ S \in SUBSET B
      BY <1>13, <2>2
    <3>3. S \subseteq {i \in Item : NameOf[i] \in Starters} \ stands
      BY <1>6, <1>13
    <3> HIDE DEF B
    <3>4. Order!Build
      BY <1>2, <1>10, <1>11, <1>13, <3>1, <3>2, <3>3, SMTT(60) DEF Order!Build
    <3> QED
      BY <3>4 DEF Order!Next
  <2> QED
    BY <2>1, <2>2
<1> QED
  BY <1>4, <1>14

LEMMA CollectGood ==
  ASSUME OrderInv, Collect PROVE PlanInv' /\ RunInv' /\ [Order!Next]_(Order!vars)
<1>1. /\ pc = "retry" /\ pc' = "apply" /\ failed' = failed \cup Bad
      /\ UNCHANGED <<want, left, done, plan, at, stands, level, todo, errs>>
  BY DEF Collect, pool
<1>2. at \in DOMAIN plan /\ todo = {} /\ level \subseteq Item \X BOOLEAN
  BY <1>1 DEF OrderInv, ErrsInv, TypeInv, TypeOK, PoolTyped, AtLevel, InLevel
<1>3. PlanInv'
  BY <1>1, PlanSame DEF OrderInv
<1>4. \A i : i \in Bad <=> (Half(i) \/ Whole(i)) /\ errs[NameOf[i]] # "ok"
  <2>1. \A x \in level : \/ x = <<x[1], TRUE>>
                         \/ x = <<x[1], FALSE>>
    <3>1. \A x \in level : x = <<x[1], x[2]>> /\ x[2] \in BOOLEAN
      BY <1>2
    <3> QED
      BY <3>1, Zenon
  <2>2. \A i : i \in {x[1] : x \in level} <=> Half(i) \/ Whole(i)
    BY <2>1 DEF Half, Whole
  <2>3. \A i : i \in Made <=> i \in {x[1] : x \in level} /\ errs[NameOf[i]] = "ok"
    BY DEF Made
  <2> QED
    BY <2>2, <2>3 DEF Bad
<1>5. \A i : Half(i) \/ Whole(i) => i \in Item /\ i \in want /\ i \notin Placed /\ i \notin failed
  BY <1>1, <1>2, InPlan DEF OrderInv, RunInv, LevelInv, InLevel
<1>6. \A i : /\ (Half(i)' <=> Half(i)) /\ (Whole(i)' <=> Whole(i))
             /\ (Full(at, i)' <=> Full(at, i)) /\ (Boot(at, i)' <=> Boot(at, i))
  BY <1>1 DEF Half, Whole, Full, Boot
<1>7. Placed' = Placed
  BY <1>1, <1>4, <1>5 DEF Placed
<1>8. RunInv'
  <2>1. PhaseInv'
    BY <1>1 DEF PhaseInv, InLevel
  <2>2. LevelInv'
    BY <1>1, <1>4, <1>5, <1>6 DEF OrderInv, RunInv, LevelInv, InLevel
  <2>3. StandInv'
    BY <1>1 DEF OrderInv, RunInv, StandInv, Boot
  <2>4. DepsInv'
    BY <1>1 DEF DepsInv
  <2> QED
    BY <2>1, <2>2, <2>3, <2>4 DEF RunInv
<1>9. Taken = level /\ Taken' = level
  BY <1>1, <1>2 DEF Taken
<1>10. \A i \in Item : StageOf(i)' = IF i \in Bad THEN "stuck" ELSE StageOf(i)
  BY <1>1, <1>4, <1>5, <1>7, <1>9 DEF StageOf
<1>11. \A i \in Bad : StageOf(i) \in {"boot", "build"}
  BY <1>4, <1>5, <1>9 DEF StageOf, Half, Whole
<1>12. [Order!Next]_(Order!vars)
  <2>1. CASE Bad = {}
    BY <1>1, <1>10, <2>1 DEF Order!vars
  <2>2. CASE Bad # {}
    <3>1. Order!Become(Bad, "stuck")
      BY <1>10 DEF Order!Become
    <3>2. Bad \in (SUBSET Item) \ {{}}
      BY <1>4, <1>5, <2>2
    <3> QED
      BY <1>1, <1>11, <3>1, <3>2 DEF Order!Next, Order!Stick
  <2> QED
    BY <2>1, <2>2
<1> QED
  BY <1>3, <1>8, <1>12

\* what was built is in, and what only stood in is to be built again
LEMMA ApplyGood ==
  ASSUME OrderInv, Apply PROVE PlanInv' /\ RunInv' /\ [Order!Next]_(Order!vars)
<1>1. /\ pc = "apply" /\ pc' = "level" /\ at' = at + 1 /\ level' = {}
      /\ stands' = stands \cup {i \in Made : Half(i)}
      /\ UNCHANGED <<want, left, done, plan, failed, todo>>
  BY DEF Apply, Half
<1>2. /\ at \in DOMAIN plan /\ todo = {} /\ level \subseteq Item \X BOOLEAN
      /\ at \in Nat /\ DOMAIN plan = 1 .. Len(plan) /\ Len(plan) \in Nat
  BY <1>1 DEF OrderInv, ErrsInv, TypeInv, TypeOK, PoolTyped, PlanTyped, AtLevel, InLevel
<1>3. PlanInv'
  BY <1>1, PlanSame DEF OrderInv
<1>4. \A i : Half(i) \/ Whole(i) => i \in Item /\ i \in want /\ i \notin Placed
  BY <1>1, <1>2, InPlan DEF OrderInv, RunInv, LevelInv, InLevel
<1>5. \A i : i \in Made <=> (Half(i) \/ Whole(i)) /\ i \notin failed
  <2>1. \A x \in level : \/ x = <<x[1], TRUE>>
                         \/ x = <<x[1], FALSE>>
    <3>1. \A x \in level : x = <<x[1], x[2]>> /\ x[2] \in BOOLEAN
      BY <1>2
    <3> QED
      BY <3>1, Zenon
  <2>2. \A i : i \in Made <=> (Half(i) \/ Whole(i)) /\ errs[NameOf[i]] = "ok"
    BY <2>1 DEF Half, Whole, Made
  <2> QED
    BY <1>1, <2>2 DEF OrderInv, RunInv, LevelInv
<1>6. \A i : Full(at, i) /\ i \notin failed => Whole(i)
  BY <1>1, <1>2, InPlan DEF OrderInv, RunInv, LevelInv, InLevel
<1>7. \A i : Boot(at, i) /\ i \notin failed => Half(i)
  BY <1>1, <1>2, InPlan DEF OrderInv, RunInv, LevelInv, InLevel
<1>8. \A k \in DOMAIN plan : k < at + 1 <=> k < at \/ k = at
  BY <1>2
<1>9. \A i : i \in Placed' <=> i \in Placed \/ (i \in Made /\ Whole(i))
  <2>1. \A i : Whole(i) => Full(at, i) /\ <<i, FALSE>> \in plan[at]
    BY <1>1 DEF OrderInv, RunInv, LevelInv, InLevel, Full
  <2> QED
    BY <1>1, <1>2, <1>4, <1>5, <1>6, <1>8, <2>1 DEF Placed, Full
<1>10. \A i : Half(i) => ~Whole(i)
  BY <1>1, <1>2, InPlan DEF OrderInv, RunInv, LevelInv, InLevel
<1>11. StandInv'
  <2>1. ASSUME NEW i \in stands' PROVE \E m : m < at' /\ Boot(m, i)'
    <3>1. CASE i \in stands
      BY <1>1, <1>8, <3>1 DEF OrderInv, RunInv, StandInv, Boot
    <3>2. CASE Half(i)
      <4>1. Boot(at, i)
        BY <1>1, <3>2 DEF OrderInv, RunInv, LevelInv, InLevel
      <4> QED
        BY <1>1, <1>8, <4>1 DEF Boot
    <3> QED
      BY <1>1, <2>1, <3>1, <3>2
  <2>2. ASSUME NEW m, NEW i, Boot(m, i)', m < at' PROVE i \in failed' \/ i \in stands'
    <3>1. Boot(m, i) /\ (m < at \/ m = at)
      BY <1>1, <1>8, <2>2 DEF Boot
    <3>2. CASE m < at
      BY <1>1, <3>1, <3>2 DEF OrderInv, RunInv, StandInv
    <3>3. CASE m = at
      BY <1>1, <1>5, <1>7, <3>1, <3>3
    <3> QED
      BY <3>1, <3>2, <3>3
  <2> QED
    BY <2>1, <2>2 DEF StandInv
<1>12. RunInv'
  <2>1. PhaseInv' /\ DepsInv'
    BY <1>1 DEF PhaseInv, DepsInv, InLevel
  <2>2. LevelInv'
    BY <1>1 DEF OrderInv, RunInv, LevelInv, InLevel
  <2> QED
    BY <1>11, <2>1, <2>2 DEF RunInv
<1>13. /\ \A i : <<i, TRUE>> \in Taken <=> Half(i)
       /\ \A i : <<i, FALSE>> \in Taken <=> Whole(i)
       /\ Taken' = {}
  BY <1>1, <1>2 DEF Taken, Half, Whole
<1>14. \A i \in Made : StageOf(i) = IF Half(i) THEN "boot" ELSE "build"
  BY <1>4, <1>5, <1>10, <1>13 DEF StageOf
<1>15. \A i \in Item : StageOf(i)' = IF i \in Made THEN IF Half(i) THEN "wait" ELSE "in" ELSE StageOf(i)
  BY <1>1, <1>4, <1>5, <1>9, <1>10, <1>13 DEF StageOf
<1>16. Made \subseteq Item
  BY <1>4, <1>5
<1>17. [Order!Next]_(Order!vars)
  <2>1. CASE Made = {}
    BY <1>1, <1>15, <2>1 DEF Order!vars
  <2>2. CASE Made # {}
    <3>1. \A i \in Made : /\ StageOf(i) \in {"boot", "build"}
                          /\ StageOf(i) = "boot" <=> Half(i)
      BY <1>14
    <3>2. \A i \in Item : StageOf(i)' = IF i \in Made THEN IF StageOf(i) = "boot" THEN "wait" ELSE "in"
                                                      ELSE StageOf(i)
      BY <1>15, <3>1
    <3>3. stands' = stands \cup {i \in Made : StageOf(i) = "boot"}
      BY <1>1, <3>1
    <3>4. Made \in (SUBSET Item) \ {{}}
      BY <1>16, <2>2
    <3>5. Order!Land
      BY <1>16, <3>1, <3>2, <3>3, <3>4 DEF Order!Land
    <3> QED
      BY <3>5 DEF Order!Next
  <2> QED
    BY <2>1, <2>2
<1> QED
  BY <1>3, <1>12, <1>17

LEMMA OrderInit == ASSUME Init PROVE OrderInv /\ Order!Init
<1>1. /\ pc = "idle" /\ want = {} /\ left = {} /\ done = {} /\ plan = <<>> /\ at = 0
      /\ failed = {} /\ stands = {} /\ level = {}
  BY DEF Init
<1>2. \A k, i : ~Full(k, i) /\ ~Boot(k, i)
  BY <1>1 DEF Full, Boot
<1>3. PlanInv
  BY <1>1, <1>2 DEF PlanInv
<1>4. RunInv
  BY <1>1, <1>2 DEF RunInv, PhaseInv, LevelInv, StandInv, DepsInv, InLevel
<1>5. Order!Init
  BY <1>1 DEF Order!Init, StageOf
<1> QED
  BY FilterInit, <1>3, <1>4, <1>5 DEF OrderInv, FilterInv

\* every step is one of BuildOrder's, or one it does not see
LEMMA OrderNext ==
  ASSUME OrderInv, [Next]_vars PROVE PlanInv' /\ RunInv' /\ [Order!Next]_(Order!vars)
<1>1. CASE Begin
  BY <1>1, BeginGood
<1>2. CASE PlanLevel \/ PlanBoot
  BY <1>2, PlanningGood
<1>3. CASE PlanDies \/ Kill \/ Drop
  BY <1>3, GoneGood DEF PlanDies, Kill, Drop, Order!Next
<1>4. CASE Bring
  BY <1>4, BringGood
<1>5. CASE StartLevel
  BY <1>5, StartLevelGood
<1>6. CASE \E t \in Threads : Take(t)
  BY <1>6, TakeGood
<1>7. CASE Collect
  BY <1>7, CollectGood
<1>8. CASE Apply
  BY <1>8, ApplyGood
\* the rest leaves the plan, what failed and what is in hand alone
<1> DEFINE Quiet ==
      /\ UNCHANGED <<want, left, done, plan, at, failed, stands, level, todo>>
      /\ pc' = pc \/ (pc \in {"run", "retry", "redo"} /\ pc' \in {"retry", "redo"})
      /\ pc = "apply" => errs' = errs
<1>9. ASSUME Quiet PROVE PlanInv' /\ RunInv' /\ [Order!Next]_(Order!vars)
  BY <1>9, PlanSame, RunSame, StageSame DEF OrderInv
<1>10. CASE \E i \in Item : Bump(i)
  BY <1>9, <1>10 DEF Bump, local, pool
<1>11. CASE \E n \in Name : Install(n)
  BY <1>9, <1>11 DEF Install, local, pool
<1>12. CASE Swap \/ Retry \/ Redo \/ Redone
  BY <1>9, <1>12 DEF Swap, Retry, Redo, Redone, local
<1>13. CASE \E t \in Threads : Works(t)
  <2>1. PICK t \in Threads : Works(t)
    BY <1>13
  <2>2. ~Free(t) /\ UNCHANGED <<local, pc, level, todo>>
    <3>1. CASE Waits(t)
      BY <3>1 DEF Waits
    <3>2. CASE Succeeds(t)
      BY <3>2 DEF Succeeds
    <3>3. CASE Fails(t)
      BY <3>3 DEF Fails
    <3>4. CASE Fix(t)
      BY <3>4 DEF Fix, Retries
    <3>5. CASE Climb(t)
      BY <3>5 DEF Climb, Retries
    <3> QED
      BY <2>1, <3>1, <3>2, <3>3, <3>4, <3>5 DEF Works
  <2>3. pc # "apply"
    BY <2>2 DEF OrderInv, ErrsInv
  <2> QED
    BY <1>9, <2>2, <2>3 DEF local
<1>14. CASE UNCHANGED vars
  BY <1>9, <1>14 DEF vars
<1> QED
  BY <1>1, <1>2, <1>3, <1>4, <1>5, <1>6, <1>7, <1>8, <1>10, <1>11, <1>12, <1>13, <1>14 DEF Next, Alone

\* For any packages, targets, recipes, threads and outcomes a rebuild works in the order of
\* BuildOrder: nothing is built ahead of what its recipe lists, or once that is stuck, and
\* nothing goes in twice (levels, the skips, parallel and apply of rebuild_cmd).
THEOREM KeepsOrder == Spec => InOrder
<1>1. ASSUME OrderInv /\ FilterInv, [Next]_vars PROVE (OrderInv /\ FilterInv)'
  BY <1>1, FilterNext, OrderNext DEF OrderInv, FilterInv
<1>2. ASSUME OrderInv /\ FilterInv, [Next]_vars PROVE [Order!Next]_(Order!vars)
  BY <1>2, OrderNext
<1>3. Init => OrderInv /\ FilterInv /\ Order!Init
  BY OrderInit, FilterInit
<1> QED
  BY <1>1, <1>2, <1>3, PTL DEF Spec, InOrder, Order!Spec

-----------------------------------------------------------------------------
(* That no rebuild loses a row: whoever links a library that has moved since is
   on the queue or found by doctor, for any packages, deps, targets, threads,
   failures and kills, where these hold:

   - no other kiry installs while a rebuild runs (Beside is FALSE);
   - a symbol that leaves comes back as it was: back asks for the name alone, so
     one that comes back in another size takes the row of who needs it (OneSize);
   - no package links its own other target (Foreign);
   - what a level changes is linked by nothing that goes in with it or is in
     already (Apart). Listing says when the constants alone see to that. *)
OneSize == \A l \in Item : 0 \in Abis[l] => \A a, b \in Abis[l] \ {0} : a = b
Foreign == \A i, l \in Item : <<i, l>> \in Uses => NameOf[i] # NameOf[l]

\* what links a library lists it and needs no stand-in itself, or the library links nothing
Listing ==
  \A i, l \in Item : <<i, l>> \in Uses =>
    \/ <<i, l>> \in Deps /\ NameOf[i] \notin Starters
    \/ \A m \in Item : <<l, m>> \notin Uses

-----------------------------------------------------------------------------
(* The invariant. Needy is Stale where doctor sees nothing; its row must be
   there, whatever else doctor finds. *)
Needy(i, l) == /\ <<i, l>> \in Uses /\ linked[i][l] # 0
               /\ inst[l] # 0 /\ inst[l] # linked[i][l]
HasRow(i, l) == \E r \in queue : r.item = i /\ r.lib = l

\* nothing has an ABI no recipe had, and only a library that can lose its symbol has rows that say so
FromAbis ==
  /\ \A i \in Item : recipe[i] \in Abis[i] /\ inst[i] \in Abis[i]
  /\ \A i, l \in Item : linked[i][l] \in Abis[l] \cup {0}
  /\ \A r \in queue : r.gone => 0 \in Abis[r.lib]
RowsUse ==
  /\ \A r \in queue : <<r.item, r.lib>> \in Uses
  /\ \A i \in want : \E l \in Item : <<i, l>> \in Uses
Queued == \A i, l \in Item : Needy(i, l) => HasRow(i, l)
\* a level is compiled against what is installed all the while
SeenInv ==
  /\ \A t \in Threads : ~Free(t) => th[t].seen = inst
  /\ \A i \in Item : InHand(i) /\ errs[NameOf[i]] = "ok" =>
       art[i] = [abi |-> recipe[i], linked |-> Linking(i, inst)]
\* what this rebuild has put in fits what is there, and needs no row
PlacedInv == \A i \in Placed, l \in Item : ~Needy(i, l)
StoodInv == \A i \in stands \cup Placed : inst[i] = recipe[i]
Ahead == pc \notin {"idle", "plan"} => left = {} /\ at # 0

QueueInv == FromAbis /\ RowsUse /\ Queued /\ SeenInv /\ PlacedInv /\ StoodInv /\ Ahead

LEMMA QueuedMeans == ASSUME TypeInv, QueueInv PROVE StaleQueued
<1>1. \A i, l \in Item : Stale(i, l) /\ ~Doctor(i) => Needy(i, l)
  BY DEF Stale, Moved, Doctor, Needy
<1> QED
  BY <1>1 DEF QueueInv, Queued, HasRow, StaleQueued

LEMMA LinkingIs ==
  ASSUME NEW i \in Item, NEW f
  PROVE  \A l \in Item : Linking(i, f)[l] = IF <<i, l>> \in Uses THEN f[l] ELSE 0
BY DEF Linking

LEMMA QueueInit == ASSUME Init PROVE QueueInv
<1>1. /\ \A i \in Item : recipe[i] \in Abis[i] \ {0}
      /\ inst = recipe /\ linked = [i \in Item |-> Linking(i, inst)]
      /\ queue = {} /\ want = {} /\ stands = {} /\ level = {} /\ plan = <<>> /\ pc = "idle"
      /\ \A t \in Threads : Free(t)
  BY DEF Init, Free, Idle
<1>2. \A i, l \in Item : linked[i][l] = IF <<i, l>> \in Uses THEN inst[l] ELSE 0
  BY <1>1, LinkingIs
<1>3. \A i, l \in Item : ~Needy(i, l)
  BY <1>2 DEF Needy
<1>4. Placed = {}
  BY <1>1 DEF Placed
<1>5. FromAbis
  BY <1>1, <1>2 DEF FromAbis
<1>6. RowsUse /\ Queued
  BY <1>1, <1>3 DEF RowsUse, Queued
<1>7. SeenInv
  BY <1>1 DEF SeenInv, InHand, Half, Whole
<1>8. PlacedInv /\ StoodInv /\ Ahead
  BY <1>1, <1>4 DEF PlacedInv, StoodInv, Ahead
<1> QED
  BY <1>5, <1>6, <1>7, <1>8 DEF QueueInv

-----------------------------------------------------------------------------
(* Steps that install nothing. *)
LEMMA WorldQuiet ==
  ASSUME QueueInv, UNCHANGED world, want' = want \/ want' = {},
         Placed' \subseteq Placed, stands' \subseteq stands, SeenInv', Ahead'
  PROVE  QueueInv'
<1>1. /\ UNCHANGED <<recipe, inst, linked, queue>>
      /\ \A i, l : Needy(i, l)' <=> Needy(i, l)
      /\ \A i, l : HasRow(i, l)' <=> HasRow(i, l)
  BY DEF world, Needy, HasRow
<1>2. FromAbis'
  BY <1>1 DEF QueueInv, FromAbis
<1>3. RowsUse'
  BY <1>1 DEF QueueInv, RowsUse
<1>4. Queued'
  BY <1>1 DEF QueueInv, Queued
<1>5. PlacedInv'
  BY <1>1 DEF QueueInv, PlacedInv
<1>6. StoodInv'
  BY <1>1 DEF QueueInv, StoodInv
<1> QED
  BY <1>2, <1>3, <1>4, <1>5, <1>6 DEF QueueInv

\* with no level in hand there is nothing to have been seen
LEMMA NoLevel ==
  ASSUME OrderInv, pc \notin InLevel
  PROVE  level = {} /\ \A t \in Threads : Free(t)
BY DEF OrderInv, RunInv, PhaseInv, ErrsInv, InLevel

LEMMA NothingSeen ==
  ASSUME level' = {}, \A t \in Threads : Free(t)' PROVE SeenInv'
BY DEF SeenInv, InHand, Half, Whole

\* none of these moves what was put in
LEMMA PlacedSame == ASSUME UNCHANGED <<want, plan, at>>, failed \subseteq failed' PROVE Placed' \subseteq Placed
BY DEF Placed

LEMMA GoneSeen ==
  ASSUME Leave PROVE Placed' = {} /\ stands' = {} /\ want' = {} /\ SeenInv' /\ Ahead'
<1>1. /\ pc' = "idle" /\ want' = {} /\ stands' = {} /\ level' = {} /\ th' = [t \in Threads |-> Idle]
  BY DEF Leave
<1>2. \A t \in Threads : Free(t)'
  BY <1>1 DEF Free, Idle
<1> QED
  BY <1>1, <1>2, NothingSeen DEF Placed, Ahead

LEMMA BumpQueue ==
  ASSUME OrderInv, QueueInv, NEW i \in Item, Bump(i) PROVE QueueInv'
<1>1. /\ pc = "idle" /\ pc' = "idle" /\ plan = <<>> /\ stands = {}
      /\ UNCHANGED <<inst, linked, queue, want, left, plan, at, failed, stands, level, th, errs, art>>
  BY DEF Bump, local, pool, OrderInv, RunInv, PhaseInv
<1>2. level = {} /\ \A t \in Threads : Free(t)
  BY <1>1, NoLevel DEF InLevel
<1>3. Placed' = {}
  BY <1>1 DEF Placed
<1>4. \A j \in Item : recipe'[j] \in Abis[j]
  <2>1. PICK a \in Abis[i] \ {recipe[i]} : recipe' = [recipe EXCEPT ![i] = a]
    BY DEF Bump
  <2> QED
    BY <2>1 DEF QueueInv, FromAbis, OrderInv, TypeInv, TypeOK, WorldTyped
<1>5. FromAbis' /\ RowsUse'
  BY <1>1, <1>4 DEF QueueInv, FromAbis, RowsUse
<1>6. Queued'
  BY <1>1 DEF QueueInv, Queued, Needy, HasRow
<1>7. SeenInv'
  BY <1>1, <1>2, NothingSeen DEF Free
<1>8. PlacedInv' /\ StoodInv' /\ Ahead'
  BY <1>1, <1>3 DEF PlacedInv, StoodInv, Ahead
<1> QED
  BY <1>5, <1>6, <1>7, <1>8 DEF QueueInv

\* a row that back takes was not needed
LEMMA BeginQueue ==
  ASSUME OneSize, OrderInv, QueueInv, Begin PROVE QueueInv'
<1>1. /\ pc = "idle" /\ plan = <<>> /\ stands = {} /\ at = 0
      /\ UNCHANGED <<recipe, inst, linked, plan, at, failed, stands, level, th, errs, art>>
      /\ queue' = {r \in queue : ~Back(r)}
      /\ want' = {r.item : r \in queue'} \cup {i \in Item : Doctor(i)}
  BY DEF Begin, pool, OrderInv, RunInv, PhaseInv
<1>2. level = {} /\ \A t \in Threads : Free(t)
  BY <1>1, NoLevel DEF InLevel
<1>3. Placed' = {}
  BY <1>1 DEF Placed
<1>4. FromAbis'
  BY <1>1 DEF QueueInv, FromAbis
<1>5. RowsUse'
  <2>1. \A r \in queue' : <<r.item, r.lib>> \in Uses /\ r.lib \in Item
    BY <1>1 DEF QueueInv, RowsUse, OrderInv, TypeInv, TypeOK, WorldTyped, Row
  <2>2. ASSUME NEW i \in want' PROVE \E l \in Item : <<i, l>> \in Uses
    <3>1. CASE i \in {r.item : r \in queue'}
      BY <2>1, <3>1
    <3>2. CASE i \in {j \in Item : Doctor(j)}
      BY <3>2 DEF Doctor
    <3> QED
      BY <1>1, <2>2, <3>1, <3>2
  <2> QED
    BY <2>1, <2>2 DEF RowsUse
<1>6. Queued'
  <2> SUFFICES ASSUME NEW i \in Item, NEW l \in Item, Needy(i, l)' PROVE HasRow(i, l)'
    BY DEF Queued
  <2>1. Needy(i, l)
    BY <1>1 DEF Needy
  <2>2. PICK r \in queue : r.item = i /\ r.lib = l
    BY <2>1 DEF QueueInv, Queued, HasRow
  <2>3. 0 \notin Abis[l]
    BY <2>1 DEF Needy, QueueInv, FromAbis, OneSize
  <2>4. ~Back(r)
    BY <2>2, <2>3 DEF Back, QueueInv, FromAbis
  <2> QED
    BY <1>1, <2>2, <2>4 DEF HasRow
<1>7. SeenInv'
  BY <1>1, <1>2, NothingSeen DEF Free
<1>8. Ahead'
  BY <1>1 DEF Ahead, Begin
<1>9. PlacedInv' /\ StoodInv'
  BY <1>1, <1>3 DEF PlacedInv, StoodInv
<1> QED
  BY <1>4, <1>5, <1>6, <1>7, <1>8, <1>9 DEF QueueInv

\* a plan is made, and nothing of it is in
LEMMA PlanningQueue ==
  ASSUME OrderInv, QueueInv, PlanLevel \/ PlanBoot \/ Bring PROVE QueueInv'
<1>1. /\ pc = "plan" /\ pc' \in {"plan", "level"} /\ failed = {} /\ stands = {} /\ at = 0
      /\ UNCHANGED <<want, failed, stands, level, th, errs, art>> /\ UNCHANGED world
      /\ at' = 0 \/ at' = 1
      /\ pc' = "level" => left' = {} /\ at' # 0
  <2>1. pc = "plan" /\ failed = {} /\ stands = {} /\ at = 0
    BY DEF OrderInv, RunInv, PhaseInv, PlanLevel, PlanBoot, Bring
  <2>2. CASE PlanLevel
    BY <2>1, <2>2 DEF PlanLevel, pool
  <2>3. CASE PlanBoot
    BY <2>1, <2>3 DEF PlanBoot, pool
  <2>4. CASE Bring
    BY <2>1, <2>4 DEF Bring, pool
  <2> QED
    BY <2>1, <2>2, <2>3, <2>4
<1>2. DOMAIN plan' = 1 .. Len(plan') /\ Len(plan') \in Nat
  <2>1. plan \in Seq(SUBSET (Item \X BOOLEAN))
    BY DEF OrderInv, TypeInv, TypeOK, PlanTyped
  <2>2. plan' = plan \/ \E L : plan' = Append(plan, L)
    BY DEF PlanLevel, PlanBoot, Bring
  <2> QED
    BY <2>1, <2>2
<1>3. \A k \in DOMAIN plan' : ~(k < at')
  BY <1>1, <1>2
<1>4. Placed' = {}
  BY <1>3 DEF Placed
<1>5. level = {} /\ \A t \in Threads : Free(t)
  BY <1>1, NoLevel DEF InLevel
<1>6. SeenInv'
  BY <1>1, <1>5, NothingSeen DEF Free
<1>7. Ahead'
  BY <1>1 DEF Ahead
<1> QED
  BY <1>1, <1>4, <1>6, <1>7, WorldQuiet

\* a level that starts has no outcome yet
LEMMA StartLevelQueue ==
  ASSUME OrderInv, QueueInv, StartLevel PROVE QueueInv'
<1>1. /\ pc = "level" /\ pc' = "run" /\ failed \subseteq failed'
      /\ UNCHANGED <<want, left, plan, at, stands, th, errs, art>> /\ UNCHANGED world
      /\ level' \subseteq plan[at] /\ at \in DOMAIN plan
  BY DEF StartLevel
<1>2. \A t \in Threads : Free(t)
  BY <1>1, NoLevel DEF InLevel
<1>3. \A n \in Name : errs[n] = "none"
  BY <1>1 DEF OrderInv, ErrsInv
<1>4. SeenInv'
  BY <1>1, <1>2, <1>3, RebuildAssumption DEF SeenInv, Free
<1>5. Ahead'
  BY <1>1 DEF Ahead, QueueInv
<1> QED
  BY <1>1, <1>4, <1>5, PlacedSame, WorldQuiet

\* the pool: nothing is installed, and what is compiled is compiled against what is there
LEMMA PoolQueue ==
  ASSUME QueueInv, UNCHANGED world, UNCHANGED <<want, left, plan, at, failed, stands, level>>,
         pc \notin {"idle", "plan"},
         \A t \in Threads : Free(t)' \/ (th'[t] = th[t]) \/ th'[t].seen = inst,
         \A n \in Name : errs'[n] = "ok" => errs[n] = "ok",
         art' = art
  PROVE  QueueInv'
<1>1. UNCHANGED <<recipe, inst>>
  BY DEF world
<1>2. SeenInv'
  <2>1. ASSUME NEW t \in Threads, ~Free(t)' PROVE th'[t].seen = inst'
    BY <1>1, <2>1 DEF QueueInv, SeenInv, Free
  <2>2. ASSUME NEW i \in Item, InHand(i)', errs'[NameOf[i]] = "ok"
        PROVE  art'[i] = [abi |-> recipe'[i], linked |-> Linking(i, inst')]
    <3>1. InHand(i) /\ errs[NameOf[i]] = "ok"
      BY <2>2, RebuildAssumption DEF InHand, Half, Whole
    <3> QED
      BY <1>1, <3>1 DEF QueueInv, SeenInv
  <2> QED
    BY <1>1, <2>1, <2>2 DEF SeenInv, Linking
<1>3. Ahead'
  BY DEF Ahead, QueueInv
<1> QED
  BY <1>2, <1>3, PlacedSame, WorldQuiet

LEMMA PoolTypes ==
  ASSUME OrderInv
  PROVE  /\ th \in [Threads -> Running] /\ errs \in [Name -> {"none", "ok", "wait", "again", "failed"}]
         /\ level \subseteq Item \X BOOLEAN /\ art \in [Item -> Build]
         /\ \A t \in Threads : ~Free(t) => th[t].name \in Name /\ pc \in {"run", "redo"}
BY DEF OrderInv, TypeInv, TypeOK, PoolTyped, Running, Free, ErrsInv

LEMMA TakeQueue ==
  ASSUME OrderInv, QueueInv, NEW t \in Threads, Take(t) PROVE QueueInv'
<1>1. /\ pc = "run" /\ UNCHANGED <<want, left, plan, at, failed, stands, level, errs, art>>
      /\ UNCHANGED world
  BY DEF Take, local
<1>2. \A u \in Threads : th'[u] = th[u] \/ th'[u].seen = inst
  BY PoolTypes DEF Take, Starting
<1> QED
  BY <1>1, <1>2, PoolQueue

LEMMA SucceedsQueue ==
  ASSUME OrderInv, QueueInv, NEW t \in Threads, Succeeds(t) PROVE QueueInv'
<1> DEFINE n == th[t].name
<1>1. /\ ~Free(t) /\ UNCHANGED <<want, left, plan, at, failed, stands, level, pc>> /\ UNCHANGED world
      /\ art' = [i \in Item |-> IF \E x \in Mine(n) : x[1] = i
                                THEN [abi |-> recipe[i], linked |-> Linking(i, th[t].seen)] ELSE art[i]]
      /\ th' = [th EXCEPT ![t] = Idle] /\ errs' = [errs EXCEPT ![n] = "ok"]
  BY DEF Succeeds, Ended, local
<1>2. n \in Name /\ pc \in {"run", "redo"} /\ th[t].seen = inst /\ UNCHANGED <<recipe, inst>>
  BY <1>1, PoolTypes DEF QueueInv, SeenInv, world
<1>3. \A u \in Threads : ~Free(u)' => th'[u].seen = inst'
  BY <1>1, <1>2, PoolTypes DEF QueueInv, SeenInv, Free, Idle
<1>4. ASSUME NEW i \in Item, InHand(i)', errs'[NameOf[i]] = "ok"
      PROVE  art'[i] = [abi |-> recipe'[i], linked |-> Linking(i, inst')]
  <2>1. InHand(i)
    BY <1>1, <1>4 DEF InHand, Half, Whole
  <2>2. CASE NameOf[i] = n
    <3>1. \E x \in Mine(n) : x[1] = i
      BY <2>1, <2>2 DEF Mine, InHand, Half, Whole
    <3> QED
      BY <1>1, <1>2, <3>1
  <2>3. CASE NameOf[i] # n
    <3>1. ~\E x \in Mine(n) : x[1] = i
      BY <2>3 DEF Mine
    <3>2. errs[NameOf[i]] = "ok"
      BY <1>1, <1>2, <1>4, <2>3, PoolTypes, RebuildAssumption
    <3> QED
      BY <1>1, <1>2, <2>1, <3>1, <3>2 DEF QueueInv, SeenInv
  <2> QED
    BY <2>2, <2>3
<1>5. SeenInv'
  BY <1>3, <1>4 DEF SeenInv, Linking
<1>6. Ahead'
  BY <1>1 DEF QueueInv, Ahead
<1> QED
  BY <1>1, <1>5, <1>6, PlacedSame, WorldQuiet

LEMMA WorksQueue ==
  ASSUME OrderInv, QueueInv, NEW t \in Threads, Works(t) PROVE QueueInv'
<1>1. CASE Succeeds(t)
  BY <1>1, SucceedsQueue
<1>2. CASE Waits(t) \/ Fails(t)
  <2>1. PICK e \in {"wait", "failed"} :
          /\ ~Free(t) /\ UNCHANGED <<want, left, plan, at, failed, stands, level, art, pc>>
          /\ UNCHANGED world
          /\ th' = [th EXCEPT ![t] = Idle] /\ errs' = [errs EXCEPT ![th[t].name] = e]
    BY <1>2 DEF Waits, Fails, Ended, local
  <2>2. \A u \in Threads : Free(u)' \/ th'[u] = th[u]
    BY <2>1, PoolTypes DEF Free, Idle
  <2>3. \A n \in Name : errs'[n] = "ok" => errs[n] = "ok"
    BY <2>1, PoolTypes
  <2>4. pc \in {"run", "redo"}
    BY <2>1, PoolTypes
  <2> QED
    BY <2>1, <2>2, <2>3, <2>4, PoolQueue
<1>3. CASE Fix(t) \/ Climb(t)
  <2>1. /\ ~Free(t) /\ UNCHANGED <<want, left, plan, at, failed, stands, level, errs, art, pc>>
        /\ UNCHANGED world
    BY <1>3 DEF Fix, Climb, Retries, local
  <2>2. \A u \in Threads : th'[u] = th[u] \/ th'[u].seen = inst
    <3>1. CASE Fix(t)
      BY <3>1, PoolTypes DEF Fix, Running
    <3>2. CASE Climb(t)
      BY <3>2, PoolTypes DEF Climb, Running
    <3> QED
      BY <1>3, <3>1, <3>2
  <2>3. pc \in {"run", "redo"}
    BY <2>1, PoolTypes
  <2> QED
    BY <2>1, <2>2, <2>3, PoolQueue
<1> QED
  BY <1>1, <1>2, <1>3 DEF Works

LEMMA WaitersQueue ==
  ASSUME OrderInv, QueueInv, Swap \/ Retry \/ Redo \/ Redone PROVE QueueInv'
<1>1. /\ pc \notin {"idle", "plan"} /\ UNCHANGED <<want, left, plan, at, failed, stands, level, art>>
      /\ UNCHANGED world
  BY DEF Swap, Retry, Redo, Redone, local
<1>2. \A u \in Threads : th'[u] = th[u] \/ th'[u].seen = inst
  BY PoolTypes DEF Swap, Retry, Redo, Redone, Bringing, Starting
<1>3. \A n \in Name : errs'[n] = "ok" => errs[n] = "ok"
  BY PoolTypes DEF Swap, Retry, Redo, Redone
<1> QED
  BY <1>1, <1>2, <1>3, PoolQueue

LEMMA CollectQueue ==
  ASSUME OrderInv, QueueInv, Collect PROVE QueueInv'
<1>1. /\ pc = "retry" /\ failed \subseteq failed'
      /\ UNCHANGED <<want, left, plan, at, stands, level, th, errs, art>> /\ UNCHANGED world
  BY DEF Collect, pool
<1>2. SeenInv'
  BY <1>1 DEF QueueInv, SeenInv, InHand, Half, Whole, Free, Linking, world
<1>3. Ahead'
  BY <1>1 DEF Ahead, QueueInv
<1> QED
  BY <1>1, <1>2, <1>3, PlacedSame, WorldQuiet

-----------------------------------------------------------------------------
(* Steps that install: what moves is queued for who links it and is not part of
   the batch M. *)
LEMMA QueuesTheRest ==
  ASSUME OneSize, OrderInv, QueueInv, NEW M,
         queue' = queue \cup Affected(linked', inst, inst', M),
         \A j \in Item : inst'[j] \in Abis[j] /\ inst'[j] \in Abi,
         NEW i \in Item, i \notin M, linked'[i] = linked[i],
         NEW l \in Item, Needy(i, l)'
  PROVE  HasRow(i, l)'
<1>1. <<i, l>> \in Uses /\ linked[i][l] # 0 /\ inst'[l] # 0 /\ inst'[l] # linked[i][l]
  BY DEF Needy
<1>2. CASE inst'[l] = inst[l]
  BY <1>1, <1>2 DEF Needy, QueueInv, Queued, HasRow
<1>3. CASE inst'[l] # inst[l]
  <2>1. inst[l] # 0
    <3>1. linked[i][l] \in Abis[l] \ {0} /\ inst'[l] \in Abis[l] \ {0} /\ inst[l] \in Abis[l]
      BY <1>1 DEF QueueInv, FromAbis
    <3> QED
      BY <1>1, <3>1 DEF OneSize
  <2> DEFINE r == [item |-> i, lib |-> l, gone |-> FALSE]
  <2>2. r \in Row /\ r.item = i /\ r.lib = l /\ r.gone = FALSE
    BY DEF Row
  <2>3. r.gone = (inst'[r.lib] = 0)
    BY <1>1, <2>2
  <2> HIDE DEF r
  <2>4. r \in Affected(linked', inst, inst', M)
    BY <1>1, <1>3, <2>1, <2>2, <2>3 DEF Affected, Moved
  <2> QED
    BY <2>2, <2>4 DEF HasRow
<1> QED
  BY <1>2, <1>3

\* the rows it adds are of who uses what moved
LEMMA QueuesUses ==
  ASSUME OrderInv, QueueInv, NEW M, NEW now, NEW is,
         queue' = queue \cup Affected(now, inst, is, M),
         \A j \in Item : is[j] \in Abis[j]
  PROVE  \A r \in queue' : <<r.item, r.lib>> \in Uses /\ (r.gone => 0 \in Abis[r.lib])
<1>1. ASSUME NEW r \in Affected(now, inst, is, M)
      PROVE  <<r.item, r.lib>> \in Uses /\ (r.gone => 0 \in Abis[r.lib])
  BY <1>1 DEF Affected, Row
<1>2. ASSUME NEW r \in queue
      PROVE  <<r.item, r.lib>> \in Uses /\ (r.gone => 0 \in Abis[r.lib])
  BY <1>2 DEF QueueInv, RowsUse, FromAbis
<1> QED
  BY <1>1, <1>2

LEMMA InstallQueue ==
  ASSUME OneSize, Foreign, Beside = FALSE, OrderInv, QueueInv, NEW n \in Name, Install(n)
  PROVE  QueueInv'
<1>1. /\ pc = "idle" /\ pc' = "idle" /\ plan = <<>> /\ stands = {}
      /\ UNCHANGED <<recipe, want, left, plan, at, failed, stands, level, th, errs, art>>
      /\ inst' = [i \in Item |-> IF i \in Of(n) THEN recipe[i] ELSE inst[i]]
      /\ linked' = [i \in Item |-> IF i \in Of(n) THEN Linking(i, inst) ELSE linked[i]]
      /\ queue' = queue \cup Affected(linked', inst, inst', Of(n))
  BY DEF Install, local, pool, OrderInv, RunInv, PhaseInv
<1>2. level = {} /\ \A t \in Threads : Free(t)
  BY <1>1, NoLevel DEF InLevel
<1>3. Placed' = {}
  BY <1>1 DEF Placed
<1>4. \A j \in Item : inst'[j] \in Abis[j] /\ inst'[j] \in Abi
  BY <1>1 DEF QueueInv, FromAbis, OrderInv, TypeInv, TypeOK, WorldTyped
<1>5. \A i, l \in Item : linked'[i][l] = IF i \in Of(n) THEN IF <<i, l>> \in Uses THEN inst[l] ELSE 0
                                                        ELSE linked[i][l]
  BY <1>1, LinkingIs
<1>6. \A r \in queue' : <<r.item, r.lib>> \in Uses /\ (r.gone => 0 \in Abis[r.lib])
  BY <1>1, <1>4, QueuesUses
<1>7. FromAbis'
  BY <1>1, <1>4, <1>5, <1>6 DEF QueueInv, FromAbis
<1>8. RowsUse'
  BY <1>1, <1>6 DEF QueueInv, RowsUse
<1>9. Queued'
  <2> SUFFICES ASSUME NEW i \in Item, NEW l \in Item, Needy(i, l)' PROVE HasRow(i, l)'
    BY DEF Queued
  <2>1. CASE i \in Of(n)
    <3>1. linked'[i][l] = inst[l] /\ inst'[l] # inst[l] /\ <<i, l>> \in Uses
      BY <1>5, <2>1 DEF Needy
    <3>2. l \notin Of(n)
      BY <2>1, <3>1 DEF Of, Foreign
    <3> QED
      BY <1>1, <3>1, <3>2
  <2>2. CASE i \notin Of(n)
    BY <1>1, <1>4, <2>2, QueuesTheRest
  <2> QED
    BY <2>1, <2>2
<1>10. SeenInv'
  BY <1>1, <1>2, NothingSeen DEF Free
<1>11. PlacedInv' /\ StoodInv' /\ Ahead'
  BY <1>1, <1>3 DEF PlacedInv, StoodInv, Ahead
<1> QED
  BY <1>7, <1>8, <1>9, <1>10, <1>11 DEF QueueInv

LEMMA MadeIs ==
  ASSUME OrderInv PROVE \A i : i \in Made <=> InHand(i) /\ errs[NameOf[i]] = "ok"
<1>1. \A x \in level : \/ x = <<x[1], TRUE>>
                       \/ x = <<x[1], FALSE>>
  <2>1. \A x \in level : x = <<x[1], x[2]>> /\ x[2] \in BOOLEAN
    BY PoolTypes
  <2> QED
    BY <2>1, Zenon
<1> QED
  BY <1>1 DEF Made, InHand, Half, Whole

LEMMA ApplyQueue ==
  ASSUME OneSize, Foreign, OrderInv, QueueInv, Apart, Apply PROVE QueueInv'
<1>1. /\ pc = "apply" /\ pc' = "level" /\ at' = at + 1 /\ level' = {}
      /\ stands' = stands \cup {i \in Made : <<i, TRUE>> \in level}
      /\ UNCHANGED <<recipe, want, left, plan, failed, th>>
      /\ inst' = [i \in Item |-> IF i \in Made THEN art[i].abi ELSE inst[i]]
      /\ linked' = [i \in Item |-> IF i \in Made THEN art[i].linked ELSE linked[i]]
      /\ queue' = queue \cup Affected(linked', inst, inst', Made)
  BY DEF Apply
<1>2. at \in DOMAIN plan /\ at \in Nat /\ DOMAIN plan = 1 .. Len(plan) /\ Len(plan) \in Nat
  BY <1>1 DEF OrderInv, TypeInv, TypeOK, PlanTyped, AtLevel, InLevel
<1>3. \A i : InHand(i) => i \in Item /\ i \notin Placed
  BY <1>1, <1>2, InPlan DEF InHand, Half, Whole, OrderInv, RunInv, LevelInv, InLevel
<1>4. \A i \in Made : /\ i \in Item /\ InHand(i) /\ i \notin failed /\ i \notin Placed
                      /\ art[i] = [abi |-> recipe[i], linked |-> Linking(i, inst)]
  <2>1. \A i \in Made : InHand(i) /\ errs[NameOf[i]] = "ok"
    BY MadeIs
  <2>2. \A i \in Made : i \notin failed
    BY <1>1, <2>1 DEF InHand, Half, Whole, OrderInv, RunInv, LevelInv
  <2> QED
    BY <1>3, <2>1, <2>2 DEF QueueInv, SeenInv
<1>5. /\ \A i \in Item : inst'[i] = IF i \in Made THEN recipe[i] ELSE inst[i]
      /\ \A i \in Item \ Made : linked'[i] = linked[i]
      /\ \A i, l \in Item : linked'[i][l] = IF i \in Made THEN IF <<i, l>> \in Uses THEN inst[l] ELSE 0
                                                        ELSE linked[i][l]
  <2>0. \A i \in Made : i \in Item /\ art[i].abi = recipe[i] /\ art[i].linked = Linking(i, inst)
    <3> SUFFICES ASSUME NEW i \in Made
                 PROVE  i \in Item /\ art[i].abi = recipe[i] /\ art[i].linked = Linking(i, inst)
      OBVIOUS
    <3>1. i \in Item /\ art[i] = [abi |-> recipe[i], linked |-> Linking(i, inst)]
      BY <1>4
    <3> QED
      BY <3>1
  <2>1. \A i \in Item : inst'[i] = IF i \in Made THEN recipe[i] ELSE inst[i]
    <3>1. inst' = [i \in Item |-> IF i \in Made THEN art[i].abi ELSE inst[i]]
      BY <1>1
    <3> QED
      BY <2>0, <3>1
  <2>2. \A i \in Item \ Made : linked'[i] = linked[i]
    BY <1>1
  <2>3. ASSUME NEW i \in Item, NEW l \in Item, i \in Made
        PROVE  linked'[i][l] = IF <<i, l>> \in Uses THEN inst[l] ELSE 0
    <3>1. linked' = [j \in Item |-> IF j \in Made THEN art[j].linked ELSE linked[j]]
      BY <1>1
    <3>2. linked'[i] = Linking(i, inst)
      BY <2>0, <2>3, <3>1
    <3> QED
      BY <3>2, LinkingIs
  <2> QED
    BY <2>1, <2>2, <2>3
<1>6. \A j \in Item : inst'[j] \in Abis[j] /\ inst'[j] \in Abi
  BY <1>5 DEF QueueInv, FromAbis, OrderInv, TypeInv, TypeOK, WorldTyped
<1>7. \A r \in queue' : <<r.item, r.lib>> \in Uses /\ (r.gone => 0 \in Abis[r.lib])
  BY <1>1, <1>6, QueuesUses
<1>8. FromAbis'
  BY <1>1, <1>5, <1>6, <1>7 DEF QueueInv, FromAbis
<1>9. RowsUse'
  BY <1>1, <1>7 DEF QueueInv, RowsUse
\* what is built now, and what was put in before, fits what is there now
<1>10. \A i \in Placed \cup Made, l \in Item : <<i, l>> \in Uses => inst'[l] = inst[l]
  <2> SUFFICES ASSUME NEW i \in Placed \cup Made, NEW l \in Item, <<i, l>> \in Uses
               PROVE  inst'[l] = inst[l]
    OBVIOUS
  <2>1. i \in Item /\ (InHand(i) \/ i \in Placed)
    BY <1>4 DEF Placed, OrderInv, TypeInv, TypeOK, PlanTyped
  <2>2. CASE l \in Made
    <3>1. inst[l] = recipe[l]
      BY <1>4, <2>1, <2>2 DEF Apart
    <3> QED
      BY <1>5, <2>2, <3>1
  <2>3. CASE l \notin Made
    BY <1>5, <2>3
  <2> QED
    BY <2>2, <2>3
<1>11. \A i \in Made, l \in Item : ~Needy(i, l)'
  BY <1>4, <1>5, <1>10 DEF Needy
<1>12. Queued'
  <2> SUFFICES ASSUME NEW i \in Item, NEW l \in Item, Needy(i, l)' PROVE HasRow(i, l)'
    BY DEF Queued
  <2>1. i \notin Made
    BY <1>11
  <2> QED
    BY <1>1, <1>5, <1>6, <2>1, QueuesTheRest
<1>13. Placed' \subseteq Placed \cup Made
  <2>1. \A k \in DOMAIN plan : k < at + 1 <=> k < at \/ k = at
    BY <1>2
  <2>2. ASSUME NEW i \in want \ failed, <<i, FALSE>> \in plan[at] PROVE i \in Made
    <3>1. Full(at, i)
      BY <1>2, <2>2 DEF Full
    <3>2. InHand(i)
      BY <1>1, <2>2, <3>1 DEF InHand, Half, Whole, OrderInv, RunInv, LevelInv, InLevel
    <3> QED
      BY <1>1, <2>2, <3>2, MadeIs DEF InHand, Half, Whole, OrderInv, RunInv, LevelInv
  <2> QED
    BY <1>1, <2>1, <2>2 DEF Placed
<1>14. PlacedInv'
  <2>1. ASSUME NEW i \in Placed, i \notin Made, NEW l \in Item PROVE ~Needy(i, l)'
    <3>1. i \in Item /\ ~Needy(i, l)
      BY <2>1 DEF Placed, QueueInv, PlacedInv, OrderInv, TypeInv, TypeOK, PlanTyped
    <3> QED
      BY <1>5, <1>10, <2>1, <3>1 DEF Needy
  <2> QED
    BY <1>11, <1>13, <2>1 DEF PlacedInv
<1>15. StoodInv'
  <2>1. \A i \in stands' \cup Placed' : i \in stands \cup Placed \cup Made /\ i \in Item
    BY <1>1, <1>4, <1>13 DEF Placed, OrderInv, TypeInv, TypeOK, PlanTyped
  <2> QED
    BY <1>1, <1>5, <2>1 DEF QueueInv, StoodInv
<1>16. SeenInv'
  <2>1. \A t \in Threads : Free(t)
    BY <1>1 DEF OrderInv, ErrsInv
  <2> QED
    BY <1>1, <2>1, NothingSeen DEF Free
<1>17. Ahead'
  BY <1>1, <1>2 DEF QueueInv, Ahead
<1> QED
  BY <1>8, <1>9, <1>12, <1>14, <1>15, <1>16, <1>17 DEF QueueInv

\* the rows that leave are of what is in, and that needs none
LEMMA DropQueue ==
  ASSUME OrderInv, QueueInv, Drop PROVE QueueInv'
<1>1. /\ pc = "level" /\ at \notin DOMAIN plan
      /\ queue' = {r \in queue : r.item \notin want \/ r.item \in failed}
      /\ UNCHANGED <<recipe, inst, linked>>
  BY DEF Drop
<1>2. Placed' = {} /\ stands' = {} /\ want' = {} /\ SeenInv' /\ Ahead'
  BY GoneSeen DEF Drop
<1>3. want \ failed \subseteq Placed
  <2>1. at \in Nat /\ DOMAIN plan = 1 .. Len(plan) /\ Len(plan) \in Nat /\ at <= Len(plan) + 1
    BY DEF OrderInv, TypeInv, TypeOK, PlanTyped
  <2>2. left = {} /\ at # 0
    BY <1>1 DEF QueueInv, Ahead
  <2>3. \A k \in DOMAIN plan : k < at
    BY <1>1, <2>1, <2>2
  <2>4. \A i \in want : \E k : Full(k, i)
    BY <2>2 DEF OrderInv, PlanInv
  <2> QED
    BY <2>3, <2>4 DEF Full, Placed
<1>4. Queued'
  <2> SUFFICES ASSUME NEW i \in Item, NEW l \in Item, Needy(i, l)' PROVE HasRow(i, l)'
    BY DEF Queued
  <2>1. Needy(i, l)
    BY <1>1 DEF Needy
  <2>2. i \notin Placed
    BY <2>1 DEF QueueInv, PlacedInv
  <2>3. PICK r \in queue : r.item = i /\ r.lib = l
    BY <2>1 DEF QueueInv, Queued, HasRow
  <2> QED
    BY <1>1, <1>3, <2>2, <2>3 DEF HasRow
<1>5. FromAbis' /\ RowsUse'
  BY <1>1, <1>2 DEF QueueInv, FromAbis, RowsUse
<1>6. PlacedInv' /\ StoodInv'
  BY <1>2 DEF PlacedInv, StoodInv
<1> QED
  BY <1>2, <1>4, <1>5, <1>6 DEF QueueInv

-----------------------------------------------------------------------------
LEMMA QueueNext ==
  ASSUME OneSize, Foreign, Beside = FALSE, OrderInv, QueueInv, Apart, [Next]_vars
  PROVE  QueueInv'
<1>1. CASE \E i \in Item : Bump(i)
  BY <1>1, BumpQueue
<1>2. CASE \E n \in Name : Install(n)
  BY <1>2, InstallQueue
<1>3. CASE Kill \/ PlanDies
  <2>1. Leave /\ UNCHANGED world
    BY <1>3 DEF Kill, PlanDies
  <2> QED
    BY <2>1, GoneSeen, WorldQuiet
<1>4. CASE Begin
  BY <1>4, BeginQueue
<1>5. CASE PlanLevel \/ PlanBoot \/ Bring
  BY <1>5, PlanningQueue
<1>6. CASE StartLevel
  BY <1>6, StartLevelQueue
<1>7. CASE \E t \in Threads : Take(t) \/ Works(t)
  BY <1>7, TakeQueue, WorksQueue
<1>8. CASE Swap \/ Retry \/ Redo \/ Redone
  BY <1>8, WaitersQueue
<1>9. CASE Collect
  BY <1>9, CollectQueue
<1>10. CASE Apply
  BY <1>10, ApplyQueue
<1>11. CASE Drop
  BY <1>11, DropQueue
<1>12. CASE UNCHANGED vars
  <2>1. UNCHANGED world /\ UNCHANGED <<want, left, plan, at, failed, stands, level, th, errs, art, pc>>
    BY <1>12 DEF vars, world
  <2>2. SeenInv'
    BY <2>1 DEF QueueInv, SeenInv, InHand, Half, Whole, Free, Linking, world
  <2>3. Ahead'
    BY <2>1 DEF QueueInv, Ahead
  <2> QED
    BY <2>1, <2>2, <2>3, PlacedSame, WorldQuiet
<1> QED
  BY <1>1, <1>2, <1>3, <1>4, <1>5, <1>6, <1>7, <1>8, <1>9, <1>10, <1>11, <1>12 DEF Next, Alone

\* Wherever no level changes what something that goes in with it links, and nothing else
\* installs meanwhile, every package a moved library has left behind has its row or is
\* doctor's to find (enqueue, back, affected and the queue's end in rebuild_cmd).
THEOREM RowsStay ==
  ASSUME OneSize, Foreign, Beside = FALSE
  PROVE  Spec /\ []Apart => []StaleQueued
<1> DEFINE Inv == OrderInv /\ FilterInv /\ QueueInv
<1>1. Init => Inv
  BY OrderInit, FilterInit, QueueInit
<1>2. Inv /\ Apart /\ [Next]_vars => Inv'
  BY FilterNext, OrderNext, QueueNext DEF OrderInv, FilterInv
<1>3. Inv => StaleQueued
  BY QueuedMeans DEF OrderInv
<1> QED
  BY <1>1, <1>2, <1>3, PTL DEF Spec

\* With what links listing what it links, the order of the levels keeps them apart: a
\* library a level builds beside its user has stood in before, from the same recipe.
LEMMA ListedApart ==
  ASSUME Listing, Foreign, OrderInv, QueueInv PROVE Apart
<1> SUFFICES ASSUME NEW i \in Item, NEW l \in Item, <<i, l>> \in Uses,
                    InHand(l), l \notin failed, InHand(i) \/ i \in Placed
             PROVE  inst[l] = recipe[l]
  BY DEF Apart
<1>1. pc \in InLevel
  BY DEF InHand, Half, Whole, OrderInv, RunInv, PhaseInv
<1>2. at \in DOMAIN plan /\ at \in Nat /\ DOMAIN plan = 1 .. Len(plan) /\ Len(plan) \in Nat
  BY <1>1 DEF OrderInv, TypeInv, TypeOK, PlanTyped, AtLevel
<1>3. \A j : (Half(j) => Boot(at, j)) /\ (Whole(j) => Full(at, j))
  BY <1>1 DEF OrderInv, RunInv, LevelInv
<1>4. l \in want /\ (Boot(at, l) \/ Full(at, l))
  BY <1>2, <1>3, InPlan DEF InHand, Half, Whole
<1>5. <<i, l>> \in Deps /\ NameOf[i] \notin Starters
  BY <1>4 DEF Listing, QueueInv, RowsUse
<1>6. ~Half(i)
  BY <1>2, <1>3, <1>5, InPlan
<1>7. PICK k : Full(k, i) /\ k \in Nat /\ k <= at
  <2>1. CASE Whole(i)
    BY <1>2, <1>3, <2>1
  <2>2. CASE i \in Placed
    <3>1. PICK k \in DOMAIN plan : k < at /\ <<i, FALSE>> \in plan[k]
      BY <2>2 DEF Placed
    <3>2. Full(k, i)
      BY <3>1 DEF Full
    <3>3. k \in Nat /\ k <= at
      BY <1>2, <3>1
    <3> QED
      BY <3>2, <3>3
  <2> QED
    BY <1>6, <2>1, <2>2 DEF InHand, Half, Whole
<1>8. PICK m : m < k /\ (Full(m, l) \/ Boot(m, l))
  <2>1. i # l
    BY DEF Foreign
  <2> QED
    BY <1>4, <1>5, <1>7, <2>1 DEF OrderInv, PlanInv
<1>9. m \in Nat /\ m < at /\ m # at
  BY <1>2, <1>7, <1>8 DEF Full, Boot
<1>10. ~Full(m, l)
  <2>1. Full(m, l) /\ Boot(at, l) => at < m
    BY DEF OrderInv, PlanInv
  <2>2. Full(m, l) /\ Full(at, l) => m = at
    BY DEF OrderInv, PlanInv
  <2> QED
    BY <1>2, <1>4, <1>9, <2>1, <2>2
<1>11. l \in stands
  BY <1>8, <1>9, <1>10 DEF OrderInv, RunInv, StandInv
<1> QED
  BY <1>11 DEF QueueInv, StoodInv

\* Where what a package links is in its recipe, or is a library that nothing under it can
\* outdate, the levels alone see to it that what is built links what it will run with.
THEOREM ListedLevelsApart ==
  ASSUME OneSize, Foreign, Listing, Beside = FALSE
  PROVE  Spec => []Apart
<1> DEFINE Inv == OrderInv /\ FilterInv /\ QueueInv
<1>1. Init => Inv
  BY OrderInit, FilterInit, QueueInit
<1>2. Inv /\ [Next]_vars => Inv'
  BY FilterNext, OrderNext, ListedApart, QueueNext DEF OrderInv, FilterInv
<1>3. Inv => Apart
  BY ListedApart
<1> QED
  BY <1>1, <1>2, <1>3, PTL DEF Spec

\* And so no row is lost, from the constants alone.
THEOREM ListedRowsStay ==
  ASSUME OneSize, Foreign, Listing, Beside = FALSE
  PROVE  Spec => []StaleQueued
BY ListedLevelsApart, RowsStay, PTL
=============================================================================
