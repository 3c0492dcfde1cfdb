---------------------------- MODULE PlannerProofs ----------------------------
(* What holds of Planner for any packages, recipes, roots and users: types, that
   no command takes what a file that stays runs, and that what leave leaves
   standing is the least set that has what was asked for and is closed under
   records, dlopens and files.

   walk, leave and its rounds are recursive functions over sets of packages. Each
   step of theirs adds a package, so that they come to an end and have one value
   is shown once (NoAscent, Climbs) and used for each. *)
EXTENDS Planner, FiniteSetTheorems, WellFoundedInduction, TLAPS

----------------------------------------------------------------------------
(* Functions over the sets of packages that only go up. *)

LEMMA PkgFinite == IsFiniteSet(Pkg)
BY PlannerAssumption

LEMMA Least ==
  ASSUME NEW S \in SUBSET Nat, S # {}
  PROVE  \E n \in S : \A m \in S : n <= m
<1> DEFINE R == {x \in Nat \X Nat : x[1] < x[2]}
<1>1. \A n, m \in Nat : n < m => <<n, m>> \in R
  OBVIOUS
<1>2. IsWellFoundedOn(R, Nat)
  BY NatLessThanWellFounded DEF OpToRel
<1> HIDE DEF R
<1>3. PICK x \in S : \A y \in S : ~(<<y, x>> \in R)
  BY <1>2, WFMin
<1>4. \A y \in S : ~(y < x)
  BY <1>1, <1>3
<1> QED
  BY <1>4

LEMMA FromZero ==
  ASSUME NEW P \in SUBSET Nat, 0 \in P, \A n \in P : n + 1 \in P
  PROVE  P = Nat
<1> SUFFICES ASSUME Nat \ P # {} PROVE FALSE
  OBVIOUS
<1>1. PICK n \in Nat \ P : \A m \in Nat \ P : n <= m
  BY Least
<1>2. n - 1 \in Nat /\ ~(n <= n - 1) /\ n = (n - 1) + 1
  BY <1>1
<1>3. n - 1 \in P
  BY <1>1, <1>2
<1> QED
  BY <1>1, <1>2, <1>3

\* what is left to be added
Rest(T) == Cardinality(Pkg \ T)

LEMMA RestShrinks ==
  ASSUME NEW T \in SUBSET Pkg
  PROVE  /\ Rest(T) \in Nat
         /\ \A U \in SUBSET Pkg : T \subseteq U /\ T # U => Rest(U) < Rest(T)
<1>1. IsFiniteSet(Pkg \ T) /\ Rest(T) \in Nat
  BY PkgFinite, FS_Subset, FS_CardinalityType DEF Rest
<1>2. SUFFICES ASSUME NEW U \in SUBSET Pkg, T \subseteq U, T # U PROVE Rest(U) < Rest(T)
  BY <1>1
<1>3. (Pkg \ U) \in SUBSET (Pkg \ T) /\ Pkg \ U # Pkg \ T
  BY <1>2
<1>4. IsFiniteSet(Pkg \ U) /\ Rest(U) \in Nat
  BY PkgFinite, FS_Subset, FS_CardinalityType DEF Rest
<1>5. Rest(U) <= Rest(T) /\ Rest(U) # Rest(T)
  BY <1>1, <1>3, FS_Subset DEF Rest
<1> QED
  BY <1>1, <1>4, <1>5

\* Induction over the sets of packages: no set of them goes up for ever.
LEMMA NoAscent ==
  ASSUME NEW Bad \in SUBSET (SUBSET Pkg), \A T \in Bad : \E U \in Bad : T \subseteq U /\ T # U
  PROVE  Bad = {}
<1> SUFFICES ASSUME Bad # {} PROVE FALSE
  OBVIOUS
<1> DEFINE N == {Rest(T) : T \in Bad}
<1>1. N \in SUBSET Nat /\ N # {}
  BY RestShrinks
<1> HIDE DEF N
<1>2. PICK n \in N : \A m \in N : n <= m
  BY <1>1, Least
<1>3. PICK T \in Bad : n = Rest(T)
  BY <1>2 DEF N
<1>4. PICK U \in Bad : T \subseteq U /\ T # U
  OBVIOUS
<1>5. Rest(U) \in N
  BY DEF N
<1>6. Rest(U) < Rest(T)
  BY <1>4, RestShrinks
<1>7. n <= Rest(U)
  BY <1>2, <1>5
<1>8. Rest(T) \in Nat /\ Rest(U) \in Nat
  BY RestShrinks
<1> QED
  BY <1>3, <1>6, <1>7, <1>8

\* a recursive definition each of whose steps adds something has a solution
ClimbsBy(f, Stop, val, step) ==
  f = [T \in SUBSET Pkg |-> IF T \in Stop THEN val[T] ELSE f[step[T]]]

LEMMA Climbs ==
  ASSUME NEW Stop \in SUBSET (SUBSET Pkg), NEW val \in [SUBSET Pkg -> SUBSET Pkg],
         NEW step \in [SUBSET Pkg -> SUBSET Pkg],
         \A T \in SUBSET Pkg : T \notin Stop => T \subseteq step[T] /\ T # step[T]
  PROVE  \E f : ClimbsBy(f, Stop, val, step)
<1> DEFINE D(n) == {T \in SUBSET Pkg : Rest(T) < n}
           Is(f, n) == f = [T \in D(n) |-> IF T \in Stop THEN val[T] ELSE f[step[T]]]
           Short == {n \in Nat : ~\E f : Is(f, n)}
<1>1. Short = {}
  <2> SUFFICES ASSUME Short # {} PROVE FALSE
    OBVIOUS
  <2>0. Short \in SUBSET Nat
    OBVIOUS
  <2> HIDE DEF Short
  <2>1. PICK n \in Short : \A m \in Short : n <= m
    BY <2>0, Least
  <2>2. n # 0
    <3>1. D(0) = {}
      BY RestShrinks
    <3>2. Is([T \in {} |-> 0], 0)
      BY <3>1
    <3>3. \E f : Is(f, 0)
      BY <3>2
    <3> HIDE DEF Is
    <3>4. 0 \notin Short
      BY <3>3 DEF Short
    <3> QED
      BY <2>1, <3>4
  <2>3. n - 1 \in Nat /\ n - 1 \notin Short /\ n \in Nat
    BY <2>0, <2>1, <2>2
  <2>4. PICK g : Is(g, n - 1)
    BY <2>3 DEF Short
  <2> DEFINE f == [T \in D(n) |-> IF T \in Stop THEN val[T] ELSE g[step[T]]]
  <2>5. \A T \in D(n) : T \notin Stop => step[T] \in D(n - 1) 
    <3> SUFFICES ASSUME NEW T \in D(n), T \notin Stop PROVE step[T] \in D(n - 1)
      OBVIOUS
    <3>1. Rest(step[T]) < Rest(T) /\ Rest(step[T]) \in Nat /\ Rest(T) \in Nat /\ Rest(T) < n
      BY RestShrinks
    <3> QED
      BY <3>1, <2>3
  <2>6. D(n - 1) \subseteq D(n)
    BY <2>3, RestShrinks
  <2>7. \A T \in D(n - 1) : f[T] = g[T]
    BY <2>4, <2>6
  <2>8. Is(f, n)
    BY <2>5, <2>6, <2>7
  <2> QED
    BY <2>1, <2>3, <2>8 DEF Short
<1>2. Rest({}) \in Nat /\ D(Rest({}) + 1) = SUBSET Pkg
  <2>1. \A T \in SUBSET Pkg : Rest(T) \in Nat /\ Rest(T) <= Rest({})
    BY RestShrinks
  <2> QED
    BY <2>1
<1>3. \E f : Is(f, Rest({}) + 1)
  <2>1. Rest({}) + 1 \in Nat
    BY <1>2
  <2> HIDE DEF Is
  <2> QED
    BY <1>1, <2>1
<1> QED
  BY <1>2, <1>3 DEF ClimbsBy

----------------------------------------------------------------------------
(* A walk is the least set that has what it starts from and is closed under step. *)

Closed(K, step) == \A p \in K : step[p] \subseteq K
Reached(K, S, step) ==
  /\ K \in SUBSET Pkg /\ S \subseteq K /\ Closed(K, step)
  /\ \A C \in SUBSET Pkg : S \subseteq C /\ Closed(C, step) => K \subseteq C

LEMMA WalkIs ==
  ASSUME NEW S \in SUBSET Pkg, NEW step \in [Pkg -> SUBSET Pkg]
  PROVE  Reached(Walk(S, step), S, step)
<1> DEFINE more == [T \in SUBSET Pkg |-> T \cup UNION {step[p] : p \in T}]
           Stop == {T \in SUBSET Pkg : more[T] = T}
           val == [T \in SUBSET Pkg |-> T]
           f[T \in SUBSET Pkg] ==
             LET U == T \cup UNION {step[p] : p \in T} IN IF U = T THEN T ELSE f[U]
<1>1. /\ more \in [SUBSET Pkg -> SUBSET Pkg] /\ Stop \in SUBSET (SUBSET Pkg)
      /\ val \in [SUBSET Pkg -> SUBSET Pkg]
      /\ \A T \in SUBSET Pkg : T \notin Stop => T \subseteq more[T] /\ T # more[T]
  OBVIOUS
<1> HIDE DEF f
<1>2. \E g : ClimbsBy(g, Stop, val, more)
  <2> HIDE DEF more, Stop, val
  <2> QED
    BY <1>1, Climbs
<1>3. \E g : g = [T \in SUBSET Pkg |->
                    LET U == T \cup UNION {step[p] : p \in T} IN IF U = T THEN T ELSE g[U]]
  <2>1. PICK g : g = [T \in SUBSET Pkg |-> IF T \in Stop THEN val[T] ELSE g[more[T]]]
    <3> HIDE DEF more, Stop, val
    <3> QED
      BY <1>2 DEF ClimbsBy
  <2>2. g = [T \in SUBSET Pkg |->
               LET U == T \cup UNION {step[p] : p \in T} IN IF U = T THEN T ELSE g[U]]
    BY <2>1
  <2> QED
    BY ONLY <2>2, Zenon
<1>4. f = [T \in SUBSET Pkg |->
             LET U == T \cup UNION {step[p] : p \in T} IN IF U = T THEN T ELSE f[U]]
  BY <1>3 DEF f
<1>5. Walk(S, step) = f[S]
  BY DEF Walk, f
<1> DEFINE Bad == {T \in SUBSET Pkg : ~Reached(f[T], T, step)}
<1>6. \A T \in Bad : more[T] \in Bad /\ T \subseteq more[T] /\ T # more[T]
  <2> SUFFICES ASSUME NEW T \in Bad
               PROVE  more[T] \in Bad /\ T \subseteq more[T] /\ T # more[T]
    OBVIOUS
  <2>1. ASSUME more[T] = T PROVE FALSE
    <3>1. f[T] = T
      BY <1>4, <2>1
    <3>2. Closed(T, step)
      BY <2>1 DEF Closed
    <3> QED
      BY <3>1, <3>2 DEF Reached
  <2>2. f[T] = f[more[T]] /\ more[T] \in SUBSET Pkg /\ T \subseteq more[T]
    BY <1>1, <1>4, <2>1
  <2>3. \A C \in SUBSET Pkg : Closed(C, step) => (T \subseteq C <=> more[T] \subseteq C)
    BY DEF Closed
  <2>4. Reached(f[more[T]], more[T], step) => Reached(f[T], T, step)
    <3> HIDE DEF more
    <3> QED
      BY <2>2, <2>3 DEF Reached
  <2> HIDE DEF more
  <2> QED
    BY <2>1, <2>2, <2>4
<1>7. Bad = {}
  <2>1. \A T \in Bad : \E U \in Bad : T \subseteq U /\ T # U
    BY <1>6
  <2> HIDE DEF Bad
  <2>2. Bad \in SUBSET (SUBSET Pkg)
    BY DEF Bad
  <2> QED
    BY <2>1, <2>2, NoAscent
<1> QED
  BY <1>5, <1>7

----------------------------------------------------------------------------
(* What leave keeps. *)

World == [there : BOOLEAN, names : SUBSET Pkg]

LEMMA HeldTyped ==
  ASSUME NEW r \in [Pkg -> Build]
  PROVE  /\ In(r) \in SUBSET Pkg /\ Held(r) \in [Pkg -> SUBSET Pkg]
         /\ \A p \in Pkg : Held(r)[p] = (r[p].deps \cup Seen[p]) \cap In(r)
         /\ Scripts \in [Pkg -> SUBSET Pkg] /\ Base \in SUBSET Pkg
BY PlannerAssumption DEF In, Held, Build

\* K could stand by itself: what is wished for and what any of K needs is in it
Whole(r, w, K) ==
  /\ K \subseteq In(r) /\ (w.names \cup Base) \cap In(r) \subseteq K
  /\ Closed(K, Held(r)) /\ \A p \in K : Scripts[p] \cap In(r) \subseteq K

\* what leave may keep: all of it where it gave up, the least whole set otherwise
Kept(r, w, K) ==
  /\ Whole(r, w, K)
  /\ K # In(r) \/ In(r) \cap Blind = {} => \A C \in SUBSET Pkg : Whole(r, w, C) => K \subseteq C

LEMMA StaysIs ==
  ASSUME NEW r \in [Pkg -> Build], NEW w \in World
  PROVE  Kept(r, w, Stays(r, w))
<1> DEFINE I == In(r)
           H == Held(r)
           hurt(k) == Broken(r, I \ k)
           need(k) == (UNION {Scripts[p] : p \in hurt(k)}) \cap I
           step == [k \in SUBSET Pkg |-> k \cup Walk(need(k), H)]
           Stop == {k \in SUBSET Pkg : hurt(k) = {} \/ hurt(k) \cap Blind # {}}
           val == [k \in SUBSET Pkg |-> IF hurt(k) = {} THEN k ELSE I]
           f[k \in SUBSET Pkg] ==
             LET hurt1 == Broken(r, In(r) \ k)
             IN  IF hurt1 = {} THEN k
                 ELSE IF hurt1 \cap Blind # {} THEN In(r)
                 ELSE f[k \cup Walk((UNION {Scripts[p] : p \in hurt1}) \cap In(r), Held(r))]
           keep == Walk((w.names \cup Base) \cap I, H)
<1> HIDE DEF f
<1>1. /\ I \in SUBSET Pkg /\ H \in [Pkg -> SUBSET Pkg] /\ Scripts \in [Pkg -> SUBSET Pkg]
      /\ \A p \in Pkg : H[p] \subseteq I
      /\ Base \in SUBSET Pkg /\ w.names \in SUBSET Pkg
  BY HeldTyped DEF World
<1>2. \A k \in SUBSET Pkg : /\ hurt(k) = {p \in I \cap k : Scripts[p] \cap I \cap (I \ k) # {}}
                            /\ need(k) \in SUBSET Pkg
  BY <1>1 DEF Broken
<1>3. \A k \in SUBSET Pkg : Reached(Walk(need(k), H), need(k), H)
  <2> HIDE DEF need, H
  <2> QED
    BY <1>1, <1>2, WalkIs
<1>4. /\ Stop \in SUBSET (SUBSET Pkg) /\ val \in [SUBSET Pkg -> SUBSET Pkg]
      /\ step \in [SUBSET Pkg -> SUBSET Pkg]
  BY <1>1, <1>3 DEF Reached
<1>5. \A k \in SUBSET Pkg : k \notin Stop => k \subseteq step[k] /\ k # step[k]
  <2> SUFFICES ASSUME NEW k \in SUBSET Pkg, k \notin Stop PROVE k \subseteq step[k] /\ k # step[k]
    OBVIOUS
  <2>1. PICK p \in hurt(k) : Scripts[p] \cap I \cap (I \ k) # {}
    <3> HIDE DEF I
    <3> QED
      BY <1>2
  <2>2. PICK d \in Scripts[p] \cap I : d \notin k
    <3> HIDE DEF I
    <3> QED
      BY <2>1
  <2>3. d \in need(k)
    <3> HIDE DEF I, hurt
    <3> QED
      BY <2>1, <2>2
  <2>4. need(k) \subseteq step[k] /\ k \subseteq step[k]
    BY <1>3 DEF Reached
  <2> QED
    BY <2>2, <2>3, <2>4
<1>6. \E g : ClimbsBy(g, Stop, val, step)
  <2> HIDE DEF Stop, val, step
  <2> QED
    BY <1>4, <1>5, Climbs
<1>7. \E g : g = [k \in SUBSET Pkg |->
             LET hurt1 == Broken(r, In(r) \ k)
             IN  IF hurt1 = {} THEN k
                 ELSE IF hurt1 \cap Blind # {} THEN In(r)
                 ELSE g[k \cup Walk((UNION {Scripts[p] : p \in hurt1}) \cap In(r), Held(r))]]
  <2>1. PICK g : g = [k \in SUBSET Pkg |-> IF k \in Stop THEN val[k] ELSE g[step[k]]]
    <3> HIDE DEF Stop, val, step
    <3> QED
      BY <1>6 DEF ClimbsBy
  <2>2. g = [k \in SUBSET Pkg |->
             LET hurt1 == Broken(r, In(r) \ k)
             IN  IF hurt1 = {} THEN k
                 ELSE IF hurt1 \cap Blind # {} THEN In(r)
                 ELSE g[k \cup Walk((UNION {Scripts[p] : p \in hurt1}) \cap In(r), Held(r))]]
    BY <2>1
  <2> QED
    BY ONLY <2>2, Zenon
<1>8. f = [k \in SUBSET Pkg |->
             LET hurt1 == Broken(r, In(r) \ k)
             IN  IF hurt1 = {} THEN k
                 ELSE IF hurt1 \cap Blind # {} THEN In(r)
                 ELSE f[k \cup Walk((UNION {Scripts[p] : p \in hurt1}) \cap In(r), Held(r))]]
  BY <1>7 DEF f
<1>9. Stays(r, w) = f[keep]
  BY DEF Stays, f
<1>10. \A k \in SUBSET Pkg : f[k] = IF k \in Stop THEN val[k] ELSE f[step[k]]
  BY <1>8
<1> HIDE DEF I, H, hurt, step, Stop, val, keep
<1> DEFINE Valid(k) == /\ k \subseteq I /\ (w.names \cup Base) \cap I \subseteq k /\ Closed(k, H)
                       /\ \A C \in SUBSET Pkg : Whole(r, w, C) => k \subseteq C
           Bad == {k \in SUBSET Pkg : Valid(k) /\ ~Kept(r, w, f[k])}
<1>11. keep \in SUBSET Pkg /\ Valid(keep)
  <2>1. (w.names \cup Base) \cap I \in SUBSET Pkg
    BY <1>1
  <2>2. Reached(keep, (w.names \cup Base) \cap I, H)
    BY <1>1, <2>1, WalkIs DEF keep
  <2>3. Closed(I, H)
    BY <1>1 DEF Closed
  <2>4. \A C \in SUBSET Pkg : Whole(r, w, C) => Closed(C, H) /\ (w.names \cup Base) \cap I \subseteq C
    BY DEF Whole, I, H
  <2> QED
    BY <1>1, <2>2, <2>3, <2>4 DEF Reached
<1>12. \A k \in SUBSET Pkg : Valid(k) /\ k \in Stop => Kept(r, w, f[k])
  <2> SUFFICES ASSUME NEW k \in SUBSET Pkg, Valid(k), k \in Stop PROVE Kept(r, w, f[k])
    OBVIOUS
  <2>1. CASE hurt(k) = {}
    <3>1. f[k] = k
      BY <1>10, <2>1 DEF val
    <3>2. \A p \in k : Scripts[p] \cap I \subseteq k
      BY <1>2, <2>1
    <3> QED
      BY <3>1, <3>2 DEF Kept, Whole, I, H
  <2>2. CASE hurt(k) # {}
    <3>1. f[k] = I
      BY <1>10, <2>2 DEF val
    <3>2. I \cap Blind # {}
      BY <1>2, <2>2 DEF Stop
    <3>3. Whole(r, w, I)
      BY <1>1 DEF Whole, I, H, Closed
    <3> QED
      BY <3>1, <3>2, <3>3 DEF Kept, I
  <2> QED
    BY <2>1, <2>2
<1>13. \A k \in SUBSET Pkg : Valid(k) => Valid(step[k]) /\ step[k] \in SUBSET Pkg
  <2> SUFFICES ASSUME NEW k \in SUBSET Pkg, Valid(k) PROVE Valid(step[k]) /\ step[k] \in SUBSET Pkg
    OBVIOUS
  <2> DEFINE W == Walk(need(k), H)
  <2>1. step[k] = k \cup W
    BY DEF step
  <2>2. Reached(W, need(k), H) /\ need(k) \subseteq I
    BY <1>3
  <2> HIDE DEF W
  <2>3. W \subseteq I /\ Closed(W, H) /\ Closed(I, H)
    BY <1>1, <2>2 DEF Reached, Closed
  <2>4. Closed(k \cup W, H)
    BY <2>3 DEF Closed
  <2>5. ASSUME NEW C \in SUBSET Pkg, Whole(r, w, C) PROVE W \subseteq C
    <3>1. k \subseteq C /\ Closed(C, H) /\ \A p \in C : Scripts[p] \cap I \subseteq C
      BY <2>5 DEF Whole, I, H
    <3>2. need(k) \subseteq C
      BY <1>2, <3>1
    <3> QED
      BY <2>2, <3>1, <3>2 DEF Reached
  <2> QED
    BY <1>1, <2>1, <2>3, <2>4, <2>5
<1>14. Bad = {}
  <2>1. \A k \in Bad : \E U \in Bad : k \subseteq U /\ k # U
    <3> SUFFICES ASSUME NEW k \in Bad PROVE \E U \in Bad : k \subseteq U /\ k # U
      OBVIOUS
    <3>1. k \in SUBSET Pkg /\ Valid(k) /\ ~Kept(r, w, f[k])
      OBVIOUS
    <3> HIDE DEF Valid
    <3>2. k \notin Stop
      BY <1>12, <3>1
    <3>3. f[k] = f[step[k]]
      BY <1>10, <3>1, <3>2
    <3>4. step[k] \in Bad
      BY <1>13, <3>1, <3>3
    <3> QED
      BY <1>5, <3>1, <3>2, <3>4
  <2>2. Bad \in SUBSET (SUBSET Pkg)
    OBVIOUS
  <2> HIDE DEF Bad
  <2> QED
    BY <2>1, <2>2, NoAscent
<1> QED
  BY <1>9, <1>11, <1>14

----------------------------------------------------------------------------
(* Levels counts its passes with a recursive function over Nat, which has a
   solution whatever a pass does. *)

CountsBy(f, a, step) == f = [n \in Nat |-> IF n = 0 THEN a ELSE step[f[n - 1]]]

LEMMA Counts ==
  ASSUME NEW V, NEW a \in V, NEW step \in [V -> V]
  PROVE  \E f : CountsBy(f, a, step)
<1> DEFINE To(g, m) == /\ g \in [0 .. m -> V] /\ g[0] = a
                       /\ \A n \in 1 .. m : g[n] = step[g[n - 1]]
           Short == {m \in Nat : ~\E g : To(g, m)}
<1>1. Short = {}
  <2> SUFFICES ASSUME Short # {} PROVE FALSE
    OBVIOUS
  <2>0. Short \in SUBSET Nat
    OBVIOUS
  <2> HIDE DEF Short
  <2>1. PICK m \in Short : \A k \in Short : m <= k
    BY <2>0, Least
  <2>2. m # 0
    <3>1. To([n \in 0 .. 0 |-> a], 0)
      OBVIOUS
    <3>2. \E g : To(g, 0)
      BY <3>1
    <3> HIDE DEF To
    <3>3. 0 \notin Short
      BY <3>2 DEF Short
    <3> QED
      BY <2>1, <3>3
  <2>3. m \in Nat /\ m - 1 \in Nat /\ m - 1 \notin Short
    BY <2>0, <2>1, <2>2
  <2>4. PICK g : To(g, m - 1)
    <3> HIDE DEF To
    <3> QED
      BY <2>3 DEF Short
  <2> DEFINE h == [n \in 0 .. m |-> IF n = m THEN step[g[m - 1]] ELSE g[n]]
  <2>5. To(h, m)
    <3>1. h \in [0 .. m -> V] /\ h[0] = a
      BY <2>2, <2>3, <2>4
    <3>2. ASSUME NEW n \in 1 .. m PROVE h[n] = step[h[n - 1]]
      <4>1. CASE n = m
        BY <2>3, <4>1
      <4>2. CASE n # m
        BY <2>3, <2>4, <4>2
      <4> QED
        BY <4>1, <4>2
    <3> QED
      BY <3>1, <3>2
  <2> HIDE DEF To, h
  <2> QED
    BY <2>1, <2>3, <2>5 DEF Short
<1>2. ASSUME NEW m \in Nat, NEW k \in Nat, NEW g, NEW h, To(g, m), To(h, k), NEW n \in Nat, n <= m, n <= k
      PROVE  g[n] = h[n]
  <2> DEFINE Odd == {j \in Nat : j <= m /\ j <= k /\ g[j] # h[j]}
  <2>1. Odd = {}
    <3> SUFFICES ASSUME Odd # {} PROVE FALSE
      OBVIOUS
    <3>1. Odd \in SUBSET Nat
      OBVIOUS
    <3>2. PICK j \in Odd : \A i \in Odd : j <= i
      <4> HIDE DEF Odd
      <4> QED
        BY <3>1, Least
    <3>3. j # 0
      BY <1>2
    <3>4. j - 1 \in Nat /\ j - 1 \notin Odd /\ j \in 1 .. m /\ j \in 1 .. k
      BY <3>2, <3>3
    <3>5. g[j - 1] = h[j - 1]
      BY <3>4
    <3>6. g[j] = step[g[j - 1]] /\ h[j] = step[h[j - 1]]
      BY <1>2, <3>4
    <3> QED
      BY <3>5, <3>6
  <2> QED
    BY <1>2, <2>1
<1> DEFINE G(n) == CHOOSE g : To(g, n)
           f == [n \in Nat |-> G(n)[n]]
<1>3. \A n \in Nat : To(G(n), n)
  <2> HIDE DEF To
  <2> QED
    BY <1>1
<1>4. f[0] = a
  BY <1>3
<1>5. ASSUME NEW n \in Nat, n # 0 PROVE f[n] = step[f[n - 1]]
  <2>1. n - 1 \in Nat /\ n \in 1 .. n
    BY <1>5
  <2>2. To(G(n), n) /\ To(G(n - 1), n - 1)
    BY <1>3, <2>1
  <2> HIDE DEF G
  <2>3. G(n)[n - 1] = G(n - 1)[n - 1]
    <3> HIDE DEF To
    <3> QED
      BY <1>2, <2>1, <2>2
  <2>4. G(n)[n] = step[G(n)[n - 1]]
    BY <2>1, <2>2
  <2> QED
    BY <2>1, <2>3, <2>4
<1>6. CountsBy(f, a, step)
  <2> HIDE DEF G
  <2>1. f = [n \in Nat |-> f[n]]
    OBVIOUS
  <2>2. \A n \in Nat : f[n] = IF n = 0 THEN a ELSE step[f[n - 1]]
    BY <1>4, <1>5
  <2> HIDE DEF f
  <2> QED
    BY <2>1, <2>2 DEF CountsBy
<1> QED
  BY <1>6

\* what a level may hold: only a package with a bootstrap script is marked to be booted
Marks(S) == {x \in S \X BOOLEAN : x[2] => x[1] \in Starters}

\* the levels hold what they are to order and nothing else
LEMMA LevelsTyped ==
  ASSUME NEW S \in SUBSET Pkg
  PROVE  /\ Levels(S).left \subseteq S
         /\ Levels(S).out \in Seq(SUBSET (S \X BOOLEAN)) /\ Levels(S).out \in Seq(SUBSET Marks(S))
<1> DEFINE V == [left : SUBSET S, done : SUBSET S, out : Seq(SUBSET Marks(S))]
           Now(s) == {p \in s.left : ~\E q \in s.left \ (s.done \cup {p}) : q \in Asks(p)}
           Boot(s) == (s.left \ s.done) \cap Starters
           a == [left |-> S, done |-> {}, out |-> <<>>]
           pass(s) == IF s.left = {} THEN s
                      ELSE IF Now(s) # {} THEN [s EXCEPT !.left = @ \ Now(s),
                                                         !.out = Append(@, {<<p, FALSE>> : p \in Now(s)})]
                      ELSE [s EXCEPT !.done = @ \cup Boot(s), !.out = Append(@, {<<p, TRUE>> : p \in Boot(s)})]
           step == [s \in V |-> pass(s)]
           f[n \in Nat] ==
             IF n = 0 THEN a
             ELSE LET s == f[n - 1]
                  IN  IF s.left = {} THEN s
                      ELSE IF Now(s) # {} THEN [s EXCEPT !.left = @ \ Now(s),
                                                         !.out = Append(@, {<<p, FALSE>> : p \in Now(s)})]
                      ELSE [s EXCEPT !.done = @ \cup Boot(s), !.out = Append(@, {<<p, TRUE>> : p \in Boot(s)})]
<1> HIDE DEF f
<1>1. a \in V
  OBVIOUS
<1>2. \A s \in V : pass(s) \in V
  <2> SUFFICES ASSUME NEW s \in V PROVE pass(s) \in V
    OBVIOUS
  <2>1. Now(s) \subseteq s.left /\ Boot(s) \subseteq s.left \cap Starters /\ s.left \subseteq S /\ s.done \subseteq S
        /\ s.out \in Seq(SUBSET Marks(S))
    OBVIOUS
  <2> HIDE DEF Now, Boot
  <2>2. ASSUME NEW N \in SUBSET S, NEW b \in BOOLEAN, b => N \subseteq Starters
        PROVE  Append(s.out, {<<p, b>> : p \in N}) \in Seq(SUBSET Marks(S))
    <3> DEFINE E == {<<p, b>> : p \in N}
    <3>1. E \in SUBSET Marks(S)
      BY <2>2 DEF Marks
    <3> HIDE DEF E
    <3>2. Append(s.out, E) \in Seq(SUBSET Marks(S))
      BY <2>1, <3>1
    <3> QED
      BY <3>2 DEF E
  <2>3. Append(s.out, {<<p, FALSE>> : p \in Now(s)}) \in Seq(SUBSET Marks(S))
        /\ Append(s.out, {<<p, TRUE>> : p \in Boot(s)}) \in Seq(SUBSET Marks(S))
    BY <2>1, <2>2
  <2> QED
    BY <2>1, <2>3
<1>3. step \in [V -> V]
  <2> HIDE DEF V, pass
  <2> QED
    BY <1>2
<1>4. \E g : CountsBy(g, a, step)
  <2> HIDE DEF V, a, step
  <2> QED
    BY <1>1, <1>3, Counts
<1>5. Levels(S) = f[2 * Cardinality(S)]
  BY DEF Levels, f
<1>6. ASSUME NEW g, g[0] \in V,
             \A n \in Nat : g[n] \in V => g[n + 1] \in V
      PROVE  \A n \in Nat : g[n] \in V
  <2> DEFINE P == {n \in Nat : g[n] \in V}
  <2>1. P \in SUBSET Nat /\ 0 \in P /\ \A n \in P : n + 1 \in P
    <3> HIDE DEF V
    <3> QED
      BY <1>6
  <2>2. P = Nat
    <3> HIDE DEF P
    <3> QED
      BY <2>1, FromZero
  <2> QED
    BY <2>2
<1>7. \E g : g = [n \in Nat |-> IF n = 0 THEN a ELSE pass(g[n - 1])]
  <2>1. PICK g : g = [n \in Nat |-> IF n = 0 THEN a ELSE step[g[n - 1]]]
    <3> HIDE DEF a, step
    <3> QED
      BY <1>4 DEF CountsBy
  <2> HIDE DEF a, V, pass
  <2>2. g[0] = a /\ \A n \in Nat : g[n + 1] = step[g[n]]
    BY <2>1
  <2>3. \A n \in Nat : g[n] \in V => g[n + 1] \in V
    BY <1>2, <2>2
  <2>4. \A n \in Nat : g[n] \in V
    BY <1>1, <1>6, <2>2, <2>3
  <2>5. \A n \in Nat : g[n] = IF n = 0 THEN a ELSE pass(g[n - 1])
    BY <2>1, <2>4
  <2>6. g = [n \in Nat |-> g[n]]
    BY <2>1
  <2>7. g = [n \in Nat |-> IF n = 0 THEN a ELSE pass(g[n - 1])]
    BY <2>5, <2>6
  <2> QED
    BY <2>7
<1>8. f = [n \in Nat |-> IF n = 0 THEN a ELSE pass(f[n - 1])]
  BY <1>7 DEF f
<1>9. \A n \in Nat : f[n] \in V
  <2> HIDE DEF a, V, pass
  <2>1. f[0] = a /\ \A n \in Nat : f[n + 1] = pass(f[n])
    BY <1>8
  <2>2. \A n \in Nat : f[n] \in V => f[n + 1] \in V
    BY <1>2, <2>1
  <2> QED
    BY <1>1, <1>6, <2>1, <2>2
<1>10. 2 * Cardinality(S) \in Nat
  BY PkgFinite, FS_Subset, FS_CardinalityType
<1>11. f[2 * Cardinality(S)] \in V
  <2> HIDE DEF V
  <2> QED
    BY <1>9, <1>10
<1>12. Levels(S).left \subseteq S /\ Levels(S).out \in Seq(SUBSET Marks(S))
  BY <1>5, <1>11
<1>13. Marks(S) \subseteq S \X BOOLEAN
  BY DEF Marks
<1> QED
  BY <1>12, <1>13

----------------------------------------------------------------------------
(* What the operators come to. *)

LEMMA WalkTyped ==
  ASSUME NEW S \in SUBSET Pkg, NEW step \in [Pkg -> SUBSET Pkg]
  PROVE  Walk(S, step) \in SUBSET Pkg
BY WalkIs DEF Reached

LEMMA StartTyped ==
  ASSUME TypeOK, NEW p \in Pkg
  PROVE  Start(p) \in SUBSET Pkg /\ Asks(p) \in SUBSET Pkg /\ cache[p] \in Build /\ rec[p] \in Build
<1>1. rec[p] \in Build /\ cache[p] \in Build /\ proven[p] \in SUBSET Pkg
  BY DEF TypeOK
<1>2. Listed[p] \in SUBSET Pkg
  BY PlannerAssumption
<1> QED
  BY <1>1, <1>2 DEF Start, Asks, Build

LEMMA WantedTyped ==
  ASSUME TypeOK, NEW S \in SUBSET Pkg
  PROVE  Wanted(S) \in SUBSET Pkg
<1>1. [p \in Pkg |-> Asks(p) \ Installed] \in [Pkg -> SUBSET Pkg]
  BY StartTyped
<1> QED
  BY <1>1, WalkTyped DEF Wanted

LEMMA StagedTyped ==
  ASSUME TypeOK, NEW p \in Pkg
  PROVE  Staged(p) \in SUBSET Pkg
<1>1. [q \in Pkg |-> rec[q].deps] \in [Pkg -> SUBSET Pkg]
  BY StartTyped DEF Build
<1>2. Start(p) \cup Tools \in SUBSET Pkg
  BY StartTyped, PlannerAssumption
<1> QED
  BY <1>1, <1>2, WalkTyped DEF Staged

LEMMA LackingTyped == Lacking \in SUBSET Pkg
<1>1. [p \in Pkg |-> RunTime[p] \ Installed] \in [Pkg -> SUBSET Pkg] /\ Tools \ Installed \in SUBSET Pkg
  BY PlannerAssumption
<1> QED
  BY <1>1, WalkTyped DEF Lacking

LEMMA ProviderTyped ==
  ASSUME NEW p \in Pkg, NEW m \in Miss
  PROVE  Provider(p, m) \in Pkg \cup {NoPkg}
<1>1. Guess[m] \in Pkg \cup {NoPkg} /\ Installed \subseteq Pkg
  BY PlannerAssumption DEF Installed
<1> DEFINE found == {q \in Installed : m \in Ships[q]}
<1>2. found \cap Listed[p] # {} => (CHOOSE q \in found \cap Listed[p] : TRUE) \in Pkg
  BY <1>1
<1>3. found # {} => (CHOOSE q \in found : TRUE) \in Pkg
  BY <1>1
<1> QED
  BY <1>1, <1>2, <1>3 DEF Provider

LEMMA FirstTyped ==
  ASSUME NEW p \in Pkg, NEW K \in SUBSET (DOMAIN Looks[p]), K # {}
  PROVE  FirstOf(p, K) \in Miss
<1>1. Looks[p] \in Seq(Miss)
  BY PlannerAssumption
<1>2. K \in SUBSET Nat
  BY <1>1
<1>3. \E k \in K : \A j \in K : k <= j
  BY <1>2, Least
<1>4. (CHOOSE k \in K : \A j \in K : k <= j) \in K
  BY <1>3
<1> QED
  BY <1>1, <1>4 DEF FirstOf

LEMMA WithTyped ==
  ASSUME TypeOK, NEW B \in SUBSET Pkg
  PROVE  With(B) \in [Pkg -> Build]
BY StartTyped DEF With

LEMMA SeededTyped == ASSUME TypeOK PROVE Seeded \in World
<1>1. Leaves(rec) \in SUBSET Pkg
  BY DEF Leaves, In
<1> QED
  BY <1>1 DEF TypeOK, Seeded, World

LEMMA WishTyped ==
  ASSUME NEW w \in World, NEW N \in SUBSET Pkg
  PROVE  Wish(w, N) \in World /\ Unwish(w, N) \in World
BY DEF Wish, Unwish, World

LEMMA LeftTyped ==
  ASSUME NEW r \in [Pkg -> Build], NEW w \in World
  PROVE  Left(r, w) \in [Pkg -> Build]
BY DEF Left, None, Build

LEMMA SweepTyped ==
  ASSUME NEW r \in [Pkg -> Build], NEW w \in World, Sweep(r, w)
  PROVE  rec' \in [Pkg -> Build] /\ world' \in World /\ swept' \in BOOLEAN
BY LeftTyped DEF Sweep, World

----------------------------------------------------------------------------
(* What a step does to the records, the world file and swept: nothing but an
   edit or a wish, a batch whose packages are all fresh, the same with a leave
   behind it, or a removal. *)

Shape ==
  /\ ver \in [Pkg -> Nat \ {0}]
  /\ pc \in {"run", "apply"} => at \in DOMAIN plan
  /\ pc = "level" => at # 0
  /\ pc \in {"bring", "own"} => own \in Pkg
  /\ swept => world.there

\* what goes in is built: a level's packages are, or are to be, unless it failed
Ready ==
  /\ pc = "batch" => \A p \in All : Fresh(p)
  /\ pc = "run" => \A p \in Level : Fresh(p) \/ p \in todo \cup run \/ err # "none"
  /\ pc = "apply" => \A p \in Level : Fresh(p)

PlanInv == TypeOK /\ Shape /\ Ready

Stands == /\ rec' = rec
          /\ \/ world' = world /\ swept' = swept
             \/ world' \in World /\ swept' = FALSE
Brings(B) == /\ (\A p \in B : Fresh(p)) /\ Fits(B)
             /\ rec' = With(B) /\ world' = world /\ swept' = FALSE
Ends(B, w) == (\A p \in B : Fresh(p)) /\ Fits(B) /\ Sweep(With(B), w)
Without(N) == [p \in Pkg |-> IF p \in N THEN None ELSE rec[p]]
Takes(N, w) == ~Holds(N) /\ Sweep(Without(N), w)

LEMMA NamesTyped ==
  ASSUME TypeOK
  PROVE  All \in SUBSET Pkg /\ (at \in DOMAIN plan => Level \in SUBSET Pkg)
<1>1. \A k \in DOMAIN plan : plan[k] \in SUBSET (Pkg \X BOOLEAN)
  BY DEF TypeOK
<1>2. \A k \in DOMAIN plan : Names(plan[k]) \in SUBSET Pkg
  BY <1>1 DEF Names
<1> QED
  BY <1>2 DEF All, Level

LEMMA Same == ASSUME TypeOK PROVE With({}) = rec
BY DEF With, TypeOK

LEMMA Finishes ==
  ASSUME TypeOK, NEW B \in SUBSET Pkg, \A p \in B : Fresh(p), Fits(B), Finish(With(B))
  PROVE  Brings(B) \/ \E w \in World : Ends(B, w)
<1>1. world \in World /\ named \in SUBSET Pkg
  BY DEF TypeOK, World
<1>2. Wish(world, named) \in World
  BY <1>1, WishTyped
<1> QED
  BY <1>2 DEF Finish, Brings, Ends

LEMMA Effects ==
  ASSUME PlanInv, Next
  PROVE  \/ Stands
         \/ \E B \in SUBSET Pkg : Brings(B) \/ \E w \in World : Ends(B, w)
         \/ \E N \in SUBSET Pkg : \E w \in World : Takes(N, w)
<1>0. TypeOK /\ world \in World
  BY DEF PlanInv, TypeOK, World
<1>1. CASE \E p \in Pkg : Bump(p) \/ Take(p) \/ Round(p)
  BY <1>1 DEF Bump, Take, Round, NotStaged, Disprove, Discover, FallBack, GivesUp, More, Lands, Stay, Stands
<1>2. CASE \E p \in Pkg : Edit(p)
  BY <1>0, <1>2 DEF Edit, Stands, World
<1>3. CASE InstallCmd \/ BuildCmd \/ Kill
  BY <1>0, <1>3, SeededTyped DEF InstallCmd, Install, Began, BuildCmd, Kill, Stands
<1>11. CASE Plan \/ StartLevel \/ EndLevel
  BY <1>0, <1>11 DEF Plan, Die, StartLevel, EndLevel, Stands
<1>12. CASE Bring
  <2>1. rec' = rec /\ swept' = swept /\ (world' = world \/ world' = Seeded)
    BY <1>12 DEF Bring
  <2>2. swept \in BOOLEAN /\ (swept => world.there)
    BY DEF PlanInv, TypeOK, Shape
  <2>3. world.there => Seeded = world
    BY DEF Seeded
  <2> QED
    BY <1>0, <2>1, <2>2, <2>3, SeededTyped DEF Stands
<1>4. CASE WishCmd
  <2>1. PICK p \in Typed : world' = Wish(Seeded, {p})
    BY <1>4 DEF WishCmd
  <2>2. world' \in World
    BY <1>0, <2>1, SeededTyped, WishTyped, PlannerAssumption
  <2> QED
    BY <1>4, <2>2 DEF WishCmd, Began, Stands
<1>5. CASE RemoveCmd
  <2>1. PICK N \in {{p, q} : p, q \in Installed} :
             ~Holds(N) /\ Sweep([p \in Pkg |-> IF p \in N THEN None ELSE rec[p]], Unwish(world, N))
    BY <1>5 DEF RemoveCmd
  <2>2. N \in SUBSET Pkg
    BY DEF Installed
  <2>3. Unwish(world, N) \in World
    BY <1>0, <2>2, WishTyped
  <2> QED
    BY <2>1, <2>2, <2>3 DEF Takes, Without
<1>6. CASE FirstTools
  <2>1. CASE Die
    BY <1>0, <2>1 DEF Die, Stands
  <2>2. CASE (\A p \in Lacking : Fresh(p)) /\ Fits(Lacking) /\ rec' = With(Lacking) /\ swept' = FALSE /\ world' = world
    BY <2>2, LackingTyped DEF Brings
  <2> QED
    BY <1>6, <2>1, <2>2 DEF FirstTools
<1>7. CASE Batch
  <2>1. CASE Die
    BY <1>0, <2>1 DEF Die, Stands
  <2>2. CASE Fits(All) /\ Finish(With(All))
    <3>1. All \in SUBSET Pkg /\ \A p \in All : Fresh(p)
      BY <1>0, <1>7, NamesTyped DEF Batch, PlanInv, Ready
    <3> QED
      BY <1>0, <2>2, <3>1, Finishes
  <2> QED
    BY <1>7, <2>1, <2>2 DEF Batch
<1>8. CASE Done
  <2>1. Finish(With({})) /\ Fits({})
    BY <1>0, <1>8, Same DEF Done, Fits
  <2> QED
    BY <1>0, <2>1, Finishes
<1>9. CASE Apply
  <2>1. CASE Die
    BY <1>0, <2>1 DEF Die, Stands
  <2>2. CASE Fits(Level) /\ rec' = With(Level) /\ swept' = FALSE /\ world' = world
    <3>1. Level \in SUBSET Pkg /\ \A p \in Level : Fresh(p)
      BY <1>0, <1>9, NamesTyped DEF Apply, PlanInv, Ready, Shape
    <3> QED
      BY <2>2, <3>1 DEF Brings
  <2> QED
    BY <1>9, <2>1, <2>2 DEF Apply
<1>10. CASE EndOwn
  <2>1. CASE Sweep(rec, world)
    <3>1. Ends({}, world)
      BY <1>0, <2>1, Same DEF Ends, Fits
    <3> QED
      BY <1>0, <3>1
  <2>2. CASE UNCHANGED <<rec, world>> /\ (swept' = swept \/ swept' = FALSE)
    BY <1>0, <2>2 DEF Stands
  <2> QED
    BY <1>10, <2>1, <2>2 DEF EndOwn, Die
<1> QED
  BY <1>1, <1>2, <1>3, <1>4, <1>5, <1>6, <1>7, <1>8, <1>9, <1>10, <1>11, <1>12 DEF Next

LEMMA EffectsTyped ==
  ASSUME PlanInv, Next
  PROVE  rec' \in [Pkg -> Build] /\ world' \in World /\ swept' \in BOOLEAN /\ (swept' => world'.there)
<1>0. TypeOK /\ rec \in [Pkg -> Build] /\ world \in World /\ swept \in BOOLEAN /\ (swept => world.there)
  BY DEF PlanInv, TypeOK, World, Shape
<1>1. CASE Stands
  <2>1. CASE world' = world /\ swept' = swept
    BY <1>0, <1>1, <2>1 DEF Stands
  <2>2. CASE world' \in World /\ swept' = FALSE
    BY <1>0, <1>1, <2>2 DEF Stands
  <2> QED
    BY <1>1, <2>1, <2>2 DEF Stands
<1>2. CASE \E B \in SUBSET Pkg : Brings(B)
  BY <1>0, <1>2, WithTyped DEF Brings
<1>3. ASSUME NEW r \in [Pkg -> Build], NEW w \in World, Sweep(r, w)
      PROVE  rec' \in [Pkg -> Build] /\ world' \in World /\ swept' \in BOOLEAN /\ (swept' => world'.there)
  <2>1. swept' => w.there
    BY <1>3 DEF Sweep
  <2> QED
    BY <1>3, <2>1, SweepTyped DEF Sweep
<1>4. CASE \E B \in SUBSET Pkg : \E w \in World : Ends(B, w)
  BY <1>0, <1>3, <1>4, WithTyped DEF Ends
<1>5. CASE \E N \in SUBSET Pkg : \E w \in World : Takes(N, w)
  <2>1. PICK N \in SUBSET Pkg : \E w \in World : Takes(N, w)
    BY <1>5
  <2>2. Without(N) \in [Pkg -> Build]
    BY <1>0 DEF Without, None, Build
  <2> QED
    BY <1>3, <2>1, <2>2 DEF Takes
<1> QED
  BY <1>1, <1>2, <1>4, <1>5, Effects

----------------------------------------------------------------------------
(* Types of the rest, in three groups. *)

CachesOK ==
  /\ ver \in [Pkg -> Nat \ {0}] /\ cache \in [Pkg -> Build]
  /\ proven \in [Pkg -> SUBSET Pkg] /\ star \subseteq Pkg
  /\ last \in [Pkg -> [miss : Miss \cup {NoMiss}, dep : Pkg \cup {NoPkg}]]
  /\ tried \subseteq Pkg \X Pkg \X Nat /\ made \in [Pkg -> [Passes -> Nat]]
LocalsOK ==
  /\ pc \in {"idle", "plan", "batch", "level", "run", "apply", "bring", "own"}
  /\ own \in Pkg \cup {NoPkg} /\ seeds \subseteq Pkg /\ named \subseteq Pkg
  /\ passes \in 0 .. MaxPasses /\ waits \in 0 .. MaxWaits
  /\ plan \in Seq(SUBSET (Pkg \X BOOLEAN)) /\ at \in 0 .. Len(plan) + 1
  /\ waiting \in BOOLEAN /\ brought \in BOOLEAN
PoolOK ==
  /\ todo \subseteq Pkg /\ run \subseteq Pkg /\ Cardinality(run) <= Width
  /\ rounds \in [Pkg -> 0 .. MaxRounds] /\ err \in {"none", "wait", "failed"}
AtOK ==
  /\ pc \in {"run", "apply"} => at \in DOMAIN plan
  /\ pc = "level" => at # 0
  /\ pc \in {"bring", "own"} => own \in Pkg

LEMMA Parts ==
  TypeOK /\ Shape <=> /\ CachesOK /\ LocalsOK /\ PoolOK /\ AtOK
                      /\ rec \in [Pkg -> Build] /\ world \in World /\ swept \in BOOLEAN
                      /\ (swept => world.there)
BY DEF TypeOK, Shape, CachesOK, LocalsOK, PoolOK, AtOK, World

LEMMA Bounds ==
  /\ Width \in Nat \ {0} /\ MaxPasses \in Nat /\ MaxRounds \in Nat /\ MaxWaits \in Nat
  /\ Cardinality({}) = 0 /\ \A p \in Pkg : Cardinality({p}) = 1
<1>1. Cardinality({}) = 0 /\ \A p \in Pkg : Cardinality({p}) = 1
  BY FS_EmptySet, FS_Singleton
<1> QED
  BY <1>1, PlannerAssumption

LEMMA OverTyped ==
  ASSUME Over PROVE LocalsOK' /\ PoolOK' /\ AtOK' /\ pc' = "idle"
<1>1. <<>> \in Seq(SUBSET (Pkg \X BOOLEAN)) /\ Len(<<>>) = 0
  OBVIOUS
<1>2. [p \in Pkg |-> 0] \in [Pkg -> 0 .. MaxRounds]
  BY Bounds
<1>3. LocalsOK'
  <2>1. plan' \in Seq(SUBSET (Pkg \X BOOLEAN)) /\ at' = 0 /\ 0 \in 0 .. Len(plan') + 1
    BY <1>1 DEF Over
  <2>2. passes' \in 0 .. MaxPasses /\ waits' \in 0 .. MaxWaits
    BY Bounds DEF Over
  <2> QED
    BY <2>1, <2>2 DEF Over, LocalsOK
<1>4. PoolOK'
  BY <1>2, Bounds DEF Over, PoolOK
<1> QED
  BY <1>3, <1>4 DEF Over, AtOK

LEMMA FinishTyped ==
  ASSUME LocalsOK, PoolOK, NEW r, Finish(r)
  PROVE  LocalsOK' /\ PoolOK' /\ AtOK' /\ pc' \notin {"batch", "run", "apply"}
<1>1. CASE own = NoPkg
  BY <1>1, OverTyped DEF Finish
<1>2. CASE own # NoPkg
  <2>1. own \in Pkg /\ [p \in Pkg |-> 0] \in [Pkg -> 0 .. MaxRounds] /\ Cardinality({own}) <= Width
    BY <1>2, Bounds DEF LocalsOK
  <2>2. /\ pc' = "own" /\ run' = {own} /\ rounds' = [p \in Pkg |-> 0]
        /\ UNCHANGED <<waiting, local, todo, err>>
    BY <1>2 DEF Finish
  <2> QED
    BY <2>1, <2>2 DEF LocalsOK, PoolOK, AtOK, local
<1> QED
  BY <1>1, <1>2

RestOK == CachesOK /\ LocalsOK /\ PoolOK /\ AtOK

\* what a build that ends leaves in the pool
LEMMA ReturnsTyped ==
  ASSUME PoolOK, LocalsOK, NEW p \in Pkg, NEW e \in {"none", "wait", "failed"}, Returns(p, e), todo' = todo
  PROVE  PoolOK' /\ waiting' \in BOOLEAN
<1>1. IsFiniteSet(run) /\ Cardinality(run) \in Nat
  BY PkgFinite, FS_Subset, FS_CardinalityType DEF PoolOK
<1>2. Cardinality(run \ {p}) <= Cardinality(run) /\ Cardinality(run \ {p}) \in Nat
  BY <1>1, FS_Subset, FS_CardinalityType
<1>3. Cardinality(run') <= Width
  BY <1>1, <1>2, Bounds DEF Returns, PoolOK
<1>4. rounds' \in [Pkg -> 0 .. MaxRounds]
  BY Bounds DEF Returns, PoolOK
<1>5. err' \in {"none", "wait", "failed"} /\ todo' \subseteq Pkg /\ run' \subseteq Pkg
  BY DEF Returns, PoolOK
<1>6. waiting' = (waiting \/ e = "wait")
  BY DEF Returns
<1> QED
  BY <1>3, <1>4, <1>5, <1>6 DEF PoolOK, LocalsOK

LEMMA AgainTyped ==
  ASSUME PoolOK, LocalsOK, NEW p \in Pkg, rounds[p] < MaxRounds, Again(p), todo' = todo
  PROVE  PoolOK' /\ waiting' \in BOOLEAN
<1>1. rounds' \in [Pkg -> 0 .. MaxRounds]
  BY Bounds DEF Again, PoolOK
<1> QED
  BY <1>1 DEF Again, PoolOK, LocalsOK

LEMMA StayTyped ==
  ASSUME CachesOK, LocalsOK, AtOK, Stay, waiting' \in BOOLEAN
  PROVE  LocalsOK' /\ AtOK' /\ ver' = ver
BY DEF Stay, local, LocalsOK, AtOK

\* the records of builds a round writes
LEMMA RoundCaches ==
  ASSUME TypeOK, CachesOK, NEW p \in Pkg, Round(p)
  PROVE  CachesOK'
<1> DEFINE Last == [miss : Miss \cup {NoMiss}, dep : Pkg \cup {NoPkg}]
<1>0. ver' = ver /\ NoRound \in Last
  BY DEF Round, NotStaged, Disprove, Discover, FallBack, GivesUp, More, Lands, Stay, NoRound
<1>1. \A l \in Last : [last EXCEPT ![p] = l] \in [Pkg -> Last]
  BY DEF CachesOK
<1>2. \A d \in SUBSET Pkg : [proven EXCEPT ![p] = d] \in [Pkg -> SUBSET Pkg]
  BY DEF CachesOK
<1>3. proven[p] \in SUBSET Pkg /\ Listed[p] \in SUBSET Pkg /\ Start(p) \in SUBSET Pkg
  BY StartTyped, PlannerAssumption DEF CachesOK
<1> HIDE DEF Last
<1>4. CASE NotStaged(p) \/ GivesUp(p)
  <2>1. last' \in [Pkg -> Last] /\ UNCHANGED <<cache, proven, star, tried, made>>
    BY <1>0, <1>1, <1>4 DEF NotStaged, GivesUp, closures, CachesOK, Last
  <2> QED
    BY <1>0, <2>1 DEF CachesOK, Last
<1>5. CASE Disprove(p)
  <2>1. last' \in [Pkg -> Last] /\ proven' \in [Pkg -> SUBSET Pkg] /\ UNCHANGED <<cache, star, tried, made>>
    BY <1>0, <1>1, <1>2, <1>3, <1>5 DEF Disprove
  <2> QED
    BY <1>0, <2>1 DEF CachesOK, Last
<1>6. CASE Discover(p)
  <2> DEFINE m == FirstOf(p, Known(p))
             d == Provider(p, m)
  <2>1. Known(p) # {} /\ proven' = [proven EXCEPT ![p] = @ \cup {d}]
        /\ last' = [last EXCEPT ![p] = [miss |-> m, dep |-> d]] /\ UNCHANGED <<cache, star, tried, made>>
    BY <1>6 DEF Discover
  <2>2. Known(p) \in SUBSET (DOMAIN Looks[p])
    BY DEF Known, Log
  <2>3. m \in Miss
    BY <2>1, <2>2, FirstTyped
  <2>4. d # NoPkg
    <3>1. Looks[p] \in Seq(Miss)
      BY PlannerAssumption
    <3>2. Known(p) \in SUBSET Nat
      BY <2>2, <3>1
    <3>3. \E k \in Known(p) : \A j \in Known(p) : k <= j
      BY <2>1, <3>2, Least
    <3>4. (CHOOSE k \in Known(p) : \A j \in Known(p) : k <= j) \in Known(p)
      BY <3>3
    <3> QED
      BY <3>4 DEF FirstOf, Known
  <2>5. d \in Pkg
    <3> HIDE DEF m
    <3> QED
      BY <2>3, <2>4, ProviderTyped
  <2> HIDE DEF m, d
  <2>6. last' \in [Pkg -> Last] /\ proven' \in [Pkg -> SUBSET Pkg]
    BY <1>1, <1>2, <1>3, <2>1, <2>3, <2>5 DEF Last
  <2> QED
    BY <1>0, <2>1, <2>6 DEF CachesOK, Last
<1>7. CASE FallBack(p)
  <2>1. last' \in [Pkg -> Last] /\ star' = star \cup {p} /\ UNCHANGED <<cache, proven, tried, made>>
    BY <1>0, <1>1, <1>7 DEF FallBack
  <2> QED
    BY <1>0, <2>1 DEF CachesOK, Last
<1>8. CASE More(p)
  <2>1. Extra(p) \in SUBSET Pkg
    BY <1>3 DEF Extra
  <2>2. last' \in [Pkg -> Last] /\ proven' \in [Pkg -> SUBSET Pkg] /\ UNCHANGED <<cache, star, tried, made>>
    BY <1>0, <1>1, <1>2, <1>3, <1>8, <2>1 DEF More
  <2> QED
    BY <1>0, <2>2 DEF CachesOK, Last
<1>9. CASE Lands(p)
  <2>1. last' \in [Pkg -> Last]
    BY <1>0, <1>1, <1>9 DEF Lands
  <2>2. Unused(p) \in SUBSET Pkg /\ ver[p] \in Nat
    BY <1>3 DEF Unused, CachesOK
  <2>3. proven' \in [Pkg -> SUBSET Pkg] /\ star' \subseteq Pkg /\ tried' \subseteq Pkg \X Pkg \X Nat
    <3>1. CASE UNCHANGED <<proven, star, tried>>
      BY <1>9, <3>1 DEF CachesOK
    <3>2. CASE p \notin Hand /\ ~UNCHANGED <<proven, star, tried>>
      <4> DEFINE U == Unused(p)
                 P == (proven[p] \cup (IF p \in star THEN Listed[p] ELSE {})) \ U
                 T == {<<p, d, ver[p]>> : d \in U}
      <4>1. proven' = [proven EXCEPT ![p] = P] /\ star' = star \ {p} /\ tried' = tried \cup T
        BY <1>9, <3>2 DEF Lands
      <4>2. P \in SUBSET Pkg
        BY <1>3
      <4>3. T \subseteq Pkg \X Pkg \X Nat
        BY <2>2
      <4> HIDE DEF U, P, T
      <4> QED
        BY <1>2, <4>1, <4>2, <4>3 DEF CachesOK
    <3> QED
      BY <1>9, <3>1, <3>2 DEF Lands
  <2>4. RunTime[p] \cup (Links[p] \cap Staged(p)) \in SUBSET Pkg
    BY StagedTyped, PlannerAssumption
  <2>5. cache' \in [Pkg -> Build]
    BY <1>9, <2>2, <2>4 DEF Lands, CachesOK, Build
  <2>6. made' \in [Pkg -> [Passes -> Nat]]
    <3>1. PICK k \in Passes : made' = [made EXCEPT ![p][k] = @ + 1]
      BY <1>9 DEF Lands, Passes
    <3>2. [made[p] EXCEPT ![k] = @ + 1] \in [Passes -> Nat]
      BY DEF CachesOK
    <3> QED
      BY <3>1, <3>2 DEF CachesOK
  <2> QED
    BY <1>0, <2>1, <2>3, <2>5, <2>6 DEF CachesOK, Last
<1> QED
  BY <1>4, <1>5, <1>6, <1>7, <1>8, <1>9 DEF Round

LEMMA RoundTyped ==
  ASSUME TypeOK, RestOK, NEW p \in Pkg, Round(p)
  PROVE  RestOK'
<1>1. Stay /\ todo' = todo
  BY DEF Round, NotStaged, Disprove, Discover, FallBack, GivesUp, More, Lands, Stay
<1>2. rounds[p] \in Nat /\ MaxRounds \in Nat
  BY Bounds DEF RestOK, PoolOK
<1>3. \/ \E e \in {"none", "wait", "failed"} : Returns(p, e)
      \/ rounds[p] < MaxRounds /\ Again(p)
  BY <1>2 DEF Round, NotStaged, Disprove, Discover, FallBack, GivesUp, More, Lands
<1>4. PoolOK' /\ waiting' \in BOOLEAN
  BY <1>1, <1>3, ReturnsTyped, AgainTyped DEF RestOK
<1> QED
  BY <1>1, <1>4, StayTyped, RoundCaches DEF RestOK

LEMMA CommandsTyped ==
  ASSUME TypeOK, RestOK,
         InstallCmd \/ WishCmd \/ BuildCmd \/ RemoveCmd \/ (\E p \in Pkg : Bump(p) \/ Edit(p))
  PROVE  RestOK'
<1> USE DEF RestOK, CachesOK, LocalsOK, PoolOK, AtOK
<1>0. [p \in Pkg |-> [k \in Passes |-> 0]] \in [Pkg -> [Passes -> Nat]] /\ Typed \subseteq Pkg /\ Outdated \subseteq Pkg
  BY PlannerAssumption DEF Outdated, Installed
<1>1. CASE InstallCmd
  <2>1. PICK due \in SUBSET Pkg, typed \in SUBSET Pkg : Install(due, typed)
    BY <1>0, <1>1 DEF InstallCmd
  <2> QED
    BY <1>0, <2>1 DEF Install, Asking, Began, closures, pool
<1>2. CASE WishCmd
  BY <1>0, <1>2 DEF WishCmd, Asking, Began, closures, pool, local
<1>3. CASE BuildCmd
  BY <1>0, <1>3 DEF BuildCmd, Asking, Began, closures, pool
<1>4. CASE RemoveCmd
  BY <1>4 DEF RemoveCmd, closures, pool, local
<1>5. CASE \E p \in Pkg : Bump(p)
  <2>1. PICK p \in Pkg : ver' = [ver EXCEPT ![p] = @ + 1]
                         /\ UNCHANGED <<cache, closures, waiting, pc, local, pool, made>>
    BY <1>5 DEF Bump
  <2>2. ver' \in [Pkg -> Nat \ {0}]
    BY <2>1
  <2> QED
    BY <2>1, <2>2 DEF closures, pool, local
<1>6. CASE \E p \in Pkg : Edit(p)
  BY <1>6 DEF Edit, closures, pool, local
<1> QED
  BY <1>1, <1>2, <1>3, <1>4, <1>5, <1>6

LEMMA PlanTyped ==
  ASSUME TypeOK, RestOK, Plan
  PROVE  RestOK' /\ (pc' = "batch" => (\A p \in All : Fresh(p))') /\ pc' \in {"idle", "batch", "level"}
<1>1. CASE Die
  BY <1>1, OverTyped DEF Die, RestOK, CachesOK, closures
<1> DEFINE W == Wanted(seeds)
           L == Levels(W)
<1>2. CASE /\ passes < MaxPasses
           /\ passes' = passes + 1 /\ plan' = L.out /\ at' = 1
           /\ pc' = IF \A p \in W : Fresh(p) THEN "batch" ELSE "level"
           /\ UNCHANGED <<ver, rec, cache, closures, world, waiting, own, seeds, named, brought, waits,
                          pool, made, swept, count>>
  <2>1. W \in SUBSET Pkg
    BY WantedTyped DEF RestOK, LocalsOK
  <2>2. L.out \in Seq(SUBSET (W \X BOOLEAN))
    <3> HIDE DEF W
    <3> QED
      BY <2>1, LevelsTyped
  <2> HIDE DEF L, W
  <2>3. plan' \in Seq(SUBSET (W \X BOOLEAN)) /\ W \X BOOLEAN \subseteq Pkg \X BOOLEAN
    BY <1>2, <2>1, <2>2
  <2>4. plan' \in Seq(SUBSET (Pkg \X BOOLEAN)) /\ Len(plan') \in Nat
    BY <2>3
  <2>5. All' \subseteq W
    <3>1. \A k \in DOMAIN plan' : plan'[k] \in SUBSET (W \X BOOLEAN)
      BY <2>3
    <3> QED
      BY <3>1 DEF All, Names
  <2>6. pc' = "batch" => (\A p \in All : Fresh(p))'
    BY <1>2, <2>5 DEF Fresh
  <2>7. passes' \in 0 .. MaxPasses
    BY <1>2, Bounds DEF RestOK, LocalsOK
  <2>8. at' \in 0 .. Len(plan') + 1 /\ at' = 1
    BY <1>2, <2>4
  <2>9. LocalsOK'
    BY <1>2, <2>4, <2>7, <2>8 DEF RestOK, LocalsOK
  <2>10. PoolOK' /\ CachesOK'
    BY <1>2 DEF RestOK, PoolOK, CachesOK, pool, closures
  <2> QED
    BY <1>2, <2>6, <2>8, <2>9, <2>10 DEF RestOK, AtOK
<1>3. passes \in Nat /\ MaxPasses \in Nat
  BY Bounds DEF RestOK, LocalsOK
<1> QED
  BY <1>1, <1>2, <1>3 DEF Plan

LEMMA LevelTyped ==
  ASSUME TypeOK, RestOK,
         FirstTools \/ Batch \/ Done \/ StartLevel \/ (\E p \in Pkg : Take(p)) \/ EndLevel \/ Apply
  PROVE  RestOK'
<1>0. ASSUME Die PROVE RestOK'
  BY <1>0, OverTyped DEF Die, RestOK, CachesOK, closures
<1>1. CASE FirstTools
  <2>1. CASE UNCHANGED <<ver, cache, closures, waiting, pc, local, pool, made>>
    BY <2>1 DEF RestOK, CachesOK, LocalsOK, PoolOK, AtOK, closures, local, pool
  <2> QED
    BY <1>0, <1>1, <2>1 DEF FirstTools
<1>2. CASE Batch \/ Done
  <2>1. CASE (\E r : Finish(r)) /\ UNCHANGED <<ver, cache, closures, made>>
    BY <2>1, FinishTyped DEF RestOK, CachesOK, closures
  <2> QED
    BY <1>0, <1>2, <2>1 DEF Batch, Done
<1>3. CASE StartLevel
  <2>1. at \in DOMAIN plan /\ Names(plan[at]) \subseteq Pkg
    BY <1>3 DEF StartLevel, RestOK, LocalsOK, AtOK, Names
  <2>2. [p \in Pkg |-> 0] \in [Pkg -> 0 .. MaxRounds]
    BY Bounds
  <2> QED
    BY <1>3, <2>1, <2>2 DEF StartLevel, RestOK, CachesOK, LocalsOK, PoolOK, AtOK, closures, local
<1>4. CASE \E p \in Pkg : Take(p)
  <2>1. PICK p \in Pkg : Take(p)
    BY <1>4
  <2>2. IsFiniteSet(run) /\ Cardinality(run) \in Nat
    BY PkgFinite, FS_Subset, FS_CardinalityType DEF RestOK, PoolOK
  <2>3. Cardinality(run \cup {p}) = IF p \in run THEN Cardinality(run) ELSE Cardinality(run) + 1
    BY <2>2, FS_AddElement
  <2>4. Cardinality(run') <= Width
    BY <2>1, <2>2, <2>3, Bounds DEF Take
  <2> QED
    BY <2>1, <2>4 DEF Take, RestOK, CachesOK, LocalsOK, PoolOK, AtOK, closures, local
<1>5. CASE EndLevel
  <2>1. CASE /\ pc' = (IF err # "none" \/ ~Fits(Level) THEN "plan" ELSE "apply") /\ pc = "run"
             /\ waiting' = FALSE /\ todo' = {} /\ err' = "none"
             /\ UNCHANGED <<ver, cache, closures, local, run, rounds, made>>
    BY <2>1 DEF RestOK, CachesOK, LocalsOK, PoolOK, AtOK, closures, local
  <2> QED
    BY <1>0, <1>5, <2>1 DEF EndLevel
<1>6. CASE Apply
  <2>1. CASE /\ at' = at + 1 /\ pc' = "level" /\ pc = "apply"
             /\ UNCHANGED <<ver, cache, closures, waiting, own, seeds, named, passes, plan, brought, waits,
                            pool, made>>
    <3>1. at' \in 0 .. Len(plan) + 1 /\ at' # 0
      BY <2>1 DEF RestOK, LocalsOK, AtOK
    <3> QED
      BY <2>1, <3>1 DEF RestOK, CachesOK, LocalsOK, PoolOK, AtOK, closures, pool
  <2> QED
    BY <1>0, <1>6, <2>1 DEF Apply
<1> QED
  BY <1>1, <1>2, <1>3, <1>4, <1>5, <1>6

LEMMA OwnTyped ==
  ASSUME TypeOK, RestOK, Bring \/ EndOwn \/ Kill
  PROVE  RestOK'
<1>0. ASSUME Over, UNCHANGED <<ver, cache, closures, made>> PROVE RestOK'
  BY <1>0, OverTyped DEF RestOK, CachesOK, closures
<1>1. CASE Kill
  BY <1>0, <1>1 DEF Kill
<1>2. CASE Bring
  <2>1. own \in Pkg
    BY <1>2 DEF Bring, RestOK, AtOK
  <2>2. Start(own) \ Installed \in SUBSET Pkg /\ Cardinality({own}) <= Width
    BY <2>1, StartTyped, Bounds
  <2>3. /\ UNCHANGED <<ver, cache, closures, waiting, own, named, plan, at, waits, todo, rounds, err, made>>
        /\ \/ pc' = "own" /\ run' = {own} /\ UNCHANGED <<seeds, passes, brought>>
           \/ pc' = "plan" /\ seeds' = Start(own) \ Installed /\ passes' = 0 /\ brought' = TRUE /\ run' = run
    BY <1>2 DEF Bring
  <2>4. passes' \in 0 .. MaxPasses
    BY <2>3, Bounds DEF RestOK, LocalsOK
  <2>5. CachesOK' /\ PoolOK' /\ AtOK'
    BY <2>1, <2>2, <2>3 DEF RestOK, CachesOK, PoolOK, AtOK, closures
  <2>6. LocalsOK'
    BY <2>2, <2>3, <2>4 DEF RestOK, LocalsOK
  <2> QED
    BY <2>5, <2>6 DEF RestOK
<1>3. CASE EndOwn
  <2>1. CASE /\ pc = "own" /\ waits < MaxWaits /\ pc' = "bring" /\ waits' = waits + 1 /\ waiting' = FALSE /\ err' = "none"
             /\ UNCHANGED <<ver, cache, closures, own, seeds, named, passes, plan, at, brought, todo, run,
                            rounds, made>>
    <3>1. waits' \in 0 .. MaxWaits
      BY <2>1, Bounds DEF RestOK, LocalsOK
    <3> QED
      BY <2>1, <3>1 DEF RestOK, CachesOK, LocalsOK, PoolOK, AtOK, closures
  <2> QED
    BY <1>0, <1>3, <2>1 DEF EndOwn, Die
<1> QED
  BY <1>1, <1>2, <1>3

LEMMA RestNext ==
  ASSUME PlanInv, Next PROVE RestOK'
<1>1. TypeOK /\ RestOK
  BY Parts DEF PlanInv, RestOK
<1> QED
  BY <1>1, RoundTyped, CommandsTyped, PlanTyped, LevelTyped, OwnTyped DEF Next

\* a build that leaves the pool has left an artifact of now or an error
LEMMA RoundEnds ==
  ASSUME TypeOK, NEW p \in Pkg, Round(p)
  PROVE  /\ UNCHANGED <<pc, plan, at, todo>>
         /\ \A q \in Pkg : Fresh(q) => Fresh(q)'
         /\ err # "none" => err' # "none"
         /\ run' = run \/ (run' = run \ {p} /\ (err' # "none" \/ Fresh(p)'))
<1>1. UNCHANGED <<ver, pc, plan, at, todo>>
  BY DEF Round, NotStaged, Disprove, Discover, FallBack, GivesUp, More, Lands, Stay, local
<1>2. CASE NotStaged(p) \/ Disprove(p) \/ Discover(p) \/ FallBack(p) \/ GivesUp(p) \/ More(p)
  <2>1. cache' = cache
    BY <1>2 DEF NotStaged, Disprove, Discover, FallBack, GivesUp, More
  <2>2. Again(p) \/ \E e \in {"wait", "failed"} : Returns(p, e)
    BY <1>2 DEF NotStaged, Disprove, Discover, FallBack, GivesUp, More
  <2>3. err # "none" => err' # "none"
    BY <2>2 DEF Again, Returns
  <2>4. run' = run \/ (run' = run \ {p} /\ err' # "none")
    BY <2>2 DEF Again, Returns
  <2> QED
    BY <1>1, <2>1, <2>3, <2>4 DEF Fresh
<1>3. CASE Lands(p)
  <2>1. Returns(p, "none")
    BY <1>3 DEF Lands
  <2>2. \E d : cache' = [cache EXCEPT ![p] = [ver |-> ver[p], deps |-> d]]
    BY <1>3 DEF Lands
  <2>3. \A q \in Pkg : Fresh(q)' <=> q = p \/ Fresh(q)
    BY <1>1, <2>2 DEF Fresh, TypeOK
  <2> QED
    BY <1>1, <2>1, <2>3 DEF Returns
<1> QED
  BY <1>2, <1>3 DEF Round

LEMMA ReadyNext ==
  ASSUME PlanInv, Next PROVE Ready'
<1>0. TypeOK /\ RestOK /\ Ready
  BY Parts DEF PlanInv, RestOK
<1>a. pc = "run" => at \in DOMAIN plan /\ Level \in SUBSET Pkg
  BY <1>0, NamesTyped DEF RestOK, AtOK
<1>1. CASE InstallCmd \/ BuildCmd \/ Kill \/ Bring \/ EndOwn \/ FirstTools \/ Apply
  <2>1. pc' \notin {"batch", "run", "apply"}
    BY <1>1 DEF InstallCmd, Install, BuildCmd, Kill, Bring, EndOwn, FirstTools, Apply, Die, Over
  <2> QED
    BY <2>1 DEF Ready
<1>2. CASE WishCmd \/ RemoveCmd \/ \E p \in Pkg : Edit(p)
  <2>1. UNCHANGED <<ver, cache, pc, local, pool>>
    BY <1>2 DEF WishCmd, RemoveCmd, Edit
  <2> QED
    BY <1>0, <2>1 DEF Ready, All, Level, Names, Fresh, local, pool
<1>3. CASE \E p \in Pkg : Bump(p)
  BY <1>3 DEF Bump, Ready
<1>4. CASE Plan
  BY <1>0, <1>4, PlanTyped DEF Ready
<1>5. CASE Batch \/ Done
  <2>1. CASE Die
    BY <2>1 DEF Die, Over, Ready
  <2>2. CASE \E r : Finish(r)
    BY <1>0, <2>2, FinishTyped DEF Ready, RestOK
  <2> QED
    BY <1>5, <2>1, <2>2 DEF Batch, Done
<1>6. CASE StartLevel
  <2>1. /\ pc' = "run" /\ todo' = {p \in Level : ~Fresh(p)}
        /\ UNCHANGED <<ver, cache, plan, at>>
    BY <1>6 DEF StartLevel, Level, local
  <2>2. Level' = Level
    BY <2>1 DEF Level, Names
  <2> QED
    BY <2>1, <2>2 DEF Ready, Fresh
<1>7. CASE \E p \in Pkg : Take(p)
  <2>1. /\ pc' = "run" /\ pc = "run" /\ todo' \cup run' = todo \cup run /\ err' = err
        /\ UNCHANGED <<ver, cache, plan, at>>
    BY <1>7 DEF Take, local
  <2> QED
    BY <1>0, <2>1 DEF Ready, Level, Names, Fresh
<1>8. CASE \E p \in Pkg : Round(p)
  <2>1. PICK p \in Pkg : Round(p)
    BY <1>8
  <2>2. /\ UNCHANGED <<pc, plan, at, todo>>
        /\ \A q \in Pkg : Fresh(q) => Fresh(q)'
        /\ err # "none" => err' # "none"
        /\ run' = run \/ (run' = run \ {p} /\ (err' # "none" \/ Fresh(p)'))
    BY <1>0, <2>1, RoundEnds
  <2>3. All' = All /\ Level' = Level
    BY <2>2 DEF All, Level, Names
  <2>4. All \in SUBSET Pkg /\ (pc \in {"run", "apply"} => Level \in SUBSET Pkg)
    BY <1>0, NamesTyped DEF RestOK, AtOK
  <2>5. pc' = "batch" => \A q \in All : Fresh(q)'
    BY <1>0, <2>2, <2>4 DEF Ready
  <2>6. pc' = "apply" => \A q \in Level : Fresh(q)'
    BY <1>0, <2>2, <2>4 DEF Ready
  <2>7. ASSUME pc' = "run", NEW q \in Level PROVE Fresh(q)' \/ q \in todo' \cup run' \/ err' # "none"
    <3>1. q \in Pkg /\ (Fresh(q) \/ q \in todo \cup run \/ err # "none")
      BY <1>0, <2>2, <2>4, <2>7 DEF Ready
    <3> QED
      BY <2>2, <3>1
  <2> HIDE DEF Fresh
  <2> QED
    BY <2>3, <2>5, <2>6, <2>7 DEF Ready
<1>9. CASE EndLevel
  <2>1. CASE Die
    BY <2>1 DEF Die, Over, Ready
  <2>2. CASE pc' = "plan"
    BY <2>2 DEF Ready
  <2>3. CASE err = "none" /\ UNCHANGED <<ver, cache, plan, at>> /\ pc' = "apply"
    <3>1. pc = "run" /\ run = {} /\ todo = {}
      BY <1>9, <2>3 DEF EndLevel
    <3>2. \A p \in Level : Fresh(p)
      BY <1>0, <2>3, <3>1 DEF Ready
    <3> QED
      BY <2>3, <3>2 DEF Ready, Level, Names, Fresh
  <2> QED
    BY <1>9, <2>1, <2>2, <2>3 DEF EndLevel, local
<1> QED
  BY <1>1, <1>2, <1>3, <1>4, <1>5, <1>6, <1>7, <1>8, <1>9 DEF Next

----------------------------------------------------------------------------
(* The invariant, and the theorems. *)

LEMMA PlanInit == Init => PlanInv
<1> SUFFICES ASSUME Init PROVE PlanInv
  OBVIOUS
<1>1. PICK g \in Given : ver = g.ver /\ rec = g.in /\ cache = g.cache /\ world = g.world
  BY DEF Init
<1>2. g \in [ver : [Pkg -> Nat \ {0}], in : [Pkg -> Build], cache : [Pkg -> Build], world : World]
  BY PlannerAssumption DEF World
<1>3. rec \in [Pkg -> Build] /\ world \in World /\ swept \in BOOLEAN /\ ~swept
  BY <1>1, <1>2 DEF Init
<1>4. CachesOK
  <2>1. NoRound \in [miss : Miss \cup {NoMiss}, dep : Pkg \cup {NoPkg}]
    BY DEF NoRound
  <2> QED
    BY <1>1, <1>2, <2>1 DEF Init, CachesOK
<1>5. LocalsOK
  <2>1. plan \in Seq(SUBSET (Pkg \X BOOLEAN)) /\ at = 0 /\ 0 \in 0 .. Len(plan) + 1
    BY DEF Init
  <2>2. passes \in 0 .. MaxPasses /\ waits \in 0 .. MaxWaits
    BY Bounds DEF Init
  <2> QED
    BY <2>1, <2>2 DEF Init, LocalsOK
<1>6. PoolOK
  BY Bounds DEF Init, PoolOK
<1>7. AtOK /\ Ready
  BY DEF Init, AtOK, Ready
<1> QED
  BY <1>3, <1>4, <1>5, <1>6, <1>7, Parts DEF PlanInv

LEMMA PlanNext == ASSUME PlanInv, [Next]_vars PROVE PlanInv'
<1>1. CASE Next
  <2>1. RestOK' /\ Ready'
    BY <1>1, RestNext, ReadyNext
  <2>2. rec' \in [Pkg -> Build] /\ world' \in World /\ swept' \in BOOLEAN /\ (swept' => world'.there)
    BY <1>1, EffectsTyped
  <2>3. TypeOK' /\ Shape'
    BY <2>1, <2>2 DEF RestOK, CachesOK, LocalsOK, PoolOK, AtOK, TypeOK, Shape, World
  <2> QED
    BY <2>1, <2>3 DEF PlanInv
<1>2. CASE UNCHANGED vars
  <2>1. TypeOK' /\ Shape'
    BY <1>2 DEF PlanInv, TypeOK, Shape, vars
  <2>2. Ready'
    BY <1>2 DEF PlanInv, Ready, All, Level, Names, Fresh, vars
  <2> QED
    BY <2>1, <2>2 DEF PlanInv
<1> QED
  BY <1>1, <1>2

\* Types hold through all commands, builds, removals and kills, and a level never runs
\* more builds than its width (parallel).
THEOREM TypeCorrect == Spec => []TypeOK
<1>1. PlanInv => TypeOK
  BY DEF PlanInv
<1> QED
  BY <1>1, PlanInit, PlanNext, PTL DEF Spec

\* What a leave leaves standing is no more than is needed.
LEMMA SweptNeeded ==
  ASSUME NEW r \in [Pkg -> Build], NEW w \in World, Sweep(r, w)
  PROVE  NothingIdle'
<1> SUFFICES ASSUME swept' PROVE Installed' = Needed(Installed)'
  BY DEF NothingIdle
<1> DEFINE K == Stays(r, w)
<1>1. /\ w.there
      /\ world' = w
      /\ (K # In(r) \/ In(r) \cap Blind = {})
      /\ rec' = [p \in Pkg |-> IF p \in K THEN r[p] ELSE None]
  BY DEF Sweep, Left
<1>2. Kept(r, w, K)
  BY StaysIs
<1> HIDE DEF K
<1>3. /\ K \subseteq In(r) /\ (w.names \cup Base) \cap In(r) \subseteq K
      /\ \A p \in K : Held(r)[p] \subseteq K /\ Scripts[p] \cap In(r) \subseteq K
  BY <1>2 DEF Kept, Whole, Closed
<1>4. /\ In(r) \in SUBSET Pkg /\ \A p \in Pkg : Held(r)[p] = (r[p].deps \cup Seen[p]) \cap In(r)
  BY HeldTyped
<1>5. Installed' = K
  BY <1>1, <1>3, <1>4 DEF Installed, In
<1>6. \A p \in K : rec'[p] = r[p]
  BY <1>1, <1>3, <1>4
<1>7. ASSUME NEW C \in SUBSET K, (w.names \cup Base) \cap K \subseteq C,
             \A p \in C : (r[p].deps \cup Seen[p] \cup Scripts[p]) \cap K \subseteq C
      PROVE  K \subseteq C
  <2>1. Closed(C, Held(r)) /\ \A p \in C : Scripts[p] \cap In(r) \subseteq C
    <3> SUFFICES ASSUME NEW p \in C PROVE Held(r)[p] \subseteq C /\ Scripts[p] \cap In(r) \subseteq C
      BY DEF Closed
    <3>1. p \in K /\ p \in Pkg
      BY <1>3, <1>4
    <3>2. Held(r)[p] \subseteq (r[p].deps \cup Seen[p]) \cap K
      BY <1>3, <1>4, <3>1
    <3>3. Scripts[p] \cap In(r) \subseteq Scripts[p] \cap K
      BY <1>3, <3>1
    <3> QED
      BY <1>7, <3>2, <3>3
  <2>2. Whole(r, w, C) /\ C \in SUBSET Pkg
    BY <1>3, <1>4, <1>7, <2>1 DEF Whole
  <2>3. K # In(r) \/ In(r) \cap Blind = {}
    BY <1>1
  <2> QED
    BY <1>2, <2>2, <2>3 DEF Kept
<1> DEFINE closed == {C \in SUBSET K : /\ (w.names \cup Base) \cap K \subseteq C
                                       /\ \A p \in C : (r[p].deps \cup Seen[p] \cup Scripts[p]) \cap K \subseteq C}
<1>8. \A C \in closed : K \subseteq C
  BY <1>7
<1>9. Needed(Installed)' = {p \in K : \A C \in closed : p \in C}
  <2> DEFINE after == {C \in SUBSET K : /\ (w.names \cup Base) \cap K \subseteq C
                                        /\ \A p \in C : (rec'[p].deps \cup Seen[p] \cup Scripts[p]) \cap K \subseteq C}
  <2>1. after = closed
    <3> SUFFICES ASSUME NEW C \in SUBSET K PROVE C \in after <=> C \in closed
      OBVIOUS
    <3>1. \A p \in C : rec'[p] = r[p]
      BY <1>6
    <3>2. (\A p \in C : (rec'[p].deps \cup Seen[p] \cup Scripts[p]) \cap K \subseteq C)
             <=> (\A p \in C : (r[p].deps \cup Seen[p] \cup Scripts[p]) \cap K \subseteq C)
      BY <3>1
    <3> QED
      BY <3>2
  <2>2. world' = w
    BY <1>1
  <2>3. Needed(Installed)' = {p \in K : \A C \in after : p \in C}
    BY <1>5, <2>2 DEF Needed
  <2> QED
    BY <2>1, <2>3
<1> HIDE DEF closed
<1>10. Needed(Installed)' = K
  BY <1>8, <1>9
<1> QED
  BY <1>5, <1>10

LEMMA WithoutTyped ==
  ASSUME TypeOK, NEW N
  PROVE  Without(N) \in [Pkg -> Build]
BY DEF Without, None, Build, TypeOK

LEMMA IdleNext ==
  ASSUME PlanInv, NothingIdle, [Next]_vars PROVE NothingIdle'
<1>1. CASE rec' = rec /\ world' = world /\ swept' = swept
  BY <1>1 DEF NothingIdle, Installed, Needed
<1>2. CASE swept' = FALSE
  BY <1>2 DEF NothingIdle
<1>3. CASE \E r \in [Pkg -> Build] : \E w \in World : Sweep(r, w)
  BY <1>3, SweptNeeded
<1>4. CASE Next
  BY <1>1, <1>2, <1>3, <1>4, Effects, WithTyped, WithoutTyped DEF Stands, Brings, Ends, Takes, PlanInv
<1> QED
  BY <1>1, <1>4 DEF vars

\* Behind every leave that did not give up stands the least set that has what was asked for and
\* is closed under what records, dlopens and files need, for any packages, roots and users,
\* and whatever another kiry removes meanwhile (leave, would_break).
THEOREM NothingIdleStays == Spec => []NothingIdle
<1>1. Init => NothingIdle
  BY DEF Init, NothingIdle
<1> QED
  BY <1>1, PlanInit, PlanNext, IdleNext, PTL DEF Spec

\* A leave breaks nothing that stays.
LEMMA SweepKeeps ==
  ASSUME NEW r \in [Pkg -> Build], NEW w \in World, Sweep(r, w),
         NEW p \in Pkg, rec'[p] # None, NEW d \in Scripts[p], r[d] # None
  PROVE  r[p] # None /\ rec'[d] # None
<1>0. d \in Pkg
  BY PlannerAssumption
<1>1. CASE ~w.there
  BY <1>1 DEF Sweep, Left
<1>2. CASE w.there
  <2>1. rec' = [q \in Pkg |-> IF q \in Stays(r, w) THEN r[q] ELSE None]
    BY <1>2 DEF Sweep, Left
  <2>2. p \in Stays(r, w) /\ r[p] # None
    BY <2>1
  <2>3. d \in Stays(r, w)
    BY <1>0, <2>2, StaysIs DEF Kept, Whole, In
  <2> QED
    BY <1>0, <2>1, <2>2, <2>3
<1> QED
  BY <1>1, <1>2

\* No command but a forced removal takes away what a file that stays runs, whether a record says
\* so or not: not a batch, nor a leave or a removal behind or beside it (would_break, held_by).
THEOREM NoneBrokenEver == Spec => NoneBroken
<1>1. ASSUME PlanInv, [Next]_vars
      PROVE  [\A p \in Pkg : rec[p] # None /\ rec'[p] # None =>
                 \A d \in Scripts[p] : rec[d] # None => rec'[d] # None]_vars
  <2> SUFFICES ASSUME Next, NEW p \in Pkg, rec[p] # None, rec'[p] # None,
                      NEW d \in Scripts[p], rec[d] # None
               PROVE  rec'[d] # None
    BY <1>1
  <2>0. d \in Pkg /\ TypeOK
    BY <1>1, PlannerAssumption DEF PlanInv
  <2>1. \A B \in SUBSET Pkg : (\A q \in B : Fresh(q)) => With(B)[d] # None
    <3>1. \A q \in Pkg : Fresh(q) => cache[q] # None
      BY <1>1 DEF PlanInv, Shape, Fresh, None
    <3> QED
      BY <2>0, <3>1 DEF With
  <2>2. CASE Stands
    BY <2>2 DEF Stands
  <2>3. CASE \E B \in SUBSET Pkg : Brings(B)
    BY <2>1, <2>3 DEF Brings
  <2>4. CASE \E B \in SUBSET Pkg : \E w \in World : Ends(B, w)
    <3>1. PICK B \in SUBSET Pkg : \E w \in World : Ends(B, w)
      BY <2>4
    <3>2. PICK w \in World : Ends(B, w)
      BY <3>1
    <3> QED
      BY <2>0, <2>1, <3>2, WithTyped, SweepKeeps DEF Ends
  <2>5. CASE \E N \in SUBSET Pkg : \E w \in World : Takes(N, w)
    <3>1. PICK N \in SUBSET Pkg : \E w \in World : Takes(N, w)
      BY <2>5
    <3>2. PICK w \in World : Takes(N, w)
      BY <3>1
    <3>3. Without(N)[p] # None
      <4>1. CASE w.there
        BY <3>2, <4>1 DEF Takes, Sweep, Left
      <4>2. CASE ~w.there
        BY <3>2, <4>2 DEF Takes, Sweep, Left
      <4> QED
        BY <4>1, <4>2
    <3>4. p \notin N
      BY <3>3 DEF Without
    <3>5. d \notin N
      BY <2>0, <3>2, <3>4 DEF Takes, Holds, Broken, In, Installed
    <3>6. Without(N)[d] # None
      BY <2>0, <3>5 DEF Without
    <3> QED
      BY <2>0, <3>2, <3>6, WithoutTyped, SweepKeeps DEF Takes
  <2> QED
    BY <1>1, <2>2, <2>3, <2>4, <2>5, Effects
<1> QED
  BY <1>1, PlanInit, PlanNext, PTL DEF Spec, NoneBroken

----------------------------------------------------------------------------
(* Lines of a closure. A guess that does not help comes out in the next round,
   if it was for the first thing the build misses and nothing else answers that. *)

WrongGuess(p, k) == Guess[Looks[p][k]] # NoPkg /\ ~Helps(p, Guess[Looks[p][k]])
Unanswered(p) == 1 \in DOMAIN Looks[p] /\ \A q \in Pkg : Looks[p][1] \notin Ships[q]
GuessesJudged ==
  \A p \in Pkg \ Hand : \A k \in DOMAIN Looks[p] :
    WrongGuess(p, k) => k = 1 /\ p \notin Starters /\ Unanswered(p)

BootsHere == plan \in Seq(SUBSET Marks(Pkg))
\* a line that does not help is on trial
OnTrial(p) == last[p].dep # NoPkg /\ ~Helps(p, last[p].dep)
Judged == \A p \in Pkg : OnTrial(p) => /\ p \notin Hand \cup Starters /\ Unanswered(p)
                                       /\ last[p].miss = Looks[p][1]
EarnInv == PlanInv /\ BootsHere /\ Judged /\ Earned

LEMMA FirstIs ==
  ASSUME NEW p \in Pkg, NEW K \in SUBSET (DOMAIN Looks[p]), K # {}
  PROVE  \E k \in K : FirstOf(p, K) = Looks[p][k] /\ \A j \in K : k <= j
<1>1. Looks[p] \in Seq(Miss)
  BY PlannerAssumption
<1>2. K \in SUBSET Nat
  BY <1>1
<1>3. \E k \in K : \A j \in K : k <= j
  BY <1>2, Least
<1> DEFINE least == CHOOSE k \in K : \A j \in K : k <= j
<1>4. least \in K /\ \A j \in K : least <= j
  BY <1>3
<1>5. FirstOf(p, K) = Looks[p][least]
  BY DEF FirstOf
<1> QED
  BY <1>4, <1>5

LEMMA TrialEnds ==
  ASSUME EarnInv, NEW p \in Pkg, OnTrial(p)
  PROVE  Log(p) # {} /\ TakenBack(p)
<1>1. p \notin Hand \cup Starters /\ Unanswered(p) /\ last[p].miss = Looks[p][1]
  BY DEF EarnInv, Judged
<1>2. ~Boots(p)
  <2>1. pc = "run" => plan[at] \in SUBSET Marks(Pkg)
    BY DEF EarnInv, PlanInv, Shape, BootsHere
  <2> QED
    BY <1>1, <2>1 DEF Boots, Marks
<1>3. Staged(p) \in SUBSET Pkg
  BY StagedTyped DEF EarnInv, PlanInv
<1>4. Looks[p][1] \notin Answered(p)
  BY <1>1, <1>3 DEF Answered, Unanswered
<1>5. 1 \in Log(p) /\ Log(p) \in SUBSET (DOMAIN Looks[p])
  BY <1>1, <1>2, <1>4 DEF Log, Unanswered
<1>6. PICK k \in Log(p) : FirstOf(p, Log(p)) = Looks[p][k] /\ \A j \in Log(p) : k <= j
  BY <1>5, FirstIs
<1>7. k = 1
  <2>1. Looks[p] \in Seq(Miss) /\ k \in DOMAIN Looks[p]
    BY <1>5, PlannerAssumption
  <2>2. k \in Nat /\ k >= 1
    BY <2>1
  <2> QED
    BY <1>5, <1>6, <2>2
<1>8. last[p] # NoRound
  BY DEF OnTrial, NoRound
<1> QED
  BY <1>1, <1>5, <1>6, <1>7, <1>8 DEF TakenBack

\* what an answer is, if it does not help: a wrong guess
LEMMA Answers ==
  ASSUME PlanInv, GuessesJudged, NEW p \in Pkg \ Hand, NEW k \in DOMAIN Looks[p],
         Provider(p, Looks[p][k]) # NoPkg
  PROVE  \/ Helps(p, Provider(p, Looks[p][k]))
         \/ k = 1 /\ p \notin Starters /\ Unanswered(p)
<1> DEFINE m == Looks[p][k]
           found == {q \in Installed : m \in Ships[q]}
           taken == Start(p) \cup {p}
<1>1. \A q \in found : Helps(p, q)
  BY DEF Helps
<1>2. CASE found # {}
  <2>1. found \cap taken = {}
    BY DEF Provider
  <2>2. Provider(p, m) = IF found \cap Listed[p] # {} THEN CHOOSE q \in found \cap Listed[p] : TRUE
                         ELSE CHOOSE q \in found : TRUE
    BY <1>2, <2>1 DEF Provider
  <2>3. Provider(p, m) \in found
    <3> HIDE DEF found, m
    <3> QED
      BY <1>2, <2>2
  <2> QED
    BY <1>1, <2>3
<1>3. CASE found = {}
  <2>1. Provider(p, m) = Guess[m]
    BY <1>3 DEF Provider
  <2> QED
    BY <2>1 DEF GuessesJudged, WrongGuess
<1> QED
  BY <1>2, <1>3

\* a round ends a trial, or begins one
LEMMA RoundJudges ==
  ASSUME EarnInv, GuessesJudged, NEW p \in Pkg, Round(p)
  PROVE  Judged' /\ Earned'
<1>0. TypeOK /\ PlanInv /\ proven \in [Pkg -> SUBSET Pkg] /\ last \in [Pkg -> [miss : Miss \cup {NoMiss}, dep : Pkg \cup {NoPkg}]]
  BY DEF EarnInv, PlanInv, TypeOK
<1>1. NoPkg \notin Pkg /\ Listed[p] \in SUBSET Pkg
  BY PlannerAssumption
<1>2. ASSUME ~OnTrial(p) PROVE \A d \in proven[p] : Helps(p, d)
  BY <1>0, <1>1, <1>2 DEF EarnInv, Earned, OnTrial
<1>3. ASSUME Works(p) \/ ~TakenBack(p) PROVE ~OnTrial(p)
  BY <1>3, TrialEnds DEF EarnInv, Works
<1>4. \A d \in Listed[p] : Helps(p, d)
  BY DEF Helps
<1>a. ASSUME NEW s \in SUBSET Pkg, proven' = [proven EXCEPT ![p] = s], last' = [last EXCEPT ![p] = NoRound],
             \A d \in s : Helps(p, d)
      PROVE  Judged' /\ Earned'
  <2>1. NoRound.dep = NoPkg
    BY DEF NoRound
  <2>2. ~OnTrial(p)'
    BY <1>0, <1>a, <2>1 DEF OnTrial
  <2>3. \A q \in Pkg : q # p => last'[q] = last[q] /\ proven'[q] = proven[q]
    BY <1>0, <1>a
  <2>4. \A q \in Pkg : q # p => (OnTrial(q)' <=> OnTrial(q))
    BY <2>3 DEF OnTrial
  <2>5. Judged'
    BY <2>2, <2>3, <2>4 DEF EarnInv, Judged
  <2>6. proven'[p] = s
    BY <1>0, <1>a
  <2> QED
    BY <1>a, <2>3, <2>5, <2>6 DEF EarnInv, Earned
<1>5. CASE Disprove(p)
  <2>1. \A d \in proven[p] \ {last[p].dep} : Helps(p, d)
    BY DEF EarnInv, Earned
  <2>2. proven' = [proven EXCEPT ![p] = proven[p] \ {last[p].dep}] /\ last' = [last EXCEPT ![p] = NoRound]
    BY <1>5 DEF Disprove
  <2> QED
    BY <1>0, <1>a, <2>1, <2>2
<1>b. ASSUME UNCHANGED <<proven, last>> PROVE Judged' /\ Earned'
  BY <1>b DEF EarnInv, Judged, Earned, OnTrial
<1>6. CASE FallBack(p) \/ GivesUp(p)
  <2>1. CASE p \in Hand
    BY <1>6, <1>b, <2>1 DEF FallBack, GivesUp
  <2>2. CASE p \notin Hand
    <3>1. ~TakenBack(p) /\ proven' = proven /\ last' = [last EXCEPT ![p] = NoRound]
      BY <1>6, <2>2 DEF FallBack, GivesUp
    <3>2. proven' = [proven EXCEPT ![p] = proven[p]]
      BY <1>0, <3>1
    <3> QED
      BY <1>0, <1>2, <1>3, <1>a, <3>1, <3>2
  <2> QED
    BY <2>1, <2>2
<1>7. CASE NotStaged(p)
  BY <1>7, <1>b DEF NotStaged, closures
<1>8. CASE More(p)
  <2>1. Works(p) /\ proven' = [proven EXCEPT ![p] = proven[p] \cup Extra(p)] /\ last' = [last EXCEPT ![p] = NoRound]
    BY <1>8 DEF More
  <2>2. Extra(p) \subseteq Listed[p]
    BY DEF Extra
  <2>3. proven[p] \cup Extra(p) \in SUBSET Pkg /\ \A d \in proven[p] \cup Extra(p) : Helps(p, d)
    BY <1>0, <1>1, <1>2, <1>3, <1>4, <2>1, <2>2
  <2> QED
    BY <1>a, <2>1, <2>3
<1>9. CASE Lands(p)
  <2>1. Works(p) /\ last' = [last EXCEPT ![p] = NoRound]
    BY <1>9 DEF Lands
  <2>2. PICK s \in SUBSET (proven[p] \cup Listed[p]) : proven' = [proven EXCEPT ![p] = s]
    <3>1. CASE proven' = proven
      <4>1. proven' = [proven EXCEPT ![p] = proven[p]]
        BY <1>0, <3>1
      <4> QED
        BY <4>1
    <3>2. CASE proven' # proven
      BY <1>9, <3>2 DEF Lands
    <3> QED
      BY <3>1, <3>2
  <2> QED
    BY <1>0, <1>1, <1>2, <1>3, <1>4, <1>a, <2>1, <2>2
<1>10. CASE Discover(p)
  <2>1. PICK k \in Known(p) : FirstOf(p, Known(p)) = Looks[p][k]
    <3>1. Known(p) # {} /\ Known(p) \in SUBSET (DOMAIN Looks[p])
      BY <1>10 DEF Discover, Known, Log
    <3> QED
      BY <3>1, FirstIs
  <2> DEFINE d == Provider(p, Looks[p][k])
  <2>2. k \in DOMAIN Looks[p] /\ d # NoPkg /\ p \in Pkg \ Hand /\ ~TakenBack(p)
    BY <1>10, <2>1 DEF Discover, Known, Log
  <2>3. Looks[p][k] \in Miss
    BY <2>2, PlannerAssumption
  <2>4. d \in Pkg
    BY <2>2, <2>3, ProviderTyped
  <2>5. proven' = [proven EXCEPT ![p] = @ \cup {d}] /\ last' = [last EXCEPT ![p] = [miss |-> Looks[p][k], dep |-> d]]
    BY <1>10, <2>1 DEF Discover
  <2>6. Helps(p, d) \/ (k = 1 /\ p \notin Starters /\ Unanswered(p))
    BY <1>0, <2>2, Answers
  <2> HIDE DEF d
  <2>7. proven'[p] = proven[p] \cup {d} /\ last'[p].miss = Looks[p][k] /\ last'[p].dep = d
    BY <1>0, <2>5
  <2>8. \A q \in Pkg : q # p => last'[q] = last[q] /\ proven'[q] = proven[q]
    BY <1>0, <2>5
  <2>9. \A q \in Pkg : q # p => (OnTrial(q)' <=> OnTrial(q))
    BY <2>8 DEF OnTrial
  <2>10. OnTrial(p)' => ~Helps(p, d)
    BY <2>7 DEF OnTrial
  <2>11. Judged'
    BY <2>2, <2>6, <2>7, <2>8, <2>9, <2>10 DEF EarnInv, Judged
  <2>12. \A e \in proven'[p] : Helps(p, e) \/ last'[p].dep = e
    BY <1>2, <1>3, <2>2, <2>7
  <2> QED
    BY <2>8, <2>11, <2>12 DEF EarnInv, Earned
<1> QED
  BY <1>5, <1>6, <1>7, <1>8, <1>9, <1>10 DEF Round

LEMMA BootsNext ==
  ASSUME PlanInv, BootsHere, [Next]_vars PROVE BootsHere'
<1>1. CASE plan' = plan
  BY <1>1 DEF BootsHere
<1>2. CASE plan' = <<>>
  BY <1>2 DEF BootsHere
<1>3. CASE Plan
  <2>1. plan' = <<>> \/ plan' = Levels(Wanted(seeds)).out
    BY <1>3 DEF Plan, Die, Over
  <2>2. Wanted(seeds) \in SUBSET Pkg
    BY WantedTyped DEF PlanInv, TypeOK
  <2>3. Levels(Wanted(seeds)).out \in Seq(SUBSET Marks(Wanted(seeds)))
    BY <2>2, LevelsTyped
  <2>4. Marks(Wanted(seeds)) \subseteq Marks(Pkg)
    BY <2>2 DEF Marks
  <2>5. Levels(Wanted(seeds)).out \in Seq(SUBSET Marks(Pkg))
    BY <2>3, <2>4
  <2> QED
    BY <1>2, <2>1, <2>5 DEF BootsHere
<1>4. Next => plan' = plan \/ plan' = <<>> \/ Plan
  BY DEF Next, Bump, Edit, Take, Round, NotStaged, Disprove, Discover, FallBack, GivesUp, More, Lands, Stay,
         InstallCmd, Install, WishCmd, BuildCmd, RemoveCmd, Kill, FirstTools, Batch, Done, Finish, StartLevel,
         EndLevel, Apply, Bring, EndOwn, Die, Over, local
<1>5. UNCHANGED vars => plan' = plan
  BY DEF vars
<1> QED
  BY <1>1, <1>2, <1>3, <1>4, <1>5

\* A line of a closure is one the build got further with, or the one its next round judges,
\* whatever the packages look for and ship and whatever is installed or removed meanwhile: every
\* guess that does not help is for the first thing its build misses, which nothing answers
\* (discover, disprove, unprove, more).
THEOREM EarnedStays == ASSUME GuessesJudged PROVE Spec => []Earned
<1>1. Init => EarnInv
  <2> SUFFICES ASSUME Init PROVE EarnInv
    OBVIOUS
  <2>1. plan = <<>> /\ \A p \in Pkg : proven[p] = {} /\ last[p].dep = NoPkg
    BY DEF Init, NoRound
  <2> QED
    BY <2>1, PlanInit DEF EarnInv, BootsHere, Judged, OnTrial, Earned
<1>2. EarnInv /\ [Next]_vars => EarnInv'
  <2> SUFFICES ASSUME EarnInv, [Next]_vars PROVE EarnInv'
    OBVIOUS
  <2>1. PlanInv' /\ BootsHere'
    BY PlanNext, BootsNext DEF EarnInv
  <2>2. (\E p \in Pkg : Round(p)) \/ UNCHANGED <<proven, last>>
    BY DEF Next, Bump, Edit, Take, InstallCmd, Install, WishCmd, BuildCmd, RemoveCmd, Kill, FirstTools, Plan,
           Batch, Done, StartLevel, EndLevel, Apply, Bring, EndOwn, Die, closures, vars
  <2>3. CASE UNCHANGED <<proven, last>>
    <3>1. Judged' /\ Earned'
      BY <2>3 DEF EarnInv, Judged, Earned, OnTrial
    <3> QED
      BY <2>1, <3>1 DEF EarnInv
  <2> QED
    BY <2>1, <2>2, <2>3, RoundJudges DEF EarnInv
<1>3. EarnInv => Earned
  BY DEF EarnInv
<1> QED
  BY <1>1, <1>2, <1>3, PTL DEF Spec

----------------------------------------------------------------------------
(* What a record says is needed is in. *)

RootsWhole == \A g \in Given : \A p \in Pkg : g.in[p].deps \subseteq In(g.in)
RecordsWhole == \A p \in Pkg : rec[p].deps \subseteq Installed
WholeIn(r) == \A p \in Pkg : r[p].deps \subseteq In(r)

LEMMA SweepWhole ==
  ASSUME NEW r \in [Pkg -> Build], NEW w \in World, Sweep(r, w), WholeIn(r)
  PROVE  RecordsWhole'
<1>1. Installed' = In(rec')
  BY DEF Installed, In
<1>2. CASE ~w.there
  BY <1>1, <1>2 DEF Sweep, Left, WholeIn, RecordsWhole
<1>3. CASE w.there
  <2>1. rec' = [p \in Pkg |-> IF p \in Stays(r, w) THEN r[p] ELSE None]
    BY <1>3 DEF Sweep, Left
  <2>2. Whole(r, w, Stays(r, w))
    BY StaysIs DEF Kept
  <2>3. \A p \in Stays(r, w) : r[p].deps \subseteq Stays(r, w)
    <3>1. \A p \in Stays(r, w) : p \in Pkg /\ r[p].deps \subseteq Held(r)[p]
      BY <2>2, HeldTyped DEF Whole, WholeIn
    <3> QED
      BY <2>2, <3>1 DEF Whole, Closed
  <2>4. Stays(r, w) \subseteq Installed'
    BY <1>1, <2>1, <2>2 DEF Whole, In
  <2>5. None.deps = {}
    BY DEF None
  <2> QED
    BY <2>1, <2>3, <2>4, <2>5 DEF RecordsWhole
<1> QED
  BY <1>2, <1>3

LEMMA WithWhole ==
  ASSUME PlanInv, RecordsWhole, NEW B \in SUBSET Pkg, \A p \in B : Fresh(p), Fits(B)
  PROVE  WholeIn(With(B)) /\ In(With(B)) = Installed \cup B
<1>1. \A p \in B : cache[p] # None /\ cache[p].deps \subseteq Installed \cup B
  BY DEF PlanInv, Shape, Fresh, None, Fits
<1>2. In(With(B)) = Installed \cup B
  BY <1>1 DEF In, With, Installed
<1> QED
  BY <1>1, <1>2 DEF WholeIn, RecordsWhole, With

LEMMA WithoutWhole ==
  ASSUME RecordsWhole, NEW N \in SUBSET Pkg, ~Holds(N)
  PROVE  WholeIn(Without(N))
<1>1. In(Without(N)) = Installed \ N
  BY DEF In, Without, Installed, None
<1>2. \A p \in Installed \ N : rec[p].deps \cap N = {}
  BY DEF Holds
<1>3. \A p \in Pkg : p \notin Installed \ N => Without(N)[p].deps = {}
  BY DEF Without, Installed, None
<1> QED
  BY <1>1, <1>2, <1>3 DEF WholeIn, RecordsWhole, Without

LEMMA WholeNext ==
  ASSUME PlanInv, RecordsWhole, [Next]_vars PROVE RecordsWhole'
<1>0. TypeOK
  BY DEF PlanInv
<1>1. CASE rec' = rec
  BY <1>1 DEF RecordsWhole, Installed
<1>2. ASSUME NEW B \in SUBSET Pkg, Brings(B) PROVE RecordsWhole'
  <2>1. WholeIn(With(B)) /\ rec' = With(B)
    BY <1>2, WithWhole DEF Brings
  <2> QED
    BY <2>1 DEF WholeIn, RecordsWhole, Installed, In
<1>3. ASSUME NEW B \in SUBSET Pkg, NEW w \in World, Ends(B, w) PROVE RecordsWhole'
  BY <1>0, <1>3, WithWhole, WithTyped, SweepWhole DEF Ends
<1>4. ASSUME NEW N \in SUBSET Pkg, NEW w \in World, Takes(N, w) PROVE RecordsWhole'
  BY <1>0, <1>4, WithoutWhole, WithoutTyped, SweepWhole DEF Takes
<1>5. Next => \/ rec' = rec \/ (\E B \in SUBSET Pkg : Brings(B) \/ \E w \in World : Ends(B, w))
              \/ \E N \in SUBSET Pkg : \E w \in World : Takes(N, w)
  BY Effects DEF Stands
<1>6. UNCHANGED vars => rec' = rec
  BY DEF vars
<1> QED
  BY <1>1, <1>2, <1>3, <1>4, <1>5, <1>6

LEMMA WholeInit == ASSUME RootsWhole, Init PROVE RecordsWhole
BY DEF RootsWhole, Init, RecordsWhole, Installed, In

\* On a root whose records were whole to begin with, nothing a record says its package needs is
\* ever missing: a batch brings its packages' deps or is refused, and neither a removal nor a
\* leave, of this kiry or another, takes one away (install::plan, held_by, leave).
THEOREM RecordsStayWhole == ASSUME RootsWhole PROVE Spec => []RecordsWhole
<1>1. Init => PlanInv /\ RecordsWhole
  BY PlanInit, WholeInit
<1>2. PlanInv /\ RecordsWhole /\ [Next]_vars => PlanInv' /\ RecordsWhole'
  BY PlanNext, WholeNext
<1> QED
  BY <1>1, <1>2, PTL DEF Spec

----------------------------------------------------------------------------
(* What is built once. A level builds what is not fresh and a build makes it so,
   which leaves the one package a build command builds in any case: what it was
   short of does not bring it in, as that would have to be there first. *)

NoneOwn == \A p \in Pkg : p \notin Listed[p]
Working == {"plan", "batch", "level", "run", "apply"}
\* where a build starts, but for what its record links
Fixed(p) == IF p \in Hand THEN Listed[p] ELSE (IF p \in star THEN Listed[p] ELSE {}) \cup proven[p]

\* the pool holds what the level lacks, and own what it was for
Pooled ==
  /\ pc \notin {"run", "own"} => run = {} /\ todo = {} /\ err = "none"
  /\ pc = "run" => /\ todo \cup run \subseteq Level /\ todo \cap run = {}
                   /\ \A p \in todo \cup run : ~Fresh(p)
  /\ pc = "own" => run \subseteq {own} /\ todo = {} /\ (run # {} => err = "none")
  /\ pc = "idle" => own = NoPkg

\* a set own is in, which none of it can get out of: what is to be built starts from another of
\* it that is not in, and no batch of what is built brings what it needs
Barred(Bad) ==
  /\ own \in Bad /\ Bad \cap Installed = {}
  /\ \A q \in Bad : ~Fresh(q) => Fixed(q) \cap Bad # {}
  /\ \A X \in SUBSET (Bad \ {own}) :
       X # {} /\ (\A q \in X : Fresh(q)) => \E q \in X : cache[q].deps \cap (Bad \ X) # {}

\* for a build: what it was short of, as far as that is in by now
Short ==
  pc \in Working /\ own \in Pkg =>
    /\ seeds \subseteq Fixed(own)
    /\ \A s \in seeds \cap Installed : Fresh(s) /\ rec[s] = cache[s]
Outside ==
  pc \in Working \ {"plan"} /\ own \in Pkg /\ own \in All /\ ~Fresh(own) => \E Bad \in SUBSET Pkg : Barred(Bad)

Unmade(p) == \A k \in Passes : made[p][k] = 0
MadeOnce(p) == \A k \in Passes : made[p][k] <= 1
Makes(p) == \E k \in Passes : made' = [made EXCEPT ![p][k] = @ + 1]
Counted ==
  /\ pc = "idle" => \A p \in Pkg : MadeOnce(p)
  /\ pc # "idle" => \A p \in Pkg : p # own => Unmade(p) \/ (MadeOnce(p) /\ Fresh(p))
  /\ pc # "idle" /\ own \in Pkg => Unmade(own) \/ (MadeOnce(own) /\ pc = "own" /\ run = {} /\ err = "none")

SelfFree == \A p \in Pkg : p \notin proven[p]
OnceInv == PlanInv /\ RecordsWhole /\ SelfFree /\ Pooled /\ Short /\ Outside /\ Counted

\* a plan that own got into has a set of that kind: what leads to it and is not in
LEMMA PlanBars ==
  ASSUME PlanInv, RecordsWhole, SelfFree, NoneOwn, Short, pc = "plan", own \in Pkg, ~Fresh(own),
         own \in Wanted(seeds)
  PROVE  \E Bad \in SUBSET Pkg : Barred(Bad)
<1> DEFINE step == [p \in Pkg |-> Asks(p) \ Installed]
           Hits(p) == own \in Walk({p}, step)
           Bad == {p \in Pkg \ Installed : Hits(p)}
           W == Walk(seeds, step)
<1>0. /\ TypeOK /\ seeds \in SUBSET Pkg /\ seeds \subseteq Fixed(own)
      /\ \A s \in seeds \cap Installed : Fresh(s) /\ rec[s] = cache[s]
  BY DEF PlanInv, TypeOK, Short, Working
<1>1. step \in [Pkg -> SUBSET Pkg] /\ \A p \in Pkg : step[p] \cap Installed = {}
  BY <1>0, StartTyped
<1>2. own \in W
  BY DEF Wanted
<1>3. own \notin seeds
  BY <1>0 DEF Fixed, SelfFree, NoneOwn
<1>4. Reached(W, seeds, step) /\ \A p \in Pkg : Reached(Walk({p}, step), {p}, step)
  <2> HIDE DEF step
  <2> QED
    BY <1>0, <1>1, WalkIs
<1>5. own \notin Installed
  <2> SUFFICES ASSUME own \in Installed PROVE FALSE
    OBVIOUS
  <2>1. W \ {own} \in SUBSET Pkg /\ seeds \subseteq W \ {own} /\ Closed(W \ {own}, step)
    <3> HIDE DEF step, W
    <3> QED
      BY <1>1, <1>3, <1>4 DEF Reached, Closed
  <2> HIDE DEF step, W
  <2> QED
    BY <1>2, <1>4, <2>1 DEF Reached
<1>6. \A p \in Pkg : \A y \in step[p] : Hits(y) => Hits(p)
  <2> SUFFICES ASSUME NEW p \in Pkg, NEW y \in step[p], Hits(y) PROVE Hits(p)
    OBVIOUS
  <2> HIDE DEF step
  <2>1. y \in Pkg /\ Reached(Walk({p}, step), {p}, step) /\ Reached(Walk({y}, step), {y}, step)
    BY <1>1, <1>4
  <2>2. {y} \subseteq Walk({p}, step)
    BY <2>1 DEF Reached, Closed
  <2>3. Walk({y}, step) \subseteq Walk({p}, step)
    BY <2>1, <2>2 DEF Reached
  <2> QED
    BY <2>3
<1>7. Hits(own)
  BY <1>4 DEF Reached
<1>8. ASSUME NEW X \in SUBSET (Bad \ {own}), X # {} PROVE \E q \in X : step[q] \cap (Bad \ X) # {}
  <2> SUFFICES ASSUME \A q \in X : step[q] \cap (Bad \ X) = {} PROVE FALSE
    OBVIOUS
  <2> DEFINE K == X \cup {p \in Pkg \ Installed : ~Hits(p)}
  <2> HIDE DEF step, Hits
  <2>1. K \in SUBSET Pkg
    OBVIOUS
  <2>2. ASSUME NEW p \in K, NEW y \in step[p] PROVE y \in K
    <3>1. p \in Pkg /\ y \in Pkg \ Installed
      BY <1>1, <2>1
    <3>2. CASE p \in X
      BY <3>1, <3>2
    <3>3. CASE ~Hits(p)
      BY <1>6, <3>1, <3>3
    <3> QED
      BY <3>2, <3>3
  <2>3. Closed(K, step)
    BY <2>2 DEF Closed
  <2>4. PICK q \in X : TRUE
    BY <1>8
  <2>5. q \in Pkg /\ {q} \subseteq K /\ Hits(q)
    BY <2>4
  <2>6. Walk({q}, step) \subseteq K
    BY <1>4, <2>1, <2>3, <2>5 DEF Reached
  <2>7. own \in K
    BY <2>5, <2>6 DEF Hits
  <2> QED
    BY <1>7, <1>8, <2>7
<1>9. \E s \in seeds : Hits(s)
  <2> SUFFICES ASSUME \A s \in seeds : ~Hits(s) PROVE FALSE
    OBVIOUS
  <2> DEFINE K == {p \in Pkg : ~Hits(p)}
  <2> HIDE DEF step, W, Hits
  <2>1. K \in SUBSET Pkg /\ seeds \subseteq K
    BY <1>0
  <2>2. Closed(K, step)
    BY <1>1, <1>6 DEF Closed
  <2> QED
    BY <1>2, <1>4, <1>7, <2>1, <2>2 DEF Reached
<1>10. Fixed(own) \cap Bad # {}
  <2>1. PICK s \in seeds : Hits(s)
    BY <1>9
  <2>2. ASSUME s \in Installed PROVE FALSE
    <3>1. s \in Pkg /\ Asks(s) = rec[s].deps /\ rec[s].deps \subseteq Installed
      BY <1>0, <2>2 DEF Asks, RecordsWhole
    <3>2. step[s] = {}
      BY <3>1
    <3> HIDE DEF step
    <3>3. Closed({s}, step) /\ {s} \in SUBSET Pkg
      BY <3>1, <3>2 DEF Closed
    <3>4. Walk({s}, step) \subseteq {s}
      BY <1>4, <3>1, <3>3 DEF Reached
    <3> QED
      BY <1>3, <2>1, <3>4
  <2> QED
    BY <1>0, <2>1, <2>2
<1>11. \A q \in Bad : rec[q].deps = {}
  BY DEF Installed, None
<1>12. ASSUME NEW q \in Bad, ~Fresh(q) PROVE Fixed(q) \cap Bad # {}
  <2>1. CASE q = own
    BY <1>10, <2>1
  <2>2. CASE q # own
    <3> DEFINE X == {q}
    <3>1. X \in SUBSET (Bad \ {own}) /\ X # {}
      BY <2>2
    <3>2. step[q] \cap Bad # {}
      <4> HIDE DEF step, Bad
      <4> QED
        BY <1>8, <3>1
    <3>3. Asks(q) = Fixed(q)
      BY <1>11, <1>12 DEF Asks, Start, Fixed
    <3> QED
      BY <3>2, <3>3
  <2> QED
    BY <2>1, <2>2
<1>13. ASSUME NEW X \in SUBSET (Bad \ {own}), X # {}, \A q \in X : Fresh(q)
       PROVE  \E q \in X : cache[q].deps \cap (Bad \ X) # {}
  <2>1. PICK q \in X : step[q] \cap (Bad \ X) # {}
    <3> HIDE DEF step, Bad
    <3> QED
      BY <1>8, <1>13
  <2>2. q \in Pkg /\ step[q] \subseteq cache[q].deps
    BY <1>13 DEF Asks
  <2> HIDE DEF step, Bad
  <2> QED
    BY <2>1, <2>2
<1>14. Bad \in SUBSET Pkg /\ own \in Bad /\ Bad \cap Installed = {}
  BY <1>5, <1>7
<1> HIDE DEF Bad
<1>15. Barred(Bad)
  BY <1>12, <1>13, <1>14 DEF Barred
<1> QED
  BY <1>14, <1>15

\* what a round leaves alone, and what a build that lands changes
LEMMA RoundOnce ==
  ASSUME TypeOK, NEW p \in Pkg, Round(p)
  PROVE  /\ p \in run /\ UNCHANGED <<ver, rec, pc, own, seeds, plan, at, todo>>
         /\ \A q \in Pkg : q # p => /\ proven'[q] = proven[q] /\ (q \in star' <=> q \in star)
                                    /\ cache'[q] = cache[q]
         /\ \/ cache' = cache /\ made' = made /\ run' \subseteq run
            \/ /\ Fresh(p)' /\ run' = run \ {p} /\ Makes(p) /\ err' = err
<1>0. proven \in [Pkg -> SUBSET Pkg] /\ cache \in [Pkg -> Build]
  BY DEF TypeOK
<1>1. p \in run /\ UNCHANGED <<ver, rec, pc, own, seeds, plan, at, todo>>
  BY DEF Round, NotStaged, Disprove, Discover, FallBack, GivesUp, More, Lands, Fails, Works, Stay, local
<1>2. \A e : [proven EXCEPT ![p] = e][p] = e /\ \A q \in Pkg : q # p => [proven EXCEPT ![p] = e][q] = proven[q]
  BY <1>0
<1>3. CASE NotStaged(p) \/ GivesUp(p)
  <2>1. UNCHANGED <<cache, proven, star, made>> /\ run' \subseteq run
    BY <1>3 DEF NotStaged, GivesUp, Returns, closures
  <2> QED
    BY <1>1, <2>1
<1>4. CASE Disprove(p) \/ Discover(p) \/ More(p)
  <2>1. UNCHANGED <<cache, star, made>> /\ run' \subseteq run
    BY <1>4 DEF Disprove, Discover, More, Returns, Again
  <2>2. \E s : proven' = [proven EXCEPT ![p] = s]
    BY <1>4 DEF Disprove, Discover, More
  <2>3. \A q \in Pkg : q # p => proven'[q] = proven[q]
    BY <1>0, <2>2
  <2> QED
    BY <1>1, <2>1, <2>3
<1>5. CASE FallBack(p)
  <2>1. UNCHANGED <<cache, proven, made>> /\ run' \subseteq run /\ star' = star \cup {p}
    BY <1>5 DEF FallBack, Returns, Again
  <2> QED
    BY <1>1, <2>1
<1>6. CASE Lands(p)
  <2>1. run' = run \ {p} /\ Makes(p) /\ err' = err
    BY <1>6 DEF Lands, Returns, Makes, Passes
  <2>2. \A q \in Pkg : q # p => q \in star' <=> q \in star
    BY <1>6 DEF Lands
  <2>3. \A q \in Pkg : q # p => proven'[q] = proven[q]
    <3>1. proven' = proven \/ \E s : proven' = [proven EXCEPT ![p] = s]
      BY <1>6 DEF Lands
    <3> QED
      BY <1>0, <3>1
  <2>4. \E d : cache' = [cache EXCEPT ![p] = [ver |-> ver[p], deps |-> d]]
    BY <1>6 DEF Lands
  <2>5. cache'[p].ver = ver[p] /\ \A q \in Pkg : q # p => cache'[q] = cache[q]
    BY <1>0, <2>4
  <2>6. Fresh(p)'
    BY <1>1, <2>5 DEF Fresh
  <2> QED
    BY <1>1, <2>1, <2>2, <2>3, <2>5, <2>6
<1> QED
  BY <1>3, <1>4, <1>5, <1>6 DEF Round

\* every other step of a command leaves what is built and known alone
LEMMA ElseQuiet ==
  ASSUME [Next]_vars, pc # "idle"
  PROVE  (\E p \in Pkg : Round(p)) \/ UNCHANGED <<ver, cache, proven, star, made>>
BY DEF Next, Bump, Edit, Take, InstallCmd, Install, Asking, WishCmd, BuildCmd, RemoveCmd, Kill, FirstTools, Plan,
       Batch, Done, Finish, StartLevel, EndLevel, Apply, Bring, EndOwn, Die, closures, vars

LEMMA StagedHas ==
  ASSUME TypeOK, NEW p \in Pkg
  PROVE  Fixed(p) \subseteq Staged(p)
<1>1. [q \in Pkg |-> rec[q].deps] \in [Pkg -> SUBSET Pkg]
  BY StartTyped DEF Build
<1>2. Start(p) \cup Tools \in SUBSET Pkg
  BY StartTyped, PlannerAssumption
<1>3. Start(p) \subseteq Staged(p)
  BY <1>1, <1>2, WalkIs DEF Staged, Reached
<1> QED
  BY <1>3 DEF Fixed, Start

\* what starts from something that is not in has no sandbox
LEMMA ShortStuck ==
  ASSUME TypeOK, NEW p \in Pkg, Round(p), ~(Fixed(p) \subseteq Installed)
  PROVE  UNCHANGED <<cache, proven, star, made>>
<1>1. ~(Staged(p) \subseteq Installed)
  BY StagedHas
<1> QED
  BY <1>1 DEF Round, NotStaged, Disprove, Discover, FallBack, GivesUp, More, Lands, Fails, Works, closures

LEMMA BarredNext ==
  ASSUME PlanInv, Pooled, RecordsWhole, [Next]_vars, pc \in Working, own' = own, own \in Pkg, ~Fresh(own),
         NEW Bad \in SUBSET Pkg, Barred(Bad)
  PROVE  Barred(Bad)'
<1>0. TypeOK
  BY DEF PlanInv
<1>1. ASSUME NEW B \in SUBSET Pkg, \A q \in B : Fresh(q), Fits(B) PROVE Bad \cap B = {}
  <2> SUFFICES ASSUME Bad \cap B # {} PROVE FALSE
    OBVIOUS
  <2>1. Bad \cap B \in SUBSET (Bad \ {own}) /\ \A q \in Bad \cap B : Fresh(q)
    BY <1>1
  <2> DEFINE X == Bad \cap B
  <2>2. \E q \in X : cache[q].deps \cap (Bad \ X) # {}
    <3> HIDE DEF X
    <3>1. X \in SUBSET (Bad \ {own}) /\ X # {} /\ \A q \in X : Fresh(q)
      BY <2>1 DEF X
    <3> QED
      BY <3>1 DEF Barred
  <2>3. PICK q \in Bad \cap B : cache[q].deps \cap (Bad \ B) # {}
    BY <2>2
  <2>4. cache[q].deps \subseteq Installed \cup B
    BY <1>1 DEF Fits
  <2> QED
    BY <2>3, <2>4 DEF Barred
<1>2. Bad \cap Installed' = {}
  <2>0. Bad \cap Installed = {} /\ Installed' = In(rec')
    BY DEF Barred, Installed, In
  <2>1. CASE rec' = rec
    BY <2>0, <2>1 DEF In, Installed
  <2>2. ASSUME NEW B \in SUBSET Pkg, Brings(B) PROVE Bad \cap Installed' = {}
    <3>1. In(rec') = Installed \cup B
      BY <2>2, WithWhole DEF Brings
    <3> QED
      BY <1>1, <2>0, <2>2, <3>1 DEF Brings
  <2>3. ASSUME NEW r, NEW w, Sweep(r, w) PROVE In(rec') \subseteq In(r)
    BY <2>3 DEF Sweep, Left, In, None
  <2>4. ASSUME NEW B \in SUBSET Pkg, NEW w \in World, Ends(B, w) PROVE Bad \cap Installed' = {}
    <3>1. In(With(B)) = Installed \cup B
      BY <2>4, WithWhole DEF Ends
    <3>2. In(rec') \subseteq In(With(B))
      BY <2>3, <2>4 DEF Ends
    <3> QED
      BY <1>1, <2>0, <2>4, <3>1, <3>2 DEF Ends
  <2>5. ASSUME NEW N \in SUBSET Pkg, NEW w \in World, Takes(N, w) PROVE Bad \cap Installed' = {}
    <3>1. In(rec') \subseteq In(Without(N))
      BY <2>3, <2>5 DEF Takes
    <3>2. In(Without(N)) \subseteq Installed
      BY DEF In, Without, Installed
    <3> QED
      BY <2>0, <3>1, <3>2
  <2>6. Next => \/ rec' = rec \/ (\E B \in SUBSET Pkg : Brings(B) \/ \E w \in World : Ends(B, w))
                \/ \E N \in SUBSET Pkg : \E w \in World : Takes(N, w)
    BY Effects DEF Stands
  <2>7. UNCHANGED vars => rec' = rec
    BY DEF vars
  <2> QED
    BY <2>1, <2>2, <2>4, <2>5, <2>6, <2>7
<1>3. \A q \in Bad : Fixed(q)' = Fixed(q) /\ Fresh(q)' = Fresh(q) /\ cache'[q] = cache[q]
  <2>1. CASE UNCHANGED <<ver, cache, proven, star, made>>
    BY <2>1 DEF Fixed, Fresh
  <2>2. ASSUME NEW p \in Pkg, Round(p)
        PROVE  \A q \in Bad : Fixed(q)' = Fixed(q) /\ Fresh(q)' = Fresh(q) /\ cache'[q] = cache[q]
    <3>1. ver' = ver /\ p \in run
      BY <1>0, <2>2, RoundOnce
    <3>2. CASE p \in Bad
      <4>1. ~Fresh(p)
        BY <3>1 DEF Pooled, Working
      <4>2. ~(Fixed(p) \subseteq Installed)
        BY <3>2, <4>1 DEF Barred
      <4>3. UNCHANGED <<cache, proven, star, made>>
        BY <1>0, <2>2, <4>2, ShortStuck
      <4> QED
        BY <3>1, <4>3 DEF Fixed, Fresh
    <3>3. CASE p \notin Bad
      <4>1. \A q \in Bad : q \in Pkg /\ proven'[q] = proven[q] /\ (q \in star' <=> q \in star) /\ cache'[q] = cache[q]
        BY <1>0, <2>2, <3>3, RoundOnce
      <4> QED
        BY <3>1, <4>1 DEF Fixed, Fresh
    <3> QED
      BY <3>2, <3>3
  <2> QED
    BY <2>1, <2>2, ElseQuiet DEF Working
<1>4. own \in Bad /\ own' = own
  BY DEF Barred
<1>5. \A q \in Bad : ~Fresh(q)' => Fixed(q)' \cap Bad # {}
  BY <1>3 DEF Barred
<1>6. \A X \in SUBSET (Bad \ {own}) :
        X # {} /\ (\A q \in X : Fresh(q)') => \E q \in X : cache'[q].deps \cap (Bad \ X) # {}
  <2> SUFFICES ASSUME NEW X \in SUBSET (Bad \ {own}), X # {}, \A q \in X : Fresh(q)'
               PROVE  \E q \in X : cache'[q].deps \cap (Bad \ X) # {}
    OBVIOUS
  <2>1. \A q \in X : Fresh(q) /\ cache'[q] = cache[q]
    BY <1>3
  <2>2. \E q \in X : cache[q].deps \cap (Bad \ X) # {}
    BY <2>1 DEF Barred
  <2> QED
    BY <2>1, <2>2
<1> QED
  BY <1>2, <1>4, <1>5, <1>6 DEF Barred

LEMMA NotItself ==
  ASSUME NEW p \in Pkg, NEW m \in Miss
  PROVE  Provider(p, m) # p
<1> DEFINE found == {q \in Installed : m \in Ships[q]}
           taken == Start(p) \cup {p}
<1>1. NoPkg # p
  BY PlannerAssumption
<1>2. CASE found \cap taken # {}
  BY <1>1, <1>2 DEF Provider
<1>3. CASE found \cap taken = {} /\ found # {}
  <2>1. Provider(p, m) = IF found \cap Listed[p] # {} THEN CHOOSE q \in found \cap Listed[p] : TRUE
                         ELSE CHOOSE q \in found : TRUE
    BY <1>3 DEF Provider
  <2>2. Provider(p, m) \in found
    <3> HIDE DEF found
    <3> QED
      BY <1>3, <2>1
  <2> QED
    BY <1>3, <2>2
<1>4. CASE found = {}
  <2>1. Provider(p, m) = IF Guess[m] \in taken THEN NoPkg ELSE Guess[m]
    BY <1>4 DEF Provider
  <2> QED
    BY <1>1, <2>1
<1> QED
  BY <1>2, <1>3, <1>4

LEMMA SelfFreeNext ==
  ASSUME TypeOK, NoneOwn, SelfFree, [Next]_vars PROVE SelfFree'
<1>0. proven \in [Pkg -> SUBSET Pkg]
  BY DEF TypeOK
<1>1. CASE proven' = proven
  BY <1>1 DEF SelfFree
<1>2. ASSUME NEW p \in Pkg, Round(p) PROVE SelfFree'
  <2>1. ASSUME NEW s, p \notin s, proven' = [proven EXCEPT ![p] = s] PROVE SelfFree'
    BY <1>0, <2>1 DEF SelfFree
  <2>2. p \notin proven[p] /\ p \notin Listed[p]
    BY DEF SelfFree, NoneOwn
  <2>3. CASE NotStaged(p) \/ FallBack(p) \/ GivesUp(p)
    BY <1>1, <2>3 DEF NotStaged, FallBack, GivesUp, closures
  <2>4. CASE Disprove(p)
    BY <2>1, <2>2, <2>4 DEF Disprove
  <2>5. CASE Discover(p)
    <3> DEFINE m == FirstOf(p, Known(p))
               d == Provider(p, m)
    <3>1. m \in Miss
      <4>1. Known(p) # {} /\ Known(p) \in SUBSET (DOMAIN Looks[p])
        BY <2>5 DEF Discover, Known, Log
      <4> QED
        BY <4>1, FirstTyped
    <3>2. d # p
      <4> HIDE DEF m
      <4> QED
        BY <3>1, NotItself
    <3>3. proven' = [proven EXCEPT ![p] = proven[p] \cup {d}]
      BY <2>5 DEF Discover
    <3> HIDE DEF d
    <3>4. p \notin proven[p] \cup {d}
      BY <2>2, <3>2
    <3> QED
      BY <2>1, <3>3, <3>4
  <2>6. CASE More(p)
    <3>1. proven' = [proven EXCEPT ![p] = proven[p] \cup Extra(p)]
      BY <2>6 DEF More
    <3>2. p \notin proven[p] \cup Extra(p)
      BY <2>2 DEF Extra
    <3> QED
      BY <2>1, <3>1, <3>2
  <2>7. CASE Lands(p)
    <3>1. CASE proven' = proven
      BY <1>1, <3>1
    <3>2. CASE proven' # proven
      <4> DEFINE s == (proven[p] \cup (IF p \in star THEN Listed[p] ELSE {})) \ Unused(p)
      <4>1. proven' = [proven EXCEPT ![p] = s]
        BY <2>7, <3>2 DEF Lands
      <4>2. p \notin s
        BY <2>2
      <4> HIDE DEF s
      <4> QED
        BY <2>1, <4>1, <4>2
    <3> QED
      BY <3>1, <3>2
  <2> QED
    BY <1>2, <2>3, <2>4, <2>5, <2>6, <2>7 DEF Round
<1>3. (\E p \in Pkg : Round(p)) \/ UNCHANGED proven
  BY DEF Next, Bump, Edit, Take, InstallCmd, Install, WishCmd, BuildCmd, RemoveCmd, Kill, FirstTools, Plan,
         Batch, Done, StartLevel, EndLevel, Apply, Bring, EndOwn, Die, closures, vars
<1> QED
  BY <1>1, <1>2, <1>3

LEMMA PooledNext ==
  ASSUME PlanInv, Pooled, [Next]_vars PROVE Pooled'
<1>0. TypeOK
  BY DEF PlanInv
<1>1. CASE Kill \/ Die \/ Over
  BY <1>1 DEF Kill, Die, Over, Pooled
<1>2. CASE \E p \in Pkg : Round(p)
  <2>1. PICK p \in Pkg : Round(p)
    BY <1>2
  <2>2. /\ p \in run /\ UNCHANGED <<ver, pc, own, plan, at, todo>>
        /\ \A q \in Pkg : q # p => cache'[q] = cache[q]
        /\ (cache' = cache /\ run' \subseteq run) \/ run' = run \ {p}
    BY <1>0, <2>1, RoundOnce
  <2>7. run' = run \ {p} \/ err' = err
    BY <2>1 DEF Round, NotStaged, Disprove, Discover, FallBack, GivesUp, More, Lands, Returns, Again
  <2>3. Level' = Level /\ todo \in SUBSET Pkg /\ run \in SUBSET Pkg
    BY <1>0, <2>2 DEF Level, Names, TypeOK
  <2>4. pc \in {"run", "own"}
    BY <2>2 DEF Pooled
  <2>5. ASSUME pc = "run" PROVE \A q \in todo' \cup run' : ~Fresh(q)'
    <3>1. \A q \in todo \cup run : ~Fresh(q)
      BY <2>5 DEF Pooled
    <3>2. CASE cache' = cache /\ run' \subseteq run
      BY <2>2, <3>1, <3>2 DEF Fresh
    <3>3. CASE run' = run \ {p}
      <4>1. p \notin todo
        BY <2>2, <2>5 DEF Pooled
      <4>2. \A q \in todo' \cup run' : q \in Pkg /\ q # p /\ q \in todo \cup run
        BY <2>2, <2>3, <3>3, <4>1
      <4> QED
        BY <2>2, <3>1, <4>2 DEF Fresh
    <3> QED
      BY <2>2, <3>2, <3>3
  <2>6. run' \subseteq run
    BY <2>2
  <2>8. pc = "own" /\ run' # {} => err' = "none"
    BY <2>2, <2>6, <2>7 DEF Pooled
  <2> HIDE DEF Fresh
  <2> QED
    BY <2>2, <2>3, <2>4, <2>5, <2>6, <2>8 DEF Pooled
<1>3. CASE InstallCmd \/ BuildCmd \/ WishCmd \/ (\E p \in Pkg : Bump(p) \/ Edit(p))
  <2>1. pc = "idle" /\ UNCHANGED <<pool>> /\ pc' \in {"plan", "bring", "idle"} /\ (pc' = "idle" => own' = own)
    BY <1>3 DEF InstallCmd, Install, BuildCmd, WishCmd, Asking, Bump, Edit, local
  <2> QED
    BY <2>1 DEF Pooled, pool
<1>4. CASE RemoveCmd \/ UNCHANGED vars
  <2>1. UNCHANGED <<ver, cache, pc, local, pool>>
    BY <1>4 DEF RemoveCmd, vars, local, pool
  <2> QED
    BY <2>1 DEF Pooled, Level, Names, Fresh, local, pool
<1>5. CASE FirstTools \/ Plan \/ Apply
  <2>1. pc \notin {"run", "own"}
    BY <1>5 DEF FirstTools, Plan, Apply
  <2>2. Die \/ (UNCHANGED pool /\ pc' \notin {"run", "own", "idle"})
    BY <1>5 DEF FirstTools, Plan, Apply
  <2> QED
    BY <1>1, <2>1, <2>2 DEF Pooled, pool
<1>6. CASE Batch \/ Done
  <2>1. pc \notin {"run", "own"}
    BY <1>6 DEF Batch, Done
  <2>2. Die \/ Over \/ (pc' = "own" /\ run' = {own} /\ own' = own /\ todo' = todo /\ err' = err)
    BY <1>6 DEF Batch, Done, Finish, local
  <2> QED
    BY <1>1, <2>1, <2>2 DEF Pooled
<1>7. CASE StartLevel
  <2>1. /\ pc = "level" /\ pc' = "run" /\ todo' = {p \in Level : ~Fresh(p)} /\ run' = run
        /\ UNCHANGED <<ver, cache, plan, at>>
    BY <1>7 DEF StartLevel, Level, local
  <2>2. run = {} /\ Level' = Level
    BY <2>1 DEF Pooled, Level, Names
  <2> QED
    BY <2>1, <2>2 DEF Pooled, Fresh
<1>8. CASE \E p \in Pkg : Take(p)
  <2>1. PICK p \in Pkg : Take(p)
    BY <1>8
  <2>2. /\ pc = "run" /\ pc' = "run" /\ p \in todo /\ todo' = todo \ {p} /\ run' = run \cup {p}
        /\ UNCHANGED <<ver, cache, plan, at>>
    BY <2>1 DEF Take, local
  <2>3. Level' = Level
    BY <2>2 DEF Level, Names
  <2> QED
    BY <2>2, <2>3 DEF Pooled, Fresh
<1>9. CASE EndLevel
  <2>1. Die \/ (pc' \in {"plan", "apply"} /\ run = {} /\ run' = run /\ todo' = {} /\ err' = "none")
    BY <1>9 DEF EndLevel
  <2> QED
    BY <1>1, <2>1 DEF Pooled
<1>10. CASE Bring
  <2>1. /\ pc = "bring" /\ UNCHANGED <<todo, err, own>>
        /\ (pc' = "own" /\ run' = {own}) \/ (pc' = "plan" /\ run' = run)
    BY <1>10 DEF Bring
  <2> QED
    BY <2>1 DEF Pooled
<1>11. CASE EndOwn
  <2>1. \/ Over \/ Die
        \/ pc = "own" /\ run = {} /\ pc' = "bring" /\ err' = "none" /\ UNCHANGED <<todo, run>>
    BY <1>11 DEF EndOwn
  <2> QED
    BY <1>1, <2>1 DEF Pooled
<1> QED
  BY <1>1, <1>2, <1>3, <1>4, <1>5, <1>6, <1>7, <1>8, <1>9, <1>10, <1>11 DEF Next

\* a command that goes on is for what it was for
LEMMA Onward ==
  ASSUME [Next]_vars, pc # "idle", pc' # "idle"
  PROVE  /\ own' = own
         /\ pc \in Working /\ pc' \in Working => seeds' = seeds
         /\ pc \in Working \ {"plan"} /\ pc' \in Working \ {"plan"} => plan' = plan
         /\ pc = "plan" /\ pc' \in Working \ {"plan"} => Plan
         /\ pc \notin Working /\ pc' \in Working => Bring /\ pc' = "plan"
<1>1. CASE UNCHANGED vars
  BY <1>1 DEF vars, Working
<1>2. CASE \E p \in Pkg : Round(p) \/ Take(p)
  <2>1. UNCHANGED <<own, seeds, plan, pc>>
    BY <1>2 DEF Round, NotStaged, Disprove, Discover, FallBack, GivesUp, More, Lands, Stay, Take, local
  <2> QED
    BY <2>1 DEF Working
<1>3. CASE InstallCmd \/ WishCmd \/ BuildCmd \/ Kill \/ \E p \in Pkg : Bump(p) \/ Edit(p)
  BY <1>3 DEF InstallCmd, Install, WishCmd, BuildCmd, Asking, Kill, Over, Bump, Edit
<1>4. CASE RemoveCmd \/ FirstTools
  <2>1. UNCHANGED <<own, seeds, plan, pc>>
    BY <1>4 DEF RemoveCmd, FirstTools, Die, Over, local
  <2> QED
    BY <2>1 DEF Working
<1>5. CASE Plan
  BY <1>5 DEF Plan, Die, Over, Working
<1>6. CASE Batch \/ Done
  <2>1. pc' = "own" /\ own' = own /\ pc \in Working
    BY <1>6 DEF Batch, Done, Finish, Die, Over, Working, local
  <2> QED
    BY <2>1 DEF Working
<1>7. CASE StartLevel \/ EndLevel \/ Apply
  <2>1. UNCHANGED <<own, seeds, plan>> /\ pc \in Working \ {"plan"}
    BY <1>7 DEF StartLevel, EndLevel, Apply, Die, Over, local, Working
  <2> QED
    BY <2>1 DEF Working
<1>8. CASE Bring
  BY <1>8 DEF Bring, Working
<1>9. CASE EndOwn
  BY <1>9 DEF EndOwn, Die, Over, Working
<1> QED
  BY <1>1, <1>2, <1>3, <1>4, <1>5, <1>6, <1>7, <1>8, <1>9 DEF Next

\* a record that is new is that of what is built
LEMMA NewRecords ==
  ASSUME PlanInv, [Next]_vars, NEW s \in Pkg, rec'[s] # None
  PROVE  rec'[s] = rec[s] \/ (Fresh(s) /\ rec'[s] = cache[s])
<1>1. CASE rec' = rec
  BY <1>1
<1>2. ASSUME NEW B \in SUBSET Pkg, \A q \in B : Fresh(q)
      PROVE  With(B)[s] = rec[s] \/ (Fresh(s) /\ With(B)[s] = cache[s])
  BY <1>2 DEF With
<1>3. ASSUME NEW r, NEW w, Sweep(r, w) PROVE rec'[s] = r[s]
  BY <1>3 DEF Sweep, Left
<1>4. CASE \E B \in SUBSET Pkg : Brings(B)
  BY <1>2, <1>4 DEF Brings
<1>5. ASSUME NEW B \in SUBSET Pkg, NEW w \in World, Ends(B, w)
      PROVE  rec'[s] = rec[s] \/ (Fresh(s) /\ rec'[s] = cache[s])
  <2>1. rec'[s] = With(B)[s]
    BY <1>3, <1>5 DEF Ends
  <2> QED
    BY <1>2, <1>5, <2>1 DEF Ends
<1>6. ASSUME NEW N \in SUBSET Pkg, NEW w \in World, Takes(N, w) PROVE rec'[s] = rec[s]
  <2>1. rec'[s] = Without(N)[s]
    BY <1>3, <1>6 DEF Takes
  <2> QED
    BY <2>1 DEF Without
<1>7. Next => \/ rec' = rec \/ (\E B \in SUBSET Pkg : Brings(B) \/ \E w \in World : Ends(B, w))
              \/ \E N \in SUBSET Pkg : \E w \in World : Takes(N, w)
  BY Effects DEF Stands
<1>8. UNCHANGED vars => rec' = rec
  BY DEF vars
<1> QED
  BY <1>1, <1>4, <1>5, <1>6, <1>7, <1>8

LEMMA LevelIn ==
  ASSUME PlanInv, pc = "run" PROVE Level \subseteq All
BY DEF PlanInv, Shape, Level, All

\* a package that is built for is not built by what it was short of
LEMMA OwnStuck ==
  ASSUME OnceInv, pc = "run", own \in Pkg, Round(own)
  PROVE  UNCHANGED <<cache, proven, star, made>>
<1>1. TypeOK /\ own \in run
  BY RoundOnce DEF OnceInv, PlanInv
<1>2. own \in All /\ ~Fresh(own)
  BY <1>1, LevelIn DEF OnceInv, Pooled
<1>3. PICK Bad \in SUBSET Pkg : Barred(Bad)
  BY <1>2 DEF OnceInv, Outside, Working
<1>4. ~(Fixed(own) \subseteq Installed)
  BY <1>2, <1>3 DEF Barred
<1> QED
  BY <1>1, <1>4, ShortStuck

LEMMA ShortNext ==
  ASSUME OnceInv, [Next]_vars PROVE Short'
<1> SUFFICES ASSUME pc' \in Working, own' \in Pkg
             PROVE  /\ seeds' \subseteq Fixed(own)'
                    /\ \A s \in seeds' \cap Installed' : Fresh(s)' /\ rec'[s] = cache'[s]
  BY DEF Short
<1>0. TypeOK /\ PlanInv /\ seeds \in SUBSET Pkg
  BY DEF OnceInv, PlanInv, TypeOK
<1>1. CASE pc = "idle"
  <2>1. own' = own
    BY <1>1 DEF Next, Bump, Edit, Take, Round, NotStaged, Disprove, Discover, FallBack, GivesUp, More, Lands, Stay,
                InstallCmd, Install, WishCmd, BuildCmd, RemoveCmd, Kill, FirstTools, Plan, Batch, Done, StartLevel,
                EndLevel, Apply, Bring, EndOwn, Working, local, vars
  <2> QED
    BY <1>1, <2>1, PlannerAssumption DEF OnceInv, Pooled
<1>2. CASE pc # "idle" /\ pc \notin Working
  <2>1. Bring /\ pc' = "plan" /\ own' = own
    BY <1>2, Onward DEF Working
  <2>2. seeds' = Start(own) \ Installed /\ UNCHANGED <<rec, cache, proven, star>>
    BY <2>1 DEF Bring, closures
  <2>3. rec[own].deps \subseteq Installed
    BY <2>1 DEF OnceInv, RecordsWhole
  <2>4. seeds' \subseteq Fixed(own)
    BY <2>2, <2>3 DEF Start, Fixed
  <2>5. Fixed(own)' = Fixed(own) /\ Installed' = Installed
    BY <2>1, <2>2 DEF Fixed, Installed
  <2> QED
    BY <2>2, <2>4, <2>5
<1>3. CASE pc \in Working
  <2>1. own' = own /\ seeds' = seeds /\ pc # "idle" /\ pc' # "idle"
    BY <1>3, Onward DEF Working
  <2>2. seeds \subseteq Fixed(own) /\ \A s \in seeds \cap Installed : Fresh(s) /\ rec[s] = cache[s]
    BY <1>3, <2>1 DEF OnceInv, Short
  <2>3. CASE UNCHANGED <<ver, cache, proven, star, made>>
    <3>1. Fixed(own)' = Fixed(own)
      BY <2>1, <2>3 DEF Fixed
    <3>2. ASSUME NEW s \in seeds, s \in Installed' PROVE Fresh(s)' /\ rec'[s] = cache'[s]
      <4>1. s \in Pkg /\ rec'[s] # None
        BY <1>0, <3>2 DEF Installed
      <4>2. Fresh(s) /\ rec'[s] = cache[s]
        BY <1>0, <2>2, <4>1, NewRecords DEF Installed
      <4> QED
        BY <2>3, <4>2 DEF Fresh
    <3> QED
      BY <2>1, <2>2, <3>1, <3>2
  <2>4. ASSUME NEW p \in Pkg, Round(p)
        PROVE  /\ seeds \subseteq Fixed(own)'
               /\ \A s \in seeds \cap Installed' : Fresh(s)' /\ rec'[s] = cache'[s]
    <3>1. /\ p \in run /\ ver' = ver /\ rec' = rec
          /\ \A q \in Pkg : q # p => /\ proven'[q] = proven[q] /\ (q \in star' <=> q \in star)
                                     /\ cache'[q] = cache[q]
      BY <1>0, <2>4, RoundOnce
    <3>2. pc = "run" /\ ~Fresh(p)
      BY <1>3, <3>1 DEF OnceInv, Pooled, Working
    <3>3. Fixed(own)' = Fixed(own)
      <4>1. CASE p = own
        <5>1. UNCHANGED <<cache, proven, star, made>>
          BY <2>4, <3>2, <4>1, OwnStuck
        <5> QED
          BY <2>1, <5>1 DEF Fixed
      <4>2. CASE p # own
        BY <2>1, <3>1, <4>2 DEF Fixed
      <4> QED
        BY <4>1, <4>2
    <3>4. ASSUME NEW s \in seeds \cap Installed' PROVE Fresh(s)' /\ rec'[s] = cache'[s]
      <4>1. s \in Pkg /\ s \in Installed
        BY <1>0, <3>1 DEF Installed
      <4>2. Fresh(s) /\ rec[s] = cache[s] /\ s # p
        BY <2>2, <3>2, <4>1
      <4> QED
        BY <3>1, <4>1, <4>2 DEF Fresh
    <3> QED
      BY <2>2, <3>3, <3>4
  <2> QED
    BY <2>1, <2>3, <2>4, ElseQuiet
<1> QED
  BY <1>1, <1>2, <1>3

LEMMA OutsideNext ==
  ASSUME OnceInv, NoneOwn, [Next]_vars PROVE Outside'
<1> SUFFICES ASSUME pc' \in Working \ {"plan"}, own' \in Pkg, own' \in All', ~Fresh(own)'
             PROVE  \E Bad \in SUBSET Pkg : Barred(Bad)'
  BY DEF Outside
<1>0. TypeOK /\ PlanInv
  BY DEF OnceInv, PlanInv
<1>1. pc \in Working /\ pc # "idle" /\ pc' # "idle" /\ own' = own
  <2>1. pc # "idle"
    BY DEF Next, Bump, Edit, Take, Round, NotStaged, Disprove, Discover, FallBack, GivesUp, More, Lands, Stay,
           InstallCmd, Install, WishCmd, BuildCmd, RemoveCmd, Kill, FirstTools, Plan, Batch, Done, StartLevel,
           EndLevel, Apply, Bring, EndOwn, Working, local, vars, Fails, Works, OnceInv, Pooled
  <2> QED
    BY <2>1, Onward DEF Working
<1>2. ~Fresh(own)
  <2>1. CASE UNCHANGED <<ver, cache, proven, star, made>>
    BY <1>1, <2>1 DEF Fresh
  <2>2. CASE \E p \in Pkg : Round(p)
    <3>1. \A q \in Pkg : Fresh(q) => Fresh(q)'
      BY <1>0, <2>2, RoundEnds
    <3> QED
      BY <1>1, <3>1
  <2> QED
    BY <1>1, <2>1, <2>2, ElseQuiet
<1>3. CASE pc = "plan"
  <2>1. Plan /\ UNCHANGED <<ver, rec, cache, proven, star, own>>
    <3>1. Plan
      BY <1>1, <1>3, Onward
    <3> QED
      BY <1>1, <3>1 DEF Plan, Die, Over, closures
  <2>2. Wanted(seeds) \in SUBSET Pkg
    BY <1>0, WantedTyped DEF TypeOK
  <2>3. plan' = Levels(Wanted(seeds)).out
    BY <1>1, <2>1 DEF Plan, Die, Over
  <2>4. plan' \in Seq(SUBSET (Wanted(seeds) \X BOOLEAN))
    BY <2>2, <2>3, LevelsTyped
  <2>5. own \in Wanted(seeds)
    <3>1. \A k \in DOMAIN plan' : plan'[k] \in SUBSET (Wanted(seeds) \X BOOLEAN)
      BY <2>4
    <3> QED
      BY <1>1, <3>1 DEF All, Names
  <2>6. PICK Bad \in SUBSET Pkg : Barred(Bad)
    BY <1>0, <1>1, <1>2, <1>3, <2>5, PlanBars DEF OnceInv
  <2>7. Barred(Bad)'
    <3>1. Installed' = Installed /\ \A q \in Pkg : (Fresh(q)' <=> Fresh(q)) /\ Fixed(q)' = Fixed(q)
      BY <2>1 DEF Installed, Fresh, Fixed
    <3> QED
      BY <2>1, <2>6, <3>1 DEF Barred
  <2> QED
    BY <2>7
<1>4. CASE pc # "plan"
  <2>1. All' = All
    <3>1. plan' = plan
      BY <1>1, <1>4, Onward
    <3> QED
      BY <3>1 DEF All, Names
  <2>2. PICK Bad \in SUBSET Pkg : Barred(Bad)
    BY <1>1, <1>2, <1>4, <2>1 DEF OnceInv, Outside
  <2>3. Barred(Bad)'
    BY <1>0, <1>1, <1>2, <2>2, BarredNext DEF OnceInv
  <2> QED
    BY <2>3
<1> QED
  BY <1>3, <1>4

LEMMA MakesOne ==
  ASSUME made \in [Pkg -> [Passes -> Nat]], NEW p \in Pkg, Makes(p)
  PROVE  /\ Unmade(p) => MadeOnce(p)'
         /\ \A q \in Pkg : q # p => made'[q] = made[q]
<1>1. PICK k \in Passes : made' = [made EXCEPT ![p][k] = @ + 1]
  BY DEF Makes
<1>2. made'[p] = [made[p] EXCEPT ![k] = @ + 1] /\ \A q \in Pkg : q # p => made'[q] = made[q]
  BY <1>1
<1>3. ASSUME Unmade(p), NEW j \in Passes PROVE made'[p][j] <= 1
  BY <1>2, <1>3 DEF Unmade
<1> QED
  BY <1>2, <1>3 DEF MadeOnce

LEMMA CountedNext ==
  ASSUME OnceInv, [Next]_vars PROVE Counted'
<1>0. TypeOK /\ PlanInv /\ made \in [Pkg -> [Passes -> Nat]] /\ NoPkg \notin Pkg
  BY PlannerAssumption DEF OnceInv, PlanInv, TypeOK
<1>1. CASE pc = "idle"
  <2>1. own = NoPkg /\ run = {} /\ \A p \in Pkg : MadeOnce(p)
    BY <1>1 DEF OnceInv, Pooled, Counted
  <2>2. made' = made \/ made' = [p \in Pkg |-> [k \in Passes |-> 0]]
    BY <1>1, <2>1 DEF Next, Bump, Edit, Take, Round, NotStaged, Disprove, Discover, FallBack, GivesUp, More, Lands,
         Fails, Works, InstallCmd, Install, WishCmd, BuildCmd, Began, RemoveCmd, Kill, FirstTools, Plan, Batch, Done,
         StartLevel, EndLevel, Apply, Bring, EndOwn, vars
  <2>3. pc' # "idle" => made' = [p \in Pkg |-> [k \in Passes |-> 0]]
    BY <1>1, <2>1 DEF Next, Bump, Edit, Take, Round, NotStaged, Disprove, Discover, FallBack, GivesUp, More, Lands,
         Fails, Works, InstallCmd, Install, WishCmd, BuildCmd, Began, RemoveCmd, Kill, FirstTools, Plan, Batch, Done,
         StartLevel, EndLevel, Apply, Bring, EndOwn, vars, local
  <2>4. \A p \in Pkg : MadeOnce(p)'
    BY <2>1, <2>2 DEF MadeOnce
  <2>5. pc' # "idle" => \A p \in Pkg : Unmade(p)'
    BY <2>3 DEF Unmade
  <2> QED
    BY <2>4, <2>5 DEF Counted
<1>2. CASE pc # "idle" /\ pc' = "idle"
  <2>1. made' = made
    <3>1. CASE \E p \in Pkg : Round(p)
      BY <1>0, <1>2, <3>1, RoundOnce
    <3> QED
      BY <1>2, <3>1, ElseQuiet
  <2>2. \A p \in Pkg : MadeOnce(p)
    BY <1>2 DEF OnceInv, Counted, MadeOnce, Unmade
  <2> QED
    BY <1>2, <2>1, <2>2 DEF MadeOnce, Counted
<1>3. CASE pc # "idle" /\ pc' # "idle"
  <2>0. own' = own
    BY <1>3, Onward
  <2>1. CASE UNCHANGED <<ver, cache, made>> /\ (pc = "own" /\ run = {} /\ err = "none" => UNCHANGED <<pc, run, err>>)
    BY <1>3, <2>0, <2>1 DEF OnceInv, Counted, Fresh, Unmade, MadeOnce
  <2>2. ASSUME NEW p \in Pkg, Round(p) PROVE Counted'
    <3>1. /\ p \in run /\ UNCHANGED <<ver, pc>>
          /\ \A q \in Pkg : q # p => cache'[q] = cache[q]
          /\ \/ cache' = cache /\ made' = made /\ run' \subseteq run
             \/ /\ Fresh(p)' /\ run' = run \ {p} /\ Makes(p) /\ err' = err
      BY <1>0, <2>2, RoundOnce
    <3>2. own \in Pkg => Unmade(own)
      BY <1>3, <3>1 DEF OnceInv, Counted
    <3>3. CASE cache' = cache /\ made' = made
      BY <1>3, <2>0, <3>1, <3>2, <3>3 DEF OnceInv, Counted, Fresh, Unmade, MadeOnce
    <3>4. CASE Fresh(p)' /\ run' = run \ {p} /\ Makes(p) /\ err' = err /\ p # own
      <4>1. pc = "run" /\ ~Fresh(p)
        BY <1>3, <3>1, <3>4 DEF OnceInv, Pooled
      <4>2. MadeOnce(p)' /\ \A q \in Pkg : q # p => made'[q] = made[q]
        BY <1>0, <1>3, <3>4, <4>1, MakesOne DEF OnceInv, Counted
      <4>3. \A q \in Pkg : q # p /\ Fresh(q) => Fresh(q)'
        BY <3>1 DEF Fresh
      <4>4. \A q \in Pkg : q # own => Unmade(q)' \/ (MadeOnce(q)' /\ Fresh(q)')
        BY <1>3, <3>4, <4>2, <4>3 DEF OnceInv, Counted, Unmade, MadeOnce
      <4> HIDE DEF Fresh
      <4> QED
        BY <1>3, <2>0, <3>2, <3>4, <4>2, <4>4 DEF Counted, Unmade
    <3>5. CASE run' = run \ {p} /\ Makes(p) /\ err' = err /\ p = own /\ pc = "run"
      <4>1. UNCHANGED <<cache, made>>
        BY <2>2, <3>5, OwnStuck
      <4> QED
        BY <3>3, <4>1
    <3>6. CASE run' = run \ {p} /\ Makes(p) /\ err' = err /\ p = own /\ pc # "run"
      <4>1. pc = "own" /\ run' = {} /\ err' = "none"
        BY <1>3, <3>1, <3>6 DEF OnceInv, Pooled
      <4>5. MadeOnce(p)' /\ \A q \in Pkg : q # p => made'[q] = made[q]
        BY <1>0, <3>2, <3>6, MakesOne
      <4>2. MadeOnce(own)' /\ \A q \in Pkg : q # own => made'[q] = made[q] /\ (Fresh(q) => Fresh(q)')
        <5>1. MadeOnce(own)'
          BY <2>0, <3>6, <4>5 DEF MadeOnce
        <5> QED
          BY <3>1, <3>6, <4>5, <5>1 DEF Fresh
      <4>3. \A q \in Pkg : q # own => Unmade(q)' \/ (MadeOnce(q)' /\ Fresh(q)')
        BY <1>3, <4>2 DEF OnceInv, Counted, Unmade, MadeOnce
      <4> HIDE DEF Fresh
      <4> QED
        BY <1>3, <2>0, <3>1, <4>1, <4>2, <4>3 DEF Counted
    <3> QED
      BY <3>1, <3>3, <3>4, <3>5, <3>6
  <2>3. (\E p \in Pkg : Round(p)) \/ UNCHANGED <<ver, cache, made>>
    BY <1>3, ElseQuiet
  <2>4. pc = "own" /\ run = {} /\ err = "none" => UNCHANGED <<pc, run, err>>
    BY <1>3 DEF Next, Bump, Edit, Take, Round, NotStaged, Disprove, Discover, FallBack, GivesUp, More, Lands,
         Fails, Works, InstallCmd, Install, Asking, WishCmd, BuildCmd, RemoveCmd, Kill, FirstTools, Plan, Batch, Done,
         StartLevel, EndLevel, Apply, Bring, EndOwn, Over, Die, vars, local, pool
  <2> QED
    BY <2>1, <2>2, <2>3, <2>4
<1> QED
  BY <1>1, <1>2, <1>3

\* However often an install is planned again, for whatever a build turns out to need, and whatever
\* another kiry removes meanwhile, nothing is built twice as what it is or twice as its stand-in; nor
\* is what a build command builds, though bring installs all it lacks first: what is installed to
\* build it cannot need it built. It takes roots whose records were whole, and recipes that do not
\* list their own package (install's loop, cached, bring).
THEOREM BuiltOnceEver == ASSUME RootsWhole, NoneOwn PROVE Spec => []BuiltOnce
<1>1. Init => OnceInv
  <2> SUFFICES ASSUME Init PROVE OnceInv
    OBVIOUS
  <2>1. PlanInv /\ RecordsWhole
    BY PlanInit, WholeInit
  <2>2. SelfFree /\ Pooled /\ Short /\ Outside /\ Counted
    BY DEF Init, SelfFree, Pooled, Short, Outside, Counted, Working, MadeOnce
  <2> QED
    BY <2>1, <2>2 DEF OnceInv
<1>2. OnceInv /\ [Next]_vars => OnceInv'
  <2> SUFFICES ASSUME OnceInv, [Next]_vars PROVE OnceInv'
    OBVIOUS
  <2>1. PlanInv' /\ RecordsWhole' /\ SelfFree' /\ Pooled'
    BY PlanNext, WholeNext, SelfFreeNext, PooledNext DEF OnceInv, PlanInv
  <2>2. Short' /\ Outside' /\ Counted'
    BY ShortNext, OutsideNext, CountedNext
  <2> QED
    BY <2>1, <2>2 DEF OnceInv
<1>3. OnceInv => BuiltOnce
  BY DEF OnceInv, Counted, BuiltOnce, Unmade, MadeOnce
<1> QED
  BY <1>1, <1>2, <1>3, PTL DEF Spec
=============================================================================
