---------------------------- MODULE FlagsProofs ----------------------------
(* What holds of Flags for any files, edits, ladder, failure table and outcomes of builds:
   an artifact is fresh as it lands, and recover and bisect-flags take nobody's line.

   The argument. A text is followed line by line (TextInduction): what Only picks of it by the
   lines themselves is picked of what it picked before (OnlyOnly), so a stuck note may come and go
   without a setting or a person's line noticing, and a note is its own two lines at the end.
   unrung finds the head right above a rung's line or none (Headed), which every writer of a text
   keeps up. While no person writes, what a build resolved as it began is what resolves now, and
   what recover found is what the command found less the rungs' lines. *)
EXTENDS Flags, SequenceTheorems, WellFoundedInduction, TLAPS

----------------------------------------------------------------------------
(* Texts, line by line. *)

LEMMA Least ==
  ASSUME NEW S \in SUBSET Nat, S # {}
  PROVE  \E n \in S : \A m \in S : n <= m
<1> DEFINE R == {x \in Nat \X Nat : x[1] < x[2]}
<1>1. \A n, m \in Nat : n < m => <<n, m>> \in R
  OBVIOUS
<1>2. IsWellFoundedOn(R, Nat)
  BY NatLessThanWellFounded DEF OpToRel
<1> HIDE DEF R
<1>3. PICK x \in S : \A y \in S : ~(<<y, x>> \in R)
  BY <1>2, WFMin
<1>4. \A y \in S : ~(y < x)
  BY <1>1, <1>3
<1> QED
  BY <1>4

LEMMA UpTo ==
  ASSUME NEW N \in Nat, NEW P \in SUBSET (0..N), 0 \in P, \A n \in 1..N : n - 1 \in P => n \in P
  PROVE  P = 0..N
<1> SUFFICES ASSUME (0..N) \ P # {} PROVE FALSE
  OBVIOUS
<1> DEFINE Q == (0..N) \ P
<1>0. Q \in SUBSET Nat /\ Q # {}
  OBVIOUS
<1>1. PICK n \in Q : \A m \in Q : n <= m
  <2> HIDE DEF Q
  <2> QED
    BY <1>0, Least
<1>2. n \in 1..N /\ n - 1 \in 0..N /\ ~(n <= n - 1)
  BY <1>1
<1> QED
  BY <1>1, <1>2

Recurs(f, N, S, base, F) ==
  /\ f \in [0..N -> S]
  /\ f = [n \in 0..N |-> IF n = 0 THEN base ELSE F[<<n, f[n - 1]>>]]

LEMMA Recursion ==
  ASSUME NEW N \in Nat, NEW S, NEW base \in S, NEW F \in [(1..N) \X S -> S]
  PROVE  \E f : Recurs(f, N, S, base, F)
<1> DEFINE Is(f, n) == f \in [0..n -> S] /\ f[0] = base /\ \A m \in 1..n : f[m] = F[<<m, f[m - 1]>>]
           P == {n \in 0..N : \E f : Is(f, n)}
<1>1. 0 \in P
  <2>1. Is([m \in 0..0 |-> base], 0)
    OBVIOUS
  <2>2. \E f : Is(f, 0)
    <3> HIDE DEF Is
    <3> QED
      BY <2>1
  <2> QED
    BY <2>2
<1>2. ASSUME NEW n \in 1..N, n - 1 \in P PROVE n \in P
  <2>1. PICK f : Is(f, n - 1)
    BY <1>2
  <2> DEFINE g == [m \in 0..n |-> IF m = n THEN F[<<n, f[n - 1]>>] ELSE f[m]]
  <2>2. f[n - 1] \in S /\ F[<<n, f[n - 1]>>] \in S
    BY <2>1
  <2>3. /\ n \in Nat /\ n - 1 \in Nat /\ n # n - 1 /\ 0 # n /\ 0 \in 0..n - 1
        /\ \A m \in 0..n : m # n => m \in 0..n - 1
        /\ \A m \in 1..n : m - 1 \in 0..n - 1 /\ m - 1 # n /\ (m # n => m \in 1..n - 1)
    OBVIOUS
  <2>4. \A m \in 0..n : g[m] = IF m = n THEN F[<<n, f[n - 1]>>] ELSE f[m]
    OBVIOUS
  <2>5. g \in [0..n -> S] /\ g[0] = base
    BY <2>1, <2>2, <2>3
  <2>6. \A m \in 1..n : g[m - 1] = f[m - 1] /\ (m # n => g[m] = f[m]) /\ g[n] = F[<<n, f[n - 1]>>]
    <3> HIDE DEF g
    <3> QED
      BY <2>3, <2>4
  <2>7. \A m \in 1..n : g[m] = F[<<m, g[m - 1]>>]
    <3> HIDE DEF g
    <3> QED
      BY <2>1, <2>3, <2>6
  <2>8. Is(g, n)
    <3> HIDE DEF g
    <3> QED
      BY <2>5, <2>7
  <2>9. \E h : Is(h, n)
    <3> HIDE DEF Is, g
    <3> QED
      BY <2>8
  <2> QED
    BY <2>9
<1>3. N \in P
  <2> HIDE DEF P
  <2>1. P \in SUBSET (0..N)
    BY DEF P
  <2> QED
    BY <1>1, <1>2, <2>1, UpTo
<1>4. PICK f : Is(f, N)
  BY <1>3
<1>5. f = [n \in 0..N |-> IF n = 0 THEN base ELSE F[<<n, f[n - 1]>>]]
  BY <1>4
<1> QED
  BY <1>4, <1>5 DEF Recurs

LEMMA TextInduction ==
  ASSUME NEW S, NEW T \in SUBSET Seq(S), <<>> \in T, \A t \in T, x \in S : Append(t, x) \in T
  PROVE  T = Seq(S)
<1> SUFFICES ASSUME NEW t \in Seq(S) PROVE t \in T
  OBVIOUS
<1> DEFINE All(n) == \A u \in Seq(S) : Len(u) = n => u \in T
           N == Len(t)
           P == {n \in 0..N : All(n)}
<1>1. N \in Nat /\ All(0)
  <2>1. \A u \in Seq(S) : Len(u) = 0 => u = <<>>
    OBVIOUS
  <2> QED
    BY <2>1
<1>2. ASSUME NEW n \in 1..N, All(n - 1) PROVE All(n)
  <2> SUFFICES ASSUME NEW u \in Seq(S), Len(u) = n PROVE u \in T
    OBVIOUS
  <2>1. PICK v \in Seq(S), x \in S : u = Append(v, x)
    <3>1. u # <<>>
      OBVIOUS
    <3> QED
      BY <3>1, SequenceEmptyOrAppend
  <2>2. Len(v) = n - 1
    BY <2>1
  <2> QED
    BY <1>2, <2>1, <2>2
<1> HIDE DEF All
<1>3. P \in SUBSET (0..N) /\ 0 \in P
  BY <1>1
<1>4. \A n \in 1..N : n - 1 \in P => n \in P
  BY <1>1, <1>2
<1> HIDE DEF P
<1>5. P = 0..N
  <2> HIDE DEF N
  <2> QED
    BY <1>1, <1>3, <1>4, UpTo
<1>6. N \in P
  <2> HIDE DEF N, P
  <2> QED
    BY <1>1, <1>5
<1> QED
  BY <1>6 DEF P, All

Texts == Seq(Lines)

\* what a walk over a text comes to
Picks(f, t, at, n) ==
  f[0] = <<>> /\ \A i \in 1..n : f[i] = IF i \in at THEN Append(f[i - 1], t[i]) ELSE f[i - 1]
Somes(f, t, at) == f \in [0..Len(t) -> Texts] /\ Picks(f, t, at, Len(t))

LEMMA TextIs ==
  /\ <<>> \in Texts /\ Len(<<>>) = 0
  /\ \A t \in Texts : Len(t) \in Nat /\ \A i \in 1..Len(t) : t[i] \in Lines
  /\ \A t \in Texts, x \in Lines : Append(t, x) \in Texts /\ Len(Append(t, x)) = Len(t) + 1
BY DEF Texts

LEMMA OnlyIs ==
  ASSUME NEW t \in Texts, NEW at
  PROVE  \E f : Somes(f, t, at) /\ Only(t, at) = f[Len(t)]
<1> DEFINE N == Len(t)
           F == [x \in (1..N) \X Texts |-> IF x[1] \in at THEN Append(x[2], t[x[1]]) ELSE x[2]]
           some[i \in 0..Len(t)] ==
             IF i = 0 THEN <<>> ELSE IF i \in at THEN Append(some[i - 1], t[i]) ELSE some[i - 1]
<1>1. <<>> \in Texts /\ N \in Nat
  BY TextIs
<1>2. F \in [(1..N) \X Texts -> Texts]
  <2>1. \A x \in (1..N) \X Texts : x[2] \in Texts /\ t[x[1]] \in Lines
    BY TextIs
  <2> QED
    BY <2>1, TextIs
<1> HIDE DEF some
<1>3. PICK f : Recurs(f, N, Texts, <<>>, F)
  <2> HIDE DEF F, N
  <2> QED
    BY <1>1, <1>2, Recursion
<1>4. \A i \in 1..N : i \in 0..N /\ i - 1 \in 0..N /\ i # 0 /\ f[i - 1] \in Texts
  <2>1. f \in [0..N -> Texts]
    BY <1>3 DEF Recurs
  <2> HIDE DEF F, N
  <2> QED
    BY <1>1, <2>1
<1>5. \A i \in 1..N : F[<<i, f[i - 1]>>] = IF i \in at THEN Append(f[i - 1], t[i]) ELSE f[i - 1]
  <2> HIDE DEF N
  <2> QED
    BY <1>4
<1>6. f = [i \in 0..Len(t) |-> IF i = 0 THEN <<>> ELSE IF i \in at THEN Append(f[i - 1], t[i]) ELSE f[i - 1]]
  <2>1. f = [i \in 0..N |-> IF i = 0 THEN <<>> ELSE F[<<i, f[i - 1]>>]]
    BY <1>3 DEF Recurs
  <2>2. \A i \in 0..N : i = 0 \/ i \in 1..N
    BY <1>1
  <2> HIDE DEF F
  <2> QED
    BY <1>5, <2>1, <2>2
<1>7. \E g : g = [i \in 0..Len(t) |-> IF i = 0 THEN <<>> ELSE IF i \in at THEN Append(g[i - 1], t[i]) ELSE g[i - 1]]
  BY ONLY <1>6, Zenon
<1>8. some = [i \in 0..Len(t) |-> IF i = 0 THEN <<>> ELSE IF i \in at THEN Append(some[i - 1], t[i]) ELSE some[i - 1]]
  BY <1>7 DEF some
<1>9. Only(t, at) = some[Len(t)]
  BY DEF Only, some
<1>10. \A i \in 1..N : some[i] = IF i \in at THEN Append(some[i - 1], t[i]) ELSE some[i - 1]
  <2>1. \A i \in 1..N : i \in 0..Len(t) /\ i # 0
    BY <1>1
  <2> QED
    BY <1>8, <2>1
<1>11. some[0] = <<>>
  BY <1>1, <1>8
<1> DEFINE P == {i \in 0..N : some[i] \in Texts}
<1>12. P = 0..N
  <2>1. P \in SUBSET (0..N) /\ 0 \in P
    BY <1>1, <1>11
  <2>2. ASSUME NEW i \in 1..N, i - 1 \in P PROVE i \in P
    <3>1. some[i - 1] \in Texts /\ t[i] \in Lines
      BY <2>2, TextIs
    <3>2. some[i] \in Texts
      BY <1>10, <3>1, TextIs
    <3> QED
      BY <1>1, <3>2
  <2> HIDE DEF P, N
  <2> QED
    BY <1>1, <2>1, <2>2, UpTo
<1>13. some \in [0..Len(t) -> Texts]
  BY <1>8, <1>12
<1> QED
  BY <1>9, <1>10, <1>11, <1>13 DEF Somes, Picks

\* two walks over the same lines come to the same
LEMMA SomesOne ==
  ASSUME NEW t, NEW u, NEW at, NEW n \in Nat, NEW f, NEW g,
         \A i \in 1..n : t[i] = u[i], Picks(f, t, at, n), Picks(g, u, at, n)
  PROVE  f[n] = g[n]
<1> DEFINE P == {i \in 0..n : f[i] = g[i]}
<1>1. P \in SUBSET (0..n) /\ 0 \in P
  BY DEF Picks
<1>2. ASSUME NEW i \in 1..n, i - 1 \in P PROVE i \in P
  <2>1. f[i - 1] = g[i - 1] /\ t[i] = u[i]
    BY <1>2
  <2>2. f[i] = g[i]
    BY <2>1 DEF Picks
  <2> QED
    BY <2>2
<1>3. P = 0..n
  <2> HIDE DEF P
  <2> QED
    BY <1>1, <1>2, UpTo
<1> QED
  BY <1>3

\* the lines of a text that are in P
Sel(t, P) == Only(t, {i \in DOMAIN t : t[i] \in P})

LEMMA SelNone == \A P : Sel(<<>>, P) = <<>>
<1> SUFFICES ASSUME NEW P PROVE Sel(<<>>, P) = <<>>
  OBVIOUS
<1> DEFINE at == {i \in DOMAIN <<>> : <<>>[i] \in P}
<1> HIDE DEF at
<1>1. PICK f : Somes(f, <<>>, at) /\ Only(<<>>, at) = f[Len(<<>>)]
  BY TextIs, OnlyIs
<1> QED
  BY <1>1, TextIs DEF Somes, Picks, Sel, at
LEMMA SelAppend ==
  ASSUME NEW t \in Texts, NEW x \in Lines, NEW P
  PROVE  Sel(Append(t, x), P) = IF x \in P THEN Append(Sel(t, P), x) ELSE Sel(t, P)
<1> DEFINE more == Append(t, x)
           n == Len(t)
           at == {i \in DOMAIN more : more[i] \in P}
           was == {i \in DOMAIN t : t[i] \in P}
<1>1. /\ more \in Texts /\ Len(more) = n + 1 /\ n \in Nat /\ more[n + 1] = x
      /\ \A i \in 1..n : more[i] = t[i]
  BY DEF Texts
<1>2. DOMAIN t = 1..n /\ DOMAIN more = 1..Len(more)
  BY DEF Texts
<1>3. (n + 1 \in at <=> x \in P) /\ \A i \in 1..n : i \in at <=> i \in was
  <2> HIDE DEF more, n
  <2> QED
    BY <1>1, <1>2
<1> HIDE DEF at, was
<1>4. PICK f : Somes(f, t, was) /\ Only(t, was) = f[Len(t)]
  BY OnlyIs
<1>5. PICK g : Somes(g, more, at) /\ Only(more, at) = g[Len(more)]
  BY <1>1, OnlyIs
<1> HIDE DEF more
<1>6. g[n] = f[n]
  <2>1. Picks(f, t, at, n)
    BY <1>3, <1>4 DEF Somes, Picks
  <2>2. Picks(g, more, at, n)
    <3>1. \A i \in 1..n : i \in 1..Len(more)
      BY <1>1
    <3> QED
      BY <1>5, <3>1 DEF Somes, Picks
  <2> HIDE DEF n
  <2> QED
    BY <1>1, <2>1, <2>2, SomesOne
<1>7. g[n + 1] = IF n + 1 \in at THEN Append(g[n], more[n + 1]) ELSE g[n]
  <2>1. n + 1 \in 1..Len(more) /\ n + 1 - 1 = n
    BY <1>1
  <2> QED
    BY <1>5, <2>1 DEF Somes, Picks
<1>8. Sel(more, P) = g[n + 1] /\ Sel(t, P) = f[n]
  BY <1>1, <1>4, <1>5 DEF Sel, at, was
<1> QED
  BY <1>1, <1>3, <1>6, <1>7, <1>8 DEF more

LEMMA SelTyped == \A t \in Texts : \A P : Sel(t, P) \in Texts
<1> SUFFICES ASSUME NEW t \in Texts, NEW P PROVE Sel(t, P) \in Texts
  OBVIOUS
<1> DEFINE at == {i \in DOMAIN t : t[i] \in P}
<1> HIDE DEF at
<1>1. PICK f : Somes(f, t, at) /\ Only(t, at) = f[Len(t)]
  BY OnlyIs
<1>2. Len(t) \in 0..Len(t)
  BY TextIs
<1> QED
  BY <1>1, <1>2 DEF Somes, Sel, at

\* what is picked of what was picked
LEMMA SelSel ==
  ASSUME NEW P, NEW Q
  PROVE  \A t \in Texts : Sel(Sel(t, P), Q) = Sel(t, P \cap Q)
<1> DEFINE T == {t \in Texts : Sel(Sel(t, P), Q) = Sel(t, P \cap Q)}
<1>1. <<>> \in T
  BY SelNone, TextIs
<1>2. ASSUME NEW t \in T, NEW x \in Lines PROVE Append(t, x) \in T
  <2>1. t \in Texts /\ Sel(t, P) \in Texts /\ Append(t, x) \in Texts /\ Sel(Sel(t, P), Q) = Sel(t, P \cap Q)
    BY SelTyped, TextIs
  <2> HIDE DEF T
  <2>2. Sel(Append(t, x), P \cap Q) = IF x \in P \cap Q THEN Append(Sel(t, P \cap Q), x) ELSE Sel(t, P \cap Q)
    BY <2>1, SelAppend
  <2>3. CASE x \in P
    <3>1. Sel(Append(t, x), P) = Append(Sel(t, P), x)
      BY <2>1, <2>3, SelAppend
    <3>2. Sel(Append(Sel(t, P), x), Q) = IF x \in Q THEN Append(Sel(Sel(t, P), Q), x) ELSE Sel(Sel(t, P), Q)
      BY <2>1, SelAppend
    <3>3. Sel(Sel(Append(t, x), P), Q) = Sel(Append(t, x), P \cap Q)
      <4>1. x \in P \cap Q <=> x \in Q
        BY <2>3
      <4> QED
        BY <2>1, <2>2, <3>1, <3>2, <4>1
    <3> QED
      BY <2>1, <3>3 DEF T
  <2>4. CASE x \notin P
    <3>1. Sel(Append(t, x), P) = Sel(t, P)
      BY <2>1, <2>4, SelAppend
    <3> QED
      BY <2>1, <2>2, <2>4, <3>1 DEF T
  <2> QED
    BY <2>3, <2>4
<1>3. T \in SUBSET Seq(Lines)
  BY DEF Texts
<1> HIDE DEF T
<1>4. T = Seq(Lines)
  BY <1>1, <1>2, <1>3, TextInduction
<1> QED
  BY <1>4 DEF T, Texts

Elems(t) == {t[i] : i \in DOMAIN t}

LEMMA ElemsIs ==
  /\ Elems(<<>>) = {}
  /\ \A t \in Texts, x \in Lines : Elems(Append(t, x)) = Elems(t) \cup {x}
  /\ \A t \in Texts : Elems(t) \in SUBSET Lines
<1>1. Elems(<<>>) = {} /\ \A t \in Texts : Elems(t) \in SUBSET Lines
  BY DEF Texts, Elems
<1>2. ASSUME NEW t \in Texts, NEW x \in Lines PROVE Elems(Append(t, x)) = Elems(t) \cup {x}
  <2>1. /\ DOMAIN t = 1..Len(t) /\ DOMAIN Append(t, x) = 1..(Len(t) + 1) /\ Append(t, x)[Len(t) + 1] = x
        /\ Len(t) \in Nat /\ \A i \in 1..Len(t) : Append(t, x)[i] = t[i]
    BY DEF Texts
  <2>2. \A i \in 1..(Len(t) + 1) : i \in 1..Len(t) \/ i = Len(t) + 1
    BY <2>1
  <2>3. \A i \in 1..Len(t) : i \in 1..(Len(t) + 1)
    BY <2>1
  <2>4. Len(t) + 1 \in 1..(Len(t) + 1)
    BY <2>1
  <2> QED
    BY <2>1, <2>2, <2>3, <2>4, Zenon DEF Elems
<1> QED
  BY <1>1, <1>2

LEMMA SelElems ==
  ASSUME NEW P
  PROVE  \A t \in Texts : Elems(Sel(t, P)) = Elems(t) \cap P
<1> DEFINE T == {t \in Texts : Elems(Sel(t, P)) = Elems(t) \cap P}
<1>1. <<>> \in T
  BY SelNone, TextIs, ElemsIs
<1>2. ASSUME NEW t \in T, NEW x \in Lines PROVE Append(t, x) \in T
  <2>1. t \in Texts /\ Sel(t, P) \in Texts /\ Append(t, x) \in Texts
    BY SelTyped, TextIs
  <2>2. Sel(Append(t, x), P) = IF x \in P THEN Append(Sel(t, P), x) ELSE Sel(t, P)
    BY <2>1, SelAppend
  <2>3. Elems(Append(t, x)) = Elems(t) \cup {x} /\ Elems(Append(Sel(t, P), x)) = Elems(Sel(t, P)) \cup {x}
    BY <2>1, ElemsIs
  <2> QED
    BY <2>1, <2>2, <2>3
<1>3. T \in SUBSET Seq(Lines)
  BY DEF Texts
<1> HIDE DEF T
<1>4. T = Seq(Lines)
  BY <1>1, <1>2, <1>3, TextInduction
<1> QED
  BY <1>4 DEF T, Texts

----------------------------------------------------------------------------
(* What a writer of a text keeps up: a rung's head is right above its line. *)

Fixed(l) == l.is = "head" /\ l.by = "fix"
\* so far, the last line may be the head of a rung
Open(t) ==
  /\ \A i \in 1..Len(t) : RungHead(t[i]) => i = Len(t) \/ RungLine(t[i + 1]) \/ Fixed(t[i + 1])
  /\ \A i \in 1..Len(t) : RungLine(t[i]) => i # 1 /\ RungHead(t[i - 1])
  /\ \A i \in 1..Len(t) : t[i].by = "stuck" => t[i].is # "set"
LastHead(t) == t # <<>> /\ RungHead(t[Len(t)])
Fit(t, x) ==
  /\ LastHead(t) => RungLine(x) \/ Fixed(x)
  /\ RungLine(x) => LastHead(t)
  /\ x.by = "stuck" => x.is # "set"

LEMMA HeadedIs == \A t \in Texts : Headed(t) <=> Open(t) /\ ~LastHead(t)
<1> SUFFICES ASSUME NEW t \in Texts PROVE Headed(t) <=> Open(t) /\ ~LastHead(t)
  OBVIOUS
<1>1. DOMAIN t = 1..Len(t) /\ Len(t) \in Nat /\ (t # <<>> <=> Len(t) \in 1..Len(t))
  BY DEF Texts
<1> QED
  BY <1>1, Zenon DEF Headed, Open, LastHead, Fixed

LEMMA OpenAppend ==
  ASSUME NEW t \in Texts, NEW x \in Lines
  PROVE  /\ Open(Append(t, x)) <=> Open(t) /\ Fit(t, x)
         /\ LastHead(Append(t, x)) <=> RungHead(x)
<1> DEFINE more == Append(t, x)
           n == Len(t)
<1>1. /\ more \in Texts /\ Len(more) = n + 1 /\ n \in Nat /\ more[n + 1] = x /\ more # <<>>
      /\ \A i \in 1..n : more[i] = t[i]
  BY DEF Texts
<1>2. t # <<>> <=> n # 0
  BY DEF Texts
<1> HIDE DEF more, n
<1>3. LastHead(more) <=> RungHead(x)
  BY <1>1 DEF LastHead
<1>4. LastHead(t) <=> n # 0 /\ RungHead(t[n])
  BY <1>2 DEF LastHead, n
<1>5. /\ \A i \in 1..(n + 1) : i \in 1..n \/ i = n + 1
      /\ \A i \in 1..n : i \in 1..(n + 1) /\ i # n + 1 /\ (i = n \/ i + 1 \in 1..n) /\ (i = 1 \/ i - 1 \in 1..n)
      /\ n + 1 \in 1..(n + 1) /\ n + 1 - 1 = n
      /\ (n # 0 => n \in 1..n) /\ (n + 1 = 1 <=> n = 0)
  BY <1>1
<1>6. ASSUME Open(more) PROVE Open(t) /\ Fit(t, x)
  <2>1. Open(t)
    <3>1. ASSUME NEW i \in 1..n, RungHead(t[i]), i # n PROVE RungLine(t[i + 1]) \/ Fixed(t[i + 1])
      <4>1. i \in 1..(n + 1) /\ i # n + 1 /\ more[i] = t[i] /\ more[i + 1] = t[i + 1]
        BY <1>1, <1>5, <3>1
      <4> QED
        BY <1>1, <1>6, <3>1, <4>1 DEF Open
    <3>2. ASSUME NEW i \in 1..n, RungLine(t[i]) PROVE i # 1 /\ RungHead(t[i - 1])
      <4>1. i \in 1..(n + 1) /\ more[i] = t[i] /\ (i # 1 => more[i - 1] = t[i - 1])
        BY <1>1, <1>5
      <4> QED
        BY <1>1, <1>6, <3>2, <4>1 DEF Open
    <3>3. ASSUME NEW i \in 1..n, t[i].by = "stuck" PROVE t[i].is # "set"
      <4>1. i \in 1..(n + 1) /\ more[i] = t[i]
        BY <1>1, <1>5
      <4> QED
        BY <1>1, <1>6, <3>3, <4>1 DEF Open
    <3> QED
      BY <3>1, <3>2, <3>3 DEF Open, n
  <2>2. Fit(t, x)
    <3>1. LastHead(t) => RungLine(x) \/ Fixed(x)
      BY <1>1, <1>4, <1>5, <1>6 DEF Open
    <3>2. RungLine(x) => LastHead(t)
      BY <1>1, <1>4, <1>5, <1>6 DEF Open
    <3>3. x.by = "stuck" => x.is # "set"
      BY <1>1, <1>5, <1>6 DEF Open
    <3> QED
      BY <3>1, <3>2, <3>3 DEF Fit
  <2> QED
    BY <2>1, <2>2
<1>7. ASSUME Open(t), Fit(t, x) PROVE Open(more)
  <2>1. ASSUME NEW i \in 1..(n + 1), RungHead(more[i]), i # n + 1 PROVE RungLine(more[i + 1]) \/ Fixed(more[i + 1])
    <3>1. i \in 1..n /\ more[i] = t[i]
      BY <1>1, <1>5, <2>1
    <3>2. CASE i = n
      <4>1. LastHead(t)
        BY <1>1, <1>4, <2>1, <3>1, <3>2
      <4> QED
        BY <1>1, <1>7, <3>2, <4>1 DEF Fit
    <3>3. CASE i # n
      <4>1. more[i + 1] = t[i + 1]
        BY <1>1, <1>5, <3>1, <3>3
      <4> QED
        BY <1>7, <2>1, <3>1, <3>3, <4>1 DEF Open, n
    <3> QED
      BY <3>2, <3>3
  <2>2. ASSUME NEW i \in 1..(n + 1), RungLine(more[i]) PROVE i # 1 /\ RungHead(more[i - 1])
    <3>1. CASE i = n + 1
      <4>1. LastHead(t)
        BY <1>1, <1>7, <2>2, <3>1 DEF Fit
      <4> QED
        BY <1>1, <1>4, <1>5, <3>1, <4>1
    <3>2. CASE i # n + 1
      <4>1. i \in 1..n /\ more[i] = t[i]
        BY <1>1, <1>5, <3>2
      <4>2. i # 1 /\ RungHead(t[i - 1])
        BY <1>7, <2>2, <4>1 DEF Open, n
      <4>3. more[i - 1] = t[i - 1]
        BY <1>1, <1>5, <4>1, <4>2
      <4> QED
        BY <4>2, <4>3
    <3> QED
      BY <3>1, <3>2
  <2>3. ASSUME NEW i \in 1..(n + 1), more[i].by = "stuck" PROVE more[i].is # "set"
    <3>1. CASE i = n + 1
      BY <1>1, <1>7, <2>3, <3>1 DEF Fit
    <3>2. CASE i # n + 1
      <4>1. i \in 1..n /\ more[i] = t[i]
        BY <1>1, <1>5, <3>2
      <4> QED
        BY <1>7, <2>3, <4>1 DEF Open, n
    <3> QED
      BY <3>1, <3>2
  <2> QED
    BY <1>1, <2>1, <2>2, <2>3 DEF Open
<1> QED
  BY <1>3, <1>6, <1>7 DEF more

LEMMA OpenNone == Open(<<>>) /\ ~LastHead(<<>>)
BY DEF Open, LastHead

----------------------------------------------------------------------------
(* Taking the stuck notes out. *)

Calm == {l \in Lines : l.by # "stuck"}
Settles == {l \in Lines : l.is = "set"}
Peoples == {l \in Lines : l.by \in {"person", "fix"}}

LEMMA TextsAre ==
  ASSUME NEW t \in Texts
  PROVE  /\ Unstuck(t) = Sel(t, Calm) /\ Settings(t) = Sel(t, Settles) /\ Theirs(t) = Sel(t, Peoples)
<1>1. DOMAIN t = 1..Len(t) /\ \A i \in 1..Len(t) : t[i] \in Lines
  BY DEF Texts
<1>2. {i \in DOMAIN t : t[i].by # "stuck"} = {i \in DOMAIN t : t[i] \in Calm}
  BY <1>1 DEF Calm
<1>3. {i \in DOMAIN t : t[i].is = "set"} = {i \in DOMAIN t : t[i] \in Settles}
  BY <1>1 DEF Settles
<1>4. {i \in DOMAIN t : t[i].by \in {"person", "fix"}} = {i \in DOMAIN t : t[i] \in Peoples}
  BY <1>1 DEF Peoples
<1> QED
  BY <1>2, <1>3, <1>4 DEF Unstuck, Settings, Theirs, Sel

\* no person's line and no rung goes with them
LEMMA UnstuckKeeps ==
  ASSUME NEW t \in Texts
  PROVE  /\ Unstuck(t) \in Texts /\ Unstuck(Unstuck(t)) = Unstuck(t) /\ Theirs(Unstuck(t)) = Theirs(t)
         /\ Elems(Unstuck(t)) = Elems(t) \cap Calm
<1>1. Sel(t, Calm) \in Texts
  BY SelTyped
<1>2. Calm \cap Calm = Calm /\ Calm \cap Peoples = Peoples
  BY DEF Calm, Peoples
<1>3. Sel(Sel(t, Calm), Calm) = Sel(t, Calm) /\ Sel(Sel(t, Calm), Peoples) = Sel(t, Peoples)
  BY <1>2, SelSel
<1> QED
  BY <1>1, <1>3, TextsAre, SelElems

\* and no setting
LEMMA UnstuckSettles ==
  ASSUME NEW t \in Texts, Open(t)
  PROVE  Settings(Unstuck(t)) = Settings(t)
<1>1. DOMAIN t = 1..Len(t) /\ \A i \in 1..Len(t) : t[i] \in Lines
  BY DEF Texts
<1>2. {i \in DOMAIN t : t[i] \in Calm \cap Settles} = {i \in DOMAIN t : t[i] \in Settles}
  <2>1. \A i \in DOMAIN t : t[i].by = "stuck" => t[i].is # "set"
    BY <1>1 DEF Open
  <2> QED
    BY <1>1, <2>1 DEF Calm, Settles
<1>3. Sel(Sel(t, Calm), Settles) = Sel(t, Calm \cap Settles) /\ Sel(t, Calm) \in Texts
  BY SelSel, SelTyped
<1> QED
  BY <1>2, <1>3, TextsAre DEF Sel

\* what is right above what stays so
LEMMA UnstuckOpen ==
  \A t \in Texts : Open(t) => Open(Unstuck(t)) /\ (LastHead(Unstuck(t)) <=> LastHead(t))
<1> DEFINE T == {t \in Texts : Open(t) =>
                  /\ Open(Unstuck(t))
                  /\ (LastHead(Unstuck(t)) => LastHead(t)) /\ (LastHead(t) => LastHead(Unstuck(t)))}
<1>1. <<>> \in T
  <2>1. Unstuck(<<>>) = <<>>
    BY TextsAre, SelNone, TextIs
  <2> QED
    BY <2>1, OpenNone, TextIs
<1>2. ASSUME NEW t \in T, NEW x \in Lines PROVE Append(t, x) \in T
  <2>1. t \in Texts /\ Append(t, x) \in Texts /\ Unstuck(t) \in Texts
    BY TextIs, UnstuckKeeps
  <2>2. Unstuck(Append(t, x)) = IF x \in Calm THEN Append(Unstuck(t), x) ELSE Unstuck(t)
    BY <2>1, TextsAre, SelAppend
  <2> SUFFICES ASSUME Open(Append(t, x))
               PROVE  Open(Unstuck(Append(t, x))) /\ (LastHead(Unstuck(Append(t, x))) <=> LastHead(Append(t, x)))
    BY <2>1
  <2>3. Open(t) /\ Fit(t, x) /\ (LastHead(Append(t, x)) <=> RungHead(x))
    BY <2>1, OpenAppend
  <2>4. Open(Unstuck(t)) /\ (LastHead(Unstuck(t)) <=> LastHead(t))
    BY <2>3
  <2>5. CASE x \in Calm
    <3>1. Fit(Unstuck(t), x)
      BY <2>3, <2>4 DEF Fit
    <3> QED
      BY <2>1, <2>2, <2>3, <2>4, <2>5, <3>1, OpenAppend
  <2>6. CASE x \notin Calm
    <3>1. x.by = "stuck"
      BY <2>6 DEF Calm
    <3>2. ~RungHead(x) /\ ~RungLine(x) /\ ~Fixed(x)
      BY <3>1 DEF RungHead, RungLine, Fixed
    <3>3. ~LastHead(t)
      BY <2>3, <3>2 DEF Fit
    <3> QED
      BY <2>2, <2>3, <2>4, <2>6, <3>2, <3>3
  <2> QED
    BY <2>5, <2>6
<1>3. T \in SUBSET Seq(Lines)
  BY DEF Texts
<1> HIDE DEF T
<1>4. T = Seq(Lines)
  BY <1>1, <1>2, <1>3, TextInduction
<1> QED
  BY <1>4 DEF T, Texts

----------------------------------------------------------------------------
(* Taking the rungs out: unrung, line by line. *)

WalkState == [out : Texts, block : Texts]
Walk0 == [out |-> <<>>, block |-> <<>>]

LEMMA MaxIs ==
  ASSUME NEW n \in Nat, NEW S \in SUBSET (1..n), S # {}
  PROVE  Max(S) \in S /\ \A m \in S : m <= Max(S)
<1> DEFINE R == {n - m : m \in S}
<1>0. \A m \in S : m \in Int /\ n - m \in Nat /\ n - m \in R
  OBVIOUS
<1>1. R \in SUBSET Nat /\ R # {}
  BY <1>0
<1>2. PICK r \in R : \A q \in R : r <= q
  <2> HIDE DEF R
  <2> QED
    BY <1>1, Least
<1>3. PICK k \in S : r = n - k
  OBVIOUS
<1>4. \A m \in S : m <= k
  <2>1. \A m \in S : n - k <= n - m
    BY <1>0, <1>2, <1>3
  <2> HIDE DEF R
  <2> QED
    BY <1>0, <2>1
<1> QED
  BY <1>4 DEF Max

LEMMA MinIs ==
  ASSUME NEW S \in SUBSET Nat, S # {}
  PROVE  Min(S) \in S
<1>1. \E x \in S : \A y \in S : x <= y
  BY Least
<1> QED
  BY <1>1 DEF Min

\* what unrung does with one line, where the heads above it are in the block
LEMMA UnrungLineIs ==
  ASSUME NEW a \in WalkState, NEW x \in Lines
  PROVE  /\ UnrungLine(a, x) \in WalkState
         /\ x.is = "head" => UnrungLine(a, x) = [out |-> a.out, block |-> Append(a.block, x)]
         /\ x.is # "head" /\ a.block # <<>> /\ a.block[Len(a.block)].by = "rung" =>
              UnrungLine(a, x) = [out |-> a.out \o SubSeq(a.block, 1, Len(a.block) - 1), block |-> <<>>]
         /\ x.is # "head" /\ (\A i \in 1..Len(a.block) : a.block[i].by = "rung" =>
                                \E j \in 1..Len(a.block) : j > i /\ a.block[j].by # "person") =>
              UnrungLine(a, x) = [out |-> Append(a.out \o a.block, x), block |-> <<>>]
<1> DEFINE dated == Dated(a.block)
           last == Max(dated)
           n == Len(a.block)
<1>1. a.out \in Texts /\ a.block \in Texts /\ a = [out |-> a.out, block |-> a.block]
  BY DEF WalkState
<1>2. /\ n \in Nat /\ DOMAIN a.block = 1..n /\ (a.block # <<>> <=> n # 0)
      /\ dated \in SUBSET (1..n) /\ \A i \in 1..n : i \in dated <=> a.block[i].by # "person"
  <2>1. n \in Nat /\ DOMAIN a.block = 1..n /\ (a.block # <<>> <=> n # 0)
    BY <1>1 DEF Texts
  <2> QED
    BY <2>1 DEF Dated
<1>3. dated # {} => last \in dated /\ \A m \in dated : m <= last
  BY <1>2, MaxIs
<1>9. [a EXCEPT !.block = Append(a.block, x)] = [out |-> a.out, block |-> Append(a.block, x)]
  BY DEF WalkState
<1>4. UnrungLine(a, x) =
        IF x.is = "head" THEN [out |-> a.out, block |-> Append(a.block, x)]
        ELSE IF dated # {} /\ a.block[last].by = "rung"
             THEN [out |-> a.out \o SubSeq(a.block, 1, last - 1), block |-> <<>>]
             ELSE [out |-> Append(a.out \o a.block, x), block |-> <<>>]
  BY <1>9, Zenon DEF UnrungLine
<1> HIDE DEF dated, last, n
<1>10. dated # {} => last \in 1..n
  BY <1>2, <1>3
<1>5. UnrungLine(a, x) \in WalkState
  <2>1. Append(a.block, x) \in Texts /\ Append(a.out \o a.block, x) \in Texts /\ <<>> \in Texts
    BY <1>1 DEF Texts
  <2>2. dated # {} => a.out \o SubSeq(a.block, 1, last - 1) \in Texts
    <3>1. dated # {} => last - 1 \in 0..n
      <4>1. \A k \in 1..n : k - 1 \in 0..n
        BY <1>2
      <4> QED
        BY <1>10, <4>1
    <3>2. dated # {} => SubSeq(a.block, 1, last - 1) \in Texts
      BY <1>1, <1>2, <3>1 DEF Texts, n
    <3> QED
      BY <1>1, <3>2 DEF Texts
  <2> QED
    BY <1>1, <1>4, <2>1, <2>2 DEF WalkState
<1>6. ASSUME x.is # "head", a.block # <<>>, a.block[n].by = "rung"
      PROVE  UnrungLine(a, x) = [out |-> a.out \o SubSeq(a.block, 1, n - 1), block |-> <<>>]
  <2>1. n \in dated
    BY <1>2, <1>6
  <2>2. last = n
    <3>1. last \in 1..n /\ n <= last
      BY <1>3, <1>10, <2>1
    <3> QED
      BY <1>2, <3>1
  <2> QED
    BY <1>4, <1>6, <2>1, <2>2
<1>7. ASSUME x.is # "head", \A i \in 1..n : a.block[i].by = "rung" => \E j \in 1..n : j > i /\ a.block[j].by # "person"
      PROVE  UnrungLine(a, x) = [out |-> Append(a.out \o a.block, x), block |-> <<>>]
  <2>1. ~(dated # {} /\ a.block[last].by = "rung")
    <3> SUFFICES ASSUME dated # {}, a.block[last].by = "rung" PROVE FALSE
      OBVIOUS
    <3>1. last \in 1..n
      BY <1>2, <1>3
    <3>2. PICK j \in 1..n : j > last /\ a.block[j].by # "person"
      BY <1>7, <3>1
    <3> QED
      BY <1>2, <1>3, <3>1, <3>2
  <2> QED
    BY <1>4, <1>7, <2>1
<1>8. x.is = "head" => UnrungLine(a, x) = [out |-> a.out, block |-> Append(a.block, x)]
  BY <1>4
<1> QED
  BY <1>5, <1>6, <1>7, <1>8 DEF n

Unrungs(f, t, n) == f[0] = Walk0 /\ \A i \in 1..n : f[i] = UnrungLine(f[i - 1], t[i])

LEMMA WalkedIs ==
  ASSUME NEW t \in Texts
  PROVE  \E f : f \in [0..Len(t) -> WalkState] /\ Unrungs(f, t, Len(t)) /\ Walked(t) = f[Len(t)]
<1> DEFINE N == Len(t)
           F == [x \in (1..N) \X WalkState |-> UnrungLine(x[2], t[x[1]])]
           walk[i \in 0..Len(t)] == IF i = 0 THEN [out |-> <<>>, block |-> <<>>] ELSE UnrungLine(walk[i - 1], t[i])
<1>1. Walk0 \in WalkState /\ N \in Nat
  BY TextIs DEF Walk0, WalkState
<1>2. F \in [(1..N) \X WalkState -> WalkState]
  <2>1. \A x \in (1..N) \X WalkState : x[2] \in WalkState /\ t[x[1]] \in Lines
    BY TextIs
  <2> QED
    BY <2>1, UnrungLineIs
<1> HIDE DEF walk
<1>3. PICK f : Recurs(f, N, WalkState, Walk0, F)
  <2> HIDE DEF F, N
  <2> QED
    BY <1>1, <1>2, Recursion
<1>4. \A i \in 1..N : i \in 0..N /\ i - 1 \in 0..N /\ i # 0 /\ f[i - 1] \in WalkState
  <2>1. f \in [0..N -> WalkState]
    BY <1>3 DEF Recurs
  <2> HIDE DEF F, N
  <2> QED
    BY <1>1, <2>1
<1>5. \A i \in 1..N : F[<<i, f[i - 1]>>] = UnrungLine(f[i - 1], t[i])
  <2> HIDE DEF N
  <2> QED
    BY <1>4
<1>6. f = [i \in 0..Len(t) |-> IF i = 0 THEN Walk0 ELSE UnrungLine(f[i - 1], t[i])]
  <2>1. f = [i \in 0..N |-> IF i = 0 THEN Walk0 ELSE F[<<i, f[i - 1]>>]]
    BY <1>3 DEF Recurs
  <2>2. \A i \in 0..N : i = 0 \/ i \in 1..N
    BY <1>1
  <2> HIDE DEF F
  <2> QED
    BY <1>5, <2>1, <2>2
<1>7. \E g : g = [i \in 0..Len(t) |-> IF i = 0 THEN [out |-> <<>>, block |-> <<>>] ELSE UnrungLine(g[i - 1], t[i])]
  BY ONLY <1>6, Zenon DEF Walk0
<1>8. walk = [i \in 0..Len(t) |-> IF i = 0 THEN Walk0 ELSE UnrungLine(walk[i - 1], t[i])]
  BY <1>7 DEF walk, Walk0
<1>9. Walked(t) = walk[Len(t)]
  BY DEF Walked, walk
<1>10. \A i \in 1..N : walk[i] = UnrungLine(walk[i - 1], t[i])
  <2>1. \A i \in 1..N : i \in 0..Len(t) /\ i # 0
    BY <1>1
  <2> QED
    BY <1>8, <2>1
<1>11. walk[0] = Walk0
  BY <1>1, <1>8
<1> DEFINE P == {i \in 0..N : walk[i] \in WalkState}
<1>12. P = 0..N
  <2>1. P \in SUBSET (0..N) /\ 0 \in P
    BY <1>1, <1>11
  <2>2. ASSUME NEW i \in 1..N, i - 1 \in P PROVE i \in P
    <3>1. walk[i - 1] \in WalkState /\ t[i] \in Lines
      BY <2>2, TextIs
    <3>2. walk[i] \in WalkState
      BY <1>10, <3>1, UnrungLineIs
    <3> QED
      BY <1>1, <3>2
  <2> HIDE DEF P, N
  <2> QED
    BY <1>1, <2>1, <2>2, UpTo
<1>13. walk \in [0..Len(t) -> WalkState]
  BY <1>8, <1>12
<1> QED
  BY <1>9, <1>10, <1>11, <1>13 DEF Unrungs

LEMMA UnrungsOne ==
  ASSUME NEW t, NEW u, NEW n \in Nat, NEW f, NEW g,
         \A i \in 1..n : t[i] = u[i], Unrungs(f, t, n), Unrungs(g, u, n)
  PROVE  f[n] = g[n]
<1> DEFINE P == {i \in 0..n : f[i] = g[i]}
<1>1. P \in SUBSET (0..n) /\ 0 \in P
  BY DEF Unrungs
<1>2. ASSUME NEW i \in 1..n, i - 1 \in P PROVE i \in P
  <2>1. f[i - 1] = g[i - 1] /\ t[i] = u[i]
    BY <1>2
  <2>2. f[i] = g[i]
    BY <2>1 DEF Unrungs
  <2> QED
    BY <2>2
<1>3. P = 0..n
  <2> HIDE DEF P
  <2> QED
    BY <1>1, <1>2, UpTo
<1> QED
  BY <1>3

LEMMA WalkedAppend ==
  ASSUME NEW t \in Texts, NEW x \in Lines
  PROVE  Walked(Append(t, x)) = UnrungLine(Walked(t), x) /\ Walked(t) \in WalkState
<1> DEFINE more == Append(t, x)
           n == Len(t)
<1>1. /\ more \in Texts /\ Len(more) = n + 1 /\ n \in Nat /\ more[n + 1] = x
      /\ \A i \in 1..n : more[i] = t[i]
  BY DEF Texts
<1>2. PICK f : f \in [0..n -> WalkState] /\ Unrungs(f, t, n) /\ Walked(t) = f[n]
  BY WalkedIs
<1> HIDE DEF more
<1>3. PICK g : Unrungs(g, more, n + 1) /\ Walked(more) = g[n + 1]
  BY <1>1, WalkedIs
<1> HIDE DEF n
<1>4. /\ \A i \in 1..n : i \in 1..(n + 1)
      /\ n + 1 \in 1..(n + 1) /\ n + 1 - 1 = n /\ n \in 0..n
  BY <1>1
<1>5. Unrungs(g, more, n)
  BY <1>3, <1>4 DEF Unrungs
<1>6. g[n] = f[n]
  <2>1. (\A i \in 1..n : t[i] = more[i]) /\ Unrungs(f, t, n)
    BY <1>1, <1>2
  <2> QED
    BY <1>1, <1>5, <2>1, UnrungsOne
<1>7. g[n + 1] = UnrungLine(g[n], x)
  BY <1>1, <1>3, <1>4 DEF Unrungs
<1> QED
  BY <1>2, <1>3, <1>4, <1>6, <1>7 DEF more

LEMMA WalkedNone == Walked(<<>>) = Walk0
<1>1. PICK f : Unrungs(f, <<>>, Len(<<>>)) /\ Walked(<<>>) = f[Len(<<>>)]
  BY TextIs, WalkedIs
<1> QED
  BY <1>1, TextIs DEF Unrungs

LEMMA CatIs ==
  ASSUME NEW s \in Texts, NEW t \in Texts, NEW x \in Lines
  PROVE  s \o t \in Texts /\ s \o <<>> = s /\ s \o Append(t, x) = Append(s \o t, x)
<1>1. s \in Seq(Lines) /\ t \in Seq(Lines) /\ s \o t \in Seq(Lines) /\ <<x>> \in Seq(Lines)
  BY DEF Texts
<1>2. Append(t, x) = t \o <<x>> /\ Append(s \o t, x) = (s \o t) \o <<x>>
  BY <1>1, AppendIsConcat
<1>3. (s \o t) \o <<x>> = s \o (t \o <<x>>)
  BY <1>1, ConcatAssociative
<1>4. s \o <<>> = s
  BY <1>1, ConcatEmptySeq
<1> QED
  BY <1>1, <1>2, <1>3, <1>4 DEF Texts

LEMMA CatAppend == \A s, t \in Texts, x \in Lines : s \o Append(t, x) = Append(s \o t, x)
BY CatIs

LEMMA TheirsAppend ==
  ASSUME NEW t \in Texts, NEW x \in Lines
  PROVE  Theirs(Append(t, x)) = IF x \in Peoples THEN Append(Theirs(t), x) ELSE Theirs(t)
<1>1. Append(t, x) \in Texts
  BY TextIs
<1>2. Theirs(Append(t, x)) = Sel(Append(t, x), Peoples) /\ Theirs(t) = Sel(t, Peoples)
  BY <1>1, TextsAre
<1> QED
  BY <1>2, SelAppend

\* what comes out of a text, and the heads it is at
Unwound(t, a) ==
  LET u == a.out \o a.block
  IN  /\ u \in Texts /\ Theirs(u) = Theirs(t)
      /\ Open(u) /\ (LastHead(u) <=> LastHead(t)) /\ (LastHead(a.block) <=> LastHead(t))
      /\ \A l \in Elems(u) : ~RungLine(l)
      /\ \A i \in 1..Len(a.block) : RungHead(a.block[i]) /\ i # Len(a.block) => Fixed(a.block[i + 1])
      /\ \A i \in 1..Len(a.block) : a.block[i].is = "head"

LEMMA UnrungHead ==
  ASSUME NEW t \in Texts, NEW x \in Lines, Unwound(t, Walked(t)), Open(Append(t, x)), x.is = "head"
  PROVE  Unwound(Append(t, x), Walked(Append(t, x)))
<1> DEFINE a == Walked(t)
           b == Walked(Append(t, x))
           u == a.out \o a.block
           more == Append(a.block, x)
<1>1. a \in WalkState /\ b = UnrungLine(a, x)
  BY WalkedAppend
<1>2. b = [out |-> a.out, block |-> more]
  BY <1>1, UnrungLineIs
<1>3. a.out \in Texts /\ a.block \in Texts /\ u \in Texts
  BY <1>1 DEF WalkState, Unwound
<1>4. b.out \o b.block = Append(u, x)
  <2>1. a.out \o Append(a.block, x) = Append(a.out \o a.block, x)
    BY <1>3, CatIs
  <2> HIDE DEF a, b
  <2> QED
    BY <1>2, <2>1
<1> HIDE DEF b
<1>5. Fit(t, x) /\ (LastHead(Append(t, x)) <=> RungHead(x)) /\ Open(t)
  BY OpenAppend
<1>6. Append(u, x) \in Texts /\ Append(t, x) \in Texts
  BY <1>3, TextIs
<1>7. Theirs(Append(u, x)) = Theirs(Append(t, x))
  <2>1. Theirs(u) = Theirs(t)
    BY DEF Unwound
  <2> QED
    BY <1>3, <2>1, TheirsAppend
<1>8. Fit(u, x) /\ Open(u)
  BY <1>5 DEF Unwound, Fit
<1>9. Open(Append(u, x)) /\ (LastHead(Append(u, x)) <=> RungHead(x)) /\ (LastHead(more) <=> RungHead(x))
  BY <1>3, <1>8, OpenAppend
<1>10. \A l \in Elems(Append(u, x)) : ~RungLine(l)
  <2>1. ~RungLine(x)
    BY DEF RungLine
  <2> QED
    BY <1>3, <2>1, ElemsIs DEF Unwound
<1>11. /\ Len(more) = Len(a.block) + 1 /\ Len(a.block) \in Nat /\ more[Len(a.block) + 1] = x
       /\ \A i \in 1..Len(a.block) : more[i] = a.block[i]
  <2> HIDE DEF a
  <2> QED
    BY <1>3 DEF Texts
<1>12. \A i \in 1..Len(more) : more[i].is = "head"
  <2> SUFFICES ASSUME NEW i \in 1..Len(more) PROVE more[i].is = "head"
    OBVIOUS
  <2>1. i \in 1..Len(a.block) \/ i = Len(a.block) + 1
    BY <1>11
  <2>2. \A j \in 1..Len(a.block) : a.block[j].is = "head"
    BY DEF Unwound
  <2> QED
    BY <1>11, <2>1, <2>2
<1>13. \A i \in 1..Len(more) : RungHead(more[i]) /\ i # Len(more) => Fixed(more[i + 1])
  <2> SUFFICES ASSUME NEW i \in 1..Len(more), RungHead(more[i]), i # Len(more) PROVE Fixed(more[i + 1])
    OBVIOUS
  <2>1. i \in 1..Len(a.block) /\ RungHead(a.block[i]) /\ (i # Len(a.block) => i + 1 \in 1..Len(a.block))
    BY <1>11
  <2>2. CASE i # Len(a.block)
    <3>1. Fixed(a.block[i + 1])
      BY <2>1, <2>2 DEF Unwound
    <3> QED
      BY <1>11, <2>1, <2>2, <3>1
  <2>3. CASE i = Len(a.block)
    <3>1. LastHead(a.block)
      <4>1. a.block # <<>>
        BY <2>1, <2>3
      <4> QED
        BY <2>1, <2>3, <4>1 DEF LastHead
    <3>2. LastHead(t)
      BY <3>1 DEF Unwound
    <3>3. Fixed(x)
      BY <1>5, <3>2 DEF Fit, RungLine
    <3> QED
      BY <1>11, <2>3, <3>3
  <2> QED
    BY <2>2, <2>3
<1>14. b.block = more
  BY <1>2
<1> QED
  BY <1>4, <1>5, <1>6, <1>7, <1>9, <1>10, <1>12, <1>13, <1>14 DEF Unwound, b

\* a rung's line goes with the head above it
LEMMA UnrungGone ==
  ASSUME NEW t \in Texts, NEW x \in Lines, Unwound(t, Walked(t)), Open(Append(t, x)), RungLine(x)
  PROVE  Unwound(Append(t, x), Walked(Append(t, x)))
<1> DEFINE a == Walked(t)
           b == Walked(Append(t, x))
           u == a.out \o a.block
           n == Len(a.block)
           h == a.block[n]
           v == a.out \o SubSeq(a.block, 1, n - 1)
<1>1. a \in WalkState /\ b = UnrungLine(a, x)
  BY WalkedAppend
<1>2. Fit(t, x) /\ (LastHead(Append(t, x)) <=> RungHead(x)) /\ Open(t)
  BY OpenAppend
<1>3. LastHead(t) /\ LastHead(a.block)
  BY <1>2 DEF Fit, Unwound
<1>4. x.is # "head" /\ x.by = "rung" /\ ~RungHead(x) /\ a.block # <<>> /\ RungHead(h)
  BY <1>3 DEF LastHead, RungLine, RungHead
<1>5. b = [out |-> v, block |-> <<>>]
  BY <1>1, <1>4, UnrungLineIs DEF RungHead
<1>6. a.out \in Texts /\ a.block \in Texts /\ u \in Texts /\ Append(t, x) \in Texts
  BY <1>1, TextIs DEF WalkState, Unwound
<1>7. v \in Texts /\ h \in Lines /\ u = Append(v, h) /\ v \o <<>> = v
  <2>1. n \in Nat /\ n # 0 /\ h \in Lines
    <3> HIDE DEF a
    <3> QED
      BY <1>4, <1>6 DEF Texts
  <2>2. SubSeq(a.block, 1, n - 1) \in Texts
    <3> HIDE DEF a
    <3> QED
      BY <1>6, <2>1 DEF Texts
  <2>3. a.block = Append(SubSeq(a.block, 1, n - 1), h)
    <3> HIDE DEF a
    <3> QED
      BY <1>6, <2>1, <2>2 DEF Texts
  <2>4. v \in Texts /\ v \o <<>> = v
    BY <1>6, <2>1, <2>2, CatIs
  <2>5. a.out \o Append(SubSeq(a.block, 1, n - 1), h) = Append(v, h)
    BY <1>6, <2>1, <2>2, CatAppend, Zenon
  <2> QED
    BY <2>1, <2>3, <2>4, <2>5
<1> HIDE DEF b, v, h
<1>8. Open(u)
  BY DEF Unwound
<1>9. Open(v) /\ ~LastHead(v)
  <2>1. Open(v) /\ Fit(v, h)
    BY <1>7, <1>8, OpenAppend
  <2> QED
    BY <1>4, <2>1 DEF Fit, RungHead, RungLine, Fixed
<1>10. Theirs(v) = Theirs(Append(t, x))
  <2>1. h \notin Peoples /\ x \notin Peoples
    BY <1>4 DEF Peoples, RungHead
  <2>2. Theirs(u) = Theirs(v) /\ Theirs(Append(t, x)) = Theirs(t)
    BY <1>6, <1>7, <2>1, TextsAre, SelAppend
  <2>3. Theirs(u) = Theirs(t)
    BY DEF Unwound
  <2> QED
    BY <2>2, <2>3
<1>11. \A l \in Elems(v) : ~RungLine(l)
  <2>1. Elems(u) = Elems(v) \cup {h}
    BY <1>7, ElemsIs
  <2> QED
    BY <2>1 DEF Unwound
<1>12. b.out = v /\ b.block = <<>> /\ Len(<<>>) = 0 /\ ~LastHead(<<>>)
  BY <1>5, TextIs, OpenNone
<1> QED
  BY <1>2, <1>4, <1>7, <1>9, <1>10, <1>11, <1>12 DEF Unwound, b

\* any other line stays, with the heads above it
LEMMA UnrungStays ==
  ASSUME NEW t \in Texts, NEW x \in Lines, Unwound(t, Walked(t)), Open(Append(t, x)), ~RungLine(x), x.is # "head"
  PROVE  Unwound(Append(t, x), Walked(Append(t, x)))
<1> DEFINE a == Walked(t)
           b == Walked(Append(t, x))
           u == a.out \o a.block
           n == Len(a.block)
<1>1. a \in WalkState /\ b = UnrungLine(a, x)
  BY WalkedAppend
<1>2. Fit(t, x) /\ (LastHead(Append(t, x)) <=> RungHead(x)) /\ Open(t)
  BY OpenAppend
<1>3. ~RungHead(x) /\ ~Fixed(x) /\ ~LastHead(t) /\ ~LastHead(a.block) /\ ~LastHead(u)
  BY <1>2 DEF Fit, RungHead, Fixed, Unwound
<1>4. a.out \in Texts /\ a.block \in Texts /\ u \in Texts /\ Append(t, x) \in Texts
  BY <1>1, TextIs DEF WalkState, Unwound
<1>5. \A i \in 1..n : a.block[i].by = "rung" => \E j \in 1..n : j > i /\ a.block[j].by # "person"
  <2> SUFFICES ASSUME NEW i \in 1..n, a.block[i].by = "rung" PROVE \E j \in 1..n : j > i /\ a.block[j].by # "person"
    OBVIOUS
  <2>1. RungHead(a.block[i])
    BY DEF Unwound, RungHead
  <2>2. n \in Nat /\ i # n
    <3>1. n \in Nat /\ (i = n => a.block # <<>>)
      <4> HIDE DEF a
      <4> QED
        BY <1>4 DEF Texts
    <3> QED
      BY <1>3, <2>1, <3>1 DEF LastHead
  <2>3. Fixed(a.block[i + 1])
    BY <2>1, <2>2 DEF Unwound
  <2>4. i + 1 \in 1..n /\ i + 1 > i
    BY <2>2
  <2> QED
    BY <2>3, <2>4 DEF Fixed
<1>6. b = [out |-> Append(u, x), block |-> <<>>]
  BY <1>1, <1>5, UnrungLineIs
<1>7. Append(u, x) \in Texts /\ Append(u, x) \o <<>> = Append(u, x)
  <2>1. Append(u, x) \in Texts
    BY <1>4, TextIs
  <2> HIDE DEF u
  <2> QED
    BY <2>1 DEF Texts
<1> HIDE DEF b
<1>8. Open(Append(u, x)) /\ (LastHead(Append(u, x)) <=> RungHead(x))
  <2>1. Open(u) /\ Fit(u, x)
    BY <1>2, <1>3 DEF Unwound, Fit
  <2> QED
    BY <1>4, <2>1, OpenAppend
<1>9. Theirs(Append(u, x)) = Theirs(Append(t, x))
  <2>1. Theirs(u) = Theirs(t)
    BY DEF Unwound
  <2> QED
    BY <1>4, <2>1, TheirsAppend
<1>10. \A l \in Elems(Append(u, x)) : ~RungLine(l)
  BY <1>4, ElemsIs DEF Unwound
<1>11. b.out = Append(u, x) /\ b.block = <<>> /\ Len(<<>>) = 0 /\ ~LastHead(<<>>)
  BY <1>6, TextIs, OpenNone
<1> QED
  BY <1>2, <1>3, <1>7, <1>8, <1>9, <1>10, <1>11 DEF Unwound, b

\* No rung's line is left, and every other is.
LEMMA UnrungKeeps ==
  ASSUME NEW t \in Texts, Headed(t)
  PROVE  /\ Unrung(t) \in Texts /\ Theirs(Unrung(t)) = Theirs(t) /\ Headed(Unrung(t))
         /\ \A l \in Elems(Unrung(t)) : ~RungLine(l)
<1> DEFINE T == {s \in Texts : Open(s) => Unwound(s, Walked(s))}
<1>1. <<>> \in T
  <2>1. Walked(<<>>).out = <<>> /\ Walked(<<>>).block = <<>> /\ <<>> \o <<>> = <<>>
    BY WalkedNone, TextIs, CatIs DEF Walk0
  <2>2. Unwound(<<>>, Walked(<<>>))
    <3> DEFINE a == Walked(<<>>)
    <3>1. a.out \o a.block = <<>> /\ a.block = <<>> /\ \A i \in 1..Len(<<>>) : FALSE
      BY <2>1, TextIs
    <3> HIDE DEF a
    <3>2. Unwound(<<>>, a)
      BY <3>1, TextIs, OpenNone, ElemsIs DEF Unwound
    <3> QED
      BY <3>2 DEF a
  <2> QED
    BY <2>2, TextIs
<1>2. ASSUME NEW s \in T, NEW x \in Lines PROVE Append(s, x) \in T
  <2>1. s \in Texts /\ Append(s, x) \in Texts
    BY TextIs
  <2> SUFFICES ASSUME Open(Append(s, x)) PROVE Unwound(Append(s, x), Walked(Append(s, x)))
    BY <2>1
  <2>2. Unwound(s, Walked(s))
    BY <2>1, OpenAppend
  <2> QED
    BY <2>1, <2>2, UnrungHead, UnrungGone, UnrungStays DEF RungLine
<1>3. T \in SUBSET Seq(Lines)
  BY DEF Texts
<1> HIDE DEF T
<1>4. T = Seq(Lines)
  BY <1>1, <1>2, <1>3, TextInduction
<1>5. Unwound(t, Walked(t)) /\ ~LastHead(t)
  BY <1>4, HeadedIs DEF T, Texts
<1> QED
  BY <1>5, HeadedIs DEF Unwound, Unrung

----------------------------------------------------------------------------
(* What is written to a text. *)

Fine(t) == t \in Texts /\ Headed(t)

LEMMA PrefixIs ==
  /\ \A s \in Texts : IsPrefix(s, s)
  /\ \A s, t \in Texts, x \in Lines : IsPrefix(s, t) => IsPrefix(s, Append(t, x))
<1>1. \A s \in Texts : IsPrefix(s, s)
  BY DEF IsPrefix, Texts
<1>2. ASSUME NEW s \in Texts, NEW t \in Texts, NEW x \in Lines, IsPrefix(s, t) PROVE IsPrefix(s, Append(t, x))
  <2>1. Len(s) \in Nat /\ Len(t) \in Nat /\ Len(s) <= Len(t) /\ SubSeq(s, 1, Len(s)) = SubSeq(t, 1, Len(s))
    BY <1>2 DEF IsPrefix, Texts
  <2>2. SubSeq(Append(t, x), 1, Len(s)) = SubSeq(t, 1, Len(s))
    <3>1. t \in Seq(Lines) /\ <<x>> \in Seq(Lines) /\ Append(t, x) = t \o <<x>> /\ 1 \in Nat /\ 1 >= 1
      BY AppendIsConcat DEF Texts
    <3> QED
      BY <2>1, <3>1 DEF Texts
  <2>3. Len(Append(t, x)) = Len(t) + 1
    BY TextIs
  <2> QED
    BY <2>1, <2>2, <2>3 DEF IsPrefix
<1> QED
  BY <1>1, <1>2

LEMMA RungsAre ==
  ASSUME NEW t \in Texts
  PROVE  RungsIn(t) = {l.key : l \in {m \in Elems(t) : m.by = "rung" /\ m.is = "set"}}
BY Zenon DEF RungsIn, Elems

LEMMA RungsAppend ==
  ASSUME NEW t \in Texts, NEW x \in Lines
  PROVE  RungsIn(Append(t, x)) = IF x.by = "rung" /\ x.is = "set" THEN RungsIn(t) \cup {x.key} ELSE RungsIn(t)
<1>1. Append(t, x) \in Texts /\ Elems(Append(t, x)) = Elems(t) \cup {x}
  BY TextIs, ElemsIs
<1> QED
  BY <1>1, RungsAre

LEMMA TwoIs ==
  ASSUME NEW t \in Texts, NEW x \in Lines, NEW y \in Lines
  PROVE  t \o <<x, y>> = Append(Append(t, x), y)
BY DEF Texts

LEMMA HeaderIs ==
  \A mark \in {"person", "fix", "rung", "stuck"} :
    Header(mark) \in Lines /\ Header(mark).is = "head" /\ Header(mark).by = mark
<1>1. "" \in STRING
  BY FlagsAssumption
<1>2. Nothing \in Flag
  BY <1>1 DEF Nothing, Flag
<1> QED
  BY <1>1, <1>2 DEF Header, Lines

LEMMA BlankIs == Blank \in Lines /\ Blank.is = "blank" /\ Blank.by = "stuck"
<1>1. Header("stuck") \in Lines /\ Header("stuck").by = "stuck"
  BY HeaderIs
<1> HIDE DEF Header
<1> QED
  BY <1>1 DEF Blank, Lines

LEMMA ByIs ==
  ASSUME NEW l \in Lines, NEW mark \in {"fix", "rung"}
  PROVE  /\ [l EXCEPT !.by = mark] \in Lines /\ [l EXCEPT !.by = mark].by = mark
         /\ [l EXCEPT !.by = mark].is = l.is /\ [l EXCEPT !.by = mark].key = l.key
BY DEF Lines

\* a line that is set, behind what is there
LEMMA EditIs ==
  ASSUME NEW t, Fine(t), NEW l \in Lines, Mine(l)
  PROVE  Fine(Append(t, l))
<1>1. t \in Texts /\ Open(t) /\ ~LastHead(t) /\ Append(t, l) \in Texts
  BY HeadedIs, TextIs DEF Fine
<1>2. Fit(t, l) /\ ~RungHead(l)
  BY <1>1 DEF Fit, Mine, RungLine, RungHead
<1> QED
  BY <1>1, <1>2, OpenAppend, HeadedIs DEF Fine

LEMMA NotedIs ==
  ASSUME NEW t, Fine(t), NEW l \in Lines, l.is = "set", NEW mark \in {"fix", "rung"}
  PROVE  /\ Fine(Noted(t, l, mark)) /\ IsPrefix(Theirs(t), Theirs(Noted(t, l, mark)))
         /\ RungsIn(Noted(t, l, mark)) \subseteq RungsIn(t) \cup (IF mark = "rung" THEN {l.key} ELSE {})
<1> DEFINE h == Header(mark)
           m == [l EXCEPT !.by = mark]
           one == Append(t, h)
           two == Append(one, m)
<1>1. t \in Texts /\ Open(t) /\ ~LastHead(t) /\ Theirs(t) \in Texts
  BY HeadedIs, TextsAre, SelTyped DEF Fine
<1>2. h \in Lines /\ h.is = "head" /\ h.by = mark /\ m \in Lines /\ m.by = mark /\ m.is = "set" /\ m.key = l.key
  BY HeaderIs, ByIs
<1>3. CASE Has(t, l)
  <2>1. Noted(t, l, mark) = t
    BY <1>3 DEF Noted
  <2> QED
    BY <1>1, <2>1, PrefixIs
<1>4. CASE ~Has(t, l)
  <2>1. Noted(t, l, mark) = two
    BY <1>1, <1>2, <1>4, TwoIs DEF Noted
  <2> HIDE DEF h, m
  <2>2. one \in Texts /\ two \in Texts
    BY <1>1, <1>2, TextIs
  <2>3. Open(one) /\ (LastHead(one) <=> mark = "rung")
    <3>1. Fit(t, h) /\ (RungHead(h) <=> mark = "rung")
      BY <1>1, <1>2 DEF Fit, RungLine, RungHead, Fixed
    <3> QED
      BY <1>1, <1>2, <3>1, OpenAppend
  <2> HIDE DEF one
  <2>4. Open(two) /\ ~LastHead(two)
    <3>1. Fit(one, m) /\ ~RungHead(m)
      BY <1>2, <2>3 DEF Fit, RungLine, RungHead, Fixed
    <3> QED
      BY <1>2, <2>2, <2>3, <3>1, OpenAppend
  <2>5. IsPrefix(Theirs(t), Theirs(two))
    <3>1. Theirs(one) = IF mark = "fix" THEN Append(Theirs(t), h) ELSE Theirs(t)
      BY <1>1, <1>2, TheirsAppend DEF Peoples, one
    <3>2. Theirs(two) = IF mark = "fix" THEN Append(Theirs(one), m) ELSE Theirs(one)
      BY <1>2, <2>2, TheirsAppend DEF Peoples
    <3>3. Theirs(one) \in Texts /\ IsPrefix(Theirs(t), Theirs(t))
      BY <1>1, <2>2, TextsAre, SelTyped, PrefixIs
    <3> QED
      BY <1>1, <1>2, <3>1, <3>2, <3>3, PrefixIs
  <2>6. RungsIn(two) \subseteq RungsIn(t) \cup (IF mark = "rung" THEN {l.key} ELSE {})
    <3>1. RungsIn(one) = RungsIn(t)
      BY <1>1, <1>2, RungsAppend DEF one
    <3> QED
      BY <1>2, <2>2, <3>1, RungsAppend
  <2> QED
    BY <2>1, <2>2, <2>4, <2>5, <2>6, HeadedIs DEF Fine
<1> QED
  BY <1>3, <1>4

LEMMA StuckIs ==
  ASSUME NEW t, Fine(t)
  PROVE  Fine(Stuck(t)) /\ Unstuck(Stuck(t)) = Unstuck(t) /\ Theirs(Stuck(t)) = Theirs(t)
<1> DEFINE h == Header("stuck")
           one == Append(t, h)
           two == Append(one, Blank)
<1>1. t \in Texts /\ Open(t) /\ ~LastHead(t)
  BY HeadedIs DEF Fine
<1>2. h \in Lines /\ h.is = "head" /\ h.by = "stuck" /\ Blank \in Lines /\ Blank.is = "blank" /\ Blank.by = "stuck"
  BY HeaderIs, BlankIs
<1>3. Stuck(t) = two
  BY <1>1, <1>2, TwoIs DEF Stuck
<1> HIDE DEF h
<1>4. one \in Texts /\ two \in Texts
  BY <1>1, <1>2, TextIs
<1>5. Open(one) /\ ~LastHead(one)
  <2>1. Fit(t, h) /\ ~RungHead(h)
    BY <1>1, <1>2 DEF Fit, RungLine, RungHead
  <2> QED
    BY <1>1, <1>2, <2>1, OpenAppend
<1>6. h \notin Calm /\ h \notin Peoples /\ Blank \notin Calm /\ Blank \notin Peoples
  BY <1>2 DEF Calm, Peoples
<1>7. Sel(one, Calm) = Sel(t, Calm) /\ Sel(one, Peoples) = Sel(t, Peoples)
  BY <1>1, <1>2, <1>6, SelAppend
<1> HIDE DEF one
<1>8. Open(two) /\ ~LastHead(two)
  <2>1. Fit(one, Blank) /\ ~RungHead(Blank)
    BY <1>2, <1>5 DEF Fit, RungLine, RungHead
  <2> QED
    BY <1>2, <1>4, <1>5, <2>1, OpenAppend
<1>9. Sel(two, Calm) = Sel(one, Calm) /\ Sel(two, Peoples) = Sel(one, Peoples)
  BY <1>2, <1>4, <1>6, SelAppend
<1> QED
  BY <1>1, <1>3, <1>4, <1>7, <1>8, <1>9, TextsAre, HeadedIs DEF Fine

LEMMA UnstuckIs ==
  ASSUME NEW t, Fine(t)
  PROVE  /\ Fine(Unstuck(t)) /\ Theirs(Unstuck(t)) = Theirs(t) /\ Settings(Unstuck(t)) = Settings(t)
         /\ RungsIn(Unstuck(t)) \subseteq RungsIn(t)
<1>1. t \in Texts /\ Open(t) /\ ~LastHead(t)
  BY HeadedIs DEF Fine
<1>2. Unstuck(t) \in Texts /\ Theirs(Unstuck(t)) = Theirs(t) /\ Elems(Unstuck(t)) = Elems(t) \cap Calm
  BY <1>1, UnstuckKeeps
<1>3. Fine(Unstuck(t))
  BY <1>1, <1>2, UnstuckOpen, HeadedIs DEF Fine
<1>4. RungsIn(Unstuck(t)) \subseteq RungsIn(t)
  BY <1>1, <1>2, RungsAre
<1> QED
  BY <1>1, <1>2, <1>3, <1>4, UnstuckSettles

LEMMA UnrungIs ==
  ASSUME NEW t, Fine(t)
  PROVE  /\ Fine(Unrung(t)) /\ Theirs(Unrung(t)) = Theirs(t) /\ RungsIn(Unrung(t)) = {}
         /\ t = <<>> => Unrung(t) = <<>>
<1>1. t \in Texts /\ Headed(t)
  BY DEF Fine
<1>2. /\ Unrung(t) \in Texts /\ Theirs(Unrung(t)) = Theirs(t) /\ Headed(Unrung(t))
      /\ \A l \in Elems(Unrung(t)) : ~RungLine(l)
  BY <1>1, UnrungKeeps
<1>3. RungsIn(Unrung(t)) = {}
  BY <1>2, RungsAre DEF RungLine
<1>4. Unrung(<<>>) = <<>>
  BY WalkedNone, CatIs, TextIs DEF Unrung, Walk0
<1> QED
  BY <1>2, <1>3, <1>4 DEF Fine

----------------------------------------------------------------------------
(* The invariant. *)

Keys(k) == {Ladder[j][2].key : j \in 1..k}

\* the files, what recover found and what the command found
Typed ==
  /\ file \in [Files -> Texts] /\ had \in [Written -> Texts] /\ kept \in [Written -> Texts]
  /\ \A f \in Written : Headed(file[f]) /\ Headed(had[f]) /\ Headed(kept[f])
  /\ rung \in 0..Len(Ladder) /\ scan \in {"none", "clean", "stale"}

\* a command that runs has not ended
Phases ==
  /\ pc \in {"idle", "build", "in", "apply", "drop"} /\ cmd \in {"none", "build", "install", "rebuild", "bisect"}
  /\ pc # "idle" => ended = "none"
  /\ pc \in {"in", "apply", "drop"} => cmd # "bisect"

\* while no person writes, a build has the flags of now, and so has what rebuild put in; what
\* waits for the writer lock has those that resolved when it was asked for
Current ==
  /\ pc = "build" /\ ~touched => fl = Now
  /\ pc = "apply" => art[1].flags = asked.record /\ (touched \/ asked = Now)
  /\ pc = "drop" /\ ~touched => rec = Now.record

\* what recover found is what the command found, or that without its rungs; what is there
\* has all people's lines of it, and of rungs those climbed
Found(h, k) ==
  /\ Theirs(h) = Theirs(k) /\ (k = <<>> => h = <<>>)
  /\ cmd # "bisect" => h = k
Adds(t, k) ==
  /\ IsPrefix(Theirs(k), Theirs(t))
  /\ cmd = "bisect" => RungsIn(t) \subseteq Keys(rung)
Honest ==
  /\ \A f \in Written : Found(had[f], kept[f])
  /\ pc # "idle" /\ ~touched => \A f \in Written : Adds(file[f], kept[f])

IInv == Typed /\ Phases /\ Current /\ Honest /\ NotesHonest

LEMMA LadderIs ==
  /\ Len(Ladder) \in Nat /\ 0 \in 0..Len(Ladder) /\ DOMAIN Ladder = 1..Len(Ladder)
  /\ \A k \in 1..Len(Ladder) : Ladder[k][1] \in Written /\ Ladder[k][2] \in Lines /\ Mine(Ladder[k][2])
<1>1. Ladder \in Seq(Written \X Lines) /\ \A k \in DOMAIN Ladder : Mine(Ladder[k][2])
  BY FlagsAssumption
<1>2. Len(Ladder) \in Nat /\ DOMAIN Ladder = 1..Len(Ladder) /\ \A k \in 1..Len(Ladder) : Ladder[k] \in Written \X Lines
  BY <1>1
<1> QED
  BY <1>1, <1>2

LEMMA RulesAre ==
  /\ DOMAIN Rules \subseteq Nat
  /\ \A k \in DOMAIN Rules : /\ Rules[k].act.file \in Written /\ Rules[k].act.line \in Lines
                             /\ Rules[k].act.verb # "notaflag" => Mine(Rules[k].act.line)
<1> DEFINE Acts == [verb : {"write", "halve", "notaflag"}, file : Written, line : Lines]
<1>1. /\ Rules \in Seq([on : STRING, act : Acts])
      /\ \A k \in DOMAIN Rules : Rules[k].act.verb # "notaflag" => Mine(Rules[k].act.line)
  BY FlagsAssumption
<1>2. \A a \in Acts : a.file \in Written /\ a.line \in Lines
  OBVIOUS
<1> HIDE DEF Acts
<1> DEFINE Rows == [on : STRING, act : Acts]
<1>5. Rules \in Seq(Rows) /\ \A r \in Rows : r.act \in Acts
  BY <1>1
<1> HIDE DEF Rows
<1>3. Len(Rules) \in Nat /\ DOMAIN Rules = 1..Len(Rules) /\ \A k \in 1..Len(Rules) : Rules[k] \in Rows
  BY <1>5
<1>4. \A k \in DOMAIN Rules : Rules[k].act \in Acts
  BY <1>3, <1>5
<1> QED
  BY <1>1, <1>2, <1>3, <1>4

LEMMA FilesAre ==
  ASSUME Typed
  PROVE  /\ \A f \in Written : f \in Files /\ Fine(file[f]) /\ Fine(had[f]) /\ Fine(kept[f])
         /\ \A f \in Files : file[f] \in Texts
BY DEF Typed, Fine, Files, Written

\* what resolves is what the lines that are set say
LEMMA ResolveIs ==
  ASSUME NEW f, NEW g, \A i \in Files : Settings(f[i]) = Settings(g[i])
  PROVE  Resolve(f) = Resolve(g)
BY DEF Resolve, Files

LEMMA BothIs ==
  ASSUME Typed
  PROVE  Both \in [Written -> Texts] /\ \A f \in Written : Both[f] = file[f]
<1>1. \A f \in Written : file[f] \in Texts
  BY FilesAre DEF Fine
<1> QED
  BY <1>1 DEF Both

LEMMA OverIs ==
  ASSUME Typed, NEW w \in [Written -> Texts]
  PROVE  /\ Over(w) \in [Files -> Texts] /\ \A f \in Written : Over(w)[f] = w[f]
         /\ w = Both => Over(w) = file
<1>1. /\ \A f \in Written : f \in Files /\ file[f] \in Texts /\ w[f] \in Texts
      /\ \A f \in Files : file[f] \in Texts
  BY FilesAre DEF Fine
<1>2. Over(w) \in [Files -> Texts] /\ \A f \in Written : Over(w)[f] = w[f]
  BY <1>1 DEF Over
<1>3. Both \in [Written -> Texts] /\ \A f \in Written : Both[f] = file[f]
  BY BothIs
<1>4. ASSUME w = Both PROVE Over(w) = file
  <2>1. \A f \in Files : Over(w)[f] = file[f]
    BY <1>3, <1>4 DEF Over
  <2>2. file \in [Files -> Texts]
    BY DEF Typed
  <2> QED
    BY <1>2, <2>1, <2>2
<1> QED
  BY <1>2, <1>3, <1>4

----------------------------------------------------------------------------
(* How a command starts. *)

LEMMA NowStays == file' = file => Now' = Now
BY DEF Now

LEMMA StartsIs ==
  ASSUME IInv, NEW c \in {"build", "install", "rebuild", "bisect"}, NEW w \in [Written -> Texts], Starts(c, w),
         \A f \in Written : /\ Headed(w[f]) /\ Theirs(w[f]) = Theirs(file[f]) /\ (file[f] = <<>> => w[f] = <<>>)
                            /\ IF c = "bisect" THEN RungsIn(w[f]) = {} ELSE w[f] = file[f]
  PROVE  /\ Typed' /\ Honest' /\ cmd' = c /\ ended' = "none" /\ ~touched' /\ rec' = rec /\ scan' = scan
         /\ w = Both => file' = file
<1>1. Typed
  BY DEF IInv
<1>2. /\ cmd' = c /\ kept' = Both /\ had' = w /\ rung' = 0 /\ file' = Over(w) /\ touched' = FALSE
      /\ ended' = "none" /\ rec' = rec /\ scan' = scan
  BY DEF Starts
<1>3. Over(w) \in [Files -> Texts] /\ (\A f \in Written : Over(w)[f] = w[f]) /\ (w = Both => Over(w) = file)
  BY <1>1, OverIs
<1>4. Both \in [Written -> Texts] /\ \A f \in Written : Both[f] = file[f]
  BY <1>1, BothIs
<1>5. Typed'
  <2>1. 0 \in 0..Len(Ladder)
    BY LadderIs
  <2>2. \A f \in Written : Headed(file[f]) /\ Headed(w[f])
    BY <1>1 DEF Typed
  <2> QED
    BY <1>1, <1>2, <1>3, <1>4, <2>1, <2>2 DEF Typed
<1>6. ASSUME NEW f \in Written PROVE Found(had[f], kept[f])' /\ Adds(file[f], kept[f])'
  <2>1. had'[f] = w[f] /\ kept'[f] = file[f] /\ file'[f] = w[f] /\ rung' = 0 /\ cmd' = c
    BY <1>2, <1>3, <1>4
  <2>2. Theirs(w[f]) = Theirs(file[f]) /\ Theirs(file[f]) \in Texts /\ IsPrefix(Theirs(file[f]), Theirs(w[f]))
    <3>1. file[f] \in Texts
      BY <1>1, FilesAre DEF Fine
    <3>2. Theirs(file[f]) \in Texts
      BY <3>1, TextsAre, SelTyped
    <3> QED
      BY <3>2, PrefixIs
  <2>3. c = "bisect" => RungsIn(w[f]) \subseteq Keys(0)
    OBVIOUS
  <2>4. Found(had[f], kept[f])'
    BY <2>1, <2>2 DEF Found
  <2>5. Adds(file[f], kept[f])'
    BY <2>1, <2>2, <2>3 DEF Adds
  <2> QED
    BY <2>4, <2>5
<1>7. Honest'
  BY <1>6 DEF Honest
<1> QED
  BY <1>2, <1>3, <1>5, <1>7

\* nothing is said of a command that has not ended
LEMMA NotEnded == ended' \notin {"ok", "stuck"} => NotesHonest'
BY DEF NotesHonest

LEMMA InvBuildCmd == IInv /\ BuildCmd => IInv'
<1> SUFFICES ASSUME IInv, BuildCmd PROVE IInv'
  OBVIOUS
<1>1. Typed
  BY DEF IInv
<1>2. Both \in [Written -> Texts] /\ Starts("build", Both) /\ Building
  BY <1>1, BothIs DEF BuildCmd
<1>3. \A f \in Written : Both[f] = file[f] /\ Headed(file[f])
  BY <1>1, BothIs DEF Typed
<1>4. Typed' /\ Honest' /\ cmd' = "build" /\ ended' = "none"
  BY <1>2, <1>3, StartsIs
<1>5. pc' = "build" /\ fl' = Now'
  BY <1>2 DEF Building, Now
<1> QED
  BY <1>4, <1>5, NotEnded DEF IInv, Phases, Current

LEMMA InvInstallCmd == IInv /\ InstallCmd => IInv'
<1> SUFFICES ASSUME IInv, InstallCmd PROVE IInv'
  OBVIOUS
<1>1. Typed
  BY DEF IInv
<1>2. Both \in [Written -> Texts] /\ Starts("install", Both)
  BY <1>1, BothIs DEF InstallCmd
<1>3. \A f \in Written : Both[f] = file[f] /\ Headed(file[f])
  BY <1>1, BothIs DEF Typed
<1>4. Typed' /\ Honest' /\ cmd' = "install" /\ ended' = "none"
  BY <1>2, <1>3, StartsIs
<1>5. CASE Fresh(art)
  <2>1. pc' \in {"in", "apply"} /\ asked' = Now /\ art' = art
    BY <1>5 DEF InstallCmd, Starts
  <2>2. file' = file
    BY <1>2, <1>3, StartsIs
  <2>3. Now' = Now /\ art[1].flags = Now.record
    BY <1>5, <2>2, NowStays DEF Fresh
  <2>4. Current'
    BY <2>1, <2>3 DEF Current
  <2>5. Phases'
    BY <1>4, <2>1 DEF Phases
  <2> QED
    BY <1>4, <2>4, <2>5, NotEnded DEF IInv
<1>6. CASE ~Fresh(art)
  <2>1. pc' = "build" /\ fl' = Now'
    BY <1>6 DEF InstallCmd, Building, Now
  <2> QED
    BY <1>4, <2>1, NotEnded DEF IInv, Phases, Current
<1> QED
  BY <1>5, <1>6

LEMMA InvRebuildCmd == IInv /\ RebuildCmd => IInv'
<1> SUFFICES ASSUME IInv, RebuildCmd PROVE IInv'
  OBVIOUS
<1>1. Typed
  BY DEF IInv
<1>2. Both \in [Written -> Texts] /\ Starts("rebuild", Both)
  BY <1>1, BothIs DEF RebuildCmd
<1>6. pc = "idle"
  BY <1>2 DEF Starts
<1>3. \A f \in Written : Both[f] = file[f] /\ Headed(file[f])
  BY <1>1, BothIs DEF Typed
<1>4. Typed' /\ Honest' /\ cmd' = "rebuild" /\ ended' = "none"
  BY <1>2, <1>3, StartsIs
<1>5. pc' = "idle" \/ (pc' = "build" /\ fl' = Now')
  BY <1>6 DEF RebuildCmd, Building, Now
<1> QED
  BY <1>4, <1>5, NotEnded DEF IInv, Phases, Current

LEMMA InvBisectCmd == IInv /\ BisectCmd => IInv'
<1> SUFFICES ASSUME IInv, BisectCmd PROVE IInv'
  OBVIOUS
<1> DEFINE left == [f \in Written |-> Unrung(file[f])]
<1>1. Typed
  BY DEF IInv
<1>2. Starts("bisect", left) /\ Building
  BY DEF BisectCmd
<1>3. ASSUME NEW f \in Written
      PROVE  /\ left[f] = Unrung(file[f]) /\ left[f] \in Texts /\ Headed(left[f]) /\ Theirs(left[f]) = Theirs(file[f])
             /\ RungsIn(left[f]) = {} /\ (file[f] = <<>> => left[f] = <<>>)
  <2>1. Fine(file[f])
    BY <1>1, FilesAre
  <2>2. left[f] = Unrung(file[f])
    OBVIOUS
  <2> HIDE DEF left
  <2> QED
    BY <2>1, <2>2, UnrungIs DEF Fine
<1>4. left \in [Written -> Texts]
  BY <1>3
<1> HIDE DEF left
<1>5. Typed' /\ Honest' /\ cmd' = "bisect" /\ ended' = "none"
  BY <1>2, <1>3, <1>4, StartsIs
<1>6. pc' = "build" /\ fl' = Now'
  BY <1>2 DEF Building, Now
<1> QED
  BY <1>5, <1>6, NotEnded DEF IInv, Phases, Current

----------------------------------------------------------------------------
(* People, flags --queue, and what ends without a build. *)

\* a prefix is a prefix line by line
LEMMA PrefixTrans ==
  ASSUME NEW r \in Texts, NEW s \in Texts, NEW t \in Texts, IsPrefix(r, s), IsPrefix(s, t)
  PROVE  IsPrefix(r, t)
<1> DEFINE At(a, b) == Len(a) <= Len(b) /\ \A i \in 1..Len(a) : a[i] = b[i]
<1>1. ASSUME NEW a \in Texts, NEW b \in Texts, Len(a) <= Len(b)
      PROVE  /\ SubSeq(a, 1, Len(a)) = [i \in 1..Len(a) |-> a[i]]
             /\ SubSeq(b, 1, Len(a)) = [i \in 1..Len(a) |-> b[i]]
  BY <1>1 DEF Texts
<1>2. ASSUME NEW a \in Texts, NEW b \in Texts PROVE IsPrefix(a, b) <=> At(a, b)
  <2>1. IsPrefix(a, b) <=> Len(a) <= Len(b) /\ SubSeq(a, 1, Len(a)) = SubSeq(b, 1, Len(a))
    BY DEF IsPrefix
  <2> QED
    BY <1>1, <2>1
<1>3. Len(r) \in Nat /\ Len(s) \in Nat /\ Len(t) \in Nat
  BY TextIs
<1>4. At(r, s) /\ At(s, t)
  BY <1>2
<1>5. At(r, t)
  BY <1>3, <1>4
<1> QED
  BY <1>2, <1>5

LEMMA FoundStays ==
  ASSUME Honest, had' = had, kept' = kept, cmd' = cmd
  PROVE  \A f \in Written : Found(had[f], kept[f])'
BY DEF Honest, Found

LEMMA AddsStays ==
  ASSUME Honest, pc # "idle", ~touched, kept' = kept, cmd' = cmd, rung' = rung, file' = file
  PROVE  \A f \in Written : Adds(file[f], kept[f])'
BY DEF Honest, Adds, Keys

LEMMA InvEdit == IInv /\ Edit => IInv'
<1> SUFFICES ASSUME IInv, Edit PROVE IInv'
  OBVIOUS
<1>1. Typed /\ Phases /\ Current /\ Honest
  BY DEF IInv
<1>2. PICK e \in Edits : file' = [file EXCEPT ![e[1]] = Append(@, e[2])]
  BY DEF Edit
<1>3. /\ touched' = TRUE /\ art' = art /\ asked' = asked
      /\ rec' = rec /\ scan' = scan /\ cmd' = cmd /\ pc' = pc /\ had' = had /\ kept' = kept /\ rung' = rung /\ ended' = ended
  BY DEF Edit, local
<1>4. e[1] \in Files /\ e[2] \in Lines /\ Mine(e[2])
  BY FlagsAssumption
<1>5. file \in [Files -> Texts] /\ Append(file[e[1]], e[2]) \in Texts
  BY <1>1, <1>4, TextIs DEF Typed
<1>6. file' \in [Files -> Texts]
  BY <1>2, <1>4, <1>5
<1>7. ASSUME NEW f \in Written PROVE Headed(file'[f])
  <2>1. f \in Files /\ Fine(file[f])
    BY <1>1, FilesAre
  <2>2. file'[f] = IF f = e[1] THEN Append(file[f], e[2]) ELSE file[f]
    BY <1>2, <1>5, <2>1
  <2>3. Fine(Append(file[f], e[2]))
    BY <1>4, <2>1, EditIs
  <2> QED
    BY <2>1, <2>2, <2>3 DEF Fine
<1>8. Typed'
  BY <1>1, <1>3, <1>6, <1>7 DEF Typed
<1>9. Phases' /\ Current'
  BY <1>1, <1>3 DEF Phases, Current
<1>10. Honest'
  BY <1>1, <1>3, FoundStays DEF Honest
<1>11. NotesHonest'
  BY <1>3 DEF NotesHonest
<1> QED
  BY <1>8, <1>9, <1>10, <1>11 DEF IInv

LEMMA InvLooks == IInv /\ (Scan \/ WriteRow) => IInv'
<1> SUFFICES ASSUME IInv, Scan \/ WriteRow PROVE IInv'
  OBVIOUS
<1>1. Typed /\ Phases /\ Current /\ Honest /\ NotesHonest
  BY DEF IInv
<1>2. /\ file' = file /\ rec' = rec /\ cmd' = cmd /\ pc' = pc /\ fl' = fl /\ had' = had /\ kept' = kept /\ rung' = rung
      /\ ended' = ended /\ touched' = touched /\ art' = art /\ asked' = asked
  BY DEF Scan, WriteRow, local
<1>3. scan' \in {"none", "clean", "stale"}
  BY DEF Scan, WriteRow
<1>4. Typed'
  BY <1>1, <1>2, <1>3 DEF Typed
<1>5. Phases' /\ Current'
  BY <1>1, <1>2, NowStays DEF Phases, Current
<1>6. Honest'
  BY <1>1, <1>2, FoundStays, AddsStays DEF Honest
<1>7. NotesHonest'
  BY <1>1, <1>2 DEF NotesHonest
<1> QED
  BY <1>4, <1>5, <1>6, <1>7 DEF IInv

LEMMA InvKill == IInv /\ Kill => IInv'
<1> SUFFICES ASSUME IInv, Kill PROVE IInv'
  OBVIOUS
<1>1. Typed /\ Phases /\ Honest
  BY DEF IInv
<1>2. /\ file' = file /\ cmd' = cmd /\ had' = had /\ kept' = kept /\ rung' = rung /\ scan' = scan
      /\ pc' = "idle" /\ ended' = "killed"
  BY DEF Kill, local
<1>3. Typed' /\ Phases' /\ Current'
  BY <1>1, <1>2 DEF Typed, Phases, Current
<1>4. Honest'
  BY <1>1, <1>2, FoundStays DEF Honest
<1> QED
  BY <1>2, <1>3, <1>4, NotEnded DEF IInv

----------------------------------------------------------------------------
(* A command that ends having built: nobody's line is lost but a rung's. *)

LEMMA EndsOk ==
  ASSUME Honest, pc # "idle", kept' = kept, cmd' = cmd, touched' = touched, rung' = rung, ended' = "ok",
         \A f \in Written : Theirs(file'[f]) = Theirs(file[f]) /\ RungsIn(file'[f]) \subseteq RungsIn(file[f])
  PROVE  NotesHonest'
<1> SUFFICES ASSUME ~touched, NEW f \in Written
             PROVE  /\ IsPrefix(Theirs(kept[f]), Theirs(file'[f]))
                    /\ cmd = "bisect" => RungsIn(file'[f]) \subseteq {Ladder[k][2].key : k \in 1 .. rung}
  BY DEF NotesHonest
<1>1. IsPrefix(Theirs(kept[f]), Theirs(file[f])) /\ (cmd = "bisect" => RungsIn(file[f]) \subseteq Keys(rung))
  BY DEF Honest, Adds
<1> QED
  BY <1>1 DEF Keys

LEMMA InvCheck == IInv /\ Check => IInv'
<1> SUFFICES ASSUME IInv, Check PROVE IInv'
  OBVIOUS
<1>1. Typed /\ Phases /\ Honest
  BY DEF IInv
<1>2. /\ pc = "in" /\ file' = file /\ cmd' = cmd /\ had' = had /\ kept' = kept /\ rung' = rung /\ scan' = scan
      /\ touched' = touched /\ art' = art
  BY DEF Check, local
<1>3. Typed'
  BY <1>1, <1>2 DEF Typed
<1>4. CASE ~Fresh(art)
  <2>1. pc' = "idle" /\ ended' = "died"
    BY <1>4 DEF Check
  <2> QED
    BY <1>1, <1>2, <1>3, <2>1, FoundStays, NotEnded DEF IInv, Phases, Current, Honest
<1>5. CASE Fresh(art)
  <2>1. pc' = "apply" /\ ended' = ended /\ asked' = Now
    BY <1>5 DEF Check
  <2>2. Now' = Now /\ art[1].flags = Now.record
    BY <1>2, <1>5, NowStays DEF Fresh
  <2>3. ended' = "none"
    BY <1>1, <1>2, <2>1 DEF Phases
  <2>4. Phases' /\ Current'
    BY <1>1, <1>2, <2>1, <2>2, <2>3 DEF Phases, Current
  <2>5. Honest'
    BY <1>1, <1>2, FoundStays, AddsStays DEF Honest
  <2> QED
    BY <1>3, <2>3, <2>4, <2>5, NotEnded DEF IInv
<1> QED
  BY <1>4, <1>5

LEMMA InvApply == IInv /\ Apply => IInv'
<1> SUFFICES ASSUME IInv, Apply PROVE IInv'
  OBVIOUS
<1>1. Typed /\ Phases /\ Current /\ Honest
  BY DEF IInv
<1>2. /\ pc = "apply" /\ file' = file /\ cmd' = cmd /\ had' = had /\ kept' = kept /\ rung' = rung /\ scan' = scan
      /\ touched' = touched /\ rec' = art[1].flags
  BY DEF Apply, local
<1>3. Typed'
  BY <1>1, <1>2 DEF Typed
<1>4. CASE cmd = "rebuild"
  <2>1. pc' = "drop" /\ ended' = ended
    BY <1>4 DEF Apply
  <2>2. touched \/ rec' = Now'.record
    BY <1>1, <1>2, NowStays DEF Current
  <2>3. ended' = "none"
    BY <1>1, <1>2, <2>1 DEF Phases
  <2>4. Phases' /\ Current'
    BY <1>2, <1>4, <2>1, <2>2, <2>3 DEF Phases, Current
  <2>5. Honest'
    BY <1>1, <1>2, FoundStays, AddsStays DEF Honest
  <2> QED
    BY <1>3, <2>3, <2>4, <2>5, NotEnded DEF IInv
<1>5. CASE cmd # "rebuild"
  <2>1. pc' = "idle" /\ ended' = "ok"
    BY <1>5 DEF Apply
  <2>2. Phases' /\ Current' /\ Honest'
    BY <1>1, <1>2, <2>1, FoundStays DEF Phases, Current, Honest
  <2>3. NotesHonest'
    BY <1>1, <1>2, <2>1, EndsOk
  <2> QED
    BY <1>3, <2>2, <2>3 DEF IInv
<1> QED
  BY <1>4, <1>5

LEMMA InvDrop == IInv /\ Drop => IInv'
<1> SUFFICES ASSUME IInv, Drop PROVE IInv'
  OBVIOUS
<1>1. Typed /\ Phases /\ Honest
  BY DEF IInv
<1>2. /\ pc = "drop" /\ file' = file /\ cmd' = cmd /\ had' = had /\ kept' = kept /\ rung' = rung /\ scan' = scan
      /\ touched' = touched /\ pc' = "idle" /\ ended' = "ok"
  BY DEF Drop, local
<1>3. Typed' /\ Phases' /\ Current'
  BY <1>1, <1>2 DEF Typed, Phases, Current
<1>4. Honest'
  BY <1>1, <1>2, FoundStays DEF Honest
<1>5. NotesHonest'
  BY <1>1, <1>2, EndsOk
<1> QED
  BY <1>3, <1>4, <1>5 DEF IInv

----------------------------------------------------------------------------
(* A build that ended: the artifact, a fix, a rung, or what was there put back. *)

LEMMA InvSucceeds == IInv /\ Succeeds => IInv'
<1> SUFFICES ASSUME IInv, Succeeds PROVE IInv'
  OBVIOUS
<1>1. Typed /\ Phases /\ Honest
  BY DEF IInv
<1>2. /\ pc = "build" /\ cmd' = cmd /\ had' = had /\ kept' = kept /\ rung' = rung /\ scan' = scan /\ touched' = touched
      /\ file' = [file EXCEPT !["filter"] = Unstuck(@)]
  BY DEF Succeeds, RanBuild
<1>3. ASSUME NEW f \in Written
      PROVE  Headed(file'[f]) /\ Theirs(file'[f]) = Theirs(file[f]) /\ RungsIn(file'[f]) \subseteq RungsIn(file[f])
  <2>1. f \in Files /\ Fine(file[f])
    BY <1>1, FilesAre
  <2>2. file'[f] = IF f = "filter" THEN Unstuck(file[f]) ELSE file[f]
    BY <1>1, <1>2, <2>1 DEF Typed
  <2> QED
    BY <2>1, <2>2, UnstuckIs DEF Fine
<1>4. file' \in [Files -> Texts]
  <2>1. "filter" \in Written /\ Fine(file["filter"])
    BY <1>1, FilesAre DEF Written
  <2>2. Unstuck(file["filter"]) \in Texts
    BY <2>1, UnstuckIs DEF Fine
  <2> QED
    BY <1>1, <1>2, <2>2 DEF Typed
<1>5. Typed'
  BY <1>1, <1>2, <1>3, <1>4 DEF Typed
<1>6. CASE cmd \in {"install", "rebuild"}
  <2>1. pc' = "in" /\ ended' = ended
    BY <1>6 DEF Succeeds
  <2>2. Phases' /\ Current' /\ NotesHonest'
    BY <1>1, <1>2, <1>6, <2>1, NotEnded DEF Phases, Current
  <2>3. ASSUME ~touched, NEW f \in Written PROVE Adds(file[f], kept[f])'
    <3>1. Adds(file[f], kept[f])
      BY <1>1, <1>2, <2>3 DEF Honest
    <3> QED
      BY <1>2, <1>3, <3>1 DEF Adds, Keys
  <2>4. Honest'
    BY <1>1, <1>2, <2>3, FoundStays DEF Honest
  <2> QED
    BY <1>5, <2>2, <2>4 DEF IInv
<1>7. CASE cmd \notin {"install", "rebuild"}
  <2>1. pc' = "idle" /\ ended' = "ok"
    BY <1>7 DEF Succeeds
  <2>2. Phases' /\ Current' /\ Honest'
    BY <1>1, <1>2, <2>1, FoundStays DEF Phases, Current, Honest
  <2>3. NotesHonest'
    BY <1>1, <1>2, <1>3, <2>1, EndsOk
  <2> QED
    BY <1>5, <2>2, <2>3 DEF IInv
<1> QED
  BY <1>6, <1>7

\* a note to one of the two files, whose rung is among those climbed
LEMMA InvNote ==
  ASSUME IInv, NEW g \in Written, NEW l \in Lines, l.is = "set", NEW mark \in {"fix", "rung"},
         file' = [file EXCEPT ![g] = Noted(@, l, mark)], Building,
         RanBuild, rung' \in 0..Len(Ladder), ended' = ended, Keys(rung) \subseteq Keys(rung'),
         mark = "rung" => l.key \in Keys(rung')
  PROVE  IInv'
<1>1. Typed /\ Phases /\ Honest
  BY DEF IInv
<1>2. /\ pc = "build" /\ cmd' = cmd /\ had' = had /\ kept' = kept /\ scan' = scan /\ touched' = touched
      /\ pc' = "build" /\ fl' = Now'
  BY DEF RanBuild, Building, Now
<1>3. ASSUME NEW f \in Written
      PROVE  /\ Fine(file[f]) /\ Fine(file'[f]) /\ IsPrefix(Theirs(file[f]), Theirs(file'[f]))
             /\ RungsIn(file'[f]) \subseteq RungsIn(file[f]) \cup Keys(rung')
  <2>1. f \in Files /\ Fine(file[f]) /\ Theirs(file[f]) \in Texts
    BY <1>1, FilesAre, TextsAre, SelTyped DEF Fine
  <2>2. file'[f] = IF f = g THEN Noted(file[f], l, mark) ELSE file[f]
    BY <1>1, <2>1 DEF Typed
  <2>3. CASE f = g
    BY <2>1, <2>2, <2>3, NotedIs
  <2>4. CASE f # g
    BY <2>1, <2>2, <2>4, PrefixIs
  <2> QED
    BY <2>3, <2>4
<1>4. file' \in [Files -> Texts]
  <2>1. g \in Files /\ file'[g] = Noted(file[g], l, mark)
    BY <1>1, FilesAre DEF Typed
  <2>2. Noted(file[g], l, mark) \in Texts
    BY <1>3, <2>1 DEF Fine
  <2> QED
    BY <1>1, <2>2 DEF Typed
<1>5. Typed'
  BY <1>1, <1>2, <1>3, <1>4 DEF Typed, Fine
<1>6. Phases' /\ Current' /\ NotesHonest'
  BY <1>1, <1>2, NotEnded DEF Phases, Current
<1>7. ASSUME ~touched, NEW f \in Written PROVE Adds(file[f], kept[f])'
  <2>1. Adds(file[f], kept[f])
    BY <1>1, <1>2, <1>7 DEF Honest
  <2>2. Theirs(kept[f]) \in Texts /\ Theirs(file[f]) \in Texts /\ Theirs(file'[f]) \in Texts
    BY <1>1, <1>3, FilesAre, TextsAre, SelTyped DEF Fine
  <2>3. IsPrefix(Theirs(kept[f]), Theirs(file'[f]))
    BY <1>3, <2>1, <2>2, PrefixTrans DEF Adds
  <2>4. cmd = "bisect" => RungsIn(file'[f]) \subseteq Keys(rung')
    BY <1>3, <2>1 DEF Adds
  <2>5. Keys(rung)' = Keys(rung')
    BY DEF Keys
  <2> QED
    BY <1>2, <2>3, <2>4, <2>5 DEF Adds
<1>8. Honest'
  BY <1>1, <1>2, <1>7, FoundStays DEF Honest
<1> QED
  BY <1>5, <1>6, <1>8 DEF IInv

LEMMA ScannedIs ==
  ASSUME New
  PROVE  /\ Scanned.file \in Written /\ Scanned.line \in Lines
         /\ Scanned.verb # "notaflag" => Mine(Scanned.line)
<1> DEFINE hits == {i \in DOMAIN Rules : Rules[i].on \in Log.says}
<1>1. Scanned = IF hits = {} \/ Cardinality(tried) >= 3 THEN NoAct ELSE Rules[Min(hits)].act
  BY DEF Scanned
<1>2. Scanned # NoAct
  BY DEF New
<1>3. hits # {} /\ Scanned = Rules[Min(hits)].act
  BY <1>1, <1>2
<1>4. Min(hits) \in hits
  BY <1>3, RulesAre, MinIs
<1> QED
  BY <1>3, <1>4, RulesAre

LEMMA FixingIs ==
  ASSUME Fixes
  PROVE  Scanned.file \in Written /\ Fixing \in Lines /\ Fixing.is = "set"
<1>1. Scanned.file \in Written /\ Scanned.line \in Lines /\ Mine(Scanned.line)
  BY ScannedIs DEF Fixes
<1>2. \A j : Halved(j) \in STRING
  BY FlagsAssumption DEF Halved
<1> DEFINE line == Scanned.line
           Half(w) == [line EXCEPT !.flag = <<@[1], w>>]
<1>3. line \in Lines /\ line.is = "set"
  BY <1>1 DEF Mine
<1>4. \E j : Fixing = IF Scanned.verb = "halve" THEN Half(Halved(j)) ELSE line
  BY DEF Fixing
<1> HIDE DEF line
<1>5. ASSUME NEW w \in STRING PROVE Half(w) \in Lines /\ Half(w).is = "set"
  <2>1. line.flag \in Flag /\ line.flag[1] \in STRING
    BY <1>3 DEF Lines, Flag
  <2>2. <<line.flag[1], w>> \in Flag
    BY <2>1 DEF Flag
  <2> QED
    BY <1>3, <2>2 DEF Lines
<1> QED
  BY <1>1, <1>2, <1>3, <1>4, <1>5

LEMMA InvFix == IInv /\ Fix => IInv'
<1> SUFFICES ASSUME IInv, Fix PROVE IInv'
  OBVIOUS
<1>1. Scanned.file \in Written /\ Fixing \in Lines /\ Fixing.is = "set"
  BY FixingIs DEF Fix
<1>2. /\ file' = [file EXCEPT ![Scanned.file] = Noted(@, Fixing, "fix")]
      /\ Building /\ RanBuild /\ rung' = rung /\ ended' = ended
  BY DEF Fix
<1>3. rung' \in 0..Len(Ladder) /\ Keys(rung) \subseteq Keys(rung')
  BY <1>2 DEF IInv, Typed
<1> QED
  BY <1>1, <1>2, <1>3, InvNote

LEMMA InvClimb == IInv /\ Climb => IInv'
<1> SUFFICES ASSUME IInv, Climb PROVE IInv'
  OBVIOUS
<1>1. Rungs # {} /\ rung' = Min(Rungs)
  BY DEF Climb, GivesUp
<1>2. /\ file' = [file EXCEPT ![Ladder[rung'][1]] = Noted(@, Ladder[rung'][2], "rung")]
      /\ Building /\ RanBuild /\ ended' = ended
  BY DEF Climb
<1>3. rung \in 0..Len(Ladder) /\ Len(Ladder) \in Nat
  BY LadderIs DEF IInv, Typed
<1>4. Rungs \subseteq rung + 1 .. Len(Ladder)
  BY DEF Rungs
<1>5. rung' \in rung + 1 .. Len(Ladder)
  <2>1. Rungs \in SUBSET Nat
    BY <1>3, <1>4
  <2> QED
    BY <1>1, <1>4, <2>1, MinIs
<1>6. /\ rung' \in 1..Len(Ladder) /\ rung' \in 0..Len(Ladder) /\ rung' \in 1..rung' /\ 1..rung \subseteq 1..rung'
  BY <1>3, <1>5
<1>7. /\ Ladder[rung'][1] \in Written /\ Ladder[rung'][2] \in Lines /\ Ladder[rung'][2].is = "set"
  BY <1>6, LadderIs DEF Mine
<1>8. Keys(rung) \subseteq Keys(rung') /\ Ladder[rung'][2].key \in Keys(rung')
  BY <1>6 DEF Keys
<1> QED
  BY <1>2, <1>6, <1>7, <1>8, InvNote

LEMMA InvFails == IInv /\ Fails => IInv'
<1> SUFFICES ASSUME IInv, Fails PROVE IInv'
  OBVIOUS
<1> DEFINE w == [f \in Written |-> IF cmd = "bisect" /\ kept[f] # <<>> THEN kept[f] ELSE Undone[f]]
<1>1. Typed /\ Phases /\ Honest
  BY DEF IInv
<1>2. /\ pc' = "idle" /\ ended' = "stuck" /\ file' = Over(w) /\ rung' = rung
      /\ cmd' = cmd /\ had' = had /\ kept' = kept /\ scan' = scan /\ touched' = touched
  BY DEF Fails, RanBuild
<1>3. ASSUME NEW f \in Written
      PROVE  /\ Fine(w[f]) /\ Unstuck(w[f]) = Unstuck(kept[f]) /\ Theirs(w[f]) = Theirs(kept[f])
  <2>1. Fine(had[f]) /\ Fine(kept[f])
    BY <1>1, FilesAre
  <2>2. w[f] = IF cmd = "bisect" /\ kept[f] # <<>> THEN kept[f] ELSE Undone[f]
    OBVIOUS
  <2>3. Undone[f] \in {had[f], Stuck(had[f])}
    BY DEF Undone
  <2>4. (kept[f] = <<>> => had[f] = <<>>) /\ (cmd # "bisect" => had[f] = kept[f])
    BY <1>1 DEF Honest, Found
  <2> HIDE DEF w
  <2>5. CASE cmd = "bisect" /\ kept[f] # <<>>
    BY <2>1, <2>2, <2>5
  <2>6. CASE ~(cmd = "bisect" /\ kept[f] # <<>>)
    <3>1. had[f] = kept[f] /\ w[f] \in {kept[f], Stuck(kept[f])}
      BY <2>2, <2>3, <2>4, <2>6
    <3> QED
      BY <2>1, <3>1, StuckIs
  <2> QED
    BY <2>5, <2>6
<1>4. w \in [Written -> Texts]
  BY <1>3 DEF Fine
<1> HIDE DEF w
<1>5. file' \in [Files -> Texts] /\ \A f \in Written : file'[f] = w[f]
  BY <1>1, <1>2, <1>4, OverIs
<1>6. Typed'
  BY <1>1, <1>2, <1>3, <1>5 DEF Typed, Fine
<1>7. Phases' /\ Current' /\ Honest'
  BY <1>1, <1>2, FoundStays DEF Phases, Current, Honest
<1>8. NotesHonest'
  <2>1. ASSUME NEW f \in Written
        PROVE  Unstuck(file'[f]) = Unstuck(kept'[f]) /\ IsPrefix(Theirs(kept'[f]), Theirs(file'[f]))
    <3>1. Theirs(kept[f]) \in Texts
      BY <1>1, FilesAre, TextsAre, SelTyped DEF Fine
    <3> QED
      BY <1>2, <1>3, <1>5, <3>1, PrefixIs
  <2> QED
    BY <1>2, <2>1 DEF NotesHonest
<1> QED
  BY <1>6, <1>7, <1>8 DEF IInv

----------------------------------------------------------------------------
(* What the runs check, for every files, edits, ladder, table and outcomes. *)

LEMMA InvInit == Init => IInv
<1> SUFFICES ASSUME Init PROVE IInv
  OBVIOUS
<1>1. /\ file = [f \in Files |-> CASE f = "config" -> Config [] f = "own" -> Own [] f = "filter" -> Recipe]
      /\ scan = "none" /\ cmd = "none" /\ pc = "idle" /\ had = Both /\ kept = Both /\ rung = 0 /\ ended = "none"
  BY DEF Init
<1>2. Config \in Texts /\ Own \in Texts /\ Recipe \in Texts /\ Headed(Own) /\ Headed(Recipe)
  BY FlagsAssumption DEF Texts
<1>3. file \in [Files -> Texts] /\ \A f \in Written : Headed(file[f])
  BY <1>1, <1>2 DEF Files, Written
<1>4. Both \in [Written -> Texts] /\ \A f \in Written : Both[f] = file[f]
  BY <1>3 DEF Both, Files, Written
<1>5. Typed
  BY <1>1, <1>3, <1>4, LadderIs DEF Typed
<1>6. Phases /\ Current
  BY <1>1 DEF Phases, Current
<1>7. Honest
  BY <1>1 DEF Honest, Found
<1>8. NotesHonest
  BY <1>1 DEF NotesHonest
<1> QED
  BY <1>5, <1>6, <1>7, <1>8 DEF IInv

LEMMA InvStutters == IInv /\ UNCHANGED vars => IInv'
<1> SUFFICES ASSUME IInv, UNCHANGED vars PROVE IInv'
  OBVIOUS
<1>1. Typed /\ Phases /\ Current /\ Honest /\ NotesHonest
  BY DEF IInv
<1>2. /\ file' = file /\ rec' = rec /\ cmd' = cmd /\ pc' = pc /\ fl' = fl /\ had' = had /\ kept' = kept /\ rung' = rung
      /\ ended' = ended /\ touched' = touched /\ scan' = scan /\ art' = art /\ asked' = asked
  BY DEF vars
<1>3. Typed' /\ Phases' /\ Current' /\ NotesHonest'
  BY <1>1, <1>2, NowStays DEF Typed, Phases, Current, NotesHonest
<1>4. Honest'
  BY <1>1, <1>2, FoundStays, AddsStays DEF Honest
<1> QED
  BY <1>3, <1>4 DEF IInv

LEMMA InvNext == IInv /\ [Next]_vars => IInv'
BY InvStutters, InvEdit, InvLooks, InvKill, InvBuildCmd, InvInstallCmd, InvRebuildCmd, InvBisectCmd,
   InvSucceeds, InvFix, InvClimb, InvFails, InvCheck, InvApply, InvDrop DEF Next


\* Nobody's line is lost but a rung's: a command that ends stuck leaves the two files as it
\* found them, the notes of a stuck package aside, and one that builds has every line that a
\* person or a fix put there, and after bisect-flags no rung but those climbed (undo, note,
\* unstuck, unrung, wherever nobody writes beside it).
THEOREM NotesStayHonest == Spec => []NotesHonest
<1>1. Init => IInv
  BY InvInit
<1>2. IInv /\ [Next]_vars => IInv'
  BY InvNext
<1>3. IInv => NotesHonest
  BY DEF IInv
<1> QED
  BY <1>1, <1>2, <1>3, PTL DEF Spec

Agrees ==
  /\ art' # art /\ ~touched => Fresh(art)'
  /\ rec' # rec => rec' = asked.record
  /\ row /\ ~row' => rec' = Now'.record \/ touched \/ scan = "clean"

LEMMA StillAgrees == art' = art /\ rec' = rec /\ row' = row => Agrees
BY DEF Agrees

LEMMA AgreesSucceeds == IInv /\ Succeeds => Agrees
<1> SUFFICES ASSUME IInv, Succeeds PROVE Agrees
  OBVIOUS
<1>1. Typed /\ Current
  BY DEF IInv
<1>2. /\ pc = "build" /\ rec' = rec /\ row' = row
      /\ file' = [file EXCEPT !["filter"] = Unstuck(@)]
      /\ art' = <<[flags |-> fl.record, recipe |-> file'["filter"]]>>
  BY DEF Succeeds, RanBuild
<1>3. Now' = Now
  <2>1. "filter" \in Written /\ Fine(file["filter"]) /\ file \in [Files -> Texts]
    BY <1>1, FilesAre DEF Typed, Written
  <2>2. Settings(Unstuck(file["filter"])) = Settings(file["filter"])
    BY <2>1, UnstuckIs
  <2>3. \A i \in Files : Settings(file'[i]) = Settings(file[i])
    BY <1>2, <2>1, <2>2
  <2> QED
    BY <2>3, ResolveIs DEF Now
<1>4. ASSUME ~touched PROVE Fresh(art)'
  <2>1. fl.record = Now'.record
    BY <1>1, <1>2, <1>3, <1>4 DEF Current
  <2>2. art' # <<>> /\ art'[1] = [flags |-> Now'.record, recipe |-> file'["filter"]]
    BY <1>2, <2>1
  <2> QED
    BY <2>2 DEF Fresh
<1> QED
  BY <1>2, <1>4 DEF Agrees

LEMMA AgreesRebuildCmd == IInv /\ RebuildCmd => Agrees
<1> SUFFICES ASSUME IInv, RebuildCmd PROVE Agrees
  OBVIOUS
<1>1. Typed
  BY DEF IInv
<1>2. Starts("rebuild", Both) /\ (rec # Now.record => row' = row)
  BY DEF RebuildCmd
<1>3. Both \in [Written -> Texts] /\ \A f \in Written : Both[f] = file[f] /\ Headed(file[f])
  BY <1>1, BothIs DEF Typed
<1>4. file' = file /\ rec' = rec
  BY <1>2, <1>3, StartsIs
<1>5. art' = art
  BY <1>2 DEF Starts
<1> QED
  BY <1>2, <1>4, <1>5, NowStays DEF Agrees

LEMMA AgreesApply == IInv /\ Apply => Agrees
<1> SUFFICES ASSUME IInv, Apply PROVE Agrees
  OBVIOUS
<1>1. pc = "apply" /\ art' = art /\ row' = row /\ rec' = art[1].flags
  BY DEF Apply
<1>2. rec' = asked.record
  BY <1>1 DEF IInv, Current
<1> QED
  BY <1>1, <1>2 DEF Agrees

LEMMA AgreesNext == IInv /\ [Next]_vars => [Agrees]_vars
<1> SUFFICES ASSUME IInv, Next PROVE Agrees
  OBVIOUS
<1>1. ASSUME Edit \/ Scan \/ Kill \/ BuildCmd \/ InstallCmd \/ BisectCmd PROVE Agrees
  <2>1. art' = art /\ rec' = rec /\ row' = row
    BY <1>1 DEF Edit, Scan, Kill, BuildCmd, InstallCmd, BisectCmd, Starts
  <2> QED
    BY <2>1, StillAgrees
<1>2. ASSUME Fix \/ Climb \/ Fails \/ Check PROVE Agrees
  <2>1. art' = art /\ rec' = rec /\ row' = row
    BY <1>2 DEF Fix, Climb, Fails, RanBuild, Check
  <2> QED
    BY <2>1, StillAgrees
<1>3. ASSUME WriteRow PROVE Agrees
  <2>1. art' = art /\ rec' = rec /\ scan # "none" /\ row' = (scan = "stale") /\ scan \in {"none", "clean", "stale"}
    BY <1>3 DEF WriteRow, IInv, Typed
  <2> QED
    BY <2>1 DEF Agrees
<1>4. ASSUME Drop PROVE Agrees
  <2>1. pc = "drop" /\ art' = art /\ rec' = rec /\ file' = file
    BY <1>4 DEF Drop
  <2>2. touched \/ rec = Now.record
    BY <2>1 DEF IInv, Current
  <2> QED
    BY <2>1, <2>2, NowStays DEF Agrees
<1> QED
  BY <1>1, <1>2, <1>3, <1>4, AgreesSucceeds, AgreesRebuildCmd, AgreesApply DEF Next

\* What lands is fresh where nobody wrote while it was built, an install records the flags that
\* resolved as it last asked for the artifact, through any wait for the writer lock and any edit
\* in it, and a row leaves the queue where record and flags agree: unstuck comes before meta,
\* cached is asked before what was built goes in, and back looks before it heals.
THEOREM SettledStays == Spec => Settled
<1>1. Init => IInv
  BY InvInit
<1>2. IInv /\ [Next]_vars => IInv'
  BY InvNext
<1>3. IInv /\ [Next]_vars => [Agrees]_vars
  BY AgreesNext
<1>4. Spec => [][Agrees]_vars
  BY <1>1, <1>2, <1>3, PTL DEF Spec
<1>5. [][Agrees]_vars <=> Settled
  BY PTL DEF Settled, Agrees
<1> QED
  BY <1>4, <1>5, PTL

=============================================================================
