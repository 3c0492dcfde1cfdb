---------------------------- MODULE TraceProofs ----------------------------
(* What holds of Trace for any processes, programs, libraries and readers: the types, that
   a read credits a program only with what that program asked for, and that a read that ends
   has written down what a read of both buffers at one instant would have.

   The argument for Attributed. The events no walk has had yet (Pending) and what is carried
   say of every process what it is: the latest of its forks and execs, or what is carried of
   its number where there is none (Tells). That is so of every process now, of the process
   that made an event when it made it, and of the one that asked when it asked (Follows),
   unless an event of its past is lost. A walk of some of them, in the order of their stamps,
   therefore knows of each number what had it at each stamp or nothing (Knows), and what it
   carries to the next says of the rest what it says (WalkAll). The names are the ones asked
   for, as the buffer's open calls are the latest of the process's own (Calling).

   The argument for Heard. What a reader owes is a dlopen whose asker the read at one instant
   would have known: from what was carried, or from an exec, through the forks since (HeardOf).
   Until its walk the dlopen stays among those it will walk and those events among the ones
   pending (Due), as nothing is armed before both are drained; and what is pending and the walk
   does not have is younger than its dlopens (Within). So the walk knows the asker (HeardWalk),
   knows it for what it was (WhatIs), and credits it with the dlopen; and from then on the name
   is to be added or is in the file, which no one writes behind the reader that has read it
   (Owes). *)
EXTENDS Trace, WellFoundedInduction, TLAPS

----------------------------------------------------------------------------
(* Recursion over the numbers up to N. *)

LEMMA Least ==
  ASSUME NEW S \in SUBSET Nat, S # {}
  PROVE  \E n \in S : \A m \in S : n <= m
<1> DEFINE R == {x \in Nat \X Nat : x[1] < x[2]}
<1>1. \A n, m \in Nat : n < m => <<n, m>> \in R
  OBVIOUS
<1>2. IsWellFoundedOn(R, Nat)
  BY NatLessThanWellFounded DEF OpToRel
<1> HIDE DEF R
<1>3. PICK x \in S : \A y \in S : ~(<<y, x>> \in R)
  BY <1>2, WFMin
<1>4. \A y \in S : ~(y < x)
  BY <1>1, <1>3
<1> QED
  BY <1>4

LEMMA UpTo ==
  ASSUME NEW N \in Nat, NEW P \in SUBSET (0..N), 0 \in P, \A n \in 1..N : n - 1 \in P => n \in P
  PROVE  P = 0..N
<1> SUFFICES ASSUME (0..N) \ P # {} PROVE FALSE
  OBVIOUS
<1> DEFINE Q == (0..N) \ P
<1>0. Q \in SUBSET Nat /\ Q # {}
  OBVIOUS
<1>1. PICK n \in Q : \A m \in Q : n <= m
  <2> HIDE DEF Q
  <2> QED
    BY <1>0, Least
<1>2. n \in 1..N /\ n - 1 \in 0..N /\ ~(n <= n - 1)
  BY <1>1
<1> QED
  BY <1>1, <1>2

Recurs(f, N, S, base, F) ==
  /\ f \in [0..N -> S]
  /\ f = [n \in 0..N |-> IF n = 0 THEN base ELSE F[<<n, f[n - 1]>>]]

LEMMA Recursion ==
  ASSUME NEW N \in Nat, NEW S, NEW base \in S, NEW F \in [(1..N) \X S -> S]
  PROVE  \E f : Recurs(f, N, S, base, F)
<1> DEFINE Is(f, n) == f \in [0..n -> S] /\ f[0] = base /\ \A m \in 1..n : f[m] = F[<<m, f[m - 1]>>]
           P == {n \in 0..N : \E f : Is(f, n)}
<1>1. 0 \in P
  <2>1. Is([m \in 0..0 |-> base], 0)
    OBVIOUS
  <2>2. \E f : Is(f, 0)
    <3> HIDE DEF Is
    <3> QED
      BY <2>1
  <2> QED
    BY <2>2
<1>2. ASSUME NEW n \in 1..N, n - 1 \in P PROVE n \in P
  <2>1. PICK f : Is(f, n - 1)
    BY <1>2
  <2> DEFINE g == [m \in 0..n |-> IF m = n THEN F[<<n, f[n - 1]>>] ELSE f[m]]
  <2>2. f[n - 1] \in S /\ F[<<n, f[n - 1]>>] \in S
    BY <2>1
  <2>3. /\ n \in Nat /\ n - 1 \in Nat /\ n # n - 1 /\ 0 # n /\ 0 \in 0..n - 1
        /\ \A m \in 0..n : m # n => m \in 0..n - 1
        /\ \A m \in 1..n : m - 1 \in 0..n - 1 /\ m - 1 # n /\ (m # n => m \in 1..n - 1)
    OBVIOUS
  <2>4. \A m \in 0..n : g[m] = IF m = n THEN F[<<n, f[n - 1]>>] ELSE f[m]
    OBVIOUS
  <2>5. g \in [0..n -> S] /\ g[0] = base
    BY <2>1, <2>2, <2>3
  <2>6. \A m \in 1..n : g[m - 1] = f[m - 1] /\ (m # n => g[m] = f[m]) /\ g[n] = F[<<n, f[n - 1]>>]
    <3> HIDE DEF g
    <3> QED
      BY <2>3, <2>4
  <2>7. \A m \in 1..n : g[m] = F[<<m, g[m - 1]>>]
    <3> HIDE DEF g
    <3> QED
      BY <2>1, <2>3, <2>6
  <2>8. Is(g, n)
    <3> HIDE DEF g
    <3> QED
      BY <2>5, <2>7
  <2>9. \E h : Is(h, n)
    <3> HIDE DEF Is, g
    <3> QED
      BY <2>8
  <2> QED
    BY <2>9
<1>3. N \in P
  <2> HIDE DEF P
  <2>1. P \in SUBSET (0..N)
    BY DEF P
  <2> QED
    BY <1>1, <1>2, <2>1, UpTo
<1>4. PICK f : Is(f, N)
  BY <1>3
<1>5. f = [n \in 0..N |-> IF n = 0 THEN base ELSE F[<<n, f[n - 1]>>]]
  BY <1>4
<1> QED
  BY <1>4, <1>5 DEF Recurs

----------------------------------------------------------------------------
(* What a process maps. *)

Explains(K, from, in) ==
  /\ from \subseteq K /\ K \subseteq from \cup in
  /\ \A f \in K : Needs[f] \cap in \subseteq K
  /\ \A X \in SUBSET (from \cup in) :
       from \subseteq X /\ (\A f \in X : Needs[f] \cap in \subseteq X) => K \subseteq X

LEMMA ReachIs ==
  ASSUME NEW from \in SUBSET (Program \cup Lib), NEW in \in SUBSET Lib
  PROVE  /\ Explains(Reach(from, in), from, in)
         /\ \A m \in Reach(from, in) \ from : \E f \in Reach(from, in) : m \in Needs[f]
<1> DEFINE K == Reach(from, in)
           Good(X) == X \in SUBSET (from \cup in) /\ from \subseteq X /\ \A f \in X : Needs[f] \cap in \subseteq X
<1>1. K = {f \in from \cup in : \A X \in SUBSET (from \cup in) : Good(X) => f \in X}
  BY DEF Reach
<1>2. /\ from \subseteq K /\ K \subseteq from \cup in
      /\ \A f \in K : Needs[f] \cap in \subseteq K
      /\ \A X \in SUBSET (from \cup in) : Good(X) => K \subseteq X
  <2> HIDE DEF K
  <2> QED
    BY <1>1
<1>3. ASSUME NEW m \in K \ from, \A f \in K : m \notin Needs[f] PROVE FALSE
  <2>1. Good(K \ {m})
    <3> HIDE DEF K
    <3> QED
      BY <1>2, <1>3
  <2>2. K \subseteq K \ {m}
    <3> HIDE DEF K
    <3> QED
      BY <1>2, <2>1
  <2> HIDE DEF K
  <2> QED
    BY <1>3, <2>2
<1> HIDE DEF K
<1>4. \A m \in K \ from : \E f \in K : m \in Needs[f]
  BY <1>3
<1> QED
  BY <1>2, <1>4 DEF K, Explains

LEMMA LoadedIs ==
  ASSUME NEW f \in Program \cup Lib
  PROVE  Loaded(f) \subseteq Lib /\ (f \in Lib => f \in Loaded(f))
BY ReachIs DEF Loaded, Explains

\* what neither the program's nor an opened library's needs explain was asked for by name
LEMMA OpenedAsked ==
  ASSUME NEW exe \in Program, NEW mapped \in SUBSET Lib, NEW asked \in SUBSET Lib,
         Loaded(exe) \subseteq mapped, \A l \in asked : Loaded(l) \subseteq mapped,
         mapped \subseteq Loaded(exe) \cup UNION {Loaded(l) : l \in asked}
  PROVE  Dlopened(exe, mapped) \subseteq asked
<1> DEFINE R == Reach({exe}, mapped)
           A == Reach({exe}, Lib)
<1>0. {exe} \in SUBSET (Program \cup Lib)
  OBVIOUS
<1>1. Explains(R, {exe}, mapped)
  BY <1>0, ReachIs
<1>2. Explains(A, {exe}, Lib)
  BY <1>0, ReachIs
<1>3. A \cap Lib \subseteq mapped
  BY DEF Loaded
<1> HIDE DEF R, A
<1>4. A \subseteq R
  <2>1. {exe} \subseteq A \cap R /\ A \cap R \in SUBSET ({exe} \cup Lib)
    BY <1>1, <1>2 DEF Explains
  <2>2. \A f \in A \cap R : Needs[f] \cap Lib \subseteq A \cap R
    BY <1>1, <1>2, <1>3 DEF Explains
  <2> QED
    BY <1>2, <2>1, <2>2 DEF Explains
<1>5. Loaded(exe) \subseteq R
  BY <1>4 DEF Loaded, A
<1> SUFFICES ASSUME NEW m \in Dlopened(exe, mapped), m \notin asked PROVE FALSE
  OBVIOUS
<1>6. m \in mapped \ R /\ \A o \in mapped \ R : m \notin Needs[o]
  BY DEF Dlopened, R
<1>7. PICK l \in asked : m \in Loaded(l)
  BY <1>5, <1>6
<1>8. PICK f \in Reach({l}, Lib) : m \in Needs[f]
  <2>1. m \in Reach({l}, Lib) \ {l} /\ {l} \in SUBSET (Program \cup Lib)
    BY <1>6, <1>7 DEF Loaded
  <2> QED
    BY <2>1, ReachIs
<1>9. f \in mapped
  <2>1. Reach({l}, Lib) \subseteq {l} \cup Lib
    BY ReachIs DEF Explains
  <2> QED
    BY <1>8, <2>1 DEF Loaded
<1> QED
  BY <1>1, <1>6, <1>8, <1>9 DEF Explains

\* a script is run by the interpreter whose it is
LEMMA ExeIs ==
  /\ \A f \in Program : Exe(f) \in Program
  /\ \A f \in Program : \A arg \in Script[f] : arg \in Program /\ Exe(arg) = Exe(f)
<1>1. \A f \in Program : Exe(f) \in Program
  BY DEF Exe
<1>2. ASSUME NEW f \in Program, NEW arg \in Script[f] PROVE arg \in Program /\ Exe(arg) = Exe(f)
  <2>1. \A i \in Program : arg \in Script[i] => i = f
    BY TraceAssumption
  <2>2. Exe(arg) = f
    BY <2>1 DEF Exe
  <2>3. \A i \in Program : f \notin Script[i]
    BY TraceAssumption
  <2>4. Exe(f) = f
    BY <2>3 DEF Exe
  <2> QED
    BY <2>2, <2>4, TraceAssumption
<1> QED
  BY <1>1, <1>2

----------------------------------------------------------------------------
(* The shape of what is kept. *)

Carry == [known : [Pid -> Program \cup {Nobody}], built : SUBSET Pid]
ForkEvent == [what : {"fork"}, at : Nat, pid : Pid, child : Pid, by : Program, build : BOOLEAN, line : SUBSET Nat]
ExecEvent == [what : {"exec"}, at : Nat, pid : Pid, file : Program, arg : Program \cup {Nobody}, is : Program,
              by : Program, build : BOOLEAN, line : SUBSET Nat]
Event == ForkEvent \cup ExecEvent
InEvent == [what : {"in"}, pid : Pid, lib : Lib]
OutEvent == [what : {"out"}, at : Nat, pid : Pid, ok : BOOLEAN, lib : Lib, by : Program, line : SUBSET Nat]
Probe == InEvent \cup OutEvent
Said == [what : {"ran", "asked"}, pid : Pid, at : Nat, prog : Program \cup {Nobody}, name : Lib \cup Program, ok : BOOLEAN,
         by : Program, lib : Lib \cup Program, build : BOOLEAN, line : SUBSET Nat, heard : BOOLEAN, sure : BOOLEAN]
Holding == [pc : {"idle", "drain", "walk", "add", "write"}, asks : Seq(Probe), execs : Seq(Event), found : SUBSET Said,
            add : [Program -> SUBSET (Lib \cup Program)], for : Program \cup {Nobody}, base : SUBSET (Lib \cup Program),
            left : Seq({"asks", "execs", "arm"}), owed : SUBSET Said]

Asking == [what : {"asked"}, at : Nat, pid : Pid, name : Lib, ok : BOOLEAN, lib : Lib, by : Program, line : SUBSET Nat]
PairState == [open : [Pid -> Seq(Lib)], out : SUBSET Asking]
Outs(es) == {e \in ToSet(es) : e.what = "out"}

----------------------------------------------------------------------------
(* How calls and returns pair: one event after the other. *)

LEMMA PairTyped ==
  ASSUME NEW st \in PairState, NEW e \in Probe
  PROVE  Pair(st, e) \in PairState
<1>1. e.pid \in Pid /\ st.open[e.pid] \in Seq(Lib)
  BY DEF Probe, InEvent, OutEvent, PairState
<1>2. CASE e.what = "in"
  <2>1. e.lib \in Lib
    BY <1>2 DEF Probe, InEvent, OutEvent
  <2>2. Append(st.open[e.pid], e.lib) \in Seq(Lib)
    BY <1>1, <2>1
  <2>3. Pair(st, e) = [st EXCEPT !.open[e.pid] = Append(@, e.lib)]
    BY <1>2 DEF Pair
  <2> QED
    BY <1>1, <2>2, <2>3 DEF PairState
<1>3. CASE e.what # "in" /\ st.open[e.pid] = <<>>
  BY <1>3 DEF Pair
<1>4. CASE e.what # "in" /\ st.open[e.pid] # <<>>
  <2>1. Front(st.open[e.pid]) \in Seq(Lib) /\ Last(st.open[e.pid]) \in Lib
    BY <1>1, <1>4 DEF Front, Last
  <2>2. e \in OutEvent
    BY <1>4 DEF Probe, InEvent, OutEvent
  <2> DEFINE a == [what |-> "asked", at |-> e.at, pid |-> e.pid, name |-> Last(st.open[e.pid]), ok |-> e.ok,
                   lib |-> e.lib, by |-> e.by, line |-> e.line]
  <2>3. a \in Asking
    BY <2>1, <2>2 DEF Asking, OutEvent
  <2>4. Pair(st, e) = [open |-> [st.open EXCEPT ![e.pid] = Front(@)], out |-> st.out \cup {a}]
    BY <1>4 DEF Pair
  <2> HIDE DEF a
  <2> QED
    BY <1>1, <2>1, <2>3, <2>4 DEF PairState
<1> QED
  BY <1>2, <1>3, <1>4

\* the states a reading of es goes through
Pairs(pair, es) ==
  /\ pair \in [0..Len(es) -> PairState] /\ pair[0] = Unpaired
  /\ \A i \in 1..Len(es) : pair[i] = Pair(pair[i - 1], es[i])

LEMMA PairedIs ==
  ASSUME NEW es \in Seq(Probe)
  PROVE  \E pair : Pairs(pair, es) /\ Paired(es) = pair[Len(es)]
<1> DEFINE N == Len(es)
           F == [x \in (1..N) \X PairState |-> Pair(x[2], es[x[1]])]
           pair[i \in 0..Len(es)] == IF i = 0 THEN Unpaired ELSE Pair(pair[i - 1], es[i])
<1>1. Unpaired \in PairState /\ N \in Nat
  BY DEF Unpaired, PairState
<1>2. F \in [(1..N) \X PairState -> PairState]
  <2>1. \A x \in (1..N) \X PairState : x[2] \in PairState /\ es[x[1]] \in Probe
    OBVIOUS
  <2> QED
    BY <2>1, PairTyped
<1> HIDE DEF pair
<1>3. PICK f : Recurs(f, N, PairState, Unpaired, F)
  <2> HIDE DEF F, N
  <2> QED
    BY <1>1, <1>2, Recursion
<1>4. \A i \in 1..N : i \in 0..N /\ i - 1 \in 0..N /\ i # 0 /\ f[i - 1] \in PairState
  <2>1. f \in [0..N -> PairState]
    BY <1>3 DEF Recurs
  <2> HIDE DEF F
  <2> QED
    BY <1>1, <2>1
<1>5. \A i \in 1..N : F[<<i, f[i - 1]>>] = Pair(f[i - 1], es[i])
  <2> HIDE DEF N
  <2> QED
    BY <1>4
<1>6. f = [i \in 0..Len(es) |-> IF i = 0 THEN Unpaired ELSE Pair(f[i - 1], es[i])]
  <2>1. f = [i \in 0..N |-> IF i = 0 THEN Unpaired ELSE F[<<i, f[i - 1]>>]]
    BY <1>3 DEF Recurs
  <2>2. \A i \in 0..N : i = 0 \/ i \in 1..N
    OBVIOUS
  <2> HIDE DEF F
  <2> QED
    BY <1>5, <2>1, <2>2
<1>7. \E g : g = [i \in 0..Len(es) |-> IF i = 0 THEN Unpaired ELSE Pair(g[i - 1], es[i])]
  BY ONLY <1>6, Zenon
<1>8. pair = [i \in 0..Len(es) |-> IF i = 0 THEN Unpaired ELSE Pair(pair[i - 1], es[i])]
  BY <1>7 DEF pair
<1>9. Paired(es) = pair[Len(es)]
  BY DEF Paired, pair
<1>10. \A i \in 1..N : pair[i] = Pair(pair[i - 1], es[i])
  <2>1. \A i \in 1..N : i \in 0..Len(es) /\ i # 0
    OBVIOUS
  <2> QED
    BY <1>8, <2>1
<1>11. pair[0] = Unpaired
  BY <1>1, <1>8
<1> DEFINE P == {i \in 0..N : pair[i] \in PairState}
<1>12. P = 0..N
  <2>1. P \in SUBSET (0..N) /\ 0 \in P
    BY <1>1, <1>11
  <2>2. ASSUME NEW i \in 1..N, i - 1 \in P PROVE i \in P
    <3>1. pair[i - 1] \in PairState /\ es[i] \in Probe
      BY <2>2
    <3>2. pair[i] \in PairState
      BY <1>10, <3>1, PairTyped
    <3> QED
      BY <3>2
  <2> HIDE DEF P, N
  <2> QED
    BY <1>1, <2>1, <2>2, UpTo
<1>13. pair \in [0..Len(es) -> PairState]
  BY <1>8, <1>12
<1> QED
  BY <1>9, <1>10, <1>11, <1>13 DEF Pairs

LEMMA PairsOne ==
  ASSUME NEW es \in Seq(Probe), NEW n \in 0..Len(es), NEW f, NEW g,
         f[0] = g[0],
         \A i \in 1..n : f[i] = Pair(f[i - 1], es[i]) /\ g[i] = Pair(g[i - 1], es[i])
  PROVE  f[n] = g[n]
<1> DEFINE P == {i \in 0..n : f[i] = g[i]}
<1>1. P \in SUBSET (0..n) /\ 0 \in P /\ n \in Nat
  OBVIOUS
<1>2. ASSUME NEW i \in 1..n, i - 1 \in P PROVE i \in P
  BY <1>2
<1>3. P = 0..n
  <2> HIDE DEF P
  <2> QED
    BY <1>1, <1>2, UpTo
<1> QED
  BY <1>1, <1>3

LEMMA PairedAppend ==
  ASSUME NEW es \in Seq(Probe), NEW e \in Probe
  PROVE  Paired(Append(es, e)) = Pair(Paired(es), e) /\ Paired(es) \in PairState
<1> DEFINE more == Append(es, e)
<1>1. /\ more \in Seq(Probe) /\ Len(more) = Len(es) + 1 /\ more[Len(more)] = e /\ Len(es) \in Nat
      /\ \A i \in 1..Len(es) : more[i] = es[i]
  OBVIOUS
<1>2. PICK f : Pairs(f, es) /\ Paired(es) = f[Len(es)]
  BY PairedIs
<1> HIDE DEF more
<1>3. PICK g : Pairs(g, more) /\ Paired(more) = g[Len(more)]
  BY <1>1, PairedIs
<1>4. Len(es) \in 0..Len(more) /\ (\A i \in 1..Len(es) : i \in 1..Len(more)) /\ Len(more) \in 1..Len(more)
      /\ Len(more) - 1 = Len(es)
  BY <1>1
<1>5. g[Len(es)] = f[Len(es)]
  <2>1. /\ Len(es) \in 0..Len(es) /\ f[0] = g[0]
        /\ \A i \in 1..Len(es) : f[i] = Pair(f[i - 1], es[i]) /\ g[i] = Pair(g[i - 1], es[i])
    BY <1>1, <1>2, <1>3, <1>4 DEF Pairs
  <2> QED
    BY <2>1, PairsOne
<1>6. g[Len(more)] = Pair(g[Len(es)], e)
  BY <1>1, <1>3, <1>4 DEF Pairs
<1>7. f[Len(es)] \in PairState
  BY <1>1, <1>2 DEF Pairs
<1> QED
  BY <1>2, <1>3, <1>5, <1>6, <1>7 DEF more

LEMMA PairedNone == Paired(<<>>) = Unpaired
<1>1. PICK f : Pairs(f, <<>>) /\ Paired(<<>>) = f[Len(<<>>)]
  <2>1. <<>> \in Seq(Probe)
    OBVIOUS
  <2> QED
    BY <2>1, PairedIs
<1> QED
  BY <1>1 DEF Pairs

----------------------------------------------------------------------------
(* What a reader makes of the events: one stamp after the other. *)

LinState == [known : [Pid -> Program \cup {Nobody}], built : SUBSET Pid, said : SUBSET Said]
Begin(was) == [known |-> was.known, built |-> was.built, said |-> {}]
Procs == proc \in [Pid -> Process \cup {Nobody}] /\ now \in Nat /\ taken \in [Pid -> Nat]

LEMMA AliveIs ==
  ASSUME Procs, NEW p \in Alive
  PROVE  p \in Pid /\ proc[p] \in Process
BY DEF Procs, Alive

LEMMA ForkTyped ==
  ASSUME NEW st \in LinState, NEW e \in ForkEvent
  PROVE  /\ Forked(st, e).known = [st.known EXCEPT ![e.child] = st.known[e.pid]]
         /\ Forked(st, e).built = (IF e.pid \in st.built THEN st.built \cup {e.child} ELSE st.built \ {e.child})
         /\ Forked(st, e).said = st.said
         /\ Forked(st, e) \in LinState
<1>1. e.pid \in Pid /\ e.child \in Pid
  BY DEF ForkEvent
<1>2. Forked(st, e) = [known |-> [st.known EXCEPT ![e.child] = st.known[e.pid]],
                       built |-> IF e.pid \in st.built THEN st.built \cup {e.child} ELSE st.built \ {e.child},
                       said |-> st.said]
  <2> DEFINE k == [st.known EXCEPT ![e.child] = st.known[e.pid]]
             b == IF e.pid \in st.built THEN st.built \cup {e.child} ELSE st.built \ {e.child}
  <2>1. Forked(st, e) = [st EXCEPT !.known = k, !.built = b]
    BY DEF Forked, Inherit, LinState
  <2> HIDE DEF k, b
  <2>2. [st EXCEPT !.known = k, !.built = b] = [known |-> k, built |-> b, said |-> st.said]
    <3>1. [st EXCEPT !.known = k] = [known |-> k, built |-> st.built, said |-> st.said]
      BY DEF LinState
    <3> DEFINE m == [known |-> k, built |-> st.built, said |-> st.said]
    <3>2. [m EXCEPT !.built = b] = [known |-> k, built |-> b, said |-> st.said]
      OBVIOUS
    <3> QED
      BY <3>1, <3>2
  <2> QED
    BY <2>1, <2>2 DEF k, b
<1> QED
  BY <1>1, <1>2 DEF LinState

Ran(st, e) ==
  [what |-> "ran", pid |-> e.pid, at |-> e.at, prog |-> st.known[e.pid], name |-> e.file, ok |-> TRUE,
   by |-> e.by, lib |-> e.file, build |-> e.build, line |-> e.line,
   heard |-> FALSE, sure |-> e.line \cap lost = {}]
Now(st, e) == IF e.file = Kiry THEN st.built \cup {e.pid} ELSE st.built

LEMMA ExecTyped ==
  ASSUME NEW st \in LinState, NEW e \in ExecEvent
  PROVE  /\ e.pid \in Now(st, e) =>
              Execed(st, e) = [known |-> [st.known EXCEPT ![e.pid] = e.file], built |-> Now(st, e), said |-> st.said]
         /\ e.pid \notin Now(st, e) /\ Keeps(st.known[e.pid], e) => Execed(st, e) = st
         /\ e.pid \notin Now(st, e) /\ ~Keeps(st.known[e.pid], e) =>
              Execed(st, e) = [known |-> [st.known EXCEPT ![e.pid] = Runs(e)], built |-> st.built,
                               said |-> st.said \cup {Ran(st, e)}]
         /\ Execed(st, e) \in LinState
<1>1. e.pid \in Pid /\ e.file \in Program /\ Runs(e) \in Program /\ Now(st, e) \in SUBSET Pid
  BY DEF ExecEvent, Runs, Now, LinState
<1>2. Ran(st, e) \in Said
  BY <1>1 DEF Ran, Said, ExecEvent, LinState
<1>3. e.pid \in Now(st, e) =>
        Execed(st, e) = [known |-> [st.known EXCEPT ![e.pid] = e.file], built |-> Now(st, e), said |-> st.said]
  BY DEF Execed, Now, LinState
<1>4. e.pid \notin Now(st, e) /\ Keeps(st.known[e.pid], e) => Execed(st, e) = st
  BY DEF Execed, Now
<1>5. e.pid \notin Now(st, e) /\ ~Keeps(st.known[e.pid], e) =>
        Execed(st, e) = [known |-> [st.known EXCEPT ![e.pid] = Runs(e)], built |-> st.built,
                         said |-> st.said \cup {Ran(st, e)}]
  BY DEF Execed, Now, LinState, Ran
<1>6. Execed(st, e) \in LinState
  <2> HIDE DEF Ran
  <2> QED
    BY <1>1, <1>2, <1>3, <1>4, <1>5 DEF LinState
<1> QED
  BY <1>3, <1>4, <1>5, <1>6

Heeds(st, e) ==
  [what |-> "asked", pid |-> e.pid, at |-> e.at, name |-> e.name, ok |-> e.ok,
   prog |-> IF st.known[e.pid] # Nobody THEN st.known[e.pid] ELSE Proc(e.pid, e.at),
   by |-> e.by, lib |-> e.lib, build |-> FALSE, line |-> e.line, heard |-> st.known[e.pid] # Nobody,
   sure |-> /\ e.line \cap lost = {}
            /\ taken[e.pid] <= e.at
            /\ st.known[e.pid] = Nobody /\ e.pid \in Alive => proc[e.pid].ran <= e.at]

LEMMA AskTyped ==
  ASSUME Procs, NEW st \in LinState, NEW e \in Asking
  PROVE  /\ Asked(st, e) = [known |-> st.known, built |-> st.built, said |-> st.said \cup {Heeds(st, e)}]
         /\ Asked(st, e) \in LinState
<1>1. e.pid \in Pid /\ Proc(e.pid, e.at) \in Program \cup {Nobody}
  BY AliveIs DEF Asking, Proc, Process
<1>2. Heeds(st, e).sure \in BOOLEAN
  BY DEF Heeds
<1>3. Heeds(st, e) \in Said
  BY <1>1 DEF Heeds, Said, Asking, LinState
<1>4. Asked(st, e) = [known |-> st.known, built |-> st.built, said |-> st.said \cup {Heeds(st, e)}]
  <2>1. Asked(st, e) = [st EXCEPT !.said = st.said \cup {Heeds(st, e)}]
    BY DEF Asked, Heeds, LinState
  <2> QED
    BY <2>1 DEF LinState
<1> QED
  BY <1>3, <1>4 DEF LinState

Here(events, t) == CHOOSE f \in {f \in events : f.at = t} : TRUE

LEMMA StepIs ==
  ASSUME Procs, NEW events \in SUBSET (Event \cup Asking), NEW st \in LinState, NEW t
  PROVE  /\ {f \in events : f.at = t} = {} => Step(st, events, t) = st
         /\ {f \in events : f.at = t} # {} =>
              /\ Here(events, t) \in events /\ Here(events, t).at = t
              /\ Here(events, t) \in ForkEvent => Step(st, events, t) = Forked(st, Here(events, t))
              /\ Here(events, t) \in ExecEvent => Step(st, events, t) = Execed(st, Here(events, t))
              /\ Here(events, t) \in Asking => Step(st, events, t) = Asked(st, Here(events, t))
         /\ Step(st, events, t) \in LinState
<1> DEFINE H == {f \in events : f.at = t}
           e == Here(events, t)
<1>1. H = {} => Step(st, events, t) = st
  BY DEF Step
<1>2. ASSUME H # {}
      PROVE  /\ e \in events /\ e.at = t
             /\ e \in ForkEvent => Step(st, events, t) = Forked(st, e)
             /\ e \in ExecEvent => Step(st, events, t) = Execed(st, e)
             /\ e \in Asking => Step(st, events, t) = Asked(st, e)
  <2>1. e \in H
    BY <1>2 DEF Here
  <2>2. Step(st, events, t) = CASE e.what = "fork" -> Forked(st, e)
                                [] e.what = "exec" -> Execed(st, e)
                                [] e.what = "asked" -> Asked(st, e)
    BY <1>2 DEF Step, Here
  <2>3. /\ e \in ForkEvent => e.what = "fork"
        /\ e \in ExecEvent => e.what = "exec"
        /\ e \in Asking => e.what = "asked"
    <3> HIDE DEF e
    <3> QED
      BY DEF ForkEvent, ExecEvent, Asking
  <2> HIDE DEF e
  <2>4. e \in events /\ e.at = t
    BY <2>1
  <2>5. "fork" # "exec" /\ "fork" # "asked" /\ "exec" # "asked"
    OBVIOUS
  <2> QED
    BY <2>2, <2>3, <2>4, <2>5
<1>3. ASSUME H # {} PROVE Step(st, events, t) \in LinState
  <2> HIDE DEF e, H
  <2>1. e \in ForkEvent \/ e \in ExecEvent \/ e \in Asking
    BY <1>2, <1>3 DEF Event
  <2> QED
    <3>1. CASE e \in ForkEvent
      BY <1>2, <1>3, <3>1, ForkTyped
    <3>2. CASE e \in ExecEvent
      <4>1. Execed(st, e) \in LinState
        BY <3>2, ExecTyped
      <4> QED
        BY <1>2, <1>3, <3>2, <4>1
    <3>3. CASE e \in Asking
      <4>1. Asked(st, e) \in LinState
        BY <3>3, AskTyped
      <4> QED
        BY <1>2, <1>3, <3>3, <4>1
    <3> QED
      BY <2>1, <3>1, <3>2, <3>3
<1> HIDE DEF e
<1> QED
  BY <1>1, <1>2, <1>3 DEF e

Walks(walk, events, was) ==
  /\ walk \in [0..now -> LinState] /\ walk[0] = Begin(was)
  /\ \A t \in 1..now : walk[t] = Step(walk[t - 1], events, t)

LEMMA LineageIs ==
  ASSUME Procs, NEW events \in SUBSET (Event \cup Asking), NEW was \in Carry
  PROVE  \E walk : Walks(walk, events, was) /\ Lineage(events, was) = walk[now]
<1> DEFINE F == [x \in (1..now) \X LinState |-> Step(x[2], events, x[1])]
           walk[t \in 0..now] ==
             IF t = 0 THEN [known |-> was.known, built |-> was.built, said |-> {}] ELSE Step(walk[t - 1], events, t)
<1>1. Begin(was) \in LinState /\ now \in Nat
  BY DEF Begin, LinState, Carry, Procs
<1>2. F \in [(1..now) \X LinState -> LinState]
  <2>1. \A x \in (1..now) \X LinState : x[2] \in LinState
    OBVIOUS
  <2> QED
    BY <2>1, StepIs
<1> HIDE DEF walk
<1>3. PICK f : Recurs(f, now, LinState, Begin(was), F)
  <2> HIDE DEF F
  <2> QED
    BY <1>1, <1>2, Recursion
<1>4. \A t \in 1..now : t \in 0..now /\ t - 1 \in 0..now /\ t # 0 /\ f[t - 1] \in LinState
  <2>1. f \in [0..now -> LinState]
    BY <1>3 DEF Recurs
  <2> HIDE DEF F
  <2> QED
    BY <1>1, <2>1
<1>5. \A t \in 1..now : F[<<t, f[t - 1]>>] = Step(f[t - 1], events, t)
  BY <1>4
<1>6. f = [t \in 0..now |-> IF t = 0 THEN [known |-> was.known, built |-> was.built, said |-> {}]
                            ELSE Step(f[t - 1], events, t)]
  <2>1. f = [t \in 0..now |-> IF t = 0 THEN Begin(was) ELSE F[<<t, f[t - 1]>>]]
    BY <1>3 DEF Recurs
  <2>2. \A t \in 0..now : t = 0 \/ t \in 1..now
    BY <1>1
  <2> HIDE DEF F
  <2> QED
    BY <1>5, <2>1, <2>2 DEF Begin
<1>7. \E g : g = [t \in 0..now |-> IF t = 0 THEN [known |-> was.known, built |-> was.built, said |-> {}]
                                   ELSE Step(g[t - 1], events, t)]
  BY ONLY <1>6, Zenon
<1>8. walk = [t \in 0..now |-> IF t = 0 THEN [known |-> was.known, built |-> was.built, said |-> {}]
                               ELSE Step(walk[t - 1], events, t)]
  BY <1>7 DEF walk
<1>9. Lineage(events, was) = walk[now]
  BY DEF Lineage, walk
<1>10. \A t \in 1..now : walk[t] = Step(walk[t - 1], events, t)
  <2>1. \A t \in 1..now : t \in 0..now /\ t # 0
    BY <1>1
  <2> QED
    BY <1>8, <2>1
<1>11. walk[0] = Begin(was)
  BY <1>1, <1>8 DEF Begin
<1> DEFINE P == {t \in 0..now : walk[t] \in LinState}
<1>12. P = 0..now
  <2>1. P \in SUBSET (0..now) /\ 0 \in P
    BY <1>1, <1>11
  <2>2. ASSUME NEW t \in 1..now, t - 1 \in P PROVE t \in P
    <3>1. walk[t - 1] \in LinState
      BY <2>2
    <3>2. walk[t] \in LinState
      BY <1>10, <3>1, StepIs
    <3> QED
      BY <1>1, <3>2
  <2> HIDE DEF P
  <2> QED
    BY <1>1, <2>1, <2>2, UpTo
<1>13. walk \in [0..now -> LinState]
  BY <1>8, <1>12
<1> QED
  BY <1>9, <1>10, <1>11, <1>13 DEF Walks

----------------------------------------------------------------------------
(* Types. *)

Typed ==
  /\ TypeOK
  /\ proc \in [Pid -> Process \cup {Nobody}]
  /\ libc \in {1, 2} /\ armed \in {1, libc}
  /\ asks \in Seq(Probe) /\ execs \in Seq(Event)
  /\ carried \in Carry /\ lost \subseteq Nat /\ taken \in [Pid -> Nat]
  /\ rd \in [Reader -> Holding]
  /\ \A r \in Reader : rd[r].pc = "write" => rd[r].for \in Program
  /\ \A e \in ToSet(execs) : e.at <= now
  /\ \A r \in Reader : \A e \in ToSet(rd[r].execs) : e.at <= now
  /\ \A p \in Pid : taken[p] <= now

Begun == <<"asks", "execs", "arm">>
AsksHad == <<"execs", "arm">>
BothHad == <<"arm">>

\* what a reader can hold where it is
Held(h) ==
  /\ h.pc = "drain" => h.left \in {Begun, AsksHad, BothHad}
  /\ (h.pc \in {"idle", "add", "write"} \/ (h.pc = "drain" /\ h.left = Begun)) => h.asks = <<>>
  /\ (h.pc \in {"idle", "add", "write"} \/ (h.pc = "drain" /\ h.left # BothHad)) => h.execs = <<>>
  /\ h.pc \in {"idle", "drain", "walk"} => h.found = {}
Shape == \A r \in Reader : Held(rd[r])

LEMMA TraceEventsTyped ==
  ASSUME NEW es \in Seq(Probe)
  PROVE  TraceEvents(es) \in SUBSET Asking
<1>1. PICK f : Pairs(f, es) /\ Paired(es) = f[Len(es)]
  BY PairedIs
<1>2. Len(es) \in 0..Len(es)
  OBVIOUS
<1>3. Paired(es) \in PairState
  BY <1>1, <1>2 DEF Pairs
<1> QED
  BY <1>3 DEF TraceEvents, PairState

LEMMA ToSetTyped == \A S : \A es \in Seq(S) : ToSet(es) \in SUBSET S
BY DEF ToSet

LEMMA LineageTyped ==
  ASSUME Typed, NEW es \in Seq(Event), NEW as \in Seq(Probe), NEW was \in Carry
  PROVE  Lineage(ToSet(es) \cup TraceEvents(as), was) \in LinState
<1>1. ToSet(es) \cup TraceEvents(as) \in SUBSET (Event \cup Asking)
  BY TraceEventsTyped, ToSetTyped
<1>2. Procs
  BY DEF Typed, TypeOK, Procs
<1>3. PICK w : Walks(w, ToSet(es) \cup TraceEvents(as), was) /\ Lineage(ToSet(es) \cup TraceEvents(as), was) = w[now]
  BY <1>1, <1>2, LineageIs
<1>4. now \in 0..now
  BY <1>2 DEF Procs
<1> QED
  BY <1>3, <1>4 DEF Walks

LEMMA TypedInit == Init => Typed
<1> SUFFICES ASSUME Init PROVE Typed
  OBVIOUS
<1>1. NoLines \in [Program -> SUBSET (Lib \cup Program)] /\ Idle \in Holding
  BY DEF NoLines, Idle, Holding
<1>0. PICK b \in Begins :
        /\ proc = [p \in Pid |-> IF p = Min(Pid)
                                 THEN [prog |-> b.prog, build |-> FALSE, start |-> 0, ran |-> 0, line |-> {},
                                       libc |-> 1, calls |-> <<>>, maps |-> Loaded(Exe(b.prog)), asked |-> {}]
                                 ELSE Nobody]
        /\ carried = [known |-> b.known, built |-> {}]
  BY DEF Init
<1>2. Loaded(Exe(b.prog)) \in SUBSET Lib /\ b.prog \in Program /\ b.known \in [Pid -> Program \cup {Nobody}]
  BY TraceAssumption, ExeIs, LoadedIs
<1> DEFINE one == [prog |-> b.prog, build |-> FALSE, start |-> 0, ran |-> 0, line |-> {},
                   libc |-> 1, calls |-> <<>>, maps |-> Loaded(Exe(b.prog)), asked |-> {}]
<1>3. one \in Process
  BY <1>2 DEF Process
<1>4. proc = [p \in Pid |-> IF p = Min(Pid) THEN one ELSE Nobody]
  BY <1>0
<1> HIDE DEF one
<1>5. proc \in [Pid -> Process \cup {Nobody}]
  BY <1>3, <1>4
<1>6. \A p \in Alive : proc[p] = one
  BY <1>4 DEF Alive
<1>7. \A p \in Alive : proc[p].prog \in Program /\ proc[p].start <= now /\ proc[p].ran <= now
  <2>1. one.prog = b.prog /\ one.start = 0 /\ one.ran = 0 /\ now = 0
    BY DEF one, Init
  <2> QED
    BY <1>2, <1>6, <2>1
<1>8. now \in 0..MaxEvents /\ libc \in {1, 2} /\ armed \in 1..libc /\ armed \in {1, libc} /\ Len(execs) <= ExecCap
  BY TraceAssumption DEF Init
<1>9. carried \in Carry
  BY <1>0, <1>2 DEF Carry
<1>10. /\ lock \in Reader \cup {Nobody} /\ \A r \in Reader : (rd[r].pc # "idle") <=> (lock = r)
       /\ rd \in [Reader -> Holding] /\ \A r \in Reader : rd[r].pc = "idle"
  <2>1. Idle.pc = "idle"
    BY DEF Idle
  <2>2. Nobody \notin Reader
    BY TraceAssumption
  <2> QED
    BY <1>1, <2>1, <2>2 DEF Init
<1>11. asks \in Seq(Probe) /\ execs \in Seq(Event) /\ lost \subseteq Nat /\ taken \in [Pid -> Nat]
       /\ seen \in [Program -> SUBSET (Lib \cup Program)]
  BY <1>1 DEF Init
<1>12. /\ \A e \in ToSet(execs) : e.at <= now
       /\ \A r \in Reader : \A e \in ToSet(rd[r].execs) : e.at <= now
       /\ \A p \in Pid : taken[p] <= now
  <2>1. execs = <<>> /\ (\A r \in Reader : rd[r].execs = <<>>) /\ now = 0 /\ \A p \in Pid : taken[p] = 0
    BY DEF Init, Idle
  <2>2. ToSet(<<>>) = {}
    BY DEF ToSet
  <2> QED
    BY <2>1, <2>2
<1> QED
  BY <1>5, <1>7, <1>8, <1>9, <1>10, <1>11, <1>12 DEF Typed, TypeOK, Carry

LEMMA AppendSet ==
  ASSUME NEW S, NEW s \in Seq(S), NEW e \in S
  PROVE  ToSet(Append(s, e)) = ToSet(s) \cup {e}
<1> DEFINE t == Append(s, e)
<1>1. /\ t \in Seq(S) /\ Len(t) = Len(s) + 1 /\ Len(s) \in Nat /\ t[Len(s) + 1] = e
      /\ \A i \in 1..Len(s) : t[i] = s[i]
  OBVIOUS
<1> HIDE DEF t
<1>2. (\A x : x \in ToSet(s) <=> \E i \in 1..Len(s) : s[i] = x) /\ \A x : x \in ToSet(t) <=> \E i \in 1..Len(t) : t[i] = x
  BY <1>1 DEF ToSet
<1>3. /\ Len(s) + 1 \in 1..Len(t) /\ \A i \in 1..Len(s) : i \in 1..Len(t)
      /\ \A i \in 1..Len(t) : i \in 1..Len(s) \/ i = Len(s) + 1
  BY <1>1
<1>4. ASSUME NEW x \in ToSet(t) PROVE x \in ToSet(s) \cup {e}
  BY <1>1, <1>2, <1>3, <1>4
<1>5. ASSUME NEW x \in ToSet(s) \cup {e} PROVE x \in ToSet(t)
  BY <1>1, <1>2, <1>3, <1>5
<1> QED
  BY <1>4, <1>5 DEF t

LEMMA TailSet ==
  ASSUME NEW S, NEW s \in Seq(S), s # <<>>
  PROVE  ToSet(s) = ToSet(Tail(s)) \cup {Head(s)}
<1> DEFINE t == Tail(s)
<1>1. t \in Seq(S) /\ Len(t) = Len(s) - 1 /\ Len(s) \in Nat \ {0} /\ Head(s) = s[1]
  OBVIOUS
<1>2. \A i \in 1..Len(s) - 1 : t[i] = s[i + 1]
  OBVIOUS
<1> HIDE DEF t
<1>3. \A i \in 1..Len(s) : i = 1 \/ (i - 1 \in 1..Len(s) - 1 /\ s[i] = t[i - 1])
  BY <1>1, <1>2
<1>4. \A x : x \in ToSet(s) <=> \E i \in 1..Len(s) : s[i] = x
  BY DEF ToSet
<1>5. \A x : x \in ToSet(t) <=> \E i \in 1..Len(s) - 1 : t[i] = x
  BY <1>1 DEF ToSet
<1>6. \A i \in 1..Len(s) - 1 : i + 1 \in 1..Len(s)
  BY <1>1
<1>7. 1 \in 1..Len(s)
  BY <1>1
<1>8. ASSUME NEW x \in ToSet(s) PROVE x \in ToSet(t) \cup {Head(s)}
  <2>1. PICK i \in 1..Len(s) : s[i] = x
    BY <1>4, <1>8
  <2> QED
    BY <1>1, <1>3, <1>5, <2>1
<1>9. ASSUME NEW x \in ToSet(t) PROVE x \in ToSet(s)
  <2>1. PICK i \in 1..Len(s) - 1 : t[i] = x
    BY <1>5, <1>9
  <2> QED
    BY <1>2, <1>4, <1>6, <2>1
<1>10. Head(s) \in ToSet(s)
  BY <1>1, <1>4, <1>7
<1> QED
  BY <1>8, <1>9, <1>10 DEF t

\* what an event leaves in the exec buffer, and what it drops
LEMMA LoggedIs ==
  ASSUME Typed, NEW e \in Event, NEW astray, Logged(e, astray)
  PROVE  \E rest \in Seq(Event) :
           /\ execs' = Append(rest, e) /\ Len(rest) < ExecCap
           /\ \/ rest = execs /\ lost' = astray \cup lost
              \/ execs # <<>> /\ rest = Tail(execs) /\ lost' = astray \cup (lost \cup {Head(execs).at})
<1> DEFINE rest == IF Len(execs) = ExecCap THEN Tail(execs) ELSE execs
<1>1. execs \in Seq(Event) /\ Len(execs) \in Nat /\ Len(execs) <= ExecCap /\ ExecCap \in Nat \ {0}
  BY TraceAssumption DEF Typed, TypeOK
<1>2. rest \in Seq(Event) /\ Len(rest) < ExecCap
  BY <1>1
<1>3. execs' = Append(rest, e)
  BY DEF Logged
<1>4. \/ rest = execs /\ lost' = astray \cup lost
      \/ execs # <<>> /\ rest = Tail(execs) /\ lost' = astray \cup (lost \cup {Head(execs).at})
  BY <1>1 DEF Logged
<1> HIDE DEF rest
<1> QED
  BY <1>2, <1>3, <1>4

LEMMA LoggedTyped ==
  ASSUME Typed, NEW e \in Event, e.at <= now', now <= now', now' \in Nat, NEW astray \in SUBSET {e.at},
         Logged(e, astray)
  PROVE  /\ execs' \in Seq(Event) /\ Len(execs') <= ExecCap /\ lost' \subseteq Nat
         /\ \A g \in ToSet(execs') : g.at <= now'
<1>1. PICK rest \in Seq(Event) :
        /\ execs' = Append(rest, e) /\ Len(rest) < ExecCap
        /\ \/ rest = execs /\ lost' = astray \cup lost
           \/ execs # <<>> /\ rest = Tail(execs) /\ lost' = astray \cup (lost \cup {Head(execs).at})
  BY LoggedIs
<1>2. execs \in Seq(Event) /\ ExecCap \in Nat /\ lost \subseteq Nat /\ Len(rest) \in Nat /\ now \in Nat
  BY TraceAssumption DEF Typed, TypeOK
<1>3. \A f \in Event : f.at \in Nat
  BY DEF Event, ForkEvent, ExecEvent
<1>4. ASSUME execs # <<>> PROVE Head(execs) \in Event
  BY <1>2, <1>4
<1>5. execs' \in Seq(Event) /\ Len(execs') <= ExecCap /\ ToSet(execs') = ToSet(rest) \cup {e}
  BY <1>1, <1>2, AppendSet
<1>6. lost' \subseteq Nat
  <2>1. execs # <<>> => Head(execs).at \in Nat
    BY <1>3, <1>4
  <2>2. astray \subseteq Nat
    BY <1>3
  <2> QED
    BY <1>1, <1>2, <2>1, <2>2
<1>7. ToSet(rest) \subseteq ToSet(execs)
  BY <1>1, <1>2, TailSet
<1>8. \A f \in ToSet(execs) : f \in Event /\ f.at <= now /\ f.at \in Nat
  BY <1>2, <1>3, ToSetTyped DEF Typed
<1>9. \A f \in ToSet(execs) : f.at <= now'
  BY <1>2, <1>8
<1> QED
  BY <1>5, <1>6, <1>7, <1>9

\* what a step of the kernel leaves to show
LEMMA KernelTyped ==
  ASSUME Typed, UNCHANGED <<libc, armed, carried, seen, lock, rd, taken>>,
         now' \in 0..MaxEvents, now <= now',
         proc' \in [Pid -> Process \cup {Nobody}],
         \A p \in Alive' : proc'[p] = proc[p] \/ (proc'[p].start <= now' /\ proc'[p].ran <= now'),
         asks' \in Seq(Probe), execs' \in Seq(Event), Len(execs') <= ExecCap, lost' \subseteq Nat,
         \A f \in ToSet(execs') : f.at <= now'
  PROVE  Typed'
<1>1. \A p \in Alive' : p \in Pid /\ proc'[p] \in Process
  BY DEF Alive
<1>2. ASSUME NEW p \in Alive' PROVE proc'[p].prog \in Program /\ proc'[p].start <= now' /\ proc'[p].ran <= now'
  <2>1. proc'[p].prog \in Program /\ proc'[p].start \in Nat /\ proc'[p].ran \in Nat
    BY <1>1, <1>2 DEF Process
  <2>2. CASE proc'[p] = proc[p]
    <3>1. p \in Alive
      BY <1>2, <2>2 DEF Alive
    <3>2. proc[p].start <= now /\ proc[p].ran <= now
      BY <3>1 DEF Typed, TypeOK
    <3> QED
      BY <2>1, <2>2, <3>2 DEF Typed, TypeOK
  <2> QED
    BY <1>2, <2>1, <2>2
<1>3. /\ now' \in 0..MaxEvents /\ armed' \in 1..libc' /\ Len(execs)' <= ExecCap /\ lock' \in Reader \cup {Nobody}
      /\ carried'.known \in [Pid -> Program \cup {Nobody}] /\ carried'.built \subseteq Pid
      /\ seen' \in [Program -> SUBSET (Lib \cup Program)]
      /\ \A r \in Reader : (rd'[r].pc # "idle") <=> (lock' = r)
  BY DEF Typed, TypeOK
<1>4. TypeOK'
  BY <1>2, <1>3 DEF TypeOK
<1>5. \A n \in Nat : n <= now => n <= now'
  BY TraceAssumption DEF Typed, TypeOK
<1>6. ASSUME NEW r \in Reader, NEW e \in ToSet(rd'[r].execs) PROVE e.at <= now'
  <2>1. rd[r].execs \in Seq(Event) /\ e \in ToSet(rd[r].execs)
    BY DEF Typed, Holding
  <2>2. e \in Event
    BY <2>1, ToSetTyped
  <2>3. e.at \in Nat /\ e.at <= now
    BY <2>1, <2>2 DEF Typed, Event, ForkEvent, ExecEvent
  <2> QED
    BY <1>5, <2>3
<1>7. \A p \in Pid : taken'[p] <= now'
  BY <1>5 DEF Typed
<1>8. /\ proc' \in [Pid -> Process \cup {Nobody}] /\ libc' \in {1, 2} /\ armed' \in {1, libc'}
      /\ carried' \in Carry /\ taken' \in [Pid -> Nat] /\ rd' \in [Reader -> Holding]
      /\ \A r \in Reader : rd'[r].pc = "write" => rd'[r].for \in Program
  BY DEF Typed
<1> QED
  BY <1>4, <1>6, <1>7, <1>8 DEF Typed

Calls == Seq([lib : Lib, on : BOOLEAN])

\* a fork's child
Child(q, t) == [q EXCEPT !.start = t, !.line = @ \cup {t}, !.calls = <<>>]
\* what a call leaves of the process that made it: the calls, the maps and the names asked for
After(q, c, m, n) == [q EXCEPT !.calls = c, !.maps = m, !.asked = n]

Into(q, c) == [q EXCEPT !.calls = c]

LEMMA IntoIs ==
  ASSUME NEW q \in Process, NEW c \in Calls
  PROVE  /\ Into(q, c) \in Process
         /\ Into(q, c).prog = q.prog /\ Into(q, c).build = q.build /\ Into(q, c).start = q.start
         /\ Into(q, c).ran = q.ran /\ Into(q, c).line = q.line /\ Into(q, c).libc = q.libc
         /\ Into(q, c).calls = c /\ Into(q, c).maps = q.maps /\ Into(q, c).asked = q.asked
<1> DEFINE x == Into(q, c)
<1>1. x = [q EXCEPT !.calls = c]
  BY DEF Into
<1> HIDE DEF x
<1>2. x \in Process
  BY <1>1 DEF Process, Calls
<1>3. /\ x.prog = q.prog /\ x.build = q.build /\ x.start = q.start /\ x.ran = q.ran /\ x.line = q.line
      /\ x.libc = q.libc /\ x.calls = c /\ x.maps = q.maps /\ x.asked = q.asked
  BY <1>1 DEF Process
<1> QED
  BY <1>2, <1>3 DEF x

LEMMA ChildIs ==
  ASSUME NEW q \in Process, NEW t \in Nat
  PROVE  /\ Child(q, t) \in Process
         /\ Child(q, t).prog = q.prog /\ Child(q, t).build = q.build /\ Child(q, t).start = t
         /\ Child(q, t).ran = q.ran /\ Child(q, t).line = q.line \cup {t} /\ Child(q, t).libc = q.libc
         /\ Child(q, t).calls = <<>> /\ Child(q, t).maps = q.maps /\ Child(q, t).asked = q.asked
<1> DEFINE x == Child(q, t)
<1>1. \A l \in SUBSET Nat, c \in Calls : [q EXCEPT !.start = t, !.line = l, !.calls = c] \in Process
  BY DEF Process, Calls
<1>2. q.line \cup {t} \in SUBSET Nat /\ <<>> \in Calls
  BY DEF Process, Calls
<1>3. x = [q EXCEPT !.start = t, !.line = q.line \cup {t}, !.calls = <<>>]
  BY DEF Process, Child
<1> HIDE DEF x
<1>4. x \in Process
  BY <1>1, <1>2, <1>3
<1>5. /\ x.prog = q.prog /\ x.build = q.build /\ x.start = t /\ x.ran = q.ran /\ x.line = q.line \cup {t}
      /\ x.libc = q.libc /\ x.calls = <<>> /\ x.maps = q.maps /\ x.asked = q.asked
  BY <1>3 DEF Process
<1> QED
  BY <1>4, <1>5 DEF x

LEMMA AfterIs ==
  ASSUME NEW q \in Process, NEW c \in Calls, NEW m \in SUBSET Lib, NEW n \in SUBSET Lib
  PROVE  /\ After(q, c, m, n) \in Process
         /\ After(q, c, m, n).prog = q.prog /\ After(q, c, m, n).build = q.build /\ After(q, c, m, n).start = q.start
         /\ After(q, c, m, n).ran = q.ran /\ After(q, c, m, n).line = q.line /\ After(q, c, m, n).libc = q.libc
         /\ After(q, c, m, n).calls = c /\ After(q, c, m, n).maps = m /\ After(q, c, m, n).asked = n
<1> DEFINE x == After(q, c, m, n)
<1>1. x = [q EXCEPT !.calls = c, !.maps = m, !.asked = n]
  BY DEF After
<1> HIDE DEF x
<1>2. x \in Process
  BY <1>1 DEF Process, Calls
<1>3. /\ x.prog = q.prog /\ x.build = q.build /\ x.start = q.start /\ x.ran = q.ran /\ x.line = q.line
      /\ x.libc = q.libc /\ x.calls = c /\ x.maps = m /\ x.asked = n
  BY <1>1 DEF Process
<1> QED
  BY <1>2, <1>3 DEF x

LEMMA TypedFork ==
  ASSUME Typed, NEW p \in Pid, NEW c \in Pid, Fork(p, c)
  PROVE  Typed'
<1>1. p \in Alive /\ proc[p] \in Process /\ now' = now + 1 /\ now' \in 0..MaxEvents /\ now' \in Nat /\ now <= now'
  BY TraceAssumption, AliveIs DEF Fork, Ticks, Typed, TypeOK, Procs
<1> DEFINE q == [proc[p] EXCEPT !.start = now', !.line = @ \cup {now'}, !.calls = <<>>]
<1>2. q \in Process /\ q.start = now' /\ q.ran = proc[p].ran
  <2> HIDE DEF q
  <2>1. q = Child(proc[p], now')
    BY DEF q, Child
  <2> QED
    BY <1>1, <2>1, ChildIs
<1>3. proc' = [proc EXCEPT ![c] = q]
  BY DEF Fork
<1>4. proc[p].ran <= now /\ proc[p].ran \in Nat
  BY <1>1 DEF Typed, TypeOK, Process
<1> HIDE DEF q
<1>5. proc' \in [Pid -> Process \cup {Nobody}]
  BY <1>2, <1>3 DEF Typed
<1>6. \A s \in Alive' : proc'[s] = proc[s] \/ (proc'[s].start <= now' /\ proc'[s].ran <= now')
  <2>1. proc[p].ran <= now'
    BY <1>1, <1>4 DEF Typed, TypeOK
  <2>2. proc'[c] = q /\ \A s \in Pid : s # c => proc'[s] = proc[s]
    BY <1>3 DEF Typed
  <2>3. \A s \in Alive' : s \in Pid
    BY DEF Alive
  <2> QED
    BY <1>1, <1>2, <2>1, <2>2, <2>3
<1> DEFINE e == [what |-> "fork", at |-> now', pid |-> p, child |-> c,
                 by |-> proc[p].prog, build |-> proc[p].build, line |-> proc[p].line]
<1>7. e \in ForkEvent
  BY <1>1 DEF ForkEvent, Process
<1>8. Logged(e, {})
  BY DEF Fork
<1> HIDE DEF e
<1>9. /\ execs' \in Seq(Event) /\ Len(execs') <= ExecCap /\ lost' \subseteq Nat
      /\ \A f \in ToSet(execs') : f.at <= now'
  <2>1. e \in Event /\ e.at <= now'
    BY <1>1, <1>7 DEF Event, e
  <2> QED
    BY <1>1, <1>8, <2>1, LoggedTyped
<1>10. UNCHANGED <<libc, armed, carried, seen, lock, rd, taken>> /\ asks' \in Seq(Probe)
  BY DEF Fork, Typed
<1> QED
  BY <1>1, <1>5, <1>6, <1>9, <1>10, KernelTyped

LEMMA TypedExec ==
  ASSUME Typed, NEW p \in Pid, NEW f \in Program, NEW arg \in Program \cup {Nobody},
         NEW said \in Program \cup {Nobody}, Exec(p, f, arg, said)
  PROVE  Typed'
<1>1. p \in Alive /\ proc[p] \in Process /\ now' = now + 1 /\ now' \in 0..MaxEvents /\ now' \in Nat /\ now <= now'
  BY TraceAssumption, AliveIs DEF Exec, Ticks, Typed, TypeOK, Procs
<1> DEFINE build == proc[p].build \/ f = Kiry
           is == IF arg # Nobody /\ ~build THEN arg ELSE f
           q == [prog |-> is, build |-> build, start |-> proc[p].start, ran |-> now',
                 line |-> proc[p].line \cup {now'}, libc |-> libc, calls |-> <<>>,
                 maps |-> Loaded(Exe(f)), asked |-> {}]
<1>2. is \in Program /\ build \in BOOLEAN /\ Loaded(Exe(f)) \in SUBSET Lib /\ libc \in {1, 2}
  BY <1>1, ExeIs, LoadedIs DEF Process, Typed
<1> DEFINE misread == ~build /\ (said # arg \/ (proc[p].prog \in Script[f] /\ arg # proc[p].prog))
           astray == IF misread THEN {now'} ELSE {}
           e == [what |-> "exec", at |-> now', pid |-> p, file |-> f, arg |-> said, is |-> is,
                 by |-> proc[p].prog, build |-> proc[p].build, line |-> proc[p].line]
<1>3. proc' = [proc EXCEPT ![p] = q] /\ Logged(e, astray)
  BY DEF Exec, Typed
<1> HIDE DEF is, build, misread
<1>4. q \in Process /\ q.start = proc[p].start /\ q.ran = now'
  BY <1>1, <1>2 DEF Process
<1>5. proc[p].start <= now /\ proc[p].start \in Nat
  BY <1>1 DEF Typed, TypeOK, Process
<1> HIDE DEF q
<1>6. proc' \in [Pid -> Process \cup {Nobody}]
  BY <1>3, <1>4 DEF Typed
<1>7. \A s \in Alive' : proc'[s] = proc[s] \/ (proc'[s].start <= now' /\ proc'[s].ran <= now')
  <2>1. proc[p].start <= now'
    BY <1>1, <1>5 DEF Typed, TypeOK
  <2>2. proc'[p] = q /\ \A s \in Pid : s # p => proc'[s] = proc[s]
    BY <1>3 DEF Typed
  <2>3. \A s \in Alive' : s \in Pid
    BY DEF Alive
  <2> QED
    BY <1>1, <1>4, <2>1, <2>2, <2>3
<1>8. e \in ExecEvent
  BY <1>1, <1>2 DEF ExecEvent, Process
<1>9. astray \in SUBSET {e.at}
  OBVIOUS
<1> HIDE DEF e, astray
<1>10. /\ execs' \in Seq(Event) /\ Len(execs') <= ExecCap /\ lost' \subseteq Nat
       /\ \A g \in ToSet(execs') : g.at <= now'
  <2>1. e \in Event /\ e.at <= now'
    BY <1>1, <1>8 DEF Event, e
  <2> QED
    BY <1>1, <1>3, <1>9, <2>1, LoggedTyped
<1>11. UNCHANGED <<libc, armed, carried, seen, lock, rd, taken>> /\ asks' \in Seq(Probe)
  BY DEF Exec, Typed
<1> QED
  BY <1>1, <1>6, <1>7, <1>10, <1>11, KernelTyped


LEMMA TypedExit ==
  ASSUME Typed, NEW p \in Pid, Exit(p)
  PROVE  Typed'
<1>1. proc' = [proc EXCEPT ![p] = Nobody] /\ proc' \in [Pid -> Process \cup {Nobody}]
  BY DEF Exit, Typed
<1>2. \A s \in Alive' : proc'[s] = proc[s]
  <2>1. \A s \in Alive' : s \in Pid /\ proc'[s] # Nobody
    BY DEF Alive
  <2>2. proc'[p] = Nobody /\ \A s \in Pid : s # p => proc'[s] = proc[s]
    BY <1>1 DEF Typed
  <2> QED
    BY <2>1, <2>2
<1>3. /\ UNCHANGED <<libc, armed, carried, seen, lock, rd, taken>> /\ now' \in 0..MaxEvents /\ now <= now'
      /\ asks' \in Seq(Probe) /\ execs' \in Seq(Event) /\ Len(execs') <= ExecCap /\ lost' \subseteq Nat
      /\ \A f \in ToSet(execs') : f.at <= now'
  BY TraceAssumption DEF Exit, Typed, TypeOK
<1> QED
  BY <1>1, <1>2, <1>3, KernelTyped

\* the process of p is another, and the clock has ticked
LEMMA TickTyped ==
  ASSUME Typed, NEW p \in Alive, Ticks, NEW q \in Process, proc' = [proc EXCEPT ![p] = q],
         q.start = proc[p].start, q.ran = proc[p].ran,
         UNCHANGED <<libc, armed, execs, carried, seen, lock, rd, lost, taken>>,
         asks' \in Seq(Probe)
  PROVE  Typed'
<1>1. p \in Pid /\ now' = now + 1 /\ now' \in 0..MaxEvents /\ now \in Nat
  BY TraceAssumption DEF Ticks, Typed, TypeOK, Alive
<1>2. proc' \in [Pid -> Process \cup {Nobody}]
  BY <1>1 DEF Typed
<1>3. \A s \in Alive' : proc'[s] = proc[s] \/ (proc'[s].start <= now' /\ proc'[s].ran <= now')
  <2>1. \A s \in Alive' : s \in Pid
    BY DEF Alive
  <2>2. proc'[p] = q /\ \A s \in Pid : s # p => proc'[s] = proc[s]
    BY <1>1 DEF Typed
  <2>3. q.start <= now /\ q.ran <= now /\ q.start \in Nat /\ q.ran \in Nat
    BY DEF Typed, TypeOK, Process
  <2> QED
    BY <1>1, <2>1, <2>2, <2>3
<1>4. /\ execs' \in Seq(Event) /\ Len(execs') <= ExecCap /\ lost' \subseteq Nat
      /\ \A f \in ToSet(execs') : f.at <= now'
  <2>1. execs \in Seq(Event)
    BY DEF Typed
  <2>2. \A f \in ToSet(execs) : f \in Event /\ f.at <= now
    BY <2>1, ToSetTyped DEF Typed
  <2>3. \A f \in ToSet(execs) : f.at \in Nat /\ f.at <= now
    BY <2>2 DEF Event, ForkEvent, ExecEvent
  <2>4. \A f \in ToSet(execs) : f.at <= now'
    BY <1>1, <2>3
  <2> QED
    BY <2>1, <2>4 DEF Typed, TypeOK
<1> QED
  BY <1>1, <1>2, <1>3, <1>4, KernelTyped

LEMMA TypedEnter ==
  ASSUME Typed, NEW p \in Pid, NEW l \in Lib, Enter(p, l)
  PROVE  Typed'
<1>1. p \in Alive /\ proc[p] \in Process
  BY AliveIs DEF Enter, Typed, TypeOK, Procs
<1> DEFINE on == proc[p].libc = armed /\ ~proc[p].build
           c == Append(proc[p].calls, [lib |-> l, on |-> on])
<1>2. c \in Calls
  BY <1>1 DEF Process, Calls
<1>3. proc' = [proc EXCEPT ![p] = Into(proc[p], c)]
  BY DEF Enter, Into
<1>4. asks' \in Seq(Probe)
  <2>1. [what |-> "in", pid |-> p, lib |-> l] \in Probe
    BY DEF Probe, InEvent
  <2> HIDE DEF c
  <2> QED
    BY <2>1 DEF Enter, Typed
<1>5. Ticks /\ UNCHANGED <<libc, armed, execs, carried, seen, lock, rd, lost, taken>>
  BY DEF Enter
<1> HIDE DEF c
<1>6. Into(proc[p], c) \in Process /\ Into(proc[p], c).start = proc[p].start /\ Into(proc[p], c).ran = proc[p].ran
  BY <1>1, <1>2, IntoIs
<1> QED
  BY <1>1, <1>3, <1>4, <1>5, <1>6, TickTyped

\* what a return leaves of the process
Back(q, ok) ==
  LET l == Last(q.calls).lib
  IN  After(q, Front(q.calls), IF ok THEN q.maps \cup Loaded(l) ELSE q.maps, IF ok THEN q.asked \cup {l} ELSE q.asked)

LEMMA BackIs ==
  ASSUME NEW q \in Process, q.calls # <<>>, NEW ok \in BOOLEAN
  PROVE  /\ Back(q, ok) \in Process /\ Last(q.calls) \in [lib : Lib, on : BOOLEAN] /\ Front(q.calls) \in Calls
         /\ Back(q, ok).prog = q.prog /\ Back(q, ok).build = q.build /\ Back(q, ok).start = q.start
         /\ Back(q, ok).ran = q.ran /\ Back(q, ok).line = q.line /\ Back(q, ok).libc = q.libc
         /\ Back(q, ok).calls = Front(q.calls)
         /\ Back(q, ok).maps = (IF ok THEN q.maps \cup Loaded(Last(q.calls).lib) ELSE q.maps)
         /\ Back(q, ok).asked = (IF ok THEN q.asked \cup {Last(q.calls).lib} ELSE q.asked)
<1> DEFINE l == Last(q.calls).lib
           m == IF ok THEN q.maps \cup Loaded(l) ELSE q.maps
           n == IF ok THEN q.asked \cup {l} ELSE q.asked
<1>1. q.calls \in Calls /\ q.maps \in SUBSET Lib /\ q.asked \in SUBSET Lib
  BY DEF Process, Calls
<1>2. Last(q.calls) \in [lib : Lib, on : BOOLEAN] /\ Front(q.calls) \in Calls
  <2> DEFINE S == [lib : Lib, on : BOOLEAN]
  <2>1. q.calls \in Seq(S) /\ q.calls # <<>>
    BY <1>1 DEF Calls
  <2> HIDE DEF S
  <2>2. Last(q.calls) \in S /\ Front(q.calls) \in Seq(S)
    BY <2>1 DEF Last, Front
  <2> QED
    BY <2>2 DEF S, Calls
<1>3. l \in Lib /\ Loaded(l) \in SUBSET Lib
  BY <1>2, LoadedIs
<1>4. m \in SUBSET Lib /\ n \in SUBSET Lib
  BY <1>1, <1>3
<1>5. Back(q, ok) = After(q, Front(q.calls), m, n)
  BY DEF Back
<1> HIDE DEF m, n
<1>6. /\ Back(q, ok) \in Process
      /\ Back(q, ok).prog = q.prog /\ Back(q, ok).build = q.build /\ Back(q, ok).start = q.start
      /\ Back(q, ok).ran = q.ran /\ Back(q, ok).line = q.line /\ Back(q, ok).libc = q.libc
      /\ Back(q, ok).calls = Front(q.calls) /\ Back(q, ok).maps = m /\ Back(q, ok).asked = n
  BY <1>2, <1>4, <1>5, AfterIs
<1> QED
  BY <1>2, <1>6 DEF m, n

LEMMA TypedReturn ==
  ASSUME Typed, NEW p \in Pid, NEW ok \in BOOLEAN, Return(p, ok)
  PROVE  Typed'
<1>1. p \in Alive /\ proc[p] \in Process /\ proc[p].calls # <<>> /\ now' \in Nat
  BY TraceAssumption, AliveIs DEF Return, Ticks, Typed, TypeOK, Procs
<1>2. proc' = [proc EXCEPT ![p] = Back(proc[p], ok)]
  BY DEF Return, Back, After
<1>3. asks' \in Seq(Probe)
  <2> DEFINE e == [what |-> "out", at |-> now', pid |-> p, ok |-> ok, lib |-> Last(proc[p].calls).lib,
                   by |-> proc[p].prog, line |-> proc[p].line]
  <2>1. e \in Probe
    <3>1. Last(proc[p].calls).lib \in Lib
      BY <1>1, BackIs
    <3> QED
      BY <1>1, <3>1 DEF Probe, OutEvent, Process
  <2>2. asks' = asks \/ asks' = Append(asks, e)
    BY DEF Return
  <2>3. asks \in Seq(Probe)
    BY DEF Typed
  <2> HIDE DEF e
  <2> QED
    BY <2>1, <2>2, <2>3
<1>4. Ticks /\ UNCHANGED <<libc, armed, execs, carried, seen, lock, rd, lost, taken>>
  BY DEF Return
<1>5. Back(proc[p], ok) \in Process /\ Back(proc[p], ok).start = proc[p].start /\ Back(proc[p], ok).ran = proc[p].ran
  BY <1>1, BackIs
<1> QED
  BY <1>1, <1>2, <1>3, <1>4, <1>5, TickTyped


----------------------------------------------------------------------------
(* What a reader holds after each of its steps. *)
Taking(q, o) == [Idle EXCEPT !.pc = "drain", !.left = q, !.owed = o]
WithAsks(h, a) == [h EXCEPT !.asks = a]
WithExecs(h, x) == [h EXCEPT !.execs = x]
Walked(h, f, a) == [h EXCEPT !.pc = "add", !.asks = <<>>, !.execs = <<>>, !.found = f, !.add = a]
Reading(h, c, b) == [h EXCEPT !.pc = "write", !.for = c, !.base = b]
Wrote(h, c) == [h EXCEPT !.pc = "add", !.for = Nobody, !.base = {}, !.add[c] = {}]
Owing(h, o) == [h EXCEPT !.owed = o]

LEMMA TakingIs ==
  ASSUME NEW q \in Seq({"asks", "execs", "arm"}), NEW o \in SUBSET Said
  PROVE  /\ Taking(q, o) \in Holding
         /\ Taking(q, o).pc = "drain" /\ Taking(q, o).asks = <<>> /\ Taking(q, o).execs = <<>>
         /\ Taking(q, o).found = {} /\ Taking(q, o).add = NoLines /\ Taking(q, o).for = Nobody
         /\ Taking(q, o).base = {} /\ Taking(q, o).left = q /\ Taking(q, o).owed = o
<1> DEFINE z == Taking(q, o)
<1>1. z = [Idle EXCEPT !.pc = "drain", !.left = q, !.owed = o]
  BY DEF Taking
<1> HIDE DEF z
<1>2. z \in Holding
  <2>1. \A h \in Holding : [h EXCEPT !.pc = "drain", !.left = q, !.owed = o] \in Holding
    BY DEF Holding
  <2>2. Idle \in Holding
    BY DEF Idle, Holding, NoLines
  <2> QED
    BY <1>1, <2>1, <2>2
<1>3. /\ z.pc = "drain" /\ z.asks = <<>> /\ z.execs = <<>> /\ z.found = {} /\ z.add = NoLines
      /\ z.for = Nobody /\ z.base = {} /\ z.left = q /\ z.owed = o
  BY <1>1 DEF Holding, Idle
<1> QED
  BY <1>2, <1>3 DEF z

LEMMA WithAsksIs ==
  ASSUME NEW h \in Holding, NEW a \in Seq(Probe)
  PROVE  /\ WithAsks(h, a) \in Holding
         /\ WithAsks(h, a).pc = h.pc /\ WithAsks(h, a).asks = a /\ WithAsks(h, a).execs = h.execs
         /\ WithAsks(h, a).found = h.found /\ WithAsks(h, a).add = h.add /\ WithAsks(h, a).for = h.for
         /\ WithAsks(h, a).base = h.base /\ WithAsks(h, a).left = h.left /\ WithAsks(h, a).owed = h.owed
<1> DEFINE z == WithAsks(h, a)
<1>1. z = [h EXCEPT !.asks = a]
  BY DEF WithAsks
<1> HIDE DEF z
<1>2. z \in Holding
  BY <1>1 DEF Holding
<1>3. /\ z.pc = h.pc /\ z.asks = a /\ z.execs = h.execs /\ z.found = h.found /\ z.add = h.add /\ z.for = h.for
      /\ z.base = h.base /\ z.left = h.left /\ z.owed = h.owed
  BY <1>1 DEF Holding
<1> QED
  BY <1>2, <1>3 DEF z

LEMMA WithExecsIs ==
  ASSUME NEW h \in Holding, NEW x \in Seq(Event)
  PROVE  /\ WithExecs(h, x) \in Holding
         /\ WithExecs(h, x).pc = h.pc /\ WithExecs(h, x).asks = h.asks /\ WithExecs(h, x).execs = x
         /\ WithExecs(h, x).found = h.found /\ WithExecs(h, x).add = h.add /\ WithExecs(h, x).for = h.for
         /\ WithExecs(h, x).base = h.base /\ WithExecs(h, x).left = h.left /\ WithExecs(h, x).owed = h.owed
<1> DEFINE z == WithExecs(h, x)
<1>1. z = [h EXCEPT !.execs = x]
  BY DEF WithExecs
<1> HIDE DEF z
<1>2. z \in Holding
  BY <1>1 DEF Holding
<1>3. /\ z.pc = h.pc /\ z.asks = h.asks /\ z.execs = x /\ z.found = h.found /\ z.add = h.add /\ z.for = h.for
      /\ z.base = h.base /\ z.left = h.left /\ z.owed = h.owed
  BY <1>1 DEF Holding
<1> QED
  BY <1>2, <1>3 DEF z

LEMMA WalkedIs ==
  ASSUME NEW h \in Holding, NEW f \in SUBSET Said, NEW a \in [Program -> SUBSET (Lib \cup Program)]
  PROVE  /\ Walked(h, f, a) \in Holding
         /\ Walked(h, f, a).pc = "add" /\ Walked(h, f, a).asks = <<>> /\ Walked(h, f, a).execs = <<>>
         /\ Walked(h, f, a).found = f /\ Walked(h, f, a).add = a /\ Walked(h, f, a).for = h.for
         /\ Walked(h, f, a).base = h.base /\ Walked(h, f, a).left = h.left /\ Walked(h, f, a).owed = h.owed
<1> DEFINE z == Walked(h, f, a)
<1>1. z = [h EXCEPT !.pc = "add", !.asks = <<>>, !.execs = <<>>, !.found = f, !.add = a]
  BY DEF Walked
<1> HIDE DEF z
<1>2. z \in Holding
  <2>1. \A s \in Seq(Probe), t \in Seq(Event) :
          [h EXCEPT !.pc = "add", !.asks = s, !.execs = t, !.found = f, !.add = a] \in Holding
    BY DEF Holding
  <2>2. <<>> \in Seq(Probe) /\ <<>> \in Seq(Event)
    OBVIOUS
  <2> QED
    BY <1>1, <2>1, <2>2
<1>3. /\ z.pc = "add" /\ z.asks = <<>> /\ z.execs = <<>> /\ z.found = f /\ z.add = a /\ z.for = h.for
      /\ z.base = h.base /\ z.left = h.left /\ z.owed = h.owed
  BY <1>1 DEF Holding
<1> QED
  BY <1>2, <1>3 DEF z

LEMMA ReadingIs ==
  ASSUME NEW h \in Holding, NEW c \in Program, NEW b \in SUBSET (Lib \cup Program)
  PROVE  /\ Reading(h, c, b) \in Holding
         /\ Reading(h, c, b).pc = "write" /\ Reading(h, c, b).asks = h.asks /\ Reading(h, c, b).execs = h.execs
         /\ Reading(h, c, b).found = h.found /\ Reading(h, c, b).add = h.add /\ Reading(h, c, b).for = c
         /\ Reading(h, c, b).base = b /\ Reading(h, c, b).left = h.left /\ Reading(h, c, b).owed = h.owed
<1> DEFINE z == Reading(h, c, b)
<1>1. z = [h EXCEPT !.pc = "write", !.for = c, !.base = b]
  BY DEF Reading
<1> HIDE DEF z
<1>2. z \in Holding
  BY <1>1 DEF Holding
<1>3. /\ z.pc = "write" /\ z.asks = h.asks /\ z.execs = h.execs /\ z.found = h.found /\ z.add = h.add
      /\ z.for = c /\ z.base = b /\ z.left = h.left /\ z.owed = h.owed
  BY <1>1 DEF Holding
<1> QED
  BY <1>2, <1>3 DEF z

LEMMA WroteIs ==
  ASSUME NEW h \in Holding, NEW c \in Program
  PROVE  /\ Wrote(h, c) \in Holding
         /\ Wrote(h, c).pc = "add" /\ Wrote(h, c).asks = h.asks /\ Wrote(h, c).execs = h.execs
         /\ Wrote(h, c).found = h.found /\ Wrote(h, c).add = [h.add EXCEPT ![c] = {}] /\ Wrote(h, c).for = Nobody
         /\ Wrote(h, c).base = {} /\ Wrote(h, c).left = h.left /\ Wrote(h, c).owed = h.owed
<1> DEFINE z == Wrote(h, c)
<1>1. z = [h EXCEPT !.pc = "add", !.for = Nobody, !.base = {}, !.add[c] = {}]
  BY DEF Wrote
<1> HIDE DEF z
<1>2. z \in Holding
  BY <1>1 DEF Holding
<1>3. /\ z.pc = "add" /\ z.asks = h.asks /\ z.execs = h.execs /\ z.found = h.found
      /\ z.add = [h.add EXCEPT ![c] = {}] /\ z.for = Nobody /\ z.base = {} /\ z.left = h.left
      /\ z.owed = h.owed
  BY <1>1 DEF Holding
<1> QED
  BY <1>2, <1>3 DEF z

LEMMA OwingIs ==
  ASSUME NEW h \in Holding, NEW o \in SUBSET Said
  PROVE  /\ Owing(h, o) \in Holding
         /\ Owing(h, o).pc = h.pc /\ Owing(h, o).asks = h.asks /\ Owing(h, o).execs = h.execs
         /\ Owing(h, o).found = h.found /\ Owing(h, o).add = h.add /\ Owing(h, o).for = h.for
         /\ Owing(h, o).base = h.base /\ Owing(h, o).left = h.left /\ Owing(h, o).owed = o
<1> DEFINE z == Owing(h, o)
<1>1. z = [h EXCEPT !.owed = o]
  BY DEF Owing
<1> HIDE DEF z
<1>2. z \in Holding
  BY <1>1 DEF Holding
<1>3. /\ z.pc = h.pc /\ z.asks = h.asks /\ z.execs = h.execs /\ z.found = h.found /\ z.add = h.add
      /\ z.for = h.for /\ z.base = h.base /\ z.left = h.left /\ z.owed = o
  BY <1>1 DEF Holding
<1> QED
  BY <1>2, <1>3 DEF z

LEMMA MaxIs ==
  ASSUME NEW N \in Nat, NEW S \in SUBSET (0..N), S # {}
  PROVE  Max(S) \in S /\ \A y \in S : y <= Max(S)
<1> DEFINE T == {N - s : s \in S}
<1>1. T \in SUBSET Nat /\ T # {}
  <2>1. \A s \in S : s \in Int /\ N - s \in Nat
    OBVIOUS
  <2> QED
    BY <2>1
<1>2. PICK n \in T : \A m \in T : n <= m
  <2> HIDE DEF T
  <2> QED
    BY <1>1, Least
<1>3. PICK x \in S : n = N - x
  BY <1>2
<1>4. \A y \in S : x >= y
  <2>1. \A y \in S : N - y \in T
    OBVIOUS
  <2> HIDE DEF T
  <2> QED
    BY <1>2, <1>3, <2>1
<1>5. \E z \in S : \A y \in S : z >= y
  BY <1>4
<1>6. Max(S) \in S /\ \A y \in S : Max(S) >= y
  BY <1>5 DEF Max
<1> QED
  BY <1>6

LEMMA ReaderTyped ==
  ASSUME Typed, NEW r \in Reader, NEW h \in Holding, rd' = [rd EXCEPT ![r] = h], UNCHANGED <<now, proc, libc>>,
         armed' \in {armed, libc}, asks' \in Seq(Probe), execs' \in {execs, <<>>}, carried' \in Carry,
         seen' \in [Program -> SUBSET (Lib \cup Program)], lost' \subseteq Nat,
         taken' \in [Pid -> Nat], \A p \in Pid : taken'[p] <= now,
         h.pc = "write" => h.for \in Program, \A e \in ToSet(h.execs) : e.at <= now,
         \/ h.pc # "idle" /\ lock' = r /\ lock \in {r, Nobody}
         \/ h.pc = "idle" /\ lock' = IF lock = r THEN Nobody ELSE lock
  PROVE  Typed'
<1>1. rd' \in [Reader -> Holding] /\ rd'[r] = h /\ \A s \in Reader : s # r => rd'[s] = rd[s]
  BY DEF Typed
<1>2. Nobody \notin Reader
  BY TraceAssumption
<1>3. \A s \in Reader : (rd[s].pc # "idle") <=> (lock = s)
  BY DEF Typed, TypeOK
<1>4. lock' \in Reader \cup {Nobody}
  BY DEF Typed, TypeOK
<1>5. \A s \in Reader : (rd'[s].pc # "idle") <=> (lock' = s)
  BY <1>1, <1>2, <1>3
<1>6. /\ now' \in 0..MaxEvents /\ libc' \in {1, 2} /\ armed' \in 1..libc' /\ armed' \in {1, libc'}
      /\ proc' \in [Pid -> Process \cup {Nobody}]
      /\ \A p \in Alive' : proc'[p].prog \in Program /\ proc'[p].start <= now' /\ proc'[p].ran <= now'
  BY DEF Typed, TypeOK, Alive
<1>7. execs' \in Seq(Event) /\ Len(execs') <= ExecCap /\ \A e \in ToSet(execs') : e.at <= now'
  <2>1. ToSet(<<>>) = {} /\ Len(<<>>) <= ExecCap /\ <<>> \in Seq(Event)
    BY TraceAssumption DEF ToSet
  <2>2. CASE execs' = execs
    BY <2>2 DEF Typed, TypeOK
  <2>3. CASE execs' = <<>>
    BY <2>1, <2>3
  <2> QED
    BY <2>2, <2>3
<1>8. \A s \in Reader : \A e \in ToSet(rd'[s].execs) : e.at <= now'
  BY <1>1 DEF Typed
<1>9. \A s \in Reader : rd'[s].pc = "write" => rd'[s].for \in Program
  BY <1>1 DEF Typed
<1>10. carried'.known \in [Pid -> Program \cup {Nobody}] /\ carried'.built \subseteq Pid
  BY DEF Carry
<1>11. TypeOK'
  BY <1>4, <1>5, <1>6, <1>7, <1>10 DEF TypeOK
<1> QED
  BY <1>1, <1>6, <1>7, <1>8, <1>9, <1>11 DEF Typed

LEMMA CreditsTyped ==
  ASSUME Typed, NEW es \in Seq(Event), NEW as \in Seq(Probe), NEW was \in Carry
  PROVE  Credits(ToSet(es) \cup TraceEvents(as), was) \in SUBSET Said
<1>1. Lineage(ToSet(es) \cup TraceEvents(as), was).said \in SUBSET Said
  BY LineageTyped DEF LinState
<1> QED
  BY <1>1 DEF Credits

LEMMA Steady ==
  ASSUME Typed
  PROVE  /\ now \in Nat /\ armed \in {armed, libc} /\ asks \in Seq(Probe) /\ execs \in {execs, <<>>}
         /\ carried \in Carry /\ seen \in [Program -> SUBSET (Lib \cup Program)] /\ lost \subseteq Nat
         /\ taken \in [Pid -> Nat] /\ \A p \in Pid : taken[p] <= now
         /\ execs \in Seq(Event) /\ \A e \in ToSet(execs) : e.at <= now
         /\ \A r \in Reader : \A e \in ToSet(rd[r].execs) : e.at <= now
         /\ \A r \in Reader : rd[r] \in Holding /\ ((rd[r].pc # "idle") <=> (lock = r))
         /\ ToSet(<<>>) = {}
BY TraceAssumption DEF Typed, TypeOK, ToSet

LEMMA TypedTake ==
  ASSUME Typed, NEW r \in Reader, Take(r)
  PROVE  Typed'
<1> DEFINE o == {s \in Credits(ToSet(execs) \cup TraceEvents(asks), carried) : s.heard /\ s.sure}
<1>1. o \in SUBSET Said /\ Order \in Seq({"asks", "execs", "arm"})
  <2>1. Credits(ToSet(execs) \cup TraceEvents(asks), carried) \in SUBSET Said
    BY Steady, CreditsTyped
  <2> QED
    BY <2>1 DEF Order
<1>2. rd' = [rd EXCEPT ![r] = Taking(Order, o)]
  BY DEF Take, Taking
<1> HIDE DEF o
<1>3. Taking(Order, o) \in Holding /\ Taking(Order, o).pc = "drain" /\ Taking(Order, o).execs = <<>>
  BY <1>1, TakingIs
<1>4. lock = Nobody /\ lock' = r /\ UNCHANGED <<now, proc, libc, execs, armed, asks, carried, seen, lost, taken>>
  BY DEF Take, Free, kernel
<1> HIDE DEF o
<1> QED
  BY <1>2, <1>3, <1>4, Steady, ReaderTyped

Drawn(h, l, p) == [h EXCEPT !.left = l, !.pc = p]
LEMMA DrainedIs ==
  ASSUME Typed, NEW r \in Reader, rd[r].pc = "drain", rd[r].left # <<>>
  PROVE  /\ Drained(r) \in Holding /\ Drained(r).pc = (IF Len(rd[r].left) = 1 THEN "walk" ELSE "drain")
         /\ Drained(r).left = Tail(rd[r].left) /\ Drained(r).asks = rd[r].asks /\ Drained(r).execs = rd[r].execs
         /\ Drained(r).found = rd[r].found /\ Drained(r).add = rd[r].add /\ Drained(r).for = rd[r].for
         /\ Drained(r).base = rd[r].base /\ Drained(r).owed = rd[r].owed
<1> DEFINE h == rd[r]
           l == Tail(h.left)
           p == IF Len(h.left) = 1 THEN "walk" ELSE "drain"
           z == Drawn(h, l, p)
<1>1. h \in Holding
  BY DEF Typed
<1>2. l \in Seq({"asks", "execs", "arm"}) /\ p \in {"idle", "drain", "walk", "add", "write"}
  BY <1>1 DEF Holding
<1>3. Drained(r) = z
  BY DEF Drained, Drawn
<1> HIDE DEF h, l, p
<1>4. z = [h EXCEPT !.left = l, !.pc = p]
  BY DEF Drawn
<1> HIDE DEF z
<1>5. z \in Holding
  BY <1>1, <1>2, <1>4 DEF Holding
<1>6. /\ z.pc = p /\ z.left = l /\ z.asks = h.asks /\ z.execs = h.execs /\ z.found = h.found /\ z.add = h.add
      /\ z.for = h.for /\ z.base = h.base /\ z.owed = h.owed
  BY <1>1, <1>4 DEF Holding
<1> QED
  BY <1>3, <1>5, <1>6 DEF h, l, p

LEMMA TurnIs ==
  ASSUME Typed, Shape, NEW r \in Reader, NEW what, Turn(r, what)
  PROVE  /\ rd[r].pc = "drain" /\ rd[r].left # <<>> /\ Head(rd[r].left) = what
         /\ rd[r].left \in {<<"asks", "execs", "arm">>, <<"execs", "arm">>, <<"arm">>}
         /\ lock = r
BY DEF Turn, Shape, Held, Begun, AsksHad, BothHad, Typed, TypeOK

LEMMA TypedDrainAsks ==
  ASSUME Typed, Shape, NEW r \in Reader, DrainAsks(r)
  PROVE  Typed'
<1>1. Turn(r, "asks") /\ rd' = [rd EXCEPT ![r] = WithAsks(Drained(r), asks)] /\ asks' = <<>>
      /\ UNCHANGED <<now, proc, libc, execs, armed, carried, seen, lock, lost, taken>>
  BY DEF DrainAsks, WithAsks, kernel
<1>2. Drained(r) \in Holding /\ Drained(r).pc \in {"walk", "drain"} /\ Drained(r).execs = rd[r].execs /\ lock = r
  BY <1>1, TurnIs, DrainedIs
<1>3. WithAsks(Drained(r), asks) \in Holding /\ WithAsks(Drained(r), asks).pc = Drained(r).pc
      /\ WithAsks(Drained(r), asks).execs = rd[r].execs
  BY <1>2, Steady, WithAsksIs
<1>4. asks' \in Seq(Probe)
  BY <1>1
<1> QED
  BY <1>1, <1>2, <1>3, <1>4, Steady, ReaderTyped

LEMMA TypedDrainExecs ==
  ASSUME Typed, Shape, NEW r \in Reader, DrainExecs(r)
  PROVE  Typed'
<1>1. Turn(r, "execs") /\ rd' = [rd EXCEPT ![r] = WithExecs(Drained(r), execs)] /\ execs' = <<>>
      /\ UNCHANGED <<now, proc, libc, asks, armed, carried, seen, lock, lost, taken>>
  BY DEF DrainExecs, WithExecs
<1>2. Drained(r) \in Holding /\ Drained(r).pc \in {"walk", "drain"} /\ lock = r
  BY <1>1, TurnIs, DrainedIs
<1>3. WithExecs(Drained(r), execs) \in Holding /\ WithExecs(Drained(r), execs).pc = Drained(r).pc
      /\ WithExecs(Drained(r), execs).execs = execs
  BY <1>2, Steady, WithExecsIs
<1> QED
  BY <1>1, <1>2, <1>3, Steady, ReaderTyped

LEMMA TypedArm ==
  ASSUME Typed, Shape, NEW r \in Reader, Arm(r)
  PROVE  Typed'
<1>1. Turn(r, "arm") /\ rd' = [rd EXCEPT ![r] = Drained(r)] /\ armed' = libc
      /\ UNCHANGED <<now, proc, libc, carried, seen, lock, taken>>
      /\ \/ asks' = asks /\ execs' = execs /\ lost' = lost
         \/ asks' = <<>> /\ execs' = <<>> /\ lost' = lost \cup {e.at : e \in ToSet(execs)}
  BY DEF Arm
<1>2. Drained(r) \in Holding /\ Drained(r).pc \in {"walk", "drain"} /\ Drained(r).execs = rd[r].execs /\ lock = r
  BY <1>1, TurnIs, DrainedIs
<1>3. asks' \in Seq(Probe) /\ execs' \in {execs, <<>>} /\ lost' \subseteq Nat
  <2>1. asks \in Seq(Probe) /\ <<>> \in Seq(Probe) /\ execs \in Seq(Event) /\ lost \subseteq Nat
    BY Steady
  <2>2. \A e \in Event : e.at \in Nat
    BY DEF Event, ForkEvent, ExecEvent
  <2>3. \A e \in ToSet(execs) : e.at \in Nat
    BY <2>1, <2>2, ToSetTyped
  <2> QED
    BY <1>1, <2>1, <2>3
<1> QED
  BY <1>1, <1>2, <1>3, Steady, ReaderTyped

\* what a walk makes of what its reader held
LEMMA WalkHolds ==
  ASSUME Typed, NEW r \in Reader, Walk(r)
  PROVE  /\ rd'[r] \in Holding /\ rd'[r].pc = "add" /\ rd'[r].asks = <<>> /\ rd'[r].execs = <<>>
         /\ rd'[r].found = {s \in Lineage(ToSet(rd[r].execs) \cup TraceEvents(rd[r].asks), carried).said : Counts(s)}
         /\ rd' = [rd EXCEPT ![r] = rd'[r]] /\ carried' \in Carry
         /\ rd[r] \in Holding /\ rd[r].execs \in Seq(Event) /\ rd[r].asks \in Seq(Probe) /\ lock = r
         /\ rd'[r].owed = rd[r].owed /\ \A s \in rd'[r].found : s.prog \in Program => s.name \in rd'[r].add[s.prog]
<1> DEFINE end == Lineage(ToSet(rd[r].execs) \cup TraceEvents(rd[r].asks), carried)
           found == {s \in end.said : Counts(s)}
           add == [c \in Program |-> {s.name : s \in {t \in found : t.prog = c}} \cup Mapped(c)]
<1>0. rd[r] \in Holding /\ rd[r].execs \in Seq(Event) /\ rd[r].asks \in Seq(Probe) /\ lock = r
  BY Steady DEF Walk, Holding
<1>1. end \in LinState
  BY <1>0, Steady, LineageTyped
<1>2. carried' = [known |-> [p \in Pid |-> IF p \in Alive THEN end.known[p] ELSE Nobody],
                  built |-> {p \in end.built : p \in Alive /\ end.known[p] # Nobody}]
  BY DEF Walk
<1>3. rd' = [rd EXCEPT ![r] = Walked(rd[r], found, add)]
  BY DEF Walk, Walked
<1> HIDE DEF end
<1>4. carried' \in Carry
  <2>1. end.known \in [Pid -> Program \cup {Nobody}] /\ end.built \in SUBSET Pid
    BY <1>1 DEF LinState
  <2>2. \A p \in Pid : (IF p \in Alive THEN end.known[p] ELSE Nobody) \in Program \cup {Nobody}
    BY <2>1
  <2> DEFINE k == [p \in Pid |-> IF p \in Alive THEN end.known[p] ELSE Nobody]
             b == {p \in end.built : p \in Alive /\ end.known[p] # Nobody}
  <2>3. k \in [Pid -> Program \cup {Nobody}] /\ b \in SUBSET Pid
    BY <2>1, <2>2
  <2>4. carried' = [known |-> k, built |-> b]
    BY <1>2
  <2> HIDE DEF k, b
  <2> QED
    BY <2>3, <2>4 DEF Carry
<1>9. \A s \in found : s.prog \in Program => s.name \in add[s.prog]
  <2> HIDE DEF found
  <2> QED
    OBVIOUS
<1>5. found \in SUBSET Said
  BY <1>1 DEF LinState
<1> HIDE DEF found
<1>6. add \in [Program -> SUBSET (Lib \cup Program)]
  <2>1. \A s \in found : s.name \in Lib \cup Program
    BY <1>5 DEF Said
  <2>2. ASSUME NEW c \in Program PROVE Mapped(c) \subseteq Lib
    <3>1. ASSUME NEW p \in Alive PROVE Dlopened(Exe(c), proc[p].maps) \subseteq Lib
      <4>1. proc[p] \in Process
        BY AliveIs, <3>1 DEF Typed, TypeOK, Procs
      <4> QED
        BY <4>1 DEF Process, Dlopened
    <3> QED
      BY <3>1 DEF Mapped
  <2> QED
    BY <2>1, <2>2
<1> HIDE DEF add
<1>7. /\ Walked(rd[r], found, add) \in Holding /\ Walked(rd[r], found, add).pc = "add"
      /\ Walked(rd[r], found, add).asks = <<>> /\ Walked(rd[r], found, add).execs = <<>>
      /\ Walked(rd[r], found, add).found = found /\ Walked(rd[r], found, add).add = add
      /\ Walked(rd[r], found, add).owed = rd[r].owed
  BY <1>0, <1>5, <1>6, WalkedIs
<1>8. rd'[r] = Walked(rd[r], found, add)
  BY <1>3 DEF Typed
<1> QED
  BY <1>0, <1>3, <1>4, <1>7, <1>8, <1>9 DEF found, end

LEMMA TypedWalk ==
  ASSUME Typed, NEW r \in Reader, Walk(r)
  PROVE  Typed'
<1>0. /\ rd'[r] \in Holding /\ rd'[r].pc = "add" /\ rd'[r].execs = <<>> /\ rd' = [rd EXCEPT ![r] = rd'[r]]
      /\ carried' \in Carry /\ rd[r].execs \in Seq(Event) /\ lock = r
  BY WalkHolds
<1> DEFINE S(p) == {taken[p]} \cup {e.at : e \in {f \in ToSet(rd[r].execs) : p = IF f.what = "fork" THEN f.child ELSE f.pid}}
<1>8. taken' = [p \in Pid |-> Max(S(p))]
  BY DEF Walk
<1>9. ASSUME NEW p \in Pid PROVE Max(S(p)) \in 0..now
  <2>1. \A e \in ToSet(rd[r].execs) : e.at \in 0..now
    <3>1. \A e \in ToSet(rd[r].execs) : e \in Event /\ e.at <= now
      BY <1>0, ToSetTyped, Steady
    <3> QED
      BY <3>1, Steady DEF Event, ForkEvent, ExecEvent
  <2>2. taken[p] \in 0..now
    BY Steady
  <2>3. S(p) \in SUBSET (0..now) /\ S(p) # {}
    BY <2>1, <2>2
  <2> HIDE DEF S
  <2> QED
    BY <2>3, Steady, MaxIs
<1> HIDE DEF S
<1>10. taken' \in [Pid -> Nat] /\ \A p \in Pid : taken'[p] <= now
  <2>1. \A p \in Pid : Max(S(p)) \in Nat /\ Max(S(p)) <= now
    BY <1>9, Steady
  <2> QED
    BY <1>8, <2>1
<1>11. lost' \subseteq Nat
  <2>1. \A e \in ToSet(execs) : e.at \in Nat
    <3>1. \A e \in ToSet(execs) : e \in Event
      BY ToSetTyped, Steady
    <3> QED
      BY <3>1 DEF Event, ForkEvent, ExecEvent
  <2> QED
    BY <2>1, Steady DEF Walk
<1>12. UNCHANGED <<now, proc, libc, execs, armed, asks, seen, lock>>
  BY DEF Walk, kernel
<1> QED
  BY <1>0, <1>10, <1>11, <1>12, Steady, ReaderTyped

LEMMA TypedReadSeen ==
  ASSUME Typed, NEW r \in Reader, NEW c \in Program, ReadSeen(r, c)
  PROVE  Typed'
<1>1. rd[r].pc = "add" /\ rd' = [rd EXCEPT ![r] = Reading(rd[r], c, seen[c])]
      /\ UNCHANGED <<now, proc, libc, execs, armed, asks, carried, seen, lock, lost, taken>>
  BY DEF ReadSeen, Reading, kernel
<1>2. rd[r] \in Holding /\ seen[c] \in SUBSET (Lib \cup Program) /\ lock = r
  BY <1>1, Steady
<1>3. /\ Reading(rd[r], c, seen[c]) \in Holding /\ Reading(rd[r], c, seen[c]).pc = "write"
      /\ Reading(rd[r], c, seen[c]).for = c /\ Reading(rd[r], c, seen[c]).execs = rd[r].execs
  BY <1>2, ReadingIs
<1> QED
  BY <1>1, <1>2, <1>3, Steady, ReaderTyped

LEMMA TypedWriteSeen ==
  ASSUME Typed, NEW r \in Reader, WriteSeen(r)
  PROVE  Typed'
<1> DEFINE c == rd[r].for
<1>1. rd[r].pc = "write" /\ rd' = [rd EXCEPT ![r] = Wrote(rd[r], c)]
      /\ seen' = (IF rd[r].add[c] \subseteq rd[r].base THEN seen ELSE [seen EXCEPT ![c] = rd[r].base \cup rd[r].add[c]])
      /\ UNCHANGED <<now, proc, libc, execs, armed, asks, carried, lock, lost, taken>>
  BY DEF WriteSeen, Wrote, kernel
<1>2. rd[r] \in Holding /\ c \in Program /\ lock = r
  BY <1>1, Steady DEF Typed
<1> HIDE DEF c
<1>3. Wrote(rd[r], c) \in Holding /\ Wrote(rd[r], c).pc = "add" /\ Wrote(rd[r], c).execs = rd[r].execs
  BY <1>2, WroteIs
<1>4. seen' \in [Program -> SUBSET (Lib \cup Program)]
  <2>1. rd[r].base \cup rd[r].add[c] \in SUBSET (Lib \cup Program)
    BY <1>2 DEF Holding
  <2> QED
    BY <1>1, <2>1, Steady
<1> QED
  BY <1>1, <1>2, <1>3, <1>4, Steady, ReaderTyped

LEMMA IdleIs == Idle \in Holding /\ Idle.pc = "idle" /\ Idle.execs = <<>> /\ Idle.asks = <<>> /\ Idle.found = {}
                /\ Idle.owed = {}
BY DEF Idle, Holding, NoLines

LEMMA TypedFinish ==
  ASSUME Typed, NEW r \in Reader, Finish(r)
  PROVE  Typed'
<1>1. rd' = [rd EXCEPT ![r] = Idle] /\ lock' = (IF lock = r THEN Nobody ELSE lock)
      /\ UNCHANGED <<now, proc, libc, execs, armed, asks, carried, seen, lost, taken>>
  BY DEF Finish, kernel
<1> QED
  BY <1>1, IdleIs, Steady, ReaderTyped

LEMMA TypedKill ==
  ASSUME Typed, NEW r \in Reader, Kill(r)
  PROVE  Typed'
<1>1. rd' = [rd EXCEPT ![r] = Idle] /\ lock' = (IF lock = r THEN Nobody ELSE lock)
      /\ UNCHANGED <<now, proc, libc, execs, armed, asks, taken>>
  BY DEF Kill, kernel
<1>2. carried' \in Carry
  <2>1. [known |-> Strangers, built |-> {}] \in Carry
    BY DEF Strangers, Carry
  <2> QED
    BY <2>1, Steady DEF Kill
<1>3. seen' \in [Program -> SUBSET (Lib \cup Program)]
  BY Steady DEF Kill
<1>4. lost' \subseteq Nat
  <2>1. \A e \in ToSet(rd[r].execs) : e.at \in Nat
    <3>1. \A e \in ToSet(rd[r].execs) : e \in Event
      BY ToSetTyped, Steady DEF Holding
    <3> QED
      BY <3>1 DEF Event, ForkEvent, ExecEvent
  <2>2. 1..now \subseteq Nat
    BY Steady
  <2> QED
    BY <2>1, <2>2, Steady DEF Kill
<1> QED
  BY <1>1, <1>2, <1>3, <1>4, IdleIs, Steady, ReaderTyped

LEMMA TypedInstall ==
  ASSUME Typed, NEW c \in Renewed, Install(c)
  PROVE  Typed'
<1> DEFINE o(r) == {s \in rd[r].owed : s.prog # c}
<1>1. rd' = [r \in Reader |-> Owing(rd[r], o(r))]
  BY DEF Install, Owing
<1>2. ASSUME NEW r \in Reader
      PROVE  /\ rd'[r] \in Holding /\ rd'[r].pc = rd[r].pc /\ rd'[r].for = rd[r].for /\ rd'[r].execs = rd[r].execs
  <2>1. rd[r] \in Holding /\ o(r) \in SUBSET Said
    BY Steady DEF Holding
  <2>2. rd'[r] = Owing(rd[r], o(r))
    BY <1>1
  <2> HIDE DEF o
  <2> QED
    BY <2>1, <2>2, OwingIs
<1> HIDE DEF o
<1>3. rd' \in [Reader -> Holding]
  BY <1>1, <1>2
<1>4. seen' \in [Program -> SUBSET (Lib \cup Program)]
  BY Steady DEF Install
<1>5. UNCHANGED <<now, proc, libc, armed, asks, execs, carried, lock, lost, taken>>
  BY DEF Install
<1>6. TypeOK'
  BY <1>2, <1>4, <1>5 DEF TypeOK, Typed, Alive
<1> QED
  BY <1>2, <1>3, <1>4, <1>5, <1>6 DEF Typed


----------------------------------------------------------------------------
(* What a reader can hold where it is. *)

LEMMA ShapeInit == Init => Shape
BY IdleIs DEF Init, Shape, Held

LEMMA ShapeOf ==
  ASSUME Typed, Shape, NEW r \in Reader, NEW h, Held(h), rd' = [rd EXCEPT ![r] = h]
  PROVE  Shape'
BY DEF Typed, Shape

LEMMA ShapeDrain ==
  ASSUME Typed, Shape, NEW r \in Reader, NEW what, Turn(r, what)
  PROVE  /\ what = "asks" => Drained(r).pc = "drain" /\ Drained(r).left = AsksHad /\ rd[r].left = Begun
         /\ what = "execs" => Drained(r).pc = "drain" /\ Drained(r).left = BothHad /\ rd[r].left = AsksHad
         /\ what = "arm" => Drained(r).pc = "walk" /\ rd[r].left = BothHad
<1>1. rd[r].pc = "drain" /\ rd[r].left # <<>> /\ Head(rd[r].left) = what /\ rd[r].left \in {Begun, AsksHad, BothHad}
  BY TurnIs DEF Begun, AsksHad, BothHad
<1>2. Drained(r).pc = (IF Len(rd[r].left) = 1 THEN "walk" ELSE "drain") /\ Drained(r).left = Tail(rd[r].left)
  BY <1>1, DrainedIs
<1>3. /\ Head(Begun) = "asks" /\ Tail(Begun) = AsksHad /\ Len(Begun) = 3
      /\ Head(AsksHad) = "execs" /\ Tail(AsksHad) = BothHad /\ Len(AsksHad) = 2
      /\ Head(BothHad) = "arm" /\ Len(BothHad) = 1
  BY DEF Begun, AsksHad, BothHad
<1>4. Begun # AsksHad /\ Begun # BothHad /\ AsksHad # BothHad /\ Begun # <<>> /\ AsksHad # <<>> /\ BothHad # <<>>
  BY DEF Begun, AsksHad, BothHad
<1> QED
  BY <1>1, <1>2, <1>3, <1>4

\* the kernel touches no reader
LEMMA KernelReads == Kernel => UNCHANGED rd
<1>1. ASSUME NEW p \in Pid, Exit(p) \/ \E c \in Pid : Fork(p, c) PROVE UNCHANGED rd
  BY <1>1 DEF Exit, Fork
<1>2. ASSUME NEW p, NEW f, NEW a, NEW s, Exec(p, f, a, s) PROVE UNCHANGED rd
  BY <1>2 DEF Exec
<1>3. ASSUME NEW p \in Pid, (\E l \in Lib : Enter(p, l)) \/ \E ok \in BOOLEAN : Return(p, ok) PROVE UNCHANGED rd
  BY <1>3 DEF Enter, Return
<1> QED
  BY <1>1, <1>2, <1>3 DEF Kernel

LEMMA ShapeStep == Typed /\ Shape /\ [Next]_vars => Shape'
<1> SUFFICES ASSUME Typed, Shape, [Next]_vars PROVE Shape'
  OBVIOUS
<1>0. Begun # AsksHad /\ Begun # BothHad /\ AsksHad # BothHad
  BY DEF Begun, AsksHad, BothHad
<1>1. CASE UNCHANGED rd
  BY <1>1 DEF Shape
<1>2. ASSUME NEW c \in Renewed, Install(c) PROVE Shape'
  <2> DEFINE o(r) == {s \in rd[r].owed : s.prog # c}
  <2>1. ASSUME NEW r \in Reader PROVE Held(rd'[r])
    <3>1. rd[r] \in Holding /\ o(r) \in SUBSET Said
      BY Steady DEF Holding
    <3>2. rd'[r] = Owing(rd[r], o(r))
      BY <1>2 DEF Install, Owing
    <3> HIDE DEF o
    <3>3. /\ rd'[r].pc = rd[r].pc /\ rd'[r].left = rd[r].left /\ rd'[r].asks = rd[r].asks
          /\ rd'[r].execs = rd[r].execs /\ rd'[r].found = rd[r].found
      BY <3>1, <3>2, OwingIs
    <3> QED
      BY <3>3 DEF Shape, Held
  <2> QED
    BY <2>1 DEF Shape
<1>3. ASSUME NEW r \in Reader, Take(r) PROVE Shape'
  <2> DEFINE o == {s \in Credits(ToSet(execs) \cup TraceEvents(asks), carried) : s.heard /\ s.sure}
  <2>1. o \in SUBSET Said /\ Order \in Seq({"asks", "execs", "arm"}) /\ Order = Begun
    <3>1. Credits(ToSet(execs) \cup TraceEvents(asks), carried) \in SUBSET Said
      BY Steady, CreditsTyped
    <3> QED
      BY <3>1 DEF Order, Begun
  <2>2. rd' = [rd EXCEPT ![r] = Taking(Order, o)]
    BY <1>3 DEF Take, Taking
  <2> HIDE DEF o
  <2>3. Held(Taking(Order, o))
    BY <1>0, <2>1, TakingIs DEF Held
  <2> QED
    BY <2>2, <2>3, ShapeOf
<1>4. ASSUME NEW r \in Reader, DrainAsks(r) PROVE Shape'
  <2>1. Turn(r, "asks") /\ rd' = [rd EXCEPT ![r] = WithAsks(Drained(r), asks)]
    BY <1>4 DEF DrainAsks, WithAsks
  <2>2. /\ Drained(r) \in Holding /\ Drained(r).pc = "drain" /\ Drained(r).left = AsksHad
        /\ Drained(r).execs = rd[r].execs /\ Drained(r).found = rd[r].found /\ rd[r].pc = "drain" /\ rd[r].left = Begun
    BY <2>1, TurnIs, DrainedIs, ShapeDrain
  <2>3. Held(WithAsks(Drained(r), asks))
    BY <1>0, <2>2, Steady, WithAsksIs DEF Held, Shape
  <2> QED
    BY <2>1, <2>3, ShapeOf
<1>5. ASSUME NEW r \in Reader, DrainExecs(r) PROVE Shape'
  <2>1. Turn(r, "execs") /\ rd' = [rd EXCEPT ![r] = WithExecs(Drained(r), execs)]
    BY <1>5 DEF DrainExecs, WithExecs
  <2>2. /\ Drained(r) \in Holding /\ Drained(r).pc = "drain" /\ Drained(r).left = BothHad
        /\ Drained(r).found = rd[r].found /\ rd[r].pc = "drain"
    BY <2>1, TurnIs, DrainedIs, ShapeDrain
  <2>3. Held(WithExecs(Drained(r), execs))
    BY <1>0, <2>2, Steady, WithExecsIs DEF Held, Shape
  <2> QED
    BY <2>1, <2>3, ShapeOf
<1>6. ASSUME NEW r \in Reader, Arm(r) PROVE Shape'
  <2>1. Turn(r, "arm") /\ rd' = [rd EXCEPT ![r] = Drained(r)]
    BY <1>6 DEF Arm
  <2>2. Drained(r) \in Holding /\ Drained(r).pc = "walk" /\ Drained(r).found = rd[r].found /\ rd[r].pc = "drain"
    BY <2>1, TurnIs, DrainedIs, ShapeDrain
  <2>3. Held(Drained(r))
    BY <2>2 DEF Held, Shape
  <2> QED
    BY <2>1, <2>3, ShapeOf
<1>8. ASSUME NEW r \in Reader, Walk(r) PROVE Shape'
  <2> DEFINE h == rd'[r]
  <2>1. h.pc = "add" /\ h.asks = <<>> /\ h.execs = <<>> /\ rd' = [rd EXCEPT ![r] = h]
    BY <1>8, WalkHolds
  <2> HIDE DEF h
  <2>2. Held(h)
    BY <2>1 DEF Held
  <2> QED
    BY <2>1, <2>2, ShapeOf
<1>9. ASSUME NEW r \in Reader, NEW c \in Program, ReadSeen(r, c) PROVE Shape'
  <2> DEFINE h == Reading(rd[r], c, seen[c])
  <2>1. rd[r] \in Holding /\ seen[c] \in SUBSET (Lib \cup Program) /\ rd[r].pc = "add" /\ rd' = [rd EXCEPT ![r] = h]
    BY <1>9, Steady DEF ReadSeen, Reading
  <2>2. h.pc = "write" /\ h.asks = <<>> /\ h.execs = <<>>
    BY <2>1, ReadingIs DEF Shape, Held
  <2> HIDE DEF h
  <2>3. Held(h)
    BY <2>2 DEF Held
  <2> QED
    BY <2>1, <2>3, ShapeOf
<1>10. ASSUME NEW r \in Reader, WriteSeen(r) PROVE Shape'
  <2> DEFINE c == rd[r].for
             h == Wrote(rd[r], c)
  <2>1. rd[r] \in Holding /\ c \in Program /\ rd[r].pc = "write" /\ rd' = [rd EXCEPT ![r] = h]
    BY <1>10, Steady DEF WriteSeen, Wrote, Typed
  <2> HIDE DEF c
  <2>2. h.pc = "add" /\ h.asks = <<>> /\ h.execs = <<>>
    BY <2>1, WroteIs DEF Shape, Held
  <2> HIDE DEF h
  <2>3. Held(h)
    BY <2>2 DEF Held
  <2> QED
    BY <2>1, <2>3, ShapeOf
<1>11. ASSUME NEW r \in Reader, rd' = [rd EXCEPT ![r] = Idle] PROVE Shape'
  <2>1. Held(Idle)
    BY IdleIs DEF Held
  <2> QED
    BY <1>11, <2>1, ShapeOf
<1>12. ASSUME NEW r \in Reader, Finish(r) PROVE Shape'
  BY <1>11, <1>12 DEF Finish
<1>13. ASSUME NEW r \in Reader, Kill(r) PROVE Shape'
  BY <1>11, <1>13 DEF Kill
<1>14. Kernel => UNCHANGED rd
  BY KernelReads
<1> QED
  BY <1>1, <1>2, <1>3, <1>4, <1>5, <1>6, <1>8, <1>9, <1>10, <1>12, <1>13, <1>14 DEF Next, Read, vars


LEMMA TypedStep == Typed /\ Shape /\ [Next]_vars => Typed'
<1> SUFFICES ASSUME Typed, Shape, [Next]_vars PROVE Typed'
  OBVIOUS
<1>1. CASE UNCHANGED vars
  BY <1>1 DEF vars, Typed, TypeOK, Alive
<1>2. CASE Kernel
  BY <1>2, TypedExit, TypedFork, TypedExec, TypedEnter, TypedReturn DEF Kernel
<1>3. ASSUME NEW r \in Reader, Read(r) \/ Kill(r) PROVE Typed'
  BY <1>3, TypedTake, TypedDrainAsks, TypedDrainExecs, TypedArm, TypedWalk, TypedReadSeen, TypedWriteSeen,
     TypedFinish, TypedKill DEF Read
<1>4. ASSUME NEW c \in Renewed, Install(c) PROVE Typed'
  BY <1>4, TypedInstall
<1> QED
  BY <1>1, <1>2, <1>3, <1>4 DEF Next

\* The lock is one reader's, the exec buffer stays within its size, no process is stamped after
\* the clock, and what is carried and written down names programs and libraries (observe, seen).
THEOREM TypeCorrect == Spec => []TypeOK
<1>1. Init => Typed /\ Shape
  BY TypedInit, ShapeInit
<1>2. Typed /\ Shape /\ [Next]_vars => (Typed /\ Shape)'
  BY TypedStep, ShapeStep
<1>3. Typed => TypeOK
  BY DEF Typed
<1> QED
  BY <1>1, <1>2, <1>3, PTL DEF Spec


----------------------------------------------------------------------------
(* What is mapped. *)

\* a process maps what its program and the libraries it asked for load, and nothing else
MapsOf(q) ==
  /\ Loaded(Exe(q.prog)) \subseteq q.maps
  /\ \A l \in q.asked : Loaded(l) \subseteq q.maps
  /\ q.maps \subseteq Loaded(Exe(q.prog)) \cup UNION {Loaded(l) : l \in q.asked}
Maps == \A p \in Alive : MapsOf(proc[p])

LEMMA MapsInit == Init => Maps
<1> SUFFICES ASSUME Init, NEW p \in Alive PROVE MapsOf(proc[p])
  BY DEF Maps
<1>1. \E b \in Begins : p \in Pid /\ proc[p].maps = Loaded(Exe(b.prog)) /\ proc[p].asked = {} /\ proc[p].prog = b.prog
  BY DEF Init, Alive
<1> QED
  BY <1>1 DEF MapsOf

LEMMA MapsOne ==
  ASSUME Typed, Maps, NEW p \in Pid, NEW q, proc' = [proc EXCEPT ![p] = q], q = Nobody \/ MapsOf(q)
  PROVE  Maps'
<1>1. proc'[p] = q /\ \A s \in Pid : s # p => proc'[s] = proc[s]
  BY DEF Typed
<1>2. \A s \in Alive' : s \in Pid /\ proc'[s] # Nobody
  BY DEF Alive
<1>3. ASSUME NEW s \in Alive' PROVE MapsOf(proc'[s])
  <2>1. CASE s = p
    BY <1>1, <1>2, <1>3, <2>1
  <2>2. CASE s # p
    <3>1. proc'[s] = proc[s] /\ s \in Alive
      BY <1>1, <1>2, <1>3, <2>2 DEF Alive
    <3>2. MapsOf(proc[s])
      BY <3>1 DEF Maps
    <3> QED
      BY <3>1, <3>2
  <2> QED
    BY <2>1, <2>2
<1> QED
  BY <1>3 DEF Maps, MapsOf

LEMMA MapsStep == Typed /\ Maps /\ [Next]_vars => Maps'
<1> SUFFICES ASSUME Typed, Maps, [Next]_vars PROVE Maps'
  OBVIOUS
<1>0. \A p \in Alive : p \in Pid /\ proc[p] \in Process /\ MapsOf(proc[p])
  BY AliveIs DEF Typed, TypeOK, Procs, Maps
<1>1. CASE UNCHANGED proc
  BY <1>1 DEF Maps, MapsOf, Alive
<1>2. ASSUME NEW p \in Pid, Exit(p) PROVE Maps'
  BY <1>2, MapsOne DEF Exit
<1>3. ASSUME NEW p \in Pid, NEW c \in Pid, Fork(p, c) PROVE Maps'
  <2>1. p \in Alive /\ now' \in Nat /\ proc' = [proc EXCEPT ![c] = Child(proc[p], now')]
    BY <1>3, Steady DEF Fork, Ticks, Child
  <2>2. MapsOf(Child(proc[p], now'))
    BY <1>0, <2>1, ChildIs DEF MapsOf
  <2> QED
    BY <2>1, <2>2, MapsOne
<1>4. ASSUME NEW p \in Pid, NEW f \in Program, NEW arg \in Program \cup {Nobody}, NEW said \in Program \cup {Nobody},
             Exec(p, f, arg, said)
      PROVE  Maps'
  <2> DEFINE build == proc[p].build \/ f = Kiry
             is == IF arg # Nobody /\ ~build THEN arg ELSE f
             q == [prog |-> is, build |-> build, start |-> proc[p].start, ran |-> now',
                   line |-> proc[p].line \cup {now'}, libc |-> libc, calls |-> <<>>,
                   maps |-> Loaded(Exe(f)), asked |-> {}]
  <2>1. proc' = [proc EXCEPT ![p] = q] /\ arg \in Script[f] \cup {Nobody}
    BY <1>4 DEF Exec, Typed
  <2>2. Exe(is) = Exe(f)
    BY <2>1, ExeIs
  <2>3. q.prog = is /\ q.maps = Loaded(Exe(f)) /\ q.asked = {}
    OBVIOUS
  <2> HIDE DEF is, build, q
  <2>4. MapsOf(q)
    BY <2>2, <2>3 DEF MapsOf
  <2> QED
    BY <2>1, <2>4, MapsOne
<1>5. ASSUME NEW p \in Pid, NEW l \in Lib, Enter(p, l) PROVE Maps'
  <2> DEFINE c == Append(proc[p].calls, [lib |-> l, on |-> proc[p].libc = armed /\ ~proc[p].build])
  <2>1. p \in Alive /\ proc' = [proc EXCEPT ![p] = Into(proc[p], c)]
    BY <1>5 DEF Enter, Into
  <2>2. c \in Calls
    <3>1. proc[p] \in Process
      BY <1>0, <2>1
    <3> QED
      BY <3>1 DEF Process, Calls
  <2> HIDE DEF c
  <2>3. MapsOf(Into(proc[p], c))
    BY <1>0, <2>1, <2>2, IntoIs DEF MapsOf
  <2> QED
    BY <2>1, <2>3, MapsOne
<1>6. ASSUME NEW p \in Pid, NEW ok \in BOOLEAN, Return(p, ok) PROVE Maps'
  <2>1. p \in Alive /\ proc[p].calls # <<>> /\ proc' = [proc EXCEPT ![p] = Back(proc[p], ok)]
    BY <1>6 DEF Return, Back, After
  <2>2. /\ Back(proc[p], ok).prog = proc[p].prog
        /\ Back(proc[p], ok).maps = (IF ok THEN proc[p].maps \cup Loaded(Last(proc[p].calls).lib) ELSE proc[p].maps)
        /\ Back(proc[p], ok).asked = (IF ok THEN proc[p].asked \cup {Last(proc[p].calls).lib} ELSE proc[p].asked)
    BY <1>0, <2>1, BackIs
  <2>3. MapsOf(Back(proc[p], ok))
    BY <1>0, <2>1, <2>2 DEF MapsOf
  <2> QED
    BY <2>1, <2>3, MapsOne
<1>7. ASSUME NEW r \in Reader, Read(r) \/ Kill(r) PROVE UNCHANGED proc
  BY <1>7 DEF Read, Take, DrainAsks, DrainExecs, Arm, Walk, ReadSeen, WriteSeen, Finish, Kill, kernel
<1> QED
  BY <1>1, <1>2, <1>3, <1>4, <1>5, <1>6, <1>7 DEF Next, Kernel, Install, vars

LEMMA Opened ==
  ASSUME Typed, Maps, NEW p \in Alive
  PROVE  Dlopened(Exe(proc[p].prog), proc[p].maps) \subseteq proc[p].asked
<1>1. proc[p] \in Process /\ MapsOf(proc[p])
  BY AliveIs DEF Typed, TypeOK, Procs, Maps
<1>2. Exe(proc[p].prog) \in Program /\ proc[p].maps \in SUBSET Lib /\ proc[p].asked \in SUBSET Lib
  BY <1>1, ExeIs DEF Process
<1> QED
  BY <1>1, <1>2, OpenedAsked DEF MapsOf


----------------------------------------------------------------------------
(* What the events to be read say of the processes they are about. Whatever a read begins
   with and has to come: the latest of a process's forks and execs, or what was carried of it
   where there is none, says what it is; and an event and a dlopen were made by what the events
   before it say. This holds of those no event of whose past is among the lost. *)

Subject(e) == IF e.what = "fork" THEN e.child ELSE e.pid
Built(e) == IF e.what = "fork" THEN e.build ELSE e.build \/ e.file = Kiry
Prog(e) == IF e.what = "fork" THEN e.by ELSE e.is
Line(e) == e.line \cup {e.at}

\* the events of E that made p what it is, before t
Of(E, p, t) == {e \in E : Subject(e) = p /\ e.at < t}
Latest(E, p, t, e) == e \in Of(E, p, t) /\ \A f \in Of(E, p, t) : f.at <= e.at

\* p at t is prog, of a build or not, of that line: the events and what is carried say so
Tells(E, c, l, p, t, prog, build, line) ==
  line \cap l = {} =>
    /\ \A e \in E : Latest(E, p, t, e) => Prog(e) = prog /\ (Built(e) <=> build) /\ Line(e) = line
    /\ Of(E, p, t) = {} /\ c.known[p] # Nobody => c.known[p] = prog /\ (p \in c.built <=> build)
\* what is a build's and has no event is carried as one
Marks(E, c, l, p, t, build, line) == line \cap l = {} /\ Of(E, p, t) = {} /\ build => p \in c.built

Distinct(E) == \A e, f \in E : e.at = f.at => e = f

LEMMA EventIs ==
  ASSUME NEW e \in Event
  PROVE  /\ e.at \in Nat /\ e.pid \in Pid /\ Subject(e) \in Pid /\ Prog(e) \in Program /\ Built(e) \in BOOLEAN
         /\ e.by \in Program /\ e.build \in BOOLEAN /\ e.line \in SUBSET Nat
         /\ Line(e) \in SUBSET Nat /\ e.at \in Line(e) /\ e.line \subseteq Line(e)
         /\ (e \in ForkEvent /\ e.what = "fork") \/ (e \in ExecEvent /\ e.what = "exec")
<1>1. CASE e \in ForkEvent
  BY <1>1 DEF ForkEvent, Subject, Prog, Built, Line
<1>2. CASE e \in ExecEvent
  BY <1>2 DEF ExecEvent, Subject, Prog, Built, Line
<1> QED
  BY <1>1, <1>2 DEF Event

LEMMA LatestIs ==
  ASSUME NEW E \in SUBSET Event, NEW p, NEW t \in Nat, Of(E, p, t) # {}
  PROVE  \E e \in E : Latest(E, p, t, e)
<1> DEFINE S == {e.at : e \in Of(E, p, t)}
<1>1. \A e \in Of(E, p, t) : e \in E /\ e.at \in Nat /\ e.at < t
  BY EventIs DEF Of
<1>2. S \in SUBSET (0..t) /\ S # {}
  BY <1>1
<1>3. Max(S) \in S /\ \A y \in S : y <= Max(S)
  <2> HIDE DEF S
  <2> QED
    BY <1>2, MaxIs
<1>4. PICK e \in Of(E, p, t) : e.at = Max(S)
  BY <1>3
<1>5. \A f \in Of(E, p, t) : f.at <= e.at
  <2>1. \A f \in Of(E, p, t) : f.at \in S
    OBVIOUS
  <2> HIDE DEF S
  <2> QED
    BY <1>3, <1>4, <2>1
<1> QED
  BY <1>1, <1>4, <1>5 DEF Latest

\* events that are lost take nothing from what is known of the others
LEMMA Drops ==
  ASSUME NEW E \in SUBSET Event, NEW F \in SUBSET E, Distinct(E), NEW c, NEW l, NEW m, l \subseteq m,
         \A e \in E \ F : e.at \in m,
         NEW p, NEW t \in Nat, NEW prog, NEW build, NEW line, NEW more, line \subseteq more,
         Tells(E, c, l, p, t, prog, build, line)
  PROVE  /\ Tells(F, c, m, p, t, prog, build, line)
         /\ Marks(E, c, l, p, t, build, more) => Marks(F, c, m, p, t, build, more)
<1>1. Of(F, p, t) \subseteq Of(E, p, t)
  BY DEF Of
<1>2. ASSUME line \cap m = {}, Of(E, p, t) # {}
      PROVE  \E e \in F : Latest(E, p, t, e) /\ e \in Of(F, p, t)
  <2>1. PICK e \in E : Latest(E, p, t, e)
    BY <1>2, LatestIs
  <2>2. Line(e) = line /\ e.at \in Line(e)
    BY <1>2, <2>1, EventIs DEF Tells
  <2>3. e \in F
    BY <1>2, <2>2
  <2> QED
    BY <2>1, <2>3 DEF Latest, Of
<1>3. ASSUME line \cap m = {}, NEW e \in F, Latest(F, p, t, e) PROVE Latest(E, p, t, e)
  <2>1. e \in Of(F, p, t) /\ Of(E, p, t) # {}
    BY <1>1, <1>3 DEF Latest
  <2>2. PICK f \in F : Latest(E, p, t, f) /\ f \in Of(F, p, t)
    BY <1>2, <1>3, <2>1
  <2>3. f.at <= e.at /\ e.at <= f.at /\ e.at \in Nat /\ f.at \in Nat
    BY <1>1, <1>3, <2>1, <2>2, EventIs DEF Latest
  <2>4. e = f
    BY <2>3 DEF Distinct
  <2> QED
    BY <2>2, <2>4
<1>4. Tells(F, c, m, p, t, prog, build, line)
  <2> SUFFICES ASSUME line \cap m = {}
               PROVE  /\ \A e \in F : Latest(F, p, t, e) => Prog(e) = prog /\ (Built(e) <=> build) /\ Line(e) = line
                      /\ Of(F, p, t) = {} /\ c.known[p] # Nobody => c.known[p] = prog /\ (p \in c.built <=> build)
    BY DEF Tells
  <2>1. line \cap l = {}
    OBVIOUS
  <2>2. \A e \in F : Latest(F, p, t, e) => Prog(e) = prog /\ (Built(e) <=> build) /\ Line(e) = line
    BY <1>3, <2>1 DEF Tells
  <2>3. Of(F, p, t) = {} => Of(E, p, t) = {}
    BY <1>2
  <2> QED
    BY <2>1, <2>2, <2>3 DEF Tells
<1>5. ASSUME Marks(E, c, l, p, t, build, more) PROVE Marks(F, c, m, p, t, build, more)
  <2> SUFFICES ASSUME more \cap m = {}, Of(F, p, t) = {}, build PROVE p \in c.built
    BY DEF Marks
  <2>1. line \cap m = {} /\ more \cap l = {}
    OBVIOUS
  <2>2. Of(E, p, t) = {}
    BY <1>2, <2>1
  <2> QED
    BY <1>5, <2>1, <2>2 DEF Marks
<1> QED
  BY <1>4, <1>5

\* an event is nothing to what came before it, nor to other processes
LEMMA Adds ==
  ASSUME NEW E, NEW e, NEW c, NEW l, NEW p, NEW t, NEW prog, NEW build, NEW line, NEW more,
         Subject(e) # p \/ ~(e.at < t)
  PROVE  /\ Tells(E, c, l, p, t, prog, build, line) => Tells(E \cup {e}, c, l, p, t, prog, build, line)
         /\ Marks(E, c, l, p, t, build, more) => Marks(E \cup {e}, c, l, p, t, build, more)
<1>1. Of(E \cup {e}, p, t) = Of(E, p, t)
  BY DEF Of
<1>2. \A f \in E \cup {e} : Latest(E \cup {e}, p, t, f) => f \in E /\ Latest(E, p, t, f)
  BY <1>1 DEF Latest, Of
<1> QED
  BY <1>1, <1>2 DEF Tells, Marks

\* the moment does not matter once every event is past
LEMMA Later ==
  ASSUME NEW E \in SUBSET Event, NEW c, NEW l, NEW p, NEW t \in Nat, NEW u \in Nat, NEW prog, NEW build, NEW line, NEW more,
         \A e \in E : e.at < t /\ e.at < u
  PROVE  /\ Tells(E, c, l, p, t, prog, build, line) => Tells(E, c, l, p, u, prog, build, line)
         /\ Marks(E, c, l, p, t, build, more) => Marks(E, c, l, p, u, build, more)
<1>1. Of(E, p, t) = Of(E, p, u)
  BY DEF Of
<1> QED
  BY <1>1 DEF Tells, Marks, Latest


\* the latest event says itself
LEMMA Says ==
  ASSUME NEW E \in SUBSET Event, NEW e \in Event, \A f \in E : f.at < e.at, NEW c, NEW l, NEW t \in Nat, e.at < t
  PROVE  /\ Tells(E \cup {e}, c, l, Subject(e), t, Prog(e), Built(e), Line(e))
         /\ Marks(E \cup {e}, c, l, Subject(e), t, Built(e), Line(e))
<1> DEFINE F == E \cup {e}
<1>1. e \in Of(F, Subject(e), t) /\ e.at \in Nat /\ \A f \in E : f.at \in Nat
  BY EventIs DEF Of
<1>2. ASSUME NEW f \in F, Latest(F, Subject(e), t, f) PROVE f = e
  <2>1. e.at <= f.at
    BY <1>1, <1>2 DEF Latest
  <2>2. f \in E => f.at < e.at /\ f.at \in Nat
    BY <1>1
  <2> QED
    BY <1>1, <2>1, <2>2
<1>3. Of(F, Subject(e), t) # {}
  BY <1>1
<1> HIDE DEF F
<1>4. Tells(F, c, l, Subject(e), t, Prog(e), Built(e), Line(e)) /\ Marks(F, c, l, Subject(e), t, Built(e), Line(e))
  BY <1>2, <1>3 DEF Tells, Marks
<1> QED
  BY <1>4 DEF F

\* with everything before lost, only what is of no line is still spoken of
LEMMA Forgets ==
  ASSUME NEW E \in SUBSET Event, NEW F \in SUBSET E, NEW n \in Nat, NEW c, NEW l \in SUBSET (1..n),
         NEW p \in Pid, NEW t \in Nat, NEW prog, NEW build, NEW line \in SUBSET (1..n),
         Tells(E, c, l, p, t, prog, build, line)
  PROVE  Tells(F, [known |-> Strangers, built |-> {}], 1..n, p, t, prog, build, line)
<1>1. ASSUME line \cap 1..n = {} PROVE Of(F, p, t) = {}
  <2>1. line = {}
    BY <1>1
  <2>2. ASSUME Of(E, p, t) # {} PROVE FALSE
    <3>1. PICK e \in E : Latest(E, p, t, e)
      BY <2>2, LatestIs
    <3>2. Line(e) = {} /\ e.at \in Line(e)
      BY <2>1, <3>1, EventIs DEF Tells
    <3> QED
      BY <3>2
  <2> QED
    BY <2>2 DEF Of
<1>2. [known |-> Strangers, built |-> {}].known[p] = Nobody
  BY DEF Strangers
<1> DEFINE s == [known |-> Strangers, built |-> {}]
<1> HIDE DEF s
<1>3. \A e \in F : Latest(F, p, t, e) => Of(F, p, t) # {}
  BY DEF Latest
<1>4. s.known[p] = Nobody => Tells(F, s, 1..n, p, t, prog, build, line)
  BY <1>1, <1>3 DEF Tells
<1> QED
  BY <1>2, <1>4 DEF s

----------------------------------------------------------------------------
(* The same, of all that is there. *)

\* of every process
ToldNow(E, c, l, n, pr) ==
  \A p \in Pid : pr[p] # Nobody =>
    /\ Tells(E, c, l, p, n + 1, pr[p].prog, pr[p].build, pr[p].line)
    /\ Marks(E, c, l, p, n + 1, pr[p].build, pr[p].line)
\* of the process that made an event, when it made it
ToldAt(E, c, l) ==
  \A e \in E : Tells(E, c, l, e.pid, e.at, e.by, e.build, e.line) /\ Marks(E, c, l, e.pid, e.at, e.build, Line(e))
\* of the process that asked, when its number has been no other's as far as has been read
ToldAsks(E, A, c, l, tk) == \A a \in A : tk[a.pid] <= a.at => Tells(E, c, l, a.pid, a.at, a.by, FALSE, a.line)
\* a process that is no younger than a dlopen of its number is the one that asked
AsksNow(A, pr) ==
  \A a \in A : pr[a.pid] # Nobody /\ pr[a.pid].start <= a.at /\ pr[a.pid].ran <= a.at => pr[a.pid].prog = a.by
KnownBuilt(c) == \A p \in c.built : c.known[p] # Nobody
\* an exec says what is run, and a script's interpreter is given the script
Plain(e) == e.what = "exec" /\ ~Built(e) => e.is = Runs(e) /\ (e.by \in Script[e.file] => e.is = e.by)
Argued(E, l) ==
  \A e \in E : /\ e.what = "exec" /\ Built(e) => e.is = e.file
               /\ e.at \notin l => Plain(e)

LEMMA DropsAll ==
  ASSUME NEW E \in SUBSET Event, NEW F \in SUBSET E, Distinct(E), NEW c, NEW l, NEW m, l \subseteq m,
         \A e \in E \ F : e.at \in m,
         NEW n \in Nat, NEW pr, NEW A \in SUBSET OutEvent, NEW tk
  PROVE  /\ ToldNow(E, c, l, n, pr) => ToldNow(F, c, m, n, pr)
         /\ ToldAt(E, c, l) => ToldAt(F, c, m)
         /\ ToldAsks(E, A, c, l, tk) => ToldAsks(F, A, c, m, tk)
         /\ Argued(E, l) => Argued(F, m)
<1>1. ASSUME NEW p, NEW t \in Nat, NEW prog, NEW build, NEW line, Tells(E, c, l, p, t, prog, build, line)
      PROVE  Tells(F, c, m, p, t, prog, build, line)
  BY <1>1, Drops
<1>2. ASSUME NEW p, NEW t \in Nat, NEW prog, NEW build, NEW line, NEW more, line \subseteq more,
             Tells(E, c, l, p, t, prog, build, line), Marks(E, c, l, p, t, build, more)
      PROVE  Marks(F, c, m, p, t, build, more)
  BY <1>2, Drops
<1>3. ASSUME ToldNow(E, c, l, n, pr) PROVE ToldNow(F, c, m, n, pr)
  <2> SUFFICES ASSUME NEW p \in Pid, pr[p] # Nobody
               PROVE  /\ Tells(F, c, m, p, n + 1, pr[p].prog, pr[p].build, pr[p].line)
                      /\ Marks(F, c, m, p, n + 1, pr[p].build, pr[p].line)
    BY DEF ToldNow
  <2>1. /\ Tells(E, c, l, p, n + 1, pr[p].prog, pr[p].build, pr[p].line)
        /\ Marks(E, c, l, p, n + 1, pr[p].build, pr[p].line)
    BY <1>3 DEF ToldNow
  <2>2. n + 1 \in Nat /\ pr[p].line \subseteq pr[p].line
    OBVIOUS
  <2> QED
    BY <1>1, <1>2, <2>1, <2>2
<1>4. ASSUME ToldAt(E, c, l) PROVE ToldAt(F, c, m)
  <2> SUFFICES ASSUME NEW e \in F
               PROVE  Tells(F, c, m, e.pid, e.at, e.by, e.build, e.line) /\ Marks(F, c, m, e.pid, e.at, e.build, Line(e))
    BY DEF ToldAt
  <2>1. Tells(E, c, l, e.pid, e.at, e.by, e.build, e.line) /\ Marks(E, c, l, e.pid, e.at, e.build, Line(e))
    BY <1>4 DEF ToldAt
  <2>2. e.at \in Nat /\ e.line \subseteq Line(e)
    BY EventIs
  <2> QED
    BY <1>1, <1>2, <2>1, <2>2
<1>5. ASSUME ToldAsks(E, A, c, l, tk) PROVE ToldAsks(F, A, c, m, tk)
  <2> SUFFICES ASSUME NEW a \in A, tk[a.pid] <= a.at PROVE Tells(F, c, m, a.pid, a.at, a.by, FALSE, a.line)
    BY DEF ToldAsks
  <2>1. Tells(E, c, l, a.pid, a.at, a.by, FALSE, a.line)
    BY <1>5 DEF ToldAsks
  <2>2. a.at \in Nat
    BY DEF OutEvent
  <2> QED
    BY <1>1, <2>1, <2>2
<1> QED
  BY <1>3, <1>4, <1>5 DEF Argued

\* e is made, at the next stamp, by the process p is
LEMMA AddsAll ==
  ASSUME NEW E \in SUBSET Event, NEW c, NEW l, NEW n \in Nat, NEW pr, NEW A \in SUBSET OutEvent, NEW tk,
         \A f \in E : f.at <= n, \A a \in A : a.at <= n,
         ToldNow(E, c, l, n, pr), ToldAt(E, c, l), ToldAsks(E, A, c, l, tk),
         NEW e \in Event, e.at = n + 1, pr[e.pid] # Nobody,
         e.by = pr[e.pid].prog, e.build = pr[e.pid].build, e.line = pr[e.pid].line,
         NEW qr, \A p \in Pid : p # Subject(e) /\ qr[p] # Nobody => qr[p] = pr[p],
         qr[Subject(e)].prog = Prog(e), qr[Subject(e)].build = Built(e), qr[Subject(e)].line = Line(e)
  PROVE  /\ ToldNow(E \cup {e}, c, l, n + 1, qr)
         /\ ToldAt(E \cup {e}, c, l)
         /\ ToldAsks(E \cup {e}, A, c, l, tk)
<1> DEFINE F == E \cup {e}
<1>1. e.pid \in Pid /\ Subject(e) \in Pid /\ n + 1 \in Nat /\ n + 1 + 1 \in Nat /\ e.at < n + 1 + 1 /\ ~(e.at < n + 1)
      /\ \A f \in E : f.at \in Nat /\ f.at < e.at /\ f.at < n + 1 /\ f.at < n + 1 + 1 /\ ~(e.at < f.at)
  BY EventIs
<1>2. ToldNow(F, c, l, n + 1, qr)
  <2> SUFFICES ASSUME NEW p \in Pid, qr[p] # Nobody
               PROVE  /\ Tells(F, c, l, p, n + 1 + 1, qr[p].prog, qr[p].build, qr[p].line)
                      /\ Marks(F, c, l, p, n + 1 + 1, qr[p].build, qr[p].line)
    BY DEF ToldNow
  <2>1. CASE p = Subject(e)
    BY <1>1, <2>1, Says
  <2>2. CASE p # Subject(e)
    <3>1. qr[p] = pr[p]
      BY <2>2
    <3>2. /\ Tells(E, c, l, p, n + 1, qr[p].prog, qr[p].build, qr[p].line)
          /\ Marks(E, c, l, p, n + 1, qr[p].build, qr[p].line)
      BY <3>1 DEF ToldNow
    <3>3. /\ Tells(E, c, l, p, n + 1 + 1, qr[p].prog, qr[p].build, qr[p].line)
          /\ Marks(E, c, l, p, n + 1 + 1, qr[p].build, qr[p].line)
      BY <1>1, <3>2, Later
    <3> QED
      BY <2>2, <3>3, Adds
  <2> QED
    BY <2>1, <2>2
<1>3. ToldAt(F, c, l)
  <2> SUFFICES ASSUME NEW f \in F
               PROVE  Tells(F, c, l, f.pid, f.at, f.by, f.build, f.line) /\ Marks(F, c, l, f.pid, f.at, f.build, Line(f))
    BY DEF ToldAt
  <2>1. CASE f = e
    <3>1. /\ Tells(E, c, l, e.pid, n + 1, e.by, e.build, e.line)
          /\ Marks(E, c, l, e.pid, n + 1, e.build, e.line)
      BY <1>1 DEF ToldNow
    <3>2. Marks(E, c, l, e.pid, n + 1, e.build, Line(e))
      <4>1. e.line \subseteq Line(e)
        BY EventIs
      <4> QED
        BY <3>1, <4>1 DEF Marks
    <3>3. Tells(F, c, l, e.pid, e.at, e.by, e.build, e.line) /\ Marks(F, c, l, e.pid, e.at, e.build, Line(e))
      BY <1>1, <3>1, <3>2, Adds
    <3> QED
      BY <2>1, <3>3
  <2>2. CASE f \in E
    <3>1. Tells(E, c, l, f.pid, f.at, f.by, f.build, f.line) /\ Marks(E, c, l, f.pid, f.at, f.build, Line(f))
      BY <2>2 DEF ToldAt
    <3> QED
      BY <1>1, <2>2, <3>1, Adds
  <2> QED
    BY <2>1, <2>2
<1>4. ToldAsks(F, A, c, l, tk)
  <2> SUFFICES ASSUME NEW a \in A, tk[a.pid] <= a.at PROVE Tells(F, c, l, a.pid, a.at, a.by, FALSE, a.line)
    BY DEF ToldAsks
  <2>1. Tells(E, c, l, a.pid, a.at, a.by, FALSE, a.line)
    BY DEF ToldAsks
  <2>2. ~(e.at < a.at)
    BY DEF OutEvent
  <2> QED
    BY <2>1, <2>2, Adds
<1> QED
  BY <1>2, <1>3, <1>4

\* all of that, of the event e that makes processes pr into qr
Adding(E, c, l, n, pr, A, tk, e, qr) ==
  /\ E \in SUBSET Event /\ n \in Nat /\ A \in SUBSET OutEvent
  /\ (\A f \in E : f.at <= n) /\ (\A a \in A : a.at <= n)
  /\ ToldNow(E, c, l, n, pr) /\ ToldAt(E, c, l) /\ ToldAsks(E, A, c, l, tk)
  /\ e \in Event /\ e.at = n + 1 /\ pr[e.pid] # Nobody
  /\ e.by = pr[e.pid].prog /\ e.build = pr[e.pid].build /\ e.line = pr[e.pid].line
  /\ \A p \in Pid : p # Subject(e) /\ qr[p] # Nobody => qr[p] = pr[p]
  /\ qr[Subject(e)].prog = Prog(e) /\ qr[Subject(e)].build = Built(e) /\ qr[Subject(e)].line = Line(e)

LEMMA AddsMade ==
  ASSUME NEW E, NEW c, NEW l, NEW n, NEW pr, NEW A, NEW tk, NEW e, NEW qr, Adding(E, c, l, n, pr, A, tk, e, qr)
  PROVE  /\ ToldNow(E \cup {e}, c, l, n + 1, qr)
         /\ ToldAt(E \cup {e}, c, l)
         /\ ToldAsks(E \cup {e}, A, c, l, tk)
<1>1. /\ E \in SUBSET Event /\ n \in Nat /\ A \in SUBSET OutEvent /\ e \in Event
  BY DEF Adding
<1> QED
  BY <1>1, AddsAll DEF Adding


----------------------------------------------------------------------------
(* What a read says of the events it has. *)

\* what a read credits a program with, that program did
Right(s) == Counts(s) /\ s.sure => s.prog = s.by /\ s.name = s.lib /\ ~s.build

\* forks and execs, dlopens and what was carried that a read can begin with
Reads(R, Q, c) ==
  /\ R \in SUBSET Event /\ Q \in SUBSET Asking /\ c \in Carry
  /\ Distinct(R) /\ \A a \in Q, e \in R : a.at # e.at
  /\ KnownBuilt(c) /\ ToldAt(R, c, lost) /\ Argued(R, lost)
  /\ \A a \in Q : a.name = a.lib
  /\ \A a \in Q : taken[a.pid] <= a.at => Tells(R, c, lost, a.pid, a.at, a.by, FALSE, a.line)
  /\ \A a \in Q : a.pid \in Alive /\ proc[a.pid].start <= a.at /\ proc[a.pid].ran <= a.at => proc[a.pid].prog = a.by

\* what it knows of p when it is past the events before t
KnowsOf(st, R, c, t, p) ==
  /\ p \in st.built => st.known[p] # Nobody
  /\ Of(R, p, t) = {} => st.known[p] = c.known[p] /\ (p \in st.built <=> p \in c.built)
  /\ \A g \in R : Latest(R, p, t, g) /\ Line(g) \cap lost = {} =>
       (st.known[p] = Nobody \/ st.known[p] = Prog(g)) /\ (p \in st.built <=> Built(g))
Knows(st, R, c, t) == (\A p \in Pid : KnowsOf(st, R, c, t, p)) /\ \A s \in st.said : Right(s)

LEMMA WhatIs ==
  ASSUME NEW R, NEW Q, NEW c, Reads(R, Q, c), NEW st \in LinState, NEW t \in Nat, Knows(st, R, c, t),
         NEW p \in Pid, NEW prog \in Program, NEW build \in BOOLEAN, NEW line,
         Tells(R, c, lost, p, t, prog, build, line), line \cap lost = {}
  PROVE  /\ st.known[p] = Nobody \/ st.known[p] = prog
         /\ st.known[p] # Nobody => (p \in st.built <=> build)
         /\ \A more : Marks(R, c, lost, p, t, build, more) /\ more \cap lost = {} => (p \in st.built <=> build)
<1>1. R \in SUBSET Event /\ c \in Carry /\ KnownBuilt(c)
  BY DEF Reads
<1>2. CASE Of(R, p, t) = {}
  <2>1. st.known[p] = c.known[p] /\ (p \in st.built <=> p \in c.built)
    BY <1>2 DEF Knows, KnowsOf
  <2>2. c.known[p] # Nobody => c.known[p] = prog /\ (p \in c.built <=> build)
    BY <1>2 DEF Tells
  <2>3. c.known[p] = Nobody => p \notin c.built
    BY <1>1 DEF KnownBuilt
  <2>4. \A more : Marks(R, c, lost, p, t, build, more) /\ more \cap lost = {} => (build => p \in c.built)
    BY <1>2 DEF Marks
  <2> QED
    BY <2>1, <2>2, <2>3, <2>4
<1>3. CASE Of(R, p, t) # {}
  <2>1. PICK g \in R : Latest(R, p, t, g)
    BY <1>1, <1>3, LatestIs
  <2>2. Prog(g) = prog /\ (Built(g) <=> build) /\ Line(g) = line
    BY <2>1 DEF Tells
  <2>3. (st.known[p] = Nobody \/ st.known[p] = Prog(g)) /\ (p \in st.built <=> Built(g))
    BY <2>1, <2>2 DEF Knows, KnowsOf
  <2> QED
    BY <2>2, <2>3
<1> QED
  BY <1>2, <1>3

LEMMA OfSame ==
  ASSUME NEW R \in SUBSET Event, NEW t \in Nat, \A e \in R : e.at # t
  PROVE  \A p : Of(R, p, t + 1) = Of(R, p, t)
<1>1. \A e \in R : e.at < t + 1 <=> e.at < t
  BY EventIs
<1> QED
  BY <1>1 DEF Of

LEMMA OfNext ==
  ASSUME NEW R \in SUBSET Event, Distinct(R), NEW t \in Nat, NEW e \in R, e.at = t
  PROVE  /\ \A p : p # Subject(e) => Of(R, p, t + 1) = Of(R, p, t)
         /\ Of(R, Subject(e), t + 1) # {}
         /\ \A g : Latest(R, Subject(e), t + 1, g) => g = e
<1>1. \A f \in R : f.at \in Nat /\ (f.at = t => f = e)
  BY EventIs DEF Distinct
<1>2. \A f \in R : f # e => (f.at < t + 1 <=> f.at < t)
  BY <1>1
<1>3. \A p : p # Subject(e) => Of(R, p, t + 1) = Of(R, p, t)
  BY <1>2 DEF Of
<1>4. e \in Of(R, Subject(e), t + 1)
  BY DEF Of
<1>5. ASSUME NEW g, Latest(R, Subject(e), t + 1, g) PROVE g = e
  <2>1. g \in R /\ g.at < t + 1 /\ t <= g.at
    BY <1>4, <1>5 DEF Latest, Of
  <2> QED
    BY <1>1, <2>1
<1> QED
  BY <1>3, <1>4, <1>5

\* nothing is learnt of p
LEMMA KnowsStill ==
  ASSUME NEW R, NEW c, NEW st, NEW su, NEW t \in Nat, NEW p, KnowsOf(st, R, c, t, p),
         Of(R, p, t + 1) = Of(R, p, t), su.known[p] = st.known[p], p \in su.built <=> p \in st.built
  PROVE  KnowsOf(su, R, c, t + 1, p)
BY DEF KnowsOf, Latest

LEMMA KnowsAsked ==
  ASSUME Procs, NEW R, NEW Q, NEW c, Reads(R, Q, c), NEW st \in LinState, NEW t \in Nat, Knows(st, R, c, t),
         NEW e \in Q, e.at = t
  PROVE  Knows(Asked(st, e), R, c, t + 1)
<1>1. R \in SUBSET Event /\ e \in Asking /\ c \in Carry /\ \A f \in R : f.at # t
  BY DEF Reads
<1>2. Asked(st, e) = [known |-> st.known, built |-> st.built, said |-> st.said \cup {Heeds(st, e)}]
  BY <1>1, AskTyped
<1>3. \A p : Of(R, p, t + 1) = Of(R, p, t)
  BY <1>1, OfSame
<1>4. Right(Heeds(st, e))
  <2> DEFINE s == Heeds(st, e)
  <2>1. /\ s.name = e.name /\ s.lib = e.lib /\ s.by = e.by /\ s.build = FALSE
        /\ s.prog = (IF st.known[e.pid] # Nobody THEN st.known[e.pid] ELSE Proc(e.pid, e.at))
        /\ s.sure <=> /\ e.line \cap lost = {}
                      /\ taken[e.pid] <= e.at
                      /\ st.known[e.pid] = Nobody /\ e.pid \in Alive => proc[e.pid].ran <= e.at
    BY DEF Heeds
  <2> HIDE DEF s
  <2> SUFFICES ASSUME Counts(s), s.sure PROVE s.prog = e.by /\ s.name = e.lib /\ ~s.build
    BY <2>1 DEF Right, s
  <2>2. s.prog # Nobody
    BY DEF Counts, Uses
  <2>3. e.name = e.lib
    BY DEF Reads
  <2>4. e.pid \in Pid /\ e.by \in Program
    BY <1>1 DEF Asking
  <2>5. CASE st.known[e.pid] # Nobody
    <3>1. Tells(R, c, lost, e.pid, t, e.by, FALSE, e.line) /\ e.line \cap lost = {}
      BY <2>1 DEF Reads
    <3>2. ASSUME NEW build \in BOOLEAN, Tells(R, c, lost, e.pid, t, e.by, build, e.line), e.line \cap lost = {}
          PROVE  st.known[e.pid] = e.by
      BY <2>4, <2>5, <3>2, WhatIs
    <3>3. st.known[e.pid] = e.by
      BY <3>1, <3>2
    <3> QED
      BY <2>1, <2>3, <2>5, <3>3
  <2>6. CASE st.known[e.pid] = Nobody
    <3>1. s.prog = Proc(e.pid, e.at)
      BY <2>1, <2>6
    <3>2. e.pid \in Alive /\ proc[e.pid].start <= e.at /\ s.prog = proc[e.pid].prog
      BY <2>2, <3>1 DEF Proc
    <3>3. proc[e.pid].ran <= e.at
      BY <2>1, <2>6, <3>2
    <3> QED
      BY <2>1, <2>3, <3>2, <3>3 DEF Reads
  <2> QED
    BY <2>5, <2>6
<1> DEFINE su == Asked(st, e)
<1>5. su.known = st.known /\ su.built = st.built /\ su.said = st.said \cup {Heeds(st, e)}
  BY <1>2
<1> HIDE DEF su
<1>7. ASSUME NEW p \in Pid PROVE KnowsOf(su, R, c, t + 1, p)
  <2>1. KnowsOf(st, R, c, t, p)
    BY DEF Knows
  <2> QED
    BY <1>3, <1>5, <2>1, KnowsStill
<1>8. \A s \in su.said : Right(s)
  BY <1>4, <1>5 DEF Knows
<1>9. Knows(su, R, c, t + 1)
  BY <1>7, <1>8 DEF Knows
<1> QED
  BY <1>9 DEF su


LEMMA KnowsForked ==
  ASSUME NEW R, NEW Q, NEW c, Reads(R, Q, c), NEW st \in LinState, NEW t \in Nat, Knows(st, R, c, t),
         NEW e \in R, e.at = t, e \in ForkEvent, e.what = "fork"
  PROVE  Knows(Forked(st, e), R, c, t + 1)
<1> DEFINE su == Forked(st, e)
           p == e.child
           q == e.pid
<1>1. /\ su.known = [st.known EXCEPT ![p] = st.known[q]]
      /\ su.built = (IF q \in st.built THEN st.built \cup {p} ELSE st.built \ {p})
      /\ su.said = st.said
  BY ForkTyped
<1>2. /\ R \in SUBSET Event /\ Distinct(R) /\ p \in Pid /\ q \in Pid /\ Subject(e) = p
      /\ e.by \in Program /\ e.build \in BOOLEAN /\ e.line \subseteq Line(e)
      /\ Prog(e) = e.by /\ Built(e) = e.build
  BY EventIs DEF Reads, Subject, Prog, Built, ForkEvent
<1>3. /\ \A s : s # p => Of(R, s, t + 1) = Of(R, s, t)
      /\ Of(R, p, t + 1) # {}
      /\ \A g : Latest(R, p, t + 1, g) => g = e
  BY <1>2, OfNext
<1>4. su.known[p] = st.known[q] /\ (p \in su.built <=> q \in st.built)
      /\ \A s \in Pid : s # p => su.known[s] = st.known[s] /\ (s \in su.built <=> s \in st.built)
  <2>1. st.known \in [Pid -> Program \cup {Nobody}]
    BY DEF LinState
  <2> QED
    BY <1>1, <1>2, <2>1
<1> HIDE DEF su
<1>5. ASSUME Line(e) \cap lost = {}
      PROVE  (st.known[q] = Nobody \/ st.known[q] = e.by) /\ (q \in st.built <=> e.build)
  <2>1. Tells(R, c, lost, q, t, e.by, e.build, e.line) /\ Marks(R, c, lost, q, t, e.build, Line(e))
    BY DEF Reads, ToldAt
  <2>2. e.line \cap lost = {}
    BY <1>2, <1>5
  <2> QED
    BY <1>2, <1>5, <2>1, <2>2, WhatIs
<1>6. KnowsOf(su, R, c, t + 1, p)
  <2>1. p \in su.built => su.known[p] # Nobody
    BY <1>2, <1>4 DEF Knows, KnowsOf
  <2>2. \A g \in R : Latest(R, p, t + 1, g) /\ Line(g) \cap lost = {} =>
          (su.known[p] = Nobody \/ su.known[p] = Prog(g)) /\ (p \in su.built <=> Built(g))
    BY <1>2, <1>3, <1>4, <1>5
  <2> QED
    BY <1>3, <2>1, <2>2 DEF KnowsOf
<1>7. ASSUME NEW s \in Pid PROVE KnowsOf(su, R, c, t + 1, s)
  <2>1. KnowsOf(st, R, c, t, s)
    BY DEF Knows
  <2>2. CASE s # p
    <3>1. Of(R, s, t + 1) = Of(R, s, t) /\ su.known[s] = st.known[s] /\ (s \in su.built <=> s \in st.built)
      BY <1>3, <1>4, <2>2
    <3> QED
      BY <2>1, <3>1, KnowsStill
  <2> QED
    BY <1>6, <2>2
<1>8. Knows(su, R, c, t + 1)
  BY <1>1, <1>7 DEF Knows, su
<1> QED
  BY <1>8 DEF su

LEMMA KnowsExeced ==
  ASSUME NEW R, NEW Q, NEW c, Reads(R, Q, c), NEW st \in LinState, NEW t \in Nat, Knows(st, R, c, t),
         NEW e \in R, e.at = t, e \in ExecEvent, e.what = "exec"
  PROVE  Knows(Execed(st, e), R, c, t + 1)
<1> DEFINE su == Execed(st, e)
           q == e.pid
           prev == st.known[q]
<1>1. /\ q \in Now(st, e) =>
           su.known = [st.known EXCEPT ![q] = e.file] /\ su.built = Now(st, e) /\ su.said = st.said
      /\ q \notin Now(st, e) /\ Keeps(prev, e) => su.known = st.known /\ su.built = st.built /\ su.said = st.said
      /\ q \notin Now(st, e) /\ ~Keeps(prev, e) =>
           su.known = [st.known EXCEPT ![q] = Runs(e)] /\ su.built = st.built /\ su.said = st.said \cup {Ran(st, e)}
  BY ExecTyped
<1>2. /\ R \in SUBSET Event /\ Distinct(R) /\ q \in Pid /\ Subject(e) = q
      /\ e.by \in Program /\ e.build \in BOOLEAN /\ e.line \subseteq Line(e) /\ e.file \in Program
      /\ e.arg \in Program \cup {Nobody} /\ (Built(e) <=> e.build \/ e.file = Kiry)
      /\ Prog(e) = e.is
  BY EventIs DEF Reads, Subject, Prog, Built, ExecEvent
<1>0. /\ Built(e) => e.is = e.file
      /\ Line(e) \cap lost = {} /\ ~Built(e) => e.is = Runs(e) /\ (e.by \in Script[e.file] => e.is = e.by)
  <2>1. Argued(R, lost) /\ e.at \in Line(e)
    BY DEF Reads, Line
  <2>2. Line(e) \cap lost = {} => e.at \notin lost
    BY <2>1
  <2>3. (Built(e) => e.is = e.file) /\ (e.at \notin lost => Plain(e))
    <3>1. e.what = "exec"
      OBVIOUS
    <3> QED
      BY <2>1, <3>1 DEF Argued
  <2>4. Plain(e) /\ ~Built(e) => e.is = Runs(e) /\ (e.by \in Script[e.file] => e.is = e.by)
    BY DEF Plain
  <2> QED
    BY <2>2, <2>3, <2>4
<1>3. /\ \A s : s # q => Of(R, s, t + 1) = Of(R, s, t)
      /\ Of(R, q, t + 1) # {}
      /\ \A g : Latest(R, q, t + 1, g) => g = e
  BY <1>2, OfNext
<1>4. /\ st.known \in [Pid -> Program \cup {Nobody}] /\ Nobody \notin Program
      /\ q \in Now(st, e) <=> (e.file = Kiry \/ q \in st.built)
      /\ (prev \in Script[e.file] => prev # Nobody)
      /\ Runs(e) = (IF e.arg # Nobody THEN e.arg ELSE e.file)
  BY <1>2, TraceAssumption DEF LinState, Now, Runs
<1> HIDE DEF su
<1>5. \A s \in Pid : s # q => su.known[s] = st.known[s] /\ (s \in su.built <=> s \in st.built)
  BY <1>1, <1>4 DEF Now
<1>6. /\ q \in Now(st, e) => su.known[q] = e.file /\ q \in su.built
      /\ q \notin Now(st, e) /\ Keeps(prev, e) => su.known[q] = prev /\ q \notin su.built
      /\ q \notin Now(st, e) /\ ~Keeps(prev, e) => su.known[q] = Runs(e) /\ q \notin su.built
  BY <1>1, <1>2, <1>4
<1>7. Tells(R, c, lost, q, t, e.by, e.build, e.line) /\ Marks(R, c, lost, q, t, e.build, Line(e))
  BY DEF Reads, ToldAt
<1>8. ASSUME Line(e) \cap lost = {} PROVE (prev = Nobody \/ prev = e.by) /\ (q \in st.built <=> e.build)
  <2>1. e.line \cap lost = {}
    BY <1>2, <1>8
  <2> QED
    BY <1>2, <1>7, <1>8, <2>1, WhatIs
<1>9. ASSUME Line(e) \cap lost = {}
      PROVE  (su.known[q] = Nobody \/ su.known[q] = Prog(e)) /\ (q \in su.built <=> Built(e))
  <2>1. q \in Now(st, e) <=> Built(e)
    BY <1>2, <1>4, <1>8, <1>9
  <2>2. q \notin Now(st, e) /\ Keeps(prev, e) => prev = Prog(e)
    BY <1>0, <1>2, <1>4, <1>8, <1>9, <2>1 DEF Keeps
  <2>3. CASE q \in Now(st, e)
    BY <1>0, <1>2, <1>6, <2>1, <2>3
  <2>4. CASE q \notin Now(st, e)
    BY <1>0, <1>2, <1>6, <1>9, <2>1, <2>2, <2>4
  <2> QED
    BY <2>3, <2>4
<1>10. KnowsOf(su, R, c, t + 1, q)
  <2>1. q \in su.built => su.known[q] # Nobody
    BY <1>2, <1>4, <1>6
  <2>2. \A g \in R : Latest(R, q, t + 1, g) /\ Line(g) \cap lost = {} =>
          (su.known[q] = Nobody \/ su.known[q] = Prog(g)) /\ (q \in su.built <=> Built(g))
    BY <1>3, <1>9
  <2> QED
    BY <1>3, <2>1, <2>2 DEF KnowsOf
<1>11. ASSUME NEW s \in Pid PROVE KnowsOf(su, R, c, t + 1, s)
  <2>1. KnowsOf(st, R, c, t, s)
    BY DEF Knows
  <2>2. CASE s # q
    <3>1. Of(R, s, t + 1) = Of(R, s, t) /\ su.known[s] = st.known[s] /\ (s \in su.built <=> s \in st.built)
      BY <1>3, <1>5, <2>2
    <3> QED
      BY <2>1, <3>1, KnowsStill
  <2> QED
    BY <1>10, <2>2
<1>12. q \notin Now(st, e) => Right(Ran(st, e))
  <2> DEFINE s == Ran(st, e)
  <2>1. s.prog = prev /\ s.name = e.file /\ s.lib = e.file /\ s.by = e.by /\ s.build = e.build
        /\ (s.sure <=> e.line \cap lost = {})
    BY DEF Ran
  <2> HIDE DEF s
  <2> SUFFICES ASSUME q \notin Now(st, e), Counts(s), s.sure PROVE prev = e.by /\ ~e.build
    BY <2>1 DEF Right, s
  <2>2. prev # Nobody /\ e.line \cap lost = {}
    BY <2>1 DEF Counts, Uses
  <2>3. prev = e.by /\ (q \in st.built <=> e.build)
    BY <1>2, <1>7, <2>2, WhatIs
  <2> QED
    BY <1>4, <2>3
<1>13. \A s \in su.said : Right(s)
  BY <1>1, <1>12 DEF Knows
<1>14. Knows(su, R, c, t + 1)
  BY <1>11, <1>13 DEF Knows
<1> QED
  BY <1>14 DEF su


LEMMA KnowsStep ==
  ASSUME Procs, NEW R, NEW Q, NEW c, Reads(R, Q, c), NEW st \in LinState, NEW t \in Nat, Knows(st, R, c, t)
  PROVE  Knows(Step(st, R \cup Q, t), R, c, t + 1)
<1> DEFINE V == R \cup Q
           e == Here(V, t)
<1>1. V \in SUBSET (Event \cup Asking) /\ R \in SUBSET Event /\ Q \in SUBSET Asking
  BY DEF Reads
<1>2. CASE {f \in V : f.at = t} = {}
  <2>1. Step(st, V, t) = st
    BY <1>1, <1>2, StepIs
  <2>2. \A f \in R : f.at # t
    BY <1>2
  <2>3. \A p : Of(R, p, t + 1) = Of(R, p, t)
    BY <1>1, <2>2, OfSame
  <2>4. ASSUME NEW p \in Pid PROVE KnowsOf(st, R, c, t + 1, p)
    <3>1. KnowsOf(st, R, c, t, p)
      BY DEF Knows
    <3> QED
      BY <2>3, <3>1, KnowsStill
  <2>5. Knows(st, R, c, t + 1)
    BY <2>4 DEF Knows
  <2> QED
    BY <2>1, <2>5
<1>3. CASE {f \in V : f.at = t} # {}
  <2> HIDE DEF e
  <2>1. /\ e \in V /\ e.at = t
        /\ e \in ForkEvent => Step(st, V, t) = Forked(st, e)
        /\ e \in ExecEvent => Step(st, V, t) = Execed(st, e)
        /\ e \in Asking => Step(st, V, t) = Asked(st, e)
    BY <1>1, <1>3, StepIs DEF e
  <2>2. CASE e \in R
    <3>1. (e \in ForkEvent /\ e.what = "fork") \/ (e \in ExecEvent /\ e.what = "exec")
      BY <1>1, <2>2, EventIs
    <3>2. CASE e \in ForkEvent /\ e.what = "fork"
      <4>1. Knows(Forked(st, e), R, c, t + 1)
        BY <2>1, <2>2, <3>2, KnowsForked
      <4> QED
        BY <2>1, <3>2, <4>1
    <3>3. CASE e \in ExecEvent /\ e.what = "exec"
      <4>1. Knows(Execed(st, e), R, c, t + 1)
        BY <2>1, <2>2, <3>3, KnowsExeced
      <4> QED
        BY <2>1, <3>3, <4>1
    <3> QED
      BY <3>1, <3>2, <3>3
  <2>3. CASE e \in Q
    <3>1. Knows(Asked(st, e), R, c, t + 1)
      BY <2>1, <2>3, KnowsAsked
    <3> QED
      BY <1>1, <2>1, <2>3, <3>1
  <2> QED
    BY <2>1, <2>2, <2>3
<1> QED
  BY <1>2, <1>3

LEMMA KnowsAlong ==
  ASSUME Procs, NEW R, NEW Q, NEW c, Reads(R, Q, c), \A e \in R : 1 <= e.at, NEW w, Walks(w, R \cup Q, c)
  PROVE  \A n \in 0..now : w[n] \in LinState /\ Knows(w[n], R, c, n + 1)
<1> DEFINE V == R \cup Q
<1>1. V \in SUBSET (Event \cup Asking) /\ R \in SUBSET Event /\ c \in Carry /\ now \in Nat
  BY DEF Reads, Procs
<1>3. w[0] = Begin(c) /\ \A n \in 1..now : w[n] = Step(w[n - 1], V, n)
  BY DEF Walks
<1>4. \A n \in 0..now : w[n] \in LinState
  BY DEF Walks
<1> DEFINE P == {n \in 0..now : Knows(w[n], R, c, n + 1)}
<1>5. 0 \in P
  <2>1. \A p : Of(R, p, 1) = {}
    <3>1. \A e \in R : ~(e.at < 1)
      BY <1>1, EventIs
    <3> QED
      BY <3>1 DEF Of
  <2>2. KnownBuilt(c)
    BY DEF Reads
  <2>3. Begin(c).known = c.known /\ Begin(c).built = c.built /\ Begin(c).said = {}
    BY DEF Begin
  <2>4. Knows(Begin(c), R, c, 1)
    BY <2>1, <2>2, <2>3 DEF Knows, KnowsOf, Latest, KnownBuilt
  <2> QED
    BY <1>1, <1>3, <2>4
<1>6. ASSUME NEW n \in 1..now, n - 1 \in P PROVE n \in P
  <2>1. n \in Nat /\ n - 1 + 1 = n /\ n - 1 \in 0..now /\ n \in 0..now
    BY <1>1
  <2>2. Knows(w[n - 1], R, c, n) /\ w[n - 1] \in LinState
    BY <1>4, <1>6, <2>1
  <2>3. Knows(Step(w[n - 1], V, n), R, c, n + 1)
    BY <2>1, <2>2, KnowsStep
  <2> QED
    BY <1>3, <2>1, <2>3
<1>7. P = 0..now
  <2>1. P \in SUBSET (0..now)
    OBVIOUS
  <2> HIDE DEF P
  <2> QED
    BY <1>1, <1>5, <1>6, <2>1, UpTo
<1> QED
  BY <1>4, <1>7

LEMMA WalkKnows ==
  ASSUME Procs, NEW R, NEW Q, NEW c, Reads(R, Q, c), \A e \in R : 1 <= e.at
  PROVE  Knows(Lineage(R \cup Q, c), R, c, now + 1) /\ Lineage(R \cup Q, c) \in LinState
<1>1. R \cup Q \in SUBSET (Event \cup Asking) /\ c \in Carry /\ now \in 0..now
  BY DEF Reads, Procs
<1>2. PICK w : Walks(w, R \cup Q, c) /\ Lineage(R \cup Q, c) = w[now]
  BY <1>1, LineageIs
<1>3. w[now] \in LinState /\ Knows(w[now], R, c, now + 1)
  BY <1>1, <1>2, KnowsAlong
<1> QED
  BY <1>2, <1>3


----------------------------------------------------------------------------
(* What a walk carries to the next read says what the events it has read said. *)

\* what is carried of what is known at the end of a walk
Carries(c, end) ==
  \A p \in Pid : /\ c.known[p] = IF p \in Alive THEN end.known[p] ELSE Nobody
                 /\ p \in c.built <=> p \in end.built /\ p \in Alive /\ end.known[p] # Nobody

\* of the events of E a read has R, with Q, from c, and F is left: it ends as end and leaves d and m
Passes(E, R, Q, c, F, n, end, d, m) ==
  /\ E = R \cup F /\ Reads(R, Q, c) /\ F \in SUBSET Event /\ n \in Nat
  /\ \A e \in R, f \in F : e.at < f.at
  /\ \A e \in R : e.at <= n
  /\ end \in LinState /\ Knows(end, R, c, n + 1) /\ Carries(d, end) /\ lost \subseteq m

\* none of R made p after t
Past(R, p, t) == \A e \in R : Subject(e) = p => e.at < t

LEMMA WalkKeeps ==
  ASSUME NEW E, NEW R, NEW Q, NEW c, NEW F, NEW n, NEW end, NEW d, NEW m, Passes(E, R, Q, c, F, n, end, d, m),
         NEW p \in Pid, NEW t \in Nat, Past(R, p, t),
         NEW prog \in Program, NEW build \in BOOLEAN, NEW line, NEW more, line \subseteq more,
         Tells(E, c, lost, p, t, prog, build, line)
  PROVE  /\ Tells(F, d, m, p, t, prog, build, line)
         /\ p \in Alive /\ Marks(E, c, lost, p, t, build, more) => Marks(F, d, m, p, t, build, more)
<1>0. /\ E = R \cup F /\ Reads(R, Q, c) /\ F \in SUBSET Event /\ n \in Nat
      /\ \A e \in R, f \in F : e.at < f.at
      /\ \A e \in R : e.at <= n
      /\ end \in LinState /\ Knows(end, R, c, n + 1) /\ Carries(d, end) /\ lost \subseteq m
  BY DEF Passes
<1>1. R \in SUBSET Event /\ \A e \in E : e.at \in Nat
  BY <1>0, EventIs DEF Reads
<1>2. ASSUME NEW e \in F, Latest(F, p, t, e) PROVE Latest(E, p, t, e)
  <2>1. e \in Of(E, p, t)
    BY <1>0, <1>2 DEF Latest, Of
  <2>2. \A f \in Of(E, p, t) : f.at <= e.at
    <3>1. \A f \in Of(E, p, t) : f \in R \/ f \in Of(F, p, t)
      BY <1>0 DEF Of
    <3>2. \A f \in R : f.at <= e.at
      BY <1>0, <1>1, <1>2
    <3>3. \A f \in Of(F, p, t) : f.at <= e.at
      BY <1>2 DEF Latest
    <3> QED
      BY <3>1, <3>2, <3>3
  <2> QED
    BY <2>1, <2>2 DEF Latest
<1>3. ASSUME Of(F, p, t) = {}
      PROVE  /\ Tells(R, c, lost, p, n + 1, prog, build, line)
             /\ Marks(E, c, lost, p, t, build, more) => Marks(R, c, lost, p, n + 1, build, more)
  <2>1. Of(E, p, t) = Of(R, p, n + 1)
    <3>1. \A e \in R : e.at < n + 1
      BY <1>0, <1>1
    <3> QED
      BY <1>0, <1>3, <3>1 DEF Of, Past
  <2>2. \A e \in R : e \in E /\ (Latest(R, p, n + 1, e) => Latest(E, p, t, e))
    BY <1>0, <2>1 DEF Latest
  <2> QED
    BY <2>1, <2>2 DEF Tells, Marks
<1>4. ASSUME line \cap lost = {}, Of(F, p, t) = {}
      PROVE  /\ end.known[p] = Nobody \/ end.known[p] = prog
             /\ end.known[p] # Nobody => (p \in end.built <=> build)
             /\ Marks(E, c, lost, p, t, build, more) /\ more \cap lost = {} => (p \in end.built <=> build)
  <2>1. n + 1 \in Nat
    BY <1>0
  <2> QED
    BY <1>0, <1>3, <1>4, <2>1, WhatIs
<1>5. /\ d.known[p] = (IF p \in Alive THEN end.known[p] ELSE Nobody)
      /\ p \in d.built <=> p \in end.built /\ p \in Alive /\ end.known[p] # Nobody
  BY <1>0 DEF Carries
<1>6. Tells(F, d, m, p, t, prog, build, line)
  <2> SUFFICES ASSUME line \cap m = {}
               PROVE  /\ \A e \in F : Latest(F, p, t, e) => Prog(e) = prog /\ (Built(e) <=> build) /\ Line(e) = line
                      /\ Of(F, p, t) = {} /\ d.known[p] # Nobody => d.known[p] = prog /\ (p \in d.built <=> build)
    BY DEF Tells
  <2>1. line \cap lost = {}
    BY <1>0
  <2>2. \A e \in F : Latest(F, p, t, e) => Prog(e) = prog /\ (Built(e) <=> build) /\ Line(e) = line
    BY <1>0, <1>2, <2>1 DEF Tells
  <2>3. Of(F, p, t) = {} /\ d.known[p] # Nobody => d.known[p] = prog /\ (p \in d.built <=> build)
    BY <1>4, <1>5, <2>1
  <2> QED
    BY <2>2, <2>3
<1>7. ASSUME p \in Alive, Marks(E, c, lost, p, t, build, more) PROVE Marks(F, d, m, p, t, build, more)
  <2> SUFFICES ASSUME more \cap m = {}, Of(F, p, t) = {}, build PROVE p \in d.built
    BY DEF Marks
  <2>1. line \cap lost = {} /\ more \cap lost = {}
    BY <1>0
  <2>2. p \in end.built
    BY <1>4, <1>7, <2>1
  <2>3. KnowsOf(end, R, c, n + 1, p)
    BY <1>0 DEF Knows
  <2>4. end.known[p] # Nobody
    BY <2>2, <2>3 DEF KnowsOf
  <2> QED
    BY <1>5, <1>7, <2>2, <2>4
<1> QED
  BY <1>6, <1>7

LEMMA WalkAll ==
  ASSUME Procs, NEW E, NEW R, NEW Q, NEW c, NEW F, NEW end, NEW d, NEW m, Passes(E, R, Q, c, F, now, end, d, m),
         \A f \in F : f.build /\ f.pid \notin Alive => f.at \in m,
         NEW A \in SUBSET OutEvent, \A a \in A, e \in R : a.at # e.at,
         NEW tk, \A a \in A : taken[a.pid] <= tk[a.pid] /\ tk[a.pid] \in Nat,
         \A a \in A, e \in R : Subject(e) = a.pid => e.at <= tk[a.pid],
         ToldNow(E, c, lost, now, proc), ToldAt(E, c, lost), ToldAsks(E, A, c, lost, taken)
  PROVE  ToldNow(F, d, m, now, proc) /\ ToldAt(F, d, m) /\ ToldAsks(F, A, d, m, tk)
<1>1. now \in Nat /\ now + 1 \in Nat /\ R \in SUBSET Event /\ \A e \in R : e.at \in Nat /\ e.at < now + 1
  BY EventIs DEF Procs, Reads, Passes
<1>2. ASSUME NEW p \in Pid, NEW t \in Nat, Past(R, p, t),
             NEW prog \in Program, NEW build \in BOOLEAN, NEW line, Tells(E, c, lost, p, t, prog, build, line)
      PROVE  Tells(F, d, m, p, t, prog, build, line)
  <2>1. line \subseteq line
    OBVIOUS
  <2> QED
    BY <1>2, <2>1, WalkKeeps
<1>3. ASSUME NEW p \in Alive, NEW t \in Nat, Past(R, p, t),
             NEW prog \in Program, NEW build \in BOOLEAN, NEW line, NEW more, line \subseteq more,
             Tells(E, c, lost, p, t, prog, build, line), Marks(E, c, lost, p, t, build, more)
      PROVE  Marks(F, d, m, p, t, build, more)
  <2>1. p \in Pid
    BY DEF Alive
  <2> QED
    BY <1>3, <2>1, WalkKeeps
<1>4. ToldNow(F, d, m, now, proc)
  <2> SUFFICES ASSUME NEW p \in Pid, proc[p] # Nobody
               PROVE  /\ Tells(F, d, m, p, now + 1, proc[p].prog, proc[p].build, proc[p].line)
                      /\ Marks(F, d, m, p, now + 1, proc[p].build, proc[p].line)
    BY DEF ToldNow
  <2>0. Past(R, p, now + 1)
    BY <1>1 DEF Past
  <2>1. p \in Alive /\ proc[p].prog \in Program /\ proc[p].build \in BOOLEAN
    BY AliveIs DEF Alive, Process
  <2>2. /\ Tells(E, c, lost, p, now + 1, proc[p].prog, proc[p].build, proc[p].line)
        /\ Marks(E, c, lost, p, now + 1, proc[p].build, proc[p].line)
    BY DEF ToldNow
  <2>3. Tells(F, d, m, p, now + 1, proc[p].prog, proc[p].build, proc[p].line)
    BY <1>1, <1>2, <2>0, <2>1, <2>2
  <2>4. Marks(F, d, m, p, now + 1, proc[p].build, proc[p].line)
    <3>1. proc[p].line \subseteq proc[p].line
      OBVIOUS
    <3> QED
      BY <1>1, <1>3, <2>0, <2>1, <2>2, <3>1
  <2> QED
    BY <2>3, <2>4
<1>5. ToldAt(F, d, m)
  <2> SUFFICES ASSUME NEW e \in F
               PROVE  Tells(F, d, m, e.pid, e.at, e.by, e.build, e.line) /\ Marks(F, d, m, e.pid, e.at, e.build, Line(e))
    BY DEF ToldAt
  <2>1. /\ e.pid \in Pid /\ e.at \in Nat /\ e.by \in Program /\ e.build \in BOOLEAN /\ e.line \subseteq Line(e)
        /\ e.at \in Line(e) /\ Past(R, e.pid, e.at)
    BY EventIs DEF Passes, Past
  <2>2. /\ Tells(E, c, lost, e.pid, e.at, e.by, e.build, e.line)
        /\ Marks(E, c, lost, e.pid, e.at, e.build, Line(e))
    BY DEF ToldAt, Passes
  <2>3. Tells(F, d, m, e.pid, e.at, e.by, e.build, e.line)
    BY <1>2, <2>1, <2>2
  <2>4. Marks(F, d, m, e.pid, e.at, e.build, Line(e))
    <3>1. CASE ~e.build \/ Line(e) \cap m # {}
      BY <3>1 DEF Marks
    <3>2. CASE e.build /\ Line(e) \cap m = {}
      <4>1. e.pid \in Alive
        BY <2>1, <3>2
      <4> QED
        BY <1>3, <2>1, <2>2, <4>1
    <3> QED
      BY <3>1, <3>2
  <2> QED
    BY <2>3, <2>4
<1>6. ToldAsks(F, A, d, m, tk)
  <2> SUFFICES ASSUME NEW a \in A, tk[a.pid] <= a.at PROVE Tells(F, d, m, a.pid, a.at, a.by, FALSE, a.line)
    BY DEF ToldAsks
  <2>1. a.pid \in Pid /\ a.at \in Nat /\ a.by \in Program /\ taken[a.pid] \in Nat
    BY DEF OutEvent, Procs
  <2>2. taken[a.pid] <= a.at /\ Past(R, a.pid, a.at)
    BY <1>1, <2>1 DEF Past
  <2>3. ASSUME NEW build \in BOOLEAN, Tells(E, c, lost, a.pid, a.at, a.by, build, a.line)
        PROVE  Tells(F, d, m, a.pid, a.at, a.by, build, a.line)
    BY <1>2, <2>1, <2>2, <2>3
  <2>4. Tells(E, c, lost, a.pid, a.at, a.by, FALSE, a.line)
    BY <2>2 DEF ToldAsks
  <2> QED
    BY <2>3, <2>4
<1> QED
  BY <1>4, <1>5, <1>6


----------------------------------------------------------------------------
(* The events and dlopens that have yet to be walked, and how they are stamped. *)

Had == UNION {ToSet(rd[r].execs) : r \in Reader}
HadAsks == UNION {Outs(rd[r].asks) : r \in Reader}
Pending == ToSet(execs) \cup Had
Asks == Outs(asks) \cup HadAsks

Fits(x, n) == x.at \in 1..n /\ x.line \subseteq 1..n
\* a reader that has taken the execs has taken all that was before what is there
BothTaken(h) == h.pc = "walk" \/ (h.pc = "drain" /\ h.left = BothHad)
Ahead(h, E) ==
  /\ \A e \in ToSet(h.execs), f \in E : e.at < f.at
  /\ BothTaken(h) => \A a \in Outs(h.asks), f \in E : a.at < f.at
Born(q, n) == q.line \subseteq 1..n /\ (q.build => q.line # {})

Stamped ==
  /\ \A e \in Pending : Fits(e, now)
  /\ \A a \in Asks : Fits(a, now)
  /\ Distinct(Pending)
  /\ \A a \in Asks, e \in Pending : a.at # e.at
  /\ \A r \in Reader : Ahead(rd[r], ToSet(execs))
  /\ lost \subseteq 1..now
  /\ \A p \in Alive : Born(proc[p], now)

LEMMA PendingTyped ==
  ASSUME Typed
  PROVE  Pending \in SUBSET Event /\ Asks \in SUBSET OutEvent /\ Had \in SUBSET Event /\ HadAsks \in SUBSET OutEvent
<1>1. \A es \in Seq(Event) : ToSet(es) \in SUBSET Event
  BY ToSetTyped
<1>2. ASSUME NEW as \in Seq(Probe) PROVE Outs(as) \in SUBSET OutEvent
  <2>1. ToSet(as) \in SUBSET Probe
    BY ToSetTyped
  <2> QED
    BY <2>1 DEF Outs, Probe, InEvent, OutEvent
<1>3. execs \in Seq(Event) /\ asks \in Seq(Probe) /\ \A r \in Reader : rd[r].execs \in Seq(Event) /\ rd[r].asks \in Seq(Probe)
  BY DEF Typed, Holding
<1>4. Had \in SUBSET Event
  BY <1>1, <1>3 DEF Had
<1>5. HadAsks \in SUBSET OutEvent
  BY <1>2, <1>3 DEF HadAsks
<1> QED
  BY <1>1, <1>2, <1>3, <1>4, <1>5 DEF Pending, Asks

LEMMA NoneIs == ToSet(<<>>) = {} /\ Outs(<<>>) = {}
BY DEF ToSet, Outs

\* what is held is the one reader's that has the lock
LEMMA OnlyIs ==
  ASSUME Typed, Shape, NEW r \in Reader, lock \in {r, Nobody}
  PROVE  /\ Had = ToSet(rd[r].execs) /\ HadAsks = Outs(rd[r].asks)
         /\ \A h : rd' = [rd EXCEPT ![r] = h] => Had' = ToSet(h.execs) /\ HadAsks' = Outs(h.asks)
<1>1. \A s \in Reader : s # r => rd[s].execs = <<>> /\ rd[s].asks = <<>>
  <2>1. Nobody \notin Reader
    BY TraceAssumption
  <2>2. \A s \in Reader : s # r => rd[s].pc = "idle"
    BY <2>1, Steady
  <2> QED
    BY <2>2 DEF Shape, Held
<1>2. \A s \in Reader : s # r => ToSet(rd[s].execs) = {} /\ Outs(rd[s].asks) = {}
  BY <1>1, NoneIs
<1>3. Had = ToSet(rd[r].execs) /\ HadAsks = Outs(rd[r].asks)
  BY <1>2 DEF Had, HadAsks
<1>4. ASSUME NEW h, rd' = [rd EXCEPT ![r] = h] PROVE Had' = ToSet(h.execs) /\ HadAsks' = Outs(h.asks)
  <2>1. rd'[r] = h /\ \A s \in Reader : s # r => rd'[s] = rd[s]
    BY <1>4 DEF Typed
  <2>2. \A s \in Reader : s # r => ToSet(rd'[s].execs) = {} /\ Outs(rd'[s].asks) = {}
    BY <1>2, <2>1
  <2>3. Had' = UNION {ToSet(rd'[s].execs) : s \in Reader} /\ HadAsks' = UNION {Outs(rd'[s].asks) : s \in Reader}
    BY DEF Had, HadAsks, Outs
  <2> QED
    BY <2>1, <2>2, <2>3
<1> QED
  BY <1>3, <1>4

LEMMA StampedInit == Init => Stamped
<1> SUFFICES ASSUME Init PROVE Stamped
  OBVIOUS
<1>1. Had = {} /\ HadAsks = {} /\ ToSet(execs) = {} /\ Outs(asks) = {}
  BY NoneIs, IdleIs DEF Init, Had, HadAsks
<1>2. Pending = {} /\ Asks = {} /\ lost = {}
  BY <1>1 DEF Pending, Asks, Init
<1>3. \A r \in Reader : Ahead(rd[r], ToSet(execs))
  BY <1>1 DEF Ahead
<1>4. \A p \in Alive : Born(proc[p], now)
  <2>1. \A p \in Alive : proc[p].line = {} /\ proc[p].build = FALSE
    BY DEF Init, Alive
  <2> QED
    BY <2>1 DEF Born
<1> QED
  BY <1>2, <1>3, <1>4 DEF Stamped, Distinct

\* the reader holds h, and nothing is stamped
LEMMA ReaderStamped ==
  ASSUME Typed, Stamped, NEW r \in Reader, NEW h, rd' = [rd EXCEPT ![r] = h], UNCHANGED <<now, proc>>,
         Pending' \subseteq Pending, Asks' \subseteq Asks, ToSet(execs') \subseteq ToSet(execs), lost' \subseteq 1..now,
         Ahead(h, ToSet(execs'))
  PROVE  Stamped'
<1>1. rd'[r] = h /\ \A s \in Reader : s # r => rd'[s] = rd[s]
  BY DEF Typed
<1>2. ASSUME NEW s \in Reader PROVE Ahead(rd'[s], ToSet(execs'))
  <2>1. Ahead(rd[s], ToSet(execs)) => Ahead(rd[s], ToSet(execs'))
    BY DEF Ahead
  <2> QED
    BY <1>1, <2>1 DEF Stamped
<1>3. \A s \in Reader : Ahead(rd[s], ToSet(execs))'
  BY <1>2 DEF Ahead, BothTaken, Outs
<1>4. \A e \in Pending' : Fits(e, now')
  BY DEF Stamped
<1>5. \A e \in Asks' : Fits(e, now')
  BY DEF Stamped
<1>6. Distinct(Pending')
  BY DEF Stamped, Distinct
<1>7. \A p \in Alive' : Born(proc'[p], now')
  BY DEF Stamped, Alive
<1>8. \A a \in Asks', e \in Pending' : a.at # e.at
  BY DEF Stamped
<1> QED
  BY <1>3, <1>4, <1>5, <1>6, <1>7, <1>8 DEF Stamped, Fits, Distinct, Born


\* the clock ticks, for an event or a dlopen or neither
LEMMA TickStamped ==
  ASSUME Typed, Stamped, now' = now + 1, rd' = rd, NEW X, NEW Y, X = {} \/ Y = {}, \A x, y \in X : x = y,
         \A x \in X \cup Y : x.at = now' /\ x.line \subseteq 1..now',
         ToSet(execs') \subseteq ToSet(execs) \cup X, Outs(asks') \subseteq Outs(asks) \cup Y,
         lost' \subseteq 1..now', \A p \in Alive' : Born(proc'[p], now')
  PROVE  Stamped' /\ (Pending' \subseteq Pending \cup X) /\ (Asks' \subseteq Asks \cup Y)
<1>1. Had' = Had /\ HadAsks' = HadAsks
  BY DEF Had, HadAsks, Outs
<1>2. Pending' \subseteq Pending \cup X /\ Asks' \subseteq Asks \cup Y
  <2>1. Pending' = ToSet(execs') \cup Had /\ Asks' = Outs(asks') \cup HadAsks
    BY <1>1 DEF Pending, Asks, Outs
  <2> QED
    BY <2>1 DEF Pending, Asks
<1>3. now \in Nat /\ now' \in Nat /\ \A i \in 1..now : i \in 1..now' /\ i < now'
  BY Steady
<1>4. \A e \in Pending \cup Asks : e.at \in 1..now /\ e.line \subseteq 1..now
  BY DEF Stamped, Fits
<1>5. \A e \in Pending' : Fits(e, now')
  BY <1>2, <1>3, <1>4 DEF Fits
<1>6. \A e \in Asks' : Fits(e, now')
  BY <1>2, <1>3, <1>4 DEF Fits
<1>7. Distinct(Pending')
  <2>1. \A e \in Pending, x \in X : e.at # x.at
    BY <1>3, <1>4
  <2> QED
    BY <1>2, <2>1 DEF Distinct, Stamped
<1>8. \A a \in Asks', e \in Pending' : a.at # e.at
  <2>1. \A e \in Pending, y \in Y : e.at # y.at
    BY <1>3, <1>4
  <2>2. \A a \in Asks, x \in X : a.at # x.at
    BY <1>3, <1>4
  <2> QED
    BY <1>2, <2>1, <2>2 DEF Stamped
<1>9. ASSUME NEW s \in Reader PROVE Ahead(rd'[s], ToSet(execs'))
  <2>1. \A e \in ToSet(rd[s].execs) : e \in Pending
    BY DEF Pending, Had
  <2>2. \A a \in Outs(rd[s].asks) : a \in Asks
    BY DEF Asks, HadAsks
  <2>3. \A e \in ToSet(rd[s].execs) \cup Outs(rd[s].asks), x \in X : e.at < x.at
    BY <1>3, <1>4, <2>1, <2>2
  <2>4. Ahead(rd[s], ToSet(execs))
    BY DEF Stamped
  <2>5. /\ \A e \in ToSet(rd[s].execs), f \in ToSet(execs) : e.at < f.at
        /\ BothTaken(rd[s]) => \A a \in Outs(rd[s].asks), f \in ToSet(execs) : a.at < f.at
    BY <2>4 DEF Ahead
  <2>6. \A f \in ToSet(execs') : f \in ToSet(execs) \/ f \in X
    OBVIOUS
  <2>7. /\ \A e \in ToSet(rd[s].execs), f \in ToSet(execs') : e.at < f.at
        /\ BothTaken(rd[s]) => \A a \in Outs(rd[s].asks), f \in ToSet(execs') : a.at < f.at
    BY <2>3, <2>5, <2>6
  <2> QED
    BY <2>7 DEF Ahead
<1>10. \A s \in Reader : Ahead(rd[s], ToSet(execs))'
  BY <1>9 DEF Ahead, BothTaken, Outs
<1> QED
  BY <1>2, <1>5, <1>6, <1>7, <1>8, <1>10 DEF Stamped, Fits, Distinct, Born

\* the process of p is another
LEMMA BornOne ==
  ASSUME Typed, Stamped, now' \in {now, now + 1}, NEW p \in Pid, NEW q, proc' = [proc EXCEPT ![p] = q],
         q = Nobody \/ Born(q, now')
  PROVE  \A s \in Alive' : Born(proc'[s], now')
<1>1. proc'[p] = q /\ \A s \in Pid : s # p => proc'[s] = proc[s]
  BY DEF Typed
<1>2. \A s \in Alive' : s \in Pid /\ proc'[s] # Nobody
  BY DEF Alive
<1>3. ASSUME NEW s \in Alive' PROVE Born(proc'[s], now')
  <2>1. CASE s = p
    BY <1>1, <1>2, <2>1
  <2>2. CASE s # p
    <3>1. proc'[s] = proc[s] /\ s \in Alive
      BY <1>1, <1>2, <1>3, <2>2 DEF Alive
    <3>2. Born(proc[s], now)
      BY <3>1 DEF Stamped
    <3>3. 1..now \subseteq 1..now'
      BY Steady
    <3> QED
      BY <3>1, <3>2, <3>3 DEF Born
  <2> QED
    BY <2>1, <2>2
<1> QED
  BY <1>3


----------------------------------------------------------------------------
(* What is pending and what is carried say what every process is, and who asked. *)

Follows ==
  /\ ToldNow(Pending, carried, lost, now, proc)
  /\ ToldAt(Pending, carried, lost)
  /\ ToldAsks(Pending, Asks, carried, lost, taken)
  /\ AsksNow(Asks, proc)
  /\ KnownBuilt(carried)
  /\ Argued(Pending, lost)

LEMMA FollowsNext ==
  ASSUME NEW E, NEW A, Pending' = E, Asks' = A, ToldNow(E, carried', lost', now', proc'), ToldAt(E, carried', lost'),
         ToldAsks(E, A, carried', lost', taken'), AsksNow(A, proc'), KnownBuilt(carried'), Argued(E, lost')
  PROVE  Follows'
<1>1. ToldNow(Pending, carried, lost, now, proc)'
  BY DEF ToldNow, Tells, Marks, Latest, Of, Prog, Built, Line, Subject
<1>2. ToldAt(Pending, carried, lost)'
  BY DEF ToldAt, Tells, Marks, Latest, Of, Prog, Built, Line, Subject
<1>3. ToldAsks(Pending, Asks, carried, lost, taken)'
  BY DEF ToldAsks, Tells, Latest, Of, Prog, Built, Line, Subject
<1>4. AsksNow(Asks, proc)' /\ KnownBuilt(carried)' /\ Argued(Pending, lost)'
  BY DEF AsksNow, KnownBuilt, Argued, Plain, Built, Runs
<1> QED
  BY <1>1, <1>2, <1>3, <1>4 DEF Follows

LEMMA FollowsInit == Init => Follows
<1> SUFFICES ASSUME Init PROVE Follows
  OBVIOUS
<1>1. Had = {} /\ HadAsks = {} /\ ToSet(execs) = {} /\ Outs(asks) = {}
  BY NoneIs, IdleIs DEF Init, Had, HadAsks
<1>2. Pending = {} /\ Asks = {} /\ lost = {} /\ now = 0
  BY <1>1 DEF Pending, Asks, Init
<1>3. PICK b \in Begins :
        /\ carried.built = {} /\ carried.known = b.known
        /\ \A p \in Pid : proc[p] # Nobody => p = Min(Pid) /\ proc[p].prog = b.prog /\ proc[p].build = FALSE
  BY DEF Init
<1>4. carried.known[Min(Pid)] \in {b.prog, Nobody}
  BY <1>3, TraceAssumption
<1>5. \A p, t : Of({}, p, t) = {}
  BY DEF Of
<1>6. ToldNow({}, carried, lost, now, proc)
  <2> SUFFICES ASSUME NEW p \in Pid, proc[p] # Nobody
               PROVE  /\ Tells({}, carried, lost, p, now + 1, proc[p].prog, proc[p].build, proc[p].line)
                      /\ Marks({}, carried, lost, p, now + 1, proc[p].build, proc[p].line)
    BY DEF ToldNow
  <2>1. p = Min(Pid) /\ proc[p].prog = b.prog /\ proc[p].build = FALSE
    BY <1>3
  <2> QED
    BY <1>3, <1>4, <2>1 DEF Tells, Marks
<1>7. ToldAt({}, carried, lost) /\ ToldAsks({}, {}, carried, lost, taken) /\ AsksNow({}, proc) /\ Argued({}, lost)
  BY DEF ToldAt, ToldAsks, AsksNow, Argued
<1>8. KnownBuilt(carried)
  BY <1>3 DEF KnownBuilt
<1> QED
  BY <1>2, <1>6, <1>7, <1>8 DEF Follows

\* the process a fork or an exec makes
Makes(e, q) ==
  /\ q \in Process /\ q.prog = Prog(e) /\ (q.build <=> Built(e)) /\ q.line = Line(e)
  /\ q.start = e.at \/ q.ran = e.at
  /\ e.what = "exec" /\ Built(e) => e.is = e.file

LEMMA EventFollows ==
  ASSUME Typed, Stamped, Follows, NEW e \in Event, e.at = now + 1, now' = now + 1,
         NEW astray \in SUBSET {e.at}, Logged(e, astray), astray = {} => Plain(e),
         UNCHANGED <<asks, carried, rd, taken>>,
         proc[e.pid] # Nobody, e.by = proc[e.pid].prog, e.build = proc[e.pid].build, e.line = proc[e.pid].line,
         NEW q, Makes(e, q), proc' = [proc EXCEPT ![Subject(e)] = q]
  PROVE  Stamped' /\ Follows'
<1>0. e.pid \in Pid /\ Subject(e) \in Pid /\ e.build \in BOOLEAN /\ Built(e) \in BOOLEAN /\ now \in Nat
  BY EventIs, Steady
<1>1. PICK rest \in Seq(Event) :
        /\ execs' = Append(rest, e) /\ Len(rest) < ExecCap
        /\ \/ rest = execs /\ lost' = astray \cup lost
           \/ execs # <<>> /\ rest = Tail(execs) /\ lost' = astray \cup (lost \cup {Head(execs).at})
  BY LoggedIs
<1>2. /\ ToSet(execs') = ToSet(rest) \cup {e} /\ ToSet(rest) \subseteq ToSet(execs) /\ lost \subseteq lost'
      /\ \A f \in ToSet(execs) : f \in ToSet(rest) \/ f.at \in lost'
      /\ lost' \subseteq lost \cup {f.at : f \in ToSet(execs)} \cup {now'} /\ astray \subseteq lost'
  <2>1. execs \in Seq(Event)
    BY Steady
  <2>2. execs # <<>> => ToSet(execs) = ToSet(Tail(execs)) \cup {Head(execs)}
    BY <2>1, TailSet
  <2>3. ToSet(execs') = ToSet(rest) \cup {e}
    BY <1>1, AppendSet
  <2> QED
    BY <1>1, <2>2, <2>3
<1> DEFINE F == ToSet(rest) \cup Had
<1>3. Had' = Had /\ HadAsks' = HadAsks
  BY DEF Had, HadAsks, Outs
<1>4. Pending' = F \cup {e} /\ Asks' = Asks
  BY <1>2, <1>3 DEF Pending, Asks, Outs
<1>5. F \in SUBSET Pending /\ \A f \in Pending \ F : f.at \in lost'
  BY <1>2 DEF Pending
<1> HIDE DEF F
<1>6. proc'[Subject(e)] = q /\ \A s \in Pid : s # Subject(e) => proc'[s] = proc[s]
  BY <1>0 DEF Typed
<1>7. proc[e.pid] \in Process /\ Born(proc[e.pid], now) /\ Born(q, now')
  <2>1. e.pid \in Alive
    BY <1>0 DEF Alive
  <2>2. Born(proc[e.pid], now) /\ proc[e.pid] \in Process
    BY <1>0, <2>1 DEF Stamped, Typed
  <2>3. q.line = e.line \cup {e.at}
    BY DEF Makes, Line
  <2>4. e.line \subseteq 1..now /\ now + 1 \in 1..now + 1 /\ 1..now \subseteq 1..now + 1
    BY <1>0, <2>2 DEF Born
  <2> QED
    BY <2>2, <2>3, <2>4 DEF Born
<1>8. Stamped'
  <2>1. lost' \subseteq 1..now'
    <3>1. \A f \in ToSet(execs) : f.at \in 1..now
      BY DEF Stamped, Pending, Fits
    <3>2. 1..now \subseteq 1..now' /\ now' \in 1..now'
      BY <1>0
    <3> QED
      BY <1>2, <3>1, <3>2 DEF Stamped
  <2>2. \A s \in Alive' : Born(proc'[s], now')
    BY <1>0, <1>7, BornOne
  <2>3. e.line \subseteq 1..now'
    <3>1. 1..now \subseteq 1..now'
      BY <1>0
    <3> QED
      BY <1>7, <3>1 DEF Born
  <2>4. ToSet(execs') \subseteq ToSet(execs) \cup {e} /\ Outs(asks') \subseteq Outs(asks) \cup {}
    BY <1>2
  <2>5. \A x \in {e} \cup {} : x.at = now' /\ x.line \subseteq 1..now'
    BY <2>3
  <2>6. \A x, y \in {e} : x = y
    OBVIOUS
  <2> DEFINE X == {e}
             Y == {}
  <2>7. Y = {}
    OBVIOUS
  <2> HIDE DEF X, Y
  <2>8. /\ \A x \in X \cup Y : x.at = now' /\ x.line \subseteq 1..now'
        /\ ToSet(execs') \subseteq ToSet(execs) \cup X /\ Outs(asks') \subseteq Outs(asks) \cup Y
        /\ \A x, y \in X : x = y
    BY <2>4, <2>5, <2>6 DEF X, Y
  <2> QED
    BY <2>1, <2>2, <2>7, <2>8, TickStamped
<1>9. /\ ToldNow(F, carried, lost', now, proc) /\ ToldAt(F, carried, lost')
      /\ ToldAsks(F, Asks, carried, lost', taken) /\ Argued(F, lost')
  BY <1>0, <1>2, <1>5, PendingTyped, DropsAll DEF Follows, Stamped
<1>10. \A f \in Pending \cup Asks : f.at \in 1..now /\ f.at <= now
  BY DEF Stamped, Fits
<1>11. /\ ToldNow(F \cup {e}, carried, lost', now + 1, proc') /\ ToldAt(F \cup {e}, carried, lost')
       /\ ToldAsks(F \cup {e}, Asks, carried, lost', taken)
  <2>1. F \in SUBSET Event /\ Asks \in SUBSET OutEvent /\ (\A f \in F : f.at <= now) /\ \A a \in Asks : a.at <= now
    BY <1>5, <1>10, PendingTyped
  <2>2. /\ \A p \in Pid : p # Subject(e) /\ proc'[p] # Nobody => proc'[p] = proc[p]
        /\ proc'[Subject(e)].prog = Prog(e) /\ proc'[Subject(e)].build = Built(e) /\ proc'[Subject(e)].line = Line(e)
    <3>1. q.build \in BOOLEAN
      BY DEF Makes, Process
    <3> QED
      BY <1>0, <1>6, <3>1 DEF Makes
  <2>3. Adding(F, carried, lost', now, proc, Asks, taken, e, proc')
    BY <1>0, <1>9, <2>1, <2>2 DEF Adding
  <2> QED
    BY <2>3, AddsMade
<1>12. Argued(F \cup {e}, lost')
  BY <1>2, <1>9 DEF Argued, Makes
<1>13. AsksNow(Asks, proc')
  <2> SUFFICES ASSUME NEW a \in Asks, proc'[a.pid] # Nobody, proc'[a.pid].start <= a.at, proc'[a.pid].ran <= a.at
               PROVE  proc'[a.pid].prog = a.by
    BY DEF AsksNow
  <2>1. a.pid \in Pid /\ a.at \in Nat /\ a.at <= now
    BY <1>10, PendingTyped DEF OutEvent
  <2>2. a.pid # Subject(e)
    <3>1. q.start = now + 1 \/ q.ran = now + 1
      BY DEF Makes
    <3> QED
      BY <1>0, <1>6, <2>1, <3>1
  <2> QED
    BY <1>6, <2>1, <2>2 DEF Follows, AsksNow
<1>14. KnownBuilt(carried)
  BY DEF Follows
<1>15. Follows'
  <2> DEFINE E == F \cup {e}
  <2> HIDE DEF E
  <2>1. Pending' = E /\ Asks' = Asks /\ carried' = carried /\ taken' = taken
    BY <1>4 DEF E
  <2>2. /\ ToldNow(E, carried', lost', now', proc') /\ ToldAt(E, carried', lost')
        /\ ToldAsks(E, Asks, carried', lost', taken') /\ Argued(E, lost')
    BY <1>11, <1>12 DEF E
  <2> QED
    BY <1>13, <1>14, <2>1, <2>2, FollowsNext
<1> QED
  BY <1>8, <1>15


LEMMA FollowsFork ==
  ASSUME Typed, Stamped, Follows, NEW p \in Pid, NEW c \in Pid, Fork(p, c)
  PROVE  Stamped' /\ Follows'
<1>1. /\ p \in Alive /\ proc[p] # Nobody /\ proc[p] \in Process /\ now' = now + 1 /\ now' \in Nat
      /\ UNCHANGED <<asks, carried, rd, taken>>
  BY AliveIs, Steady DEF Fork, Ticks, Alive, Typed
<1> DEFINE e == [what |-> "fork", at |-> now', pid |-> p, child |-> c,
                 by |-> proc[p].prog, build |-> proc[p].build, line |-> proc[p].line]
           q == Child(proc[p], now')
<1>2. e \in ForkEvent
  BY <1>1 DEF ForkEvent, Process
<1>3. Logged(e, {}) /\ proc' = [proc EXCEPT ![c] = q]
  BY DEF Fork, Child
<1>4. /\ e.what = "fork" /\ e.at = now + 1 /\ e.pid = p /\ e.by = proc[p].prog /\ e.build = proc[p].build
      /\ e.line = proc[p].line /\ e.child = c
  BY <1>1
<1>5. /\ q \in Process /\ q.prog = proc[p].prog /\ q.build = proc[p].build /\ q.line = proc[p].line \cup {now'}
      /\ q.start = now'
  BY <1>1, ChildIs
<1> HIDE DEF e, q
<1>6. Makes(e, q) /\ Subject(e) = c /\ Plain(e)
  BY <1>1, <1>4, <1>5 DEF Makes, Prog, Built, Line, Subject, Plain
<1>7. e \in Event
  BY <1>2 DEF Event
<1> QED
  BY <1>1, <1>3, <1>4, <1>6, <1>7, EventFollows

LEMMA FollowsExec ==
  ASSUME Typed, Stamped, Follows, NEW p \in Pid, NEW f \in Program, NEW arg \in Program \cup {Nobody},
         NEW said \in Program \cup {Nobody}, Exec(p, f, arg, said)
  PROVE  Stamped' /\ Follows'
<1>1. /\ p \in Alive /\ proc[p] # Nobody /\ proc[p] \in Process /\ now' = now + 1 /\ now' \in Nat
      /\ UNCHANGED <<asks, carried, rd, taken>> /\ arg \in Script[f] \cup {Nobody}
  BY AliveIs, Steady DEF Exec, Ticks, Alive, Typed
<1> DEFINE build == proc[p].build \/ f = Kiry
           is == IF arg # Nobody /\ ~build THEN arg ELSE f
           q == [prog |-> is, build |-> build, start |-> proc[p].start, ran |-> now',
                 line |-> proc[p].line \cup {now'}, libc |-> libc, calls |-> <<>>,
                 maps |-> Loaded(Exe(f)), asked |-> {}]
           misread == ~build /\ (said # arg \/ (proc[p].prog \in Script[f] /\ arg # proc[p].prog))
           astray == IF misread THEN {now'} ELSE {}
           e == [what |-> "exec", at |-> now', pid |-> p, file |-> f, arg |-> said, is |-> is,
                 by |-> proc[p].prog, build |-> proc[p].build, line |-> proc[p].line]
<1>2. is \in Program /\ build \in BOOLEAN /\ Loaded(Exe(f)) \in SUBSET Lib /\ libc \in {1, 2}
  BY <1>1, ExeIs, LoadedIs DEF Process, Typed
<1>3. proc' = [proc EXCEPT ![p] = q] /\ Logged(e, astray)
  BY DEF Exec, Typed
<1>4. e \in ExecEvent /\ astray \in SUBSET {e.at}
  BY <1>1, <1>2 DEF ExecEvent, Process
<1>5. /\ e.what = "exec" /\ e.at = now + 1 /\ e.pid = p /\ e.by = proc[p].prog /\ e.build = proc[p].build
      /\ e.line = proc[p].line /\ e.file = f /\ e.arg = said /\ e.is = is
  BY <1>1
<1> HIDE DEF e
<1>6. Built(e) <=> build
  BY <1>5 DEF Built
<1>7. Prog(e) = is /\ Line(e) = proc[p].line \cup {now'} /\ Subject(e) = p
  BY <1>1, <1>5, <1>6 DEF Prog, Line, Subject
<1>11. astray = {} => Plain(e)
  <2> SUFFICES ASSUME astray = {}, ~build PROVE is = Runs(e) /\ (proc[p].prog \in Script[f] => is = proc[p].prog)
    BY <1>5, <1>6 DEF Plain
  <2>1. said = arg /\ (proc[p].prog \in Script[f] => arg = proc[p].prog)
    OBVIOUS
  <2>2. proc[p].prog # Nobody
    BY <1>1, TraceAssumption DEF Process
  <2> QED
    BY <1>5, <2>1, <2>2 DEF Runs
<1>12. Built(e) => e.is = e.file
  BY <1>5, <1>6
<1> HIDE DEF is, build, misread, astray
<1>8. /\ q \in Process /\ q.prog = is /\ q.build = build /\ q.line = proc[p].line \cup {now'} /\ q.ran = now'
  BY <1>1, <1>2 DEF Process
<1> HIDE DEF q
<1>9. Makes(e, q)
  BY <1>1, <1>5, <1>6, <1>7, <1>8, <1>12 DEF Makes
<1>10. e \in Event
  BY <1>4 DEF Event
<1> QED
  BY <1>1, <1>3, <1>4, <1>5, <1>7, <1>9, <1>10, <1>11, EventFollows

\* a call or a return, that leaves the dlopens of Y
LEMMA CallFollows ==
  ASSUME Typed, Stamped, Follows, NEW p \in Alive, Ticks, NEW q \in Process, proc' = [proc EXCEPT ![p] = q],
         q.prog = proc[p].prog, q.build = proc[p].build, q.line = proc[p].line, q.start = proc[p].start, q.ran = proc[p].ran,
         UNCHANGED <<execs, carried, rd, lost, taken>>, asks' \in Seq(Probe),
         NEW Y \in SUBSET OutEvent, Outs(asks') \subseteq Outs(asks) \cup Y,
         \A y \in Y : y.at = now' /\ y.pid = p /\ y.by = proc[p].prog /\ y.line = proc[p].line /\ ~proc[p].build
  PROVE  Stamped' /\ Follows'
<1>0. p \in Pid /\ proc[p] \in Process /\ proc[p] # Nobody /\ now \in Nat /\ now' = now + 1 /\ now' \in Nat
      /\ Born(proc[p], now)
  BY Steady, AliveIs DEF Alive, Ticks, Stamped, Typed
<1>1. proc'[p] = q /\ \A s \in Pid : s # p => proc'[s] = proc[s]
  BY <1>0 DEF Typed
<1>2. 1..now \subseteq 1..now'
  BY <1>0
<1>3. Stamped' /\ Asks' \subseteq Asks \cup Y
  <2>1. Born(q, now')
    BY <1>0, <1>2 DEF Born
  <2>2. \A s \in Alive' : Born(proc'[s], now')
    BY <1>0, <2>1, BornOne
  <2>3. lost' \subseteq 1..now'
    BY <1>2 DEF Stamped
  <2>4. \A y \in Y : y.at = now' /\ y.line \subseteq 1..now'
    BY <1>0, <1>2 DEF Born
  <2> DEFINE X == {}
  <2>5. /\ X = {} /\ (\A x, y \in X : x = y) /\ (\A x \in X \cup Y : x.at = now' /\ x.line \subseteq 1..now')
        /\ ToSet(execs') \subseteq ToSet(execs) \cup X
    BY <2>4
  <2> HIDE DEF X
  <2> QED
    BY <1>0, <2>2, <2>3, <2>5, TickStamped
<1>4. Pending' = Pending
  <2>1. Had' = Had
    BY DEF Had
  <2> QED
    BY <2>1 DEF Pending
<1>5. Pending \in SUBSET Event /\ Asks \in SUBSET OutEvent /\ (\A e \in Pending : e.at \in 1..now) /\ \A a \in Asks : a.at \in 1..now
  BY PendingTyped DEF Stamped, Fits
<1>6. ToldNow(Pending, carried, lost, now', proc')
  <2> SUFFICES ASSUME NEW s \in Pid, proc'[s] # Nobody
               PROVE  /\ Tells(Pending, carried, lost, s, now' + 1, proc'[s].prog, proc'[s].build, proc'[s].line)
                      /\ Marks(Pending, carried, lost, s, now' + 1, proc'[s].build, proc'[s].line)
    BY DEF ToldNow
  <2>1. /\ proc[s] # Nobody /\ proc'[s].prog = proc[s].prog /\ proc'[s].build = proc[s].build
        /\ proc'[s].line = proc[s].line
    BY <1>0, <1>1
  <2>2. /\ Tells(Pending, carried, lost, s, now + 1, proc'[s].prog, proc'[s].build, proc'[s].line)
        /\ Marks(Pending, carried, lost, s, now + 1, proc'[s].build, proc'[s].line)
    BY <2>1 DEF Follows, ToldNow
  <2>3. now + 1 \in Nat /\ now' + 1 \in Nat /\ \A e \in Pending : e.at < now + 1 /\ e.at < now' + 1
    BY <1>0, <1>5
  <2> QED
    BY <1>5, <2>2, <2>3, Later
<1>7. ToldAsks(Pending, Asks', carried, lost, taken)
  <2> SUFFICES ASSUME NEW a \in Asks', taken[a.pid] <= a.at
               PROVE  Tells(Pending, carried, lost, a.pid, a.at, a.by, FALSE, a.line)
    BY DEF ToldAsks
  <2>1. CASE a \in Asks
    BY <2>1 DEF Follows, ToldAsks
  <2>2. CASE a \in Y
    <3>1. a.at = now + 1 /\ a.pid = p /\ a.by = proc[p].prog /\ a.line = proc[p].line /\ proc[p].build = FALSE
      BY <1>0, <2>2 DEF Process
    <3>2. Tells(Pending, carried, lost, p, now + 1, proc[p].prog, proc[p].build, proc[p].line)
      BY <1>0 DEF Follows, ToldNow
    <3> QED
      BY <3>1, <3>2
  <2> QED
    BY <1>3, <2>1, <2>2
<1>8. AsksNow(Asks', proc')
  <2> SUFFICES ASSUME NEW a \in Asks', proc'[a.pid] # Nobody, proc'[a.pid].start <= a.at, proc'[a.pid].ran <= a.at
               PROVE  proc'[a.pid].prog = a.by
    BY DEF AsksNow
  <2>1. CASE a \in Asks
    <3>1. a.pid \in Pid
      BY <1>5, <2>1 DEF OutEvent
    <3>2. /\ proc[a.pid] # Nobody /\ proc'[a.pid].prog = proc[a.pid].prog /\ proc'[a.pid].start = proc[a.pid].start
          /\ proc'[a.pid].ran = proc[a.pid].ran
      BY <1>0, <1>1, <3>1
    <3> QED
      BY <2>1, <3>2 DEF Follows, AsksNow
  <2>2. CASE a \in Y
    BY <1>1, <2>2
  <2> QED
    BY <1>3, <2>1, <2>2
<1>9. ToldAt(Pending, carried, lost) /\ KnownBuilt(carried) /\ Argued(Pending, lost)
  BY DEF Follows
<1>10. carried' = carried /\ lost' = lost /\ taken' = taken
  OBVIOUS
<1>11. Follows'
  BY <1>4, <1>6, <1>7, <1>8, <1>9, <1>10, FollowsNext
<1> QED
  BY <1>3, <1>11


----------------------------------------------------------------------------
(* What a process is in the middle of asking, and what the buffer has of it. *)

\* the latest i and one calls are all traced
Ons(c, i) == \A j \in 0..i : c[Len(c) - j].on
Agree(o, c) == \A i \in 0..(Len(c) - 1) : i < Len(o) /\ Ons(c, i) => o[Len(o) - i] = c[Len(c) - i].lib
Quiet(c) == \A i \in DOMAIN c : ~c[i].on
Mounts(c) == \A i, j \in DOMAIN c : i < j /\ c[i].on => c[j].on

\* a build's calls and those that no probe is on leave no trace, and where there is one the
\* latest traced calls are those the buffer has open
CallsOf(q, o, lc, ar) ==
  /\ q.build \/ (q.libc = lc /\ ar # lc) => Quiet(q.calls)
  /\ q.libc = ar => Agree(o, q.calls) /\ Mounts(q.calls)
Named(S) == \A a \in S : a.name = a.lib
Calling ==
  /\ \A p \in Alive : CallsOf(proc[p], Paired(asks).open[p], libc, armed)
  /\ Named(TraceEvents(asks))
  /\ \A r \in Reader : Named(TraceEvents(rd[r].asks))

LEMMA LastOff ==
  ASSUME NEW q \in Process, q.calls # <<>>, Quiet(q.calls)
  PROVE  ~Last(q.calls).on
<1>1. q.calls \in Calls
  BY DEF Process, Calls
<1>2. Len(q.calls) \in DOMAIN q.calls
  BY <1>1 DEF Calls
<1> QED
  BY <1>2 DEF Quiet, Last

LEMMA FollowsEnter ==
  ASSUME Typed, Stamped, Follows, NEW p \in Pid, NEW l \in Lib, Enter(p, l)
  PROVE  Stamped' /\ Follows'
<1>1. p \in Alive /\ proc[p] \in Process
  BY AliveIs DEF Enter, Typed, TypeOK, Procs
<1> DEFINE on == proc[p].libc = armed /\ ~proc[p].build
           c == Append(proc[p].calls, [lib |-> l, on |-> on])
           q == Into(proc[p], c)
           e == [what |-> "in", pid |-> p, lib |-> l]
<1>2. c \in Calls
  BY <1>1 DEF Process, Calls
<1>3. proc' = [proc EXCEPT ![p] = q] /\ (asks' = asks \/ asks' = Append(asks, e))
  BY DEF Enter, Into
<1>4. Ticks /\ UNCHANGED <<libc, armed, execs, carried, seen, lock, rd, lost, taken>>
  BY DEF Enter
<1>5. e \in Probe /\ e.what # "out"
  BY DEF Probe, InEvent
<1> HIDE DEF e
<1>6. asks' \in Seq(Probe) /\ Outs(asks') \subseteq Outs(asks)
  <2>1. asks \in Seq(Probe)
    BY Steady
  <2>2. ToSet(Append(asks, e)) = ToSet(asks) \cup {e}
    BY <1>5, <2>1, AppendSet
  <2>3. Append(asks, e) \in Seq(Probe)
    BY <1>5, <2>1
  <2> QED
    BY <1>3, <1>5, <2>1, <2>2, <2>3 DEF Outs
<1> HIDE DEF c
<1>7. /\ q \in Process /\ q.prog = proc[p].prog /\ q.build = proc[p].build /\ q.line = proc[p].line
      /\ q.start = proc[p].start /\ q.ran = proc[p].ran
  BY <1>1, <1>2, IntoIs
<1> DEFINE Y == {}
<1>8. Y \in SUBSET OutEvent /\ Outs(asks') \subseteq Outs(asks) \cup Y /\ Y = {}
  BY <1>6
<1> HIDE DEF Y, q
<1> QED
  BY <1>1, <1>3, <1>4, <1>6, <1>7, <1>8, CallFollows

LEMMA FollowsReturn ==
  ASSUME Typed, Stamped, Follows, Calling, NEW p \in Pid, NEW ok \in BOOLEAN, Return(p, ok)
  PROVE  Stamped' /\ Follows'
<1>1. p \in Alive /\ proc[p] \in Process /\ proc[p].calls # <<>> /\ now' \in Nat
  BY TraceAssumption, AliveIs DEF Return, Ticks, Typed, TypeOK, Procs
<1> DEFINE call == Last(proc[p].calls)
           traced == call.on /\ proc[p].libc = armed
           q == Back(proc[p], ok)
           e == [what |-> "out", at |-> now', pid |-> p, ok |-> ok, lib |-> call.lib,
                 by |-> proc[p].prog, line |-> proc[p].line]
           Y == IF traced THEN {e} ELSE {}
<1>2. proc' = [proc EXCEPT ![p] = q] /\ asks' = (IF traced THEN Append(asks, e) ELSE asks)
  BY DEF Return, Back, After
<1>3. e \in OutEvent /\ e \in Probe
  <2>1. Last(proc[p].calls).lib \in Lib
    BY <1>1, BackIs
  <2> QED
    BY <1>1, <2>1 DEF Probe, OutEvent, Process
<1>4. Ticks /\ UNCHANGED <<libc, armed, execs, carried, seen, lock, rd, lost, taken>>
  BY DEF Return
<1>5. e.at = now' /\ e.pid = p /\ e.by = proc[p].prog /\ e.line = proc[p].line /\ e.what = "out"
  OBVIOUS
<1>6. traced => ~proc[p].build
  BY <1>1, LastOff DEF Calling, CallsOf
<1> HIDE DEF e, traced
<1>7. asks' \in Seq(Probe) /\ Outs(asks') \subseteq Outs(asks) \cup Y
  <2>1. asks \in Seq(Probe)
    BY Steady
  <2>2. ToSet(Append(asks, e)) = ToSet(asks) \cup {e} /\ Append(asks, e) \in Seq(Probe)
    BY <1>3, <2>1, AppendSet
  <2> QED
    BY <1>2, <2>1, <2>2 DEF Outs
<1>8. /\ q \in Process /\ q.prog = proc[p].prog /\ q.build = proc[p].build /\ q.line = proc[p].line
      /\ q.start = proc[p].start /\ q.ran = proc[p].ran
  BY <1>1, BackIs
<1>9. /\ Y \in SUBSET OutEvent
      /\ \A y \in Y : y.at = now' /\ y.pid = p /\ y.by = proc[p].prog /\ y.line = proc[p].line /\ ~proc[p].build
  BY <1>3, <1>5, <1>6
<1> HIDE DEF Y, q
<1> QED
  BY <1>1, <1>2, <1>4, <1>7, <1>8, <1>9, CallFollows

LEMMA FollowsExit ==
  ASSUME Typed, Stamped, Follows, NEW p \in Pid, Exit(p)
  PROVE  Stamped' /\ Follows'
<1>1. proc' = [proc EXCEPT ![p] = Nobody] /\ UNCHANGED <<now, asks, execs, carried, rd, lost, taken>>
  BY DEF Exit
<1>2. \A s \in Pid : proc'[s] # Nobody => proc'[s] = proc[s]
  BY <1>1 DEF Typed
<1>3. Pending' = Pending /\ Asks' = Asks
  BY <1>1 DEF Pending, Asks, Had, HadAsks, Outs
<1>4. Stamped'
  <2>1. \A s \in Alive' : Born(proc'[s], now')
    BY <1>1, BornOne
  <2>2. \A s \in Reader : Ahead(rd[s], ToSet(execs))'
    BY <1>1 DEF Stamped, Ahead, BothTaken, Outs
  <2> QED
    BY <1>1, <1>3, <2>1, <2>2 DEF Stamped, Fits, Distinct, Born
<1>5. ToldNow(Pending, carried, lost, now, proc')
  BY <1>2 DEF Follows, ToldNow
<1>6. AsksNow(Asks, proc')
  <2>1. \A a \in Asks : a.pid \in Pid
    BY PendingTyped DEF OutEvent
  <2> QED
    BY <1>2, <2>1 DEF Follows, AsksNow
<1>7. /\ ToldAt(Pending, carried, lost) /\ ToldAsks(Pending, Asks, carried, lost, taken) /\ KnownBuilt(carried)
      /\ Argued(Pending, lost)
  BY DEF Follows
<1>8. now' = now /\ carried' = carried /\ lost' = lost /\ taken' = taken
  BY <1>1
<1>9. Follows'
  BY <1>3, <1>5, <1>6, <1>7, <1>8, FollowsNext
<1> QED
  BY <1>4, <1>9


----------------------------------------------------------------------------
(* What a reader leaves to be walked. *)

\* it moves events from the buffers, or lets go of dlopens
LEMMA ReaderFollows ==
  ASSUME Typed, Shape, Stamped, Follows, NEW r \in Reader, lock \in {r, Nobody}, NEW h, rd' = [rd EXCEPT ![r] = h],
         UNCHANGED <<now, proc, carried, lost, taken>>,
         ToSet(execs') \cup ToSet(h.execs) = ToSet(execs) \cup ToSet(rd[r].execs), ToSet(execs') \subseteq ToSet(execs),
         Outs(asks') \cup Outs(h.asks) \subseteq Outs(asks) \cup Outs(rd[r].asks),
         Ahead(h, ToSet(execs'))
  PROVE  Stamped' /\ Follows'
<1>1. /\ Pending = ToSet(execs) \cup ToSet(rd[r].execs) /\ Asks = Outs(asks) \cup Outs(rd[r].asks)
      /\ Pending' = ToSet(execs') \cup ToSet(h.execs) /\ Asks' = Outs(asks') \cup Outs(h.asks)
  BY OnlyIs DEF Pending, Asks, Outs
<1>2. Pending' = Pending /\ Asks' \subseteq Asks
  BY <1>1
<1>3. lost' \subseteq 1..now'
  BY DEF Stamped
<1>4. Stamped'
  BY <1>2, <1>3, ReaderStamped
<1>5. ToldAsks(Pending, Asks', carried, lost, taken) /\ AsksNow(Asks', proc)
  BY <1>2 DEF Follows, ToldAsks, AsksNow
<1>6. ToldNow(Pending, carried, lost, now, proc) /\ ToldAt(Pending, carried, lost) /\ KnownBuilt(carried) /\ Argued(Pending, lost)
  BY DEF Follows
<1>7. now' = now /\ proc' = proc /\ carried' = carried /\ lost' = lost /\ taken' = taken
  OBVIOUS
<1>8. Follows'
  BY <1>2, <1>5, <1>6, <1>7, FollowsNext
<1> QED
  BY <1>4, <1>8

LEMMA FollowsTake ==
  ASSUME Typed, Shape, Stamped, Follows, NEW r \in Reader, Take(r)
  PROVE  Stamped' /\ Follows'
<1> DEFINE o == {s \in Credits(ToSet(execs) \cup TraceEvents(asks), carried) : s.heard /\ s.sure}
           h == Taking(Order, o)
<1>1. o \in SUBSET Said /\ Order \in Seq({"asks", "execs", "arm"}) /\ Order = Begun
  <2>1. Credits(ToSet(execs) \cup TraceEvents(asks), carried) \in SUBSET Said
    BY Steady, CreditsTyped
  <2> QED
    BY <2>1 DEF Order, Begun
<1>2. /\ rd' = [rd EXCEPT ![r] = h] /\ rd[r].pc = "idle" /\ lock = Nobody
      /\ UNCHANGED <<now, proc, execs, asks, carried, lost, taken>>
  BY DEF Take, Taking, Free, kernel
<1> HIDE DEF o
<1>3. h.pc = "drain" /\ h.execs = <<>> /\ h.asks = <<>>
  BY <1>1, TakingIs
<1>4. rd[r].execs = <<>> /\ rd[r].asks = <<>>
  BY <1>2 DEF Shape, Held
<1> HIDE DEF h
<1>5. Ahead(h, ToSet(execs'))
  BY <1>3, NoneIs DEF Ahead
<1> QED
  BY <1>2, <1>3, <1>4, <1>5, ReaderFollows

LEMMA FollowsDrainAsks ==
  ASSUME Typed, Shape, Stamped, Follows, NEW r \in Reader, DrainAsks(r)
  PROVE  Stamped' /\ Follows'
<1> DEFINE h == WithAsks(Drained(r), asks)
<1>1. Turn(r, "asks") /\ rd' = [rd EXCEPT ![r] = h] /\ asks' = <<>>
      /\ UNCHANGED <<now, proc, execs, carried, lost, taken>>
  BY DEF DrainAsks, WithAsks, kernel
<1>2. /\ Drained(r) \in Holding /\ Drained(r).pc = "drain" /\ Drained(r).left = AsksHad
      /\ Drained(r).execs = rd[r].execs /\ lock = r
  BY <1>1, TurnIs, DrainedIs, ShapeDrain
<1>3. h.pc = "drain" /\ h.left = AsksHad /\ h.execs = rd[r].execs /\ h.asks = asks
  BY <1>2, Steady, WithAsksIs
<1> HIDE DEF h
<1>4. Ahead(h, ToSet(execs'))
  <2>1. AsksHad # BothHad
    BY DEF AsksHad, BothHad
  <2>2. Ahead(rd[r], ToSet(execs))
    BY DEF Stamped
  <2> QED
    BY <1>1, <1>3, <2>1, <2>2 DEF Ahead, BothTaken
<1> QED
  BY <1>1, <1>2, <1>3, <1>4, NoneIs, ReaderFollows

LEMMA FollowsDrainExecs ==
  ASSUME Typed, Shape, Stamped, Follows, NEW r \in Reader, DrainExecs(r)
  PROVE  Stamped' /\ Follows'
<1> DEFINE h == WithExecs(Drained(r), execs)
<1>1. Turn(r, "execs") /\ rd' = [rd EXCEPT ![r] = h] /\ execs' = <<>>
      /\ UNCHANGED <<now, proc, asks, carried, lost, taken>>
  BY DEF DrainExecs, WithExecs
<1>2. /\ Drained(r) \in Holding /\ Drained(r).asks = rd[r].asks /\ lock = r
      /\ rd[r].pc = "drain" /\ rd[r].left = AsksHad
  BY <1>1, TurnIs, DrainedIs, ShapeDrain
<1>3. h.execs = execs /\ h.asks = rd[r].asks
  BY <1>2, Steady, WithExecsIs
<1>4. rd[r].execs = <<>>
  <2>1. AsksHad # BothHad
    BY DEF AsksHad, BothHad
  <2> QED
    BY <1>2, <2>1 DEF Shape, Held
<1> HIDE DEF h
<1>5. Ahead(h, ToSet(execs'))
  BY <1>1, NoneIs DEF Ahead
<1> QED
  BY <1>1, <1>2, <1>3, <1>4, <1>5, NoneIs, ReaderFollows

\* it keeps what it holds, and what is in the buffers is lost
LEMMA ArmDrops ==
  ASSUME Typed, Shape, Stamped, Follows, NEW r \in Reader, lock \in {r, Nobody}, NEW h, rd' = [rd EXCEPT ![r] = h],
         h.asks = rd[r].asks, h.execs = rd[r].execs, Ahead(h, ToSet(execs')),
         UNCHANGED <<now, proc, carried, taken>>,
         asks' = <<>>, execs' = <<>>, lost' = lost \cup {e.at : e \in ToSet(execs)}
  PROVE  Stamped' /\ Follows'
<1> DEFINE F == ToSet(rd[r].execs)
           A == Outs(rd[r].asks)
<1>1. /\ Pending = ToSet(execs) \cup F /\ Asks = Outs(asks) \cup A /\ Pending' = F /\ Asks' = A
      /\ ToSet(execs') \subseteq ToSet(execs)
  BY OnlyIs, NoneIs DEF Pending, Asks, Outs
<1>2. F \in SUBSET Pending /\ A \in SUBSET Asks /\ Pending \in SUBSET Event /\ Asks \in SUBSET OutEvent /\ A \in SUBSET OutEvent
      /\ now \in Nat
  BY <1>1, PendingTyped, Steady
<1>3. lost' \subseteq 1..now /\ lost \subseteq lost' /\ \A e \in Pending \ F : e.at \in lost'
  BY <1>1 DEF Stamped, Fits
<1> HIDE DEF F, A
<1>4. Stamped'
  BY <1>1, <1>2, <1>3, ReaderStamped
<1>5. /\ ToldNow(F, carried, lost', now, proc) /\ ToldAt(F, carried, lost')
      /\ ToldAsks(F, Asks, carried, lost', taken) /\ Argued(F, lost')
  <2>1. Distinct(Pending)
    BY DEF Stamped
  <2>2. /\ ToldNow(Pending, carried, lost, now, proc) /\ ToldAt(Pending, carried, lost)
        /\ ToldAsks(Pending, Asks, carried, lost, taken) /\ Argued(Pending, lost)
    BY DEF Follows
  <2> DEFINE m == lost'
  <2>3. lost \subseteq m /\ \A e \in Pending \ F : e.at \in m
    BY <1>3
  <2> HIDE DEF m
  <2>4. /\ ToldNow(F, carried, m, now, proc) /\ ToldAt(F, carried, m)
        /\ ToldAsks(F, Asks, carried, m, taken) /\ Argued(F, m)
    BY <1>2, <2>1, <2>2, <2>3, DropsAll
  <2> QED
    BY <2>4 DEF m
<1>6. ToldAsks(F, A, carried, lost', taken) /\ AsksNow(A, proc) /\ KnownBuilt(carried)
  BY <1>2, <1>5 DEF ToldAsks, AsksNow, Follows
<1>7. Follows'
  BY <1>1, <1>5, <1>6, FollowsNext
<1> QED
  BY <1>4, <1>7

LEMMA FollowsArm ==
  ASSUME Typed, Shape, Stamped, Follows, NEW r \in Reader, Arm(r)
  PROVE  Stamped' /\ Follows'
<1> DEFINE h == Drained(r)
<1>1. Turn(r, "arm") /\ rd' = [rd EXCEPT ![r] = h] /\ UNCHANGED <<now, proc, carried, taken>>
      /\ \/ asks' = asks /\ execs' = execs /\ lost' = lost
         \/ asks' = <<>> /\ execs' = <<>> /\ lost' = lost \cup {e.at : e \in ToSet(execs)}
  BY DEF Arm
<1>2. /\ h.asks = rd[r].asks /\ h.execs = rd[r].execs /\ lock = r
      /\ rd[r].pc = "drain" /\ rd[r].left = BothHad
  BY <1>1, TurnIs, DrainedIs, ShapeDrain
<1> HIDE DEF h
<1>3. Ahead(h, ToSet(execs'))
  <2>1. Ahead(rd[r], ToSet(execs))
    BY DEF Stamped
  <2> QED
    BY <1>1, <1>2, <2>1, NoneIs DEF Ahead, BothTaken
<1>4. CASE asks' = asks /\ execs' = execs /\ lost' = lost
  BY <1>1, <1>2, <1>3, <1>4, ReaderFollows
<1>5. CASE asks' = <<>> /\ execs' = <<>> /\ lost' = lost \cup {e.at : e \in ToSet(execs)}
  BY <1>1, <1>2, <1>3, <1>5, ArmDrops
<1> QED
  BY <1>1, <1>4, <1>5

\* it held nothing and holds nothing
LEMMA FollowsEmpty ==
  ASSUME Typed, Shape, Stamped, Follows, NEW r \in Reader, lock \in {r, Nobody}, NEW h, rd' = [rd EXCEPT ![r] = h],
         UNCHANGED <<now, proc, carried, lost, taken, execs, asks>>,
         rd[r].execs = <<>>, rd[r].asks = <<>>, h.execs = <<>>, h.asks = <<>>
  PROVE  Stamped' /\ Follows'
<1>1. Ahead(h, ToSet(execs'))
  BY NoneIs DEF Ahead
<1> QED
  BY <1>1, ReaderFollows

LEMMA FollowsReadSeen ==
  ASSUME Typed, Shape, Stamped, Follows, NEW r \in Reader, NEW c \in Program, ReadSeen(r, c)
  PROVE  Stamped' /\ Follows'
<1> DEFINE h == Reading(rd[r], c, seen[c])
<1>1. rd[r].pc = "add" /\ rd' = [rd EXCEPT ![r] = h]
      /\ UNCHANGED <<now, proc, execs, asks, carried, lost, taken>>
  BY DEF ReadSeen, Reading, kernel
<1>2. rd[r] \in Holding /\ seen[c] \in SUBSET (Lib \cup Program) /\ lock = r
  BY <1>1, Steady
<1>3. h.execs = rd[r].execs /\ h.asks = rd[r].asks
  BY <1>2, ReadingIs
<1>4. rd[r].execs = <<>> /\ rd[r].asks = <<>>
  BY <1>1 DEF Shape, Held
<1> HIDE DEF h
<1> QED
  BY <1>1, <1>2, <1>3, <1>4, FollowsEmpty

LEMMA FollowsWriteSeen ==
  ASSUME Typed, Shape, Stamped, Follows, NEW r \in Reader, WriteSeen(r)
  PROVE  Stamped' /\ Follows'
<1> DEFINE c == rd[r].for
           h == Wrote(rd[r], c)
<1>1. rd[r].pc = "write" /\ rd' = [rd EXCEPT ![r] = h]
      /\ UNCHANGED <<now, proc, execs, asks, carried, lost, taken>>
  BY DEF WriteSeen, Wrote, kernel
<1>2. rd[r] \in Holding /\ c \in Program /\ lock = r
  BY <1>1, Steady DEF Typed
<1>3. h.execs = rd[r].execs /\ h.asks = rd[r].asks
  BY <1>2, WroteIs
<1>4. rd[r].execs = <<>> /\ rd[r].asks = <<>>
  BY <1>1 DEF Shape, Held
<1> HIDE DEF h
<1> QED
  BY <1>1, <1>2, <1>3, <1>4, FollowsEmpty

LEMMA FollowsFinish ==
  ASSUME Typed, Shape, Stamped, Follows, NEW r \in Reader, Finish(r)
  PROVE  Stamped' /\ Follows'
<1>1. rd[r].pc = "add" /\ rd' = [rd EXCEPT ![r] = Idle]
      /\ UNCHANGED <<now, proc, execs, asks, carried, lost, taken>>
  BY DEF Finish, kernel
<1>2. rd[r].execs = <<>> /\ rd[r].asks = <<>> /\ lock = r
  BY <1>1, Steady DEF Shape, Held
<1> QED
  BY <1>1, <1>2, IdleIs, FollowsEmpty


LEMMA FollowsInstall ==
  ASSUME Typed, Stamped, Follows, NEW c \in Renewed, Install(c)
  PROVE  Stamped' /\ Follows'
<1> DEFINE o(r) == {s \in rd[r].owed : s.prog # c}
<1>1. ASSUME NEW r \in Reader
      PROVE  rd'[r].execs = rd[r].execs /\ rd'[r].asks = rd[r].asks /\ rd'[r].pc = rd[r].pc /\ rd'[r].left = rd[r].left
  <2>1. rd[r] \in Holding /\ o(r) \in SUBSET Said
    BY Steady DEF Holding
  <2>2. rd'[r] = Owing(rd[r], o(r))
    BY DEF Install, Owing
  <2> HIDE DEF o
  <2> QED
    BY <2>1, <2>2, OwingIs
<1>2. UNCHANGED <<now, proc, asks, execs, carried, lost, taken>>
  BY DEF Install
<1>3. Pending' = Pending /\ Asks' = Asks
  BY <1>1, <1>2 DEF Pending, Asks, Had, HadAsks, Outs
<1>4. \A r \in Reader : Ahead(rd[r], ToSet(execs))'
  BY <1>1, <1>2 DEF Stamped, Ahead, BothTaken, Outs
<1>5. \A p \in Alive' : Born(proc'[p], now')
  BY <1>2 DEF Stamped, Alive
<1>6. Stamped'
  BY <1>2, <1>3, <1>4, <1>5 DEF Stamped, Fits, Distinct, Born
<1>7. Follows'
  BY <1>2, <1>3, FollowsNext DEF Follows
<1> QED
  BY <1>6, <1>7

LEMMA FollowsKill ==
  ASSUME Typed, Shape, Stamped, Follows, NEW r \in Reader, Kill(r)
  PROVE  Stamped' /\ Follows'
<1>1. /\ rd[r].pc # "idle" /\ rd' = [rd EXCEPT ![r] = Idle] /\ lock = r
      /\ now' = now /\ proc' = proc /\ execs' = execs /\ asks' = asks /\ taken' = taken
  BY Steady DEF Kill, kernel
<1>2. /\ Pending = ToSet(execs) \cup ToSet(rd[r].execs) /\ Asks = Outs(asks) \cup Outs(rd[r].asks)
      /\ Pending' = ToSet(execs) /\ Asks' = Outs(asks)
  <2>1. Had' = {} /\ HadAsks' = {} /\ Had = ToSet(rd[r].execs) /\ HadAsks = Outs(rd[r].asks)
    BY <1>1, IdleIs, NoneIs, OnlyIs
  <2> QED
    BY <1>1, <2>1 DEF Pending, Asks, Outs
<1> DEFINE F == ToSet(execs)
           A == Outs(asks)
<1>3. F \in SUBSET Pending /\ A \in SUBSET Asks /\ Pending \in SUBSET Event /\ Asks \in SUBSET OutEvent /\ A \in SUBSET OutEvent
  BY <1>2, PendingTyped
<1>4. now \in Nat /\ Ahead(Idle, ToSet(execs'))
  BY Steady, IdleIs, NoneIs DEF Ahead
<1>5. ASSUME lost' \subseteq 1..now PROVE Stamped'
  BY <1>1, <1>2, <1>3, <1>4, <1>5, ReaderStamped
<1>6. AsksNow(A, proc)
  BY <1>3 DEF Follows, AsksNow
<1>7. CASE lost' = lost \cup {e.at : e \in ToSet(rd[r].execs)} /\ carried' = carried
  <2>1. lost' \subseteq 1..now
    BY <1>2, <1>7 DEF Stamped, Fits
  <2>2. /\ ToldNow(F, carried, lost', now, proc) /\ ToldAt(F, carried, lost')
        /\ ToldAsks(F, Asks, carried, lost', taken) /\ Argued(F, lost')
    <3>1. lost \subseteq lost' /\ \A e \in Pending \ F : e.at \in lost'
      BY <1>2, <1>7
    <3> HIDE DEF F
    <3> QED
      BY <1>3, <1>4, <3>1, DropsAll DEF Follows, Stamped
  <2>3. ToldAsks(F, A, carried, lost', taken)
    BY <1>3, <2>2 DEF ToldAsks
  <2>4. KnownBuilt(carried)
    BY DEF Follows
  <2>5. Follows'
    <3> HIDE DEF F, A
    <3>1. Pending' = F /\ Asks' = A
      BY <1>2 DEF F, A
    <3> QED
      BY <1>1, <1>6, <1>7, <2>2, <2>3, <2>4, <3>1, FollowsNext
  <2> QED
    BY <1>5, <2>1, <2>5
<1>8. CASE carried' = [known |-> Strangers, built |-> {}] /\ lost' = 1..now
  <2> DEFINE d == [known |-> Strangers, built |-> {}]
  <2>1. lost \in SUBSET (1..now) /\ d.built = {}
    BY DEF Stamped
  <2>2. ASSUME NEW p \in Pid, NEW t \in Nat, NEW prog, NEW build, NEW line \in SUBSET (1..now),
               Tells(Pending, carried, lost, p, t, prog, build, line)
        PROVE  Tells(F, d, 1..now, p, t, prog, build, line)
    <3> HIDE DEF F
    <3> QED
      BY <1>3, <1>4, <2>1, <2>2, Forgets
  <2> HIDE DEF d
  <2>3. ToldNow(F, d, 1..now, now, proc)
    <3> SUFFICES ASSUME NEW p \in Pid, proc[p] # Nobody
                 PROVE  /\ Tells(F, d, 1..now, p, now + 1, proc[p].prog, proc[p].build, proc[p].line)
                        /\ Marks(F, d, 1..now, p, now + 1, proc[p].build, proc[p].line)
      BY DEF ToldNow
    <3>1. p \in Alive /\ now + 1 \in Nat
      BY <1>4 DEF Alive
    <3>2. Born(proc[p], now)
      BY <3>1 DEF Stamped
    <3>3. proc[p].line \in SUBSET (1..now)
      BY <3>2 DEF Born
    <3>4. Tells(Pending, carried, lost, p, now + 1, proc[p].prog, proc[p].build, proc[p].line)
      BY DEF Follows, ToldNow
    <3>5. Tells(F, d, 1..now, p, now + 1, proc[p].prog, proc[p].build, proc[p].line)
      BY <2>2, <3>1, <3>3, <3>4
    <3>6. Marks(F, d, 1..now, p, now + 1, proc[p].build, proc[p].line)
      <4>1. proc[p].build => proc[p].line \cap 1..now # {}
        BY <3>2, <3>3 DEF Born
      <4> QED
        BY <4>1 DEF Marks
    <3> QED
      BY <3>5, <3>6
  <2>4. ToldAt(F, d, 1..now)
    <3> SUFFICES ASSUME NEW e \in F
                 PROVE  Tells(F, d, 1..now, e.pid, e.at, e.by, e.build, e.line) /\ Marks(F, d, 1..now, e.pid, e.at, e.build, Line(e))
      BY DEF ToldAt
    <3>1. e \in Pending /\ e.pid \in Pid /\ e.at \in Nat /\ e.at \in Line(e)
      BY <1>3, EventIs
    <3>2. e.at \in 1..now /\ e.line \in SUBSET (1..now)
      BY <3>1 DEF Stamped, Fits
    <3>3. Tells(Pending, carried, lost, e.pid, e.at, e.by, e.build, e.line)
      BY <3>1 DEF Follows, ToldAt
    <3>4. Tells(F, d, 1..now, e.pid, e.at, e.by, e.build, e.line)
      BY <2>2, <3>1, <3>2, <3>3
    <3>5. Line(e) \cap 1..now # {}
      BY <3>1, <3>2
    <3> QED
      BY <3>4, <3>5 DEF Marks
  <2>5. ToldAsks(F, A, d, 1..now, taken)
    <3> SUFFICES ASSUME NEW a \in A, taken[a.pid] <= a.at PROVE Tells(F, d, 1..now, a.pid, a.at, a.by, FALSE, a.line)
      BY DEF ToldAsks
    <3>1. a \in Asks /\ a.pid \in Pid /\ a.at \in Nat
      BY <1>3 DEF OutEvent
    <3>2. a.line \in SUBSET (1..now)
      BY <3>1 DEF Stamped, Fits
    <3>3. Tells(Pending, carried, lost, a.pid, a.at, a.by, FALSE, a.line)
      BY <3>1 DEF Follows, ToldAsks
    <3> QED
      BY <2>2, <3>1, <3>2, <3>3
  <2>6. KnownBuilt(d) /\ Argued(F, 1..now)
    <3>1. \A e \in F : e.at \in 1..now
      BY <1>3 DEF Stamped, Fits
    <3> QED
      BY <1>3, <2>1, <3>1 DEF Follows, KnownBuilt, Argued
  <2>7. Follows'
    <3> HIDE DEF F, A
    <3>1. Pending' = F /\ Asks' = A /\ carried' = d
      BY <1>2, <1>8 DEF F, A, d
    <3> DEFINE l == 1..now
    <3>2. lost' = l /\ ToldNow(F, d, l, now, proc) /\ ToldAt(F, d, l) /\ ToldAsks(F, A, d, l, taken) /\ Argued(F, l)
      BY <1>8, <2>3, <2>4, <2>5, <2>6
    <3> HIDE DEF l
    <3> QED
      BY <1>1, <1>6, <2>6, <3>1, <3>2, FollowsNext
  <2> QED
    BY <1>5, <1>8, <2>7
<1>9. CASE rd[r].pc = "write" /\ carried' = carried /\ lost' = lost
  <2>1. rd[r].execs = <<>> /\ rd[r].asks = <<>>
    BY <1>9 DEF Shape, Held
  <2> QED
    BY <1>1, <1>9, <2>1, IdleIs, FollowsEmpty
<1> QED
  BY <1>7, <1>8, <1>9 DEF Kill


----------------------------------------------------------------------------
(* A walk. *)

\* a dlopen a read has is the return it saw
From(a, b) == a.at = b.at /\ a.pid = b.pid /\ a.lib = b.lib /\ a.by = b.by /\ a.line = b.line

LEMMA PairFrom ==
  ASSUME NEW st \in PairState, NEW e \in Probe, NEW a \in Pair(st, e).out, a \notin st.out
  PROVE  e.what = "out" /\ From(a, e) /\ st.open[e.pid] # <<>> /\ a.name = Last(st.open[e.pid])
<1>1. e.pid \in Pid
  BY DEF Probe, InEvent, OutEvent
<1>2. CASE e.what = "in"
  <2>1. Pair(st, e) = [st EXCEPT !.open[e.pid] = Append(@, e.lib)]
    BY <1>2 DEF Pair
  <2>2. Pair(st, e).out = st.out
    BY <2>1 DEF PairState
  <2> QED
    BY <2>2
<1>3. CASE e.what # "in"
  <2>1. e.what = "out"
    BY <1>3 DEF Probe, InEvent, OutEvent
  <2>2. st.open[e.pid] # <<>>
    BY <1>3 DEF Pair
  <2> DEFINE b == [what |-> "asked", at |-> e.at, pid |-> e.pid, name |-> Last(st.open[e.pid]), ok |-> e.ok,
                   lib |-> e.lib, by |-> e.by, line |-> e.line]
  <2>3. Pair(st, e).out = st.out \cup {b}
    BY <1>3, <2>2 DEF Pair
  <2>4. a = b
    BY <2>3
  <2> QED
    BY <2>1, <2>2, <2>4 DEF From
<1> QED
  BY <1>2, <1>3

LEMMA TracedFrom ==
  ASSUME NEW es \in Seq(Probe), NEW a \in TraceEvents(es)
  PROVE  \E b \in Outs(es) : From(a, b)
<1>1. PICK f : Pairs(f, es) /\ Paired(es) = f[Len(es)]
  BY PairedIs
<1> DEFINE P == {i \in 0..Len(es) : \A x \in f[i].out : \E b \in Outs(es) : From(x, b)}
<1>2. 0 \in P
  <2>1. f[0].out = {}
    BY <1>1 DEF Pairs, Unpaired
  <2> QED
    BY <2>1
<1>3. ASSUME NEW i \in 1..Len(es), i - 1 \in P PROVE i \in P
  <2>1. /\ f[i] = Pair(f[i - 1], es[i]) /\ f[i - 1] \in PairState /\ es[i] \in Probe /\ es[i] \in ToSet(es)
        /\ i \in 0..Len(es)
    BY <1>1 DEF Pairs, ToSet
  <2>2. ASSUME NEW x \in f[i].out PROVE \E b \in Outs(es) : From(x, b)
    <3>1. CASE x \in f[i - 1].out
      BY <1>3, <3>1
    <3>2. CASE x \notin f[i - 1].out
      <4>1. es[i].what = "out" /\ From(x, es[i])
        BY <2>1, <2>2, <3>2, PairFrom
      <4> QED
        BY <2>1, <4>1 DEF Outs
    <3> QED
      BY <3>1, <3>2
  <2> QED
    BY <2>1, <2>2
<1>4. P = 0..Len(es)
  <2>1. P \in SUBSET (0..Len(es)) /\ Len(es) \in Nat
    OBVIOUS
  <2> HIDE DEF P
  <2> QED
    BY <1>2, <1>3, <2>1, UpTo
<1>5. Len(es) \in P
  BY <1>4
<1> QED
  BY <1>1, <1>5 DEF TraceEvents

\* what comes after t says nothing of it
LEMMA Before ==
  ASSUME NEW E, NEW R \in SUBSET E, NEW c, NEW l, NEW p, NEW t, \A f \in E : f \in R \/ ~(f.at < t),
         NEW prog, NEW build, NEW line, NEW more
  PROVE  /\ Tells(E, c, l, p, t, prog, build, line) => Tells(R, c, l, p, t, prog, build, line)
         /\ Marks(E, c, l, p, t, build, more) => Marks(R, c, l, p, t, build, more)
<1>1. Of(E, p, t) = Of(R, p, t)
  BY DEF Of
<1> QED
  BY <1>1 DEF Tells, Marks, Latest

\* a read that has R of what is pending and the dlopens es, and of the rest nothing is before them
LEMMA ReadsOf ==
  ASSUME Typed, Stamped, Follows, NEW R \in SUBSET Pending, NEW es \in Seq(Probe), Outs(es) \subseteq Asks,
         Named(TraceEvents(es)),
         \A f \in Pending : f \in R \/ ((\A e \in R : ~(f.at < e.at)) /\ \A b \in Outs(es) : ~(f.at < b.at))
  PROVE  Reads(R, TraceEvents(es), carried)
<1> DEFINE Q == TraceEvents(es)
<1>1. R \in SUBSET Event /\ Q \in SUBSET Asking /\ carried \in Carry
  BY PendingTyped, TraceEventsTyped, Steady
<1>2. ASSUME NEW a \in Q PROVE \E b \in Asks : From(a, b) /\ \A f \in Pending : f \in R \/ ~(f.at < a.at)
  <2>1. PICK b \in Outs(es) : From(a, b)
    BY TracedFrom
  <2> QED
    BY <2>1 DEF From
<1>7. Distinct(R) /\ KnownBuilt(carried) /\ Argued(R, lost) /\ \A a \in Q : a.name = a.lib
  <2>1. Distinct(R)
    BY DEF Distinct, Stamped
  <2>2. KnownBuilt(carried) /\ Argued(R, lost)
    BY DEF Follows, Argued
  <2> QED
    BY <2>1, <2>2 DEF Named
<1>8. \A a \in Q, e \in R : a.at # e.at
  <2> SUFFICES ASSUME NEW a \in Q, NEW e \in R PROVE a.at # e.at
    OBVIOUS
  <2>1. PICK b \in Asks : From(a, b)
    BY <1>2
  <2> QED
    BY <2>1 DEF Stamped, From
<1>9. ToldAt(R, carried, lost)
  <2> SUFFICES ASSUME NEW e \in R
               PROVE  Tells(R, carried, lost, e.pid, e.at, e.by, e.build, e.line) /\ Marks(R, carried, lost, e.pid, e.at, e.build, Line(e))
    BY DEF ToldAt
  <2>1. \A f \in Pending : f \in R \/ ~(f.at < e.at)
    OBVIOUS
  <2>2. Tells(Pending, carried, lost, e.pid, e.at, e.by, e.build, e.line) /\ Marks(Pending, carried, lost, e.pid, e.at, e.build, Line(e))
    BY DEF Follows, ToldAt
  <2> QED
    BY <2>1, <2>2, Before
<1>10. \A a \in Q : taken[a.pid] <= a.at => Tells(R, carried, lost, a.pid, a.at, a.by, FALSE, a.line)
  <2> SUFFICES ASSUME NEW a \in Q, taken[a.pid] <= a.at PROVE Tells(R, carried, lost, a.pid, a.at, a.by, FALSE, a.line)
    OBVIOUS
  <2>1. PICK b \in Asks : From(a, b) /\ \A f \in Pending : f \in R \/ ~(f.at < a.at)
    BY <1>2
  <2>2. Tells(Pending, carried, lost, a.pid, a.at, a.by, FALSE, a.line)
    BY <2>1 DEF Follows, ToldAsks, From
  <2> HIDE DEF Q
  <2>4. ASSUME NEW build, Tells(Pending, carried, lost, a.pid, a.at, a.by, build, a.line)
        PROVE  Tells(R, carried, lost, a.pid, a.at, a.by, build, a.line)
    BY <2>1, <2>4, Before
  <2> QED
    BY <2>2, <2>4
<1>11. \A a \in Q : a.pid \in Alive /\ proc[a.pid].start <= a.at /\ proc[a.pid].ran <= a.at => proc[a.pid].prog = a.by
  <2> SUFFICES ASSUME NEW a \in Q, a.pid \in Alive, proc[a.pid].start <= a.at, proc[a.pid].ran <= a.at
               PROVE  proc[a.pid].prog = a.by
    OBVIOUS
  <2>1. PICK b \in Asks : From(a, b)
    BY <1>2
  <2> QED
    BY <2>1 DEF Follows, AsksNow, From, Alive
<1> HIDE DEF Q
<1>12. Reads(R, Q, carried)
  BY <1>1, <1>7, <1>8, <1>9, <1>10, <1>11 DEF Reads
<1> QED
  BY <1>12 DEF Q

LEMMA WalkReads ==
  ASSUME Typed, Shape, Stamped, Follows, Calling, NEW r \in Reader, rd[r].pc = "walk"
  PROVE  Reads(ToSet(rd[r].execs), TraceEvents(rd[r].asks), carried)
<1> DEFINE R == ToSet(rd[r].execs)
           es == rd[r].asks
<1>1. rd[r].execs \in Seq(Event) /\ es \in Seq(Probe) /\ lock = r
  BY Steady DEF Typed, Holding
<1>2. Pending = ToSet(execs) \cup R /\ Asks = Outs(asks) \cup Outs(es)
  BY <1>1, OnlyIs DEF Pending, Asks
<1>3. R \in SUBSET Pending /\ Outs(es) \subseteq Asks /\ Named(TraceEvents(es))
  BY <1>2 DEF Calling
<1>4. Ahead(rd[r], ToSet(execs)) /\ BothTaken(rd[r])
  BY DEF Stamped, BothTaken
<1>5. ASSUME NEW f \in ToSet(execs) PROVE (\A e \in R : ~(f.at < e.at)) /\ \A b \in Outs(es) : ~(f.at < b.at)
  <2>1. (\A e \in R : e.at < f.at) /\ \A b \in Outs(es) : b.at < f.at
    BY <1>4 DEF Ahead
  <2>2. f \in Event /\ (\A e \in R : e \in Event) /\ \A b \in Outs(es) : b \in OutEvent
    BY <1>2, PendingTyped
  <2>3. f.at \in Nat /\ (\A e \in R : e.at \in Nat) /\ \A b \in Outs(es) : b.at \in Nat
    BY <2>2, EventIs DEF OutEvent
  <2> QED
    BY <2>1, <2>3
<1> HIDE DEF R, es
<1>6. \A f \in Pending : f \in R \/ ((\A e \in R : ~(f.at < e.at)) /\ \A b \in Outs(es) : ~(f.at < b.at))
  BY <1>2, <1>5
<1>7. Reads(R, TraceEvents(es), carried)
  BY <1>1, <1>3, <1>6, ReadsOf
<1> QED
  BY <1>7 DEF R, es

\* and a read of both buffers at once
LEMMA BothReads ==
  ASSUME Typed, Shape, Stamped, Follows, Calling, NEW r \in Reader, rd[r].pc = "idle", lock = Nobody
  PROVE  Reads(ToSet(execs), TraceEvents(asks), carried) /\ Pending = ToSet(execs) /\ Asks = Outs(asks)
<1>1. Pending = ToSet(execs) /\ Asks = Outs(asks)
  <2>1. rd[r].execs = <<>> /\ rd[r].asks = <<>>
    BY DEF Shape, Held
  <2> QED
    BY <2>1, NoneIs, OnlyIs DEF Pending, Asks
<1>2. asks \in Seq(Probe) /\ Named(TraceEvents(asks))
  BY Steady DEF Calling
<1> QED
  BY <1>1, <1>2, ReadsOf


\* what counts of what a read says
Rights == \A r \in Reader : \A s \in rd[r].found : Counts(s) /\ Right(s)

LEMMA FollowsWalk ==
  ASSUME Typed, Shape, Stamped, Follows, Calling, NEW r \in Reader, Walk(r)
  PROVE  Stamped' /\ Follows' /\ \A s \in rd'[r].found : Counts(s) /\ Right(s)
<1> DEFINE R == ToSet(rd[r].execs)
           Q == TraceEvents(rd[r].asks)
           F == ToSet(execs)
           A == Outs(asks)
           end == Lineage(R \cup Q, carried)
           S(p) == {taken[p]} \cup {e.at : e \in {f \in R : p = IF f.what = "fork" THEN f.child ELSE f.pid}}
<1>0. /\ rd'[r] \in Holding /\ rd'[r].asks = <<>> /\ rd'[r].execs = <<>> /\ rd' = [rd EXCEPT ![r] = rd'[r]]
      /\ rd'[r].found = {s \in end.said : Counts(s)} /\ lock = r /\ rd[r].execs \in Seq(Event)
  BY WalkHolds
<1>1. /\ rd[r].pc = "walk" /\ UNCHANGED <<now, proc, execs, asks>>
      /\ taken' = [p \in Pid |-> Max(S(p))]
      /\ lost' = lost \cup {e.at : e \in {f \in F : f.build /\ f.pid \notin Alive}}
  BY DEF Walk, kernel
<1>2. /\ Pending = F \cup R /\ Asks = A \cup Outs(rd[r].asks)
      /\ Pending' = F /\ Asks' = A
  <2>1. Had = R /\ HadAsks = Outs(rd[r].asks) /\ Had' = {} /\ HadAsks' = {}
    <3> DEFINE h == rd'[r]
    <3>1. rd' = [rd EXCEPT ![r] = h] /\ h.asks = <<>> /\ h.execs = <<>> /\ lock \in {r, Nobody}
      BY <1>0
    <3> HIDE DEF h
    <3> QED
      BY <3>1, NoneIs, OnlyIs
  <2> QED
    BY <1>1, <2>1 DEF Pending, Asks, Outs
<1>3. Reads(R, Q, carried)
  BY <1>1, WalkReads
<1>4. Procs /\ now \in Nat
  BY Steady DEF Typed, Procs
<1>5. Ahead(rd[r], F) /\ \A e \in Pending : e.at \in 1..now
  BY DEF Stamped, Fits
<1>6. R \in SUBSET Event /\ F \in SUBSET Event /\ A \in SUBSET OutEvent /\ F \in SUBSET Pending /\ R \in SUBSET Pending
      /\ A \in SUBSET Asks /\ Asks \in SUBSET OutEvent
  BY <1>2, PendingTyped
<1>7. Knows(end, R, carried, now + 1) /\ end \in LinState
  <2>1. \A e \in R : 1 <= e.at
    BY <1>5, <1>6
  <2> HIDE DEF R, Q
  <2> QED
    BY <1>3, <1>4, <2>1, WalkKnows
<1>8. Carries(carried', end) /\ KnownBuilt(carried')
  <2>1. carried' = [known |-> [p \in Pid |-> IF p \in Alive THEN end.known[p] ELSE Nobody],
                    built |-> {p \in end.built : p \in Alive /\ end.known[p] # Nobody}]
    BY DEF Walk
  <2>2. end.built \subseteq Pid
    BY <1>7 DEF LinState
  <2> HIDE DEF end
  <2>3. /\ carried'.known = [p \in Pid |-> IF p \in Alive THEN end.known[p] ELSE Nobody]
        /\ carried'.built = {p \in end.built : p \in Alive /\ end.known[p] # Nobody}
    BY <2>1
  <2> QED
    BY <2>2, <2>3 DEF Carries, KnownBuilt
<1> HIDE DEF end
<1>9. ASSUME NEW p \in Pid
      PROVE  /\ taken[p] <= taken'[p] /\ taken'[p] \in Nat
             /\ \A e \in R : Subject(e) = p => e.at <= taken'[p]
  <2>1. taken[p] \in 0..now
    BY Steady
  <2>2. \A e \in R : e.at \in 0..now
    BY <1>5, <1>6
  <2>3. S(p) \in SUBSET (0..now) /\ S(p) # {} /\ taken[p] \in S(p) /\ \A e \in R : Subject(e) = p => e.at \in S(p)
    BY <2>1, <2>2 DEF Subject
  <2>4. taken'[p] = Max(S(p))
    BY <1>1
  <2> HIDE DEF S
  <2>5. Max(S(p)) \in S(p) /\ \A y \in S(p) : y <= Max(S(p))
    BY <1>4, <2>3, MaxIs
  <2> QED
    BY <2>3, <2>4, <2>5
<1> HIDE DEF S
<1>10. Passes(Pending, R, Q, carried, F, now, end, carried', lost')
  <2>1. \A e \in R, f \in F : e.at < f.at
    BY <1>5 DEF Ahead
  <2>2. \A e \in R : e.at <= now
    BY <1>5, <1>6
  <2>3. lost \subseteq lost' /\ Pending = R \cup F
    BY <1>1, <1>2
  <2> HIDE DEF R, Q, F
  <2> QED
    BY <1>3, <1>4, <1>6, <1>7, <1>8, <2>1, <2>2, <2>3 DEF Passes
<1>11. ToldNow(F, carried', lost', now, proc) /\ ToldAt(F, carried', lost') /\ ToldAsks(F, A, carried', lost', taken')
  <2>1. \A f \in F : f.build /\ f.pid \notin Alive => f.at \in lost'
    BY <1>1
  <2>2. \A a \in A, e \in R : a.at # e.at
    BY <1>6 DEF Stamped
  <2>3. \A a \in A : a.pid \in Pid
    BY <1>6 DEF OutEvent
  <2>4. /\ \A a \in A : taken[a.pid] <= taken'[a.pid] /\ taken'[a.pid] \in Nat
        /\ \A a \in A, e \in R : Subject(e) = a.pid => e.at <= taken'[a.pid]
    BY <1>9, <2>3
  <2>5. ToldNow(Pending, carried, lost, now, proc) /\ ToldAt(Pending, carried, lost)
        /\ ToldAsks(Pending, A, carried, lost, taken)
    BY <1>6 DEF Follows, ToldAsks
  <2> HIDE DEF R, Q, F, A
  <2> QED
    BY <1>4, <1>6, <1>10, <2>1, <2>2, <2>4, <2>5, WalkAll
<1>12. AsksNow(A, proc) /\ Argued(F, lost')
  BY <1>1, <1>6 DEF Follows, AsksNow, Argued
<1>13. Follows'
  <2> HIDE DEF F, A
  <2>1. now' = now /\ proc' = proc /\ Pending' = F /\ Asks' = A
    BY <1>1, <1>2
  <2> QED
    BY <1>8, <1>11, <1>12, <2>1, FollowsNext
<1>14. Stamped'
  <2> DEFINE h == rd'[r]
  <2>1. rd' = [rd EXCEPT ![r] = h] /\ h.asks = <<>> /\ h.execs = <<>>
    BY <1>0
  <2> HIDE DEF h
  <2>2. Ahead(h, ToSet(execs'))
    BY <2>1, NoneIs DEF Ahead
  <2>3. lost' \subseteq 1..now
    BY <1>1, <1>5, <1>6 DEF Stamped
  <2>4. Pending' \subseteq Pending /\ Asks' \subseteq Asks /\ ToSet(execs') \subseteq ToSet(execs)
    BY <1>1, <1>2
  <2> QED
    BY <1>1, <2>1, <2>2, <2>3, <2>4, ReaderStamped
<1>15. \A s \in rd'[r].found : Counts(s) /\ Right(s)
  BY <1>0, <1>7 DEF Knows
<1> QED
  BY <1>13, <1>14, <1>15


----------------------------------------------------------------------------
(* The calls under way and the calls the buffer has open. *)

LEMMA PairOpen ==
  ASSUME NEW st \in PairState, NEW e \in Probe
  PROVE  /\ e.pid \in Pid /\ Pair(st, e).open \in [Pid -> Seq(Lib)]
         /\ \A s \in Pid : s # e.pid => Pair(st, e).open[s] = st.open[s]
         /\ e.what = "in" => Pair(st, e).open[e.pid] = Append(st.open[e.pid], e.lib)
         /\ e.what = "out" /\ st.open[e.pid] = <<>> => Pair(st, e).open[e.pid] = <<>>
         /\ e.what = "out" /\ st.open[e.pid] # <<>> => Pair(st, e).open[e.pid] = Front(st.open[e.pid])
<1>1. e.pid \in Pid /\ st.open \in [Pid -> Seq(Lib)]
  BY DEF Probe, InEvent, OutEvent, PairState
<1>2. Pair(st, e).open \in [Pid -> Seq(Lib)]
  BY PairTyped DEF PairState
<1>3. CASE e.what = "in"
  <2>1. Pair(st, e) = [st EXCEPT !.open[e.pid] = Append(@, e.lib)]
    BY <1>3 DEF Pair
  <2>2. Pair(st, e).open = [st.open EXCEPT ![e.pid] = Append(st.open[e.pid], e.lib)]
    BY <2>1 DEF PairState
  <2> QED
    BY <1>1, <1>2, <1>3, <2>2
<1>4. CASE e.what # "in" /\ st.open[e.pid] = <<>>
  <2>1. Pair(st, e) = st
    BY <1>4 DEF Pair
  <2> QED
    BY <1>1, <1>2, <1>4, <2>1
<1>5. CASE e.what # "in" /\ st.open[e.pid] # <<>>
  <2>1. Pair(st, e).open = [st.open EXCEPT ![e.pid] = Front(st.open[e.pid])]
    BY <1>5 DEF Pair
  <2> QED
    BY <1>1, <1>2, <1>5, <2>1
<1> QED
  BY <1>3, <1>4, <1>5

Call == [lib : Lib, on : BOOLEAN]

LEMMA QuietIs ==
  ASSUME NEW c \in Calls, Quiet(c)
  PROVE  Mounts(c) /\ \A o : Agree(o, c)
<1>1. ASSUME NEW i \in 0..(Len(c) - 1) PROVE ~Ons(c, i)
  <2>1. 0 \in 0..i /\ Len(c) - 0 \in DOMAIN c
    BY DEF Calls
  <2> QED
    BY <2>1 DEF Ons, Quiet
<1> QED
  BY <1>1 DEF Agree, Quiet, Mounts

LEMMA FrontIs ==
  ASSUME NEW S, NEW s \in Seq(S), s # <<>>
  PROVE  /\ Front(s) \in Seq(S) /\ Len(Front(s)) = Len(s) - 1 /\ Len(s) \in Nat \ {0}
         /\ Last(s) = s[Len(s)] /\ Last(s) \in S
         /\ \A i \in 1..(Len(s) - 1) : Front(s)[i] = s[i]
<1>1. Len(s) \in Nat \ {0} /\ s[Len(s)] \in S /\ Last(s) = s[Len(s)]
  BY DEF Last
<1>2. Front(s) = SubSeq(s, 1, Len(s) - 1)
  BY DEF Front
<1>3. Front(s) \in Seq(S)
  BY <1>1, <1>2
<1>4. Len(Front(s)) = Len(s) - 1
  <2> DEFINE n == Len(s) - 1
  <2>1. n \in Nat /\ n <= Len(s)
    BY <1>1
  <2> HIDE DEF n
  <2>2. Len(SubSeq(s, 1, n)) = n
    <3>1. CASE n = 0
      BY <3>1
    <3>2. CASE n # 0
      BY <2>1, <3>2
    <3> QED
      BY <3>1, <3>2
  <2> QED
    BY <1>2, <2>2 DEF n
<1>5. \A i \in 1..(Len(s) - 1) : Front(s)[i] = s[i]
  BY <1>1, <1>2
<1> QED
  BY <1>1, <1>3, <1>4, <1>5

LEMMA CallEnter ==
  ASSUME NEW c \in Calls, NEW x \in Call
  PROVE  /\ Quiet(c) /\ ~x.on => Quiet(Append(c, x))
         /\ x.on /\ Mounts(c) => Mounts(Append(c, x))
         /\ \A o \in Seq(Lib) : Agree(o, c) => Agree(Append(o, x.lib), Append(c, x))
<1> DEFINE d == Append(c, x)
<1>1. /\ d \in Seq(Call) /\ Len(c) \in Nat /\ Len(d) = Len(c) + 1 /\ d[Len(c) + 1] = x
      /\ \A i \in 1..Len(c) : d[i] = c[i]
  <2>1. c \in Seq(Call)
    BY DEF Calls, Call
  <2> HIDE DEF Call
  <2> QED
    BY <2>1
<1>2. DOMAIN d = 1..(Len(c) + 1) /\ DOMAIN c = 1..Len(c)
  BY <1>1 DEF Calls
<1> HIDE DEF d
<1>3. Quiet(c) /\ ~x.on => Quiet(d)
  BY <1>1, <1>2 DEF Quiet
<1>4. x.on /\ Mounts(c) => Mounts(d)
  <2> SUFFICES ASSUME x.on, Mounts(c), NEW i \in DOMAIN d, NEW j \in DOMAIN d, i < j, d[i].on PROVE d[j].on
    BY DEF Mounts
  <2>1. CASE j = Len(c) + 1
    BY <1>1, <2>1
  <2>2. CASE j # Len(c) + 1
    <3>1. i \in 1..Len(c) /\ j \in 1..Len(c)
      BY <1>1, <1>2, <2>2
    <3> QED
      BY <1>1, <1>2, <3>1 DEF Mounts
  <2> QED
    BY <2>1, <2>2
<1>5. ASSUME NEW o \in Seq(Lib), Agree(o, c) PROVE Agree(Append(o, x.lib), d)
  <2> DEFINE q == Append(o, x.lib)
  <2>1. /\ Len(o) \in Nat /\ Len(q) = Len(o) + 1 /\ q[Len(o) + 1] = x.lib
        /\ \A i \in 1..Len(o) : q[i] = o[i]
    BY DEF Call
  <2> HIDE DEF q
  <2> SUFFICES ASSUME NEW i \in 0..(Len(d) - 1), i < Len(q), Ons(d, i) PROVE q[Len(q) - i] = d[Len(d) - i].lib
    BY DEF Agree, q
  <2>2. CASE i = 0
    BY <1>1, <2>1, <2>2
  <2>3. CASE i # 0
    <3>1. i - 1 \in 0..(Len(c) - 1) /\ i - 1 < Len(o) /\ i \in Nat
      BY <1>1, <2>1, <2>3
    <3>2. Ons(c, i - 1)
      <4> SUFFICES ASSUME NEW j \in 0..(i - 1) PROVE c[Len(c) - j].on
        BY DEF Ons
      <4>1. j + 1 \in 0..i /\ Len(c) - j \in 1..Len(c) /\ Len(d) - (j + 1) = Len(c) - j
        BY <1>1, <3>1
      <4> QED
        BY <1>1, <4>1 DEF Ons
    <3>3. o[Len(o) - (i - 1)] = c[Len(c) - (i - 1)].lib
      BY <1>5, <3>1, <3>2 DEF Agree
    <3>4. /\ Len(q) - i = Len(o) - (i - 1) /\ Len(o) - (i - 1) \in 1..Len(o)
          /\ Len(d) - i = Len(c) - (i - 1) /\ Len(c) - (i - 1) \in 1..Len(c)
      BY <1>1, <2>1, <3>1
    <3> QED
      BY <1>1, <2>1, <3>3, <3>4
  <2> QED
    BY <2>2, <2>3
<1> QED
  BY <1>3, <1>4, <1>5 DEF d

LEMMA CallReturn ==
  ASSUME NEW c \in Calls, c # <<>>
  PROVE  /\ Quiet(c) => Quiet(Front(c))
         /\ Mounts(c) => Mounts(Front(c))
         /\ Mounts(c) /\ ~Last(c).on => Quiet(c)
         /\ Agree(<<>>, Front(c))
         /\ \A o \in Seq(Lib) : o # <<>> /\ Last(c).on /\ Agree(o, c) => Last(o) = Last(c).lib /\ Agree(Front(o), Front(c))
<1> DEFINE d == Front(c)
<1>1. /\ d \in Seq(Call) /\ Len(d) = Len(c) - 1 /\ Len(c) \in Nat \ {0} /\ Last(c) = c[Len(c)]
      /\ \A i \in 1..(Len(c) - 1) : d[i] = c[i]
  <2>1. c \in Seq(Call)
    BY DEF Calls, Call
  <2> HIDE DEF Call
  <2> QED
    BY <2>1, FrontIs
<1>2. DOMAIN d = 1..(Len(c) - 1) /\ DOMAIN c = 1..Len(c) /\ DOMAIN d \subseteq DOMAIN c
  BY <1>1 DEF Calls
<1> HIDE DEF d
<1>3. Quiet(c) => Quiet(d)
  BY <1>1, <1>2 DEF Quiet
<1>4. Mounts(c) => Mounts(d)
  BY <1>1, <1>2 DEF Mounts
<1>5. Mounts(c) /\ ~Last(c).on => Quiet(c)
  <2> SUFFICES ASSUME Mounts(c), ~Last(c).on, NEW i \in DOMAIN c, c[i].on PROVE FALSE
    BY DEF Quiet
  <2>1. i = Len(c) \/ (i < Len(c) /\ Len(c) \in DOMAIN c)
    BY <1>1, <1>2
  <2> QED
    BY <1>1, <2>1 DEF Mounts
<1>6. Agree(<<>>, d)
  BY DEF Agree
<1>7. ASSUME NEW o \in Seq(Lib), o # <<>>, Last(c).on, Agree(o, c) PROVE Last(o) = Last(c).lib /\ Agree(Front(o), d)
  <2> DEFINE q == Front(o)
  <2>1. /\ Len(q) = Len(o) - 1 /\ Len(o) \in Nat \ {0} /\ Last(o) = o[Len(o)]
        /\ \A i \in 1..(Len(o) - 1) : q[i] = o[i]
    BY <1>7, FrontIs
  <2> HIDE DEF q
  <2>2. Last(o) = Last(c).lib
    <3>1. Ons(c, 0) /\ 0 \in 0..(Len(c) - 1) /\ 0 < Len(o) /\ Len(c) - 0 = Len(c) /\ Len(o) - 0 = Len(o)
      BY <1>1, <1>7, <2>1 DEF Ons
    <3>2. o[Len(o) - 0] = c[Len(c) - 0].lib
      BY <1>7, <3>1 DEF Agree
    <3> QED
      BY <1>1, <2>1, <3>1, <3>2
  <2>3. ASSUME NEW i \in 0..(Len(d) - 1), i < Len(q), Ons(d, i) PROVE q[Len(q) - i] = d[Len(d) - i].lib
    <3>1. i + 1 \in 0..(Len(c) - 1) /\ i + 1 < Len(o) /\ i \in Nat
      BY <1>1, <2>1, <2>3
    <3>2. Ons(c, i + 1)
      <4> SUFFICES ASSUME NEW j \in 0..(i + 1) PROVE c[Len(c) - j].on
        BY DEF Ons
      <4>1. CASE j = 0
        BY <1>1, <1>7, <4>1
      <4>2. CASE j # 0
        <5>1. j - 1 \in 0..i /\ Len(d) - (j - 1) = Len(c) - j /\ Len(c) - j \in 1..(Len(c) - 1)
          BY <1>1, <3>1, <4>2
        <5> QED
          BY <1>1, <2>3, <5>1 DEF Ons
      <4> QED
        BY <4>1, <4>2
    <3>3. o[Len(o) - (i + 1)] = c[Len(c) - (i + 1)].lib
      BY <1>7, <3>1, <3>2 DEF Agree
    <3>4. /\ Len(q) - i = Len(o) - (i + 1) /\ Len(o) - (i + 1) \in 1..(Len(o) - 1)
          /\ Len(d) - i = Len(c) - (i + 1) /\ Len(c) - (i + 1) \in 1..(Len(c) - 1)
      BY <1>1, <2>1, <3>1
    <3> QED
      BY <1>1, <2>1, <3>3, <3>4
  <2> QED
    BY <2>2, <2>3 DEF Agree, q
<1> QED
  BY <1>3, <1>4, <1>5, <1>6, <1>7 DEF d


LEMMA CallingNext ==
  ASSUME NEW a, asks' = a, \A p \in Alive' : CallsOf(proc'[p], Paired(a).open[p], libc', armed'),
         Named(TraceEvents(a)), \A r \in Reader : Named(TraceEvents(rd'[r].asks))
  PROVE  Calling'
<1>1. \A p \in Alive' : CallsOf(proc[p], Paired(asks).open[p], libc, armed)'
  BY DEF CallsOf
<1>2. Named(TraceEvents(asks))'
  BY DEF Named
<1>3. \A r \in Reader : Named(TraceEvents(rd[r].asks))'
  BY DEF Named
<1> QED
  BY <1>1, <1>2, <1>3 DEF Calling

LEMMA NamedNone == Named(TraceEvents(<<>>)) /\ \A p \in Pid : Paired(<<>>).open[p] = <<>>
BY PairedNone DEF Named, TraceEvents, Unpaired

LEMMA CallsNone == \A c \in Calls : Agree(<<>>, c)
BY DEF Agree, Calls

LEMMA CallsBegin == <<>> \in Calls /\ Quiet(<<>>) /\ \A q, o, lc, ar : q.calls = <<>> => CallsOf(q, o, lc, ar)
<1>1. <<>> \in Calls /\ Quiet(<<>>)
  BY DEF Calls, Quiet
<1> QED
  BY <1>1, QuietIs DEF CallsOf

LEMMA CallingInit == Init => Calling
<1> SUFFICES ASSUME Init PROVE Calling
  OBVIOUS
<1>1. \A p \in Alive : proc[p].calls = <<>>
  BY DEF Init, Alive
<1>2. asks = <<>> /\ \A r \in Reader : rd[r].asks = <<>>
  BY IdleIs DEF Init
<1> QED
  BY <1>1, <1>2, CallsBegin, NamedNone DEF Calling

\* the process of p is another, that calls nothing, or none
LEMMA CallingProc ==
  ASSUME Typed, Calling, NEW p \in Pid, NEW q, proc' = [proc EXCEPT ![p] = q], q = Nobody \/ q.calls = <<>>,
         UNCHANGED <<asks, libc, armed, rd>>
  PROVE  Calling'
<1>1. proc'[p] = q /\ \A s \in Pid : s # p => proc'[s] = proc[s]
  BY DEF Typed
<1>2. \A s \in Alive' : s \in Pid /\ proc'[s] # Nobody
  BY DEF Alive
<1>3. ASSUME NEW s \in Alive' PROVE CallsOf(proc'[s], Paired(asks).open[s], libc', armed')
  <2>1. CASE s = p
    BY <1>1, <1>2, <1>3, <2>1, CallsBegin
  <2>2. CASE s # p
    <3>1. proc'[s] = proc[s] /\ s \in Alive
      BY <1>1, <1>2, <1>3, <2>2 DEF Alive
    <3> QED
      BY <3>1 DEF Calling
  <2> QED
    BY <2>1, <2>2
<1>4. asks' = asks /\ rd' = rd
  OBVIOUS
<1> QED
  BY <1>3, <1>4, CallingNext DEF Calling

\* a call or a return of p
LEMMA CallingCall ==
  ASSUME Typed, Calling, NEW p \in Alive, NEW q, proc' = [proc EXCEPT ![p] = q], UNCHANGED <<libc, armed, rd>>,
         \A s \in Pid : s # p => Paired(asks').open[s] = Paired(asks).open[s],
         CallsOf(q, Paired(asks').open[p], libc, armed), Named(TraceEvents(asks'))
  PROVE  Calling'
<1>0. p \in Pid
  BY DEF Alive
<1>1. proc'[p] = q /\ \A s \in Pid : s # p => proc'[s] = proc[s]
  BY <1>0 DEF Typed
<1>2. \A s \in Alive' : s \in Pid /\ proc'[s] # Nobody
  BY DEF Alive
<1> DEFINE a == asks'
<1>3. ASSUME NEW s \in Alive' PROVE CallsOf(proc'[s], Paired(a).open[s], libc', armed')
  <2>1. CASE s = p
    BY <1>1, <2>1
  <2>2. CASE s # p
    <3>1. proc'[s] = proc[s] /\ s \in Alive /\ s \in Pid
      BY <1>1, <1>2, <1>3, <2>2 DEF Alive
    <3> QED
      BY <2>2, <3>1 DEF Calling
  <2> QED
    BY <2>1, <2>2
<1>4. \A r \in Reader : Named(TraceEvents(rd'[r].asks))
  BY DEF Calling
<1>5. asks' = a /\ Named(TraceEvents(a))
  OBVIOUS
<1> HIDE DEF a
<1> QED
  BY <1>3, <1>4, <1>5, CallingNext

LEMMA CallingEnter ==
  ASSUME Typed, Calling, NEW p \in Pid, NEW l \in Lib, Enter(p, l)
  PROVE  Calling'
<1>1. p \in Alive /\ proc[p] \in Process
  BY AliveIs DEF Enter, Typed, TypeOK, Procs
<1> DEFINE on == proc[p].libc = armed /\ ~proc[p].build
           x == [lib |-> l, on |-> on]
           c == Append(proc[p].calls, x)
           q == Into(proc[p], c)
           e == [what |-> "in", pid |-> p, lib |-> l]
           st == Paired(asks)
           o == st.open[p]
<1>2. proc[p].calls \in Calls /\ x \in Call /\ c \in Calls /\ x.lib = l /\ x.on = on
  BY <1>1 DEF Process, Calls, Call
<1>3. proc' = [proc EXCEPT ![p] = q] /\ asks' = (IF on THEN Append(asks, e) ELSE asks)
  BY DEF Enter, Into
<1>4. UNCHANGED <<libc, armed, rd>>
  BY DEF Enter
<1>5. e \in Probe /\ e.what = "in" /\ e.pid = p /\ e.lib = l /\ asks \in Seq(Probe)
  BY Steady DEF Probe, InEvent
<1> HIDE DEF e
<1>6. Paired(Append(asks, e)) = Pair(st, e) /\ st \in PairState
  BY <1>5, PairedAppend
<1>7. o \in Seq(Lib)
  BY <1>6 DEF PairState
<1> HIDE DEF st, o
<1>8. CallsOf(proc[p], o, libc, armed) /\ Named(st.out)
  BY <1>1 DEF Calling, TraceEvents, o, st
<1>9. q.calls = c /\ q.build = proc[p].build /\ q.libc = proc[p].libc
  BY <1>1, <1>2, IntoIs
<1> HIDE DEF q, x
<1>10. CASE on
  <2>1. /\ \A s \in Pid : s # p => Pair(st, e).open[s] = st.open[s]
        /\ Pair(st, e).open[p] = Append(o, l)
    BY <1>5, <1>6, PairOpen DEF o
  <2>2. Named(Pair(st, e).out)
    <3> SUFFICES ASSUME NEW a \in Pair(st, e).out PROVE a.name = a.lib
      BY DEF Named
    <3>1. a \in st.out
      BY <1>5, <1>6, PairFrom
    <3> QED
      BY <1>8, <3>1 DEF Named
  <2>3. asks' = Append(asks, e) /\ Paired(asks') = Pair(st, e) /\ TraceEvents(asks') = Pair(st, e).out
    BY <1>3, <1>6, <1>10 DEF TraceEvents
  <2>4. CallsOf(q, Append(o, l), libc, armed)
    <3>1. Agree(o, proc[p].calls) /\ Mounts(proc[p].calls)
      BY <1>8, <1>10 DEF CallsOf
    <3>2. x.on
      BY <1>2, <1>10
    <3>3. Agree(Append(o, l), c) /\ Mounts(c)
      BY <1>2, <1>7, <3>1, <3>2, CallEnter
    <3> QED
      BY <1>9, <1>10, <3>3 DEF CallsOf
  <2> QED
    BY <1>1, <1>3, <1>4, <2>1, <2>2, <2>3, <2>4, CallingCall DEF st
<1>11. CASE ~on
  <2>1. asks' = asks /\ Named(TraceEvents(asks'))
    BY <1>3, <1>8, <1>11 DEF TraceEvents, st
  <2>2. CallsOf(q, o, libc, armed)
    <3>1. (proc[p].build \/ (proc[p].libc = libc /\ armed # libc)) => Quiet(c)
      BY <1>2, <1>8, <1>11, CallEnter DEF CallsOf
    <3>2. proc[p].libc = armed => Agree(o, c) /\ Mounts(c)
      BY <1>2, <1>11, <3>1, QuietIs
    <3> QED
      BY <1>9, <3>1, <3>2 DEF CallsOf
  <2> QED
    BY <1>1, <1>3, <1>4, <2>1, <2>2, CallingCall DEF o, st
<1> QED
  BY <1>10, <1>11

LEMMA CallingReturn ==
  ASSUME Typed, Calling, NEW p \in Pid, NEW ok \in BOOLEAN, Return(p, ok)
  PROVE  Calling'
<1>1. p \in Alive /\ proc[p] \in Process /\ proc[p].calls # <<>> /\ now' \in Nat
  BY TraceAssumption, AliveIs DEF Return, Ticks, Typed, TypeOK, Procs
<1> DEFINE c == proc[p].calls
           call == Last(c)
           traced == call.on /\ proc[p].libc = armed
           q == Back(proc[p], ok)
           e == [what |-> "out", at |-> now', pid |-> p, ok |-> ok, lib |-> call.lib,
                 by |-> proc[p].prog, line |-> proc[p].line]
           st == Paired(asks)
           o == st.open[p]
<1>2. proc' = [proc EXCEPT ![p] = q] /\ asks' = (IF traced THEN Append(asks, e) ELSE asks)
      /\ UNCHANGED <<libc, armed, rd>>
  BY DEF Return, Back, After
<1>3. c \in Calls
  BY <1>1 DEF Process, Calls
<1>4. e \in Probe /\ e.what = "out" /\ e.pid = p /\ e.lib = call.lib /\ asks \in Seq(Probe)
  <2>1. Last(proc[p].calls).lib \in Lib
    BY <1>1, BackIs
  <2> QED
    BY <1>1, <2>1, Steady DEF Probe, OutEvent, Process
<1>5. q.calls = Front(c) /\ q.build = proc[p].build /\ q.libc = proc[p].libc
  BY <1>1, BackIs
<1> HIDE DEF e
<1>6. Paired(Append(asks, e)) = Pair(st, e) /\ st \in PairState
  BY <1>4, PairedAppend
<1>7. o \in Seq(Lib)
  BY <1>6 DEF PairState
<1> HIDE DEF st, o, q
<1>8. CallsOf(proc[p], o, libc, armed) /\ Named(st.out)
  BY <1>1 DEF Calling, TraceEvents, o, st
<1>9. /\ Quiet(c) => Quiet(Front(c))
      /\ Mounts(c) => Mounts(Front(c))
      /\ Mounts(c) /\ ~call.on => Quiet(c)
      /\ Agree(<<>>, Front(c))
      /\ \A s \in Seq(Lib) : s # <<>> /\ call.on /\ Agree(s, c) => Last(s) = call.lib /\ Agree(Front(s), Front(c))
  BY <1>1, <1>3, CallReturn
<1>10. (proc[p].build \/ (proc[p].libc = libc /\ armed # libc)) => Quiet(Front(c))
  BY <1>8, <1>9 DEF CallsOf
<1>11. proc[p].libc = armed => Agree(o, c) /\ Mounts(c)
  BY <1>8 DEF CallsOf
<1> HIDE DEF call
<1>12. CASE traced
  <2>1. /\ \A s \in Pid : s # p => Pair(st, e).open[s] = st.open[s]
        /\ o = <<>> => Pair(st, e).open[p] = <<>>
        /\ o # <<>> => Pair(st, e).open[p] = Front(o)
    BY <1>4, <1>6, PairOpen DEF o
  <2>2. Named(Pair(st, e).out)
    <3> SUFFICES ASSUME NEW a \in Pair(st, e).out PROVE a.name = a.lib
      BY DEF Named
    <3>1. CASE a \in st.out
      BY <1>8, <3>1 DEF Named
    <3>2. CASE a \notin st.out
      <4>1. From(a, e) /\ o # <<>> /\ a.name = Last(o)
        BY <1>4, <1>6, <3>2, PairFrom DEF o
      <4>2. Last(o) = call.lib
        BY <1>7, <1>9, <1>11, <1>12, <4>1
      <4> QED
        BY <1>4, <4>1, <4>2 DEF From
    <3> QED
      BY <3>1, <3>2
  <2>3. asks' = Append(asks, e) /\ Paired(asks') = Pair(st, e) /\ TraceEvents(asks') = Pair(st, e).out
    BY <1>2, <1>6, <1>12 DEF TraceEvents
  <2>4. CallsOf(q, Pair(st, e).open[p], libc, armed)
    <3>1. Agree(Pair(st, e).open[p], Front(c)) /\ Mounts(Front(c))
      BY <1>7, <1>9, <1>11, <1>12, <2>1
    <3> QED
      BY <1>5, <1>10, <3>1 DEF CallsOf
  <2> QED
    BY <1>1, <1>2, <2>1, <2>2, <2>3, <2>4, CallingCall DEF st
<1>13. CASE ~traced
  <2>1. asks' = asks /\ Named(TraceEvents(asks'))
    BY <1>2, <1>8, <1>13 DEF TraceEvents, st
  <2>2. CallsOf(q, o, libc, armed)
    <3>1. proc[p].libc = armed => Quiet(Front(c))
      BY <1>9, <1>11, <1>13
    <3>2. Front(c) \in Calls
      BY <1>1, BackIs
    <3>3. proc[p].libc = armed => Agree(o, Front(c)) /\ Mounts(Front(c))
      BY <3>1, <3>2, QuietIs
    <3> QED
      BY <1>5, <1>10, <3>3 DEF CallsOf
  <2> QED
    BY <1>1, <1>2, <2>1, <2>2, CallingCall DEF o, st
<1> QED
  BY <1>12, <1>13


LEMMA CallingRead ==
  ASSUME Typed, Calling, UNCHANGED <<proc, libc>>,
         (asks' = asks /\ armed' = armed) \/ (asks' = <<>> /\ armed' \in {armed, libc}),
         \A s \in Reader : rd'[s].asks \in {rd[s].asks, asks, <<>>}
  PROVE  Calling'
<1>1. \A s \in Reader : Named(TraceEvents(rd'[s].asks))
  BY NamedNone DEF Calling
<1>2. \A p \in Alive' : p \in Alive /\ p \in Pid /\ proc'[p] = proc[p] /\ proc[p].calls \in Calls
  <2>1. \A p \in Alive' : p \in Alive /\ p \in Pid /\ proc'[p] = proc[p]
    BY DEF Alive
  <2>2. \A p \in Alive : proc[p] \in Process
    BY AliveIs DEF Typed, TypeOK, Procs
  <2> QED
    BY <2>1, <2>2 DEF Process, Calls
<1>3. CASE asks' = asks /\ armed' = armed
  <2>1. \A p \in Alive' : CallsOf(proc'[p], Paired(asks).open[p], libc', armed')
    BY <1>2, <1>3 DEF Calling
  <2> QED
    BY <1>1, <1>3, <2>1, CallingNext DEF Calling
<1>4. CASE asks' = <<>> /\ armed' \in {armed, libc}
  <2>1. ASSUME NEW p \in Alive' PROVE CallsOf(proc'[p], <<>>, libc', armed')
    <3>1. CallsOf(proc[p], Paired(asks).open[p], libc, armed) /\ proc[p].calls \in Calls /\ proc'[p] = proc[p]
      BY <1>2 DEF Calling
    <3>2. Agree(<<>>, proc[p].calls) /\ (Quiet(proc[p].calls) => Mounts(proc[p].calls))
      BY <3>1, CallsNone, QuietIs
    <3>3. (proc[p].build \/ (proc[p].libc = libc /\ armed' # libc)) => Quiet(proc[p].calls)
      BY <1>4, <3>1 DEF CallsOf
    <3>4. proc[p].libc = armed' => Mounts(proc[p].calls)
      BY <1>4, <3>1, <3>2 DEF CallsOf
    <3> QED
      BY <3>1, <3>2, <3>3, <3>4 DEF CallsOf
  <2>2. \A p \in Alive' : CallsOf(proc'[p], Paired(<<>>).open[p], libc', armed')
    BY <1>2, <2>1, NamedNone
  <2> QED
    BY <1>1, <1>4, <2>2, NamedNone, CallingNext
<1> QED
  BY <1>3, <1>4

\* what a reader has of the dlopens after its step
LEMMA HeldAsks ==
  ASSUME Typed, Shape, NEW r \in Reader, Read(r) \/ Kill(r)
  PROVE  \A s \in Reader : rd'[s].asks \in {rd[s].asks, asks, <<>>}
<1>1. ASSUME NEW h, rd' = [rd EXCEPT ![r] = h], h.asks \in {rd[r].asks, asks, <<>>}
      PROVE  \A s \in Reader : rd'[s].asks \in {rd[s].asks, asks, <<>>}
  BY <1>1 DEF Typed
<1>2. CASE Take(r)
  <2> DEFINE o == {s \in Credits(ToSet(execs) \cup TraceEvents(asks), carried) : s.heard /\ s.sure}
  <2>1. o \in SUBSET Said /\ Order \in Seq({"asks", "execs", "arm"})
    <3>1. Credits(ToSet(execs) \cup TraceEvents(asks), carried) \in SUBSET Said
      BY Steady, CreditsTyped
    <3> QED
      BY <3>1 DEF Order
  <2>2. rd' = [rd EXCEPT ![r] = Taking(Order, o)]
    BY <1>2 DEF Take, Taking
  <2> HIDE DEF o
  <2> QED
    BY <1>1, <2>1, <2>2, TakingIs
<1>3. CASE DrainAsks(r)
  <2>1. Turn(r, "asks") /\ rd' = [rd EXCEPT ![r] = WithAsks(Drained(r), asks)]
    BY <1>3 DEF DrainAsks, WithAsks
  <2>2. Drained(r) \in Holding
    BY <2>1, TurnIs, DrainedIs
  <2> QED
    BY <1>1, <2>1, <2>2, Steady, WithAsksIs
<1>4. CASE DrainExecs(r)
  <2>1. Turn(r, "execs") /\ rd' = [rd EXCEPT ![r] = WithExecs(Drained(r), execs)]
    BY <1>4 DEF DrainExecs, WithExecs
  <2>2. Drained(r) \in Holding /\ Drained(r).asks = rd[r].asks
    BY <2>1, TurnIs, DrainedIs
  <2> QED
    BY <1>1, <2>1, <2>2, Steady, WithExecsIs
<1>5. CASE Arm(r)
  <2>1. Turn(r, "arm") /\ rd' = [rd EXCEPT ![r] = Drained(r)]
    BY <1>5 DEF Arm
  <2>2. Drained(r).asks = rd[r].asks
    BY <2>1, TurnIs, DrainedIs
  <2> QED
    BY <1>1, <2>1, <2>2
<1>6. CASE Walk(r)
  <2> DEFINE h == rd'[r]
  <2>1. rd' = [rd EXCEPT ![r] = h] /\ h.asks = <<>>
    BY <1>6, WalkHolds
  <2> HIDE DEF h
  <2> QED
    BY <1>1, <2>1
<1>7. ASSUME NEW c \in Program, ReadSeen(r, c) PROVE \A s \in Reader : rd'[s].asks \in {rd[s].asks, asks, <<>>}
  <2>1. rd[r] \in Holding /\ seen[c] \in SUBSET (Lib \cup Program)
    BY Steady
  <2>2. rd' = [rd EXCEPT ![r] = Reading(rd[r], c, seen[c])]
    BY <1>7 DEF ReadSeen, Reading
  <2> QED
    BY <1>1, <2>1, <2>2, ReadingIs
<1>8. CASE WriteSeen(r)
  <2> DEFINE c == rd[r].for
  <2>1. rd' = [rd EXCEPT ![r] = Wrote(rd[r], c)] /\ rd[r] \in Holding /\ c \in Program
    BY <1>8, Steady DEF WriteSeen, Wrote, Typed
  <2> HIDE DEF c
  <2> QED
    BY <1>1, <2>1, WroteIs
<1>9. CASE Finish(r) \/ Kill(r)
  <2>1. rd' = [rd EXCEPT ![r] = Idle]
    BY <1>9 DEF Finish, Kill
  <2> QED
    BY <1>1, <2>1, IdleIs
<1> QED
  BY <1>1, <1>2, <1>3, <1>4, <1>5, <1>6, <1>7, <1>8, <1>9 DEF Read

LEMMA CallingStep == Typed /\ Shape /\ Calling /\ [Next]_vars => Calling'
<1> SUFFICES ASSUME Typed, Shape, Calling, [Next]_vars PROVE Calling'
  OBVIOUS
<1>1. CASE UNCHANGED vars
  BY <1>1, CallingRead DEF vars
<1>2. ASSUME NEW p \in Pid, NEW c \in Pid, Fork(p, c) PROVE Calling'
  <2>1. p \in Alive /\ proc[p] \in Process /\ now' \in Nat
    BY <1>2, AliveIs, Steady DEF Fork, Ticks, Typed, TypeOK, Procs
  <2>2. proc' = [proc EXCEPT ![c] = Child(proc[p], now')] /\ UNCHANGED <<asks, libc, armed, rd>>
    BY <1>2 DEF Fork, Child
  <2> QED
    BY <2>1, <2>2, ChildIs, CallingProc
<1>3. ASSUME NEW p \in Pid, NEW f \in Program, NEW arg \in Program \cup {Nobody}, NEW said \in Program \cup {Nobody},
             Exec(p, f, arg, said)
      PROVE  Calling'
  <2> DEFINE build == proc[p].build \/ f = Kiry
             is == IF arg # Nobody /\ ~build THEN arg ELSE f
             q == [prog |-> is, build |-> build, start |-> proc[p].start, ran |-> now',
                   line |-> proc[p].line \cup {now'}, libc |-> libc, calls |-> <<>>,
                   maps |-> Loaded(Exe(f)), asked |-> {}]
  <2>1. proc' = [proc EXCEPT ![p] = q] /\ UNCHANGED <<asks, libc, armed, rd>> /\ q.calls = <<>>
    BY <1>3 DEF Exec, Typed
  <2> HIDE DEF q
  <2> QED
    BY <2>1, CallingProc
<1>4. ASSUME NEW p \in Pid, Exit(p) PROVE Calling'
  BY <1>4, CallingProc DEF Exit
<1>5. CASE Kernel
  BY <1>2, <1>3, <1>4, <1>5, CallingEnter, CallingReturn DEF Kernel
<1>6. ASSUME NEW r \in Reader, Read(r) \/ Kill(r) PROVE Calling'
  <2>1. UNCHANGED <<proc, libc>>
    BY <1>6 DEF Read, Take, DrainAsks, DrainExecs, Arm, Walk, ReadSeen, WriteSeen, Finish, Kill, kernel
  <2>2. (asks' = asks /\ armed' = armed) \/ (asks' = <<>> /\ armed' \in {armed, libc})
    BY <1>6 DEF Read, Take, DrainAsks, DrainExecs, Arm, Walk, ReadSeen, WriteSeen, Finish, Kill, kernel
  <2> QED
    BY <1>6, <2>1, <2>2, HeldAsks, CallingRead
<1>7. ASSUME NEW c \in Renewed, Install(c) PROVE Calling'
  <2> DEFINE o(r) == {s \in rd[r].owed : s.prog # c}
  <2>1. ASSUME NEW r \in Reader PROVE rd'[r].asks = rd[r].asks
    <3>1. rd[r] \in Holding /\ o(r) \in SUBSET Said
      BY Steady DEF Holding
    <3>2. rd'[r] = Owing(rd[r], o(r))
      BY <1>7 DEF Install, Owing
    <3> HIDE DEF o
    <3> QED
      BY <3>1, <3>2, OwingIs
  <2>2. UNCHANGED <<proc, libc, asks, armed>>
    BY <1>7 DEF Install
  <2> QED
    BY <2>1, <2>2, CallingRead
<1> QED
  BY <1>1, <1>5, <1>6, <1>7 DEF Next


----------------------------------------------------------------------------
(* What a reader credits programs with. *)

LEMMA FollowsStep == Typed /\ Shape /\ Stamped /\ Follows /\ Calling /\ [Next]_vars => Stamped' /\ Follows'
<1> SUFFICES ASSUME Typed, Shape, Stamped, Follows, Calling, [Next]_vars PROVE Stamped' /\ Follows'
  OBVIOUS
<1>1. CASE UNCHANGED vars
  <2>1. UNCHANGED <<now, proc, asks, execs, carried, rd, lost, taken>>
    BY <1>1 DEF vars
  <2>2. Pending' = Pending /\ Asks' = Asks
    BY <2>1 DEF Pending, Asks, Had, HadAsks, Outs
  <2>3. Stamped'
    BY <2>1, <2>2 DEF Stamped, Fits, Distinct, Born, Ahead, BothTaken, Outs, Alive
  <2>4. Follows'
    BY <2>1, <2>2, FollowsNext DEF Follows
  <2> QED
    BY <2>3, <2>4
<1>2. CASE Kernel
  BY <1>2, FollowsExit, FollowsFork, FollowsExec, FollowsEnter, FollowsReturn DEF Kernel
<1>3. ASSUME NEW r \in Reader, Read(r) \/ Kill(r) PROVE Stamped' /\ Follows'
  BY <1>3, FollowsTake, FollowsDrainAsks, FollowsDrainExecs, FollowsArm, FollowsWalk, FollowsReadSeen, FollowsWriteSeen,
     FollowsFinish, FollowsKill DEF Read
<1>4. ASSUME NEW c \in Renewed, Install(c) PROVE Stamped' /\ Follows'
  BY <1>4, FollowsInstall
<1> QED
  BY <1>1, <1>2, <1>3, <1>4 DEF Next

LEMMA RightsInit == Init => Rights
BY IdleIs DEF Init, Rights

LEMMA RightsOne ==
  ASSUME Typed, Rights, NEW r \in Reader, NEW h, rd' = [rd EXCEPT ![r] = h], h.found \in {{}, rd[r].found}
  PROVE  Rights'
<1>1. rd'[r] = h /\ \A s \in Reader : s # r => rd'[s] = rd[s]
  BY DEF Typed
<1>2. ASSUME NEW s \in Reader, NEW x \in rd'[s].found PROVE Counts(x) /\ Right(x)
  <2>1. CASE s = r
    BY <1>1, <1>2, <2>1 DEF Rights
  <2>2. CASE s # r
    BY <1>1, <1>2, <2>2 DEF Rights
  <2> QED
    BY <2>1, <2>2
<1> QED
  BY <1>2 DEF Rights, Counts, Right, Uses

LEMMA RightsStep == Typed /\ Shape /\ Stamped /\ Follows /\ Calling /\ Rights /\ [Next]_vars => Rights'
<1> SUFFICES ASSUME Typed, Shape, Stamped, Follows, Calling, Rights, [Next]_vars PROVE Rights'
  OBVIOUS
<1>1. CASE UNCHANGED rd
  BY <1>1 DEF Rights, Counts, Right, Uses
<1>2. Kernel => UNCHANGED rd
  BY KernelReads
<1>3. ASSUME NEW c \in Renewed, Install(c) PROVE Rights'
  <2> DEFINE o(r) == {s \in rd[r].owed : s.prog # c}
  <2>1. ASSUME NEW r \in Reader PROVE rd'[r].found = rd[r].found
    <3>1. rd[r] \in Holding /\ o(r) \in SUBSET Said
      BY Steady DEF Holding
    <3>2. rd'[r] = Owing(rd[r], o(r))
      BY <1>3 DEF Install, Owing
    <3> HIDE DEF o
    <3> QED
      BY <3>1, <3>2, OwingIs
  <2> QED
    BY <2>1 DEF Rights, Counts, Right, Uses
<1>4. ASSUME NEW r \in Reader, Take(r) PROVE Rights'
  <2> DEFINE o == {s \in Credits(ToSet(execs) \cup TraceEvents(asks), carried) : s.heard /\ s.sure}
  <2>1. o \in SUBSET Said /\ Order \in Seq({"asks", "execs", "arm"})
    <3>1. Credits(ToSet(execs) \cup TraceEvents(asks), carried) \in SUBSET Said
      BY Steady, CreditsTyped
    <3> QED
      BY <3>1 DEF Order
  <2>2. rd' = [rd EXCEPT ![r] = Taking(Order, o)]
    BY <1>4 DEF Take, Taking
  <2> HIDE DEF o
  <2>3. Taking(Order, o).found = {}
    BY <2>1, TakingIs
  <2> QED
    BY <2>2, <2>3, RightsOne
<1>5. ASSUME NEW r \in Reader, DrainAsks(r) PROVE Rights'
  <2>1. Turn(r, "asks") /\ rd' = [rd EXCEPT ![r] = WithAsks(Drained(r), asks)]
    BY <1>5 DEF DrainAsks, WithAsks
  <2>2. Drained(r) \in Holding /\ Drained(r).found = rd[r].found
    BY <2>1, TurnIs, DrainedIs
  <2>3. WithAsks(Drained(r), asks).found = rd[r].found
    BY <2>2, Steady, WithAsksIs
  <2> QED
    BY <2>1, <2>3, RightsOne
<1>6. ASSUME NEW r \in Reader, DrainExecs(r) PROVE Rights'
  <2>1. Turn(r, "execs") /\ rd' = [rd EXCEPT ![r] = WithExecs(Drained(r), execs)]
    BY <1>6 DEF DrainExecs, WithExecs
  <2>2. Drained(r) \in Holding /\ Drained(r).found = rd[r].found
    BY <2>1, TurnIs, DrainedIs
  <2>3. WithExecs(Drained(r), execs).found = rd[r].found
    BY <2>2, Steady, WithExecsIs
  <2> QED
    BY <2>1, <2>3, RightsOne
<1>7. ASSUME NEW r \in Reader, Arm(r) PROVE Rights'
  <2>1. Turn(r, "arm") /\ rd' = [rd EXCEPT ![r] = Drained(r)]
    BY <1>7 DEF Arm
  <2>2. Drained(r).found = rd[r].found
    BY <2>1, TurnIs, DrainedIs
  <2> QED
    BY <2>1, <2>2, RightsOne
<1>8. ASSUME NEW r \in Reader, Walk(r) PROVE Rights'
  <2>1. rd' = [rd EXCEPT ![r] = rd'[r]]
    BY <1>8, WalkHolds
  <2>2. \A s \in rd'[r].found : Counts(s) /\ Right(s)
    BY <1>8, FollowsWalk
  <2>3. \A s \in Reader : s # r => rd'[s] = rd[s]
    <3> DEFINE h == rd'[r]
    <3>1. rd' = [rd EXCEPT ![r] = h]
      BY <2>1
    <3> HIDE DEF h
    <3> QED
      BY <3>1 DEF Typed
  <2>4. \A s \in Reader : \A x \in rd'[s].found : Counts(x) /\ Right(x)
    BY <2>2, <2>3 DEF Rights
  <2> QED
    BY <2>4 DEF Rights, Counts, Right, Uses
<1>9. ASSUME NEW r \in Reader, NEW c \in Program, ReadSeen(r, c) PROVE Rights'
  <2>1. rd[r] \in Holding /\ seen[c] \in SUBSET (Lib \cup Program) /\ rd' = [rd EXCEPT ![r] = Reading(rd[r], c, seen[c])]
    BY <1>9, Steady DEF ReadSeen, Reading
  <2>2. Reading(rd[r], c, seen[c]).found = rd[r].found
    BY <2>1, ReadingIs
  <2> QED
    BY <2>1, <2>2, RightsOne
<1>10. ASSUME NEW r \in Reader, WriteSeen(r) PROVE Rights'
  <2> DEFINE c == rd[r].for
  <2>1. rd[r] \in Holding /\ c \in Program /\ rd' = [rd EXCEPT ![r] = Wrote(rd[r], c)]
    BY <1>10, Steady DEF WriteSeen, Wrote, Typed
  <2> HIDE DEF c
  <2>2. Wrote(rd[r], c).found = rd[r].found
    BY <2>1, WroteIs
  <2> QED
    BY <2>1, <2>2, RightsOne
<1>11. ASSUME NEW r \in Reader, Finish(r) \/ Kill(r) PROVE Rights'
  <2>1. rd' = [rd EXCEPT ![r] = Idle]
    BY <1>11 DEF Finish, Kill
  <2> QED
    BY <2>1, IdleIs, RightsOne
<1> QED
  BY <1>1, <1>2, <1>3, <1>4, <1>5, <1>6, <1>7, <1>8, <1>9, <1>10, <1>11 DEF Next, Read, vars

LEMMA Attributes == Typed /\ Maps /\ Rights => Attributed
<1> SUFFICES ASSUME Typed, Maps, Rights PROVE Attributed
  OBVIOUS
<1>1. \A p \in Alive : Dlopened(Exe(proc[p].prog), proc[p].maps) \subseteq proc[p].asked
  BY Opened
<1>2. \A r \in Reader : \A s \in rd[r].found : s.sure => s.prog = s.by /\ s.name = s.lib /\ ~s.build
  BY DEF Rights, Right
<1> QED
  BY <1>1, <1>2 DEF Attributed

\* What a process maps and its DT_NEEDED does not explain is what it asked for, and what a read
\* credits a program with is what that program asked for or ran, by its name, and nothing of a
\* build's: across drains in any order with the kernel, numbers given out again, buffers that arm
\* empties and readers killed anywhere. Let off is an asker some fork or exec of whose past is lost:
\* to an overrun, a killed reader or arm, or as one whose argv went before it, as a script that ran
\* its interpreter on something else, or as a build's that was gone (lineage, observe, arm).
THEOREM AttributedStays == Spec => []Attributed
<1> DEFINE IInv == Typed /\ Shape /\ Maps /\ Stamped /\ Follows /\ Calling /\ Rights
<1>1. Init => IInv
  BY TypedInit, ShapeInit, MapsInit, StampedInit, FollowsInit, CallingInit, RightsInit
<1>2. IInv /\ [Next]_vars => IInv'
  BY TypedStep, ShapeStep, MapsStep, FollowsStep, CallingStep, RightsStep
<1>3. IInv => Attributed
  BY Attributes
<1> QED
  BY <1>1, <1>2, <1>3, PTL DEF Spec


----------------------------------------------------------------------------
(* What a reader owes. A read of both buffers at the instant it took the lock would have heard
   a dlopen if it knew what asked. It knew that from what was carried, or from an exec, through
   the forks between: the set X of HeardOf is those execs and forks. None of them is given up
   while nothing of the asker's past is lost, and none comes between them later, so that the walk
   of what the drains did take knows the asker too (Supported). *)

\* p at t is known: from what was carried, or as its latest event is of X
Backed(E, c, X, p, t) ==
  \/ Of(E, p, t) = {} /\ c.known[p] # Nobody
  \/ \E f \in X : Latest(E, p, t, f)
\* each of X is an exec, or a fork of a process that is known
Founded(E, c, l, X) ==
  /\ X \subseteq E
  /\ \A x \in X : Line(x) \cap l = {} /\ (x.what = "fork" => Backed(E, c, X, x.pid, x.at))
HeardOf(E, c, l, p, t) == \E X \in SUBSET E : Founded(E, c, l, X) /\ Backed(E, c, X, p, t)

\* the dlopen that was credited
AskOf(s) == [what |-> "asked", at |-> s.at, pid |-> s.pid, name |-> s.name, ok |-> s.ok, lib |-> s.lib,
             by |-> s.by, line |-> s.line]
\* it will be credited again
Due(s, Q, E, c, l, tk) == AskOf(s) \in Q /\ tk[s.pid] <= s.at /\ HeardOf(E, c, l, s.pid, s.at)

\* what a reader that holds h has to pay its debts with: dlopens and events, then names
Pays(h, Q, E, c, l, tk, sn) ==
  /\ h.pc = "idle" => h.owed = {}
  /\ h.pc \in {"drain", "walk"} => \A s \in h.owed :
       s.what = "asked" /\ s.prog = s.by /\ Counts(s) /\ (s.line \cap l = {} => Due(s, Q, E, c, l, tk))
  /\ h.pc \in {"add", "write"} => \A s \in h.owed : s.line \cap l = {} =>
       s.prog \in Program /\ (s.name \in h.add[s.prog] \/ s.name \in sn[s.prog])
  /\ h.pc = "write" => \A s \in h.owed : s.line \cap l = {} /\ s.prog = h.for => h.base = sn[h.for]

\* the dlopens its walk will have
Answers(h, a) == TraceEvents(IF h.pc = "drain" /\ h.left = Begun THEN a ELSE h.asks)
Owes == \A r \in Reader : Pays(rd[r], Answers(rd[r], asks), Pending, carried, lost, taken, seen)

\* no two returns have one stamp
Single(Q) == \A a, b \in Q : a.at = b.at => a = b
Singles == Single(TraceEvents(asks)) /\ \A r \in Reader : Single(TraceEvents(rd[r].asks))

\* from E to G, with m lost: what was before t and is not lost is kept, and nothing comes to it
Within(E, G, m, t) ==
  /\ \A f \in E : f.at < t /\ Line(f) \cap m = {} => f \in G
  /\ \A g \in G : g.at < t => g \in E
Kept(X, G, m) == {x \in X : x \in G /\ Line(x) \cap m = {}}

LEMMA BackedStill ==
  ASSUME NEW E, NEW G, NEW c, NEW l, NEW m, l \subseteq m, NEW X \in SUBSET E, NEW p, NEW t, Backed(E, c, X, p, t),
         Within(E, G, m, t), NEW prog, NEW build, NEW line, line \cap m = {}, Tells(E, c, l, p, t, prog, build, line)
  PROVE  Backed(G, c, Kept(X, G, m), p, t)
<1>1. Of(G, p, t) \subseteq Of(E, p, t)
  BY DEF Of, Within
<1>2. CASE Of(E, p, t) = {} /\ c.known[p] # Nobody
  BY <1>1, <1>2 DEF Backed
<1>3. ASSUME NEW f \in X, Latest(E, p, t, f) PROVE Backed(G, c, Kept(X, G, m), p, t)
  <2>1. line \cap l = {}
    OBVIOUS
  <2>2. Line(f) = line
    BY <1>3, <2>1 DEF Tells
  <2>3. f \in E /\ f.at < t /\ Subject(f) = p /\ \A g \in Of(E, p, t) : g.at <= f.at
    BY <1>3 DEF Latest, Of
  <2>4. f \in G
    BY <2>2, <2>3 DEF Within
  <2>5. Latest(G, p, t, f) /\ f \in Kept(X, G, m)
    BY <1>1, <2>2, <2>3, <2>4 DEF Latest, Of, Kept
  <2> QED
    BY <2>5 DEF Backed
<1> QED
  BY <1>2, <1>3 DEF Backed

LEMMA HeardStill ==
  ASSUME NEW E, NEW G, NEW c, NEW l, NEW m, l \subseteq m, ToldAt(E, c, l), NEW p, NEW t, HeardOf(E, c, l, p, t),
         Within(E, G, m, t), \A x \in E : x \in G => Within(E, G, m, x.at),
         NEW prog, NEW build, NEW line, line \cap m = {}, Tells(E, c, l, p, t, prog, build, line)
  PROVE  HeardOf(G, c, m, p, t)
<1>1. PICK X \in SUBSET E : Founded(E, c, l, X) /\ Backed(E, c, X, p, t)
  BY DEF HeardOf
<1> DEFINE Y == Kept(X, G, m)
<1>2. Backed(G, c, Y, p, t)
  BY <1>1, BackedStill
<1>3. ASSUME NEW x \in Y PROVE Line(x) \cap m = {} /\ (x.what = "fork" => Backed(G, c, Y, x.pid, x.at))
  <2>1. x \in X /\ x \in E /\ x \in G /\ Line(x) \cap m = {}
    BY DEF Kept
  <2>2. x.line \cap m = {}
    BY <2>1 DEF Line
  <2>3. Tells(E, c, l, x.pid, x.at, x.by, x.build, x.line) /\ Within(E, G, m, x.at)
    BY <2>1 DEF ToldAt
  <2>4. x.what = "fork" => Backed(E, c, X, x.pid, x.at)
    BY <1>1, <2>1 DEF Founded
  <2> QED
    BY <2>1, <2>2, <2>3, <2>4, BackedStill
<1>4. Y \in SUBSET G
  BY DEF Kept
<1> HIDE DEF Y
<1>5. Founded(G, c, m, Y)
  BY <1>3, <1>4 DEF Founded
<1> QED
  BY <1>2, <1>4, <1>5 DEF HeardOf

----------------------------------------------------------------------------
(* What a walk knows of a number, and since when. *)

\* what an event leaves known, and that nothing that was said is taken back
Learns(st, su, R, t) ==
  /\ st.said \subseteq su.said
  /\ (\A f \in R : f.at # t) => su.known = st.known
  /\ \A e \in R : e.at = t =>
       /\ \A p \in Pid : p # Subject(e) => su.known[p] = st.known[p]
       /\ e.what = "fork" => su.known[Subject(e)] = st.known[e.pid]
       /\ e.what = "exec" => su.known[Subject(e)] # Nobody

\* and what it says
Hears(st, su, Q, t) ==
  /\ \A a \in Q : a.at = t /\ Single(Q) => Heeds(st, a) \in su.said
  /\ \A s \in su.said : s.heard => s \in st.said \/ \E a \in Q : a.at = t /\ s = Heeds(st, a)

LEMMA StepLearns ==
  ASSUME Procs, NEW R, NEW Q, NEW c, Reads(R, Q, c), NEW st \in LinState, NEW t \in Nat
  PROVE  Learns(st, Step(st, R \cup Q, t), R, t) /\ Hears(st, Step(st, R \cup Q, t), Q, t)
<1> DEFINE V == R \cup Q
           e == Here(V, t)
           su == Step(st, V, t)
<1>1. V \in SUBSET (Event \cup Asking) /\ R \in SUBSET Event /\ Q \in SUBSET Asking /\ Distinct(R)
      /\ (\A a \in Q, f \in R : a.at # f.at) /\ st.known \in [Pid -> Program \cup {Nobody}] /\ Nobody \notin Program
  BY TraceAssumption DEF Reads, LinState
<1>2. CASE {f \in V : f.at = t} = {}
  <2>1. su = st
    BY <1>1, <1>2, StepIs
  <2> HIDE DEF su
  <2> QED
    BY <1>2, <2>1 DEF Learns, Hears, su
<1>3. CASE {f \in V : f.at = t} # {}
  <2> HIDE DEF e
  <2>0. /\ e \in V /\ e.at = t
        /\ e \in ForkEvent => Step(st, V, t) = Forked(st, e)
        /\ e \in ExecEvent => Step(st, V, t) = Execed(st, e)
        /\ e \in Asking => Step(st, V, t) = Asked(st, e)
    <3>1. V \in SUBSET (Event \cup Asking)
      BY <1>1
    <3> HIDE DEF V
    <3> QED
      BY <1>3, <3>1, StepIs DEF e
  <2> HIDE DEF su
  <2>1. /\ e \in V /\ e.at = t
        /\ e \in ForkEvent => su = Forked(st, e)
        /\ e \in ExecEvent => su = Execed(st, e)
        /\ e \in Asking => su = Asked(st, e)
    BY <2>0 DEF su
  <2>2. CASE e \in R
    <3>1. (\A f \in R : f.at = t => f = e) /\ (\A a \in Q : a.at # t)
      BY <1>1, <2>1, <2>2 DEF Distinct
    <3>2. CASE e \in ForkEvent /\ e.what = "fork"
      <4>0. su = Forked(st, e)
        BY <2>1, <3>2
      <4>1. su.known = [st.known EXCEPT ![e.child] = st.known[e.pid]] /\ su.said = st.said
        BY <3>2, <4>0, ForkTyped
      <4>2. Subject(e) = e.child /\ e.child \in Pid
        BY <3>2 DEF Subject, ForkEvent
      <4>3. Learns(st, su, R, t)
        BY <1>1, <2>1, <2>2, <3>1, <3>2, <4>1, <4>2 DEF Learns
      <4> QED
        BY <3>1, <4>1, <4>3 DEF su, Hears
    <3>3. CASE e \in ExecEvent /\ e.what = "exec"
      <4>1. /\ Subject(e) = e.pid /\ e.pid \in Pid /\ e.file \in Program /\ Runs(e) \in Program
            /\ Script[e.file] \subseteq Program
        BY <3>3, TraceAssumption DEF Subject, ExecEvent, Runs
      <4>2. /\ \A p \in Pid : p # e.pid => su.known[p] = st.known[p]
            /\ su.known[e.pid] # Nobody
            /\ su.said = st.said \/ su.said = st.said \cup {Ran(st, e)}
        <5>1. /\ e.pid \in Now(st, e) => su.known = [st.known EXCEPT ![e.pid] = e.file] /\ su.said = st.said
              /\ e.pid \notin Now(st, e) /\ Keeps(st.known[e.pid], e) => su = st
              /\ e.pid \notin Now(st, e) /\ ~Keeps(st.known[e.pid], e) =>
                   su.known = [st.known EXCEPT ![e.pid] = Runs(e)] /\ su.said = st.said \cup {Ran(st, e)}
          BY <2>1, <3>3, ExecTyped
        <5>2. Keeps(st.known[e.pid], e) => st.known[e.pid] # Nobody
          BY <1>1, <4>1 DEF Keeps
        <5> QED
          BY <1>1, <4>1, <5>1, <5>2
      <4>3. Learns(st, su, R, t)
        BY <1>1, <2>1, <2>2, <3>1, <3>3, <4>1, <4>2 DEF Learns
      <4>4. ~Ran(st, e).heard
        BY DEF Ran
      <4> QED
        BY <3>1, <4>2, <4>3, <4>4 DEF su, Hears
    <3> QED
      BY <1>1, <2>2, <3>2, <3>3, EventIs
  <2>3. CASE e \in Q
    <3>1. su.known = st.known /\ su.said = st.said \cup {Heeds(st, e)}
      BY <1>1, <2>1, <2>3, AskTyped
    <3>2. \A f \in R : f.at # t
      BY <1>1, <2>1, <2>3
    <3>3. Learns(st, su, R, t)
      BY <3>1, <3>2 DEF Learns
    <3>4. \A a \in Q : a.at = t /\ Single(Q) => a = e
      BY <2>1, <2>3 DEF Single
    <3> QED
      BY <2>1, <2>3, <3>1, <3>3, <3>4 DEF su, Hears
  <2> QED
    BY <2>1, <2>2, <2>3
<1> QED
  BY <1>2, <1>3


LEMMA WalkLearns ==
  ASSUME Procs, NEW R, NEW Q, NEW c, Reads(R, Q, c), NEW w, Walks(w, R \cup Q, c), NEW n \in 1..now
  PROVE  /\ n \in Nat /\ n - 1 \in 0..now /\ n \in 0..now /\ n - 1 + 1 = n
         /\ Learns(w[n - 1], w[n], R, n) /\ Hears(w[n - 1], w[n], Q, n)
<1>1. now \in Nat
  BY DEF Procs
<1>2. n \in Nat /\ n - 1 \in 0..now /\ n \in 0..now /\ n - 1 + 1 = n
  BY <1>1
<1>3. w[n - 1] \in LinState /\ w[n] = Step(w[n - 1], R \cup Q, n)
  BY <1>2 DEF Walks
<1> DEFINE u == w[n - 1]
<1>4. u \in LinState /\ w[n] = Step(u, R \cup Q, n)
  BY <1>3
<1> HIDE DEF u
<1>5. Learns(u, Step(u, R \cup Q, n), R, n) /\ Hears(u, Step(u, R \cup Q, n), Q, n)
  BY <1>2, <1>4, StepLearns
<1> QED
  BY <1>2, <1>4, <1>5 DEF u

\* what is known of p is what was carried, or what its latest event left
SinceOf(w, R, c, n, p) ==
  /\ Of(R, p, n + 1) = {} => w[n].known[p] = c.known[p]
  /\ \A f \in R : Latest(R, p, n + 1, f) => w[n].known[p] = w[f.at].known[p]

LEMMA WalkSince ==
  ASSUME Procs, NEW R, NEW Q, NEW c, Reads(R, Q, c), \A e \in R : 1 <= e.at, NEW w, Walks(w, R \cup Q, c)
  PROVE  \A n \in 0..now : \A p \in Pid : SinceOf(w, R, c, n, p)
<1>1. R \in SUBSET Event /\ Distinct(R) /\ now \in Nat /\ w[0] = Begin(c)
  BY DEF Reads, Procs, Walks
<1> DEFINE P == {n \in 0..now : \A p \in Pid : SinceOf(w, R, c, n, p)}
<1>2. 0 \in P
  <2>1. \A p : Of(R, p, 1) = {}
    <3>1. \A e \in R : ~(e.at < 1)
      BY <1>1, EventIs
    <3> QED
      BY <3>1 DEF Of
  <2>2. 0 + 1 = 1 /\ 0 \in 0..now /\ w[0].known = c.known
    BY <1>1 DEF Begin
  <2>3. \A p : SinceOf(w, R, c, 0, p)
    BY <2>1, <2>2 DEF SinceOf, Latest
  <2> QED
    BY <2>2, <2>3
<1>3. ASSUME NEW n \in 1..now, n - 1 \in P PROVE n \in P
  <2>1. n \in Nat /\ n \in 0..now /\ n - 1 + 1 = n /\ Learns(w[n - 1], w[n], R, n)
    BY WalkLearns
  <2>2. ASSUME NEW p \in Pid, Of(R, p, n + 1) = Of(R, p, n), w[n].known[p] = w[n - 1].known[p]
        PROVE  SinceOf(w, R, c, n, p)
    <3>1. SinceOf(w, R, c, n - 1, p)
      BY <1>3
    <3> QED
      BY <2>1, <2>2, <3>1 DEF SinceOf, Latest
  <2>3. CASE \A f \in R : f.at # n
    <3>1. \A p : Of(R, p, n + 1) = Of(R, p, n)
      BY <1>1, <2>1, <2>3, OfSame
    <3>2. w[n].known = w[n - 1].known
      BY <2>1, <2>3 DEF Learns
    <3> QED
      BY <2>1, <2>2, <3>1, <3>2
  <2>4. ASSUME NEW e \in R, e.at = n PROVE n \in P
    <3>1. /\ \A p : p # Subject(e) => Of(R, p, n + 1) = Of(R, p, n)
          /\ Of(R, Subject(e), n + 1) # {}
          /\ \A g : Latest(R, Subject(e), n + 1, g) => g = e
      BY <1>1, <2>1, <2>4, OfNext
    <3>2. \A p \in Pid : p # Subject(e) => w[n].known[p] = w[n - 1].known[p]
      BY <2>1, <2>4 DEF Learns
    <3>3. SinceOf(w, R, c, n, Subject(e))
      BY <2>4, <3>1 DEF SinceOf
    <3> QED
      BY <2>1, <2>2, <3>1, <3>2, <3>3
  <2> HIDE DEF P
  <2> QED
    BY <2>3, <2>4
<1>4. P = 0..now
  <2>1. P \in SUBSET (0..now)
    OBVIOUS
  <2> HIDE DEF P
  <2> QED
    BY <1>1, <1>2, <1>3, <2>1, UpTo
<1> QED
  BY <1>4

\* what is said stays said, and what is heard is of a dlopen that was heard
LEMMA WalkSays ==
  ASSUME Procs, NEW R, NEW Q, NEW c, Reads(R, Q, c), NEW w, Walks(w, R \cup Q, c)
  PROVE  /\ \A n \in 0..now : w[n].said \subseteq w[now].said
         /\ \A s \in w[now].said : s.heard => \E a \in Q : a.at \in 1..now /\ s = Heeds(w[a.at - 1], a)
<1>1. now \in Nat /\ w[0].said = {} /\ now \in 0..now
  BY DEF Procs, Walks, Begin
<1> DEFINE HeardAll(n) == \A s \in w[n].said : s.heard => \E a \in Q : a.at \in 1..now /\ s = Heeds(w[a.at - 1], a)
           P == {n \in 0..now : (\A m \in 0..n : w[m].said \subseteq w[n].said) /\ HeardAll(n)}
<1>2. 0 \in P
  <2>1. 0 \in 0..now /\ \A m \in 0..0 : m = 0
    BY <1>1
  <2> QED
    BY <1>1, <2>1
<1>3. ASSUME NEW n \in 1..now, n - 1 \in P PROVE n \in P
  <2>1. n \in Nat /\ n \in 0..now /\ Learns(w[n - 1], w[n], R, n) /\ Hears(w[n - 1], w[n], Q, n)
    BY WalkLearns
  <2>2. w[n - 1].said \subseteq w[n].said
    BY <2>1 DEF Learns
  <2>3. \A m \in 0..n : m = n \/ m \in 0..n - 1
    BY <2>1
  <2>4. \A m \in 0..n : w[m].said \subseteq w[n].said
    BY <1>3, <2>2, <2>3
  <2>5. HeardAll(n)
    BY <1>3, <2>1 DEF Hears
  <2> QED
    BY <2>1, <2>4, <2>5
<1>4. P = 0..now
  <2>1. P \in SUBSET (0..now)
    OBVIOUS
  <2> HIDE DEF P
  <2> QED
    BY <1>1, <1>2, <1>3, <2>1, UpTo
<1>5. now \in P
  BY <1>1, <1>4
<1> QED
  BY <1>5


\* what a walk knows when it comes to t is known for a reason
LEMMA WalkHeard ==
  ASSUME Procs, NEW R, NEW Q, NEW c, Reads(R, Q, c), \A e \in R : e.at \in 1..now, NEW w, Walks(w, R \cup Q, c),
         NEW t \in 1..now, NEW p \in Pid, w[t - 1].known[p] # Nobody,
         NEW prog, NEW build, NEW line, line \cap lost = {}, Tells(R, c, lost, p, t, prog, build, line)
  PROVE  HeardOf(R, c, lost, p, t)
<1> DEFINE X == {x \in R : w[x.at].known[Subject(x)] # Nobody /\ Line(x) \cap lost = {}}
<1>1. R \in SUBSET Event /\ now \in Nat /\ ToldAt(R, c, lost) /\ Distinct(R) /\ \A e \in R : 1 <= e.at
  BY DEF Reads, Procs
<1>2. \A n \in 0..now : \A q \in Pid : SinceOf(w, R, c, n, q)
  BY <1>1, WalkSince
<1>3. ASSUME NEW u \in 1..now, NEW q \in Pid, w[u - 1].known[q] # Nobody,
             NEW g, NEW b, NEW k, k \cap lost = {}, Tells(R, c, lost, q, u, g, b, k)
      PROVE  Backed(R, c, X, q, u)
  <2>1. u - 1 \in 0..now /\ u - 1 + 1 = u /\ u \in Nat
    BY <1>1
  <2>2. SinceOf(w, R, c, u - 1, q)
    BY <1>2, <2>1
  <2>3. CASE Of(R, q, u) = {}
    <3>1. c.known[q] # Nobody
      BY <1>3, <2>1, <2>2, <2>3 DEF SinceOf
    <3> QED
      BY <2>3, <3>1 DEF Backed
  <2>4. CASE Of(R, q, u) # {}
    <3>1. PICK f \in R : Latest(R, q, u, f)
      BY <1>1, <2>1, <2>4, LatestIs
    <3>2. w[u - 1].known[q] = w[f.at].known[q]
      BY <2>1, <2>2, <3>1 DEF SinceOf
    <3>3. Line(f) = k /\ Subject(f) = q
      BY <1>3, <3>1 DEF Tells, Latest, Of
    <3>4. f \in X
      BY <1>3, <3>2, <3>3
    <3> HIDE DEF X
    <3> QED
      BY <3>1, <3>4 DEF Backed
  <2> QED
    BY <2>3, <2>4
<1>4. ASSUME NEW x \in X, x.what = "fork" PROVE Backed(R, c, X, x.pid, x.at)
  <2>1. x \in R /\ x \in Event /\ x.at \in 1..now /\ x.pid \in Pid /\ w[x.at].known[Subject(x)] # Nobody /\ Line(x) \cap lost = {}
    BY <1>1, EventIs
  <2>2. w[x.at].known[Subject(x)] = w[x.at - 1].known[x.pid]
    <3>1. Learns(w[x.at - 1], w[x.at], R, x.at)
      BY <2>1, WalkLearns
    <3> QED
      BY <1>4, <2>1, <3>1 DEF Learns
  <2>3. Tells(R, c, lost, x.pid, x.at, x.by, x.build, x.line) /\ x.line \cap lost = {}
    BY <1>1, <2>1 DEF ToldAt, Line
  <2> HIDE DEF X
  <2> QED
    BY <1>3, <2>1, <2>2, <2>3
<1>5. Backed(R, c, X, p, t)
  <2> HIDE DEF X
  <2> QED
    BY <1>3
<1>6. X \in SUBSET R /\ \A x \in X : Line(x) \cap lost = {}
  OBVIOUS
<1> HIDE DEF X
<1>7. Founded(R, c, lost, X)
  BY <1>4, <1>6 DEF Founded
<1> QED
  BY <1>5, <1>6, <1>7 DEF HeardOf

\* and what is known for a reason, a walk knows
LEMMA HeardWalk ==
  ASSUME Procs, NEW R, NEW Q, NEW c, Reads(R, Q, c), \A e \in R : e.at \in 1..now, NEW w, Walks(w, R \cup Q, c),
         NEW t \in 1..now, NEW p \in Pid, HeardOf(R, c, lost, p, t)
  PROVE  w[t - 1].known[p] # Nobody
<1>1. R \in SUBSET Event /\ now \in Nat /\ Distinct(R) /\ \A e \in R : 1 <= e.at
  BY DEF Reads, Procs
<1>2. \A n \in 0..now : \A q \in Pid : SinceOf(w, R, c, n, q)
  BY <1>1, WalkSince
<1>3. PICK X \in SUBSET R : Founded(R, c, lost, X) /\ Backed(R, c, X, p, t)
  BY DEF HeardOf
<1> DEFINE K(n) == \A x \in X : x.at <= n => w[x.at].known[Subject(x)] # Nobody
           P == {n \in 0..now : K(n)}
<1>4. ASSUME NEW u \in 1..now, K(u - 1), NEW q \in Pid, Backed(R, c, X, q, u) PROVE w[u - 1].known[q] # Nobody
  <2>1. u - 1 \in 0..now /\ u - 1 + 1 = u /\ u \in Nat
    BY <1>1
  <2>2. SinceOf(w, R, c, u - 1, q)
    BY <1>2, <2>1
  <2>3. CASE Of(R, q, u) = {} /\ c.known[q] # Nobody
    BY <2>1, <2>2, <2>3 DEF SinceOf
  <2>4. ASSUME NEW f \in X, Latest(R, q, u, f) PROVE w[u - 1].known[q] # Nobody
    <3>1. f \in R /\ f.at < u /\ Subject(f) = q /\ f.at \in Nat
      BY <1>1, <2>4, EventIs DEF Latest, Of
    <3>2. w[f.at].known[q] # Nobody
      BY <1>4, <2>1, <3>1
    <3> QED
      BY <2>1, <2>2, <2>4, <3>1, <3>2 DEF SinceOf
  <2> HIDE DEF K
  <2> QED
    BY <1>4, <2>3, <2>4 DEF Backed
<1>5. 0 \in P
  <2>1. \A x \in X : ~(x.at <= 0)
    <3>1. \A x \in R : 1 <= x.at /\ x.at \in Nat
      BY <1>1, EventIs
    <3> QED
      BY <3>1
  <2> QED
    BY <1>1, <2>1
<1>6. ASSUME NEW n \in 1..now, n - 1 \in P PROVE n \in P
  <2>1. n \in 0..now /\ n \in Nat /\ K(n - 1)
    BY <1>1, <1>6
  <2>2. ASSUME NEW x \in X, x.at = n PROVE w[n].known[Subject(x)] # Nobody
    <3>1. x \in R /\ x \in Event /\ x.pid \in Pid /\ (x.what = "fork" \/ x.what = "exec")
      BY <1>1, EventIs
    <3>2. Learns(w[n - 1], w[n], R, n)
      BY WalkLearns
    <3>3. CASE x.what = "exec"
      BY <2>2, <3>1, <3>2, <3>3 DEF Learns
    <3>4. CASE x.what = "fork"
      <4>1. Backed(R, c, X, x.pid, n)
        BY <1>3, <2>2, <3>4 DEF Founded
      <4>2. w[n - 1].known[x.pid] # Nobody
        <5> HIDE DEF K
        <5> QED
          BY <1>4, <2>1, <3>1, <4>1
      <4> QED
        BY <2>2, <3>1, <3>2, <3>4, <4>2 DEF Learns
    <3> QED
      BY <3>1, <3>3, <3>4
  <2>3. \A x \in X : x.at <= n => x.at = n \/ x.at <= n - 1
    <3>1. \A x \in R : x.at \in Nat
      BY <1>1, EventIs
    <3> QED
      BY <2>1, <3>1
  <2>4. K(n)
    BY <2>1, <2>2, <2>3
  <2> QED
    BY <2>1, <2>4
<1>7. P = 0..now
  <2>1. P \in SUBSET (0..now)
    OBVIOUS
  <2> HIDE DEF P
  <2> QED
    BY <1>1, <1>5, <1>6, <2>1, UpTo
<1>8. t - 1 \in 0..now
  BY <1>1
<1>9. K(t - 1)
  BY <1>7, <1>8
<1> HIDE DEF K
<1> QED
  BY <1>3, <1>4, <1>9


----------------------------------------------------------------------------
(* The stamps of the dlopens. *)

LEMMA OwesNext ==
  ASSUME NEW E, Pending' = E,
         \A r \in Reader : Pays(rd'[r], Answers(rd'[r], asks'), E, carried', lost', taken', seen')
  PROVE  Owes'
BY DEF Owes

LEMMA SinglesNext ==
  ASSUME NEW a, asks' = a, Single(TraceEvents(a)), \A r \in Reader : Single(TraceEvents(rd'[r].asks))
  PROVE  Singles'
<1>1. Single(TraceEvents(asks))' /\ \A r \in Reader : Single(TraceEvents(rd[r].asks))'
  BY DEF Single
<1> QED
  BY <1>1 DEF Singles

LEMMA AskGrows ==
  ASSUME Typed, NEW p \in Pid, (\E l \in Lib : Enter(p, l)) \/ \E ok \in BOOLEAN : Return(p, ok)
  PROVE  asks' = asks \/ \E e \in Probe : asks' = Append(asks, e) /\ (e.what = "out" => e.at = now + 1)
<1>0. p \in Alive /\ Ticks
  BY DEF Enter, Return
<1>1. p \in Alive /\ proc[p] \in Process /\ now' = now + 1 /\ now' \in Nat
  BY <1>0, AliveIs, Steady DEF Ticks, Typed, TypeOK, Procs
<1>2. ASSUME NEW l \in Lib, Enter(p, l)
      PROVE  asks' = asks \/ \E e \in Probe : asks' = Append(asks, e) /\ (e.what = "out" => e.at = now + 1)
  <2> DEFINE e == [what |-> "in", pid |-> p, lib |-> l]
  <2>1. asks' = asks \/ asks' = Append(asks, e)
    BY <1>2 DEF Enter
  <2>2. e \in Probe /\ e.what # "out"
    BY DEF Probe, InEvent
  <2> QED
    BY <2>1, <2>2
<1>3. ASSUME NEW ok \in BOOLEAN, Return(p, ok)
      PROVE  asks' = asks \/ \E e \in Probe : asks' = Append(asks, e) /\ (e.what = "out" => e.at = now + 1)
  <2> DEFINE call == Last(proc[p].calls)
             e == [what |-> "out", at |-> now', pid |-> p, ok |-> ok, lib |-> call.lib,
                   by |-> proc[p].prog, line |-> proc[p].line]
  <2>1. asks' = asks \/ asks' = Append(asks, e)
    BY <1>3 DEF Return
  <2>2. call.lib \in Lib
    BY <1>1, <1>3, BackIs DEF Return
  <2> HIDE DEF call
  <2>3. e \in Probe /\ e.at = now + 1
    BY <1>1, <2>2 DEF Probe, OutEvent, Process
  <2> QED
    BY <2>1, <2>3
<1> QED
  BY <1>2, <1>3

\* a return is one dlopen more at most
LEMMA PairMore ==
  ASSUME NEW st \in PairState, NEW e \in Probe
  PROVE  st.out \subseteq Pair(st, e).out /\ \A a, b \in Pair(st, e).out : a \notin st.out /\ b \notin st.out => a = b
<1>1. CASE e.what = "in"
  <2>1. Pair(st, e) = [st EXCEPT !.open[e.pid] = Append(@, e.lib)]
    BY <1>1 DEF Pair
  <2>2. Pair(st, e).out = st.out
    BY <2>1 DEF PairState
  <2> QED
    BY <2>2
<1>2. CASE e.what # "in" /\ st.open[e.pid] = <<>>
  BY <1>2 DEF Pair
<1>3. CASE e.what # "in" /\ st.open[e.pid] # <<>>
  <2> DEFINE b == [what |-> "asked", at |-> e.at, pid |-> e.pid, name |-> Last(st.open[e.pid]), ok |-> e.ok,
                   lib |-> e.lib, by |-> e.by, line |-> e.line]
  <2>1. Pair(st, e).out = st.out \cup {b}
    BY <1>3 DEF Pair
  <2> HIDE DEF b
  <2> QED
    BY <2>1
<1> QED
  BY <1>1, <1>2, <1>3

LEMMA AnswersGrow ==
  ASSUME NEW es \in Seq(Probe), NEW e \in Probe
  PROVE  TraceEvents(es) \subseteq TraceEvents(Append(es, e))
BY PairedAppend, PairMore DEF TraceEvents

LEMMA SinglesInit == Init => Singles
<1> SUFFICES ASSUME Init PROVE Singles
  OBVIOUS
<1>1. asks = <<>> /\ \A r \in Reader : rd[r].asks = <<>>
  BY IdleIs DEF Init
<1>2. Single(TraceEvents(<<>>))
  BY PairedNone DEF Single, TraceEvents, Unpaired
<1> QED
  BY <1>1, <1>2 DEF Singles

LEMMA SinglesAsk ==
  ASSUME Typed, Stamped, Singles, rd' = rd, NEW e \in Probe, asks' = Append(asks, e), e.what = "out" => e.at = now + 1
  PROVE  Singles'
<1> DEFINE st == Paired(asks)
<1>1. asks \in Seq(Probe) /\ now \in Nat
  BY Steady
<1>2. Paired(Append(asks, e)) = Pair(st, e) /\ st \in PairState
  BY <1>1, PairedAppend
<1>3. Single(st.out)
  BY DEF Singles, TraceEvents
<1>4. ASSUME NEW a \in st.out PROVE a.at # now + 1
  <2>1. PICK b \in Outs(asks) : From(a, b)
    BY <1>1, TracedFrom DEF TraceEvents
  <2>2. b \in Asks
    BY DEF Asks
  <2>3. b.at \in 1..now
    BY <2>2 DEF Stamped, Fits
  <2> QED
    BY <1>1, <2>1, <2>3 DEF From
<1> HIDE DEF st
<1>5. Single(Pair(st, e).out)
  <2> SUFFICES ASSUME NEW a \in Pair(st, e).out, NEW b \in Pair(st, e).out, a.at = b.at PROVE a = b
    BY DEF Single
  <2>1. (a \notin st.out => a.at = now + 1) /\ (b \notin st.out => b.at = now + 1)
    BY <1>2, PairFrom DEF From
  <2> QED
    BY <1>2, <1>3, <1>4, <2>1, PairMore DEF Single
<1>6. Single(TraceEvents(asks'))
  BY <1>2, <1>5 DEF TraceEvents
<1> QED
  BY <1>6, SinglesNext DEF Singles

LEMMA SinglesStep == Typed /\ Shape /\ Stamped /\ Singles /\ [Next]_vars => Singles'
<1> SUFFICES ASSUME Typed, Shape, Stamped, Singles, [Next]_vars PROVE Singles'
  OBVIOUS
<1>0. Single(TraceEvents(<<>>))
  BY PairedNone DEF Single, TraceEvents, Unpaired
<1>1. CASE asks' = asks /\ rd' = rd
  BY <1>1, SinglesNext DEF Singles
<1>2. CASE Kernel
  <2>1. rd' = rd
    BY <1>2, KernelReads
  <2>2. ASSUME NEW p \in Pid, (\E l \in Lib : Enter(p, l)) \/ \E ok \in BOOLEAN : Return(p, ok) PROVE Singles'
    BY <1>1, <2>1, <2>2, AskGrows, SinglesAsk
  <2>3. ASSUME NEW p \in Pid, Exit(p) \/ (\E c \in Pid : Fork(p, c))
               \/ \E f \in Program, a, s \in Program \cup {Nobody} : Exec(p, f, a, s)
        PROVE  asks' = asks
    BY <2>3 DEF Exit, Fork, Exec
  <2> QED
    BY <1>1, <1>2, <2>1, <2>2, <2>3 DEF Kernel
<1>3. ASSUME NEW r \in Reader, Read(r) \/ Kill(r) PROVE Singles'
  <2>1. asks' \in {asks, <<>>}
    BY <1>3 DEF Read, Take, DrainAsks, DrainExecs, Arm, Walk, ReadSeen, WriteSeen, Finish, Kill, kernel
  <2>2. \A s \in Reader : rd'[s].asks \in {rd[s].asks, asks, <<>>}
    BY <1>3, HeldAsks
  <2>3. Single(TraceEvents(asks')) /\ \A s \in Reader : Single(TraceEvents(rd'[s].asks))
    BY <1>0, <2>1, <2>2 DEF Singles
  <2> QED
    BY <2>3, SinglesNext
<1>4. ASSUME NEW c \in Renewed, Install(c) PROVE Singles'
  <2> DEFINE o(r) == {s \in rd[r].owed : s.prog # c}
  <2>1. ASSUME NEW r \in Reader PROVE rd'[r].asks = rd[r].asks
    <3>1. rd[r] \in Holding /\ o(r) \in SUBSET Said
      BY Steady DEF Holding
    <3>2. rd'[r] = Owing(rd[r], o(r))
      BY <1>4 DEF Install, Owing
    <3> HIDE DEF o
    <3> QED
      BY <3>1, <3>2, OwingIs
  <2>2. asks' = asks
    BY <1>4 DEF Install
  <2> QED
    BY <2>1, <2>2, SinglesNext DEF Singles
<1> QED
  BY <1>1, <1>2, <1>3, <1>4 DEF Next, vars


----------------------------------------------------------------------------
(* What is owed can be paid, whatever comes between. *)

\* the dlopen of a debt is one there is, and what made it was what the events say
LEMMA AskTold ==
  ASSUME Typed, Stamped, Follows, NEW r \in Reader, NEW s, AskOf(s) \in Answers(rd[r], asks), taken[s.pid] <= s.at
  PROVE  /\ s.at \in 1..now /\ s.pid \in Pid /\ AskOf(s) \in Asking
         /\ Tells(Pending, carried, lost, s.pid, s.at, s.by, FALSE, s.line)
<1> DEFINE es == IF rd[r].pc = "drain" /\ rd[r].left = Begun THEN asks ELSE rd[r].asks
           a == AskOf(s)
<1>1. es \in Seq(Probe) /\ Outs(es) \subseteq Asks
  <2>1. Outs(rd[r].asks) \subseteq HadAsks
    BY DEF HadAsks
  <2> QED
    BY <2>1, Steady DEF Asks, Holding
<1>2. a \in TraceEvents(es)
  BY DEF Answers
<1>3. a.at = s.at /\ a.pid = s.pid /\ a.by = s.by /\ a.line = s.line
  BY DEF AskOf
<1> HIDE DEF es, a
<1>4. PICK b \in Asks : From(a, b)
  BY <1>1, <1>2, TracedFrom
<1>5. a \in Asking /\ a.pid \in Pid
  BY <1>1, <1>2, TraceEventsTyped DEF Asking
<1>6. b.at = s.at /\ b.pid = s.pid /\ b.by = s.by /\ b.line = s.line
  BY <1>3, <1>4 DEF From
<1>7. b.at \in 1..now
  BY DEF Stamped, Fits
<1>8. \A x : b.line = x => (taken[b.pid] <= b.at => Tells(Pending, carried, lost, b.pid, b.at, b.by, FALSE, x))
  BY DEF Follows, ToldAsks
<1> QED
  BY <1>3, <1>5, <1>6, <1>7, <1>8 DEF a

\* more dlopens, of the same events
LEMMA PaysMore ==
  ASSUME NEW h, NEW Q, NEW V, NEW E, NEW c, NEW l, NEW tk, NEW sn, Pays(h, Q, E, c, l, tk, sn), Q \subseteq V
  PROVE  Pays(h, V, E, c, l, tk, sn)
BY DEF Pays, Due

\* a reader's step: the others owe nothing
LEMMA OwesOne ==
  ASSUME Typed, Owes, NEW r \in Reader, lock \in {r, Nobody}, NEW h, rd' = [rd EXCEPT ![r] = h],
         NEW E, Pending' = E, Pays(h, Answers(h, asks'), E, carried', lost', taken', seen')
  PROVE  Owes'
<1>1. rd'[r] = h /\ \A s \in Reader : s # r => rd'[s] = rd[s]
  BY DEF Typed
<1>2. ASSUME NEW s \in Reader, s # r PROVE Pays(rd'[s], Answers(rd'[s], asks'), E, carried', lost', taken', seen')
  <2>1. rd[s].pc = "idle"
    BY <1>2, TraceAssumption, Steady
  <2>2. rd[s].owed = {}
    BY <2>1 DEF Owes, Pays
  <2>3. rd'[s].pc = "idle" /\ rd'[s].owed = {}
    BY <1>1, <1>2, <2>1, <2>2
  <2> QED
    BY <2>3 DEF Pays
<1>3. \A s \in Reader : Pays(rd'[s], Answers(rd'[s], asks'), E, carried', lost', taken', seen')
  BY <1>1, <1>2
<1> QED
  BY <1>3, OwesNext

\* nothing is stamped but a call or a return, or nothing at all
LEMMA OwesAsk ==
  ASSUME Typed, Owes, UNCHANGED <<execs, carried, seen, rd, lost, taken>>,
         asks' = asks \/ \E e \in Probe : asks' = Append(asks, e)
  PROVE  Owes'
<1>1. Pending' = Pending
  BY DEF Pending, Had
<1>2. \A r \in Reader : Answers(rd[r], asks) \subseteq Answers(rd[r], asks')
  BY Steady, AnswersGrow DEF Answers
<1>3. \A r \in Reader : Pays(rd[r], Answers(rd[r], asks'), Pending, carried, lost, taken, seen)
  BY <1>2, PaysMore DEF Owes
<1> QED
  BY <1>1, <1>3, OwesNext

\* what is due stays so while only lost events go and later ones come
LEMMA DueStill ==
  ASSUME Typed, Stamped, Follows, NEW G, NEW m, lost \subseteq m,
         \A f \in Pending : f \in G \/ f.at \in m, \A g \in G : g \in Pending \/ g.at = now + 1,
         NEW r \in Reader, NEW s, s.line \cap m = {}, Due(s, Answers(rd[r], asks), Pending, carried, lost, taken)
  PROVE  Due(s, Answers(rd[r], asks), G, carried, m, taken)
<1>1. (\A f \in Pending : f.at \in 1..now) /\ now \in Nat
  BY Steady DEF Stamped, Fits
<1>2. ASSUME NEW t \in 1..now PROVE Within(Pending, G, m, t)
  BY <1>1, <1>2 DEF Within, Line
<1>3. AskOf(s) \in Answers(rd[r], asks) /\ taken[s.pid] <= s.at /\ HeardOf(Pending, carried, lost, s.pid, s.at)
  BY DEF Due
<1>4. s.at \in 1..now /\ Tells(Pending, carried, lost, s.pid, s.at, s.by, FALSE, s.line)
  BY <1>3, AskTold
<1>5. ToldAt(Pending, carried, lost)
  BY DEF Follows
<1>6. Within(Pending, G, m, s.at) /\ \A x \in Pending : x \in G => Within(Pending, G, m, x.at)
  BY <1>1, <1>2, <1>4
<1>7. ASSUME NEW build, Tells(Pending, carried, lost, s.pid, s.at, s.by, build, s.line)
      PROVE  HeardOf(G, carried, m, s.pid, s.at)
  BY <1>3, <1>5, <1>6, <1>7, HeardStill
<1>8. HeardOf(G, carried, m, s.pid, s.at)
  BY <1>4, <1>7
<1> QED
  BY <1>3, <1>8 DEF Due

\* an event comes, and with it another may go
LEMMA OwesEvent ==
  ASSUME Typed, Stamped, Follows, Owes, NEW e \in Event, e.at = now + 1, NEW astray, Logged(e, astray),
         UNCHANGED <<asks, carried, seen, rd, taken>>
  PROVE  Owes'
<1>1. PICK rest \in Seq(Event) :
        /\ execs' = Append(rest, e) /\ Len(rest) < ExecCap
        /\ \/ rest = execs /\ lost' = astray \cup lost
           \/ execs # <<>> /\ rest = Tail(execs) /\ lost' = astray \cup (lost \cup {Head(execs).at})
  BY LoggedIs
<1>2. /\ ToSet(execs') = ToSet(rest) \cup {e} /\ ToSet(rest) \subseteq ToSet(execs) /\ lost \subseteq lost'
      /\ \A f \in ToSet(execs) : f \in ToSet(rest) \/ f.at \in lost'
  <2>1. execs \in Seq(Event)
    BY Steady
  <2>2. execs # <<>> => ToSet(execs) = ToSet(Tail(execs)) \cup {Head(execs)}
    BY <2>1, TailSet
  <2>3. ToSet(execs') = ToSet(rest) \cup {e}
    BY <1>1, AppendSet
  <2> QED
    BY <1>1, <2>2, <2>3
<1> DEFINE G == ToSet(execs') \cup Had
           m == lost'
<1>3. Pending' = G
  BY DEF Pending, Had
<1>4. (\A f \in Pending : f \in G \/ f.at \in m) /\ (\A g \in G : g \in Pending \/ g.at = now + 1) /\ lost \subseteq m
  BY <1>2 DEF Pending
<1>6. now \in Nat
  BY Steady
<1> HIDE DEF G, m
<1>8. ASSUME NEW r \in Reader PROVE Pays(rd[r], Answers(rd[r], asks), G, carried, m, taken, seen)
  <2>1. Pays(rd[r], Answers(rd[r], asks), Pending, carried, lost, taken, seen)
    BY DEF Owes
  <2>2. ASSUME NEW s, s.line \cap m = {}, Due(s, Answers(rd[r], asks), Pending, carried, lost, taken)
        PROVE  Due(s, Answers(rd[r], asks), G, carried, m, taken)
    BY <1>4, <2>2, DueStill
  <2>3. \A s : s.line \cap m = {} => s.line \cap lost = {}
    BY <1>4
  <2> QED
    BY <2>1, <2>2, <2>3 DEF Pays
<1>9. \A r \in Reader : Pays(rd'[r], Answers(rd'[r], asks'), G, carried', lost', taken', seen')
  BY <1>8 DEF m
<1> QED
  BY <1>3, <1>9, OwesNext


\* what a read of both buffers would have heard is there to be heard
LEMMA OwesTake ==
  ASSUME Typed, Shape, Stamped, Follows, Calling, Owes, NEW r \in Reader, Take(r)
  PROVE  Owes'
<1> DEFINE R == ToSet(execs)
           Q == TraceEvents(asks)
           o == {s \in Credits(R \cup Q, carried) : s.heard /\ s.sure}
           h == Taking(Order, o)
<1>1. o \in SUBSET Said /\ Order \in Seq({"asks", "execs", "arm"}) /\ Order = Begun
  <2>1. Credits(R \cup Q, carried) \in SUBSET Said
    BY Steady, CreditsTyped
  <2> QED
    BY <2>1 DEF Order, Begun
<1>2. /\ rd' = [rd EXCEPT ![r] = h] /\ rd[r].pc = "idle" /\ lock = Nobody
      /\ UNCHANGED <<now, proc, execs, asks, carried, seen, lost, taken>>
  BY DEF Take, Taking, Free, kernel
<1>3. Reads(R, Q, carried) /\ Pending = R
  BY <1>2, BothReads
<1>4. /\ h.pc = "drain" /\ h.execs = <<>> /\ h.owed = o /\ h.left = Begun
  <2> HIDE DEF o
  <2> QED
    BY <1>1, TakingIs
<1>5. Pending' = R
  <2> HIDE DEF h
  <2>1. Had' = ToSet(h.execs)
    BY <1>2, OnlyIs
  <2> QED
    BY <1>2, <1>4, <2>1, NoneIs DEF Pending
<1>6. Answers(h, asks') = Q
  BY <1>2, <1>4 DEF Answers
<1>7. Procs /\ R \cup Q \in SUBSET (Event \cup Asking) /\ carried \in Carry /\ (\A e \in R : e.at \in 1..now) /\ now \in Nat
  BY <1>3, Steady DEF Typed, Procs, Reads, Stamped, Fits
<1>8. PICK w : Walks(w, R \cup Q, carried) /\ Lineage(R \cup Q, carried) = w[now]
  BY <1>7, LineageIs
<1>9. ASSUME NEW s \in o
      PROVE  s.what = "asked" /\ s.prog = s.by /\ Counts(s) /\ Due(s, Q, R, carried, lost, taken)
  <2>1. s \in w[now].said /\ Counts(s) /\ s.heard /\ s.sure
    BY <1>8, <1>9 DEF Credits
  <2> HIDE DEF o, h
  <2>2. PICK a \in Q : a.at \in 1..now /\ s = Heeds(w[a.at - 1], a)
    <3> HIDE DEF R, Q
    <3>1. \A x \in w[now].said : x.heard => \E a \in Q : a.at \in 1..now /\ x = Heeds(w[a.at - 1], a)
      BY <1>3, <1>7, <1>8, WalkSays
    <3> QED
      BY <2>1, <3>1
  <2>3. Right(s)
    <3>1. now \in 0..now /\ \A e \in R : 1 <= e.at
      BY <1>7
    <3>2. Knows(w[now], R, carried, now + 1)
      <4> HIDE DEF R, Q
      <4> QED
        BY <1>3, <1>7, <1>8, <3>1, KnowsAlong
    <3> QED
      BY <2>1, <3>2 DEF Knows
  <2>4. s.prog = s.by
    BY <2>1, <2>3 DEF Right
  <2> HIDE DEF R, Q
  <2>5. a \in Asking /\ Q \in SUBSET Asking
    BY <1>3 DEF Reads
  <2>6. /\ s.what = "asked" /\ s.at = a.at /\ s.pid = a.pid /\ s.name = a.name /\ s.ok = a.ok /\ s.lib = a.lib
        /\ s.by = a.by /\ s.line = a.line /\ (s.heard <=> w[a.at - 1].known[a.pid] # Nobody)
        /\ (s.sure => a.line \cap lost = {} /\ taken[a.pid] <= a.at)
    BY <2>2 DEF Heeds
  <2>7. AskOf(s) = a
    BY <2>5, <2>6 DEF AskOf, Asking
  <2>8. a.pid \in Pid /\ Tells(R, carried, lost, a.pid, a.at, a.by, FALSE, a.line) /\ a.line \cap lost = {}
        /\ taken[a.pid] <= a.at /\ w[a.at - 1].known[a.pid] # Nobody
    BY <1>3, <2>1, <2>5, <2>6 DEF Reads, Asking
  <2>9. ASSUME NEW build, Tells(R, carried, lost, a.pid, a.at, a.by, build, a.line)
        PROVE  HeardOf(R, carried, lost, a.pid, a.at)
    BY <1>3, <1>7, <1>8, <2>2, <2>8, <2>9, WalkHeard
  <2>10. HeardOf(R, carried, lost, s.pid, s.at)
    BY <2>6, <2>8, <2>9
  <2> QED
    BY <2>1, <2>4, <2>6, <2>7, <2>8, <2>10 DEF Due
<1> HIDE DEF o, R, Q, h
<1>10. Pays(h, Q, R, carried, lost, taken, seen)
  <2>1. h.pc = "drain"
    BY <1>4
  <2> QED
    BY <1>4, <1>9, <2>1 DEF Pays
<1>11. Pays(h, Answers(h, asks'), R, carried', lost', taken', seen')
  BY <1>2, <1>6, <1>10
<1> QED
  BY <1>2, <1>5, <1>11, OwesOne

\* a drain takes no dlopen and no event from the walk
LEMMA OwesDrain ==
  ASSUME Typed, Shape, Owes, NEW r \in Reader, lock = r, NEW h, rd' = [rd EXCEPT ![r] = h], rd[r].pc = "drain",
         h.pc \in {"drain", "walk"}, h.owed = rd[r].owed, Answers(h, asks') = Answers(rd[r], asks),
         ToSet(execs') \cup ToSet(h.execs) = ToSet(execs) \cup ToSet(rd[r].execs),
         UNCHANGED <<carried, seen, lost, taken>>
  PROVE  Owes'
<1>1. Pending' = Pending
  <2>1. Had = ToSet(rd[r].execs) /\ Had' = ToSet(h.execs)
    BY OnlyIs
  <2> QED
    BY <2>1 DEF Pending
<1>2. Pays(rd[r], Answers(rd[r], asks), Pending, carried, lost, taken, seen)
  BY DEF Owes
<1>3. Pays(h, Answers(h, asks'), Pending, carried', lost', taken', seen')
  BY <1>2 DEF Pays
<1> QED
  BY <1>1, <1>3, OwesOne

\* nor does arm, whatever it drops of what came after
LEMMA OwesDropped ==
  ASSUME Typed, Shape, Stamped, Follows, Owes, NEW r \in Reader, lock = r, NEW h, rd' = [rd EXCEPT ![r] = h],
         rd[r].pc = "drain", h.pc = "walk", h.owed = rd[r].owed, h.execs = rd[r].execs,
         Answers(h, asks') = Answers(rd[r], asks), UNCHANGED <<carried, seen, taken>>,
         execs' = <<>>, lost' = lost \cup {e.at : e \in ToSet(execs)}
  PROVE  Owes'
<1> DEFINE G == ToSet(rd[r].execs)
           m == lost'
<1>1. Pending' = G /\ Pending = ToSet(execs) \cup G
  BY OnlyIs, NoneIs DEF Pending
<1>2. (\A f \in Pending : f \in G \/ f.at \in m) /\ (\A g \in G : g \in Pending) /\ lost \subseteq m
  BY <1>1
<1> HIDE DEF G, m
<1>3. Pays(rd[r], Answers(rd[r], asks), Pending, carried, lost, taken, seen)
  BY DEF Owes
<1>4. ASSUME NEW s, s.line \cap m = {}, Due(s, Answers(rd[r], asks), Pending, carried, lost, taken)
      PROVE  Due(s, Answers(rd[r], asks), G, carried, m, taken)
  BY <1>2, <1>4, DueStill
<1>5. \A s : s.line \cap m = {} => s.line \cap lost = {}
  BY <1>2
<1>6. Pays(h, Answers(rd[r], asks), G, carried, m, taken, seen)
  BY <1>3, <1>4, <1>5 DEF Pays
<1>7. Pays(h, Answers(h, asks'), G, carried', lost', taken', seen')
  BY <1>6 DEF m
<1> QED
  BY <1>1, <1>7, OwesOne

LEMMA OwesDrains ==
  ASSUME Typed, Shape, Stamped, Follows, Owes, NEW r \in Reader, DrainAsks(r) \/ DrainExecs(r) \/ Arm(r)
  PROVE  Owes'
<1>0. Begun # AsksHad /\ Begun # BothHad /\ AsksHad # BothHad
  BY DEF Begun, AsksHad, BothHad
<1>1. CASE DrainAsks(r)
  <2> DEFINE h == WithAsks(Drained(r), asks)
  <2>1. Turn(r, "asks") /\ rd' = [rd EXCEPT ![r] = h] /\ asks' = <<>>
        /\ UNCHANGED <<execs, carried, seen, lost, taken>>
    BY <1>1 DEF DrainAsks, WithAsks, kernel
  <2>2. /\ Drained(r) \in Holding /\ Drained(r).pc = "drain" /\ Drained(r).left = AsksHad
        /\ Drained(r).execs = rd[r].execs /\ Drained(r).owed = rd[r].owed /\ lock = r
        /\ rd[r].pc = "drain" /\ rd[r].left = Begun
    BY <2>1, TurnIs, DrainedIs, ShapeDrain
  <2>3. h.pc = "drain" /\ h.left = AsksHad /\ h.execs = rd[r].execs /\ h.asks = asks /\ h.owed = rd[r].owed
    BY <2>2, Steady, WithAsksIs
  <2> HIDE DEF h
  <2>4. Answers(h, asks') = Answers(rd[r], asks)
    BY <1>0, <2>2, <2>3 DEF Answers
  <2> QED
    BY <2>1, <2>2, <2>3, <2>4, OwesDrain
<1>2. CASE DrainExecs(r)
  <2> DEFINE h == WithExecs(Drained(r), execs)
  <2>1. Turn(r, "execs") /\ rd' = [rd EXCEPT ![r] = h] /\ execs' = <<>>
        /\ UNCHANGED <<asks, carried, seen, lost, taken>>
    BY <1>2 DEF DrainExecs, WithExecs
  <2>2. /\ Drained(r) \in Holding /\ Drained(r).pc = "drain" /\ Drained(r).left = BothHad
        /\ Drained(r).asks = rd[r].asks /\ Drained(r).owed = rd[r].owed /\ lock = r
        /\ rd[r].pc = "drain" /\ rd[r].left = AsksHad
    BY <2>1, TurnIs, DrainedIs, ShapeDrain
  <2>3. h.pc = "drain" /\ h.left = BothHad /\ h.execs = execs /\ h.asks = rd[r].asks /\ h.owed = rd[r].owed
    BY <2>2, Steady, WithExecsIs
  <2>4. rd[r].execs = <<>>
    BY <1>0, <2>2 DEF Shape, Held
  <2> HIDE DEF h
  <2>5. Answers(h, asks') = Answers(rd[r], asks)
    BY <1>0, <2>1, <2>2, <2>3 DEF Answers
  <2>6. ToSet(execs') \cup ToSet(h.execs) = ToSet(execs) \cup ToSet(rd[r].execs)
    BY <2>1, <2>3, <2>4, NoneIs
  <2> QED
    BY <2>1, <2>2, <2>3, <2>5, <2>6, OwesDrain
<1>3. CASE Arm(r)
  <2> DEFINE h == Drained(r)
  <2>1. Turn(r, "arm") /\ rd' = [rd EXCEPT ![r] = h] /\ UNCHANGED <<carried, seen, taken>>
        /\ \/ execs' = execs /\ lost' = lost
           \/ execs' = <<>> /\ lost' = lost \cup {e.at : e \in ToSet(execs)}
    BY <1>3 DEF Arm
  <2>2. /\ h.pc = "walk" /\ h.asks = rd[r].asks /\ h.execs = rd[r].execs /\ h.owed = rd[r].owed /\ lock = r
        /\ rd[r].pc = "drain" /\ rd[r].left = BothHad
    BY <2>1, TurnIs, DrainedIs, ShapeDrain
  <2> HIDE DEF h
  <2>3. Answers(h, asks') = Answers(rd[r], asks)
    BY <1>0, <2>2 DEF Answers
  <2>4. CASE execs' = execs /\ lost' = lost
    BY <2>1, <2>2, <2>3, <2>4, OwesDrain
  <2>5. CASE execs' = <<>> /\ lost' = lost \cup {e.at : e \in ToSet(execs)}
    BY <2>1, <2>2, <2>3, <2>5, OwesDropped
  <2> QED
    BY <2>1, <2>4, <2>5
<1> QED
  BY <1>1, <1>2, <1>3


\* what is heard of what asked, a walk credits it with
LEMMA WalkPays ==
  ASSUME Procs, NEW R, NEW Q, NEW c, Reads(R, Q, c), \A e \in R : e.at \in 1..now, Single(Q),
         NEW w, Walks(w, R \cup Q, c), NEW s, s.what = "asked", s.prog = s.by, Counts(s), AskOf(s) \in Q,
         s.at \in 1..now, taken[s.pid] <= s.at, s.line \cap lost = {}, HeardOf(R, c, lost, s.pid, s.at)
  PROVE  s.prog \in Program /\ \E x \in w[now].said : Counts(x) /\ x.prog = s.prog /\ x.name = s.name
<1> DEFINE a == AskOf(s)
           u == w[s.at - 1]
           x == Heeds(u, a)
<1>1. a \in Q /\ a \in Asking /\ a.at = s.at /\ a.pid = s.pid /\ a.by = s.by /\ a.line = s.line /\ a.name = s.name /\ a.ok = s.ok
  BY DEF AskOf, Reads
<1> HIDE DEF a
<1>2. s.pid \in Pid /\ s.by \in Program /\ s.at \in Nat /\ now \in Nat /\ s.at - 1 \in 0..now /\ s.at - 1 + 1 = s.at
      /\ s.at \in 0..now
  BY <1>1 DEF Asking, Procs
<1>3. u.known[s.pid] # Nobody
  BY <1>2, HeardWalk
<1>4. u \in LinState /\ Knows(u, R, c, s.at)
  <2>1. \A e \in R : 1 <= e.at
    BY <1>2
  <2>2. \A n \in 0..now : w[n] \in LinState /\ Knows(w[n], R, c, n + 1)
    BY <2>1, KnowsAlong
  <2> QED
    BY <1>2, <2>2
<1>5. w[s.at].said \subseteq w[now].said
  BY <1>2, WalkSays
<1>6. x \in w[s.at].said
  <2>1. Hears(w[s.at - 1], w[s.at], Q, s.at)
    BY WalkLearns
  <2> QED
    BY <1>1, <2>1 DEF Hears
<1> HIDE DEF u
<1>7. u.known[s.pid] = s.by
  <2>1. Tells(R, c, lost, s.pid, s.at, s.by, FALSE, s.line)
    BY <1>1 DEF Reads
  <2>2. ASSUME NEW build \in BOOLEAN, Tells(R, c, lost, s.pid, s.at, s.by, build, s.line)
        PROVE  u.known[s.pid] = s.by
    BY <1>2, <1>3, <1>4, <2>2, WhatIs
  <2> QED
    BY <2>1, <2>2
<1>8. x.what = "asked" /\ x.prog = s.prog /\ x.name = s.name /\ x.ok = s.ok
  BY <1>1, <1>3, <1>7 DEF Heeds
<1> HIDE DEF x
<1>9. Counts(x)
  BY <1>8 DEF Counts
<1> QED
  BY <1>2, <1>5, <1>6, <1>8, <1>9

\* what a walk writes down pays what was owed
LEMMA OwesWalk ==
  ASSUME Typed, Shape, Stamped, Follows, Calling, Singles, Owes, NEW r \in Reader, Walk(r)
  PROVE  Owes'
<1> DEFINE R == ToSet(rd[r].execs)
           Q == TraceEvents(rd[r].asks)
           F == ToSet(execs)
           h == rd'[r]
<1>1. /\ h.pc = "add" /\ h.owed = rd[r].owed /\ rd' = [rd EXCEPT ![r] = h] /\ lock = r
      /\ h.found = {s \in Lineage(R \cup Q, carried).said : Counts(s)}
      /\ \A s \in h.found : s.prog \in Program => s.name \in h.add[s.prog]
      /\ rd[r].asks \in Seq(Probe)
  BY WalkHolds
<1>2. rd[r].pc = "walk" /\ lost \subseteq lost'
  BY DEF Walk
<1>3. Reads(R, Q, carried) /\ Single(Q) /\ Q = Answers(rd[r], asks)
  BY <1>2, WalkReads DEF Singles, Answers
<1>4. Pending = F \cup R /\ (\A e \in Pending : e.at \in 1..now) /\ now \in Nat /\ ToldAt(Pending, carried, lost)
      /\ Outs(rd[r].asks) \subseteq Asks
  BY <1>1, OnlyIs, Steady DEF Pending, Asks, Stamped, Fits, Follows
<1>5. /\ \A e \in R, f \in F : ~(f.at < e.at)
      /\ \A a \in Q, f \in F : ~(f.at < a.at)
  <2>1. Ahead(rd[r], F) /\ BothTaken(rd[r])
    BY <1>2 DEF Stamped, BothTaken
  <2>2. \A e \in R, f \in F : ~(f.at < e.at)
    BY <1>4, <2>1 DEF Ahead
  <2>3. ASSUME NEW a \in Q, NEW f \in F PROVE ~(f.at < a.at)
    <3>1. PICK b \in Outs(rd[r].asks) : From(a, b)
      BY <1>1, TracedFrom
    <3>2. b.at < f.at /\ b.at \in 1..now /\ f.at \in 1..now /\ a.at = b.at
      BY <1>4, <2>1, <3>1 DEF Ahead, From, Stamped, Fits
    <3> QED
      BY <1>4, <3>2
  <2> QED
    BY <2>2, <2>3
<1>6. Procs /\ R \cup Q \in SUBSET (Event \cup Asking) /\ carried \in Carry
  <2>1. Procs
    BY Steady DEF Typed, Procs
  <2> HIDE DEF R, Q
  <2> QED
    BY <1>3, <2>1 DEF Reads
<1>7. PICK w : Walks(w, R \cup Q, carried) /\ Lineage(R \cup Q, carried) = w[now]
  BY <1>6, LineageIs
<1>8. Pays(rd[r], Q, Pending, carried, lost, taken, seen)
  BY <1>3 DEF Owes
<1> HIDE DEF R, Q, F, h
<1>9. ASSUME NEW s \in rd[r].owed, s.line \cap lost = {} PROVE s.prog \in Program /\ s.name \in h.add[s.prog]
  <2>1. s.what = "asked" /\ s.prog = s.by /\ Counts(s) /\ Due(s, Q, Pending, carried, lost, taken)
    BY <1>2, <1>8, <1>9 DEF Pays
  <2>2. AskOf(s) \in Q /\ taken[s.pid] <= s.at /\ HeardOf(Pending, carried, lost, s.pid, s.at)
    BY <2>1 DEF Due
  <2>3. s.at \in 1..now /\ AskOf(s).at = s.at /\ Tells(Pending, carried, lost, s.pid, s.at, s.by, FALSE, s.line)
    BY <1>3, <2>2, AskTold DEF AskOf
  <2>4. Within(Pending, R, lost, s.at) /\ \A x \in Pending : x \in R => Within(Pending, R, lost, x.at)
    BY <1>4, <1>5, <2>2, <2>3 DEF Within
  <2>5. ASSUME NEW build, Tells(Pending, carried, lost, s.pid, s.at, s.by, build, s.line)
        PROVE  HeardOf(R, carried, lost, s.pid, s.at)
    BY <1>4, <1>9, <2>2, <2>4, <2>5, HeardStill
  <2>6. HeardOf(R, carried, lost, s.pid, s.at)
    BY <2>3, <2>5
  <2>7. s.prog \in Program /\ \E x \in w[now].said : Counts(x) /\ x.prog = s.prog /\ x.name = s.name
    <3>1. \A e \in R : e.at \in 1..now
      BY <1>4
    <3> QED
      BY <1>3, <1>6, <1>7, <1>9, <2>1, <2>2, <2>3, <2>6, <3>1, WalkPays
  <2>8. \A x \in w[now].said : Counts(x) => x \in h.found
    BY <1>1, <1>7
  <2> QED
    BY <1>1, <2>7, <2>8
<1>10. \A E, Z, d, l, tk, sn : lost \subseteq l => Pays(h, Z, E, d, l, tk, sn)
  <2>1. \A l, s : lost \subseteq l /\ s.line \cap l = {} => s.line \cap lost = {}
    OBVIOUS
  <2> QED
    BY <1>1, <1>9, <2>1 DEF Pays
<1> QED
  BY <1>1, <1>2, <1>10, OwesOne


----------------------------------------------------------------------------
(* What is written down. *)

LEMMA OwesReadSeen ==
  ASSUME Typed, Owes, NEW r \in Reader, NEW c \in Program, ReadSeen(r, c)
  PROVE  Owes'
<1> DEFINE h == Reading(rd[r], c, seen[c])
<1>1. rd[r].pc = "add" /\ rd' = [rd EXCEPT ![r] = h] /\ UNCHANGED <<execs, carried, seen, lost, taken>>
  BY DEF ReadSeen, Reading, kernel
<1>2. rd[r] \in Holding /\ seen[c] \in SUBSET (Lib \cup Program) /\ lock = r
  BY <1>1, Steady
<1>3. h.pc = "write" /\ h.add = rd[r].add /\ h.for = c /\ h.base = seen[c] /\ h.owed = rd[r].owed
  BY <1>2, ReadingIs
<1> HIDE DEF h
<1>4. \A s \in rd[r].owed : s.line \cap lost = {} => s.prog \in Program /\ (s.name \in rd[r].add[s.prog] \/ s.name \in seen[s.prog])
  BY <1>1 DEF Owes, Pays
<1>5. \A Q, E : Pays(h, Q, E, carried, lost, taken, seen)
  BY <1>3, <1>4 DEF Pays
<1> QED
  BY <1>1, <1>2, <1>5, OwesOne

LEMMA OwesWriteSeen ==
  ASSUME Typed, Owes, NEW r \in Reader, WriteSeen(r)
  PROVE  Owes'
<1> DEFINE c == rd[r].for
           h == Wrote(rd[r], c)
<1>1. rd[r].pc = "write" /\ rd' = [rd EXCEPT ![r] = h] /\ UNCHANGED <<execs, carried, lost, taken>>
  BY DEF WriteSeen, Wrote, kernel
<1>2. rd[r] \in Holding /\ c \in Program /\ lock = r /\ seen \in [Program -> SUBSET (Lib \cup Program)]
      /\ rd[r].add \in [Program -> SUBSET (Lib \cup Program)]
  BY <1>1, Steady DEF Typed, Holding
<1>3. h.pc = "add" /\ h.add = [rd[r].add EXCEPT ![c] = {}] /\ h.owed = rd[r].owed
  BY <1>2, WroteIs
<1>4. ASSUME NEW s \in rd[r].owed, s.line \cap lost = {}
      PROVE  s.prog \in Program /\ (s.name \in rd[r].add[s.prog] \/ s.name \in seen[s.prog])
             /\ (s.prog = c => rd[r].base = seen[c])
  BY <1>1, <1>4 DEF Owes, Pays
<1>5. seen' = IF rd[r].add[c] \subseteq rd[r].base THEN seen ELSE [seen EXCEPT ![c] = rd[r].base \cup rd[r].add[c]]
  BY DEF WriteSeen
<1> HIDE DEF h, c
<1>6. ASSUME NEW s \in rd[r].owed, s.line \cap lost = {}
      PROVE  s.prog \in Program /\ (s.name \in h.add[s.prog] \/ s.name \in seen'[s.prog])
  <2>1. CASE s.prog = c
    BY <1>2, <1>4, <1>5, <1>6, <2>1
  <2>2. CASE s.prog # c
    BY <1>2, <1>3, <1>4, <1>5, <1>6, <2>2
  <2> QED
    BY <2>1, <2>2
<1>7. \A Q, E : Pays(h, Q, E, carried, lost, taken, seen')
  BY <1>3, <1>6 DEF Pays
<1> QED
  BY <1>1, <1>2, <1>7, OwesOne

\* one that ends or is killed owes nothing
LEMMA OwesIdle ==
  ASSUME Typed, Owes, NEW r \in Reader, Finish(r) \/ Kill(r)
  PROVE  Owes'
<1>1. rd[r].pc # "idle" /\ rd' = [rd EXCEPT ![r] = Idle]
  BY DEF Finish, Kill
<1>2. lock = r
  BY <1>1, Steady
<1>3. \A Q, E, c, l, tk, sn : Pays(Idle, Q, E, c, l, tk, sn)
  BY IdleIs DEF Pays
<1> QED
  BY <1>1, <1>2, <1>3, OwesOne

LEMMA OwesInstall ==
  ASSUME Typed, Owes, NEW c \in Renewed, Install(c)
  PROVE  Owes'
<1> DEFINE o(r) == {s \in rd[r].owed : s.prog # c}
<1>1. UNCHANGED <<asks, execs, carried, lost, taken>> /\ seen' = [seen EXCEPT ![c] = {}]
  BY DEF Install
<1>2. seen \in [Program -> SUBSET (Lib \cup Program)]
  BY Steady
<1>3. ASSUME NEW r \in Reader
      PROVE  /\ rd'[r].pc = rd[r].pc /\ rd'[r].execs = rd[r].execs /\ rd'[r].asks = rd[r].asks /\ rd'[r].left = rd[r].left
             /\ rd'[r].add = rd[r].add /\ rd'[r].for = rd[r].for /\ rd'[r].base = rd[r].base /\ rd'[r].owed = o(r)
  <2>1. rd[r] \in Holding /\ o(r) \in SUBSET Said
    BY Steady DEF Holding
  <2>2. rd'[r] = Owing(rd[r], o(r))
    BY DEF Install, Owing
  <2> HIDE DEF o
  <2> QED
    BY <2>1, <2>2, OwingIs
<1>4. Pending' = Pending
  BY <1>1, <1>3 DEF Pending, Had
<1>5. ASSUME NEW r \in Reader PROVE Pays(rd'[r], Answers(rd'[r], asks'), Pending, carried', lost', taken', seen')
  <2>1. Answers(rd'[r], asks') = Answers(rd[r], asks)
    BY <1>1, <1>3 DEF Answers
  <2>2. \A s \in o(r) : s \in rd[r].owed /\ s.prog # c
    OBVIOUS
  <2>3. \A p : p \in Program /\ p # c => seen'[p] = seen[p]
    BY <1>1, <1>2
  <2>4. \A s \in rd[r].owed : rd[r].pc = "write" /\ s.line \cap lost = {} => s.prog \in Program
    BY DEF Owes, Pays
  <2> DEFINE Q == Answers(rd[r], asks)
  <2>5. Pays(rd[r], Q, Pending, carried, lost, taken, seen)
    BY DEF Owes
  <2> HIDE DEF o, Q
  <2>6. Pays(rd'[r], Q, Pending, carried, lost, taken, seen')
    BY <1>3, <2>2, <2>3, <2>4, <2>5 DEF Pays
  <2> QED
    BY <1>1, <2>1, <2>6 DEF Q
<1> QED
  BY <1>4, <1>5, OwesNext

LEMMA OwesInit == Init => Owes
<1> SUFFICES ASSUME Init PROVE Owes
  OBVIOUS
<1>1. \A r \in Reader : rd[r].pc = "idle" /\ rd[r].owed = {}
  BY IdleIs DEF Init
<1> QED
  BY <1>1 DEF Owes, Pays

LEMMA OwesFork ==
  ASSUME Typed, Stamped, Follows, Owes, NEW p \in Pid, NEW c \in Pid, Fork(p, c)
  PROVE  Owes'
<1> DEFINE e == [what |-> "fork", at |-> now', pid |-> p, child |-> c,
                 by |-> proc[p].prog, build |-> proc[p].build, line |-> proc[p].line]
<1>1. p \in Alive /\ now' = now + 1 /\ now' \in Nat /\ Logged(e, {}) /\ UNCHANGED <<asks, carried, seen, rd, taken>>
  BY Steady DEF Fork, Ticks
<1>2. proc[p] \in Process
  BY <1>1 DEF Alive, Typed
<1>3. e \in ForkEvent /\ e.at = now + 1
  BY <1>1, <1>2 DEF ForkEvent, Process
<1> HIDE DEF e
<1>4. e \in Event
  BY <1>3 DEF Event
<1> QED
  BY <1>1, <1>3, <1>4, OwesEvent

LEMMA OwesExec ==
  ASSUME Typed, Stamped, Follows, Owes, NEW p \in Pid, NEW f \in Program, NEW arg \in Program \cup {Nobody},
         NEW said \in Program \cup {Nobody}, Exec(p, f, arg, said)
  PROVE  Owes'
<1> DEFINE build == proc[p].build \/ f = Kiry
           is == IF arg # Nobody /\ ~build THEN arg ELSE f
           misread == ~build /\ (said # arg \/ (proc[p].prog \in Script[f] /\ arg # proc[p].prog))
           astray == IF misread THEN {now'} ELSE {}
           e == [what |-> "exec", at |-> now', pid |-> p, file |-> f, arg |-> said, is |-> is,
                 by |-> proc[p].prog, build |-> proc[p].build, line |-> proc[p].line]
<1>1. p \in Alive /\ now' = now + 1 /\ now' \in Nat /\ Logged(e, astray) /\ UNCHANGED <<asks, carried, seen, rd, taken>>
  BY Steady DEF Exec, Ticks
<1>2. proc[p] \in Process
  BY <1>1 DEF Alive, Typed
<1>3. e \in ExecEvent /\ e.at = now + 1
  <2>1. is \in Program
    OBVIOUS
  <2> HIDE DEF is
  <2> QED
    BY <1>1, <1>2, <2>1 DEF ExecEvent, Process
<1> HIDE DEF e, astray
<1>4. e \in Event
  BY <1>3 DEF Event
<1> QED
  BY <1>1, <1>3, <1>4, OwesEvent

LEMMA OwesStep == Typed /\ Shape /\ Stamped /\ Follows /\ Calling /\ Singles /\ Owes /\ [Next]_vars => Owes'
<1> SUFFICES ASSUME Typed, Shape, Stamped, Follows, Calling, Singles, Owes, [Next]_vars PROVE Owes'
  OBVIOUS
<1>1. CASE UNCHANGED vars
  BY <1>1, OwesAsk DEF vars
<1>2. ASSUME NEW p \in Pid, Exit(p) PROVE Owes'
  BY <1>2, OwesAsk DEF Exit
<1>3. ASSUME NEW p \in Pid, (\E l \in Lib : Enter(p, l)) \/ \E ok \in BOOLEAN : Return(p, ok) PROVE Owes'
  <2>1. UNCHANGED <<execs, carried, seen, rd, lost, taken>>
    BY <1>3 DEF Enter, Return
  <2> QED
    BY <1>3, <2>1, AskGrows, OwesAsk
<1>4. CASE Kernel
  BY <1>2, <1>3, <1>4, OwesFork, OwesExec DEF Kernel
<1>5. ASSUME NEW r \in Reader, Read(r) PROVE Owes'
  BY <1>5, OwesTake, OwesDrains, OwesWalk, OwesReadSeen, OwesWriteSeen, OwesIdle DEF Read
<1> QED
  BY <1>1, <1>4, <1>5, OwesIdle, OwesInstall DEF Next

\* a read that ends has written down what it owed
LEMMA HeardOne ==
  ASSUME Typed, Owes, NEW r \in Reader, Finish(r), NEW s \in rd[r].owed, s.line \cap lost = {}
  PROVE  s.name \in seen[s.prog]
<1>1. rd[r].pc = "add" /\ rd[r].add = NoLines
  BY DEF Finish
<1>2. s.prog \in Program /\ (s.name \in rd[r].add[s.prog] \/ s.name \in seen[s.prog])
  BY <1>1 DEF Owes, Pays
<1> QED
  BY <1>1, <1>2 DEF NoLines

\* A read that ends has written down every dlopen that a read of both trace buffers at the instant
\* it took the lock would have credited, with what it knew of the asker, to a program that is not
\* installed anew before: whatever is forked, run, dlopened or exits between its drains, and however
\* readers were killed before it. Only a dlopen whose asker's past has events that were lost, to a
\* full buffer, a killed reader, arm or a build that was gone, or whose argv was, is let off (observe,
\* lineage, arm).
THEOREM HeardStays == Spec => Heard
<1> DEFINE IInv == Typed /\ Shape /\ Stamped /\ Follows /\ Calling /\ Singles /\ Owes
<1>1. Init => IInv
  BY TypedInit, ShapeInit, StampedInit, FollowsInit, CallingInit, SinglesInit, OwesInit
<1>2. IInv /\ [Next]_vars => IInv'
  BY TypedStep, ShapeStep, FollowsStep, CallingStep, SinglesStep, OwesStep
<1>3. IInv /\ [Next]_vars =>
        [\A r \in Reader : Finish(r) => \A s \in rd[r].owed : s.line \cap lost = {} => s.name \in seen[s.prog]]_vars
  BY HeardOne
<1> QED
  BY <1>1, <1>2, <1>3, PTL DEF Spec, Heard

=============================================================================
