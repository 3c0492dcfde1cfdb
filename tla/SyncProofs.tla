------------------------------ MODULE SyncProofs ------------------------------
(* What holds of Sync for any packages, versions, conversions and people: types,
   what the tree decided stays through every bump, and what alpine changed waits
   for a reading. *)
EXTENDS Sync, WellFoundedInduction, TLAPS

Repo == ToSet(Repos)
Homes == {"local", "core", "extra"}

LEMMA RepoIs == Repo = Homes \cup {"testing"} /\ "testing" \notin Homes
BY DEF Repo, Homes, Repos, ToSet

LEMMA Least ==
  ASSUME NEW S \in SUBSET Nat, S # {}
  PROVE  \E n \in S : \A m \in S : n <= m
<1> DEFINE R == {x \in Nat \X Nat : x[1] < x[2]}
<1>1. \A n, m \in Nat : n < m => <<n, m>> \in R
  OBVIOUS
<1>2. IsWellFoundedOn(R, Nat)
  BY NatLessThanWellFounded DEF OpToRel
<1> HIDE DEF R
<1>3. PICK x \in S : \A y \in S : ~(<<y, x>> \in R)
  BY <1>2, WFMin
<1>4. \A y \in S : ~(y < x)
  BY <1>1, <1>3
<1> QED
  BY <1>4

\* the row a sync takes next is one of those it has
LEMMA FirstIn ==
  ASSUME NEW S, S # {}, \A r \in S : r.at \in Nat
  PROVE  First(S) \in S
<1> DEFINE N == {r.at : r \in S}
<1>1. N \in SUBSET Nat /\ N # {}
  OBVIOUS
<1> HIDE DEF N
<1>2. PICK n \in N : \A m \in N : n <= m
  BY <1>1, Least
<1>3. PICK r \in S : r.at = n
  BY DEF N
<1>4. \A s \in S : r.at <= s.at
  BY <1>2, <1>3 DEF N
<1> QED
  BY <1>4 DEF First

(* The repo a name is read from. *)
LEMMA HomeIs ==
  ASSUME NEW t, NEW n
  PROVE  /\ Home(t, n) \in Repo
         /\ Home(t, n) # "testing" => Home(t, n) \in Homes /\ t[Home(t, n)][n] # NoRecipe
         /\ Home(t, n) = "testing" => \A repo \in Homes : t[repo][n] = NoRecipe
<1> DEFINE S == {4} \cup {i \in 1..3 : t[Repos[i]][n] # NoRecipe}
<1>1. S \in SUBSET Nat /\ S # {} /\ S \subseteq 1..4
  OBVIOUS
<1>2. Min(S) \in S /\ \A y \in S : Min(S) <= y
  <2> HIDE DEF S
  <2> QED
    BY <1>1, Least DEF Min
<1>3. Home(t, n) = Repos[Min(S)]
  BY DEF Home
<1> DEFINE m == Min(S)
<1>4. m \in 1..4 /\ (m # 4 => t[Repos[m]][n] # NoRecipe) /\ (m = 4 => \A i \in 1..3 : t[Repos[i]][n] = NoRecipe)
  <2>1. m \in 1..4 /\ m \in S /\ \A y \in S : m <= y
    BY <1>1, <1>2
  <2> HIDE DEF m
  <2> QED
    BY <2>1
<1>5. Home(t, n) = Repos[m]
  BY <1>3
<1> HIDE DEF S, m
<1>6. Repos[1] = "local" /\ Repos[2] = "core" /\ Repos[3] = "extra" /\ Repos[4] = "testing"
  BY DEF Repos
<1>7. m = 1 \/ m = 2 \/ m = 3 \/ m = 4
  BY <1>4
<1> QED
  BY <1>4, <1>5, <1>6, <1>7, RepoIs DEF Homes

LEMMA HomeSame ==
  ASSUME NEW t, NEW u, NEW n,
         \A repo \in Homes : t[repo][n] = NoRecipe <=> u[repo][n] = NoRecipe
  PROVE  Home(t, n) = Home(u, n)
<1>1. \A i \in 1..3 : Repos[i] \in Homes
  BY DEF Repos, Homes
<1>2. {i \in 1..3 : t[Repos[i]][n] # NoRecipe} = {i \in 1..3 : u[Repos[i]][n] # NoRecipe}
  BY <1>1
<1> QED
  BY <1>2 DEF Home

----------------------------------------------------------------------------
(* Shapes: what an EXCEPT of the model may be applied to. *)

Laid(t) == DOMAIN t = Repo /\ \A repo \in Repo : DOMAIN t[repo] = Name
Slots == {"build", "pending", "testing"}
Converts(x) == x = NoText \/ \E v \in Version : x = Text(Alpine[v])
Shape ==
  /\ Laid(tree) /\ DOMAIN conv = Name /\ DOMAIN accepted = Name
  /\ \A n \in Name : DOMAIN conv[n] = Slots /\ Converts(conv[n].build)
  /\ \A r \in rows : r.at \in Nat /\ r.name \in Name /\ r.up \in Version
TypeInv == TypeOK /\ Shape

\* b in place of what waits
LEMMA PlacedIs ==
  ASSUME Laid(tree), NEW n \in Name, NEW b
  PROVE  /\ Laid(Placed(n, b))
         /\ Placed(n, b)["testing"][n] = b
         /\ \A repo \in Repo, m \in Name :
              repo # "testing" \/ m # n => Placed(n, b)[repo][m] = tree[repo][m]
         /\ \A m \in Name : Home(Placed(n, b), m) = Home(tree, m)
<1>1. /\ Laid(Placed(n, b))
      /\ Placed(n, b)["testing"][n] = b
      /\ \A repo \in Repo, m \in Name :
           repo # "testing" \/ m # n => Placed(n, b)[repo][m] = tree[repo][m]
  BY RepoIs DEF Placed, Laid
<1>2. \A m \in Name, repo \in Homes : Placed(n, b)[repo][m] = tree[repo][m]
  BY <1>1, RepoIs
<1> QED
  BY <1>1, <1>2, HomeSame

\* what waits goes to the repo its name is read from, or to extra
To(t, n) == IF Home(t, n) = "testing" THEN "extra" ELSE Home(t, n)
LEMMA MovedIs ==
  ASSUME NEW t, Laid(t), NEW n \in Name
  PROVE  /\ To(t, n) \in Homes /\ Laid(Moved(t, n))
         /\ Moved(t, n)["testing"][n] = NoRecipe
         /\ Moved(t, n)[To(t, n)][n] = t["testing"][n]
         /\ \A repo \in Repo, m \in Name :
              m # n \/ repo \notin {"testing", To(t, n)} => Moved(t, n)[repo][m] = t[repo][m]
<1>1. To(t, n) \in Homes /\ To(t, n) \in Repo /\ "testing" \in Repo /\ To(t, n) # "testing"
  BY HomeIs, RepoIs DEF To, Homes
<1>2. Moved(t, n) = [t EXCEPT ![To(t, n)][n] = t["testing"][n], !["testing"][n] = NoRecipe]
  BY DEF Moved, To
<1> DEFINE a == [t EXCEPT ![To(t, n)][n] = t["testing"][n]]
<1>3. Moved(t, n) = [a EXCEPT !["testing"][n] = NoRecipe]
  BY <1>1, <1>2 DEF Laid
<1>4. /\ Laid(a) /\ a[To(t, n)][n] = t["testing"][n]
      /\ \A repo \in Repo, m \in Name : m # n \/ repo # To(t, n) => a[repo][m] = t[repo][m]
  BY <1>1 DEF Laid
<1> HIDE DEF a
<1> QED
  BY <1>1, <1>3, <1>4 DEF Laid

LEMMA MovedHome ==
  ASSUME NEW t, Laid(t), NEW n \in Name, Promotes(t, n)
  PROVE  /\ Home(t, n) # "testing" => Home(Moved(t, n), n) = Home(t, n)
         /\ Home(t, n) = "testing" => Home(Moved(t, n), n) = "extra"
         /\ Recipe(Moved(t, n), n) = t["testing"][n]
         /\ \A m \in Name \ {n} : Home(Moved(t, n), m) = Home(t, m)
<1>1. t["testing"][n] # NoRecipe
  BY DEF Promotes
<1>4. \A m \in Name \ {n} : Home(Moved(t, n), m) = Home(t, m)
  <2>1. \A m \in Name \ {n}, repo \in Homes : Moved(t, n)[repo][m] = t[repo][m]
    BY MovedIs, RepoIs
  <2> QED
    BY <2>1, HomeSame
<1>2. CASE Home(t, n) # "testing"
  <2>1. \A repo \in Homes : t[repo][n] = NoRecipe <=> Moved(t, n)[repo][n] = NoRecipe
    BY <1>1, <1>2, MovedIs, HomeIs, RepoIs DEF To
  <2>2. Home(Moved(t, n), n) = Home(t, n)
    BY <2>1, HomeSame
  <2> QED
    BY <1>2, <1>4, <2>2, MovedIs DEF Recipe, To
<1>3. CASE Home(t, n) = "testing"
  <2>1. Moved(t, n)["local"][n] = NoRecipe /\ Moved(t, n)["core"][n] = NoRecipe
    BY <1>3, MovedIs, HomeIs, RepoIs DEF To, Homes
  <2>2. Moved(t, n)["extra"][n] = t["testing"][n]
    BY <1>3, MovedIs DEF To
  <2>3. Home(Moved(t, n), n) = "extra"
    BY <1>1, <2>1, <2>2, HomeIs, RepoIs DEF Homes
  <2> QED
    BY <1>3, <1>4, <2>2, <2>3 DEF Recipe
<1> QED
  BY <1>2, <1>3, <1>4

LEMMA AcceptIs ==
  ASSUME NEW c, DOMAIN c = Name, \A m \in Name : DOMAIN c[m] = Slots, NEW n \in Name
  PROVE  /\ DOMAIN Accept(c, n) = Name /\ \A m \in Name : DOMAIN Accept(c, n)[m] = Slots
         /\ Accept(c, n)[n].pending = NoText
         /\ Accept(c, n)[n].build = IF c[n].pending = NoText THEN c[n].build ELSE c[n].pending
         /\ \A m \in Name \ {n} : Accept(c, n)[m] = c[m]
BY DEF Accept, Slots

(* What an edit of a recipe may change: everything but its version and directories. *)
Amends(x, b) ==
  x # NoRecipe => /\ b # NoRecipe /\ DOMAIN x = DOMAIN b
                  /\ x.ver = b.ver /\ x.at = b.at /\ x.dirs = b.dirs
LEMMA EditIs ==
  ASSUME TypeInv, NEW n \in Name, Edit(n)
  PROVE  /\ Laid(tree')
         /\ \E repo \in {Home(tree, n), "testing"} :
              /\ Amends(tree'[repo][n], tree[repo][n])
              /\ \A other \in Repo, m \in Name :
                   other # repo \/ m # n => tree'[other][m] = tree[other][m]
<1>1. PICK repo \in {Home(tree, n), "testing"} :
        /\ tree[repo][n] # NoRecipe
        /\ \/ \E w \in Word : tree' = [tree EXCEPT ![repo][n].lines = SymDiff(@, {w})]
           \/ \E w \in Word : tree' = [tree EXCEPT ![repo][n].depends = SymDiff(@, {w})]
           \/ repo # "testing" /\ tree' = [tree EXCEPT ![repo][n].hold = feed[n]]
           \/ tree' = [tree EXCEPT ![repo][n] = NoRecipe]
  BY DEF Edit
<1>2. repo \in Repo /\ Laid(tree) /\ DOMAIN tree[repo][n] = Fields
  BY <1>1, HomeIs, RepoIs DEF TypeInv, TypeOK, Shape, Sound, Repo
<1>3. ASSUME NEW f \in {"lines", "depends", "hold"}, NEW x, tree' = [tree EXCEPT ![repo][n][f] = x]
      PROVE  /\ Laid(tree') /\ Amends(tree'[repo][n], tree[repo][n])
             /\ \A other \in Repo, m \in Name :
                  other # repo \/ m # n => tree'[other][m] = tree[other][m]
  <2>1. tree'[repo][n] = [tree[repo][n] EXCEPT ![f] = x]
    BY <1>2, <1>3 DEF Laid
  <2>2. Amends(tree'[repo][n], tree[repo][n])
    BY <1>1, <1>2, <2>1 DEF Amends, Fields
  <2> QED
    BY <1>2, <1>3, <2>2 DEF Laid
<1>4. ASSUME tree' = [tree EXCEPT ![repo][n] = NoRecipe]
      PROVE  /\ Laid(tree') /\ Amends(tree'[repo][n], tree[repo][n])
             /\ \A other \in Repo, m \in Name :
                  other # repo \/ m # n => tree'[other][m] = tree[other][m]
  BY <1>2, <1>4 DEF Laid, Amends
<1>5. \/ \E f \in {"lines", "depends", "hold"} : \E x : tree' = [tree EXCEPT ![repo][n][f] = x]
      \/ tree' = [tree EXCEPT ![repo][n] = NoRecipe]
  BY <1>1
<1> QED
  BY <1>3, <1>4, <1>5

----------------------------------------------------------------------------
(* Types *)

TreeOK(t) == Laid(t) /\ \A repo \in Repo, n \in Name : Sound(t[repo][n])
ConvOK(c) ==
  /\ DOMAIN c = Name
  /\ \A n \in Name : DOMAIN c[n] = Slots /\ Converts(c[n].build) /\ Converts(c[n].pending)
RowOK(r) ==
  /\ r.at \in Nat /\ r.name \in Name /\ r.up \in Version
  /\ r.status = "less" /\ r.from \in {"aports", "tracker"}

LEMMA TypeParts ==
  TypeInv <=> /\ TreeOK(tree) /\ ConvOK(conv) /\ feed \in [Name -> Version]
              /\ DOMAIN accepted = Name /\ \A r \in rows : RowOK(r)
BY DEF TypeInv, TypeOK, Shape, TreeOK, ConvOK, RowOK, Converts, Repo

LEMMA SoundHome ==
  ASSUME TreeOK(tree), NEW n \in Name, Home(tree, n) # "testing"
  PROVE  /\ Recipe(tree, n) # NoRecipe /\ DOMAIN Recipe(tree, n) = Fields
         /\ Recipe(tree, n).ver \in Version /\ Recipe(tree, n).at \in Version \cup {0}
BY HomeIs DEF TreeOK, Sound, Recipe

LEMMA RestampedIs ==
  ASSUME NEW old, DOMAIN old = Fields, NEW was, NEW now
  PROVE  LET b == Restamped(old, was, now)
         IN  /\ DOMAIN b = Fields /\ b.ver = now /\ b.at \in {now, old.at}
             /\ b.heads = old.heads /\ b.lines = old.lines /\ b.files = old.files
             /\ b.depends = old.depends /\ b.hold = old.hold /\ b.dirs = {}
BY DEF Restamped, Fields

LEMMA ConvertedIs ==
  ASSUME NEW v
  PROVE  LET b == Converted(v)
         IN  /\ DOMAIN b = Fields /\ b.ver = v /\ b.at = v /\ b.heads = Alpine[v].heads
             /\ b.lines = Alpine[v].lines /\ b.files = Alpine[v].files /\ b.dirs = {}
             /\ Text(b) = Text(Alpine[v]) /\ Body(b) = Body(Alpine[v])
BY DEF Converted, Fields, Text, Body

LEMMA ReheadedIs ==
  ASSUME NEW old, NEW new, DOMAIN new = Fields
  PROVE  LET b == Reheaded(old, new)
         IN  /\ DOMAIN b = Fields /\ b.ver = new.ver /\ b.at \in {new.at, old.at}
             /\ b.files = new.files
             /\ Reheads(old, new) => b.heads = old.heads /\ b.lines = old.lines
<1>1. CASE Reheads(old, new)
  BY <1>1 DEF Reheaded, Fields
<1>2. CASE ~Reheads(old, new)
  BY <1>2 DEF Reheaded
<1> QED
  BY <1>1, <1>2

\* what carry makes of the tree's own recipe and the conversion
Carried(b, old, new, base) ==
  /\ DOMAIN b = Fields /\ b.ver = new.ver /\ b.at \in {new.at, old.at}
  /\ b.files = new.files \cup KeepLocal(old, new, base)
  /\ b.depends = old.depends /\ b.dirs = old.dirs /\ b.hold = old.hold
  /\ Reheads(old, new) => b.heads = old.heads /\ b.lines = old.lines
LEMMA CarryIs ==
  ASSUME NEW old, NEW new, DOMAIN new = Fields, NEW base
  PROVE  Carried(Carry(old, new, base), old, new, base)
<1> DEFINE m == Reheaded(old, new)
<1>1. /\ DOMAIN m = Fields /\ m.ver = new.ver /\ m.at \in {new.at, old.at} /\ m.files = new.files
      /\ Reheads(old, new) => m.heads = old.heads /\ m.lines = old.lines
  BY ReheadedIs
<1> HIDE DEF m
<1>2. Carry(old, new, base) =
        [m EXCEPT !.files = @ \cup KeepLocal(old, new, base), !.depends = old.depends,
                  !.dirs = old.dirs, !.hold = old.hold]
  BY DEF Carry, m
<1> QED
  BY <1>1, <1>2 DEF Fields, Carried

LEMMA MovedTyped ==
  ASSUME NEW t, TreeOK(t), NEW n \in Name PROVE TreeOK(Moved(t, n))
<1>1. Sound(t["testing"][n]) /\ Sound(NoRecipe) /\ Laid(t)
  BY RepoIs DEF TreeOK, Sound
<1>2. \A repo \in Repo, m \in Name : Sound(Moved(t, n)[repo][m])
  <2> SUFFICES ASSUME NEW repo \in Repo, NEW m \in Name PROVE Sound(Moved(t, n)[repo][m])
    OBVIOUS
  <2>1. CASE m = n /\ repo = "testing"
    BY <1>1, <2>1, MovedIs
  <2>2. CASE m = n /\ repo = To(t, n)
    BY <1>1, <2>2, MovedIs
  <2>3. CASE m # n \/ repo \notin {"testing", To(t, n)}
    BY <1>1, <2>3, MovedIs DEF TreeOK
  <2> QED
    BY <2>1, <2>2, <2>3
<1> QED
  BY <1>1, <1>2, MovedIs DEF TreeOK

LEMMA AcceptTyped ==
  ASSUME NEW c, ConvOK(c), NEW n \in Name PROVE ConvOK(Accept(c, n))
<1>1. \A m \in Name : Converts(Accept(c, n)[m].build) /\ Converts(Accept(c, n)[m].pending)
  BY AcceptIs DEF ConvOK, Converts
<1> QED
  BY <1>1, AcceptIs DEF ConvOK

LEMMA LandsTyped ==
  ASSUME TreeOK(tree), NEW n \in Name, NEW c, ConvOK(c), NEW b, Sound(b), NEW promote, Lands(n, c, b, promote)
  PROVE  TreeOK(tree') /\ ConvOK(conv')
<1>1. TreeOK(Placed(n, b))
  <2>1. \A repo \in Repo, m \in Name : Sound(Placed(n, b)[repo][m])
    BY PlacedIs DEF TreeOK
  <2> QED
    BY <2>1, PlacedIs DEF TreeOK
<1>2. CASE tree' = Moved(Placed(n, b), n) /\ conv' = Accept(c, n)
  <2> DEFINE t == Placed(n, b)
  <2>1. TreeOK(t)
    BY <1>1
  <2> HIDE DEF t
  <2>2. TreeOK(Moved(t, n)) /\ ConvOK(Accept(c, n))
    BY <2>1, MovedTyped, AcceptTyped
  <2> QED
    BY <1>2, <2>2 DEF t
<1>3. CASE Stays(n, c, b)
  <2>1. conv' = [c EXCEPT ![n].testing = Says(b)]
    BY <1>3 DEF Stays
  <2>2. ConvOK(conv')
    BY <2>1 DEF ConvOK, Slots
  <2> QED
    BY <1>1, <1>3, <2>2 DEF Stays
<1> QED
  BY <1>2, <1>3 DEF Lands

LEMMA BumpTaken ==
  ASSUME TypeInv, Bump
  PROVE  \E r \in rows : r = First(rows) /\ rows' = rows \ {r} /\ RowOK(r)
BY TypeParts, FirstIn DEF Bump, RowOK

LEMMA RestampTyped ==
  ASSUME TypeInv, NEW r \in rows, Restamp(r), RowOK(r)
  PROVE  TreeOK(tree') /\ ConvOK(conv')
<1>1. TreeOK(tree) /\ ConvOK(conv) /\ r.name \in Name /\ r.up \in Version
  BY TypeParts DEF RowOK
<1> DEFINE new == Restamped(Recipe(tree, r.name), r.ours, r.up)
<1>2. CASE Home(tree, r.name) = "testing"
  BY <1>1, <1>2 DEF Restamp
<1>3. CASE Home(tree, r.name) # "testing"
  <2>1. Sound(new)
    BY <1>1, <1>3, SoundHome, RestampedIs DEF Sound
  <2>2. \/ Lands(r.name, conv, new, Allowed(r))
        \/ tree' = Placed(r.name, new) /\ UNCHANGED conv
    BY <1>3 DEF Restamp
  <2> HIDE DEF new
  <2>3. TreeOK(Placed(r.name, new))
    <3>1. \A repo \in Repo, m \in Name : Sound(Placed(r.name, new)[repo][m])
      BY <1>1, <2>1, PlacedIs DEF TreeOK
    <3> QED
      BY <1>1, <3>1, PlacedIs DEF TreeOK
  <2> QED
    BY <1>1, <2>1, <2>2, <2>3, LandsTyped
<1> QED
  BY <1>2, <1>3

\* what Convert leaves in the conversions before it lands
Wrote(n, x) == [conv EXCEPT ![n].pending = x]
LEMMA WroteIs ==
  ASSUME ConvOK(conv), NEW n \in Name, NEW x
  PROVE  /\ DOMAIN Wrote(n, x) = Name /\ \A m \in Name : DOMAIN Wrote(n, x)[m] = Slots
         /\ Wrote(n, x)[n].pending = x /\ Wrote(n, x)[n].build = conv[n].build
         /\ \A m \in Name \ {n} : Wrote(n, x)[m] = conv[m]
         /\ Converts(x) => ConvOK(Wrote(n, x))
<1>1. /\ DOMAIN Wrote(n, x) = Name /\ \A m \in Name : DOMAIN Wrote(n, x)[m] = Slots
      /\ Wrote(n, x)[n].pending = x /\ Wrote(n, x)[n].build = conv[n].build
      /\ \A m \in Name \ {n} : Wrote(n, x)[m] = conv[m]
  BY DEF ConvOK, Wrote, Slots
<1>2. Converts(x) => ConvOK(Wrote(n, x))
  BY <1>1 DEF ConvOK
<1> QED
  BY <1>1, <1>2

LEMMA ConvertTyped ==
  ASSUME TypeInv, NEW r \in rows, Convert(r), RowOK(r)
  PROVE  TreeOK(tree') /\ ConvOK(conv')
<1> DEFINE n == r.name
           old == IF Home(tree, n) = "testing" THEN NoRecipe ELSE Recipe(tree, n)
           new == Converted(r.up)
           base == conv[n].build
           c == Wrote(n, Text(new))
<1>1. TreeOK(tree) /\ ConvOK(conv) /\ n \in Name /\ r.up \in Version
  BY TypeParts DEF RowOK
<1>2. Text(new) = Text(Alpine[r.up]) /\ Sound(new) /\ DOMAIN new = Fields /\ new.ver = r.up /\ new.at = r.up
  BY <1>1, ConvertedIs DEF Sound
<1>3. ConvOK(c)
  BY <1>1, <1>2, WroteIs DEF Converts
<1>4. IF old = NoRecipe THEN Stays(n, c, new)
      ELSE Lands(n, c, Carry(old, new, base), Settled(old, new, base) /\ ~Differs(old, new, base) /\ Allowed(r))
  BY DEF Convert, Generated, Wrote
<1> HIDE DEF new, c, base
<1>5. CASE old = NoRecipe
  <2>1. Lands(n, c, new, FALSE)
    BY <1>4, <1>5 DEF Lands
  <2> QED
    BY <1>1, <1>2, <1>3, <2>1, LandsTyped
<1>6. CASE old # NoRecipe
  <2>1. old = Recipe(tree, n) /\ Home(tree, n) # "testing"
    BY <1>6
  <2>2. old.at \in Version \cup {0}
    BY <1>1, <2>1, SoundHome
  <2> HIDE DEF n, old
  <2>3. /\ DOMAIN Carry(old, new, base) = Fields /\ Carry(old, new, base).ver = new.ver
        /\ Carry(old, new, base).at \in {new.at, old.at}
    <3>1. Carried(Carry(old, new, base), old, new, base)
      BY <1>2, CarryIs
    <3> QED
      BY <3>1 DEF Carried
  <2>4. Sound(Carry(old, new, base))
    BY <1>1, <1>2, <2>2, <2>3 DEF Sound
  <2> QED
    BY <1>1, <1>3, <1>4, <1>6, <2>4, LandsTyped
<1> QED
  BY <1>5, <1>6

LEMMA RowTyped ==
  ASSUME TypeInv, NEW i \in DOMAIN Names, NEW j \in 1..4, NEW net, Row(i, j, net).status = "less"
  PROVE  RowOK(Row(i, j, net))
<1>1. Names[i] \in Name /\ feed[Names[i]] \in Version
  BY DEF Name, ToSet, TypeInv, TypeOK
<1>2. Row(i, j, net).from = Upstream(Names[i], Repos[j], net)
  BY DEF Row
<1>3. Upstream(Names[i], Repos[j], net) \in {"aports", "tracker", "unknown"}
  BY DEF Upstream
<1>4. Row(i, j, net).from # "unknown"
  BY DEF Row
<1>5. Row(i, j, net).at = 4 * i + j /\ i \in Nat
  BY SyncAssumption DEF Row
<1> QED
  BY <1>1, <1>2, <1>3, <1>4, <1>5 DEF RowOK, Row

LEMMA SurveyTyped ==
  ASSUME TypeInv, NEW want, NEW net, NEW r \in Survey(want, net)
  PROVE  /\ \E i \in DOMAIN Names, j \in 1..4 :
              r = Row(i, j, net) /\ Asked(Names[i], Repos[j], want)
         /\ r.status = "less" => RowOK(r)
<1>1. \E i \in DOMAIN Names, j \in 1..4 : r = Row(i, j, net) /\ Asked(Names[i], Repos[j], want)
  BY DEF Survey
<1> QED
  BY <1>1, RowTyped

LEMMA SeedTyped == ASSUME TypeInv, NEW all PROVE ConvOK(Seed(all))
<1>1. /\ ConvOK(conv) /\ \A n \in Name : feed[n] \in Version
  BY TypeParts
<1> QED
  BY <1>1 DEF Seed, ConvOK, Slots, Converts

LEMMA TypeInit == Init => TypeInv
<1> SUFFICES ASSUME Init PROVE TypeInv
  OBVIOUS
<1>1. TreeOK(tree) /\ \A n \in Name : Recipe(tree, n) # NoRecipe
  BY SyncAssumption DEF Init, TreeOK, Laid, Repo
<1>2. ConvOK(conv)
  BY DEF Init, ConvOK, Slots, Converts
<1>3. \A n \in Name : Recipe(tree, n).ver \in Version
  <2> SUFFICES ASSUME NEW n \in Name PROVE Recipe(tree, n).ver \in Version
    OBVIOUS
  <2>1. Home(tree, n) \in Repo
    BY HomeIs
  <2> QED
    BY <1>1, <2>1 DEF TreeOK, Sound, Recipe
<1>4. feed \in [Name -> Version] /\ DOMAIN accepted = Name /\ rows = {}
  BY <1>3 DEF Init
<1> QED
  BY <1>1, <1>2, <1>4, TypeParts

LEMMA TypeNext == ASSUME TypeInv, [Next]_vars PROVE TypeInv'
<1>1. /\ TreeOK(tree) /\ ConvOK(conv) /\ feed \in [Name -> Version]
      /\ DOMAIN accepted = Name /\ \A r \in rows : RowOK(r)
  BY TypeParts
<1>2. SUFFICES /\ TreeOK(tree') /\ ConvOK(conv') /\ feed' \in [Name -> Version]
               /\ DOMAIN accepted' = Name /\ \A r \in rows' : RowOK(r)
  BY DEF TypeInv, TypeOK, Shape, TreeOK, ConvOK, RowOK, Converts, Repo, Laid
<1>3. CASE Sync
  <2>1. PICK net \in BOOLEAN, want \in {{}} \cup {{n} : n \in Name} :
          /\ rows' = {r \in Survey(want, net) : r.status = "less"}
          /\ conv' = Seed(Survey(want, net))
    BY <1>3 DEF Sync
  <2> QED
    BY <1>1, <1>3, <2>1, SurveyTyped, SeedTyped DEF Sync
<1>4. CASE Bump
  <2>1. PICK r \in rows : r = First(rows) /\ rows' = rows \ {r} /\ RowOK(r)
    BY <1>4, BumpTaken
  <2>2. feed' = feed /\ accepted' = accepted /\ \A s \in rows' : RowOK(s)
    BY <1>1, <1>4, <2>1 DEF Bump
  <2>3. (tree' = tree /\ conv' = conv) \/ Restamp(r) \/ Convert(r)
    BY <1>4, <2>1 DEF Bump
  <2> QED
    BY <1>1, <2>1, <2>2, <2>3, RestampTyped, ConvertTyped
<1>5. ASSUME NEW n \in Name, Move(n)
      PROVE  /\ TreeOK(tree') /\ ConvOK(conv') /\ feed' \in [Name -> Version]
             /\ DOMAIN accepted' = Name /\ \A r \in rows' : RowOK(r)
  BY <1>1, <1>5 DEF Move
<1>6. ASSUME NEW n \in Name, Promote(n)
      PROVE  /\ TreeOK(tree') /\ ConvOK(conv') /\ feed' \in [Name -> Version]
             /\ DOMAIN accepted' = Name /\ \A r \in rows' : RowOK(r)
  <2>1. tree' = Moved(tree, n) /\ conv' = Accept(conv, n) /\ feed' = feed /\ rows' = rows
    BY <1>6 DEF Promote
  <2>2. TreeOK(tree') /\ ConvOK(conv')
    BY <1>1, <2>1, MovedTyped, AcceptTyped
  <2> QED
    BY <1>1, <1>6, <2>1, <2>2 DEF Promote
<1>7. ASSUME NEW n \in Name, Edit(n)
      PROVE  /\ TreeOK(tree') /\ ConvOK(conv') /\ feed' \in [Name -> Version]
             /\ DOMAIN accepted' = Name /\ \A r \in rows' : RowOK(r)
  <2>1. TreeOK(tree')
    <3>1. PICK repo \in {Home(tree, n), "testing"} :
            /\ Amends(tree'[repo][n], tree[repo][n])
            /\ \A other \in Repo, m \in Name : other # repo \/ m # n => tree'[other][m] = tree[other][m]
      BY <1>7, EditIs
    <3>2. repo \in Repo
      BY HomeIs, RepoIs
    <3>3. Sound(tree'[repo][n])
      BY <1>1, <3>1, <3>2 DEF TreeOK, Sound, Amends
    <3>4. \A other \in Repo, m \in Name : Sound(tree'[other][m])
      BY <1>1, <3>1, <3>3 DEF TreeOK
    <3> QED
      BY <1>7, <3>4, EditIs DEF TreeOK
  <2> QED
    BY <1>1, <1>7, <2>1 DEF Edit
<1>8. CASE UNCHANGED vars
  BY <1>1, <1>8 DEF vars
<1> QED
  BY <1>3, <1>4, <1>5, <1>6, <1>7, <1>8 DEF Next

\* Recipes stay whole and of known versions through surveys, conversions, promotions and
\* edits, what the next bump is measured against is a conversion of alpine's own recipe and
\* not of this tree's, and a running sync only has rows that are behind (sync_cmd, pending).
THEOREM TypeCorrect == Spec => []TypeOK
<1>1. TypeInv => TypeOK
  BY DEF TypeInv
<1> QED
  BY <1>1, TypeInit, TypeNext, PTL DEF Spec

----------------------------------------------------------------------------
(* What a bump changes *)

\* b waits, or was promoted over the recipe of its name
LEMMA LandsIs ==
  ASSUME TreeOK(tree), NEW n \in Name, NEW c, NEW b, NEW promote, Lands(n, c, b, promote)
  PROVE  /\ \A m \in Name \ {n} : /\ Home(tree', m) = Home(tree, m)
                                  /\ \A repo \in Repo : tree'[repo][m] = tree[repo][m]
         /\ \/ Stays(n, c, b)
            \/ /\ promote /\ conv' = Accept(c, n)
               /\ b # NoRecipe /\ Recipe(tree', n) = b /\ tree'["testing"][n] = NoRecipe
               /\ Home(tree, n) # "testing" => Home(tree', n) = Home(tree, n)
               /\ \A repo \in Homes \ {To(tree, n)} : tree'[repo][n] = tree[repo][n]
<1> DEFINE t == Placed(n, b)
<1>1. /\ Laid(tree) /\ Laid(t) /\ t["testing"][n] = b
      /\ \A repo \in Repo, m \in Name : repo # "testing" \/ m # n => t[repo][m] = tree[repo][m]
      /\ \A m \in Name : Home(t, m) = Home(tree, m)
  BY PlacedIs DEF TreeOK
<1>2. To(t, n) = To(tree, n)
  BY <1>1 DEF To
<1>3. CASE Stays(n, c, b)
  <2>1. tree' = t
    BY <1>3 DEF Stays
  <2> HIDE DEF t
  <2> QED
    BY <1>1, <1>3, <2>1
<1>4. CASE promote /\ Promotes(t, n) /\ tree' = Moved(t, n) /\ conv' = Accept(c, n)
  <2> HIDE DEF t
  <2>1. b # NoRecipe
    BY <1>1, <1>4 DEF Promotes
  <2>2. \A m \in Name \ {n} : /\ Home(tree', m) = Home(tree, m)
                              /\ \A repo \in Repo : tree'[repo][m] = tree[repo][m]
    BY <1>1, <1>4, MovedIs, MovedHome
  <2>3. Recipe(tree', n) = b /\ (Home(tree, n) # "testing" => Home(tree', n) = Home(tree, n))
    BY <1>1, <1>4, MovedHome
  <2>4. tree'["testing"][n] = NoRecipe
    BY <1>1, <1>4, MovedIs
  <2>5. \A repo \in Homes \ {To(tree, n)} : tree'[repo][n] = tree[repo][n]
    BY <1>1, <1>2, <1>4, MovedIs, RepoIs
  <2> QED
    BY <1>4, <2>1, <2>2, <2>3, <2>4, <2>5
<1> QED
  BY <1>3, <1>4 DEF Lands

\* what waits changes no recipe in force
LEMMA WaitsHome ==
  ASSUME TreeOK(tree), NEW n \in Name, NEW b, tree' = Placed(n, b)
  PROVE  \A m \in Name : /\ Home(tree', m) = Home(tree, m)
                         /\ Home(tree, m) # "testing" => Recipe(tree', m) = Recipe(tree, m)
<1>1. /\ \A repo \in Repo, m \in Name : repo # "testing" \/ m # n => tree'[repo][m] = tree[repo][m]
      /\ \A m \in Name : Home(tree', m) = Home(tree, m)
  BY PlacedIs DEF TreeOK
<1> QED
  BY <1>1, HomeIs DEF Recipe

----------------------------------------------------------------------------
(* What the tree decided *)

\* a patch or file a person adds has a name none of alpine's has
OwnNames == \A v \in Version : \A f \in Alpine[v].files : f[1] \notin Word
\* restamp copies what lies at the top of a recipe and no directory
TrackedFlat ==
  \A t \in Starts, n \in Name \cap Tracked, repo \in Repo :
    t[repo][n] # NoRecipe => t[repo][n].dirs = {}

FlatInv ==
  /\ \A repo \in Repo, n \in Name \cap Tracked : tree[repo][n] # NoRecipe => tree[repo][n].dirs = {}
  /\ \A r \in rows : r.from = "tracker" => r.name \in Tracked
Own(a, b) ==
  /\ <<b.heads, b.lines, b.depends, b.dirs, b.hold>> = <<a.heads, a.lines, a.depends, a.dirs, a.hold>>
  /\ \A f \in a.files : f[1] \in Word => f \in b.files \cup Merged[b.ver]

LEMMA CarryOwn ==
  ASSUME OwnNames, NEW old, NEW v \in Version, NEW base, Converts(base),
         Settled(old, Converted(v), base), ~Differs(old, Converted(v), base)
  PROVE  Own(old, Carry(old, Converted(v), base))
<1> DEFINE new == Converted(v)
           b == Carry(old, new, base)
<1>1. /\ DOMAIN new = Fields /\ new.ver = v /\ new.files = Alpine[v].files
  BY ConvertedIs
<1>2. Carried(b, old, new, base)
  BY <1>1, CarryIs
<1>3. Reheads(old, new) /\ base # NoText
  BY DEF Settled
<1>4. ASSUME NEW f \in old.files, f[1] \in Word PROVE f \in b.files \cup Merged[b.ver]
  <2>1. f[1] \notin FilesOf(new)
    BY <1>1, <1>4 DEF FilesOf, OwnNames
  <2>2. f[1] \notin FilesOf(base)
    BY <1>3, <1>4 DEF FilesOf, OwnNames, Converts, Text
  <2> HIDE DEF new
  <2>3. f \in KeepLocal(old, new, base) \cup Merged[new.ver]
    BY <2>1, <2>2 DEF KeepLocal
  <2> HIDE DEF b
  <2> QED
    BY <1>2, <2>3 DEF Carried
<1> HIDE DEF b, new
<1>5. Own(old, b)
  BY <1>2, <1>3, <1>4 DEF Own, Carried
<1> QED
  BY <1>5 DEF b, new

LEMMA BumpOwn ==
  ASSUME TypeInv, FlatInv, OwnNames, Bump, NEW n \in Name, Home(tree, n) # "testing"
  PROVE  Own(Recipe(tree, n), Recipe(tree', n))
<1>1. PICK r \in rows : r = First(rows) /\ rows' = rows \ {r} /\ RowOK(r)
  BY BumpTaken
<1>2. TreeOK(tree) /\ ConvOK(conv) /\ r.name \in Name /\ r.up \in Version
  BY <1>1, TypeParts DEF RowOK
<1>3. Own(Recipe(tree, n), Recipe(tree, n))
  BY DEF Own
<1>4. CASE tree' = tree
  BY <1>3, <1>4
<1>5. ASSUME NEW c, NEW b, NEW promote, Lands(r.name, c, b, promote),
             Home(tree, r.name) # "testing" /\ promote => Own(Recipe(tree, r.name), b)
      PROVE  Own(Recipe(tree, n), Recipe(tree', n))
  <2>1. CASE Stays(r.name, c, b)
    BY <1>2, <1>3, <2>1, WaitsHome DEF Stays
  <2>2. CASE n # r.name
    <3>1. Home(tree', n) = Home(tree, n) /\ tree'[Home(tree, n)][n] = tree[Home(tree, n)][n]
      BY <1>2, <1>5, <2>2, LandsIs, HomeIs
    <3> QED
      BY <1>3, <3>1 DEF Recipe
  <2>3. CASE n = r.name /\ promote /\ Recipe(tree', r.name) = b
    BY <1>5, <2>3
  <2> QED
    BY <1>2, <1>5, <2>1, <2>2, <2>3, LandsIs
<1>6. CASE r.from = "tracker" /\ Restamp(r)
  <2> DEFINE old == Recipe(tree, r.name)
             b == Restamped(old, r.ours, r.up)
  <2>1. CASE Home(tree, r.name) = "testing"
    BY <1>4, <1>6, <2>1 DEF Restamp
  <2>2. CASE Home(tree, r.name) # "testing"
    <3>1. /\ DOMAIN old = Fields /\ old.dirs = {}
      BY <1>1, <1>2, <1>6, <2>2, SoundHome, HomeIs DEF FlatInv, Recipe
    <3>2. Own(old, b)
      BY <3>1, RestampedIs DEF Own
    <3>3. Lands(r.name, conv, b, Allowed(r)) \/ tree' = Placed(r.name, b)
      BY <1>6, <2>2 DEF Restamp
    <3> HIDE DEF b
    <3>4. CASE tree' = Placed(r.name, b)
      BY <1>2, <1>3, <3>4, WaitsHome
    <3> QED
      BY <1>5, <3>2, <3>3, <3>4
  <2> QED
    BY <2>1, <2>2
<1>7. CASE Convert(r)
  <2> DEFINE old == IF Home(tree, r.name) = "testing" THEN NoRecipe ELSE Recipe(tree, r.name)
             new == Converted(r.up)
             base == conv[r.name].build
             c == [conv EXCEPT ![r.name].pending = Generated(old, new, base)]
             promote == Settled(old, new, base) /\ ~Differs(old, new, base) /\ Allowed(r)
             b == Carry(old, new, base)
  <2>1. Converts(base)
    BY <1>2 DEF ConvOK
  <2>2. promote => Own(old, b)
    BY <1>2, <2>1, CarryOwn
  <2>3. IF old = NoRecipe THEN Stays(r.name, c, new) ELSE Lands(r.name, c, b, promote)
    BY <1>7 DEF Convert
  <2> HIDE DEF b, c, promote, new, base
  <2>4. CASE old = NoRecipe
    <3>1. Lands(r.name, c, new, FALSE)
      BY <2>3, <2>4 DEF Lands
    <3> QED
      BY <1>5, <3>1
  <2>5. CASE old # NoRecipe
    <3>1. Home(tree, r.name) # "testing" => old = Recipe(tree, r.name)
      OBVIOUS
    <3>2. Lands(r.name, c, b, promote)
      BY <2>3, <2>5
    <3> HIDE DEF old
    <3> QED
      BY <1>5, <2>2, <3>1, <3>2
  <2> QED
    BY <2>4, <2>5
<1> QED
  BY <1>1, <1>4, <1>6, <1>7 DEF Bump

LEMMA FlatInit == TrackedFlat /\ Init => FlatInv
BY DEF TrackedFlat, Init, FlatInv

Flat(b) == b # NoRecipe => b.dirs = {}
LEMMA FlatMoved ==
  ASSUME NEW t, Laid(t), NEW n \in Name,
         \A repo \in Repo, m \in Name \cap Tracked : Flat(t[repo][m])
  PROVE  \A repo \in Repo, m \in Name \cap Tracked : Flat(Moved(t, n)[repo][m])
<1> SUFFICES ASSUME NEW repo \in Repo, NEW m \in Name \cap Tracked PROVE Flat(Moved(t, n)[repo][m])
  OBVIOUS
<1>1. "testing" \in Repo /\ Flat(NoRecipe)
  BY RepoIs DEF Flat
<1>2. CASE m = n /\ repo = "testing"
  BY <1>1, <1>2, MovedIs
<1>3. CASE m = n /\ repo = To(t, n)
  BY <1>1, <1>3, MovedIs
<1>4. CASE m # n \/ repo \notin {"testing", To(t, n)}
  BY <1>4, MovedIs
<1> QED
  BY <1>2, <1>3, <1>4

LEMMA FlatLands ==
  ASSUME TreeOK(tree), FlatInv, NEW n \in Name, NEW c, NEW b, n \in Tracked => Flat(b),
         NEW promote, Lands(n, c, b, promote)
  PROVE  \A repo \in Repo, m \in Name \cap Tracked : Flat(tree'[repo][m])
<1>1. \A repo \in Repo, m \in Name \cap Tracked : Flat(tree[repo][m])
  BY DEF FlatInv, Flat
<1>2. Laid(Placed(n, b)) /\ Placed(n, b)["testing"][n] = b
  BY PlacedIs DEF TreeOK
<1>3. \A repo \in Repo, m \in Name \cap Tracked : Flat(Placed(n, b)[repo][m])
  <2> SUFFICES ASSUME NEW repo \in Repo, NEW m \in Name \cap Tracked
               PROVE  Flat(Placed(n, b)[repo][m])
    OBVIOUS
  <2>1. CASE repo = "testing" /\ m = n
    BY <1>2, <2>1
  <2>2. CASE repo # "testing" \/ m # n
    BY <1>1, <2>2, PlacedIs DEF TreeOK
  <2> QED
    BY <2>1, <2>2
<1>4. CASE tree' = Placed(n, b)
  BY <1>3, <1>4
<1>5. CASE tree' = Moved(Placed(n, b), n)
  BY <1>2, <1>3, <1>5, FlatMoved
<1> QED
  BY <1>4, <1>5 DEF Lands, Stays

LEMMA FlatNext == ASSUME TypeInv, FlatInv, [Next]_vars PROVE FlatInv'
<1>1. /\ TreeOK(tree) /\ ConvOK(conv)
      /\ \A repo \in Repo, m \in Name \cap Tracked : Flat(tree[repo][m])
  BY TypeParts DEF FlatInv, Flat
<1>2. SUFFICES /\ \A repo \in Repo, m \in Name \cap Tracked : Flat(tree'[repo][m])
               /\ \A r \in rows' : r.from = "tracker" => r.name \in Tracked
  BY DEF FlatInv, Flat
<1>3. CASE Sync
  <2>1. PICK net \in BOOLEAN, want \in {{}} \cup {{n} : n \in Name} :
          rows' \subseteq Survey(want, net)
    BY <1>3 DEF Sync
  <2>2. ASSUME NEW r \in rows', r.from = "tracker" PROVE r.name \in Tracked
    <3>1. PICK i \in DOMAIN Names, j \in 1..4 : r = Row(i, j, net)
      BY <2>1, SurveyTyped
    <3> QED
      BY <2>2, <3>1 DEF Row, Upstream
  <2> QED
    BY <1>1, <1>3, <2>2 DEF Sync
<1>4. CASE Bump
  <2>1. PICK r \in rows : r = First(rows) /\ rows' = rows \ {r} /\ RowOK(r)
    BY <1>4, BumpTaken
  <2>2. r.name \in Name /\ r.up \in Version
    BY <2>1 DEF RowOK
  <2>0. \A s \in rows' : s.from = "tracker" => s.name \in Tracked
    BY <2>1 DEF FlatInv
  <2>3. CASE Restamp(r)
    <3> DEFINE old == Recipe(tree, r.name)
               b == Restamped(old, r.ours, r.up)
    <3>1. CASE Home(tree, r.name) = "testing"
      BY <1>1, <2>0, <2>3, <3>1 DEF Restamp
    <3>2. CASE Home(tree, r.name) # "testing"
      <4>1. Flat(b)
        BY <1>1, <2>2, <3>2, SoundHome, RestampedIs DEF Flat
      <4>2. Lands(r.name, conv, b, Allowed(r)) \/ tree' = Placed(r.name, b)
        BY <2>3, <3>2 DEF Restamp
      <4> HIDE DEF b
      <4>3. CASE tree' = Placed(r.name, b)
        <5>1. \A repo \in Repo, m \in Name :
                tree'[repo][m] = b \/ tree'[repo][m] = tree[repo][m]
          BY <1>1, <2>2, <4>3, PlacedIs DEF TreeOK
        <5> QED
          BY <1>1, <2>0, <4>1, <5>1
      <4> QED
        BY <1>1, <2>0, <2>2, <4>1, <4>2, <4>3, FlatLands
    <3>3. \A repo \in Repo, m \in Name \cap Tracked : Flat(tree'[repo][m])
      BY <3>1, <3>2
    <3> QED
      BY <2>1, <3>3 DEF FlatInv
  <2>4. CASE Convert(r)
    <3> DEFINE old == IF Home(tree, r.name) = "testing" THEN NoRecipe ELSE Recipe(tree, r.name)
               new == Converted(r.up)
               base == conv[r.name].build
               c == [conv EXCEPT ![r.name].pending = Generated(old, new, base)]
               promote == Settled(old, new, base) /\ ~Differs(old, new, base) /\ Allowed(r)
               b == Carry(old, new, base)
    <3>1. IF old = NoRecipe THEN Stays(r.name, c, new) ELSE Lands(r.name, c, b, promote)
      BY <2>4 DEF Convert
    <3>2. DOMAIN new = Fields /\ Flat(new)
      BY ConvertedIs DEF Flat
    <3> HIDE DEF c, new, base, promote
    <3>3. b.dirs = old.dirs
      <4>1. Carried(b, old, new, base)
        BY <3>2, CarryIs
      <4> QED
        BY <4>1 DEF Carried
    <3>4. old # NoRecipe /\ r.name \in Tracked => Flat(b)
      BY <1>1, <2>2, <3>3, HomeIs DEF Flat, Recipe
    <3> HIDE DEF b, old
    <3>5. \A repo \in Repo, m \in Name \cap Tracked : Flat(tree'[repo][m])
      <4>1. CASE old = NoRecipe
        <5>1. Lands(r.name, c, new, FALSE)
          BY <3>1, <4>1 DEF Lands
        <5> QED
          BY <1>1, <2>2, <3>2, <5>1, FlatLands
      <4>2. CASE old # NoRecipe
        BY <1>1, <2>2, <3>1, <3>4, <4>2, FlatLands
      <4> QED
        BY <4>1, <4>2
    <3> QED
      BY <2>1, <3>5 DEF FlatInv
  <2> QED
    BY <1>1, <1>4, <2>1, <2>3, <2>4 DEF Bump, FlatInv
<1>5. ASSUME NEW n \in Name, Move(n) \/ Promote(n) \/ Edit(n)
      PROVE  /\ \A repo \in Repo, m \in Name \cap Tracked : Flat(tree'[repo][m])
             /\ \A r \in rows' : r.from = "tracker" => r.name \in Tracked
  <2>1. rows' \subseteq rows
    BY <1>5 DEF Move, Promote, Edit
  <2>2. CASE tree' = tree
    BY <1>1, <2>1, <2>2 DEF FlatInv
  <2>3. CASE Promote(n)
    <3>1. \A repo \in Repo, m \in Name \cap Tracked : Flat(tree'[repo][m])
      BY <1>1, <2>3, FlatMoved DEF Promote, TreeOK
    <3> QED
      BY <2>1, <3>1 DEF FlatInv
  <2>4. CASE Edit(n)
    <3>1. PICK repo \in {Home(tree, n), "testing"} :
            /\ Amends(tree'[repo][n], tree[repo][n])
            /\ \A other \in Repo, m \in Name : other # repo \/ m # n => tree'[other][m] = tree[other][m]
      BY <2>4, EditIs
    <3>2. repo \in Repo
      BY HomeIs, RepoIs
    <3>3. n \in Tracked => Flat(tree'[repo][n])
      BY <1>1, <3>1, <3>2 DEF Flat, Amends
    <3>4. \A other \in Repo, m \in Name \cap Tracked : Flat(tree'[other][m])
      BY <1>1, <3>1, <3>3
    <3> QED
      BY <2>1, <3>4 DEF FlatInv
  <2> QED
    BY <1>5, <2>2, <2>3, <2>4 DEF Move
<1>6. CASE UNCHANGED vars
  BY <1>1, <1>6 DEF vars, FlatInv
<1> QED
  BY <1>3, <1>4, <1>5, <1>6 DEF Next

\* Through every bump sync promotes by itself the recipe keeps what the tree decided, its
\* own lines, deps, directories, hold and patches, whatever alpine's conversion says and
\* whatever a person did meanwhile: what settled and differ let through is what carry and
\* keep_local put back (carry, keep_local, restamp).
THEOREM OwnKept == ASSUME OwnNames, TrackedFlat PROVE Spec => OwnStays
<1>1. Init => FlatInv
  BY FlatInit
<1>2. ASSUME TypeInv, FlatInv, [Next]_vars
      PROVE  [\A n \in Name : rows' # rows /\ Home(tree, n) # "testing"
                => LET a == Recipe(tree, n)
                       b == Recipe(tree, n)'
                   IN  /\ <<b.heads, b.lines, b.depends, b.dirs, b.hold>>
                            = <<a.heads, a.lines, a.depends, a.dirs, a.hold>>
                       /\ \A f \in a.files : f[1] \in Word => f \in b.files \cup Merged[b.ver]]_vars
  <2> SUFFICES ASSUME Next, NEW n \in Name, rows' # rows, Home(tree, n) # "testing"
               PROVE  Own(Recipe(tree, n), Recipe(tree', n))
    BY <1>2 DEF Own, Recipe, Home
  <2>1. CASE Bump
    BY <1>2, <2>1, BumpOwn
  <2>2. CASE tree' = tree
    BY <2>2 DEF Own
  <2> QED
    BY <2>1, <2>2 DEF Next, Sync, Move, Promote, Edit
<1> QED
  BY <1>1, <1>2, TypeInit, TypeNext, FlatNext, PTL DEF Spec, OwnStays

----------------------------------------------------------------------------
(* What alpine changed waits for a reading *)

Less(n, u, v) == Compare(Parts[u], Parts[v], Scheme[n] # <<>>) = "less"
\* versions that compare are an order, and no version is written in two ways
Orders ==
  \A n \in Name : \A u, v, w \in Version :
    /\ Less(n, u, v) /\ Less(n, v, w) => Less(n, u, w)
    /\ Compare(Parts[u], Parts[v], Scheme[n] # <<>>) = "equal" => u = v
\* nothing waits at first, and one repo has the recipe
OneHome(t, n) == \A h, k \in Homes : t[h][n] # NoRecipe /\ t[k][n] # NoRecipe => h = k
Opening == \A t \in Starts, n \in Name \cap Aports : t["testing"][n] = NoRecipe /\ OneHome(t, n)
\* every recipe of what aports carries follows it
Pinned(t, n) == Pin[n] # "none" /\ (t["local"][n] # NoRecipe => Pin[n] # "")
Followed == \A t \in Starts, n \in Name \cap Aports : Pinned(t, n)
\* what a survey of everything asks about it asks about in the repo it is read from
AllKept == \A t \in Starts, n \in Name \cap Aports : t["extra"][n] # NoRecipe => n \in Kept

\* before anything of n was accepted: what waits and what is still to be taken is later
\* than the recipe in force
Ahead(t, rs, n) ==
  /\ t["testing"][n] # NoRecipe => Less(n, Recipe(t, n).ver, t["testing"][n].ver)
  /\ Home(t, n) = "extra" => n \in Kept
  /\ \A r \in rs : r.name = n => Less(n, Recipe(t, n).ver, r.up)
\* what waits has its conversion beside it
Beside(t, c, n) ==
  t["testing"][n] # NoRecipe =>
    /\ c[n].pending # NoText
    /\ Body(c[n].pending) = Body(Alpine[t["testing"][n].ver])
ReadAt(t, c, a, rs, n) ==
  /\ OneHome(t, n) /\ Pinned(t, n) /\ Beside(t, c, n)
  /\ Home(t, n) # "testing" =>
       /\ Body(Alpine[Recipe(t, n).ver]) \in a[n]
       /\ c[n].build # NoText => Body(c[n].build) \in a[n]
       /\ c[n].build = NoText => Ahead(t, rs, n)
ReadInv ==
  /\ \A n \in Name \cap Aports : ReadAt(tree, conv, accepted, rows, n)
  /\ \A r \in rows : r.name \in Aports => r.from = "aports"

LEMMA ReadSame ==
  ASSUME NEW n \in Name, NEW t, NEW c, NEW a, NEW rs, NEW u, NEW d, NEW q, ReadAt(t, c, a, rs, n),
         \A repo \in Repo : u[repo][n] = t[repo][n],
         d[n].build = c[n].build, d[n].pending = c[n].pending, NEW b, b[n] = a[n], q \subseteq rs
  PROVE  ReadAt(u, d, b, q, n)
<1>1. Home(u, n) = Home(t, n)
  BY HomeSame, RepoIs
<1>2. Recipe(u, n) = Recipe(t, n)
  BY <1>1, HomeIs DEF Recipe
<1> QED
  BY <1>1, <1>2, RepoIs DEF ReadAt, OneHome, Pinned, Beside, Ahead, Homes

\* a new conversion waits
LEMMA ReadWaits ==
  ASSUME Laid(tree), NEW n \in Name, NEW c, NEW d, NEW a, NEW rs, NEW q, ReadAt(tree, c, a, rs, n),
         NEW b, NEW v \in Version, b # NoRecipe => b.ver = v,
         d[n].build = c[n].build, d[n].pending # NoText, Body(d[n].pending) = Body(Alpine[v]),
         q \subseteq rs, \E r \in rs : r.name = n /\ r.up = v
  PROVE  ReadAt(Placed(n, b), d, a, q, n)
<1> DEFINE u == Placed(n, b)
<1>1. /\ u["testing"][n] = b /\ \A repo \in Homes : u[repo][n] = tree[repo][n]
      /\ Home(u, n) = Home(tree, n)
  BY PlacedIs, RepoIs
<1> HIDE DEF u
<1>2. Home(u, n) # "testing" => Recipe(u, n) = Recipe(tree, n)
  BY <1>1, HomeIs DEF Recipe
<1>3. OneHome(u, n) /\ Pinned(u, n) /\ Beside(u, d, n)
  BY <1>1 DEF ReadAt, OneHome, Pinned, Beside, Homes
<1>4. ASSUME Home(u, n) # "testing", d[n].build = NoText PROVE Ahead(u, q, n)
  <2>1. Ahead(tree, rs, n)
    BY <1>1, <1>4 DEF ReadAt
  <2> QED
    BY <1>1, <1>2, <1>4, <2>1 DEF Ahead
<1>5. ReadAt(u, d, a, q, n)
  BY <1>1, <1>2, <1>3, <1>4 DEF ReadAt
<1> QED
  BY <1>5 DEF u

\* what was promoted is what somebody has taken
LEMMA ReadPromoted ==
  ASSUME NEW n \in Name, NEW t, NEW u, NEW d, NEW a, NEW q,
         OneHome(t, n), Pinned(t, n), u["testing"][n] = NoRecipe,
         \A repo \in Homes \ {To(t, n)} : u[repo][n] = t[repo][n],
         d[n].build # NoText, Body(d[n].build) \in a[n], Body(Alpine[Recipe(u, n).ver]) \in a[n]
  PROVE  ReadAt(u, d, a, q, n)
<1>1. \A repo \in Homes \ {To(t, n)} : u[repo][n] = NoRecipe
  BY HomeIs DEF OneHome, To
<1>2. OneHome(u, n)
  BY <1>1 DEF OneHome
<1>3. Pinned(u, n)
  <2>1. CASE To(t, n) = "local"
    BY <2>1, HomeIs DEF To, Pinned
  <2>2. CASE To(t, n) # "local"
    BY <1>1, <2>2 DEF Pinned, Homes
  <2> QED
    BY <2>1, <2>2
<1> QED
  BY <1>2, <1>3 DEF ReadAt, Beside

LEMMA LandsElse ==
  ASSUME TreeOK(tree), NEW m \in Name, NEW c, ConvOK(c), NEW b, NEW promote, Lands(m, c, b, promote),
         NEW n \in Name \ {m}
  PROVE  conv'[n] = c[n] /\ \A repo \in Repo : tree'[repo][n] = tree[repo][n]
<1>1. \A repo \in Repo : tree'[repo][n] = tree[repo][n]
  BY LandsIs
<1>2. CASE conv' = Accept(c, m)
  BY <1>1, <1>2, AcceptIs DEF ConvOK
<1>3. CASE conv' = [c EXCEPT ![m].testing = Says(b)]
  BY <1>1, <1>3 DEF ConvOK
<1> QED
  BY <1>2, <1>3 DEF Lands, Stays

ReadStep(n) ==
  /\ ReadAt(tree', conv', accepted', rows', n)
  /\ Home(tree, n) # "testing" /\ Recipe(tree', n) # Recipe(tree, n)
       => Body(Alpine[Recipe(tree', n).ver]) \in accepted[n]

LEMMA SameStep ==
  ASSUME ReadInv, NEW n \in Name \cap Aports, accepted' = accepted, rows' \subseteq rows,
         \A repo \in Repo : tree'[repo][n] = tree[repo][n],
         conv'[n].build = conv[n].build, conv'[n].pending = conv[n].pending
  PROVE  ReadStep(n)
<1>1. ReadAt(tree', conv', accepted', rows', n)
  <2>1. ReadAt(tree, conv, accepted, rows, n)
    BY DEF ReadInv
  <2> QED
    BY <2>1, ReadSame
<1>2. Home(tree', n) = Home(tree, n)
  BY HomeSame, RepoIs
<1>3. Recipe(tree', n) = Recipe(tree, n)
  BY <1>2, HomeIs DEF Recipe
<1> QED
  BY <1>1, <1>3 DEF ReadStep

LEMMA ConvertRead ==
  ASSUME TypeInv, ReadInv, NEW r \in rows, RowOK(r), Convert(r), rows' = rows \ {r},
         accepted' = accepted, NEW n \in Name \cap Aports
  PROVE  ReadStep(n)
<1> DEFINE old == IF Home(tree, r.name) = "testing" THEN NoRecipe ELSE Recipe(tree, r.name)
           new == Converted(r.up)
           base == conv[r.name].build
           c == Wrote(r.name, Text(new))
           promote == Settled(old, new, base) /\ ~Differs(old, new, base) /\ Allowed(r)
           carried == Carry(old, new, base)
           b == IF old = NoRecipe THEN new ELSE carried
           yes == old # NoRecipe /\ promote
<1>1. TreeOK(tree) /\ ConvOK(conv) /\ r.name \in Name /\ r.up \in Version
  BY TypeParts DEF RowOK
<1>2. /\ DOMAIN new = Fields /\ new.ver = r.up /\ Text(new) = Text(Alpine[r.up])
      /\ Body(new) = Body(Alpine[r.up]) /\ Text(new) # NoText /\ Converts(Text(new))
      /\ Body(Text(new)) = Body(Alpine[r.up])
  BY <1>1, ConvertedIs, SyncAssumption DEF Converts, Body, Text
<1>3. /\ ConvOK(c) /\ c[r.name].pending = Text(new) /\ c[r.name].build = base
      /\ \A m \in Name \ {r.name} : c[m] = conv[m]
  BY <1>1, <1>2, WroteIs
<1>4. IF old = NoRecipe THEN Stays(r.name, c, new) ELSE Lands(r.name, c, carried, promote)
  BY DEF Convert, Generated, Wrote
<1>5. promote => base # NoText /\ Body(base) = Body(new)
  BY DEF Settled
<1> HIDE DEF new, base, c
<1>6. carried.ver = r.up
  <2>1. Carried(carried, old, new, base)
    BY <1>2, CarryIs
  <2> HIDE DEF carried
  <2> QED
    BY <1>2, <2>1 DEF Carried
<1> HIDE DEF carried, promote
<1>7. Lands(r.name, c, b, yes) /\ b.ver = r.up
  BY <1>2, <1>4, <1>6 DEF Lands
<1>8. yes => Home(tree, r.name) # "testing" /\ base # NoText /\ Body(base) = Body(Alpine[r.up])
  BY <1>2, <1>5
<1> HIDE DEF b, yes, old
<1>9. CASE n # r.name
  BY <1>1, <1>3, <1>7, <1>9, LandsElse, SameStep
<1>10. ASSUME n = r.name, Stays(n, c, b) PROVE ReadStep(n)
  <2>1. tree' = Placed(n, b) /\ conv' = [c EXCEPT ![n].testing = Says(b)]
    BY <1>10 DEF Stays
  <2>2. conv'[n].build = conv[n].build /\ conv'[n].pending = Text(new)
    BY <1>3, <1>10, <2>1 DEF ConvOK, Slots, base
  <2>3. ReadAt(tree, conv, accepted, rows, n) /\ Laid(tree)
    BY <1>1 DEF ReadInv, TreeOK
  <2>4. ReadAt(Placed(n, b), conv', accepted, rows', n)
    <3>1. rows' \subseteq rows /\ \E s \in rows : s.name = n /\ s.up = r.up
      BY <1>10
    <3> QED
      BY <1>1, <1>2, <1>7, <2>2, <2>3, <3>1, ReadWaits
  <2>5. Home(tree, n) # "testing" => Recipe(tree', n) = Recipe(tree, n)
    BY <1>1, <2>1, WaitsHome
  <2> QED
    BY <2>1, <2>4, <2>5 DEF ReadStep
<1>11. ASSUME n = r.name, yes, conv' = Accept(c, n), Recipe(tree', n) = b, tree'["testing"][n] = NoRecipe,
              \A repo \in Homes \ {To(tree, n)} : tree'[repo][n] = tree[repo][n]
       PROVE  ReadStep(n)
  <2>1. ReadAt(tree, conv, accepted, rows, n)
    BY DEF ReadInv
  <2>2. Body(Alpine[r.up]) \in accepted[n]
    BY <1>8, <1>11, <2>1 DEF ReadAt, base
  <2>3. conv'[n].build = Text(new)
    BY <1>2, <1>3, <1>11, AcceptIs DEF ConvOK
  <2>4. /\ OneHome(tree, n) /\ Pinned(tree, n) /\ conv'[n].build # NoText
        /\ Body(conv'[n].build) \in accepted'[n] /\ Body(Alpine[Recipe(tree', n).ver]) \in accepted'[n]
    BY <1>2, <1>7, <1>11, <2>1, <2>2, <2>3 DEF ReadAt
  <2>5. ReadAt(tree', conv', accepted', rows', n)
    BY <1>11, <2>4, ReadPromoted
  <2> QED
    BY <1>7, <1>11, <2>2, <2>5 DEF ReadStep
<1> QED
  BY <1>1, <1>7, <1>9, <1>10, <1>11, LandsIs

LEMMA BumpRead ==
  ASSUME TypeInv, ReadInv, Bump, NEW n \in Name \cap Aports
  PROVE  ReadStep(n)
<1>1. PICK r \in rows : r = First(rows) /\ rows' = rows \ {r} /\ RowOK(r)
  BY BumpTaken
<1>2. TreeOK(tree) /\ ConvOK(conv) /\ r.name \in Name /\ accepted' = accepted
  BY <1>1, TypeParts DEF RowOK, Bump
<1>3. CASE tree' = tree /\ conv' = conv
  BY <1>1, <1>2, <1>3, SameStep
<1>4. CASE r.from = "tracker" /\ Restamp(r)
  <2> DEFINE b == Restamped(Recipe(tree, r.name), r.ours, r.up)
  <2>1. r.name # n
    BY <1>4 DEF ReadInv
  <2>2. \/ tree' = tree /\ conv' = conv
        \/ Lands(r.name, conv, b, Allowed(r))
        \/ tree' = Placed(r.name, b) /\ conv' = conv
    BY <1>4 DEF Restamp
  <2> HIDE DEF b
  <2>3. CASE tree' = Placed(r.name, b) /\ conv' = conv
    <3>1. \A repo \in Repo : tree'[repo][n] = tree[repo][n]
      BY <1>2, <2>1, <2>3, PlacedIs DEF TreeOK
    <3> QED
      BY <1>1, <1>2, <2>3, <3>1, SameStep
  <2>4. CASE Lands(r.name, conv, b, Allowed(r))
    BY <1>1, <1>2, <2>1, <2>4, LandsElse, SameStep
  <2> QED
    BY <1>3, <2>2, <2>3, <2>4
<1>5. CASE Convert(r)
  BY <1>1, <1>2, <1>5, ConvertRead
<1> QED
  BY <1>1, <1>3, <1>4, <1>5 DEF Bump

LEMMA ReadInit == ASSUME Opening, Followed, AllKept, Init PROVE ReadInv
<1>1. rows = {} /\ Laid(tree) /\ tree \in Starts
  BY SyncAssumption DEF Init, Laid, Repo
<1> SUFFICES ASSUME NEW n \in Name \cap Aports PROVE ReadAt(tree, conv, accepted, rows, n)
  BY <1>1 DEF ReadInv
<1>2. /\ tree["testing"][n] = NoRecipe /\ OneHome(tree, n) /\ Pinned(tree, n)
      /\ tree["extra"][n] # NoRecipe => n \in Kept
  BY <1>1 DEF Opening, Followed, AllKept
<1>3. /\ Body(Alpine[Recipe(tree, n).ver]) \in accepted[n]
      /\ conv[n].build = NoText
  BY DEF Init
<1>4. Ahead(tree, rows, n)
  BY <1>1, <1>2, HomeIs DEF Ahead
<1> QED
  BY <1>2, <1>3, <1>4 DEF ReadAt, Beside

LEMMA PromoteRead ==
  ASSUME TypeInv, ReadInv, NEW m \in Name, Promote(m), NEW n \in Name \cap Aports
  PROVE  ReadAt(tree', conv', accepted', rows', n)
<1>1. /\ TreeOK(tree) /\ ConvOK(conv) /\ DOMAIN accepted = Name /\ Laid(tree)
      /\ ReadAt(tree, conv, accepted, rows, n)
  BY TypeParts DEF ReadInv, TreeOK
<1>2. /\ Promotes(tree, m) /\ tree' = Moved(tree, m) /\ conv' = Accept(conv, m) /\ rows' = rows
      /\ accepted' = [accepted EXCEPT ![m] = @ \cup {Body(Alpine[tree["testing"][m].ver])}]
  BY DEF Promote
<1>3. CASE n # m
  <2>1. \A repo \in Repo : tree'[repo][n] = tree[repo][n]
    BY <1>1, <1>2, <1>3, MovedIs
  <2>2. conv'[n] = conv[n] /\ accepted'[n] = accepted[n]
    BY <1>1, <1>2, <1>3, AcceptIs DEF ConvOK
  <2>3. conv'[n].build = conv[n].build /\ conv'[n].pending = conv[n].pending /\ rows' \subseteq rows
    BY <1>2, <2>2
  <2> QED
    BY <1>1, <2>1, <2>2, <2>3, ReadSame
<1>4. CASE n = m
  <2>1. /\ Recipe(tree', n) = tree["testing"][n] /\ tree["testing"][n] # NoRecipe
        /\ tree'["testing"][n] = NoRecipe
        /\ \A repo \in Homes \ {To(tree, n)} : tree'[repo][n] = tree[repo][n]
    BY <1>1, <1>2, <1>4, MovedIs, MovedHome, RepoIs DEF Promotes
  <2>2. /\ conv[n].pending # NoText
        /\ Body(conv[n].pending) = Body(Alpine[tree["testing"][n].ver])
    BY <1>1, <2>1 DEF ReadAt, Beside
  <2>3. conv'[n].build = conv[n].pending
    BY <1>1, <1>2, <1>4, <2>2, AcceptIs DEF ConvOK
  <2>4. Body(Alpine[tree["testing"][n].ver]) \in accepted'[n]
    BY <1>1, <1>2, <1>4
  <2>5. /\ OneHome(tree, n) /\ Pinned(tree, n) /\ conv'[n].build # NoText
        /\ Body(conv'[n].build) \in accepted'[n] /\ Body(Alpine[Recipe(tree', n).ver]) \in accepted'[n]
    BY <1>1, <2>1, <2>2, <2>3, <2>4 DEF ReadAt
  <2> QED
    BY <2>1, <2>5, ReadPromoted
<1> QED
  BY <1>3, <1>4

LEMMA EditRead ==
  ASSUME TypeInv, ReadInv, NEW m \in Name, Edit(m), NEW n \in Name \cap Aports
  PROVE  ReadAt(tree', conv', accepted', rows', n)
<1>1. Laid(tree) /\ ReadAt(tree, conv, accepted, rows, n)
  BY TypeParts DEF ReadInv, TreeOK
<1>2. conv' = conv /\ accepted' = accepted /\ rows' = rows
  BY DEF Edit
<1>3. PICK repo \in {Home(tree, m), "testing"} :
        /\ Amends(tree'[repo][m], tree[repo][m])
        /\ \A other \in Repo, x \in Name : other # repo \/ x # m => tree'[other][x] = tree[other][x]
  BY EditIs
<1>4. \A other \in Repo : tree'[other][n] = tree[other][n] \/ Amends(tree'[other][n], tree[other][n])
  BY <1>3
<1>5. \A other \in Repo :
        tree'[other][n] # NoRecipe
          => tree[other][n] # NoRecipe /\ tree'[other][n].ver = tree[other][n].ver
  BY <1>4 DEF Amends
<1>6. OneHome(tree', n) /\ Pinned(tree', n) /\ Beside(tree', conv', n)
  BY <1>1, <1>2, <1>5, RepoIs DEF ReadAt, OneHome, Pinned, Beside, Homes
<1>7. ASSUME Home(tree', n) # "testing"
      PROVE  Home(tree, n) = Home(tree', n) /\ Recipe(tree', n).ver = Recipe(tree, n).ver
  <2>1. Home(tree', n) \in Homes /\ tree'[Home(tree', n)][n] # NoRecipe
    BY <1>7, HomeIs
  <2>2. tree[Home(tree', n)][n] # NoRecipe
    BY <1>5, <2>1, RepoIs
  <2>3. Home(tree, n) \in Homes /\ tree[Home(tree, n)][n] # NoRecipe
    BY <2>1, <2>2, HomeIs
  <2>4. Home(tree, n) = Home(tree', n)
    BY <1>1, <2>1, <2>2, <2>3 DEF ReadAt, OneHome
  <2> QED
    BY <1>5, <2>1, <2>4, RepoIs DEF Recipe
<1>8. ASSUME Home(tree', n) # "testing", Ahead(tree, rows, n) PROVE Ahead(tree', rows', n)
  BY <1>2, <1>5, <1>7, <1>8, RepoIs DEF Ahead
<1> QED
  BY <1>1, <1>2, <1>6, <1>7, <1>8 DEF ReadAt

\* a survey of what aports carries names aports, and which of the two recipes it read
LEMMA SurveyRead ==
  ASSUME TypeInv, ReadInv, NEW want, NEW net, NEW r \in Survey(want, net), r.name \in Aports
  PROVE  /\ r.from = "aports" /\ r.up = feed[r.name] /\ r.name \in Name
         /\ \E repo \in Repo :
              /\ tree[repo][r.name] # NoRecipe /\ Asked(r.name, repo, want)
              /\ r.status = Compare(Parts[tree[repo][r.name].ver], Parts[feed[r.name]], Scheme[r.name] # <<>>)
<1>1. PICK i \in DOMAIN Names, j \in 1..4 : r = Row(i, j, net) /\ Asked(Names[i], Repos[j], want)
  BY SurveyTyped
<1>2. /\ r.name = Names[i] /\ r.up = feed[r.name] /\ r.from = Upstream(Names[i], Repos[j], net)
      /\ r.status = IF r.from = "unknown" THEN r.from
                    ELSE Compare(Parts[tree[Repos[j]][Names[i]].ver], Parts[feed[Names[i]]], Scheme[Names[i]] # <<>>)
  BY <1>1 DEF Row
<1>3. r.name \in Name /\ Repos[j] \in Repo /\ tree[Repos[j]][r.name] # NoRecipe
  BY <1>1, <1>2 DEF Name, ToSet, Repo, Repos, Asked
<1>4. Pinned(tree, r.name)
  BY <1>3 DEF ReadInv, ReadAt
<1>5. r.from = "aports"
  BY <1>2, <1>3, <1>4 DEF Upstream, Pinned
<1> QED
  BY <1>1, <1>2, <1>3, <1>5

\* the recipe in force is asked about whenever what waits is
LEMMA HomeAsked ==
  ASSUME TypeInv, ReadInv, NEW want, NEW net, NEW r \in Survey(want, net),
         NEW n \in Name \cap Aports, r.name = n, Home(tree, n) # "testing",
         Home(tree, n) = "extra" => n \in Kept, Less(n, Recipe(tree, n).ver, feed[n])
  PROVE  \E s \in Survey(want, net) : s.name = n /\ s.status = "less"
<1>1. PICK i \in DOMAIN Names, j \in 1..4 : r = Row(i, j, net) /\ Asked(Names[i], Repos[j], want)
  BY SurveyTyped
<1>2. Names[i] = n
  BY <1>1 DEF Row
<1>3. Home(tree, n) \in Homes /\ tree[Home(tree, n)][n] # NoRecipe
  BY HomeIs
<1>4. PICK k \in 1..4 : Repos[k] = Home(tree, n)
  BY <1>3, RepoIs DEF Homes, Repos
<1>5. Asked(Names[i], Repos[k], want)
  BY <1>1, <1>2, <1>3, <1>4 DEF Asked
<1>6. Row(i, k, net) \in Survey(want, net)
  <2>1. <<i, k>> \in {y \in (DOMAIN Names) \X (1..4) : Asked(Names[y[1]], Repos[y[2]], want)}
    BY <1>1, <1>4, <1>5
  <2>2. Row(<<i, k>>[1], <<i, k>>[2], net) \in Survey(want, net)
    BY <2>1 DEF Survey
  <2> QED
    BY <2>2
<1>7. Pinned(tree, n)
  BY DEF ReadInv, ReadAt
<1>8. Upstream(n, Repos[k], net) = "aports"
  BY <1>3, <1>4, <1>7 DEF Upstream, Pinned
<1>9. Row(i, k, net).name = n /\ Row(i, k, net).status = "less"
  BY <1>2, <1>4, <1>8 DEF Row, Less, Recipe
<1> QED
  BY <1>6, <1>9

LEMMA SyncRead ==
  ASSUME Orders, TypeInv, ReadInv, Sync
  PROVE  ReadInv'
<1>1. PICK net \in BOOLEAN, want \in {{}} \cup {{n} : n \in Name} :
        /\ rows' = {r \in Survey(want, net) : r.status = "less"}
        /\ conv' = Seed(Survey(want, net))
  BY DEF Sync
<1> DEFINE all == Survey(want, net)
<1>2. tree' = tree /\ feed' = feed /\ accepted' = accepted
  BY DEF Sync
<1>3. /\ TreeOK(tree) /\ ConvOK(conv) /\ feed \in [Name -> Version]
      /\ \A m \in Name \cap Aports : ReadAt(tree, conv, accepted, rows, m)
  BY TypeParts DEF ReadInv
<1>4. \A r \in rows' : r.name \in Aports => r.from = "aports"
  BY <1>1, SurveyRead
<1>5. ASSUME NEW n \in Name \cap Aports PROVE ReadAt(tree, conv', accepted, rows', n)
  <2>1. ReadAt(tree, conv, accepted, rows, n) /\ feed[n] \in Version
    BY <1>3
  <2>2. conv'[n].pending = conv[n].pending
    BY <1>1, <1>3 DEF Seed, ConvOK, Slots
  <2>3. OneHome(tree, n) /\ Pinned(tree, n) /\ Beside(tree, conv', n)
    BY <2>1, <2>2 DEF ReadAt, Beside
  <2>4. ASSUME NEW r \in all, r.name = n
        PROVE  /\ r.from = "aports" /\ r.up = feed[n]
               /\ \E repo \in Repo :
                    /\ tree[repo][n] # NoRecipe /\ Asked(n, repo, want) /\ tree[repo][n].ver \in Version
                    /\ r.status = Compare(Parts[tree[repo][n].ver], Parts[feed[n]], Scheme[n] # <<>>)
    <3>1. /\ r.from = "aports" /\ r.up = feed[n]
          /\ \E repo \in Repo :
               /\ tree[repo][n] # NoRecipe /\ Asked(n, repo, want)
               /\ r.status = Compare(Parts[tree[repo][n].ver], Parts[feed[n]], Scheme[n] # <<>>)
      BY <2>4, SurveyRead
    <3> QED
      BY <1>3, <3>1 DEF TreeOK, Sound
  <2> SUFFICES ASSUME Home(tree, n) # "testing"
               PROVE  /\ Body(Alpine[Recipe(tree, n).ver]) \in accepted[n]
                      /\ conv'[n].build # NoText => Body(conv'[n].build) \in accepted[n]
                      /\ conv'[n].build = NoText => Ahead(tree, rows', n)
    BY <2>3 DEF ReadAt
  <2>5. /\ Body(Alpine[Recipe(tree, n).ver]) \in accepted[n]
        /\ conv[n].build # NoText => Body(conv[n].build) \in accepted[n]
        /\ conv[n].build = NoText => Ahead(tree, rows, n)
    BY <2>1 DEF ReadAt
  <2>6. /\ Home(tree, n) \in Homes /\ tree[Home(tree, n)][n] # NoRecipe
        /\ Recipe(tree, n) = tree[Home(tree, n)][n] /\ Recipe(tree, n).ver \in Version
    BY <1>3, HomeIs, SoundHome DEF Recipe
  \* a recipe that is asked about is the one in force or waits
  <2>7. \A repo \in Repo : tree[repo][n] # NoRecipe => repo = "testing" \/ repo = Home(tree, n)
    BY <2>3, <2>6, RepoIs DEF OneHome
  <2>8. CASE conv[n].build # NoText
    <3>1. conv'[n].build = conv[n].build
      BY <1>1, <2>8 DEF Seed
    <3> QED
      BY <2>5, <2>8, <3>1
  <2>9. CASE conv[n].build = NoText
    <3>1. Ahead(tree, rows, n)
      BY <2>5, <2>9
    <3>2. tree["testing"][n] # NoRecipe => Less(n, Recipe(tree, n).ver, tree["testing"][n].ver)
      BY <3>1 DEF Ahead
    <3>3. ASSUME NEW r \in all, r.name = n, r.status = "less" PROVE Less(n, Recipe(tree, n).ver, r.up)
      <4>1. PICK repo \in Repo :
              /\ r.up = feed[n] /\ tree[repo][n] # NoRecipe /\ tree[repo][n].ver \in Version
              /\ Less(n, tree[repo][n].ver, feed[n])
        BY <2>4, <3>3 DEF Less
      <4>2. CASE repo = Home(tree, n)
        BY <2>6, <4>1, <4>2
      <4>3. CASE repo = "testing"
        BY <2>1, <2>6, <3>2, <4>1, <4>3 DEF Orders
      <4> QED
        BY <2>7, <4>1, <4>2, <4>3
    <3>4. Ahead(tree, rows', n)
      BY <1>1, <3>1, <3>3 DEF Ahead
    <3>5. ASSUME conv'[n].build # NoText PROVE Body(conv'[n].build) \in accepted[n]
      <4>1. /\ conv'[n].build = Text(Alpine[feed[n]])
            /\ \E r \in all : r.name = n /\ r.status = "equal"
            /\ ~ \E s \in all : s.name = n /\ s.status = "less"
        <5> HIDE DEF all
        <5>1. conv' = Seed(all)
          BY <1>1 DEF all
        <5>2. n \in {r.name : r \in {s \in all : s.status = "equal" /\ s.from = "aports"}}
                    \ {r.name : r \in {s \in all : s.status = "less"}}
          BY <2>9, <3>5, <5>1 DEF Seed
        <5>3. conv'[n] = [conv[n] EXCEPT !.build = Text(Alpine[feed[n]])]
          BY <2>9, <5>1, <5>2 DEF Seed
        <5> QED
          BY <1>3, <5>2, <5>3 DEF ConvOK, Slots
      <4>2. PICK r \in all : r.name = n /\ r.status = "equal"
        BY <4>1
      <4>3. PICK repo \in Repo : tree[repo][n] # NoRecipe /\ tree[repo][n].ver = feed[n]
        BY <2>1, <2>4, <4>2 DEF Orders
      <4>4. repo # "testing"
        <5> SUFFICES ASSUME repo = "testing" PROVE FALSE
          OBVIOUS
        <5>1. Less(n, Recipe(tree, n).ver, feed[n])
          BY <3>2, <4>3
        <5>2. Home(tree, n) = "extra" => n \in Kept
          BY <3>1 DEF Ahead
        <5>3. \E s \in all : s.name = n /\ s.status = "less"
          BY <4>2, <5>1, <5>2, HomeAsked
        <5> QED
          BY <4>1, <5>3
      <4>5. Recipe(tree, n).ver = feed[n]
        BY <2>6, <2>7, <4>3, <4>4
      <4> QED
        BY <2>5, <4>1, <4>5 DEF Body, Text
    <3> QED
      BY <2>5, <3>4, <3>5
  <2> QED
    BY <2>8, <2>9
<1> QED
  BY <1>2, <1>4, <1>5 DEF ReadInv

LEMMA ReadNext == ASSUME Orders, TypeInv, ReadInv, [Next]_vars PROVE ReadInv'
<1>1. CASE Sync
  BY <1>1, SyncRead
<1>2. CASE Bump
  <2>1. \A n \in Name \cap Aports : ReadAt(tree', conv', accepted', rows', n)
    BY <1>2, BumpRead DEF ReadStep
  <2>2. rows' \subseteq rows
    BY <1>2 DEF Bump
  <2> QED
    BY <2>1, <2>2 DEF ReadInv
<1>3. ASSUME NEW m \in Name, Move(m) PROVE ReadInv'
  BY <1>3 DEF Move, ReadInv, ReadAt, OneHome, Pinned, Beside, Ahead, Home, Recipe
<1>4. ASSUME NEW m \in Name, Promote(m) PROVE ReadInv'
  <2>1. rows' = rows
    BY <1>4 DEF Promote
  <2> QED
    BY <1>4, <2>1, PromoteRead DEF ReadInv
<1>5. ASSUME NEW m \in Name, Edit(m) PROVE ReadInv'
  <2>1. rows' = rows
    BY <1>5 DEF Edit
  <2> QED
    BY <1>5, <2>1, EditRead DEF ReadInv
<1>6. CASE UNCHANGED vars
  BY <1>6 DEF vars, ReadInv, ReadAt, OneHome, Pinned, Beside, Ahead, Home, Recipe
<1> QED
  BY <1>1, <1>2, <1>3, <1>4, <1>5, <1>6 DEF Next

(* sync promotes by itself only a conversion whose build a person has already taken: what
   alpine changed waits for a reading (main.rs, carry's settled, seed, promote_one), of any
   package that aports carries when nothing waits at first, each name is in one repo, every
   recipe of it follows alpine, what extra has of them is installed, and versions that
   compare are an order. *)
THEOREM ReadBeforePromoted == ASSUME Orders, Opening, Followed, AllKept PROVE Spec => ReadFirst
<1>1. Init => ReadInv
  BY ReadInit
<1>2. ASSUME TypeInv, ReadInv, [Next]_vars
      PROVE  [\A n \in Aports : rows' # rows /\ Home(tree, n) # "testing" /\ Recipe(tree, n)' # Recipe(tree, n)
                => Body(Alpine[Recipe(tree, n)'.ver]) \in accepted[n]]_vars
  <2> SUFFICES ASSUME Next, NEW n \in Aports, rows' # rows, Home(tree, n) # "testing",
                      Recipe(tree', n) # Recipe(tree, n)
               PROVE  Body(Alpine[Recipe(tree', n).ver]) \in accepted[n]
    BY <1>2 DEF Recipe, Home
  <2>1. n \in Name \cap Aports
    BY SyncAssumption
  <2>2. CASE Bump
    BY <1>2, <2>1, <2>2, BumpRead DEF ReadStep
  <2>3. CASE tree' = tree
    BY <2>3
  <2> QED
    BY <2>2, <2>3 DEF Next, Sync, Move, Promote, Edit
<1>3. ASSUME TypeInv, ReadInv, [Next]_vars PROVE ReadInv'
  BY <1>3, ReadNext
<1> QED
  BY <1>1, <1>2, <1>3, TypeInit, TypeNext, PTL DEF Spec, ReadFirst

=============================================================================
