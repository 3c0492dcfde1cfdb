------------------------------- MODULE Sync -------------------------------
(* Recipes that follow an upstream: `kiry sync` reads every recipe's upstream
   version, converts what moved into testing/, carries the tree's own recipe
   into the conversion and promotes a bump nobody has to read; `kiry promote`
   takes the others. A build file is its header assignments, the version they
   or its body name, and its other lines. *)
EXTENDS Integers, Sequences, FiniteSets, SequencesExt

CONSTANTS
  Names,     \* the packages, in the order of their names
  Parts,     \* version -> its parts, <<"num", n>>, <<"sep", 0>> or <<"text", n>>
  Alpine,    \* version -> what alpine's recipe converts to
  Merged,    \* version -> the tree's own patches its tarball already has
  Aports,    \* the ones of them aports carries
  Tracked,   \* the recipes with a tracker
  Pin,       \* package -> "alpine", "none" or "" for no pin
  Scheme,    \* package -> the roles of its version's parts, <<>> without a scheme
  Policy,    \* package -> the word of its policy file
  Group,     \* package -> what its group file names
  Kept,      \* what is installed on some target
  Starts,    \* the trees at first: repo -> package -> its recipe, or NoRecipe
  Word,      \* lines a person writes
  NoRecipe, NoText,
  MaxMoves, MaxSyncs, MaxActs

VARIABLES
  tree,      \* repo -> package -> recipe
  feed,      \* package -> the version its aport or its tracker has
  conv,      \* package -> var/kiry/converted: build, pending, testing
  rows,      \* the rows a running sync still has to take, in the order of `at`
  accepted,  \* history: package -> the conversions a person has taken
  moves, syncs, acts

vars == <<tree, feed, conv, rows, accepted, moves, syncs, acts>>

Name == ToSet(Names)
Version == DOMAIN Parts
Repos == <<"local", "core", "extra", "testing">>
Body(b) == [heads |-> b.heads, lines |-> b.lines]
Text(b) == [heads |-> b.heads, lines |-> b.lines, files |-> b.files]
Says(b) == [heads |-> b.heads, lines |-> b.lines, at |-> b.at]

-----------------------------------------------------------------------------
(* Versions *)
\* numbers order, and text does under a scheme; what is left over decides while it is numeric
Compare(x, y, letters) ==
  LET n == Min({Len(x), Len(y)})
      apart == {i \in 1..n : x[i] # y[i]}
      i == Min(apart)
      rest == ToSet(SubSeq(IF Len(x) > n THEN x ELSE y, n + 1, Max({Len(x), Len(y)})))
  IN  IF apart # {}
      THEN IF x[i][1] # y[i][1] \/ (x[i][1] = "text" /\ ~letters) THEN "none"
           ELSE IF x[i][2] < y[i][2] THEN "less" ELSE "greater"
      ELSE IF \E p \in rest : p[1] = "text" THEN "none"
      ELSE IF \A p \in rest : p[2] = 0 THEN "equal"
      ELSE IF Len(x) > Len(y) THEN "greater" ELSE "less"

\* what the first component that moved is called
Level(n, repo, v, w) ==
  LET Comps(u) == SelectSeq(Parts[u], LAMBDA p : p[1] # "sep")
      Comp(s, i) == IF i \in DOMAIN s THEN s[i] ELSE <<"num", 0>>
      x == Comps(v)
      y == Comps(w)
      moved == {i \in 1..Max({Len(x), Len(y)}) : Comp(x, i) # Comp(y, i)}
      roles == IF Scheme[n] = <<>> THEN <<"major", "minor", "patch">> ELSE Scheme[n]
  IN  IF moved = {} \/ (repo = "core" /\ Scheme[n] = <<>>) THEN "none"
      ELSE IF Min(moved) \in DOMAIN roles THEN roles[Min(moved)] ELSE "patch"

PolicyAllows(n, repo, level) ==
  /\ repo = "core" => Scheme[n] # <<>>
  /\ \/ Policy[n] = "auto=always"
     \/ Policy[n] = "auto=minor" /\ level \in {"minor", "patch"}
     \/ Policy[n] = "auto=patch" /\ level = "patch"

-----------------------------------------------------------------------------
(* The survey *)
\* a local recipe follows the aport only when a pin says so
Upstream(n, repo, net) ==
  LET aport == n \in Aports /\ Pin[n] # "none"
  IN  IF aport /\ (repo = "local" => Pin[n] # "") THEN "aports"
      ELSE IF n \in Tracked /\ net /\ Pin[n] \in {"", "none"} THEN "tracker"
      ELSE "unknown"

\* the i-th name in the j-th repo; rows are sorted by name
Row(i, j, net) ==
  LET n == Names[i]
      ours == tree[Repos[j]][n].ver
      from == Upstream(n, Repos[j], net)
  IN  [at |-> 4 * i + j, name |-> n, ours |-> ours, up |-> feed[n], from |-> from,
       status |-> IF from = "unknown" THEN from ELSE Compare(Parts[ours], Parts[feed[n]], Scheme[n] # <<>>)]

Asked(n, repo, want) ==
  /\ tree[repo][n] # NoRecipe
  /\ IF want = {} THEN repo = "extra" => n \in Kept ELSE n \in want

Survey(want, net) ==
  {Row(x[1], x[2], net) : x \in {y \in (DOMAIN Names) \X (1..4) : Asked(Names[y[1]], Repos[y[2]], want)}}
First(all) == CHOOSE r \in all : \A s \in all : r.at <= s.at

\* mutant: every row at alpine's version seeds, a bump that waits included
SeedAny(all) ==
  LET due == {r \in all : r.status = "equal" /\ r.from = "aports"}
  IN  [n \in Name |-> IF conv[n].build = NoText /\ \E r \in due : r.name = n
                      THEN [conv[n] EXCEPT !.build = Text(Alpine[feed[n]])] ELSE conv[n]]

\* a name no row of which is behind, with no conversion to measure against yet
Seed(all) ==
  LET behind == {r.name : r \in {s \in all : s.status = "less"}}
      due == {r.name : r \in {s \in all : s.status = "equal" /\ s.from = "aports"}} \ behind
  IN  [n \in Name |-> IF n \in due /\ conv[n].build = NoText
                      THEN [conv[n] EXCEPT !.build = Text(Alpine[feed[n]])] ELSE conv[n]]

-----------------------------------------------------------------------------
(* Promoting *)
\* the first repo that holds the name; testing loses to every other
Home(t, n) == Repos[Min({4} \cup {i \in 1..3 : t[Repos[i]][n] # NoRecipe})]
Recipe(t, n) == t[Home(t, n)][n]

Fields == {"ver", "at", "heads", "lines", "files", "depends", "dirs", "hold"}
Sound(b) == b # NoRecipe => DOMAIN b = Fields /\ b.ver \in Version /\ b.at \in Version \cup {0}
\* every package has a recipe at first, and what alpine's converts to is a text
ASSUME SyncAssumption ==
  /\ Names \in Seq(Name) /\ Aports \subseteq Name
  /\ \A v \in Version : Text(Alpine[v]) # NoText
  /\ \A t \in Starts :
       /\ DOMAIN t = ToSet(Repos) /\ \A repo \in ToSet(Repos) : DOMAIN t[repo] = Name
       /\ \A n \in Name : Recipe(t, n) # NoRecipe /\ \A repo \in ToSet(Repos) : Sound(t[repo][n])

Promotes(t, n) == /\ t["testing"][n] # NoRecipe
                  /\ \A m \in Group[n] \ {n} : t["testing"][m] # NoRecipe
Moved(t, n) ==
  LET to == IF Home(t, n) = "testing" THEN "extra" ELSE Home(t, n)
  IN  [t EXCEPT ![to][n] = t["testing"][n], !["testing"][n] = NoRecipe]
\* the conversion a promotion accepts is what the next bump is measured against
Accept(c, n) ==
  [c EXCEPT ![n].build = IF c[n].pending = NoText THEN @ ELSE c[n].pending, ![n].pending = NoText]

-----------------------------------------------------------------------------
(* One bump *)
Converted(v) == [ver |-> v, at |-> v, heads |-> Alpine[v].heads, lines |-> Alpine[v].lines,
                 files |-> Alpine[v].files, depends |-> Alpine[v].depends, dirs |-> {}, hold |-> 0]

\* ours under the bump's assignments, when the conversion has every one of them
Reheads(old, new) == old.heads \subseteq new.heads
Reheaded(old, new) ==
  IF Reheads(old, new)
  THEN [new EXCEPT !.heads = old.heads, !.lines = old.lines,
                   !.at = IF "pkgver" \in old.heads THEN new.at ELSE old.at]
  ELSE new

FilesOf(b) == {f[1] : f \in b.files}
\* mutant: a file the conversion lacks is one alpine dropped
KeepNone(old, new, base) == {}
\* a local file the bump lacks stays unless the last conversion had it, and unless the
\* new tarball has it
KeepLocal(old, new, base) ==
  {f \in old.files : f[1] \notin FilesOf(new) /\ (base = NoText \/ f[1] \notin FilesOf(base))} \ Merged[new.ver]

Carry(old, new, base) ==
  [Reheaded(old, new) EXCEPT !.files = @ \cup KeepLocal(old, new, base), !.depends = old.depends,
                             !.dirs = old.dirs, !.hold = old.hold]

\* nothing of alpine's moved since the conversion somebody accepted
Settled(old, new, base) == Reheads(old, new) /\ base # NoText /\ Body(base) = Body(new)
Differs(old, new, base) ==
  \/ \E f \in old.files, g \in new.files : f[1] = g[1] /\ f # g
  \/ IF Reheads(old, new) THEN base = NoText /\ Body(old) # Body(new) ELSE Says(old) # Says(new)

\* mutant: the conversion is read after carry has rewritten it
GeneratedLate(old, new, base) == IF old = NoRecipe THEN Text(new) ELSE Text(Carry(old, new, base))
\* what the next bump is measured against, as alpine's recipe converted
Generated(old, new, base) == Text(new)

\* a tracker has a version and no recipe: the files of this one with the version swapped
Restamped(old, was, now) == [old EXCEPT !.ver = now, !.at = IF @ = was THEN now ELSE @, !.dirs = {}]

Allowed(r) == PolicyAllows(r.name, Home(tree, r.name), Level(r.name, Home(tree, r.name), r.ours, r.up))
Placed(n, b) == [tree EXCEPT !["testing"][n] = b]
Stays(n, c, b) == tree' = Placed(n, b) /\ conv' = [c EXCEPT ![n].testing = Says(b)]
Lands(n, c, b, promote) ==
  IF promote /\ Promotes(Placed(n, b), n)
  THEN tree' = Moved(Placed(n, b), n) /\ conv' = Accept(c, n)
  ELSE Stays(n, c, b)

\* no tracker asks this: a body that names the version and no pkgver= to move it with
ByHand(r) ==
  LET old == Recipe(tree, r.name)
  IN  Home(tree, r.name) # "testing" /\ r.from = "aports" /\ "pkgver" \notin old.heads /\ old.at = r.ours
HeldAt(r) == Home(tree, r.name) # "testing" /\ Recipe(tree, r.name).hold = r.up
Edited(n) == tree["testing"][n] # NoRecipe /\ conv[n].testing # Says(tree["testing"][n])

Waits(r) == ByHand(r) \/ HeldAt(r) \/ Edited(r.name)

Restamp(r) ==
  LET n == r.name
      new == Restamped(Recipe(tree, n), r.ours, r.up)
  IN  IF Home(tree, n) = "testing" THEN UNCHANGED <<tree, conv>>
      ELSE \/ Lands(n, conv, new, Allowed(r))
           \/ tree' = Placed(n, new) /\ UNCHANGED conv           \* a source does not come

Convert(r) ==
  LET n == r.name
      old == IF Home(tree, n) = "testing" THEN NoRecipe ELSE Recipe(tree, n)
      new == Converted(r.up)
      base == conv[n].build
      wrote == [conv EXCEPT ![n].pending = Generated(old, new, base)]
  IN  IF old = NoRecipe THEN Stays(n, wrote, new)
      ELSE Lands(n, wrote, Carry(old, new, base), Settled(old, new, base) /\ ~Differs(old, new, base) /\ Allowed(r))

-----------------------------------------------------------------------------
Init ==
  /\ tree \in Starts
  /\ feed = [n \in Name |-> Recipe(tree, n).ver]
  /\ conv = [n \in Name |-> [build |-> NoText, pending |-> NoText, testing |-> NoText]]
  /\ rows = {}
  /\ accepted = [n \in Name |-> {Body(Alpine[Recipe(tree, n).ver])}]
  /\ moves = 0 /\ syncs = 0 /\ acts = 0

\* upstream moves, forward or back; the clone is pulled before a survey and by nothing else
Move(n) ==
  /\ rows = {} /\ moves < MaxMoves /\ moves' = moves + 1
  /\ \E v \in Version \ {feed[n]} : feed' = [feed EXCEPT ![n] = v]
  /\ UNCHANGED <<tree, conv, rows, accepted, syncs, acts>>

Sync ==
  /\ rows = {} /\ syncs < MaxSyncs /\ syncs' = syncs + 1
  /\ \E net \in BOOLEAN, want \in {{}} \cup {{n} : n \in Name} :
       LET all == Survey(want, net)
       IN  /\ rows' = {r \in all : r.status = "less"}
           /\ conv' = Seed(all)
  /\ UNCHANGED <<tree, feed, accepted, moves, acts>>

Bump ==
  /\ rows # {}
  /\ LET r == First(rows)
     IN  /\ rows' = rows \ {r}
         /\ \/ Waits(r) /\ UNCHANGED <<tree, conv>>
            \/ ~Waits(r) /\ r.from = "tracker" /\ Restamp(r)
            \/ ~Waits(r) /\ r.from = "aports" /\ Convert(r)
            \/ ~Waits(r) /\ r.from = "aports" /\ UNCHANGED <<tree, conv>>   \* alpine's recipe does not convert
  /\ UNCHANGED <<feed, accepted, moves, syncs, acts>>

\* promote takes the writer lock, which sync does not
Promote(n) ==
  /\ acts < MaxActs /\ acts' = acts + 1 /\ Promotes(tree, n)
  /\ tree' = Moved(tree, n) /\ conv' = Accept(conv, n)
  /\ accepted' = [accepted EXCEPT ![n] = @ \cup {Body(Alpine[tree["testing"][n].ver])}]
  /\ UNCHANGED <<feed, rows, moves, syncs>>

\* what a person does by hand: a line or a dep in the recipe or in what waits, a hold, a delete
Edit(n) ==
  /\ acts < MaxActs /\ acts' = acts + 1
  /\ \E repo \in {Home(tree, n), "testing"} :
       /\ tree[repo][n] # NoRecipe
       /\ \/ \E w \in Word : tree' = [tree EXCEPT ![repo][n].lines = SymDiff(@, {w})]
          \/ \E w \in Word : tree' = [tree EXCEPT ![repo][n].depends = SymDiff(@, {w})]
          \/ repo # "testing" /\ tree' = [tree EXCEPT ![repo][n].hold = feed[n]]
          \/ tree' = [tree EXCEPT ![repo][n] = NoRecipe]
  /\ UNCHANGED <<feed, conv, rows, accepted, moves, syncs>>

Next == Sync \/ Bump \/ \E n \in Name : Move(n) \/ Promote(n) \/ Edit(n)
Spec == Init /\ [][Next]_vars

-----------------------------------------------------------------------------
(* Types: recipes of known versions, conversions to measure against, rows that are behind. *)
TypeOK ==
  /\ \A repo \in ToSet(Repos), n \in Name : Sound(tree[repo][n])
  /\ feed \in [Name -> Version]
  /\ \A n \in Name : conv[n].pending # NoText => \E v \in Version : conv[n].pending = Text(Alpine[v])
  /\ \A r \in rows : r.status = "less" /\ r.from \in {"aports", "tracker"}

(* sync promotes by itself only a conversion whose build a person has already taken:
   what alpine changed waits for a reading (main.rs, carry's settled, seed, promote_one). *)
ReadFirst ==
  [][\A n \in Aports : rows' # rows /\ Home(tree, n) # "testing" /\ Recipe(tree, n)' # Recipe(tree, n)
       => Body(Alpine[Recipe(tree, n)'.ver]) \in accepted[n]]_vars

(* What the tree decided stays through every bump sync promotes by itself: the build's own
   lines, the deps, the directories, the hold and the patches the tarball does not have
   (main.rs, carry, keep_local, restamp). *)
OwnStays ==
  [][\A n \in Name : rows' # rows /\ Home(tree, n) # "testing"
       => LET a == Recipe(tree, n)
              b == Recipe(tree, n)'
          IN  /\ <<b.heads, b.lines, b.depends, b.dirs, b.hold>> = <<a.heads, a.lines, a.depends, a.dirs, a.hold>>
              /\ \A f \in a.files : f[1] \in Word => f \in b.files \cup Merged[b.ver]]_vars

(* sync itself never moves a recipe further than its policy lets it, counted from the
   version the tree is at (main.rs, policy_allows). *)
PolicyKept ==
  [][\A n \in Name : rows' # rows /\ Home(tree, n) # "testing" /\ Recipe(tree, n)'.ver # Recipe(tree, n).ver
       => PolicyAllows(n, Home(tree, n), Level(n, Home(tree, n), Recipe(tree, n).ver, Recipe(tree, n)'.ver))]_vars
=============================================================================
