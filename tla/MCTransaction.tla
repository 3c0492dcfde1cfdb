--------------------------- MODULE MCTransaction ---------------------------
(* Small roots for Transaction: a library package that bumps its file, drops a
   symbol and moves its soname, a program that links it, and what collides
   with either. Each cfg picks the batches, the commands and the bounds. *)
EXTENDS Transaction

CONSTANTS Absent, Missing, Nobody   \* values of NoEntry, NoRecord and NoProc

file == [link |-> Absent, soname |-> Absent, needs |-> {}, exports |-> {}, undefined |-> {}]
lib(s, xs) == [file EXCEPT !.soname = s, !.exports = xs]
user(s, us) == [file EXCEPT !.needs = {s}, !.undefined = us]
to(q) == [file EXCEPT !.link = q]

MCPath == {"conf", "so1", "f1", "f2", "so2", "g1", "bin"}
MCContent == {"mine", "c1", "c2", "to_f1", "to_f2", "to_g1", "lib1", "lib2", "lib3", "app1", "app2"}
MCInfo == [c \in MCContent |->
  CASE c \in {"mine", "c1", "c2"} -> file
    [] c = "to_f1" -> to("f1") [] c = "to_f2" -> to("f2") [] c = "to_g1" -> to("g1")
    [] c = "lib1" -> lib("s1", {"x", "y"})
    [] c = "lib2" -> lib("s1", {"x"})
    [] c = "lib3" -> lib("s2", {"x"})
    [] c = "app1" -> user("s1", {"y"})
    [] c = "app2" -> user("s2", {"x"})]
MCSoAt == [s \in {"s1", "s2"} |-> IF s = "s1" THEN "so1" ELSE "so2"]

ship(m) == [q \in MCPath |-> IF q \in DOMAIN m THEN m[q] ELSE Absent]
pkg(n, t, ds, m) == [name |-> n, target |-> t, depends |-> ds, ships |-> ship(m)]

\* the library: a first version, a patch release under the same soname that drops y, and a
\* release that moves the soname
A1 == pkg("a", "musl", {}, [conf |-> "c1", so1 |-> "to_f1", f1 |-> "lib1"])
A2 == pkg("a", "musl", {}, [conf |-> "c2", so1 |-> "to_f2", f2 |-> "lib2"])
A3 == pkg("a", "musl", {}, [conf |-> "c2", so2 |-> "to_g1", g1 |-> "lib3"])
\* what links it, before and after its rebuild
B1 == pkg("b", "musl", {"a"}, [bin |-> "app1"])
B2 == pkg("b", "musl", {"a"}, [bin |-> "app2"])
\* strangers on the other tier, one shipping the library's config and one its file
C1 == pkg("c", "gnu", {}, [conf |-> "c2"])
C2 == pkg("b", "gnu", {}, [f1 |-> "lib2"])
\* a program nothing else needs
E1 == pkg("c", "gnu", {}, [bin |-> "app1"])
\* a config that moves from one package to the other
A4 == pkg("a", "musl", {}, [f1 |-> "lib1", so1 |-> "to_f1"])
B4 == pkg("b", "musl", {"a"}, [conf |-> "c1"])

MCArchive == {A1, A2, A3, A4, B1, B2, B4, C1, C2, E1}
Upgrades == {<<A1>>, <<A2>>, <<B1>>, <<A3, B2>>, <<A3>>, <<C1>>, <<A4, B4>>, <<C2>>}
Takeovers == {<<A1>>, <<B1>>, <<A3>>, <<C1>>, <<C2>>}
Interrupted == {<<A1>>, <<E1>>, <<A2>>, <<B4, A4>>}
=============================================================================
