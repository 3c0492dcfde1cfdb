------------------------------ MODULE MCSync ------------------------------
(* Three recipes: one of core that numbers by scheme and shares a patch with
   alpine, one of extra without header assignments whose build may name its
   version, and a tracked local one. *)
EXTENDS Sync

CONSTANTS Absent, Unwritten   \* NoRecipe and NoText

num(k) == <<"num", k>>
sep == <<"sep", 0>>
MCNames == <<"a", "b", "t">>
\* 1.2, 1.2.1, 1.3, 1.3 and a letter, 1.3.1
MCParts == <<
  <<num(1), sep, num(2)>>,
  <<num(1), sep, num(2), sep, num(1)>>,
  <<num(1), sep, num(3)>>,
  <<num(1), sep, num(3), <<"text", 1>>, num(1)>>,
  <<num(1), sep, num(3), sep, num(1)>>>>
alpine(ls, ps, ds) == [heads |-> {"pkgver"}, lines |-> ls, files |-> ps, depends |-> ds]
MCAlpine == <<
  alpine({"x", "y"}, {<<"fix", 1>>}, {"d"}),
  alpine({"x"}, {<<"fix", 1>>}, {"d", "e"}),
  alpine({"x", "y"}, {<<"fix", 2>>}, {"d"}),
  alpine({"x", "y"}, {}, {"d"}),
  alpine({"x", "y"}, {}, {"d"})>>
MCMerged == <<{}, {}, {<<"mine", 1>>}, {}, {}>>

recipe(hs, ls, ps, ver) == [ver |-> 1, heads |-> hs, at |-> ver, lines |-> ls, files |-> ps,
                            depends |-> {"d"}, dirs |-> {}, hold |-> 0]
a1 == recipe({"pkgver"}, {"x", "mine"}, {<<"fix", 1>>, <<"mine", 1>>}, 1)
b(at) == [recipe({}, {"x"}, {}, at) EXCEPT !.dirs = {"run"}]
t1 == recipe({"pkgver"}, {"x"}, {}, 1)
tree1(at) == [repo \in {"local", "core", "extra", "testing"} |-> [n \in {"a", "b", "t"} |->
  CASE repo = "core" /\ n = "a" -> a1 [] repo = "extra" /\ n = "b" -> b(at)
    [] repo = "local" /\ n = "t" -> t1 [] OTHER -> Absent]]
MCStarts == {tree1(0), tree1(1)}
MCPin == [n \in {"a", "b", "t"} |-> ""]
MCScheme == [n \in {"a", "b", "t"} |-> IF n = "a" THEN <<"major", "minor">> ELSE <<>>]
MCPolicy == [n \in {"a", "b", "t"} |-> CASE n = "a" -> "auto=minor" [] n = "b" -> "auto=patch" [] n = "t" -> "auto=patch"]
MCGroup == [n \in {"a", "b", "t"} |-> IF n = "t" THEN {"b", "t"} ELSE {}]
=============================================================================
