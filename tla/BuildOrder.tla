----------------------------- MODULE BuildOrder -----------------------------
(* What a rebuild promises about the order it works in, whatever its levels,
   threads, waits and retries are: a package is built once what its recipe
   lists of the others is in, or has a stand-in, and never once one of those is
   stuck without one; it goes in once. A run that is through, gives up or is
   killed leaves nothing of this behind. *)
CONSTANTS
  Item,       \* a package for one of its targets
  Deps,       \* pairs <<i, j>>: the recipe of i lists j
  Starters    \* the items with a bootstrap script, which may stand in for themselves

VARIABLES
  stage,      \* what each item has come to
  standin     \* the items whose bootstrap build is in

vars == <<stage, standin>>

Stages == {"none", "wait", "boot", "build", "in", "stuck"}

\* what i is built against, as far as this run is about it
Needs(i) == {j \in Item \ {i} : <<i, j>> \in Deps /\ stage[j] # "none"}
Ready(i) == \A j \in Needs(i) : stage[j] = "in" \/ j \in standin

Become(B, s) == stage' = [i \in Item |-> IF i \in B THEN s ELSE stage[i]]

Init == /\ stage = [i \in Item |-> "none"]
        /\ standin = {}

Start == \E B \in (SUBSET Item) \ {{}} :
  /\ \A i \in Item : stage[i] = "none"
  /\ Become(B, "wait")
  /\ standin' = {}

\* a package's targets start together, those with a bootstrap pass to stand in
Build == \E B \in (SUBSET Item) \ {{}} : \E S \in SUBSET B :
  /\ \A i \in B : stage[i] = "wait"
  /\ S \subseteq Starters \ standin
  /\ \A i \in B \ S : Ready(i)
  /\ stage' = [i \in Item |-> IF i \in S THEN "boot" ELSE IF i \in B THEN "build" ELSE stage[i]]
  /\ UNCHANGED standin

\* what was built goes in; what only stands in waits for its turn again
Land == \E B \in (SUBSET Item) \ {{}} :
  /\ \A i \in B : stage[i] \in {"boot", "build"}
  /\ stage' = [i \in Item |-> IF i \in B THEN IF stage[i] = "boot" THEN "wait" ELSE "in" ELSE stage[i]]
  /\ standin' = standin \cup {i \in B : stage[i] = "boot"}

Stick == \E B \in (SUBSET Item) \ {{}} :
  /\ \A i \in B : stage[i] \in {"wait", "boot", "build"}
  /\ Become(B, "stuck")
  /\ UNCHANGED standin

\* a run that is through, one that found nothing to start with, or one that was killed
Over == /\ Become(Item, "none")
        /\ standin' = {}

Next == Start \/ Build \/ Land \/ Stick \/ Over
Spec == Init /\ [][Next]_vars
=============================================================================
