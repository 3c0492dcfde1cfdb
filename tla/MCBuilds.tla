------------------------------ MODULE MCBuilds ------------------------------
(* Two processes that build a package for one or both targets, or gc. *)
EXTENDS Builds, TLC

CONSTANTS Musl, Gnu, NoEntry

Alike == Permutations(Proc)

OneOrBoth == {<<Musl>>, <<Musl, Gnu>>}
=============================================================================
