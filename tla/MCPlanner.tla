----------------------------- MODULE MCPlanner ------------------------------
(* Roots for Planner. app looks for lib and could use codec, and runs a script
   of old; plug runs something of rt that names no package; lib turns out to run on rt; plug looks for something that a name says
   is in old and is not, and old is built with plug; gen finds out that it needs
   tool, which is built with gen and has a bootstrap script; codec and old are
   built no more. *)
EXTENDS Planner

MCPkg == {"base", "cc", "app", "lib", "rt", "codec", "plug", "tool", "gen", "old"}
MCMiss == {"lib.pc", "hid", "codec.h", "odd", "nil"}
With0(f) == [p \in MCPkg |-> IF p \in DOMAIN f THEN f[p] ELSE {}]
MCListed == With0([app |-> {"lib", "codec", "old"}, lib |-> {"rt"}, tool |-> {"gen"}, gen |-> {"tool"},
                   old |-> {"plug"}, codec |-> {"rt"}])
MCRunTime == With0([lib |-> {"rt"}])
MCLooks == [p \in MCPkg |-> CASE p = "app" -> <<"lib.pc">> [] p = "plug" -> <<"odd">> [] p = "gen" -> <<"hid">>
                              [] p = "codec" -> <<"hid", "lib.pc", "nil">> [] p = "old" -> <<"nil">> [] OTHER -> <<>>]
MCProbes == With0([app |-> {"codec.h"}])
MCShips == With0([lib |-> {"lib.pc"}, tool |-> {"hid"}, codec |-> {"codec.h"}])
MCGuess == [m \in MCMiss |-> CASE m = "lib.pc" -> "lib" [] m = "codec.h" -> "codec" [] m = "odd" -> "old"
                               [] OTHER -> NoPkg]
MCLinks == With0([app |-> {"lib"}])
MCScripts == With0([app |-> {"old"}, plug |-> {"rt"}])
MCSeen == With0([app |-> {"codec"}])

built(d) == [ver |-> 1, deps |-> d]
Root(S) == [p \in MCPkg |-> IF p \in S THEN built(IF p = "app" THEN {"lib"} ELSE IF p = "lib" THEN {"rt"} ELSE {})
                            ELSE None]
World(S) == [there |-> TRUE, names |-> S]
MCVer == [p \in MCPkg |-> 1]
MCGiven ==
  { \* a first install, with and without the toolchain in the cache
    [ver |-> MCVer, in |-> Root({"base", "old"}), cache |-> Root({"cc", "codec"}), world |-> NoWorld],
    [ver |-> MCVer, in |-> Root({"base"}), cache |-> Root({}), world |-> World({})],
    \* a root in use
    [ver |-> MCVer, in |-> Root({"base", "cc", "codec", "plug", "lib", "rt"}), cache |-> Root({"app"}),
     world |-> World({"plug", "lib"})],
    \* everything there, and both ends of the cycle moved on
    [ver |-> [MCVer EXCEPT !["tool"] = 2, !["gen"] = 2],
     in |-> Root({"base", "cc", "app", "lib", "rt", "codec", "tool", "gen", "old"}),
     cache |-> Root({"cc"}), world |-> World({"app", "tool"})] }
=============================================================================
