------------------------------ MODULE MCRebuild ------------------------------
(* A storm for Rebuild: a base library for two targets, and above it on musl a
   library, a program and a plugin that need each other, the program built for
   gnu as well, and a tool that the plugin and it cannot be untangled from. *)
EXTENDS Rebuild

MCItem == {"base", "baseg", "lib", "app", "appg", "plug", "tool"}
MCName == {"base", "lib", "app", "plug", "tool"}
MCNameOf == [i \in MCItem |-> CASE i = "baseg" -> "base" [] i = "appg" -> "app" [] OTHER -> i]
\* lib's recipe lists plug, which closes a cycle that lib's bootstrap script opens;
\* nothing opens the one of plug and tool
MCDeps == {<<"app", "lib">>, <<"plug", "app">>, <<"lib", "plug">>, <<"plug", "tool">>, <<"tool", "plug">>}
MCUses == {<<"lib", "base">>, <<"app", "base">>, <<"appg", "baseg">>, <<"plug", "base">>,
           <<"plug", "app">>, <<"tool", "app">>}
MCAbis == [i \in MCItem |-> CASE i = "base" -> {1, 2} [] i = "baseg" -> {0, 1}
                              [] i = "app" -> {1, 2} [] OTHER -> {1}]
MCLine == {"drop", "lto", "o2"}
MCLadder == <<"lto", "o2">>
\* app is mended by the fix its log names and a rung, plug by no line at all
MCOutcome(n, ls) ==
  CASE n = "app" -> IF "drop" \notin ls THEN "drop" ELSE IF "lto" \notin ls THEN "plain" ELSE "ok"
    [] n = "plug" -> IF "lto" \in ls THEN "everyrung" ELSE "plain"
    [] OTHER -> "ok"
MCLacks == [n \in MCName |-> IF n = "app" THEN 2 ELSE IF n = "plug" THEN 3 ELSE 0]
=============================================================================
