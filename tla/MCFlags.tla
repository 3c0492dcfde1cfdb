------------------------------ MODULE MCFlags ------------------------------
(* A package on a box with thin LTO and a march, whose settings have -O3 and a
   rung of an old day, and whose filter has a comment, a fix
   under the head of a rung somebody took out by hand, and a stuck note. *)
EXTENDS Flags

MCConfig == <<Line("CFLAGS_MARCH", <<"-march", "znver3">>), Line("LTO", <<"-flto", "thin">>),
              Line("flags", <<"ssl", "on">>)>>
MCOwn == <<Header("person"), Line("OPT", <<"-O", "3">>),
           Header("rung"), [Line("OPT", <<"-O", "2">>) EXCEPT !.by = "rung"],
           Line("CFLAGS", <<"-fx", "">>), Header("person")>>
MCRecipe == <<Header("stuck"), Blank, Header("person"), Header("rung"), Header("fix"),
              [Line("append-flags", <<"-fPIC", "">>) EXCEPT !.by = "fix"],
              Header("person")>>
MCEdits == {<<"config", Line("OPT", <<"-O", "3">>)>>,
            <<"own", Line("flags", <<"ssl", "off">>)>>,
            <<"filter", [Line("replace-flags", <<"-O", "3">>) EXCEPT !.to = <<"-O", "s">>]>>,
            <<"filter", Line("filter-ldflags", <<"-Wl,-O", "*">>)>>}
MCLadder == <<<<"filter", Line("filter-lto", Nothing)>>, <<"own", Line("OPT", <<"-O", "2">>)>>,
              <<"filter", Line("filter-flags", <<"-march", "*">>)>>, <<"filter", Line("strip-flags", Nothing)>>>>
Act(verb, file_, line) == [verb |-> verb, file |-> file_, line |-> line]
MCRules == <<[on |-> "memory", act |-> Act("halve", "own", Line("KIRY_THINLTO_JOBS", <<"-Wl,--thinlto-jobs", "">>))],
             [on |-> "-fx", act |-> Act("write", "filter", Line("filter-flags", <<"-fx", "">>))],
             [on |-> "register", act |-> Act("write", "filter", Line("append-flags", <<"-Wno-register", "">>))],
             [on |-> "auto_ptr", act |-> Act("write", "filter", Line("append-flags", <<"-D_AUTO_PTR", "">>))],
             [on |-> "isoc99", act |-> Act("notaflag", "filter", Blank)]>>
In(fs, f) == \E i \in DOMAIN fs : fs[i] = f
When(b, s) == IF b THEN {s} ELSE {}
\* more than four links at once do not fit; its clang does not know -fx; with ssl it wants a
\* warning off, and at -Os an old header, which is one fix too many; without ssl it lacks a
\* symbol of another libc at -Os; -O3 for znver3 or under LTO does not work; -Os with LTO
\* crashes clang
MCOutcome(r) ==
  LET c == r.record.c
      ssl == <<"ssl", "on">> \in r.record.uses
      small == In(c, <<"-O", "s">>)
      says == When(In(r.record.ld, <<"-Wl,--thinlto-jobs", "8">>), "memory") \cup When(In(c, <<"-fx", "">>), "-fx")
              \cup When(ssl /\ ~In(c, <<"-Wno-register", "">>), "register")
              \cup When(ssl /\ small /\ ~In(c, <<"-D_AUTO_PTR", "">>), "auto_ptr")
              \cup When(~ssl /\ small, "isoc99")
      bad == In(c, <<"-O", "3">>) /\ (In(c, <<"-march", "znver3">>) \/ In(c, <<"-flto", "thin">>))
      crash == says = {} /\ small /\ In(c, <<"-flto", "thin">>)
  IN  [ok |-> says = {} /\ ~bad /\ ~crash, says |-> says,
       compiled |-> bad \/ says \ {"memory"} # {}, crashed |-> crash]
=============================================================================
