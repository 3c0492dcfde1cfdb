------------------------------ MODULE MCTrace ------------------------------
(* A login shell, a script it interprets, and kiry, whose build runs either;
   two numbers for processes and two readers. *)
EXTENDS Trace, TLC

CONSTANTS sh, app, kiry, plug, dep, core

MCScript == [f \in Program |-> IF f = sh THEN {app} ELSE {}]
MCNames == [f \in Program |-> Program \ {f}]
\* everything needs core, which is under everything, and plug needs dep as well
MCNeeds == [f \in Program \cup Lib |-> CASE f = plug -> {dep, core} [] f = core -> {} [] OTHER -> {core}]
\* a login shell of which nothing was carried, or that and a script that has gone since; or a
\* script that goes on
MCBegins == {[prog |-> sh, known |-> <<Nobody, Nobody>>], [prog |-> sh, known |-> <<sh, app>>],
             [prog |-> app, known |-> <<app, Nobody>>]}
Readers == Permutations(Reader)
=============================================================================
