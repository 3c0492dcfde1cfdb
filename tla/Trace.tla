------------------------------- MODULE Trace -------------------------------
(* How kiry learns what programs dlopen and run. The kernel writes dlopens and
   execs into two trace buffers; `observe` drains both under a lock, walks the
   events to find which program each pid was, and adds what it learns to the
   consumers' files under var/kiry/seen. A program stands for the package that
   owns its file. *)
EXTENDS Integers, Sequences, FiniteSets, SequencesExt

CONSTANTS
  Pid, Reader,
  Program,   \* files a process can run
  Kiry,      \* the program builds run under
  Begins,    \* what the one process runs at first, and what a read before carried of each pid
  Script,    \* interpreter -> the scripts whose #! names it
  Shells,    \* /etc/shells
  Names,     \* program -> the programs its file names as words of their own
  Lib,       \* what is dlopened
  Needs,     \* file -> its DT_NEEDED
  Base,      \* what everything uses, which is never written down
  Renewed,   \* the packages a new build of is installed
  Nobody,
  ExecCap,   \* events the exec buffer holds
  MaxEvents, MaxReads, MaxFaults

Process == [prog : Program, build : BOOLEAN, start : Nat, ran : Nat, line : SUBSET Nat, libc : {1, 2},
            calls : Seq([lib : Lib, on : BOOLEAN]), maps : SUBSET Lib, asked : SUBSET Lib]

ASSUME TraceAssumption ==
  /\ Kiry \in Program /\ Begins \subseteq [prog : Program \ {Kiry}, known : [Pid -> Program \cup {Nobody}]]
  /\ \A b \in Begins : b.known[Min(Pid)] \in {b.prog, Nobody}
  /\ Nobody \notin Program \cup Lib
  /\ Needs \in [Program \cup Lib -> SUBSET Lib] /\ Base \subseteq Program \cup Lib
  /\ Script \in [Program -> SUBSET Program] /\ Names \in [Program -> SUBSET Program]
  \* a script is run by one interpreter, which is a program of its own
  /\ \A i, j \in Program : Script[i] \cap Script[j] # {} => i = j
  /\ \A i, j \in Program : Script[i] # {} => i \notin Script[j]
  /\ Nobody \notin Reader \cup Process
  /\ ExecCap \in Nat \ {0} /\ MaxEvents \in Nat

VARIABLES
  now,       \* events stamped so far, the boot clock both buffers are stamped with
  proc,      \* pid -> the process that has it, or Nobody
  libc,      \* the inode of libc
  armed,     \* the inode the probes are on
  asks,      \* instances/kiry: entries and returns of dlopen
  execs,     \* instances/kiry-exec: forks and execs
  carried,   \* run/kiry/lineage: what each live pid is, and which are a build's
  seen,      \* var/kiry/seen: program -> what it was seen to load or run
  lock,      \* the flock on run/kiry/lineage
  rd,        \* reader -> what it does and holds
  lost,      \* history: the events no reader will have, or not know for what they were
  taken,     \* history: pid -> its latest fork or exec a reader has had
  reads, faults

kernel == <<now, proc, libc, execs>>
vars == <<now, proc, libc, armed, asks, execs, carried, seen, lock, rd, lost, taken, reads, faults>>

\* the interpreter of a script, as /proc has it
Exe(f) == IF \E i \in Program : f \in Script[i] THEN CHOOSE i \in Program : f \in Script[i] ELSE f

\* what of `in` a file's DT_NEEDED reaches: the least that has it and what it needs of `in`
Reach(from, in) ==
  LET closed == {X \in SUBSET (from \cup in) : from \subseteq X /\ \A f \in X : Needs[f] \cap in \subseteq X}
  IN  {f \in from \cup in : \A X \in closed : f \in X}

\* ld.so: a file is mapped with all it needs
Loaded(f) == Reach({f}, Lib) \cap Lib

Alive == {p \in Pid : proc[p] # Nobody}
Strangers == [p \in Pid |-> Nobody]
NoLines == [c \in Program |-> {}]
Idle == [pc |-> "idle", asks |-> <<>>, execs |-> <<>>, found |-> {}, add |-> NoLines, for |-> Nobody, base |-> {}, left |-> <<>>, owed |-> {}]

Init ==
  /\ now = 0
  /\ \E b \in Begins :
       /\ proc = [p \in Pid |-> IF p = Min(Pid)
                                THEN [prog |-> b.prog, build |-> FALSE, start |-> 0, ran |-> 0, line |-> {},
                                      libc |-> 1, calls |-> <<>>, maps |-> Loaded(Exe(b.prog)), asked |-> {}]
                                ELSE Nobody]
       /\ carried = [known |-> b.known, built |-> {}]
  /\ libc \in {1, 2} /\ armed = 1   \* it may have been replaced since it was armed
  /\ asks = <<>> /\ execs = <<>>
  /\ seen = NoLines
  /\ lock = Nobody
  /\ rd = [r \in Reader |-> Idle]
  /\ lost = {} /\ taken = [p \in Pid |-> 0]
  /\ reads = 0 /\ faults = 0

-----------------------------------------------------------------------------
(* The kernel *)
Ticks == now < MaxEvents /\ now' = now + 1

\* a full buffer gives up its oldest event; `astray` is what no reader will know e for
Logged(e, astray) ==
  /\ execs' = Append(IF Len(execs) = ExecCap THEN Tail(execs) ELSE execs, e)
  /\ lost' = astray \cup (IF Len(execs) = ExecCap THEN lost \cup {Head(execs).at} ELSE lost)

Fork(p, c) ==
  /\ Ticks /\ p \in Alive /\ c \notin Alive
  /\ proc' = [proc EXCEPT ![c] = [proc[p] EXCEPT !.start = now', !.line = @ \cup {now'}, !.calls = <<>>]]
  /\ Logged([what |-> "fork", at |-> now', pid |-> p, child |-> c,
             by |-> proc[p].prog, build |-> proc[p].build, line |-> proc[p].line], {})
  /\ UNCHANGED <<libc, armed, asks, carried, seen, lock, rd, taken, reads, faults>>

\* argv names a script when an interpreter is run by hand or for a script's #!. It is a line of
\* its own before the exec's, which a drain between the two or an overrun takes away: `said` is
\* what is left of it. Then, and where a script runs its interpreter on anything but itself, the
\* lines say something else than what p is
Exec(p, f, arg, said) ==
  /\ Ticks /\ p \in Alive
  /\ arg \in Script[f] \cup {Nobody} /\ said \in {arg, Nobody}
  /\ LET prev == proc[p].prog
         build == proc[p].build \/ f = Kiry
         is == IF arg # Nobody /\ ~build THEN arg ELSE f
         misread == ~build /\ (said # arg \/ (prev \in Script[f] /\ arg # prev))
     IN  /\ proc' = [proc EXCEPT ![p] = [prog |-> is, build |-> build, start |-> @.start, ran |-> now',
                                         line |-> @.line \cup {now'}, libc |-> libc, calls |-> <<>>,
                                         maps |-> Loaded(Exe(f)), asked |-> {}]]
         /\ Logged([what |-> "exec", at |-> now', pid |-> p, file |-> f, arg |-> said, is |-> is,
                    by |-> prev, build |-> proc[p].build, line |-> proc[p].line],
                   IF misread THEN {now'} ELSE {})
  /\ UNCHANGED <<libc, armed, asks, carried, seen, lock, rd, taken, reads, faults>>

Exit(p) ==
  /\ Cardinality(Alive) > 1 /\ p \in Alive
  /\ proc' = [proc EXCEPT ![p] = Nobody]
  /\ UNCHANGED <<now, libc, armed, asks, execs, carried, seen, lock, rd, lost, taken, reads, faults>>

\* a build's sandbox has a libc of its own inode, which no probe is on
Enter(p, l) ==
  /\ Ticks /\ p \in Alive
  /\ LET on == proc[p].libc = armed /\ ~proc[p].build
     IN  /\ proc' = [proc EXCEPT ![p].calls = Append(@, [lib |-> l, on |-> on])]
         /\ asks' = IF on THEN Append(asks, [what |-> "in", pid |-> p, lib |-> l]) ELSE asks
  /\ UNCHANGED <<libc, armed, execs, carried, seen, lock, rd, lost, taken, reads, faults>>

Return(p, ok) ==
  /\ Ticks /\ p \in Alive /\ proc[p].calls # <<>>
  /\ LET call == Last(proc[p].calls)
     IN  /\ proc' = [proc EXCEPT ![p] = [proc[p] EXCEPT !.calls = Front(@),
                                                        !.maps = IF ok THEN @ \cup Loaded(call.lib) ELSE @,
                                                        !.asked = IF ok THEN @ \cup {call.lib} ELSE @]]
         /\ asks' = IF call.on /\ proc[p].libc = armed
                    THEN Append(asks, [what |-> "out", at |-> now', pid |-> p, ok |-> ok, lib |-> call.lib,
                                       by |-> proc[p].prog, line |-> proc[p].line])
                    ELSE asks
  /\ UNCHANGED <<libc, armed, execs, carried, seen, lock, rd, lost, taken, reads, faults>>

\* apply_batch: what is installed anew has to be seen again
Install(c) ==
  /\ seen[c] # {}
  /\ faults < MaxFaults /\ faults' = faults + 1
  /\ seen' = [seen EXCEPT ![c] = {}]
  /\ rd' = [r \in Reader |-> [rd[r] EXCEPT !.owed = {s \in @ : s.prog # c}]]
  /\ UNCHANGED <<now, proc, libc, armed, asks, execs, carried, lock, lost, taken, reads>>

-----------------------------------------------------------------------------
(* What a reader makes of the events *)
\* a dlopen's constructors can dlopen, so a return is the latest call's on its thread
Pair(st, e) ==
  LET open == st.open[e.pid]
  IN  IF e.what = "in" THEN [st EXCEPT !.open[e.pid] = Append(@, e.lib)]
      ELSE IF open = <<>> THEN st
      ELSE [open |-> [st.open EXCEPT ![e.pid] = Front(@)],
            out |-> st.out \cup {[what |-> "asked", at |-> e.at, pid |-> e.pid, name |-> Last(open), ok |-> e.ok,
                                  lib |-> e.lib, by |-> e.by, line |-> e.line]}]
Unpaired == [open |-> [p \in Pid |-> <<>>], out |-> {}]
Paired(es) ==
  LET pair[i \in 0..Len(es)] == IF i = 0 THEN Unpaired ELSE Pair(pair[i - 1], es[i])
  IN  pair[Len(es)]
TraceEvents(es) == Paired(es).out

\* started: the process that has the number now, if it is not younger than the dlopen
Proc(p, at) == IF p \in Alive /\ proc[p].start <= at THEN proc[p].prog ELSE Nobody

\* mutant: a parent nothing is known of leaves the child what last had the number
InheritKnown(known, e) == IF known[e.pid] = Nobody THEN known ELSE [known EXCEPT ![e.child] = known[e.pid]]
\* a fork hands on what its parent is, and what it is not
Inherit(known, e) == [known EXCEPT ![e.child] = known[e.pid]]

\* a script whose #! names what is run stays what it was
Keeps(prev, e) == prev \in Script[e.file]

\* the script an interpreter is given, and else the file
Runs(e) == IF e.arg # Nobody THEN e.arg ELSE e.file

Forked(st, e) ==
  [st EXCEPT !.known = Inherit(@, e),
             !.built = IF e.pid \in @ THEN @ \cup {e.child} ELSE @ \ {e.child}]

Execed(st, e) ==
  LET prev == st.known[e.pid]
      built == IF e.file = Kiry THEN st.built \cup {e.pid} ELSE st.built
      said == [what |-> "ran", pid |-> e.pid, at |-> e.at, prog |-> prev, name |-> e.file, ok |-> TRUE,
               by |-> e.by, lib |-> e.file, build |-> e.build, line |-> e.line,
               heard |-> FALSE, sure |-> e.line \cap lost = {}]
  IN  IF e.pid \in built THEN [st EXCEPT !.known[e.pid] = e.file, !.built = built]
      ELSE IF Keeps(prev, e) THEN st
      ELSE [st EXCEPT !.known[e.pid] = Runs(e), !.said = @ \cup {said}]

Asked(st, e) ==
  LET prev == st.known[e.pid]
  IN  [st EXCEPT !.said = @ \cup
         {[what |-> "asked", pid |-> e.pid, at |-> e.at, name |-> e.name, ok |-> e.ok,
           prog |-> IF prev # Nobody THEN prev ELSE Proc(e.pid, e.at),
           by |-> e.by, lib |-> e.lib, build |-> FALSE, line |-> e.line, heard |-> prev # Nobody,
           sure |-> /\ e.line \cap lost = {}
                    /\ taken[e.pid] <= e.at
                    /\ prev = Nobody /\ e.pid \in Alive => proc[e.pid].ran <= e.at]}]

\* in time order: the clock never gives two events one stamp
Step(st, events, t) ==
  LET here == {f \in events : f.at = t}
      e == CHOOSE f \in here : TRUE
  IN  IF here = {} THEN st
      ELSE CASE e.what = "fork" -> Forked(st, e)
             [] e.what = "exec" -> Execed(st, e)
             [] e.what = "asked" -> Asked(st, e)
Lineage(events, was) ==
  LET walk[t \in 0..now] ==
        IF t = 0 THEN [known |-> was.known, built |-> was.built, said |-> {}] ELSE Step(walk[t - 1], events, t)
  IN  walk[now]

\* found: what a program uses that is not its own, and not under everything
Uses(c, n) == c # Nobody /\ n # c /\ n \notin Base

\* an exec counts when the program, no shell, names what it ran
Counts(s) ==
  /\ Uses(s.prog, s.name) /\ s.ok
  /\ s.what = "ran" => s.prog \notin Shells /\ s.name \in Names[s.prog]

Credits(events, was) == {s \in Lineage(events, was).said : Counts(s)}

-----------------------------------------------------------------------------
(* A reader: observe *)
OrderArm == <<"arm", "asks", "execs">>     \* mutant
\* the dlopens before the execs behind them, and both before arm can drop any
Order == <<"asks", "execs", "arm">>

FreeAlways == TRUE   \* mutant: two readers at once
Free == lock = Nobody

Take(r) ==
  /\ rd[r].pc = "idle" /\ Free /\ reads < MaxReads /\ reads' = reads + 1
  /\ lock' = r
  /\ LET events == ToSet(execs) \cup TraceEvents(asks)
     IN  rd' = [rd EXCEPT ![r] = [Idle EXCEPT !.pc = "drain", !.left = Order,
                  !.owed = {s \in Credits(events, carried) : s.heard /\ s.sure}]]
  /\ UNCHANGED <<kernel, armed, asks, carried, seen, lost, taken, faults>>

Drained(r) == [rd[r] EXCEPT !.left = Tail(@), !.pc = IF Len(rd[r].left) = 1 THEN "walk" ELSE @]
Turn(r, what) == rd[r].pc = "drain" /\ Head(rd[r].left) = what

DrainAsks(r) ==
  /\ Turn(r, "asks")
  /\ rd' = [rd EXCEPT ![r] = [Drained(r) EXCEPT !.asks = asks]]
  /\ asks' = <<>>
  /\ UNCHANGED <<kernel, armed, carried, seen, lock, lost, taken, reads, faults>>

DrainExecs(r) ==
  /\ Turn(r, "execs")
  /\ rd' = [rd EXCEPT ![r] = [Drained(r) EXCEPT !.execs = execs]]
  /\ execs' = <<>>
  /\ UNCHANGED <<now, proc, libc, armed, asks, carried, seen, lock, lost, taken, reads, faults>>

\* the kernel empties a buffer whose events are taken away or whose clock is set, and a new
\* inode has both done to both
Arm(r) ==
  /\ Turn(r, "arm")
  /\ rd' = [rd EXCEPT ![r] = Drained(r)]
  /\ armed' = libc
  /\ IF armed = libc THEN UNCHANGED <<asks, execs, lost>>
     ELSE asks' = <<>> /\ execs' = <<>> /\ lost' = lost \cup {e.at : e \in ToSet(execs)}
  /\ UNCHANGED <<now, proc, libc, carried, seen, lock, taken, reads, faults>>

\* what is mapped and its DT_NEEDED does not explain, less what one of those pulled in after it
Dlopened(exe, mapped) ==
  LET opened == mapped \ Reach({exe}, mapped)
  IN  opened \ UNION {Needs[m] : m \in opened}

\* and that of every process in this mount namespace
Mapped(c) ==
  {l \in UNION {Dlopened(Exe(c), proc[p].maps) : p \in {q \in Alive : ~proc[q].build /\ proc[q].prog = c}} :
     Uses(c, l)}

\* only what still runs is carried to the next read: a process of a build that is gone by now
\* leaves behind in the buffer what that read does not know for a build's
Walk(r) ==
  /\ rd[r].pc = "walk"
  /\ LET end == Lineage(ToSet(rd[r].execs) \cup TraceEvents(rd[r].asks), carried)
         found == {s \in end.said : Counts(s)}
         add == [c \in Program |-> {s.name : s \in {t \in found : t.prog = c}} \cup Mapped(c)]
     IN  /\ carried' = [known |-> [p \in Pid |-> IF p \in Alive THEN end.known[p] ELSE Nobody],
                        built |-> {p \in end.built : p \in Alive /\ end.known[p] # Nobody}]
         /\ rd' = [rd EXCEPT ![r] = [@ EXCEPT !.pc = "add", !.asks = <<>>, !.execs = <<>>,
                                              !.found = found, !.add = add]]
  /\ taken' = [p \in Pid |-> Max({taken[p]} \cup
                 {e.at : e \in {f \in ToSet(rd[r].execs) : p = IF f.what = "fork" THEN f.child ELSE f.pid}})]
  /\ lost' = lost \cup {e.at : e \in {f \in ToSet(execs) : f.build /\ f.pid \notin Alive}}
  /\ UNCHANGED <<kernel, armed, asks, seen, lock, reads, faults>>

ReadSeen(r, c) ==
  /\ rd[r].pc = "add" /\ rd[r].add[c] # {}
  /\ rd' = [rd EXCEPT ![r] = [@ EXCEPT !.pc = "write", !.for = c, !.base = seen[c]]]
  /\ UNCHANGED <<kernel, armed, asks, carried, seen, lock, lost, taken, reads, faults>>

WriteSeen(r) ==
  /\ rd[r].pc = "write"
  /\ LET c == rd[r].for
     IN  /\ seen' = IF rd[r].add[c] \subseteq rd[r].base THEN seen
                    ELSE [seen EXCEPT ![c] = rd[r].base \cup rd[r].add[c]]
         /\ rd' = [rd EXCEPT ![r] = [@ EXCEPT !.pc = "add", !.for = Nobody, !.base = {}, !.add[c] = {}]]
  /\ UNCHANGED <<kernel, armed, asks, carried, lock, lost, taken, reads, faults>>

Finish(r) ==
  /\ rd[r].pc = "add" /\ rd[r].add = NoLines
  /\ rd' = [rd EXCEPT ![r] = Idle]
  /\ lock' = IF lock = r THEN Nobody ELSE lock
  /\ UNCHANGED <<kernel, armed, asks, carried, seen, lost, taken, reads, faults>>

\* the lock dies with the reader; a file it was in the middle of writing is left empty
Kill(r) ==
  /\ rd[r].pc # "idle" /\ faults < MaxFaults /\ faults' = faults + 1
  /\ rd' = [rd EXCEPT ![r] = Idle]
  /\ lock' = IF lock = r THEN Nobody ELSE lock
  /\ \/ /\ lost' = lost \cup {e.at : e \in ToSet(rd[r].execs)}
        /\ UNCHANGED <<carried, seen>>
     \/ /\ rd[r].pc = "walk"
        /\ carried' = [known |-> Strangers, built |-> {}] /\ lost' = 1..now
        /\ UNCHANGED seen
     \/ /\ rd[r].pc = "write" /\ ~(rd[r].add[rd[r].for] \subseteq rd[r].base)
        /\ seen' = [seen EXCEPT ![rd[r].for] = {}]
        /\ UNCHANGED <<carried, lost>>
  /\ UNCHANGED <<kernel, armed, asks, taken, reads>>

-----------------------------------------------------------------------------
Kernel ==
  \/ \E p \in Pid : Exit(p) \/ (\E c \in Pid : Fork(p, c))
  \/ \E p \in Pid, f \in Program, a, s \in Program \cup {Nobody} : Exec(p, f, a, s)
  \/ \E p \in Pid : (\E l \in Lib : Enter(p, l)) \/ (\E ok \in BOOLEAN : Return(p, ok))

Read(r) ==
  \/ Take(r) \/ DrainAsks(r) \/ DrainExecs(r) \/ Arm(r) \/ Walk(r)
  \/ (\E c \in Program : ReadSeen(r, c)) \/ WriteSeen(r) \/ Finish(r)

Next ==
  \/ Kernel
  \/ \E r \in Reader : Read(r) \/ Kill(r)
  \/ \E c \in Renewed : Install(c)

Spec == Init /\ [][Next]_vars

-----------------------------------------------------------------------------
(* What holds *)
\* The lock is one reader's, and a file names what can be loaded or run.
TypeOK ==
  /\ now \in 0..MaxEvents /\ armed \in 1..libc
  /\ \A p \in Alive : proc[p].prog \in Program /\ proc[p].start <= now /\ proc[p].ran <= now
  /\ Len(execs) <= ExecCap
  /\ carried.known \in [Pid -> Program \cup {Nobody}] /\ carried.built \subseteq Pid
  /\ seen \in [Program -> SUBSET (Lib \cup Program)]
  /\ lock \in Reader \cup {Nobody}
  /\ \A r \in Reader : rd[r].pc # "idle" <=> lock = r

\* What a read credits a program with is what that program asked for, by the name it asked,
\* and nothing a build ran: across two buffers that are read one after the other, numbers the
\* kernel gives out again, and what the last read carried over (lineage, the order in observe).
\* Left out are an asker of whose forks and execs an overrun, a killed reader or arm took one
\* away, or a drain the argv of one; what comes of a script that ran its interpreter on
\* something else, which the keep of lineage has for the script; one that ran another program
\* before the read of its dlopen asked /proc, or was carried as it; and what comes of a build's
\* process that was gone when its read was written down.
Attributed ==
  /\ \A p \in Alive : Dlopened(Exe(proc[p].prog), proc[p].maps) \subseteq proc[p].asked
  /\ \A r \in Reader : \A s \in rd[r].found :
       s.sure => s.prog = s.by /\ s.name = s.lib /\ ~s.build

\* A read that ends has written down all that a read of both buffers at one instant, when it
\* took the lock, would have: neither the order of the two drains nor arm loses a dlopen, and no other
\* reader takes half of a buffer or writes an older file of the consumer back.
Heard ==
  [][\A r \in Reader : Finish(r) => \A s \in rd[r].owed :
       s.line \cap lost = {} => s.name \in seen[s.prog]]_vars
=============================================================================
