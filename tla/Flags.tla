------------------------------- MODULE Flags -------------------------------
(* What one package compiles with, and who changes it. The flags resolve from
   /etc/kiry/config, the package's settings file and its recipe's filter. People
   edit the three; recover writes fixes and rungs into the last two when a build
   fails; bisect-flags takes the rungs out again; flags --queue puts a package
   whose record disagrees on the queue; rebuild takes it off. *)
EXTENDS Naturals, Sequences, FiniteSets, SequencesExt

CONSTANTS
  Config, Own, Recipe,   \* the three files to begin with, as sequences of lines
  Edits,                 \* pairs <<file, line>> a person may write
  Ladder, Rules,         \* rungs, and the failure table, as sequences
  Declared,              \* the flags the recipe or its gentoo entry declares
  Outcome(_),            \* how a build with these flags ends: [ok, compiled, crashed, says]
  MaxEdits, MaxRuns, MaxKills

\* A flag is its name and its value; a line gives a setting, or a verb of filter, one flag,
\* and replace-flags another. `by` heads tell whose the line under them is.
Nothing == <<"", "">>
Line(k, f) == [is |-> "set", by |-> "person", key |-> k, flag |-> f, to |-> Nothing]
Header(mark) == [is |-> "head", by |-> mark, key |-> "", flag |-> Nothing, to |-> Nothing]
Blank == [Header("stuck") EXCEPT !.is = "blank"]
Flag == STRING \X STRING
Lines == [is : {"set", "head", "blank"}, by : {"person", "fix", "rung", "stuck"}, key : STRING, flag : Flag, to : Flag]
Mine(l) == l.is = "set" /\ l.by = "person"
Files == {"config", "own", "filter"}
Written == {"own", "filter"}
NoAct == [verb |-> "none", file |-> "own", line |-> Blank]

\* a rung's head has its line under it, unless somebody took it out and recover wrote a fix behind
\* it, a rung's line has its head, and a stuck note says nothing
RungHead(l) == l.is = "head" /\ l.by = "rung"
RungLine(l) == l.is # "head" /\ l.by = "rung"
Headed(text) ==
  /\ \A i \in DOMAIN text : RungHead(text[i]) =>
       i # Len(text) /\ (RungLine(text[i + 1]) \/ (text[i + 1].is = "head" /\ text[i + 1].by = "fix"))
  /\ \A i \in DOMAIN text : RungLine(text[i]) => i # 1 /\ RungHead(text[i - 1])
  /\ \A i \in DOMAIN text : text[i].by = "stuck" => text[i].is # "set"

ASSUME FlagsAssumption ==
  /\ Config \in Seq(Lines) /\ Own \in Seq(Lines) /\ Recipe \in Seq(Lines)
  /\ Headed(Own) /\ Headed(Recipe)
  /\ \A e \in Edits : e[1] \in Files /\ e[2] \in Lines /\ Mine(e[2])
  /\ Ladder \in Seq(Written \X Lines) /\ \A k \in DOMAIN Ladder : Mine(Ladder[k][2])
  /\ Rules \in Seq([on : STRING, act : [verb : {"write", "halve", "notaflag"}, file : Written, line : Lines]])
  /\ \A k \in DOMAIN Rules : Rules[k].act.verb # "notaflag" => Mine(Rules[k].act.line)
  /\ {MaxEdits, MaxRuns, MaxKills} \subseteq Nat
  /\ {"", "1", "2", "4"} \subseteq STRING  \* said because the prover is not told of literals

VARIABLES
  file,      \* the text of the three; a file that is not there is empty
  art,       \* the sidecar of the cached artifact
  rec,       \* the flags the installed package's record names
  row,       \* whether its flags row is on the queue
  scan,      \* what flags --queue found and has not yet written
  cmd, pc,   \* the command that builds, and where it is
  fl,        \* the flags the running build resolved as it began
  had, kept, \* the two files as recover found them, and as bisect did
  tried, rung,
  ended,     \* history: how the last command to build ended
  touched,   \* history: a person wrote to a file since the command began
  asked,     \* history: the flags that resolved as a command last found the artifact cached
  edits, runs, kills

vars == <<file, art, rec, row, scan, cmd, pc, fl, had, kept, tried, rung, ended, touched, asked, edits, runs, kills>>
local == <<fl, had, kept, tried, rung>>

-----------------------------------------------------------------------------
(* How flags resolve: knobs replace, the rest append, and filter's verbs act in
   their order on whatever came out. CFLAGS stands for CXXFLAGS as well. *)
Only(text, at) ==
  LET some[i \in 0..Len(text)] ==
        IF i = 0 THEN <<>> ELSE IF i \in at THEN Append(some[i - 1], text[i]) ELSE some[i - 1]
  IN  some[Len(text)]
Settings(text) == Only(text, {i \in DOMAIN text : text[i].is = "set"})
FlagOf(from, k) == LET ls == SelectSeq(from, LAMBDA l : l.key = k) IN [i \in DOMAIN ls |-> ls[i].flag]
Default == [OPT |-> <<"-O", "2">>, CFLAGS_MARCH |-> Nothing, LTO |-> Nothing,
            KIRY_THINLTO_JOBS |-> <<"-Wl,--thinlto-jobs", "8">>]
Latest(fs) == IF fs = <<>> THEN <<>> ELSE <<Last(fs)>>
Knob(from, k) == Last(<<Default[k]>> \o FlagOf(from, k))
Some(fs) == SelectSeq(fs, LAMBDA f : f # Nothing)

\* one trailing * and nothing else
Like(pat, f) == pat[1] = f[1] /\ pat[2] \in {"*", f[2]}
Lto == {"-flto", "-Wl,--thinlto-jobs"}
KEPT_FLAGS == {"-O", "-march", "-mtune", "-mcpu", "-pipe", "-g"}
Without(fs, S(_)) == SelectSeq(fs, LAMBDA f : ~S(f))

Filtered(r, l) ==
  CASE l.key = "filter-lto" ->
         [r EXCEPT !.c = Without(@, LAMBDA f : f[1] \in Lto), !.ld = Without(@, LAMBDA f : f[1] \in Lto)]
    [] l.key = "filter-flags" -> [r EXCEPT !.c = Without(@, LAMBDA f : Like(l.flag, f))]
    [] l.key = "filter-ldflags" -> [r EXCEPT !.ld = Without(@, LAMBDA f : Like(l.flag, f))]
    [] l.key = "strip-flags" -> [r EXCEPT !.c = Without(@, LAMBDA f : f[1] \notin KEPT_FLAGS)]
    [] l.key = "append-flags" -> [r EXCEPT !.c = Append(@, l.flag)]
    [] l.key = "replace-flags" -> [r EXCEPT !.c = [i \in DOMAIN @ |-> IF Like(l.flag, @[i]) THEN l.to ELSE @[i]]]

\* a later - takes one back off, and off is a choice of its own
Chosen(from) ==
  LET fs == FlagOf(from, "flags")
  IN  {fs[i] : i \in {j \in DOMAIN fs : fs[j][1] \in Declared /\ \A k \in j + 1 .. Len(fs) : fs[k][1] # fs[j][1]}}

\* what goes in the record, and the KIRY_ settings that go to the build beside it
Resolved(from, verbs) ==
  LET lto == Knob(from, "LTO")
      jobs == IF lto[2] = "thin" THEN Knob(from, "KIRY_THINLTO_JOBS") ELSE Nothing
      base == Some(<<Knob(from, "OPT"), Knob(from, "CFLAGS_MARCH"), lto>>) \o <<<<"-g", "0">>>>
  IN  [record |-> FoldLeft(Filtered,
                    [c |-> base \o FlagOf(from, "CFLAGS"),
                     ld |-> Some(<<lto, jobs>>) \o <<<<"-Wl,-O", "2">>>> \o FlagOf(from, "LDFLAGS"),
                     rust |-> Some(<<Knob(from, "CFLAGS_MARCH"), Knob(from, "OPT")>>) \o FlagOf(from, "RUSTFLAGS"),
                     uses |-> Chosen(from)],
                    verbs),
       env |-> Latest(FlagOf(from, "KIRY_THINLTO_JOBS"))]
Resolve(f) == Resolved(Settings(f["config"]) \o Settings(f["own"]), Settings(f["filter"]))
Now == Resolve(file)
\* flags_with: the same with one rung as though it had been written
With(k) == Resolve([file EXCEPT ![Ladder[k][1]] = Append(@, Ladder[k][2])])
\* stale: the sidecar's flags and the hash of the recipe, which has filter in it
Fresh(a) == a # <<>> /\ a[1] = [flags |-> Now.record, recipe |-> file["filter"]]

-----------------------------------------------------------------------------
(* The texts. A note is a dated head and its line; never the same line twice. *)
Has(text, l) == \E i \in DOMAIN text : text[i].is = "set" /\ text[i].key = l.key /\ text[i].flag = l.flag
Noted(text, l, mark) == IF Has(text, l) THEN text ELSE text \o <<Header(mark), [l EXCEPT !.by = mark]>>
Stuck(text) == text \o <<Header("stuck"), Blank>>
Unstuck(text) == Only(text, {i \in DOMAIN text : text[i].by # "stuck"})

\* the dated head nearest a line decides whose it is
Dated(block) == {i \in DOMAIN block : block[i].by # "person"}
\* mutant: any rung's head above a line decides
UnrungLineAny(a, l) ==
  IF l.is = "head" THEN [a EXCEPT !.block = Append(@, l)]
  ELSE IF \E i \in DOMAIN a.block : a.block[i].by = "rung"
       THEN [out |-> a.out, block |-> <<>>]
       ELSE [out |-> Append(a.out \o a.block, l), block |-> <<>>]
UnrungLine(a, l) ==
  LET dated == Dated(a.block)
      last == Max(dated)
  IN  IF l.is = "head" THEN [a EXCEPT !.block = Append(@, l)]
      ELSE IF dated # {} /\ a.block[last].by = "rung"
           THEN [out |-> a.out \o SubSeq(a.block, 1, last - 1), block |-> <<>>]
           ELSE [out |-> Append(a.out \o a.block, l), block |-> <<>>]
Walked(text) ==
  LET walk[i \in 0..Len(text)] ==
        IF i = 0 THEN [out |-> <<>>, block |-> <<>>] ELSE UnrungLine(walk[i - 1], text[i])
  IN  walk[Len(text)]
Unrung(text) == Walked(text).out \o Walked(text).block

Both == [f \in Written |-> file[f]]
Over(w) == [f \in Files |-> IF f \in Written THEN w[f] ELSE file[f]]

Init ==
  /\ file = [f \in Files |-> CASE f = "config" -> Config [] f = "own" -> Own [] f = "filter" -> Recipe]
  /\ art = <<>> /\ rec = Now.record /\ row = FALSE /\ scan = "none"
  /\ cmd = "none" /\ pc = "idle" /\ fl = Now /\ had = Both /\ kept = Both
  /\ tried = {} /\ rung = 0 /\ ended = "none" /\ touched = FALSE /\ asked = Now
  /\ edits = 0 /\ runs = 0 /\ kills = 0

-----------------------------------------------------------------------------
(* People, and flags --queue, which looks without the writer lock and writes with it. *)
Edit ==
  /\ edits < MaxEdits /\ edits' = edits + 1
  /\ \E e \in Edits : file' = [file EXCEPT ![e[1]] = Append(@, e[2])]
  /\ touched' = TRUE
  /\ UNCHANGED <<art, rec, row, scan, cmd, pc, local, ended, asked, runs, kills>>

Scan ==
  /\ scan = "none"
  /\ scan' = IF rec = Now.record THEN "clean" ELSE "stale"
  /\ UNCHANGED <<file, art, rec, row, cmd, pc, local, ended, touched, asked, edits, runs, kills>>

WriteRow ==
  /\ scan # "none" /\ scan' = "none"
  /\ row' = (scan = "stale")
  /\ UNCHANGED <<file, art, rec, cmd, pc, local, ended, touched, asked, edits, runs, kills>>

-----------------------------------------------------------------------------
(* The commands. `kept` is what bisect-flags found, and history for the others. *)
Starts(c, w) ==
  /\ pc = "idle" /\ runs < MaxRuns /\ runs' = runs + 1
  /\ cmd' = c /\ kept' = Both /\ had' = w /\ tried' = {} /\ rung' = 0
  /\ file' = Over(w) /\ touched' = FALSE /\ ended' = "none"
  /\ UNCHANGED <<art, rec, scan, edits, kills>>
Building == pc' = "build" /\ fl' = Resolve(file') /\ UNCHANGED asked

BuildCmd == Starts("build", Both) /\ Building /\ UNCHANGED row

\* cached is asked of the whole set and not again where all of it is; where something else of
\* the set builds first, this one is passed over now and asked for again after
InstallCmd ==
  /\ Starts("install", Both) /\ UNCHANGED row
  /\ IF Fresh(art) THEN pc' \in {"apply", "in"} /\ asked' = Now /\ UNCHANGED fl ELSE Building

\* back: a row heals the moment record and resolve agree again
RebuildCmd ==
  /\ row /\ Starts("rebuild", Both)
  /\ IF rec = Now.record THEN row' = FALSE /\ UNCHANGED <<pc, fl, asked>> ELSE Building /\ UNCHANGED row

BisectCmd ==
  LET left == [f \in Written |-> Unrung(file[f])]
  IN  Starts("bisect", left) /\ left # Both /\ Building /\ UNCHANGED row

(* A build that ended. recover reads its log, writes one fix or one rung and
   builds again, or gives up. *)
Log == Outcome(fl)
RanBuild == pc = "build" /\ UNCHANGED <<rec, row, scan, cmd, had, kept, touched, edits, runs, kills>>

\* mutant: the stuck notes go after the sidecar has the recipe's hash
SucceedsNoted ==
  /\ RanBuild /\ Log.ok
  /\ file' = [file EXCEPT !["filter"] = Unstuck(@)]
  /\ art' = <<[flags |-> fl.record, recipe |-> file["filter"]]>>
  /\ IF cmd \in {"install", "rebuild"} THEN pc' = "in" /\ UNCHANGED ended ELSE pc' = "idle" /\ ended' = "ok"
  /\ UNCHANGED <<fl, tried, rung, asked>>

\* flags as they were when the build began, the recipe's hash as it is now
Succeeds ==
  /\ RanBuild /\ Log.ok
  /\ file' = [file EXCEPT !["filter"] = Unstuck(@)]
  /\ art' = <<[flags |-> fl.record, recipe |-> file'["filter"]]>>
  /\ IF cmd \in {"install", "rebuild"} THEN pc' = "in" /\ UNCHANGED ended ELSE pc' = "idle" /\ ended' = "ok"
  /\ UNCHANGED <<fl, tried, rung, asked>>

\* the first row of the table that matches, people's own rows first
Scanned ==
  LET hits == {i \in DOMAIN Rules : Rules[i].on \in Log.says}
  IN  IF hits = {} \/ Cardinality(tried) >= 3 THEN NoAct ELSE Rules[Min(hits)].act
New == Scanned \notin tried \cup {NoAct}
\* what is no number counts as 8
Halved(j) == CASE j \in {"1", "2"} -> "1" [] j = "4" -> "2" [] OTHER -> "4"
\* halving goes by the last line that contributed, whatever it comes to
Fixing ==
  LET from == Settings(file["config"]) \o Settings(file["own"])
  IN  IF Scanned.verb = "halve"
      THEN [Scanned.line EXCEPT !.flag = <<@[1], Halved(Knob(from, "KIRY_THINLTO_JOBS")[2])>>]
      ELSE Scanned.line
Fixes == New /\ Scanned.verb # "notaflag" /\ ~Has(file[Scanned.file], Fixing)

\* a rung that resolves to the flags in force is passed over
Rungs == {k \in rung + 1 .. Len(Ladder) : With(k) # Now}
GivesUp ==
  \/ Log.crashed \/ Scanned.verb = "notaflag"
  \/ ~Fixes /\ (~Log.compiled \/ Rungs = {})

Fix ==
  /\ RanBuild /\ ~Log.ok /\ ~GivesUp /\ Fixes
  /\ file' = [file EXCEPT ![Scanned.file] = Noted(@, Fixing, "fix")]
  /\ tried' = tried \cup {Scanned} /\ Building
  /\ UNCHANGED <<art, rung, ended>>

Climb ==
  /\ RanBuild /\ ~Log.ok /\ ~GivesUp /\ ~Fixes
  /\ tried' = IF New THEN tried \cup {Scanned} ELSE tried
  /\ rung' = Min(Rungs)
  /\ file' = [file EXCEPT ![Ladder[rung'][1]] = Noted(@, Ladder[rung'][2], "rung")]
  /\ Building /\ UNCHANGED <<art, ended>>

\* undo, the note of a package that is stuck, and what bisect-flags found put back
\* where there was a file
Undone == [f \in Written |-> IF f = "filter" /\ (Log.crashed \/ Scanned.verb = "notaflag" \/ Log.compiled)
                             THEN Stuck(had[f]) ELSE had[f]]
\* mutant: what bisect-flags took out stays out
FailsUnrung ==
  /\ RanBuild /\ ~Log.ok /\ GivesUp /\ pc' = "idle" /\ ended' = "stuck"
  /\ file' = Over(Undone)
  /\ UNCHANGED <<art, fl, tried, rung, asked>>
Fails ==
  /\ RanBuild /\ ~Log.ok /\ GivesUp /\ pc' = "idle" /\ ended' = "stuck"
  /\ file' = Over([f \in Written |-> IF cmd = "bisect" /\ kept[f] # <<>> THEN kept[f] ELSE Undone[f]])
  /\ UNCHANGED <<art, fl, tried, rung, asked>>

\* mutant: the artifact goes in whatever its sidecar says
CheckUnasked ==
  /\ pc = "in" /\ pc' = "apply" /\ asked' = Now
  /\ UNCHANGED <<file, art, rec, row, scan, cmd, local, ended, touched, edits, runs, kills>>
\* an artifact that is stale by now goes in nowhere: built nothing
Check ==
  /\ pc = "in"
  /\ IF Fresh(art) THEN pc' = "apply" /\ asked' = Now /\ UNCHANGED ended
     ELSE pc' = "idle" /\ ended' = "died" /\ UNCHANGED asked
  /\ UNCHANGED <<file, art, rec, row, scan, cmd, local, touched, edits, runs, kills>>

\* the writer lock came, however long it took: what the sidecar says is what is recorded
Apply ==
  /\ pc = "apply" /\ rec' = art[1].flags
  /\ IF cmd = "rebuild" THEN pc' = "drop" /\ UNCHANGED ended ELSE pc' = "idle" /\ ended' = "ok"
  /\ UNCHANGED <<file, art, row, scan, cmd, local, touched, asked, edits, runs, kills>>

\* a rebuild that ran is off the queue
Drop ==
  /\ pc = "drop" /\ row' = FALSE /\ pc' = "idle" /\ ended' = "ok"
  /\ UNCHANGED <<file, art, rec, scan, cmd, local, touched, asked, edits, runs, kills>>

Kill ==
  /\ pc # "idle" /\ kills < MaxKills /\ kills' = kills + 1
  /\ pc' = "idle" /\ ended' = "killed"
  /\ UNCHANGED <<file, art, rec, row, scan, cmd, local, touched, asked, edits, runs>>

Next ==
  \/ Edit \/ Scan \/ WriteRow \/ Kill
  \/ BuildCmd \/ InstallCmd \/ RebuildCmd \/ BisectCmd
  \/ Succeeds \/ Fix \/ Climb \/ Fails \/ Check \/ Apply \/ Drop
Spec == Init /\ [][Next]_vars

-----------------------------------------------------------------------------
\* Nobody's line is lost but a rung's. A command that ends stuck leaves the files as it found
\* them, a note aside: retroarch kept filter-lto and a march rung once. One that builds has added to
\* them, and bisect-flags has taken out what the ladder wrote and nothing else (recover's undo,
\* note, unstuck, unrung; not where a person writes beside it, which undo writes over).
Theirs(text) == Only(text, {i \in DOMAIN text : text[i].by \in {"person", "fix"}})
RungsIn(text) == {text[i].key : i \in {j \in DOMAIN text : text[j].by = "rung" /\ text[j].is = "set"}}
NotesHonest ==
  ~touched /\ ended \in {"ok", "stuck"} => \A f \in Written :
    /\ ended = "stuck" => Unstuck(file[f]) = Unstuck(kept[f])
    /\ IsPrefix(Theirs(kept[f]), Theirs(file[f]))
    /\ cmd = "bisect" /\ ended = "ok" => RungsIn(file[f]) \subseteq {Ladder[k][2].key : k \in 1 .. rung}

\* An artifact is fresh as it lands, where nobody wrote to the files while it was built; what
\* goes in is recorded with the flags that resolved as the command last asked whether it is
\* cached, however long it waits for the writer lock after that (an edit in that wait, and no
\* other, leaves a record that is stale as it is written); and a row leaves the queue only where
\* record and flags agree: otherwise a package builds for hours and is stale at once, or is
\* never seen to be (unstuck before meta, cached, back).
Settled ==
  [][/\ art' # art /\ ~touched => Fresh(art)'
     /\ rec' # rec => rec' = asked.record
     /\ row /\ ~row' => rec' = Now'.record \/ touched \/ scan = "clean"]_vars
=============================================================================
