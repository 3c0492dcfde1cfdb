SPECIFICATION Spec
CONSTANTS
  sh = sh
  app = app
  kiry = kiry
  Pid = {1, 2}
  Reader = {r1, r2}
  Program = {sh, app, kiry}
  Kiry = kiry
  Begins <- MCBegins
  Script <- MCScript
  Shells = {sh}
  Names <- MCNames
  plug = plug
  dep = dep
  core = core
  Lib = {plug, dep, core}
  Needs <- MCNeeds
  Base = {core}
  Nobody = Nobody
  ExecCap = 2
  MaxEvents = 3
  Renewed = {app}
  MaxReads = 2
  MaxFaults = 1
SYMMETRY Readers
CHECK_DEADLOCK FALSE
INVARIANTS TypeOK Attributed
PROPERTY Heard
