SPECIFICATION Spec
CONSTANTS
  Pkg <- MCPkg
  NoPkg = NoPkg
  Miss <- MCMiss
  NoMiss = NoMiss
  Hand = {"base", "cc", "tool", "old"}
  Starters = {"tool"}
  Base = {"base", "cc"}
  Tools = {"cc"}
  Listed <- MCListed
  RunTime <- MCRunTime
  Looks <- MCLooks
  Probes <- MCProbes
  Ships <- MCShips
  Guess <- MCGuess
  Links <- MCLinks
  Reads <- MCLinks
  Plain = {"tool"}
  Scripts <- MCScripts
  Blind = {"plug"}
  Seen <- MCSeen
  Given <- MCGiven
  Typed = {"app", "plug", "gen"}
  Width = 2
  MaxPasses = 8
  MaxRounds = 2
  MaxWaits = 2
  MaxCommands = 2
  MaxBumps = 1
  MaxKills = 1
  Beside = TRUE
CHECK_DEADLOCK FALSE
INVARIANTS TypeOK NothingIdle Progresses Earned
PROPERTY NoneBroken
