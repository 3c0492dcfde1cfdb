SPECIFICATION FairSpec
CONSTANTS
  Item <- MCItem
  Name <- MCName
  NameOf <- MCNameOf
  Deps <- MCDeps
  Uses <- MCUses
  Starters = {"lib"}
  Abis <- MCAbis
  Line <- MCLine
  Ladder <- MCLadder
  Outcome <- MCOutcome
  Lacks <- MCLacks
  Threads = {t1, t2}
  NoName = NoName
  MaxWaits = 1
  MaxRuns = 2
  MaxBumps = 2
  MaxKills = 1
  Beside = FALSE
CHECK_DEADLOCK FALSE
INVARIANTS TypeOK StaleQueued Apart FilterHonest
PROPERTIES InOrder Ends
