SPECIFICATION Spec
CONSTANTS
  Proc = {p1, p2}
  Musl = Musl
  Gnu = Gnu
  NoEntry = NoEntry
  NoFile <- NoEntry
  Target = {Musl, Gnu}
  Wanted <- OneOrBoth
  Gaps = {FALSE, TRUE}
  MaxRuns = 3
  MaxEdits = 1
  MaxKills = 1
SYMMETRY Alike
CHECK_DEADLOCK FALSE
INVARIANTS TypeOK OneBuilder StageStands FreshIsCurrent
PROPERTY LandsWhole
