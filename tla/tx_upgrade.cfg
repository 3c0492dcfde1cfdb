SPECIFICATION Spec
CONSTANTS
  Proc = {p1, p2}
  Absent = Absent
  Missing = Missing
  Nobody = Nobody
  NoEntry <- Absent
  NoRecord <- Missing
  NoProc <- Nobody
  Path <- MCPath
  EtcPath = {"conf"}
  Content <- MCContent
  Edits = {"mine"}
  Info <- MCInfo
  Soname = {"s1", "s2"}
  Symbol = {"x", "y", "dlsym"}
  SoAt <- MCSoAt
  DL = {"dlsym"}
  Mangled = {}
  Name = {"a", "b", "c"}
  Target = {"musl", "gnu"}
  Archive <- MCArchive
  Batches <- Upgrades
  Ops = {"install", "remove", "gc", "edit"}
  Removable = {"a", "b"}
  Forcing = {FALSE}
  MaxOps = 5
  MaxKills = 0
CHECK_DEADLOCK FALSE
INVARIANTS TypeOK Untouched Faithful Accounted DepsMet NoneStranded ConsumersQueued
