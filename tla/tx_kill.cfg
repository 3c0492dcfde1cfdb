SPECIFICATION FairSpec
CONSTANTS
  Proc = {p1, p2}
  Absent = Absent
  Missing = Missing
  Nobody = Nobody
  NoEntry <- Absent
  NoRecord <- Missing
  NoProc <- Nobody
  Path <- MCPath
  EtcPath = {"conf"}
  Content <- MCContent
  Edits = {"mine"}
  Info <- MCInfo
  Soname = {"s1", "s2"}
  Symbol = {"x", "y", "dlsym"}
  SoAt <- MCSoAt
  DL = {"dlsym"}
  Mangled = {}
  Name = {"a", "b", "c"}
  Target = {"musl", "gnu"}
  Archive <- MCArchive
  Batches <- Interrupted
  Ops = {"install", "remove", "edit"}
  Removable = {"c"}
  Forcing = {FALSE}
  MaxOps = 3
  MaxKills = 1
CHECK_DEADLOCK FALSE
PROPERTIES Survives Returns
