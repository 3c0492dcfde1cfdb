SPECIFICATION Spec
CONSTANTS
  Root = {"a", "b"}
  First = "a"
  Proc = {p1}
  Nobody = Nobody
  Never = Never
  NoProc <- Nobody
  NoUuid <- Never
  MaxWork = 4
  MaxBoots = 3
  MaxKills = 2
CHECK_DEADLOCK FALSE
INVARIANTS TypeOK Proven Covered
PROPERTY OnlyFallbacksGo
