SPECIFICATION Spec
CONSTANTS
  Root = {"a", "b"}
  First = "a"
  Proc = {p1, p2}
  Nobody = Nobody
  Never = Never
  NoProc <- Nobody
  NoUuid <- Never
  MaxWork = 4
  MaxBoots = 3
  MaxKills = 0
CHECK_DEADLOCK FALSE
INVARIANT NeverSwapped
