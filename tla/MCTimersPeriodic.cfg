SPECIFICATION TimersSpec
CONSTANTS
  Timer = {tm1, tm2, tm3}
  Queue = timeout_q
  Expired = expired
  Null = null
  Duration = {0, 1, 2, 3}
  Period = {0, 2}
  Read = {tm1}
  MaxAnnounce = 2
INVARIANT HandlesOnlyExpired
