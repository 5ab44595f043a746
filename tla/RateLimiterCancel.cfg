\* One active request admitted, two queued behind it.
SPECIFICATION Spec
CONSTANTS
  Requests = {r1, r2}
  Interval = 1
PROPERTIES CanceledTakesNoTurn
