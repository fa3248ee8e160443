SPECIFICATION Spec
CONSTANTS
  NIrq = 2
  W = 4
  Alarms = {a1, a2}
  Periods = {0, 1, 2}
  StopsAny = FALSE
INVARIANTS HandlersExist MasksHold Punctual ListIsLive
PROPERTIES TickEnds
