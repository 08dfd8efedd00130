SPECIFICATION FairTimerSpec
CONSTANTS
  x1 = x1
  x2 = x2
  z = z
  NoAlarm = noalarm
  Alarms <- MCAlarms
  Funcs = {"event", "destroy"}
  NoFunc = "none"
  FuncOf <- MCFuncOf
  Careless <- MCCareless
  Delays = {1}
  Intervals = {1}
  LateLimit = 1
  MaxTids = 3
  MaxNow = 3
  MaxTick = 3
VIEW MCView
INVARIANTS
  TimerTypeOK
  IdsInPlace
  OwnersKnow
PROPERTIES
  IsAlarms
  DueRings
