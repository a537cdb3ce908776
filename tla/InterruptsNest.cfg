\* Two MPEs, one of which runs, stops and resets the other unless it sleeps.
SPECIFICATION Spec
CONSTANTS
  m1 = m1
  m2 = m2
  sw = sw
  timer = timer
  MPE = {m1, m2}
  Booted = {m1, m2}
  Source = {sw, timer}
  INT_SOFTWARE = sw
  BootSelect <- MCBootSelect
  EnableMasks = {{}, {timer}}
  Level2 = {sw}
  WaitMasks = {{timer}}
  DelaySlots = {1, 3}
  Programmed = {m1}
  Controllers = {m2}
  StopSleepers = FALSE
  Reloads = TRUE
INVARIANTS TypeOK HandlersNest NoLostWakeup
PROPERTY OnlySleepersWake
