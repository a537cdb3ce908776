\* One MPE that sleeps, wakes and serves, under the main loop's fairness.
SPECIFICATION FairSpec
CONSTANTS
  m1 = m1
  m2 = m2
  sw = sw
  timer = timer
  MPE = {m1}
  Booted = {m1}
  Source = {sw, timer}
  INT_SOFTWARE = sw
  BootSelect <- MCBootSelect
  EnableMasks = {{}, {timer}}
  Level2 = {sw}
  WaitMasks = {{timer}, {sw, timer}}
  DelaySlots = {1, 3}
  Programmed = {m1}
  Controllers = {}
  StopSleepers = FALSE
  Reloads = FALSE
PROPERTY SleeperIsServed
