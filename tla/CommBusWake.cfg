\* An MPE sends to one that sleeps until a packet arrives, handles it and returns.
SPECIFICATION FairSpec
CONSTANTS
  w0 = w0
  w1 = w1
  none = none
  audio = audio
  sw = sw
  irq = irq
  NMPE = 2
  Devices = {}
  Word = {w0}
  ZERO = w0
  WriteCommands = {}
  CommInfo = {0}
  CtlWords <- MCToZeroClosing
  BiosMPE = {1}
  Senders = {1}
  Polls = FALSE
  NoPacket = none
  MaxPending = 1
  INT_COMMRECV = irq
  INT_COMMXMIT = irq
  Booted = {0, 1}
  Source = {sw, irq}
  INT_SOFTWARE = sw
  BootSelect <- MCBootSelect
  EnableMasks = {{irq}}
  Level2 = {}
  WaitMasks = {}
  DelaySlots = {1}
  Programmed = {0}
  Controllers = {1}
  StopSleepers = TRUE
  Reloads = FALSE
CHECK_DEADLOCK FALSE
INVARIANT SleepersHaveNoPacket
PROPERTIES PacketWakesReceiver ImplementsInterrupts
