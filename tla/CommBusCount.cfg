\* Two MPEs that overwrite packets, lock the bus and are reset and reloaded.
SPECIFICATION FairSpec
CONSTANTS
  w0 = w0
  w1 = w1
  none = none
  audio = audio
  sw = irq
  irq = irq
  NMPE = 2
  Devices = {}
  Word = {w0}
  ZERO = w0
  WriteCommands = {}
  CommInfo = {0}
  CtlWords <- MCToZeroLocking
  BiosMPE = {1}
  Senders = {0, 1}
  Polls = FALSE
  NoPacket = none
  MaxPending = 2
  INT_COMMRECV = irq
  INT_COMMXMIT = irq
  Booted = {0, 1}
  Source = {irq}
  INT_SOFTWARE = irq
  BootSelect <- MCBootSelect
  EnableMasks = {}
  Level2 = {}
  WaitMasks = {}
  DelaySlots = {}
  Programmed = {}
  Controllers = {1}
  StopSleepers = TRUE
  Reloads = TRUE
CHECK_DEADLOCK FALSE
INVARIANTS TypeOK PendingCoversFull
PROPERTY TransmitDrains
