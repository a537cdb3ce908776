\* An MPE that polls sends to another and to a device; a title is loaded.
SPECIFICATION Spec
CONSTANTS
  w0 = w0
  w1 = w1
  none = none
  audio = audio
  sw = sw
  irq = irq
  NMPE = 2
  Devices = {audio}
  Word = {w0, w1}
  ZERO = w0
  WriteCommands = {}
  CommInfo = {0}
  CtlWords <- MCClosing
  BiosMPE = {1}
  Senders = {0}
  Polls = TRUE
  NoPacket = none
  MaxPending = 3
  INT_COMMRECV = irq
  INT_COMMXMIT = irq
  Booted = {0, 1}
  Source = {sw, irq}
  INT_SOFTWARE = sw
  BootSelect <- MCBootSelect
  EnableMasks = {}
  Level2 = {}
  WaitMasks = {}
  DelaySlots = {}
  Programmed = {}
  Controllers = {}
  StopSleepers = TRUE
  Reloads = TRUE
CHECK_DEADLOCK FALSE
PROPERTY ImplementsChannel
