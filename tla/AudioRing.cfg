\* Two slots of two frames, with positions that wrap at the second turn.
SPECIFICATION FairSpec
CONSTANTS
  SILENCE = SILENCE
  JUNK = JUNK
  IDLE = IDLE
  AUDIO_RING_SLOTS = 2
  Periods = {2}
  Rates = {1, 2}
  Modes = {{"half"}, {"wrap"}}
  MaxFrames = 3
  Wrap = 8
INVARIANTS TypeOK NoDataRace
PROPERTIES ImplementsFifo ArmedIsPushed
