CONSTANTS
  SizeTModulus = 1073741824
  Stages = {"echo_canceller", "gain_controller1"}
  Agc1Modes = {"kAdaptiveAnalog"}
  LevelBounds <- MC_DefaultBounds
  StreamChoices <- MC_TwoStreams
  LevelInputs = {50}
  AgcLevels = {50}
  DelayInputs = {100}
  OffsetInputs = {0}
  MaxDelayMs = 500
  SettingChoices = {}
  QueueCapacity = 1
  MaxSettings = 0
  NotAllocated = NotAllocated

SPECIFICATION Spec


INVARIANT TypeOK
INVARIANT ReconfigurationConsistent
