CONSTANTS
  SizeTModulus = 1073741824
  Stages = {"echo_canceller", "gain_controller1"}
  Agc1Modes = {"kAdaptiveAnalog", "kFixedDigital"}
  LevelBounds <- MC_LevelBounds
  StreamChoices <- MC_OneStream
  LevelInputs = {50, 300}
  AgcLevels = {0, 200}
  DelayInputs = {100, 600}
  OffsetInputs <- MC_Offsets
  MaxDelayMs = 500
  SettingChoices <- MC_SettingChoices
  QueueCapacity = 1
  MaxSettings = 2
  NotAllocated = NotAllocated

SPECIFICATION Spec

PROPERTY StreamParamsFreshPerFrame
