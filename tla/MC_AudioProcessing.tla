------------------------- MODULE MC_AudioProcessing -------------------------
(* Small instance of AudioProcessing for TLC. *)
EXTENDS AudioProcessing

\* 16 kHz mono, 16 kHz stereo, 48 kHz mono.
MC_StreamChoices ==
  {MkStreamConfig(16000, 1, FALSE), MkStreamConfig(16000, 2, FALSE),
   MkStreamConfig(48000, 1, FALSE)}

MC_SettingChoices ==
  {[type |-> "kCapturePreGain", value |-> 2],
   [type |-> "kCaptureCompressionGain", value |-> 20]}

MC_LevelBounds == {<<0, 255>>, <<0, 100>>}
MC_DefaultBounds == {<<0, 255>>}

\* 16 kHz mono and 48 kHz stereo: a rate change and a channel change.
MC_TwoStreams ==
  {MkStreamConfig(16000, 1, FALSE), MkStreamConfig(48000, 2, FALSE)}

MC_OneStream == {MkStreamConfig(16000, 1, FALSE)}

MC_Offsets == {0, -200}
=============================================================================
