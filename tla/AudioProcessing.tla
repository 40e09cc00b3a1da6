--------------------------- MODULE AudioProcessing ---------------------------
(***************************************************************************)
(* The pipeline orchestrator behind webrtc::AudioProcessing               *)
(* (audio_processing.h): stream-geometry reconciliation and the implicit   *)
(* reinitialisation of the submodules, whole-struct ApplyConfig, the       *)
(* per-frame stream parameters (analog level, delay), the analog-level     *)
(* feedback loop, and the capture-side runtime-settings queue.             *)
(*                                                                         *)
(* Two caller threads: "capture" (ProcessStream, the set_stream_ setters,  *)
(* Initialize, ApplyConfig) and "render" (ProcessReverseStream).           *)
(* SetRuntimeSetting may be called from any thread at any time.  A capture *)
(* frame is two steps, CaptureBegin (reconcile, check, drain the settings  *)
(* queue) and CaptureEnd (run the stage chain, recommend a level), so that *)
(* settings enqueued while a frame runs are seen.  Reinitialisation holds  *)
(* both the render and the capture lock, so it never happens mid-frame.    *)
(***************************************************************************)
EXTENDS Integers, Sequences, StreamConfig

CONSTANTS
  Stages,          \* the Config stages modelled (subset of AllStages)
  Agc1Modes,       \* GainController1::Mode values ApplyConfig may choose
  LevelBounds,     \* <<analog_level_minimum, analog_level_maximum>> choices
  StreamChoices,   \* StreamConfigs the callers pass
  LevelInputs,     \* values passed to set_stream_analog_level
  AgcLevels,       \* levels the AGC1 analog algorithm may compute
  DelayInputs,     \* values passed to set_stream_delay_ms
  OffsetInputs,    \* values passed to set_delay_offset_ms
  MaxDelayMs,      \* upper end of the accepted stream delay
  SettingChoices,  \* RuntimeSettings the producers enqueue
  QueueCapacity,   \* capacity of the capture runtime-settings queue
  MaxSettings,     \* bound on SetRuntimeSetting calls (model bound)
  NotAllocated     \* sub_init of a stage never allocated (model value)

AllStages ==
  {"echo_canceller", "noise_suppression", "gain_controller1", "residual_echo_detector"}

\* Stages that consume the reverse stream as well as the capture stream.
CrossStreamStages == {"echo_canceller", "residual_echo_detector"}

\* The capture-side runtime setting kinds and their Config defaults.
SettingTypes ==
  {"kCapturePreGain", "kCaptureCompressionGain", "kCaptureFixedPostGain",
   "kPlayoutVolumeChange"}

ASSUME StagesAssumption == Stages \subseteq AllStages
ASSUME Agc1ModesAssumption ==
  /\ Agc1Modes \subseteq {"kAdaptiveAnalog", "kAdaptiveDigital", "kFixedDigital"}
  /\ "kAdaptiveAnalog" \in Agc1Modes
ASSUME DefaultBoundsAssumption == <<0, 255>> \in LevelBounds
ASSUME LevelBoundsAssumption ==
  /\ LevelBounds \subseteq Nat \X Nat
  /\ \A b \in LevelBounds : b[1] <= b[2] /\ b[2] <= 65535
ASSUME StreamChoicesAssumption == StreamChoices \subseteq StreamConfigs
ASSUME LevelsAssumption ==
  /\ LevelInputs \subseteq Int /\ AgcLevels \subseteq Int
  /\ DelayInputs \subseteq Int /\ OffsetInputs \subseteq Int
ASSUME MaxDelayAssumption == MaxDelayMs \in Nat
ASSUME SettingsAssumption ==
  /\ SettingChoices \subseteq [type : SettingTypes, value : Int]
  /\ QueueCapacity \in Nat \ {0}
  /\ MaxSettings \in Nat
\* NotAllocated stands for a stage with no allocated submodule: it is no
\* stored geometry.
ASSUME NotAllocatedAssumption ==
  \A S \in SUBSET StreamNames : NotAllocated \notin [S -> StreamConfigs]

Configs == [enabled : SUBSET Stages, agc1_mode : Agc1Modes, bounds : LevelBounds]

\* Config defaults: every stage disabled except residual_echo_detector,
\* gain_controller1 in kAdaptiveAnalog with levels [0, 255].
DefaultConfig ==
  [enabled |-> {"residual_echo_detector"} \cap Stages,
   agc1_mode |-> "kAdaptiveAnalog", bounds |-> <<0, 255>>]

\* The creation-time geometry: every stream 16 kHz mono.
DefaultStream == MkStreamConfig(16000, 1, FALSE)
DefaultFormat ==
  MkProcessingConfig(DefaultStream, DefaultStream, DefaultStream, DefaultStream)

\* Config defaults of the parameters the runtime settings change.
DefaultParams ==
  [kCapturePreGain |-> 1, kCaptureCompressionGain |-> 9,
   kCaptureFixedPostGain |-> 0, kPlayoutVolumeChange |-> 0]

Threads == {"capture", "render"}
ErrorCodes ==
  {"kNoError", "kBadSampleRateError", "kBadNumberChannelsError",
   "kStreamParameterNotSetError", "kBadStreamParameterWarning"}
FatalErrors == {"kBadSampleRateError", "kBadNumberChannelsError"}

VARIABLES
  api_format,             \* formats_.api_format: the current ProcessingConfig
  config,                 \* the last applied Config
  sub_init,               \* geometry each stage was last initialised with
  stream_analog_level,    \* level from set_stream_analog_level
  analog_level_set,       \* set_stream_analog_level called for this frame
  recommended_level,      \* recommended_stream_analog_level()
  stream_delay_ms,        \* stream_delay_ms()
  delay_offset_ms,        \* delay_offset_ms()
  was_stream_delay_set,   \* was_stream_delay_set()
  render_seen,            \* a reverse frame was processed since Initialize()
  capture_queue,          \* pending capture runtime settings, FIFO
  runtime_params,         \* parameters the runtime settings change
  capturing,              \* a capture frame is between begin and end
  result,                 \* the last return code of each thread
  \* history variables, read only by the properties and the model bounds
  n_sent,                 \* SetRuntimeSetting calls so far
  frame_setters           \* set_stream_ setters called since the last frame

code_vars == <<api_format, config, sub_init, stream_analog_level,
               analog_level_set, recommended_level, stream_delay_ms,
               delay_offset_ms, was_stream_delay_set, render_seen,
               capture_queue, runtime_params, capturing, result>>
ghost_vars == <<n_sent, frame_setters>>
vars == <<code_vars, ghost_vars>>

-----------------------------------------------------------------------------
(* Helpers *)

Clamp(x, lo, hi) == IF x < lo THEN lo ELSE IF x > hi THEN hi ELSE x

\* The streams a stage is initialised from: capture streams for every stage,
\* the reverse input too for the cross-stream ones.
StreamsOf(s) ==
  IF s \in CrossStreamStages
    THEN {"kInputStream", "kOutputStream", "kReverseInputStream"}
    ELSE {"kInputStream", "kOutputStream"}

\* What a stage's Initialize receives from a ProcessingConfig.
Geometry(s, pc) == [n \in StreamsOf(s) |-> pc[n]]

\* A stage is current when its stored geometry is that of the api format.
StageCurrent(s, pc, init) ==
  /\ init[s] # NotAllocated
  /\ \A n \in StreamsOf(s) : StreamConfigEq(init[s][n], pc[n])

\* Mutation: a stage is handed the whole ProcessingConfig.
InitializeStagesWholeConfig(pc, enabled, init) ==
  [s \in Stages |-> IF s \in enabled THEN pc ELSE init[s]]

\* InitializeLocked: every enabled stage is (re)initialised with pc.
InitializeStages(pc, enabled, init) ==
  [s \in Stages |-> IF s \in enabled THEN Geometry(s, pc) ELSE init[s]]

\* Index i holds the last setting of kind t in q.
IsLastOfType(q, i, t) ==
  q[i].type = t /\ \A j \in DOMAIN q : j > i => q[j].type # t

\* Apply the drained settings in order: each kind ends at the value of its
\* last setting in the queue, or keeps its value when the queue has none.
ApplySettings(params, q) ==
  [t \in SettingTypes |->
     IF \E i \in DOMAIN q : IsLastOfType(q, i, t)
       THEN q[CHOOSE i \in DOMAIN q : IsLastOfType(q, i, t)].value
       ELSE params[t]]

\* The return code of a rejected format.
FormatError(pc, iface) ==
  IF RatesOk(pc, iface) THEN "kBadNumberChannelsError" ELSE "kBadSampleRateError"

\* The stream parameters the enabled stages need and that were not set for
\* this frame.
StreamParamsMissing ==
  \/ /\ "gain_controller1" \in config.enabled
     /\ config.agc1_mode = "kAdaptiveAnalog"
     /\ ~analog_level_set
  \/ /\ "echo_canceller" \in config.enabled
     /\ ~was_stream_delay_set \/ ~render_seen

-----------------------------------------------------------------------------
Init ==
  /\ api_format = DefaultFormat
  /\ config = DefaultConfig
  /\ sub_init = InitializeStages(DefaultFormat, DefaultConfig.enabled,
                                 [s \in Stages |-> NotAllocated])
  /\ stream_analog_level = 0
  /\ analog_level_set = FALSE
  /\ recommended_level = 0
  /\ stream_delay_ms = 0
  /\ delay_offset_ms = 0
  /\ was_stream_delay_set = FALSE
  /\ render_seen = FALSE
  /\ capture_queue = <<>>
  /\ runtime_params = DefaultParams
  /\ capturing = FALSE
  /\ result = [t \in Threads |-> "kNoError"]
  /\ n_sent = 0
  /\ frame_setters = {}
-----------------------------------------------------------------------------
(* Operations of the capture thread *)

\* Initialize(): reinitialise the enabled stages with the current geometry,
\* keeping the config and the geometry; a new call starts (no reverse frame
\* seen yet).
Initialize ==
  /\ ~capturing
  /\ sub_init' = InitializeStages(api_format, config.enabled, sub_init)
  /\ render_seen' = FALSE
  /\ result' = [result EXCEPT !["capture"] = "kNoError"]
  /\ UNCHANGED <<api_format, config, stream_analog_level, analog_level_set,
                 recommended_level, stream_delay_ms, delay_offset_ms,
                 was_stream_delay_set, capture_queue, runtime_params,
                 capturing, ghost_vars>>

\* Initialize(const ProcessingConfig&): validate, then install and
\* reinitialise, or fail leaving every state unchanged.
InitializeWith(pc) ==
  /\ ~capturing
  /\ IF ValidProcessingConfig(pc, "float")
       THEN /\ api_format' = pc
            /\ sub_init' = InitializeStages(pc, config.enabled, sub_init)
            /\ result' = [result EXCEPT !["capture"] = "kNoError"]
       ELSE /\ result' = [result EXCEPT !["capture"] = FormatError(pc, "float")]
            /\ UNCHANGED <<api_format, sub_init>>
  /\ UNCHANGED <<config, stream_analog_level, analog_level_set,
                 recommended_level, stream_delay_ms, delay_offset_ms,
                 was_stream_delay_set, render_seen, capture_queue,
                 runtime_params, capturing, ghost_vars>>

\* Mutation: only a stage never allocated before is initialised on enable.
ApplyConfigFirstEnableOnly(c) ==
  /\ ~capturing
  /\ config' = c
  /\ sub_init' = InitializeStages(api_format,
                   {s \in c.enabled \ config.enabled : sub_init[s] = NotAllocated},
                   sub_init)
  /\ UNCHANGED <<api_format, stream_analog_level, analog_level_set,
                 recommended_level, stream_delay_ms, delay_offset_ms, was_stream_delay_set,
                 render_seen, capture_queue, runtime_params, capturing, result,
                 ghost_vars>>

\* ApplyConfig(config): whole-struct replace.  A stage enabled by this config
\* and not by the previous one is allocated and initialised with the current
\* geometry.  Nothing else changes: the new level bounds take effect when the
\* next capture frame computes a level.
ApplyConfig(c) ==
  /\ ~capturing
  /\ config' = c
  /\ sub_init' = InitializeStages(api_format, c.enabled \ config.enabled, sub_init)
  /\ UNCHANGED <<api_format, stream_analog_level, analog_level_set,
                 recommended_level, stream_delay_ms, delay_offset_ms, was_stream_delay_set,
                 render_seen, capture_queue, runtime_params, capturing, result,
                 ghost_vars>>

\* set_stream_analog_level(level): returns nothing; the level is stored as
\* passed (being within the configured range is the caller's obligation).
set_stream_analog_level(level) ==
  /\ ~capturing
  /\ stream_analog_level' = level
  /\ analog_level_set' = TRUE
  /\ frame_setters' = frame_setters \cup {"analog_level"}
  /\ UNCHANGED <<api_format, config, sub_init, recommended_level,
                 stream_delay_ms, delay_offset_ms, was_stream_delay_set,
                 render_seen, capture_queue, runtime_params, capturing,
                 result, n_sent>>

\* set_stream_delay_ms(delay): the offset is added, the sum clamped to
\* [0, MaxDelayMs] with a warning when out of range.
set_stream_delay_ms(delay) ==
  /\ ~capturing
  /\ stream_delay_ms' = Clamp(delay + delay_offset_ms, 0, MaxDelayMs)
  /\ was_stream_delay_set' = TRUE
  /\ result' = [result EXCEPT !["capture"] =
                  IF delay + delay_offset_ms = stream_delay_ms' THEN "kNoError"
                  ELSE "kBadStreamParameterWarning"]
  /\ frame_setters' = frame_setters \cup {"delay"}
  /\ UNCHANGED <<api_format, config, sub_init, stream_analog_level,
                 analog_level_set, recommended_level, delay_offset_ms,
                 render_seen, capture_queue, runtime_params, capturing,
                 n_sent>>

\* set_delay_offset_ms(offset)
set_delay_offset_ms(offset) ==
  /\ ~capturing
  /\ delay_offset_ms' = offset
  /\ UNCHANGED <<api_format, config, sub_init, stream_analog_level,
                 analog_level_set, recommended_level, stream_delay_ms,
                 was_stream_delay_set, render_seen, capture_queue,
                 runtime_params, capturing, result, ghost_vars>>

\* ProcessStream, first half: reconcile the geometry (reinitialise when the
\* frame's differs), check the stream parameters, drain the settings queue.
CaptureBegin(iface, in, out) ==
  LET pc == [api_format EXCEPT !["kInputStream"] = in, !["kOutputStream"] = out]
  IN
  /\ ~capturing
  /\ iface = "int16" => out = in
  /\ IF ~ValidProcessingConfig(pc, iface)
       THEN /\ result' = [result EXCEPT !["capture"] = FormatError(pc, iface)]
            /\ UNCHANGED <<api_format, sub_init, capture_queue, runtime_params,
                           capturing, frame_setters>>
       ELSE /\ api_format' = pc
            /\ sub_init' = IF ProcessingConfigEq(pc, api_format) THEN sub_init
                           ELSE InitializeStages(pc, config.enabled, sub_init)
            /\ IF StreamParamsMissing
                 THEN /\ result' = [result EXCEPT !["capture"] =
                                      "kStreamParameterNotSetError"]
                      /\ UNCHANGED <<capture_queue, runtime_params, capturing,
                                     frame_setters>>
                 ELSE /\ runtime_params' = ApplySettings(runtime_params, capture_queue)
                      /\ capture_queue' = <<>>
                      /\ capturing' = TRUE
                      /\ result' = [result EXCEPT !["capture"] = "kNoError"]
                      /\ frame_setters' = {}
  /\ UNCHANGED <<config, stream_analog_level, analog_level_set,
                 recommended_level, stream_delay_ms, delay_offset_ms,
                 was_stream_delay_set, render_seen, n_sent>>

\* Mutation: the delay flag is not consumed by the frame.
CaptureEndKeepsDelay ==
  /\ capturing
  /\ \E agc_level \in AgcLevels :
       recommended_level' =
         Clamp(IF /\ "gain_controller1" \in config.enabled
                  /\ config.agc1_mode = "kAdaptiveAnalog"
               THEN agc_level ELSE stream_analog_level,
               config.bounds[1], config.bounds[2])
  /\ analog_level_set' = FALSE
  /\ capturing' = FALSE
  /\ UNCHANGED <<api_format, config, sub_init, stream_analog_level,
                 stream_delay_ms, delay_offset_ms, was_stream_delay_set,
                 render_seen, capture_queue, runtime_params, result, ghost_vars>>

\* ProcessStream, second half: the stage chain runs; gain_controller1 in the
\* analog mode computes a level, which is clamped to the bounds; the
\* per-frame stream parameters are consumed.
CaptureEnd ==
  /\ capturing
  /\ \E agc_level \in AgcLevels :
       recommended_level' =
         Clamp(IF /\ "gain_controller1" \in config.enabled
                  /\ config.agc1_mode = "kAdaptiveAnalog"
               THEN agc_level ELSE stream_analog_level,
               config.bounds[1], config.bounds[2])
  /\ analog_level_set' = FALSE
  /\ was_stream_delay_set' = FALSE
  /\ capturing' = FALSE
  /\ UNCHANGED <<api_format, config, sub_init, stream_analog_level,
                 stream_delay_ms, delay_offset_ms, render_seen, capture_queue,
                 runtime_params, result, ghost_vars>>

-----------------------------------------------------------------------------
(* Operations of the render thread and of any thread *)

\* ProcessReverseStream: reconcile the reverse geometry.  Reinitialising
\* takes the capture lock too, so it waits for a running capture frame.
ProcessReverseStream(iface, rin, rout) ==
  LET pc == [api_format EXCEPT !["kReverseInputStream"] = rin,
                               !["kReverseOutputStream"] = rout]
  IN
  /\ iface = "int16" => rout = rin
  /\ IF ~ValidProcessingConfig(pc, iface)
       THEN /\ result' = [result EXCEPT !["render"] = FormatError(pc, iface)]
            /\ UNCHANGED <<api_format, sub_init, render_seen>>
       ELSE /\ ~ProcessingConfigEq(pc, api_format) => ~capturing
            /\ api_format' = pc
            /\ sub_init' = IF ProcessingConfigEq(pc, api_format) THEN sub_init
                           ELSE InitializeStages(pc, config.enabled, sub_init)
            /\ render_seen' = TRUE
            /\ result' = [result EXCEPT !["render"] = "kNoError"]
  /\ UNCHANGED <<config, stream_analog_level, analog_level_set,
                 recommended_level, stream_delay_ms, delay_offset_ms,
                 was_stream_delay_set, capture_queue, runtime_params,
                 capturing, ghost_vars>>

\* SetRuntimeSetting(setting): enqueue; a setting that finds the queue full
\* is dropped.
SetRuntimeSetting(setting) ==
  /\ n_sent < MaxSettings
  /\ n_sent' = n_sent + 1
  /\ capture_queue' = IF Len(capture_queue) < QueueCapacity
                        THEN Append(capture_queue, setting) ELSE capture_queue
  /\ UNCHANGED <<api_format, config, sub_init, stream_analog_level,
                 analog_level_set, recommended_level, stream_delay_ms,
                 delay_offset_ms, was_stream_delay_set, render_seen,
                 runtime_params, capturing, result, frame_setters>>

-----------------------------------------------------------------------------
ProcessingConfigs ==
  {MkProcessingConfig(a, b, c, d) : a, b, c, d \in StreamChoices}

Next ==
  \/ Initialize
  \/ \E pc \in ProcessingConfigs : InitializeWith(pc)
  \/ \E c \in Configs : ApplyConfig(c)
  \/ \E l \in LevelInputs : set_stream_analog_level(l)
  \/ \E d \in DelayInputs : set_stream_delay_ms(d)
  \/ \E o \in OffsetInputs : set_delay_offset_ms(o)
  \/ \E i \in Interfaces, a, b \in StreamChoices : CaptureBegin(i, a, b)
  \/ CaptureEnd
  \/ \E i \in Interfaces, a, b \in StreamChoices : ProcessReverseStream(i, a, b)
  \/ \E s \in SettingChoices : SetRuntimeSetting(s)

Spec == Init /\ [][Next]_vars
-----------------------------------------------------------------------------
(* Properties *)

Setting == [type : SettingTypes, value : Int]

\* Every variable holds a value of its type.
TypeOK ==
  /\ api_format \in [StreamNames -> StreamConfigs]
  /\ config \in Configs
  /\ DOMAIN sub_init = Stages
  /\ \A s \in Stages :
       sub_init[s] \in [StreamsOf(s) -> StreamConfigs] \cup {NotAllocated}
  /\ stream_analog_level \in Int /\ recommended_level \in Int
  /\ analog_level_set \in BOOLEAN
  /\ stream_delay_ms \in Int /\ delay_offset_ms \in Int
  /\ was_stream_delay_set \in BOOLEAN /\ render_seen \in BOOLEAN
  /\ capture_queue \in Seq(Setting)
  /\ runtime_params \in [SettingTypes -> Int]
  /\ capturing \in BOOLEAN
  /\ result \in [Threads -> ErrorCodes]
  /\ n_sent \in 0..MaxSettings
  /\ frame_setters \subseteq {"analog_level", "delay"}

\* No stale state across reconfiguration (ProcessStream,
\* ProcessReverseStream, Initialize, ApplyConfig): the installed geometry is
\* one the float interface accepts, and every enabled stage was last
\* initialised with the current geometry of the streams it uses, whatever
\* sequence of implicit reinitialisations, config changes and stage
\* disable/re-enable led here.
ReconfigurationConsistent ==
  /\ ValidProcessingConfig(api_format, "float")
  /\ \A s \in config.enabled : StageCurrent(s, api_format, sub_init)

\* The analog-level feedback loop as spec.md states it (AnalogLevelState):
\* recommended_stream_analog_level() always lies in the gain controller's
\* configured [analog_level_minimum, analog_level_maximum] -- also after
\* ApplyConfig has moved the bounds since the last frame computed the level.
RecommendedWithinBounds ==
  recommended_level \in config.bounds[1]..config.bounds[2]

\* A capture frame starts.
CaptureStarts == ~capturing /\ capturing'

\* The per-frame stream parameters (ProcessStream, set_stream_analog_level,
\* set_stream_delay_ms): a frame that runs the analog gain controller or the
\* echo canceller starts only if the level, respectively the delay, was set
\* after the previous frame, never on a value left from an earlier frame.
StreamParamsFreshPerFrame ==
  [][CaptureStarts =>
       /\ ("gain_controller1" \in config.enabled /\ config.agc1_mode = "kAdaptiveAnalog")
            => "analog_level" \in frame_setters
       /\ "echo_canceller" \in config.enabled => "delay" \in frame_setters]_vars
=============================================================================
