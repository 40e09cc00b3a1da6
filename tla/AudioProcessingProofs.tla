------------------------ MODULE AudioProcessingProofs ------------------------
(***************************************************************************)
(* Machine-checked proofs about the orchestrator model AudioProcessing,    *)
(* for every value of its constants that satisfies the ASSUMEs.            *)
(***************************************************************************)
EXTENDS AudioProcessing, SequenceTheorems, TLAPS

-----------------------------------------------------------------------------
(* Lemmas about the helpers *)

\* A ProcessingConfig built from four StreamConfigs maps every stream name
\* to a StreamConfig.
LEMMA MkProcessingConfigType ==
  ASSUME NEW a \in StreamConfigs, NEW b \in StreamConfigs,
         NEW c \in StreamConfigs, NEW d \in StreamConfigs
  PROVE  MkProcessingConfig(a, b, c, d) \in [StreamNames -> StreamConfigs]
  BY DEF MkProcessingConfig, StreamNames

LEMMA ProcessingConfigsType ==
  ProcessingConfigs \subseteq [StreamNames -> StreamConfigs]
  BY StreamChoicesAssumption, MkProcessingConfigType DEF ProcessingConfigs

\* Replacing streams of a typed ProcessingConfig by StreamChoices keeps it
\* typed.
LEMMA ReplaceStreamsType ==
  ASSUME NEW pc \in [StreamNames -> StreamConfigs],
         NEW a \in StreamChoices, NEW b \in StreamChoices,
         NEW n1 \in StreamNames, NEW n2 \in StreamNames
  PROVE  [pc EXCEPT ![n1] = a, ![n2] = b] \in [StreamNames -> StreamConfigs]
  BY StreamChoicesAssumption

\* The type of sub_init as TypeOK states it.
SubInitOK(init) ==
  /\ DOMAIN init = Stages
  /\ \A s \in Stages : init[s] \in [StreamsOf(s) -> StreamConfigs] \cup {NotAllocated}

\* InitializeStages gives each enabled stage the geometry of its streams.
LEMMA InitializeStagesType ==
  ASSUME NEW pc \in [StreamNames -> StreamConfigs], NEW enabled \in SUBSET Stages,
         NEW init, SubInitOK(init)
  PROVE  SubInitOK(InitializeStages(pc, enabled, init))
  <1>1. \A s \in Stages : StreamsOf(s) \subseteq StreamNames
    BY DEF StreamsOf, StreamNames
  <1>2. QED
    BY <1>1 DEF InitializeStages, Geometry, SubInitOK

\* Clamp of integers is an integer.
LEMMA ClampInt ==
  ASSUME NEW x \in Int, NEW lo \in Int, NEW hi \in Int
  PROVE  Clamp(x, lo, hi) \in Int
  BY DEF Clamp

\* ApplySettings keeps the parameters integers.
LEMMA ApplySettingsType ==
  ASSUME NEW params \in [SettingTypes -> Int], NEW q \in Seq(Setting)
  PROVE  ApplySettings(params, q) \in [SettingTypes -> Int]
  <1> DEFINE Last(t) == CHOOSE i \in DOMAIN q : IsLastOfType(q, i, t)
  <1>1. ASSUME NEW t \in SettingTypes, \E i \in DOMAIN q : IsLastOfType(q, i, t)
        PROVE  q[Last(t)].value \in Int
    <2>1. Last(t) \in DOMAIN q
      BY <1>1
    <2>2. q[Last(t)] \in Setting
      BY <2>1
    <2>3. QED
      BY <2>2 DEF Setting
  <1>2. QED
    BY <1>1 DEF ApplySettings

-----------------------------------------------------------------------------
(* Type correctness *)

THEOREM TypeCorrect == Spec => []TypeOK
<1>1. Init => TypeOK
  <2> SUFFICES ASSUME Init PROVE TypeOK
    OBVIOUS
  <2>1. DefaultFormat \in [StreamNames -> StreamConfigs]
    <3>1. DefaultStream \in StreamConfigs
      BY SizeTModulusAssumption
         DEF DefaultStream, MkStreamConfig, StreamConfigs, calculate_frames, ToSizeT, TruncDiv,
             kChunkSizeMs
    <3>2. QED
      BY <3>1, MkProcessingConfigType DEF DefaultFormat
  <2>2. DefaultConfig \in Configs
    <3>1. "kAdaptiveAnalog" \in Agc1Modes
      BY Agc1ModesAssumption
    <3>2. <<0, 255>> \in LevelBounds
      BY DefaultBoundsAssumption
    <3>3. QED
      BY <3>1, <3>2 DEF DefaultConfig, Configs
  <2>3. SubInitOK(sub_init)
    <3>1. DefaultConfig.enabled \in SUBSET Stages
      BY DEF DefaultConfig
    <3>2. SubInitOK([s \in Stages |-> NotAllocated])
      BY DEF SubInitOK
    <3>3. QED
      BY <2>1, <3>1, <3>2, InitializeStagesType DEF Init
  <2>4. runtime_params \in [SettingTypes -> Int]
    BY DEF Init, DefaultParams, SettingTypes
  <2>5. result \in [Threads -> ErrorCodes]
    BY DEF Init, Threads, ErrorCodes
  <2>6. /\ api_format \in [StreamNames -> StreamConfigs]
        /\ config \in Configs
    BY <2>1, <2>2 DEF Init
  <2>7. /\ stream_analog_level \in Int /\ recommended_level \in Int
        /\ analog_level_set \in BOOLEAN
        /\ stream_delay_ms \in Int /\ delay_offset_ms \in Int
        /\ was_stream_delay_set \in BOOLEAN /\ render_seen \in BOOLEAN
        /\ capturing \in BOOLEAN
    <3>1. /\ stream_analog_level = 0 /\ recommended_level = 0
          /\ analog_level_set = FALSE
          /\ stream_delay_ms = 0 /\ delay_offset_ms = 0
          /\ was_stream_delay_set = FALSE /\ render_seen = FALSE
          /\ capturing = FALSE
      BY Zenon DEF Init
    <3>2. /\ stream_analog_level \in Int /\ recommended_level \in Int
          /\ stream_delay_ms \in Int /\ delay_offset_ms \in Int
      BY <3>1
    <3>3. /\ analog_level_set \in BOOLEAN /\ was_stream_delay_set \in BOOLEAN
          /\ render_seen \in BOOLEAN /\ capturing \in BOOLEAN
      BY <3>1, Zenon
    <3>4. QED
      BY <3>2, <3>3
  <2>8. /\ capture_queue \in Seq(Setting)
        /\ n_sent \in 0..MaxSettings
        /\ frame_setters \subseteq {"analog_level", "delay"}
    BY SettingsAssumption DEF Init
  <2>9. QED
    BY <2>3, <2>4, <2>5, <2>6, <2>7, <2>8 DEF TypeOK, SubInitOK
<1>2. TypeOK /\ [Next]_vars => TypeOK'
  <2> SUFFICES ASSUME TypeOK, [Next]_vars PROVE TypeOK'
    OBVIOUS
  <2> USE DEF TypeOK
  <2>0. /\ config.enabled \in SUBSET Stages
        /\ config.bounds[1] \in Int /\ config.bounds[2] \in Int
        /\ config.bounds[1] <= config.bounds[2]
    BY LevelBoundsAssumption DEF Configs
  <2>1. CASE Initialize
    <3>1. SubInitOK(sub_init')
      <4>1. sub_init' = InitializeStages(api_format, config.enabled, sub_init)
        BY <2>1 DEF Initialize
      <4>2. SubInitOK(sub_init)
        BY DEF SubInitOK
      <4>3. QED
        BY <2>0, <4>1, <4>2, InitializeStagesType
    <3>2. result' \in [Threads -> ErrorCodes]
      BY <2>1 DEF Initialize, ErrorCodes
    <3>3. QED
      BY <2>1, <3>1, <3>2 DEF Initialize, ghost_vars, SubInitOK
  <2>2. ASSUME NEW pc \in ProcessingConfigs, InitializeWith(pc)
        PROVE  TypeOK'
    <3>1. pc \in [StreamNames -> StreamConfigs]
      BY ProcessingConfigsType
    <3>2. CASE ValidProcessingConfig(pc, "float")
      <4>1. SubInitOK(sub_init')
        <5>1. sub_init' = InitializeStages(pc, config.enabled, sub_init)
          BY <2>2, <3>2 DEF InitializeWith
        <5>2. SubInitOK(sub_init)
          BY DEF SubInitOK
        <5>3. QED
          BY <2>0, <3>1, <5>1, <5>2, InitializeStagesType
      <4>2. result' \in [Threads -> ErrorCodes]
        BY <2>2, <3>2 DEF InitializeWith, ErrorCodes
      <4>3. QED
        BY <2>2, <3>1, <3>2, <4>1, <4>2 DEF InitializeWith, ghost_vars, SubInitOK
    <3>3. CASE ~ValidProcessingConfig(pc, "float")
      <4>1. result' \in [Threads -> ErrorCodes]
        BY <2>2, <3>3 DEF InitializeWith, FormatError, ErrorCodes
      <4>2. QED
        BY <2>2, <3>3, <4>1 DEF InitializeWith, ghost_vars
    <3>4. QED
      BY <3>2, <3>3
  <2>3. ASSUME NEW c \in Configs, ApplyConfig(c)
        PROVE  TypeOK'
    <3>1. /\ c.enabled \ config.enabled \in SUBSET Stages
          /\ c.bounds[1] \in Int /\ c.bounds[2] \in Int /\ c.bounds[1] <= c.bounds[2]
      BY LevelBoundsAssumption DEF Configs
    <3>2. SubInitOK(sub_init')
      <4>1. sub_init' = InitializeStages(api_format, c.enabled \ config.enabled, sub_init)
        BY <2>3 DEF ApplyConfig
      <4>2. SubInitOK(sub_init)
        BY DEF SubInitOK
      <4>3. QED
        BY <3>1, <4>1, <4>2, InitializeStagesType
    <3>3. QED
      BY <2>3, <3>2 DEF ApplyConfig, ghost_vars, SubInitOK
  <2>4. ASSUME NEW l \in LevelInputs, set_stream_analog_level(l)
        PROVE  TypeOK'
    <3>1. stream_analog_level' \in Int
      BY <2>4, LevelsAssumption DEF set_stream_analog_level
    <3>2. QED
      BY <2>4, <3>1 DEF set_stream_analog_level
  <2>5. ASSUME NEW d \in DelayInputs, set_stream_delay_ms(d)
        PROVE  TypeOK'
    <3>0. stream_delay_ms' = Clamp(d + delay_offset_ms, 0, MaxDelayMs)
      BY <2>5 DEF set_stream_delay_ms
    <3>1. stream_delay_ms' \in Int
      <4>1. d + delay_offset_ms \in Int /\ 0 \in Int /\ MaxDelayMs \in Int
        BY LevelsAssumption, MaxDelayAssumption
      <4>2. QED
        BY <3>0, <4>1, ClampInt
    <3>2. result' \in [Threads -> ErrorCodes]
      BY <2>5 DEF set_stream_delay_ms, ErrorCodes
    <3>3. QED
      BY <2>5, <3>1, <3>2 DEF set_stream_delay_ms
  <2>6. ASSUME NEW o \in OffsetInputs, set_delay_offset_ms(o)
        PROVE  TypeOK'
    BY <2>6, LevelsAssumption DEF set_delay_offset_ms, ghost_vars
  <2>7. ASSUME NEW i \in Interfaces, NEW a \in StreamChoices, NEW b \in StreamChoices,
               CaptureBegin(i, a, b)
        PROVE  TypeOK'
    <3> DEFINE pc == [api_format EXCEPT !["kInputStream"] = a, !["kOutputStream"] = b]
    <3>1. pc \in [StreamNames -> StreamConfigs]
      BY ReplaceStreamsType DEF StreamNames
    <3>2. CASE ~ValidProcessingConfig(pc, i)
      <4>1. result' \in [Threads -> ErrorCodes]
        BY <2>7, <3>2 DEF CaptureBegin, FormatError, ErrorCodes
      <4>2. QED
        BY <2>7, <3>2, <4>1 DEF CaptureBegin
    <3>3. CASE ValidProcessingConfig(pc, i)
      <4>1. api_format' \in [StreamNames -> StreamConfigs]
        BY <2>7, <3>1, <3>3 DEF CaptureBegin
      <4>2. SubInitOK(sub_init')
        <5>1. CASE ProcessingConfigEq(pc, api_format)
          BY <2>7, <3>3, <5>1 DEF CaptureBegin, SubInitOK
        <5>2. CASE ~ProcessingConfigEq(pc, api_format)
          <6>1. sub_init' = InitializeStages(pc, config.enabled, sub_init)
            BY <2>7, <3>3, <5>2 DEF CaptureBegin
          <6>2. SubInitOK(sub_init)
            BY DEF SubInitOK
          <6>3. QED
            BY <2>0, <3>1, <6>1, <6>2, InitializeStagesType
        <5>3. QED
          BY <5>1, <5>2
      <4>3. CASE StreamParamsMissing
        <5>1. result' \in [Threads -> ErrorCodes]
          BY <2>7, <3>3, <4>3 DEF CaptureBegin, ErrorCodes
        <5>2. QED
          BY <2>7, <3>3, <4>1, <4>2, <4>3, <5>1 DEF CaptureBegin, SubInitOK
      <4>4. CASE ~StreamParamsMissing
        <5>1. runtime_params' \in [SettingTypes -> Int]
          BY <2>7, <3>3, <4>4, ApplySettingsType DEF CaptureBegin
        <5>2. result' \in [Threads -> ErrorCodes]
          BY <2>7, <3>3, <4>4 DEF CaptureBegin, ErrorCodes
        <5>3. capture_queue' = << >>
          BY <2>7, <3>3, <4>4 DEF CaptureBegin
        <5>6. capture_queue' \in Seq(Setting)
          BY <5>3, EmptySeq
        <5>4. QED
          BY <2>7, <3>3, <4>1, <4>2, <4>4, <5>1, <5>2, <5>6 DEF CaptureBegin, SubInitOK
      <4>5. QED
        BY <4>3, <4>4
    <3>4. QED
      BY <3>2, <3>3
  <2>8. CASE CaptureEnd
    <3>1. recommended_level' \in Int
      <4>1. PICK g \in AgcLevels :
              recommended_level' =
                Clamp(IF /\ "gain_controller1" \in config.enabled
                         /\ config.agc1_mode = "kAdaptiveAnalog"
                      THEN g ELSE stream_analog_level,
                      config.bounds[1], config.bounds[2])
        BY <2>8 DEF CaptureEnd
      <4>2. (IF /\ "gain_controller1" \in config.enabled
                /\ config.agc1_mode = "kAdaptiveAnalog"
             THEN g ELSE stream_analog_level) \in Int
        BY LevelsAssumption
      <4>3. QED
        BY <2>0, <4>1, <4>2, ClampInt
    <3>2. QED
      BY <2>8, <3>1 DEF CaptureEnd, ghost_vars
  <2>9. ASSUME NEW i \in Interfaces, NEW a \in StreamChoices, NEW b \in StreamChoices,
               ProcessReverseStream(i, a, b)
        PROVE  TypeOK'
    <3> DEFINE pc == [api_format EXCEPT !["kReverseInputStream"] = a,
                                        !["kReverseOutputStream"] = b]
    <3>1. pc \in [StreamNames -> StreamConfigs]
      BY ReplaceStreamsType DEF StreamNames
    <3>2. CASE ~ValidProcessingConfig(pc, i)
      <4>1. result' \in [Threads -> ErrorCodes]
        BY <2>9, <3>2 DEF ProcessReverseStream, FormatError, ErrorCodes
      <4>2. QED
        BY <2>9, <3>2, <4>1 DEF ProcessReverseStream, ghost_vars
    <3>3. CASE ValidProcessingConfig(pc, i)
      <4>1. api_format' \in [StreamNames -> StreamConfigs]
        BY <2>9, <3>1, <3>3 DEF ProcessReverseStream
      <4>2. SubInitOK(sub_init')
        <5>1. CASE ProcessingConfigEq(pc, api_format)
          BY <2>9, <3>3, <5>1 DEF ProcessReverseStream, SubInitOK
        <5>2. CASE ~ProcessingConfigEq(pc, api_format)
          <6>1. sub_init' = InitializeStages(pc, config.enabled, sub_init)
            BY <2>9, <3>3, <5>2 DEF ProcessReverseStream
          <6>2. SubInitOK(sub_init)
            BY DEF SubInitOK
          <6>3. QED
            BY <2>0, <3>1, <6>1, <6>2, InitializeStagesType
        <5>3. QED
          BY <5>1, <5>2
      <4>3. result' \in [Threads -> ErrorCodes]
        BY <2>9, <3>3 DEF ProcessReverseStream, ErrorCodes
      <4>4. QED
        BY <2>9, <3>3, <4>1, <4>2, <4>3 DEF ProcessReverseStream, ghost_vars, SubInitOK
    <3>4. QED
      BY <3>2, <3>3
  <2>10. ASSUME NEW s \in SettingChoices, SetRuntimeSetting(s)
         PROVE  TypeOK'
    <3>1. s \in Setting
      BY SettingsAssumption DEF Setting
    <3>2. capture_queue' \in Seq(Setting)
      <4>1. CASE Len(capture_queue) < QueueCapacity
        <5>1. capture_queue' = Append(capture_queue, s)
          BY <2>10, <4>1 DEF SetRuntimeSetting
        <5>2. QED
          BY <3>1, <5>1, AppendProperties
      <4>2. CASE ~(Len(capture_queue) < QueueCapacity)
        BY <2>10, <4>2 DEF SetRuntimeSetting
      <4>3. QED
        BY <4>1, <4>2
    <3>3. n_sent' \in 0..MaxSettings
      BY <2>10, SettingsAssumption DEF SetRuntimeSetting
    <3>4. QED
      BY <2>10, <3>2, <3>3 DEF SetRuntimeSetting
  <2>11. CASE UNCHANGED vars
    BY <2>11 DEF vars, code_vars, ghost_vars
  <2>12. QED
    BY <2>1, <2>2, <2>3, <2>4, <2>5, <2>6, <2>7, <2>8, <2>9, <2>10, <2>11 DEF Next
<1>3. QED
  BY <1>1, <1>2, PTL DEF Spec

-----------------------------------------------------------------------------
(* No stale geometry across reconfiguration *)

\* The streams a stage reads are stream names.
LEMMA StreamsOfNames ==
  ASSUME NEW s PROVE StreamsOf(s) \subseteq StreamNames
  BY DEF StreamsOf, StreamNames

\* A stage (re)initialised with pc is current for pc.
LEMMA InitializeStagesCurrent ==
  ASSUME NEW pc \in [StreamNames -> StreamConfigs], NEW E \in SUBSET Stages,
         NEW init, NEW s \in E
  PROVE  StageCurrent(s, pc, InitializeStages(pc, E, init))
  <1>1. InitializeStages(pc, E, init)[s] = Geometry(s, pc)
    BY DEF InitializeStages
  <1>2. Geometry(s, pc) \in [StreamsOf(s) -> StreamConfigs]
    BY StreamsOfNames DEF Geometry
  <1>3. Geometry(s, pc) # NotAllocated
    BY <1>2, StreamsOfNames, NotAllocatedAssumption
  <1>4. \A n \in StreamsOf(s) : StreamConfigEq(Geometry(s, pc)[n], pc[n])
    BY DEF Geometry, StreamConfigEq
  <1>5. QED
    BY <1>1, <1>3, <1>4 DEF StageCurrent

\* A stage that InitializeStages does not touch keeps its stored geometry.
LEMMA InitializeStagesKeeps ==
  ASSUME NEW pc, NEW E, NEW init, NEW s \in Stages \ E
  PROVE  InitializeStages(pc, E, init)[s] = init[s]
  BY DEF InitializeStages

\* A stage current for one format is current for every format operator==
\* calls equal: no reinitialisation is needed when the geometry is unchanged.
LEMMA CurrentUnderEq ==
  ASSUME NEW s, NEW p, NEW q, NEW init, StageCurrent(s, p, init),
         ProcessingConfigEq(q, p)
  PROVE  StageCurrent(s, q, init)
  BY StreamsOfNames DEF StageCurrent, ProcessingConfigEq, StreamConfigEq

\* A format the int16 interface accepts is one the float interface accepts.
LEMMA ValidForFloat ==
  ASSUME NEW pc, NEW i \in Interfaces, ValidProcessingConfig(pc, i)
  PROVE  ValidProcessingConfig(pc, "float")
  BY DEF ValidProcessingConfig, RatesOk, ChannelsOk, Interfaces

\* A format change by a capture or a render frame keeps every enabled stage
\* current: either the format is operator==-equal and nothing is
\* reinitialised, or every enabled stage is reinitialised with it.
LEMMA FrameReconcile ==
  ASSUME TypeOK, ReconfigurationConsistent,
         NEW pc \in [StreamNames -> StreamConfigs], NEW i \in Interfaces,
         ValidProcessingConfig(pc, i),
         api_format' = pc, config' = config,
         sub_init' = IF ProcessingConfigEq(pc, api_format) THEN sub_init
                     ELSE InitializeStages(pc, config.enabled, sub_init)
  PROVE  ReconfigurationConsistent'
  <1>1. ValidProcessingConfig(api_format', "float")
    BY ValidForFloat
  <1>2. ASSUME NEW s \in config.enabled PROVE StageCurrent(s, pc, sub_init')
    <2>1. CASE ProcessingConfigEq(pc, api_format)
      BY <2>1, CurrentUnderEq DEF ReconfigurationConsistent
    <2>2. CASE ~ProcessingConfigEq(pc, api_format)
      <3>1. config.enabled \in SUBSET Stages
        BY DEF TypeOK, Configs
      <3>2. QED
        BY <2>2, <3>1, InitializeStagesCurrent
    <2>3. QED
      BY <2>1, <2>2
  <1>3. QED
    BY <1>1, <1>2 DEF ReconfigurationConsistent

\* Every enabled stage holds the geometry of the installed format, whatever
\* sequence of implicit reinitialisations by capture and render frames,
\* explicit Initialize calls and ApplyConfig enabling and disabling stages
\* led here.  Inductive given TypeOK: a stage that ApplyConfig keeps enabled
\* is left as it was, and was current; every other way a stage becomes
\* enabled, or the format changes, reinitialises it.
THEOREM NoStaleGeometry == Spec => []ReconfigurationConsistent
<1>1. Init => ReconfigurationConsistent
  <2> SUFFICES ASSUME Init PROVE ReconfigurationConsistent
    OBVIOUS
  <2>1. DefaultFormat \in [StreamNames -> StreamConfigs]
    <3>1. DefaultStream \in StreamConfigs
      BY SizeTModulusAssumption
         DEF DefaultStream, MkStreamConfig, StreamConfigs, calculate_frames, ToSizeT, TruncDiv,
             kChunkSizeMs
    <3>2. QED
      BY <3>1, MkProcessingConfigType DEF DefaultFormat
  <2>2. ValidProcessingConfig(DefaultFormat, "float")
    BY DEF DefaultFormat, DefaultStream, MkProcessingConfig, MkStreamConfig,
           ValidProcessingConfig, RatesOk, ChannelsOk, StreamNames
  <2>3. ASSUME NEW s \in DefaultConfig.enabled
        PROVE  StageCurrent(s, DefaultFormat, sub_init)
    <3>1. DefaultConfig.enabled \in SUBSET Stages
      BY DEF DefaultConfig
    <3>2. QED
      BY <2>1, <3>1, InitializeStagesCurrent DEF Init
  <2>4. QED
    BY <2>2, <2>3 DEF Init, ReconfigurationConsistent
<1>2. TypeOK /\ ReconfigurationConsistent /\ [Next]_vars => ReconfigurationConsistent'
  <2> SUFFICES ASSUME TypeOK, ReconfigurationConsistent, [Next]_vars
               PROVE  ReconfigurationConsistent'
    OBVIOUS
  <2>1. CASE Initialize
    <3>1. config.enabled \in SUBSET Stages /\ api_format \in [StreamNames -> StreamConfigs]
      BY DEF TypeOK, Configs
    <3>2. /\ sub_init' = InitializeStages(api_format, config.enabled, sub_init)
          /\ api_format' = api_format /\ config' = config
      BY <2>1 DEF Initialize
    <3>3. QED
      BY <3>1, <3>2, InitializeStagesCurrent DEF ReconfigurationConsistent
  <2>2. ASSUME NEW pc \in ProcessingConfigs, InitializeWith(pc)
        PROVE  ReconfigurationConsistent'
    <3>1. CASE ValidProcessingConfig(pc, "float")
      <4>1. /\ sub_init' = InitializeStages(pc, config.enabled, sub_init)
            /\ api_format' = pc /\ config' = config
        BY <2>2, <3>1 DEF InitializeWith
      <4>2. pc \in [StreamNames -> StreamConfigs] /\ config.enabled \in SUBSET Stages
        BY ProcessingConfigsType DEF TypeOK, Configs
      <4>3. QED
        BY <3>1, <4>1, <4>2, InitializeStagesCurrent DEF ReconfigurationConsistent
    <3>2. CASE ~ValidProcessingConfig(pc, "float")
      BY <2>2, <3>2 DEF InitializeWith, ReconfigurationConsistent
    <3>3. QED
      BY <3>1, <3>2
  <2>3. ASSUME NEW c \in Configs, ApplyConfig(c)
        PROVE  ReconfigurationConsistent'
    <3>1. /\ sub_init' = InitializeStages(api_format, c.enabled \ config.enabled, sub_init)
          /\ api_format' = api_format /\ config' = c
      BY <2>3 DEF ApplyConfig
    <3>2. ASSUME NEW s \in c.enabled PROVE StageCurrent(s, api_format, sub_init')
      <4>1. s \in Stages /\ api_format \in [StreamNames -> StreamConfigs]
        BY DEF Configs, TypeOK
      <4>2. CASE s \in config.enabled
        <5>1. sub_init'[s] = sub_init[s]
          BY <3>1, <4>1, <4>2, InitializeStagesKeeps
        <5>2. QED
          BY <4>2, <5>1 DEF ReconfigurationConsistent, StageCurrent
      <4>3. CASE s \notin config.enabled
        BY <3>1, <4>1, <4>3, InitializeStagesCurrent DEF Configs
      <4>4. QED
        BY <4>2, <4>3
    <3>3. QED
      BY <3>1, <3>2 DEF ReconfigurationConsistent
  <2>4. ASSUME NEW i \in Interfaces, NEW a \in StreamChoices, NEW b \in StreamChoices,
               CaptureBegin(i, a, b)
        PROVE  ReconfigurationConsistent'
    <3> DEFINE pc == [api_format EXCEPT !["kInputStream"] = a, !["kOutputStream"] = b]
    <3>1. pc \in [StreamNames -> StreamConfigs]
      BY ReplaceStreamsType DEF TypeOK, StreamNames
    <3>2. CASE ValidProcessingConfig(pc, i)
      <4>1. /\ api_format' = pc /\ config' = config
            /\ sub_init' = IF ProcessingConfigEq(pc, api_format) THEN sub_init
                           ELSE InitializeStages(pc, config.enabled, sub_init)
        BY <2>4, <3>2 DEF CaptureBegin
      <4>2. QED
        BY <3>1, <3>2, <4>1, FrameReconcile
    <3>3. CASE ~ValidProcessingConfig(pc, i)
      BY <2>4, <3>3 DEF CaptureBegin, ReconfigurationConsistent
    <3>4. QED
      BY <3>2, <3>3
  <2>5. ASSUME NEW i \in Interfaces, NEW a \in StreamChoices, NEW b \in StreamChoices,
               ProcessReverseStream(i, a, b)
        PROVE  ReconfigurationConsistent'
    <3> DEFINE pc == [api_format EXCEPT !["kReverseInputStream"] = a,
                                        !["kReverseOutputStream"] = b]
    <3>1. pc \in [StreamNames -> StreamConfigs]
      BY ReplaceStreamsType DEF TypeOK, StreamNames
    <3>2. CASE ValidProcessingConfig(pc, i)
      <4>1. /\ api_format' = pc /\ config' = config
            /\ sub_init' = IF ProcessingConfigEq(pc, api_format) THEN sub_init
                           ELSE InitializeStages(pc, config.enabled, sub_init)
        BY <2>5, <3>2 DEF ProcessReverseStream
      <4>2. QED
        BY <3>1, <3>2, <4>1, FrameReconcile
    <3>3. CASE ~ValidProcessingConfig(pc, i)
      BY <2>5, <3>3 DEF ProcessReverseStream, ReconfigurationConsistent
    <3>4. QED
      BY <3>2, <3>3
  <2>6. CASE \/ \E l \in LevelInputs : set_stream_analog_level(l)
             \/ \E d \in DelayInputs : set_stream_delay_ms(d)
             \/ \E o \in OffsetInputs : set_delay_offset_ms(o)
             \/ CaptureEnd
             \/ \E s \in SettingChoices : SetRuntimeSetting(s)
             \/ UNCHANGED vars
    <3>1. UNCHANGED <<api_format, config, sub_init>>
      BY <2>6 DEF set_stream_analog_level, set_stream_delay_ms, set_delay_offset_ms,
                  CaptureEnd, SetRuntimeSetting, vars, code_vars
    <3>2. QED
      BY <3>1 DEF ReconfigurationConsistent, StageCurrent
  <2>7. QED
    BY <2>1, <2>2, <2>3, <2>4, <2>5, <2>6 DEF Next
<1>3. QED
  BY <1>1, <1>2, TypeCorrect, PTL DEF Spec
-----------------------------------------------------------------------------
(* Per-frame stream parameters *)

\* Between frames, a per-frame flag that is set was set by its setter since
\* the last frame started.
SettersRecorded ==
  ~capturing =>
    /\ analog_level_set => "analog_level" \in frame_setters
    /\ was_stream_delay_set => "delay" \in frame_setters

\* The end of a frame clears both flags, the setters record themselves, and
\* a frame only starts while no frame runs.
LEMMA SettersRecordedInductive ==
  SettersRecorded /\ [Next]_vars => SettersRecorded'
<1> SUFFICES ASSUME SettersRecorded, [Next]_vars PROVE SettersRecorded'
  OBVIOUS
<1>1. CASE Initialize
  BY <1>1 DEF Initialize, ghost_vars, SettersRecorded
<1>2. CASE \E pc \in ProcessingConfigs : InitializeWith(pc)
  BY <1>2 DEF InitializeWith, ghost_vars, SettersRecorded
<1>3. CASE \E c \in Configs : ApplyConfig(c)
  BY <1>3 DEF ApplyConfig, ghost_vars, SettersRecorded
<1>4. CASE \E l \in LevelInputs : set_stream_analog_level(l)
  BY <1>4 DEF set_stream_analog_level, SettersRecorded
<1>5. CASE \E d \in DelayInputs : set_stream_delay_ms(d)
  BY <1>5 DEF set_stream_delay_ms, SettersRecorded
<1>6. CASE \E o \in OffsetInputs : set_delay_offset_ms(o)
  BY <1>6 DEF set_delay_offset_ms, ghost_vars, SettersRecorded
<1>7. CASE \E i \in Interfaces, a, b \in StreamChoices : CaptureBegin(i, a, b)
  <2>1. PICK i \in Interfaces, a, b \in StreamChoices : CaptureBegin(i, a, b)
    BY <1>7
  <2>2. ~capturing /\ UNCHANGED <<analog_level_set, was_stream_delay_set>>
    BY <2>1 DEF CaptureBegin
  <2>3. capturing' \/ UNCHANGED <<capturing, frame_setters>>
    BY <2>1 DEF CaptureBegin
  <2>4. QED
    BY <2>2, <2>3 DEF SettersRecorded
<1>8. CASE CaptureEnd
  BY <1>8 DEF CaptureEnd, SettersRecorded
<1>9. CASE \E i \in Interfaces, a, b \in StreamChoices : ProcessReverseStream(i, a, b)
  BY <1>9 DEF ProcessReverseStream, ghost_vars, SettersRecorded
<1>10. CASE \E s \in SettingChoices : SetRuntimeSetting(s)
  BY <1>10 DEF SetRuntimeSetting, SettersRecorded
<1>11. CASE UNCHANGED vars
  BY <1>11 DEF vars, code_vars, ghost_vars, SettersRecorded
<1>12. QED
  BY <1>1, <1>2, <1>3, <1>4, <1>5, <1>6, <1>7, <1>8, <1>9, <1>10, <1>11 DEF Next

\* Only a successful ProcessStream start turns `capturing` on, and it
\* requires the flags StreamParamsMissing checks.
LEMMA FrameStartChecked ==
  ASSUME SettersRecorded, [Next]_vars, CaptureStarts
  PROVE  /\ ("gain_controller1" \in config.enabled /\ config.agc1_mode = "kAdaptiveAnalog")
              => "analog_level" \in frame_setters
         /\ "echo_canceller" \in config.enabled => "delay" \in frame_setters
<1>1. \E i \in Interfaces, a, b \in StreamChoices : CaptureBegin(i, a, b)
  BY DEF Next, vars, code_vars, CaptureStarts, Initialize, InitializeWith, ApplyConfig,
         set_stream_analog_level, set_stream_delay_ms, set_delay_offset_ms, CaptureEnd,
         ProcessReverseStream, SetRuntimeSetting
<1>2. ~StreamParamsMissing
  BY <1>1 DEF CaptureBegin, CaptureStarts
<1>3. QED
  BY <1>2 DEF StreamParamsMissing, SettersRecorded, CaptureStarts

\* A frame that runs the analog gain controller or the echo canceller starts
\* only after set_stream_analog_level, respectively set_stream_delay_ms, was
\* called since the previous frame (ProcessStream's kStreamParameterNotSetError
\* check and the per-frame reset of the flags), for every value of the
\* constants.
THEOREM FreshStreamParams == Spec => StreamParamsFreshPerFrame
<1>1. Init => SettersRecorded
  BY DEF Init, SettersRecorded
<1>2. SettersRecorded /\ [Next]_vars =>
        [CaptureStarts =>
           /\ ("gain_controller1" \in config.enabled /\ config.agc1_mode = "kAdaptiveAnalog")
                => "analog_level" \in frame_setters
           /\ "echo_canceller" \in config.enabled => "delay" \in frame_setters]_vars
  BY FrameStartChecked
<1>3. QED
  BY <1>1, <1>2, SettersRecordedInductive, PTL DEF Spec, StreamParamsFreshPerFrame
=============================================================================
