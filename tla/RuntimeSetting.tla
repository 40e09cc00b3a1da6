--------------------------- MODULE RuntimeSetting ---------------------------
(***************************************************************************)
(* AudioProcessing::RuntimeSetting (audio_processing.h): the factories,    *)
(* whose range checks are RTC_DCHECKs, the float/int union payload, and    *)
(* the path of a setting from a producer thread through SetRuntimeSetting  *)
(* to the capture or render queue and to the GetFloat/GetInt read of the   *)
(* thread that drains it.                                                  *)
(*                                                                         *)
(* Float arguments are modelled by integer values: every argument the      *)
(* factories take here is an integer well inside float's exact range, so  *)
(* int -> float -> int conversions are exact on them.                      *)
(***************************************************************************)
EXTENDS Integers, SequencesExt

CONSTANTS
  DChecksOn,   \* RTC_DCHECK_IS_ON: TRUE in debug builds, FALSE in release
  FloatArgs,   \* values passed to the float factories
  IntArgs,     \* values passed to the int factories
  MaxSends     \* bound on SetRuntimeSetting calls (model bound)

ASSUME RuntimeSettingAssumption ==
  /\ DChecksOn \in BOOLEAN
  /\ FloatArgs \subseteq Int /\ IntArgs \subseteq Int
  /\ MaxSends \in Nat

\* RuntimeSetting::Type
Types ==
  {"kNotSpecified", "kCapturePreGain", "kCaptureCompressionGain",
   "kCaptureFixedPostGain", "kPlayoutVolumeChange",
   "kCustomRenderProcessingRuntimeSetting"}

\* The union member a constructor wrote.
Members == {"float", "int"}

\* RuntimeSetting(Type id, float value) / RuntimeSetting(Type id, int value).
\* `arg` is a history field: the value the producer passed to the factory.
MkSetting(id, member, value, arg) ==
  [type |-> id, member |-> member, value |-> value, arg |-> arg]

\* What a factory returns: the condition its RTC_DCHECKs test, and the setting.
FactoryResult(check, setting) == [check |-> check, setting |-> setting]

\* RuntimeSetting(): kNotSpecified, value_(0.f).
DefaultSetting == FactoryResult(TRUE, MkSetting("kNotSpecified", "float", 0, 0))

CreateCapturePreGain(gain) ==
  FactoryResult(gain >= 1, MkSetting("kCapturePreGain", "float", gain, gain))

CreateCompressionGainDb(gain_db) ==
  FactoryResult(gain_db >= 0 /\ gain_db <= 90,
                MkSetting("kCaptureCompressionGain", "float", gain_db, gain_db))

CreateCaptureFixedPostGain(gain_db) ==
  FactoryResult(gain_db >= 0 /\ gain_db <= 90,
                MkSetting("kCaptureFixedPostGain", "float", gain_db, gain_db))

\* Mutation: the volume is stored through the float constructor.
CreatePlayoutVolumeChangeAsFloat(volume) ==
  FactoryResult(TRUE, MkSetting("kPlayoutVolumeChange", "float", volume, volume))

CreatePlayoutVolumeChange(volume) ==
  FactoryResult(TRUE, MkSetting("kPlayoutVolumeChange", "int", volume, volume))

CreateCustomRenderSetting(payload) ==
  FactoryResult(TRUE,
    MkSetting("kCustomRenderProcessingRuntimeSetting", "float", payload, payload))

\* value_.float_value / value_.int_value: what a getter obtains, flagged when
\* the member read is not the member the constructor wrote (its bits are
\* reinterpreted).
Obtained(s, member) == [value |-> s.value, reinterpreted |-> s.member # member]

GetFloat(s) == Obtained(s, "float")
GetInt(s) == Obtained(s, "int")

\* The documented range of each kind ("Attenuation is not allowed", [0, 90]).
InDocumentedRange(s) ==
  CASE s.type = "kCapturePreGain" -> s.arg >= 1
    [] s.type \in {"kCaptureCompressionGain", "kCaptureFixedPostGain"} ->
         s.arg >= 0 /\ s.arg <= 90
    [] OTHER -> TRUE

CaptureTypes ==
  {"kCapturePreGain", "kCaptureCompressionGain", "kCaptureFixedPostGain",
   "kPlayoutVolumeChange"}

VARIABLES
  capture_queue,   \* capture runtime settings not drained yet
  render_queue,    \* render runtime settings not drained yet
  capture_params,  \* parameter kind -> value last read from a setting
  render_params,   \* custom render processing payload last read
  aborted,         \* a failed RTC_DCHECK/RTC_NOTREACHED stopped the process
  n_sent,          \* SetRuntimeSetting calls so far
  reads            \* history: <<argument passed, value read>> per applied setting

\* A parameter value that no setting has changed (the Config default).
Initial(v) == [value |-> v, reinterpreted |-> FALSE]

vars == <<capture_queue, render_queue, capture_params, render_params,
          aborted, n_sent, reads>>

Init ==
  /\ capture_queue = <<>>
  /\ render_queue = <<>>
  /\ capture_params =
       [kCapturePreGain |-> Initial(1), kCaptureCompressionGain |-> Initial(9),
        kCaptureFixedPostGain |-> Initial(0), kPlayoutVolumeChange |-> Initial(0)]
  /\ render_params = Initial(0)
  /\ aborted = FALSE
  /\ n_sent = 0
  /\ reads = <<>>

\* SetRuntimeSetting(Create...(arg)): the factory runs in the producer
\* thread, then the setting is routed by type: the custom render kind to the
\* render queue, kNotSpecified to RTC_NOTREACHED, the rest to the capture
\* queue.  A failed check aborts only when DCHECKs are compiled in.
SetRuntimeSetting(r) ==
  /\ ~aborted
  /\ n_sent < MaxSends
  /\ n_sent' = n_sent + 1
  /\ LET s == r.setting
         fails == ~r.check \/ s.type = "kNotSpecified"
     IN IF DChecksOn /\ fails
          THEN /\ aborted' = TRUE
               /\ UNCHANGED <<capture_queue, render_queue>>
          ELSE /\ aborted' = FALSE
               /\ capture_queue' = IF s.type \in CaptureTypes
                                     THEN Append(capture_queue, s) ELSE capture_queue
               /\ render_queue' =
                    IF s.type = "kCustomRenderProcessingRuntimeSetting"
                      THEN Append(render_queue, s) ELSE render_queue
  /\ UNCHANGED <<capture_params, render_params, reads>>

\* The value the capture side reads from a setting of each kind: GetFloat for
\* the gains (the compression gain cast back to int), GetInt for the volume.
CaptureRead(s) == IF s.type = "kPlayoutVolumeChange" THEN GetInt(s) ELSE GetFloat(s)

\* The capture frame drains its queue in full, in order.
DrainCapture ==
  /\ ~aborted
  /\ capture_params' =
       FoldLeft(LAMBDA p, s : [p EXCEPT ![s.type] = CaptureRead(s)],
                capture_params, capture_queue)
  /\ reads' = reads \o [i \in 1..Len(capture_queue) |->
                          <<capture_queue[i].arg, CaptureRead(capture_queue[i])>>]
  /\ capture_queue' = <<>>
  /\ UNCHANGED <<render_queue, render_params, aborted, n_sent>>

\* The render frame hands each setting to the render pre-processor, which
\* reads the float payload.
DrainRender ==
  /\ ~aborted
  /\ render_params' = IF render_queue = <<>> THEN render_params
                      ELSE GetFloat(render_queue[Len(render_queue)])
  /\ reads' = reads \o [i \in 1..Len(render_queue) |->
                          <<render_queue[i].arg, GetFloat(render_queue[i])>>]
  /\ render_queue' = <<>>
  /\ UNCHANGED <<capture_queue, capture_params, aborted, n_sent>>

Next ==
  \/ SetRuntimeSetting(DefaultSetting)
  \/ \E g \in FloatArgs : SetRuntimeSetting(CreateCapturePreGain(g))
  \/ \E g \in IntArgs : SetRuntimeSetting(CreateCompressionGainDb(g))
  \/ \E g \in FloatArgs : SetRuntimeSetting(CreateCaptureFixedPostGain(g))
  \/ \E v \in IntArgs : SetRuntimeSetting(CreatePlayoutVolumeChange(v))
  \/ \E p \in FloatArgs : SetRuntimeSetting(CreateCustomRenderSetting(p))
  \/ DrainCapture
  \/ DrainRender

Spec == Init /\ [][Next]_vars
-----------------------------------------------------------------------------
(* Properties *)

\* Every setting value read through GetFloat/GetInt is the value passed to
\* its factory: each kind is read through the union member its constructor
\* wrote, so no reader sees reinterpreted bits (the union U of
\* RuntimeSetting, lines 467-473).
SettingValuesPreserved ==
  \A i \in DOMAIN reads :
    ~reads[i][2].reinterpreted /\ reads[i][2].value = reads[i][1]

\* The factories validate their input (spec: "gain >= 1x, compression gain
\* in [0,90] dB") and the core never aborts the process on malformed input:
\* no out-of-range setting is queued or applied, and nothing aborts.
FactoriesValidate ==
  /\ ~aborted
  /\ \A i \in DOMAIN capture_queue : InDocumentedRange(capture_queue[i])
=============================================================================
