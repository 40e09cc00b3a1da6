# TLA+ models of the WebRTC AudioProcessing interface

This directory holds TLA+ models of `src/audio_processing/include/audio_processing.h`.
The header is the whole of `src/`. It defines two things:

- `StreamConfig` and `ProcessingConfig` with their bodies;
- the abstract `AudioProcessing` interface, whose contract is written in comments.

The orchestrator actions are translated from those contract comments and declarations.
Where the header says nothing (the creation-time geometry, how the settings queue is
drained), the definition follows `spec.md` and is marked `spec_modelled` in
`PROJECT.json`.

## The system and how its parts interact

- **Stream geometry** (`StreamConfig`, `ProcessingConfig`). Four stream slots: capture
  in/out and reverse in/out. Each slot holds a rate, a channel count, a keyboard flag and
  a frame length derived from the rate.
- **Orchestrator** (`AudioProcessing`). It is driven by two caller threads:
  - the capture thread: `ProcessStream`, the `set_stream_` setters, `Initialize` and
    `ApplyConfig`;
  - the render thread: `ProcessReverseStream`.

  A frame whose geometry differs from the installed one reinitialises every enabled
  stage. `ApplyConfig` replaces the whole `Config` (its `operator=` is a `memcpy`). A
  stage that becomes enabled is allocated and initialised with the current geometry.
- **Per-frame parameters.** `set_stream_analog_level` and `set_stream_delay_ms` must be
  called before each frame that needs them. Otherwise `ProcessStream` returns
  `kStreamParameterNotSetError`. `set_stream_analog_level` returns `void` and stores the
  level as passed. `set_stream_delay_ms` adds the delay offset and clamps into
  [0, 500] ms with `kBadStreamParameterWarning` (offset and clamp from `spec.md` §7(c)).
- **Analog-level feedback.** `ProcessStream` computes `recommended_stream_analog_level()`,
  clamped to `Config::GainController1::analog_level_minimum/maximum` at the end of the
  frame. `ApplyConfig` replaces the bounds and recomputes nothing.
- **Runtime settings.** `SetRuntimeSetting` may be called from any thread. It enqueues
  into a bounded FIFO. Each capture frame drains the FIFO in full before its stage chain
  runs. The queue, its capacity and the drain are not in the header; they follow
  `spec.md`.
  Settings of the custom render kind go to a second queue, drained by each render frame.
- **Runtime setting values.** `RuntimeSetting` factories check their ranges with
  `RTC_DCHECK`, and the value is a float/int union read back through `GetFloat`/`GetInt`.
- **Builder.** `AudioProcessingBuilder` collects components (four `unique_ptr`s and a
  `scoped_refptr` echo detector), and `Create` hands them to a new instance and resets
  the builder. A `unique_ptr` is moved; the `scoped_refptr` detector is
  reference-counted, so a client may pass one detector again.
- **AecDump.** `AttachAecDump`/`DetachAecDump` swap the debug dump under both locks. The
  old dump's destructor then blocks until the dump's worker queue has run every logging
  task posted before it, while capture frames keep logging to the new dump.

## Modules

| Module | Models | State and actions |
|---|---|---|
| `StreamConfig` | `StreamConfig`, `ProcessingConfig`, the validity rules of `Initialize(const ProcessingConfig&)` | Pure operators; see the notes below. |
| `AudioProcessing` | the orchestrator, the capture settings queue, the `Config` fields that drive control flow | 14 code variables and 2 history variables; one action per entry point (listed below). |
| `RuntimeSetting` | the `RuntimeSetting` value type, its routing to the capture and render queues, both drains | queues, parameters, `aborted`; `SetRuntimeSetting` (one disjunct per factory), `DrainCapture`, `DrainRender`. |
| `AudioProcessingBuilder` | `AudioProcessingBuilder` and the lifetime of the components it hands over | `builder`, `apm`, `live`, `handed`, `destroyed`, history `given`; `SetComponent`, `Create`, `DeleteInstance`. |
| `AecDumpAttachment` | `AttachAecDump`/`DetachAecDump`, the blocking destructor, the logging worker | `attached`, `worker`, `api`, `api_phase`, `destroyed`, `used`; `Swap`, `ReleaseOld`, `CaptureFrame`, `WorkerRun`. |
| `MC_*` | constants for TLC | small sets of streams, settings, bounds, objects and dumps |
| `AudioProcessingProofs` | TLAPS proofs about `AudioProcessing` | lemmas on the helpers; `TypeCorrect`, `NoStaleGeometry`, `FreshStreamParams` |
| `AecDumpAttachmentProofs` | TLAPS proof about `AecDumpAttachment` | `DumpNeverUsedAfterDestroy` |
| `AudioProcessingBuilderProofs` | TLAPS proofs about `AudioProcessingBuilder` | `ComponentOwnership`, `SharingOnlyOnRequest` |
| `RuntimeSettingProofs` | TLAPS proof about `RuntimeSetting` | `ValuesReadAsWritten` |

Notes on `StreamConfig`:

- `calculate_frames` keeps the C++ arithmetic. The division truncates toward zero, and
  the result is reduced modulo `SizeTModulus`, which models `static_cast<size_t>`.
- `StreamConfigEq` ignores `num_frames`, exactly as `operator==` does.

Notes on `AudioProcessing`:

- There is one action per entry point: `Initialize`, `InitializeWith`, `ApplyConfig`,
  `set_stream_analog_level`, `set_stream_delay_ms`, `set_delay_offset_ms`,
  `ProcessReverseStream` and `SetRuntimeSetting`.
- A capture frame is split into `CaptureBegin` and `CaptureEnd`.
  - `CaptureBegin`: reconcile the geometry, check the stream parameters, drain the queue.
  - `CaptureEnd`: the stage chain computes a level, and the per-frame flags are consumed.
- The split lets settings be enqueued, and the render thread run, while a frame is in
  progress. A reinitialisation takes both locks, so the guard `~capturing` keeps it out of
  a running frame.
- `sub_init[s]` is the geometry stage `s` was last initialised with, or `NotAllocated`.
  It stands for the submodules' `Initialize(rate, channels[, render rate, channels])`.
- The level the AGC computes is a nondeterministic choice from `AgcLevels`; `CaptureEnd`
  clamps it into the bounds of the current `Config`.
- `ApplyConfig` leaves `recommended_level` as it is.

The history variables are read only by properties and the model bound:

- `n_sent`: number of `SetRuntimeSetting` calls, bounded by `MaxSettings`;
- `frame_setters`: setters called since the last frame.

Notes on `RuntimeSetting`:

- A factory returns the setting and the condition its `RTC_DCHECK`s test. The build
  constant `DChecksOn` says whether a failed check aborts (debug) or is compiled out
  (release).
- The payload is a union. A setting records which member its constructor wrote; a getter
  returns the value and whether it read the other member (then it sees reinterpreted
  bits).
- `SetRuntimeSetting` routes the custom render kind to the render queue,
  `kNotSpecified` to `RTC_NOTREACHED` (abort in debug, dropped in release), and the
  rest to the capture queue. The capture drain folds the queue into the parameters, oldest
  first (`FoldLeft` of `SequencesExt`); `kPlayoutVolumeChange` is read with `GetInt`,
  the rest with `GetFloat`.
- Float arguments are integers well inside float's exact range, so the int/float
  conversions the factories make are exact on them.

Notes on `AudioProcessingBuilder`:

- A holder is a place (the builder, place 0, or a live instance) and a component.
  Four components are `std::unique_ptr`, the echo detector is `rtc::scoped_refptr`.
- `SetComponent(c, o)` moves `o` (or `nullptr`) into the slot; the old object is destroyed,
  a shared detector only when no other holder is left. A client hands over a unique
  object once; it may pass the same detector again.
- The history variable `given[o]` counts the calls `SetComponent(c, o)` the client made,
  up to `MaxHandoffs`. `NoUnrequestedSharing` compares the holders with it.
- `Create` appends the builder's slots as a new instance and resets the builder.
  `DeleteInstance` releases an instance's components the same way.

Notes on `AecDumpAttachment`:

- `Swap(d)` is the part under the render and capture locks: the new dump (or none, for
  `DetachAecDump`) is installed and logs its init message; the old dump goes to the API
  thread, which leaves the locks.
- `ReleaseOld` is the old dump's destructor: it posts a sync task behind every pending
  task and blocks. `WorkerRun` runs the oldest task; the sync task wakes the API thread
  and the dump is destroyed.
- `CaptureFrame` is a capture frame logging to the attached dump.

## Runs

Each run finishes in under a minute.

| Run | Module | cfg | Properties | Expect |
|---|---|---|---|---|
| geometry | `MC_AudioProcessing` | `MC_Geometry.cfg` | `TypeOK`, `ReconfigurationConsistent` | pass (101 232 states) |
| feedback | `MC_AudioProcessing` | `MC_Feedback.cfg` | `StreamParamsFreshPerFrame` | pass (766 752 states) |
| recommended_bounds | `MC_AudioProcessing` | `MC_RecommendedBounds.cfg` | `RecommendedWithinBounds` | violation |
| setting_values | `MC_RuntimeSetting` | `MC_SettingValues.cfg` | `SettingValuesPreserved` | pass (7 088 states) |
| settings_debug | `MC_RuntimeSetting` | `MC_SettingsDebug.cfg` | `FactoriesValidate` | violation |
| settings_release | `MC_RuntimeSetting` | `MC_SettingsRelease.cfg` | `FactoriesValidate` | violation |
| builder | `MC_AudioProcessingBuilder` | `MC_AudioProcessingBuilder.cfg` | `OwnershipSound`, `NoUnrequestedSharing` | pass (47 733 states) |
| builder_shared | `MC_AudioProcessingBuilder` | `MC_BuilderExclusive.cfg` | `SubmodulesExclusivelyOwned` | violation |
| aecdump | `MC_AecDumpAttachment` | `MC_AecDumpAttachment.cfg` | `NoWriteAfterDestroy`, `DetachCompletes` | pass (356 states) |

What each property says:

- **`ReconfigurationConsistent`**: the installed format is valid for the float interface,
  and every enabled stage was last initialised with the current geometry of the streams
  it reads. This is the spec's "no stale state across reconfiguration".
- **`RecommendedWithinBounds`**: the recommended level lies in the bounds of the current
  `Config`. `spec.md` (AnalogLevelState) says this holds always; the code breaks it
  between an `ApplyConfig` and the next frame (see Findings).
- **`StreamParamsFreshPerFrame`**: an action property. A frame that runs the analog AGC,
  or the echo canceller, starts only if the level, or the delay, was set since the
  previous frame.
- **`SettingValuesPreserved`**: every value read through `GetFloat`/`GetInt` is the
  factory's argument, read through the member that was written.
- **`FactoriesValidate`**: nothing aborted, and no queued setting is outside its
  documented range.
- **`OwnershipSound`**: a destroyed component has no holder, and a `unique_ptr` component
  has exactly one.
- **`NoUnrequestedSharing`**: an object has at most as many holders as the client made
  `SetComponent` calls with it. Handing an object over (`Create`, and the builder's
  reset) moves it and never copies it, so sharing happens only when the client passes
  the same detector twice.
- **`SubmodulesExclusivelyOwned`**: no component has two holders.
- **`NoWriteAfterDestroy`**: no pending logging task, and no attached dump, belongs to a
  destroyed dump.
- **`DetachCompletes`**: once the API thread is inside attach/detach, it returns.

How the bounds were chosen:

- **Geometry run.** Two stages: `echo_canceller` reads the reverse stream, and
  `gain_controller1` does not. There are two stream shapes, 16 kHz mono and 48 kHz stereo,
  so a change can be a rate change and a channel change. `ApplyConfig` can enable and
  disable each stage. This reaches the disable, change geometry, re-enable sequence, and a
  render-side change while a stage reads only the capture side.
- **Feedback run.** Two bound pairs, [0,255] and [0,100]. Input levels 50 and 300. AGC
  outputs 0 and 200, where 200 exceeds the narrow bound. Delays 100 and 600 with offsets 0
  and -200, against a 500 ms maximum, so the delay clamp both fires and does not. Both
  stages can be enabled and disabled, so a frame may or may not need each parameter. A
  queue of capacity 1 and two sends, so a full queue drops a setting while a frame runs.
- **Recommended-bounds run.** The same, without settings: a level of 200 computed under
  [0,255] followed by an `ApplyConfig` to [0,100] is the shortest violation.
- **Runtime-setting runs.** Float arguments 0, 2 and 95 (below, inside and above the
  documented ranges), int arguments -1 and 20, three sends: enough for every kind, a
  drain of a mixed queue, and each out-of-range case.
- **Builder run.** Three objects, two instances, and at most two hand-overs of one
  object: a component moved into one instance, the builder reused, a detector passed to
  both builders, and either instance deleted first.
- **AecDump run.** Three dumps and a queue of three tasks: an attach, logging frames, a
  replacement while tasks of the old dump are pending, and a second replacement.

Each passing property has a mutant in `PROJECT.json`. The mutant changes one mapped
definition the way a plausible bug would:

- the whole `ProcessingConfig` is handed to a stage;
- only a never-allocated stage is initialised on enable;
- the delay flag is not consumed;
- the playout volume is stored through the float constructor;
- `SetComponent` destroys the old detector even when another holder still refers to it
  (a reference drop treated as a delete; breaks `OwnershipSound`);
- `Create` copies the detector's `scoped_refptr` instead of moving it, so the builder
  keeps a reference (breaks `NoUnrequestedSharing`);
- the destructor's sync task is posted at the front of the worker queue;
- the destructor waits for an empty worker queue before posting.

TLC finds the property violated under each mutant. Together, the passing runs fire every
action and every branch of `Next`.

## Fairness

Only `aecdump` assumes fairness: `WF_vars(ReleaseOld) /\ WF_vars(WorkerRun)`. The worker
task queue runs its tasks as long as it has any, and the API thread, once it has left
the locks, goes on into the destructor without waiting for anyone. Attaching, detaching
and capture frames are client calls, and no fairness is assumed for them: a capture
thread that logs without pause is allowed, and `DetachCompletes` holds even then.

The other modules assume no fairness and check no liveness. Every step there is a call
some client makes, and nothing in the code forces a client to call anything.

## Findings

- **`recommended_bounds`** (`ApplyConfig`, line 512). `ApplyConfig` replaces the whole
  `Config`, the level bounds included, and nothing recomputes the recommended level before
  the next `ProcessStream` (`spec.md` §4.2 step 5 clamps only there). `spec.md`
  (AnalogLevelState) says the recommended level always lies within the configured bounds.
  After an `ApplyConfig` that narrows them, `recommended_stream_analog_level()` returns a
  level outside them until the next frame. The spec does not say which statement gives way.
- **`settings_release`** (line 425, and 432-433). The factories check their ranges with
  `RTC_DCHECK` only. A release build queues a pre-gain of 0 (an attenuation) for the
  capture side. `spec.md` says each factory validates its input (gain ≥ 1×, compression
  gain in [0,90] dB).
- **`settings_debug`** (the same lines). With DCHECKs compiled in, that call aborts the
  process, and so does a default `RuntimeSetting` passed to `SetRuntimeSetting`
  (`RTC_NOTREACHED`). `spec.md` says the core never aborts on malformed input.
- **`builder_shared`** (line 742). `SetEchoDetector` takes a `scoped_refptr`. TLC's trace:
  `SetEchoDetector(d)`, `Create()` (d moves into instance 1), `SetEchoDetector(d)` on the
  reused builder. Now d is held by instance 1 and by the builder, and the next `Create`
  gives it to a second instance. `spec.md` says submodule instances are exclusively owned
  and never shared. `OwnershipSound` and `NoUnrequestedSharing` show the sharing itself is
  safe and only ever what the client asked for: the detector is destroyed only with its
  last holder.

## What is proved (TLAPS)

The theorems hold for every value of the constants that satisfies the modules' `ASSUME`s.
For `AudioProcessing` those assumptions say:

- the level bounds are natural pairs with min ≤ max ≤ 65535;
- `<<0,255>>` is among them;
- stream choices are `StreamConfig` records;
- the inputs are integers;
- `NotAllocated` is no stored geometry.

For `AecDumpAttachment`, that `NoDump` is not a dump and the queue bound is positive.
For `AudioProcessingBuilder`, that `NoObject` is not an object and the instance and
hand-over bounds are natural numbers. For `RuntimeSetting`, that the factory arguments are integers and
`DChecksOn` is a Boolean, so both builds are covered.

In `AudioProcessingProofs`:

- **`TypeCorrect`**: `Spec => []TypeOK`. `TypeOK` is inductive on its own, and the proof
  has one step per action.
  - Lemma `InitializeStagesType` states that reinitialisation keeps each stage's stored
    geometry a map from the streams it reads to `StreamConfig`s.
  - `ApplySettingsType`, `ClampInt` and the `SequenceTheorems` facts on `Append`
    carry the other variables.
- **`NoStaleGeometry`**: `Spec => []ReconfigurationConsistent`, inductive given `TypeOK`.
  - Lemma `InitializeStagesCurrent`: a stage reinitialised with a format is current for it.
  - Lemma `CurrentUnderEq`: a stage current for a format is current for every format
    `operator==` calls equal. This covers a frame that changes nothing.
  - Lemma `FrameReconcile` handles capture and render frames; lemma `ValidForFloat` says an
    int16-valid format is float-valid.
  - `ApplyConfig` leaves a stage that stays enabled untouched (`InitializeStagesKeeps`),
    and that stage was current.
- **`FreshStreamParams`**: `Spec => StreamParamsFreshPerFrame`, an action property.
  `SettersRecorded` is not the property but the invariant it rests on: between frames, a
  set per-frame flag was set by its setter since the last frame. It needs the
  `~capturing` guard, because a started frame empties `frame_setters` before
  `CaptureEnd` clears the flags. Lemma `FrameStartChecked`: only a `CaptureBegin` that
  passed the `StreamParamsMissing` check starts a frame.

In `AecDumpAttachmentProofs`:

- **`DumpNeverUsedAfterDestroy`**: `Spec => []NoWriteAfterDestroy`. The strengthening
  `IInv` says:
  - only the attached dump and the dump being destroyed have tasks;
  - neither is destroyed, and they differ;
  - the API thread is idle exactly when it holds no dump;
  - a sync task exists only while the destructor waits, and no task of its dump stands
    behind it (`SyncIsLast`).

  The last point is what makes the FIFO order matter: when the sync task runs, no task
  of the dump remains. A dump handed over once is never attached again, so a destroyed
  dump never gets new tasks. TLC checked `IInv` as an invariant before the proof.

In `AudioProcessingBuilderProofs`:

- **`ComponentOwnership`**: `Spec => []OwnershipSound`. A holder is a pair
  `<<place, component>>`, where place 0 is the builder and every other place is a live
  instance. The strengthening `IInv` says:
  - `HeldAlive`: every object a holder refers to was handed over and not destroyed;
  - `UniqueHeldOnce`: two holders that refer to the same object are the same holder,
    unless the component is the shared echo detector.

  `OwnershipSound` does not carry itself. The reason is that `Release` decides whether to
  destroy an object by looking only at the other holders, so a second holder of a
  `unique_ptr` object would let its object be destroyed under it. There is one lemma per
  action:
  - `SetComponentIInv`: the new object is not released, and neither is any object another
    holder refers to.
  - `CreateIInv`: each holder after the step is a holder before it, moved from the
    builder to the new instance.
  - `DeleteInstanceIInv`: a released `unique_ptr` object belonged to the deleted instance
    alone. A released detector was in no other holder's slot.

- **`SharingOnlyOnRequest`**: `Spec => []NoUnrequestedSharing`. The strengthening is
  `SInv == IInv /\ Counted`, where `Counted` adds that `given` maps objects to naturals.
  `IInv` brings `TypeOK`, from which every holder set is finite (lemma
  `HoldersOfFinite`), so the cardinalities can be compared. One lemma per action:
  - `SetComponentCounted`: the object's holders grow by at most the one new slot while
    `given` grows by one; every other object loses holders or keeps them.
  - `CreateCounted`: the holders after the step are the images of the holders before it
    under the move from the builder to the new instance (lemma `MovedHolders`, from
    `FS_Surjection`), so no object gains a holder. This is exactly what a copying
    `Create` breaks.
  - `DeleteInstanceCounted`: the holders after the step are a subset of those before it.

In `RuntimeSettingProofs`:

- **`ValuesReadAsWritten`**: `Spec => []SettingValuesPreserved`. The strengthening `IInv`
  says:
  - every setting waiting in either queue is `WellFormed`: its payload is its argument,
    stored in the `int` member exactly when its kind is `kPlayoutVolumeChange`;
  - the render queue holds only the custom render kind.

  Lemma `FactoriesWellFormed` shows that every factory returns a well-formed setting.
  `ReadsPreserve` shows that reading a well-formed setting the way its drain does gives
  back the argument. `AppendReads` carries the log across a drain. The proof holds in
  debug and release builds alike.

Only model-checked:

- `DetachCompletes` is liveness under fairness. Liveness and `ENABLED` are out of the
  provers' reach here, so TLC checks it.
- `FactoriesValidate` and `SubmodulesExclusivelyOwned` are violated by the code, so
  there is nothing to prove. `RecommendedWithinBounds` is violated too.
- The capture parameters of `RuntimeSetting` are folded with `FoldLeft`. `FoldLeft` is
  defined through `MapThenFoldSet`, a function by recursion on `SUBSET S`, whose equation
  would need well-founded recursion with an operator parameter. No property of a passing
  run reads those parameters, so nothing is lost.

## Not modelled, and why

- **`AudioGenerator` attach/detach.** Replacing it destroys the old generator with no
  background work, and no property tells it apart from an assignment.
- **Statistics, the legacy `webrtc::Config` options, `set_stream_key_pressed`,
  `set_output_will_be_muted`, `AnalyzeReverseStream`, and the DSP itself.** These are data
  or read-only, and no property tells them apart.
- **Integer overflow in `calculate_frames` and `num_samples`.** These need rates above
  2^31/10 or channel counts near 2^32, which no stream choice contains.
- **What a dropped setting means to its caller.** `SetRuntimeSetting` returns `void`,
  and the header says nothing on overflow.

## Plan for the next sittings

1. `AnalyzeReverseStream` and its data-length check against `calculate_frames`.
2. Composition: the capture and render locks as explicit state, so that the AecDump swap
   and the reinitialisation of `AudioProcessing` share one model.
