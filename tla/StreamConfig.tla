---------------------------- MODULE StreamConfig ----------------------------
(***************************************************************************)
(* Stream geometry of the audio processing module: webrtc::StreamConfig    *)
(* and webrtc::ProcessingConfig (audio_processing.h), the constants they   *)
(* derive from, and the validity rules the header states for the int16     *)
(* and the float entry points.  Pure operators; no state.                  *)
(***************************************************************************)
EXTENDS Integers

CONSTANT
  SizeTModulus   \* 2^(width of size_t); a smaller power of two for TLC

ASSUME SizeTModulusAssumption == SizeTModulus \in Nat \ {0}

\* AudioProcessing::kChunkSizeMs
kChunkSizeMs == 10

\* AudioProcessing::NativeRate / kNativeSampleRatesHz
kNativeSampleRatesHz == {8000, 16000, 32000, 48000}

\* C++ integer division truncates toward zero; \div floors.
TruncDiv(a, b) == IF a >= 0 THEN a \div b ELSE -((-a) \div b)

\* static_cast<size_t>(x): reduction modulo 2^width.
ToSizeT(x) == x % SizeTModulus

\* StreamConfig::calculate_frames
calculate_frames(sample_rate_hz) ==
  ToSizeT(TruncDiv(kChunkSizeMs * sample_rate_hz, 1000))

\* StreamConfig(sample_rate_hz, num_channels, has_keyboard)
MkStreamConfig(sample_rate_hz, num_channels, has_keyboard) ==
  [sample_rate_hz |-> sample_rate_hz,
   num_channels   |-> num_channels,
   has_keyboard   |-> has_keyboard,
   num_frames     |-> calculate_frames(sample_rate_hz)]

\* The values of a StreamConfig.
StreamConfigs ==
  [sample_rate_hz : Int, num_channels : Int, has_keyboard : BOOLEAN, num_frames : Int]

\* The setters: only the sample-rate setter recomputes num_frames.
set_sample_rate_hz(sc, value) ==
  [sc EXCEPT !.sample_rate_hz = value, !.num_frames = calculate_frames(value)]
set_num_channels(sc, value) == [sc EXCEPT !.num_channels = value]
set_has_keyboard(sc, value) == [sc EXCEPT !.has_keyboard = value]

num_samples(sc) == ToSizeT(sc.num_channels * sc.num_frames)

\* StreamConfig::operator== compares the three set fields, not num_frames.
StreamConfigEq(a, b) ==
  /\ a.sample_rate_hz = b.sample_rate_hz
  /\ a.num_channels = b.num_channels
  /\ a.has_keyboard = b.has_keyboard

\* ProcessingConfig::StreamName, without the kNumStreamNames sentinel.
StreamNames ==
  {"kInputStream", "kOutputStream", "kReverseInputStream", "kReverseOutputStream"}

\* ProcessingConfig::operator==: element-wise over the four streams.
ProcessingConfigEq(p, q) == \A s \in StreamNames : StreamConfigEq(p[s], q[s])

\* A ProcessingConfig built from its four streams.
MkProcessingConfig(in, out, rin, rout) ==
  [kInputStream |-> in, kOutputStream |-> out,
   kReverseInputStream |-> rin, kReverseOutputStream |-> rout]

\* The two families of entry points.
Interfaces == {"int16", "float"}

\* Rate rules: any non-negative rate on the float interfaces; on the int16
\* interfaces native rates only, and input, output and reverse rates equal.
RatesOk(pc, iface) ==
  /\ \A s \in StreamNames : pc[s].sample_rate_hz >= 0
  /\ iface = "int16" =>
       \A s \in {"kInputStream", "kOutputStream", "kReverseInputStream"} :
         /\ pc[s].sample_rate_hz \in kNativeSampleRatesHz
         /\ pc[s].sample_rate_hz = pc["kInputStream"].sample_rate_hz

\* Channel rules: the output has one channel or as many as the input; on the
\* int16 interfaces the output stream equals the input stream.
ChannelsOk(pc, iface) ==
  /\ \A s \in StreamNames : pc[s].num_channels >= 0
  /\ pc["kOutputStream"].num_channels \in {1, pc["kInputStream"].num_channels}
  /\ iface = "int16" => StreamConfigEq(pc["kOutputStream"], pc["kInputStream"])

ValidProcessingConfig(pc, iface) == RatesOk(pc, iface) /\ ChannelsOk(pc, iface)
=============================================================================
