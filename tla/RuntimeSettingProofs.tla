------------------------- MODULE RuntimeSettingProofs -------------------------
(***************************************************************************)
(* Proof that every runtime-setting value a drain reads through GetFloat   *)
(* or GetInt is the value its producer passed to the factory, read through *)
(* the union member the factory's constructor wrote (SettingValuesPreserved)*)
(* for every set of arguments, build type and bound on calls.              *)
(***************************************************************************)
EXTENDS RuntimeSetting, SequenceTheorems, TLAPS

\* A read: the argument passed to the factory, and what the getter obtained.
ReadRecord == Int \X [value : Int, reinterpreted : BOOLEAN]

\* A setting as it waits in a queue.
Queued == [type : Types, member : Members, value : Int, arg : Int]

\* The type of the variables the property is about.
TypeOK ==
  /\ capture_queue \in Seq(Queued)
  /\ render_queue \in Seq(Queued)
  /\ reads \in Seq(ReadRecord)

\* A setting whose payload is its argument, stored in the int member exactly
\* when its kind is the one the capture side reads with GetInt.
WellFormed(s) ==
  /\ s.value = s.arg
  /\ s.member = "int" <=> s.type = "kPlayoutVolumeChange"

\* The strengthening of SettingValuesPreserved: what waits in either queue
\* is well formed, and the render queue holds only the custom render kind.
IInv ==
  /\ TypeOK
  /\ \A i \in DOMAIN capture_queue : WellFormed(capture_queue[i])
  /\ \A i \in DOMAIN render_queue :
       /\ WellFormed(render_queue[i])
       /\ render_queue[i].type = "kCustomRenderProcessingRuntimeSetting"
  /\ SettingValuesPreserved

USE RuntimeSettingAssumption

-----------------------------------------------------------------------------
(* Lemmas *)

\* Every factory, whatever its argument, returns a well-formed setting.
LEMMA FactoriesWellFormed ==
  /\ DefaultSetting.setting \in Queued /\ WellFormed(DefaultSetting.setting)
  /\ \A g \in FloatArgs :
       /\ CreateCapturePreGain(g).setting \in Queued
       /\ WellFormed(CreateCapturePreGain(g).setting)
       /\ CreateCaptureFixedPostGain(g).setting \in Queued
       /\ WellFormed(CreateCaptureFixedPostGain(g).setting)
       /\ CreateCustomRenderSetting(g).setting \in Queued
       /\ WellFormed(CreateCustomRenderSetting(g).setting)
  /\ \A g \in IntArgs :
       /\ CreateCompressionGainDb(g).setting \in Queued
       /\ WellFormed(CreateCompressionGainDb(g).setting)
       /\ CreatePlayoutVolumeChange(g).setting \in Queued
       /\ WellFormed(CreatePlayoutVolumeChange(g).setting)
  BY DEF DefaultSetting, CreateCapturePreGain, CreateCaptureFixedPostGain,
         CreateCustomRenderSetting, CreateCompressionGainDb,
         CreatePlayoutVolumeChange, FactoryResult, MkSetting, Queued, Types,
         Members, WellFormed

\* A well-formed setting read the way its drain reads it gives back its
\* argument, through the member that was written.
LEMMA ReadsPreserve ==
  ASSUME NEW s \in Queued, WellFormed(s)
  PROVE  /\ <<s.arg, CaptureRead(s)>> \in ReadRecord
         /\ ~CaptureRead(s).reinterpreted /\ CaptureRead(s).value = s.arg
         /\ s.type = "kCustomRenderProcessingRuntimeSetting" =>
              /\ <<s.arg, GetFloat(s)>> \in ReadRecord
              /\ ~GetFloat(s).reinterpreted /\ GetFloat(s).value = s.arg
  BY DEF Queued, WellFormed, CaptureRead, GetFloat, GetInt, Obtained, ReadRecord,
         Members

\* A read that gives back, unreinterpreted, the argument passed to the factory.
Faithful(rd) == ~rd[2].reinterpreted /\ rd[2].value = rd[1]

\* Appending the reads of a drained queue to the log keeps every read in it
\* faithful when each new read is.
LEMMA AppendReads ==
  ASSUME NEW r \in Seq(ReadRecord), NEW f \in Seq(ReadRecord),
         \A i \in DOMAIN f : Faithful(f[i]),
         \A i \in DOMAIN r : Faithful(r[i])
  PROVE  /\ r \o f \in Seq(ReadRecord)
         /\ \A i \in DOMAIN (r \o f) : Faithful((r \o f)[i])
<1>1. /\ r \o f \in Seq(ReadRecord) /\ Len(r \o f) = Len(r) + Len(f)
      /\ \A i \in 1..(Len(r) + Len(f)) :
           (r \o f)[i] = IF i <= Len(r) THEN r[i] ELSE f[i - Len(r)]
  BY ConcatProperties
<1>2. QED
  BY <1>1

-----------------------------------------------------------------------------
(* The invariant *)

\* SetRuntimeSetting with a well-formed setting queues it on the side that
\* reads it the right way, or aborts, or drops it.
LEMMA SetRuntimeSettingIInv ==
  ASSUME IInv, NEW r, r.setting \in Queued, WellFormed(r.setting),
         SetRuntimeSetting(r)
  PROVE  IInv'
<1> DEFINE s == r.setting
<1> USE DEF IInv, TypeOK
<1>1. UNCHANGED reads
  BY DEF SetRuntimeSetting
<1>2. CASE DChecksOn /\ (~r.check \/ s.type = "kNotSpecified")
  <2>1. UNCHANGED <<capture_queue, render_queue>>
    BY <1>2 DEF SetRuntimeSetting
  <2>2. QED
    BY <1>1, <2>1 DEF SettingValuesPreserved
<1>3. CASE ~(DChecksOn /\ (~r.check \/ s.type = "kNotSpecified"))
  <2>1. /\ capture_queue' = IF s.type \in CaptureTypes
                              THEN Append(capture_queue, s) ELSE capture_queue
        /\ render_queue' = IF s.type = "kCustomRenderProcessingRuntimeSetting"
                             THEN Append(render_queue, s) ELSE render_queue
    BY <1>3 DEF SetRuntimeSetting
  <2>2. /\ capture_queue' \in Seq(Queued)
        /\ \A i \in DOMAIN capture_queue' : WellFormed(capture_queue'[i])
    BY <2>1, AppendProperties
  <2>3. /\ render_queue' \in Seq(Queued)
        /\ \A i \in DOMAIN render_queue' :
             /\ WellFormed(render_queue'[i])
             /\ render_queue'[i].type = "kCustomRenderProcessingRuntimeSetting"
    BY <2>1, AppendProperties
  <2>4. QED
    BY <1>1, <2>2, <2>3 DEF SettingValuesPreserved
<1>4. QED
  BY <1>2, <1>3

\* The capture drain appends one faithful read per drained setting.
LEMMA DrainCaptureIInv ==
  ASSUME IInv, DrainCapture
  PROVE  IInv'
<1> DEFINE q == capture_queue
           f == [i \in 1..Len(q) |-> <<q[i].arg, CaptureRead(q[i])>>]
<1> USE DEF IInv, TypeOK
<1>1. reads' = reads \o f /\ capture_queue' = <<>> /\ UNCHANGED render_queue
  BY DEF DrainCapture
<1>2. \A i \in 1..Len(q) : q[i] \in Queued /\ WellFormed(q[i])
  OBVIOUS
<1>3. f \in Seq(ReadRecord) /\ \A i \in DOMAIN f : Faithful(f[i])
  <2>1. ASSUME NEW i \in 1..Len(q)
        PROVE  <<q[i].arg, CaptureRead(q[i])>> \in ReadRecord
               /\ Faithful(<<q[i].arg, CaptureRead(q[i])>>)
    <3>1. q[i] \in Queued /\ WellFormed(q[i])
      BY <1>2
    <3>2. QED
      BY <3>1, ReadsPreserve DEF Faithful
  <2>2. Len(q) \in Nat
    OBVIOUS
  <2>3. QED
    BY <2>1, <2>2
<1>4. /\ reads \o f \in Seq(ReadRecord)
      /\ \A i \in DOMAIN (reads \o f) : Faithful((reads \o f)[i])
  BY <1>3, AppendReads DEF SettingValuesPreserved, Faithful
<1>5. SettingValuesPreserved'
  BY <1>1, <1>4 DEF SettingValuesPreserved, Faithful
<1>6. /\ capture_queue' \in Seq(Queued) /\ render_queue' \in Seq(Queued)
      /\ reads' \in Seq(ReadRecord)
  BY <1>1, <1>4
<1>7. /\ \A i \in DOMAIN capture_queue' : WellFormed(capture_queue'[i])
      /\ \A i \in DOMAIN render_queue' :
           /\ WellFormed(render_queue'[i])
           /\ render_queue'[i].type = "kCustomRenderProcessingRuntimeSetting"
  BY <1>1
<1>8. QED
  BY <1>5, <1>6, <1>7

\* The render drain appends one faithful read per drained setting.
LEMMA DrainRenderIInv ==
  ASSUME IInv, DrainRender
  PROVE  IInv'
<1> DEFINE q == render_queue
           f == [i \in 1..Len(q) |-> <<q[i].arg, GetFloat(q[i])>>]
<1> USE DEF IInv, TypeOK
<1>1. reads' = reads \o f /\ render_queue' = <<>> /\ UNCHANGED capture_queue
  BY DEF DrainRender
<1>2. \A i \in 1..Len(q) : /\ q[i] \in Queued /\ WellFormed(q[i])
                           /\ q[i].type = "kCustomRenderProcessingRuntimeSetting"
  OBVIOUS
<1>3. f \in Seq(ReadRecord) /\ \A i \in DOMAIN f : Faithful(f[i])
  <2>1. ASSUME NEW i \in 1..Len(q)
        PROVE  <<q[i].arg, GetFloat(q[i])>> \in ReadRecord
               /\ Faithful(<<q[i].arg, GetFloat(q[i])>>)
    <3>1. q[i] \in Queued /\ WellFormed(q[i])
                  /\ q[i].type = "kCustomRenderProcessingRuntimeSetting"
      BY <1>2
    <3>2. QED
      BY <3>1, ReadsPreserve DEF Faithful
  <2>2. Len(q) \in Nat
    OBVIOUS
  <2>3. QED
    BY <2>1, <2>2
<1>4. /\ reads \o f \in Seq(ReadRecord)
      /\ \A i \in DOMAIN (reads \o f) : Faithful((reads \o f)[i])
  BY <1>3, AppendReads DEF SettingValuesPreserved, Faithful
<1>5. SettingValuesPreserved'
  BY <1>1, <1>4 DEF SettingValuesPreserved, Faithful
<1>6. /\ capture_queue' \in Seq(Queued) /\ render_queue' \in Seq(Queued)
      /\ reads' \in Seq(ReadRecord)
  BY <1>1, <1>4
<1>7. /\ \A i \in DOMAIN capture_queue' : WellFormed(capture_queue'[i])
      /\ \A i \in DOMAIN render_queue' :
           /\ WellFormed(render_queue'[i])
           /\ render_queue'[i].type = "kCustomRenderProcessingRuntimeSetting"
  BY <1>1
<1>8. QED
  BY <1>5, <1>6, <1>7

\* Every step preserves the strengthening.
LEMMA NextIInv == IInv /\ [Next]_vars => IInv'
<1> SUFFICES ASSUME IInv, [Next]_vars PROVE IInv'
  OBVIOUS
<1>1. ASSUME NEW r, r.setting \in Queued, WellFormed(r.setting), SetRuntimeSetting(r)
      PROVE  IInv'
  BY <1>1, SetRuntimeSettingIInv
<1>2. CASE UNCHANGED vars
  BY <1>2 DEF vars, IInv, TypeOK, SettingValuesPreserved
<1>3. QED
  BY <1>1, <1>2, FactoriesWellFormed, DrainCaptureIInv, DrainRenderIInv DEF Next

\* Every value a drain reads from a runtime setting through GetFloat or
\* GetInt is the argument its producer passed to the factory, read through
\* the union member the constructor wrote (RuntimeSetting's union U and
\* the routing of SetRuntimeSetting), in debug and release builds, for
\* every set of arguments and every number of calls.
THEOREM ValuesReadAsWritten == Spec => []SettingValuesPreserved
<1>1. Init => IInv
  BY DEF Init, IInv, TypeOK, SettingValuesPreserved
<1>2. IInv => SettingValuesPreserved
  BY DEF IInv
<1>3. QED
  BY <1>1, <1>2, NextIInv, PTL DEF Spec
=============================================================================
