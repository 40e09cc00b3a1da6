---------------------- MODULE AecDumpAttachmentProofs ----------------------
(***************************************************************************)
(* Proof that no logging task of an AecDump runs after the dump's         *)
(* destructor returned (NoWriteAfterDestroy), for every set of dumps and  *)
(* every queue bound.                                                      *)
(***************************************************************************)
EXTENDS AecDumpAttachment, SequenceTheorems, TLAPS

\* The type of each variable.
TypeOK ==
  /\ attached \in Dumps \cup {NoDump}
  /\ worker \in Seq([kind : {"write", "sync"}, dump : Dumps])
  /\ api \in Dumps \cup {NoDump}
  /\ api_phase \in {"idle", "release", "wait"}
  /\ destroyed \subseteq Dumps
  /\ used \subseteq Dumps

\* A sync task at index i is the destructor's, and no task of the dump being
\* destroyed was posted behind it.
SyncIsLast(i) ==
  /\ api_phase = "wait"
  /\ worker[i].dump = api
  /\ \A j \in DOMAIN worker : j > i => worker[j].dump # api

\* The inductive strengthening of NoWriteAfterDestroy: only the attached
\* dump and the dump whose destructor runs have tasks, neither has been
\* destroyed, they differ, and the destructor's sync task is behind every
\* task of its dump.  A dump handed over once is never attached again.
IInv ==
  /\ TypeOK
  /\ (api_phase = "idle") = (api = NoDump)
  /\ destroyed \subseteq used
  /\ attached # NoDump => attached \in used \ destroyed
  /\ api # NoDump => api \in used \ destroyed /\ api # attached
  /\ \A i \in DOMAIN worker :
       /\ worker[i].dump \in {attached, api}
       /\ worker[i].kind = "sync" => SyncIsLast(i)

USE AecDumpAssumption

\* The initial state satisfies the strengthening.
LEMMA InitIInv == Init => IInv
  BY DEF Init, IInv, TypeOK

\* Every step preserves the strengthening.
LEMMA NextIInv == IInv /\ [Next]_vars => IInv'
<1> SUFFICES ASSUME IInv, [Next]_vars PROVE IInv'
  OBVIOUS
<1> USE DEF IInv, TypeOK, SyncIsLast, Task
<1>1. ASSUME NEW d \in Dumps \cup {NoDump}, Swap(d) PROVE IInv'
  <2>1. api = NoDump /\ \A i \in DOMAIN worker : worker[i].kind # "sync"
    BY <1>1 DEF Swap
  <2>2. d # NoDump => d \notin used
    BY <1>1 DEF Swap
  <2>3. \A i \in DOMAIN worker : worker[i].dump = attached
    <3>1. \A i \in DOMAIN worker : worker[i].dump \in Dumps
      <4>1. \A i \in 1..Len(worker) : worker[i] \in [kind : {"write", "sync"}, dump : Dumps]
        BY ElementOfSeq
      <4>2. QED
        BY <4>1
    <3>2. QED
      BY <2>1, <3>1
  <2>4. /\ attached' = d /\ api' = attached /\ destroyed' = destroyed
        /\ used' = used \cup ({d} \ {NoDump})
        /\ api_phase' = IF attached = NoDump THEN "idle" ELSE "release"
    BY <1>1 DEF Swap
  <2>5. CASE d = NoDump
    <3>1. worker' = worker
      BY <1>1, <2>5 DEF Swap
    <3>2. QED
      BY <2>1, <2>3, <2>4, <2>5, <3>1
  <2>6. CASE d # NoDump
    <3>1. worker' = Append(worker, Task("write", d)) /\ d \notin used
      BY <1>1, <2>2, <2>6 DEF Swap
    <3>2. \A i \in DOMAIN worker' : worker'[i].dump \in {attached, d}
                                    /\ worker'[i].kind # "sync"
      BY <2>1, <2>3, <3>1
    <3>3. QED
      BY <2>4, <2>6, <3>1, <3>2
  <2>7. QED
    BY <2>5, <2>6
<1>2. CASE ReleaseOld
  <2>1. \A i \in DOMAIN worker : worker[i].kind # "sync"
    BY <1>2 DEF ReleaseOld
  <2>2. api # NoDump
    BY <1>2 DEF ReleaseOld
  <2>3. QED
    BY <1>2, <2>1, <2>2 DEF ReleaseOld
<1>3. CASE CaptureFrame
  BY <1>3 DEF CaptureFrame
<1>4. CASE WorkerRun
  <2>1. worker # <<>> /\ worker' = Tail(worker)
    BY <1>4 DEF WorkerRun
  <2>2. \A i \in DOMAIN worker' : worker'[i] = worker[i + 1]
    BY <2>1
  <2>3. CASE Head(worker).kind = "sync"
    <3>1. SyncIsLast(1)
      BY <2>1, <2>3
    <3>2. \A i \in DOMAIN worker' : worker'[i].dump = attached
      BY <2>1, <2>2, <3>1
    <3>3. destroyed' = destroyed \cup {api} /\ api' = NoDump /\ api_phase' = "idle"
          /\ UNCHANGED <<attached, used>>
      BY <1>4, <2>3 DEF WorkerRun
    <3>4. api # NoDump /\ api # attached
      BY <3>1
    <3>5. \A i \in DOMAIN worker' : worker'[i].kind # "sync"
      BY <2>1, <2>2, <3>1, <3>4
    <3>6. QED
      BY <2>1, <3>2, <3>3, <3>4, <3>5
  <2>4. CASE Head(worker).kind # "sync"
    <3>1. UNCHANGED <<destroyed, api, api_phase, attached, used>>
      BY <1>4, <2>4 DEF WorkerRun
    <3>2. QED
      BY <2>1, <2>2, <3>1
  <2>5. QED
    BY <2>3, <2>4
<1>5. CASE UNCHANGED vars
  BY <1>5 DEF vars
<1>6. QED
  BY <1>1, <1>2, <1>3, <1>4, <1>5 DEF Next

\* No logging task of a dump runs, and no dump stays attached, after its
\* destructor returned (AttachAecDump / DetachAecDump with the blocking
\* AecDump destructor), for every number of dumps and every queue bound.
THEOREM DumpNeverUsedAfterDestroy == Spec => []NoWriteAfterDestroy
<1>1. IInv => NoWriteAfterDestroy
  BY DEF IInv, TypeOK, NoWriteAfterDestroy
<1>2. QED
  BY InitIInv, NextIInv, <1>1, PTL DEF Spec
=============================================================================
