------------------------ MODULE AudioProcessingBuilder ------------------------
(***************************************************************************)
(* webrtc::AudioProcessingBuilder (audio_processing.h): the setters take   *)
(* ownership of the injected components, Create hands them to a new        *)
(* AudioProcessing instance and resets the builder to its initial state.   *)
(* Four components are held by std::unique_ptr, the echo detector by       *)
(* rtc::scoped_refptr, so a client may inject the same detector into       *)
(* several builders or instances.  Deleting an instance releases its       *)
(* components: a unique_ptr destroys its object, a scoped_refptr destroys  *)
(* it when the last reference goes.                                        *)
(***************************************************************************)
EXTENDS Integers, Sequences, FiniteSets

CONSTANTS
  Objects,        \* component objects a client may construct
  NoObject,       \* an empty unique_ptr/scoped_refptr (model value)
  MaxInstances,   \* bound on Create calls (model bound)
  MaxHandoffs     \* bound on setter calls passing one object (model bound)

ASSUME BuilderAssumption ==
  /\ NoObject \notin Objects
  /\ MaxInstances \in Nat
  /\ MaxHandoffs \in Nat

\* The builder's members, in declaration order.
Components ==
  {"echo_control_factory", "capture_post_processing", "render_pre_processing",
   "echo_detector", "capture_analyzer"}

\* The component held by rtc::scoped_refptr; the others are std::unique_ptr.
SharedComponents == {"echo_detector"}

\* AudioProcessingBuilder(): every member empty.
EmptySlots == [c \in Components |-> NoObject]

Instances == 1..MaxInstances

VARIABLES
  builder,     \* component -> object the builder holds
  apm,         \* instance -> component -> object it owns (created instances)
  live,        \* instances created and not deleted
  handed,      \* objects a client has passed to a setter
  destroyed,   \* objects whose destructor has run
  given        \* object -> setter calls that passed it (history variable)

vars == <<builder, apm, live, handed, destroyed, given>>

\* The object a holder <<place, component>> refers to; the place is the
\* builder (place 0) or a live instance.
Slot(h) == IF h[1] = 0 THEN builder[h[2]] ELSE apm[h[1]][h[2]]

\* The holders of an object: builder slots and components of live instances.
Holders(o) == {h \in ({0} \cup live) \X Components : Slot(h) = o}

Init ==
  /\ builder = EmptySlots
  /\ apm = <<>>
  /\ live = {}
  /\ handed = {}
  /\ destroyed = {}
  /\ given = [o \in Objects |-> 0]

\* Destroy `old` when the reference being dropped was its last one; `rest`
\* are the holders that remain.
Release(old, rest) == IF old # NoObject /\ old \notin rest THEN {old} ELSE {}

\* Mutation: the object a slot held is destroyed whatever its kind, as if the
\* scoped_refptr were a unique_ptr.
SetReleaseAlways(c, o) == Release(builder[c], {o})

\* The reference count drop of SetComponent: a shared object is destroyed
\* only when no other holder is left.
SetRelease(c, o) ==
  LET others == {builder[d] : d \in Components \ {c}}
                  \cup {apm[i][d] : i \in live, d \in Components} \cup {o}
  IN Release(builder[c], IF c \in SharedComponents THEN others ELSE {})

\* Set...(std::unique_ptr<T>): a freshly constructed object (or nullptr) is moved in;
\* the object the slot held before is destroyed.  SetEchoDetector takes a
\* scoped_refptr: a detector already handed out may be passed again, and the
\* previous one is destroyed only if nobody else holds it.
SetComponent(c, o) ==
  /\ o \notin destroyed
  /\ o \notin handed \/ (c \in SharedComponents /\ \A h \in Holders(o) : h[2] = c)
  /\ o # NoObject => given[o] < MaxHandoffs
  /\ builder' = [builder EXCEPT ![c] = o]
  /\ handed' = handed \cup ({o} \ {NoObject})
  /\ destroyed' = destroyed \cup SetRelease(c, o)
  /\ given' = IF o = NoObject THEN given ELSE [given EXCEPT ![o] = @ + 1]
  /\ UNCHANGED <<apm, live>>

\* Mutation: Create copies the scoped_refptr echo detector instead of moving
\* it, so the builder keeps a reference.
CreateCopiesDetector ==
  /\ Len(apm) < MaxInstances
  /\ apm' = Append(apm, builder)
  /\ live' = live \cup {Len(apm) + 1}
  /\ builder' = [EmptySlots EXCEPT !["echo_detector"] = builder["echo_detector"]]
  /\ UNCHANGED <<handed, destroyed, given>>

\* Create() / Create(const webrtc::Config&): the new instance takes every
\* component; the builder returns to its initial state.
Create ==
  /\ Len(apm) < MaxInstances
  /\ apm' = Append(apm, builder)
  /\ live' = live \cup {Len(apm) + 1}
  /\ builder' = EmptySlots
  /\ UNCHANGED <<handed, destroyed, given>>

\* Mutation: deleting an instance destroys the echo detector as if it were
\* uniquely owned.
DeleteInstanceAllUnique(i) ==
  /\ i \in live
  /\ live' = live \ {i}
  /\ destroyed' = destroyed \cup {apm[i][c] : c \in {c \in Components : apm[i][c] # NoObject}}
  /\ UNCHANGED <<builder, apm, handed, given>>

\* delete apm: the instance's unique components are destroyed, its echo
\* detector when no other holder is left.
DeleteInstance(i) ==
  /\ i \in live
  /\ live' = live \ {i}
  /\ LET others == {builder[d] : d \in Components}
                     \cup {apm[j][d] : j \in live \ {i}, d \in Components}
     IN destroyed' = destroyed \cup
          UNION {Release(apm[i][c], IF c \in SharedComponents THEN others ELSE {})
                   : c \in Components}
  /\ UNCHANGED <<builder, apm, handed, given>>

Next ==
  \/ \E c \in Components, o \in Objects \cup {NoObject} : SetComponent(c, o)
  \/ Create
  \/ \E i \in Instances : DeleteInstance(i)

Spec == Init /\ [][Next]_vars
-----------------------------------------------------------------------------
(* Properties *)

\* Ownership of injected components across builder reuse (Set..., Create,
\* delete): a unique_ptr component is held by exactly one place, the
\* builder or a single live instance, and no holder refers to an object
\* that was destroyed -- reusing the builder after Create never gives a
\* second instance a component the first one owns, and a detector shared
\* through scoped_refptr outlives every instance that uses it.
OwnershipSound ==
  \A o \in handed :
    /\ o \in destroyed => Holders(o) = {}
    /\ (\E h \in Holders(o) : h[2] \notin SharedComponents) =>
         Cardinality(Holders(o)) = 1

\* Create moves, never copies (Create, SetEchoDetector, delete): every place
\* that holds a component got it through a setter call that passed it, so
\* an object is held by at most as many places as the client passed it to
\* setters -- an echo detector becomes shared between the builder and an
\* instance, or between two instances, only when the client hands it over
\* again, never because Create left a reference behind.
NoUnrequestedSharing ==
  \A o \in handed : Cardinality(Holders(o)) <= given[o]

\* Submodule instances are exclusively owned by one orchestrator and never
\* shared (spec.md, concurrency model): no injected component is held by
\* two places at once, across SetEchoDetector, Create and builder reuse.
SubmodulesExclusivelyOwned ==
  \A o \in handed : Cardinality(Holders(o)) <= 1
=============================================================================
