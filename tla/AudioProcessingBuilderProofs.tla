-------------------- MODULE AudioProcessingBuilderProofs --------------------
(***************************************************************************)
(* Proof that the ownership of injected components is sound               *)
(* (OwnershipSound) for every set of objects and every number of          *)
(* instances.                                                              *)
(***************************************************************************)
EXTENDS AudioProcessingBuilder, SequenceTheorems, FiniteSetTheorems, TLAPS

\* The type of each variable.  Created instances are numbered from 1, and a
\* deleted instance keeps its number.
TypeOK ==
  /\ builder \in [Components -> Objects \cup {NoObject}]
  /\ apm \in Seq([Components -> Objects \cup {NoObject}])
  /\ live \subseteq 1..Len(apm)
  /\ handed \subseteq Objects
  /\ destroyed \subseteq Objects

\* Every holder: a slot of the builder (place 0) or of a live instance.
HolderSet == ({0} \cup live) \X Components

\* Whatever a holder refers to was handed over and is not destroyed.
HeldAlive ==
  \A h \in HolderSet : Slot(h) # NoObject => Slot(h) \in handed \ destroyed

\* An object in a unique_ptr slot is held by that slot alone.
UniqueHeldOnce ==
  \A h, g \in HolderSet :
    (Slot(h) = Slot(g) /\ Slot(h) # NoObject /\ h[2] \notin SharedComponents) => h = g

\* The inductive strengthening of OwnershipSound.
IInv == TypeOK /\ HeldAlive /\ UniqueHeldOnce

USE BuilderAssumption

\* The place and component of a holder.
LEMMA HolderParts ==
  ASSUME NEW h \in HolderSet
  PROVE  /\ h = <<h[1], h[2]>>
         /\ h[1] \in {0} \cup live /\ h[2] \in Components
  BY DEF HolderSet

LEMMA InitIInv == Init => IInv
  BY DEF Init, IInv, TypeOK, HeldAlive, UniqueHeldOnce, HolderSet, Slot, EmptySlots

\* The holders SetComponent(c, o) checks before destroying a shared object.
SetOthers(c, o) ==
  {builder[d] : d \in Components \ {c}}
    \cup {apm[i][d] : i \in live, d \in Components} \cup {o}
SetRest(c, o) == IF c \in SharedComponents THEN SetOthers(c, o) ELSE {}

\* SetComponent keeps every holder alive and every unique object in one slot.
LEMMA SetComponentIInv ==
  ASSUME IInv, NEW c \in Components, NEW o \in Objects \cup {NoObject},
         SetComponent(c, o)
  PROVE  IInv'
<1> DEFINE old == builder[c]
           rest == SetRest(c, o)
           hc == <<0, c>>
<1> USE DEF IInv, TypeOK
<1>1. /\ builder' = [builder EXCEPT ![c] = o]
      /\ apm' = apm /\ live' = live
      /\ handed' = handed \cup ({o} \ {NoObject})
      /\ destroyed' = destroyed \cup Release(old, rest)
      /\ o \notin destroyed
      /\ o \notin handed \/ (c \in SharedComponents /\ \A h \in Holders(o) : h[2] = c)
  BY DEF SetComponent, SetRelease, SetRest, SetOthers
<1>2. TypeOK'
  BY <1>1 DEF Release
<1>3. HolderSet' = HolderSet /\ hc \in HolderSet
  BY <1>1 DEF HolderSet
<1>4. \A h \in HolderSet : Slot(h)' = IF h = hc THEN o ELSE Slot(h)
  BY <1>1, HolderParts DEF Slot
<1>5. Slot(hc) = old
  BY DEF Slot
<1>6. o # NoObject => o \notin Release(old, rest)
  <2>1. CASE c \in SharedComponents
    BY <2>1 DEF Release, SetRest, SetOthers
  <2>2. CASE c \notin SharedComponents
    <3>1. o \notin handed
      BY <1>1, <2>2
    <3>2. old # NoObject => old \in handed
      BY <1>3, <1>5 DEF HeldAlive
    <3>3. QED
      BY <3>1, <3>2 DEF Release, SetRest
  <2>3. QED
    BY <2>1, <2>2
<1>7. \A h \in HolderSet : h # hc /\ Slot(h) # NoObject => Slot(h) \notin Release(old, rest)
  <2> SUFFICES ASSUME NEW h \in HolderSet, h # hc, Slot(h) # NoObject
               PROVE  Slot(h) \notin Release(old, rest)
    OBVIOUS
  <2>1. CASE c \in SharedComponents
    <3>1. Slot(h) \in SetOthers(c, o)
      BY HolderParts DEF Slot, SetOthers
    <3>2. QED
      BY <2>1, <3>1 DEF Release, SetRest
  <2>2. CASE c \notin SharedComponents
    <3>1. Slot(h) = old => h = hc
      BY <1>3, <1>5, <2>2 DEF UniqueHeldOnce
    <3>2. QED
      BY <3>1 DEF Release
  <2>3. QED
    BY <2>1, <2>2
<1>8. HeldAlive'
  <2> SUFFICES ASSUME NEW h \in HolderSet, Slot(h)' # NoObject
               PROVE  Slot(h)' \in handed' \ destroyed'
    BY <1>3 DEF HeldAlive
  <2>1. CASE h = hc
    <3>1. Slot(h)' = o /\ o # NoObject
      BY <1>4, <2>1
    <3>2. QED
      BY <1>1, <1>6, <3>1
  <2>2. CASE h # hc
    <3>1. Slot(h)' = Slot(h) /\ Slot(h) # NoObject
      BY <1>4, <2>2
    <3>2. Slot(h) \in handed \ destroyed
      BY <3>1 DEF HeldAlive
    <3>3. Slot(h) \notin Release(old, rest)
      BY <1>7, <2>2, <3>1
    <3>4. QED
      BY <1>1, <3>1, <3>2, <3>3
  <2>3. QED
    BY <2>1, <2>2
<1>9. UniqueHeldOnce'
  <2> SUFFICES ASSUME NEW h \in HolderSet, NEW g \in HolderSet,
                      Slot(h)' = Slot(g)', Slot(h)' # NoObject,
                      h[2] \notin SharedComponents
               PROVE  h = g
    BY <1>3 DEF UniqueHeldOnce
  <2>1. CASE h # hc /\ g # hc
    BY <1>4, <2>1 DEF UniqueHeldOnce
  <2>2. CASE h = hc /\ g # hc
    <3>1. Slot(g) = o /\ o # NoObject
      BY <1>4, <2>2
    <3>2. o \in handed
      BY <3>1 DEF HeldAlive
    <3>3. c \notin SharedComponents
      BY <2>2
    <3>4. QED
      BY <1>1, <3>2, <3>3
  <2>3. CASE h # hc /\ g = hc
    <3>1. Slot(h) = o /\ o # NoObject
      BY <1>4, <2>3
    <3>2. o \in handed
      BY <3>1 DEF HeldAlive
    <3>3. h \in Holders(o)
      BY <3>1 DEF Holders, HolderSet
    <3>4. QED
      BY <1>1, <3>2, <3>3
  <2>4. QED
    BY <2>1, <2>2, <2>3
<1>10. QED
  BY <1>2, <1>8, <1>9

\* Create moves the builder's slots into a fresh instance number and empties
\* the builder: every holder after the step is a holder before it.
LEMMA CreateIInv ==
  ASSUME IInv, Create
  PROVE  IInv'
<1> DEFINE n == Len(apm) + 1
           Src(h) == IF h[1] = n THEN <<0, h[2]>> ELSE h
<1> USE DEF IInv, TypeOK
<1>1. /\ apm' = Append(apm, builder) /\ live' = live \cup {n}
      /\ builder' = EmptySlots /\ UNCHANGED <<handed, destroyed>>
  BY DEF Create
<1>2. n \notin live /\ n # 0 /\ 0 \notin live
  OBVIOUS
<1>3. TypeOK'
  <2>1. apm' \in Seq([Components -> Objects \cup {NoObject}]) /\ Len(apm') = n
        /\ apm'[n] = builder
    BY <1>1, AppendProperties
  <2>2. live' \subseteq 1..Len(apm')
    <3>1. Len(apm) \in Nat /\ live \subseteq 1..Len(apm)
      OBVIOUS
    <3>2. \A k \in live \cup {Len(apm) + 1} : k \in 1..(Len(apm) + 1)
      BY <3>1
    <3>3. QED
      BY <1>1, <2>1, <3>2
  <2>3. builder' \in [Components -> Objects \cup {NoObject}]
    BY <1>1 DEF EmptySlots
  <2>4. QED
    BY <1>1, <2>1, <2>2, <2>3
<1>4. \A h \in HolderSet' :
        /\ h[1] = 0 => Slot(h)' = NoObject
        /\ h[1] # 0 => Src(h) \in HolderSet /\ Slot(h)' = Slot(Src(h)) /\ Src(h)[2] = h[2]
  <2> SUFFICES ASSUME NEW h \in HolderSet'
               PROVE  /\ h[1] = 0 => Slot(h)' = NoObject
                      /\ h[1] # 0 => /\ Src(h) \in HolderSet
                                     /\ Slot(h)' = Slot(Src(h))
                                     /\ Src(h)[2] = h[2]
    OBVIOUS
  <2>1. h = <<h[1], h[2]>> /\ h[1] \in {0} \cup live \cup {n} /\ h[2] \in Components
    BY <1>1 DEF HolderSet
  <2>2. CASE h[1] = 0
    BY <1>1, <2>1, <2>2 DEF Slot, EmptySlots
  <2>3. CASE h[1] = n
    <3>1. apm'[n] = builder
      BY <1>1, AppendProperties
    <3>2. <<0, h[2]>> \in HolderSet /\ Src(h) = <<0, h[2]>>
      BY <2>1, <2>3 DEF HolderSet
    <3>3. Slot(h)' = apm'[n][h[2]] /\ Slot(<<0, h[2]>>) = builder[h[2]]
      BY <1>2, <2>3 DEF Slot
    <3>4. QED
      BY <2>3, <3>1, <3>2, <3>3
  <2>4. CASE h[1] \in live
    <3>1. h[1] \in 1..Len(apm)
      BY <2>4
    <3>2. apm'[h[1]] = apm[h[1]]
      BY <1>1, <3>1
    <3>3. QED
      BY <1>2, <2>1, <2>4, <3>2 DEF Slot, HolderSet
  <2>5. QED
    BY <2>1, <2>2, <2>3, <2>4
<1>5. HeldAlive'
  BY <1>1, <1>4 DEF HeldAlive
<1>6. UniqueHeldOnce'
  <2> SUFFICES ASSUME NEW h \in HolderSet', NEW g \in HolderSet',
                      Slot(h)' = Slot(g)', Slot(h)' # NoObject,
                      h[2] \notin SharedComponents
               PROVE  h = g
    BY DEF UniqueHeldOnce
  <2>1. h[1] # 0 /\ g[1] # 0
    BY <1>4
  <2>2. Src(h) = Src(g)
    BY <1>4, <2>1 DEF UniqueHeldOnce
  <2>3. /\ h = <<h[1], h[2]>> /\ h[1] \in live \cup {n}
        /\ g = <<g[1], g[2]>> /\ g[1] \in live \cup {n}
    BY <1>1, <2>1 DEF HolderSet
  <2>4. QED
    BY <1>2, <2>2, <2>3
<1>7. QED
  BY <1>3, <1>5, <1>6

\* The holders DeleteInstance(i) checks before destroying a shared object,
\* and what it destroys.
DeleteOthers(i) ==
  {builder[d] : d \in Components} \cup {apm[j][d] : j \in live \ {i}, d \in Components}
DeleteReleased(i) ==
  UNION {Release(apm[i][c], IF c \in SharedComponents THEN DeleteOthers(i) ELSE {})
           : c \in Components}

\* Deleting an instance destroys only what no remaining holder refers to.
LEMMA DeleteInstanceIInv ==
  ASSUME IInv, NEW i \in Instances, DeleteInstance(i)
  PROVE  IInv'
<1> USE DEF IInv, TypeOK
<1>1. /\ i \in live /\ live' = live \ {i}
      /\ destroyed' = destroyed \cup DeleteReleased(i)
      /\ UNCHANGED <<builder, apm, handed>>
  BY DEF DeleteInstance, DeleteReleased, DeleteOthers
<1>2. TypeOK'
  BY <1>1 DEF DeleteReleased, Release
<1>3. HolderSet' \subseteq HolderSet /\ \A h \in HolderSet' : h[1] # i
  BY <1>1 DEF HolderSet
<1>4. \A h \in HolderSet' : Slot(h)' = Slot(h)
  BY <1>1 DEF Slot
<1>5. ASSUME NEW h \in HolderSet', Slot(h) # NoObject
      PROVE  Slot(h) \notin DeleteReleased(i)
  <2> SUFFICES ASSUME NEW c \in Components,
                      Slot(h) \in Release(apm[i][c], IF c \in SharedComponents
                                                       THEN DeleteOthers(i) ELSE {})
               PROVE  FALSE
    BY DEF DeleteReleased
  <2>1. Slot(h) = apm[i][c] /\ apm[i][c] # NoObject
    BY DEF Release
  <2>2. h = <<h[1], h[2]>> /\ h[1] \in {0} \cup (live \ {i}) /\ h[2] \in Components
    BY <1>1 DEF HolderSet
  <2>3. CASE c \in SharedComponents
    <3>1. Slot(h) \in DeleteOthers(i)
      BY <2>2 DEF Slot, DeleteOthers
    <3>2. QED
      BY <2>3, <3>1 DEF Release
  <2>4. CASE c \notin SharedComponents
    <3>1. <<i, c>> \in HolderSet /\ h \in HolderSet
      BY <1>1, <1>3 DEF HolderSet
    <3>2. Slot(<<i, c>>) = apm[i][c]
      BY <1>1 DEF Slot
    <3>3. <<i, c>> = h
      BY <2>1, <2>4, <3>1, <3>2 DEF UniqueHeldOnce
    <3>4. QED
      BY <1>3, <3>3
  <2>5. QED
    BY <2>3, <2>4
<1>6. HeldAlive'
  BY <1>1, <1>3, <1>4, <1>5 DEF HeldAlive
<1>7. UniqueHeldOnce'
  BY <1>3, <1>4 DEF UniqueHeldOnce
<1>8. QED
  BY <1>2, <1>6, <1>7

\* Every step preserves the strengthening.
LEMMA NextIInv == IInv /\ [Next]_vars => IInv'
<1> SUFFICES ASSUME IInv, [Next]_vars PROVE IInv'
  OBVIOUS
<1>1. CASE \E c \in Components, o \in Objects \cup {NoObject} : SetComponent(c, o)
  BY <1>1, SetComponentIInv
<1>2. CASE Create
  BY <1>2, CreateIInv
<1>3. CASE \E i \in Instances : DeleteInstance(i)
  BY <1>3, DeleteInstanceIInv
<1>4. CASE UNCHANGED vars
  BY <1>4 DEF vars, IInv, TypeOK, HeldAlive, UniqueHeldOnce, HolderSet, Slot
<1>5. QED
  BY <1>1, <1>2, <1>3, <1>4 DEF Next

\* The strengthening gives OwnershipSound: a destroyed object has no holder,
\* and an object some unique_ptr slot holds has that slot as its only holder.
LEMMA IInvOwnership == IInv => OwnershipSound
<1> SUFFICES ASSUME IInv, NEW o \in handed
             PROVE  /\ o \in destroyed => Holders(o) = {}
                    /\ (\E h \in Holders(o) : h[2] \notin SharedComponents) =>
                         Cardinality(Holders(o)) = 1
  BY DEF OwnershipSound
<1> USE DEF IInv, TypeOK
<1>1. o # NoObject
  OBVIOUS
<1>2. o \in destroyed => Holders(o) = {}
  BY <1>1 DEF Holders, HolderSet, HeldAlive
<1>3. ASSUME NEW h \in Holders(o), h[2] \notin SharedComponents
      PROVE  Cardinality(Holders(o)) = 1
  <2>1. Holders(o) = {h}
    BY <1>1, <1>3 DEF Holders, HolderSet, UniqueHeldOnce
  <2>2. QED
    BY <2>1, FS_Singleton
<1>4. QED
  BY <1>2, <1>3

\* Ownership of the components injected into AudioProcessingBuilder stays
\* sound across every sequence of Set... calls, Create with its reset, and
\* deletion of instances: no holder refers to a destroyed component, and a
\* unique_ptr component has exactly one holder -- for every number of
\* objects and of instances.
THEOREM ComponentOwnership == Spec => []OwnershipSound
<1>1. Init => IInv
  BY InitIInv
<1>2. QED
  BY <1>1, NextIInv, IInvOwnership, PTL DEF Spec
-----------------------------------------------------------------------------
(* No sharing the client did not ask for *)

\* Each object has at most as many holders as setter calls passed it.
Counted ==
  /\ given \in [Objects -> Nat]
  /\ \A x \in Objects : Cardinality(Holders(x)) <= given[x]

\* The strengthening of NoUnrequestedSharing.
SInv == IInv /\ Counted

\* The builder's members are finitely many.
LEMMA ComponentsFinite == IsFiniteSet(Components)
<1>1. IsFiniteSet({"echo_control_factory"})
  BY FS_Singleton
<1>2. IsFiniteSet({"echo_control_factory"} \cup {"capture_post_processing"})
  BY <1>1, FS_AddElement
<1>3. IsFiniteSet({"echo_control_factory"} \cup {"capture_post_processing"}
                    \cup {"render_pre_processing"})
  BY <1>2, FS_AddElement
<1>4. IsFiniteSet({"echo_control_factory"} \cup {"capture_post_processing"}
                    \cup {"render_pre_processing"} \cup {"echo_detector"})
  BY <1>3, FS_AddElement
<1>5. IsFiniteSet({"echo_control_factory"} \cup {"capture_post_processing"}
                    \cup {"render_pre_processing"} \cup {"echo_detector"}
                    \cup {"capture_analyzer"})
  BY <1>4, FS_AddElement
<1>6. QED
  BY <1>5 DEF Components

\* Holders among the builder and instances numbered up to k are finitely many.
LEMMA HoldersFinite ==
  ASSUME NEW L, NEW k \in Nat, L \subseteq 1..k,
         NEW H \in SUBSET (({0} \cup L) \X Components)
  PROVE  /\ IsFiniteSet(H)
         /\ Cardinality(H) \in Nat
<1>0. IsFiniteSet(1..k)
  BY FS_Interval
<1>1. IsFiniteSet(L)
  BY <1>0, FS_Subset
<1>2. IsFiniteSet(L \cup {0}) /\ {0} \cup L = L \cup {0}
  BY <1>1, FS_AddElement
<1>3. IsFiniteSet(({0} \cup L) \X Components)
  BY <1>2, ComponentsFinite, FS_Product
<1>4. IsFiniteSet(H)
  BY <1>3, FS_Subset
<1>5. QED
  BY <1>4, FS_CardinalityType

\* A union has at most as many elements as its parts together, exactly as
\* many when they are disjoint.
LEMMA UnionBound ==
  ASSUME NEW S, NEW T, IsFiniteSet(S), IsFiniteSet(T)
  PROVE  /\ IsFiniteSet(S \cup T)
         /\ Cardinality(S \cup T) <= Cardinality(S) + Cardinality(T)
         /\ S \cap T = {} => Cardinality(S \cup T) = Cardinality(S) + Cardinality(T)
<1>1. IsFiniteSet(S \cap T)
  BY FS_Intersection
<1>2. /\ Cardinality(S \cap T) \in Nat
      /\ Cardinality(S) \in Nat /\ Cardinality(T) \in Nat
  BY <1>1, FS_CardinalityType
<1>3. S \cap T = {} => Cardinality(S \cap T) = 0
  BY FS_EmptySet
<1>4. /\ IsFiniteSet(S \cup T)
      /\ Cardinality(S \cup T) =
           Cardinality(S) + Cardinality(T) - Cardinality(S \cap T)
  BY FS_Union
<1>5. QED
  BY <1>2, <1>3, <1>4

\* Moving holders to one place makes no more of them.
LEMMA MovedHolders ==
  ASSUME NEW S, IsFiniteSet(S), NEW n
  PROVE  /\ IsFiniteSet({<<n, g[2]>> : g \in S})
         /\ Cardinality({<<n, g[2]>> : g \in S}) <= Cardinality(S)
<1> DEFINE T == {<<n, g[2]>> : g \in S}
           f == [g \in S |-> <<n, g[2]>>]
<1>1. f \in Surjection(S, T)
  BY DEF Surjection
<1>2. QED
  BY <1>1, FS_Surjection

\* The holders of an object in a well-typed state are finitely many.
LEMMA HoldersOfFinite ==
  ASSUME TypeOK, NEW x
  PROVE  /\ IsFiniteSet(Holders(x)) /\ Cardinality(Holders(x)) \in Nat
         /\ Holders(x) \subseteq ({0} \cup live) \X Components
<1>1. Holders(x) \in SUBSET (({0} \cup live) \X Components)
  BY DEF Holders
<1>2. Len(apm) \in Nat /\ live \subseteq 1..Len(apm)
  BY DEF TypeOK
<1>3. QED
  BY <1>1, <1>2, HoldersFinite

LEMMA InitCounted == Init => Counted
<1> SUFFICES ASSUME Init, NEW x \in Objects
             PROVE  Cardinality(Holders(x)) <= given[x]
  BY DEF Init, Counted
<1>1. Holders(x) = {}
  BY DEF Init, Holders, Slot, EmptySlots
<1>2. QED
  BY <1>1, FS_EmptySet DEF Init

\* A setter call adds one holder, to the object it passes.
LEMMA SetComponentCounted ==
  ASSUME SInv, NEW c \in Components, NEW o \in Objects \cup {NoObject},
         SetComponent(c, o)
  PROVE  Counted'
<1> DEFINE hc == <<0, c>>
<1> USE DEF SInv, IInv, TypeOK, Counted
<1>1. /\ builder' = [builder EXCEPT ![c] = o]
      /\ apm' = apm /\ live' = live
      /\ given' = IF o = NoObject THEN given ELSE [given EXCEPT ![o] = @ + 1]
  BY DEF SetComponent
<1>2. given' \in [Objects -> Nat]
  BY <1>1
<1>3. ASSUME NEW x \in Objects
      PROVE  Cardinality(Holders(x)') <= given'[x]
  <2>1. \A h \in HolderSet : Slot(h)' = IF h = hc THEN o ELSE Slot(h)
    BY <1>1, HolderParts DEF Slot
  <2>2. /\ Holders(x)' \subseteq Holders(x) \cup {hc}
        /\ x # o => Holders(x)' \subseteq Holders(x)
    BY <1>1, <2>1 DEF Holders, HolderSet
  <2>3. IsFiniteSet(Holders(x)) /\ Cardinality(Holders(x)) \in Nat
    BY HoldersOfFinite
  <2>4. /\ IsFiniteSet(Holders(x) \cup {hc})
        /\ Cardinality(Holders(x) \cup {hc}) <= Cardinality(Holders(x)) + 1
        /\ Cardinality(Holders(x) \cup {hc}) \in Nat
    <3>1. /\ IsFiniteSet(Holders(x) \cup {hc})
          /\ Cardinality(Holders(x) \cup {hc}) =
               IF hc \in Holders(x) THEN Cardinality(Holders(x))
               ELSE Cardinality(Holders(x)) + 1
      BY <2>3, FS_AddElement
    <3>2. QED
      BY <2>3, <3>1
  <2>5. /\ Cardinality(Holders(x)) <= given[x] /\ given[x] \in Nat
    OBVIOUS
  <2>6. CASE x = o
    <3>1. given'[x] = given[x] + 1
      BY <1>1, <2>6
    <3>2. /\ Cardinality(Holders(x)') <= Cardinality(Holders(x) \cup {hc})
          /\ Cardinality(Holders(x)') \in Nat
      BY <2>2, <2>4, FS_Subset, FS_CardinalityType
    <3>3. QED
      BY <2>3, <2>4, <2>5, <3>1, <3>2
  <2>7. CASE x # o
    <3>1. given'[x] = given[x]
      BY <1>1, <2>7
    <3>2. /\ Cardinality(Holders(x)') <= Cardinality(Holders(x))
          /\ Cardinality(Holders(x)') \in Nat
      BY <2>2, <2>3, <2>7, FS_Subset, FS_CardinalityType
    <3>3. QED
      BY <2>3, <2>5, <3>1, <3>2
  <2>8. QED
    BY <2>6, <2>7
<1>4. QED
  BY <1>2, <1>3

\* Create moves the builder's holders to the new instance: none is added.
LEMMA CreateCounted ==
  ASSUME SInv, Create
  PROVE  Counted'
<1> DEFINE n == Len(apm) + 1
<1> USE DEF SInv, IInv, TypeOK, Counted
<1>1. /\ apm' = Append(apm, builder) /\ live' = live \cup {n}
      /\ builder' = EmptySlots /\ given' = given
  BY DEF Create
<1>2. n \notin live /\ n # 0 /\ 0 \notin live /\ Len(apm) \in Nat
  OBVIOUS
<1>3. ASSUME NEW x \in Objects
      PROVE  Cardinality(Holders(x)') <= given[x]
  <2> DEFINE H == Holders(x)
             B0 == {h \in H : h[1] = 0}
             A == H \ B0
             B == {<<n, g[2]>> : g \in B0}
  <2>1. /\ IsFiniteSet(H) /\ IsFiniteSet(A) /\ IsFiniteSet(B0)
        /\ Cardinality(H) \in Nat /\ Cardinality(A) \in Nat /\ Cardinality(B0) \in Nat
    <3>1. IsFiniteSet(H) /\ Cardinality(H) \in Nat
      BY HoldersOfFinite
    <3>2. IsFiniteSet(A) /\ IsFiniteSet(B0)
      BY <3>1, FS_Subset
    <3>3. QED
      BY <3>1, <3>2, FS_CardinalityType
  <2>2. IsFiniteSet(B) /\ Cardinality(B) <= Cardinality(B0) /\ Cardinality(B) \in Nat
    <3>1. IsFiniteSet(B) /\ Cardinality(B) <= Cardinality(B0)
      BY <2>1, MovedHolders
    <3>2. QED
      BY <3>1, FS_CardinalityType
  <2>3. Holders(x)' \subseteq A \cup B
    <3> SUFFICES ASSUME NEW h \in Holders(x)' PROVE h \in A \cup B
      OBVIOUS
    <3>1. /\ h = <<h[1], h[2]>> /\ h[1] \in {0} \cup live \cup {n}
          /\ h[2] \in Components /\ Slot(h)' = x
      BY <1>1 DEF Holders
    <3>2. CASE h[1] = 0
      BY <1>1, <3>1, <3>2 DEF Slot, EmptySlots
    <3>3. CASE h[1] = n
      <4>1. apm'[n] = builder
        BY <1>1, AppendProperties
      <4>2. Slot(h)' = builder[h[2]]
        BY <1>2, <3>3, <4>1 DEF Slot
      <4>3. <<0, h[2]>> \in B0
        BY <3>1, <4>2 DEF Holders, Slot
      <4>4. QED
        BY <3>1, <3>3, <4>3
    <3>4. CASE h[1] \in live
      <4>1. h[1] \in 1..Len(apm)
        BY <3>4
      <4>2. apm'[h[1]] = apm[h[1]]
        BY <1>1, <4>1
      <4>3. h \in H
        BY <1>2, <3>1, <3>4, <4>2 DEF Holders, Slot
      <4>4. QED
        BY <1>2, <3>4, <4>3
    <3>5. QED
      BY <3>1, <3>2, <3>3, <3>4
  <2>4. /\ IsFiniteSet(A \cup B)
        /\ Cardinality(A \cup B) <= Cardinality(A) + Cardinality(B)
    BY <2>1, <2>2, UnionBound
  <2>5. Cardinality(H) = Cardinality(A) + Cardinality(B0)
    <3>1. H = A \cup B0 /\ A \cap B0 = {}
      OBVIOUS
    <3>2. QED
      BY <2>1, <3>1, UnionBound
  <2>6. /\ Cardinality(Holders(x)') <= Cardinality(A \cup B)
        /\ Cardinality(Holders(x)') \in Nat /\ Cardinality(A \cup B) \in Nat
    BY <2>3, <2>4, FS_Subset, FS_CardinalityType
  <2>7. Cardinality(H) <= given[x] /\ given[x] \in Nat
    OBVIOUS
  <2>8. QED
    BY <2>1, <2>2, <2>4, <2>5, <2>6, <2>7
<1>4. QED
  BY <1>1, <1>3

\* Deleting an instance only removes holders.
LEMMA DeleteInstanceCounted ==
  ASSUME SInv, NEW i \in Instances, DeleteInstance(i)
  PROVE  Counted'
<1> USE DEF SInv, IInv, TypeOK, Counted
<1>1. live' = live \ {i} /\ UNCHANGED <<builder, apm, given>>
  BY DEF DeleteInstance
<1>2. ASSUME NEW x \in Objects
      PROVE  Cardinality(Holders(x)') <= given'[x]
  <2>1. Holders(x)' \subseteq Holders(x)
    BY <1>1 DEF Holders, Slot
  <2>2. IsFiniteSet(Holders(x)) /\ Cardinality(Holders(x)) \in Nat
    BY HoldersOfFinite
  <2>3. /\ Cardinality(Holders(x)') <= Cardinality(Holders(x))
        /\ Cardinality(Holders(x)') \in Nat
    BY <2>1, <2>2, FS_Subset, FS_CardinalityType
  <2>4. Cardinality(Holders(x)) <= given[x] /\ given[x] \in Nat /\ given'[x] = given[x]
    BY <1>1
  <2>5. QED
    BY <2>2, <2>3, <2>4
<1>3. QED
  BY <1>1, <1>2

LEMMA NextSInv == SInv /\ [Next]_vars => SInv'
<1> SUFFICES ASSUME SInv, [Next]_vars PROVE SInv'
  OBVIOUS
<1>1. IInv'
  BY NextIInv DEF SInv
<1>2. CASE \E c \in Components, o \in Objects \cup {NoObject} : SetComponent(c, o)
  BY <1>1, <1>2, SetComponentCounted DEF SInv
<1>3. CASE Create
  BY <1>1, <1>3, CreateCounted DEF SInv
<1>4. CASE \E i \in Instances : DeleteInstance(i)
  BY <1>1, <1>4, DeleteInstanceCounted DEF SInv
<1>5. CASE UNCHANGED vars
  BY <1>1, <1>5 DEF vars, SInv, Counted, Holders, Slot
<1>6. QED
  BY <1>2, <1>3, <1>4, <1>5 DEF Next

\* AudioProcessingBuilder::Create moves the components it hands over: for
\* every number of objects, instances and hand-overs, no object is held by
\* more places (builder slots and live instances) than the number of setter
\* calls that passed it, so a shared echo detector is always the client's
\* own doing.
THEOREM SharingOnlyOnRequest == Spec => []NoUnrequestedSharing
<1>1. Init => SInv
  BY InitIInv, InitCounted DEF SInv
<1>2. SInv => NoUnrequestedSharing
  BY DEF SInv, IInv, TypeOK, Counted, NoUnrequestedSharing
<1>3. QED
  BY <1>1, <1>2, NextSInv, PTL DEF Spec
=============================================================================
