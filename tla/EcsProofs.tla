------------------------------ MODULE EcsProofs ------------------------------
(***************************************************************************)
(* Proofs about Ecs, for any components, views and number of entities:     *)
(* - until an index is used a second time an entity's place in             *)
(*   ecs::entities is its index, so a component goes to the entity it was  *)
(*   meant for (LookupCorrect);                                            *)
(* - a pool has as many instances as entities have the component, removals *)
(*   included (CountCorrect);                                              *)
(* - until a component is removed, each entity has its own instances,      *)
(*   loops over views are exact, and nothing that is not there is used     *)
(*   (InstancesCorrect, ViewCorrect, EcsDefined).                          *)
(***************************************************************************)
EXTENDS Ecs, SequenceTheorems, FiniteSetTheorems, WellFoundedInduction, TLAPS

(* Numbers.                                                                *)

\* A set of numbers that is not empty has a least one.
LEMMA LeastNumber ==
    ASSUME NEW T, T \subseteq Nat, T # {}
    PROVE  \E m \in T : \A k \in T : m <= k
<1> DEFINE R == OpToRel(<, Nat)
<1>1. PICK m \in T : \A k \in T : ~(<<k, m>> \in R)
    BY NatLessThanWellFounded, WFMin
<1>2. \A k \in T : ~(k < m)
    BY <1>1 DEF OpToRel
<1>3. \A k \in T : m <= k
    BY <1>2
<1> QED
    BY <1>3

\* A set of numbers that has 0, and with each number the next one, has all.
LEMMA CountingUp ==
    ASSUME NEW N \in Nat, NEW Good, 0 \in Good,
           \A k \in 0 .. N - 1 : k \in Good => k + 1 \in Good
    PROVE  0 .. N \subseteq Good
<1> DEFINE Bad == 0 .. N \ Good
<1> SUFFICES ASSUME Bad # {} PROVE FALSE
    OBVIOUS
<1>1. PICK m \in Bad : \A k \in Bad : m <= k
    <2>1. Bad \subseteq Nat
        OBVIOUS
    <2> HIDE DEF Bad
    <2> QED
        BY <2>1, LeastNumber
<1>2. m \in 0 .. N /\ m # 0 /\ m \notin Good
    <2>1. m \in 0 .. N /\ m \notin Good
        OBVIOUS
    <2> QED
        BY <2>1
<1>3. m - 1 \in 0 .. N - 1 /\ m - 1 \in Good
    BY <1>1, <1>2
<1>4. (m - 1) + 1 \in Good /\ (m - 1) + 1 = m
    BY <1>2, <1>3
<1> QED
    BY <1>2, <1>4

----------------------------------------------------------------------------
(* Places of entities.                                                     *)

\* Nothing has left the queue of free indices, and it is too short for that.
QueueOnlyGrows ==
    /\ free_indices \in Seq(Nat)
    /\ destroys \in Nat
    /\ Len(free_indices) <= destroys
    /\ destroys <= MinimumFree

\* Each place of entities belongs to the entity of that index.
PlacesAreIndices ==
    /\ generation \in Seq(Nat)
    /\ entities \in Seq([index : Nat, gen : Nat])
    /\ Len(entities) = Len(generation)
    /\ \A i \in 1 .. Len(entities) : entities[i].index = i - 1

HeldHavePlaces == \A e \in held : e.index \in 0 .. Len(generation) - 1

IInv == QueueOnlyGrows /\ PlacesAreIndices /\ HeldHavePlaces

----------------------------------------------------------------------------
\* With so few destroys no index is taken from the queue.
LEMMA NoReuse == IInv => ~Manager!CreateReused
BY EcsMinimumFreeAssumption DEF IInv, QueueOnlyGrows, Manager!CreateReused

\* A new entity has the index that its place will have.
LEMMA CreateEntityStep ==
    ASSUME IInv, CreateEntity
    PROVE  IInv'
<1> DEFINE x == [index |-> Len(generation), gen |-> 0]
<1>1. /\ generation' = Append(generation, 0)
      /\ held' = held \cup {x}
      /\ UNCHANGED <<free_indices, destroys>>
    BY NoReuse DEF CreateEntity, Manager!CreateFresh
<1>2. entities' = Append(entities, x)
    BY <1>1 DEF CreateEntity
<1>3. /\ Len(generation) \in Nat /\ Len(entities) = Len(generation)
      /\ x \in [index : Nat, gen : Nat]
    BY DEF IInv, PlacesAreIndices
<1>4. QueueOnlyGrows'
    BY <1>1 DEF IInv, QueueOnlyGrows
<1>5. /\ generation' \in Seq(Nat) /\ Len(generation') = Len(generation) + 1
      /\ entities' \in Seq([index : Nat, gen : Nat])
      /\ Len(entities') = Len(entities) + 1
    BY <1>1, <1>2, <1>3, AppendProperties DEF IInv, PlacesAreIndices
<1>6. ASSUME NEW i \in 1 .. Len(entities')
      PROVE  entities'[i].index = i - 1
    <2>1. CASE i = Len(entities) + 1
        <3>1. entities'[i] = x
            BY <1>2, <2>1, AppendProperties DEF IInv, PlacesAreIndices
        <3> QED
            BY <1>3, <2>1, <3>1
    <2>2. CASE i # Len(entities) + 1
        <3>1. i \in 1 .. Len(entities)
            BY <1>3, <1>5, <2>2
        <3>2. entities'[i] = entities[i]
            BY <1>2, <3>1, AppendProperties DEF IInv, PlacesAreIndices
        <3> QED
            BY <3>1, <3>2 DEF IInv, PlacesAreIndices
    <2> QED
        BY <2>1, <2>2
<1>7. PlacesAreIndices'
    BY <1>3, <1>5, <1>6 DEF PlacesAreIndices
<1>8. HeldHavePlaces'
    <2>1. ASSUME NEW e \in held' PROVE e.index \in 0 .. Len(generation') - 1
        <3>1. e \in held \/ e = x
            BY <1>1
        <3>2. CASE e \in held
            BY <1>3, <1>5, <3>2 DEF IInv, HeldHavePlaces
        <3>3. CASE e = x
            BY <1>3, <1>5, <3>3
        <3> QED
            BY <3>1, <3>2, <3>3
    <2> QED
        BY <2>1 DEF HeldHavePlaces
<1> QED
    BY <1>4, <1>7, <1>8 DEF IInv

\* A destroy adds one index to the queue, and leaves every place alone.
LEMMA DestroyEntityStep ==
    ASSUME IInv, BeforeReuse, NEW e \in held, DestroyEntity(e)
    PROVE  IInv'
<1>1. /\ free_indices' = Append(free_indices, e.index)
      /\ held' = held \ {e}
      /\ destroys' = destroys + 1
      /\ generation' = [generation EXCEPT
                            ![e.index + 1] = (@ + 1) % GenerationWords]
      /\ entities' = entities
    BY DEF DestroyEntity, Manager!Destroy
<1>2. e.index \in Nat /\ e.index + 1 \in DOMAIN generation
    BY DEF IInv, HeldHavePlaces, PlacesAreIndices
<1>3. QueueOnlyGrows'
    <2>1. free_indices' \in Seq(Nat) /\ Len(free_indices') = Len(free_indices) + 1
        BY <1>1, <1>2, AppendProperties DEF IInv, QueueOnlyGrows
    <2>2. Len(free_indices) \in Nat
        BY DEF IInv, QueueOnlyGrows
    <2> QED
        BY <1>1, <2>1, <2>2, EcsMinimumFreeAssumption
           DEF IInv, QueueOnlyGrows, BeforeReuse
<1>4. generation' \in Seq(Nat) /\ Len(generation') = Len(generation)
    <2>1. generation[e.index + 1] \in Nat
        BY <1>2 DEF IInv, PlacesAreIndices
    <2>2. (generation[e.index + 1] + 1) % GenerationWords \in Nat
        BY <2>1, EcsWordsAssumption
    <2>3. generation' = [generation EXCEPT
                             ![e.index + 1] = (generation[e.index + 1] + 1) % GenerationWords]
        BY <1>1
    <2> QED
        BY <1>2, <2>2, <2>3, ExceptSeq DEF IInv, PlacesAreIndices
<1>5. PlacesAreIndices'
    BY <1>1, <1>4 DEF IInv, PlacesAreIndices
<1>6. HeldHavePlaces'
    BY <1>1, <1>4 DEF IInv, HeldHavePlaces
<1> QED
    BY <1>3, <1>5, <1>6 DEF IInv

\* Steps that leave the entities and their manager alone.
LEMMA QuietStep ==
    ASSUME IInv, UNCHANGED <<managerVars, entities>>
    PROVE  IInv'
BY DEF IInv, QueueOnlyGrows, PlacesAreIndices, HeldHavePlaces, managerVars

\* Every other operation is such a step, whether it comes to its end or not.
LEMMA OthersAreQuiet ==
    ASSUME \/ \E c \in Components, e \in held, v \in Values : AddComponent(c, e, v)
           \/ \E c \in Components, e \in held : GetComponent(c, e)
           \/ \E c \in Components, e \in held : RemoveComponent(c, e)
           \/ \E cs \in ViewTypes : ViewBegin(cs)
           \/ ViewStep
           \/ ViewEnd
    PROVE  UNCHANGED <<managerVars, entities>>
BY DEF AddComponent, GetComponent, RemoveComponent, ViewBegin, ViewStep, ViewEnd,
       LoopTo, Break

\* Every step of a client keeps the invariant, whether it removes components or not.
LEMMA PlacesStep == IInv /\ [CarefulNext \/ RemovingNext]_vars => IInv'
<1> SUFFICES ASSUME IInv, [CarefulNext \/ RemovingNext]_vars PROVE IInv'
    OBVIOUS
<1>1. CASE UNCHANGED vars
    BY <1>1, QuietStep DEF vars
<1>2. CASE CreateEntity
    BY <1>2, CreateEntityStep
<1>3. CASE \E e \in held : BeforeReuse /\ DestroyEntity(e)
    BY <1>3, DestroyEntityStep
<1>4. CASE (Common /\ ~CreateEntity) \/ \E c \in Components, e \in held : RemoveComponent(c, e)
    BY <1>4, OthersAreQuiet, QuietStep DEF Common
<1> QED
    BY <1>1, <1>2, <1>3, <1>4 DEF RemovingNext, CarefulNext, Common

\* What a step is, whatever it says of removals.
LEMMA StepOfClient == [Next]_<<vars, removed>> => [CarefulNext \/ RemovingNext]_vars
BY DEF Next

\* No entities, no places.
LEMMA PlacesInit == Init => IInv
BY EcsMinimumFreeAssumption
   DEF Init, Manager!Init, IInv, QueueOnlyGrows, PlacesAreIndices, HeldHavePlaces

\* The entity at the index of one that is held is of that index.
LEMMA Lookup ==
    ASSUME IInv, NEW e \in held
    PROVE  /\ e.index \in Nat
           /\ e.index < Len(entities)
           /\ entities[e.index + 1].index = e.index
<1>1. e.index \in 0 .. Len(entities) - 1 /\ Len(entities) \in Nat
    BY DEF IInv, PlacesAreIndices, HeldHavePlaces
<1>2. e.index + 1 \in 1 .. Len(entities)
    BY <1>1
<1>3. entities[e.index + 1].index = (e.index + 1) - 1
    BY <1>2 DEF IInv, PlacesAreIndices
<1> QED
    BY <1>1, <1>3

\* For a client that destroys too few entities for an index to be used again,
\* add_component always finds the entity it was asked to add to.
THEOREM LookupCorrect == Spec => []LookupIsOwn
<1>1. IInv => LookupIsOwn
    BY Lookup DEF LookupIsOwn
<1> QED
    BY <1>1, PlacesInit, PlacesStep, StepOfClient, PTL DEF Spec

----------------------------------------------------------------------------
(* Component managers.                                                     *)

\* What ecs keeps of its managers.
Now == [ids |-> ids, slots |-> component_managers]

Slots == [state : {"live", "uninitialised", "deleted"},
          entities : Seq(Nat), instances : Seq(Values)]

Known(s) == {c \in Components : s.ids[c] # NoId}

\* Ids number the slots.
Numbered(s) ==
    /\ s.ids \in [Components -> Nat \cup {NoId}]
    /\ s.slots \in Seq(Slots)
    /\ Cardinality(Known(s)) = Len(s.slots)
    /\ \A c \in Known(s) : s.ids[c] < Len(s.slots)
    /\ \A c, d \in Known(s) : s.ids[c] = s.ids[d] => c = d

\* From s to t the components of C have been given managers, unless they had.
Grown(s, t, C) ==
    /\ Numbered(t)
    /\ C \subseteq Known(t)
    /\ Known(s) \subseteq Known(t)
    /\ \A c \in Known(s) : SlotOf(t, c) = SlotOf(s, c)
    /\ \A c \in Known(t) \ Known(s) : c \in C /\ SlotOf(t, c) = NewManager

LEMMA TouchGrows ==
    ASSUME NEW s, Numbered(s), NEW c \in Components,
           s = [ids |-> s.ids, slots |-> s.slots]
    PROVE  Grown(s, Touch(s, c), {c})
<1> DEFINE n == Len(s.slots)
           t == Touch(s, c)
<1>1. n \in Nat /\ IsFiniteSet(Known(s))
    BY ComponentsAssumption, FS_Subset DEF Numbered, Known
<1>2. CASE c \in Known(s)
    <2>1. Identified(s.ids, c) = s.ids /\ s.ids[c] < n
        BY <1>2 DEF Known, Identified, Numbered
    <2>2. Touch(s, c) = s
        BY <2>1 DEF Touch, Managed
    <2> QED
        BY <1>2, <2>2 DEF Grown
<1>3. CASE c \notin Known(s)
    <2>1. Cardinality({d \in Components : s.ids[d] # NoId}) = n
        BY DEF Numbered, Known
    <2>2. t.ids = [s.ids EXCEPT ![c] = n]
        BY <1>3, <2>1 DEF Known, Identified, Touch
    <2>3. t.ids[c] = n /\ \A d \in Components \ {c} : t.ids[d] = s.ids[d]
        BY <2>2 DEF Numbered
    <2>4. t.slots = Append(s.slots, NewManager)
        <3>1. t.slots = Managed(s.slots, n)
            BY <2>3 DEF Touch
        <3>2. Managed(s.slots, n) = s.slots \o [k \in 1 .. 0 |-> Uninitialised]
                                            \o <<NewManager>>
            BY <1>1 DEF Managed
        <3>3. [k \in 1 .. 0 |-> Uninitialised] = <<>>
            OBVIOUS
        <3>4. NewManager \in Slots
            BY DEF Slots, NewManager, Slot
        <3>5. s.slots \o <<>> = s.slots
            BY DEF Numbered
        <3>6. s.slots \o <<NewManager>> = Append(s.slots, NewManager)
            BY <3>4 DEF Numbered
        <3> QED
            BY <3>1, <3>2, <3>3, <3>5, <3>6
    <2>5. /\ NewManager \in Slots
          /\ t.slots \in Seq(Slots) /\ Len(t.slots) = n + 1
          /\ t.slots[n + 1] = NewManager
          /\ \A k \in 1 .. n : t.slots[k] = s.slots[k]
        <3>1. NewManager \in Slots
            BY DEF Slots, NewManager, Slot
        <3> QED
            BY <2>4, <3>1, AppendProperties DEF Numbered
    <2>6. Known(t) = Known(s) \cup {c}
        <3>1. n # NoId
            BY <1>1, ComponentsAssumption
        <3> QED
            BY <2>3, <3>1 DEF Known
    <2>7. Numbered(t)
        <3>1. t.ids \in [Components -> Nat \cup {NoId}]
            BY <1>1, <2>2 DEF Numbered
        <3>2. Cardinality(Known(t)) = Len(t.slots)
            <4>1. Cardinality(Known(s) \cup {c}) = Cardinality(Known(s)) + 1
                BY <1>1, <1>3, FS_AddElement
            <4> QED
                BY <2>5, <2>6, <4>1 DEF Numbered
        <3>3. \A d \in Known(t) : t.ids[d] < Len(t.slots)
            <4>1. \A d \in Known(s) : s.ids[d] \in Nat /\ s.ids[d] < n
                BY DEF Numbered, Known
            <4> QED
                BY <1>1, <1>3, <2>3, <2>5, <2>6, <4>1 DEF Known
        <3>4. ASSUME NEW d \in Known(t), NEW e \in Known(t), t.ids[d] = t.ids[e]
              PROVE  d = e
            <4>1. \A b \in Known(s) : t.ids[b] = s.ids[b] /\ s.ids[b] < n /\ s.ids[b] \in Nat
                BY <1>3, <2>3 DEF Numbered, Known
            <4> QED
                BY <1>1, <2>3, <2>6, <3>4, <4>1 DEF Numbered
        <3> QED
            BY <2>5, <3>1, <3>2, <3>3, <3>4 DEF Numbered
    <2>8. \A d \in Known(s) : SlotOf(t, d) = SlotOf(s, d)
        <3> SUFFICES ASSUME NEW d \in Known(s) PROVE SlotOf(t, d) = SlotOf(s, d)
            OBVIOUS
        <3>1. t.ids[d] = s.ids[d] /\ s.ids[d] + 1 \in 1 .. n
            BY <1>1, <1>3, <2>3 DEF Numbered, Known
        <3> QED
            BY <2>5, <3>1 DEF SlotOf
    <2>9. SlotOf(t, c) = NewManager
        BY <2>3, <2>5 DEF SlotOf
    <2> QED
        BY <2>6, <2>7, <2>8, <2>9 DEF Grown
<1> QED
    BY <1>2, <1>3

\* The components of a pack, one after the other.
LEMMA TouchedGrows ==
    ASSUME NEW cs \in Seq(Components),
           Numbered([ids |-> ids, slots |-> component_managers])
    PROVE  /\ Grown([ids |-> ids, slots |-> component_managers], Touched(cs),
                    {cs[k] : k \in DOMAIN cs})
           /\ Touched(cs) = [ids |-> Touched(cs).ids, slots |-> Touched(cs).slots]
<1> DEFINE N   == Len(cs)
           now == [ids |-> ids, slots |-> component_managers]
           Rec(g, n) == g = [k \in 0 .. n |-> IF k = 0 THEN now ELSE Touch(g[k - 1], cs[k])]
           Is(s) == s = [ids |-> s.ids, slots |-> s.slots]
<1>0. N \in Nat /\ DOMAIN cs = 1 .. N /\ \A k \in 1 .. N : cs[k] \in Components
    OBVIOUS
<1>1. \E g : Rec(g, N)
    <2> DEFINE Good == {n \in 0 .. N : \E g : Rec(g, n)}
    <2>1. 0 \in Good
        <3>1. Rec([k \in 0 .. 0 |-> now], 0)
            OBVIOUS
        <3>2. \E g : Rec(g, 0)
            BY <3>1
        <3> QED
            BY <1>0, <3>2
    <2>2. ASSUME NEW n \in 0 .. N - 1, n \in Good PROVE n + 1 \in Good
        <3>1. PICK g : Rec(g, n)
            BY <2>2
        <3> DEFINE h == [k \in 0 .. n + 1 |-> IF k = n + 1 THEN Touch(g[n], cs[k]) ELSE g[k]]
        <3>2. \A k \in 0 .. n + 1 : h[k] = IF k = 0 THEN now ELSE Touch(h[k - 1], cs[k])
            <4> SUFFICES ASSUME NEW k \in 0 .. n + 1
                         PROVE  h[k] = IF k = 0 THEN now ELSE Touch(h[k - 1], cs[k])
                OBVIOUS
            <4>1. CASE k = 0
                BY <3>1, <4>1
            <4>2. CASE k # 0
                <5>1. h[k - 1] = g[k - 1]
                    BY <4>2
                <5>2. k # n + 1 => h[k] = g[k] /\ k \in 1 .. n
                    BY <4>2
                <5>3. k \in 1 .. n => g[k] = Touch(g[k - 1], cs[k])
                    BY <3>1
                <5> QED
                    BY <4>2, <5>1, <5>2, <5>3
            <4> QED
                BY <4>1, <4>2
        <3> HIDE DEF h
        <3>3. h = [k \in 0 .. n + 1 |-> h[k]]
            BY DEF h
        <3>4. Rec(h, n + 1)
            BY <3>2, <3>3
        <3>5. \E f : Rec(f, n + 1)
            BY <3>4
        <3> QED
            BY <3>5, <1>0
    <2> HIDE DEF Good
    <2>3. 0 .. N \subseteq Good
        BY <1>0, <2>1, <2>2, CountingUp
    <2>4. N \in Good
        BY <1>0, <2>3
    <2> QED
        BY <2>4 DEF Good
<1> DEFINE upTo == CHOOSE g : Rec(g, N)
<1>2. Rec(upTo, N)
    BY <1>1
<1>3. Touched(cs) = upTo[N]
    BY DEF Touched
<1> HIDE DEF upTo
<1>4. upTo[0] = now /\ \A k \in 1 .. N : upTo[k] = Touch(upTo[k - 1], cs[k])
    <2>1. \A k \in 0 .. N : upTo[k] = IF k = 0 THEN now ELSE Touch(upTo[k - 1], cs[k])
        BY <1>2, Zenon
    <2> QED
        BY <1>0, <2>1
<1> DEFINE Good == {k \in 0 .. N : /\ Is(upTo[k])
                                   /\ Grown(now, upTo[k], {cs[j] : j \in 1 .. k})}
<1>5. 0 \in Good
    <2>1. {cs[j] : j \in 1 .. 0} = {}
        OBVIOUS
    <2>2. Grown(now, now, {})
        BY DEF Grown
    <2>3. Is(now)
        OBVIOUS
    <2> HIDE DEF now
    <2>4. Is(upTo[0]) /\ Grown(now, upTo[0], {cs[j] : j \in 1 .. 0})
        BY <1>4, <2>1, <2>2, <2>3, Zenon
    <2> QED
        BY <1>0, <2>4
<1>6. ASSUME NEW k \in 0 .. N - 1, k \in Good PROVE k + 1 \in Good
    <2> DEFINE s == upTo[k]
               c == cs[k + 1]
               t == Touch(s, c)
               C == {cs[j] : j \in 1 .. k}
    <2>1. upTo[k + 1] = t /\ c \in Components
        BY <1>0, <1>4
    <2>2. Is(s) /\ Grown(now, s, C) /\ Numbered(s)
        BY <1>6 DEF Grown
    <2>3. Grown(s, t, {c})
        BY <2>1, <2>2, TouchGrows
    <2>4. {cs[j] : j \in 1 .. k + 1} = C \cup {c}
        BY <1>0
    <2>5. Grown(now, t, C \cup {c})
        <3> HIDE DEF s, t, c, C, now
        <3>1. Numbered(t) /\ C \cup {c} \subseteq Known(t) /\ Known(now) \subseteq Known(t)
            BY <2>2, <2>3 DEF Grown
        <3>2. \A d \in Known(now) : SlotOf(t, d) = SlotOf(now, d)
            BY <2>2, <2>3 DEF Grown
        <3>3. \A d \in Known(t) \ Known(now) :
                  d \in C \cup {c} /\ SlotOf(t, d) = NewManager
            BY <2>2, <2>3 DEF Grown
        <3> QED
            BY <3>1, <3>2, <3>3 DEF Grown
    <2>6. Is(t)
        BY DEF Touch
    <2> HIDE DEF t, now, s, c
    <2>7. Is(upTo[k + 1]) /\ Grown(now, upTo[k + 1], {cs[j] : j \in 1 .. k + 1})
        BY <2>1, <2>4, <2>5, <2>6, Zenon
    <2>8. k + 1 \in 0 .. N
        BY <1>0
    <2> QED
        BY <2>7, <2>8
<1> HIDE DEF Good
<1>7. N \in Good
    <2> HIDE DEF N, now
    <2>1. N \in Nat
        BY <1>0
    <2>2. 0 .. N \subseteq Good
        BY <2>1, <1>5, <1>6, CountingUp
    <2> QED
        BY <2>1, <2>2
<1> QED
    BY <1>0, <1>3, <1>7 DEF Good

\* An operation on one pool leaves the others and the ids alone.
LEMMA SlotReplaced ==
    ASSUME NEW s, Numbered(s), NEW c \in Known(s), NEW p \in Slots, NEW t,
           t = [ids |-> s.ids, slots |-> [s.slots EXCEPT ![s.ids[c] + 1] = p]]
    PROVE  /\ Numbered(t)
           /\ Known(t) = Known(s)
           /\ SlotOf(t, c) = p
           /\ \A d \in Known(s) \ {c} : SlotOf(t, d) = SlotOf(s, d)
<1> DEFINE n == Len(s.slots)
<1>1. n \in Nat /\ \A d \in Known(s) : s.ids[d] \in Nat /\ s.ids[d] + 1 \in 1 .. n
    BY DEF Numbered, Known
<1>2. t.ids = s.ids /\ t.slots = [s.slots EXCEPT ![s.ids[c] + 1] = p]
    OBVIOUS
<1>3. /\ t.slots \in Seq(Slots) /\ Len(t.slots) = n
      /\ t.slots[s.ids[c] + 1] = p
      /\ \A k \in 1 .. n : k # s.ids[c] + 1 => t.slots[k] = s.slots[k]
    BY <1>1, <1>2, ExceptSeq DEF Numbered
<1>4. Known(t) = Known(s)
    BY <1>2 DEF Known
<1>5. Numbered(t)
    BY <1>2, <1>3, <1>4 DEF Numbered
<1>6. SlotOf(t, c) = p
    BY <1>2, <1>3 DEF SlotOf
<1>7. ASSUME NEW d \in Known(s) \ {c} PROVE SlotOf(t, d) = SlotOf(s, d)
    <2>1. s.ids[d] # s.ids[c]
        BY DEF Numbered
    <2>2. s.ids[d] + 1 # s.ids[c] + 1
        BY <1>1, <2>1
    <2> QED
        BY <1>1, <1>2, <1>3, <2>2 DEF SlotOf
<1> QED
    BY <1>4, <1>5, <1>6, <1>7

\* A component that has an id has a slot.
LEMMA SlotIsSlot ==
    ASSUME NEW s, Numbered(s), NEW c \in Known(s)
    PROVE  SlotOf(s, c) \in Slots
BY DEF Numbered, Known, SlotOf

\* The one component of an operation.
LEMMA TouchedOne ==
    ASSUME Numbered(Now), NEW c \in Components
    PROVE  /\ Grown(Now, Touched(<<c>>), {c})
           /\ Numbered(Touched(<<c>>))
           /\ c \in Known(Touched(<<c>>))
           /\ Touched(<<c>>) = [ids |-> Touched(<<c>>).ids, slots |-> Touched(<<c>>).slots]
<1>1. <<c>> \in Seq(Components) /\ {<<c>>[k] : k \in DOMAIN <<c>>} = {c}
    OBVIOUS
<1> QED
    BY <1>1, TouchedGrows DEF Now, Grown

----------------------------------------------------------------------------
(* Instances are as many as entities that have the component.              *)

Counted(s, a) ==
    /\ a \in [Components -> SUBSET (Nat \X Values)]
    /\ \A c \in Components :
           /\ IsFiniteSet(a[c])
           /\ \A p, q \in a[c] : p[1] = q[1] => p = q
           /\ IF c \in Known(s) THEN Len(SlotOf(s, c).instances) = Cardinality(a[c])
                                ELSE a[c] = {}

\* A new manager has no instances, and its component nobody.
LEMMA GrownCounted ==
    ASSUME NEW s, NEW t, NEW C, NEW a, Counted(s, a), Grown(s, t, C)
    PROVE  Counted(t, a)
<1> SUFFICES ASSUME NEW c \in Components
             PROVE  IF c \in Known(t) THEN Len(SlotOf(t, c).instances) = Cardinality(a[c])
                                      ELSE a[c] = {}
    BY DEF Counted
<1>1. CASE c \in Known(s)
    BY <1>1 DEF Counted, Grown
<1>2. CASE c \in Known(t) \ Known(s)
    <2>1. a[c] = {} /\ SlotOf(t, c).instances = <<>>
        BY <1>2 DEF Counted, Grown, NewManager, Slot
    <2> QED
        BY <1>2, <2>1, FS_EmptySet
<1>3. CASE c \notin Known(t)
    BY <1>3 DEF Counted, Grown
<1> QED
    BY <1>1, <1>2, <1>3

\* One more instance, for one more entity.
LEMMA AttachCounted ==
    ASSUME NEW s, NEW a, Numbered(s), Counted(s, a), NEW c \in Known(s),
           NEW idx \in Nat, NEW v \in Values, NEW i \in Nat,
           \A p \in a[c] : p[1] # i, NEW t,
           t = [ids |-> s.ids,
                slots |-> [s.slots EXCEPT ![s.ids[c] + 1] = Attach(@, idx, v)]]
    PROVE  /\ Numbered(t)
           /\ Counted(t, [a EXCEPT ![c] = @ \cup {<<i, v>>}])
<1> DEFINE pool == SlotOf(s, c)
           p    == Attach(pool, idx, v)
           b    == [a EXCEPT ![c] = @ \cup {<<i, v>>}]
<1>1. c \in Components /\ pool \in Slots
    BY SlotIsSlot DEF Known
<1>2. p \in Slots /\ p.instances = Append(pool.instances, v)
    <2>1. /\ Append(pool.entities, idx) \in Seq(Nat)
          /\ Append(pool.instances, v) \in Seq(Values)
        BY <1>1, AppendProperties DEF Slots
    <2> DEFINE grown == IF Contains(pool.entities, idx) THEN pool.entities
                                                        ELSE Append(pool.entities, idx)
    <2>2. grown \in Seq(Nat)
        BY <1>1, <2>1 DEF Slots
    <2>3. p = [pool EXCEPT !.entities = grown, !.instances = Append(pool.instances, v)]
        BY DEF Attach
    <2> HIDE DEF grown, p
    <2> QED
        BY <1>1, <2>1, <2>2, <2>3 DEF Slots
<1>3. t = [ids |-> s.ids, slots |-> [s.slots EXCEPT ![s.ids[c] + 1] = p]]
    BY DEF SlotOf
<1> HIDE DEF p
<1>4. /\ Numbered(t) /\ Known(t) = Known(s) /\ SlotOf(t, c) = p
      /\ \A d \in Known(s) \ {c} : SlotOf(t, d) = SlotOf(s, d)
    BY <1>2, <1>3, SlotReplaced
<1>5. b \in [Components -> SUBSET (Nat \X Values)]
    BY <1>1 DEF Counted
<1>6. b[c] = a[c] \cup {<<i, v>>} /\ \A d \in Components \ {c} : b[d] = a[d]
    BY <1>1 DEF Counted
<1> HIDE DEF b
<1>7. IsFiniteSet(b[c]) /\ Cardinality(b[c]) = Cardinality(a[c]) + 1
    <2>1. IsFiniteSet(a[c]) /\ <<i, v>> \notin a[c]
        BY <1>1 DEF Counted
    <2> QED
        BY <1>6, <2>1, FS_AddElement
<1>8. Len(p.instances) = Len(pool.instances) + 1
    BY <1>1, <1>2 DEF Slots
<1>9. \A q, r \in b[c] : q[1] = r[1] => q = r
    BY <1>1, <1>6 DEF Counted
<1>10. ASSUME NEW d \in Components
       PROVE  /\ IsFiniteSet(b[d])
              /\ \A q, r \in b[d] : q[1] = r[1] => q = r
              /\ IF d \in Known(t) THEN Len(SlotOf(t, d).instances) = Cardinality(b[d])
                                   ELSE b[d] = {}
    <2>1. CASE d = c
        <3>1. Len(pool.instances) = Cardinality(a[c])
            BY <1>1 DEF Counted
        <3> QED
            BY <1>4, <1>7, <1>8, <1>9, <2>1, <3>1
    <2>2. CASE d # c
        BY <1>4, <1>6, <2>2 DEF Counted
    <2> QED
        BY <2>1, <2>2
<1> QED
    BY <1>4, <1>5, <1>10 DEF Counted, b

\* One less, for one entity less; the last one takes the manager with it.
LEMMA DetachCounted ==
    ASSUME NEW s, NEW a, Numbered(s), Counted(s, a), NEW c \in Known(s),
           NEW pos \in DOMAIN SlotOf(s, c).instances, NEW i,
           \E p \in a[c] : p[1] = i,
           NEW rest, \A p : p \in rest <=> p \in a[c] /\ p[1] # i, NEW t,
           t = [ids |-> s.ids,
                slots |-> [s.slots EXCEPT ![s.ids[c] + 1] = Detach(SlotOf(s, c), pos)]]
    PROVE  /\ Numbered(t)
           /\ Counted(t, [a EXCEPT ![c] = rest])
<1> DEFINE pool == SlotOf(s, c)
           n    == Len(pool.instances)
           p    == Detach(pool, pos)
           b    == [a EXCEPT ![c] = rest]
<1>1. /\ c \in Components /\ pool \in Slots
      /\ n \in Nat /\ pos \in 1 .. n /\ n >= 1
    BY SlotIsSlot DEF Known, Slots
<1>2. p \in Slots /\ Len(p.instances) = n - 1
    <2>1. CASE n = 1
        <3>1. p = Deleted /\ Deleted \in Slots /\ Deleted.instances = <<>>
            BY <2>1 DEF Detach, Deleted, Slot, Slots
        <3> QED
            BY <2>1, <3>1
    <2>2. CASE n # 1
        <3> DEFINE moved == [pool.instances EXCEPT ![pos] = pool.instances[n]]
        <3>1. moved \in Seq(Values) /\ Len(moved) = n
            <4>1. pool.instances \in Seq(Values) /\ pool.instances[n] \in Values
                BY <1>1 DEF Slots
            <4> QED
                BY <1>1, <4>1, ExceptSeq
        <3>2. p = [pool EXCEPT !.instances = SubSeq(moved, 1, n - 1)]
            BY <2>2 DEF Detach
        <3> HIDE DEF moved
        <3>3. SubSeq(moved, 1, n - 1) \in Seq(Values) /\ Len(SubSeq(moved, 1, n - 1)) = n - 1
            BY <1>1, <3>1, SubSeqProperties
        <3> QED
            BY <1>1, <3>2, <3>3 DEF Slots
    <2> QED
        BY <2>1, <2>2
<1>3. t = [ids |-> s.ids, slots |-> [s.slots EXCEPT ![s.ids[c] + 1] = p]]
    OBVIOUS
<1> HIDE DEF p
<1>4. /\ Numbered(t) /\ Known(t) = Known(s) /\ SlotOf(t, c) = p
      /\ \A d \in Known(s) \ {c} : SlotOf(t, d) = SlotOf(s, d)
    BY <1>2, <1>3, SlotReplaced
<1>5. b \in [Components -> SUBSET (Nat \X Values)]
    BY <1>1 DEF Counted
<1>6. b[c] = rest /\ \A d \in Components \ {c} : b[d] = a[d]
    BY <1>1 DEF Counted
<1> HIDE DEF b
<1>7. IsFiniteSet(b[c]) /\ Cardinality(b[c]) = Cardinality(a[c]) - 1
    <2>1. PICK q \in a[c] : q[1] = i
        OBVIOUS
    <2>2. b[c] = a[c] \ {q}
        BY <1>1, <1>6, <2>1 DEF Counted
    <2>3. IsFiniteSet(a[c])
        BY <1>1 DEF Counted
    <2> QED
        BY <2>2, <2>3, FS_RemoveElement
<1>8. \A q, r \in b[c] : q[1] = r[1] => q = r
    BY <1>1, <1>6 DEF Counted
<1>9. ASSUME NEW d \in Components
       PROVE  /\ IsFiniteSet(b[d])
              /\ \A q, r \in b[d] : q[1] = r[1] => q = r
              /\ IF d \in Known(t) THEN Len(SlotOf(t, d).instances) = Cardinality(b[d])
                                   ELSE b[d] = {}
    <2>1. CASE d = c
        <3>1. n = Cardinality(a[c])
            BY <1>1 DEF Counted
        <3> QED
            BY <1>2, <1>4, <1>7, <1>8, <2>1, <3>1
    <2>2. CASE d # c
        BY <1>4, <1>6, <2>2 DEF Counted
    <2> QED
        BY <2>1, <2>2
<1> QED
    BY <1>4, <1>5, <1>9 DEF Counted, b

\* What a client that removes components can rely on.
CountInv == IInv /\ Numbered(Now) /\ Counted(Now, attached)

\* What a request for a manager leaves behind, whatever comes of it.
LEMMA TouchCounted ==
    ASSUME Numbered(Now), Counted(Now, attached), NEW c \in Components
    PROVE  /\ Numbered(Touched(<<c>>))
           /\ Counted(Touched(<<c>>), attached)
           /\ c \in Known(Touched(<<c>>))
BY TouchedOne, GrownCounted

\* add_component, also when it finds that the manager was deleted.
LEMMA AddCount ==
    ASSUME CountInv, NEW c \in Components, NEW e \in held, NEW v \in Values,
           ~Attached(c, e), AddComponent(c, e, v)
    PROVE  Numbered(Now)' /\ Counted(Now, attached)'
<1> DEFINE s == Touched(<<c>>)
<1>1. Numbered(s) /\ Counted(s, attached) /\ c \in Known(s)
    BY TouchCounted DEF CountInv
<1>2. e.index \in Nat /\ entities[e.index + 1].index = e.index
    BY Lookup DEF CountInv
<1>3. CASE e.index < Len(entities) /\ SlotOf(s, c).state = "live"
    <2>1. /\ Now' = [ids   |-> s.ids,
                     slots |-> [s.slots EXCEPT ![s.ids[c] + 1] = Attach(@, e.index, v)]]
          /\ attached' = [attached EXCEPT ![c] = @ \cup {<<e.index, v>>}]
        BY <1>2, <1>3 DEF AddComponent, Now
    <2>2. \A p \in attached[c] : p[1] # e.index
        BY DEF Attached
    <2> HIDE DEF s
    <2> DEFINE t == [ids   |-> s.ids,
                     slots |-> [s.slots EXCEPT ![s.ids[c] + 1] = Attach(@, e.index, v)]]
    <2>3. /\ Numbered(t)
          /\ Counted(t, [attached EXCEPT ![c] = @ \cup {<<e.index, v>>}])
        BY <1>1, <1>2, <2>2, AttachCounted
    <2> HIDE DEF t
    <2>4. Now' = t
        BY <2>1 DEF t
    <2> QED
        BY <2>1, <2>3, <2>4
<1>4. CASE ~(e.index < Len(entities) /\ SlotOf(s, c).state = "live")
    <2>1. Now' = [ids |-> s.ids, slots |-> s.slots] /\ attached' = attached
        BY <1>4 DEF AddComponent, Break, Now
    <2>2. s = [ids |-> s.ids, slots |-> s.slots]
        BY TouchedOne DEF CountInv
    <2> QED
        BY <1>1, <2>1, <2>2
<1> QED
    BY <1>3, <1>4

\* remove_component, whichever instance it is that goes.
LEMMA RemoveCount ==
    ASSUME CountInv, NEW c \in Components, NEW e \in held,
           Attached(c, e), RemoveComponent(c, e)
    PROVE  Numbered(Now)' /\ Counted(Now, attached)'
<1> DEFINE s    == Touched(<<c>>)
           pool == SlotOf(s, c)
<1>1. Numbered(s) /\ Counted(s, attached) /\ c \in Known(s)
    BY TouchCounted DEF CountInv
<1>2. CASE /\ \E pos \in Instances(pool, e.index) :
                  component_managers' = [s.slots EXCEPT ![s.ids[c] + 1] = Detach(pool, pos)]
           /\ attached' = [attached EXCEPT ![c] = {p \in @ : p[1] # e.index}]
    <2>1. PICK pos \in Instances(pool, e.index) :
                  component_managers' = [s.slots EXCEPT ![s.ids[c] + 1] = Detach(pool, pos)]
        BY <1>2
    <2>2. pos \in DOMAIN pool.instances
        BY DEF Instances
    <2>3. Now' = [ids   |-> s.ids,
                  slots |-> [s.slots EXCEPT ![s.ids[c] + 1] = Detach(pool, pos)]]
        BY <2>1 DEF RemoveComponent, Now
    <2>4. \E p \in attached[c] : p[1] = e.index
        BY DEF Attached
    <2> HIDE DEF s
    <2> DEFINE t == [ids   |-> s.ids,
                     slots |-> [s.slots EXCEPT ![s.ids[c] + 1] = Detach(SlotOf(s, c), pos)]]
           rest == {p \in attached[c] : p[1] # e.index}
    <2>5. \A p : p \in rest <=> p \in attached[c] /\ p[1] # e.index
        OBVIOUS
    <2>7. attached' = [attached EXCEPT ![c] = rest]
        BY <1>2
    <2> HIDE DEF rest
    <2>8. Numbered(t) /\ Counted(t, [attached EXCEPT ![c] = rest])
        BY <1>1, <2>2, <2>4, <2>5, DetachCounted
    <2> HIDE DEF t
    <2>6. Now' = t
        BY <2>3 DEF t
    <2> QED
        BY <2>6, <2>7, <2>8
<1>3. CASE component_managers' = s.slots /\ Break
    <2>1. Now' = [ids |-> s.ids, slots |-> s.slots] /\ attached' = attached
        BY <1>3 DEF RemoveComponent, Break, Now
    <2>2. s = [ids |-> s.ids, slots |-> s.slots]
        BY TouchedOne DEF CountInv
    <2> QED
        BY <1>1, <2>1, <2>2
<1> QED
    BY <1>2, <1>3 DEF RemoveComponent

\* Steps that use components without adding or removing one.
LEMMA OtherCount ==
    ASSUME CountInv,
           \/ \E c \in Components, e \in held : GetComponent(c, e)
           \/ \E cs \in ViewTypes : ViewBegin(cs)
           \/ ViewStep \/ ViewEnd \/ CreateEntity
           \/ \E e \in held : DestroyEntity(e)
           \/ UNCHANGED vars
    PROVE  Numbered(Now)' /\ Counted(Now, attached)'
<1>1. CASE \E cs \in Seq(Components) :
               /\ ids' = Touched(cs).ids
               /\ component_managers' = Touched(cs).slots
               /\ attached' = attached
    <2>1. PICK cs \in Seq(Components) :
               /\ ids' = Touched(cs).ids
               /\ component_managers' = Touched(cs).slots
               /\ attached' = attached
        BY <1>1
    <2>2. /\ Grown(Now, Touched(cs), {cs[k] : k \in DOMAIN cs})
          /\ Touched(cs) = [ids |-> Touched(cs).ids, slots |-> Touched(cs).slots]
        BY TouchedGrows DEF CountInv, Now
    <2>3. Now' = Touched(cs)
        BY <2>1, <2>2 DEF Now
    <2>4. Numbered(Touched(cs)) /\ Counted(Touched(cs), attached)
        BY <2>2, GrownCounted DEF CountInv, Grown
    <2> QED
        BY <2>1, <2>3, <2>4
<1>2. CASE UNCHANGED <<componentVars, attached>>
    BY <1>2 DEF CountInv, Now, componentVars
<1>3. ASSUME NEW c \in Components, NEW e \in held, GetComponent(c, e)
      PROVE  <<c>> \in Seq(Components) /\ ids' = Touched(<<c>>).ids
             /\ component_managers' = Touched(<<c>>).slots /\ attached' = attached
    BY <1>3 DEF GetComponent, Break
<1>4. ASSUME NEW cs \in ViewTypes, ViewBegin(cs)
      PROVE  cs \in Seq(Components) /\ ids' = Touched(cs).ids
             /\ component_managers' = Touched(cs).slots /\ attached' = attached
    BY <1>4, ViewTypesAssumption DEF ViewBegin, LoopTo, Break
<1>5. ViewStep \/ ViewEnd \/ CreateEntity \/ (\E e \in held : DestroyEntity(e))
      \/ UNCHANGED vars => UNCHANGED <<componentVars, attached>>
    BY DEF ViewStep, ViewEnd, CreateEntity, DestroyEntity, LoopTo, Break, vars
<1> QED
    BY <1>1, <1>2, <1>3, <1>4, <1>5

\* Every step of a client that removes components keeps the counts.
LEMMA CountStep == CountInv /\ [CarefulNext \/ RemovingNext]_vars => CountInv'
<1> SUFFICES ASSUME CountInv, [CarefulNext \/ RemovingNext]_vars PROVE CountInv'
    OBVIOUS
<1>1. IInv'
    BY PlacesStep DEF CountInv
<1>2. CASE \E c \in Components, e \in held, v \in Values :
               ~Attached(c, e) /\ AddComponent(c, e, v)
    BY <1>1, <1>2, AddCount DEF CountInv
<1>3. CASE \E c \in Components, e \in held : Attached(c, e) /\ RemoveComponent(c, e)
    BY <1>1, <1>3, RemoveCount DEF CountInv
<1>4. CASE \/ \E c \in Components, e \in held : GetComponent(c, e)
           \/ \E cs \in ViewTypes : ViewBegin(cs)
           \/ ViewStep \/ ViewEnd \/ CreateEntity
           \/ \E e \in held : DestroyEntity(e)
           \/ UNCHANGED vars
    BY <1>1, <1>4, OtherCount DEF CountInv
<1> QED
    BY <1>2, <1>3, <1>4 DEF RemovingNext, CarefulNext, Common

\* Nothing is attached at first, and nothing has an id.
LEMMA CountInit == Init => CountInv
<1> SUFFICES ASSUME Init PROVE Numbered(Now) /\ Counted(Now, attached)
    BY PlacesInit DEF CountInv
<1>1. /\ ids = [c \in Components |-> NoId] /\ component_managers = <<>>
      /\ attached = [c \in Components |-> {}]
    BY DEF Init
<1>2. Known(Now) = {}
    BY <1>1 DEF Known, Now
<1>3. Numbered(Now)
    <2>1. Cardinality({}) = 0 /\ <<>> \in Seq(Slots) /\ Len(<<>>) = 0
        BY FS_EmptySet
    <2>2. /\ Now.ids \in [Components -> Nat \cup {NoId}]
          /\ Now.slots = <<>>
        BY <1>1 DEF Now
    <2> QED
        BY <1>2, <2>1, <2>2 DEF Numbered
<1>4. Counted(Now, attached)
    BY <1>1, <1>2, FS_EmptySet DEF Counted
<1> QED
    BY <1>3, <1>4

\* However often components are removed and added again, a pool has as many
\* instances as entities have the component: is_empty(), upon which the manager
\* is deleted (ecs.h:86-89), holds only when no entity has it any more.
THEOREM CountCorrect == Spec => []InstanceCount
<1>1. ASSUME CountInv PROVE InstanceCount
    BY <1>1 DEF CountInv, Counted, Known, Now, SlotOf, InstanceCount
<1> QED
    BY <1>1, CountInit, CountStep, StepOfClient, PTL DEF Spec

----------------------------------------------------------------------------
(* Pools, for a client that only adds.                                     *)

\* A pool holds what was attached, each index once, its instance beside it.
Holds(pool, a) ==
    /\ pool.state = "live"
    /\ Len(pool.instances) = Len(pool.entities)
    /\ \A i, j \in DOMAIN pool.entities : pool.entities[i] = pool.entities[j] => i = j
    /\ \A p : p \in a <=> \E i \in DOMAIN pool.entities :
                              p = <<pool.entities[i], pool.instances[i]>>

PoolsHold(s, a) ==
    /\ a \in [Components -> SUBSET (Nat \X Values)]
    /\ \A c \in Components : IF c \in Known(s) THEN Holds(SlotOf(s, c), a[c])
                                               ELSE a[c] = {}

\* A new manager holds what was attached so far: nothing.
LEMMA GrownHolds ==
    ASSUME NEW s, NEW t, NEW C, NEW a, PoolsHold(s, a), Grown(s, t, C)
    PROVE  PoolsHold(t, a)
<1> SUFFICES ASSUME NEW c \in Components
             PROVE  IF c \in Known(t) THEN Holds(SlotOf(t, c), a[c]) ELSE a[c] = {}
    BY DEF PoolsHold
<1>1. CASE c \in Known(s)
    BY <1>1 DEF PoolsHold, Grown
<1>2. CASE c \in Known(t) \ Known(s)
    <2>1. a[c] = {} /\ SlotOf(t, c) = NewManager
        BY <1>2 DEF PoolsHold, Grown
    <2>2. /\ NewManager.state = "live" /\ NewManager.entities = <<>>
          /\ NewManager.instances = <<>>
        BY DEF NewManager, Slot
    <2> QED
        BY <1>2, <2>1, <2>2 DEF Holds
<1>3. CASE c \notin Known(t)
    BY <1>3 DEF PoolsHold, Grown
<1> QED
    BY <1>1, <1>2, <1>3

\* An index that the pool has is found at its place, with its instance.
LEMMA FoundInPool ==
    ASSUME NEW pool \in Slots, NEW a, Holds(pool, a), NEW i \in DOMAIN pool.entities
    PROVE  /\ Contains(pool.entities, pool.entities[i])
           /\ Positions(pool, pool.entities[i]) = {i}
           /\ i \in DOMAIN pool.instances
           /\ ~MayMiss(pool, pool.entities[i])
           /\ Instances(pool, pool.entities[i]) = {i}
           /\ Comp(pool, pool.entities[i]) = pool.instances[i]
           /\ pool.instances[i] \in Values
           /\ <<pool.entities[i], pool.instances[i]>> \in a
<1> DEFINE idx == pool.entities[i]
<1>1. /\ pool.entities \in Seq(Nat) /\ pool.instances \in Seq(Values)
      /\ i \in DOMAIN pool.instances
    BY DEF Slots, Holds
<1>2. Contains(pool.entities, idx)
    BY <1>1 DEF Contains
<1>3. (CHOOSE j \in DOMAIN pool.entities : pool.entities[j] = idx) = i
    BY DEF Holds
<1>4. Positions(pool, idx) = {i}
    BY <1>2, <1>3 DEF Positions
<1>5. Comp(pool, idx) = pool.instances[i]
    <2>1. {pool.instances[pos] : pos \in Positions(pool, idx)} = {pool.instances[i]}
        BY <1>4
    <2> QED
        BY <2>1 DEF Comp
<1> HIDE DEF idx
<1>6. ~MayMiss(pool, idx) /\ Instances(pool, idx) = {i}
    BY <1>1, <1>4 DEF MayMiss, Instances
<1> QED
    BY <1>1, <1>2, <1>4, <1>5, <1>6 DEF Holds, idx

\* The indices in a pool are those that have something attached.
LEMMA ContainedIsAttached ==
    ASSUME NEW pool \in Slots, NEW a, Holds(pool, a), NEW idx
    PROVE  /\ Contains(pool.entities, idx) <=> \E p \in a : p[1] = idx
           /\ Contains(pool.entities, idx) <=>
                  \E i \in DOMAIN pool.entities : pool.entities[i] = idx
<1>1. Contains(pool.entities, idx) <=>
          \E i \in DOMAIN pool.entities : pool.entities[i] = idx
    BY DEF Contains, Slots
<1>2. ASSUME NEW p \in a, p[1] = idx
      PROVE  \E i \in DOMAIN pool.entities : pool.entities[i] = idx
    <2>1. PICK i \in DOMAIN pool.entities : p = <<pool.entities[i], pool.instances[i]>>
        BY DEF Holds
    <2> QED
        BY <1>2, <2>1
<1>3. ASSUME NEW i \in DOMAIN pool.entities, pool.entities[i] = idx
      PROVE  \E p \in a : p[1] = idx
    <2>1. <<pool.entities[i], pool.instances[i]>> \in a
        BY DEF Holds
    <2> QED
        BY <1>3, <2>1
<1> QED
    BY <1>1, <1>2, <1>3

\* An index that it does not have goes behind the others.
LEMMA AttachHolds ==
    ASSUME NEW s, NEW a, Numbered(s), PoolsHold(s, a), NEW c \in Known(s),
           NEW idx \in Nat, NEW v \in Values, \A p \in a[c] : p[1] # idx, NEW t,
           t = [ids |-> s.ids,
                slots |-> [s.slots EXCEPT ![s.ids[c] + 1] = Attach(@, idx, v)]]
    PROVE  /\ Numbered(t) /\ Known(t) = Known(s)
           /\ PoolsHold(t, [a EXCEPT ![c] = @ \cup {<<idx, v>>}])
           /\ \A d \in Known(s) \ {c} : SlotOf(t, d) = SlotOf(s, d)
<1> DEFINE pool == SlotOf(s, c)
           n    == Len(pool.entities)
           p    == Attach(pool, idx, v)
           b    == [a EXCEPT ![c] = @ \cup {<<idx, v>>}]
<1>1. c \in Components /\ pool \in Slots /\ Holds(pool, a[c])
    BY SlotIsSlot DEF Known, PoolsHold
<1>2. ~Contains(pool.entities, idx)
    BY <1>1, ContainedIsAttached
<1>3. p = [pool EXCEPT !.entities = Append(@, idx), !.instances = Append(@, v)]
    BY <1>2 DEF Attach
<1>4. /\ pool.entities \in Seq(Nat) /\ pool.instances \in Seq(Values)
      /\ n \in Nat /\ DOMAIN pool.entities = 1 .. n
      /\ Len(pool.instances) = n /\ pool.state = "live"
      /\ p.entities = Append(pool.entities, idx)
      /\ p.instances = Append(pool.instances, v)
      /\ p.state = "live"
    BY <1>1, <1>3 DEF Slots, Holds
<1>5. /\ p.entities \in Seq(Nat) /\ p.instances \in Seq(Values)
      /\ Len(p.entities) = n + 1 /\ Len(p.instances) = n + 1
      /\ p.entities[n + 1] = idx /\ p.instances[n + 1] = v
      /\ \A i \in 1 .. n : /\ p.entities[i] = pool.entities[i]
                           /\ p.instances[i] = pool.instances[i]
    BY <1>4, AppendProperties
<1>6. p \in Slots
    BY <1>1, <1>3, <1>4, <1>5 DEF Slots
<1>7. t = [ids |-> s.ids, slots |-> [s.slots EXCEPT ![s.ids[c] + 1] = p]]
    BY DEF SlotOf
<1> HIDE DEF p
<1>8. /\ Numbered(t) /\ Known(t) = Known(s) /\ SlotOf(t, c) = p
      /\ \A d \in Known(s) \ {c} : SlotOf(t, d) = SlotOf(s, d)
    BY <1>6, <1>7, SlotReplaced
<1> HIDE DEF pool
<1>9. /\ b \in [Components -> SUBSET (Nat \X Values)]
      /\ b[c] = a[c] \cup {<<idx, v>>} /\ \A d \in Components \ {c} : b[d] = a[d]
    BY <1>1 DEF PoolsHold
<1> HIDE DEF b
<1>10. Holds(p, b[c])
    <2>1. \A i \in 1 .. n : pool.entities[i] # idx
        <3>1. ~\E i \in DOMAIN pool.entities : pool.entities[i] = idx
            BY <1>1, <1>2, ContainedIsAttached
        <3> QED
            BY <1>4, <3>1
    <2>2. \A i, j \in 1 .. n + 1 : p.entities[i] = p.entities[j] => i = j
        <3>1. \A i, j \in 1 .. n : pool.entities[i] = pool.entities[j] => i = j
            BY <1>1, <1>4 DEF Holds
        <3> QED
            <4> SUFFICES ASSUME NEW i \in 1 .. n + 1, NEW j \in 1 .. n + 1,
                                p.entities[i] = p.entities[j]
                         PROVE  i = j
                OBVIOUS
            <4>1. CASE i \in 1 .. n /\ j \in 1 .. n
                BY <1>5, <3>1, <4>1
            <4>2. CASE i \in 1 .. n /\ j = n + 1
                BY <1>5, <2>1, <4>2
            <4>3. CASE i = n + 1 /\ j \in 1 .. n
                BY <1>5, <2>1, <4>3
            <4> QED
                BY <1>4, <4>1, <4>2, <4>3
    <2>3. ASSUME NEW q
          PROVE  q \in b[c] <=> \E i \in 1 .. n + 1 : q = <<p.entities[i], p.instances[i]>>
        <3>1. q \in a[c] <=> \E i \in 1 .. n : q = <<pool.entities[i], pool.instances[i]>>
            BY <1>1, <1>4 DEF Holds
        <3>2. (\E i \in 1 .. n + 1 : q = <<p.entities[i], p.instances[i]>>)
                  <=> \/ \E i \in 1 .. n : q = <<pool.entities[i], pool.instances[i]>>
                      \/ q = <<idx, v>>
            <4>1. (\E i \in 1 .. n + 1 : q = <<p.entities[i], p.instances[i]>>)
                     <=> \/ \E i \in 1 .. n : q = <<p.entities[i], p.instances[i]>>
                         \/ q = <<p.entities[n + 1], p.instances[n + 1]>>
                <5>1. 1 .. n + 1 = (1 .. n) \cup {n + 1}
                    BY <1>4
                <5> QED
                    BY <5>1, Zenon
            <4> QED
                BY <1>5, <4>1
        <3> QED
            BY <1>9, <3>1, <3>2
    <2>4. DOMAIN p.entities = 1 .. n + 1
        BY <1>4, <1>5
    <2> QED
        BY <1>4, <1>5, <2>2, <2>3, <2>4 DEF Holds
<1>11. PoolsHold(t, b)
    <2> SUFFICES ASSUME NEW d \in Components
                 PROVE  IF d \in Known(t) THEN Holds(SlotOf(t, d), b[d]) ELSE b[d] = {}
        BY <1>9 DEF PoolsHold
    <2>1. CASE d = c
        BY <1>8, <1>10, <2>1
    <2>2. CASE d # c
        BY <1>8, <1>9, <2>2 DEF PoolsHold
    <2> QED
        BY <2>1, <2>2
<1> QED
    BY <1>8, <1>11 DEF b

----------------------------------------------------------------------------
(* Loops over views.                                                       *)

Pools(s, cs) == [k \in DOMAIN cs |-> SlotOf(s, cs[k])]

\* Pools that may be viewed.
PoolsOf(s, cs) ==
    /\ cs \in ViewTypes
    /\ \A k \in DOMAIN cs : cs[k] \in Known(s)

\* A view goes over one component at least.
LEMMA PackIsFinite ==
    ASSUME NEW cs \in ViewTypes
    PROVE  /\ cs \in Seq(Components)
           /\ Len(cs) \in Nat \ {0}
           /\ DOMAIN cs = 1 .. Len(cs)
BY ViewTypesAssumption

\* One of the pools is the first of the smallest ones.
LEMMA LeadingIsPool ==
    ASSUME NEW s, Numbered(s), NEW cs, PoolsOf(s, cs)
    PROVE  PickLeading(Pools(s, cs)) \in DOMAIN cs
<1> DEFINE P  == Pools(s, cs)
           D  == DOMAIN cs
           size(k) == Len(P[k].entities)
<1>1. DOMAIN P = D /\ D # {} /\ D \subseteq Nat /\ \A k \in D : size(k) \in Nat
    <2>1. ASSUME NEW k \in D PROVE size(k) \in Nat
        <3>1. P[k] = SlotOf(s, cs[k]) /\ cs[k] \in Known(s)
            BY DEF Pools, PoolsOf
        <3>2. P[k] \in Slots
            BY <3>1, SlotIsSlot
        <3> QED
            BY <3>2 DEF Slots
    <2> QED
        BY <2>1, PackIsFinite DEF Pools, PoolsOf
<1> HIDE DEF P
<1>2. PICK m \in {size(k) : k \in D} : \A l \in {size(k) : k \in D} : m <= l
    <2>1. {size(k) : k \in D} \subseteq Nat /\ {size(k) : k \in D} # {}
        BY <1>1
    <2> HIDE DEF size
    <2> QED
        BY <2>1, LeastNumber
<1>3. m \in Nat /\ \A k \in D : m <= size(k)
    BY <1>1, <1>2
<1>4. PICK j \in {k \in D : size(k) = m} : \A k \in {k \in D : size(k) = m} : j <= k
    <2>1. {k \in D : size(k) = m} \subseteq Nat /\ {k \in D : size(k) = m} # {}
        BY <1>1, <1>2
    <2> HIDE DEF size
    <2> QED
        BY <2>1, LeastNumber
<1>5. \A k \in D : size(j) < size(k) \/ (size(j) = size(k) /\ j <= k)
    BY <1>1, <1>3, <1>4
<1>6. \E i \in DOMAIN P : \A k \in DOMAIN P :
          \/ Len(P[i].entities) < Len(P[k].entities)
          \/ Len(P[i].entities) = Len(P[k].entities) /\ i <= k
    BY <1>1, <1>4, <1>5
<1>7. PickLeading(P) \in DOMAIN P
    BY <1>6 DEF PickLeading
<1> QED
    BY <1>1, <1>7 DEF P

\* iter::next() passes only entities that lack a component.
LEMMA NextPlaceIsNext ==
    ASSUME NEW pools, NEW leading, NEW n \in Nat, Len(pools[leading].entities) = n,
           NEW i \in 1 .. n + 1
    PROVE  LET dense == pools[leading].entities
               next  == NextPlace(pools, leading, i)
           IN  /\ next \in i .. n + 1
               /\ next # n + 1 => HasAll(pools, dense[next])
               /\ \A k \in i .. next - 1 : ~HasAll(pools, dense[k])
<1> DEFINE dense == pools[leading].entities
           found == {k \in i .. n : HasAll(pools, dense[k])}
           next  == NextPlace(pools, leading, i)
<1>1. found \subseteq i .. n /\ \A k \in i .. n : k \in found <=> HasAll(pools, dense[k])
    OBVIOUS
<1>2. CASE found # {}
    <2>1. next = CHOOSE k \in found : \A m \in found : k <= m
        BY <1>2 DEF NextPlace
    <2> HIDE DEF found
    <2>2. \E k \in found : \A m \in found : k <= m
        <3>1. found \subseteq Nat
            BY <1>1
        <3> QED
            BY <1>2, <3>1, LeastNumber
    <2>3. next \in found /\ \A m \in found : next <= m
        BY <2>1, <2>2
    <2> HIDE DEF next, dense
    <2>4. next \in i .. n /\ HasAll(pools, dense[next])
        BY <1>1, <2>3
    <2>5. ASSUME NEW k \in i .. next - 1 PROVE ~HasAll(pools, dense[k])
        <3>1. k \in i .. n /\ ~(next <= k)
            BY <2>4
        <3> QED
            BY <1>1, <2>3, <3>1
    <2>6. next \in i .. n + 1 /\ next # n + 1
        BY <2>4
    <2> QED
        BY <2>4, <2>5, <2>6 DEF next, dense
<1>3. CASE found = {}
    <2>1. next = IF i > n THEN i ELSE n + 1
        BY <1>3 DEF NextPlace
    <2>2. next = n + 1
        BY <2>1
    <2> HIDE DEF found, next
    <2> QED
        BY <1>1, <1>3, <2>2 DEF next
<1> QED
    BY <1>2, <1>3

\* What a loop over cs has visited when it has looked at the places before i:
\* the entities there that have all components, with their instances.
Covered(s, a, cs, leading, i, visited) ==
    LET dense == Pools(s, cs)[leading].entities
    IN  /\ visited \in Seq([index : Nat, values : [DOMAIN cs -> Values]])
        /\ \A j \in DOMAIN visited : \E k \in DOMAIN dense :
               k < i /\ visited[j].index = dense[k] /\ HasAll(Pools(s, cs), dense[k])
        /\ \A k \in DOMAIN dense :
               k < i /\ HasAll(Pools(s, cs), dense[k]) =>
                   \E j \in DOMAIN visited : visited[j].index = dense[k]
        /\ \A j, k \in DOMAIN visited : visited[j].index = visited[k].index => j = k
        /\ \A j \in DOMAIN visited, k \in DOMAIN cs :
               <<visited[j].index, visited[j].values[k]>> \in a[cs[k]]

IsLoop(v) ==
    v = [comps |-> v.comps, leading |-> v.leading, i |-> v.i, end |-> v.end,
         visited |-> v.visited]

\* The iterator of a loop that goes on is at an entity that has been visited.
LoopHolds(s, a, v) ==
    /\ IsLoop(v)
    /\ PoolsOf(s, v.comps)
    /\ v.leading \in DOMAIN v.comps
    /\ v.end = Len(Pools(s, v.comps)[v.leading].entities) + 1
    /\ v.i \in 1 .. v.end
    /\ Covered(s, a, v.comps, v.leading, v.i + 1, v.visited)

\* All pools of a view are managers that hold what was attached.
LEMMA PoolOfView ==
    ASSUME NEW s, NEW a, Numbered(s), PoolsHold(s, a), NEW cs, PoolsOf(s, cs),
           NEW k \in DOMAIN cs
    PROVE  /\ Pools(s, cs)[k] = SlotOf(s, cs[k])
           /\ cs[k] \in Components
           /\ Pools(s, cs)[k] \in Slots
           /\ Holds(Pools(s, cs)[k], a[cs[k]])
<1>1. cs[k] \in Known(s) /\ cs[k] \in Components
    BY DEF PoolsOf, Known
<1>2. Pools(s, cs)[k] = SlotOf(s, cs[k])
    BY DEF Pools
<1> QED
    BY <1>1, <1>2, SlotIsSlot DEF PoolsHold

\* Nothing is missing where all pools contain the index.
LEMMA AllInstances ==
    ASSUME NEW s, NEW a, Numbered(s), PoolsHold(s, a), NEW cs, PoolsOf(s, cs),
           NEW idx, HasAll(Pools(s, cs), idx), NEW k \in DOMAIN cs
    PROVE  /\ ~MayMiss(Pools(s, cs)[k], idx)
           /\ Comp(Pools(s, cs)[k], idx) \in Values
           /\ <<idx, Comp(Pools(s, cs)[k], idx)>> \in a[cs[k]]
<1> DEFINE pool == Pools(s, cs)[k]
<1>1. pool \in Slots /\ Holds(pool, a[cs[k]])
    BY PoolOfView
<1>2. DOMAIN Pools(s, cs) = DOMAIN cs
    BY DEF Pools
<1>3. Contains(pool.entities, idx)
    BY <1>2 DEF HasAll
<1> HIDE DEF pool
<1>4. PICK i \in DOMAIN pool.entities : pool.entities[i] = idx
    BY <1>1, <1>3, ContainedIsAttached
<1> QED
    BY <1>1, <1>4, FoundInPool DEF pool

\* begin() and ++: from a place where everything before it has been looked at,
\* the loop comes to the next one, and never to one it must not be at.
LEMMA LoopGoesOn ==
    ASSUME NEW s, NEW a, Numbered(s), PoolsHold(s, a), NEW v,
           v = [comps |-> v.comps, leading |-> v.leading, i |-> v.i, end |-> v.end,
                visited |-> v.visited],
           PoolsOf(s, v.comps), v.leading \in DOMAIN v.comps,
           v.end = Len(Pools(s, v.comps)[v.leading].entities) + 1,
           NEW i \in 1 .. v.end,
           v.i = NextPlace(Pools(s, v.comps), v.leading, i),
           Covered(s, a, v.comps, v.leading, i, v.visited)
    PROVE  /\ \A k \in DOMAIN v.comps : Pools(s, v.comps)[k].state = "live"
           /\ Dereferenceable(Pools(s, v.comps), v)
           /\ LoopHolds(s, a, Visit(Pools(s, v.comps), v))
<1> DEFINE cs == v.comps
           pools == Pools(s, cs)
           dense == pools[v.leading].entities
           n == Len(dense)
           idx == dense[v.i]
           rec == [index |-> idx, values |-> [k \in DOMAIN cs |-> Comp(pools[k], idx)]]
           w == Visit(pools, v)
<1>1. /\ \A k \in DOMAIN cs : pools[k] \in Slots /\ Holds(pools[k], a[cs[k]])
      /\ DOMAIN pools = DOMAIN cs
    BY PoolOfView DEF Pools
<1> HIDE DEF pools
<1>2. dense \in Seq(Nat) /\ n \in Nat /\ DOMAIN dense = 1 .. n /\ v.end = n + 1
    BY <1>1 DEF Slots, pools
<1>3. /\ v.i \in i .. n + 1
      /\ v.i # n + 1 => HasAll(pools, idx)
      /\ \A k \in i .. v.i - 1 : ~HasAll(pools, dense[k])
    <2>1. v.i = NextPlace(pools, v.leading, i)
        BY DEF pools
    <2>2. n \in Nat /\ Len(pools[v.leading].entities) = n /\ i \in 1 .. n + 1
        BY <1>2
    <2> HIDE DEF n
    <2> QED
        BY <2>1, <2>2, NextPlaceIsNext
<1>4. \A k \in DOMAIN cs : pools[k].state = "live"
    BY <1>1 DEF Holds
<1>5. Dereferenceable(pools, v)
    <2>1. ASSUME v.i # n + 1, NEW k \in DOMAIN cs PROVE ~MayMiss(pools[k], idx)
        BY <1>3, <2>1, AllInstances DEF pools
    <2> QED
        BY <1>1, <1>2, <1>3, <2>1 DEF Dereferenceable
<1> HIDE DEF dense
<1>6. Covered(s, a, cs, v.leading, v.i, v.visited)
    <2>1. ASSUME NEW k \in DOMAIN dense, k < v.i, HasAll(pools, dense[k])
          PROVE  k < i
        <3> SUFFICES ASSUME ~(k < i) PROVE FALSE
            OBVIOUS
        <3>1. k \in 1 .. n /\ k < v.i /\ v.i \in i .. n + 1
            BY <1>2, <1>3, <2>1
        <3>2. k \in i .. v.i - 1
            BY <3>1
        <3> QED
            BY <1>3, <2>1, <3>2
    <2>2. \A k \in DOMAIN dense : k < i => k < v.i
        BY <1>2, <1>3
    <2> QED
        BY <2>1, <2>2 DEF Covered, dense, pools
<1>7. CASE v.i = v.end
    <2>1. w = v
        BY <1>7 DEF Visit
    <2>2. \A k \in DOMAIN dense : k < v.i + 1 <=> k < v.i
        BY <1>2, <1>7
    <2>3. Covered(s, a, cs, v.leading, v.i + 1, v.visited)
        BY <1>6, <2>2 DEF Covered, dense, pools
    <2> QED
        BY <1>1, <1>2, <1>3, <1>4, <1>5, <2>1, <2>3 DEF LoopHolds, IsLoop, pools
<1>8. CASE v.i # v.end
    <2>1. v.i \in 1 .. n /\ HasAll(pools, idx) /\ idx \in Nat
        BY <1>2, <1>3, <1>8
    <2>2. rec \in [index : Nat, values : [DOMAIN cs -> Values]]
        BY <2>1, AllInstances DEF pools
    <2>3. \A k \in DOMAIN cs : <<rec.index, rec.values[k]>> \in a[cs[k]]
        BY <2>1, AllInstances DEF pools
    <2>4. w = [v EXCEPT !.visited = Append(@, rec)]
        BY <1>1, <1>8 DEF Visit, dense
    <2> HIDE DEF rec, w
    <2>5. /\ w.comps = v.comps /\ w.leading = v.leading /\ w.i = v.i /\ w.end = v.end
          /\ w.visited = Append(v.visited, rec)
          /\ IsLoop(w)
        BY <2>4 DEF IsLoop
    <2> DEFINE m == Len(v.visited)
    <2>6. /\ m \in Nat /\ DOMAIN v.visited = 1 .. m
          /\ w.visited \in Seq([index : Nat, values : [DOMAIN cs -> Values]])
          /\ DOMAIN w.visited = 1 .. m + 1
          /\ w.visited[m + 1] = rec
          /\ \A j \in 1 .. m : w.visited[j] = v.visited[j]
        <3>1. v.visited \in Seq([index : Nat, values : [DOMAIN cs -> Values]])
            BY <1>6 DEF Covered
        <3> QED
            BY <2>2, <2>5, <3>1, AppendProperties
    <2>7. rec.index = idx
        BY DEF rec
    <2>8. ASSUME NEW j \in DOMAIN w.visited
          PROVE  \E k \in DOMAIN dense : k < v.i + 1 /\ w.visited[j].index = dense[k]
                                         /\ HasAll(pools, dense[k])
        <3>1. CASE j = m + 1
            <4>1. v.i \in DOMAIN dense /\ v.i < v.i + 1 /\ w.visited[j].index = dense[v.i]
                BY <1>2, <2>1, <2>6, <2>7, <3>1
            <4> QED
                BY <2>1, <4>1
        <3>2. CASE j # m + 1
            <4>1. j \in DOMAIN v.visited /\ w.visited[j] = v.visited[j]
                BY <2>6, <3>2
            <4>2. PICK k \in DOMAIN dense :
                      k < v.i /\ v.visited[j].index = dense[k] /\ HasAll(pools, dense[k])
                BY <1>6, <4>1 DEF Covered, dense, pools
            <4> QED
                BY <1>2, <2>1, <4>1, <4>2
        <3> QED
            BY <3>1, <3>2
    <2>9. ASSUME NEW k \in DOMAIN dense, k < v.i + 1, HasAll(pools, dense[k])
          PROVE  \E j \in DOMAIN w.visited : w.visited[j].index = dense[k]
        <3>1. CASE k = v.i
            BY <2>6, <2>7, <3>1
        <3>2. CASE k < v.i
            <4>1. PICK j \in DOMAIN v.visited : v.visited[j].index = dense[k]
                BY <1>6, <2>9, <3>2 DEF Covered, dense, pools
            <4> QED
                BY <2>6, <4>1
        <3> QED
            BY <1>2, <2>1, <2>9, <3>1, <3>2
    <2>10. \A j \in 1 .. m : v.visited[j].index # idx
        <3> SUFFICES ASSUME NEW j \in 1 .. m, v.visited[j].index = idx PROVE FALSE
            OBVIOUS
        <3>1. PICK k \in DOMAIN dense : k < v.i /\ v.visited[j].index = dense[k]
            BY <1>6, <2>6 DEF Covered, dense, pools
        <3>2. \A g, h \in DOMAIN dense : dense[g] = dense[h] => g = h
            BY <1>1 DEF Holds, dense
        <3>3. v.i \in DOMAIN dense /\ dense[k] = dense[v.i]
            BY <1>2, <2>1, <3>1
        <3>4. k = v.i
            BY <3>2, <3>3
        <3> QED
            BY <1>2, <2>1, <3>1, <3>4
    <2>11. ASSUME NEW j \in DOMAIN w.visited, NEW k \in DOMAIN w.visited,
                  w.visited[j].index = w.visited[k].index
           PROVE  j = k
        <3>1. \A g, h \in 1 .. m : v.visited[g].index = v.visited[h].index => g = h
            BY <1>6, <2>6 DEF Covered
        <3>2. CASE j \in 1 .. m /\ k \in 1 .. m
            BY <2>6, <2>11, <3>1, <3>2
        <3>3. CASE j \in 1 .. m /\ k = m + 1
            BY <2>6, <2>7, <2>10, <2>11, <3>3
        <3>4. CASE j = m + 1 /\ k \in 1 .. m
            BY <2>6, <2>7, <2>10, <2>11, <3>4
        <3> QED
            BY <2>6, <3>2, <3>3, <3>4
    <2>12. ASSUME NEW j \in DOMAIN w.visited, NEW k \in DOMAIN cs
           PROVE  <<w.visited[j].index, w.visited[j].values[k]>> \in a[cs[k]]
        <3>1. CASE j = m + 1
            BY <2>3, <2>6, <3>1
        <3>2. CASE j # m + 1
            <4>1. j \in DOMAIN v.visited /\ w.visited[j] = v.visited[j]
                BY <2>6, <3>2
            <4>2. <<v.visited[j].index, v.visited[j].values[k]>> \in a[cs[k]]
                BY <1>6, <4>1 DEF Covered
            <4> QED
                BY <4>1, <4>2
        <3> QED
            BY <3>1, <3>2
    <2>13. Covered(s, a, cs, v.leading, v.i + 1, w.visited)
        BY <2>6, <2>8, <2>9, <2>11, <2>12 DEF Covered, dense, pools
    <2>14. LoopHolds(s, a, w)
        BY <1>2, <1>3, <2>1, <2>5, <2>13 DEF LoopHolds, dense, pools
    <2> QED
        BY <1>4, <1>5, <2>14 DEF w, pools
<1> QED
    BY <1>7, <1>8

\* A loop goes on as it was while its pools stay as they are.
LEMMA LoopKept ==
    ASSUME NEW s, NEW a, NEW t, NEW b, NEW v, LoopHolds(s, a, v),
           \A k \in DOMAIN v.comps : /\ v.comps[k] \in Known(t)
                                     /\ SlotOf(t, v.comps[k]) = SlotOf(s, v.comps[k])
                                     /\ b[v.comps[k]] = a[v.comps[k]]
    PROVE  LoopHolds(t, b, v)
<1>1. Pools(t, v.comps) = Pools(s, v.comps)
    BY DEF Pools
<1>2. PoolsOf(t, v.comps)
    BY DEF LoopHolds, PoolsOf
<1>3. Covered(t, b, v.comps, v.leading, v.i + 1, v.visited)
    BY <1>1 DEF LoopHolds, Covered
<1> QED
    BY <1>1, <1>2, <1>3 DEF LoopHolds

CarefulInv ==
    /\ IInv
    /\ Numbered(Now)
    /\ PoolsHold(Now, attached)
    /\ view # NoView => LoopHolds(Now, attached, view)
    /\ ~undefined

\* A new ecs.
LEMMA CarefulInit == Init => CarefulInv
<1> SUFFICES ASSUME Init PROVE PoolsHold(Now, attached) /\ view = NoView /\ ~undefined
    BY CountInit DEF CarefulInv, CountInv
<1>1. ids = [c \in Components |-> NoId] /\ attached = [c \in Components |-> {}]
    BY DEF Init
<1>2. Known(Now) = {}
    BY <1>1 DEF Known, Now
<1>3. PoolsHold(Now, attached)
    BY <1>1, <1>2 DEF PoolsHold
<1> QED
    BY <1>3 DEF Init

\* What stays when managers are asked for.
LEMMA TouchKeeps ==
    ASSUME CarefulInv, NEW cs \in Seq(Components)
    PROVE  /\ Numbered(Touched(cs))
           /\ PoolsHold(Touched(cs), attached)
           /\ \A k \in DOMAIN cs : cs[k] \in Known(Touched(cs))
           /\ view # NoView => LoopHolds(Touched(cs), attached, view)
           /\ Touched(cs) = [ids |-> Touched(cs).ids, slots |-> Touched(cs).slots]
<1> DEFINE C == {cs[k] : k \in DOMAIN cs}
           s == Touched(cs)
<1>1. Grown(Now, s, C) /\ s = [ids |-> s.ids, slots |-> s.slots]
    BY TouchedGrows DEF CarefulInv, Now
<1> HIDE DEF s
<1>2. Numbered(s) /\ PoolsHold(s, attached)
    BY <1>1, GrownHolds DEF CarefulInv, Grown
<1>3. \A k \in DOMAIN cs : cs[k] \in Known(s)
    BY <1>1 DEF Grown
<1>4. ASSUME view # NoView PROVE LoopHolds(s, attached, view)
    <2>1. LoopHolds(Now, attached, view)
        BY <1>4 DEF CarefulInv
    <2>2. \A k \in DOMAIN view.comps : /\ view.comps[k] \in Known(s)
                                       /\ SlotOf(s, view.comps[k]) = SlotOf(Now, view.comps[k])
        BY <1>1, <2>1 DEF Grown, LoopHolds, PoolsOf
    <2> QED
        BY <2>1, <2>2, LoopKept
<1> QED
    BY <1>1, <1>2, <1>3, <1>4 DEF s

\* add_component for an entity that does not have the component.
LEMMA AddKeeps ==
    ASSUME CarefulInv, NEW c \in Components, NEW e \in held, NEW v \in Values,
           ~Attached(c, e), ~Viewed(c), AddComponent(c, e, v), IInv'
    PROVE  CarefulInv'
<1> DEFINE s == Touched(<<c>>)
           t == [ids   |-> s.ids,
                 slots |-> [s.slots EXCEPT ![s.ids[c] + 1] = Attach(@, e.index, v)]]
           b == [attached EXCEPT ![c] = @ \cup {<<e.index, v>>}]
<1>1. /\ Numbered(s) /\ PoolsHold(s, attached) /\ c \in Known(s)
      /\ view # NoView => LoopHolds(s, attached, view)
    <2>1. <<c>> \in Seq(Components) /\ <<c>>[1] = c /\ 1 \in DOMAIN <<c>>
        OBVIOUS
    <2> QED
        BY <2>1, TouchKeeps
<1>2. e.index \in Nat /\ e.index < Len(entities) /\ entities[e.index + 1].index = e.index
    BY Lookup DEF CarefulInv
<1>3. SlotOf(s, c).state = "live"
    BY <1>1 DEF PoolsHold, Holds
<1>4. Now' = t /\ attached' = b /\ UNCHANGED <<view, undefined>>
    BY <1>2, <1>3 DEF AddComponent, Now
<1>5. \A p \in attached[c] : p[1] # e.index
    BY DEF Attached
<1> HIDE DEF s
<1>6. /\ Numbered(t) /\ Known(t) = Known(s) /\ PoolsHold(t, b)
      /\ \A d \in Known(s) \ {c} : SlotOf(t, d) = SlotOf(s, d)
    BY <1>1, <1>2, <1>5, AttachHolds
<1> HIDE DEF t
<1>7. ASSUME view # NoView PROVE LoopHolds(t, b, view)
    <2>1. LoopHolds(s, attached, view)
        BY <1>1, <1>7
    <2>2. ASSUME NEW k \in DOMAIN view.comps
          PROVE  /\ view.comps[k] \in Known(t)
                 /\ SlotOf(t, view.comps[k]) = SlotOf(s, view.comps[k])
                 /\ b[view.comps[k]] = attached[view.comps[k]]
        <3>1. view.comps \in ViewTypes /\ view.comps[k] \in Known(s)
            BY <2>1 DEF LoopHolds, PoolsOf
        <3>2. DOMAIN view.comps = 1 .. Len(view.comps)
            BY <3>1, PackIsFinite
        <3>3. view.comps[k] # c
            BY <1>7, <3>2 DEF Viewed, Contains
        <3>4. attached \in [Components -> SUBSET (Nat \X Values)] /\ view.comps[k] \in Components
            BY <1>1, <3>1 DEF PoolsHold, Known
        <3> QED
            BY <1>6, <3>1, <3>3, <3>4
    <2> HIDE DEF b
    <2> QED
        BY <2>1, <2>2, LoopKept
<1> HIDE DEF b
<1> QED
    BY <1>4, <1>6, <1>7 DEF CarefulInv

\* An entity that has the component is given its instance.
LEMMA GetKeeps ==
    ASSUME CarefulInv, NEW c \in Components, NEW e \in held,
           Attached(c, e), GetComponent(c, e), IInv'
    PROVE  CarefulInv'
<1> DEFINE s == Touched(<<c>>)
           pool == SlotOf(s, c)
<1>1. /\ Numbered(s) /\ PoolsHold(s, attached) /\ c \in Known(s)
      /\ view # NoView => LoopHolds(s, attached, view)
      /\ s = [ids |-> s.ids, slots |-> s.slots]
    <2>1. <<c>> \in Seq(Components) /\ <<c>>[1] = c /\ 1 \in DOMAIN <<c>>
        OBVIOUS
    <2> QED
        BY <2>1, TouchKeeps
<1>2. pool \in Slots /\ Holds(pool, attached[c])
    BY <1>1, SlotIsSlot DEF PoolsHold
<1>3. pool.state = "live" /\ ~MayMiss(pool, e.index)
    <2> HIDE DEF pool
    <2>1. Contains(pool.entities, e.index)
        BY <1>2, ContainedIsAttached DEF Attached
    <2>2. PICK i \in DOMAIN pool.entities : pool.entities[i] = e.index
        BY <1>2, <2>1, ContainedIsAttached
    <2>3. ~MayMiss(pool, e.index)
        BY <1>2, <2>2, FoundInPool
    <2> QED
        BY <1>2, <2>3 DEF Holds
<1>4. /\ ids' = s.ids /\ component_managers' = s.slots
      /\ UNCHANGED <<view, undefined, attached>>
    BY <1>3 DEF GetComponent
<1>5. Now' = s
    BY <1>1, <1>4 DEF Now
<1> HIDE DEF s
<1> QED
    BY <1>1, <1>4, <1>5 DEF CarefulInv

\* LoopTo never breaks off where LoopGoesOn applies.
LEMMA LoopToKeeps ==
    ASSUME NEW s, NEW a, Numbered(s), PoolsHold(s, a), NEW v, IsLoop(v),
           PoolsOf(s, v.comps), v.leading \in DOMAIN v.comps,
           v.end = Len(Pools(s, v.comps)[v.leading].entities) + 1,
           NEW i \in 1 .. v.end,
           v.i = NextPlace(Pools(s, v.comps), v.leading, i),
           Covered(s, a, v.comps, v.leading, i, v.visited),
           LoopTo(Pools(s, v.comps), v)
    PROVE  LoopHolds(s, a, view') /\ UNCHANGED <<undefined, attached>>
<1>1. /\ \A k \in DOMAIN v.comps : Pools(s, v.comps)[k].state = "live"
      /\ Dereferenceable(Pools(s, v.comps), v)
      /\ LoopHolds(s, a, Visit(Pools(s, v.comps), v))
    BY LoopGoesOn DEF IsLoop
<1>2. DOMAIN Pools(s, v.comps) = DOMAIN v.comps
    BY DEF Pools
<1> QED
    BY <1>1, <1>2 DEF LoopTo

\* A loop begins: managers are asked for, a pool leads, the first place is found.
LEMMA ViewBeginKeeps ==
    ASSUME CarefulInv, NEW cs \in ViewTypes, ViewBegin(cs), IInv'
    PROVE  CarefulInv'
<1> DEFINE s == Touched(cs)
           P == Pools(s, cs)
           leading == PickLeading(P)
           v == [comps |-> cs, leading |-> leading, i |-> NextPlace(P, leading, 1),
                 end |-> Len(P[leading].entities) + 1, visited |-> <<>>]
<1>1. /\ Numbered(s) /\ PoolsHold(s, attached)
      /\ s = [ids |-> s.ids, slots |-> s.slots]
      /\ PoolsOf(s, cs)
    BY PackIsFinite, TouchKeeps DEF PoolsOf
<1>2. /\ ids' = s.ids /\ component_managers' = s.slots
      /\ LoopTo(P, v)
    BY DEF ViewBegin, Pools
<1>3. Now' = s
    BY <1>1, <1>2 DEF Now
<1> HIDE DEF s
<1>4. leading \in DOMAIN cs
    BY <1>1, LeadingIsPool
<1>5. P[leading] \in Slots
    BY <1>1, <1>4, PoolOfView
<1> HIDE DEF leading
<1>6. Len(P[leading].entities) \in Nat /\ DOMAIN P[leading].entities \subseteq Nat \ {0}
    BY <1>5 DEF Slots
<1> HIDE DEF P
<1>7. /\ IsLoop(v) /\ v.comps = cs /\ v.leading = leading
      /\ v.end = Len(P[leading].entities) + 1 /\ 1 \in 1 .. v.end
      /\ v.i = NextPlace(P, leading, 1) /\ v.visited = <<>>
    BY <1>6 DEF IsLoop
<1>8. Covered(s, attached, cs, leading, 1, <<>>)
    <2>1. \A k \in DOMAIN P[leading].entities : ~(k < 1)
        BY <1>6
    <2> QED
        BY <2>1 DEF Covered, P
<1> HIDE DEF v
<1>9. LoopHolds(s, attached, view') /\ UNCHANGED <<undefined, attached>>
    BY <1>1, <1>2, <1>4, <1>7, <1>8, LoopToKeeps DEF P
<1> QED
    BY <1>1, <1>3, <1>9 DEF CarefulInv

\* The loop goes on behind the place where it is.
LEMMA ViewStepKeeps ==
    ASSUME CarefulInv, ViewStep, IInv'
    PROVE  CarefulInv'
<1> DEFINE P == Pools(Now, view.comps)
           v == [view EXCEPT !.i = NextPlace(P, view.leading, @ + 1)]
           n == Len(P[view.leading].entities)
<1>1. ViewedPools = P
    BY DEF ViewedPools, Pools, SlotOf, Now
<1>2. /\ view # NoView /\ view.i # view.end
      /\ LoopTo(P, v)
      /\ UNCHANGED componentVars
    BY <1>1 DEF ViewStep
<1>3. LoopHolds(Now, attached, view)
    BY <1>2 DEF CarefulInv
<1>4. P[view.leading] \in Slots
    BY <1>3, PoolOfView DEF LoopHolds, CarefulInv
<1>5. n \in Nat /\ view.end = n + 1 /\ view.i \in 1 .. n
    BY <1>2, <1>3, <1>4 DEF LoopHolds, Slots
<1> HIDE DEF P
<1>6. /\ IsLoop(v) /\ v.comps = view.comps /\ v.leading = view.leading
      /\ v.end = view.end /\ v.visited = view.visited
      /\ v.i = NextPlace(P, view.leading, view.i + 1)
    BY <1>3 DEF LoopHolds, IsLoop
<1>7. view.i + 1 \in 1 .. v.end
    BY <1>5, <1>6
<1> HIDE DEF v
<1>8. LoopHolds(Now, attached, view') /\ UNCHANGED <<undefined, attached>>
    BY <1>2, <1>3, <1>6, <1>7, LoopToKeeps DEF P, CarefulInv, LoopHolds
<1>9. Now' = Now
    BY <1>2 DEF Now, componentVars
<1> QED
    BY <1>8, <1>9 DEF CarefulInv

\* Steps that touch no pool.
LEMMA OtherKeeps ==
    ASSUME CarefulInv, IInv',
           \/ ViewEnd \/ CreateEntity \/ UNCHANGED vars
           \/ \E e \in held : DestroyEntity(e)
    PROVE  CarefulInv'
<1>1. UNCHANGED <<componentVars, undefined, attached>> /\ (view' = view \/ view' = NoView)
    BY DEF ViewEnd, CreateEntity, DestroyEntity, vars
<1>2. Now' = Now
    BY <1>1 DEF Now, componentVars
<1> QED
    BY <1>1, <1>2 DEF CarefulInv

\* Every step that removes no component keeps the invariant.
LEMMA CarefulStep == CarefulInv /\ [CarefulNext]_vars => CarefulInv'
<1> SUFFICES ASSUME CarefulInv, [CarefulNext]_vars PROVE CarefulInv'
    OBVIOUS
<1>1. IInv'
    BY PlacesStep DEF CarefulInv
<1>2. CASE \E c \in Components, e \in held, v \in Values :
               ~Attached(c, e) /\ ~Viewed(c) /\ AddComponent(c, e, v)
    BY <1>1, <1>2, AddKeeps
<1>3. CASE \E c \in Components, e \in held : Attached(c, e) /\ GetComponent(c, e)
    BY <1>1, <1>3, GetKeeps
<1>4. CASE \E cs \in ViewTypes : ViewBegin(cs)
    BY <1>1, <1>4, ViewBeginKeeps
<1>5. CASE ViewStep
    BY <1>1, <1>5, ViewStepKeeps
<1>6. CASE \/ ViewEnd \/ CreateEntity \/ UNCHANGED vars
           \/ \E e \in held : DestroyEntity(e)
    BY <1>1, <1>6, OtherKeeps
<1> QED
    BY <1>2, <1>3, <1>4, <1>5, <1>6 DEF CarefulNext, Common

\* The invariant that the theorems below follow from: as long as no component was
\* removed, no step before was a removal.
LEMMA CarefulAlways == Spec => [](~removed => CarefulInv)
<1>1. (~removed => CarefulInv) /\ [Next]_<<vars, removed>> => (~removed => CarefulInv)'
    <2> SUFFICES ASSUME ~removed => CarefulInv, [Next]_<<vars, removed>>, ~removed'
                 PROVE  CarefulInv'
        OBVIOUS
    <2>1. ~removed /\ [CarefulNext]_vars
        BY DEF Next
    <2> QED
        BY <2>1, CarefulStep
<1> QED
    BY <1>1, CarefulInit, PTL DEF Spec

\* Until a removal, what get_component finds for an entity is what was added to it,
\* whatever was added to other entities before or after (component.h:27-60,
\* ecs.h:92-97).
THEOREM InstancesCorrect == Spec => []OwnInstance
<1>1. ASSUME ~removed => CarefulInv PROVE OwnInstance
    <2> SUFFICES ASSUME ~removed, NEW c \in Components, NEW p \in attached[c]
                 PROVE  /\ ids[c] # NoId /\ ids[c] < Len(component_managers)
                        /\ \A pos \in Positions(SlotOf(Now, c), p[1]) :
                               /\ pos \in DOMAIN SlotOf(Now, c).instances
                               /\ SlotOf(Now, c).instances[pos] = p[2]
        BY DEF OwnInstance, SlotOf, Now
    <2> DEFINE pool == SlotOf(Now, c)
    <2>1. c \in Known(Now)
        BY <1>1 DEF CarefulInv, PoolsHold
    <2>2. ids[c] # NoId /\ ids[c] < Len(component_managers)
        BY <1>1, <2>1 DEF CarefulInv, Numbered, Known, Now
    <2>3. pool \in Slots /\ Holds(pool, attached[c])
        BY <1>1, <2>1, SlotIsSlot DEF CarefulInv, PoolsHold
    <2> HIDE DEF pool
    <2>4. PICK i \in DOMAIN pool.entities : p = <<pool.entities[i], pool.instances[i]>>
        BY <2>3 DEF Holds
    <2>5. Positions(pool, p[1]) = {i} /\ i \in DOMAIN pool.instances
        BY <2>3, <2>4, FoundInPool
    <2> QED
        BY <2>2, <2>4, <2>5 DEF pool
<1> QED
    BY <1>1, CarefulAlways, PTL

\* Until a removal, nothing goes through memory that holds no manager, no entity or
\* no instance, a loop over a view as little as a call.
THEOREM EcsDefined == Spec => []NeverUndefined
<1>1. (~removed => CarefulInv) => NeverUndefined
    BY DEF CarefulInv, NeverUndefined
<1> QED
    BY <1>1, CarefulAlways, PTL

\* Until a removal, a loop over a view visits every entity that has all its
\* components once, and no other, with its own instances, whichever pool leads
\* (view.h:83-97) and whatever else the loop's body does.
THEOREM ViewCorrect == Spec => []ViewIsExact
<1>1. ASSUME CarefulInv, view # NoView, view.i = view.end PROVE ViewIsExact
    <2> DEFINE cs == view.comps
               seen == view.visited
               P == Pools(Now, cs)
               dense == P[view.leading].entities
               have(c) == {p[1] : p \in attached[c]}
    <2>1. /\ LoopHolds(Now, attached, view) /\ Numbered(Now) /\ PoolsHold(Now, attached)
          /\ PoolsOf(Now, cs) /\ view.leading \in DOMAIN cs
        BY <1>1 DEF CarefulInv, LoopHolds
    <2>2. DOMAIN P = DOMAIN cs
          /\ \A k \in DOMAIN cs : P[k] \in Slots /\ Holds(P[k], attached[cs[k]])
        BY <2>1, PoolOfView DEF Pools
    <2> HIDE DEF P
    <2>3. \A idx, k : k \in DOMAIN cs => (Contains(P[k].entities, idx) <=> idx \in have(cs[k]))
        <3> SUFFICES ASSUME NEW idx, NEW k \in DOMAIN cs
                     PROVE  Contains(P[k].entities, idx) <=> idx \in have(cs[k])
            OBVIOUS
        <3>1. Contains(P[k].entities, idx) <=> \E p \in attached[cs[k]] : p[1] = idx
            <4> DEFINE pool == P[k]
                       a    == attached[cs[k]]
            <4>1. pool \in Slots /\ Holds(pool, a)
                BY <2>2
            <4> HIDE DEF pool, a
            <4>2. Contains(pool.entities, idx) <=> \E p \in a : p[1] = idx
                BY <4>1, ContainedIsAttached
            <4> QED
                BY <4>2 DEF pool, a
        <3> QED
            BY <3>1
    <2>4. \A idx : HasAll(P, idx) <=> \A k \in DOMAIN cs : idx \in have(cs[k])
        BY <2>2, <2>3 DEF HasAll
    <2>5. view.end = Len(dense) + 1 /\ Len(dense) \in Nat /\ DOMAIN dense = 1 .. Len(dense)
        BY <2>1, <2>2 DEF LoopHolds, Slots, P
    <2>6. Covered(Now, attached, cs, view.leading, view.i + 1, seen)
        BY <2>1 DEF LoopHolds
    <2>7. \A k \in DOMAIN dense : k < view.i + 1
        BY <1>1, <2>5
    <2>8. ASSUME NEW j \in DOMAIN seen
          PROVE  \A k \in DOMAIN cs : seen[j].index \in have(cs[k])
        <3>1. HasAll(P, seen[j].index)
            BY <2>6 DEF Covered, P
        <3> HIDE DEF have
        <3> QED
            BY <2>4, <3>1
    <2>9. ASSUME NEW idx, \A k \in DOMAIN cs : idx \in have(cs[k])
          PROVE  \E j \in DOMAIN seen : seen[j].index = idx
        <3>1. HasAll(P, idx)
            BY <2>4, <2>9
        <3>2. Contains(dense, idx)
            BY <2>1, <2>2, <3>1 DEF HasAll
        <3>3. PICK k \in DOMAIN dense : dense[k] = idx
            BY <2>5, <3>2 DEF Contains
        <3> QED
            BY <2>6, <2>7, <3>1, <3>3 DEF Covered, P
    <2>10. 1 \in DOMAIN cs /\ Head(cs) = cs[1]
        BY <2>1, PackIsFinite DEF PoolsOf
    <2>11. {seen[j].index : j \in DOMAIN seen}
               = {idx \in have(Head(cs)) : \A k \in DOMAIN cs : idx \in have(cs[k])}
        <3> HIDE DEF have
        <3> QED
            BY <2>8, <2>9, <2>10
    <2>12. /\ \A j, k \in DOMAIN seen : seen[j].index = seen[k].index => j = k
           /\ \A j \in DOMAIN seen, k \in DOMAIN cs :
                  <<seen[j].index, seen[j].values[k]>> \in attached[cs[k]]
        BY <2>6 DEF Covered
    <2> QED
        BY <2>11, <2>12 DEF ViewIsExact
<1>2. (~removed => CarefulInv) => ViewIsExact
    BY <1>1 DEF ViewIsExact
<1> QED
    BY <1>2, CarefulAlways, PTL
=============================================================================
