------------------------ MODULE EntityManagerProofs ------------------------
(* Owners of indices, stale handles and the delay of reuse, for every      *)
(* number of bits and every length of the queue.                           *)
EXTENDS EntityManager, SequenceTheorems, TLAPS

\* The generation of a handle that is held is the one of its index; a stale
\* handle's is behind it.
GenerationsAgree ==
    /\ \A e \in held : e.gen = GenerationOf(e.index)
    /\ \A e \in stale : e.gen < GenerationOf(e.index)

\* The queue is in the order of the destroys, and no destroy is missing: the
\* last index in it was freed by the last destroy, the one before by the one
\* before.
FreedInOrder ==
    \A i \in DOMAIN free_indices :
        freedBy[free_indices[i] + 1] = destroys - (Len(free_indices) - i)

IInv ==
    /\ TypeOK
    /\ OneOwnerPerIndex
    /\ GenerationsAgree
    /\ FreedInOrder

\* Masking takes nothing from a generation that fits, and never adds to it.
LEMMA MaskFacts ==
    ASSUME NEW g \in Nat
    PROVE  /\ g < MaskedWords => g % MaskedWords = g
           /\ g % MaskedWords <= g
<1>1. MaskedWords \in Nat /\ MaskedWords > 0
    BY WordsAssumption
<1>2. g < MaskedWords => g % MaskedWords = g
    BY <1>1
<1>3. g % MaskedWords <= g
    <2>1. CASE g < MaskedWords
        BY <1>2, <2>1
    <2>2. CASE g >= MaskedWords
        <3>1. g % MaskedWords < MaskedWords /\ g % MaskedWords \in Nat
            BY <1>1
        <3> QED
            BY <1>1, <2>2, <3>1
    <2> QED
        BY <1>1, <2>1, <2>2
<1> QED
    BY <1>2, <1>3

\* What the type invariant says of one handle.
LEMMA HandleFacts ==
    ASSUME TypeOK, NEW e \in held \cup stale
    PROVE  /\ e \in Handle
           /\ e.index \in Indices /\ e.index \in Nat
           /\ e.index + 1 \in DOMAIN generation
           /\ e.gen \in Nat /\ GenerationOf(e.index) \in Nat
           /\ e = [index |-> e.index, gen |-> e.gen]
BY DEF TypeOK, Handle, Indices, GenerationOf

\* The invariant says which handles are alive.
LEMMA AliveFromInvariant == IInv => AliveTellsOwners
<1> SUFFICES ASSUME IInv PROVE AliveTellsOwners
    OBVIOUS
<1>1. TypeOK /\ GenerationsAgree
    BY DEF IInv
<1>2. ASSUME NEW e \in stale PROVE ~Alive(e)
    <2>1. e.gen \in Nat /\ GenerationOf(e.index) \in Nat
        BY <1>1, HandleFacts
    <2>2. e.gen < GenerationOf(e.index)
        BY <1>1 DEF GenerationsAgree
    <2>3. Masked(e) <= e.gen /\ Masked(e) \in Int
        BY <2>1, MaskFacts, WordsAssumption DEF Masked
    <2> QED
        BY <2>1, <2>2, <2>3 DEF Alive
<1>3. ASSUME NEW e \in held, e.gen < MaskedWords PROVE Alive(e)
    <2>1. e.gen \in Nat
        BY <1>1, HandleFacts
    <2>2. Masked(e) = e.gen
        BY <1>3, <2>1, MaskFacts DEF Masked
    <2> QED
        BY <1>1, <2>2 DEF Alive, GenerationsAgree
<1> QED
    BY <1>2, <1>3 DEF AliveTellsOwners

----------------------------------------------------------------------------
\* An index from the head of the queue gets an owner, who is the only one.
LEMMA CreateReusedStep ==
    ASSUME IInv, CreateReused
    PROVE  IInv'
<1> DEFINE idx == Head(free_indices)
           new == [index |-> idx, gen |-> GenerationOf(idx)]
<1>1. /\ Len(free_indices) \in Nat /\ Len(free_indices) > 0
      /\ free_indices \in Seq(Nat)
    BY MinimumFreeAssumption DEF CreateReused, IInv, TypeOK
<1>2. /\ idx = free_indices[1] /\ idx \in Indices
      /\ free_indices' = Tail(free_indices)
      /\ free_indices' \in Seq(Nat)
      /\ Len(free_indices') = Len(free_indices) - 1
      /\ DOMAIN free_indices' = 1 .. Len(free_indices) - 1
      /\ DOMAIN free_indices = 1 .. Len(free_indices)
      /\ \A i \in 1 .. Len(free_indices) - 1 :
             free_indices'[i] = free_indices[i + 1]
    BY <1>1 DEF CreateReused, IInv, TypeOK
<1>3. /\ held' = held \cup {new}
      /\ UNCHANGED <<generation, stale, destroys, freedBy>>
    BY DEF CreateReused
<1>4. Indices' = Indices /\ Handle' = Handle
    BY <1>3 DEF Indices, Handle
<1>5. TypeOK'
    <2>1. generation \in Seq(Nat) /\ idx + 1 \in DOMAIN generation
        BY <1>2 DEF IInv, TypeOK, Indices
    <2>2. new \in Handle
        BY <1>2, <2>1 DEF Handle, GenerationOf
    <2>3. \A i \in DOMAIN free_indices' : free_indices'[i] \in Indices
        BY <1>1, <1>2 DEF IInv, TypeOK
    <2> QED
        BY <1>2, <1>3, <1>4, <2>2, <2>3 DEF IInv, TypeOK
<1>6. OneOwnerPerIndex'
    <2>1. ASSUME NEW e \in held PROVE e.index # idx
        BY <1>1, <1>2 DEF IInv, OneOwnerPerIndex
    <2>2. ASSUME NEW i \in 1 .. Len(free_indices) - 1
          PROVE  /\ i + 1 \in DOMAIN free_indices
                 /\ free_indices'[i] # idx
        <3>1. i + 1 \in DOMAIN free_indices /\ 1 \in DOMAIN free_indices
              /\ i + 1 # 1
            BY <1>1, <1>2
        <3> QED
            BY <1>2, <3>1 DEF IInv, OneOwnerPerIndex
    <2>3. \A d, e \in held' : d.index = e.index => d = e
        BY <1>3, <2>1 DEF IInv, OneOwnerPerIndex
    <2>4. ASSUME NEW i \in DOMAIN free_indices', NEW j \in DOMAIN free_indices',
                 free_indices'[i] = free_indices'[j]
          PROVE  i = j
        <3>1. i + 1 \in DOMAIN free_indices /\ j + 1 \in DOMAIN free_indices
            BY <1>2, <2>2
        <3>2. i + 1 = j + 1
            BY <1>2, <2>4, <3>1 DEF IInv, OneOwnerPerIndex
        <3> QED
            BY <1>1, <1>2, <3>2
    <2>5. ASSUME NEW e \in held', NEW i \in DOMAIN free_indices'
          PROVE  e.index # free_indices'[i]
        BY <1>2, <1>3, <2>2 DEF IInv, OneOwnerPerIndex
    <2> QED
        BY <2>3, <2>4, <2>5 DEF OneOwnerPerIndex
<1>7. GenerationsAgree'
    BY <1>3 DEF IInv, GenerationsAgree, GenerationOf
<1>8. FreedInOrder'
    <2> SUFFICES ASSUME NEW i \in 1 .. Len(free_indices) - 1
                 PROVE  freedBy[free_indices[i + 1] + 1]
                            = destroys - (Len(free_indices) - 1 - i)
        BY <1>2, <1>3 DEF FreedInOrder
    <2>1. i + 1 \in DOMAIN free_indices
        BY <1>1, <1>2
    <2>2. freedBy[free_indices[i + 1] + 1]
              = destroys - (Len(free_indices) - (i + 1))
        BY <2>1 DEF IInv, FreedInOrder
    <2> QED
        BY <1>1, <2>2
<1> QED
    BY <1>5, <1>6, <1>7, <1>8 DEF IInv

\* A fresh index is larger than every index in use or in the queue.
LEMMA CreateFreshStep ==
    ASSUME IInv, CreateFresh
    PROVE  IInv'
<1> DEFINE new == [index |-> Len(generation), gen |-> 0]
<1>1. /\ generation \in Seq(Nat) /\ freedBy \in Seq(Nat)
      /\ Len(freedBy) = Len(generation) /\ Len(generation) \in Nat
      /\ free_indices \in Seq(Nat)
    BY DEF IInv, TypeOK
<1>2. /\ generation' = Append(generation, 0)
      /\ freedBy' = Append(freedBy, 0)
      /\ held' = held \cup {new}
      /\ UNCHANGED <<free_indices, stale, destroys>>
    BY DEF CreateFresh
<1>3. /\ generation' \in Seq(Nat) /\ freedBy' \in Seq(Nat)
      /\ Len(generation') = Len(generation) + 1
      /\ Len(freedBy') = Len(generation) + 1
      /\ generation'[Len(generation) + 1] = 0
      /\ \A idx \in Indices : /\ generation'[idx + 1] = generation[idx + 1]
                              /\ freedBy'[idx + 1] = freedBy[idx + 1]
    BY <1>1, <1>2 DEF Indices
<1>4. /\ Indices' = Indices \cup {Len(generation)}
      /\ Len(generation) \notin Indices
    BY <1>1, <1>3 DEF Indices
<1>5. Handle \subseteq Handle' /\ new \in Handle'
    BY <1>1, <1>4 DEF Handle
<1>6. \A i \in DOMAIN free_indices : free_indices[i] \in Indices
    BY DEF IInv, TypeOK
<1>7. \A e \in held \cup stale : e.index \in Indices
    BY HandleFacts DEF IInv
<1>8. TypeOK'
    <2>1. \A j \in DOMAIN free_indices' : free_indices'[j] \in Indices'
        BY <1>2, <1>4, <1>6
    <2>2. held' \subseteq Handle' /\ stale' \subseteq Handle'
        BY <1>2, <1>5 DEF IInv, TypeOK
    <2> QED
        BY <1>1, <1>2, <1>3, <2>1, <2>2 DEF IInv, TypeOK
<1>9. OneOwnerPerIndex'
    BY <1>2, <1>4, <1>6, <1>7 DEF IInv, OneOwnerPerIndex
<1>10. GenerationsAgree'
    <2>1. \A e \in held \cup stale :
              generation'[e.index + 1] = generation[e.index + 1]
        BY <1>3, <1>7
    <2>2. generation'[new.index + 1] = new.gen
        BY <1>3
    <2> QED
        BY <1>2, <2>1, <2>2 DEF IInv, GenerationsAgree, GenerationOf
<1>11. FreedInOrder'
    BY <1>2, <1>3, <1>6 DEF IInv, FreedInOrder
<1> QED
    BY <1>8, <1>9, <1>10, <1>11 DEF IInv

\* A destroyed entity's index goes to the end of the queue, where it was not,
\* and its generation leaves the handle behind, or comes round and nothing more
\* is promised of the handles to the index.
LEMMA DestroyStep ==
    ASSUME IInv, NEW e \in held, Destroy(e)
    PROVE  IInv'
<1> DEFINE idx == e.index
           n   == Len(free_indices)
           next == (GenerationOf(idx) + 1) % GenerationWords
<1>1. /\ generation \in Seq(Nat) /\ freedBy \in Seq(Nat)
      /\ Len(freedBy) = Len(generation) /\ Len(generation) \in Nat
      /\ free_indices \in Seq(Nat) /\ n \in Nat
      /\ destroys \in Nat
      /\ \A i \in DOMAIN free_indices : free_indices[i] \in Indices
    BY DEF IInv, TypeOK
<1>2. /\ e \in Handle /\ idx \in Indices /\ idx \in Nat
      /\ idx + 1 \in DOMAIN generation
      /\ GenerationOf(idx) \in Nat
    BY HandleFacts DEF IInv
<1>3. next \in Nat /\ (~ComesRound(e) => next = GenerationOf(idx) + 1)
    BY <1>2, WordsAssumption DEF ComesRound
<1>4. /\ generation' = [generation EXCEPT ![idx + 1] = next]
      /\ free_indices' = Append(free_indices, idx)
      /\ held' = held \ {e}
      /\ stale' \subseteq stale \cup {e}
      /\ ComesRound(e) => \A d \in stale' : d \in stale /\ d.index # idx
      /\ destroys' = destroys + 1
      /\ freedBy' = [freedBy EXCEPT ![idx + 1] = destroys + 1]
    BY DEF Destroy, GenerationOf
<1> HIDE DEF next
<1>5. /\ generation' \in Seq(Nat) /\ Len(generation') = Len(generation)
      /\ \A i \in DOMAIN generation :
             generation'[i] = IF i = idx + 1 THEN next
                                             ELSE generation[i]
      /\ freedBy' \in Seq(Nat) /\ Len(freedBy') = Len(generation)
      /\ \A i \in DOMAIN generation :
             freedBy'[i] = IF i = idx + 1 THEN destroys + 1 ELSE freedBy[i]
      /\ Indices' = Indices /\ Handle' = Handle
    <2>1. DOMAIN freedBy = DOMAIN generation
        BY <1>1
    <2>2. destroys + 1 \in Nat /\ next \in Nat
        BY <1>1, <1>3
    <2>3. /\ generation' \in Seq(Nat) /\ Len(generation') = Len(generation)
          /\ \A i \in DOMAIN generation :
                 generation'[i] = IF i = idx + 1 THEN next
                                                 ELSE generation[i]
        BY <1>1, <1>2, <1>4, <2>2, ExceptSeq
    <2>4. /\ freedBy' \in Seq(Nat) /\ Len(freedBy') = Len(generation)
          /\ \A i \in DOMAIN generation :
                 freedBy'[i] = IF i = idx + 1 THEN destroys + 1 ELSE freedBy[i]
        BY <1>1, <1>2, <1>4, <2>1, <2>2, ExceptSeq
    <2> QED
        BY <2>3, <2>4 DEF Indices, Handle
<1>6. /\ free_indices' \in Seq(Nat) /\ Len(free_indices') = n + 1
      /\ DOMAIN free_indices' = 1 .. n + 1 /\ DOMAIN free_indices = 1 .. n
      /\ free_indices'[n + 1] = idx
      /\ \A i \in 1 .. n : free_indices'[i] = free_indices[i]
    BY <1>1, <1>2, <1>4
<1>7. \A i \in 1 .. n : free_indices[i] # idx
    BY <1>6 DEF IInv, OneOwnerPerIndex
<1>8. \A d \in held \ {e} : d.index # idx
    BY DEF IInv, OneOwnerPerIndex
<1>13. n \in Nat /\ \A i \in 1 .. n + 1 : i \in 1 .. n \/ i = n + 1
    BY <1>1
<1>9. TypeOK'
    <2>1. ASSUME NEW i \in DOMAIN free_indices'
          PROVE  free_indices'[i] \in Indices'
        <3>1. i \in 1 .. n \/ i = n + 1
            BY <1>6, <1>13
        <3> QED
            BY <1>1, <1>2, <1>5, <1>6, <3>1
    <2>2. held' \subseteq Handle' /\ stale' \subseteq Handle'
        BY <1>2, <1>4, <1>5 DEF IInv, TypeOK
    <2>3. destroys' \in Nat
        BY <1>1, <1>4
    <2> QED
        BY <1>5, <1>6, <2>1, <2>2, <2>3 DEF TypeOK
<1>10. OneOwnerPerIndex'
    <2>1. \A c, d \in held' : c.index = d.index => c = d
        BY <1>4 DEF IInv, OneOwnerPerIndex
    <2>2. ASSUME NEW i \in 1 .. n + 1, NEW j \in 1 .. n + 1,
                 free_indices'[i] = free_indices'[j]
          PROVE  i = j
        <3>1. CASE i \in 1 .. n /\ j \in 1 .. n
            BY <1>6, <2>2, <3>1 DEF IInv, OneOwnerPerIndex
        <3>2. CASE i = n + 1 \/ j = n + 1
            <4>1. \A k \in 1 .. n : free_indices'[k] # idx
                BY <1>6, <1>7
            <4>2. i \notin 1 .. n \/ j \notin 1 .. n
                BY <1>13, <3>2
            <4> QED
                BY <1>6, <1>13, <2>2, <3>2, <4>1, <4>2
        <3> QED
            BY <1>13, <3>1, <3>2
    <2>3. ASSUME NEW d \in held', NEW i \in 1 .. n + 1
          PROVE  d.index # free_indices'[i]
        <3>1. d \in held /\ d # e
            BY <1>4
        <3>2. CASE i = n + 1
            BY <1>6, <1>8, <3>1, <3>2
        <3>3. CASE i # n + 1
            <4>1. i \in 1 .. n
                BY <1>1, <3>3
            <4> QED
                BY <1>6, <3>1, <4>1 DEF IInv, OneOwnerPerIndex
        <3> QED
            BY <3>2, <3>3
    <2> QED
        BY <1>6, <2>1, <2>2, <2>3 DEF OneOwnerPerIndex
<1>11. GenerationsAgree'
    <2>1. ASSUME NEW i \in Indices
          PROVE  generation'[i + 1] = IF i = idx THEN next
                                                 ELSE generation[i + 1]
        <3>1. i + 1 \in DOMAIN generation /\ (i + 1 = idx + 1 <=> i = idx)
            BY <1>1, <1>2 DEF Indices
        <3> QED
            BY <1>5, <3>1
    <2>2. ASSUME NEW d \in held' PROVE d.gen = generation'[d.index + 1]
        <3>1. d \in held /\ d # e /\ d.index \in Indices
            BY <1>4, HandleFacts DEF IInv
        <3>2. d.index # idx
            BY <1>8, <3>1
        <3> QED
            BY <2>1, <3>1, <3>2 DEF IInv, GenerationsAgree, GenerationOf
    <2>3. ASSUME NEW d \in stale' PROVE d.gen < generation'[d.index + 1]
        <3>1. /\ d.index \in Indices /\ d.gen \in Nat
              /\ GenerationOf(d.index) \in Nat
            BY <1>4, HandleFacts DEF IInv
        <3>2. d.gen <= GenerationOf(d.index)
            BY <1>4, <3>1 DEF IInv, GenerationsAgree
        <3>3. CASE d.index = idx
            <4>1. ~ComesRound(e)
                BY <1>4, <3>3
            <4> QED
                BY <1>2, <1>3, <2>1, <3>1, <3>2, <3>3, <4>1
        <3>4. CASE d.index # idx
            <4>1. d \in stale
                BY <1>4, <3>4
            <4> QED
                BY <2>1, <3>1, <3>4, <4>1
                   DEF IInv, GenerationsAgree, GenerationOf
        <3> QED
            BY <3>3, <3>4
    <2> QED
        BY <2>2, <2>3 DEF GenerationsAgree, GenerationOf
<1>12. FreedInOrder'
    <2>1. ASSUME NEW i \in 1 .. n + 1
          PROVE  freedBy'[free_indices'[i] + 1] = destroys + 1 - (n + 1 - i)
        <3>1. CASE i = n + 1
            BY <1>1, <1>2, <1>5, <1>6, <3>1
        <3>2. CASE i # n + 1
            <4>1. i \in 1 .. n
                BY <1>13, <3>2
            <4>2. /\ free_indices'[i] = free_indices[i]
                  /\ free_indices[i] \in Indices
                  /\ free_indices[i] # idx
                BY <1>1, <1>6, <1>7, <4>1
            <4>3. /\ free_indices[i] + 1 \in 1 .. Len(generation)
                  /\ free_indices[i] + 1 # idx + 1
                <5>1. free_indices[i] \in 0 .. Len(generation) - 1
                    BY <4>2 DEF Indices
                <5>2. Len(generation) \in Nat /\ idx \in Nat
                    BY <1>1, <1>2
                <5> HIDE DEF idx
                <5> QED
                    BY <4>2, <5>1, <5>2
            <4>4. freedBy'[free_indices[i] + 1] = freedBy[free_indices[i] + 1]
                <5>1. DOMAIN generation = 1 .. Len(generation)
                    BY <1>1
                <5>2. free_indices[i] + 1 \in DOMAIN generation
                    BY <4>3, <5>1
                <5> QED
                    BY <1>5, <4>3, <5>2
            <4>5. freedBy[free_indices[i] + 1] = destroys - (n - i)
                BY <1>6, <4>1 DEF IInv, FreedInOrder
            <4> QED
                BY <1>1, <4>1, <4>2, <4>4, <4>5
        <3> QED
            BY <3>1, <3>2
    <2>2. /\ DOMAIN free_indices' = 1 .. n + 1 /\ Len(free_indices') = n + 1
          /\ destroys' = destroys + 1
        BY <1>4, <1>6
    <2>3. \A i \in DOMAIN free_indices' :
              freedBy'[free_indices'[i] + 1]
                  = destroys' - (Len(free_indices') - i)
        <3> SUFFICES ASSUME NEW i \in 1 .. n + 1
                     PROVE  freedBy'[free_indices'[i] + 1]
                                = destroys' - (Len(free_indices') - i)
            BY <2>2
        <3>1. freedBy'[free_indices'[i] + 1] = destroys + 1 - (n + 1 - i)
            BY <2>1
        <3>2. destroys' = destroys + 1 /\ Len(free_indices') = n + 1
            BY <2>2
        <3>3. destroys' - (Len(free_indices') - i)
                  = destroys + 1 - (n + 1 - i)
            <4>1. destroys' = destroys + 1
                BY <3>2
            <4>2. Len(free_indices') = n + 1
                BY <3>2
            <4> QED
                BY <1>1, <4>1, <4>2
        <3> QED
            BY <3>1, <3>3, Zenon
    <2> QED
        BY <2>3 DEF FreedInOrder
<1> QED
    BY <1>9, <1>10, <1>11, <1>12 DEF IInv

----------------------------------------------------------------------------
\* The invariant holds before anything is created.
LEMMA InitStep == Init => IInv
<1> SUFFICES ASSUME Init PROVE IInv
    OBVIOUS
<1>1. TypeOK
    BY DEF Init, TypeOK, Handle
<1> QED
    BY <1>1 DEF Init, IInv, OneOwnerPerIndex, GenerationsAgree, FreedInOrder

\* Every step keeps the invariant.
LEMMA NextStep == IInv /\ [Next]_vars => IInv'
<1> SUFFICES ASSUME IInv, [Next]_vars PROVE IInv'
    OBVIOUS
<1>1. CASE UNCHANGED vars
    BY <1>1 DEF vars, IInv, TypeOK, Handle, Indices, OneOwnerPerIndex,
                GenerationsAgree, GenerationOf, FreedInOrder
<1>2. CASE CreateReused
    BY <1>2, CreateReusedStep
<1>3. CASE CreateFresh
    BY <1>3, CreateFreshStep
<1>4. ASSUME NEW e \in held, Destroy(e) PROVE IInv'
    BY <1>4, DestroyStep
<1> QED
    BY <1>1, <1>2, <1>3, <1>4 DEF Next

\* However entities are created and destroyed, an index has one owner, and a
\* destroyed entity does not come back to life before the generation of its
\* index has come round.
THEOREM EntitiesCorrect ==
    Spec => [](TypeOK /\ OneOwnerPerIndex /\ AliveTellsOwners)
<1>1. IInv => TypeOK /\ OneOwnerPerIndex
    BY DEF IInv
<1> QED
    BY <1>1, InitStep, NextStep, AliveFromInvariant, PTL DEF Spec

\* An index is used again only after MinimumFree further destroys.
THEOREM ReuseDelay == Spec => ReuseIsDelayed
<1>1. ASSUME IInv, [Next]_vars, NEW e \in held' \ held, e.index \in Indices
      PROVE  destroys - freedBy[e.index + 1] >= MinimumFree
    <2>1. Len(generation) \in Nat /\ Len(free_indices) \in Nat
        BY <1>1 DEF IInv, TypeOK
    <2>2. CASE CreateReused
        <3>1. /\ e.index = Head(free_indices)
              /\ Len(free_indices) > MinimumFree
            BY <1>1, <2>2 DEF CreateReused
        <3>2. 1 \in DOMAIN free_indices /\ e.index = free_indices[1]
            BY <1>1, <2>1, <3>1, MinimumFreeAssumption DEF IInv, TypeOK
        <3>3. freedBy[e.index + 1] = destroys - (Len(free_indices) - 1)
            BY <1>1, <3>2 DEF IInv, FreedInOrder
        <3>4. destroys \in Nat
            BY <1>1 DEF IInv, TypeOK
        <3> QED
            BY <2>1, <3>1, <3>3, <3>4, MinimumFreeAssumption
    <2>3. CASE CreateFresh
        BY <1>1, <2>1, <2>3 DEF CreateFresh, Indices
    <2>4. CASE UNCHANGED vars
        BY <1>1, <2>4 DEF vars
    <2>5. CASE \E d \in held : Destroy(d)
        BY <1>1, <2>5 DEF Destroy
    <2> QED
        BY <1>1, <2>2, <2>3, <2>4, <2>5 DEF Next
<1>2. IInv /\ [Next]_vars =>
          [\A e \in held' \ held :
               e.index \in Indices =>
                   destroys - freedBy[e.index + 1] >= MinimumFree]_vars
    BY <1>1
<1> QED
    BY <1>2, InitStep, NextStep, PTL DEF Spec, ReuseIsDelayed

\* No two entities that are held have one index, and none waits for reuse.
THEOREM OneOwner == Spec => []OneOwnerPerIndex
BY EntitiesCorrect, PTL
=============================================================================
