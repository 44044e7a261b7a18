------------------------------ MODULE VecProofs ------------------------------
(***************************************************************************)
(* Proof about Vec: whatever its client does with them, vecs neither share *)
(* nor lose a block of memory, objects are exactly the elements, nothing   *)
(* is used that is not there, and each vec is a sequence of its own.       *)
(***************************************************************************)
EXTENDS Vec, SequenceTheorems, TLAPS

IInv == TypeOK /\ BlocksHaveOneOwner /\ ObjectsAreElements /\ NeverUndefined

\* The block that a step which gives v another one gives back.
OldBlock(v) == IF v \in Existing THEN vecs[v].data ELSE Null

VecRecords == [data : Blocks \cup {Null}, size : Nat, space : Nat]

\* The objects in cells are the first `size`.
HoldsElements(cells, size) == \A i \in DOMAIN cells : cells[i] # Raw <=> i < size

\* What AbstractVecs makes of a sequence that gets another length.
Resized(s, n) == [i \in 1 .. n |-> IF i <= Len(s) THEN s[i] ELSE DefaultValue]

\* The sequence that the first n cells are.
Read(cells, n) == [i \in 1 .. n |-> cells[i - 1]]

----------------------------------------------------------------------------
\* What the invariant says of one vec.
LEMMA VecFacts ==
    ASSUME IInv, NEW v \in Existing
    PROVE  /\ v \in Vecs
           /\ vecs[v] \in VecRecords
           /\ vecs[v].size <= vecs[v].space
           /\ IsSound(vecs[v])
           /\ vecs[v].data = Null => vecs[v].size = 0 /\ vecs[v].space = 0
           /\ vecs[v].data # Null =>
                  /\ vecs[v].data \in DOMAIN heap
                  /\ heap[vecs[v].data] \in [0 .. vecs[v].space - 1 -> Cells]
                  /\ HoldsElements(heap[vecs[v].data], vecs[v].size)
<1>1. v \in Vecs /\ vecs[v] \in VecRecords /\ vecs[v].size <= vecs[v].space
    BY DEF IInv, TypeOK, Existing, VecRecords
<1>2. vecs[v].data = Null => vecs[v].space = 0
    BY DEF IInv, BlocksHaveOneOwner
<1>3. ASSUME vecs[v].data # Null
      PROVE  /\ vecs[v].data \in DOMAIN heap
             /\ heap[vecs[v].data] \in [0 .. vecs[v].space - 1 -> Cells]
             /\ HoldsElements(heap[vecs[v].data], vecs[v].size)
    <2>1. vecs[v].data \in DOMAIN heap /\ DOMAIN heap[vecs[v].data] = 0 .. vecs[v].space - 1
        BY <1>3 DEF IInv, BlocksHaveOneOwner
    <2>2. heap[vecs[v].data] \in [0 .. vecs[v].space - 1 -> Cells]
        BY <2>1 DEF IInv, TypeOK
    <2>3. HoldsElements(heap[vecs[v].data], vecs[v].size)
        BY <2>1 DEF IInv, ObjectsAreElements, HoldsElements
    <2> QED
        BY <2>1, <2>2, <2>3
<1>4. IsSound(vecs[v])
    <2> SUFFICES ASSUME vecs[v].data # Null, NEW i \in 0 .. vecs[v].size - 1
                 PROVE  i \in DOMAIN heap[vecs[v].data] /\ heap[vecs[v].data][i] # Raw
        BY <1>3 DEF IsSound
    <2>1. i \in 0 .. vecs[v].space - 1 /\ i < vecs[v].size
        BY <1>1 DEF VecRecords
    <2> QED
        BY <1>3, <2>1 DEF HoldsElements
<1> QED
    BY <1>1, <1>2, <1>3, <1>4 DEF VecRecords

LEMMA ReadIsSequence ==
    ASSUME NEW space \in Nat, NEW n \in Nat, n <= space,
           NEW cells \in [0 .. space - 1 -> Cells], HoldsElements(cells, n)
    PROVE  /\ Read(cells, n) \in Seq(Values)
           /\ Len(Read(cells, n)) = n
           /\ \A i \in 1 .. n : Read(cells, n)[i] = cells[i - 1]
<1>1. ASSUME NEW i \in 1 .. n PROVE cells[i - 1] \in Values
    <2>1. i - 1 \in 0 .. space - 1 /\ i - 1 < n
        OBVIOUS
    <2> QED
        BY <2>1 DEF HoldsElements, Cells
<1>2. Read(cells, n) \in [1 .. n -> Values]
    BY <1>1 DEF Read
<1> QED
    BY <1>2 DEF Read

LEMMA ContentsFacts ==
    ASSUME IInv, NEW v \in Existing
    PROVE  /\ Contents[v] \in Seq(Values)
           /\ Contents[v] # NoVec
           /\ Len(Contents[v]) = vecs[v].size
           /\ vecs[v].data # Null =>
                  Contents[v] = Read(heap[vecs[v].data], vecs[v].size)
           /\ vecs[v].data = Null => Contents[v] = <<>>
<1>1. /\ v \in Vecs /\ vecs[v].size \in Nat /\ vecs[v].space \in Nat
      /\ vecs[v].size <= vecs[v].space
      /\ vecs[v].data = Null => vecs[v].size = 0
      /\ vecs[v].data # Null =>
             /\ vecs[v].data \in DOMAIN heap
             /\ heap[vecs[v].data] \in [0 .. vecs[v].space - 1 -> Cells]
             /\ HoldsElements(heap[vecs[v].data], vecs[v].size)
    BY VecFacts DEF VecRecords
<1>2. Contents[v] = Elements(v)
    BY <1>1 DEF Contents
<1>3. CASE vecs[v].data # Null
    <2>1. Contents[v] = Read(heap[vecs[v].data], vecs[v].size)
        BY <1>1, <1>2, <1>3 DEF Elements, Read
    <2> DEFINE seq == Read(heap[vecs[v].data], vecs[v].size)
    <2>2. seq \in Seq(Values) /\ Len(seq) = vecs[v].size
        BY <1>1, <1>3, ReadIsSequence
    <2> HIDE DEF seq
    <2>3. seq # NoVec
        BY <2>2, NoVecAssumption, Zenon
    <2> QED
        BY <1>3, <2>1, <2>2, <2>3 DEF seq
<1>4. CASE vecs[v].data = Null
    <2>1. Contents[v] \in [1 .. 0 -> Values] /\ vecs[v].size = 0
        BY <1>1, <1>2, <1>4 DEF Elements
    <2>2. Contents[v] = <<>>
        BY <2>1
    <2>3. <<>> \in Seq(Values) /\ Len(<<>>) = 0
        BY EmptySeq
    <2>4. <<>> # NoVec
        BY <2>3, NoVecAssumption, Zenon
    <2> QED
        BY <1>4, <2>1, <2>2, <2>3, <2>4, Zenon
<1> QED
    BY <1>3, <1>4

\* A vec that comes to own the block b, new or old, and gives back the one it had.
LEMMA BlockReplaced ==
    ASSUME IInv, NEW v \in Vecs, NEW b \in Blocks, NEW size \in Nat, NEW space \in Nat,
           size <= space,
           b \notin DOMAIN heap \ {OldBlock(v)},
           DOMAIN heap' = (DOMAIN heap \ {OldBlock(v)}) \cup {b},
           heap'[b] \in [0 .. space - 1 -> Cells],
           HoldsElements(heap'[b], size),
           \A c \in DOMAIN heap' : c # b => heap'[c] = heap[c],
           Becomes(v, Vector(b, size, space)),
           UNCHANGED undefined
    PROVE  IInv' /\ Sequences!Becomes(v, Read(heap'[b], size))
<1> DEFINE w == Vector(b, size, space)
<1>1. w \in VecRecords /\ w # NoVec /\ w.data = b /\ w.size = size /\ w.space = space
    BY VecNamesAssumption DEF VecRecords, Vector
<1>2. /\ vecs' \in [Vecs -> VecRecords \cup {NoVec}]
      /\ vecs'[v] = w
      /\ \A u \in Vecs : u # v => vecs'[u] = vecs[u]
    BY <1>1 DEF Becomes, IInv, TypeOK, VecRecords
<1>3. Existing' = Existing \cup {v} /\ v \in Existing'
    BY <1>1, <1>2 DEF Existing
<1>4. b # Null
    BY VecNamesAssumption
<1>5. ASSUME NEW u \in Existing, u # v
      PROVE  vecs'[u] = vecs[u] /\ vecs[u].data # b
    <2>1. vecs'[u] = vecs[u]
        BY <1>2, <1>5 DEF Existing
    <2>2. ASSUME vecs[u].data = b PROVE FALSE
        <3>1. b \in DOMAIN heap
            BY <1>4, <1>5, <2>2, VecFacts
        <3>2. b = OldBlock(v) /\ v \in Existing /\ vecs[v].data = b
            BY <1>4, <3>1 DEF OldBlock
        <3> QED
            BY <1>5, <2>2, <3>1, <3>2 DEF IInv, BlocksHaveOneOwner
    <2> QED
        BY <2>1, <2>2
<1>6. ASSUME NEW u \in Existing, u # v, vecs[u].data # Null
      PROVE  /\ vecs[u].data \in DOMAIN heap'
             /\ heap'[vecs[u].data] = heap[vecs[u].data]
    <2>1. vecs[u].data \in DOMAIN heap
        BY <1>6, VecFacts
    <2>2. vecs[u].data # OldBlock(v)
        BY <1>6, <2>1 DEF IInv, BlocksHaveOneOwner, OldBlock
    <2> QED
        BY <1>5, <1>6, <2>1, <2>2
<1>7. TypeOK'
    <2>1. \A u \in Existing' : vecs'[u].size <= vecs'[u].space
        BY <1>1, <1>2, <1>3, <1>5, VecFacts
    <2>2. \A c \in DOMAIN heap' : c \in Blocks /\ heap'[c] \in [DOMAIN heap'[c] -> Cells]
        BY DEF IInv, TypeOK
    <2>3. undefined' \in BOOLEAN
        BY DEF IInv, TypeOK
    <2> QED
        BY <1>2, <2>1, <2>2, <2>3 DEF TypeOK, VecRecords
<1>8. BlocksHaveOneOwner'
    <2>1. ASSUME NEW c \in DOMAIN heap'
          PROVE  \E u \in Existing' : \A t \in Existing' : vecs'[t].data = c <=> t = u
        <3>1. CASE c = b
            BY <1>1, <1>2, <1>3, <1>5, <3>1
        <3>2. CASE c # b
            <4>1. c \in DOMAIN heap /\ c # OldBlock(v)
                BY <3>2
            <4>2. PICK u \in Existing : \A t \in Existing : vecs[t].data = c <=> t = u
                BY <4>1 DEF IInv, BlocksHaveOneOwner
            <4>3. u # v /\ u \in Existing'
                BY <1>3, <4>1, <4>2 DEF OldBlock
            <4>4. \A t \in Existing' : vecs'[t].data = c <=> t = u
                BY <1>1, <1>2, <1>3, <1>5, <3>2, <4>2, <4>3
            <4> QED
                BY <4>3, <4>4
        <3> QED
            BY <3>1, <3>2
    <2>2. ASSUME NEW u \in Existing'
          PROVE  IF vecs'[u].data = Null THEN vecs'[u].space = 0
                 ELSE /\ vecs'[u].data \in DOMAIN heap'
                      /\ DOMAIN heap'[vecs'[u].data] = 0 .. vecs'[u].space - 1
        <3>1. CASE u = v
            BY <1>1, <1>2, <1>4, <3>1
        <3>2. CASE u # v
            BY <1>3, <1>5, <1>6, <3>2, VecFacts
        <3> QED
            BY <3>1, <3>2
    <2> QED
        BY <2>1, <2>2 DEF BlocksHaveOneOwner
<1>9. ObjectsAreElements'
    <2> SUFFICES ASSUME NEW u \in Existing', vecs'[u].data \in DOMAIN heap',
                        NEW i \in DOMAIN heap'[vecs'[u].data]
                 PROVE  heap'[vecs'[u].data][i] # Raw <=> i < vecs'[u].size
        BY DEF ObjectsAreElements
    <2>1. CASE u = v
        BY <1>1, <1>2, <2>1 DEF HoldsElements
    <2>2. CASE u # v
        <3>1. u \in Existing /\ vecs'[u] = vecs[u] /\ vecs[u].data # b
            BY <1>3, <1>5, <2>2
        <3>2. vecs[u].data \in DOMAIN heap /\ heap'[vecs[u].data] = heap[vecs[u].data]
            BY <3>1
        <3> QED
            BY <3>1, <3>2 DEF IInv, ObjectsAreElements
    <2> QED
        BY <2>1, <2>2
<1>10. Contents' = [Contents EXCEPT ![v] = Read(heap'[b], size)]
    <2>1. Contents'[v] = Read(heap'[b], size)
        BY <1>1, <1>2, <1>3 DEF Contents, Elements, Read
    <2>2. ASSUME NEW u \in Vecs, u # v PROVE Contents'[u] = Contents[u]
        <3>1. CASE u \notin Existing
            BY <1>3, <2>2, <3>1 DEF Contents
        <3>2. CASE u \in Existing /\ vecs[u].data # Null
            <4>1. /\ u \in Existing' /\ vecs'[u] = vecs[u]
                  /\ vecs[u].data \in DOMAIN heap
                  /\ vecs[u].data \in DOMAIN heap'
                  /\ heap'[vecs[u].data] = heap[vecs[u].data]
                BY <1>3, <1>5, <1>6, <2>2, <3>2, VecFacts
            <4> QED
                BY <4>1, <3>2 DEF Contents, Elements
        <3>3. CASE u \in Existing /\ vecs[u].data = Null
            <4>1. u \in Existing' /\ vecs'[u] = vecs[u] /\ vecs[u].size = 0
                BY <1>3, <1>5, <2>2, <3>3, VecFacts
            <4> QED
                BY <4>1, <3>3 DEF Contents, Elements
        <3> QED
            BY <3>1, <3>2, <3>3
    <2> QED
        BY <2>1, <2>2 DEF Contents
<1>11. IInv'
    BY <1>7, <1>8, <1>9 DEF IInv, NeverUndefined
<1> QED
    BY <1>10, <1>11 DEF Sequences!Becomes

\* A vec that is given the block of another one, or of itself, which is then empty.
LEMMA BlockMoved ==
    ASSUME IInv, NEW v \in Vecs, NEW o \in Existing,
           DOMAIN heap' = DOMAIN heap \ {OldBlock(v)},
           \A c \in DOMAIN heap' : heap'[c] = heap[c],
           MoveInto(v, o),
           UNCHANGED undefined
    PROVE  /\ IInv'
           /\ Contents' = [Contents EXCEPT ![v] = Contents[o], ![o] = <<>>]
<1>1. /\ EmptyVec \in VecRecords /\ EmptyVec # NoVec
      /\ EmptyVec.data = Null /\ EmptyVec.size = 0 /\ EmptyVec.space = 0
    BY VecNamesAssumption DEF VecRecords, EmptyVec, Vector
<1>2. o \in Vecs /\ vecs[o] \in VecRecords /\ vecs[o] # NoVec
    BY VecFacts DEF Existing
<1>3. /\ vecs' \in [Vecs -> VecRecords \cup {NoVec}]
      /\ vecs'[o] = EmptyVec
      /\ v # o => vecs'[v] = vecs[o]
      /\ \A u \in Vecs : u # v /\ u # o => vecs'[u] = vecs[u]
    BY <1>1, <1>2 DEF MoveInto, IInv, TypeOK, VecRecords
<1>4. Existing' = Existing \cup {v} /\ v \in Existing' /\ o \in Existing'
    BY <1>1, <1>2, <1>3 DEF Existing
<1>5. Null \notin DOMAIN heap
    BY VecNamesAssumption DEF IInv, TypeOK
\* Whose block it was before.
<1> DEFINE Source(u) == IF u = v THEN o ELSE u
<1>6. ASSUME NEW u \in Existing', vecs'[u].data # Null
      PROVE  /\ Source(u) \in Existing
             /\ vecs'[u] = vecs[Source(u)]
             /\ vecs'[u].data \in DOMAIN heap'
             /\ heap'[vecs'[u].data] = heap[vecs'[u].data]
    <2>1. u # o
        BY <1>1, <1>3, <1>6
    <2>2. Source(u) \in Existing /\ vecs'[u] = vecs[Source(u)]
        BY <1>3, <1>4, <2>1 DEF Existing
    <2>3. vecs[Source(u)].data \in DOMAIN heap
        BY <1>6, <2>2, VecFacts
    <2>4. vecs[Source(u)].data # OldBlock(v)
        <3>1. CASE v \in Existing
            <4>1. Source(u) # v
                BY <2>1
            <4> QED
                BY <2>2, <2>3, <3>1, <4>1 DEF IInv, BlocksHaveOneOwner, OldBlock
        <3>2. CASE v \notin Existing
            BY <1>5, <2>3, <3>2 DEF OldBlock
        <3> QED
            BY <3>1, <3>2
    <2> QED
        BY <2>2, <2>3, <2>4
<1>7. TypeOK'
    <2>1. \A u \in Existing' : vecs'[u].size <= vecs'[u].space
        BY <1>1, <1>3, <1>4, VecFacts
    <2>2. \A c \in DOMAIN heap' : c \in Blocks /\ heap'[c] \in [DOMAIN heap'[c] -> Cells]
        BY DEF IInv, TypeOK
    <2>3. undefined' \in BOOLEAN
        BY DEF IInv, TypeOK
    <2> QED
        BY <1>3, <2>1, <2>2, <2>3 DEF TypeOK, VecRecords
<1>8. BlocksHaveOneOwner'
    <2>1. ASSUME NEW c \in DOMAIN heap'
          PROVE  \E u \in Existing' : \A t \in Existing' : vecs'[t].data = c <=> t = u
        <3>1. c \in DOMAIN heap /\ c # OldBlock(v) /\ c # Null
            BY <1>5
        <3>2. PICK u \in Existing : \A t \in Existing : vecs[t].data = c <=> t = u
            BY <3>1 DEF IInv, BlocksHaveOneOwner
        <3>3. u # v
            BY <3>1, <3>2 DEF OldBlock
        <3>4. CASE u = o
            <4>1. v # o /\ vecs'[v].data = c
                BY <1>3, <3>2, <3>3, <3>4
            <4>2. ASSUME NEW t \in Existing', vecs'[t].data = c, t # v PROVE FALSE
                <5>1. t # o
                    BY <1>1, <1>3, <3>1, <4>2
                <5>2. t \in Existing /\ vecs'[t] = vecs[t]
                    BY <1>3, <1>4, <4>2, <5>1 DEF Existing
                <5> QED
                    BY <3>2, <3>4, <4>2, <5>1, <5>2
            <4> QED
                BY <1>4, <4>1, <4>2
        <3>5. CASE u # o
            <4>1. u \in Existing' /\ vecs'[u].data = c
                BY <1>3, <1>4, <3>2, <3>3, <3>5 DEF Existing
            <4>2. ASSUME NEW t \in Existing', vecs'[t].data = c PROVE t = u
                <5>1. t # o
                    BY <1>1, <1>3, <3>1, <4>2
                <5>2. t # v
                    BY <1>2, <1>3, <3>2, <3>5, <4>2, <5>1
                <5> QED
                    BY <1>3, <1>4, <3>2, <4>2, <5>1, <5>2 DEF Existing
            <4> QED
                BY <4>1, <4>2
        <3> QED
            BY <3>4, <3>5
    <2>2. ASSUME NEW u \in Existing'
          PROVE  IF vecs'[u].data = Null THEN vecs'[u].space = 0
                 ELSE /\ vecs'[u].data \in DOMAIN heap'
                      /\ DOMAIN heap'[vecs'[u].data] = 0 .. vecs'[u].space - 1
        <3>1. CASE vecs'[u].data # Null
            BY <1>6, <3>1, VecFacts
        <3>2. CASE vecs'[u].data = Null
            <4>1. CASE u = o
                BY <1>1, <1>3, <4>1
            <4>2. CASE u # o
                BY <1>3, <1>4, <3>2, <4>2, VecFacts DEF Existing
            <4> QED
                BY <3>2, <4>1, <4>2
        <3> QED
            BY <3>1, <3>2
    <2> QED
        BY <2>1, <2>2 DEF BlocksHaveOneOwner
<1>9. ObjectsAreElements'
    <2> SUFFICES ASSUME NEW u \in Existing', vecs'[u].data \in DOMAIN heap',
                        NEW i \in DOMAIN heap'[vecs'[u].data]
                 PROVE  heap'[vecs'[u].data][i] # Raw <=> i < vecs'[u].size
        BY DEF ObjectsAreElements
    <2>1. vecs'[u].data # Null
        BY <1>5
    <2>2. Source(u) \in Existing /\ vecs'[u] = vecs[Source(u)]
        BY <1>6, <2>1
    <2>3. vecs[Source(u)].data \in DOMAIN heap /\ heap'[vecs'[u].data] = heap[vecs'[u].data]
        BY <1>6, <2>1, <2>2
    <2> QED
        BY <2>2, <2>3 DEF IInv, ObjectsAreElements
<1>10. Contents' = [Contents EXCEPT ![v] = Contents[o], ![o] = <<>>]
    <2>1. Contents'[o] = <<>>
        <3>1. Contents'[o] \in [1 .. 0 -> {}]
            BY <1>1, <1>2, <1>3, <1>4 DEF Contents, Elements
        <3> QED
            BY <3>1
    <2>2. ASSUME NEW u \in Existing', u # o
          PROVE  Contents'[u] = Contents[Source(u)]
        <3>1. Source(u) \in Existing /\ Source(u) \in Vecs /\ vecs'[u] = vecs[Source(u)]
            BY <1>2, <1>3, <1>4, <2>2 DEF Existing
        <3>2. u \in Vecs
            BY DEF Existing
        <3> HIDE DEF Source
        <3>3. CASE vecs'[u].data # Null
            <4>1. /\ vecs'[u].data \in DOMAIN heap /\ vecs'[u].data \in DOMAIN heap'
                  /\ heap'[vecs'[u].data] = heap[vecs'[u].data]
                BY <1>6, <3>1, <3>3, VecFacts
            <4> QED
                BY <3>1, <3>2, <4>1 DEF Contents, Elements
        <3>4. CASE vecs'[u].data = Null
            <4>1. vecs'[u].size = 0
                BY <3>1, <3>4, VecFacts
            <4> QED
                BY <3>1, <3>2, <4>1 DEF Contents, Elements
        <3> QED
            BY <3>3, <3>4
    <2>3. ASSUME NEW u \in Vecs, u \notin Existing'
          PROVE  Contents'[u] = Contents[u] /\ u # v /\ u # o
        BY <1>4, <2>3 DEF Contents
    <2>4. ASSUME NEW u \in Vecs
          PROVE  Contents'[u] = IF u = o THEN <<>> ELSE Contents[Source(u)]
        BY <2>1, <2>2, <2>3
    <2>5. v # o => Contents'[v] = Contents[o]
        BY <2>4
    <2>6. \A u \in Vecs : u # v /\ u # o => Contents'[u] = Contents[u]
        BY <2>4
    <2>7. DOMAIN Contents = Vecs /\ DOMAIN Contents' = Vecs
          /\ Contents = [u \in Vecs |-> Contents[u]] /\ Contents' = [u \in Vecs |-> Contents'[u]]
        BY DEF Contents
    <2> QED
        BY <1>2, <2>1, <2>5, <2>6, <2>7
<1>11. IInv'
    BY <1>7, <1>8, <1>9 DEF IInv, NeverUndefined
<1> QED
    BY <1>10, <1>11

\* A vec that begins to be there, empty, or ceases to be there.
LEMMA BlockGone ==
    ASSUME IInv, NEW v \in Vecs, NEW w \in {EmptyVec, NoVec},
           DOMAIN heap' = DOMAIN heap \ {OldBlock(v)},
           \A c \in DOMAIN heap' : heap'[c] = heap[c],
           Becomes(v, w),
           UNCHANGED undefined
    PROVE  /\ IInv'
           /\ Sequences!Becomes(v, IF w = NoVec THEN NoVec ELSE <<>>)
<1>1. /\ EmptyVec \in VecRecords /\ EmptyVec # NoVec
      /\ EmptyVec.data = Null /\ EmptyVec.size = 0 /\ EmptyVec.space = 0
    BY VecNamesAssumption DEF VecRecords, EmptyVec, Vector
<1>2. /\ vecs' \in [Vecs -> VecRecords \cup {NoVec}]
      /\ vecs'[v] = w
      /\ \A u \in Vecs : u # v => vecs'[u] = vecs[u]
    BY <1>1 DEF Becomes, IInv, TypeOK, VecRecords
<1>3. /\ \A u \in Existing' : u # v => u \in Existing /\ vecs'[u] = vecs[u]
      /\ \A u \in Existing : u # v => u \in Existing'
      /\ v \in Existing' => vecs'[v] = EmptyVec
    BY <1>2 DEF Existing
<1>4. Null \notin DOMAIN heap
    BY VecNamesAssumption DEF IInv, TypeOK
<1>5. ASSUME NEW u \in Existing', vecs'[u].data # Null
      PROVE  /\ u # v /\ u \in Existing /\ vecs'[u] = vecs[u]
             /\ vecs[u].data \in DOMAIN heap'
             /\ heap'[vecs[u].data] = heap[vecs[u].data]
    <2>1. u # v /\ u \in Existing /\ vecs'[u] = vecs[u]
        BY <1>1, <1>3, <1>5
    <2>2. vecs[u].data \in DOMAIN heap
        BY <1>5, <2>1, VecFacts
    <2>3. vecs[u].data # OldBlock(v)
        BY <1>4, <2>1, <2>2 DEF IInv, BlocksHaveOneOwner, OldBlock
    <2> QED
        BY <2>1, <2>2, <2>3
<1>6. TypeOK'
    <2>1. \A u \in Existing' : vecs'[u].size <= vecs'[u].space
        BY <1>1, <1>3, VecFacts
    <2>2. \A c \in DOMAIN heap' : c \in Blocks /\ heap'[c] \in [DOMAIN heap'[c] -> Cells]
        BY DEF IInv, TypeOK
    <2>3. undefined' \in BOOLEAN
        BY DEF IInv, TypeOK
    <2> QED
        BY <1>2, <2>1, <2>2, <2>3 DEF TypeOK, VecRecords
<1>7. BlocksHaveOneOwner'
    <2>1. ASSUME NEW c \in DOMAIN heap'
          PROVE  \E u \in Existing' : \A t \in Existing' : vecs'[t].data = c <=> t = u
        <3>1. c \in DOMAIN heap /\ c # OldBlock(v) /\ c # Null
            BY <1>4
        <3>2. PICK u \in Existing : \A t \in Existing : vecs[t].data = c <=> t = u
            BY <3>1 DEF IInv, BlocksHaveOneOwner
        <3>3. u # v
            BY <3>1, <3>2 DEF OldBlock
        <3>4. \A t \in Existing' : vecs'[t].data = c <=> t = u
            BY <1>1, <1>3, <3>1, <3>2, <3>3
        <3> QED
            BY <1>3, <3>3, <3>4
    <2>2. ASSUME NEW u \in Existing'
          PROVE  IF vecs'[u].data = Null THEN vecs'[u].space = 0
                 ELSE /\ vecs'[u].data \in DOMAIN heap'
                      /\ DOMAIN heap'[vecs'[u].data] = 0 .. vecs'[u].space - 1
        <3>1. CASE vecs'[u].data # Null
            BY <1>5, <3>1, VecFacts
        <3>2. CASE vecs'[u].data = Null
            BY <1>1, <1>3, <3>2, VecFacts
        <3> QED
            BY <3>1, <3>2
    <2> QED
        BY <2>1, <2>2 DEF BlocksHaveOneOwner
<1>8. ObjectsAreElements'
    <2> SUFFICES ASSUME NEW u \in Existing', vecs'[u].data \in DOMAIN heap',
                        NEW i \in DOMAIN heap'[vecs'[u].data]
                 PROVE  heap'[vecs'[u].data][i] # Raw <=> i < vecs'[u].size
        BY DEF ObjectsAreElements
    <2>1. vecs'[u].data # Null
        BY <1>4
    <2>2. /\ u \in Existing /\ vecs'[u] = vecs[u] /\ vecs[u].data \in DOMAIN heap
          /\ heap'[vecs[u].data] = heap[vecs[u].data]
        BY <1>5, <2>1
    <2> QED
        BY <2>2 DEF IInv, ObjectsAreElements
<1>9. Contents' = [Contents EXCEPT ![v] = IF w = NoVec THEN NoVec ELSE <<>>]
    <2>1. w = NoVec => Contents'[v] = NoVec
        BY <1>2 DEF Contents, Existing
    <2>2. ASSUME w # NoVec PROVE Contents'[v] = <<>>
        <3>1. v \in Existing' /\ vecs'[v].size = 0
            BY <1>1, <1>2, <2>2 DEF Existing
        <3>2. Contents'[v] \in [1 .. 0 -> {}]
            BY <3>1 DEF Contents, Elements
        <3> QED
            BY <3>2
    <2>3. ASSUME NEW u \in Existing, u # v PROVE Contents'[u] = Contents[u]
        <3>1. u \in Vecs /\ u \in Existing' /\ vecs'[u] = vecs[u]
            BY <1>3, <2>3 DEF Existing
        <3>2. CASE vecs[u].data # Null
            <4>1. /\ vecs[u].data \in DOMAIN heap /\ vecs[u].data \in DOMAIN heap'
                  /\ heap'[vecs[u].data] = heap[vecs[u].data]
                BY <1>5, <3>1, <3>2, VecFacts
            <4> QED
                BY <3>1, <4>1 DEF Contents, Elements
        <3>3. CASE vecs[u].data = Null
            <4>1. vecs[u].size = 0
                BY <3>3, VecFacts
            <4> QED
                BY <3>1, <4>1 DEF Contents, Elements
        <3> QED
            BY <3>2, <3>3
    <2>4. ASSUME NEW u \in Vecs, u \notin Existing, u # v PROVE Contents'[u] = Contents[u]
        BY <1>3, <2>4 DEF Contents
    <2>5. /\ DOMAIN Contents = Vecs /\ DOMAIN Contents' = Vecs
          /\ Contents = [u \in Vecs |-> Contents[u]]
          /\ Contents' = [u \in Vecs |-> Contents'[u]]
        BY DEF Contents
    <2> QED
        BY <2>1, <2>2, <2>3, <2>4, <2>5
<1>10. IInv'
    BY <1>6, <1>7, <1>8 DEF IInv, NeverUndefined
<1> QED
    BY <1>9, <1>10 DEF Sequences!Becomes

LEMMA NothingChanged == ASSUME IInv, UNCHANGED vars PROVE IInv' /\ UNCHANGED Contents
    BY DEF IInv, TypeOK, BlocksHaveOneOwner, ObjectsAreElements, NeverUndefined,
           Existing, vars, Contents, Elements

----------------------------------------------------------------------------
\* A new block holds the objects that are put into it.
LEMMA FilledHolds ==
    ASSUME NEW size \in Nat, NEW space \in Nat, size <= space,
           NEW s \in [0 .. size - 1 -> Values]
    PROVE  /\ Filled(space, s) \in [0 .. space - 1 -> Cells]
           /\ HoldsElements(Filled(space, s), size)
           /\ Read(Filled(space, s), size) = Read(s, size)
BY VecNamesAssumption DEF Filled, HoldsElements, Cells, Read

LEMMA ObjectsAreValues ==
    ASSUME IInv, NEW v \in Existing
    PROVE  /\ Objects(vecs[v]) \in [0 .. vecs[v].size - 1 -> Values]
           /\ Read(Objects(vecs[v]), vecs[v].size) = Contents[v]
<1>1. /\ vecs[v].size \in Nat /\ vecs[v].space \in Nat /\ vecs[v].size <= vecs[v].space
      /\ vecs[v].data = Null => vecs[v].size = 0
    BY VecFacts DEF VecRecords
<1>2. CASE vecs[v].data # Null
    <2>1. /\ heap[vecs[v].data] \in [0 .. vecs[v].space - 1 -> Cells]
          /\ HoldsElements(heap[vecs[v].data], vecs[v].size)
        BY <1>2, VecFacts
    <2>2. Objects(vecs[v]) \in [0 .. vecs[v].size - 1 -> Values]
        BY <1>1, <2>1 DEF Objects, HoldsElements, Cells
    <2>3. Read(Objects(vecs[v]), vecs[v].size) = Read(heap[vecs[v].data], vecs[v].size)
        BY <1>1 DEF Objects, Read
    <2> QED
        BY <1>2, <2>2, <2>3, ContentsFacts
<1>3. CASE vecs[v].data = Null
    <2>1. Contents[v] = <<>>
        BY <1>3, ContentsFacts
    <2>2. Read(Objects(vecs[v]), vecs[v].size) \in [1 .. 0 -> Values]
        BY <1>1, <1>3 DEF Read
    <2>3. Objects(vecs[v]) \in [0 .. vecs[v].size - 1 -> Values]
        BY <1>1, <1>3 DEF Objects
    <2> QED
        BY <2>1, <2>2, <2>3
<1> QED
    BY <1>2, <1>3

\* Construction with memory.
LEMMA ConstructInKeeps ==
    ASSUME IInv, NEW v \in Vecs, NEW size \in Nat, NEW space \in Nat, size <= space,
           NEW s \in [0 .. size - 1 -> Values], ConstructIn(v, s, size, space)
    PROVE  IInv' /\ Sequences!Becomes(v, Read(s, size))
<1>1. PICK b \in Unused(heap) :
          /\ heap' = Allocated(heap, b, Filled(space, s))
          /\ Becomes(v, Vector(b, size, space))
    BY DEF ConstructIn
<1>2. b \in Blocks /\ b \notin DOMAIN heap
    BY DEF Unused
<1>3. OldBlock(v) \notin DOMAIN heap
    BY VecNamesAssumption DEF ConstructIn, OldBlock, IInv, TypeOK
<1>4. /\ DOMAIN heap' = DOMAIN heap \cup {b}
      /\ heap'[b] = Filled(space, s)
      /\ \A c \in DOMAIN heap' : c # b => heap'[c] = heap[c]
    BY <1>1 DEF Allocated
<1> QED
    BY <1>1, <1>2, <1>3, <1>4, BlockReplaced, FilledHolds DEF ConstructIn

\* The memory that reserve() leaves: none if none is asked for, and otherwise
\* a block of its own with the same objects.
LEMMA ReservedMemory ==
    ASSUME IInv, NEW v \in Existing, NEW n \in Nat, NEW r \in Reserved(vecs[v], n)
    PROVE  \/ n = 0 /\ vecs[v].data = Null /\ r = [vector |-> vecs[v], heap |-> heap]
           \/ \E b \in Blocks, space \in Nat :
                /\ n <= space /\ vecs[v].size <= space
                /\ r.vector = Vector(b, vecs[v].size, space)
                /\ b \notin DOMAIN heap \ {OldBlock(v)}
                /\ DOMAIN r.heap = (DOMAIN heap \ {OldBlock(v)}) \cup {b}
                /\ r.heap[b] \in [0 .. space - 1 -> Cells]
                /\ HoldsElements(r.heap[b], vecs[v].size)
                /\ Read(r.heap[b], vecs[v].size) = Contents[v]
                /\ \A c \in DOMAIN r.heap : c # b => r.heap[c] = heap[c]
<1> DEFINE w == vecs[v]
<1>1. /\ w \in VecRecords /\ w.size <= w.space
      /\ w.data = Null => w.size = 0 /\ w.space = 0
      /\ w.data # Null => /\ w.data \in DOMAIN heap
                          /\ heap[w.data] \in [0 .. w.space - 1 -> Cells]
                          /\ HoldsElements(heap[w.data], w.size)
    BY VecFacts
<1>2. OldBlock(v) = w.data
    BY DEF OldBlock
<1>3. w = Vector(w.data, w.size, w.space) /\ w.size \in Nat /\ w.space \in Nat
    BY <1>1 DEF VecRecords, Vector
<1>4. CASE Fits(w, n)
    <2>1. r = [vector |-> w, heap |-> heap] /\ n <= w.space
        BY <1>4 DEF Reserved, Fits
    <2>2. CASE w.data = Null
        BY <1>1, <2>1, <2>2
    <2>3. CASE w.data # Null
        <3>1. w.data \in Blocks
            BY <1>1, <2>3 DEF VecRecords
        <3>2. /\ r.vector = Vector(w.data, w.size, w.space)
              /\ r.heap = heap
            BY <1>3, <2>1
        <3>3. /\ w.data \notin DOMAIN heap \ {OldBlock(v)}
              /\ DOMAIN r.heap = (DOMAIN heap \ {OldBlock(v)}) \cup {w.data}
              /\ r.heap[w.data] \in [0 .. w.space - 1 -> Cells]
              /\ HoldsElements(r.heap[w.data], w.size)
              /\ Read(r.heap[w.data], w.size) = Contents[v]
              /\ \A c \in DOMAIN r.heap : c # w.data => r.heap[c] = heap[c]
            BY <1>1, <1>2, <2>3, <3>2, ContentsFacts
        <3> QED
            BY <1>1, <1>3, <2>1, <3>1, <3>2, <3>3
    <2> QED
        BY <2>2, <2>3
<1>5. CASE ~Fits(w, n)
    <2>1. PICK b \in Unused(heap) :
              r = [vector |-> [w EXCEPT !.data = b, !.space = n],
                   heap   |-> Relocated(w, b, n)]
        BY <1>5 DEF Reserved
    <2>2. w.size <= n
        BY <1>1, <1>3, <1>5 DEF Fits
    <2>3. Objects(w) \in [0 .. w.size - 1 -> Values] /\ Read(Objects(w), w.size) = Contents[v]
        BY ObjectsAreValues
    <2>4. /\ DOMAIN r.heap = (DOMAIN heap \ {OldBlock(v)}) \cup {b}
          /\ r.heap[b] = Filled(n, Objects(w))
          /\ \A c \in DOMAIN r.heap : c # b => r.heap[c] = heap[c]
        BY <1>2, <2>1 DEF Relocated, Allocated, Deallocated, Restrict
    <2>5. r.vector = Vector(b, w.size, n)
        BY <1>3, <2>1 DEF Vector
    <2>6. b \in Blocks /\ b \notin DOMAIN heap
        BY DEF Unused
    <2>7. /\ r.heap[b] \in [0 .. n - 1 -> Cells]
          /\ HoldsElements(r.heap[b], w.size)
          /\ Read(r.heap[b], w.size) = Contents[v]
        BY <1>3, <2>2, <2>3, <2>4, FilledHolds
    <2> QED
        BY <2>2, <2>4, <2>5, <2>6, <2>7
<1> QED
    BY <1>4, <1>5

----------------------------------------------------------------------------
(* One lemma for each operation that uses the memory it has.               *)

LEMMA CopyAssignKeeps ==
    ASSUME IInv, NEW v \in Existing, NEW o \in Existing,
           CanAssign(v, o), CopyAssign(v, o)
    PROVE  IInv' /\ (Sequences!Becomes(v, Contents[o]) \/ UNCHANGED Contents)
<1> SUFFICES ASSUME v # o PROVE IInv' /\ Sequences!Becomes(v, Contents[o])
    BY NothingChanged DEF CopyAssign
<1> DEFINE w == vecs[o]
           h == AfterDestructor(vecs[v])
<1>1. /\ v \in Vecs /\ w \in VecRecords /\ w.size <= w.space
      /\ w.data = Null => w.size = 0
      /\ IsSound(vecs[v]) /\ IsSound(w)
    BY VecFacts
<1>2. PICK b \in Unused(h) :
          /\ heap' = Allocated(h, b, Filled(w.space, Objects(w)))
          /\ Becomes(v, Vector(b, w.size, w.space))
          /\ UNCHANGED undefined
    BY <1>1 DEF CopyAssign, CanAssign
<1>3. Objects(w) \in [0 .. w.size - 1 -> Values] /\ Read(Objects(w), w.size) = Contents[o]
    BY ObjectsAreValues
<1>4. DOMAIN h = DOMAIN heap \ {OldBlock(v)} /\ \A c \in DOMAIN h : h[c] = heap[c]
    BY DEF AfterDestructor, Deallocated, Restrict, OldBlock
<1>5. b \in Blocks /\ b \notin DOMAIN heap \ {OldBlock(v)}
    BY <1>4 DEF Unused
<1>6. /\ DOMAIN heap' = (DOMAIN heap \ {OldBlock(v)}) \cup {b}
      /\ heap'[b] = Filled(w.space, Objects(w))
      /\ \A c \in DOMAIN heap' : c # b => heap'[c] = heap[c]
    BY <1>2, <1>4 DEF Allocated
<1>7. w.size \in Nat /\ w.space \in Nat
    BY <1>1 DEF VecRecords
<1>8. /\ heap'[b] \in [0 .. w.space - 1 -> Cells]
      /\ HoldsElements(heap'[b], w.size)
      /\ Read(heap'[b], w.size) = Contents[o]
    BY <1>1, <1>3, <1>6, <1>7, FilledHolds
<1> QED
    BY <1>1, <1>2, <1>5, <1>6, <1>7, <1>8, BlockReplaced

LEMMA MoveAssignKeeps ==
    ASSUME IInv, NEW v \in Existing, NEW o \in Existing, MoveAssign(v, o)
    PROVE  IInv' /\ Contents' = [Contents EXCEPT ![v] = Contents[o], ![o] = <<>>]
<1>1. v \in Vecs /\ IsSound(vecs[v])
    BY VecFacts
<1>2. heap' = AfterDestructor(vecs[v]) /\ MoveInto(v, o) /\ UNCHANGED undefined
    BY <1>1 DEF MoveAssign
<1>3. /\ DOMAIN heap' = DOMAIN heap \ {OldBlock(v)}
      /\ \A c \in DOMAIN heap' : heap'[c] = heap[c]
    BY <1>2 DEF AfterDestructor, Deallocated, Restrict, OldBlock
<1> QED
    BY <1>1, <1>2, <1>3, BlockMoved

LEMMA ConstructMoveKeeps ==
    ASSUME IInv, NEW v \in Vecs, NEW o \in Existing, ConstructMove(v, o)
    PROVE  IInv' /\ Contents' = [Contents EXCEPT ![v] = Contents[o], ![o] = <<>>]
<1>1. OldBlock(v) \notin DOMAIN heap
    BY VecNamesAssumption DEF ConstructMove, OldBlock, IInv, TypeOK
<1> QED
    BY <1>1, BlockMoved DEF ConstructMove

LEMMA DestroyKeeps ==
    ASSUME IInv, NEW v \in Existing, Destroy(v)
    PROVE  IInv' /\ Sequences!Becomes(v, NoVec)
<1>1. v \in Vecs /\ IsSound(vecs[v])
    BY VecFacts
<1>2. heap' = AfterDestructor(vecs[v]) /\ Becomes(v, NoVec) /\ UNCHANGED undefined
    BY <1>1 DEF Destroy
<1>3. /\ DOMAIN heap' = DOMAIN heap \ {OldBlock(v)}
      /\ \A c \in DOMAIN heap' : heap'[c] = heap[c]
    BY <1>2 DEF AfterDestructor, Deallocated, Restrict, OldBlock
<1> QED
    BY <1>1, <1>2, <1>3, BlockGone, Zenon

LEMMA ConstructKeeps ==
    ASSUME IInv, NEW v \in Vecs, Construct(v)
    PROVE  IInv' /\ Sequences!Becomes(v, <<>>)
<1>1. OldBlock(v) \notin DOMAIN heap
    BY VecNamesAssumption DEF Construct, OldBlock, IInv, TypeOK
<1>2. EmptyVec # NoVec
    BY VecNamesAssumption DEF EmptyVec, Vector
<1> QED
    BY <1>1, <1>2, BlockGone DEF Construct

LEMMA BecomesItself ==
    ASSUME NEW v, Sequences!Becomes(v, Contents[v])
    PROVE  UNCHANGED Contents
BY DEF Sequences!Becomes, Contents

LEMMA ReserveKeeps ==
    ASSUME IInv, NEW v \in Existing, NEW n \in Nat, Reserve(v, n)
    PROVE  IInv' /\ UNCHANGED Contents
<1>1. v \in Vecs /\ vecs[v].size \in Nat /\ IsSound(vecs[v])
    BY VecFacts DEF VecRecords
<1>2. PICK r \in Reserved(vecs[v], n) :
          heap' = r.heap /\ Becomes(v, r.vector) /\ UNCHANGED undefined
    BY <1>1 DEF Reserve
<1>3. CASE r = [vector |-> vecs[v], heap |-> heap]
    <2>1. UNCHANGED vars
        BY <1>2, <1>3 DEF Becomes, IInv, TypeOK, vars
    <2> QED
        BY <2>1, NothingChanged
<1>4. CASE r # [vector |-> vecs[v], heap |-> heap]
    <2>1. PICK b \in Blocks, space \in Nat :
                /\ n <= space /\ vecs[v].size <= space
                /\ r.vector = Vector(b, vecs[v].size, space)
                /\ b \notin DOMAIN heap \ {OldBlock(v)}
                /\ DOMAIN r.heap = (DOMAIN heap \ {OldBlock(v)}) \cup {b}
                /\ r.heap[b] \in [0 .. space - 1 -> Cells]
                /\ HoldsElements(r.heap[b], vecs[v].size)
                /\ Read(r.heap[b], vecs[v].size) = Contents[v]
                /\ \A c \in DOMAIN r.heap : c # b => r.heap[c] = heap[c]
        BY <1>4, ReservedMemory
    <2>2. IInv' /\ Sequences!Becomes(v, Contents[v])
        BY <1>1, <1>2, <2>1, BlockReplaced
    <2> QED
        BY <2>2, BecomesItself
<1> QED
    BY <1>3, <1>4

\* The new block of reserve(), when it must have room for something.
LEMMA ReservedBlock ==
    ASSUME IInv, NEW v \in Existing, NEW n \in Nat, n # 0,
           NEW r \in Reserved(vecs[v], n)
    PROVE  \E b \in Blocks, space \in Nat :
                /\ n <= space
                /\ r.vector = Vector(b, vecs[v].size, space)
                /\ b \notin DOMAIN heap \ {OldBlock(v)}
                /\ DOMAIN r.heap = (DOMAIN heap \ {OldBlock(v)}) \cup {b}
                /\ r.heap[b] \in [0 .. space - 1 -> Cells]
                /\ HoldsElements(r.heap[b], vecs[v].size)
                /\ Read(r.heap[b], vecs[v].size) = Contents[v]
                /\ \A c \in DOMAIN r.heap : c # b => r.heap[c] = heap[c]
<1>1. PICK b \in Blocks, space \in Nat :
                /\ n <= space /\ vecs[v].size <= space
                /\ r.vector = Vector(b, vecs[v].size, space)
                /\ b \notin DOMAIN heap \ {OldBlock(v)}
                /\ DOMAIN r.heap = (DOMAIN heap \ {OldBlock(v)}) \cup {b}
                /\ r.heap[b] \in [0 .. space - 1 -> Cells]
                /\ HoldsElements(r.heap[b], vecs[v].size)
                /\ Read(r.heap[b], vecs[v].size) = Contents[v]
                /\ \A c \in DOMAIN r.heap : c # b => r.heap[c] = heap[c]
    BY ReservedMemory
<1> QED
    BY <1>1

LEMMA ResizeKeeps ==
    ASSUME IInv, NEW v \in Existing, NEW n \in Nat, Resize(v, n)
    PROVE  IInv' /\ (Sequences!Becomes(v, Resized(Contents[v], n)) \/ UNCHANGED Contents)
<1> SUFFICES ASSUME n # vecs[v].size
             PROVE  IInv' /\ Sequences!Becomes(v, Resized(Contents[v], n))
    BY NothingChanged DEF Resize
<1> DEFINE w == vecs[v]
           Cut(i, x) == CASE i \in n .. w.size - 1 -> Raw
                          [] i \in w.size .. n - 1 -> DefaultValue
                          [] OTHER                 -> x
<1>1. /\ v \in Vecs /\ IsSound(w)
      /\ w.size \in Nat /\ w.space \in Nat /\ w.size <= w.space
      /\ w = Vector(w.data, w.size, w.space)
      /\ w.data = Null => w.size = 0 /\ w.space = 0
    BY VecFacts DEF VecRecords, Vector
<1>2. PICK r \in Reserved(w, n) :
          /\ heap' = [r.heap EXCEPT ![r.vector.data] = [i \in DOMAIN @ |-> Cut(i, @[i])]]
          /\ Becomes(v, [r.vector EXCEPT !.size = n])
          /\ UNCHANGED undefined
    BY <1>1 DEF Resize
<1>3. PICK b \in Blocks, space \in Nat :
            /\ n <= space /\ w.size <= space
            /\ r.vector = Vector(b, w.size, space)
            /\ b \notin DOMAIN heap \ {OldBlock(v)}
            /\ DOMAIN r.heap = (DOMAIN heap \ {OldBlock(v)}) \cup {b}
            /\ r.heap[b] \in [0 .. space - 1 -> Cells]
            /\ HoldsElements(r.heap[b], w.size)
            /\ Read(r.heap[b], w.size) = Contents[v]
            /\ \A c \in DOMAIN r.heap : c # b => r.heap[c] = heap[c]
    <2>1. ~(n = 0 /\ w.data = Null)
        BY <1>1
    <2> QED
        BY <2>1, ReservedMemory
<1>4. r.vector.data = b /\ [r.vector EXCEPT !.size = n] = Vector(b, n, space)
    BY <1>3 DEF Vector
<1>5. /\ DOMAIN heap' = DOMAIN r.heap
      /\ heap'[b] = [i \in 0 .. space - 1 |-> Cut(i, r.heap[b][i])]
      /\ \A c \in DOMAIN heap' : c # b => heap'[c] = heap[c]
    <2> HIDE DEF Cut
    <2> QED
        BY <1>2, <1>3, <1>4
<1>6. ASSUME NEW i \in 0 .. space - 1
      PROVE  /\ Cut(i, r.heap[b][i]) \in Cells
             /\ Cut(i, r.heap[b][i]) # Raw <=> i < n
    <2>1. r.heap[b][i] \in Cells /\ (r.heap[b][i] # Raw <=> i < w.size)
        BY <1>3 DEF HoldsElements
    <2>2. DefaultValue \in Cells /\ DefaultValue # Raw /\ Raw \in Cells
        BY VecNamesAssumption DEF Cells
    <2>3. CASE i \in n .. w.size - 1
        BY <2>2, <2>3
    <2>4. CASE i \in w.size .. n - 1
        BY <1>1, <2>2, <2>4
    <2>5. CASE i \notin n .. w.size - 1 /\ i \notin w.size .. n - 1
        BY <1>1, <2>1, <2>5
    <2> QED
        BY <2>3, <2>4, <2>5
<1>7. /\ heap'[b] \in [0 .. space - 1 -> Cells]
      /\ HoldsElements(heap'[b], n)
    <2> HIDE DEF Cut
    <2> QED
        BY <1>5, <1>6 DEF HoldsElements
<1>8. Read(heap'[b], n) = Resized(Contents[v], n)
    <2>1. Len(Contents[v]) = w.size
        BY ContentsFacts
    <2> SUFFICES ASSUME NEW i \in 1 .. n
                 PROVE  heap'[b][i - 1] = IF i <= w.size THEN Contents[v][i]
                                                         ELSE DefaultValue
        BY <2>1 DEF Read, Resized
    <2>2. i - 1 \in 0 .. space - 1 /\ i - 1 \notin n .. w.size - 1
        BY <1>1, <1>3
    <2>3. heap'[b][i - 1] = Cut(i - 1, r.heap[b][i - 1])
        <3> HIDE DEF Cut
        <3> QED
            BY <1>5, <2>2
    <2>4. CASE i <= w.size
        <3>1. i \in 1 .. w.size /\ i - 1 \notin w.size .. n - 1
            BY <1>1, <2>4
        <3>2. Contents[v][i] = r.heap[b][i - 1]
            BY <1>3, <3>1 DEF Read
        <3> QED
            BY <2>2, <2>3, <2>4, <3>1, <3>2
    <2>5. CASE ~(i <= w.size)
        <3>1. i - 1 \in w.size .. n - 1
            BY <1>1, <2>5
        <3> QED
            BY <2>2, <2>3, <2>5, <3>1
    <2> QED
        BY <2>4, <2>5
<1> HIDE DEF Cut
<1>9. DOMAIN heap' = (DOMAIN heap \ {OldBlock(v)}) \cup {b}
    BY <1>3, <1>5
<1>10. \A c \in DOMAIN heap' : c # b => heap'[c] = heap[c]
    BY <1>5
<1>11. Becomes(v, Vector(b, n, space)) /\ UNCHANGED undefined
    BY <1>2, <1>4
<1>12. v \in Vecs /\ n <= space /\ b \notin DOMAIN heap \ {OldBlock(v)}
    BY <1>1, <1>3
<1> QED
    BY <1>7, <1>8, <1>9, <1>10, <1>11, <1>12, BlockReplaced

LEMMA AddKeeps ==
    ASSUME IInv, NEW v \in Existing, NEW x \in Values, Add(v, x)
    PROVE  IInv' /\ Sequences!Becomes(v, Append(Contents[v], x))
<1> DEFINE w == vecs[v]
           n == CapacityToAdd(w)
<1>1. /\ v \in Vecs /\ IsSound(w)
      /\ w.size \in Nat /\ w.space \in Nat /\ w.size <= w.space
    BY VecFacts DEF VecRecords
<1>2. n \in Nat /\ n # 0 /\ w.size < n
    BY <1>1, VecCapacityAssumption DEF CapacityToAdd
<1>3. PICK r \in Reserved(w, n) :
          /\ heap' = Put(r.heap, r.vector.data, r.vector.size, x)
          /\ Becomes(v, [r.vector EXCEPT !.size = @ + 1])
          /\ UNCHANGED undefined
    BY <1>1 DEF Add
<1> HIDE DEF n
<1>4. PICK b \in Blocks, space \in Nat :
            /\ n <= space
            /\ r.vector = Vector(b, w.size, space)
            /\ b \notin DOMAIN heap \ {OldBlock(v)}
            /\ DOMAIN r.heap = (DOMAIN heap \ {OldBlock(v)}) \cup {b}
            /\ r.heap[b] \in [0 .. space - 1 -> Cells]
            /\ HoldsElements(r.heap[b], w.size)
            /\ Read(r.heap[b], w.size) = Contents[v]
            /\ \A c \in DOMAIN r.heap : c # b => r.heap[c] = heap[c]
    BY <1>2, ReservedBlock
<1>5. /\ r.vector.data = b /\ r.vector.size = w.size
      /\ [r.vector EXCEPT !.size = @ + 1] = Vector(b, w.size + 1, space)
    BY <1>4 DEF Vector
<1>6. /\ DOMAIN heap' = DOMAIN r.heap
      /\ heap'[b] = [r.heap[b] EXCEPT ![w.size] = x]
      /\ \A c \in DOMAIN heap' : c # b => heap'[c] = heap[c]
    BY <1>3, <1>4, <1>5 DEF Put
<1>7. x \in Cells /\ x # Raw
    BY VecNamesAssumption DEF Cells
<1>8. /\ heap'[b] \in [0 .. space - 1 -> Cells]
      /\ HoldsElements(heap'[b], w.size + 1)
    BY <1>1, <1>2, <1>4, <1>6, <1>7 DEF HoldsElements
<1>9. w.size + 1 \in Nat /\ w.size + 1 <= space
    BY <1>1, <1>2, <1>4
<1>10. DOMAIN heap' = (DOMAIN heap \ {OldBlock(v)}) \cup {b}
    BY <1>4, <1>6
<1>11. \A c \in DOMAIN heap' : c # b => heap'[c] = heap[c]
    BY <1>6
<1>12. Becomes(v, Vector(b, w.size + 1, space)) /\ UNCHANGED undefined
    BY <1>3, <1>5
<1>13. Read(heap'[b], w.size + 1) = Append(Contents[v], x)
    <2>1. Contents[v] \in Seq(Values) /\ Len(Contents[v]) = w.size
        BY ContentsFacts
    <2>2. /\ Append(Contents[v], x) \in Seq(Values)
          /\ Len(Append(Contents[v], x)) = w.size + 1
          /\ \A i \in 1 .. w.size : Append(Contents[v], x)[i] = Contents[v][i]
          /\ Append(Contents[v], x)[w.size + 1] = x
        BY <2>1, AppendProperties
    <2>3. /\ Read(heap'[b], w.size + 1) \in Seq(Values)
          /\ Len(Read(heap'[b], w.size + 1)) = w.size + 1
          /\ \A i \in 1 .. w.size + 1 : Read(heap'[b], w.size + 1)[i] = heap'[b][i - 1]
        BY <1>4, <1>8, <1>9, ReadIsSequence
    <2>4. ASSUME NEW i \in 1 .. w.size + 1
          PROVE  heap'[b][i - 1] = Append(Contents[v], x)[i]
        <3>1. CASE i = w.size + 1
            <4>1. i - 1 = w.size /\ w.size \in 0 .. space - 1
                BY <1>1, <1>9, <3>1
            <4> QED
                BY <1>4, <1>6, <2>2, <3>1, <4>1
        <3>2. CASE i # w.size + 1
            <4>1. i \in 1 .. w.size /\ i - 1 # w.size /\ i - 1 \in 0 .. space - 1
                BY <1>1, <1>9, <3>2
            <4>2. Contents[v][i] = r.heap[b][i - 1]
                BY <1>4, <4>1 DEF Read
            <4> QED
                BY <1>4, <1>6, <2>2, <4>1, <4>2
        <3> QED
            BY <3>1, <3>2
    <2>5. \A i \in 1 .. Len(Read(heap'[b], w.size + 1)) :
              Read(heap'[b], w.size + 1)[i] = Append(Contents[v], x)[i]
        BY <2>3, <2>4
    <2> QED
        BY <2>2, <2>3, <2>5, SeqEqual
<1> QED
    BY <1>1, <1>4, <1>8, <1>9, <1>10, <1>11, <1>12, <1>13, BlockReplaced

\* A call that changes which cells of the vec's own block are elements.
LEMMA InPlace ==
    ASSUME IInv, NEW v \in Existing, vecs[v].data # Null,
           NEW size \in Nat, size <= vecs[v].space,
           NEW cells \in [0 .. vecs[v].space - 1 -> Cells], HoldsElements(cells, size),
           heap' = [heap EXCEPT ![vecs[v].data] = cells],
           Becomes(v, [vecs[v] EXCEPT !.size = size]),
           UNCHANGED undefined
    PROVE  IInv' /\ Sequences!Becomes(v, Read(cells, size))
<1> DEFINE w == vecs[v]
<1>1. v \in Vecs /\ w \in VecRecords /\ w.data \in DOMAIN heap /\ OldBlock(v) = w.data
    BY VecFacts DEF OldBlock
<1>2. /\ w.data \in Blocks /\ w.space \in Nat
      /\ [w EXCEPT !.size = size] = Vector(w.data, size, w.space)
    BY <1>1 DEF VecRecords, Vector
<1>3. /\ DOMAIN heap' = (DOMAIN heap \ {OldBlock(v)}) \cup {w.data}
      /\ heap'[w.data] = cells
      /\ \A c \in DOMAIN heap' : c # w.data => heap'[c] = heap[c]
    BY <1>1
<1>4. w.data \notin DOMAIN heap \ {OldBlock(v)}
    BY <1>1
<1>5. Becomes(v, Vector(w.data, size, w.space)) /\ UNCHANGED undefined
    BY <1>2
<1>6. heap'[w.data] \in [0 .. w.space - 1 -> Cells] /\ HoldsElements(heap'[w.data], size)
    BY <1>3
<1> QED
    BY <1>1, <1>2, <1>3, <1>4, <1>5, <1>6, BlockReplaced

LEMMA PopBackKeeps ==
    ASSUME IInv, NEW v \in Existing, vecs[v].size > 0, PopBack(v)
    PROVE  IInv' /\ Sequences!Becomes(v, Resized(Contents[v], vecs[v].size - 1))
<1> DEFINE w == vecs[v]
           cells == [heap[w.data] EXCEPT ![w.size - 1] = Raw]
<1>1. /\ w.size \in Nat /\ w.space \in Nat /\ w.size <= w.space /\ IsSound(w)
      /\ w.data # Null
      /\ heap[w.data] \in [0 .. w.space - 1 -> Cells]
      /\ HoldsElements(heap[w.data], w.size)
    BY VecFacts DEF VecRecords
<1>2. /\ heap' = [heap EXCEPT ![w.data] = cells]
      /\ Becomes(v, [w EXCEPT !.size = w.size - 1])
      /\ UNCHANGED undefined
    BY <1>1 DEF PopBack, Put
<1>3. cells \in [0 .. w.space - 1 -> Cells] /\ HoldsElements(cells, w.size - 1)
    BY <1>1 DEF HoldsElements, Cells
<1>4. w.size - 1 \in Nat /\ w.size - 1 <= w.space
    BY <1>1
<1>5. Read(cells, w.size - 1) = Resized(Contents[v], w.size - 1)
    <2>1. Len(Contents[v]) = w.size /\ Contents[v] = Read(heap[w.data], w.size)
        BY <1>1, ContentsFacts
    <2> SUFFICES ASSUME NEW i \in 1 .. w.size - 1
                 PROVE  cells[i - 1] = IF i <= w.size THEN Contents[v][i] ELSE DefaultValue
        BY <2>1 DEF Read, Resized
    <2>2. i \in 1 .. w.size /\ i <= w.size /\ i - 1 # w.size - 1 /\ i - 1 \in 0 .. w.space - 1
        BY <1>1
    <2>3. Contents[v][i] = heap[w.data][i - 1]
        BY <2>1, <2>2 DEF Read
    <2> QED
        BY <1>1, <2>2, <2>3
<1> HIDE DEF cells
<1> QED
    BY <1>1, <1>2, <1>3, <1>4, <1>5, InPlace

LEMMA ClearKeeps ==
    ASSUME IInv, NEW v \in Existing, Clear(v)
    PROVE  IInv' /\ (Sequences!Becomes(v, Resized(Contents[v], 0)) \/ UNCHANGED Contents)
<1> SUFFICES ASSUME vecs[v].size # 0
             PROVE  IInv' /\ Sequences!Becomes(v, Resized(Contents[v], 0))
    BY NothingChanged DEF Clear
<1> DEFINE w == vecs[v]
           cells == [i \in 0 .. w.space - 1 |-> IF i < w.size THEN Raw ELSE heap[w.data][i]]
<1>1. /\ w.size \in Nat /\ w.space \in Nat /\ w.size <= w.space /\ IsSound(w)
      /\ w.data # Null /\ w.data \in DOMAIN heap
      /\ heap[w.data] \in [0 .. w.space - 1 -> Cells]
      /\ HoldsElements(heap[w.data], w.size)
    BY VecFacts DEF VecRecords
<1>2. /\ heap' = [heap EXCEPT ![w.data] = cells]
      /\ Becomes(v, [w EXCEPT !.size = 0])
      /\ UNCHANGED undefined
    BY <1>1 DEF Clear
<1>3. cells \in [0 .. w.space - 1 -> Cells] /\ HoldsElements(cells, 0)
    BY <1>1 DEF HoldsElements, Cells
<1>4. 0 \in Nat /\ 0 <= w.space
    BY <1>1
<1> HIDE DEF cells
<1>5. Read(cells, 0) = Resized(Contents[v], 0)
    BY DEF Read, Resized
<1> QED
    BY <1>1, <1>2, <1>3, <1>4, <1>5, InPlace

LEMMA ShrinkToFitKeeps ==
    ASSUME IInv, NEW v \in Existing, CanShrink(vecs[v]), ShrinkToFit(v)
    PROVE  IInv' /\ UNCHANGED Contents
<1> DEFINE w == vecs[v]
<1>1. /\ v \in Vecs /\ IsSound(w) /\ w \in VecRecords
      /\ w.size \in Nat /\ w.space \in Nat /\ w.size <= w.space
      /\ w.data = Null => w.size = 0 /\ w.space = 0
    BY VecFacts DEF VecRecords
<1>2. CASE w.size > 0
    <2>1. PICK b \in Unused(heap) :
              heap' = Relocated(w, b, w.size) /\ Becomes(v, Vector(b, w.size, w.size))
        BY <1>1, <1>2 DEF ShrinkToFit
    <2>2. UNCHANGED undefined
        BY <1>1 DEF ShrinkToFit
    <2>3. Objects(w) \in [0 .. w.size - 1 -> Values] /\ Read(Objects(w), w.size) = Contents[v]
        BY ObjectsAreValues
    <2>4. /\ DOMAIN heap' = (DOMAIN heap \ {OldBlock(v)}) \cup {b}
          /\ heap'[b] = Filled(w.size, Objects(w))
          /\ \A c \in DOMAIN heap' : c # b => heap'[c] = heap[c]
        BY <2>1 DEF Relocated, Allocated, Deallocated, Restrict, OldBlock
    <2>5. /\ heap'[b] \in [0 .. w.size - 1 -> Cells] /\ HoldsElements(heap'[b], w.size)
          /\ Read(heap'[b], w.size) = Contents[v]
        BY <1>1, <2>3, <2>4, FilledHolds
    <2>6. b \in Blocks /\ b \notin DOMAIN heap
        BY DEF Unused
    <2>7. IInv' /\ Sequences!Becomes(v, Contents[v])
        BY <1>1, <2>1, <2>2, <2>4, <2>5, <2>6, BlockReplaced
    <2> QED
        BY <2>7, BecomesItself
\* Nothing is given back, and the capacity was 0 before.
<1>3. CASE ~(w.size > 0)
    <2>1. w.data = Null /\ w.size = 0 /\ w.space = 0
        BY <1>1, <1>3 DEF CanShrink
    <2>2. w = EmptyVec /\ [w EXCEPT !.space = 0] = EmptyVec
        BY <1>1, <2>1 DEF VecRecords, EmptyVec, Vector
    <2>3. /\ heap' = Deallocated(heap, w.data)
          /\ Becomes(v, EmptyVec)
          /\ UNCHANGED undefined
        BY <1>1, <1>3, <2>1, <2>2 DEF ShrinkToFit
    <2>4. /\ DOMAIN heap' = DOMAIN heap \ {OldBlock(v)}
          /\ \A c \in DOMAIN heap' : heap'[c] = heap[c]
        BY <2>3 DEF Deallocated, Restrict, OldBlock
    <2>5. EmptyVec # NoVec
        BY VecNamesAssumption DEF EmptyVec, Vector
    <2>6. IInv' /\ Sequences!Becomes(v, <<>>)
        BY <1>1, <2>3, <2>4, <2>5, BlockGone
    <2>7. Contents[v] = <<>>
        BY <2>1, ContentsFacts
    <2> QED
        BY <2>6, <2>7, BecomesItself
<1> QED
    BY <1>2, <1>3

\* The element is read from the vec's own memory, where push() leaves it.
LEMMA PushOwnKeeps ==
    ASSUME IInv, NEW v \in Existing, CanPushOwn(vecs[v]),
           NEW i \in 0 .. vecs[v].size - 1, PushOwn(v, i)
    PROVE  IInv' /\ \E x \in Values : Sequences!Becomes(v, Append(Contents[v], x))
<1> DEFINE w == vecs[v]
<1>1. /\ w.size \in Nat /\ w.space \in Nat /\ w.size <= w.space /\ IsSound(w)
      /\ w.data # Null
    BY VecFacts DEF VecRecords
<1>2. CapacityToAdd(w) = w.space
    BY <1>1 DEF CapacityToAdd, CanPushOwn
<1>3. Add(v, heap[w.data][i])
    BY <1>1, <1>2 DEF PushOwn, Push
<1>4. heap[w.data][i] \in Values
    BY <1>1, ObjectsAreValues DEF Objects
<1> QED
    BY <1>3, <1>4, AddKeeps

----------------------------------------------------------------------------
LEMMA InitEstablishes == Init => IInv
    BY DEF Init, IInv, TypeOK, BlocksHaveOneOwner, ObjectsAreElements, NeverUndefined,
           Existing

LEMMA SameVecs == ASSUME IInv PROVE Sequences!Existing = Existing
<1>1. \A v \in Vecs : v \notin Existing => Contents[v] = NoVec
    BY DEF Contents
<1>2. \A v \in Existing : v \in Vecs /\ Contents[v] # NoVec
    BY ContentsFacts DEF Existing
<1> QED
    BY <1>1, <1>2 DEF Sequences!Existing

\* A step of the abstract vecs, or none.
Mapped == Sequences!Next \/ UNCHANGED Contents

\* The lengths that AbstractVecs can give to a vec are bounded.
Bounded == \A v \in Existing : vecs[v].size \in Lengths

LEMMA BoundedFact == ASSUME IInv, Bounded, NEW v \in Existing PROVE vecs[v].size \in Lengths
    BY DEF Bounded

LEMMA ConstructInMapped ==
    ASSUME IInv, NEW v \in Vecs, NEW n \in Lengths, NEW x \in Values,
           ConstructIn(v, Fill(n, x), n, n)
    PROVE  IInv' /\ Mapped
<1>1. n \in Nat /\ Fill(n, x) \in [0 .. n - 1 -> Values]
    BY VecCapacityAssumption DEF Fill, Lengths
<1>2. IInv' /\ Sequences!Becomes(v, Read(Fill(n, x), n))
    BY <1>1, ConstructInKeeps
<1>3. Read(Fill(n, x), n) = [i \in 1 .. n |-> x]
    BY <1>1 DEF Read, Fill
<1>4. v \notin Sequences!Existing
    BY SameVecs DEF ConstructIn
<1>5. Sequences!New(v, n, x)
    BY <1>2, <1>3, <1>4 DEF Sequences!New
<1> QED
    BY <1>2, <1>5 DEF Mapped, Sequences!Next

LEMMA ConstructionKeeps ==
    ASSUME IInv, NEW v \in Vecs
    PROVE  /\ Construct(v) => IInv' /\ Mapped
           /\ \A n \in Lengths : ConstructLen(v, n) => IInv' /\ Mapped
           /\ \A n \in Lengths, x \in Values : ConstructFill(v, n, x) => IInv' /\ Mapped
           /\ \A o \in Existing : ConstructCopy(v, o) \/ ConstructMove(v, o) => IInv' /\ Mapped
<1>1. ASSUME Construct(v) PROVE IInv' /\ Mapped
    <2>1. IInv' /\ Sequences!Becomes(v, <<>>)
        BY <1>1, ConstructKeeps
    <2>2. [i \in 1 .. 0 |-> DefaultValue] = <<>>
        OBVIOUS
    <2>3. v \notin Sequences!Existing
        BY <1>1, SameVecs DEF Construct
    <2>4. Sequences!New(v, 0, DefaultValue)
        BY <2>1, <2>2, <2>3 DEF Sequences!New
    <2>5. 0 \in Lengths /\ DefaultValue \in Values
        BY VecCapacityAssumption, VecNamesAssumption DEF Lengths
    <2> QED
        BY <2>1, <2>4, <2>5 DEF Mapped, Sequences!Next
<1>2. \A n \in Lengths : ConstructLen(v, n) => IInv' /\ Mapped
    BY ConstructInMapped, VecNamesAssumption DEF ConstructLen
<1>3. \A n \in Lengths, x \in Values : ConstructFill(v, n, x) => IInv' /\ Mapped
    BY ConstructInMapped DEF ConstructFill
<1>4. ASSUME NEW o \in Existing, ConstructCopy(v, o)
      PROVE  IInv' /\ Mapped
    <2>1. /\ IsSound(vecs[o]) /\ vecs[o].size <= vecs[o].space
          /\ vecs[o].size \in Nat /\ vecs[o].space \in Nat
        BY VecFacts DEF VecRecords
    <2>2. /\ Objects(vecs[o]) \in [0 .. vecs[o].size - 1 -> Values]
          /\ Read(Objects(vecs[o]), vecs[o].size) = Contents[o]
        BY ObjectsAreValues
    <2>3. IInv' /\ Sequences!Becomes(v, Contents[o])
        BY <1>4, <2>1, <2>2, ConstructInKeeps DEF ConstructCopy
    <2>4. Sequences!Copy(v, o) /\ o \in Vecs
        BY <2>3, SameVecs DEF Sequences!Copy, Existing
    <2> QED
        BY <2>3, <2>4 DEF Mapped, Sequences!Next
<1>5. ASSUME NEW o \in Existing, ConstructMove(v, o)
      PROVE  IInv' /\ Mapped
    <2>1. IInv' /\ Contents' = [Contents EXCEPT ![v] = Contents[o], ![o] = <<>>]
        BY <1>5, ConstructMoveKeeps
    <2>2. Sequences!Move(v, o) /\ o \in Vecs
        BY <2>1, SameVecs DEF Sequences!Move, Existing
    <2> QED
        BY <2>1, <2>2 DEF Mapped, Sequences!Next
<1> QED
    BY <1>1, <1>2, <1>3, <1>4, <1>5

LEMMA ResizedMapped ==
    ASSUME IInv, NEW v \in Existing, NEW n \in Lengths,
           Sequences!Becomes(v, Resized(Contents[v], n))
    PROVE  Mapped
<1>1. Sequences!Resize(v, n) /\ v \in Vecs
    BY SameVecs DEF Sequences!Resize, Resized, Existing
<1> QED
    BY <1>1 DEF Mapped, Sequences!Next

LEMMA PushMapped ==
    ASSUME IInv, NEW v \in Existing, NEW x \in Values,
           Sequences!Becomes(v, Append(Contents[v], x))
    PROVE  Mapped
<1>1. Sequences!Push(v, x) /\ v \in Vecs
    BY SameVecs DEF Sequences!Push, Existing
<1> QED
    BY <1>1 DEF Mapped, Sequences!Next

LEMMA CallKeeps ==
    ASSUME IInv, Bounded, NEW v \in Existing
    PROVE  /\ Destroy(v) \/ Clear(v) => IInv' /\ Mapped
           /\ \A o \in Existing : CanAssign(v, o) /\ CopyAssign(v, o) => IInv' /\ Mapped
           /\ \A o \in Existing : MoveAssign(v, o) => IInv' /\ Mapped
           /\ \A n \in Lengths : Reserve(v, n) \/ Resize(v, n) => IInv' /\ Mapped
           /\ CanShrink(vecs[v]) /\ ShrinkToFit(v) => IInv' /\ Mapped
           /\ vecs[v].size > 0 /\ PopBack(v) => IInv' /\ Mapped
           /\ \A x \in Values : Push(v, x) => IInv' /\ Mapped
           /\ CanPushOwn(vecs[v]) =>
                  \A i \in 0 .. vecs[v].size - 1 : PushOwn(v, i) => IInv' /\ Mapped
<1>1. /\ v \in Vecs /\ v \in Sequences!Existing
      /\ \A n \in Lengths : n \in Nat
    BY SameVecs, VecCapacityAssumption DEF Existing, Lengths
<1>2. ASSUME Destroy(v) PROVE IInv' /\ Mapped
    <2>1. IInv' /\ Sequences!Delete(v)
        BY <1>1, <1>2, DestroyKeeps DEF Sequences!Delete
    <2> QED
        BY <1>1, <2>1 DEF Mapped, Sequences!Next
<1>3. ASSUME Clear(v) PROVE IInv' /\ Mapped
    <2>1. 0 \in Lengths
        BY VecCapacityAssumption DEF Lengths
    <2>2. IInv' /\ (Sequences!Becomes(v, Resized(Contents[v], 0)) \/ UNCHANGED Contents)
        BY <1>3, ClearKeeps
    <2> QED
        BY <2>1, <2>2, ResizedMapped DEF Mapped
<1>4. ASSUME NEW o \in Existing, CanAssign(v, o), CopyAssign(v, o)
      PROVE  IInv' /\ Mapped
    <2>1. IInv' /\ (Sequences!Becomes(v, Contents[o]) \/ UNCHANGED Contents)
        BY <1>4, CopyAssignKeeps
    <2>2. Sequences!Becomes(v, Contents[o]) => Sequences!Copy(v, o) /\ o \in Vecs
        BY SameVecs DEF Sequences!Copy, Existing
    <2> QED
        BY <1>1, <2>1, <2>2 DEF Mapped, Sequences!Next
<1>5. ASSUME NEW o \in Existing, MoveAssign(v, o) PROVE IInv' /\ Mapped
    <2>1. IInv' /\ Contents' = [Contents EXCEPT ![v] = Contents[o], ![o] = <<>>]
        BY <1>5, MoveAssignKeeps
    <2>2. Sequences!Move(v, o) /\ o \in Vecs
        BY <2>1, SameVecs DEF Sequences!Move, Existing
    <2> QED
        BY <1>1, <2>1, <2>2 DEF Mapped, Sequences!Next
<1>6. ASSUME NEW n \in Lengths, Reserve(v, n) PROVE IInv' /\ Mapped
    BY <1>1, <1>6, ReserveKeeps DEF Mapped
<1>7. ASSUME NEW n \in Lengths, Resize(v, n) PROVE IInv' /\ Mapped
    <2>1. IInv' /\ (Sequences!Becomes(v, Resized(Contents[v], n)) \/ UNCHANGED Contents)
        BY <1>1, <1>7, ResizeKeeps
    <2> QED
        BY <2>1, ResizedMapped DEF Mapped
<1>8. CanShrink(vecs[v]) /\ ShrinkToFit(v) => IInv' /\ Mapped
    BY ShrinkToFitKeeps DEF Mapped
<1>9. ASSUME vecs[v].size > 0, PopBack(v) PROVE IInv' /\ Mapped
    <2>1. vecs[v].size - 1 \in Lengths
        BY <1>9, BoundedFact, VecCapacityAssumption DEF Lengths
    <2>2. IInv' /\ Sequences!Becomes(v, Resized(Contents[v], vecs[v].size - 1))
        BY <1>9, PopBackKeeps
    <2> QED
        BY <2>1, <2>2, ResizedMapped
<1>10. \A x \in Values : Push(v, x) => IInv' /\ Mapped
    BY AddKeeps, PushMapped DEF Push
<1>11. ASSUME CanPushOwn(vecs[v]), NEW i \in 0 .. vecs[v].size - 1, PushOwn(v, i)
       PROVE  IInv' /\ Mapped
    <2>1. IInv' /\ \E x \in Values : Sequences!Becomes(v, Append(Contents[v], x))
        BY <1>11, PushOwnKeeps
    <2> QED
        BY <2>1, PushMapped
<1> QED
    BY <1>2, <1>3, <1>4, <1>5, <1>6, <1>7, <1>8, <1>9, <1>10, <1>11

LEMMA BoundedAfter ==
    ASSUME IInv, Bounded, NEW v \in Vecs, NEW w, Becomes(v, w),
           w = NoVec \/ w.size \in Lengths
    PROVE  Bounded'
<1>1. vecs'[v] = w /\ \A u \in Vecs : u # v => vecs'[u] = vecs[u]
    BY DEF Becomes, IInv, TypeOK
<1> QED
    BY <1>1 DEF Bounded, Existing

LEMMA BoundedMove ==
    ASSUME IInv, Bounded, NEW v \in Vecs, NEW o \in Existing, MoveInto(v, o)
    PROVE  Bounded'
<1>1. /\ vecs'[o] = EmptyVec
      /\ v # o => vecs'[v] = vecs[o]
      /\ \A u \in Vecs : u # v /\ u # o => vecs'[u] = vecs[u]
    BY DEF MoveInto, IInv, TypeOK, Existing
<1>2. EmptyVec.size \in Lengths
    BY VecCapacityAssumption DEF EmptyVec, Vector, Lengths
<1> QED
    BY <1>1, <1>2 DEF Bounded, Existing

LEMMA ReservedSize ==
    ASSUME IInv, NEW v \in Existing, NEW n, NEW r \in Reserved(vecs[v], n)
    PROVE  /\ r.vector.size = vecs[v].size
           /\ \A k : [r.vector EXCEPT !.size = k].size = k
<1> DEFINE w == vecs[v]
<1>1. w \in VecRecords
    BY VecFacts
<1>2. \/ r.vector = w
      \/ \E b \in Unused(heap) : r.vector = [w EXCEPT !.data = b, !.space = n]
    <2>1. r \in Reserved(w, n)
        OBVIOUS
    <2> HIDE DEF w
    <2>2. CASE Fits(w, n)
        <3>1. r = [vector |-> w, heap |-> heap]
            BY <2>1, <2>2 DEF Reserved
        <3> QED
            BY <3>1
    <2>3. CASE ~Fits(w, n)
        <3>1. PICK b \in Unused(heap) :
                  r = [vector |-> [w EXCEPT !.data = b, !.space = n],
                       heap   |-> Relocated(w, b, n)]
            BY <2>1, <2>3 DEF Reserved
        <3> QED
            BY <3>1
    <2> QED
        BY <2>2, <2>3
<1> HIDE DEF w
<1>3. r.vector.size = w.size /\ DOMAIN r.vector = {"data", "size", "space"}
    BY <1>1, <1>2 DEF VecRecords
<1>4. \A k : [r.vector EXCEPT !.size = k].size = k
    BY <1>3
<1> QED
    BY <1>3, <1>4 DEF w

LEMMA ConstructionBounded ==
    ASSUME IInv, Bounded, NEW v \in Vecs
    PROVE  /\ Construct(v) => Bounded'
           /\ \A n \in Lengths : ConstructLen(v, n) => Bounded'
           /\ \A n \in Lengths, x \in Values : ConstructFill(v, n, x) => Bounded'
           /\ \A o \in Existing : ConstructCopy(v, o) \/ ConstructMove(v, o) => Bounded'
<1>1. Construct(v) => Bounded'
    <2>1. EmptyVec.size \in Lengths
        BY VecCapacityAssumption DEF EmptyVec, Vector, Lengths
    <2> QED
        BY <2>1, BoundedAfter DEF Construct
<1>2. ASSUME NEW size \in Lengths, NEW space, NEW s, ConstructIn(v, s, size, space)
      PROVE  Bounded'
    <2>1. PICK b \in Unused(heap) : Becomes(v, Vector(b, size, space))
        BY <1>2 DEF ConstructIn
    <2>2. Vector(b, size, space).size \in Lengths
        BY DEF Vector
    <2> QED
        BY <2>1, <2>2, BoundedAfter
<1>3. \A n \in Lengths : ConstructLen(v, n) => Bounded'
    BY <1>2 DEF ConstructLen
<1>4. \A n \in Lengths, x \in Values : ConstructFill(v, n, x) => Bounded'
    BY <1>2 DEF ConstructFill
<1>5. ASSUME NEW o \in Existing, ConstructCopy(v, o) PROVE Bounded'
    BY <1>2, <1>5, VecFacts, BoundedFact DEF ConstructCopy
<1>6. \A o \in Existing : ConstructMove(v, o) => Bounded'
    BY BoundedMove DEF ConstructMove
<1> QED
    BY <1>1, <1>3, <1>4, <1>5, <1>6

LEMMA CallBounded ==
    ASSUME IInv, Bounded, NEW v \in Existing
    PROVE  /\ Destroy(v) \/ Clear(v) => Bounded'
           /\ \A o \in Existing : CanAssign(v, o) /\ CopyAssign(v, o) => Bounded'
           /\ \A o \in Existing : MoveAssign(v, o) => Bounded'
           /\ \A n \in Lengths : Reserve(v, n) \/ Resize(v, n) => Bounded'
           /\ ShrinkToFit(v) => Bounded'
           /\ vecs[v].size > 0 /\ PopBack(v) => Bounded'
           /\ vecs[v].size < MaxLen => \A x : Push(v, x) => Bounded'
<1>1. /\ v \in Vecs /\ vecs[v] \in VecRecords /\ vecs[v].size \in Nat
      /\ IsSound(vecs[v]) /\ vecs[v].size \in Lengths
    BY VecFacts, BoundedFact DEF VecRecords
<1>2. UNCHANGED vars => Bounded'
    BY DEF vars, Bounded, Existing
<1>3. Destroy(v) => Bounded'
    BY <1>1, BoundedAfter DEF Destroy
<1>4. ASSUME Clear(v) PROVE Bounded'
    <2>1. 0 \in Lengths /\ [vecs[v] EXCEPT !.size = 0].size = 0
        BY <1>1, VecCapacityAssumption DEF Lengths, VecRecords
    <2> QED
        BY <1>1, <1>2, <1>4, <2>1, BoundedAfter DEF Clear
<1>5. ASSUME NEW o \in Existing, CanAssign(v, o), CopyAssign(v, o) PROVE Bounded'
    <2>1. IsSound(vecs[o]) /\ vecs[o].size \in Lengths
        BY VecFacts, BoundedFact
    <2>2. CASE v = o
        BY <1>2, <1>5, <2>2 DEF CopyAssign
    <2>3. CASE v # o
        <3>1. PICK b : Becomes(v, Vector(b, vecs[o].size, vecs[o].space))
            BY <1>1, <1>5, <2>1, <2>3 DEF CopyAssign, CanAssign
        <3>2. Vector(b, vecs[o].size, vecs[o].space).size \in Lengths
            BY <2>1 DEF Vector
        <3> QED
            BY <1>1, <3>1, <3>2, BoundedAfter
    <2> QED
        BY <2>2, <2>3
<1>6. ASSUME NEW o \in Existing, MoveAssign(v, o) PROVE Bounded'
    BY <1>1, <1>6, BoundedMove DEF MoveAssign
<1>7. ASSUME NEW n \in Lengths, Reserve(v, n) PROVE Bounded'
    <2>1. PICK r \in Reserved(vecs[v], n) : Becomes(v, r.vector)
        BY <1>1, <1>7 DEF Reserve
    <2> QED
        BY <1>1, <2>1, ReservedSize, BoundedAfter
<1>8. ASSUME NEW n \in Lengths, Resize(v, n) PROVE Bounded'
    <2>1. CASE n = vecs[v].size
        BY <1>2, <1>8, <2>1 DEF Resize
    <2>2. CASE n # vecs[v].size
        <3>1. PICK r \in Reserved(vecs[v], n) : Becomes(v, [r.vector EXCEPT !.size = n])
            BY <1>1, <1>8, <2>2 DEF Resize
        <3>2. [r.vector EXCEPT !.size = n].size \in Lengths
            BY ReservedSize
        <3> QED
            BY <1>1, <3>1, <3>2, BoundedAfter
    <2> QED
        BY <2>1, <2>2
<1>9. ASSUME ShrinkToFit(v) PROVE Bounded'
    <2>1. CASE UNCHANGED vars
        BY <1>2, <2>1
    <2>2. CASE \E b : Becomes(v, Vector(b, vecs[v].size, vecs[v].size))
        <3>1. PICK b : Becomes(v, Vector(b, vecs[v].size, vecs[v].size))
            BY <2>2
        <3>2. Vector(b, vecs[v].size, vecs[v].size).size \in Lengths
            BY <1>1 DEF Vector
        <3> QED
            BY <1>1, <3>1, <3>2, BoundedAfter
    <2>3. CASE Becomes(v, [vecs[v] EXCEPT !.space = 0])
        <3>1. [vecs[v] EXCEPT !.space = 0].size \in Lengths
            BY <1>1 DEF VecRecords
        <3> QED
            BY <1>1, <2>3, <3>1, BoundedAfter
    <2> QED
        BY <1>1, <1>9, <2>1, <2>2, <2>3 DEF ShrinkToFit
<1>10. ASSUME vecs[v].size > 0, PopBack(v) PROVE Bounded'
    <2>1. Becomes(v, [vecs[v] EXCEPT !.size = @ - 1])
        BY <1>1, <1>10 DEF PopBack
    <2>2. [vecs[v] EXCEPT !.size = @ - 1].size = vecs[v].size - 1
        BY <1>1 DEF VecRecords
    <2>3. vecs[v].size - 1 \in Lengths
        BY <1>1, <1>10, VecCapacityAssumption DEF Lengths
    <2> QED
        BY <1>1, <2>1, <2>2, <2>3, BoundedAfter
<1>11. ASSUME vecs[v].size < MaxLen, NEW x, Push(v, x) PROVE Bounded'
    <2>1. PICK r \in Reserved(vecs[v], CapacityToAdd(vecs[v])) :
              Becomes(v, [r.vector EXCEPT !.size = @ + 1])
        BY <1>1, <1>11 DEF Push, Add
    <2>2. [r.vector EXCEPT !.size = @ + 1].size = vecs[v].size + 1
        BY ReservedSize
    <2>3. vecs[v].size + 1 \in Lengths
        BY <1>1, <1>11, VecCapacityAssumption DEF Lengths
    <2> QED
        BY <1>1, <2>1, <2>2, <2>3, BoundedAfter
<1> QED
    BY <1>3, <1>4, <1>5, <1>6, <1>7, <1>8, <1>9, <1>10, <1>11

LEMMA PushOwnPushes ==
    ASSUME IInv, NEW v \in Existing, CanPushOwn(vecs[v]),
           NEW i \in 0 .. vecs[v].size - 1, PushOwn(v, i)
    PROVE  \E x : Push(v, x)
<1>1. /\ vecs[v].size \in Nat /\ vecs[v].space \in Nat /\ IsSound(vecs[v])
    BY VecFacts DEF VecRecords
<1>2. CapacityToAdd(vecs[v]) = vecs[v].space
    BY <1>1 DEF CapacityToAdd, CanPushOwn
<1> QED
    BY <1>1, <1>2 DEF PushOwn

LEMMA CarefulStep ==
    IInv /\ Bounded /\ [CarefulNext]_vars => IInv' /\ Bounded' /\ Mapped
<1> SUFFICES ASSUME IInv, Bounded, [CarefulNext]_vars PROVE IInv' /\ Bounded' /\ Mapped
    OBVIOUS
<1>1. CASE \E v \in Vecs :
            \/ Construct(v)
            \/ \E n \in Lengths : ConstructLen(v, n)
            \/ \E n \in Lengths, x \in Values : ConstructFill(v, n, x)
            \/ \E o \in Existing : ConstructCopy(v, o) \/ ConstructMove(v, o)
    BY <1>1, ConstructionKeeps, ConstructionBounded
<1>2. ASSUME NEW v \in Existing,
            \/ Destroy(v)
            \/ \E o \in Existing : CanAssign(v, o) /\ CopyAssign(v, o)
            \/ \E o \in Existing : MoveAssign(v, o)
            \/ \E n \in Lengths : Reserve(v, n) \/ Resize(v, n)
            \/ CanShrink(vecs[v]) /\ ShrinkToFit(v)
            \/ vecs[v].size > 0 /\ PopBack(v)
            \/ Clear(v)
            \/ /\ vecs[v].size < MaxLen
               /\ \/ \E x \in Values : Push(v, x)
                  \/ /\ CanPushOwn(vecs[v])
                     /\ \E i \in 0 .. vecs[v].size - 1 : PushOwn(v, i)
      PROVE  IInv' /\ Bounded' /\ Mapped
    <2>1. IInv' /\ Mapped
        BY <1>2, CallKeeps
    <2>2. Bounded'
        BY <1>2, CallBounded, PushOwnPushes
    <2> QED
        BY <2>1, <2>2
<1>3. CASE UNCHANGED vars
    <2>1. Bounded'
        BY <1>3 DEF vars, Bounded, Existing
    <2> QED
        BY <1>3, <2>1, NothingChanged DEF Mapped
<1> QED
    BY <1>1, <1>2, <1>3 DEF CarefulNext

\* Whichever type of element the vecs have.
LEMMA StepOfVecs ==
    [CarefulNext /\ UNCHANGED trivial]_<<vars, trivial>> => [CarefulNext]_vars
OBVIOUS

LEMMA InitMapped == Init => Bounded /\ Sequences!Init
    BY DEF Init, Bounded, Existing, Sequences!Init, Contents

\* However a careful client copies, moves, assigns, grows and shrinks any number
\* of vecs, every block is the memory of one vec, objects live in the cells that
\* are elements and nowhere else, and nothing is used that is not there.
THEOREM VecCorrect ==
    CarefulSpec => [](TypeOK /\ BlocksHaveOneOwner /\ ObjectsAreElements /\ NeverUndefined)
<1>1. CarefulSpec => []IInv
    BY InitEstablishes, InitMapped, CarefulStep, StepOfVecs, PTL DEF CarefulSpec
<1>2. IInv => TypeOK /\ BlocksHaveOneOwner /\ ObjectsAreElements /\ NeverUndefined
    BY DEF IInv
<1> QED
    BY <1>1, <1>2, PTL

\* Objects are constructed and destroyed so that they live exactly in the
\* elements of the vecs.
THEOREM ObjectsCorrect == CarefulSpec => []ObjectsAreElements
BY VecCorrect, PTL

\* A careful client uses no memory and no object that is not there.
THEOREM VecDefined == CarefulSpec => []NeverUndefined
BY VecCorrect, PTL

\* Every call of a careful client is one of the abstract vecs, or leaves them as
\* they are, for any vecs, values, blocks and capacities: copies share nothing,
\* a move empties its source, and memory of another size has the same elements.
THEOREM ImplementsSequences == CarefulSpec => SequencesSpec
<1>1. Init => IInv /\ Bounded /\ Sequences!Init
    BY InitEstablishes, InitMapped
<1>2. IInv /\ Bounded /\ [CarefulNext]_vars => IInv' /\ Bounded' /\ [Sequences!Next]_Contents
    BY CarefulStep DEF Mapped
<1> QED
    BY <1>1, <1>2, StepOfVecs, PTL DEF CarefulSpec, SequencesSpec, Sequences!Spec
=============================================================================
