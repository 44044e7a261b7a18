---------------------------- MODULE PartsProofs ----------------------------
(***************************************************************************)
(* Proofs about Unique, Queue and EventQueue, which MCParts puts side by   *)
(* side, for all values of their constants.                                *)
(***************************************************************************)
EXTENDS MCParts, SequenceTheorems, FiniteSetTheorems, TLAPS

----------------------------------------------------------------------------
(* Unique.  The two properties are inductive together: a deletion goes     *)
(* wrong only when its pointer has two holders, or its object is held and  *)
(* not allocated.                                                          *)

\* What can be in a unique; a wild pointer is known to have come unasked.
UniqueTypes ==
    /\ pair \in [Uniques -> Objects \cup {Null, Wild, Nothing}]
    /\ raw \subseteq Objects
    /\ Null \notin copied
    /\ \A u \in Uniques : pair[u] = Wild => Wild \in copied

\* OwnersAreExact without sets of holders.
OneHolder ==
    \A o \in Objects \ copied :
        /\ o \in lost => o \in alive
        /\ o \in raw => o \in alive \ lost /\ \A u \in Uniques : pair[u] # o
        /\ \A u \in Uniques : pair[u] = o =>
               o \in alive \ lost /\ \A w \in Uniques : pair[w] = o => w = u
        /\ o \in alive \ lost => o \in raw \/ \E u \in Uniques : pair[u] = o

UniqueInv == UniqueTypes /\ OneHolder /\ misdeleted \subseteq copied

LEMMA HoldersFromOneHolder == OneHolder => OwnersAreExact
<1> SUFFICES ASSUME OneHolder, NEW o \in Objects \ copied
             PROVE  IF o \in alive \ lost
                    THEN \E h \in Uniques \cup {Client} : U!Holders(o) = {h}
                    ELSE U!Holders(o) = {} /\ (o \in lost => o \in alive)
    BY DEF OwnersAreExact, U!OwnersAreExact
<1>1. CASE o \in raw
    <2>1. U!Holders(o) = {Client}
        BY <1>1 DEF OneHolder, U!Holders
    <2> QED
        BY <1>1, <2>1 DEF OneHolder
<1>2. CASE o \notin raw /\ \E u \in Uniques : pair[u] = o
    <2>1. PICK u \in Uniques : pair[u] = o
        BY <1>2
    <2>2. U!Holders(o) = {u}
        BY <1>2, <2>1 DEF OneHolder, U!Holders
    <2> QED
        BY <2>1, <2>2 DEF OneHolder
<1>3. CASE o \notin raw /\ \A u \in Uniques : pair[u] # o
    BY <1>3 DEF OneHolder, U!Holders
<1> QED
    BY <1>1, <1>2, <1>3

----------------------------------------------------------------------------
\* Deleting what a unique holds, or the client: it is an allocated object with no
\* other holder, or its pointer is known to be a copy.
LEMMA DeleteHeld ==
    ASSUME UniqueInv, NEW p \in Objects \cup {Null, Wild}, U!Delete(p),
           p \in raw \/ \E u \in Uniques : pair[u] = p
    PROVE  /\ misdeleted' \subseteq copied
           /\ \A o \in Objects : o # p => (o \in alive' <=> o \in alive)
           /\ p \in Objects \ copied => p \in alive \ lost
           /\ p \notin alive'
<1>1. p \in Objects \ copied => p \in alive \ lost
    BY DEF UniqueInv, OneHolder
<1>2. p = Wild => p \in copied
    BY UniqueAssumption DEF U!UniqueAssumption, UniqueInv, UniqueTypes
<1> QED
    BY <1>1, <1>2 DEF U!Delete, UniqueInv

LEMMA MakingKeeps ==
    ASSUME UniqueInv,
           NEW o \in Objects,
           \/ U!New(o)
           \/ o \in raw /\ U!DeleteRaw(o)
           \/ \E u \in Uniques : U!MakeUnique(u, o)
           \/ o \in raw /\ \E u \in Uniques : U!Construct(u, o)
    PROVE  UniqueInv'
<1> USE UniqueAssumption DEF U!UniqueAssumption, UniqueInv, UniqueTypes, OneHolder
<1>1. CASE U!New(o)
    BY <1>1 DEF U!New
<1>2. CASE o \in raw /\ U!DeleteRaw(o)
    <2>1. U!Delete(o) /\ UNCHANGED <<pair, copied, lost>> /\ raw' = raw \ {o}
        BY <1>2 DEF U!DeleteRaw
    <2>2. /\ misdeleted' \subseteq copied
          /\ \A x \in Objects : x # o => (x \in alive' <=> x \in alive)
          /\ o \in Objects \ copied => o \in alive \ lost
          /\ o \notin alive'
        BY <1>2, <2>1, DeleteHeld
    <2> QED
        BY <1>2, <2>1, <2>2
<1>3. ASSUME NEW u \in Uniques, U!MakeUnique(u, o) PROVE UniqueInv'
    BY <1>3 DEF U!MakeUnique, U!Exists
<1>4. ASSUME NEW u \in Uniques, o \in raw, U!Construct(u, o) PROVE UniqueInv'
    BY <1>4 DEF U!Construct, U!Exists
<1> QED
    BY <1>1, <1>2, <1>3, <1>4

LEMMA CopyingKeeps ==
    ASSUME UniqueInv, NEW u \in Uniques,
           U!ConstructUnwritten(u) \/ \E other \in Uniques : U!ConstructMove(u, other)
    PROVE  UniqueInv'
<1> USE UniqueAssumption DEF U!UniqueAssumption, UniqueInv, UniqueTypes, OneHolder
<1>1. CASE U!ConstructUnwritten(u)
    BY <1>1 DEF U!ConstructUnwritten, U!Exists
<1>2. ASSUME NEW other \in Uniques, U!ConstructMove(u, other) PROVE UniqueInv'
    BY <1>2 DEF U!ConstructMove, U!Exists
<1> QED
    BY <1>1, <1>2

\* Calls that delete what the unique holds; what comes into it instead, if
\* anything, was the client's.
LEMMA ReplacingKeeps ==
    ASSUME UniqueInv, NEW u \in Uniques,
           U!Destroy(u) \/ \E p \in raw \cup {Null} : U!Reset(u, p)
    PROVE  UniqueInv'
<1> USE UniqueAssumption DEF U!UniqueAssumption, UniqueInv, UniqueTypes, OneHolder
<1>1. pair[u] \in Objects \cup {Null, Wild} /\ U!Delete(pair[u])
    BY DEF U!Destroy, U!Reset, U!Exists
<1>2. /\ misdeleted' \subseteq copied
      /\ \A o \in Objects : o # pair[u] => (o \in alive' <=> o \in alive)
      /\ pair[u] \in Objects \ copied => pair[u] \in alive \ lost
      /\ pair[u] \notin alive'
    BY <1>1, DeleteHeld
<1>3. CASE U!Destroy(u)
    BY <1>2, <1>3 DEF U!Destroy, U!Exists
<1>4. ASSUME NEW p \in raw \cup {Null}, U!Reset(u, p) PROVE UniqueInv'
    BY <1>2, <1>4 DEF U!Reset, U!Exists
<1> QED
    BY <1>3, <1>4

LEMMA MoveAssignKeeps ==
    ASSUME UniqueInv, NEW u \in Uniques, NEW other \in Uniques, U!MoveAssign(u, other)
    PROVE  UniqueInv'
<1> USE UniqueAssumption DEF U!UniqueAssumption, UniqueInv, UniqueTypes, OneHolder
<1>1. pair[u] \in Objects \cup {Null, Wild} /\ U!Delete(pair[u])
    BY DEF U!MoveAssign, U!Exists
<1>2. /\ misdeleted' \subseteq copied
      /\ \A o \in Objects : o # pair[u] => (o \in alive' <=> o \in alive)
      /\ pair[u] \in Objects \ copied => pair[u] \in alive \ lost
      /\ pair[u] \notin alive'
    BY <1>1, DeleteHeld
<1> QED
    BY <1>2 DEF U!MoveAssign, U!Exists

LEMMA ReleaseKeeps ==
    ASSUME UniqueInv, NEW u \in Uniques, U!Release(u)
    PROVE  UniqueInv'
BY UniqueAssumption
   DEF U!UniqueAssumption, UniqueInv, UniqueTypes, OneHolder, U!Release, U!Exists

LEMMA UniqueInit == U!Init => UniqueInv
BY UniqueAssumption DEF U!UniqueAssumption, U!Init, UniqueInv, UniqueTypes, OneHolder

LEMMA UniqueStep == UniqueInv /\ [U!Next]_(U!vars) => UniqueInv'
<1> SUFFICES ASSUME UniqueInv, [U!Next]_(U!vars) PROVE UniqueInv'
    OBVIOUS
<1>1. CASE UNCHANGED U!vars
    BY <1>1 DEF U!vars, UniqueInv, UniqueTypes, OneHolder
<1>2. ASSUME NEW o \in Objects, U!New(o) \/ (o \in raw /\ U!DeleteRaw(o)) PROVE UniqueInv'
    BY <1>2, MakingKeeps
<1>3. ASSUME NEW u \in Uniques, NEW o \in Objects,
             U!MakeUnique(u, o) \/ (o \in raw /\ U!Construct(u, o))
      PROVE UniqueInv'
    BY <1>3, MakingKeeps
<1>4. ASSUME NEW u \in Uniques, NEW p \in raw \cup {Null}, U!Reset(u, p) PROVE UniqueInv'
    BY <1>4, ReplacingKeeps
<1>5. ASSUME NEW u \in Uniques, NEW other \in Uniques,
             U!ConstructMove(u, other) \/ U!MoveAssign(u, other)
      PROVE UniqueInv'
    BY <1>5, CopyingKeeps, MoveAssignKeeps
<1>6. ASSUME NEW u \in Uniques,
             U!ConstructUnwritten(u) \/ U!MoveAssignSelf(u) \/ U!Release(u) \/ U!Destroy(u)
      PROVE UniqueInv'
    BY <1>1, <1>6, CopyingKeeps, ReleaseKeeps, ReplacingKeeps DEF U!MoveAssignSelf
<1>7. raw \subseteq Objects
    BY DEF UniqueInv, UniqueTypes
<1> QED
    BY <1>1, <1>2, <1>3, <1>4, <1>5, <1>6, <1>7 DEF U!Next

\* For any number of uniques and objects: an object that no move constructor
\* has copied has one holder while it is allocated, a lost one has none.
THEOREM OwnersCorrect == U!Spec => []OwnersAreExact
<1>1. UniqueInv => OwnersAreExact
    BY HoldersFromOneHolder DEF UniqueInv
<1> QED
    BY <1>1, UniqueInit, UniqueStep, PTL DEF U!Spec

\* For any number of uniques and objects: only what was copied, or never
\* written, is deleted without being an object.
THEOREM DeletionCorrect == U!Spec => []OnlyCopiesAreMisdeleted
<1>1. UniqueInv => OnlyCopiesAreMisdeleted
    BY DEF UniqueInv, OnlyCopiesAreMisdeleted, U!OnlyCopiesAreMisdeleted
<1> QED
    BY <1>1, UniqueInit, UniqueStep, PTL DEF U!Spec

----------------------------------------------------------------------------
(* Queue.  `out` is never past the element that pop_back() gave up last,   *)
(* which is still in the memory: so all that pop() reads has been written. *)

\* A vec's memory, with its elements in front.
Memory(v) ==
    /\ v.space \in Nat /\ v.size \in 0 .. v.space
    /\ DOMAIN v.data = 0 .. v.space - 1
    /\ v = [data |-> v.data, size |-> v.size, space |-> v.space]

\* push() puts one element more behind the others, after growing if need be.
LEMMA QueuePush ==
    ASSUME NEW v, Memory(v), NEW x, NEW w \in Q!Mem!Push(v, x)
    PROVE  /\ Memory(w) /\ w.size = v.size + 1
           /\ w.data[v.size] = x
           /\ \A i \in 0 .. v.size - 1 : w.data[i] = v.data[i]
<1>1. PICK g \in Q!Mem!Grow(v) :
          w = [g EXCEPT !.data[g.size] = x, !.size = g.size + 1]
    BY DEF Q!Mem!Push
<1>2. /\ Memory(g) /\ g.size = v.size /\ g.size < g.space
      /\ \A i \in 0 .. v.size - 1 : g.data[i] = v.data[i]
    BY QueueAssumption DEF Q!Mem!Grow, Q!Mem!Reserve, Memory
<1>3. g = [data |-> g.data, size |-> g.size, space |-> g.space]
    BY <1>2 DEF Memory
<1>4. w = [data |-> [g.data EXCEPT ![g.size] = x], size |-> g.size + 1,
           space |-> g.space]
    BY <1>1, <1>3
<1>5. /\ w.data = [g.data EXCEPT ![g.size] = x]
      /\ w.size = g.size + 1 /\ w.space = g.space
    BY <1>4
<1>6. DOMAIN g.data = 0 .. g.space - 1 /\ g.size \in Nat /\ g.space \in Nat
    BY <1>2 DEF Memory
<1>7. w = [data |-> w.data, size |-> w.size, space |-> w.space]
    BY <1>4, <1>5
<1>8. Memory(w)
    BY <1>2, <1>5, <1>6, <1>7 DEF Memory
<1>9. /\ w.data[v.size] = x
      /\ \A i \in 0 .. v.size - 1 : w.data[i] = v.data[i]
    BY <1>2, <1>5, <1>6
<1> QED
    BY <1>2, <1>5, <1>8, <1>9

\* pop_back only counts one element less.
LEMMA QueuePop ==
    ASSUME NEW v, Memory(v), v.size > 0
    PROVE  /\ Memory(Q!Mem!PopBack(v))
           /\ Q!Mem!PopBack(v).size = v.size - 1
           /\ Q!Mem!PopBack(v).space = v.space
           /\ Q!Mem!PopBack(v).data = v.data
<1> DEFINE w == Q!Mem!PopBack(v)
<1>1. v = [data |-> v.data, size |-> v.size, space |-> v.space]
    BY DEF Memory
<1>2. w = [data |-> v.data, size |-> v.size - 1, space |-> v.space]
    BY <1>1 DEF Q!Mem!PopBack
<1>3. w.data = v.data /\ w.size = v.size - 1 /\ w.space = v.space
    BY <1>2
<1> HIDE DEF w
<1>4. Memory(w)
    BY <1>2, <1>3 DEF Memory
<1> QED
    BY <1>3, <1>4 DEF w

\* What holds of the queue at any time; `out` is at most one cell behind the
\* elements, and then that cell was one of them before.
QueueInv ==
    /\ Memory(arr)
    /\ out \in 0 .. arr.size
    /\ \A i \in 0 .. arr.size - 1 : arr.data[i] \in pushed
    /\ out = arr.size /\ arr.size > 0 =>
           arr.size < arr.space /\ arr.data[arr.size] \in pushed
    /\ popped \in pushed \cup {NoValue}

\* While batches are small: nothing has been popped of the one that waits, or one of
\* its two values has, and the other is behind the elements.
SmallBatch ==
    /\ line \in Seq(pushed) /\ Len(line) = arr.size
    /\ batched =>
           \/ /\ out = 0 /\ arr.size <= 2
              /\ \A i \in 0 .. arr.size - 1 : line[i + 1] = arr.data[i]
           \/ out = 1 /\ arr.size = 1 /\ line[1] = arr.data[1]

\* An empty queue has popped and kept nothing.
LEMMA QueueInit == Q!Init => QueueInv /\ SmallBatch
<1> SUFFICES ASSUME Q!Init PROVE QueueInv /\ SmallBatch
    OBVIOUS
<1>1. arr = [data |-> [i \in {} |-> 0], size |-> 0, space |-> 0]
    BY DEF Q!Init, Q!Mem!EmptyVec
<1>2. Memory(arr) /\ arr.size = 0
    BY <1>1 DEF Memory
<1>3. line = <<>> /\ line \in Seq(pushed) /\ Len(line) = 0
    BY DEF Q!Init
<1> QED
    BY <1>2, <1>3 DEF Q!Init, QueueInv, SmallBatch

\* push() writes the cell behind the elements, wherever `out` is.
LEMMA QueuePushKeeps ==
    ASSUME QueueInv, SmallBatch, NEW v \in Values, Q!Push(v)
    PROVE  QueueInv' /\ SmallBatch' /\ Len(line') > Len(line)
<1>1. /\ arr' \in Q!Mem!Push(arr, v)
      /\ pushed' = pushed \cup {v}
      /\ line' = Append(line, v)
      /\ batched' = (batched /\ out = 0 /\ arr.size < 2)
      /\ out' = out /\ popped' = popped
    BY DEF Q!Push
<1>2. Memory(arr) /\ arr.size \in Nat
    BY DEF QueueInv, Memory
<1>3. /\ Memory(arr') /\ arr'.size = arr.size + 1
      /\ arr'.data[arr.size] = v
      /\ \A i \in 0 .. arr.size - 1 : arr'.data[i] = arr.data[i]
    BY <1>1, <1>2, QueuePush
<1>4. QueueInv'
    BY <1>1, <1>2, <1>3 DEF QueueInv
<1>5. /\ line \in Seq(pushed') /\ line' \in Seq(pushed')
      /\ Len(line') = Len(line) + 1 /\ line'[Len(line) + 1] = v
      /\ \A k \in 1 .. Len(line) : line'[k] = line[k]
      /\ Len(line) \in Nat
    <2>1. line \in Seq(pushed')
        BY <1>1 DEF SmallBatch
    <2>2. v \in pushed'
        BY <1>1
    <2> QED
        BY <1>1, <2>1, <2>2
<1>6. ASSUME batched'
      PROVE  /\ out' = 0 /\ arr'.size <= 2
             /\ \A i \in 0 .. arr'.size - 1 : line'[i + 1] = arr'.data[i]
    <2>1. batched /\ out = 0 /\ arr.size < 2
        BY <1>1, <1>6
    <2>2. /\ Len(line) = arr.size
          /\ \A i \in 0 .. arr.size - 1 : line[i + 1] = arr.data[i]
        BY <2>1 DEF SmallBatch
    <2>3. ASSUME NEW i \in 0 .. arr'.size - 1 PROVE line'[i + 1] = arr'.data[i]
        <3>1. CASE i = arr.size
            BY <1>3, <1>5, <2>2, <3>1
        <3>2. CASE i # arr.size
            <4>1. i \in 0 .. arr.size - 1 /\ i + 1 \in 1 .. Len(line)
                BY <1>2, <1>3, <2>2, <3>2
            <4> QED
                BY <1>3, <1>5, <2>2, <4>1
        <3> QED
            BY <3>1, <3>2
    <2> QED
        BY <1>1, <1>2, <1>3, <1>5, <2>1, <2>2, <2>3
<1>7. Len(line') = arr'.size
    BY <1>3, <1>5 DEF SmallBatch
<1> QED
    BY <1>4, <1>5, <1>6, <1>7 DEF SmallBatch

\* pop() reads a cell that was pushed, the first one of a small batch.
LEMMA QueuePopKeeps ==
    ASSUME QueueInv, SmallBatch, Q!Pop
    PROVE  /\ QueueInv' /\ SmallBatch'
           /\ batched => popped' = Head(line)
<1>1. /\ arr.size > 0 /\ popped' = arr.data[out]
      /\ out' = (out + 1) % arr.size
      /\ arr' = Q!Mem!PopBack(arr)
      /\ line' = Tail(line) /\ pushed' = pushed /\ batched' = batched
    BY DEF Q!Pop
<1>2. Memory(arr) /\ arr.size \in Nat /\ arr.size # 0
    BY <1>1 DEF QueueInv, Memory
<1>3. /\ Memory(arr') /\ arr'.size = arr.size - 1 /\ arr'.space = arr.space
      /\ arr'.data = arr.data
    BY <1>1, <1>2, QueuePop
<1>4. out \in Nat /\ out <= arr.size
    BY <1>2 DEF QueueInv
<1>5. out' \in 0 .. arr.size - 1
    BY <1>1, <1>2, <1>4
<1>6. popped' \in pushed
    <2>1. CASE out = arr.size
        BY <1>1, <2>1 DEF QueueInv
    <2>2. CASE out # arr.size
        BY <1>1, <1>2, <1>4, <2>2 DEF QueueInv
    <2> QED
        BY <2>1, <2>2
<1>7. QueueInv'
    <2>1. arr.data[arr.size - 1] \in pushed /\ arr.size - 1 < arr.space
        BY <1>2 DEF QueueInv, Memory
    <2> QED
        BY <1>1, <1>2, <1>3, <1>5, <1>6, <2>1 DEF QueueInv
<1>8. /\ line' \in Seq(pushed') /\ Len(line') = arr'.size
      /\ Head(line) = line[1]
      /\ \A k \in 1 .. Len(line') : line'[k] = line[k + 1]
    <2>1. line \in Seq(pushed) /\ Len(line) = arr.size
        BY DEF SmallBatch
    <2>2. line # <<>>
        BY <1>1, <1>2, <2>1
    <2>3. /\ Tail(line) \in Seq(pushed) /\ Len(Tail(line)) = Len(line) - 1
          /\ Head(line) = line[1]
          /\ \A k \in 1 .. Len(Tail(line)) : Tail(line)[k] = line[k + 1]
        BY <2>1, <2>2, HeadTailProperties
    <2> QED
        BY <1>1, <1>3, <2>1, <2>3
<1>9. ASSUME batched
      PROVE  /\ popped' = Head(line)
             /\ \/ /\ out' = 0 /\ arr'.size <= 2
                   /\ \A i \in 0 .. arr'.size - 1 : line'[i + 1] = arr'.data[i]
                \/ out' = 1 /\ arr'.size = 1 /\ line'[1] = arr'.data[1]
    <2>1. CASE out = 0 /\ arr.size = 1
        <3>1. line[1] = arr.data[0] /\ out' = 0
            BY <1>1, <1>9, <2>1 DEF SmallBatch
        <3> QED
            BY <1>1, <1>3, <1>8, <2>1, <3>1
    <2>2. CASE out = 0 /\ arr.size = 2
        <3>1. line[1] = arr.data[0] /\ line[2] = arr.data[1] /\ out' = 1
            BY <1>1, <1>9, <2>2 DEF SmallBatch
        <3>2. arr'.size = 1 /\ line'[1] = arr'.data[1]
            BY <1>3, <1>8, <2>2, <3>1
        <3> QED
            BY <1>1, <1>8, <2>2, <3>1, <3>2
    <2>3. CASE out = 1 /\ arr.size = 1
        <3>1. line[1] = arr.data[1] /\ out' = 0
            BY <1>1, <1>9, <2>3 DEF SmallBatch
        <3> QED
            BY <1>1, <1>3, <1>8, <2>3, <3>1
    <2>4. \/ out = 0 /\ arr.size <= 2
          \/ out = 1 /\ arr.size = 1
        BY <1>9 DEF SmallBatch
    <2> QED
        BY <1>2, <2>1, <2>2, <2>3, <2>4
<1> QED
    BY <1>1, <1>7, <1>8, <1>9 DEF SmallBatch

\* Each step of the queue keeps both invariants and obeys the order.
LEMMA QueueStep ==
    ASSUME QueueInv, SmallBatch, [Q!Next]_(Q!vars)
    PROVE  /\ QueueInv' /\ SmallBatch'
           /\ batched /\ Len(line') < Len(line) => popped' = Head(line)
<1>1. CASE UNCHANGED Q!vars
    <2>1. /\ arr' = arr /\ out' = out /\ popped' = popped /\ pushed' = pushed
          /\ line' = line /\ batched' = batched
        BY <1>1 DEF Q!vars
    <2>2. Len(line) \in Nat
        BY DEF SmallBatch
    <2> QED
        BY <2>1, <2>2 DEF QueueInv, SmallBatch, Memory
<1>2. CASE Q!Pop
    BY <1>2, QueuePopKeeps
<1>3. ASSUME NEW v \in Values, Q!Push(v)
      PROVE  QueueInv' /\ SmallBatch' /\ ~(Len(line') < Len(line))
    <2>1. /\ QueueInv' /\ SmallBatch' /\ Len(line') > Len(line)
        BY <1>3, QueuePushKeeps
    <2>2. Len(line) \in Nat /\ Len(line') \in Nat
        BY <2>1 DEF SmallBatch
    <2> QED
        BY <2>1, <2>2
<1> QED
    BY <1>1, <1>2, <1>3 DEF Q!Next

\* For any capacity, values and bound: what pop() returns was pushed, although
\* it may read a cell behind the elements.
THEOREM PopsCorrect == Q!Spec => []PopsOnlyPushed
<1>1. QueueInv => PopsOnlyPushed
    BY DEF QueueInv, PopsOnlyPushed, Q!PopsOnlyPushed
<1>2. QueueInv /\ SmallBatch /\ [Q!Next]_(Q!vars) => (QueueInv /\ SmallBatch)'
    BY QueueStep
<1> QED
    BY <1>1, <1>2, QueueInit, PTL DEF Q!Spec

\* For any capacity, values and bound: batches of at most two values come out in
\* the order in which they went in.
THEOREM BatchesCorrect == Q!Spec => BatchesAreFifo
<1>1. QueueInv /\ SmallBatch /\ [Q!Next]_(Q!vars) => (QueueInv /\ SmallBatch)'
    BY QueueStep
<1>2. QueueInv /\ SmallBatch /\ [Q!Next]_(Q!vars) =>
          [batched /\ Len(line') < Len(line) => popped' = Head(line)]_(Q!vars)
    BY QueueStep
<1> QED
    BY <1>1, <1>2, QueueInit, PTL DEF Q!Spec, BatchesAreFifo, Q!BatchesAreFifo

----------------------------------------------------------------------------
(* EventQueue.  While one queue has all the events, write() goes on where  *)
(* its stream ends; the first event of another queue would go as far behind *)
(* the beginning of an empty stream.                                       *)

\* All that a stream can hold.
EventBytes ==
    {[type |-> type, size |-> size, header |-> k] :
         type \in EventTypes, size \in EventSizes, k \in 1 .. HeaderSize}
    \cup UNION {{[type |-> type, size |-> size, data |-> k] :
                     type \in EventTypes, k \in 1 .. size} : size \in EventSizes}

\* The vec holds these bytes, and has room for no more.
Holds(v, bytes) ==
    /\ Memory(v)
    /\ v.size = Len(bytes) /\ v.space = Len(bytes)
    /\ \A k \in 1 .. Len(bytes) : v.data[k - 1] = bytes[k]

\* reserve with too little memory: as many cells as asked for, and there is an
\* outcome.
LEMMA ReserveMore ==
    ASSUME NEW v, v.size \in Nat, NEW c \in Nat, c > v.space
    PROVE  /\ \A g \in E!Mem!Reserve(v, c) :
                  /\ g = [data |-> g.data, size |-> g.size, space |-> g.space]
                  /\ g.size = v.size /\ g.space = c
                  /\ DOMAIN g.data = 0 .. c - 1
                  /\ \A i \in 0 .. c - 1 : i < v.size => g.data[i] = v.data[i]
           /\ E!Mem!Reserve(v, c) # {}
<1> DEFINE data(fresh) == [i \in 0 .. c - 1 |->
                              IF i < v.size THEN v.data[i] ELSE fresh[i]]
           made(fresh) == [data |-> data(fresh), size |-> v.size, space |-> c]
<1>1. E!Mem!Reserve(v, c) = {made(fresh) : fresh \in [v.size .. c - 1 -> {Fresh}]}
    BY DEF E!Mem!Reserve
<1>2. [k \in v.size .. c - 1 |-> Fresh] \in [v.size .. c - 1 -> {Fresh}]
    OBVIOUS
<1>3. ASSUME NEW fresh
      PROVE  /\ made(fresh).data = data(fresh) /\ made(fresh).size = v.size
             /\ made(fresh).space = c
             /\ DOMAIN data(fresh) = 0 .. c - 1
             /\ \A i \in 0 .. c - 1 : i < v.size => data(fresh)[i] = v.data[i]
             /\ made(fresh) = [data |-> data(fresh), size |-> v.size, space |-> c]
    OBVIOUS
<1> HIDE DEF made, data
<1>4. E!Mem!Reserve(v, c) # {}
    BY <1>1, <1>2
<1>5. ASSUME NEW g \in E!Mem!Reserve(v, c)
      PROVE  /\ g = [data |-> g.data, size |-> g.size, space |-> g.space]
             /\ g.size = v.size /\ g.space = c
             /\ DOMAIN g.data = 0 .. c - 1
             /\ \A i \in 0 .. c - 1 : i < v.size => g.data[i] = v.data[i]
    <2>1. PICK fresh \in [v.size .. c - 1 -> {Fresh}] : g = made(fresh)
        BY <1>1
    <2>2. g.data = data(fresh) /\ g.size = v.size /\ g.space = c
        BY <1>3, <2>1
    <2>3. g = [data |-> g.data, size |-> g.size, space |-> g.space]
        BY <1>3, <2>1, <2>2
    <2> QED
        BY <1>3, <2>2, <2>3
<1> QED
    BY <1>4, <1>5

\* reserve on a vec without a free cell.
LEMMA ReserveAtEnd ==
    ASSUME NEW m \in Nat, NEW n \in Nat, NEW v, Memory(v), v.size = m, v.space = m,
           NEW g \in E!Mem!Reserve(v, m + n)
    PROVE  /\ g = [data |-> g.data, size |-> g.size, space |-> g.space]
           /\ g.size = m /\ g.space = m + n
           /\ DOMAIN g.data = 0 .. m + n - 1
           /\ \A i \in 0 .. m - 1 : g.data[i] = v.data[i]
<1> DEFINE c == m + n
<1>1. c \in Nat /\ c = m + n /\ g \in E!Mem!Reserve(v, c)
    OBVIOUS
<1> HIDE DEF c
<1>2. CASE c > v.space
    <2>1. /\ g = [data |-> g.data, size |-> g.size, space |-> g.space]
          /\ g.size = v.size /\ g.space = c
          /\ DOMAIN g.data = 0 .. c - 1
          /\ \A i \in 0 .. c - 1 : i < v.size => g.data[i] = v.data[i]
        BY <1>1, <1>2, ReserveMore
    <2> QED
        BY <1>1, <2>1
<1>3. CASE ~(c > v.space)
    BY <1>1, <1>3 DEF E!Mem!Reserve, Memory
<1> QED
    BY <1>2, <1>3

\* EventQueue has an instance of Cardinality of its own.
LEMMA SameCardinality == \A S : E!Cardinality(S) = Cardinality(S)
BY DEF E!Cardinality, Cardinality

LEMMA EventShape ==
    ASSUME NEW type \in EventTypes, NEW size \in EventSizes
    PROVE  /\ E!HeaderBytes(type, size) \in Seq(EventBytes)
           /\ Len(E!HeaderBytes(type, size)) = HeaderSize
           /\ E!DataBytes(type, size) \in Seq(EventBytes)
           /\ Len(E!DataBytes(type, size)) = size
           /\ HeaderSize \in Nat \ {0} /\ size \in Nat
<1>1. HeaderSize \in Nat \ {0} /\ size \in Nat
    BY EventQueueAssumption
<1>2. \A k \in 1 .. HeaderSize : E!HeaderBytes(type, size)[k] \in EventBytes
    BY DEF E!HeaderBytes, EventBytes
<1>3. \A k \in 1 .. size : E!DataBytes(type, size)[k] \in EventBytes
    BY DEF E!DataBytes, EventBytes
<1>4. /\ E!HeaderBytes(type, size) \in [1 .. HeaderSize -> EventBytes]
      /\ E!DataBytes(type, size) \in [1 .. size -> EventBytes]
    <2>1. E!HeaderBytes(type, size) =
              [k \in 1 .. HeaderSize |-> E!HeaderBytes(type, size)[k]]
        BY DEF E!HeaderBytes
    <2>2. E!DataBytes(type, size) = [k \in 1 .. size |-> E!DataBytes(type, size)[k]]
        BY DEF E!DataBytes
    <2> QED
        BY <1>2, <1>3, <2>1, <2>2
<1> QED
    BY <1>1, <1>4

\* insert_at at the end of a full vec appends.
LEMMA InsertAtEnd ==
    ASSUME NEW Elements, NEW bytes \in Seq(Elements), NEW items \in Seq(Elements),
           NEW v, Holds(v, bytes),
           NEW w \in E!Mem!InsertAt(v, items, Len(bytes))
    PROVE  Holds(w, bytes \o items)
<1> DEFINE m     == Len(bytes)
           n     == Len(items)
           last  == m + n - 1
<1>1. m \in Nat /\ n \in Nat
    OBVIOUS
<1>2. /\ Memory(v) /\ v.size = m /\ v.space = m
      /\ \A k \in 1 .. m : v.data[k - 1] = bytes[k]
    BY DEF Holds
<1>3. PICK g \in E!Mem!Reserve(v, m + n) :
          w = [g EXCEPT !.data = [i \in DOMAIN g.data |->
                                      IF i \in m .. last THEN items[i - m + 1]
                                                         ELSE g.data[i]],
                        !.size = @ + n]
    BY <1>2 DEF E!Mem!InsertAt
<1>4. /\ Len(bytes \o items) = m + n
      /\ \A k \in 1 .. m : (bytes \o items)[k] = bytes[k]
      /\ \A k \in m + 1 .. m + n : (bytes \o items)[k] = items[k - m]
    BY ConcatProperties
<1> HIDE DEF m, n
<1>5. /\ g = [data |-> g.data, size |-> g.size, space |-> g.space]
      /\ g.size = m /\ g.space = m + n
      /\ DOMAIN g.data = 0 .. m + n - 1
      /\ \A i \in 0 .. m - 1 : g.data[i] = v.data[i]
    BY <1>1, <1>2, <1>3, ReserveAtEnd
<1> DEFINE d == [i \in DOMAIN g.data |-> IF i \in m .. last THEN items[i - m + 1]
                                                            ELSE g.data[i]]
<1>6. w = [data |-> d, size |-> m + n, space |-> m + n]
    <2> HIDE DEF d
    <2>1. w = [g EXCEPT !.data = d, !.size = @ + n]
        BY <1>3 DEF d
    <2> QED
        BY <2>1, <1>5
<1>7. /\ DOMAIN d = 0 .. m + n - 1
      /\ \A i \in 0 .. m - 1 : d[i] = v.data[i]
      /\ \A i \in m .. m + n - 1 : d[i] = items[i - m + 1]
    BY <1>1, <1>5
<1> HIDE DEF d
<1>8. w.data = d /\ w.size = m + n /\ w.space = m + n
    BY <1>6
<1>9. Memory(w)
    BY <1>1, <1>6, <1>7, <1>8 DEF Memory
<1>10. ASSUME NEW k \in 1 .. m + n PROVE w.data[k - 1] = (bytes \o items)[k]
    <2>1. CASE k <= m
        <3>1. k \in 1 .. m /\ k - 1 \in 0 .. m - 1
            BY <1>1, <2>1
        <3> QED
            BY <1>2, <1>4, <1>7, <1>8, <3>1
    <2>2. CASE k > m
        <3>1. k - 1 \in m .. m + n - 1 /\ (k - 1) - m + 1 = k - m /\ k \in m + 1 .. m + n
            BY <1>1, <2>2
        <3> QED
            BY <1>4, <1>7, <1>8, <3>1
    <2>3. k <= m \/ k > m
        BY <1>1
    <2> QED
        BY <2>1, <2>2, <2>3
<1> QED
    BY <1>4, <1>8, <1>9, <1>10 DEF Holds

\* Which queues have events, and where write() goes on: behind the events of the only
\* queue that has any, and after that, a second queue has one.
EventInv ==
    /\ sent \in [Queues -> Seq(EventBytes)]
    /\ stream = [q \in Queues |-> stream[q]]
    /\ ~undefined =>
           /\ \A q \in Queues : Holds(stream[q], sent[q])
           /\ \A p, q \in Queues : sent[p] # <<>> /\ sent[q] # <<>> => p = q
           /\ \A q \in Queues : sent[q] # <<>> => event_idx = Len(sent[q])
           /\ (\A q \in Queues : sent[q] = <<>>) => event_idx = 0
    /\ undefined =>
           \E p, q \in Queues : /\ p # q
                                /\ \A r \in Queues : sent[r] # <<>> <=> r \in {p, q}
    /\ undefined \in BOOLEAN

LEMMA EventInit == E!Init => EventInv
<1> SUFFICES ASSUME E!Init PROVE EventInv
    OBVIOUS
<1>1. stream = [q \in Queues |-> E!Mem!EmptyVec]
    BY DEF E!Init
<1>2. Holds(E!Mem!EmptyVec, <<>>)
    BY DEF Holds, Memory, E!Mem!EmptyVec
<1>3. sent = [q \in Queues |-> <<>>] /\ event_idx = 0 /\ undefined = FALSE
    BY DEF E!Init
<1>4. <<>> \in Seq(EventBytes) /\ \A q \in Queues : sent[q] = <<>>
    BY <1>3
<1>5. \A q \in Queues : Holds(stream[q], sent[q])
    BY <1>1, <1>2, <1>4
<1>6. sent \in [Queues -> Seq(EventBytes)] /\ stream = [q \in Queues |-> stream[q]]
    BY <1>1, <1>3, <1>4
<1> QED
    BY <1>3, <1>4, <1>5, <1>6 DEF EventInv

LEMMA EventWrite ==
    ASSUME EventInv, NEW q \in Queues, NEW type \in EventTypes, NEW size \in EventSizes,
           E!Write(q, type, size)
    PROVE  EventInv'
<1> DEFINE header == E!HeaderBytes(type, size)
           data == E!DataBytes(type, size)
<1>1. /\ ~undefined
      /\ undefined' = ~E!HasRoom(stream[q])
      /\ \E w \in E!Insertions(stream[q], header, data) :
             stream' = IF undefined' THEN stream ELSE [stream EXCEPT ![q] = w]
      /\ sent' = [sent EXCEPT ![q] = @ \o header \o data]
      /\ event_idx' = event_idx + HeaderSize + size
    BY DEF E!Write, E!Inserted
<1>2. /\ header \in Seq(EventBytes) /\ Len(header) = HeaderSize
      /\ data \in Seq(EventBytes) /\ Len(data) = size
      /\ HeaderSize \in Nat \ {0} /\ size \in Nat
    BY EventShape
<1> HIDE DEF header, data
<1> DEFINE old == sent[q]
           new == (old \o header) \o data
<1>3. old \in Seq(EventBytes)
    BY DEF EventInv
<1>4. /\ new \in Seq(EventBytes) /\ Len(new) = Len(old) + HeaderSize + size
      /\ Len(old) \in Nat /\ Len(old \o header) = Len(old) + HeaderSize
      /\ old \o header \in Seq(EventBytes)
    <2> HIDE DEF old
    <2>1. /\ old \o header \in Seq(EventBytes)
          /\ Len(old \o header) = Len(old) + HeaderSize
          /\ Len(old) \in Nat
        <3>1. old \o header \in Seq(EventBytes)
            BY <1>2, <1>3, ConcatProperties
        <3>2. Len(old \o header) = Len(old) + Len(header)
            BY <1>2, <1>3, ConcatProperties
        <3>3. Len(old) \in Nat
            BY <1>3, LenProperties
        <3> QED
            BY <1>2, <3>1, <3>2, <3>3
    <2>2. /\ new \in Seq(EventBytes)
          /\ Len(new) = Len(old \o header) + size
        BY <1>2, <2>1, ConcatProperties
    <2> QED
        BY <1>2, <2>1, <2>2
<1>5. new # <<>>
    BY <1>2, <1>4
<1>6. /\ sent' \in [Queues -> Seq(EventBytes)] /\ sent'[q] = new
      /\ \A r \in Queues : r # q => sent'[r] = sent[r]
    BY <1>1, <1>4 DEF EventInv
<1>7. /\ \A r \in Queues : Holds(stream[r], sent[r])
      /\ \A p, r \in Queues : sent[p] # <<>> /\ sent[r] # <<>> => p = r
      /\ \A r \in Queues : sent[r] # <<>> => event_idx = Len(sent[r])
      /\ (\A r \in Queues : sent[r] = <<>>) => event_idx = 0
      /\ stream = [r \in Queues |-> stream[r]]
    BY <1>1 DEF EventInv
<1>8. stream[q].size = Len(old) /\ stream[q].space = Len(old)
    BY <1>7 DEF Holds
<1>9. E!HasRoom(stream[q]) <=> event_idx + HeaderSize <= Len(old) + HeaderSize
    <2>1. Len(old) + HeaderSize > stream[q].space
        BY <1>2, <1>4, <1>8
    <2>2. E!Mem!Reserve(stream[q], stream[q].size + HeaderSize) # {}
        <3>1. stream[q].size + HeaderSize > stream[q].space
            BY <1>8, <2>1
        <3>2. stream[q].size \in Nat /\ stream[q].size + HeaderSize \in Nat
            BY <1>2, <1>4, <1>8
        <3> QED
            BY <3>1, <3>2, ReserveMore
    <2>3. \A w \in E!Mem!Reserve(stream[q], stream[q].size + HeaderSize) :
              w.space = Len(old) + HeaderSize
        BY <1>8, <2>1 DEF E!Mem!Reserve
    <2> QED
        BY <2>2, <2>3 DEF E!HasRoom
<1>10. CASE \E r \in Queues : r # q /\ sent[r] # <<>>
    <2>1. PICK p \in Queues : p # q /\ sent[p] # <<>>
        BY <1>10
    <2>2. old = <<>> /\ event_idx = Len(sent[p]) /\ Len(sent[p]) > 0
        <3>1. sent[p] \in Seq(EventBytes)
            BY DEF EventInv
        <3> QED
            BY <1>7, <2>1, <3>1
    <2>3. undefined' = TRUE
        <3>1. Len(old) = 0
            BY <2>2
        <3>2. Len(sent[p]) \in Nat
            BY DEF EventInv
        <3>3. ~(event_idx + HeaderSize <= Len(old) + HeaderSize)
            BY <1>2, <2>2, <3>1, <3>2
        <3> QED
            BY <1>1, <1>9, <3>3
    <2>4. stream' = stream
        BY <1>1, <2>3
    <2>5. \A r \in Queues : sent'[r] # <<>> <=> r \in {p, q}
        BY <1>5, <1>6, <1>7, <2>1
    <2> QED
        BY <1>6, <1>7, <2>1, <2>3, <2>4, <2>5 DEF EventInv
<1>11. CASE \A r \in Queues : r # q => sent[r] = <<>>
    <2>1. event_idx = Len(old)
        <3>1. CASE old = <<>>
            BY <1>7, <1>11, <3>1
        <3>2. CASE old # <<>>
            BY <1>7, <3>2
        <3> QED
            BY <3>1, <3>2
    <2>2. undefined' = FALSE
        <3>1. event_idx + HeaderSize <= Len(old) + HeaderSize
            BY <1>2, <1>4, <2>1
        <3> QED
            BY <1>1, <1>9, <3>1
    <2>3. PICK w \in E!Insertions(stream[q], header, data) :
              stream' = [stream EXCEPT ![q] = w]
        BY <1>1, <2>2
    <2>4. PICK u \in E!Mem!InsertAt(stream[q], header, Len(old)) :
              w \in E!Mem!InsertAt(u, data, Len(old) + HeaderSize)
        BY <1>2, <2>1 DEF E!Insertions
    <2>5. Holds(u, old \o header)
        BY <1>2, <1>3, <1>7, <2>4, InsertAtEnd
    <2>6. Holds(w, new)
        <3>1. w \in E!Mem!InsertAt(u, data, Len(old \o header))
            BY <1>4, <2>4
        <3> QED
            BY <1>2, <1>4, <2>5, <3>1, InsertAtEnd
    <2> HIDE DEF new, old
    <2>7. /\ stream'[q] = w
          /\ \A r \in Queues : r # q => stream'[r] = stream[r]
          /\ stream' = [r \in Queues |-> stream'[r]]
        BY <1>7, <2>3
    <2>8. event_idx' = Len(new)
        BY <1>1, <1>2, <1>4, <2>1
    <2>9. \A r \in Queues : Holds(stream'[r], sent'[r])
        BY <1>6, <1>7, <2>6, <2>7
    <2>10. \A r \in Queues : sent'[r] # <<>> => r = q
        BY <1>6, <1>11
    <2>11. /\ \A r \in Queues : sent'[r] # <<>> => event_idx' = Len(sent'[r])
           /\ ~(\A r \in Queues : sent'[r] = <<>>)
        BY <1>5, <1>6, <2>8, <2>10
    <2> QED
        BY <1>6, <2>2, <2>7, <2>9, <2>10, <2>11 DEF EventInv
<1> QED
    BY <1>10, <1>11

LEMMA EventStep == EventInv /\ [E!Next]_(E!vars) => EventInv'
<1> SUFFICES ASSUME EventInv, [E!Next]_(E!vars) PROVE EventInv'
    OBVIOUS
<1>1. CASE UNCHANGED E!vars
    BY <1>1 DEF E!vars, EventInv, Holds, Memory
<1>2. CASE E!Next
    BY <1>2, EventWrite DEF E!Next
<1> QED
    BY <1>1, <1>2

\* For any header, sizes and number of queues: as long as all that was written is
\* in memory, the bytes of each queue are those of its events, in order.
THEOREM EventsCorrect == E!Spec => []EventsFollowEachOther
<1>1. EventInv => EventsFollowEachOther
    <2> SUFFICES ASSUME EventInv, ~undefined, NEW q \in Queues
                 PROVE  [k \in 1 .. stream[q].size |-> stream[q].data[k - 1]] = sent[q]
        BY DEF EventsFollowEachOther, E!EventsFollowEachOther
    <2>1. sent[q] \in Seq(EventBytes) /\ Holds(stream[q], sent[q])
        BY DEF EventInv
    <2>2. sent[q] = [k \in 1 .. Len(sent[q]) |-> sent[q][k]]
        BY <2>1
    <2> QED
        BY <2>1, <2>2 DEF Holds
<1> QED
    BY <1>1, EventInit, EventStep, PTL DEF E!Spec

\* For any header, sizes and number of queues: memory past the end of a stream is
\* written exactly when a second queue gets an event.
THEOREM OneQueueCorrect == E!Spec => []OneQueuePerProgram
<1>1. EventInv => OneQueuePerProgram
    <2> SUFFICES ASSUME EventInv PROVE OneQueuePerProgram
        OBVIOUS
    <2> DEFINE used == {q \in Queues : sent[q] # <<>>}
    <2>1. CASE undefined
        <3>1. PICK p, q \in Queues : /\ p # q
                                     /\ \A r \in Queues : sent[r] # <<>> <=> r \in {p, q}
            BY <2>1 DEF EventInv
        <3>2. used = {p} \cup {q}
            BY <3>1
        <3>3. IsFiniteSet({p}) /\ Cardinality({p}) = 1
            BY FS_Singleton
        <3>4. Cardinality({p} \cup {q}) = 2
            <4>1. q \notin {p}
                BY <3>1
            <4>2. Cardinality({p} \cup {q}) = Cardinality({p}) + 1
                BY <3>3, <4>1, FS_AddElement
            <4> QED
                BY <3>3, <4>2
        <3> HIDE DEF used
        <3>5. Cardinality(used) > 1
            BY <3>2, <3>4
        <3> QED
            BY <2>1, <3>5, SameCardinality, Zenon DEF used, OneQueuePerProgram, E!OneQueuePerProgram
    <2>2. CASE ~undefined
        <3>1. \A p, q \in Queues : sent[p] # <<>> /\ sent[q] # <<>> => p = q
            BY <2>2 DEF EventInv
        <3>2. CASE used = {}
            <4>1. ~(Cardinality(used) > 1)
                BY <3>2, FS_EmptySet
            <4> QED
                BY <2>2, <4>1, SameCardinality, Zenon
                   DEF used, OneQueuePerProgram, E!OneQueuePerProgram
        <3>3. CASE used # {}
            <4>1. PICK p \in used : TRUE
                BY <3>3
            <4>2. used = {p}
                BY <3>1, <4>1
            <4> HIDE DEF used
            <4>3. ~(Cardinality(used) > 1)
                <5>1. Cardinality({p}) = 1
                    BY FS_Singleton
                <5> QED
                    BY <4>2, <5>1
            <4> QED
                BY <2>2, <4>3, SameCardinality, Zenon
                   DEF used, OneQueuePerProgram, E!OneQueuePerProgram
        <3> QED
            BY <3>2, <3>3
    <2> QED
        BY <2>1, <2>2 DEF EventInv
<1> QED
    BY <1>1, EventInit, EventStep, PTL DEF E!Spec

=============================================================================
