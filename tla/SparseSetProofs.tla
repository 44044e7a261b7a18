-------------------------- MODULE SparseSetProofs --------------------------
(* A sparse_set used with care is a set, for every word size and whatever  *)
(* the allocator's memory holds.                                           *)
EXTENDS SparseSet, TLAPS

(***************************************************************************)
(* The operations of vec.                                                  *)
(***************************************************************************)

\* reserve keeps the elements, gives at least the asked capacity, and leaves
\* a well-formed vec.
LEMMA ReserveFacts ==
    ASSUME NEW v, Mem!IsVec(v, Nat), NEW n \in Nat, NEW w \in Mem!Reserve(v, n)
    PROVE  /\ Mem!IsVec(w, Nat)
           /\ w.size = v.size
           /\ w.space >= n /\ w.space >= v.space
           /\ \A i \in 0 .. v.size - 1 : w.data[i] = v.data[i]
<1> USE DEF Mem!IsVec
<1>1. CASE n <= v.space
    BY <1>1 DEF Mem!Reserve
<1>2. CASE n > v.space
    <2>1. PICK fresh \in [v.size .. n - 1 -> Garbage] :
              w = [data  |-> [i \in 0 .. n - 1 |->
                                 IF i < v.size THEN v.data[i] ELSE fresh[i]],
                   size  |-> v.size,
                   space |-> n]
        BY <1>2 DEF Mem!Reserve
    <2>2. \A i \in 0 .. n - 1 :
              (IF i < v.size THEN v.data[i] ELSE fresh[i]) \in Nat
        <3> SUFFICES ASSUME NEW i \in 0 .. n - 1
                     PROVE  (IF i < v.size THEN v.data[i] ELSE fresh[i]) \in Nat
            OBVIOUS
        <3>1. CASE i < v.size
            BY <3>1
        <3>2. CASE ~(i < v.size)
            <4>1. i \in v.size .. n - 1
                BY <3>2
            <4>2. fresh[i] \in Words
                BY <4>1, GarbageIsWords
            <4> QED
                BY <3>2, <4>2, WordSizeAssumption DEF Words
        <3> QED
            BY <3>1, <3>2
    <2> QED
        BY <1>2, <2>1, <2>2
<1> QED
    BY <1>1, <1>2

\* resize changes the size to what is asked, and the elements that stay are
\* the old ones.
LEMMA ResizeFacts ==
    ASSUME NEW v, Mem!IsVec(v, Nat), NEW n \in Nat, NEW w \in Mem!Resize(v, n)
    PROVE  /\ Mem!IsVec(w, Nat)
           /\ w.size = n /\ w.space >= n
           /\ \A i \in 0 .. v.size - 1 : i < n => w.data[i] = v.data[i]
<1>1. PICK u \in Mem!Reserve(v, n) : w = [u EXCEPT !.size = n]
    BY DEF Mem!Resize
<1>2. /\ Mem!IsVec(u, Nat)
      /\ u.space >= n
      /\ \A i \in 0 .. v.size - 1 : u.data[i] = v.data[i]
    BY ReserveFacts
<1>3. /\ u.data \in [0 .. u.space - 1 -> Nat]
      /\ u.space \in Nat
      /\ u = [data |-> u.data, size |-> u.size, space |-> u.space]
    BY <1>2 DEF Mem!IsVec
<1>4. w = [data |-> u.data, size |-> n, space |-> u.space]
    BY <1>1, <1>3
<1>5. n \in 0 .. u.space
    BY <1>2, <1>3
<1> QED
    BY <1>2, <1>3, <1>4, <1>5 DEF Mem!IsVec

\* push appends the item and keeps the elements before it.
LEMMA PushFacts ==
    ASSUME NEW v, Mem!IsVec(v, Nat), NEW x \in Nat, NEW w \in Mem!Push(v, x)
    PROVE  /\ Mem!IsVec(w, Nat)
           /\ w.size = v.size + 1
           /\ w.data[v.size] = x
           /\ \A i \in 0 .. v.size - 1 : w.data[i] = v.data[i]
<1>1. PICK u \in Mem!Grow(v) :
          w = [u EXCEPT !.data[u.size] = x, !.size = u.size + 1]
    BY DEF Mem!Push
<1>2. /\ Mem!IsVec(u, Nat)
      /\ u.size = v.size
      /\ u.space > u.size
      /\ \A i \in 0 .. v.size - 1 : u.data[i] = v.data[i]
    <2>1. CASE v.space = 0
        <3>1. u \in Mem!Reserve(v, MinCapacity)
            BY <2>1 DEF Mem!Grow
        <3> QED
            BY <2>1, <3>1, ReserveFacts, SparseSetCapacityAssumption
               DEF Mem!IsVec
    <2>2. CASE v.space # 0 /\ v.size = v.space
        <3>1. u \in Mem!Reserve(v, 2 * v.space)
            BY <2>2 DEF Mem!Grow
        <3>2. 2 * v.space \in Nat /\ v.space \in Nat
            BY DEF Mem!IsVec
        <3> QED
            BY <2>2, <3>1, <3>2, ReserveFacts DEF Mem!IsVec
    <2>3. CASE v.space # 0 /\ v.size # v.space
        <3>1. u = v
            BY <2>3 DEF Mem!Grow
        <3> QED
            BY <2>3, <3>1 DEF Mem!IsVec
    <2> QED
        BY <2>1, <2>2, <2>3
<1>3. /\ u.data \in [0 .. u.space - 1 -> Nat]
      /\ u.space \in Nat /\ u.size \in Nat
      /\ u = [data |-> u.data, size |-> u.size, space |-> u.space]
    BY <1>2 DEF Mem!IsVec
<1>4. w = [data  |-> [u.data EXCEPT ![u.size] = x],
           size  |-> u.size + 1,
           space |-> u.space]
    BY <1>1, <1>3
<1>5. u.size \in 0 .. u.space - 1 /\ u.size + 1 \in 0 .. u.space
    BY <1>2, <1>3
<1>6. Mem!IsVec(w, Nat)
    BY <1>3, <1>4, <1>5 DEF Mem!IsVec
<1> QED
    BY <1>2, <1>3, <1>4, <1>5, <1>6

----------------------------------------------------------------------------
(***************************************************************************)
(* The invariant.  Beside the links of DenseIsLinked it says that only     *)
(* items of the client are in dense, each with a successor: this is what   *)
(* makes sparse long enough for every one of them.                         *)
(***************************************************************************)

MembersAreItems ==
    \A i \in 0 .. dense.size - 1 :
        dense.data[i] \in Items /\ HasSuccessor(dense.data[i])

IInv ==
    /\ TypeOK
    /\ NeverUndefined
    /\ DenseIsLinked
    /\ MembersAreItems

\* What the invariant says of sizes and cells, in the form the steps use.
LEMMA Shape ==
    ASSUME IInv
    PROVE  /\ dense.size \in Nat /\ dense.space \in Nat
           /\ sparse.size \in Nat /\ sparse.space \in Nat
           /\ dense.size <= dense.space /\ sparse.size <= sparse.space
           /\ dense.data \in [0 .. dense.space - 1 -> Nat]
           /\ sparse.data \in [0 .. sparse.space - 1 -> Nat]
           /\ dense = [data  |-> dense.data, size |-> dense.size,
                       space |-> dense.space]
           /\ sparse = [data  |-> sparse.data, size |-> sparse.size,
                        space |-> sparse.space]
BY DEF IInv, TypeOK, Mem!IsVec

\* Every item is a natural number smaller than the number of words.
LEMMA ItemFacts == \A item \in Items : item \in Nat /\ item < WordSize
BY ItemsAssumption, WordSizeAssumption DEF Words

\* has() is exact in every state of the invariant: an index that was never
\* written cannot lead to a cell of dense that holds the item.  A member's cell
\* of sparse was written, and get_item_index finds its place there.
LEMMA HasFromLinks == IInv => HasIsExact
<1> SUFFICES ASSUME IInv, NEW item \in Items
             PROVE  /\ Has(item) <=> item \in Members
                    /\ item \in Members =>
                           /\ GetItemIndex(item) \in 0 .. dense.size - 1
                           /\ dense.data[GetItemIndex(item)] = item
    BY DEF HasIsExact
<1>1. ASSUME Has(item) PROVE item \in Members
    <2>1. item \in 0 .. sparse.space - 1
        BY <1>1, Shape, ItemFacts DEF Has
    <2>2. sparse.data[item] \in 0 .. dense.size - 1
        BY <1>1, <2>1, Shape DEF Has
    <2> QED
        BY <1>1, <2>2 DEF Has, Members, Mem!Elements
<1>2. ASSUME item \in Members
      PROVE  /\ Has(item)
             /\ GetItemIndex(item) \in 0 .. dense.size - 1
             /\ dense.data[GetItemIndex(item)] = item
    <2>1. PICK i \in 0 .. dense.size - 1 : dense.data[i] = item
        BY <1>2 DEF Members, Mem!Elements
    <2>2. item < sparse.size /\ sparse.data[item] = i
        BY <2>1 DEF IInv, DenseIsLinked
    <2>3. ~(item >= sparse.space)
        BY <2>2, Shape, ItemFacts
    <2> QED
        BY <2>1, <2>2, <2>3, Shape DEF Has, GetItemIndex
<1> QED
    BY <1>1, <1>2

\* An empty vec is well formed.
LEMMA EmptyVecFacts == Mem!IsVec(Mem!EmptyVec, Nat)
<1>1. [i \in {} |-> 0] \in [0 .. 0 - 1 -> Nat]
    OBVIOUS
<1> QED
    BY <1>1 DEF Mem!IsVec, Mem!EmptyVec

\* The empty set is linked.
LEMMA InitIsLinked == Init => IInv
<1> SUFFICES ASSUME Init PROVE IInv
    OBVIOUS
<1>1. dense.size = 0
    BY DEF Init, Mem!EmptyVec
<1>2. TypeOK
    BY EmptyVecFacts DEF Init, TypeOK
<1> QED
    BY <1>1, <1>2
       DEF Init, IInv, NeverUndefined, DenseIsLinked, MembersAreItems

----------------------------------------------------------------------------
(***************************************************************************)
(* The steps.                                                              *)
(***************************************************************************)

\* A new item goes to the end of dense, sparse is long enough for its index,
\* and no other item's index is touched.
LEMMA AddStep ==
    ASSUME IInv, NEW item \in Items, HasSuccessor(item), ~Has(item),
           AddNew(item)
    PROVE  IInv' /\ Members' = Members \cup {item}
<1>1. item \in Nat /\ item + 1 \in Nat /\ (item + 1) % WordSize = item + 1
    BY ItemFacts, WordSizeAssumption DEF HasSuccessor
<1>2. /\ Mem!IsVec(dense', Nat)
      /\ dense'.size = dense.size + 1
      /\ dense'.data[dense.size] = item
      /\ \A i \in 0 .. dense.size - 1 : dense'.data[i] = dense.data[i]
    BY <1>1, PushFacts DEF AddNew, IInv, TypeOK
<1>3. PICK grown \in IF item >= sparse.size
                     THEN Mem!Resize(sparse, (item + 1) % WordSize)
                     ELSE {sparse} :
          IF item < grown.space
          THEN /\ sparse' = [grown EXCEPT !.data[item] = dense'.size - 1]
               /\ UNCHANGED undefined
          ELSE sparse' = grown /\ undefined' = TRUE
    BY DEF AddNew
<1>4. /\ Mem!IsVec(grown, Nat)
      /\ item < grown.size /\ sparse.size <= grown.size
      /\ \A i \in 0 .. sparse.size - 1 : grown.data[i] = sparse.data[i]
    <2>1. CASE item >= sparse.size
        <3>1. grown \in Mem!Resize(sparse, item + 1)
            BY <1>1, <1>3, <2>1
        <3>2. Mem!IsVec(sparse, Nat)
            BY DEF IInv, TypeOK
        <3>3. /\ Mem!IsVec(grown, Nat)
              /\ grown.size = item + 1
              /\ \A i \in 0 .. sparse.size - 1 :
                     i < item + 1 => grown.data[i] = sparse.data[i]
            BY <1>1, <3>1, <3>2, ResizeFacts
        <3> QED
            BY <1>1, <2>1, <3>3, Shape
    <2>2. CASE item < sparse.size
        <3>1. grown = sparse
            BY <1>1, <1>3, <2>2, Shape
        <3> QED
            BY <2>2, <3>1, Shape DEF IInv, TypeOK
    <2> QED
        BY <1>1, <2>1, <2>2, Shape
<1>5. /\ grown.data \in [0 .. grown.space - 1 -> Nat]
      /\ grown.space \in Nat /\ grown.size \in 0 .. grown.space
      /\ grown = [data |-> grown.data, size |-> grown.size,
                  space |-> grown.space]
    BY <1>4 DEF Mem!IsVec
<1>6. item \in 0 .. grown.space - 1
    BY <1>1, <1>4, <1>5
<1>7. /\ sparse' = [data  |-> [grown.data EXCEPT ![item] = dense.size],
                    size  |-> grown.size,
                    space |-> grown.space]
      /\ UNCHANGED undefined
    <2>1. dense'.size - 1 = dense.size
        BY <1>2, Shape
    <2>4. item < grown.space
        BY <1>5, <1>6
    <2>2. /\ sparse' = [grown EXCEPT !.data[item] = dense'.size - 1]
          /\ UNCHANGED undefined
        BY <1>3, <2>4
    <2>3. sparse' = [grown EXCEPT !.data[item] = dense.size]
        BY <2>1, <2>2
    <2> QED
        BY <1>5, <2>2, <2>3
<1>8. TypeOK' /\ NeverUndefined'
    <2>1. Mem!IsVec(sparse', Nat)
        BY <1>5, <1>7, Shape DEF Mem!IsVec
    <2> QED
        BY <1>2, <1>7, <2>1 DEF TypeOK, IInv, NeverUndefined
<1>9. item \notin Members
    BY HasFromLinks DEF HasIsExact
<1>10. ASSUME NEW i \in 0 .. dense'.size - 1
       PROVE  /\ dense'.data[i] < sparse'.size
              /\ sparse'.data[dense'.data[i]] = i
              /\ dense'.data[i] \in Items /\ HasSuccessor(dense'.data[i])
    <2>1. CASE i = dense.size
        BY <1>1, <1>2, <1>4, <1>5, <1>6, <1>7, <2>1
    <2>2. CASE i # dense.size
        <3>1. i \in 0 .. dense.size - 1
            BY <1>2, <2>2, Shape
        <3>2. dense'.data[i] = dense.data[i]
            BY <1>2, <3>1
        <3>3. /\ dense.data[i] < sparse.size
              /\ sparse.data[dense.data[i]] = i
              /\ dense.data[i] \in Items /\ HasSuccessor(dense.data[i])
            BY <3>1 DEF IInv, DenseIsLinked, MembersAreItems
        <3>4. dense.data[i] # item
            BY <1>9, <3>1 DEF Members, Mem!Elements
        <3>5. dense.data[i] \in 0 .. sparse.size - 1
            BY <3>3, ItemFacts, Shape
        <3>6. dense.data[i] \in 0 .. grown.space - 1
            BY <1>4, <1>5, <3>5, Shape
        <3>7. sparse'.data[dense.data[i]] = sparse.data[dense.data[i]]
            BY <1>4, <1>5, <1>7, <3>4, <3>5, <3>6
        <3>8. dense.data[i] < sparse'.size
            BY <1>4, <1>5, <1>7, <3>5, Shape
        <3> QED
            BY <3>2, <3>3, <3>7, <3>8
    <2> QED
        BY <2>1, <2>2
<1>11. Members' = Members \cup {item}
    <2>1. ASSUME NEW x \in Members' PROVE x \in Members \cup {item}
        <3>1. PICK i \in 0 .. dense'.size - 1 : x = dense'.data[i]
            BY <2>1 DEF Members, Mem!Elements
        <3>2. i \in 0 .. dense.size - 1 \/ i = dense.size
            BY <1>2, <3>1, Shape
        <3> QED
            BY <1>2, <3>1, <3>2 DEF Members, Mem!Elements
    <2>2. ASSUME NEW x \in Members PROVE x \in Members'
        <3>1. PICK i \in 0 .. dense.size - 1 : x = dense.data[i]
            BY <2>2 DEF Members, Mem!Elements
        <3>2. i \in 0 .. dense'.size - 1 /\ x = dense'.data[i]
            BY <1>2, <3>1, Shape
        <3> QED
            BY <3>2 DEF Members, Mem!Elements
    <2>3. item \in Members'
        <3>1. dense.size \in 0 .. dense'.size - 1
            BY <1>2, Shape
        <3> QED
            BY <1>2, <3>1 DEF Members, Mem!Elements
    <2> QED
        BY <2>1, <2>2, <2>3
<1> QED
    BY <1>8, <1>10, <1>11 DEF IInv, DenseIsLinked, MembersAreItems

\* A careful removal runs to its end inside both arrays: dense loses the item,
\* the item moved into its place is linked to it, and the cell that sparse
\* gives up is nobody's.
LEMMA RemoveStep ==
    ASSUME IInv, NEW item \in Items, KeepsTheRest(item), Remove(item)
    PROVE  IInv' /\ Members' = Members \ {item}
<1> DEFINE index == sparse.data[item]
           end   == dense.size - 1
           last  == dense.data[end]
           top   == sparse.size - 1
           moved == [sparse.data EXCEPT ![last] = index]
<1>1. Has(item)
    BY HasFromLinks DEF KeepsTheRest, HasIsExact
<1>2. /\ item \in 0 .. sparse.size - 1
      /\ index \in 0 .. end
      /\ dense.data[index] = item
      /\ end \in 0 .. dense.size - 1
    BY <1>1, Shape, ItemFacts DEF Has
<1>3. /\ last \in 0 .. sparse.size - 1
      /\ sparse.data[last] = end
    <2>1. last < sparse.size /\ sparse.data[last] = end
        BY <1>2 DEF IInv, DenseIsLinked
    <2>2. last \in Nat
        BY <1>2, Shape
    <2> QED
        BY <2>1, <2>2, Shape
<1>4. Unlink(item, index, last) /\ UNCHANGED undefined
    <2>1. ~Rejected(item)
        BY <1>1 DEF Rejected
    <2>2. /\ dense.size > 0 /\ sparse.size > 0
          /\ index < dense.space /\ last < sparse.space
        BY <1>2, <1>3, Shape
    <2> QED
        BY <2>1, <2>2 DEF Remove
<1>5. dense' = [data  |-> [dense.data EXCEPT ![end] = dense.data[index],
                                             ![index] = last],
                size  |-> end,
                space |-> dense.space]
    BY <1>2, <1>4, Shape DEF Unlink, Mem!PopBack
<1>6. sparse' = [data  |-> [moved EXCEPT ![top] = moved[item],
                                         ![item] = moved[top]],
                 size  |-> top,
                 space |-> sparse.space]
    BY <1>2, <1>4, Shape DEF Unlink, Mem!PopBack
<1>7. /\ moved \in [0 .. sparse.space - 1 -> Nat]
      /\ \A y \in 0 .. sparse.space - 1 :
             moved[y] = IF y = last THEN index ELSE sparse.data[y]
    BY <1>2, <1>3, Shape
<1>8. TypeOK' /\ NeverUndefined'
    <2>1. Mem!IsVec(dense', Nat)
        <3>1. /\ end \in 0 .. dense.space - 1 /\ index \in 0 .. dense.space - 1
              /\ last \in Nat /\ dense.data[index] \in Nat
              /\ dense.data \in [0 .. dense.space - 1 -> Nat]
            BY <1>2, Shape
        <3>2. end \in 0 .. dense.space /\ dense.space \in Nat
            BY <1>2, Shape
        <3> HIDE DEF end, index, last
        <3>3. [dense.data EXCEPT ![end] = dense.data[index], ![index] = last]
                  \in [0 .. dense.space - 1 -> Nat]
            BY <3>1
        <3> QED
            BY <1>5, <3>2, <3>3 DEF Mem!IsVec
    <2>2. item \in 0 .. sparse.space - 1 /\ top \in 0 .. sparse.space - 1
        BY <1>2, Shape
    <2>3. Mem!IsVec(sparse', Nat)
        <3>1. moved[item] \in Nat /\ moved[top] \in Nat
            BY <1>7, <2>2
        <3>2. [moved EXCEPT ![top] = moved[item], ![item] = moved[top]]
                  \in [0 .. sparse.space - 1 -> Nat]
            BY <1>7, <2>2, <3>1
        <3>3. top \in 0 .. sparse.space /\ sparse.space \in Nat
            BY <2>2, Shape
        <3> HIDE DEF moved, top
        <3> QED
            BY <1>6, <3>2, <3>3 DEF Mem!IsVec
    <2> QED
        BY <1>4, <2>1, <2>3 DEF TypeOK, IInv, NeverUndefined
<1>9. \A i \in 0 .. end - 1 :
          dense'.data[i] = IF i = index THEN last ELSE dense.data[i]
    BY <1>2, <1>5, Shape
<1>10. ASSUME NEW i \in 0 .. end - 1
       PROVE  /\ dense'.data[i] \in 0 .. top - 1
              /\ sparse'.data[dense'.data[i]] = i
              /\ \E j \in 0 .. end : j # index /\ dense'.data[i] = dense.data[j]
              /\ dense'.data[i] # item
    <2> DEFINE j == IF i = index THEN end ELSE i
               y == dense.data[j]
    <2>1. j \in 0 .. end /\ j # index
        BY <1>2
    <2>2. dense'.data[i] = y
        BY <1>9
    <2>3. y < sparse.size /\ sparse.data[y] = j
        BY <1>2, <2>1 DEF IInv, DenseIsLinked
    <2>4. y \in 0 .. sparse.size - 1
        <3>1. y \in Nat
            <4>1. j \in 0 .. dense.space - 1
                BY <1>2, <2>1, Shape
            <4> HIDE DEF j
            <4> QED
                BY <4>1, Shape
        <3>2. sparse.size \in Nat
            BY Shape
        <3> HIDE DEF y
        <3> QED
            BY <2>3, <3>1, <3>2
    <2>5. y # item
        BY <2>1, <2>3
    <2>6. y # top
        <3>1. y \in Members
            BY <1>2, <2>1, Shape DEF Members, Mem!Elements
        <3> QED
            BY <2>5, <3>1 DEF KeepsTheRest
    <2>7. moved[y] = i
        <3>1. CASE i = index
            BY <1>7, <2>4, <3>1, Shape
        <3>2. CASE i # index
            <4>1. y # last
                BY <1>3, <2>3, <3>2
            <4> QED
                BY <1>7, <2>3, <2>4, <3>2, <4>1, Shape
        <3> QED
            BY <3>1, <3>2
    <2>8. sparse'.data[y] = moved[y]
        <3>1. y \in 0 .. sparse.space - 1
            BY <2>4, Shape
        <3>2. sparse'.data = [moved EXCEPT ![top] = moved[item],
                                           ![item] = moved[top]]
            BY <1>6
        <3> HIDE DEF moved, top, y
        <3> QED
            BY <1>7, <2>5, <2>6, <3>1, <3>2
    <2>9. y \in 0 .. top - 1
        BY <2>4, <2>6, Shape
    <2> QED
        BY <2>1, <2>2, <2>5, <2>7, <2>8, <2>9
<1>11. dense'.size = end /\ sparse'.size = top
    BY <1>5, <1>6
<1>12. DenseIsLinked'
    <2> SUFFICES ASSUME NEW i \in 0 .. end - 1
                 PROVE  /\ dense'.data[i] < top
                        /\ sparse'.data[dense'.data[i]] = i
        BY <1>11 DEF DenseIsLinked
    <2>1. /\ dense'.data[i] \in 0 .. top - 1
          /\ sparse'.data[dense'.data[i]] = i
        BY <1>10
    <2>2. top \in Int
        BY Shape
    <2> HIDE DEF top
    <2> QED
        BY <2>1, <2>2
<1>13. MembersAreItems'
    <2> SUFFICES ASSUME NEW i \in 0 .. end - 1
                 PROVE  /\ dense'.data[i] \in Items
                        /\ HasSuccessor(dense'.data[i])
        BY <1>11 DEF MembersAreItems, HasSuccessor
    <2>1. PICK j \in 0 .. end : dense'.data[i] = dense.data[j]
        BY <1>10
    <2>2. dense.data[j] \in Items /\ HasSuccessor(dense.data[j])
        BY <2>1 DEF IInv, MembersAreItems
    <2> QED
        BY <2>1, <2>2
<1>14. Members' = Members \ {item}
    <2>1. ASSUME NEW x \in Members' PROVE x \in Members /\ x # item
        <3>1. PICK i \in 0 .. end - 1 : x = dense'.data[i]
            BY <1>11, <2>1 DEF Members, Mem!Elements
        <3>2. PICK j \in 0 .. end : dense'.data[i] = dense.data[j]
            BY <1>10
        <3> QED
            BY <1>10, <3>1, <3>2 DEF Members, Mem!Elements
    <2>2. ASSUME NEW x \in Members, x # item PROVE x \in Members'
        <3>1. PICK j \in 0 .. end : x = dense.data[j]
            BY <2>2 DEF Members, Mem!Elements
        <3>2. j # index
            BY <1>2, <2>2, <3>1
        <3>3. CASE j = end
            <4>1. index \in 0 .. end - 1 /\ dense'.data[index] = x
                BY <1>2, <1>9, <3>1, <3>2, <3>3
            <4> QED
                BY <1>11, <4>1 DEF Members, Mem!Elements
        <3>4. CASE j # end
            <4>1. j \in 0 .. end - 1 /\ dense'.data[j] = x
                BY <1>2, <1>9, <3>1, <3>2, <3>4
            <4> QED
                BY <1>11, <4>1 DEF Members, Mem!Elements
        <3> QED
            BY <3>3, <3>4
    <2> QED
        BY <2>1, <2>2
<1> QED
    BY <1>8, <1>12, <1>13, <1>14 DEF IInv

\* A resize that fits leaves dense as it is and every index inside sparse.
LEMMA ResizeStep ==
    ASSUME IInv, NEW n \in Words, Fits(n), ResizeTo(n)
    PROVE  IInv' /\ Members' = Members
<1>1. n \in Nat /\ n = dense.size
    BY WordSizeAssumption DEF Words, Fits
<1>2. /\ Mem!IsVec(dense', Nat) /\ dense'.size = dense.size
      /\ \A i \in 0 .. dense.size - 1 : dense'.data[i] = dense.data[i]
    BY <1>1, ResizeFacts DEF ResizeTo, IInv, TypeOK
<1>3. /\ Mem!IsVec(sparse', Nat) /\ sparse'.size = n
      /\ \A i \in 0 .. sparse.size - 1 :
             i < n => sparse'.data[i] = sparse.data[i]
    BY <1>1, ResizeFacts DEF ResizeTo, IInv, TypeOK
<1>4. TypeOK' /\ NeverUndefined'
    BY <1>2, <1>3 DEF ResizeTo, TypeOK, IInv, NeverUndefined
<1>5. ASSUME NEW i \in 0 .. dense.size - 1
      PROVE  /\ dense'.data[i] < sparse'.size
             /\ sparse'.data[dense'.data[i]] = i
             /\ dense'.data[i] \in Items /\ HasSuccessor(dense'.data[i])
    <2>1. /\ dense.data[i] < sparse.size
          /\ sparse.data[dense.data[i]] = i
          /\ dense.data[i] \in Items /\ HasSuccessor(dense.data[i])
        BY DEF IInv, DenseIsLinked, MembersAreItems
    <2>2. dense.data[i] < n
        BY DEF Fits, Members, Mem!Elements
    <2>3. dense.data[i] \in 0 .. sparse.size - 1
        BY <2>1, ItemFacts, Shape
    <2> QED
        BY <1>2, <1>3, <2>1, <2>2, <2>3
<1>6. DenseIsLinked' /\ MembersAreItems'
    BY <1>2, <1>5 DEF DenseIsLinked, MembersAreItems, HasSuccessor
<1>7. Members' = Members
    BY <1>2 DEF Members, Mem!Elements
<1> QED
    BY <1>4, <1>6, <1>7 DEF IInv

\* clear() leaves nothing to link.
LEMMA ClearStep ==
    ASSUME IInv, Clear
    PROVE  IInv' /\ Members' = {}
<1>1. /\ dense' = [data |-> dense.data, size |-> 0, space |-> dense.space]
      /\ sparse' = [data |-> sparse.data, size |-> 0, space |-> sparse.space]
      /\ UNCHANGED undefined
    BY Shape DEF Clear, Mem!Clear
<1>2. Mem!IsVec(dense', Nat) /\ Mem!IsVec(sparse', Nat)
    BY <1>1, Shape DEF Mem!IsVec
<1>3. TypeOK' /\ NeverUndefined'
    BY <1>1, <1>2 DEF TypeOK, IInv, NeverUndefined
<1>4. DenseIsLinked' /\ MembersAreItems'
    BY <1>1 DEF DenseIsLinked, MembersAreItems
<1>5. Members' = {}
    BY <1>1 DEF Members, Mem!Elements
<1> QED
    BY <1>3, <1>4, <1>5 DEF IInv

\* A call that changes neither array keeps the invariant and the set.
LEMMA SameArrays ==
    ASSUME IInv, UNCHANGED <<dense, sparse, undefined>>
    PROVE  IInv' /\ Members' = Members
<1>1. IInv'
    BY DEF IInv, TypeOK, NeverUndefined, DenseIsLinked, MembersAreItems,
           HasSuccessor
<1> QED
    BY <1>1 DEF Members

\* Every step of a careful client keeps the invariant and is the abstract set's
\* step of the same call, or changes nothing.
LEMMA CarefulStep ==
    ASSUME IInv, [CarefulNext]_vars
    PROVE  IInv' /\ [Set!Next]_<<Members, call>>
<1>1. CASE UNCHANGED vars
    BY <1>1, SameArrays DEF vars
<1>2. ASSUME NEW item \in Items, HasSuccessor(item), Add(item)
      PROVE  IInv' /\ Set!Next
    <2>1. IInv' /\ Members' = Members \cup {item}
        <3>1. CASE Has(item)
            <4>1. item \in Members
                BY <3>1, HasFromLinks DEF HasIsExact
            <4> QED
                BY <1>2, <3>1, <4>1, SameArrays DEF Add
        <3>2. CASE ~Has(item)
            BY <1>2, <3>2, AddStep DEF Add
        <3> QED
            BY <3>1, <3>2
    <2>2. call' = <<"add", item>>
        BY <1>2 DEF Add
    <2> QED
        BY <2>1, <2>2 DEF Set!Next, Set!Add
<1>3. ASSUME NEW item \in Items, KeepsTheRest(item), Remove(item)
      PROVE  IInv' /\ Set!Next
    <2>1. IInv' /\ Members' = Members \ {item}
        BY <1>3, RemoveStep
    <2>2. item \in Members /\ Has(item)
        BY <1>3, HasFromLinks DEF KeepsTheRest, HasIsExact
    <2>3. call' = <<"remove", item, item \in Members>>
        BY <1>3, <2>2 DEF Remove, Rejected
    <2> QED
        BY <2>1, <2>3 DEF Set!Next, Set!Remove
<1>4. ASSUME NEW item \in Items, Rejected(item), Remove(item)
      PROVE  IInv' /\ Set!Next
    <2>1. item \notin Members
        BY <1>4, HasFromLinks DEF Rejected, HasIsExact
    <2>2. IInv' /\ Members' = Members \ {item}
        BY <1>4, <2>1, SameArrays DEF Remove
    <2>3. call' = <<"remove", item, item \in Members>>
        BY <1>4, <2>1 DEF Remove
    <2> QED
        BY <2>2, <2>3 DEF Set!Next, Set!Remove
<1>5. ASSUME NEW n \in Words, Fits(n), ResizeTo(n)
      PROVE  IInv' /\ Set!Next
    BY <1>5, ResizeStep DEF ResizeTo, Set!Next, Set!Resize
<1>6. ASSUME Clear
      PROVE  IInv' /\ Set!Next
    BY <1>6, ClearStep DEF Clear, Set!Next, Set!Clear
<1> QED
    BY <1>1, <1>2, <1>3, <1>4, <1>5, <1>6 DEF CarefulNext

----------------------------------------------------------------------------
\* A careful client never makes a sparse_set touch memory that is not its own,
\* always finds the items of dense, and gets the right answers from has() and
\* get_item_index whatever the memory under sparse held before.
THEOREM SparseSetCorrect ==
    CarefulSpec => [](TypeOK /\ NeverUndefined /\ DenseIsLinked /\ HasIsExact)
<1>1. IInv /\ [CarefulNext]_vars => IInv'
    BY CarefulStep
<1>2. IInv => TypeOK /\ NeverUndefined /\ DenseIsLinked /\ HasIsExact
    BY HasFromLinks DEF IInv
<1> QED
    BY <1>1, <1>2, InitIsLinked, PTL DEF CarefulSpec

\* For a careful client each call of the two arrays is that call of a set: the
\* same operation, of the same item, with the same answer.
THEOREM ImplementsSet == CarefulSpec => SetSpec
<1>1. Init => Set!Init
    BY DEF Init, Set!Init, Members, Mem!Elements, Mem!EmptyVec
<1>2. IInv /\ [CarefulNext]_vars => IInv'
    BY CarefulStep
<1>3. IInv /\ [CarefulNext]_vars => [Set!Next]_<<Members, call>>
    BY CarefulStep
<1> QED
    BY <1>1, <1>2, <1>3, InitIsLinked, PTL
       DEF CarefulSpec, SetSpec, Set!Spec

\* has() and get_item_index() answer for members, and for members only,
\* whatever the cells of sparse hold that were never written.
THEOREM HasCorrect == CarefulSpec => []HasIsExact
BY SparseSetCorrect, PTL

\* A careful client never makes the set index memory that a vec does not own.
THEOREM SparseSetDefined == CarefulSpec => []NeverUndefined
BY SparseSetCorrect, PTL
=============================================================================
