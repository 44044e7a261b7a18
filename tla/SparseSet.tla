----------------------------- MODULE SparseSet -----------------------------
(***************************************************************************)
(* sc::sparse_set<T>.  dense holds the items, in no order; sparse[item] is *)
(* meant to be the item's position in dense.  sparse is grown over memory  *)
(* nobody has written, so most of its cells mean nothing.                  *)
(***************************************************************************)
EXTENDS Integers

CONSTANTS
    Items,       \* the items the client uses
    WordSize,    \* the number of values of T: item + 1 is taken modulo it
    MinCapacity, Garbage

Words == 0 .. WordSize - 1

ASSUME WordSizeAssumption == WordSize \in Nat \ {0}

ASSUME ItemsAssumption == Items \subseteq Words

ASSUME GarbageIsWords == Garbage \subseteq Words /\ Garbage # {}

ASSUME SparseSetCapacityAssumption == MinCapacity \in Nat \ {0}

Mem == INSTANCE VecOps

VARIABLES
    dense,
    sparse,
    undefined, \* the last operation indexed memory that is not the vec's
    call       \* history: the last call, with its item and what it returned

vars == <<dense, sparse, undefined, call>>

Init ==
    /\ dense = Mem!EmptyVec
    /\ sparse = Mem!EmptyVec
    /\ undefined = FALSE
    /\ call = <<>>

----------------------------------------------------------------------------
\* MUTANT of Has: the item is not compared with the one found in dense.
HasIndexOnly(item) ==
    item < sparse.size /\ sparse.data[item] < dense.size

Has(item) ==
    /\ item < sparse.size
    /\ sparse.data[item] < dense.size
    /\ dense.data[sparse.data[item]] = item

\* get_item_index: answers for whatever the memory holds, or -1.
GetItemIndex(item) ==
    IF item >= sparse.space THEN -1 ELSE sparse.data[item]

\* MUTANT of AddNew: the last index is not made room for.
AddNewOffByOne(item) ==
    /\ dense' \in Mem!Push(dense, item)
    /\ \E grown \in IF item >= sparse.size
                    THEN Mem!Resize(sparse, item) ELSE {sparse} :
        IF item < grown.space
        THEN /\ sparse' = [grown EXCEPT !.data[item] = dense'.size - 1]
             /\ UNCHANGED undefined
        ELSE sparse' = grown /\ undefined' = TRUE

\* The item goes to the end of dense, and sparse grows to hold its index.
AddNew(item) ==
    /\ dense' \in Mem!Push(dense, item)
    /\ \E grown \in IF item >= sparse.size
                    THEN Mem!Resize(sparse, (item + 1) % WordSize)
                    ELSE {sparse} :
        IF item < grown.space
        THEN /\ sparse' = [grown EXCEPT !.data[item] = dense'.size - 1]
             /\ UNCHANGED undefined
        ELSE sparse' = grown /\ undefined' = TRUE

Add(item) ==
    /\ ~undefined
    /\ call' = <<"add", item>>
    /\ IF Has(item)
       THEN UNCHANGED <<dense, sparse, undefined>>
       ELSE AddNew(item)

\* MUTANT of Unlink: the moved item keeps its old index.
UnlinkHalf(item, index, last) ==
    /\ dense' = Mem!PopBack([dense EXCEPT
                                 !.data[dense.size - 1] = dense.data[index],
                                 !.data[index] = last])
    /\ LET top == sparse.size - 1
       IN  sparse' = Mem!PopBack([sparse EXCEPT
                                      !.data[top] = sparse.data[item],
                                      !.data[item] = sparse.data[top]])

\* MUTANT of Unlink: dense is popped first, and then its back is read.
UnlinkPoppedFirst(item, index, last) ==
    /\ LET popped == Mem!PopBack(dense)
       IN  dense' = [popped EXCEPT
                         !.data[index] = popped.data[
                             IF popped.size = 0 THEN 0 ELSE popped.size - 1]]
    /\ LET moved == [sparse.data EXCEPT ![last] = index]
           top   == sparse.size - 1
       IN  sparse' = Mem!PopBack([sparse EXCEPT
                                      !.data = [moved EXCEPT
                                                    ![top] = moved[item],
                                                    ![item] = moved[top]]])

\* The last item of dense takes the removed one's place; then sparse too has
\* a cell swapped with its last one and gives that up.
Unlink(item, index, last) ==
    /\ dense' = Mem!PopBack([dense EXCEPT
                                 !.data[dense.size - 1] = dense.data[index],
                                 !.data[index] = last])
    /\ LET moved == [sparse.data EXCEPT ![last] = index]
           top   == sparse.size - 1
       IN  sparse' = Mem!PopBack([sparse EXCEPT
                                      !.data = [moved EXCEPT
                                                    ![top] = moved[item],
                                                    ![item] = moved[top]]])

\* Which items reach the body: every index there is memory for, member or not.
Rejected(item) == item >= sparse.space /\ ~Has(item)

Remove(item) ==
    /\ ~undefined
    /\ call' = <<"remove", item, ~Rejected(item)>>
    /\ IF Rejected(item)
       THEN UNCHANGED <<dense, sparse, undefined>>
       ELSE LET index == sparse.data[item]
                last  == dense.data[dense.size - 1]
            IN  IF /\ dense.size > 0
                   /\ sparse.size > 0
                   /\ index < dense.space
                   /\ last < sparse.space
                THEN Unlink(item, index, last) /\ UNCHANGED undefined
                ELSE undefined' = TRUE /\ UNCHANGED <<dense, sparse>>

ResizeTo(n) ==
    /\ ~undefined
    /\ dense' \in Mem!Resize(dense, n)
    /\ sparse' \in Mem!Resize(sparse, n)
    /\ call' = <<"resize">>
    /\ UNCHANGED undefined

Clear ==
    /\ ~undefined
    /\ dense' = Mem!Clear(dense)
    /\ sparse' = Mem!Clear(sparse)
    /\ call' = <<"clear">>
    /\ UNCHANGED undefined

----------------------------------------------------------------------------
Members == Mem!Elements(dense)

\* A removal that does not throw away the index of another member: the last
\* cell of sparse belongs to the removed item or to none.
KeepsTheRest(item) ==
    /\ item \in Members
    /\ item = sparse.size - 1 \/ sparse.size - 1 \notin Members

\* The largest word has no successor to resize to.
HasSuccessor(item) == item + 1 < WordSize

\* A size that neither makes items of cells never written nor cuts off an
\* item or its index: a resize() that gives back what removals left of sparse.
Fits(n) == n = dense.size /\ \A item \in Members : item < n

\* Clients that keep to what the code handles.  The entity-component system
\* is one: it adds, looks up and iterates, and removes nothing.
CarefulNext ==
    \/ \E item \in Items :
        \/ HasSuccessor(item) /\ Add(item)
        \/ (KeepsTheRest(item) \/ Rejected(item)) /\ Remove(item)
    \/ \E n \in Words : Fits(n) /\ ResizeTo(n)
    \/ Clear

CarefulSpec == Init /\ [][CarefulNext]_vars

\* Clients that add and remove in any order, as tests/sparse_set_tests.cpp
\* does: each removes only what has() says is there.
RemovingNext ==
    \E item \in Items :
        \/ HasSuccessor(item) /\ Add(item)
        \/ Has(item) /\ Remove(item)

RemovingSpec == Init /\ [][RemovingNext]_vars

----------------------------------------------------------------------------
(* Properties.                                                             *)

\* Both arrays are well formed: as many cells as they say, no more elements
\* than cells.
TypeOK ==
    /\ Mem!IsVec(dense, Nat)
    /\ Mem!IsVec(sparse, Nat)
    /\ undefined \in BOOLEAN

\* Every item of dense can be found: sparse knows "at what index it was stored
\* inside dense array" (sparse_set.h:58-59).
DenseIsLinked ==
    \A i \in 0 .. dense.size - 1 :
        /\ dense.data[i] < sparse.size
        /\ sparse.data[dense.data[i]] = i

\* has() answers exactly for the members, and get_item_index gives a member's
\* place in dense, whatever the cells of sparse that were never written hold.
HasIsExact ==
    \A item \in Items :
        /\ Has(item) <=> item \in Members
        /\ item \in Members => /\ GetItemIndex(item) \in 0 .. dense.size - 1
                               /\ dense.data[GetItemIndex(item)] = item

\* A careful client never makes an operation index memory it does not own.
NeverUndefined == ~undefined

\* Call by call the two arrays behave as a set: add(item) adds that item and
\* remove(item) takes out that one and tells whether it was there, neither
\* touches another member, a resize() that fits loses nothing, and clear()
\* leaves nothing.  call ties each step to the abstract step of the same call.
Set == INSTANCE AbstractSet WITH members <- Members

SetSpec == Set!Spec

\* What add() promises where it writes a member's index, "to know later at what
\* index it was stored inside dense array" (sparse_set.h:58-59): whatever is
\* removed meanwhile, has() knows a member and get_item_index leads to it.
\* Clients that remove in any order see it fail.
MembersAreFound ==
    \A item \in Members :
        /\ Has(item)
        /\ GetItemIndex(item) \in 0 .. dense.size - 1
        /\ dense.data[GetItemIndex(item)] = item
=============================================================================
