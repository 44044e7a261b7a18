------------------------------- MODULE VecOps -------------------------------
(***************************************************************************)
(* sc::vec<T> for a trivial T, as the containers built on it use it: the   *)
(* memory it has allocated (data, of `space` cells) and how many of the    *)
(* cells it counts as elements (size).  Memory comes back from the         *)
(* allocator with anything in it, so an operation that allocates has one   *)
(* outcome for each content of the fresh cells.                            *)
(***************************************************************************)
EXTENDS Integers, Sequences

CONSTANTS
    MinCapacity, \* vec::MIN_CAPACITY
    Garbage      \* what a fresh cell may hold

\* As many cells as it says, and no more elements than cells.
IsVec(v, T) ==
    v \in [data : [0 .. v.space - 1 -> T], size : 0 .. v.space, space : Nat]

EmptyVec == [data |-> [i \in {} |-> 0], size |-> 0, space |-> 0]

Elements(v) == {v.data[i] : i \in 0 .. v.size - 1}

\* reserve: the elements are copied into a larger block.
Reserve(v, capacity) ==
    IF capacity > v.space
    THEN {[data  |-> [i \in 0 .. capacity - 1 |->
                          IF i < v.size THEN v.data[i] ELSE fresh[i]],
           size  |-> v.size,
           space |-> capacity] : fresh \in [v.size .. capacity - 1 -> Garbage]}
    ELSE {v}

\* resize: cells that become elements keep what the memory holds.
Resize(v, n) == {[w EXCEPT !.size = n] : w \in Reserve(v, n)}

Grow(v) ==
    CASE v.space = 0      -> Reserve(v, MinCapacity)
      [] v.space # 0 /\ v.size = v.space -> Reserve(v, 2 * v.space)
      [] OTHER            -> {v}

Push(v, item) ==
    {[w EXCEPT !.data[w.size] = item, !.size = w.size + 1] : w \in Grow(v)}

\* insert_at: items, from index on, over what is there, and as many elements
\* more; undefined unless index + Len(items) cells are there by then.
InsertAt(v, items, index) ==
    LET last == index + Len(items) - 1
    IN  {[w EXCEPT !.data = [i \in DOMAIN w.data |->
                                 IF i \in index .. last THEN items[i - index + 1]
                                                        ELSE w.data[i]],
                   !.size = @ + Len(items)] : w \in Reserve(v, v.size + Len(items))}

\* Undefined on an empty vec: size is unsigned.
PopBack(v) == [v EXCEPT !.size = @ - 1]

Clear(v) == [v EXCEPT !.size = 0]
=============================================================================
