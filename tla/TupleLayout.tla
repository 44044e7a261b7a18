----------------------------- MODULE TupleLayout -----------------------------
(***************************************************************************)
(* sc::tuple<T...>: where the members are in its storage.  They are sorted *)
(* by alignment, the largest first, laid end to end without padding, and   *)
(* constructed there from the arguments.  One action is one turn of a loop *)
(* (the compiler runs the first two); indices begin at 0, as in the code.  *)
(***************************************************************************)
EXTENDS Integers, Functions

CONSTANTS
    Types,     \* of members: records of an align and a size
    MaxMembers

(* What a module that instantiates this one assumes of the constants.      *)

TypesAssumption ==
    Types \subseteq [align : Nat \ {0}, size : Nat \ {0}]

\* What C++ asks of types: sizes are whole numbers of alignments, and of two
\* alignments the smaller one divides the other.
AlignmentAssumption ==
    \A s, t \in Types :
        /\ s.size % s.align = 0
        /\ s.align <= t.align => t.align % s.align = 0

MaxMembersAssumption == MaxMembers \in Nat \ {0}

VARIABLES
    n,       \* sizeof...(T)
    members, \* T..., also the types of the arguments
    info,    \* get_members_info_impl's res
    i, j,    \* the counters of its sort
    idx,     \* the counter of its offsets, then the next member to construct
    pc,
    storage  \* what has been written, by its place: a byte of a member

vars == <<n, members, info, i, j, idx, pc, storage>>

\* The storage has as many bytes as the members.
StorageSize == SumFunction([k \in DOMAIN members |-> members[k].size])

Init ==
    /\ n \in 1 .. MaxMembers
    /\ members \in [0 .. n - 1 -> Types]
    /\ info = [k \in 0 .. n - 1 |->
                  [original_index |-> k, align |-> members[k].align,
                   size |-> members[k].size, offset |-> 0]]
    /\ i = 0
    /\ j = 1
    /\ idx = 1
    /\ pc = "sort"
    /\ storage = [b \in {} |-> 0]

----------------------------------------------------------------------------
(* get_members_info_impl.                                                  *)

\* MUTANT of OutOfOrder: the smallest alignment goes first.
Ascending == info[j - 1].align > info[j].align

OutOfOrder == info[j - 1].align < info[j].align

Swapped == [info EXCEPT ![j - 1] = info[j], ![j] = info[j - 1]]

SortTurn ==
    /\ pc = "sort" /\ j < n - i
    /\ info' = IF OutOfOrder THEN Swapped ELSE info
    /\ j' = j + 1
    /\ UNCHANGED <<n, members, i, idx, pc, storage>>

NextPass ==
    /\ pc = "sort" /\ j >= n - i
    /\ i' = i + 1
    /\ j' = 1
    /\ pc' = IF i + 1 < n THEN "sort" ELSE "offsets"
    /\ UNCHANGED <<n, members, info, idx, storage>>

\* MUTANT of OffsetAfter: the size is that of the member itself.
OffsetBySelf(k) == info[k - 1].offset + info[k].size

OffsetAfter(k) == info[k - 1].offset + info[k - 1].size

OffsetTurn ==
    /\ pc = "offsets" /\ idx # n
    /\ info' = [info EXCEPT ![idx].offset = OffsetAfter(idx)]
    /\ idx' = idx + 1
    /\ UNCHANGED <<n, members, i, j, pc, storage>>

OffsetsDone ==
    /\ pc = "offsets" /\ idx = n
    /\ pc' = "construct"
    /\ idx' = 0
    /\ UNCHANGED <<n, members, info, i, j, storage>>

----------------------------------------------------------------------------
(* initialize_storage and get.                                             *)

Bytes(entry) == entry.offset .. entry.offset + entry.size - 1

\* The member takes the argument of its original index.
Construct ==
    /\ pc = "construct" /\ idx < n
    /\ LET entry == info[idx]
       IN  storage' = [b \in DOMAIN storage \cup Bytes(entry) |->
                          IF b \in Bytes(entry)
                          THEN [member |-> entry.original_index, byte |-> b - entry.offset]
                          ELSE storage[b]]
    /\ idx' = idx + 1
    /\ UNCHANGED <<n, members, info, i, j, pc>>

Constructed ==
    /\ pc = "construct" /\ idx = n
    /\ pc' = "done"
    /\ UNCHANGED <<n, members, info, i, j, idx, storage>>

\* The offset of the first entry for the member I.
OffsetFor(I) ==
    info[CHOOSE k \in 0 .. n - 1 :
            /\ info[k].original_index = I
            /\ \A l \in 0 .. k - 1 : info[l].original_index # I].offset

\* The bytes that get<I>() refers to.
Get(I) == [k \in 0 .. members[I].size - 1 |-> storage[OffsetFor(I) + k]]

Next ==
    \/ SortTurn
    \/ NextPass
    \/ OffsetTurn
    \/ OffsetsDone
    \/ Construct
    \/ Constructed

Spec == Init /\ [][Next]_vars

----------------------------------------------------------------------------
(* Properties.                                                             *)

\* The largest alignments first and sizes that are whole numbers of them: every
\* member of a tuple is aligned, although nothing pads it (tuple.h:138-152).
MembersAreAligned ==
    pc \in {"construct", "done"} =>
        \A I \in DOMAIN members : OffsetFor(I) % members[I].align = 0

\* All members are in the storage, which they fill, and get<I>() refers to the bytes
\* of the member I and of no other.
MembersAreWhole ==
    pc = "done" =>
        /\ DOMAIN storage = 0 .. StorageSize - 1
        /\ \A I \in DOMAIN members :
               Get(I) = [k \in 0 .. members[I].size - 1 |-> [member |-> I, byte |-> k]]
=============================================================================
