-------------------------------- MODULE Vec --------------------------------
(***************************************************************************)
(* sc::vec<T>, for a T with constructors and a destructor or a trivial T:  *)
(* which memory each vec owns, and in which cells of it objects live.      *)
(* VecOps has the values that the same operations leave for a trivial T.   *)
(* What T has in a cell is the object's value; one operation is one step.  *)
(***************************************************************************)
EXTENDS Integers, Sequences, Functions

CONSTANTS
    Vecs,         \* the vec objects of the program, all with one allocator
    Values,       \* of T
    DefaultValue, \* T()
    Blocks,       \* what the allocator has to give
    MinCapacity,  \* vec::MIN_CAPACITY
    MaxLen,       \* bound on the lengths that callers ask for
    Raw,          \* a cell without an object
    Null,
    NoVec         \* a vec that is not constructed, or destroyed

ASSUME VecCapacityAssumption == MinCapacity \in Nat \ {0} /\ MaxLen \in Nat

ASSUME VecNamesAssumption ==
    /\ Raw \notin Values
    /\ DefaultValue \in Values
    /\ Null \notin Blocks
    /\ NoVec \notin [data : Blocks \cup {Null}, size : Nat, space : Nat]

ASSUME NoVecAssumption == NoVec \notin Seq(Values)

Cells == Values \cup {Raw}

VARIABLES
    vecs,      \* vecs[v].data, size and space, or NoVec
    heap,      \* the cells of each block that is allocated
    undefined, \* memory or an object was used that is not there
    trivial    \* T is a trivial type: which it is stays as it is

vars == <<vecs, heap, undefined>>

Init ==
    /\ vecs = [v \in Vecs |-> NoVec]
    /\ heap = [b \in {} |-> Raw]
    /\ undefined = FALSE
    /\ trivial \in BOOLEAN

Existing == {v \in Vecs : vecs[v] # NoVec}

----------------------------------------------------------------------------
(* Memory, and the objects in it.                                          *)

\* The cells of a block of n, the first of which get the objects of s.
Filled(n, s) == [i \in 0 .. n - 1 |-> IF i \in DOMAIN s THEN s[i] ELSE Raw]

Allocated(h, b, cells) == [c \in DOMAIN h \cup {b} |-> IF c = b THEN cells ELSE h[c]]

\* deallocate() does nothing for a null pointer.
Deallocated(h, b) == Restrict(h, DOMAIN h \ {b})

Unused(h) == Blocks \ DOMAIN h

\* The elements are objects in memory that the vec may use.
IsSound(w) ==
    w.data # Null =>
        /\ w.data \in DOMAIN heap
        /\ \A i \in 0 .. w.size - 1 : i \in DOMAIN heap[w.data] /\ heap[w.data][i] # Raw

\* The elements, counted from 0.
Objects(w) == [i \in 0 .. w.size - 1 |-> heap[w.data][i]]

Fill(n, x) == [i \in 0 .. n - 1 |-> x]

Vector(data, size, space) == [data |-> data, size |-> size, space |-> space]

EmptyVec == Vector(Null, 0, 0)

Becomes(v, w) == vecs' = [vecs EXCEPT ![v] = w]

Misuse == undefined' = TRUE /\ UNCHANGED <<vecs, heap>>

----------------------------------------------------------------------------
(* Construction and destruction.                                           *)

Construct(v) ==
    /\ v \notin Existing
    /\ Becomes(v, EmptyVec)
    /\ UNCHANGED <<heap, undefined>>

\* A new block of `space` cells, with the objects of s, becomes v's own.
ConstructIn(v, s, size, space) ==
    /\ v \notin Existing
    /\ \E b \in Unused(heap) :
        /\ heap' = Allocated(heap, b, Filled(space, s))
        /\ Becomes(v, Vector(b, size, space))
    /\ UNCHANGED undefined

ConstructLen(v, n) == ConstructIn(v, Fill(n, DefaultValue), n, n)

ConstructFill(v, n, x) == ConstructIn(v, Fill(n, x), n, n)

\* MUTANT of ConstructCopy: the pointer is copied.
ConstructShallow(v, o) ==
    /\ v \notin Existing
    /\ Becomes(v, vecs[o])
    /\ UNCHANGED <<heap, undefined>>

ConstructCopy(v, o) ==
    IF IsSound(vecs[o])
    THEN ConstructIn(v, Objects(vecs[o]), vecs[o].size, vecs[o].space)
    ELSE v \notin Existing /\ Misuse

\* ~vec: the heap after it, which is sound to ask for when the vec is.
AfterDestructor(w) == Deallocated(heap, w.data)

Destroy(v) ==
    IF IsSound(vecs[v])
    THEN /\ heap' = AfterDestructor(vecs[v])
         /\ Becomes(v, NoVec)
         /\ UNCHANGED undefined
    ELSE Misuse

----------------------------------------------------------------------------
(* Assignment.                                                             *)

\* The elements of w may be assigned to cells in which no object lives: to
\* assign to an object of a trivial T is to begin it.
Assignable(w) == trivial \/ w.size = 0

\* The destructor gives the elements and their memory back, and those of o are
\* assigned to the cells of a new block, none of which has an object yet.
CopyAssign(v, o) ==
    IF v = o THEN UNCHANGED vars
    ELSE IF IsSound(vecs[v]) /\ IsSound(vecs[o]) /\ Assignable(vecs[o])
    THEN LET h == AfterDestructor(vecs[v])
             w == vecs[o]
         IN  /\ \E b \in Unused(h) :
                 /\ heap' = Allocated(h, b, Filled(w.space, Objects(w)))
                 /\ Becomes(v, Vector(b, w.size, w.space))
             /\ UNCHANGED undefined
    ELSE Misuse

\* MUTANT of MoveInto: what is moved from keeps its pointer.
MoveIntoKeeps(v, o) ==
    vecs' = [vecs EXCEPT ![v] = vecs[o],
                         ![o] = [vecs[o] EXCEPT !.size = 0, !.space = 0]]

\* The destructor has left a vec that is moved into itself without elements.
MoveInto(v, o) == vecs' = [vecs EXCEPT ![v] = vecs[o], ![o] = EmptyVec]

MoveAssign(v, o) ==
    IF IsSound(vecs[v])
    THEN /\ heap' = AfterDestructor(vecs[v])
         /\ MoveInto(v, o)
         /\ UNCHANGED undefined
    ELSE Misuse

\* The move constructor assigns to a vec without memory.
ConstructMove(v, o) ==
    /\ v \notin Existing
    /\ MoveInto(v, o)
    /\ UNCHANGED <<heap, undefined>>

----------------------------------------------------------------------------
(* Memory of another size.                                                 *)

\* MUTANT of Relocated: the last element is left behind.
RelocatedButLast(w, b, space) ==
    Allocated(Deallocated(heap, w.data), b,
              Filled(space, [i \in 0 .. w.size - 2 |-> Objects(w)[i]]))

\* The elements are copied to the block b, and destroyed where they were.
Relocated(w, b, space) ==
    Allocated(Deallocated(heap, w.data), b, Filled(space, Objects(w)))

Fits(w, n) == n <= w.space

\* The vecs with memory for n elements, each with the heap that has it.
Reserved(w, n) ==
    IF Fits(w, n) THEN {[vector |-> w, heap |-> heap]}
    ELSE {[vector |-> [w EXCEPT !.data = b, !.space = n],
           heap   |-> Relocated(w, b, n)] : b \in Unused(heap)}

Reserve(v, n) ==
    IF Fits(vecs[v], n) \/ IsSound(vecs[v])
    THEN /\ \E r \in Reserved(vecs[v], n) :
             /\ heap' = r.heap
             /\ Becomes(v, r.vector)
         /\ UNCHANGED undefined
    ELSE Misuse

\* The cell i of the block b gets an object, or loses the one it has.
Put(h, b, i, x) == [h EXCEPT ![b][i] = x]

\* MUTANT of Resize: the elements cut off are not destroyed.
ResizeKeeping(v, n) ==
    IF IsSound(vecs[v])
    THEN /\ \E r \in Reserved(vecs[v], n) :
             /\ heap' = IF n <= vecs[v].size THEN r.heap
                        ELSE [r.heap EXCEPT ![r.vector.data] =
                                  [i \in DOMAIN @ |->
                                      IF i \in vecs[v].size .. n - 1
                                      THEN DefaultValue ELSE @[i]]]
             /\ Becomes(v, [r.vector EXCEPT !.size = n])
         /\ UNCHANGED undefined
    ELSE Misuse

\* Cells that become elements get a default object, cells that cease to be
\* elements lose theirs.
Resize(v, n) ==
    IF n = vecs[v].size THEN UNCHANGED vars
    ELSE IF IsSound(vecs[v])
    THEN /\ \E r \in Reserved(vecs[v], n) :
             /\ heap' = [r.heap EXCEPT ![r.vector.data] =
                             [i \in DOMAIN @ |->
                                 CASE i \in n .. vecs[v].size - 1 -> Raw
                                   [] i \in vecs[v].size .. n - 1 -> DefaultValue
                                   [] OTHER                       -> @[i]]]
             /\ Becomes(v, [r.vector EXCEPT !.size = n])
         /\ UNCHANGED undefined
    ELSE Misuse

\* When there are no elements the memory is given back, and the vec goes on
\* pointing to it.
ShrinkToFit(v) ==
    LET w == vecs[v]
    IN  IF w.space < w.size THEN UNCHANGED vars
        ELSE IF ~IsSound(w) THEN Misuse
        ELSE /\ IF w.size > 0
                THEN \E b \in Unused(heap) :
                        /\ heap' = Relocated(w, b, w.size)
                        /\ Becomes(v, Vector(b, w.size, w.size))
                ELSE /\ heap' = Deallocated(heap, w.data)
                     /\ Becomes(v, [w EXCEPT !.space = 0])
             /\ UNCHANGED undefined

----------------------------------------------------------------------------
(* Elements.                                                               *)

PopBack(v) ==
    LET w == vecs[v]
    IN  IF w.size > 0 /\ IsSound(w)
        THEN /\ heap' = Put(heap, w.data, w.size - 1, Raw)
             /\ Becomes(v, [w EXCEPT !.size = @ - 1])
             /\ UNCHANGED undefined
        ELSE Misuse

Clear(v) ==
    LET w == vecs[v]
    IN  IF w.size = 0 THEN UNCHANGED vars
        ELSE IF IsSound(w)
        THEN /\ heap' = [heap EXCEPT ![w.data] =
                             [i \in DOMAIN @ |-> IF i < w.size THEN Raw ELSE @[i]]]
             /\ Becomes(v, [w EXCEPT !.size = 0])
             /\ UNCHANGED undefined
        ELSE Misuse

\* The capacity that push and emplace ask for before they add.
CapacityToAdd(w) ==
    CASE w.space = 0                       -> MinCapacity
      [] w.space # 0 /\ w.size = w.space   -> 2 * w.space
      [] w.space # 0 /\ w.size # w.space   -> w.space

Add(v, x) ==
    IF IsSound(vecs[v])
    THEN /\ \E r \in Reserved(vecs[v], CapacityToAdd(vecs[v])) :
             /\ heap' = Put(r.heap, r.vector.data, r.vector.size, x)
             /\ Becomes(v, [r.vector EXCEPT !.size = @ + 1])
         /\ UNCHANGED undefined
    ELSE Misuse

Push(v, x) == Add(v, x)

\* push() of an element of the vec itself: item is read after reserve.
PushOwn(v, i) ==
    LET w == vecs[v]
    IN  IF IsSound(w) /\ CapacityToAdd(w) = w.space
        THEN Push(v, heap[w.data][i])
        ELSE Misuse

----------------------------------------------------------------------------
(* Clients.                                                                *)

\* A vec with memory and no elements is not shrunk, an element is not pushed
\* into its own vec when that is full, and elements that must be assigned to
\* objects are not copied by assignment.
CanShrink(w) == w.size > 0 \/ w.data = Null
CanPushOwn(w) == w.size < w.space
CanAssign(v, o) == v = o \/ Assignable(vecs[o])

Lengths == 0 .. MaxLen

CarefulNext ==
    /\ ~undefined
    /\ \/ \E v \in Vecs :
            \/ Construct(v)
            \/ \E n \in Lengths : ConstructLen(v, n)
            \/ \E n \in Lengths, x \in Values : ConstructFill(v, n, x)
            \/ \E o \in Existing : ConstructCopy(v, o) \/ ConstructMove(v, o)
       \/ \E v \in Existing :
            \/ Destroy(v)
            \/ \E o \in Existing : CanAssign(v, o) /\ CopyAssign(v, o)
            \/ \E o \in Existing : MoveAssign(v, o)
            \/ \E n \in Lengths : Reserve(v, n) \/ Resize(v, n)
            \/ CanShrink(vecs[v]) /\ ShrinkToFit(v)
            \/ vecs[v].size > 0 /\ PopBack(v)
            \/ Clear(v)
            \/ /\ vecs[v].size < MaxLen
               /\ \/ \E x \in Values : Push(v, x)
                  \/ /\ CanPushOwn(vecs[v])
                     /\ \E i \in 0 .. vecs[v].size - 1 : PushOwn(v, i)

CarefulSpec == Init /\ [][CarefulNext /\ UNCHANGED trivial]_<<vars, trivial>>

----------------------------------------------------------------------------
(* Properties.                                                             *)

\* A vec has no more elements than cells, and a block has cells.
TypeOK ==
    /\ vecs \in [Vecs -> [data : Blocks \cup {Null}, size : Nat, space : Nat] \cup {NoVec}]
    /\ \A v \in Existing : vecs[v].size <= vecs[v].space
    /\ DOMAIN heap \subseteq Blocks
    /\ \A b \in DOMAIN heap : heap[b] \in [DOMAIN heap[b] -> Cells]
    /\ undefined \in BOOLEAN

\* However vecs are copied, moved, assigned to each other and to themselves,
\* every block is the memory of exactly one vec, which knows its capacity: no
\* memory is lost, and none is given back twice (vec.h:118-160).
BlocksHaveOneOwner ==
    /\ \A b \in DOMAIN heap :
           \E v \in Existing : \A u \in Existing : vecs[u].data = b <=> u = v
    /\ \A v \in Existing :
           IF vecs[v].data = Null THEN vecs[v].space = 0
           ELSE /\ vecs[v].data \in DOMAIN heap
                /\ DOMAIN heap[vecs[v].data] = 0 .. vecs[v].space - 1

\* An object lives in each cell that is an element and in no other cell: all
\* that was constructed is destroyed once, before its memory is given back.
ObjectsAreElements ==
    \A v \in Existing : vecs[v].data \in DOMAIN heap =>
        \A i \in DOMAIN heap[vecs[v].data] :
            heap[vecs[v].data][i] # Raw <=> i < vecs[v].size

\* A careful client never makes a vec use memory or objects it does not have.
NeverUndefined == ~undefined

\* Each vec is a sequence of its own that reserve and shrink_to_fit leave as it is,
\* and copies share nothing.
Elements(v) ==
    [i \in 1 .. vecs[v].size |->
        IF vecs[v].data \in DOMAIN heap THEN heap[vecs[v].data][i - 1] ELSE Raw]

Contents == [v \in Vecs |-> IF v \in Existing THEN Elements(v) ELSE NoVec]

Sequences == INSTANCE AbstractVecs WITH contents <- Contents

SequencesSpec == Sequences!Spec
=============================================================================
