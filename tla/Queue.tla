-------------------------------- MODULE Queue --------------------------------
(***************************************************************************)
(* sc::queue<T> for a trivial T: a vec, pushed at its end, and the index   *)
(* `out` of the element that pop() returns.  pop() then shortens the vec   *)
(* at its end.                                                             *)
(***************************************************************************)
EXTENDS Integers, Sequences

CONSTANTS
    MinCapacity, \* vec::MIN_CAPACITY
    Values,
    Fresh,       \* what a cell of memory holds before it is written
    NoValue,
    MaxLen       \* bound on the length of the vec

VARIABLES
    arr,
    out,
    popped,      \* history: what the last pop() returned
    pushed,      \* history: every value pushed so far
    line,        \* history: what a first-in first-out queue would hold
    batched      \* history: the pushes so far came in batches of one or two

vars == <<arr, out, popped, pushed, line, batched>>

Mem == INSTANCE VecOps WITH Garbage <- {Fresh}

Init ==
    /\ arr = Mem!EmptyVec
    /\ out = 0
    /\ popped = NoValue
    /\ pushed = {}
    /\ line = <<>>
    /\ batched = TRUE

\* A batch is over when the queue is empty again: then `out` is 0.
Push(v) ==
    /\ arr' \in Mem!Push(arr, v)
    /\ pushed' = pushed \cup {v}
    /\ line' = Append(line, v)
    /\ batched' = (batched /\ out = 0 /\ arr.size < 2)
    /\ UNCHANGED <<out, popped>>

\* MUTANT of Pop: `out` stays where it is.
PopWithoutAdvance ==
    /\ arr.size > 0
    /\ popped' = arr.data[out]
    /\ arr' = Mem!PopBack(arr)
    /\ line' = Tail(line)
    /\ UNCHANGED <<out, pushed, batched>>

\* MUTANT of Pop: `out` does not wrap around.
PopUnwrapped ==
    /\ arr.size > 0
    /\ out < arr.space
    /\ popped' = arr.data[out]
    /\ out' = out + 1
    /\ arr' = Mem!PopBack(arr)
    /\ line' = Tail(line)
    /\ UNCHANGED <<pushed, batched>>

\* Undefined on an empty queue: the remainder of a division by 0.
Pop ==
    /\ arr.size > 0
    /\ popped' = arr.data[out]
    /\ out' = (out + 1) % arr.size
    /\ arr' = Mem!PopBack(arr)
    /\ line' = Tail(line)
    /\ UNCHANGED <<pushed, batched>>

----------------------------------------------------------------------------
\* Clients that pop no empty queue.
Next ==
    \/ Pop
    \/ arr.size < MaxLen /\ \E v \in Values : Push(v)

Spec == Init /\ [][Next]_vars

----------------------------------------------------------------------------
(* Properties.                                                             *)

\* The cell at `out` may be one that pop_back() has given up, but never one
\* that no push() has written: pop() returns nothing that was not pushed.
PopsOnlyPushed == popped \in pushed \cup {NoValue}

\* pop() returns the value pushed first of those that are left, as long as at
\* most two values wait and both leave before the next push, although the second
\* pop() reads a cell past the end.  A third value or a push in between breaks
\* it: queue.h:40 counts modulo a length that every pop() makes shorter.
BatchesAreFifo ==
    [][batched /\ Len(line') < Len(line) => popped' = Head(line)]_vars
=============================================================================
