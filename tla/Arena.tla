-------------------------------- MODULE Arena --------------------------------
(***************************************************************************)
(* sc::arena_alloc and its scoped savepoints.  Memory is handed out from   *)
(* the start of one buffer and given back all at once, or by a savepoint   *)
(* that puts the offsets back to where they were when it was made.         *)
(* Offsets are offsets into the buffer, as in the code.  What the callers  *)
(* hold is kept as history: the arena itself keeps no list of blocks.      *)
(***************************************************************************)
EXTENDS Integers, Sequences

CONSTANTS
    Base,          \* the address of the buffer
    BufLen,        \* buf_len
    Sizes,         \* the sizes that callers ask for
    Aligns,        \* the alignments that they ask for: powers of two
    MaxSavepoints  \* bound on the savepoints alive at a time

ASSUME BufferAssumption == Base \in Nat /\ BufLen \in Nat

ASSUME RequestsAssumption == Sizes \subseteq Nat /\ Aligns \subseteq Nat \ {0}

VARIABLES
    prev_offset,
    curr_offset,
    saved,   \* the savepoints alive, the outermost first
    blocks,  \* history: the blocks in use, each with the alignment asked of the
             \* call that placed it and the savepoints it is under
    written  \* history: the bytes that the last call wrote itself

vars == <<prev_offset, curr_offset, saved, blocks, written>>

Depth == Len(saved)

End(b) == b.offset + b.size

Bytes(b) == b.offset .. End(b) - 1

Init ==
    /\ prev_offset = 0
    /\ curr_offset = 0
    /\ saved = <<>>
    /\ blocks = {}
    /\ written = {}

----------------------------------------------------------------------------
\* mem::align_forward: p & (align - 1) is the remainder, for a power of two.
AlignForward(p, align) ==
    IF p % align = 0 THEN p ELSE p + (align - (p % align))

\* MUTANT of OffsetFor: where the buffer begins is forgotten.
OffsetInBuffer(align) == AlignForward(curr_offset, align)

OffsetFor(align) == AlignForward(Base + curr_offset, align) - Base

HasRoom(size, align) == OffsetFor(align) + size <= BufLen

Placed(size, align) ==
    [offset |-> OffsetFor(align), size |-> size, align |-> align,
     scope |-> Depth]

\* allocate() when there is room, after which the block old is not used.
TakeInsteadOf(old, size, align) ==
    /\ HasRoom(size, align)
    /\ prev_offset' = OffsetFor(align)
    /\ curr_offset' = OffsetFor(align) + size
    /\ blocks' = (blocks \ old) \cup {Placed(size, align)}
    /\ UNCHANGED saved

\* Without room the caller gets a null pointer.
Allocate(size, align) ==
    \/ TakeInsteadOf({}, size, align) /\ written' = {}
    \/ /\ ~HasRoom(size, align)
       /\ written' = {}
       /\ UNCHANGED <<prev_offset, curr_offset, saved, blocks>>

\* What resize() takes for the last block.
IsLast(b) == prev_offset = b.offset

\* MUTANT of ResizeLast: whether the block is the last one is not asked.
ResizeAny(b, size, align) ==
    /\ b.size > 0
    /\ curr_offset' = b.offset + size
    /\ blocks' = (blocks \ {b}) \cup {[b EXCEPT !.size = size]}
    /\ written' = curr_offset' .. curr_offset' + (size - b.size) - 1
    /\ UNCHANGED <<prev_offset, saved>>

\* The last block grows or shrinks where it is, whatever alignment is asked for.
\* Nobody looks at buf_len, and the bytes cleared are not the new ones but as
\* many after them.
ResizeLast(b, size, align) ==
    /\ b.size > 0
    /\ IsLast(b)
    /\ curr_offset' = prev_offset + size
    /\ blocks' = (blocks \ {b}) \cup {[b EXCEPT !.size = size]}
    /\ written' = curr_offset' .. curr_offset' + (size - b.size) - 1
    /\ UNCHANGED <<prev_offset, saved>>

\* MUTANT of ResizeMoved: as many bytes are copied as the new block has.
ResizeMovedAll(b, size, align) ==
    /\ b.size > 0
    /\ ~IsLast(b)
    /\ TakeInsteadOf({b}, size, align)
    /\ written' = OffsetFor(align) .. OffsetFor(align) + b.size - 1

\* Any other block is moved to the end.
ResizeMoved(b, size, align) ==
    /\ b.size > 0
    /\ ~IsLast(b)
    /\ TakeInsteadOf({b}, size, align)
    /\ LET copied == IF b.size < size THEN b.size ELSE size
       IN  written' = OffsetFor(align) .. OffsetFor(align) + copied - 1

\* A block of no bytes is not looked at: the caller gets another one, or null.
ResizeEmpty(b, size, align) ==
    /\ b.size = 0
    /\ written' = {}
    /\ \/ TakeInsteadOf({b}, size, align)
       \/ /\ ~HasRoom(size, align)
          /\ UNCHANGED <<prev_offset, curr_offset, saved, blocks>>

\* Whatever the pointer, everything is given back.
Deallocate ==
    /\ prev_offset' = 0
    /\ curr_offset' = 0
    /\ blocks' = {}
    /\ written' = {}
    /\ UNCHANGED saved

\* The constructor of arena_memory_scoped_savepoint.
MakeSavepoint ==
    /\ saved' = Append(saved, [prev |-> prev_offset, curr |-> curr_offset])
    /\ written' = {}
    /\ UNCHANGED <<prev_offset, curr_offset, blocks>>

\* MUTANT of LeaveSavepoint: prev_offset is not put back.
LeaveWithoutPrev ==
    /\ Depth > 0
    /\ curr_offset' = saved[Depth].curr
    /\ saved' = SubSeq(saved, 1, Depth - 1)
    /\ blocks' = {b \in blocks : b.scope < Depth}
    /\ written' = {}
    /\ UNCHANGED prev_offset

\* Its destructor: what was allocated since is given back.  Savepoints are
\* scoped, so the one made last goes first.
LeaveSavepoint ==
    /\ Depth > 0
    /\ prev_offset' = saved[Depth].prev
    /\ curr_offset' = saved[Depth].curr
    /\ saved' = SubSeq(saved, 1, Depth - 1)
    /\ blocks' = {b \in blocks : b.scope < Depth}
    /\ written' = {}

----------------------------------------------------------------------------
\* The clearing, too, stays in the buffer.
GrowthFits(b, size) ==
    /\ b.offset + size <= BufLen
    /\ size > b.size => b.offset + size + (size - b.size) <= BufLen

\* Callers that keep to what the code handles: they resize a block under the
\* savepoints it was made under, only where there is room (a move without room
\* copies to a null pointer), and reset the arena under no savepoint.
Next ==
    \/ \E size \in Sizes, align \in Aligns : Allocate(size, align)
    \/ \E b \in blocks, size \in Sizes, align \in Aligns :
           /\ b.scope = Depth
           /\ \/ GrowthFits(b, size) /\ ResizeLast(b, size, align)
              \/ ResizeMoved(b, size, align)
              \/ ResizeEmpty(b, size, align)
    \/ Depth = 0 /\ Deallocate
    \/ Depth < MaxSavepoints /\ MakeSavepoint
    \/ LeaveSavepoint

Spec == Init /\ [][Next]_vars

----------------------------------------------------------------------------
(* Properties.                                                             *)

Block == [offset : Nat, size : Nat, align : Aligns, scope : 0 .. Depth]

\* The offsets stay in the buffer, in their order, and so do the saved ones.
TypeOK ==
    /\ prev_offset \in Nat /\ curr_offset \in Nat
    /\ prev_offset <= curr_offset /\ curr_offset <= BufLen
    /\ saved \in Seq([prev : Nat, curr : Nat])
    /\ \A k \in 1 .. Depth :
           saved[k].prev <= saved[k].curr /\ saved[k].curr <= BufLen
    /\ blocks \subseteq Block

\* No two callers share a byte, whatever has been resized, moved, taken back
\* or allocated again, and every block lies in the buffer.
BlocksAreApart ==
    /\ \A b \in blocks : End(b) <= BufLen
    /\ \A b, c \in blocks : b = c \/ End(b) <= c.offset \/ End(c) <= b.offset

\* Every block is at a multiple of the alignment asked of the call that placed
\* it, allocate() or a resize() that moved it, wherever the buffer begins and
\* through savepoints.  A resize() in place leaves it there, and ignores the
\* alignment that it is given (arena_alloc.cpp:44-49).
BlocksAreAligned == \A b \in blocks : (Base + b.offset) % b.align = 0

\* What resize() clears or copies is in the buffer, and belongs to the block
\* it returns or to nobody.
WritesSpareBlocks ==
    /\ written \subseteq 0 .. BufLen - 1
    /\ \A b \in blocks : b.offset = prev_offset \/ Bytes(b) \cap written = {}
=============================================================================
