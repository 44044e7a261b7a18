------------------------------- MODULE MCParts -------------------------------
(***************************************************************************)
(* Six small parts of the library, which have no state in common: a        *)
(* behaviour is one of Arena, Unique, Queue, EventQueue, Heap or           *)
(* TupleLayout, while the others stay as they begin.                       *)
(***************************************************************************)
EXTENDS Arena, FiniteSets

CONSTANTS
    Parts,                                                              \* those that run
    Uniques, Objects, Null, Wild, Nothing, Client,                      \* Unique's
    MinCapacity, Values, Fresh, NoValue, MaxLen,                        \* Queue's
    Queues, HeaderSize, EventTypes, EventSizes, MaxBytes,               \* EventQueue's
    WordBytes, DefaultAlignment, Addresses, HeapSizes, Alignments, Junk, \* Heap's
    Types, MaxMembers                                                   \* TupleLayout's

VARIABLES
    part,                                                  \* the part that runs
    pair, alive, raw, misdeleted, copied, lost,            \* Unique's
    arr, out, popped, pushed, line, batched,               \* Queue's
    stream, event_idx, undefined, sent,                    \* EventQueue's
    header_flags, header_size, words, allocs_size, in_use, \* Heap's
    count, members, info, pass, turn, idx, phase, storage  \* TupleLayout's

U == INSTANCE Unique
Q == INSTANCE Queue
E == INSTANCE EventQueue WITH Types <- EventTypes, Sizes <- EventSizes
H == INSTANCE Heap WITH Sizes <- HeapSizes, blocks <- in_use
T == INSTANCE TupleLayout WITH n <- count, i <- pass, j <- turn, pc <- phase

ASSUME UniqueAssumption == U!UniqueAssumption

ASSUME QueueAssumption == MinCapacity \in Nat \ {0}

ASSUME EventQueueAssumption == HeaderSize \in Nat \ {0} /\ EventSizes \subseteq Nat

ASSUME HeapAssumption ==
    H!UnitsAssumption /\ H!RequestsAssumption /\ H!JunkAssumption

ASSUME TupleAssumption ==
    T!TypesAssumption /\ T!AlignmentAssumption /\ T!MaxMembersAssumption

uniqueVars == <<pair, alive, raw, misdeleted, copied, lost>>
queueVars == <<arr, out, popped, pushed, line, batched>>
eventVars == <<stream, event_idx, undefined, sent>>
heapVars == <<header_flags, header_size, words, allocs_size, in_use>>
tupleVars == <<count, members, info, pass, turn, idx, phase, storage>>
partsVars == <<part, vars, uniqueVars, queueVars, eventVars, heapVars, tupleVars>>

\* While another part runs, there is one tuple of one member.
PartsInit ==
    /\ part \in Parts
    /\ Init /\ U!Init /\ Q!Init /\ E!Init /\ H!Init /\ T!Init
    /\ part # "tuple" => members = [k \in {0} |-> CHOOSE t \in Types : TRUE]

PartsNext ==
    /\ UNCHANGED part
    /\ \/ /\ part = "arena" /\ Next
          /\ UNCHANGED <<uniqueVars, queueVars, eventVars, heapVars, tupleVars>>
       \/ /\ part = "unique" /\ U!Next
          /\ UNCHANGED <<vars, queueVars, eventVars, heapVars, tupleVars>>
       \/ /\ part = "queue" /\ Q!Next
          /\ UNCHANGED <<vars, uniqueVars, eventVars, heapVars, tupleVars>>
       \/ /\ part = "events" /\ E!Next
          /\ UNCHANGED <<vars, uniqueVars, queueVars, heapVars, tupleVars>>
       \/ /\ part = "heap" /\ H!CarefulNext
          /\ UNCHANGED <<vars, uniqueVars, queueVars, eventVars, tupleVars>>
       \/ /\ part = "tuple" /\ T!Next
          /\ UNCHANGED <<vars, uniqueVars, queueVars, eventVars, heapVars>>

PartsSpec == PartsInit /\ [][PartsNext]_partsVars

\* Four alignments, and a size that is more than one of its alignment.
MCTypes ==
    {[align |-> a, size |-> a] : a \in {1, 2, 4, 8}} \cup {[align |-> 4, size |-> 12]}

\* While it is allocated, an object has one holder, but for copied pointers.
OwnersAreExact == U!OwnersAreExact

\* Only a copied or unwritten pointer leads to a wrong deletion.
OnlyCopiesAreMisdeleted == U!OnlyCopiesAreMisdeleted

\* pop() of the queue returns nothing that was not pushed.
PopsOnlyPushed == Q!PopsOnlyPushed

\* Small batches leave the queue in the order in which they came.
BatchesAreFifo == Q!BatchesAreFifo

\* The events of an event queue follow each other, each whole.
EventsFollowEachOther == E!EventsFollowEachOther

\* Writing to a second event queue, and only that, is undefined.
OneQueuePerProgram == E!OneQueuePerProgram

\* From storage the way leads back to its block, its size and its alignment.
LeadsBack == H!LeadsBack

\* While sizes are kept, total_allocated() is what the blocks in use have been given.
TotalIsExact == H!TotalIsExact

\* Storage is aligned as its caller asked, and in the block that malloc gave.
StorageIsAsAsked == H!StorageIsAsAsked

\* Every member of a tuple is aligned, although nothing pads it.
MembersAreAligned == T!MembersAreAligned

\* get<I>() refers to the bytes of the member I, all of them, and of no other.
MembersAreWhole == T!MembersAreWhole
=============================================================================
