----------------------------- MODULE EventQueue -----------------------------
(***************************************************************************)
(* sc::event_queue: a stream of bytes in which the header of each event,   *)
(* its type and size, is followed by its data.  The position at which      *)
(* write() goes on is a static local, which all event queues share.        *)
(***************************************************************************)
EXTENDS Integers, Sequences, FiniteSets

CONSTANTS
    Queues,
    HeaderSize, \* sizeof(EventHeader)
    Types,      \* EventType
    Sizes,      \* the sizes that events have
    Fresh,      \* what a byte of memory holds before it is written
    MaxBytes    \* bound on the length of a stream

VARIABLES
    stream,
    event_idx,
    undefined, \* memory past the end of a stream was written
    sent       \* history: the bytes of the events written to each queue

vars == <<stream, event_idx, undefined, sent>>

Mem == INSTANCE VecOps WITH MinCapacity <- 0, Garbage <- {Fresh}

Init ==
    /\ stream = [q \in Queues |-> Mem!EmptyVec]
    /\ event_idx = 0
    /\ undefined = FALSE
    /\ sent = [q \in Queues |-> <<>>]

HeaderBytes(type, size) ==
    [k \in 1 .. HeaderSize |-> [type |-> type, size |-> size, header |-> k]]

DataBytes(type, size) ==
    [k \in 1 .. size |-> [type |-> type, size |-> size, data |-> k]]

\* MUTANT of Insertions: the data goes where the header is.
InsertionsOverHeader(v, header, data) ==
    UNION {Mem!InsertAt(w, data, event_idx) : w \in Mem!InsertAt(v, header, event_idx)}

\* The two calls of insert_at.
Insertions(v, header, data) ==
    UNION {Mem!InsertAt(w, data, event_idx + Len(header)) :
               w \in Mem!InsertAt(v, header, event_idx)}

\* What the first call of insert_at writes is in the memory that it reserves.
HasRoom(v) ==
    \E w \in Mem!Reserve(v, v.size + HeaderSize) : event_idx + HeaderSize <= w.space

\* The stream and the history of Write.
Inserted(q, header, data) ==
    /\ ~undefined
    /\ undefined' = ~HasRoom(stream[q])
    /\ \E w \in Insertions(stream[q], header, data) :
           stream' = IF undefined' THEN stream ELSE [stream EXCEPT ![q] = w]
    /\ sent' = [sent EXCEPT ![q] = @ \o header \o data]

\* MUTANT of Write: the header is counted twice.
WriteCountedTwice(q, type, size) ==
    /\ Inserted(q, HeaderBytes(type, size), DataBytes(type, size))
    /\ event_idx' = event_idx + 2 * HeaderSize + size

Write(q, type, size) ==
    /\ Inserted(q, HeaderBytes(type, size), DataBytes(type, size))
    /\ event_idx' = event_idx + HeaderSize + size

Next ==
    \E q \in Queues, type \in Types, size \in Sizes :
        Len(sent[q]) < MaxBytes /\ Write(q, type, size)

Spec == Init /\ [][Next]_vars

----------------------------------------------------------------------------
(* Properties.                                                             *)

\* "[event_1_enum] [event_1_data] [event_2_enum] [event_2_data]"
\* (event_queue.h:23): the bytes of a queue are those of its events, in the
\* order they were written, each whole behind its header.
EventsFollowEachOther ==
    ~undefined =>
        \A q \in Queues :
            [k \in 1 .. stream[q].size |-> stream[q].data[k - 1]] = sent[q]

\* A program may have one event queue: write() keeps to the memory of a stream as
\* long as all events go to the same queue, and leaves it with the first
\* event that goes to a second one.
OneQueuePerProgram ==
    undefined <=> Cardinality({q \in Queues : sent[q] # <<>>}) > 1
=============================================================================
