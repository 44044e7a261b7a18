------------------------------ MODULE Hashmap ------------------------------
(***************************************************************************)
(* sc::hashmap<K, V>: open addressing with Robin Hood reordering and       *)
(* backward shift deletion in an array that never grows.  A step is one    *)
(* turn of a loop of put() or remove(), so that the states between the     *)
(* turns, with one pair in hand or with a hole in the array, are there.    *)
(***************************************************************************)
EXTENDS Integers, FiniteSets

CONSTANTS
    Keys,
    Values,
    Empty,    \* DEFVAL<K>: the key of an empty bucket
    Default,  \* V(): what get() answers with when the key is missing
    Capacity

ASSUME CapacityAssumption == Capacity \in Nat \ {0}

ASSUME EmptyAssumption == Empty \notin Keys

Buckets == 0 .. Capacity - 1

Pairs == [key : Keys \cup {Empty}, value : Values \cup {Default}, dib : Nat]

VARIABLES
    kvps,      \* the buckets
    size,
    home,      \* hash(key) % capacity: any function of the key
    pc,        \* "idle", or the loop that runs
    to_insert, \* put(): the pair in hand
    i,         \* the counter of the loop
    index,     \* put(): init_index; remove(): the bucket that is vacated
    target,    \* remove(): the key
    fallback   \* get(): the static, one for each type of map, it then returns

vars == <<kvps, size, home, pc, to_insert, i, index, target, fallback>>

\* What an empty bucket holds beside its key is never used: it is left out.
Vacant == [key |-> Empty, value |-> Default, dib |-> 0]

Occupied == {b \in Buckets : kvps[b].key # Empty}

Stored == {kvps[b].key : b \in Occupied}

Init ==
    /\ kvps = [b \in Buckets |-> Vacant]
    /\ size = 0
    /\ home \in [Keys -> Buckets]
    /\ pc = "idle"
    /\ to_insert = Vacant
    /\ i = 0
    /\ index = 0
    /\ target = Empty
    /\ fallback = Default

\* The locals of a call are dead once it has returned.
Return ==
    /\ pc' = "idle"
    /\ to_insert' = Vacant
    /\ i' = 0
    /\ index' = 0
    /\ target' = Empty

----------------------------------------------------------------------------
\* put(): a full map refuses, even a key that it holds.
Put(k, v) ==
    /\ pc = "idle"
    /\ size # Capacity
    /\ pc' = "put"
    /\ to_insert' = [key |-> k, value |-> v, dib |-> 0]
    /\ index' = home[k]
    /\ UNCHANGED <<kvps, size, home, i, target, fallback>>

PutRefused ==
    /\ pc = "idle"
    /\ size = Capacity
    /\ UNCHANGED vars

Probed == kvps[(index + i) % Capacity]

FillBucket(pair) == kvps' = [kvps EXCEPT ![(index + i) % Capacity] = pair]

Farther(pair) == [pair EXCEPT !.dib = @ + 1]

\* The next turn of the loop, with a pair in hand; after the last one put()
\* returns, and what is in hand is lost.
Onward(pair) ==
    IF i + 1 < Capacity
    THEN /\ to_insert' = Farther(pair)
         /\ i' = i + 1
         /\ UNCHANGED <<pc, index, target>>
    ELSE Return

PutIntoEmpty ==
    /\ pc = "put"
    /\ Probed.key = Empty
    /\ FillBucket(to_insert)
    /\ size' = size + 1
    /\ Return
    /\ UNCHANGED <<home, fallback>>

\* MUTANT of PutOverKey: the value that was there wins.
PutKeepsOld ==
    /\ pc = "put"
    /\ Probed.key = to_insert.key
    /\ Return
    /\ UNCHANGED <<kvps, size, home, fallback>>

PutOverKey ==
    /\ pc = "put"
    /\ Probed.key = to_insert.key
    /\ FillBucket(to_insert)
    /\ Return
    /\ UNCHANGED <<size, home, fallback>>

\* The pair in hand has come farther than the one in the bucket: they change
\* places, and the search goes on for the other.
PutSwap ==
    /\ pc = "put"
    /\ Probed.key \notin {Empty, to_insert.key}
    /\ Probed.dib < to_insert.dib
    /\ FillBucket(to_insert)
    /\ Onward(Probed)
    /\ UNCHANGED <<size, home, fallback>>

\* MUTANT of PutPass: it passes by its own key as well.
PutPassEqual ==
    /\ pc = "put"
    /\ Probed.key # Empty
    /\ Probed.dib >= to_insert.dib
    /\ Onward(to_insert)
    /\ UNCHANGED <<kvps, size, home, fallback>>

PutPass ==
    /\ pc = "put"
    /\ Probed.key \notin {Empty, to_insert.key}
    /\ Probed.dib >= to_insert.dib
    /\ Onward(to_insert)
    /\ UNCHANGED <<kvps, size, home, fallback>>

PutStep == PutIntoEmpty \/ PutOverKey \/ PutSwap \/ PutPass

----------------------------------------------------------------------------
Remove(k) ==
    /\ pc = "idle"
    /\ pc' = "find"
    /\ target' = k
    /\ index' = home[k]
    /\ UNCHANGED <<kvps, size, home, to_insert, i, fallback>>

\* Turn n of the loop that shifts back to the bucket from; after the last one remove()
\* returns: no stop bucket was found, nothing is cleared and nothing counted.
ShiftTurn(n, from) ==
    IF n < Capacity
    THEN pc' = "shift" /\ i' = n /\ index' = from /\ UNCHANGED <<to_insert, target>>
    ELSE Return

\* The search begins one bucket behind home and comes to home last.  When the
\* key is nowhere it ends where it began, at the bucket after home.
FindStep ==
    /\ pc = "find"
    /\ LET next == (index + 1) % Capacity
       IN  IF kvps[next].key = target \/ i = Capacity
           THEN ShiftTurn(1, next)
           ELSE /\ i' = i + 1
                /\ index' = next
                /\ UNCHANGED <<pc, to_insert, target>>
    /\ UNCHANGED <<kvps, size, home, fallback>>

\* The bucket to be filled and the one after it.
Hole == (index + i - 1) % Capacity
AfterHole == (index + i) % Capacity

Stops(b) == kvps[b].key = Empty \/ kvps[b].dib = 0

\* MUTANT of ShiftStop: the number of pairs is not kept.
ShiftStopKeepsSize ==
    /\ pc = "shift"
    /\ Stops(AfterHole)
    /\ kvps' = [kvps EXCEPT ![Hole] = Vacant]
    /\ Return
    /\ UNCHANGED <<size, home, fallback>>

ShiftStop ==
    /\ pc = "shift"
    /\ Stops(AfterHole)
    /\ kvps' = [kvps EXCEPT ![Hole] = Vacant]
    /\ size' = size - 1
    /\ Return
    /\ UNCHANGED <<home, fallback>>

\* MUTANT of ShiftBack: the shifted pair keeps its distance.
ShiftBackKeepsDib ==
    /\ pc = "shift"
    /\ ~Stops(AfterHole)
    /\ kvps' = [kvps EXCEPT ![Hole] = kvps[AfterHole]]
    /\ ShiftTurn(i + 1, index)
    /\ UNCHANGED <<size, home, fallback>>

ShiftBack ==
    /\ pc = "shift"
    /\ ~Stops(AfterHole)
    /\ LET nearer == [kvps[AfterHole] EXCEPT !.dib = @ - 1]
       IN  kvps' = [kvps EXCEPT ![AfterHole] = nearer, ![Hole] = nearer]
    /\ ShiftTurn(i + 1, index)
    /\ UNCHANGED <<size, home, fallback>>

RemoveStep == FindStep \/ ShiftStop \/ ShiftBack

----------------------------------------------------------------------------
\* get() looks at every bucket from home round to home, and stops at the first
\* one that holds the key.
Get(k) ==
    IF k \in Stored
    THEN LET at(d) == (home[k] + d) % Capacity
             d == CHOOSE n \in 0 .. Capacity - 1 :
                      /\ kvps[at(n)].key = k
                      /\ \A m \in 0 .. n - 1 : kvps[at(m)].key # k
         IN  kvps[at(d)].value
    ELSE fallback

\* get() returns a reference, and the caller writes through it.
Assign(k, v) ==
    /\ pc = "idle"
    /\ IF k \in Stored
       THEN /\ \E b \in Occupied :
                   /\ kvps[b].key = k
                   /\ kvps' = [kvps EXCEPT ![b].value = v]
            /\ UNCHANGED fallback
       ELSE fallback' = v /\ UNCHANGED kvps
    /\ UNCHANGED <<size, home, pc, to_insert, i, index, target>>

\* begin() stands on the first pair, and on bucket 0 when there is none.
FirstVisited ==
    IF Occupied = {} THEN 0
    ELSE CHOOSE b \in Occupied : \A a \in Occupied : b <= a

\* The buckets that a range-based for loop visits: ++ goes to the next pair.
Visited == {FirstVisited} \cup {b \in Occupied : b > FirstVisited}

----------------------------------------------------------------------------
\* A removal that comes to a stop bucket: the key is there, and some other
\* bucket is empty or holds a pair at home.
CanRemove(k) ==
    /\ k \in Stored
    /\ \E b \in Buckets : kvps[b].key # k /\ Stops(b)

\* Callers that remove and assign only what is there, and never take the one
\* pair that sits at home out of a full map.
CarefulNext ==
    \/ \E k \in Keys :
        \/ \E v \in Values : Put(k, v) \/ (k \in Stored /\ Assign(k, v))
        \/ CanRemove(k) /\ Remove(k)
    \/ PutRefused
    \/ PutStep
    \/ RemoveStep

CarefulSpec == Init /\ [][CarefulNext]_vars

\* Callers that also write through what get() returns for an absent key.
WritingNext ==
    \/ CarefulNext
    \/ \E k \in Keys, v \in Values : Assign(k, v)

WritingSpec == Init /\ [][WritingNext]_vars

----------------------------------------------------------------------------
(* Properties.                                                             *)

\* The buckets hold pairs, and the locals of the loop that runs stay in range.
TypeOK ==
    /\ kvps \in [Buckets -> Pairs]
    /\ size \in 0 .. Capacity
    /\ home \in [Keys -> Buckets]
    /\ pc \in {"idle", "put", "find", "shift"}
    /\ to_insert \in Pairs
    /\ i \in 0 .. Capacity
    /\ index \in Buckets
    /\ target \in Keys \cup {Empty}
    /\ fallback \in Values \cup {Default}

\* Between two calls no key is in two buckets: put() meets a key that is there
\* before any exchange can take the pair out of its hand.
OneBucketPerKey ==
    pc = "idle" =>
        \A a, b \in Occupied : kvps[a].key = kvps[b].key => a = b

\* Before and after every turn of the loops len() is the number of buckets in
\* use, the one that remove() is about to clear among them: no exchange of pairs
\* and no shift counts a pair twice or leaves one out.
LenIsExact == size = Cardinality(Occupied)

\* Between two calls each dib is the distance from home, and the bucket before
\* a pair that is not at home holds a pair that is at most one step nearer:
\* the order in which put() may stop looking at a richer bucket.
RobinHood ==
    pc = "idle" =>
        \A b \in Occupied :
            LET before == (b - 1) % Capacity
            IN  /\ (home[kvps[b].key] + kvps[b].dib) % Capacity = b
                /\ kvps[b].dib < Capacity
                /\ kvps[b].dib > 0 =>
                       /\ before \in Occupied
                       /\ kvps[before].dib + 1 >= kvps[b].dib

\* The pairs of the map while a call runs: put() has one more in hand, and
\* remove() has a hole whose bucket still holds what was there before.
Settled == Occupied \ (IF pc = "shift" THEN {Hole} ELSE {})

InHand == IF pc = "put" THEN {to_insert.key} ELSE {}

Contents ==
    [k \in {kvps[b].key : b \in Settled} \cup InHand |->
        IF k \in InHand
        THEN to_insert.value
        ELSE kvps[CHOOSE b \in Settled : kvps[b].key = k].value]

\* The buckets implement a map: put() takes effect as it begins, remove() as it
\* finds the key, and no other turn of a loop loses, invents or changes a pair.
Map == INSTANCE AbstractMap WITH
    map      <- Contents,
    removing <- IF pc = "find" THEN {target} ELSE {},
    ending   <- pc \in {"put", "shift"}

MapSpec == Map!Spec

\* Between two calls what is read is what is stored: get() returns the value of a
\* key that is there and else, as "@return default constructed value on fail" says
\* (hashmap.h:127-129), the default; and a loop, which "Supports range-based for
\* loop" is about (hashmap.h:11), visits each pair and nothing else.  Both fail:
\* the loop in an empty map, at hashmap.h:59, and get() of an absent key once a
\* caller has written through what it returned before, at hashmap.h:217.
ReadsAreExact ==
    pc = "idle" =>
        /\ \A k \in Keys : Get(k) = IF k \in Stored THEN Contents[k] ELSE Default
        /\ Visited = Occupied
=============================================================================
