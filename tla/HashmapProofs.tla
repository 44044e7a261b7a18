---------------------------- MODULE HashmapProofs ----------------------------
(***************************************************************************)
(* Proofs about Hashmap, for any keys, any hash function and any capacity. *)
(* RobinHood relates a pair to the bucket before it.  What the loops rely  *)
(* on goes farther: Chain relates it to every bucket back to its home.     *)
(***************************************************************************)
EXTENDS Hashmap, FiniteSetTheorems, TLAPS

\* Bucket x, counted on past the end of the array, and bucket b - j, counted
\* back past its beginning.
At(x) == IF x < Capacity THEN x ELSE x - Capacity
Back(b, j) == IF j <= b THEN b - j ELSE b - j + Capacity

\* A pair at distance d from home may be in bucket b: all buckets back to its
\* home are taken, by pairs that have come as far.
Chain(b, d) ==
    \A j \in 1 .. d :
        /\ Back(b, j) \in Occupied
        /\ Back(b, j) \in Settled => kvps[Back(b, j)].dib + j >= d

PairsInPlace ==
    \A b \in Settled :
        /\ kvps[b].dib < Capacity
        /\ Back(b, kvps[b].dib) = home[kvps[b].key]
        /\ Chain(b, kvps[b].dib)

OneBucketEach ==
    \A a, b \in Settled : kvps[a].key = kvps[b].key => a = b

\* put(): the pair in hand may be put down here.  It is the pair that the call
\* began with, whose key may still come, or its key is nowhere in the buckets.
\* A bucket ahead is empty.
HandInPlace ==
    pc = "put" =>
        /\ i < Capacity
        /\ to_insert.key \in Keys
        /\ to_insert.dib <= i
        /\ Back(At(index + i), to_insert.dib) = home[to_insert.key]
        /\ Chain(At(index + i), to_insert.dib)
        /\ \/ to_insert.key \notin Stored
           \/ /\ to_insert.dib = i
              /\ \A n \in 0 .. i - 1 : kvps[At(index + n)].key # to_insert.key
        /\ \E n \in i .. Capacity - 1 : At(index + n) \notin Occupied

\* remove(): the key is ahead, and so will be a bucket to stop at.
TargetAhead ==
    pc = "find" =>
        /\ i < Capacity
        /\ target \in Keys
        /\ \E n \in 1 .. Capacity - i : kvps[At(index + n)].key = target
        /\ \E b \in Buckets : kvps[b].key # target /\ Stops(b)

StopAhead ==
    pc = "shift" =>
        /\ i \in 1 .. Capacity - 1
        /\ Hole \in Occupied
        /\ \E n \in i .. Capacity - 1 : Stops(At(index + n))

IdleAtRest == pc = "idle" => i = 0

IInv ==
    /\ TypeOK
    /\ IdleAtRest
    /\ PairsInPlace
    /\ OneBucketEach
    /\ LenIsExact
    /\ HandInPlace
    /\ TargetAhead
    /\ StopAhead

----------------------------------------------------------------------------
(* Places.                                                                 *)

LEMMA Rounds ==
    /\ \A x \in 0 .. 2 * Capacity - 1 : x % Capacity = At(x) /\ At(x) \in Buckets
    /\ \A b \in Buckets : (b - 1) % Capacity = Back(b, 1)
BY CapacityAssumption DEF At, Back, Buckets

\* Going back j of n steps leaves n - j, and going back is one to one.
LEMMA Backs ==
    ASSUME NEW b \in Buckets, NEW j \in 0 .. Capacity - 1
    PROVE  /\ Back(b, j) \in Buckets
           /\ At(Back(b, j) + j) = b
           /\ \A n \in 0 .. Capacity - 1 :
                  /\ Back(b, n) = Back(b, j) => n = j
                  /\ n <= j => Back(Back(b, n), j - n) = Back(b, j)
BY CapacityAssumption DEF At, Back, Buckets

\* From the bucket after b, one step more leads back to the same place.
LEMMA BackFromNext ==
    ASSUME NEW b \in Buckets, NEW j \in 0 .. Capacity - 2
    PROVE  /\ At(b + 1) \in Buckets
           /\ Back(At(b + 1), j + 1) = Back(b, j)
BY CapacityAssumption DEF At, Back, Buckets

\* Bucket n after home, and home n before it.
LEMMA BackToStart ==
    ASSUME NEW b \in Buckets, NEW n \in 0 .. Capacity - 1
    PROVE  /\ At(b + n) \in Buckets
           /\ Back(At(b + n), n) = b
           /\ n + 1 < Capacity => At(b + n + 1) = At(At(b + n) + 1)
           /\ \A m \in 0 .. Capacity - 1 : At(b + m) = At(b + n) => m = n
BY CapacityAssumption DEF At, Back, Buckets

\* Every bucket is some number of steps ahead.
LEMMA Ahead ==
    ASSUME NEW b \in Buckets, NEW c \in Buckets
    PROVE  \E n \in 0 .. Capacity - 1 : At(b + n) = c /\ Back(c, n) = b
<1>1. CASE b <= c
    <2>1. c - b \in 0 .. Capacity - 1 /\ At(b + (c - b)) = c /\ Back(c, c - b) = b
        BY <1>1, CapacityAssumption DEF At, Back, Buckets
    <2> QED
        BY <2>1
<1>2. CASE b > c
    <2>1. /\ c - b + Capacity \in 0 .. Capacity - 1
          /\ At(b + (c - b + Capacity)) = c
          /\ Back(c, c - b + Capacity) = b
        BY <1>2, CapacityAssumption DEF At, Back, Buckets
    <2> QED
        BY <2>1
<1> QED
    BY <1>1, <1>2 DEF Buckets

----------------------------------------------------------------------------
(* put().                                                                  *)

LEMMA Probing ==
    ASSUME IInv, pc = "put"
    PROVE  /\ At(index + i) \in Buckets
           /\ Probed = kvps[At(index + i)]
           /\ \A pair : FillBucket(pair) <=> kvps' = [kvps EXCEPT ![At(index + i)] = pair]
           /\ Settled = Occupied
           /\ to_insert \in Pairs /\ to_insert.key # Empty
           /\ to_insert.dib \in 0 .. i /\ i \in 0 .. Capacity - 1
<1>1. index + i \in 0 .. 2 * Capacity - 1
    BY CapacityAssumption DEF IInv, TypeOK, HandInPlace, Buckets
<1>2. (index + i) % Capacity = At(index + i) /\ At(index + i) \in Buckets
    BY <1>1, Rounds
<1>3. Settled = Occupied
    BY DEF Settled
<1>4. to_insert \in Pairs /\ to_insert.key # Empty
    BY EmptyAssumption DEF IInv, TypeOK, HandInPlace
<1>5. to_insert.dib \in 0 .. i /\ i \in 0 .. Capacity - 1
    BY <1>4, CapacityAssumption DEF IInv, TypeOK, HandInPlace, Pairs
<1> QED
    BY <1>2, <1>3, <1>4, <1>5 DEF Probed, FillBucket

\* Before put() comes to the key in its hand it meets no empty bucket, and no
\* pair that is nearer to its home.
LEMMA KeyIsMetFirst ==
    ASSUME IInv, pc = "put",
           to_insert.key \in Stored,
           kvps[At(index + i)].key # to_insert.key
    PROVE  /\ At(index + i) \in Occupied
           /\ kvps[At(index + i)].dib >= to_insert.dib
<1> DEFINE p == At(index + i)
<1>1. PICK b \in Occupied : kvps[b].key = to_insert.key
    BY DEF Stored
<1>2. /\ to_insert.dib = i
      /\ \A n \in 0 .. i - 1 : kvps[At(index + n)].key # to_insert.key
    BY DEF IInv, HandInPlace
<1>3. /\ p \in Buckets /\ Settled = Occupied /\ i \in 0 .. Capacity - 1
      /\ index \in Buckets /\ b \in Buckets /\ kvps[b] \in Pairs
    BY Probing DEF IInv, TypeOK, Occupied
<1>4. Back(p, i) = index
    BY <1>3, BackToStart
<1>5. /\ kvps[b].dib \in 0 .. Capacity - 1 /\ Back(b, kvps[b].dib) = index
      /\ Chain(b, kvps[b].dib)
    <2>1. home[to_insert.key] = index
        BY <1>2, <1>4 DEF IInv, HandInPlace
    <2>2. kvps[b].dib \in Nat
        BY <1>3 DEF Pairs
    <2> QED
        BY <1>1, <1>3, <2>1, <2>2, CapacityAssumption DEF IInv, PairsInPlace
<1> DEFINE d == kvps[b].dib
<1>6. At(index + d) = b
    BY <1>3, <1>5, Backs
<1>7. d > i
    <2>1. d # i
        BY <1>1, <1>6
    <2>2. ~(d < i)
        BY <1>1, <1>2, <1>3, <1>5, <1>6
    <2> QED
        BY <1>3, <1>5, <2>1, <2>2, CapacityAssumption
<1>8. Back(b, d - i) = p
    <2>1. d - i \in 0 .. Capacity - 1 /\ d - i <= d
        BY <1>3, <1>5, <1>7, CapacityAssumption
    <2>2. Back(b, d - i) \in Buckets /\ Back(Back(b, d - i), d - (d - i)) = Back(b, d)
        BY <1>3, <1>5, <2>1, Backs
    <2>3. Back(Back(b, d - i), i) = index
        BY <1>3, <1>5, <2>2
    <2> QED
        BY <1>3, <2>2, <2>3, Backs
<1>9. d - i \in 1 .. d
    BY <1>3, <1>5, <1>7, CapacityAssumption
<1>10. p \in Occupied /\ kvps[p].dib + (d - i) >= d
    BY <1>3, <1>5, <1>8, <1>9 DEF Chain
<1> QED
    BY <1>2, <1>3, <1>5, <1>10 DEF IInv, TypeOK, Pairs

\* A turn that changes no key and no distance leaves every pair in its place.
LEMMA SamePlaces ==
    ASSUME TypeOK, PairsInPlace, OneBucketEach,
           kvps' \in [Buckets -> Pairs],
           \A b \in Buckets : kvps'[b].key = kvps[b].key /\ kvps'[b].dib = kvps[b].dib,
           Settled' = Settled,
           home' = home
    PROVE  PairsInPlace' /\ OneBucketEach' /\ Occupied' = Occupied /\ Stored' = Stored
<1>1. Occupied' = Occupied
    BY DEF Occupied
<1>2. Stored' = Stored
    BY <1>1 DEF Stored, Occupied
<1>3. Settled \subseteq Buckets
    BY DEF Settled, Occupied
<1>4. OneBucketEach'
    BY <1>3 DEF OneBucketEach
<1>5. ASSUME NEW b \in Settled
      PROVE  kvps'[b].dib < Capacity /\ Back(b, kvps'[b].dib) = home[kvps'[b].key]
    BY <1>3, <1>5 DEF PairsInPlace
<1>6. ASSUME NEW b \in Settled, NEW j \in 1 .. kvps'[b].dib
      PROVE  /\ Back(b, j) \in Occupied'
             /\ Back(b, j) \in Settled => kvps'[Back(b, j)].dib + j >= kvps'[b].dib
    BY <1>1, <1>3 DEF PairsInPlace, Chain
<1> QED
    BY <1>1, <1>2, <1>4, <1>5, <1>6 DEF PairsInPlace, Chain

\* The pair in hand is put down in an empty bucket, or over one that has not
\* come as far.
LEMMA PuttingDown ==
    ASSUME IInv, pc = "put", pc' # "shift",
           kvps' = [kvps EXCEPT ![At(index + i)] = to_insert],
           home' = home,
           \/ Probed.key = Empty
           \/ Probed.key # to_insert.key /\ Probed.dib < to_insert.dib
    PROVE  /\ to_insert.key \notin Stored
           /\ PairsInPlace'
           /\ OneBucketEach'
           /\ Occupied' = Occupied \cup {At(index + i)}
           /\ kvps' \in [Buckets -> Pairs]
<1> DEFINE p == At(index + i)
<1>1. /\ p \in Buckets /\ Probed = kvps[p] /\ Settled = Occupied
      /\ to_insert \in Pairs /\ to_insert.key # Empty
      /\ to_insert.dib \in 0 .. i /\ i \in 0 .. Capacity - 1
    BY Probing
<1>2. /\ kvps \in [Buckets -> Pairs] /\ kvps' \in [Buckets -> Pairs]
      /\ kvps'[p] = to_insert
      /\ \A b \in Buckets \ {p} : kvps'[b] = kvps[b]
    BY <1>1 DEF IInv, TypeOK
<1>3. Occupied' = Occupied \cup {p}
    BY <1>1, <1>2 DEF Occupied
<1>4. Settled' = Occupied'
    BY DEF Settled
<1>5. \A b \in Occupied : b \in Buckets /\ kvps[b].dib \in Nat
    BY <1>2 DEF Occupied, Pairs
<1>6. to_insert.key \notin Stored
    <2> SUFFICES ASSUME to_insert.key \in Stored PROVE FALSE
        OBVIOUS
    <2>1. kvps[p].key # to_insert.key
        BY <1>1
    <2>2. p \in Occupied /\ kvps[p].dib >= to_insert.dib
        BY <2>1, KeyIsMetFirst
    <2> QED
        BY <1>1, <1>5, <2>2, CapacityAssumption DEF Occupied
<1>7. OneBucketEach'
    BY <1>1, <1>2, <1>3, <1>4, <1>5, <1>6 DEF OneBucketEach, IInv, Stored
<1>8. p \in Occupied => kvps[p].dib < to_insert.dib
    BY <1>1 DEF Occupied
<1>9. ASSUME NEW b \in Occupied \ {p}, NEW j \in 1 .. kvps[b].dib
      PROVE  Back(b, j) \in Occupied' /\ kvps'[Back(b, j)].dib + j >= kvps[b].dib
    <2>1. Back(b, j) \in Occupied /\ kvps[Back(b, j)].dib + j >= kvps[b].dib
        BY <1>1 DEF IInv, PairsInPlace, Chain
    <2>2. CASE Back(b, j) = p
        BY <1>1, <1>2, <1>3, <1>5, <1>8, <2>1, <2>2, CapacityAssumption
    <2>3. CASE Back(b, j) # p
        BY <1>2, <1>3, <1>5, <2>1, <2>3
    <2> QED
        BY <2>2, <2>3
<1>10. ASSUME NEW j \in 1 .. to_insert.dib
       PROVE  Back(p, j) \in Occupied' /\ kvps'[Back(p, j)].dib + j >= to_insert.dib
    <2>1. Back(p, j) \in Occupied /\ kvps[Back(p, j)].dib + j >= to_insert.dib
        BY <1>1 DEF IInv, HandInPlace, Chain
    <2>2. Back(p, j) # p
        <3>1. j \in 0 .. Capacity - 1 /\ 0 \in 0 .. Capacity - 1 /\ j # 0
            BY <1>1, CapacityAssumption
        <3>2. Back(p, 0) = p
            BY <1>1 DEF Back, Buckets
        <3> QED
            BY <1>1, <3>1, <3>2, Backs
    <2> QED
        BY <1>2, <1>3, <1>5, <2>1, <2>2
<1>11. ASSUME NEW b \in Occupied'
       PROVE  /\ kvps'[b].dib < Capacity
              /\ Back(b, kvps'[b].dib) = home[kvps'[b].key]
              /\ Chain(b, kvps[b].dib)'
    <2>1. CASE b = p
        <3>1. to_insert.dib < Capacity
            BY <1>1, CapacityAssumption
        <3> QED
            BY <1>1, <1>2, <1>3, <1>10, <2>1, <3>1 DEF IInv, HandInPlace, Chain
    <2>2. CASE b # p
        BY <1>1, <1>2, <1>3, <1>5, <1>9, <2>2 DEF IInv, PairsInPlace, Chain
    <2> QED
        BY <2>1, <2>2
<1>12. PairsInPlace'
    BY <1>4, <1>11 DEF PairsInPlace
<1> QED
    BY <1>2, <1>3, <1>6, <1>7, <1>12

LEMMA BucketsAreFinite ==
    ASSUME NEW S \in SUBSET Buckets
    PROVE  /\ IsFiniteSet(S)
           /\ Cardinality(S) \in 0 .. Capacity
           /\ Cardinality(S) = Capacity => S = Buckets
           /\ \A b \in S : Cardinality(S \ {b}) = Cardinality(S) - 1
           /\ \A b \in Buckets \ S : Cardinality(S \cup {b}) = Cardinality(S) + 1
<1>1. IsFiniteSet(Buckets) /\ Cardinality(Buckets) = Capacity
    BY FS_Interval, CapacityAssumption DEF Buckets
<1>2. /\ IsFiniteSet(S) /\ Cardinality(S) <= Capacity
      /\ Cardinality(S) = Capacity => S = Buckets
    BY <1>1, FS_Subset
<1>3. Cardinality(S) \in Nat
    BY <1>2, FS_CardinalityType
<1>4. \A b \in S : Cardinality(S \ {b}) = Cardinality(S) - 1
    BY <1>2, FS_RemoveElement
<1>5. \A b \in Buckets \ S : Cardinality(S \cup {b}) = Cardinality(S) + 1
    BY <1>2, FS_AddElement
<1> QED
    BY <1>2, <1>3, <1>4, <1>5, CapacityAssumption

\* A call has returned: nothing is asked of its locals.
LEMMA Returned ==
    ASSUME TypeOK, Return,
           kvps' \in [Buckets -> Pairs], size' \in 0 .. Capacity,
           home' = home, fallback' \in Values \cup {Default}
    PROVE  TypeOK' /\ HandInPlace' /\ TargetAhead' /\ StopAhead' /\ IdleAtRest'
           /\ Settled' = Occupied'
BY CapacityAssumption
   DEF TypeOK, Return, Pairs, Vacant, Buckets, HandInPlace, TargetAhead, StopAhead, IdleAtRest,
       Settled

LEMMA PutIntoEmptyKeeps ==
    ASSUME IInv, PutIntoEmpty
    PROVE  IInv'
<1> DEFINE p == At(index + i)
<1>1. /\ pc = "put" /\ pc' = "idle" /\ Probed.key = Empty
      /\ size' = size + 1 /\ home' = home /\ fallback' = fallback /\ Return
      /\ FillBucket(to_insert)
    BY DEF PutIntoEmpty, Return
<1>2. p \in Buckets /\ Probed = kvps[p] /\ kvps' = [kvps EXCEPT ![p] = to_insert]
    BY <1>1, Probing
<1>3. /\ PairsInPlace' /\ OneBucketEach' /\ kvps' \in [Buckets -> Pairs]
      /\ Occupied' = Occupied \cup {p}
    BY <1>1, <1>2, PuttingDown
<1>4. Occupied \in SUBSET Buckets /\ Occupied' \in SUBSET Buckets /\ p \in Buckets \ Occupied
    BY <1>1, <1>2 DEF Occupied
<1>5. Cardinality(Occupied') = size' /\ size' \in 0 .. Capacity
    BY <1>1, <1>3, <1>4, BucketsAreFinite DEF IInv, LenIsExact
<1>6. TypeOK' /\ HandInPlace' /\ TargetAhead' /\ StopAhead' /\ IdleAtRest'
    BY <1>1, <1>3, <1>5, Returned DEF IInv, TypeOK
<1> QED
    BY <1>3, <1>5, <1>6 DEF IInv, LenIsExact

LEMMA PutOverKeyKeeps ==
    ASSUME IInv, PutOverKey
    PROVE  IInv'
<1> DEFINE p == At(index + i)
<1>1. /\ pc = "put" /\ pc' = "idle" /\ Probed.key = to_insert.key
      /\ size' = size /\ home' = home /\ fallback' = fallback /\ Return
      /\ FillBucket(to_insert)
    BY DEF PutOverKey, Return
<1>2. /\ p \in Buckets /\ Probed = kvps[p] /\ kvps' = [kvps EXCEPT ![p] = to_insert]
      /\ Settled = Occupied /\ to_insert \in Pairs /\ to_insert.key # Empty
      /\ to_insert.dib \in 0 .. i /\ i \in 0 .. Capacity - 1
    BY <1>1, Probing
<1>3. p \in Occupied /\ to_insert.key \in Stored
    BY <1>1, <1>2 DEF Occupied, Stored
<1>4. kvps[p].dib = to_insert.dib
    <2>1. kvps[p].dib \in Nat /\ kvps[p].dib < Capacity
        BY <1>2, <1>3 DEF IInv, TypeOK, Pairs, PairsInPlace
    <2>2. Back(p, kvps[p].dib) = Back(p, to_insert.dib)
        BY <1>1, <1>2, <1>3 DEF IInv, PairsInPlace, HandInPlace
    <2>3. /\ kvps[p].dib \in 0 .. Capacity - 1
          /\ to_insert.dib \in 0 .. Capacity - 1
        BY <1>2, <2>1, CapacityAssumption
    <2> QED
        BY <1>2, <2>2, <2>3, Backs
<1>5. kvps' \in [Buckets -> Pairs]
    BY <1>2 DEF IInv, TypeOK
<1>6. TypeOK' /\ HandInPlace' /\ TargetAhead' /\ StopAhead' /\ IdleAtRest' /\ Settled' = Occupied'
    BY <1>1, <1>5, Returned DEF IInv, TypeOK
<1>7. \A b \in Buckets : kvps'[b].key = kvps[b].key /\ kvps'[b].dib = kvps[b].dib
    BY <1>1, <1>2, <1>4 DEF IInv, TypeOK
<1>8. Occupied' = Occupied
    BY <1>7 DEF Occupied
<1>9. PairsInPlace' /\ OneBucketEach'
    BY <1>1, <1>2, <1>5, <1>6, <1>7, <1>8, SamePlaces DEF IInv
<1> QED
    BY <1>1, <1>6, <1>8, <1>9 DEF IInv, LenIsExact

\* The loop goes on with a pair that has come one bucket farther: there is one
\* more turn, for the empty bucket is still ahead.
LEMMA GoingOn ==
    ASSUME IInv, pc = "put", NEW pair \in Pairs, Onward(pair),
           LET p == At(index + i) IN
               /\ p \in Occupied
               /\ Occupied' = Occupied
               /\ kvps' \in [Buckets -> Pairs]
               /\ pair.key \in Keys
               /\ pair.dib <= i
               /\ Back(p, pair.dib) = home[pair.key]
               /\ kvps'[p].dib >= pair.dib
               /\ \A j \in 1 .. pair.dib :
                      Back(p, j) \in Occupied /\ kvps'[Back(p, j)].dib + j >= pair.dib
               /\ \/ pair.key \notin Stored'
                  \/ /\ pair.dib = i /\ kvps' = kvps
                     /\ kvps[p].key # pair.key
                     /\ pair = to_insert,
           home' = home, size' = size, fallback' = fallback
    PROVE  pc' = "put" /\ TypeOK' /\ HandInPlace' /\ TargetAhead' /\ StopAhead' /\ IdleAtRest'
<1> DEFINE p == At(index + i)
<1>1. /\ p \in Buckets /\ i \in 0 .. Capacity - 1 /\ index \in Buckets
      /\ pair.dib \in 0 .. i
    BY Probing DEF IInv, TypeOK, Pairs
<1>2. PICK n \in i .. Capacity - 1 : At(index + n) \notin Occupied
    BY DEF IInv, HandInPlace
<1>3. n \in i + 1 .. Capacity - 1
    BY <1>1, <1>2, CapacityAssumption
<1>4. i + 1 < Capacity /\ i + 1 \in 0 .. Capacity - 1
    BY <1>1, <1>3, CapacityAssumption
<1>5. /\ pc' = "put" /\ index' = index /\ target' = target
      /\ i' = i + 1 /\ to_insert' = Farther(pair)
    BY <1>4 DEF Onward
<1>6. /\ to_insert' \in Pairs /\ to_insert'.key = pair.key
      /\ to_insert'.dib = pair.dib + 1
    BY <1>5 DEF Farther, Pairs
<1>7. TypeOK'
    BY <1>1, <1>4, <1>5, <1>6, CapacityAssumption DEF IInv, TypeOK
<1>8. At(index' + i') = At(p + 1) /\ At(p + 1) \in Buckets
    <2>1. index + (i + 1) = index + i + 1
        BY <1>1 DEF Buckets
    <2> QED
        BY <1>1, <1>4, <1>5, <2>1, BackToStart
<1>9. ASSUME NEW d \in 0 .. i PROVE Back(At(p + 1), d + 1) = Back(p, d)
    BY <1>1, <1>4, BackFromNext, CapacityAssumption
<1>10. Settled' = Occupied
    BY <1>5 DEF Settled
<1>11. ASSUME NEW j \in 1 .. pair.dib + 1
       PROVE  /\ Back(At(p + 1), j) \in Occupied
              /\ kvps'[Back(At(p + 1), j)].dib + j >= pair.dib + 1
    <2>1. j - 1 \in 0 .. i /\ Back(At(p + 1), j) = Back(p, j - 1)
        BY <1>1, <1>9
    <2>2. CASE j = 1
        <3>1. Back(p, 0) = p
            BY <1>1 DEF Back, Buckets
        <3>2. kvps'[p].dib \in Nat
            BY <1>1 DEF Pairs
        <3> QED
            BY <1>1, <2>1, <2>2, <3>1, <3>2
    <2>3. CASE j # 1
        <3>1. j - 1 \in 1 .. pair.dib
            BY <1>1, <2>3
        <3>2. /\ Back(p, j - 1) \in Occupied
              /\ kvps'[Back(p, j - 1)].dib + (j - 1) >= pair.dib
            BY <3>1
        <3>3. kvps'[Back(p, j - 1)].dib \in Nat
            BY <3>2 DEF Occupied, Pairs
        <3> QED
            BY <1>1, <2>1, <3>1, <3>2, <3>3
    <2> QED
        BY <2>2, <2>3
<1>12. Chain(At(index + i), to_insert.dib)'
    BY <1>6, <1>8, <1>10, <1>11 DEF Chain
<1>13. \/ to_insert'.key \notin Stored'
       \/ /\ to_insert'.dib = i'
          /\ \A m \in 0 .. i' - 1 : kvps'[At(index' + m)].key # to_insert'.key
    <2>1. CASE pair.key \notin Stored'
        BY <1>6, <2>1
    <2>2. CASE pair.key \in Stored
        <3>1. SUFFICES ASSUME pair.dib = i, kvps' = kvps, pair = to_insert,
                              kvps[p].key # pair.key
                       PROVE  /\ to_insert'.dib = i'
                              /\ \A m \in 0 .. i' - 1 :
                                     kvps'[At(index' + m)].key # to_insert'.key
            BY <2>1
        <3>2. \A m \in 0 .. i - 1 : kvps[At(index + m)].key # pair.key
            BY <2>2, <3>1 DEF IInv, HandInPlace
        <3>3. \A m \in 0 .. i : m = i \/ m \in 0 .. i - 1
            BY <1>1
        <3>4. \A m \in 0 .. i : kvps[At(index + m)].key # pair.key
            BY <3>1, <3>2, <3>3
        <3> QED
            BY <1>1, <1>5, <1>6, <3>1, <3>4
    <2>3. CASE pair.key \notin Stored /\ kvps' = kvps
        BY <1>6, <2>3 DEF Stored, Occupied
    <2> QED
        BY <2>1, <2>2, <2>3
<1>14. \E m \in i' .. Capacity - 1 : At(index' + m) \notin Occupied'
    BY <1>2, <1>3, <1>5
<1>15. HandInPlace'
    BY <1>1, <1>4, <1>5, <1>6, <1>8, <1>9, <1>12, <1>13, <1>14, CapacityAssumption DEF HandInPlace
<1> QED
    BY <1>5, <1>7, <1>15 DEF TargetAhead, StopAhead, IdleAtRest

LEMMA PutSwapKeeps ==
    ASSUME IInv, PutSwap
    PROVE  IInv' /\ pc' = "put" /\ to_insert.key \notin Stored
<1> DEFINE p == At(index + i)
<1>1. /\ pc = "put" /\ Probed.key # Empty
      /\ Probed.key # to_insert.key /\ Probed.dib < to_insert.dib
      /\ Onward(Probed) /\ size' = size /\ home' = home /\ fallback' = fallback
      /\ FillBucket(to_insert)
    BY DEF PutSwap
<1>2. /\ p \in Buckets /\ Probed = kvps[p] /\ kvps' = [kvps EXCEPT ![p] = to_insert]
      /\ Settled = Occupied /\ to_insert \in Pairs
      /\ to_insert.dib \in 0 .. i /\ i \in 0 .. Capacity - 1
    BY <1>1, Probing
<1>3. pc' # "shift"
    BY <1>1 DEF Onward, Return
<1>4. /\ PairsInPlace' /\ OneBucketEach' /\ kvps' \in [Buckets -> Pairs]
      /\ Occupied' = Occupied \cup {p} /\ to_insert.key \notin Stored
    BY <1>1, <1>2, <1>3, PuttingDown
<1>5. p \in Occupied /\ Occupied' = Occupied
    BY <1>1, <1>2, <1>4 DEF Occupied
<1>6. /\ kvps[p] \in Pairs /\ kvps[p].key \in Keys
      /\ kvps[p].dib \in 0 .. i /\ kvps'[p] = to_insert
    BY <1>1, <1>2, CapacityAssumption DEF IInv, TypeOK, Pairs
<1>7. kvps[p].key \notin Stored'
    <2> SUFFICES ASSUME NEW b \in Occupied', kvps'[b].key = kvps[p].key PROVE FALSE
        BY DEF Stored
    <2>1. b # p
        BY <1>1, <1>2, <1>6
    <2> QED
        BY <1>2, <1>5, <2>1 DEF IInv, TypeOK, OneBucketEach, Occupied
<1>8. ASSUME NEW j \in 1 .. kvps[p].dib
      PROVE  Back(p, j) \in Occupied /\ kvps'[Back(p, j)].dib + j >= kvps[p].dib
    <2>1. Back(p, j) \in Occupied /\ kvps[Back(p, j)].dib + j >= kvps[p].dib
        BY <1>2, <1>5 DEF IInv, PairsInPlace, Chain
    <2>2. CASE Back(p, j) = p
        BY <1>1, <1>2, <1>6, <2>1, <2>2
    <2>3. CASE Back(p, j) # p
        BY <1>2, <2>1, <2>3 DEF IInv, TypeOK, Occupied
    <2> QED
        BY <2>2, <2>3
<1>9. kvps'[p].dib >= kvps[p].dib
    BY <1>1, <1>2, <1>6
<1>10. kvps[p].dib <= i /\ Back(p, kvps[p].dib) = home[kvps[p].key]
    BY <1>2, <1>5, <1>6 DEF IInv, PairsInPlace
<1>11. pc' = "put" /\ TypeOK' /\ HandInPlace' /\ TargetAhead' /\ StopAhead' /\ IdleAtRest'
    BY <1>1, <1>2, <1>4, <1>5, <1>6, <1>7, <1>8, <1>9, <1>10, GoingOn
<1> QED
    BY <1>1, <1>4, <1>5, <1>11 DEF IInv, LenIsExact

LEMMA PutPassKeeps ==
    ASSUME IInv, PutPass
    PROVE  IInv' /\ pc' = "put"
<1> DEFINE p == At(index + i)
<1>1. /\ pc = "put" /\ Probed.key # Empty
      /\ Probed.key # to_insert.key /\ Probed.dib >= to_insert.dib
      /\ Onward(to_insert)
      /\ size' = size /\ home' = home /\ fallback' = fallback /\ kvps' = kvps
    BY DEF PutPass
<1>2. /\ p \in Buckets /\ Probed = kvps[p] /\ Settled = Occupied
      /\ to_insert \in Pairs /\ to_insert.dib \in 0 .. i /\ i \in 0 .. Capacity - 1
    BY <1>1, Probing
<1>3. p \in Occupied /\ Occupied' = Occupied /\ Stored' = Stored
    BY <1>1, <1>2 DEF Occupied, Stored
<1>4. /\ kvps' \in [Buckets -> Pairs]
      /\ to_insert.key \in Keys
      /\ to_insert.dib <= i
      /\ Back(p, to_insert.dib) = home[to_insert.key]
      /\ Chain(p, to_insert.dib)
      /\ to_insert.key \in Stored => to_insert.dib = i
    BY <1>1, <1>2 DEF IInv, TypeOK, HandInPlace
<1>5. pc' = "put" /\ TypeOK' /\ HandInPlace' /\ TargetAhead' /\ StopAhead' /\ IdleAtRest'
    BY <1>1, <1>2, <1>3, <1>4, GoingOn DEF Chain
<1>6. Settled' = Settled
    BY <1>2, <1>3, <1>5 DEF Settled
<1>7. PairsInPlace' /\ OneBucketEach'
    BY <1>1, <1>4, <1>6, SamePlaces DEF IInv
<1> QED
    BY <1>1, <1>3, <1>5, <1>7 DEF IInv, LenIsExact

----------------------------------------------------------------------------
(* remove().                                                               *)

\* The key has been found in bucket c: it becomes the hole.
LEMMA Finding ==
    ASSUME IInv, pc = "find", NEW c \in Buckets,
           kvps[c].key = target, ShiftTurn(1, c),
           kvps' = kvps, size' = size, home' = home, fallback' = fallback
    PROVE  IInv' /\ pc' = "shift" /\ Hole' = c
<1>1. Settled = Occupied /\ target # Empty /\ c \in Occupied
    BY EmptyAssumption DEF IInv, TargetAhead, Settled, Occupied
<1>2. PICK b \in Buckets : kvps[b].key # target /\ Stops(b)
    BY DEF IInv, TargetAhead
<1>3. PICK n \in 0 .. Capacity - 1 : At(c + n) = b
    BY Ahead
<1>4. At(c + 0) = c
    BY CapacityAssumption DEF At, Buckets
<1>5. n \in 1 .. Capacity - 1
    BY <1>2, <1>3, <1>4, CapacityAssumption
<1>6. /\ pc' = "shift" /\ i' = 1 /\ index' = c
      /\ to_insert' = to_insert /\ target' = target
    BY <1>5, CapacityAssumption DEF ShiftTurn
<1>7. Hole' = c
    <2>1. c + 1 - 1 = c /\ c % Capacity = c
        BY CapacityAssumption DEF Buckets
    <2> QED
        BY <1>6, <2>1 DEF Hole
<1>8. Occupied' = Occupied /\ Settled' = Occupied \ {c}
    BY <1>6, <1>7 DEF Occupied, Settled
<1>9. OneBucketEach'
    BY <1>1, <1>8 DEF OneBucketEach, IInv
<1>10. PairsInPlace'
    BY <1>1, <1>8 DEF PairsInPlace, Chain, IInv
<1>11. StopAhead'
    BY <1>1, <1>2, <1>3, <1>5, <1>6, <1>7, <1>8, CapacityAssumption DEF StopAhead, Stops
<1>12. TypeOK'
    BY <1>6, CapacityAssumption DEF TypeOK, IInv
<1>13. HandInPlace' /\ TargetAhead'
    BY <1>6 DEF HandInPlace, TargetAhead
<1> QED
    BY <1>6, <1>7, <1>8, <1>9, <1>10, <1>11, <1>12, <1>13 DEF IInv, LenIsExact, IdleAtRest

LEMMA FindStepKeeps ==
    ASSUME IInv, FindStep
    PROVE  /\ IInv'
           /\ \/ pc' = "find"
              \/ pc' = "shift" /\ Hole' \in Occupied /\ kvps[Hole'].key = target
<1> DEFINE next == At(index + 1)
<1>1. /\ pc = "find" /\ index \in Buckets /\ i \in 0 .. Capacity - 1
      /\ kvps' = kvps /\ size' = size /\ home' = home /\ fallback' = fallback
    BY CapacityAssumption DEF FindStep, IInv, TypeOK, TargetAhead
<1>2. (index + 1) % Capacity = next /\ next \in Buckets
    BY <1>1, Rounds, CapacityAssumption DEF Buckets
<1>3. CASE kvps[next].key = target
    <2>1. ShiftTurn(1, next)
        BY <1>2, <1>3 DEF FindStep
    <2>2. target # Empty
        BY <1>1, EmptyAssumption DEF IInv, TargetAhead
    <2> QED
        BY <1>1, <1>2, <1>3, <2>1, <2>2, Finding DEF Occupied
<1>4. CASE kvps[next].key # target
    <2>1. PICK n \in 1 .. Capacity - i : kvps[At(index + n)].key = target
        BY <1>1 DEF IInv, TargetAhead
    <2>2. n # 1
        BY <1>4, <2>1
    <2>3. n - 1 \in 1 .. Capacity - (i + 1) /\ i + 1 < Capacity
        BY <1>1, <2>1, <2>2, CapacityAssumption
    <2>4. /\ i' = i + 1 /\ index' = next
          /\ pc' = pc /\ to_insert' = to_insert /\ target' = target
        BY <1>1, <1>2, <1>4, CapacityAssumption DEF FindStep
    <2>5. At(next + (n - 1)) = At(index + n)
        BY <1>1, <2>1, <2>2, CapacityAssumption DEF At, Buckets
    <2>6. TargetAhead'
        BY <1>1, <2>1, <2>3, <2>4, <2>5 DEF IInv, TargetAhead, Stops
    <2>7. Settled' = Settled /\ Occupied' = Occupied
        BY <1>1, <2>4 DEF Settled, Occupied
    <2>8. TypeOK'
        BY <1>1, <1>2, <2>3, <2>4, CapacityAssumption DEF IInv, TypeOK
    <2>9. PairsInPlace' /\ OneBucketEach'
        BY <1>1, <2>7, SamePlaces DEF IInv, TypeOK
    <2>10. HandInPlace' /\ StopAhead'
        BY <1>1, <2>4 DEF HandInPlace, StopAhead
    <2> QED
        BY <1>1, <2>4, <2>6, <2>7, <2>8, <2>9, <2>10
           DEF IInv, LenIsExact, IdleAtRest
<1> QED
    BY <1>3, <1>4

\* The hole and the bucket after it.
LEMMA Shifting ==
    ASSUME IInv, pc = "shift"
    PROVE  /\ Hole \in Occupied /\ Hole \in Buckets
           /\ Hole = At(index + (i - 1)) /\ AfterHole = At(index + i)
           /\ AfterHole \in Buckets /\ AfterHole # Hole
           /\ i \in 1 .. Capacity - 1 /\ index \in Buckets
           /\ \A d \in 0 .. Capacity - 2 : Back(AfterHole, d + 1) = Back(Hole, d)
<1>1. i \in 1 .. Capacity - 1 /\ index \in Buckets /\ Hole \in Occupied
    BY DEF IInv, TypeOK, StopAhead
<1>2. /\ index + i \in 0 .. 2 * Capacity - 1
      /\ index + i - 1 \in 0 .. 2 * Capacity - 1
      /\ index + (i - 1) = index + i - 1
    BY <1>1, CapacityAssumption DEF Buckets
<1>3. Hole = At(index + (i - 1)) /\ AfterHole = At(index + i) /\ AfterHole \in Buckets
    BY <1>2, Rounds DEF Hole, AfterHole
<1>4. i - 1 \in 0 .. Capacity - 1 /\ i \in 0 .. Capacity - 1 /\ i - 1 # i
    BY <1>1, CapacityAssumption
<1>5. AfterHole # Hole
    BY <1>1, <1>3, <1>4, BackToStart
<1>6. AfterHole = At(Hole + 1)
    <2>1. (i - 1) + 1 < Capacity /\ index + (i - 1) + 1 = index + i
        BY <1>1, CapacityAssumption DEF Buckets
    <2> QED
        BY <1>1, <1>3, <1>4, <2>1, BackToStart
<1>7. Hole \in Buckets
    BY <1>1 DEF Occupied
<1> QED
    BY <1>1, <1>3, <1>5, <1>6, <1>7, BackFromNext

LEMMA ShiftStopKeeps ==
    ASSUME IInv, ShiftStop
    PROVE  IInv' /\ Settled' = Settled
<1>1. /\ pc = "shift" /\ Stops(AfterHole) /\ Return
      /\ kvps' = [kvps EXCEPT ![Hole] = Vacant]
      /\ size' = size - 1 /\ home' = home /\ fallback' = fallback
    BY DEF ShiftStop
<1>2. /\ Hole \in Occupied /\ Hole \in Buckets /\ AfterHole \in Buckets /\ AfterHole # Hole
      /\ \A d \in 0 .. Capacity - 2 : Back(AfterHole, d + 1) = Back(Hole, d)
    BY <1>1, Shifting
<1>3. /\ kvps' \in [Buckets -> Pairs] /\ kvps'[Hole] = Vacant
      /\ \A b \in Buckets \ {Hole} : kvps'[b] = kvps[b]
    BY <1>1, <1>2 DEF IInv, TypeOK, Vacant, Pairs
<1>4. Occupied' = Occupied \ {Hole} /\ Settled = Occupied \ {Hole}
    BY <1>1, <1>2, <1>3 DEF Occupied, Vacant, Settled
<1>5. Occupied \in SUBSET Buckets /\ Occupied' \in SUBSET Buckets
    BY DEF Occupied
<1>6. Cardinality(Occupied') = size' /\ size' \in 0 .. Capacity
    BY <1>1, <1>2, <1>4, <1>5, BucketsAreFinite DEF IInv, LenIsExact
<1>7. /\ TypeOK' /\ HandInPlace' /\ TargetAhead' /\ StopAhead' /\ IdleAtRest'
      /\ Settled' = Occupied'
    BY <1>1, <1>3, <1>6, Returned DEF IInv, TypeOK
<1>8. OneBucketEach'
    BY <1>3, <1>4, <1>5, <1>7 DEF IInv, OneBucketEach
<1>9. ASSUME NEW b \in Settled, NEW j \in 1 .. kvps[b].dib
      PROVE  Back(b, j) \in Settled /\ kvps[Back(b, j)].dib + j >= kvps[b].dib
    <2>1. /\ b \in Buckets /\ kvps[b].dib \in 0 .. Capacity - 1 /\ Chain(b, kvps[b].dib)
        BY <1>4, <1>5, CapacityAssumption DEF IInv, TypeOK, Pairs, PairsInPlace
    <2>2. Back(b, j) # Hole
        <3> SUFFICES ASSUME Back(b, j) = Hole PROVE FALSE
            OBVIOUS
        <3>1. Back(b, j - 1) = AfterHole
            <4>1. j - 1 \in 0 .. Capacity - 2 /\ j \in 0 .. Capacity - 1
                BY <2>1, CapacityAssumption
            <4>2. Back(b, j - 1) \in Buckets /\ At(Back(b, j - 1) + (j - 1)) = b
                BY <2>1, <4>1, Backs, CapacityAssumption
            <4>3. Back(b, j - 1) = At(Hole + 1) /\ AfterHole = At(Hole + 1)
                <5>1. AfterHole = At(Hole + 1)
                    BY <1>1, <1>2, <4>1, CapacityAssumption DEF At, Back, Buckets
                <5> QED
                    BY <2>1, <4>1, <5>1, CapacityAssumption DEF At, Back, Buckets
            <4> QED
                BY <4>3
        <3>2. CASE j = 1
            <4>1. AfterHole = b
                BY <2>1, <3>1, <3>2 DEF Back, Buckets
            <4> QED
                BY <1>1, <1>4, <2>1, <4>1 DEF Stops, Occupied
        <3>3. CASE j # 1
            <4>1. j - 1 \in 1 .. kvps[b].dib
                BY <2>1, <3>3
            <4>2. AfterHole \in Occupied /\ kvps[AfterHole].dib + (j - 1) >= kvps[b].dib
                BY <1>2, <1>4, <2>1, <3>1, <4>1 DEF Chain
            <4>3. kvps[AfterHole].dib \in Nat
                BY <1>2 DEF IInv, TypeOK, Pairs
            <4> QED
                BY <1>1, <2>1, <4>1, <4>2, <4>3 DEF Stops, Occupied
        <3> QED
            BY <3>2, <3>3
    <2> QED
        BY <1>4, <2>1, <2>2 DEF Chain
<1>10. PairsInPlace'
    BY <1>1, <1>3, <1>4, <1>5, <1>7, <1>9 DEF IInv, PairsInPlace, Chain
<1> QED
    BY <1>4, <1>6, <1>7, <1>8, <1>10 DEF IInv, LenIsExact

LEMMA ShiftBackKeeps ==
    ASSUME IInv, ShiftBack
    PROVE  /\ IInv'
           /\ pc' = "shift" /\ Hole' = AfterHole
           /\ AfterHole \in Settled
           /\ Settled' = (Settled \ {AfterHole}) \cup {Hole}
<1>1. /\ pc = "shift" /\ ~Stops(AfterHole) /\ ShiftTurn(i + 1, index)
      /\ size' = size /\ home' = home /\ fallback' = fallback
    BY DEF ShiftBack
<1>2. /\ Hole \in Occupied /\ Hole \in Buckets
      /\ Hole = At(index + (i - 1)) /\ AfterHole = At(index + i)
      /\ AfterHole \in Buckets /\ AfterHole # Hole
      /\ i \in 1 .. Capacity - 1 /\ index \in Buckets
      /\ \A d \in 0 .. Capacity - 2 : Back(AfterHole, d + 1) = Back(Hole, d)
    BY <1>1, Shifting
<1> DEFINE nearer == [kvps[AfterHole] EXCEPT !.dib = @ - 1]
<1>3. /\ kvps[AfterHole] \in Pairs /\ kvps[AfterHole].key # Empty
      /\ kvps[AfterHole].dib # 0
    BY <1>1, <1>2 DEF IInv, TypeOK, Stops
<1>4. /\ nearer \in Pairs /\ nearer.key = kvps[AfterHole].key
      /\ nearer.value = kvps[AfterHole].value
      /\ nearer.dib = kvps[AfterHole].dib - 1
    BY <1>3 DEF Pairs
<1> HIDE DEF nearer
<1>5. kvps' = [kvps EXCEPT ![AfterHole] = nearer, ![Hole] = nearer]
    BY DEF ShiftBack, nearer
<1>6. /\ kvps' \in [Buckets -> Pairs]
      /\ kvps'[Hole] = nearer /\ kvps'[AfterHole] = nearer
      /\ \A b \in Buckets \ {Hole, AfterHole} : kvps'[b] = kvps[b]
    BY <1>2, <1>4, <1>5 DEF IInv, TypeOK
<1>7. Occupied' = Occupied /\ AfterHole \in Occupied
    BY <1>2, <1>3, <1>4, <1>6 DEF Occupied
<1>8. PICK n \in i .. Capacity - 1 : Stops(At(index + n))
    BY <1>1 DEF IInv, StopAhead
<1>9. n \in i + 1 .. Capacity - 1
    BY <1>1, <1>2, <1>8, CapacityAssumption
<1>10. i + 1 < Capacity
    BY <1>2, <1>9, CapacityAssumption
<1>11. /\ pc' = "shift" /\ i' = i + 1 /\ index' = index
       /\ to_insert' = to_insert /\ target' = target
    BY <1>1, <1>10 DEF ShiftTurn
<1>12. Hole' = AfterHole
    <2>1. index + (i + 1) - 1 = index + i
        BY <1>2 DEF Buckets
    <2> QED
        BY <1>11, <2>1 DEF Hole, AfterHole
<1>13. Settled = Occupied \ {Hole} /\ Settled' = Occupied \ {AfterHole}
    BY <1>1, <1>7, <1>11, <1>12 DEF Settled
<1>14. Stops(At(index + n))'
    <2>1. At(index + n) \in Buckets /\ At(index + n) # Hole /\ At(index + n) # AfterHole
        <3>1. /\ n \in 0 .. Capacity - 1 /\ i \in 0 .. Capacity - 1
              /\ i - 1 \in 0 .. Capacity - 1 /\ n # i /\ n # i - 1
            BY <1>2, <1>9, CapacityAssumption
        <3> QED
            BY <1>2, <3>1, BackToStart
    <2> QED
        BY <1>6, <1>8, <1>11, <2>1 DEF Stops
<1>15. StopAhead'
    BY <1>2, <1>7, <1>9, <1>10, <1>11, <1>12, <1>14, CapacityAssumption DEF StopAhead
<1>16. TypeOK'
    BY <1>1, <1>2, <1>6, <1>10, <1>11, CapacityAssumption DEF IInv, TypeOK
<1>17. OneBucketEach'
    BY <1>2, <1>4, <1>6, <1>7, <1>13 DEF IInv, OneBucketEach, Occupied
<1>18. \A b \in Occupied : b \in Buckets /\ kvps[b].dib \in Nat
    BY DEF IInv, TypeOK, Occupied, Pairs
<1> DEFINE d == kvps[AfterHole].dib
<1>19. d \in 1 .. Capacity - 1 /\ d - 1 \in 0 .. Capacity - 2
    <2>1. d < Capacity
        BY <1>2, <1>7, <1>13 DEF IInv, PairsInPlace
    <2> QED
        BY <1>3, <1>7, <1>18, <2>1, CapacityAssumption
\* The pair that was shifted is in its place.
<1>20. /\ kvps'[Hole].dib < Capacity
       /\ Back(Hole, kvps'[Hole].dib) = home[kvps'[Hole].key]
    <2>1. Back(AfterHole, d) = home[kvps[AfterHole].key]
        BY <1>2, <1>7, <1>13 DEF IInv, PairsInPlace
    <2>2. Back(AfterHole, (d - 1) + 1) = Back(Hole, d - 1) /\ (d - 1) + 1 = d
        BY <1>2, <1>19
    <2> QED
        BY <1>4, <1>6, <1>19, <2>1, <2>2, CapacityAssumption
<1>21. ASSUME NEW j \in 1 .. kvps'[Hole].dib
       PROVE  /\ Back(Hole, j) \in Occupied
              /\ Back(Hole, j) # AfterHole => kvps'[Back(Hole, j)].dib + j >= kvps'[Hole].dib
    <2>1. j + 1 \in 1 .. d /\ j \in 0 .. Capacity - 2 /\ kvps'[Hole].dib = d - 1
        BY <1>4, <1>6, <1>19, CapacityAssumption
    <2>2. Back(Hole, j) = Back(AfterHole, j + 1)
        BY <1>2, <2>1
    <2>3. Back(Hole, j) # Hole
        <3>1. Back(Hole, 0) = Hole
            BY <1>2 DEF Back, Buckets
        <3>2. j \in 0 .. Capacity - 1 /\ 0 \in 0 .. Capacity - 1 /\ j # 0
            BY <2>1, CapacityAssumption
        <3> QED
            BY <1>2, <3>1, <3>2, Backs
    <2>4. /\ Back(Hole, j) \in Occupied
          /\ kvps[Back(Hole, j)].dib + (j + 1) >= d
        BY <1>2, <1>7, <1>13, <2>1, <2>2, <2>3 DEF IInv, PairsInPlace, Chain
    <2> QED
        BY <1>6, <1>18, <2>1, <2>3, <2>4, <1>19
\* So are the others: where they led over the hole, the shifted pair is now.
<1>22. ASSUME NEW b \in Occupied \ {Hole, AfterHole}, NEW j \in 1 .. kvps[b].dib
       PROVE  /\ Back(b, j) \in Occupied
              /\ Back(b, j) # AfterHole => kvps'[Back(b, j)].dib + j >= kvps[b].dib
    <2>1. /\ b \in Buckets /\ kvps[b].dib \in 0 .. Capacity - 1 /\ Chain(b, kvps[b].dib)
        BY <1>13, <1>18, CapacityAssumption DEF IInv, PairsInPlace
    <2>2. Back(b, j) \in Occupied
        BY <2>1 DEF Chain
    <2>3. CASE Back(b, j) = Hole
        <3>1. j - 1 \in 0 .. Capacity - 2
            BY <2>1, CapacityAssumption
        <3>2. AfterHole = At(Hole + 1)
            BY <1>2, <3>1, CapacityAssumption DEF At, Back, Buckets
        <3>3. Back(b, j - 1) = AfterHole
            BY <2>1, <2>3, <3>1, <3>2, CapacityAssumption DEF At, Back, Buckets
        <3>4. j # 1
            <4>1. Back(b, 0) = b
                BY <2>1 DEF Back, Buckets
            <4> QED
                BY <3>3, <4>1
        <3>5. j - 1 \in 1 .. kvps[b].dib
            BY <2>1, <3>4
        <3>6. d + (j - 1) >= kvps[b].dib
            BY <1>2, <1>7, <1>13, <2>1, <3>3, <3>5 DEF Chain
        <3> QED
            BY <1>4, <1>6, <1>19, <2>1, <2>2, <2>3, <3>6
    <2>4. CASE Back(b, j) # Hole
        BY <1>6, <1>13, <1>18, <2>1, <2>2, <2>4 DEF Chain
    <2> QED
        BY <2>3, <2>4
<1>23. ASSUME NEW b \in Settled'
       PROVE  /\ kvps'[b].dib < Capacity
              /\ Back(b, kvps'[b].dib) = home'[kvps'[b].key]
              /\ Chain(b, kvps[b].dib)'
    <2>1. CASE b = Hole
        BY <1>1, <1>7, <1>13, <1>20, <1>21, <2>1 DEF Chain
    <2>2. CASE b # Hole
        <3>1. b \in Occupied \ {Hole, AfterHole} /\ b \in Settled /\ kvps'[b] = kvps[b]
            BY <1>6, <1>13, <1>18, <2>2
        <3> QED
            BY <1>1, <1>7, <1>13, <1>22, <3>1 DEF Chain, IInv, PairsInPlace
    <2> QED
        BY <2>1, <2>2
<1>24. PairsInPlace'
    BY <1>23 DEF PairsInPlace
<1>25. HandInPlace' /\ TargetAhead'
    BY <1>11 DEF HandInPlace, TargetAhead
<1> QED
    BY <1>1, <1>2, <1>7, <1>11, <1>12, <1>13, <1>15, <1>16, <1>17, <1>24, <1>25
       DEF IInv, LenIsExact, IdleAtRest

----------------------------------------------------------------------------
(* The calls, and the theorems.                                            *)

LEMMA InitEstablishes == Init => IInv
<1> SUFFICES ASSUME Init PROVE IInv
    OBVIOUS
<1>1. Occupied = {} /\ Settled = {} /\ pc = "idle"
    BY DEF Init, Occupied, Settled, Vacant
<1>2. Cardinality({}) = 0
    BY FS_EmptySet
<1>3. TypeOK
    BY CapacityAssumption DEF Init, TypeOK, Pairs, Vacant, Buckets
<1> QED
    BY <1>1, <1>2, <1>3
       DEF Init, IInv, PairsInPlace, OneBucketEach, LenIsExact, HandInPlace,
           TargetAhead, StopAhead, IdleAtRest

\* A full map has no empty bucket; any other has one, somewhere ahead.
LEMMA PutKeeps ==
    ASSUME IInv, NEW k \in Keys, NEW v \in Values, Put(k, v)
    PROVE  IInv'
<1>1. /\ pc = "idle" /\ pc' = "put" /\ size # Capacity
      /\ to_insert' = [key |-> k, value |-> v, dib |-> 0] /\ index' = home[k]
      /\ kvps' = kvps /\ size' = size /\ home' = home /\ i' = i
      /\ target' = target /\ fallback' = fallback
    BY DEF Put
<1>2. Occupied' = Occupied /\ Settled = Occupied /\ Settled' = Occupied
    BY <1>1 DEF Occupied, Settled
<1>3. /\ PairsInPlace' /\ OneBucketEach'
    BY <1>1, <1>2, SamePlaces DEF IInv, TypeOK
<1>4. home[k] \in Buckets
    BY DEF IInv, TypeOK
<1>5. TypeOK'
    BY <1>1, <1>4 DEF IInv, TypeOK, Pairs
<1>6. i = 0
    BY <1>1 DEF IInv, IdleAtRest
<1>7. \E n \in 0 .. Capacity - 1 : At(home[k] + n) \notin Occupied
    <2>1. Occupied \in SUBSET Buckets
        BY DEF Occupied
    <2>2. Cardinality(Occupied) # Capacity
        BY <1>1 DEF IInv, LenIsExact
    <2>3. PICK b \in Buckets : b \notin Occupied
        <3>1. Occupied # Buckets
            BY <2>2, FS_Interval, CapacityAssumption DEF Buckets
        <3> QED
            BY <2>1, <3>1
    <2> QED
        BY <1>4, <2>3, Ahead
<1>8. At(home[k]) = home[k] /\ Back(home[k], 0) = home[k] /\ home[k] + 0 = home[k]
    BY <1>4, CapacityAssumption DEF At, Back, Buckets
<1>9. HandInPlace'
    BY <1>1, <1>2, <1>4, <1>6, <1>7, <1>8, CapacityAssumption DEF HandInPlace, Chain
<1> QED
    BY <1>1, <1>2, <1>3, <1>5, <1>9 DEF IInv, LenIsExact, TargetAhead, StopAhead, IdleAtRest

LEMMA RemoveKeeps ==
    ASSUME IInv, NEW k \in Keys, CanRemove(k), Remove(k)
    PROVE  IInv'
<1>1. /\ pc = "idle" /\ pc' = "find" /\ target' = k /\ index' = home[k]
      /\ kvps' = kvps /\ size' = size /\ home' = home /\ i' = i
      /\ to_insert' = to_insert /\ fallback' = fallback
    BY DEF Remove
<1>2. Occupied' = Occupied /\ Settled = Occupied /\ Settled' = Occupied
    BY <1>1 DEF Occupied, Settled
<1>3. /\ PairsInPlace' /\ OneBucketEach'
    BY <1>1, <1>2, SamePlaces DEF IInv, TypeOK
<1>4. home[k] \in Buckets /\ i = 0
    BY <1>1 DEF IInv, TypeOK, IdleAtRest
<1>5. TypeOK'
    BY <1>1, <1>4 DEF IInv, TypeOK
\* The search comes to home itself in its last turn.
<1>6. \E n \in 1 .. Capacity : kvps[At(home[k] + n)].key = k
    <2>1. PICK b \in Buckets : kvps[b].key = k
        BY DEF CanRemove, Stored, Occupied
    <2>2. PICK n \in 0 .. Capacity - 1 : At(home[k] + n) = b
        BY <1>4, Ahead
    <2>3. At(home[k] + 0) = At(home[k] + Capacity)
        BY <1>4, CapacityAssumption DEF At, Buckets
    <2>4. n \in 1 .. Capacity \/ (n = 0 /\ Capacity \in 1 .. Capacity)
        BY CapacityAssumption
    <2> QED
        BY <2>1, <2>2, <2>3, <2>4
<1>7. \E b \in Buckets : kvps[b].key # k /\ Stops(b)
    BY DEF CanRemove
<1>8. TargetAhead'
    BY <1>1, <1>4, <1>6, <1>7, CapacityAssumption DEF TargetAhead, Stops
<1> QED
    BY <1>1, <1>2, <1>3, <1>5, <1>8 DEF IInv, LenIsExact, HandInPlace, StopAhead, IdleAtRest

LEMMA AssignKeeps ==
    ASSUME IInv, NEW k \in Keys, NEW v \in Values, k \in Stored, Assign(k, v)
    PROVE  /\ IInv'
           /\ \E b \in Occupied : kvps[b].key = k /\ kvps' = [kvps EXCEPT ![b].value = v]
<1>1. /\ pc = "idle" /\ UNCHANGED <<size, home, pc, to_insert, i, index, target, fallback>>
    BY DEF Assign
<1>2. PICK b \in Occupied : kvps[b].key = k /\ kvps' = [kvps EXCEPT ![b].value = v]
    BY DEF Assign
<1>3. kvps' \in [Buckets -> Pairs]
    BY <1>2 DEF IInv, TypeOK, Occupied, Pairs
<1>4. \A a \in Buckets : kvps'[a].key = kvps[a].key /\ kvps'[a].dib = kvps[a].dib
    BY <1>2 DEF IInv, TypeOK, Occupied, Pairs
<1>5. Occupied' = Occupied /\ Settled' = Occupied /\ Settled = Occupied
    BY <1>1, <1>4 DEF Occupied, Settled
<1>6. PairsInPlace' /\ OneBucketEach'
    BY <1>1, <1>3, <1>4, <1>5, SamePlaces DEF IInv
<1>7. TypeOK'
    BY <1>1, <1>3 DEF IInv, TypeOK
<1> QED
    BY <1>1, <1>2, <1>5, <1>6, <1>7
       DEF IInv, LenIsExact, HandInPlace, TargetAhead, StopAhead, IdleAtRest

LEMMA NextKeeps == IInv /\ [CarefulNext]_vars => IInv'
<1> SUFFICES ASSUME IInv, [CarefulNext]_vars PROVE IInv'
    OBVIOUS
<1>1. CASE UNCHANGED vars
    BY <1>1 DEF vars, IInv, TypeOK, PairsInPlace, OneBucketEach, LenIsExact, HandInPlace,
                TargetAhead, StopAhead, IdleAtRest, Settled, Occupied, Stored, Chain,
                Hole, Stops
<1>2. ASSUME NEW k \in Keys, NEW v \in Values, Put(k, v) PROVE IInv'
    BY <1>2, PutKeeps
<1>3. ASSUME NEW k \in Keys, NEW v \in Values, k \in Stored, Assign(k, v) PROVE IInv'
    BY <1>3, AssignKeeps
<1>4. ASSUME NEW k \in Keys, CanRemove(k), Remove(k) PROVE IInv'
    BY <1>4, RemoveKeeps
<1>5. CASE PutRefused
    BY <1>1, <1>5 DEF PutRefused
<1>6. CASE PutStep
    BY <1>6, PutIntoEmptyKeeps, PutOverKeyKeeps, PutSwapKeeps, PutPassKeeps DEF PutStep
<1>7. CASE RemoveStep
    BY <1>7, FindStepKeeps, ShiftStopKeeps, ShiftBackKeeps DEF RemoveStep
<1> QED
    BY <1>1, <1>2, <1>3, <1>4, <1>5, <1>6, <1>7 DEF CarefulNext

LEMMA IInvAlways == CarefulSpec => []IInv
BY InitEstablishes, NextKeeps, PTL DEF CarefulSpec

\* For any keys, hash function and capacity: between two calls no key is in
\* two buckets.
THEOREM KeysCorrect == CarefulSpec => []OneBucketPerKey
<1>1. IInv => OneBucketPerKey
    BY DEF IInv, OneBucketEach, OneBucketPerKey, Settled
<1> QED
    BY <1>1, IInvAlways, PTL

\* For any keys, hash function and capacity: before and after every turn of the
\* loops len() is the number of buckets in use.
THEOREM LenCorrect == CarefulSpec => []LenIsExact
<1>1. IInv => LenIsExact
    BY DEF IInv
<1> QED
    BY <1>1, IInvAlways, PTL

\* For any keys, hash function and capacity: between two calls each dib is the
\* distance from home, and no pair is more than one step farther than the pair
\* before it.
THEOREM OrderCorrect == CarefulSpec => []RobinHood
<1>1. IInv => RobinHood
    <2> SUFFICES ASSUME IInv, pc = "idle", NEW b \in Occupied
                 PROVE  LET before == (b - 1) % Capacity
                        IN  /\ (home[kvps[b].key] + kvps[b].dib) % Capacity = b
                            /\ kvps[b].dib < Capacity
                            /\ kvps[b].dib > 0 =>
                                   /\ before \in Occupied
                                   /\ kvps[before].dib + 1 >= kvps[b].dib
        BY DEF RobinHood
    <2>1. b \in Buckets /\ Settled = Occupied /\ kvps[b].dib \in 0 .. Capacity - 1
          /\ Back(b, kvps[b].dib) = home[kvps[b].key] /\ Chain(b, kvps[b].dib)
        BY CapacityAssumption DEF IInv, TypeOK, PairsInPlace, Settled, Occupied, Pairs
    <2>2. (b - 1) % Capacity = Back(b, 1)
        BY <2>1, Rounds
    <2>3. (home[kvps[b].key] + kvps[b].dib) % Capacity = b
        <3>1. home[kvps[b].key] \in Buckets /\ At(home[kvps[b].key] + kvps[b].dib) = b
            BY <2>1, Backs
        <3>2. home[kvps[b].key] + kvps[b].dib \in 0 .. 2 * Capacity - 1
            BY <2>1, <3>1, CapacityAssumption DEF Buckets
        <3> QED
            BY <3>1, <3>2, Rounds
    <2>4. kvps[b].dib > 0 => 1 \in 1 .. kvps[b].dib
        BY <2>1
    <2> QED
        BY <2>1, <2>2, <2>3, <2>4, CapacityAssumption DEF Chain
<1> QED
    BY <1>1, IInvAlways, PTL

----------------------------------------------------------------------------
(* The map that the buckets implement.                                     *)

LEMMA Chosen ==
    ASSUME NEW f, NEW S, NEW b \in S, \A a \in S : f[a].key = f[b].key => a = b
    PROVE  (CHOOSE c \in S : f[c].key = f[b].key) = b
OBVIOUS

\* Contents, of any buckets f and places S in use and with any pair in hand.
MapOf(f, S, H, v) ==
    [k \in {f[b].key : b \in S} \cup H |->
        IF k \in H THEN v ELSE f[CHOOSE b \in S : f[b].key = k].value]

\* Key k has value x.
Entry(f, S, H, v, k, x) ==
    IF k \in H THEN x = v ELSE \E b \in S : f[b].key = k /\ f[b].value = x

UniqueKeys(f, S) == \A a, b \in S : f[a].key = f[b].key => a = b

LEMMA MapOfEntries ==
    ASSUME NEW f, NEW S, NEW H, NEW v, NEW k, NEW x,
           UniqueKeys(f, S),
           k \in {f[b].key : b \in S} \cup H,
           Entry(f, S, H, v, k, x)
    PROVE  MapOf(f, S, H, v)[k] = x
<1>1. CASE k \in H
    BY <1>1 DEF MapOf, Entry
<1>2. CASE k \notin H
    <2>1. PICK b \in S : f[b].key = k /\ f[b].value = x
        BY <1>2 DEF Entry
    <2>2. (CHOOSE c \in S : f[c].key = f[b].key) = b
        BY Chosen DEF UniqueKeys
    <2> QED
        BY <1>2, <2>1, <2>2 DEF MapOf
<1> QED
    BY <1>1, <1>2

LEMMA SameMaps ==
    ASSUME NEW f, NEW S, NEW H, NEW v, NEW g, NEW T, NEW G, NEW w,
           UniqueKeys(f, S), UniqueKeys(g, T),
           {f[b].key : b \in S} \cup H = {g[b].key : b \in T} \cup G,
           \A k \in {f[b].key : b \in S} \cup H :
               \E x : Entry(f, S, H, v, k, x) /\ Entry(g, T, G, w, k, x)
    PROVE  MapOf(f, S, H, v) = MapOf(g, T, G, w)
<1>1. \A k \in {f[b].key : b \in S} \cup H : MapOf(f, S, H, v)[k] = MapOf(g, T, G, w)[k]
    BY MapOfEntries
<1>2. /\ MapOf(f, S, H, v) =
             [k \in {f[b].key : b \in S} \cup H |-> MapOf(f, S, H, v)[k]]
      /\ MapOf(g, T, G, w) =
             [k \in {g[b].key : b \in T} \cup G |-> MapOf(g, T, G, w)[k]]
    BY DEF MapOf
<1> QED
    BY <1>1, <1>2

LEMMA ContentsAreMapOf ==
    /\ Contents = MapOf(kvps, Settled, InHand, to_insert.value)
    /\ Contents' = MapOf(kvps', Settled', InHand', to_insert'.value)
    /\ IInv => UniqueKeys(kvps, Settled)
    /\ IInv' => UniqueKeys(kvps', Settled')
BY DEF Contents, MapOf, UniqueKeys, IInv, OneBucketEach

\* put() takes effect as it begins: the pair in its hand counts already.
LEMMA PutIsPut ==
    ASSUME IInv, IInv', NEW k \in Keys, NEW v \in Values, Put(k, v)
    PROVE  Map!Put(k, v)
<1>1. /\ pc = "idle" /\ pc' = "put" /\ size # Capacity /\ kvps' = kvps
      /\ to_insert' = [key |-> k, value |-> v, dib |-> 0]
    BY DEF Put
<1>2. /\ Settled = Occupied /\ Settled' = Occupied /\ InHand = {} /\ InHand' = {k}
      /\ to_insert'.value = v
    BY <1>1 DEF Settled, Occupied, InHand
<1>3. DOMAIN Contents = Stored /\ DOMAIN Contents' = Stored \cup {k}
    BY <1>1, <1>2 DEF Contents, Stored
<1>4. Contents'[k] = v
    BY <1>1, <1>2 DEF Contents
<1>5. ASSUME NEW x \in Stored, x # k PROVE Contents'[x] = Contents[x]
    BY <1>1, <1>2, <1>5 DEF Contents, Stored
<1>6. Contents' = [x \in Stored \cup {k} |-> Contents'[x]]
    BY <1>1, <1>2 DEF Contents, Stored
<1>7. Contents' = [x \in DOMAIN Contents \cup {k} |-> IF x = k THEN v ELSE Contents[x]]
    BY <1>3, <1>4, <1>5, <1>6
<1>8. Cardinality(DOMAIN Contents \cup {k}) <= Capacity
    <2>1. /\ IsFiniteSet(Occupied) /\ Cardinality(Occupied) = size
          /\ size \in 0 .. Capacity /\ Occupied \in SUBSET Buckets
        BY BucketsAreFinite DEF Occupied, IInv, LenIsExact
    <2> DEFINE f == [b \in Occupied |-> kvps[b].key]
    <2>2. f \in Surjection(Occupied, Stored)
        BY DEF Surjection, Stored
    <2>3. IsFiniteSet(Stored) /\ Cardinality(Stored) <= Cardinality(Occupied)
        BY <2>1, <2>2, FS_Surjection
    <2>4. /\ Cardinality(Stored) \in Nat
          /\ Cardinality(Stored \cup {k}) \in {Cardinality(Stored), Cardinality(Stored) + 1}
        BY <2>3, FS_AddElement, FS_CardinalityType
    <2> QED
        BY <1>1, <1>3, <2>1, <2>3, <2>4, CapacityAssumption
<1> QED
    BY <1>1, <1>7, <1>8 DEF Map!Put, Map!Idle, Map!Cardinality, Cardinality

\* A turn of put() that does not return only exchanges the pair in hand and the
\* one in the bucket; the last one puts it down.
LEMMA PutStepIsNone ==
    ASSUME IInv, IInv', PutStep
    PROVE  Contents' = Contents /\ pc = "put" /\ pc' \in {"put", "idle"}
<1> DEFINE p == At(index + i)
<1>1. pc = "put" /\ pc' \in {"put", "idle"}
    BY DEF PutStep, PutIntoEmpty, PutOverKey, PutSwap, PutPass, Onward, Return
<1>2. /\ p \in Buckets /\ Probed = kvps[p] /\ Settled = Occupied /\ to_insert \in Pairs
      /\ \A pair : FillBucket(pair) <=> kvps' = [kvps EXCEPT ![p] = pair]
      /\ InHand = {to_insert.key} /\ to_insert.key # Empty
      /\ kvps \in [Buckets -> Pairs]
    BY <1>1, Probing DEF InHand, IInv, TypeOK
<1>3. Settled' = Occupied'
    BY <1>1 DEF Settled
<1>4. CASE PutPass
    <2>1. to_insert'.key = to_insert.key /\ to_insert'.value = to_insert.value /\ pc' = "put"
        <3>1. Onward(to_insert) /\ kvps' = kvps /\ home' = home
            BY <1>4 DEF PutPass
        <3>2. pc' = "put"
            BY <1>4, PutPassKeeps
        <3> QED
            BY <1>2, <3>1, <3>2 DEF Onward, Return, Farther, Pairs
    <2>2. InHand' = InHand /\ kvps' = kvps /\ Settled' = Settled
        BY <1>2, <1>3, <1>4, <2>1 DEF PutPass, InHand, Occupied
    <2> QED
        BY <1>1, <2>1, <2>2, ContentsAreMapOf
<1>5. CASE PutIntoEmpty \/ PutOverKey
    <2>1. /\ pc' = "idle" /\ kvps' = [kvps EXCEPT ![p] = to_insert]
          /\ kvps[p].key \in {Empty, to_insert.key}
        BY <1>2, <1>5 DEF PutIntoEmpty, PutOverKey, Return
    <2>2. /\ Occupied' = Occupied \cup {p} /\ InHand' = {}
          /\ kvps'[p] = to_insert /\ \A b \in Buckets \ {p} : kvps'[b] = kvps[b]
        BY <1>2, <2>1 DEF Occupied, InHand
    <2>3. {kvps[b].key : b \in Settled} \cup InHand = {kvps'[b].key : b \in Settled'} \cup InHand'
        BY <1>2, <1>3, <2>1, <2>2 DEF Occupied
    <2>4. ASSUME NEW k \in {kvps[b].key : b \in Settled} \cup InHand
          PROVE  \E x : /\ Entry(kvps, Settled, InHand, to_insert.value, k, x)
                        /\ Entry(kvps', Settled', InHand', to_insert'.value, k, x)
        <3>1. CASE k = to_insert.key
            BY <1>2, <1>3, <2>2, <3>1 DEF Entry
        <3>2. CASE k # to_insert.key
            <4>1. PICK b \in Occupied : kvps[b].key = k
                BY <1>2, <3>2
            <4>2. b # p /\ b \in Buckets
                BY <2>1, <3>2, <4>1 DEF Occupied
            <4> QED
                BY <1>2, <1>3, <2>2, <3>2, <4>1, <4>2 DEF Entry
        <3> QED
            BY <3>1, <3>2
    <2>5. UniqueKeys(kvps, Settled) /\ UniqueKeys(kvps', Settled')
        BY ContentsAreMapOf
    <2>6. MapOf(kvps, Settled, InHand, to_insert.value)
                = MapOf(kvps', Settled', InHand', to_insert'.value)
        BY <2>3, <2>4, <2>5, SameMaps
    <2> QED
        BY <1>1, <2>6, ContentsAreMapOf
<1>6. CASE PutSwap
    <2>1. pc' = "put" /\ to_insert.key \notin Stored
        BY <1>6, PutSwapKeeps
    <2>2. /\ kvps' = [kvps EXCEPT ![p] = to_insert] /\ kvps[p].key # Empty
          /\ to_insert' = Farther(kvps[p])
        BY <1>2, <1>6, <2>1 DEF PutSwap, Onward, Return
    <2>3. /\ Occupied' = Occupied /\ p \in Occupied
          /\ kvps'[p] = to_insert /\ \A b \in Buckets \ {p} : kvps'[b] = kvps[b]
          /\ to_insert'.key = kvps[p].key /\ to_insert'.value = kvps[p].value
          /\ InHand' = {kvps[p].key}
        BY <1>2, <2>1, <2>2 DEF Occupied, InHand, Farther, Pairs
    <2>4. {kvps[b].key : b \in Settled} \cup InHand = {kvps'[b].key : b \in Settled'} \cup InHand'
        BY <1>2, <1>3, <2>2, <2>3 DEF Occupied
    <2>5. ASSUME NEW k \in {kvps[b].key : b \in Settled} \cup InHand
          PROVE  \E x : /\ Entry(kvps, Settled, InHand, to_insert.value, k, x)
                        /\ Entry(kvps', Settled', InHand', to_insert'.value, k, x)
        <3>0. to_insert.key # kvps[p].key
            BY <2>1, <2>3 DEF Stored
        <3>1. CASE k = to_insert.key
            BY <1>2, <1>3, <2>3, <3>0, <3>1 DEF Entry
        <3>2. CASE k = kvps[p].key
            BY <1>2, <1>3, <2>3, <3>0, <3>2 DEF Entry
        <3>3. CASE k # to_insert.key /\ k # kvps[p].key
            <4>1. PICK b \in Occupied : kvps[b].key = k
                BY <1>2, <3>3
            <4>2. b # p /\ b \in Buckets
                BY <3>3, <4>1 DEF Occupied
            <4> QED
                BY <1>2, <1>3, <2>3, <3>3, <4>1, <4>2 DEF Entry
        <3> QED
            BY <3>1, <3>2, <3>3
    <2>6. UniqueKeys(kvps, Settled) /\ UniqueKeys(kvps', Settled')
        BY ContentsAreMapOf
    <2>7. MapOf(kvps, Settled, InHand, to_insert.value)
                = MapOf(kvps', Settled', InHand', to_insert'.value)
        BY <2>4, <2>5, <2>6, SameMaps
    <2> QED
        BY <1>1, <2>7, ContentsAreMapOf
<1> QED
    BY <1>1, <1>4, <1>5, <1>6 DEF PutStep

LEMMA RemoveStepIsTakeOut ==
    ASSUME IInv, IInv', FindStep
    PROVE  Map!TakeOut \/ UNCHANGED <<Contents, pc, target>>
<1>1. /\ pc = "find" /\ kvps' = kvps /\ Settled = Occupied /\ InHand = {}
      /\ target \in Keys
    BY DEF FindStep, Settled, InHand, IInv, TargetAhead
<1>2. CASE pc' = "find"
    <2>1. target' = target
        BY <1>1, <1>2 DEF FindStep, ShiftTurn, Return
    <2> QED
        BY <1>1, <1>2, <2>1 DEF Contents, Settled, Occupied, InHand
<1>3. CASE pc' # "find"
    <2>1. pc' = "shift" /\ Hole' \in Occupied /\ kvps[Hole'].key = target
        BY <1>3, FindStepKeeps
    <2>2. Settled' = Occupied \ {Hole'} /\ InHand' = {}
        BY <1>1, <2>1 DEF Settled, Occupied, InHand
    <2>3. DOMAIN Contents = Stored /\ DOMAIN Contents' = Stored \ {target}
        BY <1>1, <2>1, <2>2 DEF Contents, Stored, IInv, OneBucketEach
    <2>4. ASSUME NEW k \in Stored \ {target} PROVE Contents'[k] = Contents[k]
        <3>1. PICK b \in Occupied : kvps[b].key = k
            BY DEF Stored
        <3>2. b # Hole'
            BY <2>1, <3>1
        <3>3. /\ Entry(kvps, Settled, InHand, to_insert.value, k, kvps[b].value)
              /\ Entry(kvps', Settled', InHand', to_insert'.value, k, kvps[b].value)
            BY <1>1, <2>2, <3>1, <3>2 DEF Entry
        <3>4. /\ k \in {kvps[c].key : c \in Settled} \cup InHand
              /\ k \in {kvps'[c].key : c \in Settled'} \cup InHand'
            BY <1>1, <2>2, <3>1, <3>2
        <3> QED
            BY <3>3, <3>4, ContentsAreMapOf, MapOfEntries
    <2>5. Contents' = [k \in Stored \ {target} |-> Contents'[k]]
        BY <2>3 DEF Contents
    <2>6. Contents' = [k \in Stored \ {target} |-> Contents[k]]
        BY <2>4, <2>5
    <2> QED
        BY <1>1, <2>1, <2>3, <2>6 DEF Map!TakeOut, Map!Restrict
<1> QED
    BY <1>2, <1>3

LEMMA ShiftIsNone ==
    ASSUME IInv, IInv', ShiftStop \/ ShiftBack
    PROVE  Contents' = Contents /\ pc = "shift" /\ pc' \in {"shift", "idle"}
<1>1. pc = "shift" /\ InHand = {} /\ InHand' = {} /\ pc' \in {"shift", "idle"}
    BY DEF ShiftStop, ShiftBack, ShiftTurn, Return, InHand
<1>2. /\ Hole \in Buckets /\ AfterHole \in Buckets /\ AfterHole # Hole
      /\ kvps \in [Buckets -> Pairs] /\ Settled \subseteq Buckets \ {Hole}
    BY <1>1, Shifting DEF IInv, TypeOK, Settled, Occupied
<1>3. CASE ShiftStop
    <2>1. Settled' = Settled /\ kvps' = [kvps EXCEPT ![Hole] = Vacant]
        BY <1>3, ShiftStopKeeps DEF ShiftStop
    <2>2. \A b \in Settled : kvps'[b] = kvps[b]
        BY <1>2, <2>1
    <2>3. ASSUME NEW k \in {kvps[b].key : b \in Settled} \cup InHand
          PROVE  \E x : /\ Entry(kvps, Settled, InHand, to_insert.value, k, x)
                        /\ Entry(kvps', Settled', InHand', to_insert'.value, k, x)
        BY <1>1, <2>1, <2>2 DEF Entry
    <2>4. {kvps[b].key : b \in Settled} \cup InHand = {kvps'[b].key : b \in Settled'} \cup InHand'
        BY <1>1, <2>1, <2>2
    <2>5. UniqueKeys(kvps, Settled) /\ UniqueKeys(kvps', Settled')
        BY ContentsAreMapOf
    <2>6. MapOf(kvps, Settled, InHand, to_insert.value)
                = MapOf(kvps', Settled', InHand', to_insert'.value)
        BY <2>3, <2>4, <2>5, SameMaps
    <2> QED
        BY <1>1, <2>6, ContentsAreMapOf
<1>4. CASE ShiftBack
    <2>1. AfterHole \in Settled /\ Settled' = (Settled \ {AfterHole}) \cup {Hole}
        BY <1>4, ShiftBackKeeps
    <2>2. /\ kvps'[Hole].key = kvps[AfterHole].key
          /\ kvps'[Hole].value = kvps[AfterHole].value
          /\ \A b \in Settled \ {AfterHole} : kvps'[b] = kvps[b]
        BY <1>2, <1>4, <2>1 DEF ShiftBack, Pairs
    <2>3. {kvps[b].key : b \in Settled} \cup InHand = {kvps'[b].key : b \in Settled'} \cup InHand'
        BY <1>1, <2>1, <2>2
    <2>4. ASSUME NEW k \in {kvps[b].key : b \in Settled} \cup InHand
          PROVE  \E x : /\ Entry(kvps, Settled, InHand, to_insert.value, k, x)
                        /\ Entry(kvps', Settled', InHand', to_insert'.value, k, x)
        <3>1. PICK b \in Settled : kvps[b].key = k
            BY <1>1
        <3> QED
            BY <1>1, <2>1, <2>2, <3>1 DEF Entry
    <2>5. UniqueKeys(kvps, Settled) /\ UniqueKeys(kvps', Settled')
        BY ContentsAreMapOf
    <2>6. MapOf(kvps, Settled, InHand, to_insert.value)
                = MapOf(kvps', Settled', InHand', to_insert'.value)
        BY <2>3, <2>4, <2>5, SameMaps
    <2> QED
        BY <1>1, <2>6, ContentsAreMapOf
<1> QED
    BY <1>1, <1>3, <1>4

LEMMA AssignIsAssign ==
    ASSUME IInv, IInv', NEW k \in Keys, NEW v \in Values, k \in Stored, Assign(k, v)
    PROVE  Map!Assign(k, v)
<1>1. pc = "idle" /\ pc' = "idle"
    BY DEF Assign
<1>2. PICK b \in Occupied : kvps[b].key = k /\ kvps' = [kvps EXCEPT ![b].value = v]
    BY AssignKeeps
<1>3. /\ kvps'[b].key = k /\ kvps'[b].value = v
      /\ \A a \in Buckets \ {b} : kvps'[a] = kvps[a]
    BY <1>2 DEF IInv, TypeOK, Occupied, Pairs
<1>4. /\ Settled = Occupied /\ Settled' = Occupied /\ InHand = {} /\ InHand' = {}
    BY <1>1, <1>2, <1>3 DEF Settled, Occupied, InHand
<1>5. DOMAIN Contents = Stored /\ DOMAIN Contents' = Stored
    BY <1>2, <1>3, <1>4 DEF Contents, Stored, Occupied
<1>6. Contents'[k] = v
    <2>1. /\ Entry(kvps', Settled', InHand', to_insert'.value, k, v)
          /\ k \in {kvps'[c].key : c \in Settled'} \cup InHand'
        BY <1>3, <1>4 DEF Entry
    <2> QED
        BY <2>1, ContentsAreMapOf, MapOfEntries
<1>7. ASSUME NEW x \in Stored, x # k PROVE Contents'[x] = Contents[x]
    <2>1. PICK a \in Occupied : kvps[a].key = x
        BY DEF Stored
    <2>2. a # b /\ kvps'[a] = kvps[a]
        BY <1>2, <1>3, <1>7, <2>1 DEF Occupied
    <2>3. /\ Entry(kvps, Settled, InHand, to_insert.value, x, kvps[a].value)
          /\ Entry(kvps', Settled', InHand', to_insert'.value, x, kvps[a].value)
        BY <1>4, <2>1, <2>2 DEF Entry
    <2>4. /\ x \in {kvps[c].key : c \in Settled} \cup InHand
          /\ x \in {kvps'[c].key : c \in Settled'} \cup InHand'
        BY <1>4, <2>1, <2>2
    <2> QED
        BY <2>3, <2>4, ContentsAreMapOf, MapOfEntries
<1>8. /\ Contents = [x \in Stored |-> Contents[x]]
      /\ Contents' = [x \in Stored |-> Contents'[x]]
    BY <1>5 DEF Contents
<1>9. Contents' = [Contents EXCEPT ![k] = v]
    BY <1>5, <1>6, <1>7, <1>8
<1> QED
    BY <1>1, <1>5, <1>9 DEF Map!Assign, Map!Idle

\* The buckets implement a map, for any keys, hash function and capacity: put()
\* takes effect as it begins, remove() as it finds the key, and no other turn
\* of a loop loses, invents or changes a pair.
THEOREM ImplementsMap == CarefulSpec => MapSpec
<1>1. Init => Map!Init
    <2> SUFFICES ASSUME Init PROVE Map!Init
        OBVIOUS
    <2>1. Settled = {} /\ InHand = {} /\ pc = "idle"
        BY DEF Init, Settled, Occupied, InHand, Vacant
    <2>2. Contents = <<>>
        BY <2>1 DEF Contents
    <2> QED
        BY <2>1, <2>2 DEF Map!Init
<1>2. IInv /\ IInv' /\ [CarefulNext]_vars => [Map!Next]_(Map!vars)
    <2> SUFFICES ASSUME IInv, IInv', [CarefulNext]_vars PROVE Map!Next \/ UNCHANGED Map!vars
        OBVIOUS
    <2>1. CASE UNCHANGED vars
        BY <2>1 DEF vars, Map!vars, Contents, Settled, Occupied, InHand, Hole
    <2>2. ASSUME NEW k \in Keys, NEW v \in Values, Put(k, v) PROVE Map!Next
        BY <2>2, PutIsPut DEF Map!Next
    <2>3. ASSUME NEW k \in Keys, NEW v \in Values, k \in Stored, Assign(k, v) PROVE Map!Next
        BY <2>3, AssignIsAssign DEF Map!Next
    <2>4. ASSUME NEW k \in Keys, CanRemove(k), Remove(k) PROVE Map!Next
        <3>1. /\ pc = "idle" /\ pc' = "find" /\ target' = k /\ kvps' = kvps
              /\ to_insert' = to_insert /\ k \in Stored
            BY <2>4 DEF Remove, CanRemove
        <3>2. Contents' = Contents /\ k \in DOMAIN Contents
            BY <3>1 DEF Contents, Settled, Occupied, InHand, Stored
        <3> QED
            BY <3>1, <3>2 DEF Map!Next, Map!Remove, Map!Idle
    <2>5. CASE PutRefused
        BY <2>1, <2>5 DEF PutRefused
    <2>6. CASE PutStep
        BY <2>6, PutStepIsNone DEF Map!Next, Map!Return, Map!vars
    <2>7. CASE FindStep
        BY <2>7, RemoveStepIsTakeOut DEF Map!Next, Map!vars
    <2>8. CASE ShiftStop \/ ShiftBack
        BY <2>8, ShiftIsNone DEF Map!Next, Map!Return, Map!vars
    <2> QED
        BY <2>1, <2>2, <2>3, <2>4, <2>5, <2>6, <2>7, <2>8 DEF CarefulNext, RemoveStep
<1> QED
    BY <1>1, <1>2, IInvAlways, PTL DEF CarefulSpec, MapSpec, Map!Spec
=============================================================================
