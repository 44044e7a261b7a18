---------------------------- MODULE MemoryProofs ----------------------------
(***************************************************************************)
(* Memory: the blocks of an arena never overlap, leave the buffer or lose  *)
(* their alignment; the heap allocator's headers lead back from storage to *)
(* its block, and its counter is exact; the members of a tuple are aligned *)
(* and whole.  For every buffer, layout, size and alignment.               *)
(***************************************************************************)
EXTENDS MCParts, SequenceTheorems, FiniteSetTheorems,
        WellFoundedInduction, TLAPS

----------------------------------------------------------------------------
(* Multiples.                                                              *)

\* A product is a multiple.
LEMMA MultipleFacts ==
    ASSUME NEW m \in Nat, NEW align \in Nat \ {0}
    PROVE  (align * m) % align = 0
BY Z3T(60)

\* What divides the alignment that two numbers are multiples of divides
\* their sum.
Divides(a, x) == x % a = 0

LEMMA DividesSum ==
    ASSUME NEW a \in Nat \ {0}, NEW b \in Nat \ {0}, Divides(a, b),
           NEW x \in Nat, Divides(b, x), NEW y \in Nat, Divides(b, y)
    PROVE  Divides(a, x + y)
<1>0. b % a = 0 /\ x % b = 0 /\ y % b = 0
    BY DEF Divides
<1> DEFINE p == x \div b
           q == y \div b
           r == b \div a
<1>1. p \in Nat /\ x = b * p
    BY <1>0
<1>2. q \in Nat /\ y = b * q
    BY <1>0
<1>3. r \in Nat /\ b = a * r
    BY <1>0
<1> HIDE DEF p, q, r
<1>4. x + y = b * (p + q)
    BY <1>1, <1>2
<1>5. b * (p + q) = a * (r * (p + q))
    BY <1>1, <1>2, <1>3
<1>6. r * (p + q) \in Nat
    BY <1>1, <1>2, <1>3
<1> HIDE DEF p, q, r
<1> QED
    BY <1>4, <1>5, <1>6, MultipleFacts DEF Divides

----------------------------------------------------------------------------
(* Sums over finite sets.                                                  *)

\* Every non-empty set of natural numbers has a least one.
LEMMA LeastNumber ==
    ASSUME NEW Numbers, Numbers \subseteq Nat, Numbers # {}
    PROVE  \E m \in Numbers : \A k \in Numbers : m <= k
<1> DEFINE R == OpToRel(<, Nat)
<1>1. PICK m \in Numbers : \A k \in Numbers : ~(<<k, m>> \in R)
    BY NatLessThanWellFounded, WFMin
<1>2. \A k \in Numbers : ~(k < m)
    BY <1>1 DEF OpToRel
<1>3. \A k \in Numbers : m <= k
    BY <1>2
<1> QED
    BY <1>3

\* A collection that has a subset of S as soon as it has all smaller parts of it,
\* has them all: of the others, one would have the fewest elements.
LEMMA PartsFirst ==
    ASSUME NEW S, IsFiniteSet(S), NEW Good,
           \A s \in SUBSET S : (\A t \in SUBSET s : t # s => t \in Good) => s \in Good
    PROVE  SUBSET S \subseteq Good
<1> DEFINE Bad   == (SUBSET S) \ Good
           sizes == {Cardinality(s) : s \in Bad}
<1> SUFFICES ASSUME Bad # {} PROVE FALSE
    OBVIOUS
<1>1. \A s \in SUBSET S : IsFiniteSet(s) /\ Cardinality(s) \in Nat
    BY FS_Subset, FS_CardinalityType
<1>2. sizes \subseteq Nat /\ sizes # {}
    BY <1>1
<1>3. PICK m \in sizes : \A k \in sizes : m <= k
    <2> HIDE DEF sizes
    <2> QED
        BY <1>2, LeastNumber
<1>4. PICK s \in Bad : Cardinality(s) = m
    BY <1>3
<1>5. ASSUME NEW t \in SUBSET s, t # s PROVE t \in Good
    <2>1. t \in SUBSET S /\ IsFiniteSet(s)
        BY <1>1
    <2>2. Cardinality(t) <= Cardinality(s) /\ Cardinality(t) # Cardinality(s)
        BY <1>5, <2>1, FS_Subset
    <2>3. Cardinality(t) \in Nat /\ Cardinality(s) \in Nat
        BY <1>1, <2>1
    <2>4. ~(m <= Cardinality(t))
        BY <1>4, <2>2, <2>3
    <2>5. Cardinality(t) \notin sizes
        BY <1>3, <2>4
    <2> QED
        BY <2>1, <2>5
<1>6. s \in SUBSET S /\ s \notin Good
    BY <1>4
<1> QED
    BY <1>5, <1>6

----------------------------------------------------------------------------
\* One of the elements, and the others: the order in which folds go through a set.
First(S) == CHOOSE x \in S : TRUE
Rest(S) == S \ {First(S)}

\* The sums of f over all parts of S, and over S.
AreSums(g, f, S) ==
    g = [s \in SUBSET S |-> IF s = {} THEN 0 ELSE f[First(s)] + g[Rest(s)]]

Sum(f, S) == (CHOOSE g : AreSums(g, f, S))[S]

LEMMA RestFacts ==
    ASSUME NEW S, S # {}
    PROVE  First(S) \in S /\ Rest(S) \in SUBSET S /\ Rest(S) # S
BY DEF First, Rest

LEMMA SumsAgree ==
    ASSUME NEW S, IsFiniteSet(S), NEW Whole, S \subseteq Whole, NEW f,
           NEW g, AreSums(g, f, S), NEW h, AreSums(h, f, Whole)
    PROVE  \A s \in SUBSET S : g[s] = h[s]
<1> DEFINE Good == {s \in SUBSET S : g[s] = h[s]}
<1>1. ASSUME NEW s \in SUBSET S, \A t \in SUBSET s : t # s => t \in Good
      PROVE  s \in Good
    <2>0. s \in SUBSET Whole
        OBVIOUS
    <2>1. /\ g[s] = IF s = {} THEN 0 ELSE f[First(s)] + g[Rest(s)]
          /\ h[s] = IF s = {} THEN 0 ELSE f[First(s)] + h[Rest(s)]
        BY <2>0 DEF AreSums
    <2>2. s # {} => g[Rest(s)] = h[Rest(s)]
        BY <1>1, RestFacts
    <2> QED
        BY <2>1, <2>2
<1> HIDE DEF Good
<1>2. SUBSET S \subseteq Good
    BY <1>1, PartsFirst
<1> QED
    BY <1>2 DEF Good

LEMMA SumsExist ==
    ASSUME NEW S, IsFiniteSet(S), NEW f
    PROVE  \E g : AreSums(g, f, S)
<1> DEFINE Good == {s \in SUBSET S : \E g : AreSums(g, f, s)}
<1>1. ASSUME NEW s \in SUBSET S, \A t \in SUBSET s : t # s => t \in Good
      PROVE  s \in Good
    <2> DEFINE h == [t \in SUBSET s |->
                        IF t = {} THEN 0 ELSE f[First(t)] + Sum(f, Rest(t))]
    <2>1. ASSUME NEW u \in SUBSET s, u # s PROVE h[u] = Sum(f, u)
        <3> DEFINE g == CHOOSE g : AreSums(g, f, u)
        <3>1. AreSums(g, f, u)
            BY <1>1, <2>1
        <3>2. Sum(f, u) = g[u]
            BY DEF Sum
        <3> HIDE DEF g
        <3>3. g[u] = IF u = {} THEN 0 ELSE f[First(u)] + g[Rest(u)]
            BY <3>1 DEF AreSums
        <3>4. ASSUME u # {} PROVE g[Rest(u)] = Sum(f, Rest(u))
            <4> DEFINE r == Rest(u)
                       k == CHOOSE k : AreSums(k, f, r)
            <4>1. r \in SUBSET u /\ r \in SUBSET s /\ r # s
                BY <2>1, <3>4, RestFacts
            <4>2. AreSums(k, f, r)
                BY <1>1, <4>1
            <4>3. Sum(f, r) = k[r]
                BY DEF Sum
            <4>4. IsFiniteSet(r)
                BY <4>1, FS_Subset
            <4> HIDE DEF k, r
            <4>5. k[r] = g[r]
                BY <3>1, <4>1, <4>2, <4>4, SumsAgree
            <4> QED
                BY <4>3, <4>5 DEF r
        <3> QED
            BY <3>2, <3>3, <3>4
    <2>2. \A t \in SUBSET s : t # {} => h[Rest(t)] = Sum(f, Rest(t))
        <3> SUFFICES ASSUME NEW t \in SUBSET s, t # {} PROVE h[Rest(t)] = Sum(f, Rest(t))
            OBVIOUS
        <3>1. Rest(t) \in SUBSET s /\ Rest(t) # s
            BY RestFacts
        <3> HIDE DEF h
        <3> QED
            BY <2>1, <3>1
    <2>3. h = [t \in SUBSET s |-> IF t = {} THEN 0 ELSE f[First(t)] + h[Rest(t)]]
        <3> DEFINE e == [t \in SUBSET s |->
                            IF t = {} THEN 0 ELSE f[First(t)] + h[Rest(t)]]
        <3>1. \A t \in SUBSET s : h[t] = e[t]
            <4> SUFFICES ASSUME NEW t \in SUBSET s PROVE h[t] = e[t]
                OBVIOUS
            <4>1. h[t] = IF t = {} THEN 0 ELSE f[First(t)] + Sum(f, Rest(t))
                OBVIOUS
            <4>2. e[t] = IF t = {} THEN 0 ELSE f[First(t)] + h[Rest(t)]
                OBVIOUS
            <4> HIDE DEF h, e
            <4> QED
                BY <2>2, <4>1, <4>2
        <3>2. /\ h = [t \in SUBSET s |-> h[t]]
              /\ e = [t \in SUBSET s |-> e[t]]
            OBVIOUS
        <3> HIDE DEF h, e
        <3>3. h = e
            BY <3>1, <3>2
        <3> QED
            BY <3>3 DEF e
    <2> HIDE DEF h
    <2>4. AreSums(h, f, s)
        BY <2>3 DEF AreSums
    <2> QED
        BY <2>4
<1> HIDE DEF Good
<1>2. SUBSET S \subseteq Good
    BY <1>1, PartsFirst
<1> QED
    BY <1>2 DEF Good

\* What the folds of the library compute for a finite set.
LEMMA SumUnfolds ==
    ASSUME NEW S, IsFiniteSet(S), NEW f
    PROVE  Sum(f, S) = IF S = {} THEN 0 ELSE f[First(S)] + Sum(f, Rest(S))
<1> DEFINE g == CHOOSE g : AreSums(g, f, S)
           r == Rest(S)
           k == CHOOSE k : AreSums(k, f, r)
<1>1. AreSums(g, f, S)
    BY SumsExist
<1>2. Sum(f, S) = g[S] /\ Sum(f, r) = k[r]
    BY DEF Sum
<1> HIDE DEF g
<1>3. g[S] = IF S = {} THEN 0 ELSE f[First(S)] + g[r]
    BY <1>1 DEF AreSums
<1>4. ASSUME S # {} PROVE k[r] = g[r]
    <2>1. r \in SUBSET S
        BY <1>4, RestFacts
    <2>2. IsFiniteSet(r)
        BY <2>1, FS_Subset
    <2>3. AreSums(k, f, r)
        BY <2>2, SumsExist
    <2> HIDE DEF k, r
    <2> QED
        BY <1>1, <2>1, <2>2, <2>3, SumsAgree
<1> QED
    BY <1>2, <1>3, <1>4

\* A sum does not depend on the order.
LEMMA SumWithout ==
    ASSUME NEW S, IsFiniteSet(S), NEW f, \A x \in S : f[x] \in Int
    PROVE  Sum(f, S) \in Int /\ \A x \in S : Sum(f, S) = Sum(f, S \ {x}) + f[x]
<1> DEFINE Good == {s \in SUBSET S :
                       /\ Sum(f, s) \in Int
                       /\ \A x \in s : Sum(f, s) = Sum(f, s \ {x}) + f[x]}
<1>1. ASSUME NEW s \in SUBSET S, \A t \in SUBSET s : t # s => t \in Good
      PROVE  s \in Good
    <2> DEFINE c == First(s)
               r == s \ {c}
    <2>1. Sum(f, s) = IF s = {} THEN 0 ELSE f[c] + Sum(f, r)
        <3>1. IsFiniteSet(s)
            BY FS_Subset
        <3> QED
            BY <3>1, SumUnfolds DEF Rest
    <2>2. CASE s = {}
        BY <2>1, <2>2
    <2>3. CASE s # {}
        <3>1. c \in s
            BY <2>3, RestFacts
        <3> HIDE DEF c
        <3>2. r \in Good /\ f[c] \in Int
            BY <1>1, <3>1
        <3>3. Sum(f, r) \in Int /\ Sum(f, s) = f[c] + Sum(f, r)
            BY <2>1, <2>3, <3>2
        <3>4. ASSUME NEW x \in s, x # c PROVE Sum(f, s) = Sum(f, s \ {x}) + f[x]
            <4> DEFINE q == s \ {x}
                       p == r \ {x}
            <4>1. q \in Good /\ p \in Good /\ f[x] \in Int
                BY <1>1
            <4>2. c \in q /\ q \ {c} = p /\ x \in r
                BY <3>1, <3>4
            <4>3. Sum(f, q) = Sum(f, p) + f[c]
                BY <4>1, <4>2
            <4>4. Sum(f, r) = Sum(f, p) + f[x]
                BY <3>2, <4>2
            <4>5. Sum(f, p) \in Int
                BY <4>1
            <4> HIDE DEF p, q
            <4>6. Sum(f, s) = Sum(f, q) + f[x]
                BY <3>2, <3>3, <4>1, <4>3, <4>4, <4>5
            <4> QED
                BY <4>6 DEF q
        <3>5. Sum(f, s) \in Int /\ Sum(f, s) = Sum(f, s \ {c}) + f[c]
            BY <3>2, <3>3
        <3> QED
            BY <3>4, <3>5
    <2> QED
        BY <2>2, <2>3
<1> HIDE DEF Good
<1>2. SUBSET S \subseteq Good
    BY <1>1, PartsFirst
<1> QED
    BY <1>2 DEF Good

\* The sum over a set and one more element.
LEMMA SumWith ==
    ASSUME NEW S, IsFiniteSet(S), NEW y, y \notin S,
           NEW f, \A x \in S \cup {y} : f[x] \in Int
    PROVE  Sum(f, S \cup {y}) = Sum(f, S) + f[y]
<1> DEFINE whole == S \cup {y}
<1>1. IsFiniteSet(whole) /\ y \in whole /\ whole \ {y} = S
    BY FS_AddElement
<1> HIDE DEF whole
<1>2. Sum(f, whole) = Sum(f, whole \ {y}) + f[y]
    BY <1>1, SumWithout DEF whole
<1> QED
    BY <1>1, <1>2 DEF whole

\* Functions that agree on a set have the same sum over it.
LEMMA SumOfSame ==
    ASSUME NEW S, IsFiniteSet(S), NEW e, NEW f, \A x \in S : e[x] = f[x]
    PROVE  Sum(e, S) = Sum(f, S)
<1> DEFINE Good == {s \in SUBSET S : Sum(e, s) = Sum(f, s)}
<1>1. ASSUME NEW s \in SUBSET S, \A t \in SUBSET s : t # s => t \in Good
      PROVE  s \in Good
    <2>1. IsFiniteSet(s)
        BY FS_Subset
    <2>2. /\ Sum(e, s) = IF s = {} THEN 0 ELSE e[First(s)] + Sum(e, Rest(s))
          /\ Sum(f, s) = IF s = {} THEN 0 ELSE f[First(s)] + Sum(f, Rest(s))
        BY <2>1, SumUnfolds
    <2>3. ASSUME s # {}
          PROVE e[First(s)] = f[First(s)] /\ Sum(e, Rest(s)) = Sum(f, Rest(s))
        <3>1. First(s) \in s /\ Rest(s) \in SUBSET s /\ Rest(s) # s
            BY <2>3, RestFacts
        <3> QED
            BY <1>1, <3>1
    <2> QED
        BY <2>2, <2>3
<1> HIDE DEF Good
<1>2. SUBSET S \subseteq Good
    BY <1>1, PartsFirst
<1> QED
    BY <1>2 DEF Good
----------------------------------------------------------------------------
(***************************************************************************)
(* The invariant.  A block ends before the last one begins, or begins where*)
(* that does: so resize() may know the last block by its offset.  A block  *)
(* older than a savepoint was so when the savepoint was made.              *)
(***************************************************************************)

Under(b, prev, curr) ==
    End(b) <= curr /\ (End(b) <= prev \/ b.offset = prev)

BlocksAreUnder == \A b \in blocks : Under(b, prev_offset, curr_offset)

OlderAreUnder ==
    \A b \in blocks, k \in 1 .. Depth :
        b.scope < k => Under(b, saved[k].prev, saved[k].curr)

IInv ==
    /\ TypeOK
    /\ BlocksAreApart
    /\ BlocksAreAligned
    /\ BlocksAreUnder
    /\ OlderAreUnder

----------------------------------------------------------------------------
\* align_forward goes to a multiple, and never back.
LEMMA AlignForwardFacts ==
    ASSUME NEW p \in Nat, NEW align \in Nat \ {0}
    PROVE  /\ AlignForward(p, align) \in Nat
           /\ AlignForward(p, align) >= p
           /\ AlignForward(p, align) % align = 0
<1>1. AlignForward(p, align) \in Nat /\ AlignForward(p, align) >= p
    BY DEF AlignForward
<1>2. CASE p % align = 0
    BY <1>1, <1>2 DEF AlignForward
<1>3. CASE p % align # 0
    <2> DEFINE q == p \div align
    <2>1. q \in Nat /\ p = align * q + (p % align)
        OBVIOUS
    <2>2. AlignForward(p, align) = p + (align - (p % align))
        BY <1>3 DEF AlignForward
    <2>3. p % align \in Nat
        OBVIOUS
    <2> HIDE DEF q
    <2>4. AlignForward(p, align) = align * q + align
        BY <2>1, <2>2, <2>3
    <2>5. align * q + align = align * (q + 1)
        BY <2>1
    <2> QED
        BY <1>1, <2>1, <2>4, <2>5, MultipleFacts
<1> QED
    BY <1>1, <1>2, <1>3

\* What the invariant says of one block.
LEMMA BlockFacts ==
    ASSUME IInv, NEW b \in blocks
    PROVE  /\ b \in Block
           /\ b.offset \in Nat /\ b.size \in Nat /\ End(b) \in Nat
           /\ b.align \in Nat \ {0} /\ b.scope \in 0 .. Depth
           /\ Depth \in Nat
<1>1. b \in Block
    BY DEF IInv, TypeOK
<1>2. Depth \in Nat
    BY DEF IInv, TypeOK, Depth
<1>3. /\ b.offset \in Nat /\ b.size \in Nat
      /\ b.align \in Aligns /\ b.scope \in 0 .. Depth
    BY <1>1 DEF Block
<1>4. b.align \in Nat \ {0}
    BY <1>3, RequestsAssumption
<1>5. End(b) \in Nat
    BY <1>3 DEF End
<1> QED
    BY <1>1, <1>2, <1>3, <1>4, <1>5

\* Blocks already there stay apart, aligned and in order when some are dropped
\* and one is added that begins at an offset no earlier block reaches past.
LEMMA TakeStep ==
    ASSUME IInv, NEW old \in SUBSET blocks, NEW size \in Sizes,
           NEW align \in Aligns, TakeInsteadOf(old, size, align)
    PROVE  IInv'
<1> DEFINE new == Placed(size, align)
           at  == OffsetFor(align)
<1>1. /\ size \in Nat /\ align \in Nat \ {0}
      /\ curr_offset \in Nat /\ Base \in Nat /\ BufLen \in Nat
      /\ Depth \in Nat
    BY RequestsAssumption, BufferAssumption DEF IInv, TypeOK, Depth
<1>2. at \in Nat /\ at >= curr_offset /\ (Base + at) % align = 0
    <2>1. Base + curr_offset \in Nat
        BY <1>1
    <2> DEFINE f == AlignForward(Base + curr_offset, align)
    <2>2. f \in Nat /\ f >= Base + curr_offset /\ f % align = 0
        BY <1>1, <2>1, AlignForwardFacts
    <2>3. at = f - Base
        BY DEF OffsetFor
    <2> HIDE DEF f, at
    <2>4. Base + at = f
        BY <1>1, <2>2, <2>3
    <2> QED
        BY <1>1, <2>2, <2>3, <2>4
<1>3. /\ at + size <= BufLen
      /\ prev_offset' = at /\ curr_offset' = at + size
      /\ blocks' = (blocks \ old) \cup {new}
      /\ saved' = saved /\ Depth' = Depth
    BY DEF TakeInsteadOf, HasRoom, Depth
<1>4. /\ new = [offset |-> at, size |-> size, align |-> align,
                scope |-> Depth]
      /\ new.offset = at /\ new.align = align /\ new.scope = Depth
      /\ End(new) = at + size
    BY DEF Placed, End
<1> HIDE DEF new, at
<1>5. new \in Block
    BY <1>1, <1>2, <1>4 DEF Block
<1>6. TypeOK'
    <2>1. Block' = Block
        BY <1>3 DEF Block
    <2> QED
        BY <1>1, <1>2, <1>3, <1>5, <2>1 DEF IInv, TypeOK, Depth
<1>7. \A b \in blocks : End(b) \in Nat /\ End(b) <= at /\ b.scope \in Nat
    <2> TAKE b \in blocks
    <2>1. End(b) \in Nat /\ End(b) <= curr_offset /\ b.scope \in Nat
        BY BlockFacts DEF IInv, BlocksAreUnder, Under
    <2> QED
        BY <1>1, <1>2, <2>1
<1>8. BlocksAreApart'
    <2>1. ASSUME NEW b \in blocks' PROVE End(b) <= BufLen
        BY <1>3, <1>4 DEF IInv, BlocksAreApart
    <2>2. ASSUME NEW b \in blocks', NEW c \in blocks'
          PROVE  b = c \/ End(b) <= c.offset \/ End(c) <= b.offset
        BY <1>3, <1>4, <1>7 DEF IInv, BlocksAreApart
    <2> QED
        BY <2>1, <2>2 DEF BlocksAreApart, End
<1>9. BlocksAreAligned'
    BY <1>2, <1>3, <1>4 DEF IInv, BlocksAreAligned
<1>10. BlocksAreUnder'
    <2> SUFFICES ASSUME NEW b \in blocks'
                 PROVE  End(b) <= at + size /\ (End(b) <= at \/ b.offset = at)
        BY <1>3 DEF BlocksAreUnder, Under, End
    <2>1. CASE b \in blocks
        BY <1>1, <1>2, <1>7, <2>1
    <2>2. CASE b = new
        BY <1>1, <1>2, <1>4, <2>2
    <2> QED
        BY <1>3, <2>1, <2>2
<1>11. OlderAreUnder'
    <2> SUFFICES ASSUME NEW b \in blocks', NEW k \in 1 .. Depth, b.scope < k
                 PROVE  Under(b, saved[k].prev, saved[k].curr)
        BY <1>3 DEF OlderAreUnder, Under, End
    <2>1. b \in blocks
        BY <1>1, <1>3, <1>4
    <2> QED
        BY <2>1 DEF IInv, OlderAreUnder
<1> QED
    BY <1>6, <1>8, <1>9, <1>10, <1>11 DEF IInv

\* In place, only the end of the last block moves, and nothing lies after it.
LEMMA ResizeLastStep ==
    ASSUME IInv, NEW b \in blocks, NEW size \in Sizes, NEW align \in Aligns,
           b.scope = Depth, GrowthFits(b, size), ResizeLast(b, size, align)
    PROVE  IInv'
<1> DEFINE new == [b EXCEPT !.size = size]
<1>1. /\ size \in Nat /\ BufLen \in Nat /\ Depth \in Nat
      /\ b.offset \in Nat /\ b.size \in Nat /\ b \in Block
    BY BlockFacts, RequestsAssumption, BufferAssumption
<1>2. /\ b.size > 0 /\ b.offset = prev_offset
      /\ prev_offset' = b.offset /\ curr_offset' = b.offset + size
      /\ b.offset + size <= BufLen
      /\ blocks' = (blocks \ {b}) \cup {new}
      /\ saved' = saved /\ Depth' = Depth
    BY DEF ResizeLast, IsLast, GrowthFits, Depth
<1>3. /\ new \in Block /\ new.offset = b.offset /\ new.align = b.align
      /\ new.scope = Depth /\ End(new) = b.offset + size
    BY <1>1 DEF Block, End
<1> HIDE DEF new
<1>4. ASSUME NEW c \in blocks, c # b
      PROVE  End(c) \in Nat /\ End(c) <= b.offset
    <2>1. End(c) \in Nat /\ c.offset \in Nat
        BY BlockFacts
    <2>2. End(b) <= c.offset \/ End(c) <= b.offset
        BY <1>4 DEF IInv, BlocksAreApart
    <2>3. End(c) <= b.offset \/ c.offset = b.offset
        BY <1>2 DEF IInv, BlocksAreUnder, Under
    <2>4. End(b) \in Nat /\ End(b) > b.offset
        BY <1>1, <1>2 DEF End
    <2> QED
        BY <1>1, <2>1, <2>2, <2>3, <2>4
<1>5. TypeOK'
    <2>1. Block' = Block
        BY <1>2 DEF Block
    <2> QED
        BY <1>1, <1>2, <1>3, <2>1 DEF IInv, TypeOK, Depth
<1>6. BlocksAreApart'
    <2>1. ASSUME NEW c \in blocks' PROVE End(c) <= BufLen
        BY <1>2, <1>3 DEF IInv, BlocksAreApart
    <2>2. ASSUME NEW c \in blocks', NEW d \in blocks'
          PROVE  c = d \/ End(c) <= d.offset \/ End(d) <= c.offset
        BY <1>2, <1>3, <1>4 DEF IInv, BlocksAreApart
    <2> QED
        BY <2>1, <2>2 DEF BlocksAreApart, End
<1>7. BlocksAreAligned'
    BY <1>2, <1>3 DEF IInv, BlocksAreAligned
<1>8. BlocksAreUnder'
    <2> SUFFICES ASSUME NEW c \in blocks'
                 PROVE  /\ End(c) <= b.offset + size
                        /\ End(c) <= b.offset \/ c.offset = b.offset
        BY <1>2 DEF BlocksAreUnder, Under, End
    <2>1. CASE c \in blocks /\ c # b
        BY <1>1, <1>4, <2>1
    <2>2. CASE c = new
        BY <1>1, <1>3, <2>2
    <2> QED
        BY <1>2, <2>1, <2>2
<1>9. OlderAreUnder'
    <2> SUFFICES ASSUME NEW c \in blocks', NEW k \in 1 .. Depth, c.scope < k
                 PROVE  Under(c, saved[k].prev, saved[k].curr)
        BY <1>2 DEF OlderAreUnder, Under, End
    <2>1. c \in blocks
        BY <1>1, <1>2, <1>3
    <2> QED
        BY <2>1 DEF IInv, OlderAreUnder
<1> QED
    BY <1>5, <1>6, <1>7, <1>8, <1>9 DEF IInv

\* A new savepoint is above every block that is there.
LEMMA MakeSavepointStep == IInv /\ MakeSavepoint => IInv'
<1> SUFFICES ASSUME IInv, MakeSavepoint PROVE IInv'
    OBVIOUS
<1> DEFINE point == [prev |-> prev_offset, curr |-> curr_offset]
<1>1. /\ saved' = Append(saved, point)
      /\ UNCHANGED <<prev_offset, curr_offset, blocks>>
    BY DEF MakeSavepoint
<1>2. /\ saved \in Seq([prev : Nat, curr : Nat])
      /\ point \in [prev : Nat, curr : Nat]
      /\ point.prev <= point.curr /\ point.curr <= BufLen
      /\ Depth \in Nat /\ Depth = Len(saved)
    BY DEF IInv, TypeOK, Depth
<1>3. /\ saved' \in Seq([prev : Nat, curr : Nat])
      /\ Depth' = Depth + 1 /\ saved'[Depth + 1] = point
      /\ \A k \in 1 .. Depth : saved'[k] = saved[k]
    BY <1>1, <1>2, AppendProperties DEF Depth
<1>4. TypeOK'
    <2>1. Block \subseteq Block'
        BY <1>2, <1>3 DEF Block
    <2>2. \A k \in 1 .. Depth + 1 :
              saved'[k].prev <= saved'[k].curr /\ saved'[k].curr <= BufLen
        <3> TAKE k \in 1 .. Depth + 1
        <3>1. CASE k = Depth + 1
            BY <1>2, <1>3, <3>1
        <3>2. CASE k \in 1 .. Depth
            BY <1>3, <3>2 DEF IInv, TypeOK
        <3> QED
            BY <1>2, <3>1, <3>2
    <2> QED
        BY <1>1, <1>3, <2>1, <2>2 DEF IInv, TypeOK
<1>5. BlocksAreApart' /\ BlocksAreAligned' /\ BlocksAreUnder'
    BY <1>1 DEF IInv, BlocksAreApart, BlocksAreAligned, BlocksAreUnder, Under,
                End
<1>6. OlderAreUnder'
    <2> SUFFICES ASSUME NEW b \in blocks, NEW k \in 1 .. Depth + 1, b.scope < k
                 PROVE  Under(b, saved'[k].prev, saved'[k].curr)
        BY <1>1, <1>3 DEF OlderAreUnder, Under, End
    <2>1. CASE k = Depth + 1
        BY <1>3, <2>1 DEF IInv, BlocksAreUnder
    <2>2. CASE k \in 1 .. Depth
        BY <1>3, <2>2 DEF IInv, OlderAreUnder
    <2> QED
        BY <1>2, <2>1, <2>2
<1> QED
    BY <1>4, <1>5, <1>6 DEF IInv

\* The blocks that stay when a savepoint goes are the ones older than it.
LEMMA LeaveSavepointStep == IInv /\ LeaveSavepoint => IInv'
<1> SUFFICES ASSUME IInv, LeaveSavepoint PROVE IInv'
    OBVIOUS
<1>1. /\ Depth > 0
      /\ prev_offset' = saved[Depth].prev /\ curr_offset' = saved[Depth].curr
      /\ saved' = SubSeq(saved, 1, Depth - 1)
      /\ blocks' = {b \in blocks : b.scope < Depth}
    BY DEF LeaveSavepoint
<1>2. /\ saved \in Seq([prev : Nat, curr : Nat])
      /\ Depth \in Nat /\ Depth = Len(saved) /\ Depth \in 1 .. Depth
    BY <1>1 DEF IInv, TypeOK, Depth
<1>3. /\ saved' \in Seq([prev : Nat, curr : Nat])
      /\ Depth' = Depth - 1
      /\ \A k \in 1 .. Depth - 1 : saved'[k] = saved[k]
    <2> DEFINE S == [prev : Nat, curr : Nat]
               n == Depth - 1
    <2>1. n \in Nat /\ 1 \in Int
        BY <1>1, <1>2
    <2>2. ASSUME NEW i \in 1 .. n PROVE saved[i] \in S
        <3>1. i \in 1 .. Len(saved)
            BY <1>2
        <3> QED
            BY <1>2, <3>1, ElementOfSeq
    <2> HIDE DEF S, n
    <2>3. /\ SubSeq(saved, 1, n) \in Seq(S)
          /\ Len(SubSeq(saved, 1, n)) = IF 1 <= n THEN n - 1 + 1 ELSE 0
          /\ \A i \in 1 .. n - 1 + 1 : SubSeq(saved, 1, n)[i] = saved[1 + i - 1]
        BY <2>1, <2>2, SubSeqProperties
    <2>4. Len(SubSeq(saved, 1, n)) = n /\ n - 1 + 1 = n
        BY <2>1, <2>3
    <2>5. \A i \in 1 .. n : SubSeq(saved, 1, n)[i] = saved[i]
        <3> TAKE i \in 1 .. n
        <3>1. i \in 1 .. n - 1 + 1 /\ 1 + i - 1 = i
            BY <2>4
        <3> QED
            BY <2>3, <3>1
    <2>6. saved' = SubSeq(saved, 1, n)
        BY <1>1 DEF n
    <2> QED
        BY <2>3, <2>4, <2>5, <2>6 DEF S, n, Depth
<1>4. saved[Depth] \in [prev : Nat, curr : Nat]
    BY <1>2, ElementOfSeq
<1>5. TypeOK'
    <2>1. ASSUME NEW b \in blocks' PROVE b \in Block'
        <3>1. b \in Block /\ b.scope \in 0 .. Depth - 1
            BY <1>1, <1>2, BlockFacts
        <3> QED
            BY <1>3, <3>1 DEF Block
    <2>2. \A k \in 1 .. Depth - 1 :
              saved'[k].prev <= saved'[k].curr /\ saved'[k].curr <= BufLen
        <3> TAKE k \in 1 .. Depth - 1
        <3>1. k \in 1 .. Depth /\ saved'[k] = saved[k]
            BY <1>2, <1>3
        <3> QED
            BY <3>1 DEF IInv, TypeOK
    <2>3. /\ saved[Depth].prev <= saved[Depth].curr
          /\ saved[Depth].curr <= BufLen
        BY <1>2 DEF IInv, TypeOK
    <2> QED
        BY <1>1, <1>3, <1>4, <2>1, <2>2, <2>3 DEF TypeOK
<1>6. BlocksAreApart' /\ BlocksAreAligned'
    BY <1>1 DEF IInv, BlocksAreApart, BlocksAreAligned, End
<1>7. BlocksAreUnder'
    <2> SUFFICES ASSUME NEW b \in blocks, b.scope < Depth
                 PROVE  Under(b, saved[Depth].prev, saved[Depth].curr)
        BY <1>1 DEF BlocksAreUnder, Under, End
    <2> QED
        BY <1>2 DEF IInv, OlderAreUnder
<1>8. OlderAreUnder'
    <2> SUFFICES ASSUME NEW b \in blocks, NEW k \in 1 .. Depth - 1, b.scope < k
                 PROVE  Under(b, saved'[k].prev, saved'[k].curr)
        BY <1>1, <1>3 DEF OlderAreUnder, Under, End
    <2>1. k \in 1 .. Depth
        BY <1>2
    <2>2. saved'[k] = saved[k]
        BY <1>3
    <2> QED
        BY <2>1, <2>2 DEF IInv, OlderAreUnder
<1> QED
    BY <1>5, <1>6, <1>7, <1>8 DEF IInv

\* A reset leaves no block to keep apart.
LEMMA DeallocateStep == IInv /\ Deallocate => IInv'
BY BufferAssumption
   DEF Deallocate, IInv, TypeOK, BlocksAreApart, BlocksAreAligned,
       BlocksAreUnder, OlderAreUnder, Depth

\* Calls that leave the arena and the callers' blocks as they are.
LEMMA QuietStep ==
    ASSUME IInv, UNCHANGED <<prev_offset, curr_offset, saved, blocks>>
    PROVE  IInv'
BY DEF IInv, TypeOK, BlocksAreApart, BlocksAreAligned, BlocksAreUnder,
       OlderAreUnder, Under, End, Depth, Block

LEMMA InitStep == Init => IInv
BY BufferAssumption
   DEF Init, IInv, TypeOK, BlocksAreApart, BlocksAreAligned, BlocksAreUnder,
       OlderAreUnder, Depth

LEMMA NextStep == IInv /\ [Next]_vars => IInv'
<1> SUFFICES ASSUME IInv, [Next]_vars PROVE IInv'
    OBVIOUS
<1>1. CASE UNCHANGED vars
    BY <1>1, QuietStep DEF vars
<1>2. ASSUME NEW size \in Sizes, NEW align \in Aligns, Allocate(size, align)
      PROVE  IInv'
    <2>1. CASE TakeInsteadOf({}, size, align)
        BY <2>1, TakeStep
    <2>2. CASE UNCHANGED <<prev_offset, curr_offset, saved, blocks>>
        BY <2>2, QuietStep
    <2> QED
        BY <1>2, <2>1, <2>2 DEF Allocate
<1>3. ASSUME NEW b \in blocks, NEW size \in Sizes, NEW align \in Aligns,
             b.scope = Depth, GrowthFits(b, size), ResizeLast(b, size, align)
      PROVE  IInv'
    BY <1>3, ResizeLastStep
<1>4. ASSUME NEW b \in blocks, NEW size \in Sizes, NEW align \in Aligns,
             ResizeMoved(b, size, align) \/ ResizeEmpty(b, size, align)
      PROVE  IInv'
    <2>1. {b} \in SUBSET blocks
        OBVIOUS
    <2>2. CASE TakeInsteadOf({b}, size, align)
        BY <2>1, <2>2, TakeStep
    <2>3. CASE UNCHANGED <<prev_offset, curr_offset, saved, blocks>>
        BY <2>3, QuietStep
    <2> QED
        BY <1>4, <2>2, <2>3 DEF ResizeMoved, ResizeEmpty
<1> QED
    BY <1>1, <1>2, <1>3, <1>4, DeallocateStep, MakeSavepointStep,
       LeaveSavepointStep DEF Next

----------------------------------------------------------------------------
\* Whatever careful callers allocate, resize, reset and give back through
\* savepoints, in whatever order: no two of them share a byte, and every block
\* lies in the buffer, at the alignment asked of the call that placed it.
THEOREM ArenaCorrect == Spec => [](TypeOK /\ BlocksAreApart /\ BlocksAreAligned)
<1>1. IInv => TypeOK /\ BlocksAreApart /\ BlocksAreAligned
    BY DEF IInv
<1> QED
    BY <1>1, InitStep, NextStep, PTL DEF Spec

\* The offsets of the arena and of its savepoints stay in the buffer.
THEOREM OffsetsCorrect == Spec => []TypeOK
BY ArenaCorrect, PTL

\* Every block is aligned as the call that placed it there was asked, wherever the
\* buffer begins: no savepoint and no resize in place moves it, and a resize that
\* moves it aligns it as that resize was asked.
THEOREM AlignmentCorrect == Spec => []BlocksAreAligned
BY ArenaCorrect, PTL

\* Where a call writes: in the buffer, from the beginning of the last block or
\* behind the end of all blocks.
LEMMA WritesFromEnd ==
    ASSUME IInv', NEW first \in Nat, NEW past \in Int,
           written' = first .. past - 1,
           past <= BufLen,
           first = prev_offset' \/ first = curr_offset'
    PROVE  WritesSpareBlocks'
<1>1. written' \subseteq 0 .. BufLen - 1
    BY BufferAssumption
<1>2. ASSUME NEW b \in blocks', b.offset # prev_offset' PROVE Bytes(b) \cap written' = {}
    <2>1. b.offset \in Nat /\ b.size \in Nat /\ b.offset + b.size \in Nat
        BY DEF IInv, TypeOK, Block
    <2>2. /\ b.offset + b.size <= curr_offset' /\ b.offset + b.size <= prev_offset'
          /\ prev_offset' \in Nat /\ curr_offset' \in Nat
        BY <1>2 DEF IInv, TypeOK, BlocksAreUnder, Under, End
    <2> QED
        BY <2>1, <2>2 DEF Bytes, End
<1> QED
    BY <1>1, <1>2 DEF WritesSpareBlocks, Bytes, End

LEMMA WritingNothing ==
    ASSUME written' = {}
    PROVE  WritesSpareBlocks'
BY DEF WritesSpareBlocks

LEMMA FewerFit ==
    ASSUME NEW start \in Nat, NEW k \in Nat, NEW n \in Nat, NEW limit \in Nat,
           n <= k, start + k <= limit
    PROVE  start + n <= limit
OBVIOUS

LEMMA ResizeWrites ==
    ASSUME IInv, IInv', NEW b \in blocks, NEW size \in Sizes, NEW align \in Aligns,
           \/ GrowthFits(b, size) /\ ResizeLast(b, size, align)
           \/ ResizeMoved(b, size, align)
    PROVE  WritesSpareBlocks'
<1>1. /\ b.offset \in Nat /\ b.size \in Nat /\ size \in Nat
      /\ BufLen \in Nat /\ curr_offset' \in Nat /\ prev_offset' \in Nat
    BY BlockFacts, RequestsAssumption, BufferAssumption DEF IInv, TypeOK
<1>2. CASE GrowthFits(b, size) /\ ResizeLast(b, size, align)
    <2>1. /\ curr_offset' = b.offset + size
          /\ written' = curr_offset' .. curr_offset' + (size - b.size) - 1
          /\ curr_offset' + (size - b.size) <= BufLen
          /\ curr_offset' + (size - b.size) \in Int
        BY <1>1, <1>2 DEF ResizeLast, GrowthFits, IsLast
    <2> DEFINE past == curr_offset' + (size - b.size)
    <2>2. past \in Int /\ past <= BufLen
        BY <2>1
    <2>3. curr_offset' + (size - b.size) - 1 = past - 1
        BY <1>1
    <2>4. written' = curr_offset' .. past - 1
        BY <2>1, <2>3, Zenon
    <2> HIDE DEF past
    <2> QED
        BY <1>1, <2>2, <2>4, WritesFromEnd
<1>3. CASE ResizeMoved(b, size, align)
    <2> DEFINE moved == IF b.size < size THEN b.size ELSE size
    <2>1. prev_offset' + size <= BufLen
        BY <1>3 DEF ResizeMoved, TakeInsteadOf, HasRoom
    <2>2. written' = prev_offset' .. prev_offset' + moved - 1
        BY <1>3 DEF ResizeMoved, TakeInsteadOf
    <2>3. moved \in Nat /\ moved <= size
        BY <1>1
    <2> HIDE DEF moved
    <2>4. PICK past : past = prev_offset' + moved
        OBVIOUS
    <2>5. past \in Int
        BY <1>1, <2>3, <2>4
    <2>6. past <= BufLen
        BY <1>1, <2>1, <2>3, <2>4, FewerFit, Zenon
    <2>7. prev_offset' + moved - 1 = past - 1
        BY <1>1, <2>3, <2>4
    <2>8. written' = prev_offset' .. past - 1
        BY <2>2, <2>7, Zenon
    <2> QED
        BY <1>1, <2>5, <2>6, <2>8, WritesFromEnd
<1> QED
    BY <1>2, <1>3

\* For every buffer, sizes, alignments and savepoints: what resize() clears or
\* copies is in the buffer, in the block it returns or in nobody's.
THEOREM WritesCorrect == Spec => []WritesSpareBlocks
<1>1. Init => WritesSpareBlocks
    BY DEF Init, WritesSpareBlocks
<1>2. IInv /\ IInv' /\ WritesSpareBlocks /\ [Next]_vars => WritesSpareBlocks'
    <2> SUFFICES ASSUME IInv, IInv', WritesSpareBlocks, [Next]_vars
                 PROVE  WritesSpareBlocks'
        OBVIOUS
    <2>1. CASE UNCHANGED vars
        BY <2>1 DEF vars, WritesSpareBlocks, Bytes, End
    <2>2. ASSUME NEW size \in Sizes, NEW align \in Aligns, Allocate(size, align)
          PROVE  WritesSpareBlocks'
        BY <2>2, WritingNothing DEF Allocate
    <2>3. ASSUME NEW b \in blocks, NEW size \in Sizes, NEW align \in Aligns,
                 \/ GrowthFits(b, size) /\ ResizeLast(b, size, align)
                 \/ ResizeMoved(b, size, align)
                 \/ ResizeEmpty(b, size, align)
          PROVE  WritesSpareBlocks'
        BY <2>3, ResizeWrites, WritingNothing DEF ResizeEmpty
    <2>4. CASE Deallocate \/ MakeSavepoint \/ LeaveSavepoint
        BY <2>4, WritingNothing DEF Deallocate, MakeSavepoint, LeaveSavepoint
    <2> QED
        BY <2>1, <2>2, <2>3, <2>4 DEF Next
<1> QED
    BY <1>1, <1>2, InitStep, NextStep, PTL DEF Spec

----------------------------------------------------------------------------
(* Tuples.                                                                 *)

\* StorageSize is this sum.
LEMMA StorageSum == ASSUME NEW f PROVE T!SumFunction(f) = Sum(f, DOMAIN f)
BY Zenon DEF T!SumFunction, T!SumFunctionOnSet, T!FoldFunctionOnSet, T!MapThenFoldSet,
   Sum, AreSums, First, Rest

Positions == 0 .. count - 1

Entry == [original_index : Nat, align : Nat \ {0}, size : Nat \ {0}, offset : Nat]

\* An entry for each member, and for no other, in any order.
Permuted(e) ==
    /\ e \in [Positions -> Entry]
    /\ \A k \in Positions :
           /\ e[k].original_index \in Positions
           /\ e[k].align = members[e[k].original_index].align
           /\ e[k].size = members[e[k].original_index].size
    /\ \A k, l \in Positions : e[k].original_index = e[l].original_index => k = l
    /\ \A I \in Positions : \E k \in Positions : e[k].original_index = I

\* The last ones, which the passes have sorted: none before them is less aligned.
SortedFrom(e, m) ==
    \A k, l \in Positions : k < l /\ m <= l => e[l].align <= e[k].align

sizes == [I \in DOMAIN members |-> members[I].size]

Before(e, k) == {e[l].original_index : l \in 0 .. k - 1}

\* The first m offsets: aligned, behind each other, without a gap.
MembersPlaced(e, m) ==
    \A k \in 0 .. m - 1 :
        /\ e[k].offset % e[k].align = 0
        /\ e[k].offset = Sum(sizes, Before(e, k))
        /\ \A l \in 0 .. k - 1 : e[l].offset + e[l].size <= e[k].offset

\* Where the first m members end.
EndOf(e, m) == IF m = 0 THEN 0 ELSE e[m - 1].offset + e[m - 1].size

\* The first m members are in the storage, and nothing else.
Stored(e, m) ==
    /\ DOMAIN storage = 0 .. EndOf(e, m) - 1
    /\ \A k \in 0 .. m - 1, b \in Nat :
           b \in T!Bytes(e[k]) =>
               storage[b] = [member |-> e[k].original_index, byte |-> b - e[k].offset]

TupleInv ==
    /\ count \in Nat \ {0} /\ members \in [Positions -> Types]
    /\ Permuted(info)
    /\ phase \in {"sort", "offsets", "construct", "done"}
    /\ phase = "sort" =>
           /\ pass \in Positions /\ turn \in 1 .. count - pass
           /\ SortedFrom(info, count - pass)
           /\ \A k \in 0 .. turn - 1 : info[turn - 1].align <= info[k].align
           /\ \A k \in Positions : info[k].offset = 0
           /\ idx = 1
    /\ phase # "sort" => SortedFrom(info, 0)
    /\ phase = "offsets" => idx \in 1 .. count /\ MembersPlaced(info, idx)
    /\ phase \in {"sort", "offsets"} => DOMAIN storage = {}
    /\ phase \in {"construct", "done"} =>
           /\ idx \in 0 .. count
           /\ MembersPlaced(info, count)
           /\ Stored(info, idx)
    /\ phase = "done" => idx = count

----------------------------------------------------------------------------
LEMMA TypeFacts ==
    /\ \A t \in Types : t.align \in Nat \ {0} /\ t.size \in Nat \ {0}
    /\ \A t \in Types : t.size % t.align = 0
    /\ \A s, t \in Types : s.align <= t.align => t.align % s.align = 0
<1>1. \A t \in Types : t \in [align : Nat \ {0}, size : Nat \ {0}]
    BY TupleAssumption DEF T!TypesAssumption
<1> QED
    BY <1>1, TupleAssumption DEF T!AlignmentAssumption

LEMMA TupleInit == T!Init => TupleInv
<1> SUFFICES ASSUME T!Init PROVE TupleInv
    OBVIOUS
<1>1. /\ count \in Nat \ {0} /\ members \in [Positions -> Types]
      /\ info = [k \in Positions |->
                    [original_index |-> k, align |-> members[k].align,
                     size |-> members[k].size, offset |-> 0]]
      /\ pass = 0 /\ turn = 1 /\ idx = 1 /\ phase = "sort"
      /\ storage = [b \in {} |-> 0]
    BY TupleAssumption DEF T!Init, T!MaxMembersAssumption, Positions
<1>2. \A k \in Positions : k \in Nat /\ members[k] \in Types
    BY <1>1 DEF Positions
<1>3. ASSUME NEW k \in Positions
      PROVE  /\ info[k] \in Entry /\ info[k].original_index = k
             /\ info[k].align = members[k].align /\ info[k].size = members[k].size
             /\ info[k].offset = 0
    <2>1. members[k].align \in Nat \ {0} /\ members[k].size \in Nat \ {0} /\ k \in Nat
        BY <1>2, TypeFacts
    <2>2. info[k] = [original_index |-> k, align |-> members[k].align,
                     size |-> members[k].size, offset |-> 0]
        BY <1>1
    <2> QED
        BY <2>1, <2>2 DEF Entry
<1>4. Permuted(info)
    <2>1. info \in [Positions -> Entry]
        BY <1>1, <1>3
    <2> QED
        BY <1>3, <2>1 DEF Permuted
<1>5. SortedFrom(info, count - pass)
    BY <1>1 DEF SortedFrom, Positions
<1>6. 0 \in Positions /\ info[0].align \in Nat
    BY <1>1, <1>4 DEF Permuted, Positions, Entry
<1>7. \A k \in 0 .. turn - 1 : info[turn - 1].align <= info[k].align
    BY <1>1, <1>6
<1>8. pass \in Positions /\ turn \in 1 .. count - pass
    BY <1>1, <1>6
<1> QED
    BY <1>1, <1>3, <1>4, <1>5, <1>7, <1>8 DEF TupleInv

----------------------------------------------------------------------------
(* The sort.                                                               *)

LEMMA EntryFacts ==
    ASSUME NEW e, Permuted(e)
    PROVE  \A k \in Positions :
               /\ e[k] \in Entry /\ e[k].align \in Nat \ {0}
               /\ e[k].size \in Nat \ {0} /\ e[k].offset \in Nat
               /\ e[k].original_index \in Nat
BY DEF Permuted, Entry

LEMMA SwapFacts ==
    ASSUME count \in Nat, NEW e, Permuted(e), NEW p \in 1 .. count - 1,
           NEW d \in [Positions -> Entry], d[p - 1] = e[p], d[p] = e[p - 1],
           \A k \in Positions : k # p - 1 /\ k # p => d[k] = e[k]
    PROVE  Permuted(d)
<1>1. p \in Positions /\ p - 1 \in Positions /\ p - 1 # p
    BY DEF Positions
<1> DEFINE from(k) == IF k = p THEN p - 1 ELSE IF k = p - 1 THEN p ELSE k
<1>4. \A k \in Positions : from(k) \in Positions /\ d[k] = e[from(k)]
    BY <1>1
<1>5. \A k, l \in Positions : from(k) = from(l) => k = l
    BY <1>1
<1>6. \A k \in Positions : from(from(k)) = k
    BY <1>1
<1> HIDE DEF from
<1>7. \A I \in Positions : \E k \in Positions : d[k].original_index = I
    <2> SUFFICES ASSUME NEW I \in Positions
                 PROVE  \E k \in Positions : d[k].original_index = I
        OBVIOUS
    <2>1. PICK k \in Positions : e[k].original_index = I
        BY DEF Permuted
    <2>2. from(k) \in Positions /\ d[from(k)] = e[k]
        BY <1>4, <1>6, <2>1
    <2> QED
        BY <2>1, <2>2
<1>3. /\ \A k \in Positions :
             /\ e[k].original_index \in Positions
             /\ e[k].align = members[e[k].original_index].align
             /\ e[k].size = members[e[k].original_index].size
      /\ \A k, l \in Positions : e[k].original_index = e[l].original_index => k = l
    BY DEF Permuted
<1>8. \A k, l \in Positions : d[k].original_index = d[l].original_index => k = l
    <2> SUFFICES ASSUME NEW k \in Positions, NEW l \in Positions,
                        d[k].original_index = d[l].original_index
                 PROVE  k = l
        OBVIOUS
    <2>1. from(k) \in Positions /\ from(l) \in Positions
          /\ e[from(k)].original_index = e[from(l)].original_index
        BY <1>4
    <2>2. from(k) = from(l)
        BY <1>3, <2>1
    <2> QED
        BY <1>5, <2>2
<1>9. \A k \in Positions :
          /\ d[k].original_index \in Positions
          /\ d[k].align = members[d[k].original_index].align
          /\ d[k].size = members[d[k].original_index].size
    <2> SUFFICES ASSUME NEW k \in Positions
                 PROVE  /\ d[k].original_index \in Positions
                        /\ d[k].align = members[d[k].original_index].align
                        /\ d[k].size = members[d[k].original_index].size
        OBVIOUS
    <2>1. from(k) \in Positions /\ d[k] = e[from(k)]
        BY <1>4
    <2> QED
        BY <1>3, <2>1
<1> QED
    BY <1>7, <1>8, <1>9 DEF Permuted

LEMMA SortTurnKeeps ==
    ASSUME TupleInv, T!SortTurn
    PROVE  TupleInv'
<1>1. /\ phase = "sort" /\ turn < count - pass
      /\ info' = IF T!OutOfOrder THEN T!Swapped ELSE info
      /\ turn' = turn + 1
      /\ count' = count /\ members' = members /\ pass' = pass /\ idx' = idx
      /\ phase' = phase /\ storage' = storage
    BY DEF T!SortTurn
<1>2. /\ count \in Nat \ {0} /\ members \in [Positions -> Types]
      /\ Permuted(info)
      /\ pass \in Positions /\ turn \in 1 .. count - pass
      /\ SortedFrom(info, count - pass)
      /\ \A k \in 0 .. turn - 1 : info[turn - 1].align <= info[k].align
      /\ \A k \in Positions : info[k].offset = 0
      /\ idx = 1
      /\ DOMAIN storage = {}
    BY <1>1 DEF TupleInv
<1>3. /\ pass \in Nat /\ turn \in 1 .. count - 1 /\ turn + 1 \in 1 .. count - pass
      /\ turn \in Positions /\ turn - 1 \in Positions
    BY <1>1, <1>2 DEF Positions
<1>4. Positions' = Positions
    BY <1>1 DEF Positions
<1> DEFINE d == info'
<1>5. /\ Permuted(d)
      /\ \A k \in Positions : k # turn - 1 /\ k # turn => d[k] = info[k]
      /\ d[turn].align <= d[turn - 1].align
      /\ {d[turn - 1], d[turn]} = {info[turn - 1], info[turn]}
    <2>1. info[turn - 1].align \in Nat /\ info[turn].align \in Nat
        BY <1>2, <1>3, EntryFacts
    <2>2. CASE T!OutOfOrder
        <3>1. d = [info EXCEPT ![turn - 1] = info[turn], ![turn] = info[turn - 1]]
            BY <1>1, <2>2 DEF T!Swapped
        <3>2. info[turn - 1].align < info[turn].align
            BY <2>2 DEF T!OutOfOrder
        <3> HIDE DEF d
        <3>3. info \in [Positions -> Entry] /\ turn - 1 # turn
            BY <1>2, <1>3 DEF Permuted
        <3>4. /\ d \in [Positions -> Entry]
              /\ d[turn - 1] = info[turn] /\ d[turn] = info[turn - 1]
              /\ \A k \in Positions : k # turn - 1 /\ k # turn => d[k] = info[k]
            BY <1>3, <3>1, <3>3
        <3>5. Permuted(d)
            BY <1>2, <1>3, <3>4, SwapFacts
        <3> QED
            BY <2>1, <3>2, <3>4, <3>5
    <2>3. CASE ~T!OutOfOrder
        <3>1. d = info
            BY <1>1, <2>3
        <3>2. ~(info[turn - 1].align < info[turn].align)
            BY <2>3 DEF T!OutOfOrder
        <3> HIDE DEF d
        <3> QED
            BY <1>2, <2>1, <3>1, <3>2
    <2> QED
        BY <2>2, <2>3
<1> HIDE DEF d
<1>6. \A k \in Positions : d[k].align \in Nat
    BY <1>5, EntryFacts
<1>7. \A k \in 0 .. turn : d[turn].align <= d[k].align
    <2> SUFFICES ASSUME NEW k \in 0 .. turn PROVE d[turn].align <= d[k].align
        OBVIOUS
    <2>1. k \in Positions
        BY <1>2, <1>3 DEF Positions
    <2>2. CASE k = turn \/ k = turn - 1
        BY <1>3, <1>5, <1>6, <2>2
    <2>3. CASE k # turn /\ k # turn - 1
        <3>1. d[k] = info[k] /\ info[turn - 1].align <= info[k].align
            BY <1>2, <1>3, <1>5, <2>1, <2>3
        <3>2. d[turn] = info[turn - 1] \/ d[turn - 1] = info[turn - 1]
            BY <1>5
        <3>3. d[turn].align <= info[turn - 1].align
            BY <1>3, <1>5, <1>6, <3>2
        <3> QED
            BY <1>2, <1>3, <1>6, <2>1, <3>1, <3>3, EntryFacts
    <2> QED
        BY <2>2, <2>3
<1>8. SortedFrom(d, count - pass)
    <2> SUFFICES ASSUME NEW k \in Positions, NEW l \in Positions,
                        k < l, count - pass <= l
                 PROVE  d[l].align <= d[k].align
        BY DEF SortedFrom
    <2>1. d[l] = info[l] /\ turn < l
        <3>1. l # turn /\ l # turn - 1 /\ turn < l
            BY <1>1, <1>2, <1>3 DEF Positions
        <3> QED
            BY <1>5, <3>1
    <2>2. \A m \in Positions : m < l => info[l].align <= info[m].align
        BY <1>2 DEF SortedFrom
    <2>3. CASE k # turn /\ k # turn - 1
        BY <1>5, <2>1, <2>2, <2>3
    <2>4. CASE k = turn \/ k = turn - 1
        <3>1. turn < l /\ turn - 1 < l
            BY <1>3, <2>1 DEF Positions
        <3>2. d[k] \in {info[turn - 1], info[turn]}
            BY <1>5, <2>4
        <3> QED
            BY <1>3, <2>1, <2>2, <3>1, <3>2
    <2> QED
        BY <2>3, <2>4
<1>9. \A k \in Positions : d[k].offset = 0
    <2> SUFFICES ASSUME NEW k \in Positions PROVE d[k].offset = 0
        OBVIOUS
    <2>1. d[k] = info[k] \/ d[k] \in {info[turn - 1], info[turn]}
        BY <1>5
    <2> QED
        BY <1>2, <1>3, <2>1
<1>10. Permuted(info)' /\ SortedFrom(info, count - pass)'
    <2>1. Permuted(info)' <=> Permuted(d)
        BY <1>1, <1>4 DEF Permuted, d
    <2>2. SortedFrom(info, count - pass)' <=> SortedFrom(d, count - pass)
        BY <1>1, <1>4 DEF SortedFrom, d
    <2> QED
        BY <1>5, <1>8, <2>1, <2>2
<1>11. \A k \in 0 .. turn' - 1 : info'[turn' - 1].align <= info'[k].align
    <2>1. turn' - 1 = turn
        BY <1>1, <1>3
    <2> QED
        BY <1>7, <2>1 DEF d
<1>12. \A k \in Positions : info'[k].offset = 0
    BY <1>9 DEF d
<1> QED
    BY <1>1, <1>2, <1>3, <1>4, <1>10, <1>11, <1>12 DEF TupleInv

LEMMA NextPassKeeps ==
    ASSUME TupleInv, T!NextPass
    PROVE  TupleInv'
<1>1. /\ phase = "sort" /\ turn >= count - pass
      /\ pass' = pass + 1 /\ turn' = 1
      /\ phase' = IF pass + 1 < count THEN "sort" ELSE "offsets"
      /\ count' = count /\ members' = members /\ info' = info /\ idx' = idx
      /\ storage' = storage
    BY DEF T!NextPass
<1>2. /\ count \in Nat \ {0} /\ members \in [Positions -> Types]
      /\ Permuted(info)
      /\ pass \in Positions /\ turn \in 1 .. count - pass
      /\ SortedFrom(info, count - pass)
      /\ \A k \in 0 .. turn - 1 : info[turn - 1].align <= info[k].align
      /\ \A k \in Positions : info[k].offset = 0
      /\ idx = 1
      /\ DOMAIN storage = {}
    BY <1>1 DEF TupleInv
<1>3. pass \in 0 .. count - 1 /\ turn = count - pass
    BY <1>1, <1>2 DEF Positions
<1>4. Positions' = Positions
    BY <1>1 DEF Positions
<1>5. SortedFrom(info, count - (pass + 1))
    <2> SUFFICES ASSUME NEW k \in Positions, NEW l \in Positions,
                        k < l, count - (pass + 1) <= l
                 PROVE  info[l].align <= info[k].align
        BY DEF SortedFrom
    <2>1. CASE l = turn - 1
        BY <1>2, <1>3, <2>1 DEF Positions
    <2>2. CASE l # turn - 1
        <3>1. count - pass <= l
            BY <1>2, <1>3, <2>2 DEF Positions
        <3> QED
            BY <1>2, <3>1 DEF SortedFrom
    <2> QED
        BY <2>1, <2>2
<1>6. 0 \in Positions /\ \A k \in Positions : info[k].align \in Nat \ {0}
    BY <1>2, EntryFacts DEF Positions
<1>7. /\ Permuted(info)' /\ SortedFrom(info, count - pass)'
    <2>1. Permuted(info)' <=> Permuted(info)
        BY <1>1, <1>4 DEF Permuted
    <2>2. SortedFrom(info, count - pass)' <=> SortedFrom(info, count - (pass + 1))
        BY <1>1, <1>4 DEF SortedFrom
    <2> QED
        BY <1>2, <1>5, <2>1, <2>2
<1>9. CASE pass + 1 < count
    <2>1. phase' = "sort" /\ pass' \in Positions /\ turn' \in 1 .. count - pass'
        BY <1>1, <1>2, <1>3, <1>9 DEF Positions
    <2>2. \A k \in 0 .. turn' - 1 : info'[turn' - 1].align <= info'[k].align
        BY <1>1, <1>6
    <2> QED
        BY <1>1, <1>2, <1>4, <1>7, <2>1, <2>2 DEF TupleInv
<1>10. CASE ~(pass + 1 < count)
    <2>1. phase' = "offsets" /\ count - (pass + 1) = 0
        BY <1>1, <1>2, <1>3, <1>10
    <2>2. SortedFrom(info, 0)'
        <3>1. SortedFrom(info, 0)
            BY <1>5, <2>1
        <3> QED
            BY <1>1, <1>4, <3>1 DEF SortedFrom
    <2>3. MembersPlaced(info, idx)' /\ idx' \in 1 .. count'
        <3>1. Before(info, 0) = {}
            BY DEF Before
        <3>2. Sum(sizes, {}) = 0
            BY SumUnfolds, FS_EmptySet
        <3>3. MembersPlaced(info, 1)
            <4>1. info[0].offset = 0 /\ info[0].align \in Nat \ {0}
                BY <1>2, <1>6
            <4>2. info[0].offset % info[0].align = 0
                BY <4>1
            <4>3. \A k \in 0 .. 1 - 1 : k = 0
                OBVIOUS
            <4> QED
                BY <3>1, <3>2, <4>1, <4>2, <4>3 DEF MembersPlaced
        <3>4. MembersPlaced(info, idx)' <=> MembersPlaced(info, 1)
            BY <1>1, <1>2 DEF MembersPlaced, Before, sizes
        <3> QED
            BY <1>1, <1>2, <3>3, <3>4
    <2> QED
        BY <1>1, <1>2, <1>4, <1>7, <2>1, <2>2, <2>3 DEF TupleInv
<1> QED
    BY <1>9, <1>10

LEMMA BeforeFacts ==
    ASSUME count \in Nat, NEW e, Permuted(e), NEW k \in 1 .. count
    PROVE  /\ IsFiniteSet(Before(e, k - 1)) /\ Before(e, k - 1) \subseteq Positions
           /\ e[k - 1].original_index \notin Before(e, k - 1)
           /\ Before(e, k) = Before(e, k - 1) \cup {e[k - 1].original_index}
<1>1. k - 1 \in Positions /\ \A l \in 0 .. k - 2 : l \in Positions /\ l # k - 1
    BY DEF Positions
<1>2. /\ \A l \in Positions : e[l].original_index \in Positions
      /\ \A l, m \in Positions : e[l].original_index = e[m].original_index => l = m
    BY DEF Permuted
<1>3. Before(e, k - 1) = {e[l].original_index : l \in 0 .. k - 2}
    BY DEF Before
<1>4. Before(e, k - 1) \subseteq Positions
    BY <1>1, <1>2, <1>3
<1>5. IsFiniteSet(Positions)
    BY FS_Interval DEF Positions
<1>6. e[k - 1].original_index \notin Before(e, k - 1)
    BY <1>1, <1>2, <1>3
<1>7. 0 .. k - 1 = (0 .. k - 2) \cup {k - 1}
    OBVIOUS
<1>8. Before(e, k) = Before(e, k - 1) \cup {e[k - 1].original_index}
    BY <1>3, <1>7 DEF Before
<1> QED
    BY <1>4, <1>5, <1>6, <1>8, FS_Subset

\* The sum of the first k sizes.
LEMMA SumBefore ==
    ASSUME count \in Nat, members \in [Positions -> Types],
           NEW e, Permuted(e), NEW k \in 1 .. count
    PROVE  Sum(sizes, Before(e, k)) = Sum(sizes, Before(e, k - 1)) + e[k - 1].size
<1>1. /\ IsFiniteSet(Before(e, k - 1)) /\ Before(e, k - 1) \subseteq Positions
      /\ e[k - 1].original_index \notin Before(e, k - 1)
      /\ Before(e, k) = Before(e, k - 1) \cup {e[k - 1].original_index}
    BY BeforeFacts
<1>2. k - 1 \in Positions
    BY DEF Positions
<1>3. /\ e[k - 1].original_index \in Positions
      /\ e[k - 1].size = members[e[k - 1].original_index].size
    BY <1>2 DEF Permuted
<1>4. \A x \in Positions : sizes[x] = members[x].size /\ sizes[x] \in Int
    BY TypeFacts DEF sizes
<1> DEFINE S == Before(e, k - 1)
           y == e[k - 1].original_index
<1>5. \A x \in S \cup {y} : sizes[x] \in Int
    BY <1>1, <1>3, <1>4
<1>6. IsFiniteSet(S) /\ y \notin S /\ Before(e, k) = S \cup {y}
    BY <1>1
<1> HIDE DEF S
<1>7. Sum(sizes, S \cup {y}) = Sum(sizes, S) + sizes[y]
    <2> HIDE DEF y
    <2> QED
        BY <1>5, <1>6, SumWith
<1> QED
    BY <1>3, <1>4, <1>6, <1>7 DEF S

LEMMA OffsetTurnKeeps ==
    ASSUME TupleInv, T!OffsetTurn
    PROVE  TupleInv'
<1> DEFINE d == info'
           o == T!OffsetAfter(idx)
<1>1. /\ phase = "offsets" /\ idx # count
      /\ d = [info EXCEPT ![idx].offset = o]
      /\ idx' = idx + 1
      /\ count' = count /\ members' = members /\ phase' = phase /\ storage' = storage
      /\ o = info[idx - 1].offset + info[idx - 1].size
    BY DEF T!OffsetTurn, T!OffsetAfter
<1>2. /\ count \in Nat \ {0} /\ members \in [Positions -> Types]
      /\ Permuted(info) /\ SortedFrom(info, 0)
      /\ idx \in 1 .. count /\ MembersPlaced(info, idx)
      /\ DOMAIN storage = {}
    BY <1>1 DEF TupleInv
<1>3. idx \in Positions /\ idx - 1 \in Positions /\ idx + 1 \in 1 .. count
    BY <1>1, <1>2 DEF Positions
<1>4. Positions' = Positions
    BY <1>1 DEF Positions
<1>5. o \in Nat /\ info[idx - 1].offset \in Nat /\ info[idx - 1].size \in Nat
    BY <1>1, <1>2, <1>3, EntryFacts
<1>6. /\ d \in [Positions -> Entry]
      /\ \A k \in Positions :
             /\ d[k].original_index = info[k].original_index
             /\ d[k].align = info[k].align /\ d[k].size = info[k].size
             /\ k # idx => d[k].offset = info[k].offset
      /\ d[idx].offset = o
    <2>1. info \in [Positions -> Entry] /\ \A k \in Positions : info[k] \in Entry
        BY <1>2 DEF Permuted
    <2>2. info[idx] = [original_index |-> info[idx].original_index,
                       align |-> info[idx].align, size |-> info[idx].size,
                       offset |-> info[idx].offset]
        BY <1>3, <2>1 DEF Entry
    <2>3. d[idx] = [info[idx] EXCEPT !.offset = o]
          /\ \A k \in Positions : k # idx => d[k] = info[k]
        <3> HIDE DEF d, o
        <3> QED
            BY <1>1, <1>3, <2>1
    <2>4. d = [k \in Positions |-> d[k]]
        <3> HIDE DEF d, o
        <3> QED
            BY <1>1, <2>1
    <2> HIDE DEF d, o
    <2>5. d[idx] = [original_index |-> info[idx].original_index,
                    align |-> info[idx].align, size |-> info[idx].size,
                    offset |-> o]
        BY <2>2, <2>3
    <2>6. /\ d[idx].original_index = info[idx].original_index
          /\ d[idx].align = info[idx].align /\ d[idx].size = info[idx].size
          /\ d[idx].offset = o
        BY <2>5
    <2>7. d[idx] \in Entry
        <3>1. /\ info[idx].original_index \in Nat /\ info[idx].align \in Nat \ {0}
              /\ info[idx].size \in Nat \ {0}
            BY <1>2, <1>3, EntryFacts
        <3> QED
            BY <1>5, <2>5, <3>1 DEF Entry
    <2>8. \A k \in Positions : d[k] \in Entry
        BY <2>1, <2>3, <2>7
    <2> QED
        BY <2>3, <2>4, <2>6, <2>8
<1> HIDE DEF d, o
<1>7. Permuted(d)
    <2>1. /\ \A k \in Positions :
                 /\ info[k].original_index \in Positions
                 /\ info[k].align = members[info[k].original_index].align
                 /\ info[k].size = members[info[k].original_index].size
          /\ \A k, l \in Positions :
                 info[k].original_index = info[l].original_index => k = l
          /\ \A I \in Positions : \E k \in Positions : info[k].original_index = I
        BY <1>2 DEF Permuted
    <2>2. \A k \in Positions :
                 /\ d[k].original_index \in Positions
                 /\ d[k].align = members[d[k].original_index].align
                 /\ d[k].size = members[d[k].original_index].size
        BY <1>6, <2>1
    <2>3. \A k, l \in Positions : d[k].original_index = d[l].original_index => k = l
        BY <1>6, <2>1
    <2>4. \A I \in Positions : \E k \in Positions : d[k].original_index = I
        BY <1>6, <2>1
    <2> QED
        BY <1>6, <2>2, <2>3, <2>4 DEF Permuted
<1>8. SortedFrom(d, 0)
    BY <1>2, <1>6 DEF SortedFrom
<1>9. \A k \in 0 .. idx : Before(d, k) = Before(info, k)
    <2> SUFFICES ASSUME NEW k \in 0 .. idx PROVE Before(d, k) = Before(info, k)
        OBVIOUS
    <2>1. \A l \in 0 .. k - 1 : d[l].original_index = info[l].original_index
        <3>1. \A l \in 0 .. k - 1 : l \in Positions
            BY <1>2, <1>3 DEF Positions
        <3> QED
            BY <1>6, <3>1
    <2> QED
        BY <2>1 DEF Before
<1>10. o % info[idx].align = 0
    <2>1. info[idx - 1].offset % info[idx - 1].align = 0
        BY <1>2, <1>3 DEF MembersPlaced
    <2>2. /\ info[idx - 1].size % info[idx - 1].align = 0
          /\ info[idx - 1].align % info[idx].align = 0
        <3> DEFINE s == members[info[idx].original_index]
                   t == members[info[idx - 1].original_index]
        <3>1. /\ s \in Types /\ t \in Types /\ info[idx].align = s.align
              /\ info[idx - 1].align = t.align /\ info[idx - 1].size = t.size
            BY <1>2, <1>3 DEF Permuted
        <3>2. info[idx].align <= info[idx - 1].align
            BY <1>2, <1>3 DEF SortedFrom, Positions
        <3> HIDE DEF s, t
        <3> QED
            BY <1>2, <3>1, <3>2, TypeFacts
    <2>3. info[idx - 1].align \in Nat \ {0} /\ info[idx].align \in Nat \ {0}
        BY <1>2, <1>3, EntryFacts
    <2> QED
        BY <1>1, <1>5, <2>1, <2>2, <2>3, DividesSum DEF o, Divides
<1>11. MembersPlaced(d, idx + 1)
    <2> SUFFICES ASSUME NEW k \in 0 .. idx
                 PROVE  /\ d[k].offset % d[k].align = 0
                        /\ d[k].offset = Sum(sizes, Before(d, k))
                        /\ \A l \in 0 .. k - 1 : d[l].offset + d[l].size <= d[k].offset
        <3>1. (idx + 1) - 1 = idx
            BY <1>2
        <3> QED
            BY <3>1 DEF MembersPlaced
    <2>0. /\ k \in Positions /\ \A l \in 0 .. k - 1 : l \in Positions /\ l # idx
        BY <1>2, <1>3 DEF Positions
    <2>1. \A l \in 0 .. k - 1 : d[l].offset = info[l].offset /\ d[l].size = info[l].size
        BY <1>6, <2>0
    <2>2. CASE k # idx
        <3>1. k \in 0 .. idx - 1
            BY <1>2, <2>2
        <3> QED
            BY <1>2, <1>6, <1>9, <2>0, <2>1, <2>2, <3>1 DEF MembersPlaced
    <2>3. CASE k = idx
        <3>1. d[k].offset % d[k].align = 0
            BY <1>6, <1>10, <2>0, <2>3
        <3>2. d[k].offset = Sum(sizes, Before(d, k))
            <4>1. info[idx - 1].offset = Sum(sizes, Before(info, idx - 1))
                BY <1>2, <1>3 DEF MembersPlaced
            <4>2. Sum(sizes, Before(info, idx)) =
                      Sum(sizes, Before(info, idx - 1)) + info[idx - 1].size
                BY <1>2, SumBefore
            <4> QED
                BY <1>1, <1>6, <1>9, <2>3, <4>1, <4>2 DEF o
        <3>3. ASSUME NEW l \in 0 .. k - 1 PROVE d[l].offset + d[l].size <= d[k].offset
            <4>1. CASE l = idx - 1
                BY <1>1, <1>5, <1>6, <2>1, <2>3, <4>1 DEF o
            <4>2. CASE l # idx - 1
                <5>1. idx - 1 \in 0 .. idx - 1 /\ l \in 0 .. (idx - 1) - 1
                    BY <1>2, <2>3, <4>2
                <5>2. info[l].offset + info[l].size <= info[idx - 1].offset
                    BY <1>2, <5>1 DEF MembersPlaced
                <5>3. info[l].offset \in Nat /\ info[l].size \in Nat
                    BY <1>2, <2>0, EntryFacts
                <5>4. d[k].offset = info[idx - 1].offset + info[idx - 1].size
                    BY <1>1, <1>6, <2>3 DEF o
                <5> QED
                    BY <1>5, <2>1, <5>2, <5>3, <5>4
            <4> QED
                BY <4>1, <4>2
        <3> QED
            BY <3>1, <3>2, <3>3
    <2> QED
        BY <2>2, <2>3
<1>12. /\ Permuted(info)' /\ SortedFrom(info, 0)' /\ MembersPlaced(info, idx)'
    <2>1. Permuted(info)' <=> Permuted(d)
        BY <1>1, <1>4 DEF Permuted, d
    <2>2. SortedFrom(info, 0)' <=> SortedFrom(d, 0)
        BY <1>1, <1>4 DEF SortedFrom, d
    <2>3. MembersPlaced(info, idx)' <=> MembersPlaced(d, idx + 1)
        BY <1>1, <1>4 DEF MembersPlaced, d, Before, sizes
    <2> QED
        BY <1>7, <1>8, <1>11, <2>1, <2>2, <2>3
<1> QED
    BY <1>1, <1>2, <1>3, <1>4, <1>12 DEF TupleInv

LEMMA OffsetsDoneKeeps ==
    ASSUME TupleInv, T!OffsetsDone
    PROVE  TupleInv'
<1>1. /\ phase = "offsets" /\ idx = count
      /\ phase' = "construct" /\ idx' = 0
      /\ count' = count /\ members' = members /\ info' = info /\ storage' = storage
    BY DEF T!OffsetsDone
<1>2. /\ count \in Nat \ {0} /\ members \in [Positions -> Types]
      /\ Permuted(info) /\ SortedFrom(info, 0)
      /\ idx \in 1 .. count /\ MembersPlaced(info, idx)
      /\ DOMAIN storage = {}
    BY <1>1 DEF TupleInv
<1>3. Positions' = Positions
    BY <1>1 DEF Positions
<1>4. Permuted(info)' /\ SortedFrom(info, 0)' /\ MembersPlaced(info, count)'
    <2>1. Permuted(info)' <=> Permuted(info)
        BY <1>1, <1>3 DEF Permuted
    <2>2. SortedFrom(info, 0)' <=> SortedFrom(info, 0)
        BY <1>1, <1>3 DEF SortedFrom
    <2>3. MembersPlaced(info, count)' <=> MembersPlaced(info, idx)
        BY <1>1 DEF MembersPlaced, Before, sizes
    <2> QED
        BY <1>2, <2>1, <2>2, <2>3
<1>5. Stored(info, 0)
    BY <1>2 DEF Stored, EndOf
<1>6. Stored(info, idx)'
    BY <1>1, <1>5 DEF Stored, EndOf, T!Bytes
<1> QED
    BY <1>1, <1>2, <1>3, <1>4, <1>6 DEF TupleInv

\* Without a gap: a member begins where those before it end.
LEMMA NoGap ==
    ASSUME count \in Nat \ {0}, members \in [Positions -> Types],
           NEW e, Permuted(e), MembersPlaced(e, count)
    PROVE  /\ \A k \in 0 .. count : EndOf(e, k) = Sum(sizes, Before(e, k))
           /\ \A k \in Positions : e[k].offset = EndOf(e, k)
<1>1. ASSUME NEW k \in 0 .. count PROVE EndOf(e, k) = Sum(sizes, Before(e, k))
    <2>1. CASE k = 0
        <3>1. Before(e, 0) = {}
            BY DEF Before
        <3>2. Sum(sizes, {}) = 0
            BY SumUnfolds, FS_EmptySet
        <3> QED
            BY <2>1, <3>1, <3>2 DEF EndOf
    <2>2. CASE k # 0
        <3>1. k \in 1 .. count /\ k - 1 \in 0 .. count - 1
            BY <2>2
        <3>2. e[k - 1].offset = Sum(sizes, Before(e, k - 1))
            BY <3>1 DEF MembersPlaced
        <3>3. Sum(sizes, Before(e, k)) = Sum(sizes, Before(e, k - 1)) + e[k - 1].size
            BY <3>1, SumBefore
        <3> QED
            BY <2>2, <3>2, <3>3 DEF EndOf
    <2> QED
        BY <2>1, <2>2
<1>2. ASSUME NEW k \in Positions PROVE e[k].offset = EndOf(e, k)
    <2>1. k \in 0 .. count - 1 /\ k \in 0 .. count
        BY DEF Positions
    <2> QED
        BY <1>1, <2>1 DEF MembersPlaced
<1> QED
    BY <1>1, <1>2

LEMMA ConstructKeeps ==
    ASSUME TupleInv, T!Construct
    PROVE  TupleInv'
<1> DEFINE entry == info[idx]
<1>1. /\ phase = "construct" /\ idx < count
      /\ storage' = [b \in DOMAIN storage \cup T!Bytes(entry) |->
                        IF b \in T!Bytes(entry)
                        THEN [member |-> entry.original_index,
                              byte |-> b - entry.offset]
                        ELSE storage[b]]
      /\ idx' = idx + 1
      /\ count' = count /\ members' = members /\ info' = info /\ phase' = phase
    BY DEF T!Construct
<1>2. /\ count \in Nat \ {0} /\ members \in [Positions -> Types]
      /\ Permuted(info) /\ SortedFrom(info, 0)
      /\ idx \in 0 .. count /\ MembersPlaced(info, count) /\ Stored(info, idx)
    BY <1>1 DEF TupleInv
<1>3. Positions' = Positions
    BY <1>1 DEF Positions
<1>4. idx \in Positions /\ idx + 1 \in 0 .. count
    BY <1>1, <1>2 DEF Positions
<1>5. /\ entry.offset \in Nat /\ entry.size \in Nat \ {0}
      /\ entry.offset = EndOf(info, idx)
    BY <1>2, <1>4, EntryFacts, NoGap
<1>6. EndOf(info, idx + 1) = entry.offset + entry.size
    BY <1>4 DEF EndOf, Positions
<1> HIDE DEF entry
<1>7. DOMAIN storage' = 0 .. EndOf(info, idx + 1) - 1
    <2>1. DOMAIN storage = 0 .. entry.offset - 1
        BY <1>2, <1>5 DEF Stored
    <2>2. T!Bytes(entry) = entry.offset .. entry.offset + entry.size - 1
        BY DEF T!Bytes
    <2>3. (0 .. entry.offset - 1) \cup (entry.offset .. entry.offset + entry.size - 1)
              = 0 .. entry.offset + entry.size - 1
        BY <1>5
    <2>4. DOMAIN storage' = DOMAIN storage \cup T!Bytes(entry)
        BY <1>1
    <2>5. DOMAIN storage' = 0 .. entry.offset + entry.size - 1
        BY <2>1, <2>2, <2>3, <2>4, Zenon
    <2> QED
        BY <1>5, <1>6, <2>5
<1>8. ASSUME NEW k \in 0 .. idx, NEW b \in Nat, b \in T!Bytes(info[k])
      PROVE  storage'[b] = [member |-> info[k].original_index,
                            byte |-> b - info[k].offset]
    <2>1. CASE k = idx
        BY <1>1, <1>8, <2>1 DEF entry
    <2>2. CASE k # idx
        <3>1. k \in 0 .. idx - 1 /\ k \in Positions /\ idx \in 0 .. count - 1
            BY <1>2, <1>4, <2>2 DEF Positions
        <3>2. info[k].offset + info[k].size <= entry.offset
            BY <1>2, <3>1 DEF MembersPlaced, entry
        <3>3. info[k].offset \in Nat /\ info[k].size \in Nat
            BY <1>2, <3>1, EntryFacts
        <3>4. b \notin T!Bytes(entry)
            BY <1>5, <1>8, <3>2, <3>3 DEF T!Bytes
        <3>5. b \in DOMAIN storage
            BY <1>2, <1>5, <1>8, <3>2, <3>3 DEF Stored, T!Bytes
        <3>6. storage'[b] = storage[b]
            BY <1>1, <3>4, <3>5
        <3> QED
            BY <1>2, <1>8, <3>1, <3>6 DEF Stored
    <2> QED
        BY <2>1, <2>2
<1>9. Stored(info, idx)'
    <2>1. /\ EndOf(info, idx)' = EndOf(info, idx + 1)
          /\ idx' - 1 = idx
        BY <1>1, <1>2 DEF EndOf
    <2>2. \A k \in 0 .. idx, b \in Nat :
              b \in T!Bytes(info[k]) =>
                  storage'[b] = [member |-> info[k].original_index,
                                 byte |-> b - info[k].offset]
        BY <1>8
    <2>3. \A e : T!Bytes(e)' = T!Bytes(e)
        BY DEF T!Bytes
    <2> QED
        BY <1>1, <1>7, <2>1, <2>2 DEF Stored, T!Bytes
<1>10. Permuted(info)' /\ SortedFrom(info, 0)' /\ MembersPlaced(info, count)'
    <2>1. Permuted(info)' <=> Permuted(info)
        BY <1>1, <1>3 DEF Permuted
    <2>2. SortedFrom(info, 0)' <=> SortedFrom(info, 0)
        BY <1>1, <1>3 DEF SortedFrom
    <2>3. MembersPlaced(info, count)' <=> MembersPlaced(info, count)
        BY <1>1 DEF MembersPlaced, Before, sizes
    <2> QED
        BY <1>2, <2>1, <2>2, <2>3
<1> QED
    BY <1>1, <1>2, <1>3, <1>4, <1>9, <1>10 DEF TupleInv

LEMMA UnchangedKeeps ==
    ASSUME TupleInv, UNCHANGED <<count, members, info, pass, turn, idx, storage>>,
           \/ phase' = phase
           \/ phase = "construct" /\ idx = count /\ phase' = "done"
    PROVE  TupleInv'
<1>1. /\ Positions' = Positions /\ (Permuted(info)' <=> Permuted(info))
      /\ \A m \in Nat : SortedFrom(info, m)' <=> SortedFrom(info, m)
      /\ \A m : MembersPlaced(info, m)' <=> MembersPlaced(info, m)
      /\ Stored(info, idx)' <=> Stored(info, idx)
    <2>1. Positions' = Positions
        BY DEF Positions
    <2>2. Permuted(info)' <=> Permuted(info)
        BY <2>1 DEF Permuted
    <2>3. \A m \in Nat : SortedFrom(info, m)' <=> SortedFrom(info, m)
        BY <2>1 DEF SortedFrom
    <2>4. \A m : MembersPlaced(info, m)' <=> MembersPlaced(info, m)
        BY DEF MembersPlaced, Before, sizes
    <2>5. Stored(info, idx)' <=> Stored(info, idx)
        BY DEF Stored, EndOf, T!Bytes
    <2> QED
        BY <2>1, <2>2, <2>3, <2>4, <2>5
<1>2. phase \in {"sort", "offsets", "construct", "done"}
    BY DEF TupleInv
<1>3. SortedFrom(info, count - pass)' <=> SortedFrom(info, count - pass)
    BY <1>1 DEF SortedFrom
<1>4. SortedFrom(info, 0)' <=> SortedFrom(info, 0)
    BY <1>1
<1>5. /\ MembersPlaced(info, idx)' <=> MembersPlaced(info, idx)
      /\ MembersPlaced(info, count)' <=> MembersPlaced(info, count)
    BY DEF MembersPlaced, Before, sizes
<1>6. CASE phase' = phase
    BY <1>1, <1>2, <1>3, <1>4, <1>5, <1>6 DEF TupleInv
<1>7. CASE phase = "construct" /\ idx = count /\ phase' = "done"
    BY <1>1, <1>2, <1>3, <1>4, <1>5, <1>7 DEF TupleInv
<1> QED
    BY <1>6, <1>7

LEMMA TupleStep == TupleInv /\ [T!Next]_(T!vars) => TupleInv'
<1> SUFFICES ASSUME TupleInv, [T!Next]_(T!vars) PROVE TupleInv'
    OBVIOUS
<1>1. CASE UNCHANGED T!vars
    BY <1>1, UnchangedKeeps DEF T!vars
<1>2. CASE T!Constructed
    BY <1>2, UnchangedKeeps DEF T!Constructed
<1> QED
    BY <1>1, <1>2, SortTurnKeeps, NextPassKeeps, OffsetTurnKeeps, OffsetsDoneKeeps,
       ConstructKeeps DEF T!Next

----------------------------------------------------------------------------
\* get<I>() finds the one entry of the member I.
LEMMA OffsetForFacts ==
    ASSUME TupleInv, NEW I \in Positions
    PROVE  \E k \in Positions :
               info[k].original_index = I /\ T!OffsetFor(I) = info[k].offset
<1>1. /\ \A k, l \in Positions : info[k].original_index = info[l].original_index => k = l
      /\ \E k \in Positions : info[k].original_index = I
      /\ count \in Nat
    BY DEF TupleInv, Permuted
<1>2. PICK k \in Positions : info[k].original_index = I
    BY <1>1
<1>3. \A l \in 0 .. k - 1 : info[l].original_index # I
    BY <1>1, <1>2 DEF Positions
<1> DEFINE IsFirst(l) == /\ info[l].original_index = I
                        /\ \A m \in 0 .. l - 1 : info[m].original_index # I
           c == CHOOSE l \in 0 .. count - 1 : IsFirst(l)
<1>4. c \in Positions /\ IsFirst(c)
    BY <1>2, <1>3 DEF Positions
<1>5. T!OffsetFor(I) = info[c].offset
    BY DEF T!OffsetFor
<1> QED
    BY <1>4, <1>5

LEMMA DomainOfMembers == TupleInv => DOMAIN members = Positions
BY DEF TupleInv

\* For any types of C++ alignments and any number of members: whatever order the
\* sort leaves the members in, each is aligned.
THEOREM MembersAlignedCorrect == T!Spec => []MembersAreAligned
<1>1. TupleInv => MembersAreAligned
    <2> SUFFICES ASSUME TupleInv, phase \in {"construct", "done"}, NEW I \in DOMAIN members
                 PROVE  T!OffsetFor(I) % members[I].align = 0
        BY DEF MembersAreAligned, T!MembersAreAligned
    <2>1. PICK k \in Positions :
              info[k].original_index = I /\ T!OffsetFor(I) = info[k].offset
        BY DomainOfMembers, OffsetForFacts
    <2>2. Permuted(info) /\ MembersPlaced(info, count)
        BY DEF TupleInv
    <2>3. info[k].align = members[I].align /\ info[k].offset % info[k].align = 0
        BY <2>1, <2>2 DEF Permuted, MembersPlaced, Positions
    <2> QED
        BY <2>1, <2>3
<1> QED
    BY <1>1, TupleInit, TupleStep, PTL DEF T!Spec

\* For any such types and members: the members fill the storage, without a gap,
\* and get<I>() refers to the bytes of the member I.
THEOREM MembersWholeCorrect == T!Spec => []MembersAreWhole
<1>1. TupleInv => MembersAreWhole
    <2> SUFFICES ASSUME TupleInv, phase = "done"
                 PROVE  /\ DOMAIN storage = 0 .. T!StorageSize - 1
                        /\ \A I \in DOMAIN members :
                               T!Get(I) = [k \in 0 .. members[I].size - 1 |->
                                              [member |-> I, byte |-> k]]
        BY DEF MembersAreWhole, T!MembersAreWhole
    <2>1. /\ count \in Nat \ {0} /\ members \in [Positions -> Types]
          /\ Permuted(info) /\ MembersPlaced(info, count) /\ Stored(info, count)
        BY DEF TupleInv
    <2>2. T!StorageSize = Sum(sizes, Positions)
        <3>1. T!StorageSize = T!SumFunction(sizes)
            BY DEF T!StorageSize, sizes
        <3>2. DOMAIN sizes = Positions
            BY <2>1 DEF sizes
        <3> QED
            BY <3>1, <3>2, StorageSum
    <2>3. Before(info, count) = Positions
        <3>1. \A I \in Positions : \E k \in Positions : info[k].original_index = I
            BY <2>1 DEF Permuted
        <3>2. \A k \in Positions : info[k].original_index \in Positions
            BY <2>1 DEF Permuted
        <3> QED
            BY <3>1, <3>2 DEF Before, Positions
    <2>4. DOMAIN storage = 0 .. T!StorageSize - 1
        <3>1. EndOf(info, count) = Sum(sizes, Before(info, count))
            BY <2>1, NoGap
        <3> QED
            BY <2>1, <2>2, <2>3, <3>1 DEF Stored
    <2>5. ASSUME NEW I \in DOMAIN members
          PROVE  T!Get(I) = [k \in 0 .. members[I].size - 1 |->
                                [member |-> I, byte |-> k]]
        <3>1. PICK l \in Positions :
                  info[l].original_index = I /\ T!OffsetFor(I) = info[l].offset
            BY DomainOfMembers, OffsetForFacts
        <3>2. /\ info[l].size = members[I].size /\ info[l].offset \in Nat
              /\ info[l].size \in Nat /\ l \in 0 .. count - 1
            BY <2>1, <3>1, EntryFacts DEF Permuted, Positions
        <3>3. ASSUME NEW k \in 0 .. members[I].size - 1
              PROVE  storage[T!OffsetFor(I) + k] = [member |-> I, byte |-> k]
            <4>1. info[l].offset + k \in Nat /\ info[l].offset + k \in T!Bytes(info[l])
                BY <3>2 DEF T!Bytes
            <4>2. storage[info[l].offset + k] =
                      [member |-> info[l].original_index,
                       byte |-> (info[l].offset + k) - info[l].offset]
                BY <2>1, <3>2, <4>1 DEF Stored
            <4>3. (info[l].offset + k) - info[l].offset = k
                BY <3>2
            <4> QED
                BY <3>1, <4>2, <4>3
        <3> QED
            BY <3>3 DEF T!Get
    <2> QED
        BY <2>4, <2>5
<1> QED
    BY <1>1, TupleInit, TupleStep, PTL DEF T!Spec

----------------------------------------------------------------------------
(* The heap.                                                               *)

Gains == [b \in in_use |-> b.total - header_size]

\* What total_allocated() is compared with is this sum.
LEMMA TallySum ==
    ASSUME NEW S \in SUBSET in_use, IsFiniteSet(S)
    PROVE  H!MapThenSumSet(LAMBDA b : b.total - header_size, S) = Sum(Gains, S)
<1> DEFINE AreTallies(g) ==
               g = [s \in SUBSET S |->
                       IF s = {} THEN 0 ELSE (First(s).total - header_size) + g[Rest(s)]]
           tallies == CHOOSE g : AreTallies(g)
<1>1. H!MapThenSumSet(LAMBDA b : b.total - header_size, S) = tallies[S]
    BY Zenon DEF H!MapThenSumSet, H!MapThenFoldSet, First, Rest
<1>2. \A g : AreTallies(g) <=> AreSums(g, Gains, S)
    <2> SUFFICES ASSUME NEW g PROVE AreTallies(g) <=> AreSums(g, Gains, S)
        OBVIOUS
    <2>1. \A s \in SUBSET S : s # {} => Gains[First(s)] = First(s).total - header_size
        BY RestFacts DEF Gains
    <2>2. [s \in SUBSET S |->
              IF s = {} THEN 0 ELSE (First(s).total - header_size) + g[Rest(s)]]
          = [s \in SUBSET S |-> IF s = {} THEN 0 ELSE Gains[First(s)] + g[Rest(s)]]
        BY <2>1
    <2> QED
        BY <2>2 DEF AreSums
<1> DEFINE sums == CHOOSE g : AreSums(g, Gains, S)
<1>3. AreSums(sums, Gains, S)
    BY SumsExist
<1> HIDE DEF AreTallies, sums
<1>4. AreTallies(tallies)
    BY <1>2, <1>3
<1>5. AreSums(tallies, Gains, S)
    BY <1>2, <1>4
<1> HIDE DEF tallies
<1>6. tallies[S] = sums[S]
    BY <1>3, <1>5, SumsAgree
<1> QED
    BY <1>1, <1>6 DEF Sum, sums

HeapBlock == [base : Nat, total : Nat, user : Nat, size : Nat, align : Nat \ {0},
          counted : BOOLEAN]

\* Where a block, its header and its storage are, and how large it is.
Sound(b) ==
    /\ b \in HeapBlock
    /\ b.base % DefaultAlignment = 0
    /\ b.user = b.base + header_size * WordBytes
    /\ b.total - header_size \in Nat
    /\ IF b.counted
       THEN /\ b.total % b.align = 0
            /\ b.total - header_size \in b.size .. b.size + b.align - 1
       ELSE b.total - header_size = b.size

\* The words of a block's header.
Headed(memory, b) ==
    /\ "SIZE" \in header_flags =>
           /\ b.base \in DOMAIN memory
           /\ memory[b.base] = b.total - header_size
    /\ header_flags = H!Flags /\ b.counted =>
           /\ b.base + WordBytes \in DOMAIN memory
           /\ memory[b.base + WordBytes] = b.align

Disjoint(b, c) ==
    /\ b.base # c.base
    /\ b.base + b.total <= c.base \/ c.base + c.total <= b.base

\* Of headers whose block is no longer in use, at most a word is left that is not
\* where a block may begin.
BlocksInv ==
    /\ header_flags \subseteq H!Flags
    /\ header_size = H!TotalMemHeaderSize(header_flags)
    /\ IsFiniteSet(in_use)
    /\ \A b \in in_use : Sound(b) /\ Headed(words, b)
    /\ \A b, c \in in_use : b = c \/ Disjoint(b, c)
    /\ DOMAIN words \subseteq Nat
    /\ \A a \in DOMAIN words :
           a % DefaultAlignment = 0 =>
               "SIZE" \in header_flags /\ \E b \in in_use : a = b.base

Counted == {b \in in_use : b.counted}

TallyInv ==
    allocs_size # Junk =>
        /\ allocs_size = Sum(Gains, Counted)
        /\ Counted # {} => "SIZE" \in header_flags

----------------------------------------------------------------------------
LEMMA UnitFacts ==
    /\ WordBytes \in Nat \ {0} /\ DefaultAlignment = 2 * WordBytes
    /\ DefaultAlignment \in Nat \ {0}
    /\ (WordBytes * WordBytes) % DefaultAlignment = 0
    /\ Addresses \subseteq Nat
    /\ HeapSizes \subseteq Nat
    /\ \A align \in Alignments :
           /\ align \in Nat \ {0}
           /\ align > DefaultAlignment => align % DefaultAlignment = 0
    /\ Junk \notin Int
<1>1. /\ WordBytes \in Nat \ {0} /\ WordBytes % 2 = 0
      /\ DefaultAlignment = 2 * WordBytes /\ Addresses \subseteq Nat
    BY HeapAssumption DEF H!UnitsAssumption
<1>2. (WordBytes * WordBytes) % DefaultAlignment = 0
    <2> DEFINE h == WordBytes \div 2
    <2>1. h \in Nat /\ WordBytes = 2 * h
        BY <1>1
    <2> HIDE DEF h
    <2>2. DefaultAlignment \in Nat \ {0}
        BY <1>1
    <2>3. (DefaultAlignment * h) % DefaultAlignment = 0
        BY <2>1, <2>2, MultipleFacts
    <2>4. WordBytes * WordBytes = (2 * h) * (2 * h) /\ DefaultAlignment = 4 * h
        BY <1>1, <2>1
    <2>5. (2 * h) * (2 * h) = (4 * h) * h
        BY <2>1
    <2> QED
        BY <2>3, <2>4, <2>5
<1> QED
    BY <1>1, <1>2, HeapAssumption DEF H!RequestsAssumption, H!JunkAssumption

\* Two multiples of the default alignment have room for two words between them.
LEMMA TwoWordsApart ==
    ASSUME NEW x \in Nat, x % DefaultAlignment = 0,
           NEW y \in Nat, y % DefaultAlignment = 0, x < y
    PROVE  x + 2 * WordBytes <= y
<1> DEFINE D == DefaultAlignment
           q == x \div D
           r == y \div D
<1>1. D \in Nat \ {0} /\ D = 2 * WordBytes
    BY UnitFacts
<1>2. q \in Nat /\ x = D * q
    BY <1>1
<1>3. r \in Nat /\ y = D * r
    BY <1>1
<1> HIDE DEF D, q, r
<1>4. q < r
    BY <1>1, <1>2, <1>3
<1>5. D * q + D <= D * r
    <2>1. PICK d \in Nat : r = q + 1 + d
        <3>1. r - q - 1 \in Nat /\ r = q + 1 + (r - q - 1)
            BY <1>2, <1>3, <1>4
        <3> QED
            BY <3>1
    <2>2. D * r = D * q + D + D * d /\ D * d \in Nat
        BY <1>1, <1>2, <2>1
    <2> QED
        BY <1>1, <1>2, <2>2
<1> QED
    BY <1>1, <1>2, <1>3, <1>5

LEMMA HeaderSizeFacts ==
    ASSUME BlocksInv
    PROVE  /\ header_size = IF "SIZE" \in header_flags THEN WordBytes ELSE 0
           /\ header_size \in Nat /\ header_size * WordBytes \in Nat
           /\ (header_size * WordBytes) % DefaultAlignment = 0
           /\ "SIZE" \in header_flags => header_size > 0
<1>1. header_size = IF "SIZE" \in header_flags THEN WordBytes ELSE 0
    BY DEF BlocksInv, H!TotalMemHeaderSize
<1>2. /\ WordBytes \in Nat \ {0} /\ DefaultAlignment \in Nat \ {0}
      /\ (WordBytes * WordBytes) % DefaultAlignment = 0
    BY UnitFacts DEF BlocksInv
<1>3. CASE "SIZE" \in header_flags
    BY <1>1, <1>2, <1>3
<1>4. CASE "SIZE" \notin header_flags
    <2>1. header_size = 0
        BY <1>1, <1>4
    <2>2. header_size * WordBytes = 0 /\ 0 % DefaultAlignment = 0
        BY <1>2, <2>1
    <2> QED
        BY <1>1, <1>4, <2>1, <2>2
<1> QED
    BY <1>3, <1>4

LEMMA HeapBlockFacts ==
    ASSUME BlocksInv, NEW b \in in_use
    PROVE  /\ b.base \in Nat /\ b.total \in Nat /\ b.user \in Nat /\ b.size \in Nat
           /\ b.align \in Nat \ {0} /\ b.counted \in BOOLEAN
           /\ b.base % DefaultAlignment = 0
           /\ H!HeaderAddress(b.user) = b.base
           /\ b.total - header_size \in Nat /\ header_size <= b.total
<1>1. Sound(b)
    BY DEF BlocksInv
<1>2. /\ b.base \in Nat /\ b.total \in Nat /\ b.user \in Nat /\ b.size \in Nat
      /\ b.align \in Nat \ {0} /\ b.counted \in BOOLEAN
    BY <1>1 DEF Sound, HeapBlock
<1>3. H!HeaderAddress(b.user) = b.base
    BY <1>1, <1>2, HeaderSizeFacts DEF Sound, H!HeaderAddress
<1> QED
    BY <1>1, <1>2, <1>3, HeaderSizeFacts DEF Sound

LEMMA HeapInit == H!Init => BlocksInv /\ TallyInv
<1> SUFFICES ASSUME H!Init PROVE BlocksInv /\ TallyInv
    OBVIOUS
<1>1. /\ header_flags = {} /\ header_size = 0 /\ DOMAIN words = {}
      /\ allocs_size = 0 /\ in_use = {}
    BY DEF H!Init
<1>2. Counted = {} /\ Sum(Gains, {}) = 0
    BY <1>1, SumUnfolds, FS_EmptySet DEF Counted
<1>3. BlocksInv
    BY <1>1, FS_EmptySet DEF BlocksInv, H!TotalMemHeaderSize
<1> QED
    BY <1>1, <1>2, <1>3 DEF TallyInv

\* While the kind of header stays.
LEMMA SoundKeeps ==
    ASSUME header_size' = header_size, header_flags' = header_flags
    PROVE  /\ \A b : Sound(b)' <=> Sound(b)
           /\ \A m, b : Headed(m, b)' <=> Headed(m, b)
BY DEF Sound, Headed, H!Flags

\* Memory that still has the words that headers are in keeps the headers.
LEMMA HeadersStay ==
    ASSUME NEW b, NEW memory, Headed(words, b),
           \A a \in {b.base, b.base + WordBytes} :
               a \in DOMAIN words => a \in DOMAIN memory /\ memory[a] = words[a]
    PROVE  Headed(memory, b)
BY DEF Headed

----------------------------------------------------------------------------
\* Two numbers of words that a header puts at p leave all others.
LEMMA ConstructFacts ==
    ASSUME NEW p \in Nat, NEW size, NEW align, WordBytes \in Nat \ {0}
    PROVE  LET m == H!ConstructHeader(p, size, align)
           IN  /\ DOMAIN m \subseteq DOMAIN words \cup {p, p + WordBytes}
               /\ "SIZE" \notin header_flags => m = words
               /\ \A a \in DOMAIN words : a \notin {p, p + WordBytes} =>
                      a \in DOMAIN m /\ m[a] = words[a]
               /\ "SIZE" \in header_flags => p \in DOMAIN m /\ m[p] = size
               /\ header_flags = H!Flags =>
                      p + WordBytes \in DOMAIN m /\ m[p + WordBytes] = align
<1> DEFINE m1 == H!WithWord(words, p, size)
           m2 == H!WithWord(m1, p + WordBytes, align)
           m  == H!ConstructHeader(p, size, align)
<1>1. p + WordBytes # p
    OBVIOUS
<1>2. /\ DOMAIN m1 = DOMAIN words \cup {p} /\ m1[p] = size
      /\ \A a \in DOMAIN words : a # p => m1[a] = words[a]
    BY DEF H!WithWord
<1>3. /\ DOMAIN m2 = DOMAIN m1 \cup {p + WordBytes} /\ m2[p + WordBytes] = align
      /\ \A a \in DOMAIN m1 : a # p + WordBytes => m2[a] = m1[a]
    BY DEF H!WithWord
<1>4. m = IF "SIZE" \notin header_flags THEN words
          ELSE IF "ALIGN" \notin header_flags THEN m1 ELSE m2
    BY DEF H!ConstructHeader
<1>5. header_flags = H!Flags => "SIZE" \in header_flags /\ "ALIGN" \in header_flags
    BY DEF H!Flags
<1> HIDE DEF m, m1, m2
<1>6. /\ DOMAIN m \subseteq DOMAIN words \cup {p, p + WordBytes}
      /\ "SIZE" \notin header_flags => m = words
      /\ \A a \in DOMAIN words : a \notin {p, p + WordBytes} =>
             a \in DOMAIN m /\ m[a] = words[a]
      /\ "SIZE" \in header_flags => p \in DOMAIN m /\ m[p] = size
      /\ header_flags = H!Flags =>
             p + WordBytes \in DOMAIN m /\ m[p + WordBytes] = align
    BY <1>1, <1>2, <1>3, <1>4, <1>5
<1> QED
    BY <1>6 DEF m

Made(p, total, size, align, counted) ==
    [base |-> p, total |-> total, user |-> H!UserAddress(p),
     size |-> size, align |-> align, counted |-> counted]

\* What mem::alloc and mem::alloc_aligned ask for.
Request(total, size, align, numbers, counted) ==
    /\ total \in Nat /\ size \in Nat /\ align \in Nat \ {0}
    /\ counted \in BOOLEAN
    /\ align % DefaultAlignment = 0
    /\ total - header_size \in Nat /\ numbers.size = total - header_size
    /\ IF counted
       THEN /\ numbers.align = align /\ total % align = 0
            /\ total - header_size \in size .. size + align - 1
       ELSE total - header_size = size

\* A block where malloc may put it, with its header, disturbs no other.
LEMMA TakeKeeps ==
    ASSUME BlocksInv, NEW total, NEW size, NEW align, NEW counted, NEW numbers,
           Request(total, size, align, numbers, counted),
           NEW p \in H!Places(total, align),
           H!Take(p, total, size, align, numbers, counted)
    PROVE  LET b == Made(p, total, size, align, counted)
           IN  /\ BlocksInv'
               /\ b \notin in_use /\ in_use' = in_use \cup {b}
               /\ header_size' = header_size /\ header_flags' = header_flags
               /\ H!HeaderAddress(b.user) = p
               /\ "SIZE" \in header_flags => H!AllocatedSize(words', b.user) = total - header_size
               /\ "SIZE" \notin header_flags => H!AllocatedSize(words', b.user) = Junk
<1> DEFINE b == Made(p, total, size, align, counted)
<1> USE DEF Request
<1>1. /\ words' = H!ConstructHeader(p, numbers.size, numbers.align)
      /\ in_use' = in_use \cup {b}
      /\ header_size' = header_size /\ header_flags' = header_flags
    BY DEF H!Take, Made
<1>2. /\ p \in Addresses /\ p % align = 0
      /\ \A c \in in_use : p # c.base /\ (p + total <= c.base \/ c.base + c.total <= p)
    BY DEF H!Places
<1>3. /\ WordBytes \in Nat \ {0} /\ DefaultAlignment \in Nat \ {0} /\ p \in Nat
      /\ DefaultAlignment = 2 * WordBytes /\ Junk \notin Int
    BY <1>2, UnitFacts DEF BlocksInv
<1>4. /\ header_size \in Nat /\ header_size * WordBytes \in Nat
      /\ "SIZE" \in header_flags => header_size > 0
    BY HeaderSizeFacts
<1>5. p % DefaultAlignment = 0
    <2>1. 0 \in Nat /\ 0 % align = 0 /\ align \in Nat \ {0}
        OBVIOUS
    <2>2. Divides(align, p) /\ Divides(DefaultAlignment, align) /\ Divides(align, 0)
        BY <1>2, <2>1 DEF Divides
    <2>3. Divides(DefaultAlignment, p + 0)
        BY <1>3, <2>1, <2>2, DividesSum
    <2> QED
        BY <1>3, <2>3 DEF Divides
<1>6. /\ b.base = p /\ b.total = total /\ b.user = p + header_size * WordBytes
      /\ b.size = size /\ b.align = align /\ b.counted = counted
    BY DEF Made, H!UserAddress
<1>7. b \in HeapBlock
    BY <1>3, <1>4 DEF Made, HeapBlock, H!UserAddress
<1> HIDE DEF b
<1>8. b \notin in_use /\ \A c \in in_use : c.base # p
    BY <1>2, <1>6
<1>10. Sound(b)
    BY <1>5, <1>6, <1>7 DEF Sound
<1>11. /\ DOMAIN words' \subseteq DOMAIN words \cup {p, p + WordBytes}
       /\ "SIZE" \notin header_flags => words' = words
       /\ \A a \in DOMAIN words : a \notin {p, p + WordBytes} =>
              a \in DOMAIN words' /\ words'[a] = words[a]
       /\ "SIZE" \in header_flags => p \in DOMAIN words' /\ words'[p] = total - header_size
       /\ header_flags = H!Flags =>
              p + WordBytes \in DOMAIN words' /\ words'[p + WordBytes] = numbers.align
    <2> DEFINE m == H!ConstructHeader(p, numbers.size, numbers.align)
    <2>1. /\ DOMAIN m \subseteq DOMAIN words \cup {p, p + WordBytes}
          /\ "SIZE" \notin header_flags => m = words
          /\ \A a \in DOMAIN words : a \notin {p, p + WordBytes} =>
                 a \in DOMAIN m /\ m[a] = words[a]
          /\ "SIZE" \in header_flags => p \in DOMAIN m /\ m[p] = numbers.size
          /\ header_flags = H!Flags =>
                 p + WordBytes \in DOMAIN m /\ m[p + WordBytes] = numbers.align
        BY <1>3, ConstructFacts
    <2> HIDE DEF m
    <2>2. words' = m
        BY <1>1 DEF m
    <2> QED
        BY <2>1, <2>2
<1>12. Headed(words', b)
    BY <1>6, <1>11 DEF Headed
<1>13. ASSUME NEW c \in in_use PROVE Headed(words', c)
    <2>1. /\ c.base \in Nat /\ c.base % DefaultAlignment = 0 /\ Headed(words, c)
          /\ c.base # p
        BY <1>8, HeapBlockFacts DEF BlocksInv
    <2>2. c.base + 2 * WordBytes <= p \/ p + 2 * WordBytes <= c.base
        BY <1>3, <1>5, <2>1, TwoWordsApart DEF BlocksInv
    <2>3. {c.base, c.base + WordBytes} \cap {p, p + WordBytes} = {}
        BY <1>3, <2>1, <2>2
    <2> QED
        BY <1>11, <2>1, <2>3, HeadersStay
<1>14. (p + WordBytes) % DefaultAlignment # 0
    <2> SUFFICES ASSUME (p + WordBytes) % DefaultAlignment = 0 PROVE FALSE
        OBVIOUS
    <2> DEFINE y == p + WordBytes
    <2>1. y \in Nat /\ y % DefaultAlignment = 0 /\ p < y
        BY <1>3
    <2>2. y = p + WordBytes
        OBVIOUS
    <2> HIDE DEF y
    <2>3. p + 2 * WordBytes <= y
        BY <1>3, <1>5, <2>1, TwoWordsApart DEF BlocksInv
    <2> QED
        BY <1>3, <2>2, <2>3
<1>15. /\ DOMAIN words' \subseteq Nat
       /\ \A a \in DOMAIN words' :
              a % DefaultAlignment = 0 =>
                  "SIZE" \in header_flags' /\ \E c \in in_use' : a = c.base
    <2>1. /\ DOMAIN words \subseteq Nat
          /\ \A a \in DOMAIN words :
                 a % DefaultAlignment = 0 =>
                     "SIZE" \in header_flags /\ \E c \in in_use : a = c.base
        BY DEF BlocksInv
    <2> QED
        BY <1>1, <1>3, <1>6, <1>11, <1>14, <2>1
<1>16. \A c, d \in in_use' : c = d \/ Disjoint(c, d)
    <2>1. \A c, d \in in_use : c = d \/ Disjoint(c, d)
        BY DEF BlocksInv
    <2>2. \A c \in in_use : Disjoint(b, c) /\ Disjoint(c, b)
        BY <1>2, <1>6, HeapBlockFacts DEF Disjoint
    <2> QED
        BY <1>1, <2>1, <2>2
<1>17. BlocksInv'
    <2>1. IsFiniteSet(in_use')
        BY <1>1, FS_AddElement DEF BlocksInv
    <2>2. \A c \in in_use' : Sound(c)' /\ Headed(words, c)'
        <3>1. \A c \in in_use' : Sound(c) /\ Headed(words', c)
            BY <1>1, <1>10, <1>12, <1>13 DEF BlocksInv
        <3> QED
            BY <1>1, <3>1 DEF Sound, Headed, H!Flags
    <2>3. header_flags' \subseteq H!Flags /\ header_size' = H!TotalMemHeaderSize(header_flags')
        BY <1>1 DEF BlocksInv
    <2>4. (\A c, d \in in_use : c = d \/ Disjoint(c, d))'
        BY <1>16 DEF Disjoint
    <2> QED
        BY <1>15, <2>1, <2>2, <2>3, <2>4
           DEF BlocksInv, H!Flags, H!TotalMemHeaderSize
<1>18. H!HeaderAddress(b.user) = p
    BY <1>3, <1>4, <1>6 DEF H!HeaderAddress
<1>19. "SIZE" \in header_flags => H!AllocatedSize(words', b.user) = total - header_size
    BY <1>11, <1>18 DEF H!AllocatedSize, H!Word
<1>20. "SIZE" \notin header_flags => H!AllocatedSize(words', b.user) = Junk
    <2>1. p \notin DOMAIN words
        BY <1>5, <1>8 DEF BlocksInv
    <2> QED
        BY <1>11, <1>18, <2>1 DEF H!AllocatedSize, H!Word
<1> QED
    BY <1>1, <1>8, <1>17, <1>18, <1>19, <1>20 DEF b

\* get_multiple_of_alignment goes to the next multiple.
LEMMA MultipleOfAlignment ==
    ASSUME NEW size \in Nat, NEW align \in Nat \ {0}
    PROVE  LET m == H!GetMultipleOfAlignment(size, align)
           IN  m \in Nat /\ m % align = 0 /\ m \in size .. size + align - 1
<1> DEFINE m == H!GetMultipleOfAlignment(size, align)
<1>1. m = IF size % align = 0 THEN size ELSE size + (align - (size % align))
    BY DEF H!GetMultipleOfAlignment
<1> HIDE DEF m
<1>2. size % align \in 0 .. align - 1
    OBVIOUS
<1>3. m \in Nat /\ m \in size .. size + align - 1
    BY <1>1, <1>2
<1>4. m % align = 0
    <2>1. CASE size % align = 0
        BY <1>1, <2>1
    <2>2. CASE size % align # 0
        <3> DEFINE q == size \div align
        <3>1. q \in Nat /\ size = align * q + (size % align)
            OBVIOUS
        <3> HIDE DEF q
        <3>2. m = align * q + align
            BY <1>1, <1>2, <2>2, <3>1
        <3>3. align * q + align = align * (q + 1) /\ q + 1 \in Nat
            BY <3>1
        <3>4. (align * (q + 1)) % align = 0
            BY <3>3, MultipleFacts
        <3> QED
            BY <3>2, <3>3, <3>4
    <2> QED
        BY <2>1, <2>2
<1>5. m \in Nat /\ m % align = 0 /\ m \in size .. size + align - 1
    BY <1>3, <1>4
<1> QED
    BY <1>5 DEF m

\* What a header says of its block.
LEMMA HeaderReads ==
    ASSUME BlocksInv, NEW b \in in_use
    PROVE  /\ "SIZE" \in header_flags =>
                  H!AllocatedSize(words, b.user) = b.total - header_size
           /\ header_flags = H!Flags /\ b.counted =>
                  H!AllocatedAlignment(words, b.user) = b.align
<1>1. H!HeaderAddress(b.user) = b.base /\ Headed(words, b)
    BY HeapBlockFacts DEF BlocksInv
<1> QED
    BY <1>1 DEF Headed, H!AllocatedSize, H!AllocatedAlignment, H!Word

\* Another block's header is outside a block.
LEMMA HeadersAreApart ==
    ASSUME BlocksInv, NEW b \in in_use, NEW c \in in_use, b # c
    PROVE  \/ c.base + 2 * WordBytes <= b.base
           \/ b.base + b.total <= c.base
<1>1. Disjoint(b, c)
    BY DEF BlocksInv
<1>2. /\ b.base \in Nat /\ b.total \in Nat /\ b.base % DefaultAlignment = 0
      /\ c.base \in Nat /\ c.total \in Nat /\ c.base % DefaultAlignment = 0
    BY HeapBlockFacts
<1>3. CASE b.base + b.total <= c.base
    BY <1>3
<1>4. CASE c.base + c.total <= b.base
    <2> DEFINE x == c.base
               y == b.base
    <2>1. x < y
        BY <1>1, <1>2, <1>4 DEF Disjoint
    <2>2. x \in Nat /\ x % DefaultAlignment = 0 /\ y \in Nat /\ y % DefaultAlignment = 0
        BY <1>2
    <2> HIDE DEF x, y
    <2>3. x + 2 * WordBytes <= y
        BY <2>1, <2>2, TwoWordsApart DEF BlocksInv
    <2> QED
        BY <2>3 DEF x, y
<1> QED
    BY <1>1, <1>3, <1>4 DEF Disjoint

LEMMA ReleaseKeeps ==
    ASSUME BlocksInv, NEW b \in in_use, H!Free(H!HeaderAddress(b.user)),
           header_flags' = header_flags, header_size' = header_size
    PROVE  BlocksInv' /\ in_use' = in_use \ {b}
<1> DEFINE freed == {c \in in_use : c.base = b.base}
<1>1. H!HeaderAddress(b.user) = b.base
    BY HeapBlockFacts
<1>2. freed = {b}
    <2>1. \A c \in in_use : c = b \/ c.base # b.base
        BY DEF BlocksInv, Disjoint
    <2> QED
        BY <2>1
<1>3. /\ in_use' = in_use \ freed
      /\ words' = IF freed = {} THEN words
                  ELSE H!WordsOutside(b.base, b.base + (CHOOSE c \in freed : TRUE).total)
    BY <1>1 DEF H!Free
<1> HIDE DEF freed
<1>4. in_use' = in_use \ {b} /\ words' = H!WordsOutside(b.base, b.base + b.total)
    BY <1>2, <1>3
<1>5. /\ DOMAIN words' = {w \in DOMAIN words :
                             w + WordBytes <= b.base \/ w >= b.base + b.total}
      /\ \A w \in DOMAIN words' : words'[w] = words[w]
    BY <1>4 DEF H!WordsOutside
<1>6. /\ WordBytes \in Nat \ {0} /\ DOMAIN words \subseteq Nat
      /\ b.base \in Nat /\ b.total \in Nat /\ header_size <= b.total
      /\ header_size \in Nat /\ ("SIZE" \in header_flags => header_size > 0)
    BY HeapBlockFacts, UnitFacts, HeaderSizeFacts DEF BlocksInv
<1>7. ASSUME NEW c \in in_use' PROVE Headed(words', c)
    <2>1. /\ c \in in_use /\ c # b /\ c.base \in Nat /\ Headed(words, c)
        BY <1>4, HeapBlockFacts DEF BlocksInv
    <2>2. c.base + 2 * WordBytes <= b.base \/ b.base + b.total <= c.base
        BY <2>1, HeadersAreApart
    <2>3. \A a \in {c.base, c.base + WordBytes} :
              a + WordBytes <= b.base \/ a >= b.base + b.total
        BY <1>6, <2>1, <2>2
    <2> QED
        BY <1>5, <2>1, <2>3, HeadersStay
<1>8. \A a \in DOMAIN words' :
          a % DefaultAlignment = 0 =>
              "SIZE" \in header_flags' /\ \E c \in in_use' : a = c.base
    <2> SUFFICES ASSUME NEW a \in DOMAIN words', a % DefaultAlignment = 0
                 PROVE  "SIZE" \in header_flags' /\ \E c \in in_use' : a = c.base
        OBVIOUS
    <2>1. a \in DOMAIN words /\ (a + WordBytes <= b.base \/ a >= b.base + b.total)
        BY <1>5
    <2>2. "SIZE" \in header_flags
        BY <2>1 DEF BlocksInv
    <2>3. PICK c \in in_use : a = c.base
        BY <2>1 DEF BlocksInv
    <2>4. a # b.base
        BY <1>6, <2>1, <2>2
    <2> QED
        BY <1>4, <2>2, <2>3, <2>4
<1>9. BlocksInv'
    <2>1. IsFiniteSet(in_use')
        BY <1>4, FS_RemoveElement DEF BlocksInv
    <2>2. \A c \in in_use' : Sound(c)' /\ Headed(words, c)'
        <3>1. \A c \in in_use' : Sound(c) /\ Headed(words', c)
            BY <1>4, <1>7 DEF BlocksInv
        <3> QED
            BY <3>1 DEF Sound, Headed, H!Flags
    <2>3. \A c, d \in in_use' : c = d \/ Disjoint(c, d)
        BY <1>4 DEF BlocksInv
    <2>4. header_flags' \subseteq H!Flags /\ header_size' = H!TotalMemHeaderSize(header_flags')
        BY DEF BlocksInv
    <2>5. DOMAIN words' \subseteq Nat
        BY <1>5, <1>6
    <2> QED
        BY <1>8, <2>1, <2>2, <2>3, <2>4, <2>5
           DEF BlocksInv, Disjoint, H!Flags, H!TotalMemHeaderSize
<1> QED
    BY <1>4, <1>9

----------------------------------------------------------------------------
LEMMA CountedFacts ==
    ASSUME BlocksInv
    PROVE  /\ IsFiniteSet(Counted) /\ Counted \subseteq in_use
           /\ \A b \in in_use : Gains[b] = b.total - header_size /\ Gains[b] \in Int
<1>1. Counted \subseteq in_use
    BY DEF Counted
<1>2. IsFiniteSet(Counted)
    BY <1>1, FS_Subset DEF BlocksInv
<1>3. \A b \in in_use : Gains[b] = b.total - header_size
    BY DEF Gains
<1>4. \A b \in in_use : b.total - header_size \in Int
    BY HeapBlockFacts
<1> QED
    BY <1>1, <1>2, <1>3, <1>4

\* What blocks that stay have been given stays.
LEMMA TallyStays ==
    ASSUME header_size' = header_size, NEW S, IsFiniteSet(S),
           S \subseteq in_use, S \subseteq in_use'
    PROVE  Sum(Gains', S) = Sum(Gains, S)
<1>1. \A b \in S : Gains[b] = b.total - header_size
    BY DEF Gains
<1>2. \A b \in S : Gains'[b] = b.total - header_size
    BY DEF Gains
<1>3. \A b \in S : Gains'[b] = Gains[b]
    BY <1>1, <1>2
<1> QED
    BY <1>3, SumOfSame

LEMMA SetHeaderKeeps ==
    ASSUME BlocksInv, TallyInv, in_use = {}, NEW flags \in SUBSET H!Flags,
           H!SetHeader(flags)
    PROVE  BlocksInv' /\ TallyInv'
<1>1. /\ header_flags' = flags /\ header_size' = H!TotalMemHeaderSize(flags)
      /\ words' = words /\ allocs_size' = allocs_size /\ in_use' = {}
    BY DEF H!SetHeader
<1>2. BlocksInv'
    <2>1. \A a \in DOMAIN words' : a % DefaultAlignment # 0
        BY <1>1 DEF BlocksInv
    <2>2. DOMAIN words' \subseteq Nat /\ IsFiniteSet(in_use')
        BY <1>1, FS_EmptySet DEF BlocksInv
    <2> QED
        BY <1>1, <2>1, <2>2 DEF BlocksInv, H!Flags, H!TotalMemHeaderSize
<1>3. TallyInv'
    <2>1. Counted = {} /\ Counted' = {}
        BY <1>1 DEF Counted
    <2>2. \A f : Sum(f, {}) = 0
        BY SumUnfolds, FS_EmptySet
    <2> QED
        BY <1>1, <2>1, <2>2 DEF TallyInv
<1> QED
    BY <1>2, <1>3

LEMMA NewKeeps ==
    ASSUME BlocksInv, TallyInv, NEW size \in HeapSizes, H!New(size)
    PROVE  BlocksInv' /\ TallyInv'
<1> DEFINE total == header_size + size
           align == DefaultAlignment
           numbers == [size |-> size, align |-> 0]
<1>1. PICK p \in H!Places(total, align) :
          H!Take(p, total, size, align, numbers, FALSE)
    BY DEF H!New, H!Alloc
<1>2. /\ size \in Nat /\ align \in Nat \ {0} /\ align % DefaultAlignment = 0
      /\ header_size \in Nat
    <2>1. DefaultAlignment \in Nat \ {0} /\ size \in Nat
        BY UnitFacts DEF BlocksInv
    <2>2. DefaultAlignment % DefaultAlignment = 0
        BY <2>1
    <2> QED
        BY <2>1, <2>2, HeaderSizeFacts
<1>3. total \in Nat /\ total - header_size = size /\ numbers.size = size
    BY <1>2
<1>4. allocs_size' = allocs_size
    BY DEF H!New
<1>5. align = DefaultAlignment
    OBVIOUS
<1> HIDE DEF total, align, numbers
<1> DEFINE b == Made(p, total, size, align, FALSE)
<1>6. BlocksInv' /\ in_use' = in_use \cup {b} /\ header_size' = header_size
      /\ header_flags' = header_flags
    <2>1. Request(total, size, align, numbers, FALSE)
        BY <1>2, <1>3 DEF Request
    <2> QED
        BY <1>1, <2>1, TakeKeeps, Zenon
<1>7. b.counted = FALSE
    BY DEF Made
<1> HIDE DEF b
<1>8. Counted' = Counted
    BY <1>6, <1>7 DEF Counted
<1>9. Sum(Gains', Counted) = Sum(Gains, Counted)
    BY <1>6, CountedFacts, TallyStays
<1> QED
    BY <1>4, <1>6, <1>8, <1>9 DEF TallyInv

LEMMA AllocateKeeps ==
    ASSUME BlocksInv, TallyInv, NEW size \in HeapSizes, NEW wanted \in Alignments,
           H!Allocate(size, wanted)
    PROVE  BlocksInv' /\ TallyInv'
<1> DEFINE align == H!AtLeastDefault(wanted)
           total == H!GetMultipleOfAlignment(header_size + size, align)
           numbers == [size |-> total - header_size, align |-> align]
<1>1. PICK p \in H!Places(total, align) :
          H!Take(p, total, size, align, numbers, TRUE)
    BY DEF H!Allocate, H!AllocAligned
<1>2. /\ size \in Nat /\ align \in Nat \ {0} /\ align % DefaultAlignment = 0
    <2>1. /\ DefaultAlignment \in Nat \ {0} /\ size \in Nat /\ wanted \in Nat \ {0}
          /\ wanted > DefaultAlignment => wanted % DefaultAlignment = 0
        BY UnitFacts DEF BlocksInv
    <2> QED
        BY <2>1 DEF H!AtLeastDefault
<1>3. header_size \in Nat
    BY HeaderSizeFacts
<1> HIDE DEF align
<1>4. /\ total \in Nat /\ total % align = 0
      /\ total \in header_size + size .. header_size + size + align - 1
    <2> DEFINE asked == header_size + size
    <2>1. asked \in Nat
        BY <1>2, <1>3
    <2> HIDE DEF asked
    <2>2. /\ total \in Nat /\ total % align = 0
          /\ total \in asked .. asked + align - 1
        BY <1>2, <2>1, MultipleOfAlignment DEF asked
    <2> QED
        BY <2>2 DEF asked
<1> HIDE DEF total
<1>5. /\ total - header_size \in Nat
      /\ total - header_size \in size .. size + align - 1
    BY <1>2, <1>3, <1>4
<1>6. numbers.size = total - header_size /\ numbers.align = align
    OBVIOUS
<1> HIDE DEF numbers
<1>6a. Request(total, size, align, numbers, TRUE)
    BY <1>2, <1>3, <1>4, <1>5, <1>6 DEF Request
<1> DEFINE b == Made(p, total, size, align, TRUE)
           counted == H!AllocatedSize(words', b.user)
<1>7. /\ BlocksInv' /\ b \notin in_use /\ in_use' = in_use \cup {b}
      /\ header_size' = header_size /\ header_flags' = header_flags
      /\ "SIZE" \in header_flags => counted = total - header_size
      /\ "SIZE" \notin header_flags => counted = Junk
    BY <1>6a, <1>1, TakeKeeps, Zenon
<1>8. b.counted = TRUE /\ b.total = total
    BY DEF Made
<1>9. allocs_size' = IF Junk \in {allocs_size, counted} THEN Junk ELSE allocs_size + counted
    <2>1. \E c \in in_use' \ in_use :
              allocs_size' = IF Junk \in {allocs_size, H!AllocatedSize(words', c.user)}
                             THEN Junk ELSE allocs_size + H!AllocatedSize(words', c.user)
        BY DEF H!Allocate
    <2>2. in_use' \ in_use = {b}
        BY <1>7
    <2> HIDE DEF b
    <2> QED
        BY <2>1, <2>2
<1> HIDE DEF b, counted
<1>10. Counted' = Counted \cup {b} /\ b \notin Counted
    BY <1>7, <1>8 DEF Counted
<1>11. Sum(Gains', Counted) = Sum(Gains, Counted)
    BY <1>7, CountedFacts, TallyStays
<1>12. /\ Gains'[b] = total - header_size
       /\ \A c \in Counted \cup {b} : Gains'[c] \in Int
    <2>1. \A c \in in_use' : Gains'[c] = c.total - header_size
        BY <1>7 DEF Gains
    <2>2. \A c \in in_use : c.total - header_size \in Int
        BY HeapBlockFacts
    <2>3. Counted \subseteq in_use
        BY CountedFacts
    <2> QED
        BY <1>5, <1>7, <1>8, <2>1, <2>2, <2>3
<1>13. Sum(Gains', Counted \cup {b}) = Sum(Gains', Counted) + Gains'[b]
    BY <1>10, <1>12, CountedFacts, SumWith
<1>14. TallyInv'
    <2> SUFFICES ASSUME allocs_size' # Junk
                 PROVE  /\ allocs_size' = Sum(Gains', Counted \cup {b})
                        /\ "SIZE" \in header_flags
        BY <1>7, <1>10 DEF TallyInv
    <2>1. allocs_size # Junk /\ counted # Junk /\ allocs_size' = allocs_size + counted
        BY <1>9
    <2>2. "SIZE" \in header_flags /\ counted = total - header_size
        BY <1>7, <2>1
    <2> QED
        BY <1>11, <1>12, <1>13, <2>1, <2>2 DEF TallyInv
<1> QED
    BY <1>7, <1>14

LEMMA DeleteKeeps ==
    ASSUME BlocksInv, TallyInv, NEW b \in in_use, ~b.counted, H!Delete(b)
    PROVE  BlocksInv' /\ TallyInv'
<1>1. /\ H!Free(H!HeaderAddress(b.user)) /\ allocs_size' = allocs_size
      /\ header_flags' = header_flags /\ header_size' = header_size
    BY DEF H!Delete
<1>2. BlocksInv' /\ in_use' = in_use \ {b}
    BY <1>1, ReleaseKeeps
<1>3. Counted' = Counted
    BY <1>2 DEF Counted
<1>4. Counted \subseteq in_use'
    BY <1>2 DEF Counted
<1>5. Sum(Gains', Counted) = Sum(Gains, Counted)
    BY <1>1, <1>4, CountedFacts, TallyStays
<1> QED
    BY <1>1, <1>2, <1>3, <1>5 DEF TallyInv

LEMMA DeallocateKeeps ==
    ASSUME BlocksInv, TallyInv, NEW b \in in_use, b.counted, H!Deallocate(b)
    PROVE  BlocksInv' /\ TallyInv'
<1> DEFINE counted == H!AllocatedSize(words, b.user)
<1>1. /\ H!Free(H!HeaderAddress(b.user))
      /\ allocs_size' = IF Junk \in {allocs_size, counted} THEN Junk
                        ELSE allocs_size - counted
      /\ header_flags' = header_flags /\ header_size' = header_size
    BY DEF H!Deallocate
<1>2. BlocksInv' /\ in_use' = in_use \ {b}
    BY <1>1, ReleaseKeeps
<1>3. Counted' = Counted \ {b} /\ b \in Counted
    BY <1>2 DEF Counted
<1>4. Sum(Gains', Counted \ {b}) = Sum(Gains, Counted \ {b})
    <2> DEFINE S == Counted \ {b}
    <2>1. IsFiniteSet(S)
        BY CountedFacts, FS_RemoveElement
    <2>2. S \subseteq in_use /\ S \subseteq in_use'
        BY <1>2, CountedFacts
    <2> HIDE DEF S
    <2>3. Sum(Gains', S) = Sum(Gains, S)
        BY <1>1, <2>1, <2>2, TallyStays
    <2> QED
        BY <2>3 DEF S
<1>5. /\ Sum(Gains, Counted) = Sum(Gains, Counted \ {b}) + Gains[b]
      /\ Gains[b] = b.total - header_size
      /\ Gains[b] \in Int
    BY <1>3, CountedFacts, SumWithout
<1>6. Sum(Gains, Counted \ {b}) \in Int
    <2> DEFINE S == Counted \ {b}
    <2>1. IsFiniteSet(S)
        BY CountedFacts, FS_RemoveElement
    <2>2. \A c \in S : Gains[c] \in Int
        BY CountedFacts
    <2> HIDE DEF S
    <2>3. Sum(Gains, S) \in Int
        BY <2>1, <2>2, SumWithout
    <2> QED
        BY <2>3 DEF S
<1>7. "SIZE" \in header_flags => counted = b.total - header_size
    BY HeaderReads
<1> HIDE DEF counted
<1>8. TallyInv'
    <2> SUFFICES ASSUME allocs_size' # Junk
                 PROVE  /\ allocs_size' = Sum(Gains', Counted \ {b})
                        /\ "SIZE" \in header_flags
        BY <1>1, <1>3 DEF TallyInv
    <2>1. allocs_size # Junk /\ allocs_size' = allocs_size - counted
        BY <1>1
    <2>2. "SIZE" \in header_flags /\ allocs_size = Sum(Gains, Counted)
        BY <1>3, <2>1 DEF TallyInv
    <2> QED
        BY <1>4, <1>5, <1>6, <1>7, <2>1, <2>2
<1> QED
    BY <1>2, <1>8

LEMMA WriteKeeps ==
    ASSUME BlocksInv, TallyInv, NEW b \in in_use, H!SparesHeaders(b), H!Write(b)
    PROVE  BlocksInv' /\ TallyInv'
<1>1. /\ words' = H!WordsOutside(b.user, b.user + b.size)
      /\ header_flags' = header_flags /\ header_size' = header_size
      /\ allocs_size' = allocs_size /\ in_use' = in_use
    BY DEF H!Write
<1>2. /\ DOMAIN words' = {w \in DOMAIN words :
                             w + WordBytes <= b.user \/ w >= b.user + b.size}
      /\ \A w \in DOMAIN words' : words'[w] = words[w]
    BY <1>1 DEF H!WordsOutside
<1>3. ASSUME NEW c \in in_use PROVE Headed(words', c)
    <2>1. Headed(words, c)
        BY DEF BlocksInv
    <2>2. CASE "SIZE" \notin header_flags
        BY <2>2 DEF Headed, H!Flags
    <2>3. CASE "SIZE" \in header_flags
        <3>1. b.user + b.size <= c.base \/ c.base + 2 * WordBytes <= b.user
            BY <2>3, HeaderSizeFacts DEF H!SparesHeaders
        <3>2. /\ b.user \in Nat /\ b.size \in Nat /\ c.base \in Nat /\ WordBytes \in Nat \ {0}
            BY HeapBlockFacts, UnitFacts DEF BlocksInv
        <3>3. \A a \in {c.base, c.base + WordBytes} :
                  a + WordBytes <= b.user \/ a >= b.user + b.size
            BY <3>1, <3>2
        <3> QED
            BY <1>2, <2>1, <3>3, HeadersStay
    <2> QED
        BY <2>2, <2>3
<1>4. BlocksInv'
    <2>1. \A c \in in_use' : Sound(c)' /\ Headed(words, c)'
        <3>1. \A c \in in_use' : Sound(c) /\ Headed(words', c)
            BY <1>1, <1>3 DEF BlocksInv
        <3> QED
            BY <1>1, <3>1 DEF Sound, Headed, H!Flags
    <2> QED
        BY <1>1, <1>2, <2>1
           DEF BlocksInv, Disjoint, H!Flags, H!TotalMemHeaderSize
<1>5. TallyInv'
    <2>1. Counted' = Counted /\ Gains' = Gains
        BY <1>1 DEF Counted, Gains
    <2> QED
        BY <1>1, <2>1 DEF TallyInv
<1> QED
    BY <1>4, <1>5

LEMMA HeapStep ==
    BlocksInv /\ TallyInv /\ [H!CarefulNext]_(H!vars) => (BlocksInv /\ TallyInv)'
<1> SUFFICES ASSUME BlocksInv, TallyInv, [H!CarefulNext]_(H!vars)
             PROVE  BlocksInv' /\ TallyInv'
    OBVIOUS
<1>1. ASSUME NEW flags \in SUBSET H!Flags, in_use = {}, H!SetHeader(flags)
      PROVE  BlocksInv' /\ TallyInv'
    BY <1>1, SetHeaderKeeps
<1>2. ASSUME NEW size \in HeapSizes, H!New(size)
      PROVE  BlocksInv' /\ TallyInv'
    BY <1>2, NewKeeps
<1>3. ASSUME NEW size \in HeapSizes, NEW align \in Alignments,
             H!Allocate(size, align)
      PROVE  BlocksInv' /\ TallyInv'
    BY <1>3, AllocateKeeps
<1>4. ASSUME NEW b \in in_use, ~b.counted, H!Delete(b)
      PROVE  BlocksInv' /\ TallyInv'
    BY <1>4, DeleteKeeps
<1>5. ASSUME NEW b \in in_use, b.counted, H!Deallocate(b)
      PROVE  BlocksInv' /\ TallyInv'
    BY <1>5, DeallocateKeeps
<1>6. ASSUME NEW b \in in_use, H!SparesHeaders(b), H!Write(b)
      PROVE  BlocksInv' /\ TallyInv'
    BY <1>6, WriteKeeps
<1>7. CASE UNCHANGED H!vars
    <2>1. /\ header_flags' = header_flags /\ header_size' = header_size
          /\ words' = words /\ allocs_size' = allocs_size /\ in_use' = in_use
        BY <1>7 DEF H!vars
    <2>2. Counted' = Counted /\ Gains' = Gains
        BY <2>1 DEF Counted, Gains
    <2>3. TallyInv'
        BY <2>1, <2>2 DEF TallyInv
    <2>4. \A b \in in_use' : Sound(b)' /\ Headed(words, b)'
        <3>1. \A b \in in_use' : Sound(b) /\ Headed(words', b)
            BY <2>1 DEF BlocksInv
        <3> QED
            BY <2>1, <3>1 DEF Sound, Headed, H!Flags
    <2> QED
        BY <2>1, <2>3, <2>4
           DEF BlocksInv, Disjoint, H!Flags, H!TotalMemHeaderSize
<1> QED
    BY <1>1, <1>2, <1>3, <1>4, <1>5, <1>6, <1>7 DEF H!CarefulNext

LEMMA HeapInvariant == H!CarefulSpec => [](BlocksInv /\ TallyInv)
BY HeapInit, HeapStep, PTL DEF H!CarefulSpec

----------------------------------------------------------------------------
\* From every block's storage the way leads back to the address that malloc
\* gave and to the size that was allocated, whatever blocks there are.
THEOREM LeadsBackCorrect == H!CarefulSpec => []LeadsBack
<1>1. BlocksInv => LeadsBack
    <2> SUFFICES ASSUME BlocksInv, NEW b \in in_use
                 PROVE  /\ H!HeaderAddress(b.user) = b.base
                        /\ "SIZE" \in header_flags =>
                               LET n == H!AllocatedSize(words, b.user)
                               IN  IF b.counted
                                   THEN /\ n # Junk
                                        /\ n \in b.size .. b.size + b.align - 1
                                        /\ (n + header_size) % b.align = 0
                                   ELSE n = b.size
                        /\ header_flags = H!Flags /\ b.counted =>
                               H!AllocatedAlignment(words, b.user) = b.align
        BY DEF LeadsBack, H!LeadsBack
    <2> DEFINE n == H!AllocatedSize(words, b.user)
    <2>1. /\ "SIZE" \in header_flags => n = b.total - header_size
          /\ header_flags = H!Flags /\ b.counted =>
                 H!AllocatedAlignment(words, b.user) = b.align
        BY HeaderReads
    <2>2. /\ H!HeaderAddress(b.user) = b.base /\ b.total \in Nat
          /\ b.total - header_size \in Nat /\ header_size \in Nat /\ Junk \notin Int
        BY HeapBlockFacts, HeaderSizeFacts, UnitFacts DEF BlocksInv
    <2>3. IF b.counted
          THEN /\ b.total % b.align = 0
               /\ b.total - header_size \in b.size .. b.size + b.align - 1
          ELSE b.total - header_size = b.size
        BY DEF BlocksInv, Sound
    <2>4. (b.total - header_size) + header_size = b.total
        BY <2>2
    <2> HIDE DEF n
    <2>5. "SIZE" \in header_flags =>
              IF b.counted
              THEN /\ n # Junk
                   /\ n \in b.size .. b.size + b.align - 1
                   /\ (n + header_size) % b.align = 0
              ELSE n = b.size
        BY <2>1, <2>2, <2>3, <2>4
    <2> QED
        BY <2>1, <2>2, <2>5 DEF n
<1> QED
    BY <1>1, HeapInvariant, PTL

\* While no junk has gone into it, total_allocated() is what the blocks in use
\* have been given, however many there are and in whatever order they go.
THEOREM TotalCorrect == H!CarefulSpec => []TotalIsExact
<1>1. BlocksInv /\ TallyInv => TotalIsExact
    <2> SUFFICES ASSUME BlocksInv, TallyInv PROVE TotalIsExact
        OBVIOUS
    <2>1. H!MapThenSumSet(LAMBDA b : b.total - header_size, Counted) = Sum(Gains, Counted)
        BY CountedFacts, TallySum
    <2>2. allocs_size # Junk => allocs_size = Sum(Gains, Counted)
        BY DEF TallyInv
    <2>3. allocs_size # Junk =>
              allocs_size = H!MapThenSumSet(LAMBDA b : b.total - header_size, Counted)
        BY <2>1, <2>2
    <2> QED
        BY <2>3, Zenon DEF TotalIsExact, H!TotalIsExact, Counted
<1> QED
    BY <1>1, HeapInvariant, PTL

=============================================================================
