-------------------------------- MODULE Heap --------------------------------
(***************************************************************************)
(* mem and heap_alloc, built with SC_ALLOC_WITH_HEADER: in front of the    *)
(* storage that a caller gets is a header of the kind that set_header()    *)
(* has chosen, from which the storage's size and alignment are read back.  *)
(* Below them are malloc() and free(), which place blocks anywhere.        *)
(***************************************************************************)
EXTENDS Integers, FiniteSetsExt

CONSTANTS
    WordBytes,        \* sizeof(size_t) and sizeof(uintptr_t)
    DefaultAlignment, \* DEFAULT_ALIGNMENT, which malloc() keeps to as well
    Addresses,        \* where malloc() may place a block
    Sizes, Alignments,
    Junk              \* what a word holds that is not a header's

(* What a module that instantiates this one assumes of the constants.      *)

\* 4 and 8, or 8 and 16.
UnitsAssumption ==
    /\ WordBytes \in Nat \ {0} /\ WordBytes % 2 = 0
    /\ DefaultAlignment = 2 * WordBytes
    /\ Addresses \subseteq Nat

\* Of two powers of two, the greater one is a multiple of the other.
RequestsAssumption ==
    /\ Sizes \subseteq Nat /\ Alignments \subseteq Nat \ {0}
    /\ \A align \in Alignments :
           align > DefaultAlignment => align % DefaultAlignment = 0

JunkAssumption == Junk \notin Int

\* memhead_type; NONE is no flag, and NAME is used nowhere.
Flags == {"SIZE", "ALIGN"}

VARIABLES
    header_flags, header_size,
    words,       \* the numbers of headers, each at the address of its word
    allocs_size, \* heap_alloc's counter, or Junk when junk has gone into it
    blocks       \* history: the blocks in use

vars == <<header_flags, header_size, words, allocs_size, blocks>>

Init ==
    /\ header_flags = {}
    /\ header_size = 0
    /\ words = <<>>
    /\ allocs_size = 0
    /\ blocks = {}

----------------------------------------------------------------------------
(* Headers.                                                                *)

GetMultipleOfAlignment(size, align) ==
    IF size % align = 0 THEN size ELSE size + (align - (size % align))

\* The test for a size alone comes first, and holds for both flags too.
TotalMemHeaderSize(flags) == IF "SIZE" \in flags THEN WordBytes ELSE 0

\* The size of the header is added to a pointer to words.
UserAddress(p) == p + header_size * WordBytes

HeaderAddress(user) == user - header_size * WordBytes

WithWord(memory, address, number) ==
    [a \in DOMAIN memory \cup {address} |-> IF a = address THEN number ELSE memory[a]]

\* MUTANT of ConstructHeader: the alignment goes where the size is.
ConstructHeaderTwice(p, size, align) ==
    IF "SIZE" \notin header_flags THEN words
    ELSE IF "ALIGN" \notin header_flags THEN WithWord(words, p, size)
    ELSE WithWord(words, p, align)

ConstructHeader(p, size, align) ==
    IF "SIZE" \notin header_flags THEN words
    ELSE IF "ALIGN" \notin header_flags THEN WithWord(words, p, size)
    ELSE WithWord(WithWord(words, p, size), p + WordBytes, align)

Word(memory, address) ==
    IF address \in DOMAIN memory THEN memory[address] ELSE Junk

AllocatedSize(memory, user) == Word(memory, HeaderAddress(user))

AllocatedAlignment(memory, user) == Word(memory, HeaderAddress(user) + WordBytes)

\* The words that have no byte from `from` up to `to`.
WordsOutside(from, to) ==
    [a \in {w \in DOMAIN words : w + WordBytes <= from \/ w >= to} |-> words[a]]

----------------------------------------------------------------------------
(* malloc and free.                                                        *)

\* Addresses for n bytes, away from all blocks; each block has an address.
Places(n, align) ==
    {p \in Addresses :
        /\ p % align = 0
        /\ \A b \in blocks : p # b.base /\ (p + n <= b.base \/ b.base + b.total <= p)}

Free(p) ==
    LET freed == {b \in blocks : b.base = p}
    IN  /\ blocks' = blocks \ freed
        /\ words' = IF freed = {} THEN words
                    ELSE WordsOutside(p, p + (CHOOSE b \in freed : TRUE).total)

----------------------------------------------------------------------------
(* mem and heap_alloc.                                                     *)

SetHeader(flags) ==
    /\ header_flags' = flags
    /\ header_size' = TotalMemHeaderSize(flags)
    /\ UNCHANGED <<words, allocs_size, blocks>>

\* A block of total bytes at p, with the header that goes with it.
Take(p, total, size, align, written, counted) ==
    /\ words' = ConstructHeader(p, written.size, written.align)
    /\ blocks' = blocks \cup {[base |-> p, total |-> total, user |-> UserAddress(p),
                               size |-> size, align |-> align, counted |-> counted]}
    /\ UNCHANGED <<header_flags, header_size>>

\* mem::alloc.
Alloc(size) ==
    \E p \in Places(header_size + size, DefaultAlignment) :
        Take(p, header_size + size, size, DefaultAlignment,
             [size |-> size, align |-> 0], FALSE)

\* operator new: the heap allocator's counter does not hear of it.
New(size) == Alloc(size) /\ UNCHANGED allocs_size

AtLeastDefault(align) == IF align > DefaultAlignment THEN align ELSE DefaultAlignment

\* mem::alloc_aligned.
AllocAligned(size, align) ==
    LET a     == AtLeastDefault(align)
        total == GetMultipleOfAlignment(header_size + size, a)
    IN  \E p \in Places(total, a) :
            Take(p, total, size, a, [size |-> total - header_size, align |-> a], TRUE)

\* heap_alloc::allocate: what it counts is read from the place of a header,
\* whether there is one or not.
Allocate(size, align) ==
    /\ AllocAligned(size, align)
    /\ \E b \in blocks' \ blocks :
           LET counted == AllocatedSize(words', b.user)
           IN  allocs_size' = IF Junk \in {allocs_size, counted} THEN Junk
                              ELSE allocs_size + counted

\* MUTANT of Deallocate: the counter stays.
DeallocateUncounted(b) ==
    /\ Free(HeaderAddress(b.user))
    /\ UNCHANGED <<header_flags, header_size, allocs_size>>

Deallocate(b) ==
    /\ LET counted == AllocatedSize(words, b.user)
       IN  allocs_size' = IF Junk \in {allocs_size, counted} THEN Junk
                          ELSE allocs_size - counted
    /\ Free(HeaderAddress(b.user))
    /\ UNCHANGED <<header_flags, header_size>>

\* operator delete, over mem::dealloc.
Delete(b) ==
    /\ Free(HeaderAddress(b.user))
    /\ UNCHANGED <<header_flags, header_size, allocs_size>>

\* The caller uses its storage.
Write(b) ==
    /\ words' = WordsOutside(b.user, b.user + b.size)
    /\ UNCHANGED <<header_flags, header_size, allocs_size, blocks>>

----------------------------------------------------------------------------
(* Clients.                                                                *)

\* With a header the storage ends past its block: what is written there is
\* nobody's header.
SparesHeaders(b) ==
    header_size > 0 =>
        \A c \in blocks : \/ b.user + b.size <= c.base
                          \/ c.base + 2 * WordBytes <= b.user

CarefulNext ==
    \/ \E flags \in SUBSET Flags : blocks = {} /\ SetHeader(flags)
    \/ \E size \in Sizes :
        \/ New(size)
        \/ \E align \in Alignments : Allocate(size, align)
    \/ \E b \in blocks :
        \/ ~b.counted /\ Delete(b)
        \/ b.counted /\ Deallocate(b)
        \/ SparesHeaders(b) /\ Write(b)

CarefulSpec == Init /\ [][CarefulNext]_vars

----------------------------------------------------------------------------
(* Properties.                                                             *)

\* From the storage of every block the way leads back to the address that malloc gave
\* and free() is to get, and to the size that was allocated (memory.h:90): as
\* asked from operator new, and rounded up to its alignment from heap_alloc.
LeadsBack ==
    \A b \in blocks :
        /\ HeaderAddress(b.user) = b.base
        /\ "SIZE" \in header_flags =>
               LET n == AllocatedSize(words, b.user)
               IN  IF b.counted
                   THEN /\ n # Junk
                        /\ n \in b.size .. b.size + b.align - 1
                        /\ (n + header_size) % b.align = 0
                   ELSE n = b.size
        /\ header_flags = Flags /\ b.counted =>
               AllocatedAlignment(words, b.user) = b.align

\* A caller gets what it asked for (memory.h:55 and 65): storage of that size, all
\* of it in the block that malloc gave, and of that alignment.  The distance that
\* user_address() adds (memory.cpp:89) is the one that room was made for, and a
\* multiple of the alignment.
StorageIsAsAsked ==
    \A b \in blocks : b.user + b.size <= b.base + b.total /\ b.user % b.align = 0

\* total_allocated() is what the blocks in use have been given, in whatever order they
\* come and go, once sizes are kept in headers.
TotalIsExact ==
    allocs_size # Junk =>
        allocs_size = MapThenSumSet(LAMBDA b : b.total - header_size,
                                    {b \in blocks : b.counted})
=============================================================================
