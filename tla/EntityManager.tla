--------------------------- MODULE EntityManager ---------------------------
(***************************************************************************)
(* sc::entity_manager: hands out entities, each an index with a generation *)
(* that tells its owner from the earlier ones of the same index.  Indices  *)
(* of destroyed entities queue up and are used again, oldest first, when   *)
(* more than MinimumFree of them wait.                                     *)
(***************************************************************************)
EXTENDS Integers, Sequences

CONSTANTS
    MinimumFree,     \* entity::MINIMUM_FREE_INDES
    MaskedWords,     \* 2^GENERATION_BITS: the generations a handle can tell
    GenerationWords, \* 2^16: the values of vec<u16> generation
    IndexWords,      \* 2^INDEX_BITS
    MaxDestroys      \* the bound on destroys; no proof relies on it

ASSUME MinimumFreeAssumption == MinimumFree \in Nat

ASSUME WordsAssumption ==
    /\ MaskedWords \in Nat \ {0}
    /\ GenerationWords \in Nat \ {0}
    /\ IndexWords \in Nat \ {0}

VARIABLES
    generation,   \* generation[idx + 1] is the vec's element idx
    free_indices,
    held,         \* history: the entities created and not yet destroyed
    stale,        \* history: those destroyed since their index's generation was 0
    destroys,     \* history: how many times destroy() ran
    freedBy       \* history: freedBy[idx + 1], the destroy() that queued idx

vars == <<generation, free_indices, held, stale, destroys, freedBy>>

Indices == 0 .. Len(generation) - 1

GenerationOf(idx) == generation[idx + 1]

Handle == [index : Indices, gen : Nat]

Init ==
    /\ generation = <<>>
    /\ free_indices = <<>>
    /\ held = {}
    /\ stale = {}
    /\ destroys = 0
    /\ freedBy = <<>>

----------------------------------------------------------------------------
\* entity::generation(): what is left of an id's generation under the mask.
Masked(e) == e.gen % MaskedWords

\* MUTANT of Alive: only the masked generations are compared.
AliveUnderMask(e) == GenerationOf(e.index) % MaskedWords = Masked(e)

Alive(e) == GenerationOf(e.index) = Masked(e)

\* MUTANT of CreateReused: the last index freed is taken.
CreateNewest ==
    /\ Len(free_indices) > MinimumFree
    /\ LET idx == free_indices[Len(free_indices)]
       IN  held' = held \cup {[index |-> idx, gen |-> GenerationOf(idx)]}
    /\ free_indices' = SubSeq(free_indices, 1, Len(free_indices) - 1)
    /\ UNCHANGED <<generation, stale, destroys, freedBy>>

\* MUTANT of CreateReused: the index stays in the queue.
CreateWithoutPop ==
    /\ Len(free_indices) > MinimumFree
    /\ LET idx == Head(free_indices)
       IN  held' = held \cup {[index |-> idx, gen |-> GenerationOf(idx)]}
    /\ UNCHANGED <<generation, free_indices, stale, destroys, freedBy>>

CreateReused ==
    /\ Len(free_indices) > MinimumFree
    /\ LET idx == Head(free_indices)
       IN  held' = held \cup {[index |-> idx, gen |-> GenerationOf(idx)]}
    /\ free_indices' = Tail(free_indices)
    /\ UNCHANGED <<generation, stale, destroys, freedBy>>

\* The assertion stops the program when the indices run out.
CreateFresh ==
    /\ Len(free_indices) <= MinimumFree
    /\ Len(generation) < IndexWords
    /\ generation' = Append(generation, 0)
    /\ held' = held \cup {[index |-> Len(generation), gen |-> 0]}
    /\ freedBy' = Append(freedBy, 0)
    /\ UNCHANGED <<free_indices, stale, destroys>>

\* The last of the 16-bit generations is followed by the first.
ComesRound(e) == GenerationOf(e.index) + 1 >= GenerationWords

\* Nothing is checked: whatever the handle, its index is freed.
Destroy(e) ==
    /\ generation' = [generation EXCEPT
                          ![e.index + 1] = (@ + 1) % GenerationWords]
    /\ free_indices' = Append(free_indices, e.index)
    /\ held' = held \ {e}
    /\ stale' = IF ComesRound(e) THEN {d \in stale : d.index # e.index}
                                  ELSE stale \cup {e}
    /\ destroys' = destroys + 1
    /\ freedBy' = [freedBy EXCEPT ![e.index + 1] = destroys + 1]

----------------------------------------------------------------------------
\* Clients that destroy each entity once.
Next ==
    \/ CreateReused
    \/ CreateFresh
    \/ \E e \in held : destroys < MaxDestroys /\ Destroy(e)

Spec == Init /\ [][Next]_vars

----------------------------------------------------------------------------
(* Properties.                                                             *)

\* Indices are indices of the vec, handles are pairs of natural numbers.
TypeOK ==
    /\ generation \in Seq(Nat)
    /\ free_indices \in Seq(Nat)
    /\ \A i \in DOMAIN free_indices : free_indices[i] \in Indices
    /\ held \subseteq Handle
    /\ stale \subseteq Handle
    /\ destroys \in Nat
    /\ freedBy \in Seq(Nat)
    /\ Len(freedBy) = Len(generation)

\* Every index has one owner: an entity that is held, or a place in the queue.
OneOwnerPerIndex ==
    /\ \A d, e \in held : d.index = e.index => d = e
    /\ \A i, j \in DOMAIN free_indices :
           free_indices[i] = free_indices[j] => i = j
    /\ \A e \in held : \A i \in DOMAIN free_indices :
           e.index # free_indices[i]

\* alive() tells owners from former owners: a destroyed entity is not alive
\* again until the generation of its index has come round, as what its handle
\* kept of the generation cannot come back before; a held one is alive as long
\* as its generation fits the bits that the handle gives back.
AliveTellsOwners ==
    /\ \A e \in stale : ~Alive(e)
    /\ \A e \in held : e.gen < MaskedWords => Alive(e)

\* An index is used again only after MinimumFree further destroys, so that a
\* handle to its last owner has gone stale long before.
ReuseIsDelayed ==
    [][\A e \in held' \ held :
           e.index \in Indices =>
               destroys - freedBy[e.index + 1] >= MinimumFree]_vars

=============================================================================
