------------------------------- MODULE Unique -------------------------------
(***************************************************************************)
(* sc::unique<T>: a pointer to an object that it deletes.  The pointer is  *)
(* the member of a compressed_pair: a constructor that says nothing of it  *)
(* leaves it unwritten, and a defaulted move copies it.                    *)
(***************************************************************************)
CONSTANTS
    Uniques, Objects,
    Null,
    Wild,    \* an address at which there never is one of the objects
    Nothing, \* there is no such unique at the time
    Client

\* What a module that instantiates this one assumes of the constants.
UniqueAssumption ==
    /\ Objects \cap {Null, Wild, Nothing} = {}
    /\ Null # Wild /\ Null # Nothing /\ Wild # Nothing
    /\ Client \notin Uniques

VARIABLES
    pair,       \* the pointer in each unique, or Nothing
    alive,      \* the objects that are allocated
    raw,        \* those that the client has to delete or to give on
    misdeleted, \* what was deleted and was no object
    copied,     \* history: pointers that came to a unique which was not given them
    lost        \* history: objects that move assignments were to move

vars == <<pair, alive, raw, misdeleted, copied, lost>>

Init ==
    /\ pair = [u \in Uniques |-> Nothing]
    /\ alive = {}
    /\ raw = {}
    /\ misdeleted = {}
    /\ copied = {}
    /\ lost = {}

Exists(u) == pair[u] # Nothing

----------------------------------------------------------------------------
\* default_delete, which reset() does not call for a null pointer.
Delete(p) ==
    /\ alive' = alive \ {p}
    /\ misdeleted' = IF p \in alive \cup {Null} THEN misdeleted
                                                ELSE misdeleted \cup {p}

\* The client makes an object, or deletes one that it has.
New(o) ==
    /\ o \notin alive
    /\ alive' = alive \cup {o}
    /\ raw' = raw \cup {o}
    /\ UNCHANGED <<pair, misdeleted, copied, lost>>

DeleteRaw(o) ==
    /\ Delete(o)
    /\ raw' = raw \ {o}
    /\ UNCHANGED <<pair, copied, lost>>

MakeUnique(u, o) ==
    /\ ~Exists(u)
    /\ o \notin alive
    /\ alive' = alive \cup {o}
    /\ pair' = [pair EXCEPT ![u] = o]
    /\ UNCHANGED <<raw, misdeleted, copied, lost>>

Construct(u, o) ==
    /\ ~Exists(u)
    /\ pair' = [pair EXCEPT ![u] = o]
    /\ raw' = raw \ {o}
    /\ UNCHANGED <<alive, misdeleted, copied, lost>>

\* The default constructor and the one from nullptr: the pointer is what the
\* memory held.
ConstructUnwritten(u) ==
    /\ ~Exists(u)
    /\ \E p \in Objects \cup {Null, Wild} :
           /\ pair' = [pair EXCEPT ![u] = p]
           /\ copied' = copied \cup ({p} \ {Null})
    /\ UNCHANGED <<alive, raw, misdeleted, lost>>

ConstructMove(u, other) ==
    /\ ~Exists(u) /\ Exists(other)
    /\ pair' = [pair EXCEPT ![u] = pair[other]]
    /\ copied' = copied \cup ({pair[other]} \ {Null})
    /\ UNCHANGED <<alive, raw, misdeleted, lost>>

\* reset(other.release()), and then the null that this left in other.  It
\* ends without the return it owes: in a debug build that is all.
MoveAssign(u, other) ==
    /\ u # other
    /\ Exists(u) /\ Exists(other)
    /\ Delete(pair[u])
    /\ pair' = [pair EXCEPT ![u] = Null, ![other] = Null]
    /\ lost' = lost \cup ({pair[other]} \ {Null})
    /\ UNCHANGED <<raw, copied>>

\* A unique assigned to itself gets back what it released.
MoveAssignSelf(u) == Exists(u) /\ UNCHANGED vars

\* MUTANT of Reset: the old object is not deleted.
ResetOnly(u, p) ==
    /\ Exists(u)
    /\ pair' = [pair EXCEPT ![u] = p]
    /\ raw' = raw \ {p}
    /\ UNCHANGED <<alive, misdeleted, copied, lost>>

Reset(u, p) ==
    /\ Exists(u)
    /\ Delete(pair[u])
    /\ pair' = [pair EXCEPT ![u] = p]
    /\ raw' = raw \ {p}
    /\ UNCHANGED <<copied, lost>>

\* MUTANT of Release: the unique keeps the pointer.
ReleaseCopy(u) ==
    /\ Exists(u)
    /\ raw' = raw \cup (Objects \cap {pair[u]})
    /\ UNCHANGED <<pair, alive, misdeleted, copied, lost>>

Release(u) ==
    /\ Exists(u)
    /\ raw' = raw \cup (Objects \cap {pair[u]})
    /\ pair' = [pair EXCEPT ![u] = Null]
    /\ UNCHANGED <<alive, misdeleted, copied, lost>>

Destroy(u) ==
    /\ Exists(u)
    /\ Delete(pair[u])
    /\ pair' = [pair EXCEPT ![u] = Nothing]
    /\ UNCHANGED <<raw, copied, lost>>

----------------------------------------------------------------------------
\* Any calls, on uniques that exist and with pointers that the client has,
\* up to the deletion of what is no object.
Next ==
    /\ misdeleted = {}
    /\ \/ \E o \in Objects : New(o) \/ (o \in raw /\ DeleteRaw(o))
       \/ \E u \in Uniques :
           \/ \E o \in Objects : MakeUnique(u, o)
           \/ \E o \in raw : Construct(u, o)
           \/ \E p \in raw \cup {Null} : Reset(u, p)
           \/ \E other \in Uniques : ConstructMove(u, other) \/ MoveAssign(u, other)
           \/ ConstructUnwritten(u)
           \/ MoveAssignSelf(u)
           \/ Release(u)
           \/ Destroy(u)

Spec == Init /\ [][Next]_vars

----------------------------------------------------------------------------
(* Properties.                                                             *)

Holders(o) ==
    {u \in Uniques : pair[u] = o} \cup (IF o \in raw THEN {Client} ELSE {})

\* An object has one holder while it is allocated, a unique or the client, and
\* none when it is not, unless a move constructor or an unwritten pointer has
\* made a second one.  What a move assignment was to move has no holder, and
\* stays allocated for good.
OwnersAreExact ==
    \A o \in Objects \ copied :
        IF o \in alive \ lost THEN \E h \in Uniques \cup {Client} : Holders(o) = {h}
        ELSE Holders(o) = {} /\ (o \in lost => o \in alive)

\* A unique deletes something twice, or something that never was an object, only by a
\* pointer that a move constructor copied or that no constructor wrote: other
\* calls in any order, assignments and releases among them, never lead to it.
OnlyCopiesAreMisdeleted == misdeleted \subseteq copied
=============================================================================
