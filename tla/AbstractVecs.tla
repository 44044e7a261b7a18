---------------------------- MODULE AbstractVecs ----------------------------
(* What vec promises: each vec that there is, is a sequence of its own.    *)
EXTENDS Integers, Sequences

CONSTANTS
    Vecs,
    Values,
    DefaultValue, \* T()
    Lengths,      \* that callers ask for
    NoVec         \* in place of the sequence of a vec that there is not

VARIABLE contents

Init == contents = [v \in Vecs |-> NoVec]

Existing == {v \in Vecs : contents[v] # NoVec}

Becomes(v, s) == contents' = [contents EXCEPT ![v] = s]

\* Construction with n elements of one value.
New(v, n, x) == v \notin Existing /\ Becomes(v, [i \in 1 .. n |-> x])

\* Construction or assignment.
Copy(v, o) == o \in Existing /\ Becomes(v, contents[o])

\* What is moved from is empty: also when a vec is moved into itself.
Move(v, o) ==
    /\ o \in Existing
    /\ contents' = [contents EXCEPT ![v] = contents[o], ![o] = <<>>]

Delete(v) == v \in Existing /\ Becomes(v, NoVec)

Push(v, x) == v \in Existing /\ Becomes(v, Append(contents[v], x))

Resize(v, n) ==
    /\ v \in Existing
    /\ Becomes(v, [i \in 1 .. n |-> IF i <= Len(contents[v])
                                    THEN contents[v][i] ELSE DefaultValue])

Next ==
    \E v \in Vecs :
        \/ \E n \in Lengths, x \in Values : New(v, n, x)
        \/ \E o \in Vecs : Copy(v, o) \/ Move(v, o)
        \/ Delete(v)
        \/ \E x \in Values : Push(v, x)
        \/ \E n \in Lengths : Resize(v, n)

Spec == Init /\ [][Next]_contents
=============================================================================
