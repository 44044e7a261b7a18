---------------------------- MODULE AbstractMap ----------------------------
(***************************************************************************)
(* What hashmap promises: a map of bounded size that one call at a time    *)
(* works on.  put() takes effect as it begins, remove() at one moment      *)
(* between its beginning and its end, and neither does anything more.      *)
(***************************************************************************)
EXTENDS FiniteSets, Functions, Naturals

CONSTANTS Keys, Values, Capacity

VARIABLES
    map,
    removing, \* the key that a call of remove() is about to take out, or none
    ending    \* a call has had its effect and has not returned

vars == <<map, removing, ending>>

Init ==
    /\ map = <<>>
    /\ removing = {}
    /\ ending = FALSE

Idle == removing = {} /\ ~ending

Put(k, v) ==
    /\ Idle
    /\ Cardinality(DOMAIN map \cup {k}) <= Capacity
    /\ map' = [x \in DOMAIN map \cup {k} |-> IF x = k THEN v ELSE map[x]]
    /\ ending' = TRUE
    /\ UNCHANGED removing

Assign(k, v) ==
    /\ Idle
    /\ k \in DOMAIN map
    /\ map' = [map EXCEPT ![k] = v]
    /\ UNCHANGED <<removing, ending>>

Remove(k) ==
    /\ Idle
    /\ k \in DOMAIN map
    /\ removing' = {k}
    /\ UNCHANGED <<map, ending>>

TakeOut ==
    /\ removing # {}
    /\ map' = Restrict(map, DOMAIN map \ removing)
    /\ removing' = {}
    /\ ending' = TRUE

Return ==
    /\ ending
    /\ ending' = FALSE
    /\ UNCHANGED <<map, removing>>

Next ==
    \/ \E k \in Keys :
        \/ \E v \in Values : Put(k, v) \/ Assign(k, v)
        \/ Remove(k)
    \/ TakeOut
    \/ Return

Spec == Init /\ [][Next]_vars
=============================================================================
