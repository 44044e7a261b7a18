---------------------------- MODULE AbstractSet ----------------------------
(* What sparse_set promises: a set, changed one item at a time or emptied. *)
(* call is the interface: which operation a step is, of which item, and    *)
(* what it returned.                                                       *)
CONSTANT Items

VARIABLES members, call

Init == members = {} /\ call = <<>>

Add(item) ==
    /\ call' = <<"add", item>>
    /\ members' = members \cup {item}

Remove(item) ==
    /\ call' = <<"remove", item, item \in members>>
    /\ members' = members \ {item}

Resize == call' = <<"resize">> /\ UNCHANGED members

Clear == call' = <<"clear">> /\ members' = {}

Next ==
    \/ \E item \in Items : Add(item) \/ Remove(item)
    \/ Resize
    \/ Clear

Spec == Init /\ [][Next]_<<members, call>>
=============================================================================
