-------------------------------- MODULE MCEcs --------------------------------
\* Two types of component, and the views over either or both, in both orders.
EXTENDS Ecs

CONSTANTS a, b

MCViewTypes == {<<b>>, <<a, b>>, <<b, a>>}

\* Once a component is removed the properties no longer tell values apart, so
\* what is followed beyond that is where the instances were all of one value.
MCOneValueOnceRemoved ==
    removed =>
        \E v \in Values : \A c \in Components : \A p \in attached[c] : p[2] = v

\* The values only travel; the types differ in the order of their ids.
MCSymmetry == Permutations(Values)
=============================================================================
