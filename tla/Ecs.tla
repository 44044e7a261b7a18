--------------------------------- MODULE Ecs ---------------------------------
(***************************************************************************)
(* sc::ecs: the entities of an entity_manager, one component_manager (a    *)
(* sparse_set of entity indices beside a vec of instances) for each type   *)
(* of component, and basic_view, a loop over the entities that have all of *)
(* some components.  The set is what SparseSet shows of it for a client    *)
(* that only adds: a sequence of distinct items, each found at its place.  *)
(***************************************************************************)
EXTENDS Integers, Sequences, FiniteSets, SequencesExt

CONSTANTS
    MinimumFree, MaskedWords, GenerationWords, IndexWords, \* EntityManager's
    Components,  \* the types of component
    Values,      \* the values an instance may have
    ViewTypes,   \* the component packs of the views: sequences of Components
    NoId, NoView

ASSUME ViewTypesAssumption ==
    \A cs \in ViewTypes : cs \in Seq(Components) /\ cs # <<>> /\ IsInjective(cs)

ASSUME ComponentsAssumption == IsFiniteSet(Components) /\ NoId \notin Nat

ASSUME EcsMinimumFreeAssumption == MinimumFree \in Nat

ASSUME EcsWordsAssumption == GenerationWords \in Nat \ {0}

VARIABLES
    generation, free_indices, held, stale, destroys, freedBy, \* EntityManager's
    entities,           \* ecs::entities
    ids,                \* component<T>::my_id, or NoId before the first use
    component_managers, \* component_managers[id + 1] is what slot id holds
    view,               \* the loop over a basic_view that runs, or NoView
    undefined,          \* an assertion failed or memory was misused
    attached,           \* history: attached[c], the <<index, value>> added
    removed             \* history: a component was removed from an entity

managerVars == <<generation, free_indices, held, stale, destroys, freedBy>>
componentVars == <<ids, component_managers>>
vars == <<managerVars, entities, componentVars, view, undefined, attached>>

Manager == INSTANCE EntityManager WITH MaxDestroys <- MinimumFree

----------------------------------------------------------------------------
(* Slots of component_managers.                                            *)

Slot(state) == [state |-> state, entities |-> <<>>, instances |-> <<>>]

NewManager    == Slot("live")
Uninitialised == Slot("uninitialised")
Deleted       == Slot("deleted")

\* component<T>::id(), over the program's static counter: ids are numbered
\* by first use in the program, whichever ecs that was in.
Identified(known, c) ==
    IF known[c] # NoId THEN known
    ELSE [known EXCEPT ![c] = Cardinality({d \in Components : known[d] # NoId})]

\* get_component_manager: the slots after a request for id.  Only an id past
\* the end gets a new manager; the slots skipped hold whatever the memory had.
Managed(slots, id) ==
    IF id < Len(slots) THEN slots
    ELSE slots \o [k \in 1 .. id - Len(slots) |-> Uninitialised]
               \o <<NewManager>>

\* get_component_manager for c.
Touch(s, c) ==
    LET known == Identified(s.ids, c)
    IN  [ids |-> known, slots |-> Managed(s.slots, known[c])]

\* The ids and slots after get_component_manager for every component of cs.
Touched(cs) ==
    LET upTo[k \in 0 .. Len(cs)] ==
            IF k = 0 THEN [ids |-> ids, slots |-> component_managers]
                     ELSE Touch(upTo[k - 1], cs[k])
    IN  upTo[Len(cs)]

SlotOf(s, c) == s.slots[s.ids[c] + 1]

----------------------------------------------------------------------------
(* component_manager.                                                      *)

NoPosition == 0

\* sparse_set::get_item_index, counted from 1: an index below the largest
\* one added has a cell of sparse, and one never written may say anything.
Positions(pool, idx) ==
    IF Contains(pool.entities, idx)
    THEN {CHOOSE i \in DOMAIN pool.entities : pool.entities[i] = idx}
    ELSE IF \E i \in DOMAIN pool.entities : pool.entities[i] > idx
    THEN 1 .. Len(pool.entities) + 1
    ELSE {NoPosition}

\* get_instance: where there is an instance to hand out, and whether there may
\* be none, so that the assertion fails or memory past the end is used.
Instances(pool, idx) == Positions(pool, idx) \cap DOMAIN pool.instances
MayMiss(pool, idx) == ~(Positions(pool, idx) \subseteq DOMAIN pool.instances)

\* MUTANT of Attach: the instance goes in front.
AttachInFront(pool, idx, v) ==
    [pool EXCEPT
         !.entities  = IF Contains(@, idx) THEN @ ELSE Append(@, idx),
         !.instances = <<v>> \o @]

\* component_manager::add: the set ignores an index it has, the vec does not.
Attach(pool, idx, v) ==
    [pool EXCEPT
         !.entities  = IF Contains(@, idx) THEN @ ELSE Append(@, idx),
         !.instances = Append(@, v)]

\* MUTANT of Detach: the removed instance is overwritten and nothing popped.
DetachUnpopped(pool, pos) ==
    LET size == Len(pool.instances)
    IN  IF size = 1 THEN Deleted
        ELSE [pool EXCEPT !.instances[pos] = pool.instances[size]]

\* component_manager::destroy, and the delete of a manager left empty: the
\* last instance takes the place of the removed one, the set stays as it is.
Detach(pool, pos) ==
    LET size == Len(pool.instances)
    IN  IF size = 1 THEN Deleted
        ELSE [pool EXCEPT !.instances =
                  SubSeq([@ EXCEPT ![pos] = pool.instances[size]], 1, size - 1)]

----------------------------------------------------------------------------
(* ecs.                                                                    *)

\* The program's only ecs: no other one has numbered components before it.
Init ==
    /\ Manager!Init
    /\ entities = <<>>
    /\ ids = [c \in Components |-> NoId]
    /\ component_managers = <<>>
    /\ view = NoView
    /\ undefined = FALSE
    /\ attached = [c \in Components |-> {}]
    /\ removed = FALSE

Break ==
    /\ undefined' = TRUE
    /\ UNCHANGED <<managerVars, entities, view, attached>>

\* MUTANT of CreateEntity: the entity goes in front of the earlier ones.
CreateEntityInFront ==
    /\ ~undefined
    /\ Manager!CreateReused \/ Manager!CreateFresh
    /\ \E e \in held' \ held : entities' = <<e>> \o entities
    /\ UNCHANGED <<componentVars, view, undefined, attached>>

\* MUTANT of CreateEntity: the entity is not recorded.
CreateEntityUnrecorded ==
    /\ ~undefined
    /\ Manager!CreateReused \/ Manager!CreateFresh
    /\ UNCHANGED <<entities, componentVars, view, undefined, attached>>

CreateEntity ==
    /\ ~undefined
    /\ Manager!CreateReused \/ Manager!CreateFresh
    /\ \E e \in held' \ held : entities' = Append(entities, e)
    /\ UNCHANGED <<componentVars, view, undefined, attached>>

\* The components of the entity stay where they are.
DestroyEntity(e) ==
    /\ ~undefined
    /\ Manager!Destroy(e)
    /\ UNCHANGED <<entities, componentVars, view, undefined, attached>>

\* The entity is looked up by its index, and what is found there is added to.
AddComponent(c, e, v) ==
    LET s == Touched(<<c>>)
    IN  /\ ~undefined
        /\ ids' = s.ids
        /\ IF e.index < Len(entities) /\ SlotOf(s, c).state = "live"
           THEN /\ component_managers' =
                       [s.slots EXCEPT ![s.ids[c] + 1] =
                            Attach(@, entities[e.index + 1].index, v)]
                /\ attached' = [attached EXCEPT ![c] = @ \cup {<<e.index, v>>}]
                /\ UNCHANGED <<managerVars, entities, view, undefined>>
           ELSE component_managers' = s.slots /\ Break

\* A position past the end is an instance that was destroyed.
RemoveComponent(c, e) ==
    LET s == Touched(<<c>>)
        pool == SlotOf(s, c)
    IN  /\ ~undefined
        /\ ids' = s.ids
        /\ \/ /\ pool.state = "live"
              /\ \E pos \in Instances(pool, e.index) :
                     component_managers' =
                         [s.slots EXCEPT ![s.ids[c] + 1] = Detach(pool, pos)]
              /\ attached' = [attached EXCEPT
                                  ![c] = {p \in @ : p[1] # e.index}]
              /\ UNCHANGED <<managerVars, entities, view, undefined>>
           \/ /\ \/ pool.state # "live"
                 \/ MayMiss(pool, e.index)
              /\ component_managers' = s.slots
              /\ Break

\* get_component hands out a reference: it changes nothing but the slots.
GetComponent(c, e) ==
    LET s == Touched(<<c>>)
        pool == SlotOf(s, c)
    IN  /\ ~undefined
        /\ ids' = s.ids
        /\ component_managers' = s.slots
        /\ \/ /\ pool.state = "live"
              /\ Instances(pool, e.index) # {}
              /\ UNCHANGED <<managerVars, entities, view, undefined, attached>>
           \/ /\ \/ pool.state # "live"
                 \/ MayMiss(pool, e.index)
              /\ Break

----------------------------------------------------------------------------
(* basic_view: the loop "for(auto [e, ...] : view)".                       *)

HasAll(pools, idx) == \A k \in DOMAIN pools : Contains(pools[k].entities, idx)

\* The first of the smallest pools.
PickLeading(pools) ==
    CHOOSE j \in DOMAIN pools : \A k \in DOMAIN pools :
        \/ Len(pools[j].entities) < Len(pools[k].entities)
        \/ Len(pools[j].entities) = Len(pools[k].entities) /\ j <= k

\* MUTANT of NextPlace: the last place is not looked at.
NextPlaceShort(pools, leading, i) ==
    LET dense == pools[leading].entities
        found == {k \in i .. Len(dense) - 1 : HasAll(pools, dense[k])}
    IN  IF found # {} THEN CHOOSE k \in found : \A m \in found : k <= m
                      ELSE IF i > Len(dense) THEN i ELSE Len(dense) + 1

\* iter::next: the first place from i on whose entity has every component,
\* or the one after the last.
NextPlace(pools, leading, i) ==
    LET dense == pools[leading].entities
        found == {k \in i .. Len(dense) : HasAll(pools, dense[k])}
    IN  IF found # {} THEN CHOOSE k \in found : \A m \in found : k <= m
                      ELSE IF i > Len(dense) THEN i ELSE Len(dense) + 1

\* Where an iterator may stand: at the end, or where every component of the
\* entity there has its instance.
Dereferenceable(pools, v) ==
    \/ v.i = v.end
    \/ /\ v.i <= Len(pools[v.leading].entities)
       /\ \A k \in DOMAIN pools : ~MayMiss(pools[k], pools[v.leading].entities[v.i])

\* comp(): the instance of idx, where there is one for sure.
Comp(pool, idx) == CHOOSE x \in {pool.instances[pos] : pos \in Positions(pool, idx)} : TRUE

\* The test of the loop, and operator* when it goes on.
Visit(pools, v) ==
    IF v.i = v.end THEN v
    ELSE LET idx == pools[v.leading].entities[v.i]
         IN  [v EXCEPT !.visited = Append(@,
                 [index |-> idx,
                  values |-> [k \in DOMAIN pools |-> Comp(pools[k], idx)]])]

\* The iterator at its first or next place, in pools that are all there.
LoopTo(pools, v) ==
    IF /\ \A k \in DOMAIN pools : pools[k].state = "live"
       /\ Dereferenceable(pools, v)
    THEN /\ view' = Visit(pools, v)
         /\ UNCHANGED <<managerVars, entities, undefined, attached>>
    ELSE Break

\* ecs::view, begin() and end(): what the loop compares with stays as it is.
ViewBegin(cs) ==
    LET s       == Touched(cs)
        pools   == [k \in DOMAIN cs |-> SlotOf(s, cs[k])]
        leading == PickLeading(pools)
    IN  /\ ~undefined
        /\ view = NoView
        /\ ids' = s.ids
        /\ component_managers' = s.slots
        /\ LoopTo(pools, [comps   |-> cs,
                          leading |-> leading,
                          i       |-> NextPlace(pools, leading, 1),
                          end     |-> Len(pools[leading].entities) + 1,
                          visited |-> <<>>])

ViewedPools ==
    [k \in DOMAIN view.comps |-> component_managers[ids[view.comps[k]] + 1]]

\* operator++, between two rounds of the loop's body.
ViewStep ==
    /\ ~undefined
    /\ view # NoView
    /\ view.i # view.end
    /\ LoopTo(ViewedPools,
              [view EXCEPT !.i = NextPlace(ViewedPools, view.leading, @ + 1)])
    /\ UNCHANGED componentVars

ViewEnd ==
    /\ ~undefined
    /\ view # NoView
    /\ view.i = view.end
    /\ view' = NoView
    /\ UNCHANGED <<managerVars, entities, componentVars, undefined, attached>>

----------------------------------------------------------------------------
(* Clients.                                                                *)

Attached(c, e) == \E p \in attached[c] : p[1] = e.index

Viewed(c) == view # NoView /\ Contains(view.comps, c)

\* What a loop over a view leaves room for: its body creates and destroys
\* entities and uses components that the view does not go over.
Common ==
    \/ CreateEntity
    \/ \E c \in Components, e \in held, v \in Values :
           ~Attached(c, e) /\ ~Viewed(c) /\ AddComponent(c, e, v)
    \/ \E c \in Components, e \in held : Attached(c, e) /\ GetComponent(c, e)
    \/ \E cs \in ViewTypes : ViewBegin(cs)
    \/ ViewStep
    \/ ViewEnd

\* Too few destroys for an index to be used again.
BeforeReuse == destroys < MinimumFree

\* Steps of clients whose components are added once to an entity and stay.
CarefulNext == Common \/ \E e \in held : BeforeReuse /\ DestroyEntity(e)

\* And of clients that remove the components they added.
RemovingNext ==
    \E c \in Components, e \in held :
        Attached(c, e) /\ ~Viewed(c) /\ RemoveComponent(c, e)

Next ==
    \/ CarefulNext /\ UNCHANGED removed
    \/ RemovingNext /\ removed' = TRUE

Spec == Init /\ [][Next]_<<vars, removed>>

----------------------------------------------------------------------------
(* Properties.                                                             *)

\* Until a component is removed, get_component gives each entity the instance
\* that was added to it, in whichever order components were added to the
\* entities, whatever was destroyed meanwhile, and whatever the cells of the set
\* hold that nobody wrote.  The first removal may break it: component.h:74-76.
OwnInstance ==
    ~removed => \A c \in Components : \A p \in attached[c] :
        /\ ids[c] # NoId /\ ids[c] < Len(component_managers)
        /\ LET pool == component_managers[ids[c] + 1]
           IN  \A pos \in Positions(pool, p[1]) :
                   pos \in DOMAIN pool.instances /\ pool.instances[pos] = p[2]

\* Until a component is removed, a loop over a view visits every entity that
\* has all its components once, and no other entity, with that entity's own
\* instances; which pool leads and what else the loop's body does makes no
\* difference.
ViewIsExact ==
    ~removed /\ view # NoView /\ view.i = view.end =>
        LET seen == view.visited
            All  == DOMAIN view.comps
            have(c) == {p[1] : p \in attached[c]}
        IN  /\ \A j, k \in DOMAIN seen : seen[j].index = seen[k].index => j = k
            /\ {seen[j].index : j \in DOMAIN seen}
                   = {idx \in have(Head(view.comps)) :
                          \A k \in All : idx \in have(view.comps[k])}
            /\ \A j \in DOMAIN seen, k \in All :
                   <<seen[j].index, seen[j].values[k]>> \in attached[view.comps[k]]

\* add_component adds to the entity it was asked to: the one that ecs keeps
\* at its index ("load entity", ecs.h:70) is of that index.
LookupIsOwn ==
    \A e \in held :
        e.index < Len(entities) /\ entities[e.index + 1].index = e.index

\* Until a component is removed, no operation is sent through memory that
\* holds no manager, no entity or no instance.
NeverUndefined == ~removed => ~undefined

\* Where a component is attached there is an instance: the assertion "Component is
\* not attached to an entity" (component.h:68) is for where it is not, and
\* tests/ecs_tests.cpp:112-114 removes one from three entities in turn.  Clients
\* that remove see it fail: component.h:74-76 moves the last instance and leaves
\* the set, which says who is where, as it is.
AttachedHaveInstances ==
    \A c \in Components : \A p \in attached[c] :
        /\ ids[c] # NoId /\ ids[c] < Len(component_managers)
        /\ ~MayMiss(component_managers[ids[c] + 1], p[1])

\* However many components are removed and added again, and whichever
\* instances that moves, a pool has as many as entities have the component:
\* is_empty() is true, and the manager deleted, only when none has it left.
InstanceCount ==
    \A c \in Components : ids[c] # NoId /\ ids[c] < Len(component_managers) =>
        Len(component_managers[ids[c] + 1].instances) = Cardinality(attached[c])
=============================================================================
