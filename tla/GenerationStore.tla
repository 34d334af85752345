---------------------------- MODULE GenerationStore ----------------------------
(***************************************************************************)
(* Generations and the two symbolic links `current` and `previous` that    *)
(* select among them: crates/xray-manager-platform/src/portable.rs.  The   *)
(* configuration, the core and the asset directories all use these         *)
(* operations.  A generation is a natural number; a larger number is a     *)
(* directory with a later modification time.  A pair of links is a record  *)
(* [cur, prev] whose fields are generations, or None for a missing link.   *)
(***************************************************************************)
EXTENDS Naturals, FiniteSets

CONSTANT None

ASSUME NoneAssumption == None \notin Nat

Links(gens) == [cur : gens \cup {None}, prev : gens \cup {None}]

Linked(ptr) == {ptr.cur, ptr.prev} \ {None}

\* Mutation: `previous` keeps its target.
LinkPreviousSkipped(ptr) == ptr

\* switch_generation, first half: `previous` takes over what `current` names;
\* without a `current` link it is left alone.
LinkPrevious(ptr) ==
    IF ptr.cur = None THEN ptr ELSE [ptr EXCEPT !.prev = ptr.cur]

\* switch_generation, second half: `current` is renamed over to the target.
LinkCurrent(ptr, target) == [ptr EXCEPT !.cur = target]

\* replace_pointer, on either link: None removes the link.
PointCurrent(ptr, target) == [ptr EXCEPT !.cur = target]
PointPrevious(ptr, target) == [ptr EXCEPT !.prev = target]

Newest(gens, k) == {g \in gens : Cardinality({h \in gens : h > g}) < k}

\* Mutation: the newest generations stay, linked or not.
PrunedByAge(dirs, ptr, keep) == Newest(dirs, keep)

\* prune_generations: the linked generations stay, and of the others the newest
\* ones that the limit leaves room for.
Pruned(dirs, ptr, keep) ==
    LET others == dirs \ Linked(ptr)
        taken  == Cardinality(Linked(ptr))
        room   == IF keep > taken THEN keep - taken ELSE 0
    IN  (dirs \cap Linked(ptr)) \cup Newest(others, room)
================================================================================
