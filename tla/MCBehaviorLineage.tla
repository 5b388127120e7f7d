------------------------- MODULE MCBehaviorLineage -------------------------
(* Sources of two to five examples: registries in and out of the order of    *)
(* the ids, exemplars at the ends and between, assignments in and out of row *)
(* order, one twice, one missing, one of a row outside the registry.         *)
EXTENDS BehaviorLineage

CONSTANTS a, b

NameSymmetry == Permutations(Names)

At(row, point) == [row |-> row, point |-> point]

OneEach(n) == [i \in 1 .. n |-> At(i, 1)]
Backwards(n) == [i \in 1 .. n |-> At(n + 1 - i, 1)]

Source(registry, assigned, passports) ==
    [registry |-> registry, assigned |-> assigned, passports |-> passports]

\* The sources both names may have.
MCSources ==
    {Source(<<1, 2>>, OneEach(2), {<<1, 1>>, <<2, 1>>}),
     Source(<<2, 1>>, OneEach(2), {<<1, 1>>, <<2, 1>>}),
     Source(<<1, 2, 3>>, OneEach(3), {<<1, 1>>, <<2, 1>>}),
     Source(<<1, 3, 2>>, Backwards(3), {<<1, 1>>, <<2, 1>>}),
     Source(<<1, 2, 3>>, Append(Backwards(3), At(2, 2)), {<<1, 1>>, <<3, 1>>}),
     Source(<<2, 1, 3>>, OneEach(3), {<<1, 1>>, <<3, 1>>, <<3, 2>>}),
     Source(<<1, 2, 3>>, OneEach(3), {<<2, 1>>, <<3, 1>>}),
     Source(<<1, 2, 3>>, Append(OneEach(3), At(1, 1)), {<<1, 1>>, <<3, 1>>}),
     Source(<<1, 2, 3>>, Append(OneEach(3), At(3, 1)), {<<1, 1>>, <<3, 1>>}),
     Source(<<1, 2, 3>>, OneEach(2), {<<1, 1>>, <<3, 1>>}),
     Source(<<1, 2>>, OneEach(2), {<<1, 1>>, <<1, 2>>}),
     Source(<<1, 2>>, OneEach(3), {<<1, 1>>, <<2, 1>>}),
     Source(<<2, 1, 4, 3>>, Backwards(4), {<<1, 1>>, <<2, 2>>, <<4, 1>>}),
     Source(<<1, 2, 4, 3, 5>>, Backwards(5), {<<1, 1>>, <<5, 1>>})}
=============================================================================
