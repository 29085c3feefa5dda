---------------------------- MODULE MCMergeQueue ----------------------------
(* Instances of MergeQueue for TLC. *)
EXTENDS MergeQueue, FiniteSets

\* One agent submits twice, the others once.
Twice == CHOOSE a \in Agents : TRUE
Submits == [a \in Agents |-> IF a = Twice THEN 2 ELSE 1]

\* Of the agents that submit once, which are alike, this one comes after the rest.
LastOne == CHOOSE a \in Agents \ {Twice} : TRUE

Pairs == {p \in SUBSET Requests : Cardinality(p) = 2}
Trees == {t \in SUBSET Requests : t # {}}

\* At most one pair conflicts, or one tree of one or two changes does not
\* build, nor any tree it is a part of.
Few(sets) == {x \in SUBSET sets : Cardinality(x) <= 1}
Canonical(sets) == {s \in sets : <<LastOne, 1>> \in s => (Agents \ {Twice}) \X {1} \subseteq s}
Above(trees) == {t \in Trees : \E s \in trees : s \subseteq t}
SmallTrees == {t \in Trees : Cardinality(t) <= 2}
SomeWorlds ==
  {[clash |-> c, broken |-> Above(b)] : c \in Few(Canonical(Pairs)), b \in Few(Canonical(SmallTrees))}
OneCause == {w \in SomeWorlds : w.clash = {} \/ w.broken = {}}
=============================================================================
