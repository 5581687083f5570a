---------------------------- MODULE MCSkillStore ----------------------------
EXTENDS SkillStore, TLC

CONSTANTS agent, anna, bert, plain, other

\* Everybody is who they are; the ids of the reviewers differ in characters that
\* path_safe flattens, so they share a queue.
MCSelf  == [c \in Callers |-> c]
MCQueue == [p \in Principals |-> IF p = agent THEN "agent" ELSE "reviewer"]

\* A body may name another skill.
MCFronts == {[name |-> other, by |-> None]}

MCHash(d) == <<"sha256", d>>

Symmetry == Permutations({anna, bert})
=============================================================================
