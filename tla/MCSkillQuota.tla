---- MODULE MCSkillQuota ----
EXTENDS SkillQuota, TLC

CONSTANTS a1, a2, a3, r1, r2

Symmetric == Permutations(Attempts) \cup Permutations(Reqs)
====
