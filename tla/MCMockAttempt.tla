--------------------------- MODULE MCMockAttempt ---------------------------
EXTENDS MockAttempt, TLC

OneEach    == <<{1}, {1}>>
OneThenTwo == <<{1}, {1, 2}>>
Ids == Permutations(Attempts) \cup Permutations(Children)
       \cup Permutations(Workers)
=============================================================================
