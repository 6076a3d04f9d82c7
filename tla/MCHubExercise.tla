--------------------------- MODULE MCHubExercise ---------------------------
EXTENDS HubExercise
CONSTANTS essay, talks
HubSkill == [h \in Hubs |-> IF h = essay THEN "writing" ELSE "speaking"]
=============================================================================
