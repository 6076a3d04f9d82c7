---- MODULE MCSpeakingEvaluation ----
EXTENDS SpeakingEvaluation
====
