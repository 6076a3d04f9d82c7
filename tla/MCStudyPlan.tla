---- MODULE MCStudyPlan ----
EXTENDS StudyPlan

(* The first hub comes and goes, the others stay published. *)
MCSteady == {2, 3}
====
