---- MODULE MCModuleExam ----
EXTENDS ModuleExam
====
