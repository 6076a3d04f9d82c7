---------------------------- MODULE MCCatalogJobs ----------------------------
(* Instances of CatalogJobs for TLC. *)
EXTENDS CatalogJobs, TLC

CONSTANTS w1, w2, s1

MCRoom == <<0, 2>>

MCPractised == {<<1, s1>>}
=============================================================================
