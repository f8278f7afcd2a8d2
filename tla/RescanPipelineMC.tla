-------------------------- MODULE RescanPipelineMC --------------------------
(* Instances of RescanPipeline for TLC: chunk counts of the files, below, at *)
(* and above a chunk limit of 4.                                             *)
EXTENDS RescanPipeline

CONSTANTS p1, p2, p3, p4

Sizes == [p \in Paths |-> CASE p = p1 -> 1 [] p = p2 -> 2 [] p = p3 -> 4 [] OTHER -> 5]
=============================================================================
