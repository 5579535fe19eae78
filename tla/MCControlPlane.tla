--------------------------- MODULE MCControlPlane ---------------------------
(* Instances of ControlPlane for TLC.  Regions, nodes and workers play the  *)
(* same part each, so the safety runs look at one of every symmetric set of *)
(* states; every region may be the default one in a run that uses this.     *)
EXTENDS ControlPlane, TLC

Symmetry == Permutations(Regions) \cup Permutations(Nodes) \cup Permutations(Workers)
=============================================================================
