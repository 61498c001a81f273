--------------------------- MODULE MCSentinelLab ---------------------------
(* A small instance of SentinelLab.  Pods are alike: the model names none,  *)
(* so that states which differ by a renaming of the pods are one.          *)
EXTENDS SentinelLab, TLC

NodeSymmetry == Permutations(Nodes)

=============================================================================
