----------------------------- MODULE MCLabReset -----------------------------
(* A small instance of LabReset: the two reset requests are alike.          *)
EXTENDS LabReset, TLC

ResetSymmetry == Permutations(Resets)

=============================================================================
