-------------------------- MODULE MCDependencyGraph --------------------------
(* Four names are enough for a diamond and for a cycle through four edges. *)
EXTENDS DependencySearch

FourNames == 1..4
=============================================================================
