----------------------------- MODULE MCEnvironment -----------------------------
(* Environment on small instances.                                            *)
EXTENDS EnvironmentInvariant, TLC

(* Reader threads are interchangeable.                                        *)
Symmetry == Permutations(Readers)

===============================================================================
