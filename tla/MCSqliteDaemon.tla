--------------------------- MODULE MCSqliteDaemon ---------------------------
(* Instances of SqliteDaemon for TLC. *)
EXTENDS SqliteDaemon, TLC

OneModule == [t \in Tag |-> "m"]

\* Every change is breaking in one direction and harmless in the other
Severities ==
  [c \in Content \X Content |-> IF c[1] = "x" THEN "critical" ELSE "info"]

Symmetry == Permutations(Tag) \cup Permutations(Run)
=============================================================================
