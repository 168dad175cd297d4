----------------------------- MODULE MCJobQueue -----------------------------
(* Small instances of JobQueue for TLC: three downloads, whose limit is 2,
   and two metadata jobs of a higher priority, whose limit is 1. *)
EXTENDS JobQueue, TLC

CONSTANTS d1, d2, d3, m1, m2

MCTypes == {"download", "metadata"}
MCJobType ==
  [j \in Jobs |-> IF j \in {m1, m2} THEN "metadata" ELSE "download"]
MCPriority == [j \in Jobs |-> IF j \in {m1, m2} THEN 10 ELSE 0]
MCLimit == [t \in Types |-> IF t = "download" THEN 2 ELSE 1]

Symmetry == Permutations({d1, d2, d3} \cap Jobs) \cup Permutations({m1, m2} \cap Jobs)
=============================================================================
