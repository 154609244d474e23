---------------------------- MODULE MCWorkflowRun ----------------------------
(* Instances of WorkflowRun for TLC: one or two files, two request slots.  *)
EXTENDS WorkflowRun, TLC

CONSTANTS f1, f2, r1, r2

Ids == Permutations(File) \union Permutations(Loop)
=============================================================================
