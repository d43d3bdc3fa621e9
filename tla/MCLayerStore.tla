----------------------------- MODULE MCLayerStore -----------------------------
(* LayerStore for TLC: two volumes, on a new node or on one that was used.     *)
EXTENDS LayerStore, TLC

CONSTANTS v1, v2

TwoVolumes == {v1, v2}
Symmetry == Permutations(TwoVolumes)

\* v1 and v2 are mounted; v1 is committed (1), mounted and committed again (2),
\* and then v2 is committed (3).  With a registry, the push of 2 failed, v1 was
\* mounted before 3 was pushed, and is committed (4), a push that fails, too: the
\* image in the registry is dangling.  Two commands are to come.
Used ==
  /\ shared \in Sharing /\ NothingMounted /\ runs = MaxRuns - 2
  /\ base = IF shared THEN <<0, 1, 0, 1>> ELSE <<0, 1, 0>>
  /\ stored = 1..Len(base)
  /\ names = [x \in {"local", "remote"} |-> IF x = "local" THEN Len(base) ELSE IF shared THEN 1 ELSE 0]
  /\ registry = IF shared THEN 3 ELSE 0

\* Both volumes are mounted from no image, their Pods wrote, and two commands
\* are to come: both may be committed at once.
Written ==
  /\ shared \in Sharing /\ NoImages /\ runs = MaxRuns - 2
  /\ ctrs = [v \in Volume |-> [NoContainer EXCEPT !.st = "mounted", !.dirty = TRUE, !.dir = TRUE]]
  /\ dirs = [v \in Volume |-> "bound"]
  /\ contents = [v \in Volume |-> "written"]
  /\ cmds = [v \in Volume |-> [NewCommand("mount", "done", TRUE, FALSE) EXCEPT !.made = "ctr"]]
  /\ prune = NotPruning /\ prunes = 0 /\ faults = 0

NewOrUsed == (Init \/ Used \/ Written) /\ [][Next]_vars
=============================================================================
