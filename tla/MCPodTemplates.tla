--------------------------- MODULE MCPodTemplates ---------------------------
(***************************************************************************)
(* Instance of PodTemplates: two volumes, one annotation, and the          *)
(* specifications that differ in what the containers add and override.     *)
(***************************************************************************)
EXTENDS PodTemplates, TLC

CONSTANTS v1, v2

TwoVolumes == {v1, v2}
Symmetry == Permutations(TwoVolumes)

\* The template has a path and a variable that every container may override.
Base == [mapping |-> <<[name |-> 2, annotation |-> "size", required |-> TRUE]>>,
         env |-> <<<<1, Path>>, <<2, Str("template")>>>>, cmd |-> "nil",
         penv |-> <<>>, pcmd |-> "provision", denv |-> <<>>, dcmd |-> "deprovision",
         sound |-> TRUE, path |-> "/a", dir |-> Path]

Optional == [Base EXCEPT !.mapping = <<[name |-> 2, annotation |-> "size", required |-> FALSE]>>,
                         !.penv = <<<<2, Str("p1")>>, <<2, Str("p2")>>>>, !.path = "/b",
                         !.denv = <<<<2, Str("d")>>, <<3, Path>>>>]

SomeSpecs == {
  Base,
  Optional,
  [Optional EXCEPT !.dcmd = "empty"],
  [Base EXCEPT !.cmd = "template", !.pcmd = "empty", !.dcmd = "nil", !.denv = <<<<1, Str("d")>>>>,
               !.dir = Str("/fixed")],
  [Base EXCEPT !.path = "none"],
  [Base EXCEPT !.penv = <<<<3, Unknown>>>>],
  [Base EXCEPT !.pcmd = "empty"],
  [Base EXCEPT !.sound = FALSE]}

=============================================================================
