CONSTANTS
  v1 = v1
  v2 = v2
  Volume <- TwoVolumes
  Annotation = {"size"}
  Text = {"x", "y", ""}
  Specs <- SomeSpecs
  MaxEdits = 6
SPECIFICATION Spec
SYMMETRY Symmetry
INVARIANTS TypeOK EnvPrecedence DeprovisionerFollows DeprovisionerBuildable OwnDirectory
CHECK_DEADLOCK FALSE
