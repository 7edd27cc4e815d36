\* Two commands, one path that may be a link and the source it leads to.
SPECIFICATION Spec
CONSTANTS
  None = None
  User = User
  Renderers = {r1,r2}
  Outputs = {o1}
  Sources = {s1}
SYMMETRY RendererSymmetry
INVARIANTS
  OutputsWhole
  ExitTruth
PROPERTIES
  
  ImplementsAtomicOutput
CHECK_DEADLOCK FALSE
