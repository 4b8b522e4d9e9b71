SPECIFICATION Spec
CONSTANTS
  Events = {e1, e2}
  Callbacks = {f, g}
  MaxRegistrations = 3
  MaxDepth = 3
SYMMETRY Symmetry
INVARIANTS
  GroupsSound
  CalledOnce
PROPERTIES
  ImplementsTyped
