SPECIFICATION Spec
CONSTANTS
  Cap = 1
  MaxRetries = 1
  MaxFrames = 4
INVARIANT SteadyForwards
