CONSTANTS
  Lines <- SomeLines
  Scripts <- SomeScripts
  MaxTyped = 3
  MaxProcesses = 4
  PipeCap = 1
  Output = 2
  Second = 4
SPECIFICATION Spec
INVARIANTS
  OneReader
  UnknownRunsRestTwice
PROPERTIES
  PipesEnd
  PhasesEnd
  PromptReturns
