\* Does a checkpoint restore the categories enabled when it was written?
CONSTANTS
  Shortcuts <- MCShortcuts
  Inputs <- MCInputs
  InitialValue <- MCInitialValue
  MaxStringLen = 4
SPECIFICATION Spec

INVARIANT CheckpointRestores
