\* Set, dump, checkpoint and restore of the debugCategory param.
CONSTANTS
  Shortcuts <- MCShortcuts
  Inputs <- MCInputs
  InitialValue <- MCInitialValue
  MaxStringLen = 4
SPECIFICATION Spec
INVARIANT FreshRoundTrip
