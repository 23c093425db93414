CONSTANTS
  DefFiles <- CounterStatFiles
SPECIFICATION Spec
INVARIANT AcceptedDefsGenerate
\* main() returns or exits: its final state has no successor.
CHECK_DEADLOCK FALSE
