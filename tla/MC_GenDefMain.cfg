CONSTANTS
  DefFiles <- MCDefFiles
SPECIFICATION Spec
INVARIANT TypeOK
INVARIANT SimReqTablesAgree
INVARIANT OutputIsPrefix
\* main() returns or exits: its final state has no successor.
CHECK_DEADLOCK FALSE
