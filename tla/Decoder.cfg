SPECIFICATION Spec
CONSTANT Scenarios <- Everything
INVARIANTS TypeOK InOrder AllDecoded
\* parse returns at the end of the capture
CHECK_DEADLOCK FALSE
