SPECIFICATION Spec
CONSTANT Scenarios <- OnBeat
INVARIANT FoundOnBeat
\* parse returns at the end of the capture
CHECK_DEADLOCK FALSE
