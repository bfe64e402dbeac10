SPECIFICATION Spec
CONSTANT Scenarios <- Everything
CONSTANT Params = {0, 1, 2}
CONSTANT TRACE_SIZE = 79
INVARIANTS TypeOK InOrder AllLogged TraceFits
\* the command ends
CHECK_DEADLOCK FALSE
