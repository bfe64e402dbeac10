SPECIFICATION Spec
CONSTANT Uids <- TwoUids
CONSTANT Atqas <- TwoAtqas
CONSTANT Crcs <- TwoCrcs
CONSTANT Keeps = {1, 3, 4}
\* an exception ends the program
CHECK_DEADLOCK FALSE
INVARIANTS Faithful Complete
