\* Three launches of the server, SIGTERM and SIGKILL at any step.
CONSTANTS
  Procs = {p1, p2, p3}
SPECIFICATION Spec
\* Every process may end; the model stops when all are down.
CHECK_DEADLOCK FALSE
INVARIANT
  AtMostOneServer
