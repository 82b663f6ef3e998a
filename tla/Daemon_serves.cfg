\* One process that comes up and loses an accept on its control socket.
CONSTANTS
  Procs = {p1}
  MaxStarts = 1
SPECIFICATION Spec
CHECK_DEADLOCK FALSE
PROPERTY ServesUntilSigterm
