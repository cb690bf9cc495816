CONSTANTS
  Procs = {p1, p2, p3, p4}
  Commands = {"serve", "call", "show", "rotate"}
  NoProc = NoProc
SYMMETRY ProcSymmetry
SPECIFICATION Spec
CHECK_DEADLOCK FALSE
INVARIANTS TypeOK RestartEnforcesRotation LoneCommandAgrees
PROPERTY RefusedForAReason
