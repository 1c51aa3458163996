SPECIFICATION Spec
CONSTANTS
  Callers = {c1, c2}
  Conns = {k1, k2, k3}
  NoConn = NoConn
  Ops = {"tx", "exec", "query", "row"}
  Faults = TRUE
  MaxWrites = 2
  MaxHeld = 2
SYMMETRY McSymmetry
INVARIANTS
  TypeOK
  OneOwner
  AnswerIsTrue
  NoGridlock
