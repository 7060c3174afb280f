CONSTANTS
  Conn = {c1, c2, c3}
  Client = {k1}
  Plain = {k0}
  Worker = {w1, w2}
  NULL = NULL
  QueueMax = 1
  MaxCalls = 1
  MaxCuts = 1
SPECIFICATION Spec
SYMMETRY Symmetry
INVARIANTS RefsExact NoUseAfterDelete AnsweredWhenQuiet
CHECK_DEADLOCK FALSE
