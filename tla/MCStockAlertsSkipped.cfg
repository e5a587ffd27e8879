\* The alerts after one whose mail fails: refuted.
SPECIFICATION Spec
CONSTANTS
  Message = {m1}
  Alert = {a1, a2}
  Price = {1, 2}
  Prefetch = 1
  Failing = {"notification"}
  None = None
SYMMETRY Symmetry
INVARIANT CrossedAlertsTrigger
CHECK_DEADLOCK FALSE
