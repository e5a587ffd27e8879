\* Two events cross two alerts while they are created and cancelled.
SPECIFICATION FairSpec
CONSTANTS
  Message = {m1, m2}
  Alert = {a1, a2}
  Price = {1, 2, 3}
  Prefetch = 2
  Failing = {"query", "notification"}
  None = None
INVARIANTS MailedOnce TriggersCross AckedMeansHandled
PROPERTY EventsAreSettled
CHECK_DEADLOCK FALSE
