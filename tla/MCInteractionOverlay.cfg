\* One request of the host; the time limits in the order of the code.
SPECIFICATION OverlaySpec
CONSTANTS
  Budget = 2
  Timeout = 3
  Waits = {w1}
  Patience = 4
INVARIANTS OneRefresh OneAttempt
PROPERTIES EdgeServed AnswersArePending AttemptIsReported
CHECK_DEADLOCK FALSE
