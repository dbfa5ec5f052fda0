\* The bring-ups of both boards, and an application that asks for 5 V before,
\* during or after one; any access may fail, and init is tried again once. No
\* battery; one whose voltage has two bytes to change; a full one.
SPECIFICATION Spec
CONSTANTS
  FallbackTries = 1
  Voltages = {0, 3071, 3072, 3301}
INVARIANTS OnlyAskedFor BothKept DisplayUp
CHECK_DEADLOCK FALSE
