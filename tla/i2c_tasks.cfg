\* One setpoint that sets both limits and switches the output on, one that sets
\* one limit and switches it off; two errors end the task; two zones, two taps in a row.
SPECIFICATION Spec
CONSTANTS
  Nobody = Nobody
  Keep = Keep
  None = None
  Low = Low
  High = High
  Setpoints <- MCSetpoints
  PROBE_ATTEMPTS = 2
  ErrorBudget = 1
  Readings = 2
  Zones = {left, right}
  MaxTaps = 2
PROPERTIES TermsFirst DeadModuleStops EventsTellTaps TapTold
