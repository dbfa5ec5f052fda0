------------------------------- MODULE MCI2cTasks -------------------------------
(* I2cTasks with two setpoints: all fields, switched on; one limit, switched off. *)
EXTENDS I2cTasks

CONSTANTS Low, High         \* a limit

Terms(current, voltage, enabled) ==
  [current |-> current, voltage |-> voltage, enabled |-> enabled]

MCSetpoints == { Terms(Low, Low, TRUE), Terms(High, Keep, FALSE) }
================================================================================
