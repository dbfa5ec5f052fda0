-------------------------------- MODULE I2cTasks --------------------------------
(* The tasks on the shared I2C bus: the power supply loop and the touch         *)
(* buttons, each a transaction at a time.                                       *)
EXTENDS Pps, TouchButtons

vars == <<ppsVars, touchVars, holder>>

Init == PpsInit /\ TouchInit /\ holder = Nobody

PpsTask == PpsStep /\ UNCHANGED touchVars

TouchPoll == Poll /\ UNCHANGED ppsVars

Next ==
  \/ PpsTask
  \/ TouchPoll
  \/ Ages /\ UNCHANGED ppsVars
  \/ HealthChanges /\ UNCHANGED touchVars

\* A task that can go on does. The mutex keeps no order, but the loop lets go of
\* it for most of its 500 ms, so a poll gets its turn; and the finger is away at
\* some poll. Nothing makes it touch, or let go.
Fairness ==
  /\ WF_vars(PpsTask) /\ WF_vars(Ages /\ UNCHANGED ppsVars)
  /\ SF_vars(PollIdle /\ UNCHANGED ppsVars)
  /\ SF_vars(PollHold /\ UNCHANGED ppsVars)

Spec == Init /\ [][Next]_vars /\ Fairness

--------------------------------------------------------------------------------
(* Properties                                                                   *)

TypeOK == PpsTypeOK /\ TouchTypeOK /\ holder \in {Nobody, "pps", "touch"}

\* Unless the module, or the touch controller itself, hangs and keeps the bus for
\* ever, a tap is told, or cancelled by a long press, whoever else uses the bus.
TapTold ==
  <>[](health # "stuck") /\ []<>(holder # "touch") =>
    \A z \in Zones : Oldest(z) ~> ~Oldest(z)
================================================================================
