---------------------------------- MODULE Pps ----------------------------------
(* The control loop of the power supply module (io/pps.rs, driver/pps.rs):      *)
(* switch it off, probe it, then write the setpoint and read the measurements   *)
(* in transactions of their own, all under one timeout, until too many errors.  *)
EXTENDS Naturals, I2cBus

CONSTANTS
  Setpoints,                \* what get_setpoint may return
  Keep,                     \* Option::None in a setpoint's field
  PROBE_ATTEMPTS,
  ErrorBudget,              \* 10: errors in a row the loop lives with
  Readings                  \* 5: measurements of a cycle

Fields == {"current", "voltage", "enabled"}

ASSUME PpsAssumption ==
  /\ PROBE_ATTEMPTS \in Nat \ {0} /\ ErrorBudget \in Nat /\ Readings \in Nat \ {0}
  /\ Nobody # "pps"
  /\ \A s \in Setpoints : DOMAIN s = Fields /\ s.enabled \in BOOLEAN \cup {Keep}
  /\ Keep \notin BOOLEAN

VARIABLES
  pps,                      \* where the task stands
  attempt, readsLeft,       \* the loops of the probe and of read_pps
  setpoint,                 \* the one of this cycle
  errors,                   \* error_count
  module,                   \* the registers of the module
  health                    \* how the module answers

loopVars == <<attempt, readsLeft, setpoint, errors>>
ppsVars == <<pps, loopVars, module, health>>

NoSetpoint == [f \in Fields |-> Keep]
Values(f) == {s[f] : s \in Setpoints} \cup {Keep}
Registers == (UNION {Values(f) : f \in Fields}) \cup BOOLEAN
Cycle == Fields \cup {"read"}
Transactions == {"off", "probe"} \cup Cycle

\* The module outlives a restart of the program, with its output on or off.
PpsInit ==
  /\ pps = "off" /\ attempt = 1 /\ readsLeft = 0
  /\ setpoint = NoSetpoint /\ errors = 0
  /\ \E on \in BOOLEAN : module = [NoSetpoint EXCEPT !.enabled = on]
  /\ health \in {"well", "absent", "stuck"}

Stand(label) == pps' = label

\* The lock, and the transaction on its way.
Send ==
  /\ pps \in Transactions
  /\ Take("pps")
  /\ UNCHANGED ppsVars

\* pps_loop switches the output off, whether the module hears it or not.
SwitchedOff ==
  /\ pps = "off" /\ health # "stuck"
  /\ LetGo("pps")
  /\ \/ health = "well" /\ module' = [module EXCEPT !.enabled = FALSE]
     \/ UNCHANGED module
  /\ Stand("probe")
  /\ UNCHANGED <<loopVars, health>>

\* It identifies itself, or it does not, in the end for good; the loop runs
\* either way.
Probed ==
  /\ pps = "probe" /\ health # "stuck"
  /\ LetGo("pps")
  /\ \/ health = "well" /\ Stand("between") /\ UNCHANGED attempt
     \/ attempt < PROBE_ATTEMPTS /\ attempt' = attempt + 1 /\ UNCHANGED pps
     \/ attempt = PROBE_ATTEMPTS /\ Stand("between") /\ UNCHANGED attempt
  /\ UNCHANGED <<readsLeft, setpoint, errors, module, health>>

\* Mutant: the output is switched before its limits are set.
FollowingSwitchFirst(at, s) ==
  IF at = "begin" /\ s.enabled # Keep THEN "enabled"
  ELSE IF at \in {"begin", "enabled"} /\ s.current # Keep THEN "current"
  ELSE IF at # "voltage" /\ s.voltage # Keep THEN "voltage"
  ELSE "read"

\* write_pps, in its order: what the setpoint leaves out is not written.
Following(at, s) ==
  IF at = "begin" /\ s.current # Keep THEN "current"
  ELSE IF at \in {"begin", "current"} /\ s.voltage # Keep THEN "voltage"
  ELSE IF at # "enabled" /\ s.enabled # Keep THEN "enabled"
  ELSE "read"

\* The ticker fires.
Begin ==
  /\ pps = "between"
  /\ setpoint' \in Setpoints
  /\ readsLeft' = Readings
  /\ Stand(Following("begin", setpoint'))
  /\ UNCHANGED <<attempt, errors, module, health, holder>>

Written ==
  /\ pps \in Fields /\ health = "well"
  /\ LetGo("pps")
  /\ module' = [module EXCEPT ![pps] = setpoint[pps]]
  /\ Stand(Following(pps, setpoint))
  /\ UNCHANGED <<loopVars, health>>

\* One of the measurements; after the last they are published.
Measured ==
  /\ pps = "read" /\ health = "well"
  /\ LetGo("pps")
  /\ readsLeft' = readsLeft - 1
  /\ IF readsLeft > 1 THEN UNCHANGED <<pps, errors>>
     ELSE Stand("between") /\ errors' = 0
  /\ UNCHANGED <<attempt, setpoint, module, health>>

\* NaN, or nothing the hardware can measure: the cycle is over, and no error.
Rejected ==
  /\ pps = "read" /\ health = "well"
  /\ LetGo("pps")
  /\ Stand("between")
  /\ UNCHANGED <<loopVars, module, health>>

\* Mutant: a module that does not answer is not ready, and no error.
FailedTransient ==
  /\ pps \in Cycle /\ health # "stuck"
  /\ LetGo("pps")
  /\ Stand("between")
  /\ UNCHANGED <<loopVars, module, health>>

Failed ==
  /\ pps \in Cycle /\ health # "stuck"
  /\ LetGo("pps")
  /\ errors' = errors + 1
  /\ Stand(IF errors + 1 > ErrorBudget THEN "stopped" ELSE "between")
  /\ UNCHANGED <<attempt, readsLeft, setpoint, module, health>>

\* with_timeout drops the cycle where it is: in a transaction, and the guard with
\* it, where what was on its way may have arrived; or at the lock another task
\* keeps. No timeout covers the switching off and the probe.
TimedOut ==
  /\ pps \in Cycle
  /\ \/ /\ health = "stuck" /\ LetGo("pps")
        /\ \/ UNCHANGED module
           \/ pps \in Fields /\ module' = [module EXCEPT ![pps] = setpoint[pps]]
     \/ /\ holder \notin {Nobody, "pps"}
        /\ UNCHANGED <<module, holder>>
  /\ Stand("between")
  /\ UNCHANGED <<loopVars, health>>

\* External: the module leaves the bus, hangs, comes back; it keeps its registers.
HealthChanges ==
  /\ health' \in {"well", "absent", "stuck"} \ {health}
  /\ UNCHANGED <<pps, loopVars, module, holder>>

PpsStep ==
  \/ Send \/ SwitchedOff \/ Probed \/ Begin
  \/ Written \/ Measured \/ Rejected \/ Failed \/ TimedOut

--------------------------------------------------------------------------------
(* Properties                                                                   *)

PpsTypeOK ==
  /\ pps \in Transactions \cup {"between", "stopped"}
  /\ attempt \in 1..PROBE_ATTEMPTS /\ readsLeft \in 0..Readings
  /\ setpoint \in Setpoints \cup {NoSetpoint}
  /\ errors \in 0..(ErrorBudget + 1)
  /\ module \in [Fields -> Registers]
  /\ health \in {"well", "absent", "stuck"}
  /\ pps \in Cycle => readsLeft > 0

\* The output comes on, and measurements are published, only with the limits of
\* one setpoint in the module, whichever writes were lost, rejected or timed
\* out before.
TermsFirst ==
  [][LET inForce(f) == setpoint[f] \in {Keep, module[f]}
     IN  /\ module'.enabled = TRUE /\ module.enabled = FALSE
              => inForce("current") /\ inForce("voltage")
         /\ Measured /\ readsLeft = 1 => \A f \in Fields : inForce(f)]_<<ppsVars, holder>>

\* A module that is gone ends the task, unless another one keeps the bus from it:
\* the bus is not kept busy for ever.
DeadModuleStops ==
  <>[](health = "absent" /\ holder \in {Nobody, "pps"}) => <>(pps = "stopped")
================================================================================
