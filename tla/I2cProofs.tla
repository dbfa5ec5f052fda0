-------------------------------- MODULE I2cProofs --------------------------------
(* The tasks on the shared I2C bus, for any setpoints, budgets, zones and taps. *)
EXTENDS I2cTasks, SequenceTheorems, TLAPS

--------------------------------------------------------------------------------
(* Taps as a sequence: n times the same zone.                                   *)

Taps(n, z) == [i \in 1..n |-> z]

LEMMA TapsAreSeq ==
  ASSUME NEW S, NEW z \in S, NEW n \in Nat
  PROVE  Taps(n, z) \in Seq(S) /\ Len(Taps(n, z)) = n
BY DEF Taps

LEMMA NoTaps == ASSUME NEW z PROVE Taps(0, z) = << >>
BY DEF Taps

LEMMA NothingYet == ASSUME NEW S PROVE << >> \in Seq(S)
OBVIOUS

LEMMA TapsAgain ==
  ASSUME NEW S, NEW z \in S, NEW n \in Nat
  PROVE  Append(Taps(n, z), z) = Taps(n + 1, z)
BY TapsAreSeq DEF Taps

LEMMA TapsKept ==
  ASSUME NEW S, NEW u \in Seq(S)
  PROVE  SubSeq(u, 1, Len(u)) = u
OBVIOUS

LEMMA TapsGone ==
  ASSUME NEW S, NEW u \in Seq(S)
  PROVE  SubSeq(u, Len(u) + 1, Len(u)) = << >>
OBVIOUS

--------------------------------------------------------------------------------
(* Types. The loop has budget left until it stops, and a press that may still   *)
(* become a tap leaves room for it.                                             *)

BudgetLeft == pps # "stopped" => errors <= ErrorBudget

TapRoom == pressed \in Zones /\ pressed = tapZone => tapCount < MaxTaps

TypeInv == TypeOK /\ BudgetLeft /\ TapRoom

LEMMA TypeInit == Init => TypeInv
<1> SUFFICES ASSUME Init PROVE TypeInv
  OBVIOUS
<1>1. PpsTypeOK /\ BudgetLeft
  <2>1. PICK on \in BOOLEAN : module = [NoSetpoint EXCEPT !.enabled = on]
    BY DEF Init, PpsInit
  <2>2. module \in [Fields -> Registers]
    BY <2>1 DEF NoSetpoint, Fields, Values, Registers
  <2> QED BY <2>2, PpsAssumption DEF Init, PpsInit, PpsTypeOK, Transactions, Cycle, Fields, BudgetLeft
<1>2. TouchTypeOK /\ TapRoom
  <2>1. NoEvent \in [id : Zones \cup {None}, action : {"short", "long", "none"}, count : 0..MaxTaps]
    BY TouchAssumption DEF NoEvent
  <2>2. untold \in Seq(Zones) /\ event = NoEvent
    BY NothingYet DEF Init, TouchInit
  <2>3. /\ probed = FALSE /\ pressed = None /\ oldPress = FALSE /\ longFired = FALSE
        /\ tapZone = None /\ tapCount = 0 /\ oldRelease = FALSE
    BY DEF Init, TouchInit
  <2>4. tapCount \in 0..MaxTaps /\ ~(tapCount > 0)
    BY <2>3, TouchAssumption
  <2>6. TouchTypeOK
    BY <2>1, <2>2, <2>3, <2>4 DEF TouchTypeOK
  <2>5. TapRoom
    BY <2>3, TouchAssumption DEF TapRoom
  <2> QED BY <2>5, <2>6
<1> QED BY <1>1, <1>2 DEF Init, TypeInv, TypeOK

LEMMA FollowingType ==
  ASSUME NEW at, NEW s
  PROVE  Following(at, s) \in Fields \cup {"read"}
BY DEF Following, Fields

LEMMA PpsTypeStep ==
  ASSUME TypeInv, PpsStep
  PROVE  PpsTypeOK' /\ BudgetLeft' /\ holder' \in {Nobody, "pps", "touch"}
<1> USE PpsAssumption, FollowingType
    DEF TypeInv, TypeOK, BudgetLeft, PpsTypeOK, Transactions, Cycle, Fields, Stand, Take, LetGo, loopVars
<1>1. CASE Send
  BY <1>1 DEF Send, ppsVars
<1>2. CASE SwitchedOff
  BY <1>2 DEF SwitchedOff, Registers
<1>3. CASE Probed
  BY <1>3 DEF Probed
<1>4. CASE Begin
  BY <1>4 DEF Begin
<1>5. CASE Written
  <2>1. setpoint[pps] \in Registers
    BY <1>5 DEF Written, Values, NoSetpoint, Registers
  <2>2. module' \in [Fields -> Registers]
    BY <1>5, <2>1 DEF Written
  <2>3. pps' \in Fields \cup {"read"}
    BY <1>5 DEF Written
  <2> QED BY <1>5, <2>2, <2>3 DEF Written
<1>6. CASE Measured
  BY <1>6 DEF Measured
<1>7. CASE Rejected
  BY <1>7 DEF Rejected
<1>8. CASE Failed
  BY <1>8 DEF Failed
<1>9. CASE TimedOut
  <2>1. pps \in Fields => setpoint[pps] \in Registers
    BY DEF Values, NoSetpoint, Registers
  <2>2. module' \in [Fields -> Registers]
    BY <1>9, <2>1 DEF TimedOut
  <2> QED BY <1>9, <2>2 DEF TimedOut
<1> QED
  BY <1>1, <1>2, <1>3, <1>4, <1>5, <1>6, <1>7, <1>8, <1>9 DEF PpsStep

--------------------------------------------------------------------------------
(* Taps: the history is what the counter says.                                  *)

Counted == untold = Taps(tapCount, tapZone)

TapInv == TouchTypeOK /\ TapRoom /\ Counted

EventRule ==
  event' # event /\ event' # NoEvent =>
    IF event'.action = "short"
    THEN event'.count > 0 /\ untold = [i \in 1..event'.count |-> event'.id]
    ELSE event'.id = pressed /\ pressed' = pressed /\ ~longFired

\* What an event leaves untold.
LEMMA RestAfter ==
  ASSUME TapInv
  PROVE  /\ untold \in Seq(Zones) /\ tapCount \in Nat
         /\ Rest(untold, NoEvent) = untold
         /\ tapCount > 0 => Rest(untold, Short(tapZone, tapCount)) = << >>
         /\ \A z \in Zones : Rest(untold, Long(z)) = << >>
<1> USE DEF TapInv, TouchTypeOK, Counted
<1>1. untold \in Seq(Zones) /\ tapCount \in Nat
  BY TouchAssumption
<1>2. SubSeq(untold, 1, Len(untold)) = untold /\ SubSeq(untold, Len(untold) + 1, Len(untold)) = << >>
  BY <1>1, TapsKept, TapsGone
<1>3. tapCount > 0 => Len(untold) = tapCount
  BY <1>1, TapsAreSeq
<1>4. Rest(untold, NoEvent) = untold
  BY <1>2 DEF Rest, NoEvent
<1>5. ASSUME tapCount > 0 PROVE Rest(untold, Short(tapZone, tapCount)) = << >>
  <2>1. Rest(untold, Short(tapZone, tapCount)) = SubSeq(untold, tapCount + 1, Len(untold))
    BY DEF Rest, Short
  <2> QED BY <1>2, <1>3, <1>5, <2>1
<1>6. ASSUME NEW z \in Zones PROVE Rest(untold, Long(z)) = << >>
  BY DEF Rest, Long
<1> QED
  BY <1>1, <1>4, <1>5, <1>6

LEMMA PollIdleStep ==
  ASSUME TapInv, PollIdle
  PROVE  TapInv' /\ EventRule
<1> USE TouchAssumption DEF TapInv, TouchTypeOK, pressVars
<1>1. CASE tapCount > 0 /\ oldRelease
  <2>1. /\ event' = Short(tapZone, tapCount)
        /\ tapZone' = None /\ tapCount' = 0 /\ oldRelease' = FALSE
        /\ untold' = Rest(untold, event')
        /\ UNCHANGED <<probed, pressed, oldPress, longFired>>
    BY <1>1 DEF PollIdle
  <2>2. untold' = << >>
    BY <1>1, <2>1, RestAfter
  <2>6. untold' \in Seq(Zones)
    BY <2>2, NothingYet
  <2>3. Counted'
    BY <2>1, <2>2, NoTaps DEF Counted
  <2>4. event' \in [id : Zones \cup {None}, action : {"short", "long", "none"}, count : 0..MaxTaps]
    BY <2>1 DEF Short
  <2>5. EventRule
    BY <1>1, <2>1 DEF EventRule, Counted, Taps, Short
  <2>7. tapCount' \in 0..MaxTaps /\ ~(tapCount' > 0)
    BY <2>1
  <2>8. TouchTypeOK'
    BY <2>1, <2>4, <2>6, <2>7
  <2>9. TapRoom'
    BY <2>1 DEF TapRoom
  <2> QED BY <2>3, <2>5, <2>8, <2>9
<1>2. CASE ~(tapCount > 0 /\ oldRelease)
  <2>1. /\ event' = NoEvent /\ untold' = Rest(untold, event')
        /\ UNCHANGED <<probed, pressed, oldPress, longFired, tapZone, tapCount, oldRelease>>
    BY <1>2 DEF PollIdle, tapVars
  <2>2. untold' = untold
    BY <2>1, RestAfter
  <2>3. event' \in [id : Zones \cup {None}, action : {"short", "long", "none"}, count : 0..MaxTaps]
    BY <2>1 DEF NoEvent
  <2> QED BY <2>1, <2>2, <2>3 DEF EventRule, Counted, TapRoom
<1> QED BY <1>1, <1>2

LEMMA PollPressStep ==
  ASSUME TapInv, PollPress
  PROVE  TapInv' /\ EventRule
<1> USE TouchAssumption DEF TapInv, TouchTypeOK, tapVars
<1>1. /\ pressed' \in Zones /\ (pressed' = tapZone => tapCount < MaxTaps)
      /\ oldPress' = FALSE /\ longFired' = FALSE /\ event' = NoEvent
      /\ UNCHANGED <<probed, tapZone, tapCount, oldRelease, untold>>
  BY DEF PollPress
<1>2. event' \in [id : Zones \cup {None}, action : {"short", "long", "none"}, count : 0..MaxTaps]
  BY <1>1 DEF NoEvent
<1> QED BY <1>1, <1>2 DEF EventRule, Counted, TapRoom

LEMMA PollHoldStep ==
  ASSUME TapInv, PollHold
  PROVE  TapInv' /\ EventRule
<1> USE TouchAssumption DEF TapInv, TouchTypeOK
<1>1. CASE ~longFired /\ oldPress
  <2>1. /\ longFired' = TRUE /\ tapCount' = 0 /\ tapZone' = None /\ oldRelease' = FALSE
        /\ event' = Long(pressed) /\ untold' = Rest(untold, event')
        /\ pressed \in Zones
        /\ UNCHANGED <<probed, pressed, oldPress>>
    BY <1>1 DEF PollHold
  <2>2. untold' = << >>
    BY <2>1, RestAfter
  <2>6. untold' \in Seq(Zones)
    BY <2>2, NothingYet
  <2>3. Counted'
    BY <2>1, <2>2, NoTaps DEF Counted
  <2>4. event' \in [id : Zones \cup {None}, action : {"short", "long", "none"}, count : 0..MaxTaps]
    BY <2>1 DEF Long
  <2>5. EventRule
    BY <1>1, <2>1 DEF EventRule, Long
  <2>7. tapCount' \in 0..MaxTaps /\ ~(tapCount' > 0)
    BY <2>1
  <2>8. TouchTypeOK'
    BY <2>1, <2>4, <2>6, <2>7
  <2>9. TapRoom'
    BY <2>1 DEF TapRoom
  <2> QED BY <2>3, <2>5, <2>8, <2>9
<1>2. CASE ~(~longFired /\ oldPress)
  <2>1. /\ event' = NoEvent /\ untold' = Rest(untold, event')
        /\ UNCHANGED <<probed, pressed, oldPress, longFired, tapZone, tapCount, oldRelease>>
    BY <1>2 DEF PollHold, tapVars
  <2>2. untold' = untold
    BY <2>1, RestAfter
  <2>3. event' \in [id : Zones \cup {None}, action : {"short", "long", "none"}, count : 0..MaxTaps]
    BY <2>1 DEF NoEvent
  <2> QED BY <2>1, <2>2, <2>3 DEF EventRule, Counted, TapRoom
<1> QED BY <1>1, <1>2

LEMMA PollReleaseStep ==
  ASSUME TapInv, PollRelease
  PROVE  TapInv' /\ EventRule
<1> USE TouchAssumption DEF TapInv, TouchTypeOK
<1> DEFINE Events == [id : Zones \cup {None}, action : {"short", "long", "none"}, count : 0..MaxTaps]
<1>1. CASE longFired
  <2>1. /\ event' = NoEvent /\ pressed' = None
        /\ UNCHANGED <<probed, oldPress, longFired, tapZone, tapCount, oldRelease, untold>>
    BY <1>1 DEF PollRelease, tapVars
  <2>2. event' \in Events
    BY <2>1 DEF NoEvent
  <2> QED BY <2>1, <2>2 DEF EventRule, Counted, TapRoom
<1>2. CASE ~longFired /\ tapZone = pressed
  <2>1. /\ event' = NoEvent /\ pressed' = None /\ pressed \in Zones
        /\ tapCount' = tapCount + 1 /\ oldRelease' = FALSE
        /\ untold' = Append(Rest(untold, event'), pressed)
        /\ UNCHANGED <<probed, oldPress, longFired, tapZone>>
    BY <1>2 DEF PollRelease
  <2>2. untold' = Append(Taps(tapCount, tapZone), tapZone)
    BY <1>2, <2>1, RestAfter DEF Counted
  <2>3. Counted'
    <3>1. untold' = Taps(tapCount + 1, tapZone)
      BY <1>2, <2>1, <2>2, RestAfter, TapsAgain
    <3> QED BY <2>1, <3>1 DEF Counted
  <2>4. untold' \in Seq(Zones)
    BY <2>1, RestAfter
  <2>5. event' \in Events
    BY <2>1 DEF NoEvent
  <2>6. tapCount' \in 0..MaxTaps /\ tapZone' # None
    BY <1>2, <2>1 DEF TapRoom
  <2>7. TouchTypeOK'
    BY <1>2, <2>1, <2>4, <2>5, <2>6
  <2>8. TapRoom' /\ EventRule
    BY <2>1 DEF TapRoom, EventRule
  <2> QED BY <2>3, <2>7, <2>8
<1>3. CASE ~longFired /\ tapZone # pressed
  <2>1. /\ event' = Pending /\ pressed' = None /\ pressed \in Zones
        /\ tapCount' = 1 /\ tapZone' = pressed /\ oldRelease' = FALSE
        /\ untold' = Append(Rest(untold, event'), pressed)
        /\ UNCHANGED <<probed, oldPress, longFired>>
    BY <1>3 DEF PollRelease
  <2>2. Rest(untold, event') = << >>
    <3>1. CASE tapZone # None /\ tapCount > 0
      BY <2>1, <3>1, RestAfter DEF Pending
    <3>2. CASE ~(tapZone # None /\ tapCount > 0)
      <4>1. tapCount = 0
        BY <3>2
      <4>2. untold = << >>
        BY <4>1, NoTaps DEF Counted
      <4> QED BY <2>1, <3>2, <4>2, RestAfter DEF Pending
    <3> QED BY <3>1, <3>2
  <2>3. Counted'
    <3>1. Taps(0, pressed) = << >> /\ Append(Taps(0, pressed), pressed) = Taps(0 + 1, pressed)
      BY <2>1, NoTaps, TapsAgain
    <3>2. untold' = Taps(1, pressed)
      BY <2>1, <2>2, <3>1
    <3> QED BY <2>1, <3>2 DEF Counted
  <2>4. untold' \in Seq(Zones)
    <3>1. Taps(1, pressed) \in Seq(Zones)
      BY <2>1, TapsAreSeq
    <3> QED BY <2>1, <2>3, <3>1 DEF Counted
  <2>5. event' \in Events
    BY <2>1 DEF Pending, Short, NoEvent
  <2>6. TouchTypeOK'
    <3>1. tapCount' \in 0..MaxTaps /\ tapZone' \in Zones /\ tapZone' # None
      BY <2>1
    <3> QED BY <2>1, <2>4, <2>5, <3>1
  <2>7. TapRoom'
    BY <2>1 DEF TapRoom
  <2>8. EventRule
    <3>1. CASE tapZone # None /\ tapCount > 0
      BY <2>1, <3>1 DEF EventRule, Pending, Counted, Taps, Short
    <3>2. CASE ~(tapZone # None /\ tapCount > 0)
      BY <2>1, <3>2 DEF EventRule, Pending
    <3> QED BY <3>1, <3>2
  <2> QED BY <2>3, <2>6, <2>7, <2>8
<1> QED BY <1>1, <1>2, <1>3

LEMMA TapStep ==
  ASSUME TapInv, TouchPoll \/ (Ages /\ UNCHANGED ppsVars)
  PROVE  TapInv' /\ EventRule
<1>1. CASE ProbeAnswered
  BY <1>1 DEF ProbeAnswered, pressVars, tapVars, TapInv, TouchTypeOK, TapRoom, Counted, EventRule
<1>2. CASE Ages
  BY <1>2 DEF Ages, TapInv, TouchTypeOK, TapRoom, Counted, EventRule
<1>3. CASE ReadHangs \/ ReadFails
  BY <1>3 DEF ReadHangs, ReadFails, touchVars, pressVars, tapVars, TapInv, TouchTypeOK, TapRoom, Counted, EventRule
<1> QED
  BY <1>1, <1>2, <1>3, PollIdleStep, PollPressStep, PollHoldStep, PollReleaseStep DEF TouchPoll, Poll

LEMMA TapKept ==
  ASSUME TapInv, UNCHANGED touchVars
  PROVE  TapInv' /\ EventRule
BY DEF touchVars, pressVars, tapVars, TapInv, TouchTypeOK, TapRoom, Counted, EventRule

LEMMA TypeStep ==
  ASSUME TypeInv, Counted, [Next]_vars
  PROVE  TypeInv' /\ Counted' /\ EventRule
<1> USE DEF TypeInv, TypeOK, TapInv
<1>1. CASE PpsTask
  BY <1>1, PpsTypeStep, TapKept DEF PpsTask
<1>2. CASE TouchPoll
  <2>1. PpsTypeOK' /\ BudgetLeft' /\ holder' \in {holder, Nobody, "touch"}
    BY <1>2 DEF TouchPoll, Poll, ReadHangs, ReadFails, ProbeAnswered, PollIdle, PollPress, PollHold,
                PollRelease, Reads, Take, LetGo, ppsVars, loopVars, PpsTypeOK, BudgetLeft
  <2> QED BY <1>2, <2>1, TapStep
<1>3. CASE Ages /\ UNCHANGED ppsVars
  <2>1. PpsTypeOK' /\ BudgetLeft' /\ holder' = holder
    BY <1>3 DEF Ages, ppsVars, loopVars, PpsTypeOK, BudgetLeft
  <2> QED BY <1>3, <2>1, TapStep
<1>4. CASE HealthChanges /\ UNCHANGED touchVars
  <2>1. PpsTypeOK' /\ BudgetLeft' /\ holder' = holder
    BY <1>4 DEF HealthChanges, loopVars, PpsTypeOK, BudgetLeft
  <2> QED BY <1>4, <2>1, TapKept
<1>5. CASE UNCHANGED vars
  <2>1. PpsTypeOK' /\ BudgetLeft' /\ holder' = holder
    BY <1>5 DEF vars, ppsVars, loopVars, PpsTypeOK, BudgetLeft
  <2> QED BY <1>5, <2>1, TapKept DEF vars
<1> QED BY <1>1, <1>2, <1>3, <1>4, <1>5 DEF Next

LEMMA TasksInvariant == Spec => [](TypeInv /\ Counted)
<1>1. Init => Counted
  BY NoTaps DEF Init, TouchInit, Counted
<1>2. TypeInv /\ Counted /\ [Next]_vars => (TypeInv /\ Counted)'
  BY TypeStep
<1> QED BY <1>1, <1>2, TypeInit, PTL DEF Spec

\* The variables of both tasks keep their types, and the loop lives within its
\* error budget, for any number of errors, attempts, measurements and taps.
THEOREM TasksTypes == Spec => []TypeOK
<1>1. TypeInv => TypeOK
  BY DEF TypeInv
<1> QED BY <1>1, TasksInvariant, PTL

\* Every event tells all the taps since the last one, each once and in its own
\* zone, in whatever order presses, ages and the other user of the bus come.
THEOREM TapsTold == Spec => EventsTellTaps
<1>1. TypeInv /\ Counted /\ [Next]_vars => [EventRule]_<<touchVars, holder>>
  BY TypeStep
<1> QED BY <1>1, TasksInvariant, PTL DEF Spec, EventsTellTaps, EventRule

--------------------------------------------------------------------------------
(* Limits before the switch: what a cycle has written so far is in the module.  *)

InForce(f) == setpoint[f] \in {Keep, module[f]}

WrittenSoFar ==
  /\ pps \in {"voltage", "enabled", "read"} => InForce("current")
  /\ pps \in {"enabled", "read"} => InForce("voltage")
  /\ pps = "read" => InForce("enabled")

LimitsRule ==
  /\ module'.enabled = TRUE /\ module.enabled = FALSE
       => InForce("current") /\ InForce("voltage")
  /\ Measured /\ readsLeft = 1 => \A f \in Fields : InForce(f)

LEMMA FollowingOrder ==
  ASSUME NEW at \in {"begin", "current", "voltage", "enabled"}, NEW s
  PROVE  /\ at \in {"voltage", "enabled"} => Following(at, s) \in {"enabled", "read"}
         /\ at = "enabled" => Following(at, s) = "read"
         /\ at = "current" => Following(at, s) # "current"
         /\ at = "begin" /\ Following(at, s) # "current" => s.current = Keep
         /\ at \in {"begin", "current"} /\ Following(at, s) \in {"enabled", "read"} => s.voltage = Keep
         /\ at # "enabled" /\ Following(at, s) = "read" => s.enabled = Keep
<1>1. CASE at = "begin"
  BY <1>1 DEF Following
<1>2. CASE at = "current"
  BY <1>2 DEF Following
<1>3. CASE at = "voltage"
  BY <1>3 DEF Following
<1>4. CASE at = "enabled"
  BY <1>4 DEF Following
<1> QED BY <1>1, <1>2, <1>3, <1>4

LEMMA LimitsStep ==
  ASSUME TypeInv, WrittenSoFar, PpsStep
  PROVE  WrittenSoFar' /\ LimitsRule
<1> USE FollowingType, FollowingOrder
    DEF TypeInv, TypeOK, PpsTypeOK, WrittenSoFar, LimitsRule, InForce, Fields, Stand, loopVars, LetGo
<1>1. CASE Send
  BY <1>1 DEF Send, ppsVars, Take, Measured
<1>2. CASE SwitchedOff
  BY <1>2 DEF SwitchedOff, Measured
<1>3. CASE Probed
  BY <1>3 DEF Probed, Measured
<1>4. CASE Begin
  <2>1. module' = module /\ pps' = Following("begin", setpoint') /\ ~Measured
    BY <1>4 DEF Begin, Measured
  <2> QED BY <2>1
<1>5. CASE Written
  <2>1. /\ pps \in Fields /\ pps' = Following(pps, setpoint) /\ setpoint' = setpoint
        /\ module' = [module EXCEPT ![pps] = setpoint[pps]] /\ ~Measured
    BY <1>5 DEF Written, Measured
  <2>2. \A f \in Fields : module'[f] = IF f = pps THEN setpoint[f] ELSE module[f]
    BY <2>1
  <2>3. CASE pps = "current"
    BY <2>1, <2>2, <2>3
  <2>4. CASE pps = "voltage"
    BY <2>1, <2>2, <2>4
  <2>5. CASE pps = "enabled"
    BY <2>1, <2>2, <2>5
  <2> QED BY <2>1, <2>3, <2>4, <2>5
<1>6. CASE Measured
  <2>1. pps = "read" /\ module' = module /\ setpoint' = setpoint /\ pps' \in {"read", "between"}
    BY <1>6 DEF Measured
  <2> QED BY <2>1
<1>7. CASE Rejected
  BY <1>7 DEF Rejected, Measured
<1>8. CASE Failed
  BY <1>8 DEF Failed, Measured
<1>9. CASE TimedOut
  <2>1. pps' = "between" /\ ~Measured
    BY <1>9 DEF TimedOut, Measured
  <2>2. module' = module \/ (pps \in Fields /\ module' = [module EXCEPT ![pps] = setpoint[pps]])
    BY <1>9 DEF TimedOut
  <2>3. module'.enabled # module.enabled => pps = "enabled"
    BY <2>2
  <2> QED BY <2>1, <2>3
<1> QED
  BY <1>1, <1>2, <1>3, <1>4, <1>5, <1>6, <1>7, <1>8, <1>9 DEF PpsStep

\* Neither the output nor a reading comes under any limits but those of one
\* setpoint, for any setpoints, whichever writes failed or timed out before.
THEOREM LimitsFirst == Spec => TermsFirst
<1>1. Init => WrittenSoFar
  BY DEF Init, PpsInit, WrittenSoFar
<1>2. TypeInv /\ WrittenSoFar /\ [Next]_vars => WrittenSoFar' /\ LimitsRule
  <2> SUFFICES ASSUME TypeInv, WrittenSoFar, [Next]_vars
               PROVE  WrittenSoFar' /\ LimitsRule
    OBVIOUS
  <2>1. CASE PpsTask
    BY <2>1, LimitsStep DEF PpsTask
  <2>2. CASE UNCHANGED ppsVars \/ (HealthChanges /\ UNCHANGED touchVars)
    <3>1. UNCHANGED <<pps, readsLeft, setpoint, module>>
      BY <2>2 DEF ppsVars, loopVars, HealthChanges
    <3>2. ~(Measured /\ readsLeft = 1)
      <4>1. Measured => readsLeft' = readsLeft - 1
        BY DEF Measured
      <4> QED BY <3>1, <4>1
    <3> QED BY <3>1, <3>2 DEF WrittenSoFar, InForce, LimitsRule
  <2> QED BY <2>1, <2>2 DEF Next, TouchPoll, vars
<1>3. TypeInv /\ WrittenSoFar /\ [Next]_vars => [LimitsRule]_<<ppsVars, holder>>
  BY <1>2
<1> QED BY <1>1, <1>2, <1>3, TasksInvariant, PTL DEF Spec, TermsFirst, LimitsRule, InForce

================================================================================
