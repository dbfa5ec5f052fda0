------------------------------ MODULE TouchButtons ------------------------------
(* The three buttons on the CoreS3's touch strip (io/touch_buttons.rs): taps    *)
(* counted, long presses told, from polls of the controller over the shared I2C *)
(* bus. Time is what the machine asks of it: whether a press is old enough to   *)
(* be long, and whether the last release is too old for another tap to count.   *)
EXTENDS Naturals, Sequences, I2cBus

CONSTANTS
  Zones,                    \* the buttons
  None,                     \* no touch, or one outside the strip
  MaxTaps                   \* bound: taps in a row

ASSUME TouchAssumption == None \notin Zones /\ MaxTaps \in Nat \ {0} /\ Nobody # "touch"

VARIABLES
  probed,
  pressed, oldPress, longFired,
  tapZone, tapCount, oldRelease,
  event,                    \* what the last poll returned
  untold                    \* history: the short taps seen, and not told or cancelled yet

pressVars == <<pressed, oldPress, longFired>>
tapVars == <<tapZone, tapCount, oldRelease>>
touchVars == <<probed, pressVars, tapVars, event, untold>>

Short(zone, n) == [id |-> zone, action |-> "short", count |-> n]
Long(zone) == [id |-> zone, action |-> "long", count |-> 0]
NoEvent == [id |-> None, action |-> "none", count |-> 0]

TouchInit ==
  /\ probed = FALSE
  /\ pressed = None /\ oldPress = FALSE /\ longFired = FALSE
  /\ tapZone = None /\ tapCount = 0 /\ oldRelease = FALSE
  /\ event = NoEvent /\ untold = << >>

\* The taps still to be told after an event.
Rest(taps, e) == IF e.action = "long" THEN << >> ELSE SubSeq(taps, e.count + 1, Len(taps))

\* Time passes the one threshold or the other.
Ages ==
  /\ \/ pressed # None /\ ~oldPress /\ oldPress' = TRUE /\ UNCHANGED oldRelease
     \/ tapCount > 0 /\ ~oldRelease /\ oldRelease' = TRUE /\ UNCHANGED oldPress
  /\ UNCHANGED <<probed, pressed, longFired, tapZone, tapCount, event, untold, holder>>

\* read_touch takes the bus for one transaction, a step of its own when the
\* controller keeps it waiting. One that fails changes nothing.
Reads == BusFree /\ UNCHANGED holder

ReadHangs == Take("touch") /\ UNCHANGED touchVars

ReadFails == LetGo("touch") /\ UNCHANGED touchVars

ProbeAnswered ==
  /\ ~probed /\ Reads
  /\ probed' = TRUE
  /\ UNCHANGED <<pressVars, tapVars, event, untold>>

\* Mutant: a single tap is not worth telling.
PollIdleMultiple ==
  /\ probed /\ Reads
  /\ pressed = None
  /\ IF tapCount > 1 /\ oldRelease
     THEN /\ event' = Short(tapZone, tapCount)
          /\ tapZone' = None /\ tapCount' = 0 /\ oldRelease' = FALSE
     ELSE event' = NoEvent /\ UNCHANGED tapVars
  /\ untold' = Rest(untold, event')
  /\ UNCHANGED <<probed, pressVars>>

\* No touch, as before: the taps are told when no other can follow.
PollIdle ==
  /\ probed /\ Reads
  /\ pressed = None
  /\ IF tapCount > 0 /\ oldRelease
     THEN /\ event' = Short(tapZone, tapCount)
          /\ tapZone' = None /\ tapCount' = 0 /\ oldRelease' = FALSE
     ELSE event' = NoEvent /\ UNCHANGED tapVars
  /\ untold' = Rest(untold, event')
  /\ UNCHANGED <<probed, pressVars>>

\* The bound keeps a zone from more taps than the model counts.
PollPress ==
  /\ probed /\ Reads
  /\ pressed = None
  /\ pressed' \in {z \in Zones : z = tapZone => tapCount < MaxTaps}
  /\ oldPress' = FALSE /\ longFired' = FALSE
  /\ event' = NoEvent
  /\ UNCHANGED <<probed, tapVars, untold>>

\* The finger is down, in whatever zone by now.
PollHold ==
  /\ probed /\ Reads
  /\ pressed # None
  /\ IF ~longFired /\ oldPress
     THEN /\ longFired' = TRUE
          /\ tapCount' = 0 /\ tapZone' = None /\ oldRelease' = FALSE
          /\ event' = Long(pressed)
     ELSE event' = NoEvent /\ UNCHANGED <<longFired, tapVars>>
  /\ untold' = Rest(untold, event')
  /\ UNCHANGED <<probed, pressed, oldPress>>

\* Mutant: the taps of the other zone are dropped, not told.
PendingDropped == NoEvent

\* The taps of another zone, when a tap in this one ends them.
Pending == IF tapZone # None /\ tapCount > 0 THEN Short(tapZone, tapCount) ELSE NoEvent

PollRelease ==
  /\ probed /\ Reads
  /\ pressed # None
  /\ pressed' = None
  /\ IF longFired THEN event' = NoEvent /\ UNCHANGED <<tapVars, untold>>
     ELSE /\ oldRelease' = FALSE
          /\ IF tapZone = pressed
             THEN tapCount' = tapCount + 1 /\ event' = NoEvent /\ UNCHANGED tapZone
             ELSE tapZone' = pressed /\ tapCount' = 1 /\ event' = Pending
          /\ untold' = Append(Rest(untold, event'), pressed)
  /\ UNCHANGED <<probed, oldPress, longFired>>

Poll ==
  \/ ReadHangs \/ ReadFails
  \/ ProbeAnswered \/ PollIdle \/ PollPress \/ PollHold \/ PollRelease

TouchStep == Poll \/ Ages

--------------------------------------------------------------------------------
(* Properties                                                                   *)

TouchTypeOK ==
  /\ probed \in BOOLEAN
  /\ pressed \in Zones \cup {None} /\ oldPress \in BOOLEAN /\ longFired \in BOOLEAN
  /\ tapZone \in Zones \cup {None} /\ tapCount \in 0..MaxTaps /\ oldRelease \in BOOLEAN
  /\ event \in [id : Zones \cup {None}, action : {"short", "long", "none"}, count : 0..MaxTaps]
  /\ untold \in Seq(Zones)
  /\ tapCount > 0 => tapZone # None

\* An event tells all the taps not told yet, each once and in its own zone; a
\* long press, told once while the finger is down, tells its own zone.
EventsTellTaps ==
  [][event' # event /\ event' # NoEvent =>
       IF event'.action = "short"
       THEN event'.count > 0 /\ untold = [i \in 1..event'.count |-> event'.id]
       ELSE event'.id = pressed /\ pressed' = pressed /\ ~longFired]_<<touchVars, holder>>

Oldest(zone) == untold # << >> /\ Head(untold) = zone
================================================================================
