------------------------------- MODULE Ds18b20 -------------------------------
(***************************************************************************)
(* The temperature loop (src/io/ow_temp.rs, ow_loop) over the DS18B20      *)
(* driver (src/driver/ds18b20.rs), which scans the bus with RomSearch on   *)
(* first use, starts a conversion in every sensor, polls the bus until it  *)
(* is over and reads the cached sensors one after the other.               *)
(*                                                                         *)
(* Time is counted in poll intervals of 10 ms since the conversion began.  *)
(***************************************************************************)
EXTENDS RomSearch

CONSTANTS
    ConvTime,   \* a conversion lasts at most 750 ms
    TimeLimit,  \* ConversionTimeout past 800 ms
    MaxLate,    \* how late the task may run after a sample
    BufSize,    \* ow_loop's buffer, 2
    MaxPlugged  \* bound: sensors on the bus at the start

ASSUME TimeAssumption ==
    /\ ConvTime \in Nat \ {0} /\ TimeLimit \in Nat /\ MaxLate \in Nat
    /\ ConvTime + MaxLate <= TimeLimit + 1
    /\ BufSize \in Nat /\ MaxPlugged \in Nat

VARIABLES
    phase,     \* where ow_loop stands; "stopped" once it has returned
    failure,   \* the error it returned on
    now,       \* start.elapsed() of wait_conversion_complete
    busy,      \* external: sensors converting
    dead,      \* external: sensors that never finish a conversion
    sampled,   \* external: sensors holding this cycle's temperature
    cursor,    \* i, the next cached address to read
    temps,     \* temperatures
    report,    \* the slice on_temperatures was last called with
    calm       \* history: no glitch, no hotplug since the conversion began

cycleVars == <<phase, failure, now, busy, dead, sampled, cursor, temps, report, calm>>
vars == <<searchVars, noiseVars, cycleVars>>

Reading == [rom : Rom, fresh : BOOLEAN]

Init ==
    /\ ScanInit
    /\ plugged \in {S \in SUBSET Sensors : Cardinality(S) <= MaxPlugged}
    /\ dead \in {{}} \cup {{d} : d \in plugged}
    /\ phase = "tick" /\ failure = "none"
    /\ now = 0 /\ busy = {} /\ sampled = {}
    /\ cursor = 1 /\ temps = <<>> /\ report = <<>>
    /\ calm = TRUE

Stop(why) == phase' = "stopped" /\ failure' = why

-----------------------------------------------------------------------------
\* The ticker fires: read_all_temperatures scans if nothing is cached.
StartCycle ==
    /\ phase = "tick"
    /\ IF addresses = <<>>
       THEN phase' = "scan" /\ Rescan
       ELSE phase' = "convert" /\ UNCHANGED <<searchVars, noiseVars>>
    /\ UNCHANGED <<failure, now, busy, dead, sampled, cursor, temps, report, calm>>

Scan ==
    /\ phase = "scan"
    /\ ScanStep
    /\ UNCHANGED cycleVars

\* rescan has returned: on an error ow_loop returns too.
ScanReturns ==
    /\ phase = "scan" /\ scan \notin {"next", "bits"}
    /\ IF scan = "ok" THEN phase' = "convert" /\ UNCHANGED failure
                      ELSE Stop(scan)
    /\ UNCHANGED <<searchVars, noiseVars, now, busy, dead, sampled, cursor, temps, report, calm>>

\* Reset, Skip ROM and Convert T: every sensor starts a conversion.
Convert ==
    /\ phase = "convert"
    /\ phase' = "poll" /\ now' = 0
    /\ busy' = plugged /\ sampled' = {} /\ calm' = TRUE
    /\ UNCHANGED <<searchVars, noiseVars, failure, dead, cursor, temps, report>>

\* wait_conversion_complete takes a sample (a sensor holds the slot low while
\* it converts) and then looks at the clock, "late" intervals after it.
Sample(flip) ==
    /\ phase = "poll"
    /\ now >= ConvTime => busy \subseteq dead
    /\ Glitch(Flips(flip))
    /\ calm' = (calm /\ ~flip)
    /\ UNCHANGED <<searchVars, quiet, busy, dead, sampled, report>>

\* Mutant: at the limit the time is up already.
TimedOutEarly(late) == now + late >= TimeLimit

TimedOut(late) == now + late > TimeLimit

\* Mutant: the sample is not looked at.
ConvertedAtOnce(flip) ==
    /\ Sample(flip)
    /\ phase' = "read" /\ cursor' = 1 /\ temps' = <<>>
    /\ UNCHANGED <<failure, now>>

Converted(flip) ==
    /\ Sample(flip)
    /\ (busy = {}) # flip
    /\ phase' = "read" /\ cursor' = 1 /\ temps' = <<>>
    /\ UNCHANGED <<failure, now>>

PollAgain(flip, late) ==
    /\ Sample(flip)
    /\ (busy = {}) = flip /\ ~TimedOut(late)
    /\ now' = now + late + 1
    /\ UNCHANGED <<phase, failure, cursor, temps>>

ConversionTimeout(flip, late) ==
    /\ Sample(flip)
    /\ (busy = {}) = flip /\ TimedOut(late)
    /\ Stop("ConversionTimeout")
    /\ UNCHANGED <<now, cursor, temps>>

\* Mutant: a lost sensor ends the cycle's readings.
ReadSensorOrStop(fails) ==
    LET ok == addresses[cursor] \in plugged /\ ~fails
    IN  /\ phase = "read" /\ cursor <= Len(addresses)
        /\ Glitch(Flips(fails))
        /\ calm' = (calm /\ ~fails)
        /\ temps' = IF ok THEN Append(temps, [rom |-> addresses[cursor],
                                             fresh |-> addresses[cursor] \in sampled])
                    ELSE temps
        /\ cursor' = IF ok THEN cursor + 1 ELSE Len(addresses) + 1
        /\ UNCHANGED <<searchVars, quiet, phase, failure, now, busy, dead, sampled, report>>

\* read_scratchpad of the next cached address: a sensor that does not answer,
\* a corrupt frame or a failed transaction leaves it out of this cycle.
ReadSensor(fails) ==
    /\ phase = "read" /\ cursor <= Len(addresses)
    /\ Glitch(Flips(fails))
    /\ calm' = (calm /\ ~fails)
    /\ temps' = IF addresses[cursor] \in plugged /\ ~fails
                THEN Append(temps, [rom |-> addresses[cursor],
                                    fresh |-> addresses[cursor] \in sampled])
                ELSE temps
    /\ cursor' = cursor + 1
    /\ UNCHANGED <<searchVars, quiet, phase, failure, now, busy, dead, sampled, report>>

\* The first BufSize elements of a sequence.
Buffer(s) == SubSeq(s, 1, IF Len(s) < BufSize THEN Len(s) ELSE BufSize)

\* on_temperatures is called with what fits the buffer, then the loop sleeps.
Report ==
    /\ phase = "read" /\ cursor > Len(addresses)
    /\ report' = Buffer(temps)
    /\ phase' = "tick"
    /\ UNCHANGED <<searchVars, noiseVars, failure, now, busy, dead, sampled, cursor, temps, calm>>

\* A transaction before the readings fails: ow_loop returns.
BusError ==
    /\ phase \in {"convert", "poll"}
    /\ Stop("OneWireError")
    /\ UNCHANGED <<searchVars, noiseVars, now, busy, dead, sampled, cursor, temps, report, calm>>

Loop ==
    \/ StartCycle \/ Scan \/ ScanReturns \/ Convert
    \/ \E flip \in BOOLEAN : Converted(flip)
    \/ \E flip \in BOOLEAN, late \in 0 .. MaxLate :
            PollAgain(flip, late) \/ ConversionTimeout(flip, late)
    \/ \E fails \in BOOLEAN : ReadSensor(fails)
    \/ Report \/ BusError

-----------------------------------------------------------------------------
(* The sensors, external.                                                  *)

\* A conversion ends.
Finish(d) ==
    /\ d \in busy \ dead
    /\ busy' = busy \ {d} /\ sampled' = sampled \cup {d}
    /\ UNCHANGED <<searchVars, noiseVars, phase, failure, now, dead, cursor, temps, report, calm>>

Hotplug ==
    /\ hotplugs < MaxHotplugs
    /\ hotplugs' = hotplugs + 1 /\ calm' = FALSE
    /\ quiet' = (quiet /\ phase # "scan")
    /\ UNCHANGED <<scan, addresses, address, lastDiscrepancy, complete, lastZero, bit, glitches,
                   phase, failure, now, dead, cursor, temps, report>>

Unplug(d) ==
    /\ d \in plugged
    /\ Hotplug
    /\ plugged' = plugged \ {d} /\ active' = active \ {d}
    /\ busy' = busy \ {d} /\ sampled' = sampled \ {d}

Plug(d) ==
    /\ d \in Sensors \ plugged
    /\ Hotplug
    /\ plugged' = plugged \cup {d}
    /\ UNCHANGED <<active, busy, sampled>>

Next ==
    \/ Loop
    \/ \E d \in Sensors : Finish(d) \/ Unplug(d) \/ Plug(d)

Spec ==
    /\ Init /\ [][Next]_vars
    /\ WF_vars(Loop)
    /\ \A d \in Sensors : WF_vars(Finish(d))

-----------------------------------------------------------------------------
TypeOK ==
    /\ scan \in {"next", "bits", "ok", "TooManySensorsConnected", "OneWireError"}
    /\ addresses \in Seq(Rom) /\ Len(addresses) <= MaxSensors
    /\ address \in Rom
    /\ lastDiscrepancy \in BitNo \cup {None} /\ lastZero \in BitNo \cup {None}
    /\ complete \in BOOLEAN
    /\ bit \in 0 .. RomBits
    /\ plugged \subseteq Sensors /\ active \subseteq plugged
    /\ glitches \in 0 .. MaxGlitches /\ hotplugs \in 0 .. MaxHotplugs
    /\ quiet \in BOOLEAN /\ calm \in BOOLEAN
    /\ phase \in {"tick", "scan", "convert", "poll", "read", "stopped"}
    /\ failure \in {"none", "TooManySensorsConnected", "OneWireError", "ConversionTimeout"}
    /\ now \in 0 .. (TimeLimit + 1)
    /\ busy \subseteq plugged /\ sampled \subseteq plugged /\ dead \subseteq Sensors
    /\ cursor \in 1 .. (MaxSensors + 1)
    /\ temps \in Seq(Reading) /\ Len(temps) < cursor
    /\ report \in Seq(Reading) /\ Len(report) <= BufSize

Cached == {addresses[k] : k \in 1 .. Len(addresses)}

\* A scan caches no address that no sensor has, even when one sample of it is
\* inverted: a search the glitch leads astray dies out on the bus or fails
\* the CRC (onewire.rs:440-444, 466-472).
NoPhantom == glitches <= 1 /\ hotplugs = 0 => Cached \subseteq plugged

\* A scan no glitch and no hotplug disturbs finds each sensor once: the
\* passes follow distinct paths of the search (onewire.rs:445-454), so no
\* sensor fills two places of the cache, or of the report, for good.
NoDuplicate ==
    quiet => \A j, k \in 1 .. Len(addresses) : j # k => addresses[j] # addresses[k]

ScanOk == phase = "scan" /\ scan = "ok" /\ quiet

\* With one or two sensors, what ow_loop has room for, an undisturbed scan
\* finds them all, whatever their addresses (ds18b20.rs:76-95).
TwoSensorsFound == ScanOk /\ Cardinality(plugged) <= 2 => Cached = plugged

\* Search "enumerat[es] every device address on the bus" (onewire.rs:354).
EverySensorFound == ScanOk => Cached = plugged

\* What on_temperatures gets is of this cycle's conversion, never the value
\* the scratchpad held before it (ds18b20.rs:110-113).
FreshReport ==
    phase = "tick" /\ calm => \A k \in 1 .. Len(report) : report[k].fresh

\* Places of members of S among the first n of s.
Places(s, S, n) == {i \in 1 .. n : s[i] \in S}

\* An undisturbed cycle reports the first sensors of the cache that are on
\* the bus, as many as the buffer takes and in the order of the cache: one that
\* went away earlier costs no other its place, and one that came back is read
\* again (ds18b20.rs:115-129).
ReportComplete ==
    phase = "tick" /\ calm =>
        LET there == Cardinality(Places(addresses, plugged, Len(addresses)))
        IN  /\ Len(report) = IF there < BufSize THEN there ELSE BufSize
            /\ \A k \in 1 .. Len(report) : \E i \in Places(addresses, plugged, Len(addresses)) :
                    /\ report[k].rom = addresses[i]
                    /\ Cardinality(Places(addresses, plugged, i)) = k

\* A conversion that lasts no longer than the datasheet allows never ends the
\* loop with a time-out, however late the task runs after its last sample
\* within the margin of the limit (ds18b20.rs:139-154).
TimeoutIsReal == failure = "ConversionTimeout" => dead # {} \/ glitches > 0

=============================================================================
